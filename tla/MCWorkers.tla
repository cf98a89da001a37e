------------------------------ MODULE MCWorkers ------------------------------
\* The job queue and the media analysis in one run of TLC.  They share no state; a
\* behaviour runs one of them and leaves the other where it begins.
EXTENDS MCJobQueue, MCMediaAnalysis

VARIABLE part

MCInit == part \in {"queue", "analysis"} /\ Init /\ AnalysisInit

MCNext ==
    /\ UNCHANGED part
    /\ \/ part = "queue" /\ Next /\ UNCHANGED analysisVars
       \/ part = "analysis" /\ AnalysisNext /\ UNCHANGED vars
          /\ tab3 \notin subs'[first] \cup subs'[second]
          /\ subs'[other] \subseteq {tab2, tab3}

\* Each part is as fair as it is on its own.
QueueIsFair ==
    LET InPart(A) == part = "queue" /\ A IN
    /\ \A c \in Clients : WF_vars(InPart(ClientStep(c)))
    /\ \A w \in Workers : WF_vars(InPart(LoopStep(w))) /\ WF_vars(InPart(SweepStep(w)))
    /\ \A i \in Ids : WF_vars(InPart(HeartbeatAges(i)))

AnalysisIsFair ==
    LET InPart(A) == part = "analysis" /\ A IN
    /\ \A r \in Requests : /\ WF_analysisVars(InPart(LoadStep(r)))
                           /\ WF_analysisVars(InPart(TimesOut(r)))
    /\ \A c \in Callers : WF_analysisVars(InPart(Answer(c)))

MCSpec ==
    /\ MCInit /\ [][MCNext]_<<part, vars, analysisVars>>
    /\ QueueIsFair /\ AnalysisIsFair
=============================================================================
