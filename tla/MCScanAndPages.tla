-------------------------- MODULE MCScanAndPages --------------------------
\* The capacity history and the worker's cache of connections under fairness, and the
\* pages of MCPages: a behaviour has a part or a page, and where it has none there is one
\* state.
EXTENDS MCScanAndGuards, MCPages

LiveInit ==
    \/ part \in {"capacity", "worker"} /\ BeginScan /\ BeginPage({"none"})
    \/ part = "none" /\ BeginScan /\ PagesInit

LiveNext ==
    /\ UNCHANGED part
    /\ \/ page = "none" /\ ScanNext /\ UNCHANGED pageVars
       \/ part = "none" /\ PagesNext /\ UNCHANGED scanPartVars

LiveSpec ==
    LiveInit /\ [][LiveNext]_<<part, scanPartVars, pageVars>> /\ Fairness /\ ConnFairness
=============================================================================
