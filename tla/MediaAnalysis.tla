---------------------------- MODULE MediaAnalysis ----------------------------
(***************************************************************************)
(* The analysis of an audio object in the worker (api/lib/media-service.ts, *)
(* POST /analyze of api/worker.ts): callers share the analysis of the same  *)
(* version of an object, an analysis takes a slot, copies the object to a   *)
(* private directory, runs ffmpeg over it and stores the result in          *)
(* media_cache.  A load is stopped by its last caller going away, or by a   *)
(* timer of its own that also covers the time it queues; but the opening of *)
(* an entry of a compressed archive can hang for ever, and nothing stops it *)
(* then.                                                                    *)
(*                                                                          *)
(* A key is mediaCacheKey: connection, bucket, key, entry and ETag.         *)
(***************************************************************************)
EXTENDS SharedRequests, Semaphore

CONSTANT Compressed    \* the keys of entries of compressed archives

ASSUME AnalysisAssumption == Compressed \subseteq SharedKeys

VARIABLES
    lpc,           \* where analyzeAndCache of a request is
    timedOut,      \* its AbortSignal.timeout
    stored         \* the keys with a row in media_cache

mediaVars == <<lpc, timedOut, stored>>
analysisVars == <<sharedVars, semaphoreVars, mediaVars>>

AnalysisInit ==
    /\ SharedInit
    /\ SemaphoreInit
    /\ lpc = [r \in Requests |-> "none"]
    /\ timedOut = [r \in Requests |-> FALSE]
    /\ stored = {}

\* AbortSignal.any([upstreamSignal, AbortSignal.timeout(...)])
Stopped(r) == cancelled[r] \/ timedOut[r]

Goto(r, pc) == lpc' = [lpc EXCEPT ![r] = pc]

\* The promise of the load is resolved or rejected.
Settle(r) ==
    /\ state' = [state EXCEPT ![r] = "settled"]
    /\ Goto(r, "none")

-----------------------------------------------------------------------------
(* analyzeOne: callers come and go.                                         *)

Ask(c, k) ==
    /\ \/ Join(c, k) /\ UNCHANGED lpc
       \/ \E r \in Requests : Create(c, k, r) /\ Goto(r, "lookup")
    /\ UNCHANGED <<semaphoreVars, timedOut, stored>>

\* mutant: acquire() leaves no listener on the signal
StopsQueueing_NoListener(r) == UNCHANGED <<semaphoreVars, state, lpc>>

\* A load that queues is rejected by the listener acquire() left on its signal.
StopsQueueing(r) ==
    IF lpc[r] = "queued"
    THEN LeaveQueue(r) /\ Settle(r)
    ELSE UNCHANGED <<semaphoreVars, state, lpc>>

HangUp(c) ==
    /\ \E r \in Requests :
          /\ Abort(c, r)
          /\ IF subs[r] = {c} THEN StopsQueueing(r)
             ELSE UNCHANGED <<semaphoreVars, state, lpc>>
    /\ UNCHANGED <<timedOut, stored>>

TimesOut(r) ==
    /\ state[r] = "loading" /\ ~timedOut[r]
    /\ timedOut' = [timedOut EXCEPT ![r] = TRUE]
    /\ StopsQueueing(r)
    /\ UNCHANGED <<pending, subs, cancelled, stored>>

Settled(r) ==
    /\ Finally(r)
    /\ timedOut' = [timedOut EXCEPT ![r] = FALSE]
    /\ UNCHANGED <<semaphoreVars, lpc, stored>>

Answer(c) ==
    /\ \E r \in Requests : Deliver(c, r)
    /\ UNCHANGED <<semaphoreVars, mediaVars>>

-----------------------------------------------------------------------------
(* analyzeAndCache.                                                         *)

\* getCachedMedia finds the row or fails ...
LookupEnds(r) ==
    /\ lpc[r] = "lookup"
    /\ Settle(r)
    /\ UNCHANGED <<pending, subs, cancelled, semaphoreVars, timedOut, stored>>

\* ... or finds none: acquire() throws, takes a slot or queues.
Acquire(r) ==
    /\ lpc[r] = "lookup"
    /\ KeyOf[r] \notin stored
    /\ \/ ~Stopped(r) /\ TakeSlot /\ Goto(r, "opening") /\ UNCHANGED state
       \/ ~Stopped(r) /\ Queue(r) /\ Goto(r, "queued") /\ UNCHANGED state
       \/ (Stopped(r) \/ QueueFull) /\ Settle(r) /\ UNCHANGED semaphoreVars
    /\ UNCHANGED <<pending, subs, cancelled, timedOut, stored>>

\* getStorage and openMediaSource; then spoolMediaInput makes its directory.
Open(r) ==
    /\ lpc[r] = "opening" /\ ~Stopped(r)
    /\ Goto(r, "spooling")
    /\ UNCHANGED <<sharedVars, semaphoreVars, timedOut, stored>>

\* extractTarEntry has found the entry and the body fails, or is destroyed by an
\* abort or by the timer, before the entry ends: its promise is never settled.
Hangs(r) ==
    /\ lpc[r] = "opening" /\ KeyOf[r] \in Compressed
    /\ Goto(r, "hung")
    /\ UNCHANGED <<sharedVars, semaphoreVars, timedOut, stored>>

Spool(r) ==
    /\ lpc[r] = "spooling" /\ ~Stopped(r)
    /\ Goto(r, "analyzing")
    /\ UNCHANGED <<sharedVars, semaphoreVars, timedOut, stored>>

\* analyzeAudio, then throwIfAborted before the upsert.
Analyze(r) ==
    /\ lpc[r] = "analyzing" /\ ~Stopped(r)
    /\ Goto(r, "storing")
    /\ UNCHANGED <<sharedVars, semaphoreVars, timedOut, stored>>

\* The copy or the analysis fails or is stopped.
Fails(r) ==
    /\ lpc[r] \in {"spooling", "analyzing"}
    /\ Goto(r, "removing")
    /\ UNCHANGED <<sharedVars, semaphoreVars, timedOut, stored>>

\* upsertMediaCache; no signal reaches the query, and it may fail.
Store(r) ==
    /\ lpc[r] = "storing"
    /\ Goto(r, "removing")
    /\ stored' \in {stored, stored \cup {KeyOf[r]}}
    /\ UNCHANGED <<sharedVars, semaphoreVars, timedOut>>

\* mutant: after an error before the copy the slot is not returned
GiveBack_NotWhenOpening(r) ==
    /\ IF lpc[r] = "opening" THEN UNCHANGED semaphoreVars ELSE ReleaseSlot
    /\ state' = [state EXCEPT ![r] = "settled"]
    /\ lpc' = [q \in Requests |->
                 CASE q = r -> "none"
                   [] q # r /\ waiters # <<>> /\ lpc[r] # "opening" /\ q = Head(waiters) -> "opening"
                   [] OTHER -> lpc[q]]

\* finally { release() }: the slot goes to the first waiter.
GiveBack(r) ==
    /\ ReleaseSlot
    /\ state' = [state EXCEPT ![r] = "settled"]
    /\ lpc' = [q \in Requests |->
                 CASE q = r -> "none"
                   [] q # r /\ waiters # <<>> /\ q = Head(waiters) -> "opening"
                   [] OTHER -> lpc[q]]

\* getStorage or openMediaSource throws, or the directory has been removed.
LoadEnds(r) ==
    /\ lpc[r] \in {"opening", "removing"}
    /\ GiveBack(r)
    /\ UNCHANGED <<pending, subs, cancelled, timedOut, stored>>

\* cleanup(): rows older than MEDIA_CACHE_MAX_AGE_DAYS are deleted.
CleanUp(k) ==
    /\ k \in stored
    /\ stored' = stored \ {k}
    /\ UNCHANGED <<sharedVars, semaphoreVars, lpc, timedOut>>

-----------------------------------------------------------------------------
LoadStep(r) ==
    \/ LookupEnds(r) \/ Acquire(r) \/ Open(r) \/ Spool(r) \/ Analyze(r)
    \/ Fails(r) \/ Store(r) \/ LoadEnds(r) \/ Settled(r)

AnalysisNext ==
    \/ \E c \in Callers : HangUp(c) \/ Answer(c) \/ \E k \in SharedKeys : Ask(c, k)
    \/ \E r \in Requests : LoadStep(r) \/ Hangs(r) \/ TimesOut(r)
    \/ \E k \in SharedKeys : CleanUp(k)

AnalysisSpec == AnalysisInit /\ [][AnalysisNext]_analysisVars

\* Every await of a load but the one that hangs ends (queries, transfers and ffmpeg
\* have time limits), callbacks run, and the timer of a load, of the runtime, fires.
\* No caller has to ask or to hang up.
AnalysisFairness ==
    /\ \A r \in Requests : WF_analysisVars(LoadStep(r)) /\ WF_analysisVars(TimesOut(r))
    /\ \A c \in Callers : WF_analysisVars(Answer(c))

AnalysisFairSpec == AnalysisSpec /\ AnalysisFairness

-----------------------------------------------------------------------------
(* Properties.                                                              *)

Holders == {r \in Requests :
              lpc[r] \in {"opening", "hung", "spooling", "analyzing", "storing", "removing"}}

\* The shape of the state; at most Limit slots are given out.
AnalysisTypeOK ==
    /\ SharedOK
    /\ active \in 0 .. Limit
    /\ waiters \in Seq(Requests)
    /\ lpc \in [Requests -> {"none", "lookup", "queued", "opening", "hung", "spooling",
                             "analyzing", "storing", "removing"}]
    /\ timedOut \in [Requests -> BOOLEAN]
    /\ stored \subseteq SharedKeys

\* The count of slots is exact on every path a load can end or hang by, so that the
\* directories on the disk are as many as MEDIA_CONCURRENCY at most; and no
\* load queues beside a free slot.
SlotsAreExact ==
    /\ active = Cardinality(Holders)
    /\ waiters # <<>> => active = Limit

\* Whoever queues for a slot still has somebody waiting for it: a slot is never
\* handed to a load that was abandoned or has timed out meanwhile.
WaitersAreWanted ==
    \A i \in DOMAIN waiters :
       /\ lpc[waiters[i]] = "queued"
       /\ subs[waiters[i]] # {}
       /\ ~timedOut[waiters[i]]

\* Slots are given out and taken back exactly, and only to loads that are wanted.
SlotsGoToTheWanted == SlotsAreExact /\ WaitersAreWanted

\* Every caller is answered, whatever the other callers do and however many slots
\* are lost to openings that hang: only a caller of such a load itself may wait
\* for ever.  A load that queues behind one is ended by its timer.
WaitsOnHung(c) == \E r \in Requests : c \in subs[r] /\ lpc[r] = "hung"
EveryCallerIsAnswered == \A c \in Callers : Asking(c) ~> ~Asking(c) \/ WaitsOnHung(c)
=============================================================================
