--------------------------- MODULE JobQueueProofs ---------------------------
(* Theorems about JobQueue for every number of rows, targets, workers and   *)
(* callers and for every attempt limit.                                     *)
EXTENDS JobQueue, WellFoundedInduction, TLAPS

\* Rows the sequence has not reached are not in the table, a row outside the
\* table carries no attempts, a loop that is busy holds a row, and a call in
\* progress has a target.
Bookkeeping ==
    /\ \A i \in Ids : i >= nextId => status[i] = "absent"
    /\ \A i \in Ids : status[i] = "absent" => attempts[i] = 0
    /\ \A w \in Workers : wpc[w] # "idle" => wjob[w] \in Ids
    /\ \A c \in Clients : cpc[c] # "idle" => ckey[c] \in Keys

\* The inductive invariant.
QueueInv == TypeOK /\ Bookkeeping /\ PoisonIsBounded

LEMMA InitQueueInv == Init => QueueInv
BY JobQueueAssumption
   DEF Init, QueueInv, TypeOK, RowsOK, LoopsOK, CallsOK, Bookkeeping, PoisonIsBounded,
       Ids, ActiveStatus, TerminalStatus

-----------------------------------------------------------------------------
(* The helper operators preserve the part of the type they touch.           *)

LEMMA ReleaseLoops ==
    ASSUME LoopsOK, NEW w \in Workers, Release(w), UNCHANGED sweep
    PROVE  LoopsOK'
BY JobQueueAssumption DEF LoopsOK, Release

LEMMA CloseClock ==
    ASSUME RowsOK, NEW i, NEW s, Close(i, s)
    PROVE  closings' \in Nat /\ finishedAt' \in [Ids -> Nat]
<1>1. closings \in Nat /\ finishedAt \in [Ids -> Nat]
    BY DEF RowsOK
<1>2. closings + 1 \in Nat
    BY <1>1
<1>3. closings' = closings + 1 /\ finishedAt' = [finishedAt EXCEPT ![i] = closings + 1]
    BY DEF Close
<1> QED
    BY <1>1, <1>2, <1>3

LEMMA CloseRows ==
    ASSUME RowsOK, NEW i, NEW s \in TerminalStatus, Close(i, s),
           UNCHANGED <<keyOf, attempts, beat, error, nextId>>
    PROVE  RowsOK'
<1>1. closings' \in Nat /\ finishedAt' \in [Ids -> Nat]
    BY CloseClock
<1>2. status' \in [Ids -> {"absent"} \cup ActiveStatus \cup TerminalStatus]
    BY DEF RowsOK, Close
<1> QED
    BY <1>1, <1>2 DEF RowsOK

LEMMA UnchangedRows == ASSUME RowsOK, UNCHANGED rowVars PROVE RowsOK'
BY DEF RowsOK, rowVars

LEMMA UnchangedLoops == ASSUME LoopsOK, UNCHANGED workerVars, UNCHANGED sweep PROVE LoopsOK'
BY DEF LoopsOK, workerVars

LEMMA UnchangedCalls == ASSUME CallsOK, UNCHANGED clientVars PROVE CallsOK'
BY DEF CallsOK, clientVars

-----------------------------------------------------------------------------
LEMMA StepTypeOK == QueueInv /\ [Next]_vars => TypeOK'
<1> SUFFICES ASSUME QueueInv, [Next]_vars PROVE TypeOK'
    OBVIOUS
<1>0. RowsOK /\ LoopsOK /\ CallsOK /\ Bookkeeping
    BY DEF QueueInv, TypeOK
<1> USE JobQueueAssumption DEF TypeOK, Ids, ActiveStatus, TerminalStatus
<1>1. ASSUME NEW c \in Clients, NEW k \in Keys, BeginEnqueue(c, k) PROVE TypeOK'
    <2>1. CallsOK'
        BY <1>0, <1>1 DEF BeginEnqueue, CallsOK
    <2> QED
        BY <1>0, <1>1, <2>1, UnchangedRows, UnchangedLoops DEF BeginEnqueue
<1>2. ASSUME NEW c \in Clients, Insert(c) PROVE TypeOK'
    <2>1. CallsOK'
        BY <1>0, <1>2 DEF Insert, CallsOK, RowsOK
    <2>2. RowsOK'
        BY <1>0, <1>2 DEF Insert, CallsOK, RowsOK
    <2> QED
        BY <1>0, <1>2, <2>1, <2>2, UnchangedLoops DEF Insert
<1>3. ASSUME NEW c \in Clients, InsertConflict(c) PROVE TypeOK'
    <2>1. CallsOK'
        BY <1>0, <1>3 DEF InsertConflict, CallsOK
    <2> QED
        BY <1>0, <1>3, <2>1, UnchangedRows, UnchangedLoops DEF InsertConflict
<1>4. ASSUME NEW c \in Clients, Lookup(c) PROVE TypeOK'
    <2>1. ASSUME \E i \in ActiveFor(ckey[c]) : /\ cpc' = [cpc EXCEPT ![c] = "idle"]
                                              /\ cgot' = [cgot EXCEPT ![c] = i]
          PROVE  CallsOK'
        <3>1. PICK i \in Ids : /\ cpc' = [cpc EXCEPT ![c] = "idle"]
                               /\ cgot' = [cgot EXCEPT ![c] = i]
            BY <2>1 DEF ActiveFor
        <3> QED
            BY <1>0, <1>4, <3>1 DEF Lookup, CallsOK
    <2>2. ASSUME cpc' = [cpc EXCEPT ![c] = "insert"], UNCHANGED cgot
          PROVE  CallsOK'
        BY <1>0, <1>4, <2>2 DEF Lookup, CallsOK
    <2>3. CallsOK'
        BY <1>4, <2>1, <2>2 DEF Lookup
    <2> QED
        BY <1>0, <1>4, <2>3, UnchangedRows, UnchangedLoops DEF Lookup
<1>5. ASSUME NEW w \in Workers, Claim(w) PROVE TypeOK'
    <2>1. RowsOK'
        BY <1>0, <1>5 DEF Claim, RowsOK
    <2>2. LoopsOK'
        BY <1>0, <1>5 DEF Claim, RowsOK, LoopsOK
    <2> QED
        BY <1>0, <1>5, <2>1, <2>2, UnchangedCalls DEF Claim
<1>6. ASSUME NEW w \in Workers, SetProgress(w) PROVE TypeOK'
    <2>1. RowsOK'
        BY <1>0, <1>6 DEF SetProgress, RowsOK
    <2>2. LoopsOK'
        <3>1. UNCHANGED <<wpc, wjob, wtry, sweep>>
            BY <1>6 DEF SetProgress
        <3>2. aborted' \in [Workers -> BOOLEAN]
            BY <1>0, <1>6 DEF SetProgress, LoopsOK
        <3> QED
            BY <1>0, <3>1, <3>2 DEF LoopsOK
    <2> QED
        BY <1>0, <1>6, <2>1, <2>2, UnchangedCalls DEF SetProgress
<1>7. ASSUME NEW w \in Workers, HandlerEnds(w) PROVE TypeOK'
    <2>1. ASSUME Release(w) PROVE LoopsOK'
        BY <1>0, <1>7, <2>1, ReleaseLoops DEF HandlerEnds
    <2>2. ASSUME \E next \in {"finishing", "failing"} : wpc' = [wpc EXCEPT ![w] = next],
                 UNCHANGED <<wjob, wtry, aborted>>
          PROVE  LoopsOK'
        BY <1>0, <1>7, <2>2 DEF HandlerEnds, LoopsOK
    <2>3. LoopsOK'
        BY <1>7, <2>1, <2>2 DEF HandlerEnds
    <2> QED
        BY <1>0, <1>7, <2>3, UnchangedRows, UnchangedCalls DEF HandlerEnds
<1>8. ASSUME NEW w \in Workers, Finish(w) PROVE TypeOK'
    <2>1. LoopsOK'
        BY <1>0, <1>8, ReleaseLoops DEF Finish
    <2>2. ASSUME Close(wjob[w], "done") PROVE RowsOK'
        BY <1>0, <1>8, <2>2, CloseRows DEF Finish
    <2>3. ASSUME UNCHANGED <<status, finishedAt, closings>> PROVE RowsOK'
        BY <1>0, <1>8, <2>3, UnchangedRows DEF Finish, rowVars
    <2>4. RowsOK'
        BY <1>8, <2>2, <2>3 DEF Finish
    <2> QED
        BY <1>0, <1>8, <2>1, <2>4, UnchangedCalls DEF Finish
<1>9. ASSUME NEW w \in Workers, FinishThrows(w) PROVE TypeOK'
    <2>1. ASSUME Release(w) PROVE LoopsOK'
        BY <1>0, <1>9, <2>1, ReleaseLoops DEF FinishThrows
    <2>2. ASSUME wpc' = [wpc EXCEPT ![w] = "failing"], UNCHANGED <<wjob, wtry, aborted>>
          PROVE  LoopsOK'
        BY <1>0, <1>9, <2>2 DEF FinishThrows, LoopsOK
    <2>3. LoopsOK'
        BY <1>9, <2>1, <2>2 DEF FinishThrows
    <2> QED
        BY <1>0, <1>9, <2>3, UnchangedRows, UnchangedCalls DEF FinishThrows
<1>10. ASSUME NEW w \in Workers, Fail(w) PROVE TypeOK'
    <2>1. LoopsOK'
        BY <1>0, <1>10, ReleaseLoops DEF Fail
    <2>2. ASSUME Close(wjob[w], "error"), error' = [error EXCEPT ![wjob[w]] = "handler"]
          PROVE  RowsOK'
        <3>1. closings' \in Nat /\ finishedAt' \in [Ids -> Nat]
            BY <1>0, <2>2, CloseClock
        <3>2. status' \in [Ids -> {"absent"} \cup ActiveStatus \cup TerminalStatus]
            BY <1>0, <2>2 DEF Close, RowsOK
        <3>3. error' \in [Ids -> {"none", "handler", "stopped"}]
            BY <1>0, <2>2 DEF RowsOK
        <3> QED
            BY <1>0, <1>10, <3>1, <3>2, <3>3 DEF Fail, RowsOK
    <2>3. ASSUME UNCHANGED <<status, finishedAt, closings, error>> PROVE RowsOK'
        BY <1>0, <1>10, <2>3, UnchangedRows DEF Fail, rowVars
    <2>4. RowsOK'
        BY <1>10, <2>2, <2>3 DEF Fail
    <2> QED
        BY <1>0, <1>10, <2>1, <2>4, UnchangedCalls DEF Fail
<1>11. ASSUME NEW w \in Workers, FailThrows(w) PROVE TypeOK'
    BY <1>0, <1>11, ReleaseLoops, UnchangedRows, UnchangedCalls DEF FailThrows
<1>12. ASSUME NEW w \in Workers, Crash(w) PROVE TypeOK'
    <2>1. LoopsOK'
        BY <1>0, <1>12 DEF Crash, Release, LoopsOK
    <2> QED
        BY <1>0, <1>12, <2>1, UnchangedRows, UnchangedCalls DEF Crash
<1>13. ASSUME NEW i \in Ids, Cancel(i) PROVE TypeOK'
    BY <1>0, <1>13, CloseRows, UnchangedLoops, UnchangedCalls DEF Cancel
<1>14. ASSUME NEW i \in Ids, HeartbeatAges(i) PROVE TypeOK'
    <2>1. RowsOK'
        BY <1>0, <1>14 DEF HeartbeatAges, RowsOK
    <2> QED
        BY <1>0, <1>14, <2>1, UnchangedLoops, UnchangedCalls DEF HeartbeatAges
<1>15. ASSUME NEW w \in Workers, RequeueStale(w) PROVE TypeOK'
    <2>1. RowsOK'
        BY <1>0, <1>15 DEF RequeueStale, RowsOK
    <2>2. LoopsOK'
        BY <1>0, <1>15 DEF RequeueStale, LoopsOK, workerVars
    <2> QED
        BY <1>0, <1>15, <2>1, <2>2, UnchangedCalls DEF RequeueStale
<1>16. ASSUME NEW w \in Workers, BuryStale(w) PROVE TypeOK'
    <2>1. closings' \in Nat /\ finishedAt' \in [Ids -> Nat]
        BY <1>0, <1>16 DEF BuryStale, RowsOK
    <2>2. RowsOK'
        BY <1>0, <1>16, <2>1 DEF BuryStale, RowsOK
    <2>3. LoopsOK'
        BY <1>0, <1>16 DEF BuryStale, LoopsOK, workerVars
    <2> QED
        BY <1>0, <1>16, <2>2, <2>3, UnchangedCalls DEF BuryStale
<1>17. ASSUME NEW cut \in 1 .. closings, PruneFinished(cut) PROVE TypeOK'
    <2>1. RowsOK'
        BY <1>0, <1>17 DEF PruneFinished, RowsOK
    <2> QED
        BY <1>0, <1>17, <2>1, UnchangedLoops, UnchangedCalls DEF PruneFinished
<1>18. CASE UNCHANGED vars
    BY <1>0, <1>18, UnchangedRows, UnchangedLoops, UnchangedCalls DEF vars
<1> QED
    BY <1>1, <1>2, <1>3, <1>4, <1>5, <1>6, <1>7, <1>8, <1>9, <1>10, <1>11, <1>12,
       <1>13, <1>14, <1>15, <1>16, <1>17, <1>18
       DEF Next, ClientStep, LoopStep, SweepStep

LEMMA StepBookkeeping == QueueInv /\ [Next]_vars => Bookkeeping'
<1> SUFFICES ASSUME QueueInv, [Next]_vars PROVE Bookkeeping'
    OBVIOUS
<1>0. RowsOK /\ LoopsOK /\ CallsOK /\ Bookkeeping
    BY DEF QueueInv, TypeOK
<1> USE <1>0, JobQueueAssumption
        DEF Bookkeeping, RowsOK, LoopsOK, CallsOK, Ids, ActiveStatus, TerminalStatus
<1>1. ASSUME NEW c \in Clients, NEW k \in Keys, BeginEnqueue(c, k) PROVE Bookkeeping'
    BY <1>1 DEF BeginEnqueue, rowVars, workerVars
<1>2. ASSUME NEW c \in Clients, Insert(c) PROVE Bookkeeping'
    BY <1>2 DEF Insert, workerVars
<1>3. ASSUME NEW c \in Clients, InsertConflict(c) PROVE Bookkeeping'
    BY <1>3 DEF InsertConflict, rowVars, workerVars
<1>4. ASSUME NEW c \in Clients, Lookup(c) PROVE Bookkeeping'
    <2>1. UNCHANGED <<rowVars, workerVars, ckey>>
        BY <1>4 DEF Lookup
    <2>2. \A d \in Clients : cpc'[d] # "idle" => cpc[d] # "idle"
        BY <1>4 DEF Lookup
    <2> QED
        BY <2>1, <2>2 DEF rowVars, workerVars
<1>5. ASSUME NEW w \in Workers, Claim(w) PROVE Bookkeeping'
    BY <1>5 DEF Claim, Oldest, clientVars
<1>6. ASSUME NEW w \in Workers, SetProgress(w) PROVE Bookkeeping'
    BY <1>6 DEF SetProgress, clientVars
<1>7. ASSUME NEW w \in Workers, HandlerEnds(w) PROVE Bookkeeping'
    <2>1. \A v \in Workers : wpc'[v] # "idle" => wpc[v] # "idle" /\ wjob'[v] = wjob[v]
        BY <1>7 DEF HandlerEnds, Release
    <2> QED
        BY <1>7, <2>1 DEF HandlerEnds, rowVars, clientVars
<1>8. ASSUME NEW w \in Workers, Finish(w) PROVE Bookkeeping'
    <2>1. \A v \in Workers : wpc'[v] # "idle" => wpc[v] # "idle" /\ wjob'[v] = wjob[v]
        BY <1>8 DEF Finish, Release
    <2>2. \A i \in Ids : status'[i] = "absent" <=> status[i] = "absent"
        BY <1>8 DEF Finish, Close
    <2> QED
        BY <1>8, <2>1, <2>2 DEF Finish, clientVars
<1>9. ASSUME NEW w \in Workers, FinishThrows(w) PROVE Bookkeeping'
    <2>1. \A v \in Workers : wpc'[v] # "idle" => wpc[v] # "idle" /\ wjob'[v] = wjob[v]
        BY <1>9 DEF FinishThrows, Release
    <2> QED
        BY <1>9, <2>1 DEF FinishThrows, rowVars, clientVars
<1>10. ASSUME NEW w \in Workers, Fail(w) PROVE Bookkeeping'
    <2>1. \A v \in Workers : wpc'[v] # "idle" => wpc[v] # "idle" /\ wjob'[v] = wjob[v]
        BY <1>10 DEF Fail, Release
    <2>2. \A i \in Ids : status'[i] = "absent" <=> status[i] = "absent"
        BY <1>10 DEF Fail, Close
    <2> QED
        BY <1>10, <2>1, <2>2 DEF Fail, clientVars
<1>11. ASSUME NEW w \in Workers, FailThrows(w) PROVE Bookkeeping'
    BY <1>11 DEF FailThrows, Release, rowVars, clientVars
<1>12. ASSUME NEW w \in Workers, Crash(w) PROVE Bookkeeping'
    BY <1>12 DEF Crash, Release, rowVars, clientVars
<1>13. ASSUME NEW i \in Ids, Cancel(i) PROVE Bookkeeping'
    BY <1>13 DEF Cancel, Close, Active, workerVars, clientVars
<1>14. ASSUME NEW i \in Ids, HeartbeatAges(i) PROVE Bookkeeping'
    BY <1>14 DEF HeartbeatAges, workerVars, clientVars
<1>15. ASSUME NEW w \in Workers, RequeueStale(w) PROVE Bookkeeping'
    BY <1>15 DEF RequeueStale, Stale, workerVars, clientVars
<1>16. ASSUME NEW w \in Workers, BuryStale(w) PROVE Bookkeeping'
    BY <1>16 DEF BuryStale, Stale, workerVars, clientVars
<1>17. ASSUME NEW cut \in 1 .. closings, PruneFinished(cut) PROVE Bookkeeping'
    BY <1>17 DEF PruneFinished, workerVars, clientVars
<1>18. CASE UNCHANGED vars
    BY <1>18 DEF vars, rowVars, workerVars, clientVars
<1> QED
    BY <1>1, <1>2, <1>3, <1>4, <1>5, <1>6, <1>7, <1>8, <1>9, <1>10, <1>11, <1>12,
       <1>13, <1>14, <1>15, <1>16, <1>17, <1>18
       DEF Next, ClientStep, LoopStep, SweepStep

-----------------------------------------------------------------------------
(* What a step does to the table, whoever takes it.                          *)

Kept == UNCHANGED <<status, keyOf, attempts, finishedAt, error, nextId, closings>>

\* Row i, still open, gets outcome s: a finish, a fail or a cancel.
Closed(i, s) ==
    /\ Active(i)
    /\ Close(i, s)
    /\ \A j \in Ids \ {i} : error'[j] = error[j]
    /\ UNCHANGED <<keyOf, attempts, nextId>>

TableStep ==
    \/ Kept
    \/ \E c \in Clients : Insert(c)
    \/ \E w \in Workers : Claim(w)
    \/ \E i \in Ids, s \in TerminalStatus : Closed(i, s)
    \/ \E w \in Workers : RequeueStale(w)
    \/ \E w \in Workers : BuryStale(w)
    \/ \E cut \in 1 .. closings : PruneFinished(cut)

LEMMA TableSteps == QueueInv /\ [Next]_vars => TableStep
<1> SUFFICES ASSUME QueueInv, [Next]_vars PROVE TableStep
    OBVIOUS
<1>0. RowsOK /\ LoopsOK /\ Bookkeeping
    BY DEF QueueInv, TypeOK
<1>1. ASSUME NEW c \in Clients, NEW k \in Keys, BeginEnqueue(c, k) PROVE Kept
    BY <1>1 DEF BeginEnqueue, rowVars, Kept
<1>2. ASSUME NEW c \in Clients, InsertConflict(c) \/ Lookup(c) PROVE Kept
    BY <1>2 DEF InsertConflict, Lookup, rowVars, Kept
<1>3. ASSUME NEW w \in Workers, SetProgress(w) PROVE Kept
    BY <1>3 DEF SetProgress, Kept
<1>4. ASSUME NEW w \in Workers, HandlerEnds(w) \/ FinishThrows(w) \/ FailThrows(w) \/ Crash(w)
      PROVE  Kept
    BY <1>4 DEF HandlerEnds, FinishThrows, FailThrows, Crash, rowVars, Kept
<1>5. ASSUME NEW w \in Workers, Finish(w) PROVE TableStep
    <2>1. wjob[w] \in Ids
        BY <1>0, <1>5 DEF Finish, Bookkeeping
    <2>2. CASE status[wjob[w]] = "running"
        <3>1. Closed(wjob[w], "done")
            BY <1>5, <2>2 DEF Finish, Closed, Active, ActiveStatus
        <3> QED
            BY <2>1, <3>1 DEF TableStep, TerminalStatus
    <2>3. CASE status[wjob[w]] # "running"
        BY <1>5, <2>3 DEF Finish, TableStep, Kept
    <2> QED
        BY <2>2, <2>3
<1>6. ASSUME NEW w \in Workers, Fail(w) PROVE TableStep
    <2>1. wjob[w] \in Ids
        BY <1>0, <1>6 DEF Fail, Bookkeeping
    <2>2. CASE status[wjob[w]] = "running"
        <3>1. Closed(wjob[w], "error")
            BY <1>0, <1>6, <2>2 DEF Fail, Closed, Active, ActiveStatus, RowsOK
        <3> QED
            BY <2>1, <3>1 DEF TableStep, TerminalStatus
    <2>3. CASE status[wjob[w]] # "running"
        BY <1>6, <2>3 DEF Fail, TableStep, Kept
    <2> QED
        BY <2>2, <2>3
<1>7. ASSUME NEW i \in Ids, Cancel(i) PROVE TableStep
    <2>1. Closed(i, "canceled")
        BY <1>7 DEF Cancel, Closed
    <2> QED
        BY <2>1 DEF TableStep, TerminalStatus
<1>8. ASSUME NEW i \in Ids, HeartbeatAges(i) PROVE Kept
    BY <1>8 DEF HeartbeatAges, Kept
<1>9. CASE UNCHANGED vars
    BY <1>9 DEF vars, rowVars, TableStep, Kept
<1> QED
    BY <1>1, <1>2, <1>3, <1>4, <1>5, <1>6, <1>7, <1>8, <1>9
       DEF Next, ClientStep, LoopStep, SweepStep, TableStep

-----------------------------------------------------------------------------
LEMMA StepPoison == QueueInv /\ [Next]_vars => PoisonIsBounded'
<1> SUFFICES ASSUME QueueInv, [Next]_vars PROVE PoisonIsBounded'
    OBVIOUS
<1>0. RowsOK /\ Bookkeeping /\ PoisonIsBounded
    BY DEF QueueInv, TypeOK
<1> USE <1>0, JobQueueAssumption DEF PoisonIsBounded
<1>1. CASE Kept
    BY <1>1 DEF Kept
<1>2. ASSUME NEW c \in Clients, Insert(c) PROVE PoisonIsBounded'
    BY <1>2 DEF Insert, Bookkeeping, RowsOK
<1>3. ASSUME NEW w \in Workers, Claim(w) PROVE PoisonIsBounded'
    BY <1>3 DEF Claim, Oldest, RowsOK
<1>4. ASSUME NEW i \in Ids, NEW s \in TerminalStatus, Closed(i, s) PROVE PoisonIsBounded'
    BY <1>4 DEF Closed, Close, RowsOK, TerminalStatus
<1>5. ASSUME NEW w \in Workers, RequeueStale(w) PROVE PoisonIsBounded'
    BY <1>5 DEF RequeueStale, Retryable
<1>6. ASSUME NEW w \in Workers, BuryStale(w) PROVE PoisonIsBounded'
    BY <1>6 DEF BuryStale
<1>7. ASSUME NEW cut \in 1 .. closings, PruneFinished(cut) PROVE PoisonIsBounded'
    BY <1>7 DEF PruneFinished
<1> QED
    BY TableSteps, <1>1, <1>2, <1>3, <1>4, <1>5, <1>6, <1>7 DEF TableStep

LEMMA QueueInvariant == Spec => []QueueInv
<1>1. QueueInv /\ [Next]_vars => QueueInv'
    BY StepTypeOK, StepBookkeeping, StepPoison DEF QueueInv
<1> QED
    BY InitQueueInv, <1>1, PTL DEF Spec

\* The columns and the local state of every process keep their types.
THEOREM TypeCorrect == Spec => []TypeOK
BY QueueInvariant, PTL DEF QueueInv

\* No job is tried more often than the limit and none waits without an attempt
\* left (claim and requeueStale in jobs.ts, STALE_JOB_MAX_ATTEMPTS in worker.ts),
\* for any number of workers, rows and sweeps.
THEOREM PoisonBounded == Spec => []PoisonIsBounded
BY QueueInvariant, PTL DEF QueueInv

-----------------------------------------------------------------------------
\* A target never has two open rows: enqueueWithResult inserts only where the
\* partial unique index allows it, and nothing reopens a closed row.
THEOREM OneActive == Spec => []OneActivePerTarget
<1>1. Init => OneActivePerTarget
    BY DEF Init, OneActivePerTarget, Active, ActiveStatus
<1>2. QueueInv /\ OneActivePerTarget /\ [Next]_vars => OneActivePerTarget'
    <2> SUFFICES ASSUME QueueInv, OneActivePerTarget, [Next]_vars PROVE OneActivePerTarget'
        OBVIOUS
    <2>0. RowsOK /\ Bookkeeping
        BY DEF QueueInv, TypeOK
    <2> USE <2>0 DEF OneActivePerTarget, Active, ActiveStatus
    <2>1. CASE Kept
        BY <2>1 DEF Kept
    <2>2. ASSUME NEW c \in Clients, Insert(c) PROVE OneActivePerTarget'
        BY <2>2 DEF Insert, ActiveFor, RowsOK
    <2>3. ASSUME NEW w \in Workers, Claim(w) PROVE OneActivePerTarget'
        BY <2>3 DEF Claim, Oldest, RowsOK
    <2>4. ASSUME NEW i \in Ids, NEW s \in TerminalStatus, Closed(i, s)
          PROVE  OneActivePerTarget'
        BY <2>4 DEF Closed, Close, RowsOK, TerminalStatus
    <2>5. ASSUME NEW w \in Workers, RequeueStale(w) PROVE OneActivePerTarget'
        BY <2>5 DEF RequeueStale, Stale
    <2>6. ASSUME NEW w \in Workers, BuryStale(w) PROVE OneActivePerTarget'
        BY <2>6 DEF BuryStale
    <2>7. ASSUME NEW cut \in 1 .. closings, PruneFinished(cut) PROVE OneActivePerTarget'
        BY <2>7 DEF PruneFinished
    <2> QED
        BY TableSteps, <2>1, <2>2, <2>3, <2>4, <2>5, <2>6, <2>7 DEF TableStep
<1> QED
    BY QueueInvariant, <1>1, <1>2, PTL DEF Spec

-----------------------------------------------------------------------------
\* The outcome of a closed row is final: each UPDATE of jobs.ts that closes a
\* row asks for an open one, and the serial ids are not used twice.
THEOREM ClosedIsFinal == Spec => ClosedStaysClosed
<1> DEFINE Final ==
        \A i \in Ids :
          /\ status[i] \in TerminalStatus =>
               \/ status'[i] = "absent"
               \/ /\ status'[i] = status[i]
                  /\ finishedAt'[i] = finishedAt[i]
                  /\ error'[i] = error[i]
          /\ status[i] = "absent" /\ i < nextId => status'[i] = "absent"
<1>1. QueueInv /\ [Next]_vars => Final
    <2> SUFFICES ASSUME QueueInv, [Next]_vars PROVE Final
        OBVIOUS
    <2>0. RowsOK /\ Bookkeeping
        BY DEF QueueInv, TypeOK
    <2> USE <2>0, JobQueueAssumption DEF TerminalStatus
    <2>1. CASE Kept
        BY <2>1 DEF Kept
    <2>2. ASSUME NEW c \in Clients, Insert(c) PROVE Final
        BY <2>2 DEF Insert, Bookkeeping, RowsOK, Ids
    <2>3. ASSUME NEW w \in Workers, Claim(w) PROVE Final
        BY <2>3 DEF Claim, Oldest, RowsOK
    <2>4. ASSUME NEW i \in Ids, NEW s \in TerminalStatus, Closed(i, s) PROVE Final
        BY <2>4 DEF Closed, Close, Active, ActiveStatus, RowsOK
    <2>5. ASSUME NEW w \in Workers, RequeueStale(w) PROVE Final
        BY <2>5 DEF RequeueStale, Stale
    <2>6. ASSUME NEW w \in Workers, BuryStale(w) PROVE Final
        BY <2>6 DEF BuryStale, Stale
    <2>7. ASSUME NEW cut \in 1 .. closings, PruneFinished(cut) PROVE Final
        BY <2>7 DEF PruneFinished
    <2> QED
        BY TableSteps, <2>1, <2>2, <2>3, <2>4, <2>5, <2>6, <2>7 DEF TableStep
<1> QED
    BY QueueInvariant, <1>1, PTL DEF Spec, ClosedStaysClosed

-----------------------------------------------------------------------------
\* enqueueWithResult answers with an open row of the target it was asked for:
\* the row it inserted, or the one its second statement found.
THEOREM EnqueueAnswers == Spec => EnqueueAnswersOpenRow
<1> DEFINE Answers ==
        \A c \in Clients : cpc[c] # "idle" /\ cpc'[c] = "idle" =>
          /\ cgot'[c] \in Ids
          /\ keyOf'[cgot'[c]] = ckey[c]
          /\ status'[cgot'[c]] \in ActiveStatus
<1>1. QueueInv /\ [Next]_vars => Answers
    <2> SUFFICES ASSUME QueueInv, [Next]_vars PROVE Answers
        OBVIOUS
    <2>0. RowsOK /\ CallsOK
        BY DEF QueueInv, TypeOK
    <2>1. ASSUME NEW c \in Clients, NEW k \in Keys, BeginEnqueue(c, k) PROVE Answers
        BY <2>0, <2>1 DEF BeginEnqueue, CallsOK
    <2>2. ASSUME NEW c \in Clients, Insert(c) PROVE Answers
        BY <2>0, <2>2, JobQueueAssumption DEF Insert, CallsOK, RowsOK, Ids, ActiveStatus
    <2>3. ASSUME NEW c \in Clients, InsertConflict(c) PROVE Answers
        BY <2>0, <2>3 DEF InsertConflict, CallsOK
    <2>4. ASSUME NEW c \in Clients, Lookup(c) PROVE Answers
        BY <2>0, <2>4 DEF Lookup, ActiveFor, Active, CallsOK, rowVars
    <2>5. CASE UNCHANGED cpc
        BY <2>5
    <2>6. ASSUME NEW w \in Workers, LoopStep(w) \/ SetProgress(w) \/ Crash(w) \/ SweepStep(w)
          PROVE  UNCHANGED cpc
        BY <2>6 DEF LoopStep, SweepStep, Claim, SetProgress, HandlerEnds, Finish, FinishThrows,
                    Fail, FailThrows, Crash, RequeueStale, BuryStale, clientVars
    <2>7. ASSUME NEW i \in Ids, Cancel(i) \/ HeartbeatAges(i) PROVE UNCHANGED cpc
        BY <2>7 DEF Cancel, HeartbeatAges, clientVars
    <2>8. ASSUME NEW cut \in 1 .. closings, PruneFinished(cut) PROVE UNCHANGED cpc
        BY <2>8 DEF PruneFinished, clientVars
    <2>9. CASE UNCHANGED vars
        BY <2>9 DEF vars, clientVars
    <2> QED
        BY <2>1, <2>2, <2>3, <2>4, <2>5, <2>6, <2>7, <2>8, <2>9 DEF Next, ClientStep
<1> QED
    BY QueueInvariant, <1>1, PTL DEF Spec, EnqueueAnswersOpenRow

-----------------------------------------------------------------------------
(* With one worker, as deployed, a run that still holds its row is the run   *)
(* of the row's last attempt.                                               *)
RunOwnsAttempt ==
    \A w \in Workers :
       wpc[w] # "idle" /\ status[wjob[w]] = "running" => wtry[w] = attempts[wjob[w]]

LEMMA StepOwns ==
    ASSUME \A v, w \in Workers : v = w
    PROVE  QueueInv /\ RunOwnsAttempt /\ [Next]_vars => RunOwnsAttempt'
<1> SUFFICES ASSUME QueueInv, RunOwnsAttempt, [Next]_vars PROVE RunOwnsAttempt'
    OBVIOUS
<1>0. RowsOK /\ LoopsOK /\ Bookkeeping
    BY DEF QueueInv, TypeOK
<1> USE <1>0, JobQueueAssumption DEF RunOwnsAttempt, Bookkeeping
<1>1. ASSUME NEW c \in Clients, ClientStep(c) \/ \E k \in Keys : BeginEnqueue(c, k)
      PROVE  RunOwnsAttempt'
    <2>1. \A w \in Workers : wpc[w] # "idle" => /\ status'[wjob[w]] = "running" => status[wjob[w]] = "running"
                                                /\ attempts' = attempts
        BY <1>1 DEF ClientStep, BeginEnqueue, Insert, InsertConflict, Lookup, rowVars, RowsOK
    <2> QED
        BY <1>1, <2>1 DEF ClientStep, BeginEnqueue, Insert, InsertConflict, Lookup, workerVars
<1>2. ASSUME NEW w \in Workers, Claim(w) PROVE RunOwnsAttempt'
    BY <1>2 DEF Claim, LoopsOK, RowsOK
<1>3. ASSUME NEW w \in Workers, SetProgress(w) PROVE RunOwnsAttempt'
    BY <1>3 DEF SetProgress
<1>4. ASSUME NEW w \in Workers, HandlerEnds(w) \/ FinishThrows(w) PROVE RunOwnsAttempt'
    BY <1>4 DEF HandlerEnds, FinishThrows, Release, LoopsOK, rowVars
<1>5. ASSUME NEW w \in Workers, Finish(w) \/ Fail(w) \/ FailThrows(w) \/ Crash(w)
      PROVE  RunOwnsAttempt'
    <2>1. wpc'[w] = "idle"
        BY <1>5 DEF Finish, Fail, FailThrows, Crash, Release, LoopsOK
    <2> QED
        BY <2>1
<1>6. ASSUME NEW w \in Workers, SweepStep(w) PROVE RunOwnsAttempt'
    BY <1>6 DEF SweepStep, RequeueStale, BuryStale, Stale, workerVars
<1>7. ASSUME NEW i \in Ids, Cancel(i) \/ HeartbeatAges(i) PROVE RunOwnsAttempt'
    BY <1>7 DEF Cancel, HeartbeatAges, Close, workerVars, RowsOK
<1>8. ASSUME NEW cut \in 1 .. closings, PruneFinished(cut) PROVE RunOwnsAttempt'
    BY <1>8 DEF PruneFinished, workerVars
<1>9. CASE UNCHANGED vars
    BY <1>9 DEF vars, rowVars, workerVars
<1> QED
    BY <1>1, <1>2, <1>3, <1>4, <1>5, <1>6, <1>7, <1>8, <1>9 DEF Next, LoopStep

\* With one worker the row is closed as done only by the run that holds its
\* last attempt: what a run computed before it was requeued is dropped.
THEOREM OneWorkerPublishes ==
    ASSUME \A v, w \in Workers : v = w
    PROVE  Spec => OnlyCurrentRunPublishes
<1> DEFINE Publishes ==
        \A i \in Ids : status[i] # "done" /\ status'[i] = "done" =>
          /\ status[i] = "running"
          /\ \E w \in Workers : /\ wpc[w] = "finishing"
                                /\ wjob[w] = i
                                /\ wtry[w] = attempts[i]
<1>1. Init => RunOwnsAttempt
    BY DEF Init, RunOwnsAttempt
<1>2. QueueInv /\ RunOwnsAttempt /\ [Next]_vars => Publishes
    <2> SUFFICES ASSUME QueueInv, RunOwnsAttempt, [Next]_vars PROVE Publishes
        OBVIOUS
    <2>0. RowsOK /\ Bookkeeping
        BY DEF QueueInv, TypeOK
    <2> USE <2>0
    <2>1. ASSUME NEW w \in Workers, Finish(w) PROVE Publishes
        BY <2>1 DEF Finish, Close, RunOwnsAttempt, RowsOK
    <2>2. ASSUME NEW c \in Clients, ClientStep(c) \/ \E k \in Keys : BeginEnqueue(c, k)
          PROVE  Publishes
        BY <2>2 DEF ClientStep, BeginEnqueue, Insert, InsertConflict, Lookup, rowVars, RowsOK
    <2>3. ASSUME NEW w \in Workers, Claim(w) PROVE Publishes
        BY <2>3 DEF Claim, RowsOK
    <2>4. ASSUME NEW w \in Workers, HandlerEnds(w) \/ FinishThrows(w) \/ FailThrows(w)
                     \/ Crash(w) \/ SetProgress(w)
          PROVE  Publishes
        BY <2>4 DEF HandlerEnds, FinishThrows, FailThrows, Crash, SetProgress, rowVars
    <2>5. ASSUME NEW w \in Workers, Fail(w) PROVE Publishes
        BY <2>5 DEF Fail, Close, RowsOK
    <2>6. ASSUME NEW w \in Workers, SweepStep(w) PROVE Publishes
        BY <2>6 DEF SweepStep, RequeueStale, BuryStale
    <2>7. ASSUME NEW i \in Ids, Cancel(i) \/ HeartbeatAges(i) PROVE Publishes
        BY <2>7 DEF Cancel, HeartbeatAges, Close, RowsOK
    <2>8. ASSUME NEW cut \in 1 .. closings, PruneFinished(cut) PROVE Publishes
        BY <2>8 DEF PruneFinished
    <2>9. CASE UNCHANGED vars
        BY <2>9 DEF vars, rowVars
    <2> QED
        BY <2>1, <2>2, <2>3, <2>4, <2>5, <2>6, <2>7, <2>8, <2>9 DEF Next, LoopStep
<1> QED
    BY QueueInvariant, <1>1, StepOwns, <1>2, PTL DEF Spec, OnlyCurrentRunPublishes

-----------------------------------------------------------------------------
(* The prune keeps the newest result of every target.                       *)

LEMMA Least ==
    ASSUME NEW S, S \subseteq Nat, S # {}
    PROVE  \E x \in S : \A y \in S : x <= y
<1>1. PICK x \in S : \A y \in S : ~(<<y, x>> \in OpToRel(<, Nat))
    BY NatLessThanWellFounded, WFMin, Zenon
<1>2. \A y \in S : x \in Nat /\ y \in Nat
    BY <1>1
<1>3. \A y \in S : ~(y < x)
    BY <1>1, <1>2, Zenon DEF OpToRel
<1>4. \A y \in S : x <= y
    BY <1>2, <1>3
<1> QED
    BY <1>4

\* A bounded set of naturals that is not empty has a greatest member.
LEMMA Greatest ==
    ASSUME NEW b \in Nat, NEW T, T \subseteq 0 .. b, T # {}
    PROVE  \E m \in T : \A t \in T : t <= m
<1> DEFINE S == {b - t : t \in T}
<1>0. S # {}
    OBVIOUS
<1>1. S \subseteq Nat
    <2> SUFFICES ASSUME NEW t \in T PROVE b - t \in Nat
        OBVIOUS
    <2>1. t \in 0 .. b
        OBVIOUS
    <2> QED
        BY <2>1
<1> HIDE DEF S
<1>2. PICK x \in S : \A y \in S : x <= y
    BY <1>0, <1>1, Least
<1>3. \A t \in T : b - t \in S
    BY DEF S
<1>4. PICK m \in T : x = b - m
    BY <1>2 DEF S
<1>5. \A t \in T : t <= m
    <2> SUFFICES ASSUME NEW t \in T PROVE t <= m
        OBVIOUS
    <2>1. b - m <= b - t
        BY <1>2, <1>3, <1>4
    <2> QED
        BY <2>1
<1> QED
    BY <1>5

ClockCovers == \A i \in Ids : finishedAt[i] <= closings

LEMMA StepClock == QueueInv /\ ClockCovers /\ [Next]_vars => ClockCovers'
<1> SUFFICES ASSUME QueueInv, ClockCovers, [Next]_vars PROVE ClockCovers'
    OBVIOUS
<1>0. RowsOK
    BY DEF QueueInv, TypeOK
<1> USE <1>0 DEF ClockCovers, RowsOK
<1>1. CASE Kept
    BY <1>1 DEF Kept
<1>2. ASSUME NEW c \in Clients, Insert(c) PROVE ClockCovers'
    BY <1>2 DEF Insert
<1>3. ASSUME NEW w \in Workers, Claim(w) PROVE ClockCovers'
    BY <1>3 DEF Claim
<1>4. ASSUME NEW i \in Ids, NEW s \in TerminalStatus, Closed(i, s) PROVE ClockCovers'
    BY <1>4 DEF Closed, Close
<1>5. ASSUME NEW w \in Workers, RequeueStale(w) PROVE ClockCovers'
    BY <1>5 DEF RequeueStale, Retryable
<1>6. ASSUME NEW w \in Workers, BuryStale(w) PROVE ClockCovers'
    BY <1>6 DEF BuryStale
<1>7. ASSUME NEW cut \in 1 .. closings, PruneFinished(cut) PROVE ClockCovers'
    BY <1>7 DEF PruneFinished
<1> QED
    BY TableSteps, <1>1, <1>2, <1>3, <1>4, <1>5, <1>6, <1>7 DEF TableStep

\* The result of row i, or a newer one of the same target, is there afterwards.
StillThere(i) ==
    \E j \in Ids : /\ keyOf'[j] = keyOf[i]
                   /\ status'[j] = "done"
                   /\ finishedAt'[j] >= finishedAt[i]

LEMMA PruneKeepsNewest ==
    ASSUME RowsOK, ClockCovers, NEW cut, PruneFinished(cut),
           NEW i \in Ids, status[i] = "done"
    PROVE  StillThere(i)
<1> DEFINE Done == {j \in Ids : keyOf[j] = keyOf[i] /\ status[j] = "done"}
           Times == {finishedAt[j] : j \in Done}
<1>1. Times \subseteq 0 .. closings /\ Times # {} /\ closings \in Nat
    BY DEF RowsOK, ClockCovers
<1>2. PICK m \in Times : \A t \in Times : t <= m
    BY <1>1, Greatest
<1>3. PICK j \in Done : finishedAt[j] = m
    BY <1>2
<1>4. \A n \in Done : ~(finishedAt[n] > finishedAt[j])
    BY <1>1, <1>2, <1>3 DEF RowsOK
<1>5. /\ status'[j] = status[j] /\ keyOf'[j] = keyOf[j]
      /\ finishedAt'[j] = finishedAt[j]
    BY <1>3, <1>4 DEF PruneFinished, Superseded
<1>6. finishedAt[j] >= finishedAt[i]
    BY <1>2, <1>3 DEF RowsOK
<1> QED
    BY <1>3, <1>5, <1>6 DEF StillThere

\* The result store never goes backwards: pruneFinished drops a row only when a
\* newer done row of its target stays, and no later failure touches a result.
THEOREM ResultsKept == Spec => ResultNeverRegresses
<1> DEFINE NoRegress == \A i \in Ids : status[i] = "done" => StillThere(i)
<1>1. Init => ClockCovers
    BY DEF Init, ClockCovers
<1>2. QueueInv /\ ClockCovers /\ [Next]_vars => NoRegress
    <2> SUFFICES ASSUME QueueInv, ClockCovers, [Next]_vars, NEW i \in Ids, status[i] = "done"
                 PROVE  StillThere(i)
        OBVIOUS
    <2>0. RowsOK /\ Bookkeeping
        BY DEF QueueInv, TypeOK
    <2>1. ASSUME NEW cut \in 1 .. closings, PruneFinished(cut) PROVE StillThere(i)
        BY <2>0, <2>1, PruneKeepsNewest
    <2>2. ASSUME keyOf'[i] = keyOf[i], status'[i] = status[i], finishedAt'[i] = finishedAt[i]
          PROVE  StillThere(i)
        BY <2>0, <2>2 DEF StillThere, RowsOK
    <2>3. CASE Kept
        BY <2>2, <2>3 DEF Kept
    <2>4. ASSUME NEW c \in Clients, Insert(c) PROVE StillThere(i)
        BY <2>0, <2>2, <2>4 DEF Insert, Bookkeeping, RowsOK
    <2>5. ASSUME NEW w \in Workers, Claim(w) PROVE StillThere(i)
        BY <2>0, <2>2, <2>5 DEF Claim, Oldest, RowsOK
    <2>6. ASSUME NEW j \in Ids, NEW s \in TerminalStatus, Closed(j, s) PROVE StillThere(i)
        BY <2>0, <2>2, <2>6 DEF Closed, Close, Active, ActiveStatus, RowsOK
    <2>7. ASSUME NEW w \in Workers, RequeueStale(w) PROVE StillThere(i)
        BY <2>2, <2>7 DEF RequeueStale, Stale
    <2>8. ASSUME NEW w \in Workers, BuryStale(w) PROVE StillThere(i)
        BY <2>2, <2>8 DEF BuryStale, Stale
    <2> QED
        BY TableSteps, <2>1, <2>3, <2>4, <2>5, <2>6, <2>7, <2>8 DEF TableStep
<1> QED
    BY QueueInvariant, <1>1, StepClock, <1>2, PTL DEF Spec, ResultNeverRegresses, StillThere

-----------------------------------------------------------------------------
(* The table implements the ledger of its results.                           *)

LEMMA MaxIs ==
    ASSUME NEW T, T \subseteq Nat, NEW m \in T, \A t \in T : t <= m
    PROVE  Max(T) = m
<1>1. \E x \in T : \A y \in T : x >= y
    OBVIOUS
<1>2. Max(T) \in T /\ \A y \in T : Max(T) >= y
    BY <1>1 DEF Max
<1>3. Max(T) \in Nat /\ Max(T) >= m /\ Max(T) <= m /\ m \in Nat
    BY <1>2
<1> QED
    BY <1>3

\* The two views that the ledger takes of the table.
Pending == {k \in Keys : ActiveFor(k) # {}}
Latest == [k \in Keys |-> LatestDone(k)]
Times(k) == {finishedAt[i] : i \in DoneFor(k)}

\* Who is done, and since when, settles what the results are.
LEMMA SameResults ==
    ASSUME \A k \in Keys : DoneFor(k)' = DoneFor(k),
           \A k \in Keys : \A i \in DoneFor(k) : finishedAt'[i] = finishedAt[i]
    PROVE  UNCHANGED Latest
<1>1. ASSUME NEW k \in Keys PROVE LatestDone(k)' = LatestDone(k)
    <2>1. DoneFor(k)' = DoneFor(k) /\ \A i \in DoneFor(k) : finishedAt'[i] = finishedAt[i]
        OBVIOUS
    <2>2. {finishedAt[i] : i \in DoneFor(k)}' = {finishedAt[i] : i \in DoneFor(k)}
        BY <2>1
    <2> QED
        BY <2>1, <2>2 DEF LatestDone
<1> QED
    BY <1>1 DEF Latest

LEMMA LatestIsNewest ==
    ASSUME RowsOK, ClockCovers, NEW k \in Keys
    PROVE  /\ DoneFor(k) = {} => LatestDone(k) = 0
           /\ DoneFor(k) # {} => \E j \in DoneFor(k) :
                 /\ LatestDone(k) = finishedAt[j]
                 /\ \A i \in DoneFor(k) : finishedAt[i] <= finishedAt[j]
           /\ LatestDone(k) \in 0 .. closings
<1>1. CASE DoneFor(k) = {}
    BY <1>1 DEF LatestDone, RowsOK
<1>2. CASE DoneFor(k) # {}
    <2>1. Times(k) \subseteq 0 .. closings /\ Times(k) # {} /\ closings \in Nat
        BY <1>2 DEF RowsOK, ClockCovers, DoneFor, Times
    <2>2. PICK m \in Times(k) : \A t \in Times(k) : t <= m
        BY <2>1, Greatest
    <2>3. Max(Times(k)) = m
        BY <2>1, <2>2, MaxIs
    <2>4. LatestDone(k) = m
        BY <1>2, <2>3 DEF LatestDone, Times
    <2>5. PICK j \in DoneFor(k) : finishedAt[j] = m
        BY <2>2 DEF Times
    <2>6. \A i \in DoneFor(k) : finishedAt[i] <= finishedAt[j]
        BY <2>2, <2>5 DEF Times
    <2> QED
        BY <1>2, <2>1, <2>2, <2>4, <2>5, <2>6
<1> QED
    BY <1>1, <1>2

LEMMA PruneKeepsResults ==
    ASSUME RowsOK, ClockCovers, NEW cut, PruneFinished(cut)
    PROVE  UNCHANGED Latest
<1>0. \A i \in Ids : \/ status'[i] = status[i] /\ keyOf'[i] = keyOf[i] /\ finishedAt'[i] = finishedAt[i]
                     \/ status'[i] = "absent"
    BY DEF PruneFinished
<1>1. ASSUME NEW k \in Keys PROVE LatestDone(k)' = LatestDone(k)
    <2>1. DoneFor(k)' \subseteq DoneFor(k) /\ \A i \in DoneFor(k)' : finishedAt'[i] = finishedAt[i]
        BY <1>0 DEF DoneFor
    <2>2. CASE DoneFor(k) = {}
        BY <2>1, <2>2 DEF LatestDone
    <2>3. CASE DoneFor(k) # {}
        <3>1. PICK j \in DoneFor(k) :
                 /\ LatestDone(k) = finishedAt[j]
                 /\ \A i \in DoneFor(k) : finishedAt[i] <= finishedAt[j]
            BY <2>3, LatestIsNewest
        <3>2. j \in DoneFor(k)' /\ finishedAt'[j] = finishedAt[j]
            <4>1. ~Superseded(j)
                BY <3>1 DEF Superseded, DoneFor, RowsOK
            <4> QED
                BY <3>1, <4>1 DEF PruneFinished, DoneFor
        <3> DEFINE T == {finishedAt'[i] : i \in DoneFor(k)'}
        <3>3. /\ T \subseteq Nat
              /\ finishedAt[j] \in T
              /\ \A t \in T : t <= finishedAt[j]
            BY <2>1, <3>1, <3>2 DEF RowsOK, DoneFor
        <3> HIDE DEF T
        <3>4. Max(T) = finishedAt[j]
            BY <3>3, MaxIs
        <3>5. LatestDone(k)' = Max(T)
            BY <3>2 DEF LatestDone, T
        <3> QED
            BY <3>1, <3>4, <3>5
    <2> QED
        BY <2>2, <2>3
<1> QED
    BY <1>1 DEF Latest

\* A row that is closed as done is the newest result of its target.
LEMMA CloseIsNewest ==
    ASSUME RowsOK, ClockCovers, NEW i \in Ids, Closed(i, "done"),
           NEW k \in Keys, keyOf[i] = k
    PROVE  /\ Latest'[k] > Latest[k]
           /\ Latest' = [Latest EXCEPT ![k] = Latest'[k]]
<1> DEFINE T == {finishedAt'[j] : j \in DoneFor(k)'}
<1>0. /\ status[i] \in ActiveStatus
      /\ status' = [status EXCEPT ![i] = "done"]
      /\ finishedAt' = [finishedAt EXCEPT ![i] = closings + 1]
      /\ UNCHANGED keyOf
      /\ closings \in Nat
    BY DEF Closed, Close, Active, RowsOK
<1>1. /\ T \subseteq Nat
      /\ closings + 1 \in T
      /\ \A t \in T : t <= closings + 1
      /\ i \in DoneFor(k)'
    BY <1>0 DEF DoneFor, RowsOK, ClockCovers
<1>2. Max(T) = closings + 1
    <2> HIDE DEF T
    <2> QED
        BY <1>1, MaxIs
<1>3. LatestDone(k)' = closings + 1
    BY <1>1, <1>2 DEF LatestDone
<1>4. LatestDone(k) \in 0 .. closings
    BY LatestIsNewest
<1>5. ASSUME NEW h \in Keys, h # k PROVE LatestDone(h)' = LatestDone(h)
    <2>1. DoneFor(h)' = DoneFor(h) /\ \A j \in DoneFor(h) : finishedAt'[j] = finishedAt[j]
        BY <1>0, <1>5 DEF DoneFor, RowsOK, ActiveStatus
    <2>2. {finishedAt[j] : j \in DoneFor(h)}' = {finishedAt[j] : j \in DoneFor(h)}
        BY <2>1
    <2> QED
        BY <2>1, <2>2 DEF LatestDone
<1>6. /\ Latest = [h \in Keys |-> LatestDone(h)]
      /\ Latest' = [h \in Keys |-> LatestDone(h)']
    BY DEF Latest
<1>7. Latest'[k] = LatestDone(k)' /\ Latest[k] = LatestDone(k)
    BY <1>6
<1>8. \A h \in Keys \ {k} : Latest'[h] = Latest[h]
    BY <1>5, <1>6
<1> QED
    BY <1>0, <1>3, <1>4, <1>6, <1>7, <1>8

\* Every step of the table is a step of the ledger or leaves it as it was.
LEMMA LedgerStep ==
    QueueInv /\ OneActivePerTarget /\ ClockCovers /\ [Next]_vars
       => [Ledger!Next]_<<Pending, Latest>>
<1> SUFFICES ASSUME QueueInv, OneActivePerTarget, ClockCovers, [Next]_vars
             PROVE  [Ledger!Next]_<<Pending, Latest>>
    OBVIOUS
<1>0. RowsOK /\ CallsOK /\ Bookkeeping
    BY DEF QueueInv, TypeOK
<1>a. ASSUME Pending' \subseteq Pending, UNCHANGED Latest PROVE Ledger!Next
    BY <1>a DEF Ledger!Next, Ledger!GiveUp, Pending, Latest
<1>1. CASE Kept
    BY <1>1 DEF Kept, Pending, Latest, ActiveFor, Active, LatestDone, DoneFor
<1>2. ASSUME NEW c \in Clients, Insert(c) PROVE Ledger!Next
    <2> DEFINE k == ckey[c]
    <2>1. /\ k \in Keys
          /\ ActiveFor(k) = {}
          /\ nextId \in Ids /\ status[nextId] = "absent"
          /\ status' = [status EXCEPT ![nextId] = "queued"]
          /\ keyOf' = [keyOf EXCEPT ![nextId] = k]
          /\ UNCHANGED finishedAt
        BY <1>0, <1>2, JobQueueAssumption DEF Insert, Bookkeeping, RowsOK, Ids
    <2>2. k \notin Pending
        BY <2>1 DEF Pending
    <2>3. Pending' = Pending \cup {k}
        BY <1>0, <2>1 DEF Pending, ActiveFor, Active, ActiveStatus, RowsOK
    <2>4. \A h \in Keys : DoneFor(h)' = DoneFor(h)
        BY <1>0, <2>1 DEF DoneFor, RowsOK
    <2>5. UNCHANGED Latest
        BY <2>1, <2>4, SameResults
    <2> QED
        BY <2>1, <2>2, <2>3, <2>5 DEF Ledger!Next, Ledger!Open, Pending, Latest
<1>3. ASSUME NEW w \in Workers, Claim(w) PROVE Ledger!Next
    <2>1. PICK i \in Ids : /\ status[i] = "queued"
                           /\ status' = [status EXCEPT ![i] = "running"]
                           /\ UNCHANGED <<keyOf, finishedAt>>
        BY <1>3 DEF Claim, Oldest
    <2>2. Pending' \subseteq Pending
        BY <1>0, <2>1 DEF Pending, ActiveFor, Active, ActiveStatus, RowsOK
    <2>3. \A h \in Keys : DoneFor(h)' = DoneFor(h)
        BY <1>0, <2>1 DEF DoneFor, RowsOK
    <2>4. UNCHANGED Latest
        BY <2>1, <2>3, SameResults
    <2> QED
        BY <2>2, <2>4, <1>a
<1>4. ASSUME NEW i \in Ids, NEW s \in TerminalStatus, Closed(i, s)
      PROVE  [Ledger!Next]_<<Pending, Latest>>
    <2>1. /\ status[i] \in ActiveStatus
          /\ status' = [status EXCEPT ![i] = s]
          /\ finishedAt' = [finishedAt EXCEPT ![i] = closings + 1]
          /\ UNCHANGED keyOf
        BY <1>4 DEF Closed, Close, Active
    <2>2. Pending' \subseteq Pending
        BY <1>0, <2>1 DEF Pending, ActiveFor, Active, ActiveStatus, RowsOK
    <2>3. CASE s = "done" /\ keyOf[i] \in Keys
        <3>1. keyOf[i] \in Pending
            BY <2>1, <2>3 DEF Pending, ActiveFor, Active
        <3>2. Pending' = Pending \ {keyOf[i]}
            BY <1>0, <2>1, <2>3
               DEF Pending, ActiveFor, Active, ActiveStatus, RowsOK, OneActivePerTarget
        <3>3. /\ Latest'[keyOf[i]] > Latest[keyOf[i]]
              /\ Latest' = [Latest EXCEPT ![keyOf[i]] = Latest'[keyOf[i]]]
            BY <1>0, <1>4, <2>3, CloseIsNewest
        <3>4. Ledger!Publish(keyOf[i])
            BY <3>1, <3>2, <3>3 DEF Ledger!Publish, Pending, Latest
        <3> QED
            BY <2>3, <3>4 DEF Ledger!Next
    <2>4. CASE ~(s = "done" /\ keyOf[i] \in Keys)
        <3>1. \A h \in Keys : DoneFor(h)' = DoneFor(h)
            BY <1>0, <2>1, <2>4 DEF DoneFor, RowsOK, ActiveStatus
        <3>2. \A h \in Keys : \A j \in DoneFor(h) : finishedAt'[j] = finishedAt[j]
            BY <1>0, <2>1 DEF DoneFor, RowsOK, ActiveStatus
        <3> QED
            BY <2>2, <3>1, <3>2, SameResults, <1>a
    <2> QED
        BY <2>3, <2>4
<1>5. ASSUME NEW w \in Workers, RequeueStale(w) PROVE Ledger!Next
    <2>1. Pending' \subseteq Pending
        BY <1>5 DEF RequeueStale, Stale, Pending, ActiveFor, Active, ActiveStatus
    <2>2. \A h \in Keys : DoneFor(h)' = DoneFor(h)
        BY <1>5 DEF RequeueStale, Stale, DoneFor
    <2>3. UNCHANGED finishedAt
        BY <1>5 DEF RequeueStale
    <2> QED
        BY <2>1, <2>2, <2>3, SameResults, <1>a
<1>6. ASSUME NEW w \in Workers, BuryStale(w) PROVE Ledger!Next
    <2>1. Pending' \subseteq Pending
        BY <1>6 DEF BuryStale, Stale, Pending, ActiveFor, Active, ActiveStatus
    <2>2. \A h \in Keys : DoneFor(h)' = DoneFor(h)
        BY <1>6 DEF BuryStale, Stale, DoneFor
    <2>3. \A h \in Keys : \A j \in DoneFor(h) : finishedAt'[j] = finishedAt[j]
        BY <1>6 DEF BuryStale, Stale, DoneFor
    <2> QED
        BY <2>1, <2>2, <2>3, SameResults, <1>a
<1>7. ASSUME NEW cut \in 1 .. closings, PruneFinished(cut) PROVE Ledger!Next
    <2>1. Pending' \subseteq Pending
        BY <1>7 DEF PruneFinished, Pending, ActiveFor, Active, ActiveStatus, TerminalStatus
    <2> QED
        BY <1>0, <1>7, <2>1, PruneKeepsResults, <1>a
<1> QED
    BY TableSteps, <1>1, <1>2, <1>3, <1>4, <1>5, <1>6, <1>7 DEF TableStep

\* The jobs table, its workers and its timers implement the ledger: a target has
\* no pending computation or one, and the result it shows only gives way to a
\* later one (enqueueWithResult, claim, finish, fail, cancel, requeueStale and
\* pruneFinished in jobs.ts), for any number of workers, callers and rows.
THEOREM TableImplementsLedger == Spec => LedgerSpec
<1>1. Init => Ledger!Init
    BY DEF Init, Ledger!Init, ActiveFor, Active, ActiveStatus, DoneFor, LatestDone
<1>2. Init => ClockCovers
    BY DEF Init, ClockCovers
<1>3. QueueInv /\ OneActivePerTarget /\ ClockCovers /\ [Next]_vars
        => [Ledger!Next]_<<{k \in Keys : ActiveFor(k) # {}}, [k \in Keys |-> LatestDone(k)]>>
    BY LedgerStep DEF Pending, Latest
<1> QED
    BY QueueInvariant, OneActive, <1>1, <1>2, <1>3, StepClock, PTL
       DEF Spec, LedgerSpec, Ledger!Spec
=============================================================================
