------------------------------ MODULE JobQueue ------------------------------
(***************************************************************************)
(* The persistent job queue: the table `jobs` (api/lib/jobs.ts), the loop   *)
(* that claims a row and runs its handler (api/lib/job-runner.ts), and the  *)
(* timers of the worker process (api/worker.ts).                            *)
(*                                                                          *)
(* One SQL statement is one step.  A column of the table is a function on   *)
(* the serial ids.  Time is abstracted: `beat[i]` is "old" once 120 seconds *)
(* passed without a heartbeat, and `finishedAt` numbers the rows in the     *)
(* order in which they were closed.                                         *)
(***************************************************************************)
EXTENDS Naturals, FiniteSetsExt

CONSTANTS
    Keys,          \* targets: a pair (kind, dedup_key) each
    Unhandled,     \* the targets whose kind has no handler in this worker
    Workers,       \* worker processes, one job loop each
    Clients,       \* callers of enqueueWithResult
    MaxJobs,       \* bound: rows ever inserted
    MaxAttempts,   \* STALE_JOB_MAX_ATTEMPTS
    NoKey          \* a client that is not enqueueing

ASSUME JobQueueAssumption ==
    /\ Unhandled \subseteq Keys
    /\ MaxJobs \in Nat
    /\ MaxAttempts \in Nat \ {0}
    /\ NoKey \notin Keys

Ids == 1 .. MaxJobs

VARIABLES
    status,        \* jobs.status, "absent" before the insert and after the prune
    keyOf,         \* jobs.(kind, dedup_key)
    attempts,      \* jobs.attempts
    beat,          \* jobs.heartbeat_at: "none", "fresh" or "old"
    finishedAt,    \* jobs.finished_at, 0 while it is NULL
    error,         \* jobs.error: "none", "handler" or "stopped"
    nextId,        \* jobs_id_seq
    closings,      \* the clock behind finished_at
    wpc,           \* where each job loop is
    wjob,          \* the id the loop claimed, 0 when idle
    wtry,          \* the value of attempts the claim wrote (history)
    aborted,       \* AbortController of the run
    sweep,         \* progress of requeueStale in each worker
    cpc, ckey,     \* enqueueWithResult: where the call is, its target
    cgot           \* the id the call returned, 0 before

rowVars == <<status, keyOf, attempts, beat, finishedAt, error, nextId, closings>>
workerVars == <<wpc, wjob, wtry, aborted>>
clientVars == <<cpc, ckey, cgot>>
vars == <<rowVars, workerVars, sweep, clientVars>>

ActiveStatus == {"queued", "running"}
TerminalStatus == {"done", "error", "canceled"}

Active(i) == status[i] \in ActiveStatus

ActiveFor(k) == {i \in Ids : keyOf[i] = k /\ Active(i)}

Init ==
    /\ status = [i \in Ids |-> "absent"]
    /\ keyOf = [i \in Ids |-> NoKey]
    /\ attempts = [i \in Ids |-> 0]
    /\ beat = [i \in Ids |-> "none"]
    /\ finishedAt = [i \in Ids |-> 0]
    /\ error = [i \in Ids |-> "none"]
    /\ nextId = 1
    /\ closings = 0
    /\ wpc = [w \in Workers |-> "idle"]
    /\ wjob = [w \in Workers |-> 0]
    /\ wtry = [w \in Workers |-> 0]
    /\ aborted = [w \in Workers |-> FALSE]
    /\ sweep = [w \in Workers |-> "idle"]
    /\ cpc = [c \in Clients |-> "idle"]
    /\ ckey = [c \in Clients |-> NoKey]
    /\ cgot = [c \in Clients |-> 0]

-----------------------------------------------------------------------------
(* enqueueWithResult: INSERT ... ON CONFLICT DO NOTHING, then a SELECT of   *)
(* the row it ran into, again from the start if that row was closed.        *)

BeginEnqueue(c, k) ==
    /\ cpc[c] = "idle"
    /\ nextId <= MaxJobs
    /\ cpc' = [cpc EXCEPT ![c] = "insert"]
    /\ ckey' = [ckey EXCEPT ![c] = k]
    /\ cgot' = [cgot EXCEPT ![c] = 0]
    /\ UNCHANGED <<rowVars, workerVars, sweep>>

Insert(c) ==
    /\ cpc[c] = "insert"
    /\ ActiveFor(ckey[c]) = {}
    /\ nextId <= MaxJobs
    /\ status' = [status EXCEPT ![nextId] = "queued"]
    /\ keyOf' = [keyOf EXCEPT ![nextId] = ckey[c]]
    /\ nextId' = nextId + 1
    /\ cpc' = [cpc EXCEPT ![c] = "idle"]
    /\ cgot' = [cgot EXCEPT ![c] = nextId]
    /\ UNCHANGED <<attempts, beat, finishedAt, error, closings, workerVars,
                   sweep, ckey>>

InsertConflict(c) ==
    /\ cpc[c] = "insert"
    /\ ActiveFor(ckey[c]) # {}
    /\ cpc' = [cpc EXCEPT ![c] = "lookup"]
    /\ UNCHANGED <<rowVars, workerVars, sweep, ckey, cgot>>

\* mutant: the SELECT does not ask for an open row
Lookup_AnyRow(c) ==
    /\ cpc[c] = "lookup"
    /\ \E i \in {j \in Ids : keyOf[j] = ckey[c]} :
          /\ cpc' = [cpc EXCEPT ![c] = "idle"]
          /\ cgot' = [cgot EXCEPT ![c] = i]
    /\ UNCHANGED <<rowVars, workerVars, sweep, ckey>>

Lookup(c) ==
    /\ cpc[c] = "lookup"
    /\ \/ \E i \in ActiveFor(ckey[c]) :
             /\ cpc' = [cpc EXCEPT ![c] = "idle"]
             /\ cgot' = [cgot EXCEPT ![c] = i]
       \/ /\ ActiveFor(ckey[c]) = {}
          /\ cpc' = [cpc EXCEPT ![c] = "insert"]
          /\ UNCHANGED cgot
    /\ UNCHANGED <<rowVars, workerVars, sweep, ckey>>

-----------------------------------------------------------------------------
(* The job loop.                                                            *)

\* The oldest queued row; ids grow with created_at.
Oldest(i) ==
    /\ status[i] = "queued"
    /\ \A j \in Ids : status[j] = "queued" => i <= j

Claim(w) ==
    /\ wpc[w] = "idle"
    /\ \E i \in Ids :
          /\ Oldest(i)
          /\ status' = [status EXCEPT ![i] = "running"]
          /\ beat' = [beat EXCEPT ![i] = "fresh"]
          /\ attempts' = [attempts EXCEPT ![i] = @ + 1]
          /\ wjob' = [wjob EXCEPT ![w] = i]
          /\ wtry' = [wtry EXCEPT ![w] = attempts[i] + 1]
          /\ wpc' = [wpc EXCEPT ![w] = IF keyOf[i] \in Unhandled
                                       THEN "failing" ELSE "handling"]
    /\ aborted' = [aborted EXCEPT ![w] = FALSE]
    /\ UNCHANGED <<keyOf, finishedAt, error, nextId, closings, sweep, clientVars>>

\* setProgress: both queries are throttled and may fail; neither is awaited, so
\* they may also land after the handler ended.
SetProgress(w) ==
    /\ wpc[w] # "idle"
    /\ keyOf[wjob[w]] \notin Unhandled
    /\ \/ /\ status[wjob[w]] = "running"
          /\ beat' = [beat EXCEPT ![wjob[w]] = "fresh"]
       \/ UNCHANGED beat
    /\ \/ /\ status[wjob[w]] = "canceled"
          /\ aborted' = [aborted EXCEPT ![w] = TRUE]
       \/ UNCHANGED aborted
    /\ UNCHANGED <<status, keyOf, attempts, finishedAt, error, nextId, closings,
                   wpc, wjob, wtry, sweep, clientVars>>

\* runOnce returns: its locals are gone.
Release(w) ==
    /\ wpc' = [wpc EXCEPT ![w] = "idle"]
    /\ wjob' = [wjob EXCEPT ![w] = 0]
    /\ wtry' = [wtry EXCEPT ![w] = 0]
    /\ aborted' = [aborted EXCEPT ![w] = FALSE]

\* The handler returns or throws; an aborted run reports neither.
HandlerEnds(w) ==
    /\ wpc[w] = "handling"
    /\ \/ aborted[w] /\ Release(w)
       \/ /\ ~aborted[w]
          /\ \E next \in {"finishing", "failing"} : wpc' = [wpc EXCEPT ![w] = next]
          /\ UNCHANGED <<wjob, wtry, aborted>>
    /\ UNCHANGED <<rowVars, sweep, clientVars>>

\* finished_at = now() for row i
Close(i, s) ==
    /\ status' = [status EXCEPT ![i] = s]
    /\ finishedAt' = [finishedAt EXCEPT ![i] = closings + 1]
    /\ closings' = closings + 1

\* mutant: finish does not ask for a running row
Finish_AnyRow(w) ==
    /\ wpc[w] = "finishing"
    /\ Close(wjob[w], "done")
    /\ Release(w)
    /\ UNCHANGED <<keyOf, attempts, beat, error, nextId, sweep, clientVars>>

Finish(w) ==
    /\ wpc[w] = "finishing"
    /\ \/ status[wjob[w]] = "running" /\ Close(wjob[w], "done")
       \/ status[wjob[w]] # "running" /\ UNCHANGED <<status, finishedAt, closings>>
    /\ Release(w)
    /\ UNCHANGED <<keyOf, attempts, beat, error, nextId, sweep, clientVars>>

\* A finish that throws lands in the catch of runOnce, which calls fail unless
\* an answer of isCanceled has aborted the run meanwhile.
FinishThrows(w) ==
    /\ wpc[w] = "finishing"
    /\ \/ aborted[w] /\ Release(w)
       \/ /\ ~aborted[w]
          /\ wpc' = [wpc EXCEPT ![w] = "failing"]
          /\ UNCHANGED <<wjob, wtry, aborted>>
    /\ UNCHANGED <<rowVars, sweep, clientVars>>

Fail(w) ==
    /\ wpc[w] = "failing"
    /\ \/ /\ status[wjob[w]] = "running"
          /\ Close(wjob[w], "error")
          /\ error' = [error EXCEPT ![wjob[w]] = "handler"]
       \/ /\ status[wjob[w]] # "running"
          /\ UNCHANGED <<status, finishedAt, closings, error>>
    /\ Release(w)
    /\ UNCHANGED <<keyOf, attempts, beat, nextId, sweep, clientVars>>

\* The error reaches jobLoop, which logs it and goes on: the row stays running.
FailThrows(w) ==
    /\ wpc[w] = "failing"
    /\ Release(w)
    /\ UNCHANGED <<rowVars, sweep, clientVars>>

\* The process dies or is restarted; its row stays running.
Crash(w) ==
    /\ wpc[w] # "idle"
    /\ Release(w)
    /\ sweep' = [sweep EXCEPT ![w] = "idle"]
    /\ UNCHANGED <<rowVars, clientVars>>

-----------------------------------------------------------------------------
(* Cancelling, the stale sweep and the prune.                               *)

Cancel(i) ==
    /\ Active(i)
    /\ Close(i, "canceled")
    /\ UNCHANGED <<keyOf, attempts, beat, error, nextId, workerVars, sweep,
                   clientVars>>

\* 120 seconds without a heartbeat, whether or not the worker is alive.
HeartbeatAges(i) ==
    /\ status[i] = "running"
    /\ beat[i] = "fresh"
    /\ beat' = [beat EXCEPT ![i] = "old"]
    /\ UNCHANGED <<status, keyOf, attempts, finishedAt, error, nextId, closings,
                   workerVars, sweep, clientVars>>

\* mutant: a row without a heartbeat is taken for a stale one, not an old one
Stale_NoBeat(i) == status[i] = "running" /\ beat[i] = "none"
Stale(i) == status[i] = "running" /\ beat[i] = "old"

\* Whether a stale row may be tried again.
\* mutant: an off-by-one in the limit
Retryable_AtLimit(i) == attempts[i] <= MaxAttempts
Retryable(i) == attempts[i] < MaxAttempts

\* First statement of requeueStale.
RequeueStale(w) ==
    LET back == {i \in Ids : Stale(i) /\ Retryable(i)} IN
    /\ sweep[w] = "idle"
    /\ sweep' = [sweep EXCEPT ![w] = "requeued"]
    /\ status' = [i \in Ids |-> IF i \in back THEN "queued" ELSE status[i]]
    /\ beat' = [i \in Ids |-> IF i \in back THEN "none" ELSE beat[i]]
    /\ UNCHANGED <<keyOf, attempts, finishedAt, error, nextId, closings,
                   workerVars, clientVars>>

\* Second statement of requeueStale; the closed rows share one now().
BuryStale(w) ==
    LET dead == {i \in Ids : Stale(i) /\ ~Retryable(i)} IN
    /\ sweep[w] = "requeued"
    /\ sweep' = [sweep EXCEPT ![w] = "idle"]
    /\ status' = [i \in Ids |-> IF i \in dead THEN "error" ELSE status[i]]
    /\ error' = [i \in Ids |-> IF i \in dead THEN "stopped" ELSE error[i]]
    /\ finishedAt' = [i \in Ids |-> IF i \in dead THEN closings + 1
                                    ELSE finishedAt[i]]
    /\ closings' = IF dead = {} THEN closings ELSE closings + 1
    /\ UNCHANGED <<keyOf, attempts, beat, nextId, workerVars, clientVars>>

\* A newer result of the same target exists.
\* mutant: any newer row of the target will do
Superseded_ByAny(i) ==
    \E j \in Ids : /\ keyOf[j] = keyOf[i]
                   /\ status[j] \in TerminalStatus
                   /\ finishedAt[j] > finishedAt[i]
Superseded(i) ==
    \E j \in Ids : /\ keyOf[j] = keyOf[i]
                   /\ status[j] = "done"
                   /\ finishedAt[j] > finishedAt[i]

\* Rows closed up to `cut` are older than the keep period.
PruneFinished(cut) ==
    LET gone == {i \in Ids : /\ status[i] \in TerminalStatus
                             /\ finishedAt[i] <= cut
                             /\ Superseded(i)}
    IN  /\ gone # {}
        /\ status' = [i \in Ids |-> IF i \in gone THEN "absent" ELSE status[i]]
        /\ keyOf' = [i \in Ids |-> IF i \in gone THEN NoKey ELSE keyOf[i]]
        /\ attempts' = [i \in Ids |-> IF i \in gone THEN 0 ELSE attempts[i]]
        /\ beat' = [i \in Ids |-> IF i \in gone THEN "none" ELSE beat[i]]
        /\ finishedAt' = [i \in Ids |-> IF i \in gone THEN 0 ELSE finishedAt[i]]
        /\ error' = [i \in Ids |-> IF i \in gone THEN "none" ELSE error[i]]
        /\ UNCHANGED <<nextId, closings, workerVars, sweep, clientVars>>

-----------------------------------------------------------------------------
ClientStep(c) == Insert(c) \/ InsertConflict(c) \/ Lookup(c)

LoopStep(w) ==
    Claim(w) \/ HandlerEnds(w) \/ Finish(w) \/ FinishThrows(w) \/ Fail(w) \/ FailThrows(w)

SweepStep(w) == RequeueStale(w) \/ BuryStale(w)

Next ==
    \/ \E c \in Clients : ClientStep(c) \/ \E k \in Keys : BeginEnqueue(c, k)
    \/ \E w \in Workers : LoopStep(w) \/ SetProgress(w) \/ Crash(w) \/ SweepStep(w)
    \/ \E i \in Ids : Cancel(i) \/ HeartbeatAges(i)
    \/ \E cut \in 1 .. closings : PruneFinished(cut)

Spec == Init /\ [][Next]_vars

\* Queries return, handlers end, intervals fire and time passes.  Nobody is
\* obliged to enqueue, to cancel, to report progress or to crash.
Fairness ==
    /\ \A c \in Clients : WF_vars(ClientStep(c))
    /\ \A w \in Workers : WF_vars(LoopStep(w)) /\ WF_vars(SweepStep(w))
    /\ \A i \in Ids : WF_vars(HeartbeatAges(i))

FairSpec == Spec /\ Fairness

-----------------------------------------------------------------------------
(* What the routes see.                                                     *)

DoneFor(k) == {i \in Ids : keyOf[i] = k /\ status[i] = "done"}

\* latestDone: the closing time of the newest result of a target, 0 if none.
LatestDone(k) == IF DoneFor(k) = {} THEN 0 ELSE Max({finishedAt[i] : i \in DoneFor(k)})

Ledger == INSTANCE JobLedger
    WITH pending <- {k \in Keys : ActiveFor(k) # {}},
         latest  <- [k \in Keys |-> LatestDone(k)]

\* The table, its workers and its timers implement the ledger: one pending
\* computation per target, and a result only gives way to a later one.
LedgerSpec == Ledger!Spec

-----------------------------------------------------------------------------
(* Properties.                                                              *)

RowsOK ==
    /\ status \in [Ids -> {"absent"} \cup ActiveStatus \cup TerminalStatus]
    /\ keyOf \in [Ids -> Keys \cup {NoKey}]
    /\ attempts \in [Ids -> Nat]
    /\ beat \in [Ids -> {"none", "fresh", "old"}]
    /\ finishedAt \in [Ids -> Nat]
    /\ error \in [Ids -> {"none", "handler", "stopped"}]
    /\ nextId \in 1 .. (MaxJobs + 1)
    /\ closings \in Nat

LoopsOK ==
    /\ wpc \in [Workers -> {"idle", "handling", "finishing", "failing"}]
    /\ wjob \in [Workers -> 0 .. MaxJobs]
    /\ wtry \in [Workers -> Nat]
    /\ aborted \in [Workers -> BOOLEAN]
    /\ sweep \in [Workers -> {"idle", "requeued"}]

CallsOK ==
    /\ cpc \in [Clients -> {"idle", "insert", "lookup"}]
    /\ ckey \in [Clients -> Keys \cup {NoKey}]
    /\ cgot \in [Clients -> 0 .. MaxJobs]

\* The shape of the table and of the processes' local state.
TypeOK == RowsOK /\ LoopsOK /\ CallsOK

\* A poison job is given up: no row is ever claimed more than MaxAttempts
\* times, and a row that waits in the queue has an attempt left, however
\* claims, crashes and sweeps of several workers interleave.
PoisonIsBounded ==
    \A i \in Ids : /\ attempts[i] <= MaxAttempts
                   /\ status[i] = "queued" => attempts[i] < MaxAttempts

\* Whoever enqueues, requeues or sweeps, a target has at most one row that is
\* queued or running (the partial unique index jobs_active).
OneActivePerTarget ==
    \A i, j \in Ids : Active(i) /\ Active(j) /\ keyOf[i] = keyOf[j] => i = j

\* A closed row keeps its outcome: a late finish, fail, cancel or sweep never
\* changes done, error or canceled, and a pruned id never comes back.
ClosedStaysClosed ==
    [][\A i \in Ids :
         /\ status[i] \in TerminalStatus =>
              \/ status'[i] = "absent"
              \/ /\ status'[i] = status[i]
                 /\ finishedAt'[i] = finishedAt[i]
                 /\ error'[i] = error[i]
         /\ status[i] = "absent" /\ i < nextId => status'[i] = "absent"]_vars

\* The result store never goes backwards: once a target has a result, it keeps
\* one at least as recent, through every prune and every later failure.
ResultNeverRegresses ==
    [][\A i \in Ids : status[i] = "done" =>
         \E j \in Ids : /\ keyOf'[j] = keyOf[i]
                        /\ status'[j] = "done"
                        /\ finishedAt'[j] >= finishedAt[i]]_vars

\* A result is published only by the run that owns the row's last attempt and
\* has not been declared dead since: what a requeued run computed is dropped.
OnlyCurrentRunPublishes ==
    [][\A i \in Ids : status[i] # "done" /\ status'[i] = "done" =>
         /\ status[i] = "running"
         /\ \E w \in Workers : /\ wpc[w] = "finishing"
                               /\ wjob[w] = i
                               /\ wtry[w] = attempts[i]]_vars

\* The call of enqueueWithResult answers with a row of the target it was asked
\* for that is still open, even if the row it first collided with was closed.
EnqueueAnswersOpenRow ==
    [][\A c \in Clients : cpc[c] # "idle" /\ cpc'[c] = "idle" =>
         /\ cgot'[c] \in Ids
         /\ keyOf'[cgot'[c]] = ckey[c]
         /\ status'[cgot'[c]] \in ActiveStatus]_vars

\* Every row that enters the queue is closed in the end, also when its worker
\* dies in the middle, or when neither finish nor fail could be written.
EveryJobCloses == \A i \in Ids : Active(i) ~> ~Active(i)

\* No call of enqueueWithResult loops for ever (until the bound on rows).
EnqueueReturns ==
    \A c \in Clients : cpc[c] # "idle" ~> (cpc[c] = "idle" \/ nextId > MaxJobs)

\* Neither a row nor a call that asks for one is left hanging.
QueueMakesProgress == EveryJobCloses /\ EnqueueReturns

=============================================================================
