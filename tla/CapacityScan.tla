----------------------------- MODULE CapacityScan -----------------------------
(***************************************************************************)
(* The capacity history of one connection: the scheduler pass that enqueues *)
(* a scan per bucket (api/lib/capacity-scheduler.ts), the manual runs of    *)
(* the routes, the scan handler (api/lib/scan-handler.ts) and the tables    *)
(* behind them (api/lib/capacity-store.ts).                                 *)
(*                                                                          *)
(* The jobs are those of JobQueue, reduced to what it proves about them:    *)
(* at most one open row per target, a claim, a close that only takes a      *)
(* running row, and a sweep that may strike a run that is still going on.   *)
(* One SQL statement or transaction is one step.  Of the row of             *)
(* storage_capacity_settings only `enabled` and `next_run_at` are kept:     *)
(* nothing but the display reads the status, and nothing but the length of  *)
(* the backoff reads the failure count.                                     *)
(***************************************************************************)
EXTENDS Naturals, Sequences

CONSTANTS
    Buckets,       \* buckets of the storage
    Vanishing,     \* those that may be deleted from it
    Timers,        \* passes of the scheduler that may overlap
    Posts,         \* POST /storage/:connectionId/capacity/scan requests
    Workers,       \* job loops
    Pages,         \* pages of a bucket's listing
    MaxJobs,       \* bound: rows of `jobs` ever inserted
    NoBucket

ASSUME CapacityScanAssumption ==
    /\ Vanishing \subseteq Buckets
    /\ Timers \cap Posts = {}
    /\ Pages \in Nat \ {0}
    /\ MaxJobs \in Nat
    /\ NoBucket \notin Buckets

Ids == 1 .. MaxJobs
Passes == Timers \cup Posts

VARIABLES
    tracking,      \* storage_capacity_settings.enabled
    nextRun,       \* .next_run_at: "unset" (NULL), "due" or "later"
    permitted,     \* scan_enabled and capacity_metrics_enabled of the connection
    view,          \* the worker's cached copy of `permitted`
    present,       \* what ListBuckets answers
    ton,           \* storage_capacity_targets.enabled
    tstatus,       \* .last_status, "none" where there is no row
    tjob,          \* .last_job_id, 0 for NULL
    jstatus, jbucket, nextId,   \* the storage.scan rows of `jobs`
    snaps,         \* the snapshots stored with job_id = i, by pages they cover
    ppc, pleft,    \* a pass: where it is, the buckets it has not enqueued
    pcur, pid,     \* the bucket and the job id it is about to attach
    wpc, wjob,     \* a job loop: where its handler is, the row it claimed
    wgot,          \* pages accumulated by the handler
    aborted        \* AbortController of the run

settingVars == <<tracking, nextRun, permitted, view>>
targetVars == <<ton, tstatus, tjob>>
jobVars == <<jstatus, jbucket, nextId>>
passVars == <<ppc, pleft, pcur, pid>>
workVars == <<wpc, wjob, wgot, aborted>>
vars == <<settingVars, present, targetVars, jobVars, snaps, passVars, workVars>>

Open(i) == jstatus[i] \in {"queued", "running"}
OpenFor(b) == {i \in Ids : jbucket[i] = b /\ Open(i)}

Init ==
    /\ tracking = FALSE /\ nextRun = "unset" /\ permitted = TRUE /\ view = TRUE
    /\ present = Buckets
    /\ ton = [b \in Buckets |-> FALSE]
    /\ tstatus = [b \in Buckets |-> "none"]
    /\ tjob = [b \in Buckets |-> 0]
    /\ jstatus = [i \in Ids |-> "absent"]
    /\ jbucket = [i \in Ids |-> NoBucket]
    /\ nextId = 1
    /\ snaps = [i \in Ids |-> <<>>]
    /\ ppc = [p \in Passes |-> "idle"]
    /\ pleft = [p \in Passes |-> {}]
    /\ pcur = [p \in Passes |-> NoBucket]
    /\ pid = [p \in Passes |-> 0]
    /\ wpc = [w \in Workers |-> "idle"]
    /\ wjob = [w \in Workers |-> 0]
    /\ wgot = [w \in Workers |-> 0]
    /\ aborted = [w \in Workers |-> FALSE]

-----------------------------------------------------------------------------
(* PUT /connections/:id, time and the storage.                              *)

\* mutant: next_run_at is set by the first INSERT only
NextRunAfter_Kept(on, faster) == IF on THEN nextRun ELSE "unset"
\* next_run_at after upsertCapacitySettings; `faster` is a changed interval.
NextRunAfter(on, faster) ==
    CASE ~on -> "unset"
      [] on /\ (~tracking \/ faster) -> "due"
      [] OTHER -> nextRun

\* The PUT is refused when it would leave the tracking on without the
\* permission; the targets follow only when the tracking settings changed.
Put(on, ok) ==
    /\ on => ok
    /\ permitted' = ok
    /\ \E faster \in BOOLEAN :
          \/ /\ on # tracking \/ faster
             /\ tracking' = on
             /\ nextRun' = NextRunAfter(on, faster)
             /\ ton' = [b \in Buckets |-> tstatus[b] # "none" /\ on]
             /\ tstatus' = [b \in Buckets |->
                              IF on \/ tstatus[b] = "none" THEN tstatus[b] ELSE "paused"]
          \/ on = tracking /\ UNCHANGED <<tracking, nextRun, ton, tstatus>>
    /\ UNCHANGED <<view, present, tjob, jobVars, snaps, passVars, workVars>>

\* The worker's factory entry expires and is loaded again.
RefreshView ==
    /\ view # permitted
    /\ view' = permitted
    /\ UNCHANGED <<tracking, nextRun, permitted, present, targetVars, jobVars, snaps,
                   passVars, workVars>>

TimePasses ==
    /\ nextRun = "later"
    /\ nextRun' = "due"
    /\ UNCHANGED <<tracking, permitted, view, present, targetVars, jobVars, snaps,
                   passVars, workVars>>

Vanish(b) ==
    /\ b \in Vanishing \cap present
    /\ present' = present \ {b}
    /\ UNCHANGED <<settingVars, targetVars, jobVars, snaps, passVars, workVars>>

-----------------------------------------------------------------------------
(* The two ways into enqueueCapacityScans.                                  *)

Goto(p, pc) == ppc' = [ppc EXCEPT ![p] = pc]

\* The pass returns, or dies with its process: its locals are gone.
PassEnds(p) ==
    /\ Goto(p, "idle")
    /\ pleft' = [pleft EXCEPT ![p] = {}]
    /\ pcur' = [pcur EXCEPT ![p] = NoBucket]
    /\ pid' = [pid EXCEPT ![p] = 0]

\* mutant: the reservation takes the row off the schedule
Reserve_Unset(p) ==
    /\ p \in Timers /\ ppc[p] = "idle"
    /\ tracking /\ nextRun = "due"
    /\ nextRun' = "unset"
    /\ Goto(p, "check")
    /\ UNCHANGED <<tracking, permitted, view, present, targetVars, jobVars, snaps,
                   pleft, pcur, pid, workVars>>

\* reserveDueConnections: the row is due again in 15 minutes whatever happens.
Reserve(p) ==
    /\ p \in Timers /\ ppc[p] = "idle"
    /\ tracking /\ nextRun = "due"
    /\ nextRun' = "later"
    /\ Goto(p, "check")
    /\ UNCHANGED <<tracking, permitted, view, present, targetVars, jobVars, snaps,
                   pleft, pcur, pid, workVars>>

Check(p) ==
    /\ ppc[p] = "check"
    /\ Goto(p, IF view THEN "list" ELSE "pause")
    /\ UNCHANGED <<settingVars, present, targetVars, jobVars, snaps, pleft, pcur, pid, workVars>>

\* The POST is answered with 403 or 409 unless it may go on.
Post(p) ==
    /\ p \in Posts /\ ppc[p] = "idle"
    /\ permitted
    /\ \A i \in Ids : ~Open(i)
    /\ Goto(p, "list")
    /\ UNCHANGED <<settingVars, present, targetVars, jobVars, snaps, pleft, pcur, pid, workVars>>

List(p) ==
    /\ ppc[p] = "list"
    /\ pleft' = [pleft EXCEPT ![p] = present]
    /\ Goto(p, "sync")
    /\ UNCHANGED <<settingVars, present, targetVars, jobVars, snaps, pcur, pid, workVars>>

\* Where the loop over the buckets goes on: the next one, or the end.
NextBucket(p, left) ==
    \/ left # {} /\ Goto(p, "enqueue") /\ UNCHANGED <<pleft, pcur, pid>>
    \/ /\ left = {}
       /\ \/ p \in Timers /\ Goto(p, "mark") /\ UNCHANGED <<pleft, pcur, pid>>
          \/ p \in Posts /\ PassEnds(p)

\* syncBuckets: a target follows the settings as they are now.
Sync(p) ==
    LET Status(b) ==
          CASE ~tracking -> "paused"
            [] tracking /\ (tstatus[b] = "none" \/ ~ton[b]) -> "waiting"
            [] OTHER -> tstatus[b]
    IN  /\ ppc[p] = "sync"
        /\ ton' = [b \in Buckets |-> IF b \in pleft[p] THEN tracking ELSE ton[b]]
        /\ tstatus' = [b \in Buckets |-> IF b \in pleft[p] THEN Status(b) ELSE tstatus[b]]
        /\ NextBucket(p, pleft[p])
        /\ UNCHANGED <<settingVars, present, tjob, jobVars, snaps, workVars>>

\* enqueueWithResult: job i is the open row of the bucket, or a new one.
Enqueued(b, i) ==
    \/ i \in OpenFor(b) /\ UNCHANGED jobVars
    \/ /\ OpenFor(b) = {}
       /\ i = nextId /\ nextId <= MaxJobs
       /\ jstatus' = [jstatus EXCEPT ![i] = "queued"]
       /\ jbucket' = [jbucket EXCEPT ![i] = b]
       /\ nextId' = nextId + 1

Enqueue(p) ==
    /\ ppc[p] = "enqueue"
    /\ \E b \in pleft[p], i \in Ids :
          /\ Enqueued(b, i)
          /\ pcur' = [pcur EXCEPT ![p] = b]
          /\ pid' = [pid EXCEPT ![p] = i]
          /\ pleft' = [pleft EXCEPT ![p] = @ \ {b}]
    /\ Goto(p, "attach")
    /\ UNCHANGED <<settingVars, present, targetVars, snaps, workVars>>

\* mutant: the status of the last scan is kept
Attach_KeepStatus(p) ==
    /\ ppc[p] = "attach"
    /\ tjob' = [tjob EXCEPT ![pcur[p]] = pid[p]]
    /\ NextBucket(p, pleft[p])
    /\ UNCHANGED <<settingVars, present, ton, tstatus, jobVars, snaps, workVars>>

\* attachJob, a statement of its own: the job may have run in between.
Attach(p) ==
    /\ ppc[p] = "attach"
    /\ tjob' = [tjob EXCEPT ![pcur[p]] = pid[p]]
    /\ tstatus' = [tstatus EXCEPT ![pcur[p]] = "queued"]
    /\ NextBucket(p, pleft[p])
    /\ UNCHANGED <<settingVars, present, ton, jobVars, snaps, workVars>>

\* markConnectionScheduled, markConnectionPaused or recordConnectionError: all
\* three set next_run_at, and none asks whether the tracking is still on.
Settle(p) ==
    /\ ppc[p] \in {"mark", "pause", "error"}
    /\ nextRun' = "later"
    /\ PassEnds(p)
    /\ UNCHANGED <<tracking, permitted, view, present, targetVars, jobVars, snaps, workVars>>

\* A call of the pass throws: a pass of the timer records the error, and a
\* request is answered with 500, as a failing recordConnectionError ends the pass.
StepFails(p) ==
    /\ ppc[p] # "idle"
    /\ \/ /\ p \in Timers /\ ppc[p] # "error"
          /\ Goto(p, "error")
          /\ UNCHANGED <<pleft, pcur, pid>>
       \/ (p \in Posts \/ ppc[p] = "error") /\ PassEnds(p)
    /\ UNCHANGED <<settingVars, present, targetVars, jobVars, snaps, workVars>>

\* The process of the pass is killed.
PassDies(p) ==
    /\ ppc[p] # "idle"
    /\ PassEnds(p)
    /\ UNCHANGED <<settingVars, present, targetVars, jobVars, snaps, workVars>>

\* POST /storage/:connectionId/scan of a bucket root: the job, and no target.
ScanRoot(b) ==
    /\ permitted
    /\ OpenFor(b) = {}
    /\ \E i \in Ids : Enqueued(b, i)
    /\ UNCHANGED <<settingVars, present, targetVars, snaps, passVars, workVars>>

-----------------------------------------------------------------------------
(* The scan handler inside the job loop.                                    *)

WGoto(w, pc) == wpc' = [wpc EXCEPT ![w] = pc]

RunEnds(w) ==
    /\ WGoto(w, "idle")
    /\ wjob' = [wjob EXCEPT ![w] = 0]
    /\ wgot' = [wgot EXCEPT ![w] = 0]
    /\ aborted' = [aborted EXCEPT ![w] = FALSE]

Claim(w) ==
    /\ wpc[w] = "idle"
    /\ \E i \in Ids :
          /\ jstatus[i] = "queued"
          /\ \A j \in Ids : jstatus[j] = "queued" => i <= j
          /\ jstatus' = [jstatus EXCEPT ![i] = "running"]
          /\ wjob' = [wjob EXCEPT ![w] = i]
    /\ WGoto(w, "scanning")
    /\ UNCHANGED <<settingVars, present, targetVars, jbucket, nextId, snaps, passVars,
                   wgot, aborted>>

\* A page is counted; without a next cursor the handler stores the result.
Page(w) ==
    /\ wpc[w] = "scanning" /\ ~aborted[w]
    /\ jbucket[wjob[w]] \in present
    /\ wgot' = [wgot EXCEPT ![w] = @ + 1]
    /\ IF wgot[w] + 1 = Pages THEN WGoto(w, "store") ELSE UNCHANGED wpc
    /\ UNCHANGED <<settingVars, present, targetVars, jobVars, snaps, passVars, wjob, aborted>>

\* Any error of a page, whatever its kind, ends the walk with partial = true.
PageFails(w) ==
    /\ wpc[w] = "scanning" /\ ~aborted[w]
    /\ WGoto(w, "partial")
    /\ UNCHANGED <<settingVars, present, targetVars, jobVars, snaps, passVars, wjob,
                   wgot, aborted>>

\* getStorage or getConnectionConfig throws before the first page.
SetupFails(w) ==
    /\ wpc[w] = "scanning" /\ wgot[w] = 0
    /\ WGoto(w, "error")
    /\ UNCHANGED <<settingVars, present, targetVars, jobVars, snaps, passVars, wjob,
                   wgot, aborted>>

\* The throttled isCanceled of setProgress answers.
SeeCancel(w) ==
    /\ wpc[w] # "idle" /\ ~aborted[w]
    /\ jstatus[wjob[w]] = "canceled"
    /\ aborted' = [aborted EXCEPT ![w] = TRUE]
    /\ UNCHANGED <<settingVars, present, targetVars, jobVars, snaps, passVars, wpc, wjob, wgot>>

\* An aborted run stores nothing and is not finished.
Abandon(w) ==
    /\ wpc[w] \in {"scanning", "finish", "fail"} /\ aborted[w]
    /\ RunEnds(w)
    /\ UNCHANGED <<settingVars, present, targetVars, jobVars, snaps, passVars>>

\* recordSuccess: snapshot and target in one transaction; a run of a job that
\* already has its snapshot inserts none.
RecordSuccess(w) ==
    LET i == wjob[w]  b == jbucket[wjob[w]] IN
    /\ wpc[w] = "store"
    /\ snaps' = [snaps EXCEPT ![i] = IF @ = <<>> THEN <<wgot[w]>> ELSE @]
    /\ tjob' = [tjob EXCEPT ![b] = i]
    /\ tstatus' = [tstatus EXCEPT ![b] = "success"]
    /\ WGoto(w, "finish")
    /\ UNCHANGED <<settingVars, present, ton, jobVars, passVars, wjob, wgot, aborted>>

\* recordPartial and recordError name the bucket, not the job.
RecordTrouble(w) ==
    /\ wpc[w] \in {"partial", "error"}
    /\ tstatus' = [tstatus EXCEPT ![jbucket[wjob[w]]] = wpc[w]]
    /\ WGoto(w, IF wpc[w] = "partial" THEN "finish" ELSE "fail")
    /\ UNCHANGED <<settingVars, present, ton, tjob, jobVars, snaps, passVars, wjob, wgot, aborted>>

\* A failing recordSuccess or recordPartial is an error of the handler, recorded
\* unless the run is aborted by now; a failing recordError is only logged.
RecordFails(w) ==
    /\ \/ wpc[w] \in {"store", "partial"} /\ WGoto(w, IF aborted[w] THEN "fail" ELSE "error")
       \/ wpc[w] = "error" /\ WGoto(w, "fail")
    /\ UNCHANGED <<settingVars, present, targetVars, jobVars, snaps, passVars, wjob,
                   wgot, aborted>>

\* finish or fail of the runner: only a running row is closed.
CloseJob(w) ==
    /\ wpc[w] \in {"finish", "fail"} /\ ~aborted[w]
    /\ jstatus' = [jstatus EXCEPT ![wjob[w]] =
                     IF @ # "running" THEN @ ELSE IF wpc[w] = "finish" THEN "done" ELSE "error"]
    /\ RunEnds(w)
    /\ UNCHANGED <<settingVars, present, targetVars, jbucket, nextId, snaps, passVars>>

Crash(w) ==
    /\ wpc[w] # "idle"
    /\ RunEnds(w)
    /\ UNCHANGED <<settingVars, present, targetVars, jobVars, snaps, passVars>>

Cancel(i) ==
    /\ Open(i)
    /\ jstatus' = [jstatus EXCEPT ![i] = "canceled"]
    /\ UNCHANGED <<settingVars, present, targetVars, jbucket, nextId, snaps, passVars, workVars>>

\* requeueStale: a run without a heartbeat, dead or only slow, is queued again
\* or, after its last attempt, buried.
Sweep(i) ==
    /\ jstatus[i] = "running"
    /\ \E s \in {"queued", "error"} : jstatus' = [jstatus EXCEPT ![i] = s]
    /\ UNCHANGED <<settingVars, present, targetVars, jbucket, nextId, snaps, passVars, workVars>>

-----------------------------------------------------------------------------
PassStep(p) ==
    \/ Check(p) \/ List(p) \/ Sync(p) \/ Enqueue(p) \/ Attach(p)
    \/ Settle(p) \/ StepFails(p)

LoopStep(w) ==
    \/ Claim(w) \/ Page(w) \/ PageFails(w) \/ SetupFails(w) \/ Abandon(w)
    \/ RecordSuccess(w) \/ RecordTrouble(w) \/ RecordFails(w) \/ CloseJob(w)

Next ==
    \/ \E on, ok \in BOOLEAN : Put(on, ok)
    \/ RefreshView \/ TimePasses
    \/ \E b \in Buckets : Vanish(b) \/ ScanRoot(b)
    \/ \E p \in Passes : Reserve(p) \/ Post(p) \/ PassStep(p) \/ PassDies(p)
    \/ \E w \in Workers : LoopStep(w) \/ SeeCancel(w) \/ Crash(w)
    \/ \E i \in Ids : Cancel(i) \/ Sweep(i)

Spec == Init /\ [][Next]_vars

\* The 60-second timer fires, time passes, calls return or fail, the job loop
\* runs.  Nobody is obliged to press a button, and nothing has to fail.
Fairness ==
    /\ WF_vars(TimePasses)
    /\ WF_vars(RefreshView)
    /\ WF_vars(\E p \in Timers : Reserve(p))
    /\ \A p \in Passes : WF_vars(PassStep(p))
    /\ \A w \in Workers : WF_vars(LoopStep(w))

FairSpec == Spec /\ Fairness

-----------------------------------------------------------------------------
(* Properties.                                                              *)

TablesOK ==
    /\ tracking \in BOOLEAN /\ permitted \in BOOLEAN /\ view \in BOOLEAN
    /\ nextRun \in {"unset", "due", "later"}
    /\ present \subseteq Buckets
    /\ ton \in [Buckets -> BOOLEAN]
    /\ tstatus \in [Buckets -> {"none", "waiting", "queued", "success", "partial",
                                "error", "paused"}]
    /\ tjob \in [Buckets -> 0 .. MaxJobs]
    /\ jstatus \in [Ids -> {"absent", "queued", "running", "done", "error", "canceled"}]
    /\ jbucket \in [Ids -> Buckets \cup {NoBucket}]
    /\ nextId \in 1 .. (MaxJobs + 1)
    /\ snaps \in [Ids -> Seq(1 .. Pages)]

ActorsOK ==
    /\ ppc \in [Passes -> {"idle", "check", "list", "sync", "enqueue", "attach", "mark",
                           "pause", "error"}]
    /\ pleft \in [Passes -> SUBSET Buckets]
    /\ pcur \in [Passes -> Buckets \cup {NoBucket}]
    /\ pid \in [Passes -> 0 .. MaxJobs]
    /\ wpc \in [Workers -> {"idle", "scanning", "store", "partial", "error", "finish", "fail"}]
    /\ wjob \in [Workers -> 0 .. MaxJobs]
    /\ wgot \in [Workers -> 0 .. Pages]
    /\ aborted \in [Workers -> BOOLEAN]

\* The shape of the tables and of the actors' local state.
TypeOK == TablesOK /\ ActorsOK

\* A job contributes at most one point to the history, also when its worker
\* dies after the transaction and the job is run again, or when a swept run
\* and its successor both reach the end.
OneSnapshotPerJob == \A i \in Ids : Len(snaps[i]) <= 1

\* Every point of the history is the sum of all the pages of one walk: neither
\* a failed page, nor an abort, nor a re-run leaves a smaller number.
OnlyWholeScans == \A i \in Ids : \A n \in DOMAIN snaps[i] : snaps[i][n] = Pages

\* A target that shows a success has the snapshot of the job it names, however
\* scheduler, requests and workers write to the row.
SuccessIsBacked ==
    \A b \in Buckets : tstatus[b] = "success" =>
       /\ tjob[b] \in Ids
       /\ jbucket[tjob[b]] = b
       /\ snaps[tjob[b]] # <<>>

\* The history of a job is what the job saw: one snapshot at most, of a whole scan,
\* whatever runs of it died, went on beside their successor or failed half-way; and
\* a target only shows a success that has its snapshot.
HistoryIsWhole == OneSnapshotPerJob /\ OnlyWholeScans /\ SuccessIsBacked

\* Tracking that is on is never off the schedule: no order of switching it off
\* and on, of passes and of their late writes leaves next_run_at NULL.
TrackedHasNextRun == tracking => nextRun # "unset"

\* A connection that stays tracked is reserved again and again, also when a
\* pass dies between its reservation and its last statement.
TrackedIsReserved ==
    /\ tracking /\ nextRun = "due" ~> (nextRun = "later" \/ ~tracking)
    /\ tracking ~> (nextRun = "due" \/ ~tracking)

=============================================================================
