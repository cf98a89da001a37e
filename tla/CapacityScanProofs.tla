-------------------------- MODULE CapacityScanProofs --------------------------
(* Theorems of CapacityScan, for every set of buckets, passes and workers,    *)
(* every number of pages and every bound on the jobs; and, of the other job    *)
(* that makes itself anew, how often an estimate may refresh the prices, for  *)
(* every finite set of requests and every number of days.                     *)
EXTENDS CapacityScan, Estimates, FiniteSetTheorems, TLAPS

\* The ids below the sequence are the jobs that exist, each with its bucket.
JobsInv ==
    \A i \in Ids : IF i < nextId THEN jbucket[i] \in Buckets
                   ELSE jbucket[i] = NoBucket /\ jstatus[i] = "absent"

\* A busy job loop runs an existing job, and stores only what it walked to the end.
RunsInv ==
    \A w \in Workers :
       /\ wpc[w] = "idle" => wgot[w] = 0
       /\ wpc[w] # "idle" => wjob[w] \in Ids /\ jbucket[wjob[w]] \in Buckets
       /\ wpc[w] = "scanning" => wgot[w] < Pages
       /\ wpc[w] = "store" => wgot[w] = Pages

\* A pass attaches a job of the bucket it enqueued.
PassInv ==
    \A p \in Passes : ppc[p] = "attach" =>
       /\ pid[p] \in Ids /\ pcur[p] \in Buckets
       /\ jbucket[pid[p]] = pcur[p]

\* The history and the targets that point into it.
HistoryInv == OneSnapshotPerJob /\ OnlyWholeScans /\ SuccessIsBacked

IInv == TypeOK /\ JobsInv /\ RunsInv /\ PassInv /\ HistoryInv /\ TrackedHasNextRun


-----------------------------------------------------------------------------
(* What the operators shared by several actions do to the types.            *)

JobsTyped ==
    /\ jstatus \in [Ids -> {"absent", "queued", "running", "done", "error", "canceled"}]
    /\ jbucket \in [Ids -> Buckets \cup {NoBucket}]
    /\ nextId \in 1 .. (MaxJobs + 1)

PassesTyped ==
    /\ ppc \in [Passes -> {"idle", "check", "list", "sync", "enqueue", "attach", "mark",
                           "pause", "error"}]
    /\ pleft \in [Passes -> SUBSET Buckets]
    /\ pcur \in [Passes -> Buckets \cup {NoBucket}]
    /\ pid \in [Passes -> 0 .. MaxJobs]

\* The bucket of an existing job does not change.
KeepsBuckets == \A j \in Ids : jbucket[j] \in Buckets => jbucket'[j] = jbucket[j]

\* An enqueue answers with a job of the bucket and leaves the others alone.
LEMMA EnqueuedJob ==
    ASSUME JobsTyped, NEW b \in Buckets, NEW i \in Ids, Enqueued(b, i)
    PROVE  /\ JobsTyped'
           /\ JobsInv => JobsInv' /\ KeepsBuckets /\ jbucket'[i] = b
<1> USE CapacityScanAssumption DEF Ids, JobsTyped
<1>1. CASE i \in OpenFor(b) /\ UNCHANGED jobVars
  BY <1>1 DEF OpenFor, Open, jobVars, JobsInv, KeepsBuckets
<1>2. CASE /\ i = nextId /\ nextId <= MaxJobs
           /\ jstatus' = [jstatus EXCEPT ![i] = "queued"]
           /\ jbucket' = [jbucket EXCEPT ![i] = b]
           /\ nextId' = nextId + 1
  <2>1. nextId' \in 1 .. (MaxJobs + 1)
    BY <1>2
  <2>2. JobsTyped'
    BY <1>2, <2>1
  <2>3. JobsInv => JobsInv' /\ KeepsBuckets /\ jbucket'[i] = b
    BY <1>2 DEF JobsInv, KeepsBuckets
  <2> QED BY <2>2, <2>3
<1> QED BY <1>1, <1>2 DEF Enqueued

\* The end of a pass clears its locals.
LEMMA PassEndsPasses ==
    ASSUME PassesTyped, NEW p \in Passes, PassEnds(p)
    PROVE  PassesTyped'
BY CapacityScanAssumption DEF PassesTyped, PassEnds, Goto

\* The loop over the buckets goes on or ends.
LEMMA NextBucketPasses ==
    ASSUME PassesTyped, NEW p \in Passes, NEW left, NextBucket(p, left)
    PROVE  PassesTyped'
<1>1. CASE PassEnds(p)
  BY <1>1, PassEndsPasses
<1>2. CASE /\ Goto(p, "enqueue") \/ Goto(p, "mark")
           /\ UNCHANGED <<pleft, pcur, pid>>
  BY <1>2 DEF PassesTyped, Goto
<1> QED BY <1>1, <1>2 DEF NextBucket

-----------------------------------------------------------------------------
\* Every step keeps the types.
LEMMA TypeStep ==
    ASSUME TypeOK, RunsInv, [Next]_vars
    PROVE  TypeOK'
<1> USE CapacityScanAssumption DEF TypeOK, TablesOK, ActorsOK, RunsInv, Ids, JobsTyped, PassesTyped
<1>1. ASSUME NEW on \in BOOLEAN, NEW ok \in BOOLEAN, Put(on, ok) PROVE TypeOK'
  <2>1. /\ tracking' \in BOOLEAN /\ nextRun' \in {"unset", "due", "later"}
        /\ ton' \in [Buckets -> BOOLEAN]
    BY <1>1 DEF Put, NextRunAfter
  <2>2. tstatus' \in [Buckets -> {"none", "waiting", "queued", "success", "partial",
                                 "error", "paused"}]
    BY <1>1 DEF Put
  <2> QED BY <1>1, <2>1, <2>2 DEF Put, settingVars, targetVars, jobVars, passVars, workVars
<1>2. ASSUME RefreshView PROVE TypeOK'
  BY <1>2 DEF RefreshView, settingVars, targetVars, jobVars, passVars, workVars
<1>3. ASSUME TimePasses PROVE TypeOK'
  BY <1>3 DEF TimePasses, settingVars, targetVars, jobVars, passVars, workVars
<1>4. ASSUME NEW b \in Buckets, Vanish(b) PROVE TypeOK'
  BY <1>4 DEF Vanish, settingVars, targetVars, jobVars, passVars, workVars
<1>5. ASSUME NEW b \in Buckets, ScanRoot(b) PROVE TypeOK'
  <2>1. PICK i \in Ids : Enqueued(b, i)
    BY <1>5 DEF ScanRoot
  <2>2. JobsTyped'
    BY <2>1, EnqueuedJob
  <2> QED BY <1>5, <2>2 DEF ScanRoot, JobsTyped, settingVars, targetVars, jobVars, passVars, workVars
<1>6. ASSUME NEW p \in Passes, Reserve(p) PROVE TypeOK'
  BY <1>6 DEF Reserve, Goto, settingVars, targetVars, jobVars, passVars, workVars
<1>7. ASSUME NEW p \in Passes, Post(p) PROVE TypeOK'
  BY <1>7 DEF Post, Goto, settingVars, targetVars, jobVars, passVars, workVars
<1>8. ASSUME NEW p \in Passes, Check(p) PROVE TypeOK'
  BY <1>8 DEF Check, Goto, settingVars, targetVars, jobVars, passVars, workVars
<1>9. ASSUME NEW p \in Passes, List(p) PROVE TypeOK'
  BY <1>9 DEF List, Goto, settingVars, targetVars, jobVars, passVars, workVars
<1>10. ASSUME NEW p \in Passes, Sync(p) PROVE TypeOK'
  <2>1. pleft[p] \subseteq Buckets
    BY <1>10
  <2>2. /\ ton' \in [Buckets -> BOOLEAN]
        /\ tstatus' \in [Buckets -> {"none", "waiting", "queued", "success", "partial",
                                     "error", "paused"}]
    BY <1>10 DEF Sync
  <2>3. PassesTyped'
    BY <1>10, <2>1, NextBucketPasses DEF Sync
  <2> QED BY <1>10, <2>2, <2>3 DEF Sync, PassesTyped, settingVars, targetVars, jobVars, passVars, workVars
<1>11. ASSUME NEW p \in Passes, Enqueue(p) PROVE TypeOK'
  <2>1. PICK b \in pleft[p], i \in Ids :
          /\ Enqueued(b, i)
          /\ pcur' = [pcur EXCEPT ![p] = b]
          /\ pid' = [pid EXCEPT ![p] = i]
          /\ pleft' = [pleft EXCEPT ![p] = @ \ {b}]
    BY <1>11 DEF Enqueue
  <2>2. b \in Buckets
    BY <2>1
  <2>3. JobsTyped'
    BY <2>1, <2>2, EnqueuedJob
  <2>4. pleft' \in [Passes -> SUBSET Buckets]
    BY <2>1
  <2>5. pcur' \in [Passes -> Buckets \cup {NoBucket}] /\ pid' \in [Passes -> 0 .. MaxJobs]
    BY <2>1, <2>2
  <2> QED BY <1>11, <2>3, <2>4, <2>5 DEF Enqueue, Goto, JobsTyped, settingVars, targetVars, jobVars, passVars, workVars
<1>12. ASSUME NEW p \in Passes, Attach(p) PROVE TypeOK'
  <2>1. pleft[p] \subseteq Buckets /\ pid[p] \in 0 .. MaxJobs
    BY <1>12
  <2>2. /\ tjob' \in [Buckets -> 0 .. MaxJobs]
        /\ tstatus' \in [Buckets -> {"none", "waiting", "queued", "success", "partial",
                                     "error", "paused"}]
    BY <1>12, <2>1 DEF Attach
  <2>3. PassesTyped'
    BY <1>12, <2>1, NextBucketPasses DEF Attach
  <2> QED BY <1>12, <2>2, <2>3 DEF Attach, PassesTyped, settingVars, targetVars, jobVars, passVars, workVars
<1>13. ASSUME NEW p \in Passes, Settle(p) PROVE TypeOK'
  BY <1>13 DEF Settle, PassEnds, Goto, settingVars, targetVars, jobVars, passVars, workVars
<1>14. ASSUME NEW p \in Passes, StepFails(p) PROVE TypeOK'
  <2>1. CASE PassEnds(p)
    <3>1. PassesTyped'
      BY <2>1, <1>14, PassEndsPasses
    <3> QED BY <1>14, <3>1 DEF StepFails, PassesTyped, settingVars, targetVars, jobVars, passVars, workVars
  <2>2. CASE Goto(p, "error") /\ UNCHANGED <<pleft, pcur, pid>>
    BY <1>14, <2>2 DEF StepFails, Goto, settingVars, targetVars, jobVars, passVars, workVars
  <2> QED BY <1>14, <2>1, <2>2 DEF StepFails
<1>15. ASSUME NEW p \in Passes, PassDies(p) PROVE TypeOK'
  BY <1>15 DEF PassDies, PassEnds, Goto, settingVars, targetVars, jobVars, passVars, workVars
<1>16. ASSUME NEW w \in Workers, Claim(w) PROVE TypeOK'
  BY <1>16 DEF Claim, WGoto, settingVars, targetVars, jobVars, passVars, workVars
<1>17. ASSUME NEW w \in Workers, Page(w) PROVE TypeOK'
  <2>1. wgot[w] < Pages /\ wgot[w] \in Nat /\ Pages \in Nat
    BY <1>17 DEF Page
  <2>2. wgot[w] + 1 \in 0 .. Pages
    BY <2>1
  <2>3. wgot' \in [Workers -> 0 .. Pages]
    BY <1>17, <2>2 DEF Page
  <2>4. wpc' \in [Workers -> {"idle", "scanning", "store", "partial", "error", "finish", "fail"}]
    <3>1. CASE WGoto(w, "store")
      BY <3>1 DEF WGoto
    <3> QED BY <1>17, <3>1 DEF Page
  <2> QED BY <1>17, <2>3, <2>4 DEF Page, settingVars, targetVars, jobVars, passVars, workVars
<1>18. ASSUME NEW w \in Workers, PageFails(w) PROVE TypeOK'
  BY <1>18 DEF PageFails, WGoto, settingVars, targetVars, jobVars, passVars, workVars
<1>19. ASSUME NEW w \in Workers, SetupFails(w) PROVE TypeOK'
  BY <1>19 DEF SetupFails, WGoto, settingVars, targetVars, jobVars, passVars, workVars
<1>20. ASSUME NEW w \in Workers, Abandon(w) PROVE TypeOK'
  BY <1>20 DEF Abandon, RunEnds, WGoto, settingVars, targetVars, jobVars, passVars, workVars
<1>21. ASSUME NEW w \in Workers, RecordSuccess(w) PROVE TypeOK'
  <2>1. wgot[w] = Pages /\ wgot[w] \in 1 .. Pages /\ wjob[w] \in Ids
    BY <1>21 DEF RecordSuccess
  <2>2. <<wgot[w]>> \in Seq(1 .. Pages)
    BY <2>1
  <2>3. snaps' \in [Ids -> Seq(1 .. Pages)]
    BY <1>21, <2>1, <2>2 DEF RecordSuccess
  <2>4. /\ tjob' \in [Buckets -> 0 .. MaxJobs]
        /\ tstatus' \in [Buckets -> {"none", "waiting", "queued", "success", "partial",
                                     "error", "paused"}]
    BY <1>21, <2>1 DEF RecordSuccess
  <2> QED BY <1>21, <2>3, <2>4 DEF RecordSuccess, WGoto, settingVars, targetVars, jobVars, passVars, workVars
<1>22. ASSUME NEW w \in Workers, RecordTrouble(w) PROVE TypeOK'
  BY <1>22 DEF RecordTrouble, WGoto, settingVars, targetVars, jobVars, passVars, workVars
<1>23. ASSUME NEW w \in Workers, RecordFails(w) PROVE TypeOK'
  BY <1>23 DEF RecordFails, WGoto, settingVars, targetVars, jobVars, passVars, workVars
<1>24. ASSUME NEW w \in Workers, CloseJob(w) PROVE TypeOK'
  BY <1>24 DEF CloseJob, RunEnds, WGoto, settingVars, targetVars, jobVars, passVars, workVars
<1>25. ASSUME NEW w \in Workers, SeeCancel(w) PROVE TypeOK'
  BY <1>25 DEF SeeCancel, settingVars, targetVars, jobVars, passVars, workVars
<1>26. ASSUME NEW w \in Workers, Crash(w) PROVE TypeOK'
  BY <1>26 DEF Crash, RunEnds, WGoto, settingVars, targetVars, jobVars, passVars, workVars
<1>27. ASSUME NEW i \in Ids, Cancel(i) PROVE TypeOK'
  BY <1>27 DEF Cancel, Open, settingVars, targetVars, jobVars, passVars, workVars
<1>28. ASSUME NEW i \in Ids, Sweep(i) PROVE TypeOK'
  BY <1>28 DEF Sweep, settingVars, targetVars, jobVars, passVars, workVars
<1>29. CASE UNCHANGED vars
  BY <1>29 DEF vars, settingVars, targetVars, jobVars, passVars, workVars
<1> QED BY <1>1, <1>2, <1>3, <1>4, <1>5, <1>6, <1>7, <1>8, <1>9, <1>10, <1>11, <1>12, <1>13, <1>14, <1>15, <1>16, <1>17, <1>18, <1>19, <1>20, <1>21, <1>22, <1>23, <1>24, <1>25, <1>26, <1>27, <1>28, <1>29 DEF Next, PassStep, LoopStep

\* Every step keeps the jobs, the loops and the passes consistent.
LEMMA ControlStep ==
    ASSUME TypeOK, JobsInv, RunsInv, PassInv, [Next]_vars
    PROVE  JobsInv' /\ RunsInv' /\ PassInv'
<1> USE CapacityScanAssumption DEF TypeOK, TablesOK, ActorsOK, JobsInv, RunsInv, PassInv, Ids, Open, JobsTyped
<1>1. ASSUME NEW on \in BOOLEAN, NEW ok \in BOOLEAN, Put(on, ok) PROVE JobsInv' /\ RunsInv' /\ PassInv'
  BY <1>1 DEF Put, NextRunAfter, settingVars, targetVars, jobVars, passVars, workVars
<1>2. ASSUME RefreshView PROVE JobsInv' /\ RunsInv' /\ PassInv'
  BY <1>2 DEF RefreshView, settingVars, targetVars, jobVars, passVars, workVars
<1>3. ASSUME TimePasses PROVE JobsInv' /\ RunsInv' /\ PassInv'
  BY <1>3 DEF TimePasses, settingVars, targetVars, jobVars, passVars, workVars
<1>4. ASSUME NEW b \in Buckets, Vanish(b) PROVE JobsInv' /\ RunsInv' /\ PassInv'
  BY <1>4 DEF Vanish, settingVars, targetVars, jobVars, passVars, workVars
<1>5. ASSUME NEW b \in Buckets, ScanRoot(b) PROVE JobsInv' /\ RunsInv' /\ PassInv'
  <2>1. PICK i \in Ids : Enqueued(b, i)
    BY <1>5 DEF ScanRoot
  <2>2. JobsInv' /\ KeepsBuckets
    BY <2>1, EnqueuedJob
  <2> QED BY <1>5, <2>2 DEF ScanRoot, KeepsBuckets, settingVars, targetVars, jobVars, passVars, workVars
<1>6. ASSUME NEW p \in Passes, Reserve(p) PROVE JobsInv' /\ RunsInv' /\ PassInv'
  BY <1>6 DEF Reserve, Goto, settingVars, targetVars, jobVars, passVars, workVars
<1>7. ASSUME NEW p \in Passes, Post(p) PROVE JobsInv' /\ RunsInv' /\ PassInv'
  BY <1>7 DEF Post, Goto, settingVars, targetVars, jobVars, passVars, workVars
<1>8. ASSUME NEW p \in Passes, Check(p) PROVE JobsInv' /\ RunsInv' /\ PassInv'
  BY <1>8 DEF Check, Goto, settingVars, targetVars, jobVars, passVars, workVars
<1>9. ASSUME NEW p \in Passes, List(p) PROVE JobsInv' /\ RunsInv' /\ PassInv'
  BY <1>9 DEF List, Goto, settingVars, targetVars, jobVars, passVars, workVars
<1>10. ASSUME NEW p \in Passes, Sync(p) PROVE JobsInv' /\ RunsInv' /\ PassInv'
  BY <1>10 DEF Sync, NextBucket, PassEnds, Goto, settingVars, targetVars, jobVars, passVars, workVars
<1>11. ASSUME NEW p \in Passes, Enqueue(p) PROVE JobsInv' /\ RunsInv' /\ PassInv'
  <2>1. PICK b \in pleft[p], i \in Ids :
          /\ Enqueued(b, i)
          /\ pcur' = [pcur EXCEPT ![p] = b]
          /\ pid' = [pid EXCEPT ![p] = i]
    BY <1>11 DEF Enqueue
  <2>2. b \in Buckets
    BY <2>1
  <2>3. JobsInv' /\ KeepsBuckets /\ jbucket'[i] = b
    BY <2>1, <2>2, EnqueuedJob
  <2>4. RunsInv'
    BY <1>11, <2>3 DEF Enqueue, KeepsBuckets, settingVars, targetVars, jobVars, passVars, workVars
  <2>5. PassInv'
    <3> SUFFICES ASSUME NEW q \in Passes, ppc'[q] = "attach"
                 PROVE  /\ pid'[q] \in Ids /\ pcur'[q] \in Buckets
                        /\ jbucket'[pid'[q]] = pcur'[q]
      OBVIOUS
    <3>1. CASE q = p
      BY <2>1, <2>2, <2>3, <3>1
    <3>2. CASE q # p
      <4>1. ppc[q] = "attach" /\ pid'[q] = pid[q] /\ pcur'[q] = pcur[q]
        BY <1>11, <2>1, <3>2 DEF Enqueue, Goto
      <4> QED BY <2>3, <4>1 DEF KeepsBuckets
    <3> QED BY <3>1, <3>2
  <2> QED BY <2>3, <2>4, <2>5
<1>12. ASSUME NEW p \in Passes, Attach(p) PROVE JobsInv' /\ RunsInv' /\ PassInv'
  <2>1. JobsInv' /\ RunsInv'
    BY <1>12 DEF Attach, settingVars, jobVars, workVars
  <2>2. UNCHANGED jbucket
    BY <1>12 DEF Attach, jobVars
  <2>3. CASE UNCHANGED <<ppc, pleft, pcur, pid>>
    BY <2>1, <2>2, <2>3
  <2>4. CASE \E pc \in {"enqueue", "mark"} : Goto(p, pc) /\ UNCHANGED <<pleft, pcur, pid>>
    BY <2>1, <2>2, <2>4 DEF Goto
  <2>5. CASE PassEnds(p)
    BY <2>1, <2>2, <2>5 DEF PassEnds, Goto
  <2> QED BY <1>12, <2>1, <2>3, <2>4, <2>5 DEF Attach, NextBucket
<1>13. ASSUME NEW p \in Passes, Settle(p) PROVE JobsInv' /\ RunsInv' /\ PassInv'
  BY <1>13 DEF Settle, PassEnds, Goto, settingVars, targetVars, jobVars, passVars, workVars
<1>14. ASSUME NEW p \in Passes, StepFails(p) PROVE JobsInv' /\ RunsInv' /\ PassInv'
  BY <1>14 DEF StepFails, PassEnds, Goto, settingVars, targetVars, jobVars, passVars, workVars
<1>15. ASSUME NEW p \in Passes, PassDies(p) PROVE JobsInv' /\ RunsInv' /\ PassInv'
  BY <1>15 DEF PassDies, PassEnds, Goto, settingVars, targetVars, jobVars, passVars, workVars
<1>16. ASSUME NEW w \in Workers, Claim(w) PROVE JobsInv' /\ RunsInv' /\ PassInv'
  <2>1. PICK i \in Ids :
          /\ jstatus[i] = "queued"
          /\ jstatus' = [jstatus EXCEPT ![i] = "running"]
          /\ wjob' = [wjob EXCEPT ![w] = i]
    BY <1>16 DEF Claim
  <2>2. i < nextId /\ jbucket[i] \in Buckets
    BY <2>1
  <2>3. JobsInv'
    BY <1>16, <2>1, <2>2 DEF Claim
  <2>4. RunsInv'
    <3>1. /\ wpc' = [wpc EXCEPT ![w] = "scanning"] /\ wpc[w] = "idle"
          /\ UNCHANGED <<wgot, jbucket>>
      BY <1>16 DEF Claim, WGoto
    <3>2. wgot[w] < Pages
      BY <3>1
    <3> QED BY <2>1, <2>2, <3>1, <3>2
  <2> QED BY <1>16, <2>3, <2>4 DEF Claim, passVars
<1>17. ASSUME NEW w \in Workers, Page(w) PROVE JobsInv' /\ RunsInv' /\ PassInv'
  BY <1>17 DEF Page, WGoto, settingVars, targetVars, jobVars, passVars, workVars
<1>18. ASSUME NEW w \in Workers, PageFails(w) PROVE JobsInv' /\ RunsInv' /\ PassInv'
  BY <1>18 DEF PageFails, WGoto, settingVars, targetVars, jobVars, passVars, workVars
<1>19. ASSUME NEW w \in Workers, SetupFails(w) PROVE JobsInv' /\ RunsInv' /\ PassInv'
  BY <1>19 DEF SetupFails, WGoto, settingVars, targetVars, jobVars, passVars, workVars
<1>20. ASSUME NEW w \in Workers, Abandon(w) PROVE JobsInv' /\ RunsInv' /\ PassInv'
  BY <1>20 DEF Abandon, RunEnds, WGoto, settingVars, targetVars, jobVars, passVars, workVars
<1>21. ASSUME NEW w \in Workers, RecordSuccess(w) PROVE JobsInv' /\ RunsInv' /\ PassInv'
  BY <1>21 DEF RecordSuccess, WGoto, settingVars, targetVars, jobVars, passVars, workVars
<1>22. ASSUME NEW w \in Workers, RecordTrouble(w) PROVE JobsInv' /\ RunsInv' /\ PassInv'
  BY <1>22 DEF RecordTrouble, WGoto, settingVars, targetVars, jobVars, passVars, workVars
<1>23. ASSUME NEW w \in Workers, RecordFails(w) PROVE JobsInv' /\ RunsInv' /\ PassInv'
  BY <1>23 DEF RecordFails, WGoto, settingVars, targetVars, jobVars, passVars, workVars
<1>24. ASSUME NEW w \in Workers, CloseJob(w) PROVE JobsInv' /\ RunsInv' /\ PassInv'
  BY <1>24 DEF CloseJob, RunEnds, WGoto, settingVars, targetVars, jobVars, passVars, workVars
<1>25. ASSUME NEW w \in Workers, SeeCancel(w) PROVE JobsInv' /\ RunsInv' /\ PassInv'
  BY <1>25 DEF SeeCancel, settingVars, targetVars, jobVars, passVars, workVars
<1>26. ASSUME NEW w \in Workers, Crash(w) PROVE JobsInv' /\ RunsInv' /\ PassInv'
  BY <1>26 DEF Crash, RunEnds, WGoto, settingVars, targetVars, jobVars, passVars, workVars
<1>27. ASSUME NEW i \in Ids, Cancel(i) PROVE JobsInv' /\ RunsInv' /\ PassInv'
  BY <1>27 DEF Cancel, Open, settingVars, targetVars, jobVars, passVars, workVars
<1>28. ASSUME NEW i \in Ids, Sweep(i) PROVE JobsInv' /\ RunsInv' /\ PassInv'
  BY <1>28 DEF Sweep, settingVars, targetVars, jobVars, passVars, workVars
<1>29. CASE UNCHANGED vars
  BY <1>29 DEF vars, settingVars, targetVars, jobVars, passVars, workVars
<1> QED BY <1>1, <1>2, <1>3, <1>4, <1>5, <1>6, <1>7, <1>8, <1>9, <1>10, <1>11, <1>12, <1>13, <1>14, <1>15, <1>16, <1>17, <1>18, <1>19, <1>20, <1>21, <1>22, <1>23, <1>24, <1>25, <1>26, <1>27, <1>28, <1>29 DEF Next, PassStep, LoopStep

\* Every step keeps the history whole and the targets backed by it.
LEMMA HistoryStep ==
    ASSUME TypeOK, JobsInv, RunsInv, PassInv, HistoryInv, [Next]_vars
    PROVE  HistoryInv'
<1> USE CapacityScanAssumption DEF TypeOK, TablesOK, ActorsOK, JobsInv, RunsInv, PassInv, HistoryInv, OneSnapshotPerJob, OnlyWholeScans, SuccessIsBacked, Ids, Open, OpenFor
<1>1. ASSUME NEW on \in BOOLEAN, NEW ok \in BOOLEAN, Put(on, ok) PROVE HistoryInv'
  BY <1>1 DEF Put, NextRunAfter, settingVars, targetVars, jobVars, passVars, workVars
<1>2. ASSUME RefreshView PROVE HistoryInv'
  BY <1>2 DEF RefreshView, settingVars, targetVars, jobVars, passVars, workVars
<1>3. ASSUME TimePasses PROVE HistoryInv'
  BY <1>3 DEF TimePasses, settingVars, targetVars, jobVars, passVars, workVars
<1>4. ASSUME NEW b \in Buckets, Vanish(b) PROVE HistoryInv'
  BY <1>4 DEF Vanish, settingVars, targetVars, jobVars, passVars, workVars
<1>5. ASSUME NEW b \in Buckets, ScanRoot(b) PROVE HistoryInv'
  BY <1>5 DEF ScanRoot, Enqueued, settingVars, targetVars, jobVars, passVars, workVars
<1>6. ASSUME NEW p \in Passes, Reserve(p) PROVE HistoryInv'
  BY <1>6 DEF Reserve, Goto, settingVars, targetVars, jobVars, passVars, workVars
<1>7. ASSUME NEW p \in Passes, Post(p) PROVE HistoryInv'
  BY <1>7 DEF Post, Goto, settingVars, targetVars, jobVars, passVars, workVars
<1>8. ASSUME NEW p \in Passes, Check(p) PROVE HistoryInv'
  BY <1>8 DEF Check, Goto, settingVars, targetVars, jobVars, passVars, workVars
<1>9. ASSUME NEW p \in Passes, List(p) PROVE HistoryInv'
  BY <1>9 DEF List, Goto, settingVars, targetVars, jobVars, passVars, workVars
<1>10. ASSUME NEW p \in Passes, Sync(p) PROVE HistoryInv'
  BY <1>10 DEF Sync, NextBucket, PassEnds, Goto, settingVars, targetVars, jobVars, passVars, workVars
<1>11. ASSUME NEW p \in Passes, Enqueue(p) PROVE HistoryInv'
  BY <1>11 DEF Enqueue, Enqueued, Goto, settingVars, targetVars, jobVars, passVars, workVars
<1>12. ASSUME NEW p \in Passes, Attach(p) PROVE HistoryInv'
  BY <1>12 DEF Attach, NextBucket, PassEnds, Goto, settingVars, targetVars, jobVars, passVars, workVars
<1>13. ASSUME NEW p \in Passes, Settle(p) PROVE HistoryInv'
  BY <1>13 DEF Settle, PassEnds, Goto, settingVars, targetVars, jobVars, passVars, workVars
<1>14. ASSUME NEW p \in Passes, StepFails(p) PROVE HistoryInv'
  BY <1>14 DEF StepFails, PassEnds, Goto, settingVars, targetVars, jobVars, passVars, workVars
<1>15. ASSUME NEW p \in Passes, PassDies(p) PROVE HistoryInv'
  BY <1>15 DEF PassDies, PassEnds, Goto, settingVars, targetVars, jobVars, passVars, workVars
<1>16. ASSUME NEW w \in Workers, Claim(w) PROVE HistoryInv'
  BY <1>16 DEF Claim, WGoto, settingVars, targetVars, jobVars, passVars, workVars
<1>17. ASSUME NEW w \in Workers, Page(w) PROVE HistoryInv'
  BY <1>17 DEF Page, WGoto, settingVars, targetVars, jobVars, passVars, workVars
<1>18. ASSUME NEW w \in Workers, PageFails(w) PROVE HistoryInv'
  BY <1>18 DEF PageFails, WGoto, settingVars, targetVars, jobVars, passVars, workVars
<1>19. ASSUME NEW w \in Workers, SetupFails(w) PROVE HistoryInv'
  BY <1>19 DEF SetupFails, WGoto, settingVars, targetVars, jobVars, passVars, workVars
<1>20. ASSUME NEW w \in Workers, Abandon(w) PROVE HistoryInv'
  BY <1>20 DEF Abandon, RunEnds, WGoto, settingVars, targetVars, jobVars, passVars, workVars
<1>21. ASSUME NEW w \in Workers, RecordSuccess(w) PROVE HistoryInv'
  <2> DEFINE j == wjob[w]
             b == jbucket[wjob[w]]
  <2>1. j \in Ids /\ b \in Buckets /\ wgot[w] = Pages
    BY <1>21 DEF RecordSuccess
  <2>2. /\ snaps'[j] = IF snaps[j] = <<>> THEN <<Pages>> ELSE snaps[j]
        /\ \A k \in Ids : k # j => snaps'[k] = snaps[k]
    BY <1>21, <2>1 DEF RecordSuccess
  <2> HIDE DEF j, b
  <2>9. Len(<<Pages>>) = 1 /\ DOMAIN <<Pages>> = {1} /\ <<Pages>>[1] = Pages
    OBVIOUS
  <2>3. OneSnapshotPerJob'
    <3> SUFFICES ASSUME NEW k \in Ids PROVE Len(snaps'[k]) <= 1
      OBVIOUS
    <3>1. CASE snaps'[k] = snaps[k]
      BY <3>1
    <3>2. CASE snaps'[k] = <<Pages>>
      BY <3>2, <2>9
    <3> QED BY <2>2, <3>1, <3>2
  <2>4. OnlyWholeScans'
    <3> SUFFICES ASSUME NEW k \in Ids, NEW n \in DOMAIN snaps'[k] PROVE snaps'[k][n] = Pages
      OBVIOUS
    <3>1. CASE snaps'[k] = snaps[k]
      BY <3>1
    <3>2. CASE snaps'[k] = <<Pages>>
      BY <3>2, <2>9
    <3> QED BY <2>2, <3>1, <3>2
  <2>5. \A k \in Ids : snaps[k] # <<>> => snaps'[k] # <<>>
    BY <2>2
  <2>6. snaps'[j] # <<>>
    BY <2>2, <2>9
  <2>7. SuccessIsBacked'
    BY <1>21, <2>1, <2>5, <2>6 DEF RecordSuccess, jobVars, j, b
  <2> QED BY <2>3, <2>4, <2>7
<1>22. ASSUME NEW w \in Workers, RecordTrouble(w) PROVE HistoryInv'
  BY <1>22 DEF RecordTrouble, WGoto, settingVars, targetVars, jobVars, passVars, workVars
<1>23. ASSUME NEW w \in Workers, RecordFails(w) PROVE HistoryInv'
  BY <1>23 DEF RecordFails, WGoto, settingVars, targetVars, jobVars, passVars, workVars
<1>24. ASSUME NEW w \in Workers, CloseJob(w) PROVE HistoryInv'
  BY <1>24 DEF CloseJob, RunEnds, WGoto, settingVars, targetVars, jobVars, passVars, workVars
<1>25. ASSUME NEW w \in Workers, SeeCancel(w) PROVE HistoryInv'
  BY <1>25 DEF SeeCancel, settingVars, targetVars, jobVars, passVars, workVars
<1>26. ASSUME NEW w \in Workers, Crash(w) PROVE HistoryInv'
  BY <1>26 DEF Crash, RunEnds, WGoto, settingVars, targetVars, jobVars, passVars, workVars
<1>27. ASSUME NEW i \in Ids, Cancel(i) PROVE HistoryInv'
  BY <1>27 DEF Cancel, Open, settingVars, targetVars, jobVars, passVars, workVars
<1>28. ASSUME NEW i \in Ids, Sweep(i) PROVE HistoryInv'
  BY <1>28 DEF Sweep, settingVars, targetVars, jobVars, passVars, workVars
<1>29. CASE UNCHANGED vars
  BY <1>29 DEF vars, settingVars, targetVars, jobVars, passVars, workVars
<1> QED BY <1>1, <1>2, <1>3, <1>4, <1>5, <1>6, <1>7, <1>8, <1>9, <1>10, <1>11, <1>12, <1>13, <1>14, <1>15, <1>16, <1>17, <1>18, <1>19, <1>20, <1>21, <1>22, <1>23, <1>24, <1>25, <1>26, <1>27, <1>28, <1>29 DEF Next, PassStep, LoopStep

\* Every step keeps tracking that is on on the schedule.
LEMMA ScheduleStep ==
    ASSUME TypeOK, TrackedHasNextRun, [Next]_vars
    PROVE  TrackedHasNextRun'
<1> USE CapacityScanAssumption DEF TypeOK, TablesOK, TrackedHasNextRun
<1>1. ASSUME NEW on \in BOOLEAN, NEW ok \in BOOLEAN, Put(on, ok) PROVE TrackedHasNextRun'
  BY <1>1 DEF Put, NextRunAfter, settingVars, targetVars, jobVars, passVars, workVars
<1>2. ASSUME RefreshView PROVE TrackedHasNextRun'
  BY <1>2 DEF RefreshView, settingVars, targetVars, jobVars, passVars, workVars
<1>3. ASSUME TimePasses PROVE TrackedHasNextRun'
  BY <1>3 DEF TimePasses, settingVars, targetVars, jobVars, passVars, workVars
<1>4. ASSUME NEW b \in Buckets, Vanish(b) PROVE TrackedHasNextRun'
  BY <1>4 DEF Vanish, settingVars, targetVars, jobVars, passVars, workVars
<1>5. ASSUME NEW b \in Buckets, ScanRoot(b) PROVE TrackedHasNextRun'
  BY <1>5 DEF ScanRoot, Enqueued, settingVars, targetVars, jobVars, passVars, workVars
<1>6. ASSUME NEW p \in Passes, Reserve(p) PROVE TrackedHasNextRun'
  BY <1>6 DEF Reserve, Goto, settingVars, targetVars, jobVars, passVars, workVars
<1>7. ASSUME NEW p \in Passes, Post(p) PROVE TrackedHasNextRun'
  BY <1>7 DEF Post, Goto, settingVars, targetVars, jobVars, passVars, workVars
<1>8. ASSUME NEW p \in Passes, Check(p) PROVE TrackedHasNextRun'
  BY <1>8 DEF Check, Goto, settingVars, targetVars, jobVars, passVars, workVars
<1>9. ASSUME NEW p \in Passes, List(p) PROVE TrackedHasNextRun'
  BY <1>9 DEF List, Goto, settingVars, targetVars, jobVars, passVars, workVars
<1>10. ASSUME NEW p \in Passes, Sync(p) PROVE TrackedHasNextRun'
  BY <1>10 DEF Sync, NextBucket, PassEnds, Goto, settingVars, targetVars, jobVars, passVars, workVars
<1>11. ASSUME NEW p \in Passes, Enqueue(p) PROVE TrackedHasNextRun'
  BY <1>11 DEF Enqueue, Enqueued, Goto, settingVars, targetVars, jobVars, passVars, workVars
<1>12. ASSUME NEW p \in Passes, Attach(p) PROVE TrackedHasNextRun'
  BY <1>12 DEF Attach, NextBucket, PassEnds, Goto, settingVars, targetVars, jobVars, passVars, workVars
<1>13. ASSUME NEW p \in Passes, Settle(p) PROVE TrackedHasNextRun'
  BY <1>13 DEF Settle, PassEnds, Goto, settingVars, targetVars, jobVars, passVars, workVars
<1>14. ASSUME NEW p \in Passes, StepFails(p) PROVE TrackedHasNextRun'
  BY <1>14 DEF StepFails, PassEnds, Goto, settingVars, targetVars, jobVars, passVars, workVars
<1>15. ASSUME NEW p \in Passes, PassDies(p) PROVE TrackedHasNextRun'
  BY <1>15 DEF PassDies, PassEnds, Goto, settingVars, targetVars, jobVars, passVars, workVars
<1>16. ASSUME NEW w \in Workers, Claim(w) PROVE TrackedHasNextRun'
  BY <1>16 DEF Claim, WGoto, settingVars, targetVars, jobVars, passVars, workVars
<1>17. ASSUME NEW w \in Workers, Page(w) PROVE TrackedHasNextRun'
  BY <1>17 DEF Page, WGoto, settingVars, targetVars, jobVars, passVars, workVars
<1>18. ASSUME NEW w \in Workers, PageFails(w) PROVE TrackedHasNextRun'
  BY <1>18 DEF PageFails, WGoto, settingVars, targetVars, jobVars, passVars, workVars
<1>19. ASSUME NEW w \in Workers, SetupFails(w) PROVE TrackedHasNextRun'
  BY <1>19 DEF SetupFails, WGoto, settingVars, targetVars, jobVars, passVars, workVars
<1>20. ASSUME NEW w \in Workers, Abandon(w) PROVE TrackedHasNextRun'
  BY <1>20 DEF Abandon, RunEnds, WGoto, settingVars, targetVars, jobVars, passVars, workVars
<1>21. ASSUME NEW w \in Workers, RecordSuccess(w) PROVE TrackedHasNextRun'
  BY <1>21 DEF RecordSuccess, WGoto, settingVars, targetVars, jobVars, passVars, workVars
<1>22. ASSUME NEW w \in Workers, RecordTrouble(w) PROVE TrackedHasNextRun'
  BY <1>22 DEF RecordTrouble, WGoto, settingVars, targetVars, jobVars, passVars, workVars
<1>23. ASSUME NEW w \in Workers, RecordFails(w) PROVE TrackedHasNextRun'
  BY <1>23 DEF RecordFails, WGoto, settingVars, targetVars, jobVars, passVars, workVars
<1>24. ASSUME NEW w \in Workers, CloseJob(w) PROVE TrackedHasNextRun'
  BY <1>24 DEF CloseJob, RunEnds, WGoto, settingVars, targetVars, jobVars, passVars, workVars
<1>25. ASSUME NEW w \in Workers, SeeCancel(w) PROVE TrackedHasNextRun'
  BY <1>25 DEF SeeCancel, settingVars, targetVars, jobVars, passVars, workVars
<1>26. ASSUME NEW w \in Workers, Crash(w) PROVE TrackedHasNextRun'
  BY <1>26 DEF Crash, RunEnds, WGoto, settingVars, targetVars, jobVars, passVars, workVars
<1>27. ASSUME NEW i \in Ids, Cancel(i) PROVE TrackedHasNextRun'
  BY <1>27 DEF Cancel, Open, settingVars, targetVars, jobVars, passVars, workVars
<1>28. ASSUME NEW i \in Ids, Sweep(i) PROVE TrackedHasNextRun'
  BY <1>28 DEF Sweep, settingVars, targetVars, jobVars, passVars, workVars
<1>29. CASE UNCHANGED vars
  BY <1>29 DEF vars, settingVars, targetVars, jobVars, passVars, workVars
<1> QED BY <1>1, <1>2, <1>3, <1>4, <1>5, <1>6, <1>7, <1>8, <1>9, <1>10, <1>11, <1>12, <1>13, <1>14, <1>15, <1>16, <1>17, <1>18, <1>19, <1>20, <1>21, <1>22, <1>23, <1>24, <1>25, <1>26, <1>27, <1>28, <1>29 DEF Next, PassStep, LoopStep

\* IInv is inductive, so it holds in every reachable state.
THEOREM Inductive == Spec => []IInv
<1>1. Init => IInv
  <2> SUFFICES ASSUME Init PROVE IInv
    OBVIOUS
  <2> USE CapacityScanAssumption DEF Init, Ids
  <2>1. <<>> \in Seq(1 .. Pages)
    OBVIOUS
  <2>2. TablesOK
    <3>1. snaps \in [Ids -> Seq(1 .. Pages)]
      BY <2>1
    <3>2. nextId \in 1 .. (MaxJobs + 1) /\ tjob \in [Buckets -> 0 .. MaxJobs]
      OBVIOUS
    <3> QED BY <3>1, <3>2 DEF TablesOK
  <2>3. ActorsOK
    BY DEF ActorsOK
  <2>4. JobsInv /\ RunsInv /\ PassInv
    BY DEF JobsInv, RunsInv, PassInv
  <2>5. HistoryInv /\ TrackedHasNextRun
    BY DEF HistoryInv, OneSnapshotPerJob, OnlyWholeScans, SuccessIsBacked, TrackedHasNextRun
  <2> QED BY <2>2, <2>3, <2>4, <2>5 DEF IInv, TypeOK
<1>2. IInv /\ [Next]_vars => IInv'
  BY TypeStep, ControlStep, HistoryStep, ScheduleStep DEF IInv
<1> QED BY <1>1, <1>2, PTL DEF Spec

\* The tables and the actors keep their types.
THEOREM TypeCorrect == Spec => []TypeOK
<1>1. IInv => TypeOK
  BY DEF IInv, HistoryInv
<1> QED BY <1>1, Inductive, PTL

\* However often a job is swept, restarted and run by several loops at once, it
\* leaves at most one point in the capacity history.
THEOREM OneSnapshot == Spec => []OneSnapshotPerJob
<1>1. IInv => OneSnapshotPerJob
  BY DEF IInv, HistoryInv
<1> QED BY <1>1, Inductive, PTL

\* No partial walk is ever stored as a point of the history.
THEOREM WholeScans == Spec => []OnlyWholeScans
<1>1. IInv => OnlyWholeScans
  BY DEF IInv, HistoryInv
<1> QED BY <1>1, Inductive, PTL

\* A target that shows a success names a job of its bucket that has a snapshot.
THEOREM SuccessBacked == Spec => []SuccessIsBacked
<1>1. IInv => SuccessIsBacked
  BY DEF IInv, HistoryInv
<1> QED BY <1>1, Inductive, PTL

\* Tracking that is on always has a next run.
THEOREM OnSchedule == Spec => []TrackedHasNextRun
<1>1. IInv => TrackedHasNextRun
  BY DEF IInv, HistoryInv
<1> QED BY <1>1, Inductive, PTL

\* A job leaves at most one snapshot, and that of a whole scan; a success has one.
THEOREM WholeHistory == Spec => []HistoryIsWhole
<1>1. OneSnapshotPerJob /\ OnlyWholeScans /\ SuccessIsBacked => HistoryIsWhole
  BY DEF HistoryIsWhole
<1> QED BY <1>1, OneSnapshot, WholeScans, SuccessBacked, PTL
-----------------------------------------------------------------------------
(* The pace of the refreshes that estimates make.                            *)

\* Requests that may still make a job: they have looked up the last attempt.
Promised == {a \in Askers : asker[a] = "may refresh"}

AskersTyped == asker \in [Askers -> {"idle", "stale", "may refresh"}]

\* The last attempt, with what is known of it.
AttemptTyped == refresh = [status |-> refresh.status, day |-> refresh.day, built |-> refresh.built]

\* Every job of an estimate was promised when there was none of today, and the
\* first one is the last attempt for the rest of the day.
PaceInv ==
    /\ AskersTyped /\ AttemptTyped /\ day \in Nat /\ autos \in Nat
    /\ autos + Cardinality(Promised) <= Cardinality(Askers)
    /\ autos > 0 => refresh.status # "none" /\ refresh.day = day

LEMMA PromisesAreFew ==
    /\ IsFiniteSet(Askers) /\ Cardinality(Askers) \in Nat
    /\ IsFiniteSet(Promised) /\ Cardinality(Promised) \in Nat
    /\ Cardinality(Promised) <= Cardinality(Askers)
<1>1. Promised \subseteq Askers
  BY DEF Promised
<1>2. IsFiniteSet(Askers)
  BY EstimatesAssumption
<1> QED
  BY <1>1, <1>2, FS_Subset, FS_CardinalityType

LEMMA PaceInitially == EstimatesInit => PaceInv
<1> SUFFICES ASSUME EstimatesInit PROVE PaceInv
  OBVIOUS
<1>1. Promised = {}
  BY DEF Promised, EstimatesInit
<1>2. Cardinality(Promised) = 0
  BY <1>1, FS_EmptySet
<1>3. day = 0 /\ autos = 0
  BY DEF EstimatesInit
<1>4. AskersTyped /\ AttemptTyped
  BY DEF EstimatesInit, NoJob, AskersTyped, AttemptTyped
<1> QED
  BY <1>2, <1>3, <1>4, PromisesAreFew DEF PaceInv

\* What only ends or renews an attempt keeps the pace.
LEMMA AttemptKeepsPace ==
    ASSUME PaceInv, UNCHANGED <<day, asker, autos>>, AttemptTyped',
           autos > 0 => refresh'.status # "none" /\ refresh'.day = day
    PROVE  PaceInv'
BY DEF PaceInv, AskersTyped, Promised

\* What a new or an ended attempt is.
LEMMA NewAttempt ==
    ASSUME NEW word, refresh' = [NoJob EXCEPT !.status = word, !.day = day]
    PROVE  AttemptTyped' /\ refresh'.status = word /\ refresh'.day = day
BY DEF NoJob, AttemptTyped

LEMMA AttemptGoesOn ==
    ASSUME AttemptTyped, NEW word, NEW regions,
           \/ refresh' = [refresh EXCEPT !.status = word]
           \/ refresh' = [refresh EXCEPT !.built = regions]
    PROVE  AttemptTyped' /\ refresh'.day = refresh.day /\ refresh'.status \in {word, refresh.status}
BY DEF AttemptTyped

LEMMA RefreshKeepsPace ==
    ASSUME PaceInv, RefreshByHand \/ StartRefresh \/ FetchRegion \/ SaveCatalog \/ RefreshFails
    PROVE  PaceInv'
<1>1. UNCHANGED <<day, asker, autos>>
  BY DEF RefreshByHand, StartRefresh, FetchRegion, SaveCatalog, RefreshFails
<1>2. CASE UNCHANGED refresh
  BY <1>1, <1>2, AttemptKeepsPace DEF PaceInv, AttemptTyped
<1>3. ASSUME NEW word \in {"queued", "done", "error"}, refresh' = [NoJob EXCEPT !.status = word, !.day = day]
      PROVE  PaceInv'
  BY <1>1, <1>3, NewAttempt, AttemptKeepsPace
<1>4. ASSUME NEW regions, \/ refresh' = [refresh EXCEPT !.status = "running"]
                          \/ refresh' = [refresh EXCEPT !.built = regions]
      PROVE  PaceInv'
  <2>1. AttemptTyped' /\ refresh'.day = refresh.day /\ refresh'.status \in {"running", refresh.status}
    BY <1>4, AttemptGoesOn DEF PaceInv
  <2> QED
    BY <1>1, <2>1, AttemptKeepsPace DEF PaceInv
<1>5. CASE RefreshByHand
  BY <1>2, <1>3, <1>5 DEF RefreshByHand, Enqueues
<1>6. CASE StartRefresh
  BY <1>4, <1>6 DEF StartRefresh
<1>7. CASE FetchRegion
  BY <1>4, <1>7 DEF FetchRegion
<1>8. CASE SaveCatalog \/ RefreshFails
  BY <1>3, <1>8 DEF SaveCatalog, RefreshFails, EndsWith
<1> QED
  BY <1>5, <1>6, <1>7, <1>8

\* An attempt of today is not old.
LEMMA AttemptOfToday ==
    ASSUME day \in Nat, refresh.status # "none", refresh.day = day
    PROVE  ~ShouldAutoRefresh(refresh)
<1>1. ~(day - refresh.day >= RefreshDays)
  BY EstimatesAssumption
<1> QED
  BY <1>1 DEF ShouldAutoRefresh

LEMMA LookUpKeepsPace ==
    ASSUME PaceInv, NEW a \in Askers, LookUpLast(a)
    PROVE  PaceInv'
<1>1. UNCHANGED <<refresh, day, autos>>
  BY DEF LookUpLast
<1>2. AskersTyped'
  BY DEF LookUpLast, PaceInv, AskersTyped
<1>3. Promised' \subseteq Askers
  BY DEF Promised
<1>4. Cardinality(Promised') \in Nat /\ Cardinality(Promised') <= Cardinality(Askers)
  BY <1>3, PromisesAreFew, FS_Subset, FS_CardinalityType
<1>5. autos' + Cardinality(Promised') <= Cardinality(Askers)
  <2>1. CASE autos = 0
    BY <1>1, <1>4, <2>1, PromisesAreFew
  <2>2. CASE autos > 0
    <3>1. ~ShouldAutoRefresh(refresh)
      BY <2>2, AttemptOfToday DEF PaceInv
    <3>2. Promised' = Promised
      BY <3>1 DEF LookUpLast, Promised, PaceInv, AskersTyped
    <3> QED
      BY <1>1, <3>2 DEF PaceInv
  <2> QED
    BY <2>1, <2>2 DEF PaceInv
<1> QED
  BY <1>1, <1>2, <1>5 DEF PaceInv, AttemptTyped

LEMMA EnqueueKeepsPace ==
    ASSUME PaceInv, NEW a \in Askers, EnqueueAuto(a)
    PROVE  PaceInv'
<1>1. asker[a] = "may refresh" /\ asker' = [asker EXCEPT ![a] = "idle"] /\ day' = day
  BY DEF EnqueueAuto
<1>2. a \in Promised /\ Promised' = Promised \ {a} /\ AskersTyped'
  BY <1>1 DEF Promised, PaceInv, AskersTyped
<1>3. Cardinality(Promised') = Cardinality(Promised) - 1
  BY <1>2, PromisesAreFew, FS_RemoveElement
<1>4. Cardinality(Promised) \in Nat /\ Cardinality(Askers) \in Nat /\ autos \in Nat
  BY PromisesAreFew DEF PaceInv
<1>5. autos + Cardinality(Promised) <= Cardinality(Askers)
  BY DEF PaceInv
<1>6. ASSUME autos' = autos \/ autos' = autos + 1
      PROVE  autos' \in Nat /\ autos' + Cardinality(Promised') <= Cardinality(Askers)
  BY <1>3, <1>4, <1>5, <1>6
<1>7. CASE UNCHANGED <<refresh, autos>>
  <2>1. AttemptTyped'
    BY <1>7 DEF PaceInv, AttemptTyped
  <2> QED
    BY <1>1, <1>2, <1>6, <1>7, <2>1 DEF PaceInv
<1>8. CASE /\ refresh' = [NoJob EXCEPT !.status = "queued", !.day = day]
           /\ autos' = autos \/ autos' = autos + 1
  <2>1. AttemptTyped' /\ refresh'.status = "queued" /\ refresh'.day = day
    BY <1>8, NewAttempt
  <2>2. refresh'.status # "none" /\ refresh'.day = day'
    BY <1>1, <2>1
  <2>3. day' \in Nat
    BY <1>1 DEF PaceInv
  <2> QED
    BY <1>2, <1>6, <1>8, <2>1, <2>2, <2>3 DEF PaceInv
<1> QED
  BY <1>7, <1>8 DEF EnqueueAuto, Enqueues

LEMMA PaceIsKept == PaceInv /\ [EstimatesNext]_estimateVars => PaceInv'
<1> SUFFICES ASSUME PaceInv, [EstimatesNext]_estimateVars PROVE PaceInv'
  OBVIOUS
<1>1. CASE RefreshByHand \/ StartRefresh \/ FetchRegion \/ SaveCatalog \/ RefreshFails
  BY <1>1, RefreshKeepsPace
<1>2. CASE MemoExpires
  BY <1>2, AttemptKeepsPace DEF MemoExpires, PaceInv, AttemptTyped
<1>3. CASE NextDay
  <2>1. Promised' = {} /\ AskersTyped' /\ AttemptTyped'
    BY <1>3 DEF NextDay, Promised, PaceInv, AskersTyped, AttemptTyped
  <2>2. Cardinality(Promised') = 0
    BY <2>1, FS_EmptySet
  <2>3. day' = day + 1 /\ autos' = 0
    BY <1>3 DEF NextDay
  <2> QED
    BY <2>1, <2>2, <2>3, PromisesAreFew DEF PaceInv
<1>4. ASSUME NEW a \in Askers, Ask(a) PROVE PaceInv'
  <2>1. PICK w \in {"stale", "idle"} : asker' = [asker EXCEPT ![a] = w]
    BY <1>4 DEF Ask
  <2>2. asker[a] = "idle" /\ UNCHANGED <<refresh, day, autos>>
    BY <1>4 DEF Ask
  <2>3. Promised' = Promised /\ AskersTyped'
    BY <2>1, <2>2 DEF Promised, PaceInv, AskersTyped
  <2> QED
    BY <2>2, <2>3 DEF PaceInv, AttemptTyped
<1>5. ASSUME NEW a \in Askers, LookUpLast(a) PROVE PaceInv'
  BY <1>5, LookUpKeepsPace
<1>6. ASSUME NEW a \in Askers, EnqueueAuto(a) PROVE PaceInv'
  BY <1>6, EnqueueKeepsPace
<1>7. CASE UNCHANGED estimateVars
  BY <1>7, AttemptKeepsPace DEF estimateVars, PaceInv, AttemptTyped
<1> QED
  BY <1>1, <1>2, <1>3, <1>4, <1>5, <1>6, <1>7 DEF EstimatesNext

\* However often an estimate is asked for, and however the refreshes end, the
\* estimates of a day make no more refreshes than there are requests at a time.
THEOREM AttemptsAreFew == EstimatesSpec => []AttemptsArePaced
<1>1. PaceInv => AttemptsArePaced
  BY PromisesAreFew DEF PaceInv, AttemptsArePaced
<1> QED
  BY <1>1, PaceInitially, PaceIsKept, PTL DEF EstimatesSpec
=============================================================================
