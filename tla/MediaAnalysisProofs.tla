-------------------------- MODULE MediaAnalysisProofs --------------------------
(* Theorems of MediaAnalysis and of the shared requests and the semaphore it    *)
(* is built from, for every number of callers, keys, slots and waiters, and of  *)
(* TarRangeIndex, the index of one tar object that is read under such slots,    *)
(* for every archive and any number of its readers.                             *)
EXTENDS MediaAnalysis, TarRangeIndex, FiniteSetTheorems, SequenceTheorems,
        WellFoundedInduction, TLAPS

\* A request is in the map under its own key until it is over or abandoned, and
\* every load that was not told to stop is there.
MapInv ==
    /\ \A k \in SharedKeys : pending[k] # NoRequest =>
          KeyOf[pending[k]] = k /\ state[pending[k]] # "done"
    /\ \A r \in Requests :
          /\ state[r] = "loading" /\ ~cancelled[r] => pending[KeyOf[r]] = r
          /\ state[r] = "done" => ~cancelled[r] /\ ~timedOut[r]
          /\ state[r] = "loading" <=> lpc[r] # "none"
    /\ NobodyWaitsOnAborted
    /\ AbandonedIsAborted

\* The queue of the semaphore holds the loads that queue, once each, and none
\* of them was told to stop.
QueueInv ==
    /\ \A i \in DOMAIN waiters : lpc[waiters[i]] = "queued" /\ ~Stopped(waiters[i])
    /\ \A i, j \in DOMAIN waiters : waiters[i] = waiters[j] => i = j
    /\ \A r \in Requests : lpc[r] = "queued" => \E i \in DOMAIN waiters : waiters[i] = r

IInv == AnalysisTypeOK /\ MapInv /\ QueueInv /\ SlotsAreExact

-----------------------------------------------------------------------------
(* Queues.                                                                  *)

\* Removing one element of a queue leaves the others, in fewer places.
LEMMA Removed ==
    ASSUME NEW S, NEW q \in Seq(S), NEW i \in DOMAIN q
    PROVE  /\ RemoveAt(q, i) \in Seq(S)
           /\ Len(RemoveAt(q, i)) = Len(q) - 1
           /\ \A j \in DOMAIN RemoveAt(q, i) :
                 RemoveAt(q, i)[j] = IF j < i THEN q[j] ELSE q[j + 1]
<1>1. i \in 1 .. Len(q)
  OBVIOUS
<1> DEFINE a == SubSeq(q, 1, i - 1)
           b == SubSeq(q, i + 1, Len(q))
<1>2. a \in Seq(S) /\ Len(a) = i - 1 /\ \A j \in 1 .. (i - 1) : a[j] = q[j]
  BY <1>1, SubSeqProperties
<1>3. b \in Seq(S) /\ Len(b) = Len(q) - i /\ \A j \in 1 .. (Len(q) - i) : b[j] = q[i + j]
  BY <1>1, SubSeqProperties
<1> HIDE DEF a, b
<1>4. /\ a \o b \in Seq(S)
      /\ Len(a \o b) = Len(a) + Len(b)
      /\ \A j \in 1 .. Len(a) + Len(b) :
            (a \o b)[j] = IF j <= Len(a) THEN a[j] ELSE b[j - Len(a)]
  BY <1>2, <1>3, ConcatProperties
<1>5. Len(a) + Len(b) = Len(q) - 1 /\ Len(q) \in Nat
  BY <1>1, <1>2, <1>3
<1>6. ASSUME NEW j \in 1 .. (Len(q) - 1)
      PROVE  (a \o b)[j] = IF j < i THEN q[j] ELSE q[j + 1]
  <2>1. (a \o b)[j] = IF j <= i - 1 THEN a[j] ELSE b[j - (i - 1)]
    BY <1>2, <1>4, <1>5
  <2>2. CASE j < i
    <3>1. j \in 1 .. (i - 1)
      BY <1>1, <1>5, <2>2
    <3> QED BY <1>2, <2>1, <2>2, <3>1
  <2>3. CASE j >= i
    <3>1. j - (i - 1) \in 1 .. (Len(q) - i) /\ i + (j - (i - 1)) = j + 1
      BY <1>1, <1>5, <2>3
    <3>2. ~(j <= i - 1) /\ ~(j < i)
      BY <1>1, <1>5, <2>3
    <3>3. b[j - (i - 1)] = q[i + (j - (i - 1))]
      BY <1>3, <3>1
    <3> QED BY <2>1, <3>1, <3>2, <3>3
  <2> QED BY <1>1, <1>5, <2>2, <2>3
<1>7. RemoveAt(q, i) = a \o b
  BY DEF RemoveAt, a, b
<1>8. DOMAIN (a \o b) = 1 .. (Len(q) - 1)
  BY <1>4, <1>5
<1> QED BY <1>4, <1>5, <1>7, <1>8, <1>6

-----------------------------------------------------------------------------
(* What the semaphore does to the queue and the slots.                      *)

\* A step that leaves the queue alone keeps the invariant of the queue when the
\* same loads queue and none of them was told to stop.
LEMMA SameQueue ==
    ASSUME AnalysisTypeOK, QueueInv, waiters' = waiters,
           \A q \in Requests : lpc'[q] = "queued" <=> lpc[q] = "queued",
           \A q \in Requests : lpc[q] = "queued" /\ (cancelled'[q] \/ timedOut'[q]) => Stopped(q)
    PROVE  QueueInv'
<1>1. \A i \in DOMAIN waiters : waiters[i] \in Requests
  BY DEF AnalysisTypeOK
<1> QED BY <1>1 DEF QueueInv, Stopped

\* The load that leaves the queue is the only one that does.
LEMMA QueueLeft ==
    ASSUME AnalysisTypeOK, QueueInv, NEW r \in Requests, lpc[r] = "queued", LeaveQueue(r),
           lpc' = [lpc EXCEPT ![r] = "none"],
           \A q \in Requests \ {r} : (cancelled'[q] \/ timedOut'[q]) => Stopped(q)
    PROVE  /\ QueueInv' /\ waiters' \in Seq(Requests)
           /\ active' = active /\ waiters # <<>>
<1>1. PICK i \in DOMAIN waiters : waiters[i] = r /\ waiters' = RemoveAt(waiters, i)
  BY DEF LeaveQueue
<1>2. waiters \in Seq(Requests) /\ i \in 1 .. Len(waiters) /\ Len(waiters) \in Nat
  BY <1>1 DEF AnalysisTypeOK
<1>3. /\ waiters' \in Seq(Requests)
      /\ Len(waiters') = Len(waiters) - 1
      /\ \A j \in DOMAIN waiters' : waiters'[j] = IF j < i THEN waiters[j] ELSE waiters[j + 1]
  BY <1>1, <1>2, Removed
<1>4. DOMAIN waiters' = 1 .. (Len(waiters) - 1) /\ DOMAIN waiters = 1 .. Len(waiters)
  BY <1>2, <1>3
<1>5. \A j \in DOMAIN waiters' :
         \E n \in DOMAIN waiters : n # i /\ waiters'[j] = waiters[n]
                                   /\ n = IF j < i THEN j ELSE j + 1
  BY <1>2, <1>3, <1>4
<1>6. \A n \in DOMAIN waiters : n # i => waiters[n] \in Requests \ {r}
  BY <1>1, <1>2 DEF QueueInv
<1>7. ASSUME NEW j \in DOMAIN waiters'
      PROVE  lpc'[waiters'[j]] = "queued" /\ ~cancelled'[waiters'[j]] /\ ~timedOut'[waiters'[j]]
  <2>1. PICK n \in DOMAIN waiters : n # i /\ waiters'[j] = waiters[n]
    BY <1>5
  <2>2. waiters[n] \in Requests \ {r} /\ lpc[waiters[n]] = "queued" /\ ~Stopped(waiters[n])
    BY <1>6, <2>1 DEF QueueInv
  <2> QED BY <2>1, <2>2 DEF AnalysisTypeOK
<1>8. \A j, n \in DOMAIN waiters' : waiters'[j] = waiters'[n] => j = n
  BY <1>2, <1>4, <1>5 DEF QueueInv
<1>9. \A q \in Requests : lpc'[q] = "queued" => \E j \in DOMAIN waiters' : waiters'[j] = q
  <2> SUFFICES ASSUME NEW q \in Requests, lpc'[q] = "queued"
               PROVE  \E j \in DOMAIN waiters' : waiters'[j] = q
    OBVIOUS
  <2>1. q # r /\ lpc[q] = "queued"
    BY DEF AnalysisTypeOK
  <2>2. PICK n \in DOMAIN waiters : waiters[n] = q
    BY <2>1 DEF QueueInv
  <2>3. n # i
    BY <1>1, <2>1, <2>2
  <2>4. CASE n < i
    BY <1>2, <1>3, <1>4, <2>2, <2>4
  <2>5. CASE n > i
    <3>1. n - 1 \in DOMAIN waiters' /\ ~(n - 1 < i) /\ (n - 1) + 1 = n
      BY <1>2, <1>4, <2>5
    <3> QED BY <1>3, <2>2, <3>1
  <2> QED BY <1>2, <1>4, <2>3, <2>4, <2>5
<1> QED BY <1>2, <1>3, <1>7, <1>8, <1>9 DEF QueueInv, LeaveQueue, Stopped

\* A load that queues up is the last of the queue.
LEMMA Queued ==
    ASSUME AnalysisTypeOK, QueueInv, NEW r \in Requests, lpc[r] # "queued", ~Stopped(r), Queue(r),
           lpc' = [lpc EXCEPT ![r] = "queued"], UNCHANGED <<cancelled, timedOut>>
    PROVE  QueueInv' /\ waiters' \in Seq(Requests)
<1>1. waiters \in Seq(Requests) /\ Len(waiters) \in Nat /\ DOMAIN waiters = 1 .. Len(waiters)
  BY DEF AnalysisTypeOK
<1>2. waiters' = Append(waiters, r)
  BY DEF Queue
<1>3. /\ waiters' \in Seq(Requests)
      /\ DOMAIN waiters' = 1 .. (Len(waiters) + 1)
      /\ waiters'[Len(waiters) + 1] = r
      /\ \A j \in DOMAIN waiters : waiters'[j] = waiters[j]
  BY <1>1, <1>2, AppendProperties
<1>4. \A j \in DOMAIN waiters' : j \in DOMAIN waiters \/ j = Len(waiters) + 1
  BY <1>1, <1>3
<1>5. \A j \in DOMAIN waiters : /\ waiters[j] \in Requests \ {r}
                                /\ lpc[waiters[j]] = "queued"
                                /\ ~Stopped(waiters[j])
  BY <1>1 DEF QueueInv
<1>6. ASSUME NEW j \in DOMAIN waiters'
      PROVE  lpc'[waiters'[j]] = "queued" /\ ~cancelled'[waiters'[j]] /\ ~timedOut'[waiters'[j]]
  BY <1>3, <1>4, <1>5 DEF AnalysisTypeOK, Stopped
<1>7. \A j, n \in DOMAIN waiters' : waiters'[j] = waiters'[n] => j = n
  BY <1>3, <1>4, <1>5 DEF QueueInv
<1>8. ASSUME NEW q \in Requests, lpc'[q] = "queued"
      PROVE  \E j \in DOMAIN waiters' : waiters'[j] = q
  <2>1. CASE q = r
    BY <1>1, <1>3, <2>1
  <2>2. CASE q # r
    <3>1. PICK j \in DOMAIN waiters : waiters[j] = q
      BY <1>8, <2>2 DEF AnalysisTypeOK, QueueInv
    <3> QED BY <1>1, <1>3, <3>1
  <2> QED BY <2>1, <2>2
<1> QED BY <1>3, <1>6, <1>7, <1>8 DEF QueueInv, Stopped

\* The slots are counted by a finite set.
LEMMA HoldersFinite == IsFiniteSet(Holders) /\ Cardinality(Holders) \in Nat
  BY SharedRequestsAssumption, FS_Subset, FS_CardinalityType DEF Holders

\* The load that ends leaves its slot free, or to the first of the queue.
LEMMA HandedOver ==
    ASSUME AnalysisTypeOK, QueueInv, SlotsAreExact, NEW r \in Requests,
           lpc[r] \in {"opening", "removing"}, GiveBack(r), UNCHANGED <<cancelled, timedOut>>
    PROVE  /\ QueueInv' /\ SlotsAreExact'
           /\ active' \in 0 .. Limit /\ waiters' \in Seq(Requests)
<1>1. /\ waiters \in Seq(Requests) /\ Len(waiters) \in Nat
      /\ DOMAIN waiters = 1 .. Len(waiters)
      /\ Limit \in Nat /\ active \in 0 .. Limit
  BY SemaphoreAssumption DEF AnalysisTypeOK
<1>2. r \in Holders
  BY DEF Holders
<1>3. /\ IsFiniteSet(Holders \ {r})
      /\ Cardinality(Holders \ {r}) = active - 1
  BY <1>2, HoldersFinite, FS_RemoveElement DEF SlotsAreExact
<1>4. active - 1 \in 0 .. Limit
  <2>1. Cardinality(Holders \ {r}) \in Nat
    BY <1>3, FS_CardinalityType
  <2> QED BY <1>1, <1>3, <2>1
<1>5. CASE waiters = <<>>
  <2>1. active' = active - 1 /\ waiters' = waiters /\ lpc' = [lpc EXCEPT ![r] = "none"]
    BY <1>5 DEF GiveBack, ReleaseSlot, AnalysisTypeOK
  <2>2. Holders' = Holders \ {r}
    BY <2>1 DEF Holders, AnalysisTypeOK
  <2>3. QueueInv'
    <3>1. \A q \in Requests : lpc'[q] = "queued" <=> lpc[q] = "queued"
      BY <2>1 DEF AnalysisTypeOK
    <3>2. \A q \in Requests : cancelled'[q] \/ timedOut'[q] => Stopped(q)
      BY DEF Stopped
    <3> QED BY <2>1, <3>1, <3>2, SameQueue
  <2> QED BY <1>1, <1>3, <1>4, <1>5, <2>1, <2>2, <2>3 DEF SlotsAreExact
<1>6. CASE waiters # <<>>
  <2> DEFINE h == Head(waiters)
  <2>1. active' = active /\ waiters' = Tail(waiters) /\ active = Limit
    BY <1>6 DEF GiveBack, ReleaseSlot, SlotsAreExact
  <2>2. /\ h = waiters[1] /\ 1 \in DOMAIN waiters
        /\ waiters' \in Seq(Requests) /\ DOMAIN waiters' = 1 .. (Len(waiters) - 1)
        /\ \A j \in DOMAIN waiters' : j + 1 \in DOMAIN waiters /\ waiters'[j] = waiters[j + 1]
    BY <1>1, <1>6, <2>1, HeadTailProperties
  <2>3. h \in Requests /\ lpc[h] = "queued" /\ h # r
    BY <1>1, <2>2 DEF QueueInv
  <2> HIDE DEF h
  <2>4. lpc' = [lpc EXCEPT ![r] = "none", ![h] = "opening"]
    BY <1>6, <2>3 DEF GiveBack, AnalysisTypeOK, h
  <2>5. Holders' = (Holders \ {r}) \cup {h}
    BY <2>3, <2>4 DEF Holders, AnalysisTypeOK
  <2>6. h \notin Holders \ {r}
    BY <2>3 DEF Holders
  <2>7. Cardinality(Holders') = active
    <3>1. Cardinality((Holders \ {r}) \cup {h}) = Cardinality(Holders \ {r}) + 1
      BY <1>3, <2>6, FS_AddElement
    <3> QED BY <1>1, <1>3, <2>5, <3>1
  <2>8. \A n \in DOMAIN waiters : n # 1 => waiters[n] \in Requests \ {h}
    BY <1>1, <2>2 DEF QueueInv
  <2>9. ASSUME NEW j \in DOMAIN waiters'
        PROVE  lpc'[waiters'[j]] = "queued" /\ ~cancelled'[waiters'[j]] /\ ~timedOut'[waiters'[j]]
    <3>1. j + 1 \in DOMAIN waiters /\ j + 1 # 1 /\ waiters'[j] = waiters[j + 1]
      BY <1>1, <2>2
    <3>2. waiters[j + 1] \in Requests \ {h} /\ lpc[waiters[j + 1]] = "queued"
          /\ ~Stopped(waiters[j + 1])
      BY <2>8, <3>1 DEF QueueInv
    <3> QED BY <2>4, <3>1, <3>2 DEF AnalysisTypeOK, Stopped
  <2>10. ASSUME NEW j \in DOMAIN waiters', NEW n \in DOMAIN waiters', waiters'[j] = waiters'[n]
         PROVE  j = n
    <3>1. j + 1 = n + 1
      BY <2>2, <2>10 DEF QueueInv
    <3> QED BY <1>1, <2>2, <3>1
  <2>11. ASSUME NEW q \in Requests, lpc'[q] = "queued"
         PROVE  \E j \in DOMAIN waiters' : waiters'[j] = q
    <3>1. q # h /\ lpc[q] = "queued"
      BY <2>3, <2>4, <2>11 DEF AnalysisTypeOK
    <3>2. PICK n \in DOMAIN waiters : waiters[n] = q
      BY <3>1 DEF QueueInv
    <3>3. n - 1 \in DOMAIN waiters' /\ (n - 1) + 1 = n
      BY <1>1, <2>2, <3>1, <3>2
    <3> QED BY <2>2, <3>2, <3>3
  <2>12. QueueInv'
    BY <2>9, <2>10, <2>11 DEF QueueInv, Stopped
  <2> QED BY <1>1, <2>1, <2>2, <2>7, <2>12 DEF SlotsAreExact
<1> QED BY <1>5, <1>6


-----------------------------------------------------------------------------
(* Every step.                                                              *)

\* Every step keeps what is in the map.
LEMMA MapStep ==
    ASSUME AnalysisTypeOK, MapInv, QueueInv, [AnalysisNext]_analysisVars
    PROVE  MapInv'
<1> USE SharedRequestsAssumption DEF AnalysisTypeOK, SharedOK, MapInv, NobodyWaitsOnAborted, AbandonedIsAborted
<1>1. ASSUME NEW c \in Callers, NEW k \in SharedKeys, Ask(c, k) PROVE MapInv'
  <2>1. CASE Join(c, k) /\ UNCHANGED lpc
    BY <1>1, <2>1 DEF Ask, Join
  <2>2. ASSUME NEW r \in Requests, Create(c, k, r), Goto(r, "lookup") PROVE MapInv'
    <3>1. /\ pending' = [pending EXCEPT ![k] = r] /\ KeyOf[r] = k
          /\ state' = [state EXCEPT ![r] = "loading"]
          /\ subs' = [subs EXCEPT ![r] = {c}]
          /\ lpc' = [lpc EXCEPT ![r] = "lookup"]
          /\ UNCHANGED <<cancelled, timedOut>>
          /\ pending[k] = NoRequest /\ state[r] = "done"
      BY <1>1, <2>2 DEF Ask, Create, Goto
    <3>2. ~cancelled[r] /\ ~timedOut[r]
      BY <3>1
    <3>3. \A q \in Requests : pending[KeyOf[q]] # r
      BY <3>1
    <3>4. \A n \in SharedKeys : pending'[n] # NoRequest =>
              KeyOf[pending'[n]] = n /\ state'[pending'[n]] # "done"
      BY <3>1, <3>2, <3>3
    <3>5. \A q \in Requests :
              /\ state'[q] = "loading" /\ ~cancelled'[q] => pending'[KeyOf[q]] = q
              /\ state'[q] = "done" => ~cancelled'[q] /\ ~timedOut'[q]
              /\ state'[q] = "loading" <=> lpc'[q] # "none"
      BY <3>1, <3>2, <3>3
    <3>6. \A q \in Requests : cancelled'[q] => subs'[q] = {} /\ pending'[KeyOf[q]] # q
      BY <3>1, <3>2, <3>3
    <3>7. \A q \in Requests : state'[q] = "loading" /\ subs'[q] = {} => cancelled'[q]
      <4>1. subs'[r] # {} /\ \A q \in Requests \ {r} : subs'[q] = subs[q] /\ state'[q] = state[q]
        BY <3>1
      <4> QED BY <3>1, <4>1
    <3> QED BY <3>4, <3>5, <3>6, <3>7
  <2> QED BY <1>1, <2>1, <2>2 DEF Ask
<1>2. ASSUME NEW c \in Callers, HangUp(c) PROVE MapInv'
  <2>1. PICK r \in Requests : /\ Abort(c, r)
                              /\ IF subs[r] = {c} THEN StopsQueueing(r)
                                 ELSE UNCHANGED <<semaphoreVars, state, lpc>>
    BY <1>2 DEF HangUp
  <2>2. UNCHANGED timedOut
    BY <1>2 DEF HangUp
  <2>3. CASE subs[r] # {c}
    BY <2>1, <2>2, <2>3 DEF Abort
  <2>4. CASE subs[r] = {c} /\ lpc[r] # "queued"
    <3>1. /\ pending' = [pending EXCEPT ![KeyOf[r]] = IF pending[KeyOf[r]] = r THEN NoRequest
                                                ELSE pending[KeyOf[r]]]
          /\ cancelled' = [cancelled EXCEPT ![r] = state[r] # "done"]
          /\ UNCHANGED <<state, lpc, timedOut>>
      BY <2>1, <2>2, <2>4 DEF Abort, Deleted, StopsQueueing
    <3>2. subs' = [subs EXCEPT ![r] = {}]
      <4>1. subs[r] \ {c} = {}
        BY <2>4
      <4> QED BY <2>1, <4>1 DEF Abort
    <3>3. \A n \in SharedKeys : pending'[n] # NoRequest =>
              KeyOf[pending'[n]] = n /\ state'[pending'[n]] # "done"
      BY <3>1, <3>2
    <3>4. /\ cancelled'[r] <=> state[r] # "done"
          /\ \A q \in Requests \ {r} : cancelled'[q] = cancelled[q] /\ subs'[q] = subs[q]
      <4>1. cancelled'[r] = (state[r] # "done")
        BY <3>1
      <4>2. \A q \in Requests \ {r} : cancelled'[q] = cancelled[q]
        BY <3>1
      <4>3. \A q \in Requests \ {r} : subs'[q] = subs[q]
        BY <3>2
      <4>4. cancelled'[r] <=> state[r] # "done"
        <5>1. CASE state[r] = "done"
          BY <4>1, <5>1
        <5>2. CASE state[r] # "done"
          <6>1. cancelled'[r] = TRUE
            BY <4>1, <5>2
          <6> QED BY <5>2, <6>1
        <5> QED BY <5>1, <5>2
      <4> QED BY <4>2, <4>3, <4>4
    <3>5. \A q \in Requests :
              /\ state'[q] = "loading" /\ ~cancelled'[q] => pending'[KeyOf[q]] = q
              /\ state'[q] = "done" => ~cancelled'[q] /\ ~timedOut'[q]
              /\ state'[q] = "loading" <=> lpc'[q] # "none"
      BY <3>1, <3>2, <3>4
    <3>6. \A q \in Requests : cancelled'[q] => subs'[q] = {} /\ pending'[KeyOf[q]] # q
      BY <3>1, <3>2, <3>4
    <3>7. \A q \in Requests : state'[q] = "loading" /\ subs'[q] = {} => cancelled'[q]
      BY <3>1, <3>2, <3>4
    <3> QED BY <3>3, <3>5, <3>6, <3>7
  <2>5. CASE subs[r] = {c} /\ lpc[r] = "queued"
    <3>1. /\ pending' = [pending EXCEPT ![KeyOf[r]] = IF pending[KeyOf[r]] = r THEN NoRequest
                                                ELSE pending[KeyOf[r]]]
          /\ cancelled' = [cancelled EXCEPT ![r] = state[r] # "done"]
          /\ state' = [state EXCEPT ![r] = "settled"]
          /\ lpc' = [lpc EXCEPT ![r] = "none"]
          /\ UNCHANGED timedOut
      BY <2>1, <2>2, <2>5 DEF Abort, Deleted, StopsQueueing, Settle, Goto
    <3>2. subs' = [subs EXCEPT ![r] = {}]
      <4>1. subs[r] \ {c} = {}
        BY <2>5
      <4> QED BY <2>1, <4>1 DEF Abort
    <3>3. \A n \in SharedKeys : pending'[n] # NoRequest =>
              KeyOf[pending'[n]] = n /\ state'[pending'[n]] # "done"
      BY <3>1, <3>2
    <3>4. \A q \in Requests :
              /\ state'[q] = "loading" /\ ~cancelled'[q] => pending'[KeyOf[q]] = q
              /\ state'[q] = "done" => ~cancelled'[q] /\ ~timedOut'[q]
              /\ state'[q] = "loading" <=> lpc'[q] # "none"
      BY <3>1, <3>2
    <3>5. \A q \in Requests : cancelled'[q] => subs'[q] = {} /\ pending'[KeyOf[q]] # q
      BY <3>1, <3>2
    <3>6. \A q \in Requests : state'[q] = "loading" /\ subs'[q] = {} => cancelled'[q]
      BY <3>1, <3>2
    <3> QED BY <3>3, <3>4, <3>5, <3>6
  <2> QED BY <2>3, <2>4, <2>5
<1>3. ASSUME NEW c \in Callers, Answer(c) PROVE MapInv'
  BY <1>3 DEF Answer, Deliver, sharedVars, semaphoreVars, mediaVars
<1>4. ASSUME NEW r \in Requests, TimesOut(r) PROVE MapInv'
  BY <1>4 DEF TimesOut, StopsQueueing, LeaveQueue, Settle, Goto, sharedVars, semaphoreVars, mediaVars
<1>5. ASSUME NEW r \in Requests, Settled(r) PROVE MapInv'
  BY <1>5 DEF Settled, Finally, Deleted, sharedVars, semaphoreVars, mediaVars
<1>6. ASSUME NEW r \in Requests, LookupEnds(r) PROVE MapInv'
  BY <1>6 DEF LookupEnds, Settle, Goto, sharedVars, semaphoreVars, mediaVars
<1>7. ASSUME NEW r \in Requests, Acquire(r) PROVE MapInv'
  BY <1>7 DEF Acquire, Settle, Goto, TakeSlot, Queue, sharedVars, semaphoreVars, mediaVars
<1>8. ASSUME NEW r \in Requests, Open(r) PROVE MapInv'
  BY <1>8 DEF Open, Goto, sharedVars, semaphoreVars, mediaVars
<1>9. ASSUME NEW r \in Requests, Spool(r) PROVE MapInv'
  BY <1>9 DEF Spool, Goto, sharedVars, semaphoreVars, mediaVars
<1>10. ASSUME NEW r \in Requests, Analyze(r) PROVE MapInv'
  BY <1>10 DEF Analyze, Goto, sharedVars, semaphoreVars, mediaVars
<1>11. ASSUME NEW r \in Requests, Fails(r) PROVE MapInv'
  BY <1>11 DEF Fails, Goto, sharedVars, semaphoreVars, mediaVars
<1>12. ASSUME NEW r \in Requests, Store(r) PROVE MapInv'
  BY <1>12 DEF Store, Goto, sharedVars, semaphoreVars, mediaVars
<1>13. ASSUME NEW r \in Requests, LoadEnds(r) PROVE MapInv'
  <2>1. /\ lpc[r] \in {"opening", "removing"}
        /\ state' = [state EXCEPT ![r] = "settled"]
        /\ UNCHANGED <<pending, subs, cancelled, timedOut>>
    BY <1>13 DEF LoadEnds, GiveBack
  <2>2. ASSUME NEW q \in Requests \ {r} PROVE lpc[q] # "none" <=> lpc'[q] # "none"
    <3>1. waiters # <<>> => Head(waiters) = waiters[1] /\ 1 \in DOMAIN waiters
      OBVIOUS
    <3>2. waiters # <<>> => lpc[Head(waiters)] = "queued"
      BY <3>1 DEF QueueInv
    <3> QED BY <1>13, <3>2 DEF LoadEnds, GiveBack
  <2>3. lpc'[r] = "none"
    BY <1>13 DEF LoadEnds, GiveBack
  <2> QED BY <2>1, <2>2, <2>3
<1>14. ASSUME NEW k \in SharedKeys, CleanUp(k) PROVE MapInv'
  BY <1>14 DEF CleanUp, Goto, sharedVars, semaphoreVars, mediaVars
<1>15. CASE UNCHANGED analysisVars
  BY <1>15 DEF analysisVars, sharedVars, semaphoreVars, mediaVars
<1>16. ASSUME NEW r \in Requests, Hangs(r) PROVE MapInv'
  BY <1>16 DEF Hangs, Goto, sharedVars, semaphoreVars, mediaVars
<1> QED BY <1>1, <1>2, <1>3, <1>4, <1>5, <1>6, <1>7, <1>8, <1>9, <1>10, <1>11, <1>12, <1>13, <1>14, <1>15, <1>16 DEF AnalysisNext, LoadStep

\* Every step keeps the queue in line with the loads.
LEMMA QueueStep ==
    ASSUME AnalysisTypeOK, MapInv, QueueInv, SlotsAreExact, [AnalysisNext]_analysisVars
    PROVE  QueueInv'
<1>1. ASSUME NEW c \in Callers, NEW k \in SharedKeys, Ask(c, k) PROVE QueueInv'
  <2>1. CASE Join(c, k) /\ UNCHANGED lpc
    BY <1>1, <2>1, SameQueue DEF Ask, Join, semaphoreVars, Stopped
  <2>2. ASSUME NEW r \in Requests, Create(c, k, r), Goto(r, "lookup") PROVE QueueInv'
    <3>1. lpc[r] = "none" /\ lpc' = [lpc EXCEPT ![r] = "lookup"]
      BY <1>1, <2>2 DEF Create, Goto, MapInv, AnalysisTypeOK
    <3>2. \A q \in Requests : lpc'[q] = "queued" <=> lpc[q] = "queued"
      BY <3>1 DEF AnalysisTypeOK
    <3> QED BY <1>1, <2>2, <3>2, SameQueue DEF Ask, Create, semaphoreVars, Stopped
  <2> QED BY <1>1, <2>1, <2>2 DEF Ask
<1>2. ASSUME NEW c \in Callers, HangUp(c) PROVE QueueInv'
  <2>1. PICK r \in Requests : /\ Abort(c, r)
                              /\ IF subs[r] = {c} THEN StopsQueueing(r)
                                 ELSE UNCHANGED <<semaphoreVars, state, lpc>>
    BY <1>2 DEF HangUp
  <2>2. timedOut' = timedOut /\ \A q \in Requests \ {r} : cancelled'[q] = cancelled[q]
    BY <1>2, <2>1 DEF HangUp, Abort, AnalysisTypeOK, SharedOK
  <2>3. CASE subs[r] # {c}
    <3>1. UNCHANGED <<waiters, lpc, cancelled, timedOut>>
      BY <2>1, <2>2, <2>3 DEF Abort, semaphoreVars
    <3> QED BY <3>1, SameQueue DEF Stopped
  <2>4. CASE subs[r] = {c} /\ lpc[r] # "queued"
    <3>1. UNCHANGED <<waiters, lpc>>
      BY <2>1, <2>4 DEF StopsQueueing, semaphoreVars
    <3> QED BY <2>2, <2>4, <3>1, SameQueue DEF Stopped
  <2>5. CASE subs[r] = {c} /\ lpc[r] = "queued"
    <3>1. LeaveQueue(r) /\ lpc' = [lpc EXCEPT ![r] = "none"]
      BY <2>1, <2>5 DEF StopsQueueing, Settle, Goto
    <3> QED BY <2>2, <2>5, <3>1, QueueLeft DEF Stopped
  <2> QED BY <2>3, <2>4, <2>5
<1>3. ASSUME NEW c \in Callers, Answer(c) PROVE QueueInv'
  <2>1. \A q \in Requests : lpc'[q] = "queued" <=> lpc[q] = "queued"
    BY <1>3 DEF Answer, Deliver, sharedVars, semaphoreVars, mediaVars, AnalysisTypeOK, SharedOK, MapInv
  <2>2. \A q \in Requests : lpc[q] = "queued" /\ (cancelled'[q] \/ timedOut'[q]) => Stopped(q)
    BY <1>3 DEF Answer, Deliver, sharedVars, semaphoreVars, mediaVars, AnalysisTypeOK, SharedOK, MapInv, Stopped
  <2> QED BY <1>3, <2>1, <2>2, SameQueue DEF Answer, Deliver, sharedVars, semaphoreVars, mediaVars
<1>4. ASSUME NEW r \in Requests, TimesOut(r) PROVE QueueInv'
  <2>1. cancelled' = cancelled /\ \A q \in Requests \ {r} : timedOut'[q] = timedOut[q]
    BY <1>4 DEF TimesOut, AnalysisTypeOK
  <2>2. CASE lpc[r] # "queued"
    <3>1. UNCHANGED <<waiters, lpc>>
      BY <1>4, <2>2 DEF TimesOut, StopsQueueing, semaphoreVars
    <3> QED BY <2>1, <2>2, <3>1, SameQueue DEF Stopped
  <2>3. CASE lpc[r] = "queued"
    <3>1. LeaveQueue(r) /\ lpc' = [lpc EXCEPT ![r] = "none"]
      BY <1>4, <2>3 DEF TimesOut, StopsQueueing, Settle, Goto
    <3> QED BY <2>1, <2>3, <3>1, QueueLeft DEF Stopped
  <2> QED BY <2>2, <2>3
<1>5. ASSUME NEW r \in Requests, Settled(r) PROVE QueueInv'
  <2>1. \A q \in Requests : lpc'[q] = "queued" <=> lpc[q] = "queued"
    BY <1>5 DEF Settled, Finally, sharedVars, semaphoreVars, mediaVars, AnalysisTypeOK, SharedOK, MapInv
  <2>2. \A q \in Requests : lpc[q] = "queued" /\ (cancelled'[q] \/ timedOut'[q]) => Stopped(q)
    BY <1>5 DEF Settled, Finally, sharedVars, semaphoreVars, mediaVars, AnalysisTypeOK, SharedOK, MapInv, Stopped
  <2> QED BY <1>5, <2>1, <2>2, SameQueue DEF Settled, Finally, sharedVars, semaphoreVars, mediaVars
<1>6. ASSUME NEW r \in Requests, LookupEnds(r) PROVE QueueInv'
  <2>1. \A q \in Requests : lpc'[q] = "queued" <=> lpc[q] = "queued"
    BY <1>6 DEF LookupEnds, Settle, Goto, sharedVars, semaphoreVars, mediaVars, AnalysisTypeOK, SharedOK, MapInv
  <2>2. \A q \in Requests : lpc[q] = "queued" /\ (cancelled'[q] \/ timedOut'[q]) => Stopped(q)
    BY <1>6 DEF LookupEnds, Settle, Goto, sharedVars, semaphoreVars, mediaVars, AnalysisTypeOK, SharedOK, MapInv, Stopped
  <2> QED BY <1>6, <2>1, <2>2, SameQueue DEF LookupEnds, Settle, Goto, sharedVars, semaphoreVars, mediaVars
<1>7. ASSUME NEW r \in Requests, Acquire(r) PROVE QueueInv'
  <2>1. lpc[r] = "lookup" /\ UNCHANGED <<cancelled, timedOut>>
    BY <1>7 DEF Acquire
  <2>2. CASE ~Stopped(r) /\ Queue(r) /\ Goto(r, "queued")
    BY <2>1, <2>2, Queued DEF Goto
  <2>3. CASE UNCHANGED waiters /\ (Goto(r, "opening") \/ Goto(r, "none"))
    <3>1. \A q \in Requests : lpc'[q] = "queued" <=> lpc[q] = "queued"
      BY <2>1, <2>3 DEF Goto, AnalysisTypeOK
    <3> QED BY <2>1, <2>3, <3>1, SameQueue DEF Stopped
  <2> QED BY <1>7, <2>2, <2>3 DEF Acquire, TakeSlot, Settle, semaphoreVars
<1>8. ASSUME NEW r \in Requests, Open(r) PROVE QueueInv'
  <2>1. \A q \in Requests : lpc'[q] = "queued" <=> lpc[q] = "queued"
    BY <1>8 DEF Open, Goto, sharedVars, semaphoreVars, mediaVars, AnalysisTypeOK, SharedOK, MapInv
  <2>2. \A q \in Requests : lpc[q] = "queued" /\ (cancelled'[q] \/ timedOut'[q]) => Stopped(q)
    BY <1>8 DEF Open, Goto, sharedVars, semaphoreVars, mediaVars, AnalysisTypeOK, SharedOK, MapInv, Stopped
  <2> QED BY <1>8, <2>1, <2>2, SameQueue DEF Open, Goto, sharedVars, semaphoreVars, mediaVars
<1>9. ASSUME NEW r \in Requests, Spool(r) PROVE QueueInv'
  <2>1. \A q \in Requests : lpc'[q] = "queued" <=> lpc[q] = "queued"
    BY <1>9 DEF Spool, Goto, sharedVars, semaphoreVars, mediaVars, AnalysisTypeOK, SharedOK, MapInv
  <2>2. \A q \in Requests : lpc[q] = "queued" /\ (cancelled'[q] \/ timedOut'[q]) => Stopped(q)
    BY <1>9 DEF Spool, Goto, sharedVars, semaphoreVars, mediaVars, AnalysisTypeOK, SharedOK, MapInv, Stopped
  <2> QED BY <1>9, <2>1, <2>2, SameQueue DEF Spool, Goto, sharedVars, semaphoreVars, mediaVars
<1>10. ASSUME NEW r \in Requests, Analyze(r) PROVE QueueInv'
  <2>1. \A q \in Requests : lpc'[q] = "queued" <=> lpc[q] = "queued"
    BY <1>10 DEF Analyze, Goto, sharedVars, semaphoreVars, mediaVars, AnalysisTypeOK, SharedOK, MapInv
  <2>2. \A q \in Requests : lpc[q] = "queued" /\ (cancelled'[q] \/ timedOut'[q]) => Stopped(q)
    BY <1>10 DEF Analyze, Goto, sharedVars, semaphoreVars, mediaVars, AnalysisTypeOK, SharedOK, MapInv, Stopped
  <2> QED BY <1>10, <2>1, <2>2, SameQueue DEF Analyze, Goto, sharedVars, semaphoreVars, mediaVars
<1>11. ASSUME NEW r \in Requests, Fails(r) PROVE QueueInv'
  <2>1. \A q \in Requests : lpc'[q] = "queued" <=> lpc[q] = "queued"
    BY <1>11 DEF Fails, Goto, sharedVars, semaphoreVars, mediaVars, AnalysisTypeOK, SharedOK, MapInv
  <2>2. \A q \in Requests : lpc[q] = "queued" /\ (cancelled'[q] \/ timedOut'[q]) => Stopped(q)
    BY <1>11 DEF Fails, Goto, sharedVars, semaphoreVars, mediaVars, AnalysisTypeOK, SharedOK, MapInv, Stopped
  <2> QED BY <1>11, <2>1, <2>2, SameQueue DEF Fails, Goto, sharedVars, semaphoreVars, mediaVars
<1>12. ASSUME NEW r \in Requests, Store(r) PROVE QueueInv'
  <2>1. \A q \in Requests : lpc'[q] = "queued" <=> lpc[q] = "queued"
    BY <1>12 DEF Store, Goto, sharedVars, semaphoreVars, mediaVars, AnalysisTypeOK, SharedOK, MapInv
  <2>2. \A q \in Requests : lpc[q] = "queued" /\ (cancelled'[q] \/ timedOut'[q]) => Stopped(q)
    BY <1>12 DEF Store, Goto, sharedVars, semaphoreVars, mediaVars, AnalysisTypeOK, SharedOK, MapInv, Stopped
  <2> QED BY <1>12, <2>1, <2>2, SameQueue DEF Store, Goto, sharedVars, semaphoreVars, mediaVars
<1>13. ASSUME NEW r \in Requests, LoadEnds(r) PROVE QueueInv'
  BY <1>13, HandedOver DEF LoadEnds
<1>14. ASSUME NEW k \in SharedKeys, CleanUp(k) PROVE QueueInv'
  <2>1. \A q \in Requests : lpc'[q] = "queued" <=> lpc[q] = "queued"
    BY <1>14 DEF CleanUp, sharedVars, semaphoreVars, mediaVars, AnalysisTypeOK, SharedOK, MapInv
  <2>2. \A q \in Requests : lpc[q] = "queued" /\ (cancelled'[q] \/ timedOut'[q]) => Stopped(q)
    BY <1>14 DEF CleanUp, sharedVars, semaphoreVars, mediaVars, AnalysisTypeOK, SharedOK, MapInv, Stopped
  <2> QED BY <1>14, <2>1, <2>2, SameQueue DEF CleanUp, sharedVars, semaphoreVars, mediaVars
<1>15. CASE UNCHANGED analysisVars
  BY <1>15 DEF analysisVars, sharedVars, semaphoreVars, mediaVars, QueueInv, Stopped
<1>16. ASSUME NEW r \in Requests, Hangs(r) PROVE QueueInv'
  <2>1. \A q \in Requests : lpc'[q] = "queued" <=> lpc[q] = "queued"
    BY <1>16 DEF Hangs, Goto, sharedVars, semaphoreVars, mediaVars, AnalysisTypeOK, SharedOK, MapInv
  <2>2. \A q \in Requests : lpc[q] = "queued" /\ (cancelled'[q] \/ timedOut'[q]) => Stopped(q)
    BY <1>16 DEF Hangs, Goto, sharedVars, semaphoreVars, mediaVars, AnalysisTypeOK, SharedOK, MapInv, Stopped
  <2> QED BY <1>16, <2>1, <2>2, SameQueue DEF Hangs, Goto, sharedVars, semaphoreVars, mediaVars
<1> QED BY <1>1, <1>2, <1>3, <1>4, <1>5, <1>6, <1>7, <1>8, <1>9, <1>10, <1>11, <1>12, <1>13, <1>14, <1>15, <1>16 DEF AnalysisNext, LoadStep

\* Every step keeps the count of the slots.
LEMMA SlotStep ==
    ASSUME AnalysisTypeOK, MapInv, QueueInv, SlotsAreExact, [AnalysisNext]_analysisVars
    PROVE  SlotsAreExact'
<1> USE SemaphoreAssumption DEF AnalysisTypeOK, SlotsAreExact
<1>1. ASSUME NEW c \in Callers, NEW k \in SharedKeys, Ask(c, k) PROVE SlotsAreExact'
  <2>1. CASE Join(c, k) /\ UNCHANGED lpc
    BY <1>1, <2>1 DEF Ask, Holders, semaphoreVars
  <2>2. ASSUME NEW r \in Requests, Create(c, k, r), Goto(r, "lookup") PROVE SlotsAreExact'
    <3>1. lpc[r] = "none" /\ lpc' = [lpc EXCEPT ![r] = "lookup"]
      BY <1>1, <2>2 DEF Create, Goto, MapInv, AnalysisTypeOK
    <3>2. Holders' = Holders
      BY <3>1 DEF Holders
    <3> QED BY <1>1, <3>2 DEF Ask, semaphoreVars
  <2> QED BY <1>1, <2>1, <2>2 DEF Ask
<1>2. ASSUME NEW c \in Callers, HangUp(c) PROVE SlotsAreExact'
  <2>1. PICK r \in Requests : /\ Abort(c, r)
                              /\ IF subs[r] = {c} THEN StopsQueueing(r)
                                 ELSE UNCHANGED <<semaphoreVars, state, lpc>>
    BY <1>2 DEF HangUp
  <2>2. CASE UNCHANGED <<active, waiters, lpc>>
    BY <2>2 DEF Holders
  <2>3. CASE subs[r] = {c} /\ lpc[r] = "queued"
    <3>1. LeaveQueue(r) /\ lpc' = [lpc EXCEPT ![r] = "none"]
      BY <2>1, <2>3 DEF StopsQueueing, Settle, Goto
    <3>2. Holders' = Holders
      BY <2>3, <3>1 DEF Holders
    <3>3. active' = active /\ waiters # <<>>
      BY <3>1 DEF LeaveQueue
    <3> QED BY <3>2, <3>3
  <2> QED BY <2>1, <2>2, <2>3 DEF StopsQueueing, semaphoreVars
<1>3. ASSUME NEW c \in Callers, Answer(c) PROVE SlotsAreExact'
  <2>1. Holders' = Holders
    BY <1>3 DEF Answer, Deliver, sharedVars, semaphoreVars, mediaVars, Holders, SharedOK, MapInv
  <2> QED BY <1>3, <2>1 DEF Answer, Deliver, sharedVars, semaphoreVars, mediaVars
<1>4. ASSUME NEW r \in Requests, TimesOut(r) PROVE SlotsAreExact'
  <2>1. CASE UNCHANGED <<active, waiters, lpc>>
    BY <2>1 DEF Holders
  <2>2. CASE lpc[r] = "queued"
    <3>1. LeaveQueue(r) /\ lpc' = [lpc EXCEPT ![r] = "none"]
      BY <1>4, <2>2 DEF TimesOut, StopsQueueing, Settle, Goto
    <3>2. Holders' = Holders
      BY <2>2, <3>1 DEF Holders
    <3>3. active' = active /\ waiters # <<>>
      BY <3>1 DEF LeaveQueue
    <3> QED BY <3>2, <3>3
  <2> QED BY <1>4, <2>1, <2>2 DEF TimesOut, StopsQueueing, semaphoreVars
<1>5. ASSUME NEW r \in Requests, Settled(r) PROVE SlotsAreExact'
  <2>1. Holders' = Holders
    BY <1>5 DEF Settled, Finally, sharedVars, semaphoreVars, mediaVars, Holders, SharedOK, MapInv
  <2> QED BY <1>5, <2>1 DEF Settled, Finally, sharedVars, semaphoreVars, mediaVars
<1>6. ASSUME NEW r \in Requests, LookupEnds(r) PROVE SlotsAreExact'
  <2>1. Holders' = Holders
    BY <1>6 DEF LookupEnds, Settle, Goto, sharedVars, semaphoreVars, mediaVars, Holders, SharedOK, MapInv
  <2> QED BY <1>6, <2>1 DEF LookupEnds, Settle, Goto, sharedVars, semaphoreVars, mediaVars
<1>7. ASSUME NEW r \in Requests, Acquire(r) PROVE SlotsAreExact'
  <2>1. CASE TakeSlot /\ Goto(r, "opening")
    <3>1. Holders' = Holders \cup {r} /\ r \notin Holders
      BY <1>7, <2>1 DEF Acquire, Goto, Holders
    <3>2. Cardinality(Holders') = Cardinality(Holders) + 1
      BY <3>1, HoldersFinite, FS_AddElement
    <3> QED BY <2>1, <3>2 DEF TakeSlot
  <2>2. CASE Queue(r) /\ Goto(r, "queued")
    <3>1. Holders' = Holders
      BY <1>7, <2>2 DEF Acquire, Goto, Holders
    <3> QED BY <2>2, <3>1 DEF Queue
  <2>3. CASE Settle(r) /\ UNCHANGED semaphoreVars
    <3>1. Holders' = Holders
      BY <1>7, <2>3 DEF Acquire, Settle, Goto, Holders
    <3> QED BY <2>3, <3>1 DEF semaphoreVars
  <2> QED BY <1>7, <2>1, <2>2, <2>3 DEF Acquire
<1>8. ASSUME NEW r \in Requests, Open(r) PROVE SlotsAreExact'
  <2>1. Holders' = Holders
    BY <1>8 DEF Open, Goto, sharedVars, semaphoreVars, mediaVars, Holders, SharedOK, MapInv
  <2> QED BY <1>8, <2>1 DEF Open, Goto, sharedVars, semaphoreVars, mediaVars
<1>9. ASSUME NEW r \in Requests, Spool(r) PROVE SlotsAreExact'
  <2>1. Holders' = Holders
    BY <1>9 DEF Spool, Goto, sharedVars, semaphoreVars, mediaVars, Holders, SharedOK, MapInv
  <2> QED BY <1>9, <2>1 DEF Spool, Goto, sharedVars, semaphoreVars, mediaVars
<1>10. ASSUME NEW r \in Requests, Analyze(r) PROVE SlotsAreExact'
  <2>1. Holders' = Holders
    BY <1>10 DEF Analyze, Goto, sharedVars, semaphoreVars, mediaVars, Holders, SharedOK, MapInv
  <2> QED BY <1>10, <2>1 DEF Analyze, Goto, sharedVars, semaphoreVars, mediaVars
<1>11. ASSUME NEW r \in Requests, Fails(r) PROVE SlotsAreExact'
  <2>1. Holders' = Holders
    BY <1>11 DEF Fails, Goto, sharedVars, semaphoreVars, mediaVars, Holders, SharedOK, MapInv
  <2> QED BY <1>11, <2>1 DEF Fails, Goto, sharedVars, semaphoreVars, mediaVars
<1>12. ASSUME NEW r \in Requests, Store(r) PROVE SlotsAreExact'
  <2>1. Holders' = Holders
    BY <1>12 DEF Store, Goto, sharedVars, semaphoreVars, mediaVars, Holders, SharedOK, MapInv
  <2> QED BY <1>12, <2>1 DEF Store, Goto, sharedVars, semaphoreVars, mediaVars
<1>13. ASSUME NEW r \in Requests, LoadEnds(r) PROVE SlotsAreExact'
  BY <1>13, HandedOver DEF LoadEnds
<1>14. ASSUME NEW k \in SharedKeys, CleanUp(k) PROVE SlotsAreExact'
  <2>1. Holders' = Holders
    BY <1>14 DEF CleanUp, sharedVars, semaphoreVars, mediaVars, Holders, SharedOK, MapInv
  <2> QED BY <1>14, <2>1 DEF CleanUp, sharedVars, semaphoreVars, mediaVars
<1>15. CASE UNCHANGED analysisVars
  BY <1>15 DEF analysisVars, sharedVars, semaphoreVars, mediaVars, Holders
<1>16. ASSUME NEW r \in Requests, Hangs(r) PROVE SlotsAreExact'
  <2>1. Holders' = Holders
    BY <1>16 DEF Hangs, Goto, sharedVars, semaphoreVars, mediaVars, Holders, SharedOK, MapInv
  <2> QED BY <1>16, <2>1 DEF Hangs, Goto, sharedVars, semaphoreVars, mediaVars
<1> QED BY <1>1, <1>2, <1>3, <1>4, <1>5, <1>6, <1>7, <1>8, <1>9, <1>10, <1>11, <1>12, <1>13, <1>14, <1>15, <1>16 DEF AnalysisNext, LoadStep

\* Every step keeps the types.
LEMMA TypeStep ==
    ASSUME AnalysisTypeOK, MapInv, QueueInv, SlotsAreExact, [AnalysisNext]_analysisVars
    PROVE  AnalysisTypeOK'
<1> USE SharedRequestsAssumption, SemaphoreAssumption DEF AnalysisTypeOK, SharedOK
<1>1. ASSUME NEW c \in Callers, NEW k \in SharedKeys, Ask(c, k) PROVE AnalysisTypeOK'
  <2>1. CASE Join(c, k) /\ UNCHANGED lpc
    BY <1>1, <2>1 DEF Ask, Join, semaphoreVars
  <2>2. ASSUME NEW r \in Requests, Create(c, k, r), Goto(r, "lookup") PROVE AnalysisTypeOK'
    <3>1. pending' \in [SharedKeys -> Requests \cup {NoRequest}] /\ cancelled' \in [Requests -> BOOLEAN]
      BY <2>2 DEF Create
    <3>2. state' \in [Requests -> {"loading", "settled", "done"}]
      BY <2>2 DEF Create
    <3>3. subs' \in [Requests -> SUBSET Callers]
      BY <2>2 DEF Create
    <3>4. lpc' \in [Requests -> {"none", "lookup", "queued", "opening", "hung", "spooling",
                                  "analyzing", "storing", "removing"}]
      BY <2>2 DEF Goto
    <3>5. UNCHANGED <<active, waiters, timedOut, stored>>
      BY <1>1 DEF Ask, semaphoreVars
    <3> QED BY <3>1, <3>2, <3>3, <3>4, <3>5
  <2> QED BY <1>1, <2>1, <2>2 DEF Ask
<1>2. ASSUME NEW c \in Callers, HangUp(c) PROVE AnalysisTypeOK'
  <2>1. PICK r \in Requests : /\ Abort(c, r)
                              /\ IF subs[r] = {c} THEN StopsQueueing(r)
                                 ELSE UNCHANGED <<semaphoreVars, state, lpc>>
    BY <1>2 DEF HangUp
  <2>2. /\ pending' \in [SharedKeys -> Requests \cup {NoRequest}]
        /\ subs' \in [Requests -> SUBSET Callers]
        /\ cancelled' \in [Requests -> BOOLEAN]
        /\ UNCHANGED <<timedOut, stored>>
    <3>1. pending' = pending \/ pending' = Deleted(r)
      BY <2>1 DEF Abort
    <3>2. cancelled' = cancelled \/ cancelled' = [cancelled EXCEPT ![r] = state[r] # "done"]
      BY <2>1 DEF Abort
    <3>3. pending' \in [SharedKeys -> Requests \cup {NoRequest}]
      BY <3>1 DEF Deleted
    <3>4. cancelled' \in [Requests -> BOOLEAN]
      BY <3>2
    <3> QED BY <1>2, <2>1, <3>3, <3>4 DEF HangUp, Abort
  <2>3. CASE UNCHANGED <<semaphoreVars, state, lpc>>
    BY <2>2, <2>3 DEF semaphoreVars
  <2>4. CASE lpc[r] = "queued" /\ StopsQueueing(r)
    <3>1. state' = [state EXCEPT ![r] = "settled"] /\ lpc' = [lpc EXCEPT ![r] = "none"]
      BY <2>4 DEF StopsQueueing, Settle, Goto
    <3>2. active' = active /\ waiters' \in Seq(Requests)
      <4>1. \A q \in Requests \ {r} : (cancelled'[q] \/ timedOut'[q]) => Stopped(q)
        BY <2>1, <2>2 DEF Abort, Stopped
      <4> QED BY <2>4, <3>1, <4>1, QueueLeft DEF StopsQueueing
    <3> QED BY <2>2, <3>1, <3>2
  <2> QED BY <2>1, <2>3, <2>4 DEF StopsQueueing
<1>3. ASSUME NEW c \in Callers, Answer(c) PROVE AnalysisTypeOK'
  <2>1. /\ pending' \in [SharedKeys -> Requests \cup {NoRequest}]
        /\ state' \in [Requests -> {"loading", "settled", "done"}]
        /\ subs' \in [Requests -> SUBSET Callers]
        /\ UNCHANGED <<cancelled, active, waiters, timedOut, stored>>
    BY <1>3 DEF Answer, Deliver, sharedVars, semaphoreVars, mediaVars
  <2>2. lpc' \in [Requests -> {"none", "lookup", "queued", "opening", "hung", "spooling",
                                "analyzing", "storing", "removing"}]
    BY <1>3 DEF Answer, Deliver, sharedVars, semaphoreVars, mediaVars
  <2> QED BY <2>1, <2>2
<1>4. ASSUME NEW r \in Requests, TimesOut(r) PROVE AnalysisTypeOK'
  <2>1. timedOut' \in [Requests -> BOOLEAN] /\ UNCHANGED <<pending, subs, cancelled, stored>>
    BY <1>4 DEF TimesOut
  <2>2. CASE UNCHANGED <<semaphoreVars, state, lpc>>
    BY <2>1, <2>2 DEF semaphoreVars
  <2>3. CASE lpc[r] = "queued"
    <3>1. /\ state' = [state EXCEPT ![r] = "settled"] /\ lpc' = [lpc EXCEPT ![r] = "none"]
          /\ LeaveQueue(r)
      BY <1>4, <2>3 DEF TimesOut, StopsQueueing, Settle, Goto
    <3>2. active' = active /\ waiters' \in Seq(Requests)
      <4>1. \A q \in Requests \ {r} : (cancelled'[q] \/ timedOut'[q]) => Stopped(q)
        BY <1>4 DEF TimesOut, Stopped
      <4> QED BY <2>3, <3>1, <4>1, QueueLeft
    <3> QED BY <2>1, <3>1, <3>2
  <2> QED BY <1>4, <2>2, <2>3 DEF TimesOut, StopsQueueing
<1>5. ASSUME NEW r \in Requests, Settled(r) PROVE AnalysisTypeOK'
  BY <1>5 DEF Settled, Finally, Deleted, sharedVars, semaphoreVars, mediaVars
<1>6. ASSUME NEW r \in Requests, LookupEnds(r) PROVE AnalysisTypeOK'
  BY <1>6 DEF LookupEnds, Settle, Goto, sharedVars, semaphoreVars, mediaVars
<1>7. ASSUME NEW r \in Requests, Acquire(r) PROVE AnalysisTypeOK'
  <2>1. CASE ~Stopped(r) /\ Queue(r) /\ Goto(r, "queued") /\ UNCHANGED state
    <3>1. waiters' \in Seq(Requests)
      BY <1>7, <2>1, Queued DEF Acquire, Goto
    <3> QED BY <1>7, <2>1, <3>1 DEF Acquire, Goto, Queue
  <2>2. CASE TakeSlot /\ Goto(r, "opening") /\ UNCHANGED state
    BY <1>7, <2>2 DEF Acquire, Goto, TakeSlot
  <2>3. CASE Settle(r) /\ UNCHANGED semaphoreVars
    BY <1>7, <2>3 DEF Acquire, Settle, Goto, semaphoreVars
  <2> QED BY <1>7, <2>1, <2>2, <2>3 DEF Acquire
<1>8. ASSUME NEW r \in Requests, Open(r) PROVE AnalysisTypeOK'
  BY <1>8 DEF Open, Goto, sharedVars, semaphoreVars, mediaVars
<1>9. ASSUME NEW r \in Requests, Spool(r) PROVE AnalysisTypeOK'
  BY <1>9 DEF Spool, Goto, sharedVars, semaphoreVars, mediaVars
<1>10. ASSUME NEW r \in Requests, Analyze(r) PROVE AnalysisTypeOK'
  BY <1>10 DEF Analyze, Goto, sharedVars, semaphoreVars, mediaVars
<1>11. ASSUME NEW r \in Requests, Fails(r) PROVE AnalysisTypeOK'
  BY <1>11 DEF Fails, Goto, sharedVars, semaphoreVars, mediaVars
<1>12. ASSUME NEW r \in Requests, Store(r) PROVE AnalysisTypeOK'
  BY <1>12 DEF Store, Goto, sharedVars, semaphoreVars, mediaVars
<1>13. ASSUME NEW r \in Requests, LoadEnds(r) PROVE AnalysisTypeOK'
  <2>1. active' \in 0 .. Limit /\ waiters' \in Seq(Requests)
    BY <1>13, HandedOver DEF LoadEnds
  <2>2. /\ state' = [state EXCEPT ![r] = "settled"]
        /\ lpc' \in [Requests -> {"none", "lookup", "queued", "opening", "hung", "spooling",
                                  "analyzing", "storing", "removing"}]
    BY <1>13 DEF LoadEnds, GiveBack
  <2> QED BY <1>13, <2>1, <2>2 DEF LoadEnds
<1>14. ASSUME NEW k \in SharedKeys, CleanUp(k) PROVE AnalysisTypeOK'
  BY <1>14 DEF CleanUp, Goto, sharedVars, semaphoreVars, mediaVars
<1>15. CASE UNCHANGED analysisVars
  BY <1>15 DEF analysisVars, sharedVars, semaphoreVars, mediaVars
<1>16. ASSUME NEW r \in Requests, Hangs(r) PROVE AnalysisTypeOK'
  BY <1>16 DEF Hangs, Goto, sharedVars, semaphoreVars, mediaVars
<1> QED BY <1>1, <1>2, <1>3, <1>4, <1>5, <1>6, <1>7, <1>8, <1>9, <1>10, <1>11, <1>12, <1>13, <1>14, <1>15, <1>16 DEF AnalysisNext, LoadStep

-----------------------------------------------------------------------------
(* The theorems.                                                            *)

\* The invariant is inductive: it holds of the first state and every step of a
\* caller, a timer, a load or cleanup keeps it.
THEOREM Inductive == AnalysisSpec => []IInv
<1>1. AnalysisInit => IInv
  <2> SUFFICES ASSUME AnalysisInit PROVE IInv
    OBVIOUS
  <2> USE SharedRequestsAssumption, SemaphoreAssumption DEF AnalysisInit, SharedInit, SemaphoreInit
  <2>1. AnalysisTypeOK
    BY DEF AnalysisTypeOK, SharedOK
  <2>2. MapInv
    BY DEF MapInv, NobodyWaitsOnAborted, AbandonedIsAborted
  <2>3. QueueInv
    BY DEF QueueInv
  <2>4. SlotsAreExact
    <3>1. Holders = {}
      BY DEF Holders
    <3> QED BY <3>1, FS_EmptySet DEF SlotsAreExact
  <2> QED BY <2>1, <2>2, <2>3, <2>4 DEF IInv
<1>2. IInv /\ [AnalysisNext]_analysisVars => IInv'
  BY MapStep, QueueStep, SlotStep, TypeStep DEF IInv
<1> QED BY <1>1, <1>2, PTL DEF AnalysisSpec

\* The state keeps its shape, and no more than Limit slots are ever given out.
THEOREM TypeCorrect == AnalysisSpec => []AnalysisTypeOK
<1>1. IInv => AnalysisTypeOK
  BY DEF IInv
<1> QED BY <1>1, Inductive, PTL

\* A caller never waits for, or joins, an analysis that was stopped because
\* somebody else went away.
THEOREM AbortIsPrivate == AnalysisSpec => []NobodyWaitsOnAborted
<1>1. IInv => NobodyWaitsOnAborted
  BY DEF IInv, MapInv
<1> QED BY <1>1, Inductive, PTL

\* However long abandoned analyses of a version go on, at most one analysis of
\* it is running for somebody.
THEOREM OneWantedLoad == AnalysisSpec => []OneWantedLoadPerKey
<1>1. IInv => OneWantedLoadPerKey
  <2> SUFFICES ASSUME IInv, NEW r \in Requests, NEW s \in Requests, KeyOf[r] = KeyOf[s],
                      state[r] = "loading", subs[r] # {}, state[s] = "loading", subs[s] # {}
               PROVE  r = s
    BY DEF OneWantedLoadPerKey
  <2>1. ~cancelled[r] /\ ~cancelled[s]
    BY DEF IInv, MapInv, NobodyWaitsOnAborted
  <2>2. pending[KeyOf[r]] = r /\ pending[KeyOf[s]] = s
    BY <2>1 DEF IInv, MapInv
  <2> QED BY <2>2
<1> QED BY <1>1, Inductive, PTL

\* An analysis the last caller left was told to stop.
THEOREM NoOrphanLoad == AnalysisSpec => []AbandonedIsAborted
<1>1. IInv => AbandonedIsAborted
  BY DEF IInv, MapInv
<1> QED BY <1>1, Inductive, PTL

\* Every path an analysis can end by returns its slot exactly once, and no
\* analysis queues beside a free slot.
THEOREM SlotsExact == AnalysisSpec => []SlotsAreExact
<1>1. IInv => SlotsAreExact
  BY DEF IInv
<1> QED BY <1>1, Inductive, PTL

\* A slot is handed only to an analysis somebody waits for and whose timer has
\* not fired.
THEOREM WaitersWanted == AnalysisSpec => []WaitersAreWanted
<1>1. IInv => WaitersAreWanted
  <2> SUFFICES ASSUME IInv, NEW i \in DOMAIN waiters
               PROVE  /\ lpc[waiters[i]] = "queued"
                      /\ subs[waiters[i]] # {}
                      /\ ~timedOut[waiters[i]]
    BY DEF WaitersAreWanted
  <2>1. waiters[i] \in Requests
    BY DEF IInv, AnalysisTypeOK
  <2>2. lpc[waiters[i]] = "queued" /\ ~cancelled[waiters[i]] /\ ~timedOut[waiters[i]]
    BY DEF IInv, QueueInv, Stopped
  <2>3. state[waiters[i]] = "loading"
    BY <2>1, <2>2 DEF IInv, MapInv
  <2> QED BY <2>1, <2>2, <2>3 DEF IInv, MapInv, AbandonedIsAborted
<1> QED BY <1>1, Inductive, PTL

\* Those who wait for a load share it, and a load nobody waits for is told to stop.
THEOREM SharedLoads == AnalysisSpec => []LoadsAreShared
<1>1. NobodyWaitsOnAborted /\ OneWantedLoadPerKey /\ AbandonedIsAborted => LoadsAreShared
  BY DEF LoadsAreShared
<1> QED BY <1>1, AbortIsPrivate, OneWantedLoad, NoOrphanLoad, PTL

\* The count of slots is exact, and the queue for them holds only wanted loads.
THEOREM SlotsWanted == AnalysisSpec => []SlotsGoToTheWanted
<1>1. SlotsAreExact /\ WaitersAreWanted => SlotsGoToTheWanted
  BY DEF SlotsGoToTheWanted
<1> QED BY <1>1, SlotsExact, WaitersWanted, PTL

-----------------------------------------------------------------------------
(* One tar index: the least and the greatest of some numbers.                *)

LEMMA LeastOfSome ==
    ASSUME NEW S, S \subseteq Nat, S # {}
    PROVE  \E x \in S : \A y \in S : x <= y
<1>1. PICK x \in S : \A y \in S : ~(<<y, x>> \in OpToRel(<, Nat))
    BY NatLessThanWellFounded, WFMin, Zenon
<1>2. \A y \in S : x \in Nat /\ y \in Nat
    BY <1>1
<1>3. \A y \in S : ~(y < x)
    BY <1>1, <1>2, Zenon DEF OpToRel
<1> QED
    BY <1>2, <1>3

LEMMA MinIs ==
    ASSUME NEW S, S \subseteq Nat, NEW n \in S, \A m \in S : n <= m
    PROVE  Min(S) = n
<1>1. \E x \in S : \A y \in S : x <= y
  OBVIOUS
<1>2. Min(S) \in S /\ \A y \in S : Min(S) <= y
  BY <1>1 DEF Min
<1>3. Min(S) <= n /\ n <= Min(S) /\ Min(S) \in Nat /\ n \in Nat
  BY <1>2
<1> QED BY <1>3

LEMMA MaxIs ==
    ASSUME NEW S, S \subseteq Nat, NEW n \in S, \A m \in S : m <= n
    PROVE  Max(S) = n
<1>1. \E x \in S : \A y \in S : x >= y
  OBVIOUS
<1>2. Max(S) \in S /\ \A y \in S : Max(S) >= y
  BY <1>1 DEF Max
<1>3. Max(S) >= n /\ n >= Max(S) /\ Max(S) \in Nat /\ n \in Nat
  BY <1>2
<1> QED BY <1>3

-----------------------------------------------------------------------------
(* One tar index: the names that headers give.                               *)

\* The headers whose names count for the entry at p, as in NameFrom.
Given(a, type, p) ==
    {j \in 1 .. p - 1 : /\ a[j].type = type
                        /\ type = "g" \/ \A i \in j .. p - 1 : ~IsFile(a, i)}

LEMMA NameIs ==
    ASSUME NEW a, NEW type, NEW p
    PROVE  NameFrom(a, type, p) = IF Given(a, type, p) = {} THEN None ELSE a[Max(Given(a, type, p))].name
BY DEF NameFrom, Given

LEMMA NoNameAtFirst ==
    ASSUME NEW a, NEW type
    PROVE  NameFrom(a, type, 1) = None
<1>1. Given(a, type, 1) = {}
  BY DEF Given
<1> QED BY <1>1, NameIs

LEMMA NameIsGiven ==
    ASSUME NEW a, NEW p \in Nat \ {0}, a[p].type \in {"x", "g", "L"}
    PROVE  NameFrom(a, a[p].type, p + 1) = a[p].name
<1> DEFINE G == Given(a, a[p].type, p + 1)
<1>1. G \subseteq 1 .. p
  BY DEF Given
<1>2. p \in G
  <2>1. p \in 1 .. (p + 1) - 1 /\ \A i \in p .. (p + 1) - 1 : i = p
    OBVIOUS
  <2>2. ~IsFile(a, p)
    BY DEF IsFile
  <2> QED BY <2>1, <2>2 DEF Given
<1> HIDE DEF G
<1>3. Max(G) = p
  <2>1. G \subseteq Nat /\ \A m \in G : m <= p
    BY <1>1
  <2> QED BY <1>2, <2>1, MaxIs
<1> QED BY <1>2, <1>3, NameIs DEF G

LEMMA NameStays ==
    ASSUME NEW a, NEW p \in Nat \ {0}, NEW type, a[p].type # type,
           type = "g" \/ ~IsFile(a, p)
    PROVE  NameFrom(a, type, p + 1) = NameFrom(a, type, p)
<1>1. ASSUME NEW j \in Nat
      PROVE  j \in Given(a, type, p + 1) <=> j \in Given(a, type, p)
  <2>1. CASE j = p
    BY <2>1 DEF Given
  <2>2. CASE j # p
    <3>1. j \in 1 .. (p + 1) - 1 <=> j \in 1 .. p - 1
      BY <2>2
    <3>2. \A i : i \in j .. (p + 1) - 1 <=> (i \in j .. p - 1 \/ (i = p /\ j <= p))
      OBVIOUS
    <3>3. type = "g" \/ ((\A i \in j .. (p + 1) - 1 : ~IsFile(a, i)) <=> (\A i \in j .. p - 1 : ~IsFile(a, i)))
      BY <3>2
    <3> QED BY <3>1, <3>3 DEF Given
  <2> QED BY <2>1, <2>2
<1>2. Given(a, type, p + 1) \subseteq Nat /\ Given(a, type, p) \subseteq Nat
  BY DEF Given
<1>3. Given(a, type, p + 1) = Given(a, type, p)
  BY <1>1, <1>2
<1> QED BY <1>3, NameIs

LEMMA NameEnds ==
    ASSUME NEW a, NEW p \in Nat \ {0}, NEW type, type # "g", IsFile(a, p)
    PROVE  NameFrom(a, type, p + 1) = None
<1>1. ASSUME NEW j \in Given(a, type, p + 1) PROVE FALSE
  <2>1. j \in 1 .. p /\ \A i \in j .. p : ~IsFile(a, i)
    <3>1. (p + 1) - 1 = p
      OBVIOUS
    <3> QED BY <3>1 DEF Given
  <2>2. p \in j .. p
    BY <2>1
  <2> QED BY <2>1, <2>2
<1> QED BY <1>1, NameIs

LEMMA TrueNameIs ==
    ASSUME NEW a, NEW p, a[p].name # None
    PROVE  LET local == NameFrom(a, "x", p)
               global == NameFrom(a, "g", p)
               long == NameFrom(a, "L", p) IN
           TrueName(a, p) = IF local # None THEN local ELSE IF global # None THEN global
                            ELSE IF long # None THEN long ELSE a[p].name
<1> DEFINE local == NameFrom(a, "x", p)
           global == NameFrom(a, "g", p)
           long == NameFrom(a, "L", p)
           names == <<local, global, long, a[p].name>>
           S == {i \in 1 .. 4 : names[i] # None}
<1>1. TrueName(a, p) = names[Min(S)]
  BY DEF TrueName
<1>2. S \subseteq Nat /\ 4 \in S
  OBVIOUS
<1>3. CASE local # None
  <2>1. 1 \in S /\ \A m \in S : 1 <= m
    BY <1>3
  <2>2. Min(S) = 1
    <3> HIDE DEF S
    <3> QED BY <1>2, <2>1, MinIs
  <2> QED BY <1>1, <1>3, <2>2
<1>4. CASE local = None /\ global # None
  <2>1. 2 \in S /\ \A m \in S : 2 <= m
    BY <1>4
  <2>2. Min(S) = 2
    <3> HIDE DEF S
    <3> QED BY <1>2, <2>1, MinIs
  <2> QED BY <1>1, <1>4, <2>2
<1>5. CASE local = None /\ global = None /\ long # None
  <2>1. 3 \in S /\ \A m \in S : 3 <= m
    BY <1>5
  <2>2. Min(S) = 3
    <3> HIDE DEF S
    <3> QED BY <1>2, <2>1, MinIs
  <2> QED BY <1>1, <1>5, <2>2
<1>6. CASE local = None /\ global = None /\ long = None
  <2>1. \A m \in S : 4 <= m
    BY <1>6
  <2>2. Min(S) = 4
    <3> HIDE DEF S
    <3> QED BY <1>2, <2>1, MinIs
  <2> QED BY <1>1, <1>6, <2>2
<1> QED BY <1>3, <1>4, <1>5, <1>6

-----------------------------------------------------------------------------
(* One tar index: what an archive holds.                                     *)

Before(a, p) == {q \in Shown(a) : q < p}

Row(a, p) == [name |-> TrueName(a, p), at |-> p]

LEMMA BeforeIs ==
    ASSUME NEW a, NEW X, a \in Seq(X), NEW p \in Nat
    PROVE  /\ IsFiniteSet(Before(a, p)) /\ Cardinality(Before(a, p)) \in Nat
           /\ p \notin Before(a, p)
           /\ Before(a, p + 1) = IF p \in Shown(a) THEN Before(a, p) \cup {p} ELSE Before(a, p)
           /\ p \in Shown(a) => Cardinality(Before(a, p + 1)) = Cardinality(Before(a, p)) + 1
<1>1. Len(a) \in Nat /\ DOMAIN a = 1 .. Len(a) /\ IsFiniteSet(1 .. Len(a))
  BY FS_Interval
<1>2. Shown(a) \subseteq 1 .. Len(a)
  BY <1>1 DEF Shown
<1>3. Before(a, p) \subseteq 1 .. Len(a)
  BY <1>2 DEF Before
<1>4. IsFiniteSet(Before(a, p)) /\ Cardinality(Before(a, p)) \in Nat
  BY <1>1, <1>3, FS_Subset, FS_CardinalityType
<1>5. p \notin Before(a, p)
  BY DEF Before
<1>6. Before(a, p + 1) = IF p \in Shown(a) THEN Before(a, p) \cup {p} ELSE Before(a, p)
  <2>1. \A q \in Shown(a) : q < p + 1 <=> q < p \/ q = p
    BY <1>2
  <2> QED BY <2>1 DEF Before
<1>7. p \in Shown(a) => Cardinality(Before(a, p + 1)) = Cardinality(Before(a, p)) + 1
  BY <1>4, <1>5, <1>6, FS_AddElement
<1> QED BY <1>4, <1>5, <1>6, <1>7

LEMMA ContentsAre ==
    ASSUME NEW a, NEW X, a \in Seq(X)
    PROVE  /\ Cardinality(Shown(a)) \in Nat
           /\ DOMAIN Contents(a) = 1 .. Cardinality(Shown(a))
           /\ Contents(a) \in Seq({Contents(a)[k] : k \in 1 .. Cardinality(Shown(a))})
           /\ Len(Contents(a)) = Cardinality(Shown(a))
           /\ Before(a, Len(a) + 1) = Shown(a)
           /\ \A p \in Nat : Cardinality(Before(a, p)) <= Cardinality(Shown(a))
           /\ \A p \in Shown(a) : /\ Cardinality(Before(a, p)) + 1 \in 1 .. Cardinality(Shown(a))
                                  /\ Contents(a)[Cardinality(Before(a, p)) + 1] = Row(a, p)
<1> DEFINE S == Shown(a)
           N == Cardinality(Shown(a))
<1>1. Len(a) \in Nat /\ DOMAIN a = 1 .. Len(a) /\ IsFiniteSet(1 .. Len(a))
  BY FS_Interval
<1>2. Shown(a) \subseteq 1 .. Len(a)
  BY <1>1 DEF Shown
<1>3. IsFiniteSet(S) /\ N \in Nat
  BY <1>1, <1>2, FS_Subset, FS_CardinalityType
<1>4. \A p \in Nat : Before(a, p) \subseteq S /\ IsFiniteSet(Before(a, p)) /\ Cardinality(Before(a, p)) \in Nat
  BY BeforeIs DEF Before
<1>5. \A p \in Nat : Cardinality(Before(a, p)) <= N
  BY <1>3, <1>4, FS_Subset
<1>6. Before(a, Len(a) + 1) = S
  BY <1>1, <1>2 DEF Before
<1>7. ASSUME NEW p \in S, NEW q \in S, p < q
      PROVE  Cardinality(Before(a, p)) < Cardinality(Before(a, q))
  <2>1. p \in Nat /\ q \in Nat /\ p + 1 \in Nat
    BY <1>2
  <2>2. Before(a, p + 1) \subseteq Before(a, q)
    <3>1. \A r \in S : r < p + 1 => r < q
      BY <1>2, <1>7, <2>1
    <3> QED BY <3>1 DEF Before
  <2>3. Cardinality(Before(a, p + 1)) <= Cardinality(Before(a, q))
    BY <1>4, <2>1, <2>2, FS_Subset
  <2>4. Cardinality(Before(a, p + 1)) = Cardinality(Before(a, p)) + 1
    BY <2>1, BeforeIs
  <2> QED BY <1>4, <2>1, <2>3, <2>4
<1>8. ASSUME NEW p \in S
      PROVE  /\ Cardinality(Before(a, p)) + 1 \in 1 .. N
             /\ Contents(a)[Cardinality(Before(a, p)) + 1] = Row(a, p)
  <2> DEFINE k == Cardinality(Before(a, p)) + 1
             Is(q) == Cardinality({r \in Shown(a) : r < q}) = k - 1
  <2>1. p \in Nat /\ p + 1 \in Nat
    BY <1>2
  <2>2. Cardinality(Before(a, p)) \in Nat /\ Cardinality(Before(a, p + 1)) = k
    BY <1>4, <2>1, BeforeIs
  <2>3. k \in 1 .. N
    BY <1>3, <1>5, <2>1, <2>2
  <2>4. \A q : Is(q) <=> Cardinality(Before(a, q)) = k - 1
    BY DEF Before
  <2>5. Contents(a)[k] = LET q == CHOOSE q \in Shown(a) : Is(q) IN [name |-> TrueName(a, q), at |-> q]
    BY <2>3 DEF Contents
  <2> HIDE DEF Is
  <2>6. Is(p)
    BY <2>2, <2>4
  <2>7. \A q \in S : Is(q) => q = p
    <3> TAKE q \in S
    <3> HAVE Is(q)
    <3>1. Cardinality(Before(a, q)) = Cardinality(Before(a, p))
      BY <2>2, <2>4
    <3>2. q \in Nat /\ Cardinality(Before(a, q)) \in Nat
      BY <1>2, <1>4
    <3>3. ~(p < q) /\ ~(q < p)
      BY <1>7, <2>2, <3>1, <3>2
    <3> QED BY <2>1, <3>2, <3>3
  <2>8. (CHOOSE q \in Shown(a) : Is(q)) = p
    BY <2>6, <2>7
  <2> QED BY <2>3, <2>5, <2>8 DEF Row
<1>9. DOMAIN Contents(a) = 1 .. N
  BY DEF Contents
<1>10. Contents(a) = [k \in 1 .. N |-> Contents(a)[k]]
  BY DEF Contents
<1> HIDE DEF N
<1>11. [k \in 1 .. N |-> Contents(a)[k]] \in Seq({Contents(a)[k] : k \in 1 .. N}) /\ Len([k \in 1 .. N |-> Contents(a)[k]]) = N
  BY <1>3
<1>12. Contents(a) \in Seq({Contents(a)[k] : k \in 1 .. N}) /\ Len(Contents(a)) = N
  BY <1>10, <1>11
<1> QED BY <1>3, <1>5, <1>6, <1>8, <1>9, <1>12 DEF N
-----------------------------------------------------------------------------
(* One tar index: what the table, the position and the readers say of the    *)
(* archive.                                                                  *)

Reading(c) == rpc[c] \in {"loop", "header", "metadata"}
Inside(c) == rpc[c] = "granted" \/ Reading(c)

\* Names wait for the entry they are for; the table has the entries before the
\* position.
ScanIs ==
    /\ position \in 1 .. Len(archive) + 1
    /\ exhausted => position = Len(archive) + 1
    /\ pax = [global |-> NameFrom(archive, "g", position),
              local |-> NameFrom(archive, "x", position),
              long |-> NameFrom(archive, "L", position)]
    /\ entries = [k \in 1 .. Cardinality(Before(archive, position)) |-> Contents(archive)[k]]

\* One reader is inside, and those in the line wait there once.
SlotInv ==
    /\ rpc \in [Readers -> {"out", "queued", "granted", "loop", "header", "metadata"}]
    /\ running \in {0, 1} /\ line \in Seq(Readers)
    /\ \A c \in Readers : Inside(c) => running = 1
    /\ \A c, d \in Readers : Inside(c) /\ Inside(d) => c = d
    /\ \A i \in DOMAIN line : rpc[line[i]] = "queued"
    /\ \A i, j \in DOMAIN line : line[i] = line[j] => i = j

\* What one was told, as AnswersAreRight has it.
Right(a, o, told, said) ==
    LET rows == Contents(a)
        named == {i \in DOMAIN rows : rows[i].name = o.name}
    IN IF o.kind = "list"
       THEN /\ said = [page |-> PageOf(rows, o), hasMore |-> Len(rows) > o.to]
            /\ told = said.page
       ELSE said = [entry |-> IF named = {} THEN None ELSE rows[Min(named)]]

ReadersInv ==
    /\ DOMAIN op = Readers /\ DOMAIN sent = Readers /\ DOMAIN answer = Readers
    /\ op = [c \in Readers |-> op[c]] /\ sent = [c \in Readers |-> sent[c]] /\ answer = [c \in Readers |-> answer[c]]
    /\ \A c \in Readers : rpc[c] # "out" => op[c] \in Operations /\ answer[c] = None
    /\ \A c \in Readers : Reading(c) =>
          /\ ~failure
          /\ op[c].kind = "list" => sent[c] = PageOf(entries, op[c])
    /\ \A c \in Readers : rpc[c] = "metadata" =>
          position <= Len(archive) /\ archive[position].type \in {"x", "g", "L"}
    /\ \A c \in Readers : answer[c] # None => Right(archive, op[c], sent[c], answer[c])

RangeInv ==
    /\ archive \in Archives
    /\ failure \in BOOLEAN
    /\ SlotInv
    /\ failure \/ ScanIs
    /\ ReadersInv

-----------------------------------------------------------------------------
(* One tar index: the slot.                                                  *)

LEMMA MovesInside ==
    ASSUME SlotInv, NEW c \in Readers, Inside(c), UNCHANGED serialVars,
           NEW pc \in {"loop", "header", "metadata"}, rpc' = [rpc EXCEPT ![c] = pc]
    PROVE  /\ SlotInv'
           /\ \A d \in Readers : Reading(d)' => d = c
           /\ \A d \in Readers : d # c => rpc'[d] = rpc[d]
<1>1. \A d \in Readers : rpc'[d] = IF d = c THEN pc ELSE rpc[d]
  BY DEF SlotInv
<1>2. \A d \in Readers : Inside(d)' <=> Inside(d)
  BY <1>1 DEF Inside, Reading
<1>3. running' = running /\ line' = line
  BY DEF serialVars
<1>4. rpc' \in [Readers -> {"out", "queued", "granted", "loop", "header", "metadata"}]
  BY DEF SlotInv
<1>5. \A i \in DOMAIN line : line[i] # c /\ line[i] \in Readers
  BY DEF SlotInv, Inside, Reading
<1>6. SlotInv'
  BY <1>1, <1>2, <1>3, <1>4, <1>5 DEF SlotInv
<1>7. \A d \in Readers : Reading(d)' => d = c
  BY <1>2 DEF SlotInv, Inside, Reading
<1> QED BY <1>1, <1>6, <1>7

\* One goes out, and the first of the line in.
LEMMA GoesOut ==
    ASSUME SlotInv, NEW c \in Readers, Inside(c), Out(c)
    PROVE  /\ SlotInv'
           /\ \A d \in Readers : ~Reading(d)' /\ (rpc'[d] # "out" => rpc[d] # "out" /\ d # c)
<1>1. rpc' = [d \in Readers |-> IF d = c THEN "out" ELSE IF line # <<>> /\ d = Head(line) THEN "granted" ELSE rpc[d]]
  BY DEF Out
<1>2. \A d \in Readers : Inside(d) => d = c
  BY DEF SlotInv
<1>3. /\ line \in Seq(Readers) /\ running = 1
      /\ \A i \in DOMAIN line : rpc[line[i]] = "queued" /\ line[i] # c /\ line[i] \in Readers
      /\ \A i, j \in DOMAIN line : line[i] = line[j] => i = j
  BY DEF SlotInv, Inside, Reading
<1>4. rpc' \in [Readers -> {"out", "queued", "granted", "loop", "header", "metadata"}]
  BY <1>1 DEF SlotInv
<1>5. CASE line = <<>>
  <2>1. running' = 0 /\ line' = <<>>
    BY <1>3, <1>5 DEF Out, Serial!ReleaseSlot
  <2>2. \A d \in Readers : rpc'[d] = IF d = c THEN "out" ELSE rpc[d]
    BY <1>1, <1>5
  <2>3. \A d \in Readers : ~Inside(d)'
    BY <1>2, <2>2 DEF Inside, Reading
  <2>4. SlotInv'
    BY <1>4, <2>1, <2>3 DEF SlotInv
  <2> QED BY <2>2, <2>3, <2>4 DEF Inside
<1>6. CASE line # <<>>
  <2> DEFINE h == Head(line)
  <2>1. running' = 1 /\ line' = Tail(line)
    BY <1>3, <1>6 DEF Out, Serial!ReleaseSlot
  <2>2. h = line[1] /\ 1 \in DOMAIN line
    BY <1>3, <1>6
  <2>3. h \in Readers /\ h # c /\ rpc[h] = "queued"
    BY <1>3, <2>2
  <2>4. \A d \in Readers : rpc'[d] = IF d = c THEN "out" ELSE IF d = h THEN "granted" ELSE rpc[d]
    BY <1>1, <1>6
  <2>5. line' \in Seq(Readers) /\ \A i \in DOMAIN line' : i + 1 \in DOMAIN line /\ line'[i] = line[i + 1] /\ i \in Nat /\ i # 0
    BY <1>3, <1>6, <2>1
  <2> HIDE DEF h
  <2>6. \A d \in Readers : (Inside(d)' <=> d = h) /\ ~Reading(d)'
    BY <1>2, <2>3, <2>4 DEF Inside, Reading
  <2>7. \A i \in DOMAIN line' : line'[i] # h
    <3> TAKE i \in DOMAIN line'
    <3>1. i + 1 # 1
      BY <2>5
    <3> QED BY <1>3, <2>2, <2>5, <3>1
  <2>8. \A i \in DOMAIN line' : rpc'[line'[i]] = "queued"
    BY <1>3, <2>4, <2>5, <2>7
  <2>9. \A i, j \in DOMAIN line' : line'[i] = line'[j] => i = j
    <3> TAKE i \in DOMAIN line', j \in DOMAIN line'
    <3> HAVE line'[i] = line'[j]
    <3>1. i + 1 = j + 1
      BY <1>3, <2>5
    <3> QED BY <2>5, <3>1
  <2>10. SlotInv'
    BY <1>4, <2>1, <2>5, <2>6, <2>8, <2>9 DEF SlotInv
  <2> QED BY <2>3, <2>4, <2>6, <2>10
<1> QED BY <1>5, <1>6

LEMMA AsksSlot ==
    ASSUME SlotInv, NEW c \in Readers, rpc[c] = "out",
           \/ Serial!TakeSlot /\ rpc' = [rpc EXCEPT ![c] = "granted"]
           \/ Serial!Queue(c) /\ rpc' = [rpc EXCEPT ![c] = "queued"]
           \/ Serial!QueueFull /\ UNCHANGED <<rpc, serialVars>>
    PROVE  /\ SlotInv'
           /\ \A d \in Readers : (Reading(d)' <=> Reading(d)) /\ (d # c => rpc'[d] = rpc[d])
           /\ \A d \in Readers : Reading(d) => d # c
           /\ rpc'[c] \in {"out", "queued", "granted"}
<1>0. \A d \in Readers : Reading(d) => d # c
  BY DEF Reading
<1>1. CASE Serial!TakeSlot /\ rpc' = [rpc EXCEPT ![c] = "granted"]
  <2>1. running = 0 /\ running' = 1 /\ line' = line
    BY <1>1 DEF Serial!TakeSlot, SlotInv
  <2>2. \A d \in Readers : rpc'[d] = IF d = c THEN "granted" ELSE rpc[d]
    BY <1>1 DEF SlotInv
  <2>3. \A d \in Readers : ~Inside(d)
    BY <2>1 DEF SlotInv
  <2>4. \A d \in Readers : (Inside(d)' <=> d = c) /\ ~Reading(d)' /\ ~Reading(d)
    BY <2>2, <2>3 DEF Inside, Reading
  <2>5. rpc' \in [Readers -> {"out", "queued", "granted", "loop", "header", "metadata"}]
    BY <1>1 DEF SlotInv
  <2>6. \A i \in DOMAIN line : line[i] # c /\ line[i] \in Readers
    BY DEF SlotInv
  <2>7. SlotInv'
    BY <2>1, <2>2, <2>4, <2>5, <2>6 DEF SlotInv
  <2> QED BY <1>0, <2>2, <2>4, <2>7
<1>2. CASE Serial!Queue(c) /\ rpc' = [rpc EXCEPT ![c] = "queued"]
  <2>1. running' = running /\ line' = Append(line, c)
    BY <1>2 DEF Serial!Queue
  <2>2. \A d \in Readers : rpc'[d] = IF d = c THEN "queued" ELSE rpc[d]
    BY <1>2 DEF SlotInv
  <2>3. \A d \in Readers : (Inside(d)' <=> Inside(d)) /\ (Reading(d)' <=> Reading(d))
    BY <2>2 DEF Inside, Reading
  <2>4. rpc' \in [Readers -> {"out", "queued", "granted", "loop", "header", "metadata"}]
    BY <1>2 DEF SlotInv
  <2>5. line \in Seq(Readers) /\ \A i \in DOMAIN line : line[i] # c /\ line[i] \in Readers
    BY DEF SlotInv
  <2>6. /\ line' \in Seq(Readers)
        /\ \A i \in DOMAIN line' : \/ i \in DOMAIN line /\ line'[i] = line[i]
                                   \/ i = Len(line) + 1 /\ line'[i] = c
    BY <2>1, <2>5
  <2>7. \A i \in DOMAIN line' : rpc'[line'[i]] = "queued"
    BY <2>2, <2>5, <2>6 DEF SlotInv
  <2>8. \A i, j \in DOMAIN line' : line'[i] = line'[j] => i = j
    BY <2>5, <2>6 DEF SlotInv
  <2>9. SlotInv'
    BY <2>1, <2>3, <2>4, <2>6, <2>7, <2>8 DEF SlotInv
  <2> QED BY <1>0, <2>2, <2>3, <2>9
<1>3. CASE Serial!QueueFull /\ UNCHANGED <<rpc, serialVars>>
  BY <1>0, <1>3 DEF serialVars, SlotInv, Inside, Reading
<1> QED BY <1>1, <1>2, <1>3

LEMMA LeavesSlot ==
    ASSUME SlotInv, NEW c \in Readers, rpc[c] = "queued", Serial!LeaveQueue(c),
           rpc' = [rpc EXCEPT ![c] = "out"]
    PROVE  /\ SlotInv'
           /\ \A d \in Readers : (Reading(d)' <=> Reading(d)) /\ rpc'[d] = IF d = c THEN "out" ELSE rpc[d]
<1>1. PICK i \in DOMAIN line : line[i] = c /\ line' = RemoveAt(line, i)
  BY DEF Serial!LeaveQueue, Serial!RemoveAt, RemoveAt
<1>2. line \in Seq(Readers) /\ running' = running /\ i \in Nat
  BY DEF SlotInv, Serial!LeaveQueue
<1>3. /\ line' \in Seq(Readers)
      /\ Len(line') = Len(line) - 1
      /\ \A j \in DOMAIN line' : line'[j] = IF j < i THEN line[j] ELSE line[j + 1]
  BY <1>1, <1>2, Removed
<1>4. ASSUME NEW j \in DOMAIN line'
      PROVE  LET n == IF j < i THEN j ELSE j + 1 IN
             n \in DOMAIN line /\ n # i /\ line'[j] = line[n] /\ j \in Nat
  BY <1>2, <1>3
<1>5. \A d \in Readers : rpc'[d] = IF d = c THEN "out" ELSE rpc[d]
  BY DEF SlotInv
<1>6. \A d \in Readers : (Inside(d)' <=> Inside(d)) /\ (Reading(d)' <=> Reading(d))
  BY <1>5 DEF Inside, Reading
<1>7. rpc' \in [Readers -> {"out", "queued", "granted", "loop", "header", "metadata"}]
  BY DEF SlotInv
<1>8. /\ \A n \in DOMAIN line : rpc[line[n]] = "queued" /\ line[n] \in Readers
      /\ \A n, m \in DOMAIN line : line[n] = line[m] => n = m
  BY <1>2 DEF SlotInv
<1>9. \A j \in DOMAIN line' : rpc'[line'[j]] = "queued"
  BY <1>1, <1>4, <1>5, <1>8
<1>10. \A j, k \in DOMAIN line' : line'[j] = line'[k] => j = k
  <2> TAKE j \in DOMAIN line', k \in DOMAIN line'
  <2> HAVE line'[j] = line'[k]
  <2>1. (IF j < i THEN j ELSE j + 1) = (IF k < i THEN k ELSE k + 1)
    BY <1>4, <1>8
  <2> QED BY <1>2, <1>4, <2>1
<1>11. SlotInv'
  BY <1>2, <1>3, <1>6, <1>7, <1>9, <1>10 DEF SlotInv
<1> QED BY <1>5, <1>6, <1>11
-----------------------------------------------------------------------------
(* One tar index: the table.                                                 *)

LEMMA ArchiveIs ==
    ASSUME RangeInv
    PROVE  /\ archive \in Seq({archive[i] : i \in DOMAIN archive})
           /\ Len(archive) \in Nat /\ DOMAIN archive = 1 .. Len(archive)
           /\ \A p \in DOMAIN archive : archive[p].name # None
<1>1. archive \in Seq({archive[i] : i \in DOMAIN archive}) /\ \A p \in DOMAIN archive : archive[p].name # None
  BY RangeAssumption DEF RangeInv
<1>2. Len(archive) \in Nat /\ DOMAIN archive = 1 .. Len(archive)
  BY <1>1
<1> QED BY <1>1, <1>2

\* The table is the beginning of the contents.
LEMMA TableIs ==
    ASSUME RangeInv, ScanIs
    PROVE  LET rows == Contents(archive) IN
           /\ Len(entries) = Cardinality(Before(archive, position)) /\ Len(entries) \in Nat
           /\ DOMAIN entries = 1 .. Len(entries)
           /\ Len(rows) \in Nat /\ Len(entries) <= Len(rows) /\ DOMAIN rows = 1 .. Len(rows)
           /\ \A k \in 1 .. Len(entries) : entries[k] = rows[k]
           /\ exhausted => entries = rows
           /\ \E X : entries \in Seq(X) /\ rows \in Seq(X)
<1> DEFINE rows == Contents(archive)
           n == Cardinality(Before(archive, position))
<1>1. archive \in Seq({archive[i] : i \in DOMAIN archive}) /\ position \in Nat
  BY ArchiveIs DEF ScanIs
<1>2. n \in Nat
  BY <1>1, BeforeIs
<1>3. entries = [k \in 1 .. n |-> rows[k]]
  BY DEF ScanIs
<1>4. /\ Len(rows) \in Nat /\ DOMAIN rows = 1 .. Len(rows)
      /\ n <= Len(rows)
      /\ position = Len(archive) + 1 => n = Len(rows)
  BY <1>1, ContentsAre
<1>9. rows \in Seq({rows[k] : k \in 1 .. Len(rows)})
  BY <1>1, ContentsAre
<1> HIDE DEF rows, n
<1>5. Len(entries) = n /\ DOMAIN entries = 1 .. n /\ \A k \in 1 .. n : entries[k] = rows[k]
  BY <1>2, <1>3
<1>6. n = Len(rows) => entries = rows
  BY <1>3, <1>4, <1>9
<1>7. exhausted => entries = rows
  BY <1>4, <1>6 DEF ScanIs
<1>8. \E X : entries \in Seq(X) /\ rows \in Seq(X)
  <2> DEFINE X == {rows[k] : k \in 1 .. Len(rows)}
  <2>1. \A k \in 1 .. n : rows[k] \in X
    <3>1. \A k \in 1 .. n : k \in 1 .. Len(rows)
      <4>1. n \in Nat /\ Len(rows) \in Nat /\ n <= Len(rows)
        BY <1>2, <1>4
      <4> HIDE DEF X
      <4> QED BY <4>1
    <3>2. \A k \in 1 .. Len(rows) : rows[k] \in X
      OBVIOUS
    <3> QED BY <3>1, <3>2
  <2>2. rows \in Seq(X)
    BY <1>9
  <2> HIDE DEF X
  <2>3. entries \in Seq(X)
    BY <1>2, <1>3, <2>1
  <2> QED BY <2>2, <2>3
<1> QED BY <1>2, <1>4, <1>5, <1>7, <1>8 DEF rows, n

\* What is cut where two sequences agree.
LEMMA SamePart ==
    ASSUME NEW X, NEW s, NEW t, NEW m, NEW n, s \in Seq(X), t \in Seq(X), m \in Nat \ {0}, n \in Nat,
           n <= Len(s), Len(s) <= Len(t), \A k \in 1 .. Len(s) : s[k] = t[k]
    PROVE  SubSeq(s, m, n) = SubSeq(t, m, n)
OBVIOUS

\* A page that the table has in full is that of the contents.
LEMMA PageIsRight ==
    ASSUME RangeInv, ScanIs, NEW o \in Operations, o.kind = "list", Enough(o)
    PROVE  /\ PageOf(entries, o) = PageOf(Contents(archive), o)
           /\ Len(entries) > o.to <=> Len(Contents(archive)) > o.to
<1> DEFINE rows == Contents(archive)
<1>1. o.from \in Nat /\ o.to \in Nat
  BY RangeAssumption
<1>2. /\ Len(entries) \in Nat /\ Len(rows) \in Nat /\ Len(entries) <= Len(rows)
      /\ \A k \in 1 .. Len(entries) : entries[k] = rows[k]
      /\ exhausted => entries = rows
  BY TableIs
<1>3. CASE exhausted
  BY <1>2, <1>3
<1>4. CASE Len(entries) > o.to
  <2> HIDE DEF rows
  <2>1. Min({o.to, Len(entries)}) = o.to /\ Min({o.to, Len(rows)}) = o.to
    <3>1. \A n \in Nat : o.to < n => Min({o.to, n}) = o.to
      <4> TAKE n \in Nat
      <4> HAVE o.to < n
      <4>1. {o.to, n} \subseteq Nat /\ o.to \in {o.to, n} /\ \A m \in {o.to, n} : o.to <= m
        BY <1>1
      <4> QED BY <4>1, MinIs
    <3>2. o.to < Len(entries) /\ o.to < Len(rows)
      BY <1>1, <1>2, <1>4
    <3> QED BY <1>2, <3>1, <3>2
  <2>2. SubSeq(entries, o.from + 1, o.to) = SubSeq(rows, o.from + 1, o.to)
    <3>1. PICK X : entries \in Seq(X) /\ rows \in Seq(X)
      BY TableIs DEF rows
    <3>2. o.from + 1 \in Nat \ {0} /\ o.to <= Len(entries)
      BY <1>1, <1>2, <1>4
    <3>3. o.to \in Nat /\ Len(entries) <= Len(rows) /\ \A k \in 1 .. Len(entries) : entries[k] = rows[k]
      BY <1>1, <1>2
    <3> DEFINE m == o.from + 1
               n == o.to
    <3>4. m \in Nat \ {0} /\ n \in Nat /\ n <= Len(entries)
      BY <3>2, <3>3
    <3> HIDE DEF m, n
    <3>5. SubSeq(entries, m, n) = SubSeq(rows, m, n)
      BY <3>1, <3>3, <3>4, SamePart
    <3> QED BY <3>5 DEF m, n
  <2>3. PageOf(entries, o) = PageOf(rows, o)
    BY <2>1, <2>2 DEF PageOf
  <2> QED BY <1>1, <1>2, <1>4, <2>3 DEF rows
<1> QED BY <1>3, <1>4 DEF Enough

\* The first entry of a name that the table has is the first of the contents.
LEMMA FoundIsRight ==
    ASSUME RangeInv, ScanIs, NEW o \in Operations, o.kind # "list", Enough(o)
    PROVE  LET rows == Contents(archive)
               named == {i \in DOMAIN rows : rows[i].name = o.name}
           IN Found(o.name) = IF named = {} THEN None ELSE rows[Min(named)]
<1> DEFINE rows == Contents(archive)
           all == {i \in DOMAIN rows : rows[i].name = o.name}
           some == Named(o.name)
<1>1. /\ Len(entries) \in Nat /\ Len(rows) \in Nat /\ Len(entries) <= Len(rows)
      /\ DOMAIN entries = 1 .. Len(entries) /\ DOMAIN rows = 1 .. Len(rows)
      /\ \A k \in 1 .. Len(entries) : entries[k] = rows[k]
      /\ exhausted => entries = rows
  BY TableIs
<1> HIDE DEF rows
<1>2. some = {i \in DOMAIN entries : entries[i].name = o.name}
  BY DEF Named
<1>3. CASE exhausted
  <2>1. entries = rows /\ some = all
    BY <1>1, <1>2, <1>3
  <2> HIDE DEF some, all
  <2>2. Found(o.name) = IF some = {} THEN None ELSE entries[Min(some)]
    BY DEF Found, some
  <2> QED BY <2>1, <2>2 DEF rows, all
<1>4. CASE some # {}
  <2>1. /\ some \subseteq Nat /\ all \subseteq Nat /\ some \subseteq all
        /\ some \subseteq 1 .. Len(entries)
        /\ \A i \in all : i <= Len(entries) => i \in some
    BY <1>1, <1>2
  <2> HIDE DEF some, all
  <2>2. PICK n \in some : \A m \in some : n <= m
    BY <1>4, <2>1, LeastOfSome
  <2>3. \A m \in all : n <= m
    <3> TAKE m \in all
    <3>1. m \in Nat /\ n \in Nat /\ n <= Len(entries)
      BY <1>1, <2>1, <2>2
    <3> QED BY <1>1, <2>1, <2>2, <3>1
  <2>4. Min(some) = n /\ Min(all) = n
    BY <2>1, <2>2, <2>3, MinIs
  <2>5. entries[n] = rows[n]
    BY <1>1, <2>1, <2>2
  <2>6. all # {}
    BY <1>4, <2>1
  <2>7. Found(o.name) = entries[Min(some)]
    BY <1>4 DEF Found, some
  <2> QED BY <2>4, <2>5, <2>6, <2>7 DEF rows, all
<1> QED BY <1>3, <1>4 DEF Enough

LEMMA ResultIsRight ==
    ASSUME RangeInv, ScanIs, NEW o \in Operations, Enough(o),
           NEW told, o.kind = "list" => told = PageOf(entries, o)
    PROVE  Right(archive, o, told, Result(o))
<1>1. CASE o.kind = "list"
  <2>1. Result(o) = [page |-> PageOf(entries, o), hasMore |-> Len(entries) > o.to]
    BY <1>1 DEF Result
  <2>2. /\ PageOf(entries, o) = PageOf(Contents(archive), o)
        /\ (Len(entries) > o.to) = (Len(Contents(archive)) > o.to)
    BY <1>1, PageIsRight
  <2>3. Result(o).page = PageOf(entries, o)
    BY <2>1
  <2> QED BY <1>1, <2>1, <2>2, <2>3 DEF Right
<1>2. CASE o.kind # "list"
  <2>1. Result(o) = [entry |-> Found(o.name)]
    BY <1>2 DEF Result
  <2> QED BY <1>2, <2>1, FoundIsRight DEF Right
<1> QED BY <1>1, <1>2

\* One header further.
LEMMA Advances ==
    ASSUME RangeInv, ScanIs, position <= Len(archive),
           position' = position + 1, UNCHANGED <<archive, exhausted>>,
           pax' = [global |-> NameFrom(archive, "g", position + 1),
                   local |-> NameFrom(archive, "x", position + 1),
                   long |-> NameFrom(archive, "L", position + 1)],
           entries' = IF position \in Shown(archive) THEN Append(entries, Row(archive, position)) ELSE entries
    PROVE  ScanIs'
<1> DEFINE rows == Contents(archive)
           n == Cardinality(Before(archive, position))
           m == Cardinality(Before(archive, position + 1))
<1>1. /\ archive \in Seq({archive[i] : i \in DOMAIN archive}) /\ Len(archive) \in Nat
      /\ position \in 1 .. Len(archive) /\ position \in Nat
  BY ArchiveIs DEF ScanIs
<1>2. n \in Nat /\ (IF position \in Shown(archive) THEN m = n + 1 ELSE m = n)
  BY <1>1, BeforeIs
<1>3. position \in Shown(archive) => rows[n + 1] = Row(archive, position)
  BY <1>1, ContentsAre
<1>4. entries = [k \in 1 .. n |-> rows[k]]
  BY DEF ScanIs
<1> HIDE DEF rows, n, m
<1>5. entries' = [k \in 1 .. m |-> rows[k]]
  <2>1. CASE position \in Shown(archive)
    <3>1. entries' = Append([k \in 1 .. n |-> rows[k]], rows[n + 1])
      BY <1>3, <1>4, <2>1
    <3>2. Append([k \in 1 .. n |-> rows[k]], rows[n + 1]) = [k \in 1 .. n + 1 |-> rows[k]]
      BY <1>2
    <3> QED BY <1>2, <2>1, <3>1, <3>2
  <2>2. CASE position \notin Shown(archive)
    BY <1>2, <1>4, <2>2
  <2> QED BY <2>1, <2>2
<1>6. position' \in 1 .. Len(archive) + 1 /\ (exhausted => FALSE)
  BY <1>1 DEF ScanIs
<1>7. archive' = archive /\ position' = position + 1 /\ exhausted' = exhausted
  OBVIOUS
<1>8. entries' = [k \in 1 .. Cardinality(Before(archive', position')) |-> Contents(archive')[k]]
  BY <1>5, <1>7 DEF rows, m
<1>9. pax' = [global |-> NameFrom(archive', "g", position'),
              local |-> NameFrom(archive', "x", position'),
              long |-> NameFrom(archive', "L", position')]
  BY <1>7
<1>10. position' \in 1 .. Len(archive') + 1 /\ (exhausted' => position' = Len(archive') + 1)
  BY <1>6, <1>7
<1> QED BY <1>8, <1>9, <1>10, Zenon DEF ScanIs
-----------------------------------------------------------------------------
(* One tar index: the readers.                                               *)

\* One reader's operation, and what it was told and said.
Becomes(c, o, told, said) ==
    /\ op' = [d \in Readers |-> IF d = c THEN o ELSE op[d]]
    /\ sent' = [d \in Readers |-> IF d = c THEN told ELSE sent[d]]
    /\ answer' = [d \in Readers |-> IF d = c THEN said ELSE answer[d]]

\* A step of one reader, beside which the others wait, or go on reading what stays.
LEMMA OneReaderSteps ==
    ASSUME ReadersInv, archive' = archive, NEW c \in Readers, NEW o, NEW told, NEW said, Becomes(c, o, told, said),
           \A d \in Readers \ {c} : /\ rpc'[d] # "out" => rpc[d] # "out"
                                    /\ Reading(d)' => rpc'[d] = rpc[d] /\ UNCHANGED scanVars,
           rpc'[c] # "out" => o \in Operations /\ said = None,
           Reading(c)' => ~failure' /\ (o.kind = "list" => told = PageOf(entries', o)),
           rpc'[c] = "metadata" => position' <= Len(archive) /\ archive[position'].type \in {"x", "g", "L"},
           said # None => Right(archive, o, told, said)
    PROVE  ReadersInv'
<1>1. \A d \in Readers : /\ op'[d] = IF d = c THEN o ELSE op[d]
                         /\ sent'[d] = IF d = c THEN told ELSE sent[d]
                         /\ answer'[d] = IF d = c THEN said ELSE answer[d]
  BY DEF Becomes
<1>2. /\ DOMAIN op' = Readers /\ DOMAIN sent' = Readers /\ DOMAIN answer' = Readers
      /\ op' = [d \in Readers |-> op'[d]] /\ sent' = [d \in Readers |-> sent'[d]]
      /\ answer' = [d \in Readers |-> answer'[d]]
  BY DEF Becomes
<1>3. ASSUME NEW d \in Readers, d # c
      PROVE  /\ rpc'[d] # "out" => op'[d] \in Operations /\ answer'[d] = None
             /\ Reading(d)' => /\ ~failure'
                               /\ op'[d].kind = "list" => sent'[d] = PageOf(entries', op'[d])
             /\ rpc'[d] = "metadata" => position' <= Len(archive') /\ archive'[position'].type \in {"x", "g", "L"}
             /\ answer'[d] # None => Right(archive', op'[d], sent'[d], answer'[d])
  <2>1. op'[d] = op[d] /\ sent'[d] = sent[d] /\ answer'[d] = answer[d]
    BY <1>1, <1>3
  <2>2. rpc'[d] # "out" => op[d] \in Operations /\ answer[d] = None
    BY <1>3 DEF ReadersInv
  <2>3. answer[d] # None => Right(archive, op[d], sent[d], answer[d])
    BY DEF ReadersInv
  <2>4. ASSUME Reading(d)'
        PROVE  /\ ~failure'
               /\ op[d].kind = "list" => sent[d] = PageOf(entries', op[d])
               /\ rpc'[d] = "metadata" => position' <= Len(archive) /\ archive[position'].type \in {"x", "g", "L"}
    <3>1. rpc'[d] = rpc[d] /\ position' = position /\ entries' = entries /\ failure' = failure
      BY <1>3, <2>4 DEF scanVars
    <3>2. Reading(d)
      BY <2>4, <3>1 DEF Reading
    <3> QED BY <3>1, <3>2 DEF ReadersInv
  <2>5. rpc'[d] = "metadata" => Reading(d)'
    BY DEF Reading
  <2> QED BY <2>1, <2>2, <2>3, <2>4, <2>5
<1>4. /\ rpc'[c] # "out" => op'[c] \in Operations /\ answer'[c] = None
      /\ Reading(c)' => /\ ~failure'
                        /\ op'[c].kind = "list" => sent'[c] = PageOf(entries', op'[c])
      /\ rpc'[c] = "metadata" => position' <= Len(archive') /\ archive'[position'].type \in {"x", "g", "L"}
      /\ answer'[c] # None => Right(archive', op'[c], sent'[c], answer'[c])
  BY <1>1
<1>5. \A d \in Readers :
         /\ rpc'[d] # "out" => op'[d] \in Operations /\ answer'[d] = None
         /\ Reading(d)' => /\ ~failure'
                           /\ op'[d].kind = "list" => sent'[d] = PageOf(entries', op'[d])
         /\ rpc'[d] = "metadata" => position' <= Len(archive') /\ archive'[position'].type \in {"x", "g", "L"}
         /\ answer'[d] # None => Right(archive', op'[d], sent'[d], answer'[d])
  BY <1>3, <1>4
<1> QED BY <1>2, <1>5 DEF ReadersInv

\* A variable of one reader that stays, in the form above.
LEMMA Unchanging ==
    ASSUME ReadersInv, NEW c \in Readers
    PROVE  /\ op = [d \in Readers |-> IF d = c THEN op[c] ELSE op[d]]
           /\ sent = [d \in Readers |-> IF d = c THEN sent[c] ELSE sent[d]]
           /\ answer = [d \in Readers |-> IF d = c THEN answer[c] ELSE answer[d]]
           /\ \A o : [op EXCEPT ![c] = o] = [d \in Readers |-> IF d = c THEN o ELSE op[d]]
           /\ \A told : [sent EXCEPT ![c] = told] = [d \in Readers |-> IF d = c THEN told ELSE sent[d]]
           /\ \A said : [answer EXCEPT ![c] = said] = [d \in Readers |-> IF d = c THEN said ELSE answer[d]]
<1>1. /\ op = [d \in Readers |-> op[d]] /\ sent = [d \in Readers |-> sent[d]] /\ answer = [d \in Readers |-> answer[d]]
      /\ DOMAIN op = Readers /\ DOMAIN sent = Readers /\ DOMAIN answer = Readers
  BY DEF ReadersInv
<1>2. /\ op = [d \in Readers |-> IF d = c THEN op[c] ELSE op[d]]
      /\ sent = [d \in Readers |-> IF d = c THEN sent[c] ELSE sent[d]]
      /\ answer = [d \in Readers |-> IF d = c THEN answer[c] ELSE answer[d]]
  BY <1>1
<1>3. /\ \A o : [op EXCEPT ![c] = o] = [d \in Readers |-> IF d = c THEN o ELSE op[d]]
      /\ \A told : [sent EXCEPT ![c] = told] = [d \in Readers |-> IF d = c THEN told ELSE sent[d]]
      /\ \A said : [answer EXCEPT ![c] = said] = [d \in Readers |-> IF d = c THEN said ELSE answer[d]]
  BY <1>1
<1> QED BY <1>2, <1>3

LEMMA StaysAsScanned ==
    ASSUME RangeInv, UNCHANGED <<archive, scanVars>>
    PROVE  archive' \in Archives /\ failure' \in BOOLEAN /\ (failure' \/ ScanIs')
<1>1. /\ archive' = archive /\ position' = position /\ exhausted' = exhausted
      /\ pax' = pax /\ entries' = entries /\ failure' = failure
  BY DEF scanVars
<1> QED BY <1>1 DEF RangeInv, ScanIs

LEMMA FindAtOnceStep ==
    ASSUME RangeInv, NEW c \in Readers, NEW o \in Operations, FindAtOnce(c, o)
    PROVE  RangeInv'
<1> DEFINE said == IF failure THEN None ELSE Result(o)
<1>1. /\ rpc[c] = "out" /\ o.kind = "find" /\ (Enough(o) \/ failure)
      /\ answer' = [answer EXCEPT ![c] = said] /\ op' = [op EXCEPT ![c] = o]
      /\ sent' = [sent EXCEPT ![c] = <<>>]
      /\ UNCHANGED <<archive, scanVars, rpc, serialVars>>
  BY DEF FindAtOnce
<1>2. said # None => Right(archive, o, <<>>, said)
  <2>1. CASE failure
    BY <2>1
  <2>2. CASE ~failure
    <3>1. ScanIs /\ Enough(o) /\ o.kind # "list"
      BY <1>1, <2>2 DEF RangeInv
    <3> QED BY <2>2, <3>1, ResultIsRight
  <2> QED BY <2>1, <2>2
<1> HIDE DEF said
<1>3. ReadersInv /\ SlotInv
  BY DEF RangeInv
<1>4. rpc' = rpc /\ archive' = archive /\ UNCHANGED scanVars
  BY <1>1
<1>5. ReadersInv'
  <2>1. Becomes(c, o, <<>>, said)
    BY <1>1, <1>3, Unchanging DEF Becomes
  <2>2. rpc'[c] = "out" /\ ~Reading(c)'
    BY <1>1, <1>4 DEF Reading
  <2>3. rpc'[c] # "metadata"
    BY <2>2
  <2> QED BY <1>2, <1>3, <1>4, <2>1, <2>2, <2>3, OneReaderSteps
<1>6. SlotInv'
  BY <1>1, <1>3 DEF SlotInv, serialVars, Inside, Reading
<1> QED BY <1>1, <1>5, <1>6, StaysAsScanned DEF RangeInv

LEMMA AskIndexStep ==
    ASSUME RangeInv, NEW c \in Readers, NEW o \in Operations, AskIndex(c, o)
    PROVE  RangeInv'
<1>1. /\ rpc[c] = "out"
      /\ answer' = [answer EXCEPT ![c] = None] /\ op' = [op EXCEPT ![c] = o]
      /\ sent' = [sent EXCEPT ![c] = <<>>]
      /\ UNCHANGED <<archive, scanVars>>
      /\ \/ Serial!TakeSlot /\ rpc' = [rpc EXCEPT ![c] = "granted"]
         \/ Serial!Queue(c) /\ rpc' = [rpc EXCEPT ![c] = "queued"]
         \/ Serial!QueueFull /\ UNCHANGED <<rpc, serialVars>>
  BY DEF AskIndex, Starts
<1>2. ReadersInv /\ SlotInv
  BY DEF RangeInv
<1>3. /\ SlotInv'
      /\ \A d \in Readers : (Reading(d)' <=> Reading(d)) /\ (d # c => rpc'[d] = rpc[d])
      /\ \A d \in Readers : Reading(d) => d # c
      /\ rpc'[c] \in {"out", "queued", "granted"}
  BY <1>1, <1>2, AsksSlot
<1>4. ReadersInv'
  <2>1. Becomes(c, o, <<>>, None)
    BY <1>1, <1>2, Unchanging DEF Becomes
  <2>2. ~Reading(c)' /\ rpc'[c] # "metadata"
    BY <1>3
  <2>3. archive' = archive /\ UNCHANGED scanVars
    BY <1>1
  <2>4. \A d \in Readers \ {c} : /\ rpc'[d] # "out" => rpc[d] # "out"
                                 /\ Reading(d)' => rpc'[d] = rpc[d] /\ UNCHANGED scanVars
    BY <1>3, <2>3
  <2> QED BY <1>2, <2>1, <2>2, <2>3, <2>4, OneReaderSteps
<1> QED BY <1>1, <1>3, <1>4, StaysAsScanned DEF RangeInv

LEMMA LeavesIndexQueueStep ==
    ASSUME RangeInv, NEW c \in Readers, LeavesIndexQueue(c)
    PROVE  RangeInv'
<1>1. /\ rpc[c] = "queued" /\ Serial!LeaveQueue(c) /\ rpc' = [rpc EXCEPT ![c] = "out"]
      /\ UNCHANGED <<archive, scanVars>>
      /\ op' = op /\ sent' = sent /\ answer' = answer
  BY DEF LeavesIndexQueue
<1>2. ReadersInv /\ SlotInv
  BY DEF RangeInv
<1>3. /\ SlotInv'
      /\ \A d \in Readers : (Reading(d)' <=> Reading(d)) /\ rpc'[d] = IF d = c THEN "out" ELSE rpc[d]
  BY <1>1, <1>2, LeavesSlot
<1>4. ReadersInv'
  <2>1. Becomes(c, op[c], sent[c], answer[c])
    BY <1>1, <1>2, Unchanging DEF Becomes
  <2>2. rpc'[c] = "out" /\ ~Reading(c)' /\ rpc'[c] # "metadata"
    BY <1>1, <1>3 DEF Reading
  <2>3. archive' = archive /\ UNCHANGED scanVars
    BY <1>1
  <2>4. \A d \in Readers \ {c} : /\ rpc'[d] # "out" => rpc[d] # "out"
                                 /\ Reading(d)' => rpc'[d] = rpc[d] /\ UNCHANGED scanVars
    BY <1>3, <2>3
  <2>5. answer[c] # None => Right(archive, op[c], sent[c], answer[c])
    BY <1>2 DEF ReadersInv
  <2> QED BY <1>2, <2>1, <2>2, <2>3, <2>4, <2>5, OneReaderSteps
<1> QED BY <1>1, <1>3, <1>4, StaysAsScanned DEF RangeInv

-----------------------------------------------------------------------------
(* One tar index: the one who reads.                                         *)

\* One who goes out, without an answer or with one that is right.
LEMMA GoesOutStep ==
    ASSUME RangeInv, NEW c \in Readers, Inside(c), Out(c), archive' = archive,
           NEW said, Becomes(c, op[c], sent[c], said),
           said # None => Right(archive, op[c], sent[c], said),
           failure' \in BOOLEAN, failure' \/ ScanIs'
    PROVE  RangeInv'
<1>1. ReadersInv /\ SlotInv
  BY DEF RangeInv
<1>2. /\ SlotInv'
      /\ \A d \in Readers : ~Reading(d)' /\ (rpc'[d] # "out" => rpc[d] # "out" /\ d # c)
  BY <1>1, GoesOut
<1>3. ReadersInv'
  <2>2. rpc'[c] = "out" /\ ~Reading(c)' /\ rpc'[c] # "metadata"
    BY <1>2
  <2>3. \A d \in Readers \ {c} : /\ rpc'[d] # "out" => rpc[d] # "out"
                                 /\ Reading(d)' => rpc'[d] = rpc[d] /\ UNCHANGED scanVars
    BY <1>2
  <2>4. /\ rpc'[c] # "out" => op[c] \in Operations /\ said = None
        /\ Reading(c)' => ~failure' /\ (op[c].kind = "list" => sent[c] = PageOf(entries', op[c]))
        /\ rpc'[c] = "metadata" => position' <= Len(archive) /\ archive[position'].type \in {"x", "g", "L"}
    BY <2>2
  <2>5. archive' = archive /\ (said # None => Right(archive, op[c], sent[c], said))
    OBVIOUS
  <2> QED BY <1>1, <2>3, <2>4, <2>5, OneReaderSteps
<1> QED BY <1>2, <1>3 DEF RangeInv

\* One who reads on, and what the others see of it: nothing.
LEMMA ReadsOn ==
    ASSUME RangeInv, NEW c \in Readers, Inside(c), archive' = archive, UNCHANGED serialVars,
           NEW pc \in {"loop", "header", "metadata"}, rpc' = [rpc EXCEPT ![c] = pc],
           NEW told, Becomes(c, op[c], told, None),
           op[c].kind = "list" => told = PageOf(entries', op[c]),
           pc = "metadata" => position' <= Len(archive) /\ archive[position'].type \in {"x", "g", "L"},
           failure' = FALSE, ScanIs'
    PROVE  RangeInv'
<1>1. ReadersInv /\ SlotInv
  BY DEF RangeInv
<1>2. /\ SlotInv'
      /\ \A d \in Readers : Reading(d)' => d = c
      /\ \A d \in Readers : d # c => rpc'[d] = rpc[d]
  BY <1>1, MovesInside
<1>3. ReadersInv'
  <2>2. rpc'[c] = pc
    BY <1>1 DEF SlotInv
  <2>3. op[c] \in Operations
    BY <1>1 DEF ReadersInv, Inside, Reading
  <2>4. \A d \in Readers \ {c} : /\ rpc'[d] # "out" => rpc[d] # "out"
                                 /\ Reading(d)' => rpc'[d] = rpc[d] /\ UNCHANGED scanVars
    BY <1>2
  <2>5. /\ rpc'[c] # "out" => op[c] \in Operations /\ None = None
        /\ Reading(c)' => ~failure' /\ (op[c].kind = "list" => told = PageOf(entries', op[c]))
        /\ rpc'[c] = "metadata" => position' <= Len(archive) /\ archive[position'].type \in {"x", "g", "L"}
    BY <2>2, <2>3
  <2>6. archive' = archive /\ (None # None => Right(archive, op[c], told, None))
    OBVIOUS
  <2> QED BY <1>1, <2>4, <2>5, <2>6, OneReaderSteps
<1> QED BY <1>2, <1>3 DEF RangeInv

\* Who reads, and what it knows.
LEMMA ReadingIs ==
    ASSUME RangeInv, NEW c \in Readers, Reading(c)
    PROVE  /\ Inside(c) /\ ~failure /\ ScanIs /\ op[c] \in Operations /\ answer[c] = None
           /\ op[c].kind = "list" => sent[c] = PageOf(entries, op[c])
           /\ UNCHANGED <<op, sent, answer>> => Becomes(c, op[c], sent[c], None)
<1>1. /\ ~failure /\ op[c] \in Operations /\ answer[c] = None
      /\ op[c].kind = "list" => sent[c] = PageOf(entries, op[c])
  BY DEF RangeInv, ReadersInv, Reading
<1>2. UNCHANGED <<op, sent, answer>> => Becomes(c, op[c], sent[c], None)
  BY <1>1, Unchanging DEF RangeInv, Becomes
<1> QED BY <1>1, <1>2 DEF RangeInv, Inside

LEMMA ReturnsStep ==
    ASSUME RangeInv, NEW c \in Readers, Reading(c), NEW result, Returns(c, result),
           UNCHANGED <<archive, position, exhausted, pax, op, sent>>,
           result # None => Right(archive, op[c], sent[c], result)
    PROVE  RangeInv'
<1>1. Inside(c) /\ Out(c) /\ ~failure /\ ScanIs
  BY ReadingIs DEF Returns
<1>2. archive' = archive /\ op' = op /\ sent' = sent
  OBVIOUS
<1>3. CASE answer' = [answer EXCEPT ![c] = result] /\ UNCHANGED <<entries, failure>>
  <2>1. ScanIs' /\ failure' \in BOOLEAN
    BY <1>1, <1>3 DEF ScanIs, RangeInv
  <2>2. Becomes(c, op[c], sent[c], result)
    BY <1>2, <1>3, Unchanging DEF RangeInv, Becomes
  <2> QED BY <1>1, <1>2, <2>1, <2>2, GoesOutStep
<1>4. CASE failure' = TRUE /\ answer' = answer
  <2>1. Becomes(c, op[c], sent[c], None)
    BY <1>2, <1>4, ReadingIs
  <2> QED BY <1>1, <1>2, <1>4, <2>1, GoesOutStep
<1> QED BY <1>3, <1>4 DEF Returns

LEMMA BeginsStep ==
    ASSUME RangeInv, NEW c \in Readers, Begins(c)
    PROVE  RangeInv'
<1>1. /\ rpc[c] = "granted" /\ archive' = archive /\ UNCHANGED scanVars /\ op' = op /\ answer' = answer
      /\ IF failure THEN Out(c) /\ sent' = sent
                    ELSE rpc' = [rpc EXCEPT ![c] = "loop"] /\ Emits(c, entries) /\ UNCHANGED serialVars
  BY DEF Begins
<1>2. Inside(c)
  BY <1>1 DEF Inside
<1>3. failure' = failure /\ failure' \in BOOLEAN /\ (failure' \/ ScanIs') /\ entries' = entries
  BY <1>1, StaysAsScanned DEF scanVars
<1>4. answer[c] = None
  BY <1>1 DEF RangeInv, ReadersInv
<1>5. CASE failure
  <2>1. Becomes(c, op[c], sent[c], None)
    BY <1>1, <1>4, <1>5, Unchanging DEF RangeInv, Becomes
  <2> QED BY <1>1, <1>2, <1>3, <1>5, <2>1, GoesOutStep
<1>6. CASE ~failure
  <2> DEFINE told == IF op[c].kind = "list" THEN PageOf(entries, op[c]) ELSE sent[c]
  <2>1. Becomes(c, op[c], told, None)
    BY <1>1, <1>4, <1>6, Unchanging DEF RangeInv, Emits, Becomes
  <2>2. op[c].kind = "list" => told = PageOf(entries', op[c])
    BY <1>3
  <2>3. failure' = FALSE /\ ScanIs'
    BY <1>3, <1>6
  <2> HIDE DEF told
  <2> QED BY <1>1, <1>2, <1>6, <2>1, <2>2, <2>3, ReadsOn
<1> QED BY <1>5, <1>6

LEMMA ReturnsResultStep ==
    ASSUME RangeInv, NEW c \in Readers, ReturnsResult(c)
    PROVE  RangeInv'
<1>1. /\ rpc[c] = "loop" /\ Enough(op[c]) /\ Returns(c, Result(op[c]))
      /\ UNCHANGED <<archive, position, exhausted, pax, op, sent>>
  BY DEF ReturnsResult
<1>2. Reading(c)
  BY <1>1 DEF Reading
<1>3. Right(archive, op[c], sent[c], Result(op[c]))
  BY <1>1, <1>2, ReadingIs, ResultIsRight
<1> QED BY <1>1, <1>2, <1>3, ReturnsStep

LEMMA ThrowsStep ==
    ASSUME RangeInv, NEW c \in Readers, Throws(c)
    PROVE  RangeInv'
<1>1. /\ Reading(c) /\ Returns(c, None)
      /\ UNCHANGED <<archive, position, exhausted, pax, op, sent>>
  BY DEF Throws, Reading
<1> QED BY <1>1, ReturnsStep

\* Steps that leave the table and the names alone.
LEMMA LooksStep ==
    ASSUME RangeInv, NEW c \in Readers, NextHeader(c) \/ EndOfArchive(c) \/ MetadataHeader(c)
    PROVE  RangeInv'
<1>1. Reading(c)
  BY DEF NextHeader, EndOfArchive, MetadataHeader, Reading
<1>2. /\ Inside(c) /\ ~failure /\ ScanIs
      /\ op[c].kind = "list" => sent[c] = PageOf(entries, op[c])
      /\ UNCHANGED <<op, sent, answer>> => Becomes(c, op[c], sent[c], None)
  BY <1>1, ReadingIs
<1>3. PICK pc \in {"loop", "header", "metadata"} : rpc' = [rpc EXCEPT ![c] = pc]
                  /\ (pc = "metadata" => position <= Len(archive) /\ archive[position].type \in {"x", "g", "L"})
  BY DEF NextHeader, EndOfArchive, MetadataHeader, Loops
<1>4. /\ archive' = archive /\ position' = position /\ pax' = pax /\ entries' = entries /\ failure' = failure
      /\ op' = op /\ sent' = sent /\ answer' = answer /\ UNCHANGED serialVars
      /\ exhausted' = exhausted \/ (exhausted' = TRUE /\ position > Len(archive))
  BY DEF NextHeader, EndOfArchive, MetadataHeader, scanVars
<1>5. ScanIs'
  <2>1. exhausted' => position = Len(archive) + 1
    <3>1. position \in 1 .. Len(archive) + 1 /\ Len(archive) \in Nat /\ (exhausted => position = Len(archive) + 1)
      BY <1>2, ArchiveIs DEF ScanIs
    <3>2. exhausted' = exhausted \/ position > Len(archive)
      BY <1>4
    <3>3. CASE exhausted' = exhausted
      BY <3>1, <3>3
    <3>4. CASE position > Len(archive)
      BY <3>1, <3>4
    <3> QED BY <3>2, <3>3, <3>4
  <2> QED BY <1>2, <1>4, <2>1 DEF ScanIs
<1>6. failure' = FALSE
  BY <1>2, <1>4 DEF RangeInv
<1>7. Becomes(c, op[c], sent[c], None) /\ (op[c].kind = "list" => sent[c] = PageOf(entries', op[c]))
  BY <1>2, <1>4
<1> QED BY <1>2, <1>3, <1>4, <1>5, <1>6, <1>7, ReadsOn

\* Headers that are no entries.
LEMMA PassesStep ==
    ASSUME RangeInv, NEW c \in Readers, SkipsLinkName(c) \/ Metadata(c)
    PROVE  RangeInv'
<1>1. Reading(c)
  BY DEF SkipsLinkName, Metadata, Reading
<1>2. /\ Inside(c) /\ ~failure /\ ScanIs
      /\ op[c].kind = "list" => sent[c] = PageOf(entries, op[c])
      /\ UNCHANGED <<op, sent, answer>> => Becomes(c, op[c], sent[c], None)
  BY <1>1, ReadingIs
<1>3. /\ archive' = archive /\ position' = position + 1 /\ exhausted' = exhausted
      /\ entries' = entries /\ failure' = failure
      /\ op' = op /\ sent' = sent /\ answer' = answer /\ UNCHANGED serialVars
      /\ rpc' = [rpc EXCEPT ![c] = "loop"]
  BY DEF SkipsLinkName, Metadata, Loops
<1>4. /\ position \in Nat \ {0} /\ position <= Len(archive)
      /\ archive[position].type \in {"x", "g", "L", "K"}
      /\ \/ archive[position].type = "K" /\ pax' = pax
         \/ /\ archive[position].type \in {"x", "g", "L"}
            /\ LET h == archive[position]
               IN pax' = CASE h.type = "x" -> [pax EXCEPT !.local = h.name]
                           [] h.type = "g" -> [pax EXCEPT !.global = h.name]
                           [] h.type = "L" -> [pax EXCEPT !.long = h.name]
  <2>1. position \in Nat \ {0}
    BY <1>2, ArchiveIs DEF ScanIs
  <2>2. CASE SkipsLinkName(c)
    BY <2>1, <2>2 DEF SkipsLinkName
  <2>3. CASE Metadata(c)
    <3>1. position <= Len(archive) /\ archive[position].type \in {"x", "g", "L"}
      BY <2>3 DEF Metadata, RangeInv, ReadersInv
    <3> QED BY <2>1, <2>3, <3>1 DEF Metadata
  <2> QED BY <2>2, <2>3
<1>5. ~IsFile(archive, position) /\ position \notin Shown(archive)
  BY <1>4 DEF IsFile, Shown
<1>6. pax = [global |-> NameFrom(archive, "g", position),
             local |-> NameFrom(archive, "x", position),
             long |-> NameFrom(archive, "L", position)]
  BY <1>2 DEF ScanIs
<1>7. pax' = [global |-> NameFrom(archive, "g", position + 1),
              local |-> NameFrom(archive, "x", position + 1),
              long |-> NameFrom(archive, "L", position + 1)]
  <2> DEFINE t == archive[position].type
  <2>1. \A type : type # t => NameFrom(archive, type, position + 1) = NameFrom(archive, type, position)
    BY <1>4, <1>5, NameStays
  <2>2. t \in {"x", "g", "L"} => NameFrom(archive, t, position + 1) = archive[position].name
    BY <1>4, NameIsGiven
  <2>3. CASE t = "K"
    BY <1>4, <1>6, <2>1, <2>3
  <2>4. CASE t = "x"
    <3>1. pax' = [pax EXCEPT !.local = archive[position].name]
      BY <1>4, <2>4
    <3> QED BY <1>6, <2>1, <2>2, <2>4, <3>1
  <2>5. CASE t = "g"
    <3>1. pax' = [pax EXCEPT !.global = archive[position].name]
      BY <1>4, <2>5
    <3> QED BY <1>6, <2>1, <2>2, <2>5, <3>1
  <2>6. CASE t = "L"
    <3>1. pax' = [pax EXCEPT !.long = archive[position].name]
      BY <1>4, <2>6
    <3> QED BY <1>6, <2>1, <2>2, <2>6, <3>1
  <2> QED BY <1>4, <2>3, <2>4, <2>5, <2>6
<1>8. ScanIs'
  BY <1>2, <1>3, <1>4, <1>5, <1>7, Advances
<1>9. failure' = FALSE
  BY <1>2, <1>3 DEF RangeInv
<1>10. Becomes(c, op[c], sent[c], None) /\ (op[c].kind = "list" => sent[c] = PageOf(entries', op[c]))
  BY <1>2, <1>3
<1> QED BY <1>2, <1>3, <1>8, <1>9, <1>10, ReadsOn

LEMMA EntryStep ==
    ASSUME RangeInv, NEW c \in Readers, Entry(c)
    PROVE  RangeInv'
<1>1. Reading(c)
  BY DEF Entry, Reading
<1>2. Inside(c) /\ ~failure /\ ScanIs /\ answer[c] = None
  BY <1>1, ReadingIs
<1>3. /\ archive' = archive /\ position' = position + 1 /\ exhausted' = exhausted /\ failure' = failure
      /\ op' = op /\ answer' = answer /\ UNCHANGED serialVars
      /\ rpc' = [rpc EXCEPT ![c] = "loop"]
      /\ IsEntry /\ Emits(c, entries')
      /\ pax' = [NoNames EXCEPT !.global = pax.global]
      /\ entries' = IF EntryName \in Hidden THEN entries
                    ELSE Append(entries, [name |-> EntryName, at |-> position])
  BY DEF Entry, Loops
<1>4. /\ position \in Nat \ {0} /\ position <= Len(archive) /\ position \in DOMAIN archive
      /\ archive[position].type \notin {"x", "g", "L", "K"}
      /\ archive[position].name # None
  <2>1. position \in 1 .. Len(archive) + 1 /\ Len(archive) \in Nat /\ DOMAIN archive = 1 .. Len(archive)
    BY <1>2, ArchiveIs DEF ScanIs
  <2>2. position \in DOMAIN archive
    BY <1>3, <2>1 DEF IsEntry
  <2> QED BY <1>3, <2>1, <2>2, ArchiveIs DEF IsEntry
<1>5. IsFile(archive, position)
  BY <1>4 DEF IsFile
<1>6. pax = [global |-> NameFrom(archive, "g", position),
             local |-> NameFrom(archive, "x", position),
             long |-> NameFrom(archive, "L", position)]
  BY <1>2 DEF ScanIs
<1>7. EntryName = TrueName(archive, position)
  <2>1. EntryName = IF pax.local # None THEN pax.local ELSE IF pax.global # None THEN pax.global
                    ELSE IF pax.long # None THEN pax.long ELSE archive[position].name
    BY DEF EntryName
  <2> QED BY <1>4, <1>6, <2>1, TrueNameIs
<1>8. position \in Shown(archive) <=> EntryName \notin Hidden
  BY <1>4, <1>5, <1>7 DEF Shown
<1>9. entries' = IF position \in Shown(archive) THEN Append(entries, Row(archive, position)) ELSE entries
  BY <1>3, <1>7, <1>8 DEF Row
<1>10. pax' = [global |-> NameFrom(archive, "g", position + 1),
               local |-> NameFrom(archive, "x", position + 1),
               long |-> NameFrom(archive, "L", position + 1)]
  <2>1. NameFrom(archive, "g", position + 1) = NameFrom(archive, "g", position)
    BY <1>4, NameStays
  <2>2. NameFrom(archive, "x", position + 1) = None /\ NameFrom(archive, "L", position + 1) = None
    BY <1>4, <1>5, NameEnds
  <2> QED BY <1>3, <1>6, <2>1, <2>2 DEF NoNames
<1>11. ScanIs'
  BY <1>2, <1>3, <1>4, <1>9, <1>10, Advances
<1>12. failure' = FALSE
  BY <1>2, <1>3 DEF RangeInv
<1> DEFINE told == IF op[c].kind = "list" THEN PageOf(entries', op[c]) ELSE sent[c]
<1>13. Becomes(c, op[c], told, None) /\ (op[c].kind = "list" => told = PageOf(entries', op[c]))
  BY <1>2, <1>3, Unchanging DEF RangeInv, Emits, Becomes
<1> HIDE DEF told
<1> QED BY <1>2, <1>3, <1>11, <1>12, <1>13, ReadsOn

LEMMA InsertFailsStep ==
    ASSUME RangeInv, NEW c \in Readers, InsertFails(c)
    PROVE  RangeInv'
<1>1. /\ Reading(c) /\ failure' = TRUE /\ Out(c)
      /\ archive' = archive /\ op' = op /\ sent' = sent /\ answer' = answer
  BY DEF InsertFails, Reading
<1>2. Inside(c) /\ answer[c] = None
  BY <1>1, ReadingIs
<1>3. Becomes(c, op[c], sent[c], None)
  BY <1>1, ReadingIs
<1> QED BY <1>1, <1>2, <1>3, GoesOutStep

-----------------------------------------------------------------------------
(* One tar index: what is answered.                                          *)

LEMMA RangeStarts == RangeInit => RangeInv
<1> SUFFICES ASSUME RangeInit PROVE RangeInv
  OBVIOUS
<1>1. /\ archive \in Archives /\ position = 1 /\ exhausted = FALSE /\ pax = NoNames
      /\ entries = <<>> /\ failure = FALSE
      /\ rpc = [c \in Readers |-> "out"] /\ op = [c \in Readers |-> None]
      /\ sent = [c \in Readers |-> <<>>] /\ answer = [c \in Readers |-> None]
      /\ running = 0 /\ line = <<>>
  BY DEF RangeInit, Serial!SemaphoreInit
<1>2. archive \in Seq({archive[i] : i \in DOMAIN archive})
  BY <1>1, RangeAssumption
<1>3. Before(archive, 1) = {} /\ Cardinality(Before(archive, 1)) = 0
  <2>1. Shown(archive) \subseteq Nat \ {0}
    BY <1>2 DEF Shown
  <2>2. Before(archive, 1) = {}
    BY <2>1 DEF Before
  <2> QED BY <2>2, FS_EmptySet
<1>4. ScanIs
  <2>1. position \in 1 .. Len(archive) + 1 /\ ~exhausted
    BY <1>1, <1>2
  <2>2. \A type : NameFrom(archive, type, position) = None
    BY <1>1, NoNameAtFirst
  <2>3. entries = [k \in 1 .. Cardinality(Before(archive, position)) |-> Contents(archive)[k]]
    BY <1>1, <1>3
  <2> QED BY <1>1, <2>1, <2>2, <2>3 DEF ScanIs, NoNames
<1>5. SlotInv
  BY <1>1 DEF SlotInv, Inside, Reading
<1>6. ReadersInv
  BY <1>1 DEF ReadersInv, Reading
<1> QED BY <1>1, <1>4, <1>5, <1>6 DEF RangeInv

LEMMA RangeSteps == RangeInv /\ [RangeNext]_rangeVars => RangeInv'
<1> SUFFICES ASSUME RangeInv, [RangeNext]_rangeVars PROVE RangeInv'
  OBVIOUS
<1>1. ASSUME NEW c \in Readers, NEW o \in Operations, FindAtOnce(c, o) PROVE RangeInv'
  BY <1>1, FindAtOnceStep
<1>2. ASSUME NEW c \in Readers, NEW o \in Operations, AskIndex(c, o) PROVE RangeInv'
  BY <1>2, AskIndexStep
<1>3. ASSUME NEW c \in Readers, LeavesIndexQueue(c) PROVE RangeInv'
  BY <1>3, LeavesIndexQueueStep
<1>4. ASSUME NEW c \in Readers, Reads(c) PROVE RangeInv'
  BY <1>4, BeginsStep, ReturnsResultStep, LooksStep, ThrowsStep, PassesStep, EntryStep, InsertFailsStep DEF Reads
<1>5. CASE UNCHANGED rangeVars
  <2>1. /\ UNCHANGED <<archive, scanVars, serialVars>> /\ rpc' = rpc /\ op' = op /\ sent' = sent /\ answer' = answer
    BY <1>5 DEF rangeVars, readerVars
  <2>2. archive' = archive /\ position' = position /\ entries' = entries /\ failure' = failure
    BY <2>1 DEF scanVars
  <2>3. SlotInv'
    BY <2>1 DEF RangeInv, SlotInv, serialVars, Inside, Reading
  <2>4. ReadersInv'
    BY <2>1, <2>2 DEF RangeInv, ReadersInv, Reading
  <2> QED BY <2>1, <2>3, <2>4, StaysAsScanned DEF RangeInv
<1> QED BY <1>1, <1>2, <1>3, <1>4, <1>5 DEF RangeNext

\* For any archive, readers and operations: what is answered is what the whole archive
\* says, wherever scans stopped, failed or went on behind a name that waits for its entry
\* (tar-range.ts:47-153, tar-index-store.ts:52-90).
THEOREM AnswersHold == RangeSpec => []AnswersAreRight
<1>1. RangeInv => AnswersAreRight
  BY DEF RangeInv, ReadersInv, AnswersAreRight, Right
<1> QED BY RangeStarts, RangeSteps, <1>1, PTL DEF RangeSpec
===============================================================================
