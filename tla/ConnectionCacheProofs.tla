------------------------ MODULE ConnectionCacheProofs ------------------------
(***************************************************************************)
(* Theorems about what a process remembers of a connection and about what a *)
(* request passes before it works on one, and about the forms that change   *)
(* one: ConnectionCache, Admission and ConnectionEditing, for any number of *)
(* processes, requests, loads, versions, calls, administrators and          *)
(* connections.                                                             *)
(***************************************************************************)
EXTENDS ConnectionCache, Admission, ConnectionEditing, FiniteSetTheorems, TLAPS

\* A write is answered after it was committed.
AnswersFollowCommits ==
    /\ acked <= row.ver
    /\ \A v \in writing : v <= row.ver

\* What is cached is no older than what was answered.
CacheIsCurrent ==
    \A p \in Procs : cache[p] # NoConnEntry => Floor(p) <= cache[p].ver

\* Nor is what the load in the map has read: the loads that began before the
\* last invalidate are not in the map.
LoadingIsCurrent ==
    \A p \in Procs : loading[p] # NoLoad =>
        /\ lproc[loading[p]] = p
        /\ lpc[loading[p]] # "settled"
        /\ lrow[loading[p]] # NoConnEntry => Floor(p) <= lrow[loading[p]].ver
        /\ lentry[loading[p]] # NoConnEntry => Floor(p) <= lentry[loading[p]].ver

\* Nor is what a waiting request will get.
WaitersAreServed ==
    \A r \in Requests : rload[r] # NoLoad =>
        /\ rfloor[r] <= row.ver
        /\ lrow[rload[r]] # NoConnEntry => rfloor[r] <= lrow[rload[r]].ver
        /\ lentry[rload[r]] # NoConnEntry => rfloor[r] <= lentry[rload[r]].ver

\* The entry a load compares its row with is the one in the cache.
PreviousIsCached ==
    \A p \in Procs : /\ loading[p] # NoLoad
                     /\ lpc[loading[p]] \in {"query", "answer"}
                     => lprev[loading[p]] = cache[p]

\* Clients fit their rows, also in the loads.
LoadsMatchRow ==
    \A l \in ConnLoads :
        /\ lprev[l] # NoConnEntry => lprev[l].client.endpoint = lprev[l].endpoint
        /\ lentry[l] # NoConnEntry => lentry[l].client.endpoint = lentry[l].endpoint

Served == /\ AnswersFollowCommits
          /\ CacheIsCurrent
          /\ LoadingIsCurrent
          /\ WaitersAreServed
          /\ AnsweredWriteIsSeen

Built == LoadsMatchRow /\ ClientMatchesRow

CacheInv == ConnTypeOK /\ Served /\ Built /\ PreviousIsCached

LEMMA InitCacheInv == ConnInit => CacheInv
<1> SUFFICES ASSUME ConnInit PROVE CacheInv
    OBVIOUS
<1>1. row \in Rows /\ row.ver = 0
    BY DEF ConnInit
<1>2. ConnTypeOK
    BY <1>1, ConnectionCacheAssumption DEF ConnInit, ConnTypeOK, FactoryOK, LoadsOK, RequestsOK
<1>3. Served
    BY <1>1 DEF ConnInit, Served, AnswersFollowCommits, CacheIsCurrent, LoadingIsCurrent,
                WaitersAreServed, AnsweredWriteIsSeen
<1>4. Built /\ PreviousIsCached
    BY DEF ConnInit, Built, LoadsMatchRow, ClientMatchesRow, PreviousIsCached
<1> QED
    BY <1>2, <1>3, <1>4 DEF CacheInv

-----------------------------------------------------------------------------
(* The client a load hands out is a client, built from the row it read.     *)

LEMMA ClientForRow ==
    ASSUME LoadsOK, LoadsMatchRow, NEW l \in ConnLoads, lrow[l] \in Rows,
           NEW c \in ClientFor(l)
    PROVE  c \in Clients /\ c.endpoint = lrow[l].endpoint
<1>1. CASE lprev[l] # NoConnEntry /\ lprev[l].endpoint = lrow[l].endpoint
    <2>1. c = lprev[l].client /\ lprev[l] \in Entries
        BY <1>1 DEF ClientFor, LoadsOK
    <2> QED
        BY <1>1, <2>1 DEF LoadsMatchRow, Entries
<1>2. CASE ~(lprev[l] # NoConnEntry /\ lprev[l].endpoint = lrow[l].endpoint)
    <2>1. c \in NewClient(l)
        BY <1>2 DEF ClientFor
    <2> QED
        BY <2>1 DEF NewClient, Clients, Rows
<1> QED
    BY <1>1, <1>2

LEMMA EntryOfRow ==
    ASSUME NEW r \in Rows, NEW c \in Clients
    PROVE  /\ Entry(r, c) \in Entries
           /\ Entry(r, c).ver = r.ver
           /\ Entry(r, c).endpoint = r.endpoint
           /\ Entry(r, c).client = c
BY DEF Entry, Entries, Rows

-----------------------------------------------------------------------------
LEMMA ReceiveType ==
    ASSUME RequestsOK, NEW r \in Requests, NEW entry \in Entries, NEW at,
           Receive(r, entry, at), rfloor' \in [Requests -> 0 .. MaxVersion]
    PROVE  RequestsOK'
BY DEF RequestsOK, Receive

LEMMA WaitType ==
    ASSUME RequestsOK, NEW r \in Requests, NEW l \in ConnLoads,
           NEW at \in {"guarding", "opening"},
           Wait(r, l, at), rfloor' \in [Requests -> 0 .. MaxVersion]
    PROVE  RequestsOK'
BY DEF RequestsOK, Wait

LEMMA LoadType ==
    ASSUME ConnTypeOK, NEW r \in Requests, NEW at \in {"guarding", "opening"}, Load(r, at)
    PROVE  ConnTypeOK'
<1> DEFINE p == ProcOf[r]
<1>0. FactoryOK /\ LoadsOK /\ RequestsOK /\ p \in Procs
    BY ConnectionCacheAssumption DEF ConnTypeOK
<1>1. rfloor' \in [Requests -> 0 .. MaxVersion]
    BY <1>0, ConnectionCacheAssumption DEF Load, Floor, RequestsOK, FactoryOK
<1>2. CASE Usable(p) /\ Receive(r, cache[p], at) /\ UNCHANGED <<loading, loadVars>>
    <2>1. cache[p] \in Entries
        BY <1>0, <1>2 DEF Usable, FactoryOK
    <2>2. RequestsOK'
        BY <1>0, <1>1, <1>2, <2>1, ReceiveType
    <2> QED
        BY <1>0, <1>2, <2>2 DEF ConnTypeOK, Load, FactoryOK, LoadsOK, rowVars, loadVars
<1>3. CASE loading[p] # NoLoad /\ Wait(r, loading[p], at) /\ UNCHANGED <<loading, loadVars>>
    <2>1. loading[p] \in ConnLoads
        BY <1>0, <1>3 DEF FactoryOK
    <2>2. RequestsOK'
        BY <1>0, <1>1, <1>3, <2>1, WaitType
    <2> QED
        BY <1>0, <1>3, <2>2 DEF ConnTypeOK, Load, FactoryOK, LoadsOK, rowVars, loadVars
<1>4. ASSUME NEW l \in ConnLoads, StartLoad(r, l, at) PROVE ConnTypeOK'
    <2>1. RequestsOK'
        BY <1>0, <1>1, <1>4, WaitType DEF StartLoad
    <2>2. LoadsOK' /\ loading' \in [Procs -> ConnLoads \cup {NoLoad}]
        BY <1>0, <1>4 DEF StartLoad, LoadsOK, FactoryOK
    <2> QED
        BY <1>0, <2>1, <2>2 DEF ConnTypeOK, Load, FactoryOK, rowVars
<1> QED
    BY <1>2, <1>3, <1>4 DEF Load

LEMMA AnswerType ==
    ASSUME ConnTypeOK, LoadsMatchRow, NEW l \in ConnLoads, Answer(l)
    PROVE  ConnTypeOK'
<1>0. FactoryOK /\ LoadsOK /\ RequestsOK
    BY DEF ConnTypeOK
<1>1. PICK c \in ClientFor(l) :
          /\ lentry' = [lentry EXCEPT ![l] = Entry(lrow[l], c)]
          /\ \/ /\ cache' = [cache EXCEPT ![lproc[l]] = Entry(lrow[l], c)]
                /\ fresh' = [fresh EXCEPT ![lproc[l]] = TRUE]
             \/ UNCHANGED <<cache, fresh>>
    BY DEF Answer
<1>2. lrow[l] \in Rows
    BY <1>0 DEF Answer, LoadsOK
<1>3. Entry(lrow[l], c) \in Entries
    BY <1>0, <1>2, ClientForRow, EntryOfRow
<1>4. FactoryOK'
    <2>1. UNCHANGED <<row, writing, acked, loading>>
        BY DEF Answer, rowVars
    <2>2. cache' \in [Procs -> Entries \cup {NoConnEntry}] /\ fresh' \in [Procs -> BOOLEAN]
        BY <1>0, <1>1, <1>3 DEF FactoryOK
    <2> QED
        BY <1>0, <2>1, <2>2 DEF FactoryOK
<1>5. LoadsOK'
    BY <1>0, <1>1, <1>3 DEF Answer, LoadsOK
<1>6. RequestsOK'
    BY <1>0 DEF Answer, RequestsOK, reqVars
<1> QED
    BY <1>4, <1>5, <1>6 DEF ConnTypeOK

LEMMA StepTypeOK == CacheInv /\ [ConnNext]_connVars => ConnTypeOK'
<1> SUFFICES ASSUME CacheInv, [ConnNext]_connVars PROVE ConnTypeOK'
    OBVIOUS
<1>0. ConnTypeOK /\ FactoryOK /\ LoadsOK /\ RequestsOK /\ LoadsMatchRow
    BY DEF CacheInv, Built, ConnTypeOK
<1> USE DEF ConnTypeOK
<1>1. ASSUME NEW next \in Rows, Write(next) PROVE ConnTypeOK'
    <2>1. next.ver \in 1 .. MaxVersion
        BY <1>0, <1>1, ConnectionCacheAssumption DEF Write, Rows, FactoryOK
    <2> QED
        BY <1>0, <1>1, <2>1 DEF Write, FactoryOK, LoadsOK, RequestsOK, entryVars, loadVars, reqVars
<1>2. ASSUME NEW v \in 1 .. MaxVersion, Invalidate(v) PROVE ConnTypeOK'
    BY <1>0, <1>2, ConnectionCacheAssumption
       DEF Invalidate, FactoryOK, LoadsOK, RequestsOK, loadVars, reqVars
<1>3. ASSUME NEW r \in Requests, Guard(r) PROVE ConnTypeOK'
    BY <1>0, <1>3, LoadType DEF Guard
<1>4. ASSUME NEW r \in Requests, OpenStorage(r) PROVE ConnTypeOK'
    BY <1>0, <1>4, LoadType DEF OpenStorage
<1>5. ASSUME NEW r \in Requests, Resume(r) PROVE ConnTypeOK'
    <2>1. LoadsOK' /\ FactoryOK'
        BY <1>0, <1>5 DEF Resume, LoadsOK, FactoryOK, rowVars, entryVars
    <2>2. CASE lentry[rload[r]] # NoConnEntry /\ Receive(r, lentry[rload[r]], rpc[r])
        <3>1. lentry[rload[r]] \in Entries
            BY <1>0, <1>5, <2>2 DEF Resume, LoadsOK, RequestsOK
        <3> QED
            BY <1>0, <1>5, <2>1, <2>2, <3>1, ReceiveType DEF Resume, RequestsOK
    <2>3. CASE lentry[rload[r]] = NoConnEntry
        BY <1>0, <1>5, <2>1, <2>3 DEF Resume, RequestsOK
    <2> QED
        BY <1>5, <2>2, <2>3 DEF Resume
<1>6. ASSUME NEW r \in Requests, Done(r) PROVE ConnTypeOK'
    BY <1>0, <1>6 DEF Done, FactoryOK, LoadsOK, RequestsOK, rowVars, entryVars, loadVars
<1>7. ASSUME NEW l \in ConnLoads, Query(l) PROVE ConnTypeOK'
    BY <1>0, <1>7 DEF Query, FactoryOK, LoadsOK, RequestsOK, rowVars, entryVars, reqVars
<1>8. ASSUME NEW l \in ConnLoads, Answer(l) PROVE ConnTypeOK'
    BY <1>0, <1>8, AnswerType
<1>9. ASSUME NEW l \in ConnLoads, AnswerFails(l) PROVE ConnTypeOK'
    BY <1>0, <1>9 DEF AnswerFails, FactoryOK, LoadsOK, RequestsOK, rowVars, entryVars, reqVars
<1>10. ASSUME NEW l \in ConnLoads, Finally(l) PROVE ConnTypeOK'
    BY <1>0, <1>10 DEF Finally, FactoryOK, LoadsOK, RequestsOK, rowVars, reqVars
<1>11. ASSUME NEW p \in Procs, Expire(p) PROVE ConnTypeOK'
    BY <1>0, <1>11 DEF Expire, FactoryOK, LoadsOK, RequestsOK, rowVars, loadVars, reqVars
<1>12. ASSUME NEW p \in Procs, Restart(p) PROVE ConnTypeOK'
    BY <1>0, <1>12 DEF Restart, FactoryOK, LoadsOK, RequestsOK
<1>13. CASE UNCHANGED connVars
    BY <1>0, <1>13 DEF connVars, rowVars, entryVars, loadVars, reqVars, FactoryOK, LoadsOK, RequestsOK
<1> QED
    BY <1>1, <1>2, <1>3, <1>4, <1>5, <1>6, <1>7, <1>8, <1>9, <1>10, <1>11, <1>12, <1>13
       DEF ConnNext, LoadStep

-----------------------------------------------------------------------------
(* What was answered is never lost again.                                   *)

LEMMA FloorIsCommitted ==
    ASSUME FactoryOK, AnswersFollowCommits, NEW p \in Procs
    PROVE  Floor(p) <= row.ver /\ Floor(p) \in 0 .. MaxVersion
BY ConnectionCacheAssumption DEF FactoryOK, AnswersFollowCommits, Floor, Rows

LEMMA LoadServed ==
    ASSUME ConnTypeOK, Served, NEW r \in Requests, NEW at, Load(r, at)
    PROVE  Served'
<1> DEFINE p == ProcOf[r]
<1>0. /\ FactoryOK /\ LoadsOK /\ RequestsOK /\ p \in Procs
      /\ AnswersFollowCommits /\ CacheIsCurrent /\ LoadingIsCurrent
      /\ WaitersAreServed /\ AnsweredWriteIsSeen
    BY ConnectionCacheAssumption DEF ConnTypeOK, Served
<1>1. /\ rfloor' = [rfloor EXCEPT ![r] = Floor(p)]
      /\ UNCHANGED <<row, writing, acked, cache, fresh>>
    BY DEF Load, rowVars
<1>2. AnswersFollowCommits' /\ CacheIsCurrent'
    BY <1>0, <1>1 DEF AnswersFollowCommits, CacheIsCurrent, Floor
<1>3. Floor(p) <= row.ver
    BY <1>0, FloorIsCommitted
<1>4. CASE Usable(p) /\ Receive(r, cache[p], at) /\ UNCHANGED <<loading, loadVars>>
    <2>1. cache[p] # NoConnEntry /\ Floor(p) <= cache[p].ver
        BY <1>0, <1>4 DEF Usable, CacheIsCurrent
    <2>2. rload' = [rload EXCEPT ![r] = NoLoad]
        BY <1>4 DEF Receive
    <2>3. rgot'[r] \in {cache[p], NoConnEntry} /\ \A q \in Requests \ {r} : rgot'[q] = rgot[q]
        BY <1>0, <1>4 DEF Receive, RequestsOK
    <2>4. AnsweredWriteIsSeen'
        BY <1>0, <1>1, <2>1, <2>3 DEF AnsweredWriteIsSeen, RequestsOK
    <2>5. WaitersAreServed'
        BY <1>0, <1>1, <1>4, <2>2 DEF WaitersAreServed, RequestsOK, loadVars
    <2>6. LoadingIsCurrent'
        BY <1>0, <1>1, <1>4 DEF LoadingIsCurrent, Floor, loadVars
    <2> QED
        BY <1>2, <2>4, <2>5, <2>6 DEF Served
<1>5. CASE loading[p] # NoLoad /\ Wait(r, loading[p], at) /\ UNCHANGED <<loading, loadVars>>
    <2>1. rload' = [rload EXCEPT ![r] = loading[p]] /\ rgot' = [rgot EXCEPT ![r] = NoConnEntry]
        BY <1>5 DEF Wait
    <2>2. AnsweredWriteIsSeen'
        BY <1>0, <1>1, <2>1 DEF AnsweredWriteIsSeen, RequestsOK
    <2>3. WaitersAreServed'
        BY <1>0, <1>1, <1>3, <1>5, <2>1
           DEF WaitersAreServed, LoadingIsCurrent, RequestsOK, loadVars
    <2>4. LoadingIsCurrent'
        BY <1>0, <1>1, <1>5 DEF LoadingIsCurrent, Floor, loadVars
    <2> QED
        BY <1>2, <2>2, <2>3, <2>4 DEF Served
<1>6. ASSUME NEW l \in ConnLoads, StartLoad(r, l, at) PROVE Served'
    <2>1. /\ rload' = [rload EXCEPT ![r] = l] /\ rgot' = [rgot EXCEPT ![r] = NoConnEntry]
          /\ loading' = [loading EXCEPT ![p] = l]
          /\ lpc' = [lpc EXCEPT ![l] = "query"] /\ lproc' = [lproc EXCEPT ![l] = p]
          /\ lrow' = [lrow EXCEPT ![l] = NoConnEntry] /\ lentry' = [lentry EXCEPT ![l] = NoConnEntry]
          /\ lpc[l] = "settled" /\ \A q \in Requests : rload[q] # l
        BY <1>6 DEF StartLoad, Wait, Unused
    <2>2. AnsweredWriteIsSeen'
        BY <1>0, <1>1, <2>1 DEF AnsweredWriteIsSeen, RequestsOK
    <2>3. WaitersAreServed'
        BY <1>0, <1>1, <1>3, <2>1 DEF WaitersAreServed, RequestsOK, LoadsOK
    <2>4. \A q \in Procs : loading[q] # l
        BY <1>0, <2>1, ConnectionCacheAssumption DEF LoadingIsCurrent
    <2>5. LoadingIsCurrent'
        BY <1>0, <1>1, <2>1, <2>4 DEF LoadingIsCurrent, Floor, FactoryOK, LoadsOK
    <2> QED
        BY <1>2, <2>2, <2>3, <2>5 DEF Served
<1> QED
    BY <1>4, <1>5, <1>6 DEF Load

LEMMA StepServed == CacheInv /\ [ConnNext]_connVars => Served'
<1> SUFFICES ASSUME CacheInv, [ConnNext]_connVars PROVE Served'
    OBVIOUS
<1>0. /\ ConnTypeOK /\ FactoryOK /\ LoadsOK /\ RequestsOK /\ LoadsMatchRow /\ Served
      /\ AnswersFollowCommits /\ CacheIsCurrent /\ LoadingIsCurrent
      /\ WaitersAreServed /\ AnsweredWriteIsSeen
    BY DEF CacheInv, ConnTypeOK, Built, Served
<1>1. ASSUME NEW next \in Rows, Write(next) PROVE Served'
    <2>1. row \in Rows /\ next.ver = row.ver + 1 /\ row' = next
        BY <1>0, <1>1 DEF Write, FactoryOK
    <2>2. row.ver \in Nat /\ row'.ver = row.ver + 1
        BY <2>1, ConnectionCacheAssumption DEF Rows
    <2>3. AnswersFollowCommits'
        <3>1. acked' = acked /\ \A v \in writing' : v \in writing \/ v = row'.ver
            BY <1>1, <2>1 DEF Write
        <3>2. acked \in Nat /\ \A v \in writing : v \in Nat
            BY <1>0, ConnectionCacheAssumption DEF FactoryOK
        <3> QED
            BY <1>0, <2>2, <3>1, <3>2 DEF AnswersFollowCommits
    <2>4. WaitersAreServed'
        BY <1>0, <1>1, <2>2, ConnectionCacheAssumption
           DEF Write, WaitersAreServed, RequestsOK, loadVars, reqVars
    <2>5. CacheIsCurrent' /\ LoadingIsCurrent' /\ AnsweredWriteIsSeen'
        BY <1>0, <1>1 DEF Write, CacheIsCurrent, LoadingIsCurrent, AnsweredWriteIsSeen,
                          Floor, entryVars, loadVars, reqVars
    <2> QED
        BY <2>3, <2>4, <2>5 DEF Served
<1>2. ASSUME NEW v \in 1 .. MaxVersion, Invalidate(v) PROVE Served'
    <2>1. AnswersFollowCommits'
        BY <1>0, <1>2 DEF Invalidate, AnswersFollowCommits
    <2>2. CacheIsCurrent' /\ LoadingIsCurrent'
        BY <1>0, <1>2 DEF Invalidate, CacheIsCurrent, LoadingIsCurrent, Floor, FactoryOK, loadVars
    <2>3. WaitersAreServed' /\ AnsweredWriteIsSeen'
        BY <1>0, <1>2 DEF Invalidate, WaitersAreServed, AnsweredWriteIsSeen, loadVars, reqVars
    <2> QED
        BY <2>1, <2>2, <2>3 DEF Served
<1>3. ASSUME NEW r \in Requests, Guard(r) \/ OpenStorage(r) PROVE Served'
    BY <1>0, <1>3, LoadServed DEF Guard, OpenStorage
<1>4. ASSUME NEW r \in Requests, Resume(r) PROVE Served'
    <2>1. /\ UNCHANGED <<row, writing, acked, cache, loading, lpc, lproc, lrow, rfloor>>
          /\ rload' = [rload EXCEPT ![r] = NoLoad] /\ rload[r] # NoLoad
          /\ lentry' = [l \in ConnLoads |->
                IF l = rload[r] /\ \A q \in Requests : rload'[q] # l THEN NoConnEntry ELSE lentry[l]]
        BY <1>4 DEF Resume, Receive, rowVars, entryVars
    <2>2. \/ rgot'[r] = NoConnEntry
          \/ rgot'[r] = lentry[rload[r]] /\ lentry[rload[r]] # NoConnEntry
        BY <1>0, <1>4 DEF Resume, Receive, RequestsOK
    <2>3. \A q \in Requests \ {r} : rgot'[q] = rgot[q]
        BY <1>0, <1>4 DEF Resume, Receive, RequestsOK
    <2>4. AnsweredWriteIsSeen'
        BY <1>0, <2>1, <2>2, <2>3 DEF AnsweredWriteIsSeen, WaitersAreServed
    <2>5. WaitersAreServed'
        BY <1>0, <2>1 DEF WaitersAreServed, RequestsOK
    <2>6. AnswersFollowCommits' /\ CacheIsCurrent' /\ LoadingIsCurrent'
        BY <1>0, <2>1 DEF AnswersFollowCommits, CacheIsCurrent, LoadingIsCurrent, Floor, FactoryOK
    <2> QED
        BY <2>4, <2>5, <2>6 DEF Served
<1>5. ASSUME NEW r \in Requests, Done(r) PROVE Served'
    BY <1>0, <1>5 DEF Done, Served, AnswersFollowCommits, CacheIsCurrent, LoadingIsCurrent,
       WaitersAreServed, AnsweredWriteIsSeen, Floor, rowVars, entryVars, loadVars, RequestsOK
<1>6. ASSUME NEW l \in ConnLoads, Query(l) PROVE Served'
    <2>1. UNCHANGED <<row, writing, acked, cache, loading, lproc, lentry, rload, rfloor, rgot>>
        BY <1>6 DEF Query, rowVars, entryVars, reqVars
    <2>2. lpc' = [lpc EXCEPT ![l] = "answer"]
        BY <1>6 DEF Query
    <2>3. lrow' = [lrow EXCEPT ![l] = row] \/ lrow' = lrow
        BY <1>6 DEF Query
    <2>4. \A p \in Procs : Floor(p) <= row.ver
        BY <1>0, FloorIsCommitted
    <2>5. LoadingIsCurrent'
        BY <1>0, <2>1, <2>2, <2>3, <2>4 DEF LoadingIsCurrent, Floor, LoadsOK, FactoryOK
    <2>6. WaitersAreServed'
        BY <1>0, <2>1, <2>3 DEF WaitersAreServed, LoadsOK, RequestsOK
    <2>7. AnswersFollowCommits' /\ CacheIsCurrent' /\ AnsweredWriteIsSeen'
        BY <1>0, <2>1 DEF AnswersFollowCommits, CacheIsCurrent, AnsweredWriteIsSeen, Floor
    <2> QED
        BY <2>5, <2>6, <2>7 DEF Served
<1>7. ASSUME NEW l \in ConnLoads, Answer(l) PROVE Served'
    <2>1. PICK c \in ClientFor(l) :
              /\ lentry' = [lentry EXCEPT ![l] = Entry(lrow[l], c)]
              /\ \/ /\ loading[lproc[l]] = l
                    /\ cache' = [cache EXCEPT ![lproc[l]] = Entry(lrow[l], c)]
                 \/ UNCHANGED cache
        BY <1>7 DEF Answer
    <2>2. /\ UNCHANGED <<row, writing, acked, loading, lproc, lrow, rload, rfloor, rgot>>
          /\ lpc' = [lpc EXCEPT ![l] = "settling"]
          /\ lrow[l] # NoConnEntry
        BY <1>7 DEF Answer, rowVars, reqVars
    <2>3. Entry(lrow[l], c).ver = lrow[l].ver
        BY DEF Entry
    <2>4. CacheIsCurrent'
        BY <1>0, <2>1, <2>2, <2>3, ConnectionCacheAssumption
           DEF CacheIsCurrent, LoadingIsCurrent, Floor, FactoryOK, LoadsOK
    <2>5. LoadingIsCurrent'
        BY <1>0, <2>1, <2>2, <2>3 DEF LoadingIsCurrent, Floor, FactoryOK, LoadsOK
    <2>6. WaitersAreServed'
        BY <1>0, <2>1, <2>2, <2>3 DEF WaitersAreServed, LoadsOK, RequestsOK
    <2>7. AnswersFollowCommits' /\ AnsweredWriteIsSeen'
        BY <1>0, <2>2 DEF AnswersFollowCommits, AnsweredWriteIsSeen
    <2> QED
        BY <2>4, <2>5, <2>6, <2>7 DEF Served
<1>8. ASSUME NEW l \in ConnLoads, AnswerFails(l) PROVE Served'
    BY <1>0, <1>8 DEF AnswerFails, Served, AnswersFollowCommits, CacheIsCurrent,
       LoadingIsCurrent, WaitersAreServed, AnsweredWriteIsSeen, Floor, rowVars, entryVars,
       reqVars, LoadsOK, FactoryOK
<1>9. ASSUME NEW l \in ConnLoads, Finally(l) PROVE Served'
    BY <1>0, <1>9, ConnectionCacheAssumption
       DEF Finally, Served, AnswersFollowCommits, CacheIsCurrent, LoadingIsCurrent,
           WaitersAreServed, AnsweredWriteIsSeen, Floor, rowVars, reqVars, LoadsOK, FactoryOK,
           RequestsOK
<1>10. ASSUME NEW p \in Procs, Expire(p) PROVE Served'
    BY <1>0, <1>10 DEF Expire, Served, AnswersFollowCommits, CacheIsCurrent,
       LoadingIsCurrent, WaitersAreServed, AnsweredWriteIsSeen, Floor, rowVars, loadVars, reqVars
<1>11. ASSUME NEW p \in Procs, Restart(p) PROVE Served'
    <2>1. AnswersFollowCommits'
        BY <1>0, <1>11 DEF Restart, AnswersFollowCommits
    <2>2. CacheIsCurrent'
        BY <1>0, <1>11 DEF Restart, CacheIsCurrent, Floor, FactoryOK
    <2>3. LoadingIsCurrent'
        BY <1>0, <1>11 DEF Restart, LoadingIsCurrent, Floor, FactoryOK, LoadsOK
    <2>4. WaitersAreServed'
        BY <1>0, <1>11 DEF Restart, WaitersAreServed, RequestsOK, LoadsOK
    <2>5. AnsweredWriteIsSeen'
        BY <1>0, <1>11 DEF Restart, AnsweredWriteIsSeen, RequestsOK
    <2> QED
        BY <2>1, <2>2, <2>3, <2>4, <2>5 DEF Served
<1>12. CASE UNCHANGED connVars
    BY <1>0, <1>12 DEF connVars, Served, AnswersFollowCommits, CacheIsCurrent, LoadingIsCurrent,
       WaitersAreServed, AnsweredWriteIsSeen, Floor, rowVars, entryVars, loadVars, reqVars
<1> QED
    BY <1>1, <1>2, <1>3, <1>4, <1>5, <1>6, <1>7, <1>8, <1>9, <1>10, <1>11, <1>12
       DEF ConnNext, LoadStep

-----------------------------------------------------------------------------
(* Clients and rows.                                                        *)

LEMMA StepPrevious == CacheInv /\ [ConnNext]_connVars => PreviousIsCached'
<1> SUFFICES ASSUME CacheInv, [ConnNext]_connVars PROVE PreviousIsCached'
    OBVIOUS
<1>0. /\ FactoryOK /\ LoadsOK /\ RequestsOK /\ LoadingIsCurrent /\ PreviousIsCached
    BY DEF CacheInv, ConnTypeOK, Served
<1> USE DEF PreviousIsCached
<1>1. ASSUME NEW next \in Rows, Write(next) PROVE PreviousIsCached'
    BY <1>0, <1>1 DEF Write, entryVars, loadVars
<1>2. ASSUME NEW v \in 1 .. MaxVersion, Invalidate(v) PROVE PreviousIsCached'
    BY <1>0, <1>2 DEF Invalidate, FactoryOK, loadVars
<1>3. ASSUME NEW r \in Requests, NEW at, Load(r, at) PROVE PreviousIsCached'
    <2>1. CASE UNCHANGED <<loading, loadVars>>
        BY <1>0, <1>3, <2>1 DEF Load, loadVars
    <2>2. ASSUME NEW l \in ConnLoads, StartLoad(r, l, at) PROVE PreviousIsCached'
        <3>1. \A q \in Procs : loading[q] # l
            BY <1>0, <2>2, ConnectionCacheAssumption DEF LoadingIsCurrent, StartLoad, Unused
        <3>2. /\ cache' = cache
              /\ loading' = [loading EXCEPT ![ProcOf[r]] = l]
              /\ lpc' = [lpc EXCEPT ![l] = "query"]
              /\ lprev' = [lprev EXCEPT ![l] = cache[ProcOf[r]]]
            BY <1>3, <2>2 DEF Load, StartLoad
        <3> QED
            BY <1>0, <3>1, <3>2 DEF FactoryOK, LoadsOK
    <2> QED
        BY <1>3, <2>1, <2>2 DEF Load
<1>4. ASSUME NEW r \in Requests, Resume(r) \/ Done(r) PROVE PreviousIsCached'
    BY <1>0, <1>4 DEF Resume, Done, entryVars, loadVars
<1>5. ASSUME NEW l \in ConnLoads, Query(l) PROVE PreviousIsCached'
    BY <1>0, <1>5 DEF Query, entryVars, FactoryOK, LoadsOK
<1>6. ASSUME NEW l \in ConnLoads, Answer(l) PROVE PreviousIsCached'
    <2>1. /\ UNCHANGED <<loading, lproc, lprev>> /\ lpc' = [lpc EXCEPT ![l] = "settling"]
          /\ \/ cache' = cache
             \/ /\ loading[lproc[l]] = l
                /\ \A q \in Procs \ {lproc[l]} : cache'[q] = cache[q]
        BY <1>0, <1>6 DEF Answer, FactoryOK
    <2> QED
        BY <1>0, <2>1 DEF LoadingIsCurrent, FactoryOK, LoadsOK
<1>7. ASSUME NEW l \in ConnLoads, AnswerFails(l) PROVE PreviousIsCached'
    BY <1>0, <1>7 DEF AnswerFails, entryVars, FactoryOK, LoadsOK
<1>8. ASSUME NEW l \in ConnLoads, Finally(l) PROVE PreviousIsCached'
    BY <1>0, <1>8, ConnectionCacheAssumption DEF Finally, FactoryOK, LoadsOK
<1>9. ASSUME NEW p \in Procs, Expire(p) PROVE PreviousIsCached'
    BY <1>0, <1>9 DEF Expire, loadVars
<1>10. ASSUME NEW p \in Procs, Restart(p) PROVE PreviousIsCached'
    BY <1>0, <1>10 DEF Restart, LoadingIsCurrent, FactoryOK, LoadsOK
<1>11. CASE UNCHANGED connVars
    BY <1>0, <1>11 DEF connVars, entryVars, loadVars
<1> QED
    BY <1>1, <1>2, <1>3, <1>4, <1>5, <1>6, <1>7, <1>8, <1>9, <1>10, <1>11
       DEF ConnNext, LoadStep, Guard, OpenStorage

LEMMA StepBuilt == CacheInv /\ [ConnNext]_connVars => Built'
<1> SUFFICES ASSUME CacheInv, [ConnNext]_connVars PROVE Built'
    OBVIOUS
<1>0. FactoryOK /\ LoadsOK /\ RequestsOK /\ LoadsMatchRow /\ ClientMatchesRow
    BY DEF CacheInv, ConnTypeOK, Built
<1> USE DEF Built, LoadsMatchRow, ClientMatchesRow
<1>1. ASSUME NEW next \in Rows, Write(next) PROVE Built'
    BY <1>0, <1>1 DEF Write, entryVars, loadVars, reqVars
<1>2. ASSUME NEW v \in 1 .. MaxVersion, Invalidate(v) PROVE Built'
    BY <1>0, <1>2 DEF Invalidate, FactoryOK, loadVars, reqVars
<1>3. ASSUME NEW r \in Requests, NEW at, Load(r, at) PROVE Built'
    <2>0. UNCHANGED cache /\ ProcOf[r] \in Procs
        BY <1>3, ConnectionCacheAssumption DEF Load
    <2>1. ASSUME Usable(ProcOf[r]), Receive(r, cache[ProcOf[r]], at), UNCHANGED loadVars
          PROVE  Built'
        BY <1>0, <2>0, <2>1 DEF Receive, loadVars, RequestsOK
    <2>2. ASSUME NEW l, Wait(r, l, at), UNCHANGED loadVars PROVE Built'
        BY <1>0, <2>0, <2>2 DEF Wait, loadVars, RequestsOK
    <2>3. ASSUME NEW l \in ConnLoads, StartLoad(r, l, at) PROVE Built'
        BY <1>0, <2>0, <2>3 DEF StartLoad, Wait, LoadsOK, RequestsOK
    <2> QED
        BY <1>3, <2>1, <2>2, <2>3 DEF Load
<1>4. ASSUME NEW r \in Requests, Resume(r) PROVE Built'
    BY <1>0, <1>4 DEF Resume, Receive, entryVars, LoadsOK, RequestsOK
<1>5. ASSUME NEW r \in Requests, Done(r) PROVE Built'
    BY <1>0, <1>5 DEF Done, entryVars, loadVars, RequestsOK
<1>6. ASSUME NEW l \in ConnLoads, Query(l) \/ AnswerFails(l) PROVE Built'
    BY <1>0, <1>6 DEF Query, AnswerFails, entryVars, reqVars
<1>7. ASSUME NEW l \in ConnLoads, Answer(l) PROVE Built'
    <2>1. PICK c \in ClientFor(l) :
              /\ lentry' = [lentry EXCEPT ![l] = Entry(lrow[l], c)]
              /\ \/ cache' = [cache EXCEPT ![lproc[l]] = Entry(lrow[l], c)]
                 \/ UNCHANGED cache
        BY <1>7 DEF Answer
    <2>2. lrow[l] \in Rows /\ UNCHANGED <<lprev, rgot>>
        BY <1>0, <1>7 DEF Answer, LoadsOK, reqVars
    <2>3. Entry(lrow[l], c).client.endpoint = Entry(lrow[l], c).endpoint
        BY <1>0, <2>2, ClientForRow, EntryOfRow
    <2> QED
        BY <1>0, <2>1, <2>2, <2>3 DEF FactoryOK, LoadsOK
<1>8. ASSUME NEW l \in ConnLoads, Finally(l) PROVE Built'
    BY <1>0, <1>8 DEF Finally, LoadsOK, reqVars
<1>9. ASSUME NEW p \in Procs, Expire(p) PROVE Built'
    BY <1>0, <1>9 DEF Expire, loadVars, reqVars
<1>10. ASSUME NEW p \in Procs, Restart(p) PROVE Built'
    BY <1>0, <1>10 DEF Restart, FactoryOK
<1>11. CASE UNCHANGED connVars
    BY <1>0, <1>11 DEF connVars, entryVars, loadVars, reqVars
<1> QED
    BY <1>1, <1>2, <1>3, <1>4, <1>5, <1>6, <1>7, <1>8, <1>9, <1>10, <1>11
       DEF ConnNext, LoadStep, Guard, OpenStorage

-----------------------------------------------------------------------------
LEMMA CacheInvariant == ConnSpec => []CacheInv
<1>1. CacheInv /\ [ConnNext]_connVars => CacheInv'
    BY StepTypeOK, StepServed, StepPrevious, StepBuilt DEF CacheInv
<1> QED
    BY InitCacheInv, <1>1, PTL DEF ConnSpec

\* Every reachable state of the factories, loads and requests has the declared
\* shape (api/storage.ts: the two maps and the promises between them).
THEOREM TypeCorrect == ConnSpec => []ConnTypeOK
<1>1. CacheInv => ConnTypeOK
    BY DEF CacheInv
<1> QED
    BY CacheInvariant, <1>1, PTL

\* A request never gets an older row than the last write that was answered
\* before it asked, for any number of requests, loads and concurrent PUTs (the
\* promise of storage.ts:182).
THEOREM AnsweredSeen == ConnSpec => []AnsweredWriteIsSeen
<1>1. CacheInv => AnsweredWriteIsSeen
    BY DEF CacheInv, Served
<1> QED
    BY CacheInvariant, <1>1, PTL

\* The client in an entry was built from the row of that entry (the comparison
\* in readEntry, storage.ts:223).
THEOREM ClientsMatch == ConnSpec => []ClientMatchesRow
<1>1. CacheInv => ClientMatchesRow
    BY DEF CacheInv, Built
<1> QED
    BY CacheInvariant, <1>1, PTL

\* Both: the settings and the client a request works with are of one row, no older than
\* the last write answered before it asked.
THEOREM ServedCurrent == ConnSpec => []ServedOnCurrentRow
<1>1. AnsweredWriteIsSeen /\ ClientMatchesRow => ServedOnCurrentRow
    BY DEF ServedOnCurrentRow
<1> QED
    BY <1>1, AnsweredSeen, ClientsMatch, PTL

\* No step of any actor replaces the client of an entry by another one for the
\* same endpoint and credentials (the comment at storage.ts:222).
THEOREM ReloadKeeps == ConnSpec => ReloadKeepsClient
<1> DEFINE Kept == \A p \in Procs :
         /\ cache[p] # NoConnEntry
         /\ cache'[p] # NoConnEntry
         /\ cache'[p].endpoint = cache[p].endpoint
         => cache'[p].client = cache[p].client
<1>1. CacheInv /\ [ConnNext]_connVars => [Kept]_connVars
    <2> SUFFICES ASSUME CacheInv, ConnNext PROVE Kept
        OBVIOUS
    <2>0. FactoryOK /\ LoadsOK /\ LoadingIsCurrent /\ PreviousIsCached
        BY DEF CacheInv, ConnTypeOK, Served
    <2>1. CASE UNCHANGED cache
        BY <2>1
    <2>2. ASSUME NEW q \in Procs, cache' = [cache EXCEPT ![q] = NoConnEntry] PROVE Kept
        BY <2>0, <2>2 DEF FactoryOK
    <2>3. ASSUME NEW l \in ConnLoads, Answer(l) PROVE Kept
        <3>1. CASE UNCHANGED cache
            BY <3>1
        <3>2. PICK c \in ClientFor(l) :
                  \/ UNCHANGED cache
                  \/ /\ loading[lproc[l]] = l
                     /\ cache' = [cache EXCEPT ![lproc[l]] = Entry(lrow[l], c)]
            BY <2>3 DEF Answer
        <3>3. CASE loading[lproc[l]] = l /\ cache' = [cache EXCEPT ![lproc[l]] = Entry(lrow[l], c)]
            <4>1. lrow[l] \in Rows /\ lproc[l] \in Procs /\ lprev[l] = cache[lproc[l]]
                BY <2>0, <2>3, <3>3, ConnectionCacheAssumption
                   DEF Answer, LoadsOK, PreviousIsCached
            <4>2. Entry(lrow[l], c).endpoint = lrow[l].endpoint /\ Entry(lrow[l], c).client = c
                BY DEF Entry
            <4>3. lprev[l] # NoConnEntry /\ lprev[l].endpoint = lrow[l].endpoint => c = lprev[l].client
                BY <3>2 DEF ClientFor
            <4> QED
                BY <2>0, <3>3, <4>1, <4>2, <4>3 DEF FactoryOK
        <3> QED
            BY <3>1, <3>2, <3>3
    <2> QED
        BY <2>1, <2>2, <2>3, ConnectionCacheAssumption
           DEF ConnNext, LoadStep, Write, Invalidate, Guard, OpenStorage, Load, Resume, Done,
               Query, AnswerFails, Finally, Expire, Restart, entryVars
<1>2. ConnSpec => [][Kept]_connVars
    BY CacheInvariant, <1>1, PTL DEF ConnSpec
<1> QED
    BY <1>2 DEF ReloadKeepsClient
-----------------------------------------------------------------------------
(* The guards of a request.                                                  *)

AnyRights == {"session", "access", "capability", "key"}
AnyMay == SUBSET UNION {Permissions(RouteTable[n]) : n \in BrowserRoutes}

Guarded == {"permission", "access", "capability", "rows"}
Ended == {"admitted", "unauthorized", "forbidden", "not found", "not allowed", "failed"}

CallRec == [pc : {"browser", "key"} \cup Guarded \cup Ended, route : Routes, may : AnyMay,
            must : BOOLEAN]

\* What a request has been found to have, guard by guard.
CallOK(c, h, may) ==
    LET route == RouteTable[c.route] IN
    /\ c.pc = "key" => route.door = "key"
    /\ c.pc = "browser" => route.door = "browser"
    /\ c.pc \in Guarded => route.door = "browser" /\ "session" \in h /\ c.may = may
    /\ c.pc = "access" => route.scoped
    /\ c.pc \in {"capability", "rows"} /\ route.scoped => "access" \in h
    /\ c.pc = "capability" => route.capability # None
    /\ c.pc = "rows" => route.capability = None
    /\ c.pc = "admitted" => Needs(route) \subseteq h
    /\ c.pc = "not allowed" => "access" \in h

\* The rights of this moment are among those noted.
GuardsInv ==
    /\ user \in [live : BOOLEAN, must : BOOLEAN, may : AnyMay]
    /\ call \in [Calls -> {NoCall} \cup CallRec]
    /\ held \in [Calls -> SUBSET AnyRights]
    /\ \A r \in Calls : UnderWay(r) =>
          /\ call[r] \in CallRec /\ CallOK(call[r], held[r], user.may)
          /\ Rights(RouteOf(r)) \subseteq held[r]

\* A route that asks for a capability asks for the sight of the connection first.
LEMMA RoutesAre ==
    ASSUME NEW n \in Routes
    PROVE  /\ RouteTable[n].door \in {"browser", "key"}
           /\ RouteTable[n].capability # None => RouteTable[n].scoped
<1>1. n \in DOMAIN RouteTable
  BY RoutesAssumption
<1> QED BY <1>1 DEF RouteTable, Route, KeyRoute, JobRoute

LEMMA NeedsAreRights ==
    ASSUME NEW route
    PROVE  Needs(route) \subseteq AnyRights /\ Rights(route) \subseteq Needs(route)
<1>1. Needs(route) \subseteq AnyRights
  BY DEF Needs, AnyRights
<1> QED BY <1>1 DEF Rights

\* A guard that only moves its request.
LEMMA GuardMoves ==
    ASSUME GuardsInv, NEW r \in Calls, UnderWay(r), NEW c \in CallRec,
           call' = [call EXCEPT ![r] = c], c.route = call[r].route,
           CallOK(c, held[r], user.may),
           UNCHANGED <<user, conn, replaced, key, held>>
    PROVE  GuardsInv'
<1>1. call'[r] = c /\ \A q \in Calls \ {r} : call'[q] = call[q]
  BY DEF GuardsInv
<1>2. call' \in [Calls -> {NoCall} \cup CallRec]
  BY DEF GuardsInv
<1>3. ASSUME NEW route PROVE Rights(route)' = Rights(route)
  BY DEF Rights, MaySee
<1>4. ASSUME NEW q \in Calls, UnderWay(q)'
      PROVE  /\ call'[q] \in CallRec /\ CallOK(call'[q], held'[q], user'.may)
             /\ Rights(RouteOf(q))' \subseteq held'[q]
  <2>1. CASE q = r
    <3>1. RouteOf(q)' = RouteOf(r) /\ Rights(RouteOf(r)) \subseteq held[r]
      BY <1>1, <2>1 DEF RouteOf, GuardsInv
    <3> QED BY <1>1, <2>1, <3>1 DEF Rights, MaySee
  <2>2. CASE q # r
    <3>1. UnderWay(q) /\ RouteOf(q)' = RouteOf(q)
      BY <1>1, <1>4, <2>2 DEF UnderWay, RouteOf
    <3>2. /\ call[q] \in CallRec /\ CallOK(call[q], held[q], user.may)
          /\ Rights(RouteOf(q)) \subseteq held[q]
      BY <3>1 DEF GuardsInv
    <3> QED BY <1>1, <2>2, <3>1, <3>2 DEF Rights, MaySee
  <2> QED BY <2>1, <2>2
<1> QED BY <1>2, <1>4 DEF GuardsInv

\* A call moved to another place.
Placed(c, pc) == [c EXCEPT !.pc = pc]

LEMMA PlacedIs ==
    ASSUME NEW c \in CallRec, NEW pc \in {"browser", "key"} \cup Guarded \cup Ended
    PROVE  /\ Placed(c, pc) \in CallRec
           /\ Placed(c, pc).pc = pc /\ Placed(c, pc).route = c.route /\ Placed(c, pc).may = c.may
BY DEF CallRec, Placed

LEMMA GuardPlaces ==
    ASSUME GuardsInv, NEW r \in Calls, UnderWay(r), NEW pc \in {"browser", "key"} \cup Guarded \cup Ended,
           To(r, pc), CallOK(Placed(call[r], pc), held[r], user.may),
           UNCHANGED <<user, conn, replaced, key, held>>
    PROVE  GuardsInv'
<1>1. call[r] \in CallRec
  BY DEF GuardsInv
<1>2. call' = [call EXCEPT ![r] = Placed(call[r], pc)]
  BY DEF To, Placed
<1> QED BY <1>1, <1>2, PlacedIs, GuardMoves

\* What has to be known of a call where it stops, and before it sees a connection.
LEMMA EndsOK ==
    ASSUME NEW c \in CallRec, NEW h, NEW may, NEW pc \in Ended,
           pc = "admitted" => Needs(RouteTable[c.route]) \subseteq h,
           pc = "not allowed" => "access" \in h
    PROVE  CallOK(Placed(c, pc), h, may)
<1>1. Placed(c, pc).pc = pc /\ Placed(c, pc).route = c.route
  BY PlacedIs
<1>2. pc \notin Guarded \cup {"browser", "key"}
  BY DEF Ended, Guarded
<1> QED BY <1>1, <1>2 DEF CallOK, Guarded

LEMMA AccessOK ==
    ASSUME NEW c \in CallRec, NEW h, NEW may, c.pc = "permission", CallOK(c, h, may),
           RouteTable[c.route].scoped
    PROVE  CallOK(Placed(c, "access"), h, may)
<1>1. /\ Placed(c, "access").pc = "access" /\ Placed(c, "access").route = c.route
      /\ Placed(c, "access").may = c.may
  BY PlacedIs DEF Guarded
<1> QED BY <1>1 DEF CallOK, Guarded

\* What a call under way is known to be.
LEMMA CallIs ==
    ASSUME GuardsInv, NEW r \in Calls, UnderWay(r)
    PROVE  /\ call[r] \in CallRec /\ CallOK(call[r], held[r], user.may)
           /\ Rights(RouteOf(r)) \subseteq held[r] /\ call[r].route \in Routes
           /\ RouteOf(r).capability # None => RouteOf(r).scoped
<1>1. call[r] \in CallRec /\ CallOK(call[r], held[r], user.may) /\ Rights(RouteOf(r)) \subseteq held[r]
  BY DEF GuardsInv
<1>2. call[r].route \in Routes
  BY <1>1 DEF CallRec
<1> QED BY <1>1, <1>2, RoutesAre DEF RouteOf

LEMMA AuthenticateKeeps ==
    ASSUME GuardsInv, NEW r \in Calls, Authenticate(r)
    PROVE  GuardsInv'
<1>1. /\ UnderWay(r) /\ call[r].pc = "browser"
      /\ UNCHANGED <<user, conn, replaced, key, held>>
  BY DEF Authenticate, UnderWay
<1>2. /\ call[r] \in CallRec /\ CallOK(call[r], held[r], user.may)
      /\ Rights(RouteOf(r)) \subseteq held[r]
  BY <1>1, CallIs
<1>3. CASE user.live
  <2> DEFINE c == [call[r] EXCEPT !.pc = "permission", !.may = user.may, !.must = user.must]
  <2>1. /\ c \in CallRec /\ c.pc = "permission" /\ c.route = call[r].route /\ c.may = user.may
        /\ call' = [call EXCEPT ![r] = c]
    BY <1>1, <1>2, <1>3 DEF CallRec, Guarded, GuardsInv, Authenticate
  <2>2. RouteOf(r).door = "browser"
    BY <1>1, <1>2 DEF CallOK, RouteOf
  <2>3. "session" \in held[r]
    BY <1>2, <1>3, <2>2 DEF Rights, Needs
  <2> HIDE DEF c
  <2>4. CallOK(c, held[r], user.may)
    BY <2>1, <2>2, <2>3 DEF CallOK, RouteOf
  <2> QED BY <1>1, <2>1, <2>4, GuardMoves
<1>4. CASE ~user.live
  <2>1. To(r, "unauthorized")
    BY <1>4 DEF Authenticate
  <2>2. CallOK(Placed(call[r], "unauthorized"), held[r], user.may)
    BY <1>2, EndsOK DEF Ended
  <2> QED BY <1>1, <2>1, <2>2, GuardPlaces DEF Ended
<1> QED BY <1>3, <1>4

\* A place where nothing is claimed.
Refusals == {"unauthorized", "forbidden", "not found", "failed"}

LEMMA RefusalKeeps ==
    ASSUME GuardsInv, NEW r \in Calls, UnderWay(r), NEW pc \in Refusals, To(r, pc),
           UNCHANGED <<user, conn, replaced, key, held>>
    PROVE  GuardsInv'
<1>1. pc \in Ended /\ pc \notin Guarded \cup {"browser", "key", "admitted", "not allowed"}
  BY DEF Refusals, Ended, Guarded
<1>2. call[r] \in CallRec
  BY CallIs
<1>3. CallOK(Placed(call[r], pc), held[r], user.may)
  BY <1>1, <1>2, PlacedIs DEF CallOK, Guarded
<1> QED BY <1>1, <1>3, GuardPlaces

\* The next guard after those of the session and of the connection.
LEMMA AfterAccessIs ==
    ASSUME GuardsInv, NEW r \in Calls, UnderWay(r), call[r].pc \in Guarded,
           RouteOf(r).scoped => "access" \in held[r],
           To(r, AfterAccess(r)), UNCHANGED <<user, conn, replaced, key, held>>
    PROVE  GuardsInv'
<1> DEFINE pc == AfterAccess(r)
<1>1. /\ call[r] \in CallRec /\ RouteOf(r).door = "browser" /\ "session" \in held[r]
      /\ call[r].may = user.may /\ (RouteOf(r).capability # None => RouteOf(r).scoped)
  BY CallIs DEF CallOK, RouteOf
<1>2. \/ pc = "capability" /\ RouteOf(r).capability # None
      \/ pc = "rows" /\ RouteOf(r).capability = None
      \/ pc = "admitted" /\ RouteOf(r).capability = None
  BY DEF AfterAccess
<1> HIDE DEF pc
<1>3. pc \in Guarded \cup Ended
  BY <1>2 DEF Guarded, Ended
<1>4. pc = "admitted" => Needs(RouteOf(r)) \subseteq held[r]
  BY <1>1, <1>2 DEF Needs
<1>5. CallOK(Placed(call[r], pc), held[r], user.may)
  BY <1>1, <1>2, <1>3, <1>4, PlacedIs DEF CallOK, RouteOf
<1>6. To(r, pc)
  BY DEF pc
<1> QED BY <1>3, <1>5, <1>6, GuardPlaces

LEMMA PermitKeeps ==
    ASSUME GuardsInv, NEW r \in Calls, Permit(r)
    PROVE  GuardsInv'
<1>1. /\ UnderWay(r) /\ call[r].pc = "permission" /\ call[r].pc \in Guarded
      /\ UNCHANGED <<user, conn, replaced, key, held>>
  BY DEF Permit, UnderWay, Guarded
<1>2. CASE To(r, "failed") \/ To(r, "forbidden")
  BY <1>1, <1>2, RefusalKeeps DEF Refusals
<1>3. CASE To(r, AfterPermit(r))
  <2>1. CASE RouteOf(r).scoped
    <3>1. To(r, "access")
      BY <1>3, <2>1 DEF AfterPermit
    <3>2. CallOK(Placed(call[r], "access"), held[r], user.may)
      BY <1>1, <2>1, CallIs, AccessOK DEF RouteOf
    <3> QED BY <1>1, <3>1, <3>2, GuardPlaces DEF Guarded
  <2>2. CASE ~RouteOf(r).scoped
    <3>1. To(r, AfterAccess(r))
      BY <1>3, <2>2 DEF AfterPermit
    <3> QED BY <1>1, <2>2, <3>1, AfterAccessIs
  <2> QED BY <2>1, <2>2
<1> QED BY <1>2, <1>3 DEF Permit

LEMMA SeeConnectionKeeps ==
    ASSUME GuardsInv, NEW r \in Calls, SeeConnection(r)
    PROVE  GuardsInv'
<1>1. /\ UnderWay(r) /\ call[r].pc = "access" /\ call[r].pc \in Guarded
      /\ UNCHANGED <<user, conn, replaced, key, held>>
  BY DEF SeeConnection, UnderWay, Guarded
<1>2. CASE ~MaySee(call[r].may)
  <2>1. To(r, "not found")
    BY <1>2 DEF SeeConnection
  <2> QED BY <1>1, <2>1, RefusalKeeps DEF Refusals
<1>3. CASE MaySee(call[r].may)
  <2>1. To(r, AfterAccess(r))
    BY <1>3 DEF SeeConnection
  <2>2. RouteOf(r).scoped /\ RouteOf(r).door = "browser" /\ call[r].may = user.may
    BY <1>1, CallIs DEF CallOK, RouteOf
  <2>3. "access" \in held[r]
    <3>1. "access" \in Needs(RouteOf(r))
      BY <2>2 DEF Needs
    <3> QED BY <1>1, <1>3, <2>2, <3>1, CallIs DEF Rights
  <2> QED BY <1>1, <2>1, <2>3, AfterAccessIs
<1> QED BY <1>2, <1>3

LEMMA ReadRowsKeeps ==
    ASSUME GuardsInv, NEW r \in Calls, ReadRows(r)
    PROVE  GuardsInv'
<1>1. /\ UnderWay(r) /\ call[r].pc = "rows" /\ call[r].pc \in Guarded
      /\ UNCHANGED <<user, conn, replaced, key, held>>
  BY DEF ReadRows, UnderWay, Guarded
<1>2. CASE To(r, "not found")
  BY <1>1, <1>2, RefusalKeeps DEF Refusals
<1>3. CASE To(r, "admitted")
  <2>1. /\ RouteOf(r).door = "browser" /\ RouteOf(r).capability = None /\ "session" \in held[r]
        /\ RouteOf(r).scoped => "access" \in held[r]
    BY <1>1, CallIs DEF CallOK, RouteOf
  <2>2. Needs(RouteOf(r)) \subseteq held[r]
    BY <2>1 DEF Needs
  <2>3. CallOK(Placed(call[r], "admitted"), held[r], user.may)
    BY <1>1, <2>2, CallIs, EndsOK DEF RouteOf, Ended
  <2> QED BY <1>1, <1>3, <2>3, GuardPlaces DEF Ended
<1> QED BY <1>2, <1>3 DEF ReadRows

LEMMA CheckCapabilityKeeps ==
    ASSUME GuardsInv, NEW r \in Calls, CheckCapability(r)
    PROVE  GuardsInv'
<1>1. /\ UnderWay(r) /\ call[r].pc = "capability" /\ call[r].pc \in Guarded
      /\ UNCHANGED <<user, conn, replaced, key, held>>
  BY DEF CheckCapability, UnderWay, Guarded
<1>2. /\ RouteOf(r).door = "browser" /\ RouteOf(r).capability # None /\ "session" \in held[r]
      /\ RouteOf(r).scoped => "access" \in held[r]
      /\ RouteOf(r).scoped
  BY <1>1, CallIs DEF CallOK, RouteOf
<1>3. PICK known \in {conn.allows, replaced} \ {None} :
          /\ known = replaced \/ conn.there
          /\ To(r, IF RouteOf(r).capability \in known THEN "admitted"
                   ELSE IF RouteOf(r).hides THEN "not found" ELSE "not allowed")
  BY DEF CheckCapability
<1>4. CASE RouteOf(r).capability \in known
  <2>1. To(r, "admitted")
    BY <1>3, <1>4
  <2>2. "capability" \in Needs(RouteOf(r))
    BY <1>2 DEF Needs
  <2>3. "capability" \in Rights(RouteOf(r))
    BY <1>3, <1>4, <2>2 DEF Rights
  <2>4. Needs(RouteOf(r)) \subseteq held[r]
    BY <1>1, <1>2, <2>3, CallIs DEF Needs
  <2>5. CallOK(Placed(call[r], "admitted"), held[r], user.may)
    BY <1>1, <2>4, CallIs, EndsOK DEF RouteOf, Ended
  <2> QED BY <1>1, <2>1, <2>5, GuardPlaces DEF Ended
<1>5. CASE RouteOf(r).capability \notin known /\ RouteOf(r).hides
  <2>1. To(r, "not found")
    BY <1>3, <1>5
  <2> QED BY <1>1, <2>1, RefusalKeeps DEF Refusals
<1>6. CASE RouteOf(r).capability \notin known /\ ~RouteOf(r).hides
  <2>1. To(r, "not allowed")
    BY <1>3, <1>6
  <2>2. CallOK(Placed(call[r], "not allowed"), held[r], user.may)
    BY <1>1, <1>2, CallIs, EndsOK DEF RouteOf, Ended
  <2> QED BY <1>1, <2>1, <2>2, GuardPlaces DEF Ended
<1> QED BY <1>4, <1>5, <1>6

LEMMA CheckKeyKeeps ==
    ASSUME GuardsInv, NEW r \in Calls, CheckKey(r)
    PROVE  GuardsInv'
<1>1. UnderWay(r) /\ call[r].pc = "key" /\ UNCHANGED <<user, conn, replaced, key, held>>
  BY DEF CheckKey, UnderWay
<1>2. CASE To(r, "forbidden") \/ To(r, "unauthorized") \/ To(r, "failed")
  BY <1>1, <1>2, RefusalKeeps DEF Refusals
<1>3. CASE KeyOpens /\ key.scope = RouteOf(r).permission /\ To(r, "admitted")
  <2>1. RouteOf(r).door = "key"
    BY <1>1, CallIs DEF CallOK, RouteOf
  <2>2. "key" \in Rights(RouteOf(r))
    BY <1>3, <2>1 DEF Rights, Needs, KeyOpens
  <2>3. Needs(RouteOf(r)) \subseteq held[r]
    BY <1>1, <2>1, <2>2, CallIs DEF Needs
  <2>4. CallOK(Placed(call[r], "admitted"), held[r], user.may)
    BY <1>1, <2>3, CallIs, EndsOK DEF RouteOf, Ended
  <2> QED BY <1>1, <1>3, <2>4, GuardPlaces DEF Ended
<1> QED BY <1>2, <1>3 DEF CheckKey
LEMMA ArriveKeeps ==
    ASSUME GuardsInv, NEW r \in Calls, NEW name \in Routes, Arrive(r, name)
    PROVE  GuardsInv'
<1> DEFINE route == RouteTable[name]
           c == [pc |-> route.door, route |-> name, may |-> {}, must |-> FALSE]
<1>1. /\ call' = [call EXCEPT ![r] = c]
      /\ held' = [held EXCEPT ![r] = Rights(route)]
      /\ UNCHANGED <<user, conn, replaced, key>>
  BY DEF Arrive
<1>2. route.door \in {"browser", "key"}
  BY RoutesAre
<1>3. c \in CallRec /\ c.pc = route.door /\ c.route = name
  BY <1>2 DEF CallRec, AnyMay
<1> HIDE DEF c
<1>4. CallOK(c, Rights(route), user.may)
  BY <1>2, <1>3 DEF CallOK, Guarded
<1>5. Rights(route) \in SUBSET AnyRights
  BY NeedsAreRights
<1>6. /\ call'[r] = c /\ held'[r] = Rights(route)
      /\ \A q \in Calls \ {r} : call'[q] = call[q] /\ held'[q] = held[q]
      /\ call' \in [Calls -> {NoCall} \cup CallRec] /\ held' \in [Calls -> SUBSET AnyRights]
  BY <1>1, <1>3, <1>5 DEF GuardsInv
<1>7. ASSUME NEW q \in Calls, UnderWay(q)'
      PROVE  /\ call'[q] \in CallRec /\ CallOK(call'[q], held'[q], user'.may)
             /\ Rights(RouteOf(q))' \subseteq held'[q]
  <2>1. CASE q = r
    <3>1. RouteOf(q)' = route
      BY <1>3, <1>6, <2>1 DEF RouteOf
    <3>2. Rights(RouteOf(q))' = Rights(route)
      BY <1>1, <3>1 DEF Rights, MaySee
    <3> QED BY <1>1, <1>3, <1>4, <1>6, <2>1, <3>2
  <2>2. CASE q # r
    <3>1. UnderWay(q) /\ RouteOf(q)' = RouteOf(q)
      BY <1>6, <1>7, <2>2 DEF UnderWay, RouteOf
    <3>2. Rights(RouteOf(q))' = Rights(RouteOf(q))
      BY <1>1, <3>1 DEF Rights, MaySee
    <3> QED BY <1>1, <1>6, <2>2, <3>1, <3>2, CallIs
  <2> QED BY <2>1, <2>2
<1> QED BY <1>1, <1>6, <1>7 DEF GuardsInv

LEMMA AnsweredKeeps ==
    ASSUME GuardsInv, NEW r \in Calls, Answered(r)
    PROVE  GuardsInv'
<1>1. /\ call' = [call EXCEPT ![r] = NoCall]
      /\ held' = [held EXCEPT ![r] = {}]
      /\ UNCHANGED <<user, conn, replaced, key>>
  BY DEF Answered
<1>2. /\ call'[r] = NoCall
      /\ \A q \in Calls \ {r} : call'[q] = call[q] /\ held'[q] = held[q]
      /\ call' \in [Calls -> {NoCall} \cup CallRec] /\ held' \in [Calls -> SUBSET AnyRights]
  BY <1>1 DEF GuardsInv
<1>3. ASSUME NEW q \in Calls, UnderWay(q)'
      PROVE  /\ call'[q] \in CallRec /\ CallOK(call'[q], held'[q], user'.may)
             /\ Rights(RouteOf(q))' \subseteq held'[q]
  <2>1. q # r
    BY <1>2, <1>3 DEF UnderWay, NoCall
  <2>2. UnderWay(q) /\ RouteOf(q)' = RouteOf(q)
    BY <1>2, <1>3, <2>1 DEF UnderWay, RouteOf
  <2>3. Rights(RouteOf(q))' = Rights(RouteOf(q))
    BY <1>1, <2>2 DEF Rights, MaySee
  <2> QED BY <1>1, <1>2, <2>1, <2>2, <2>3, CallIs
<1> QED BY <1>1, <1>2, <1>3 DEF GuardsInv

\* More rights do not hurt a call.
LEMMA MoreRights ==
    ASSUME NEW c, NEW h, NEW g, NEW may, CallOK(c, h, may), h \subseteq g
    PROVE  CallOK(c, g, may)
BY DEF CallOK

\* What changes beside the calls is noted for each of them.
LEMMA ChangeKeeps ==
    ASSUME GuardsInv, call' = call, Noted,
           user' \in [live : BOOLEAN, must : BOOLEAN, may : AnyMay], user'.may = user.may
    PROVE  GuardsInv'
<1>1. ASSUME NEW r \in Calls
      PROVE  /\ held'[r] \in SUBSET AnyRights
             /\ UnderWay(r) => held'[r] = held[r] \cup Rights(RouteOf(r))'
  <2>1. Rights(RouteOf(r))' \subseteq AnyRights
    BY DEF Rights, Needs, AnyRights
  <2> QED BY <2>1 DEF Noted, GuardsInv
<1>2. held' \in [Calls -> SUBSET AnyRights]
  BY <1>1 DEF Noted
<1>3. ASSUME NEW r \in Calls, UnderWay(r)'
      PROVE  /\ call'[r] \in CallRec /\ CallOK(call'[r], held'[r], user'.may)
             /\ Rights(RouteOf(r))' \subseteq held'[r]
  <2>1. UnderWay(r)
    BY <1>3 DEF UnderWay
  <2> QED BY <1>1, <2>1, CallIs, MoreRights
<1> QED BY <1>2, <1>3 DEF GuardsInv

LEMMA ChangesKeep ==
    ASSUME GuardsInv,
           \/ SessionIsEnded \/ EditConnection \/ DeleteConnection \/ PutAnswered
           \/ IssueKey \/ RevokeKey \/ KeyExpires \/ UpdateAccount
    PROVE  GuardsInv'
<1>1. call' = call /\ Noted
  BY DEF SessionIsEnded, EditConnection, DeleteConnection, PutAnswered, IssueKey, RevokeKey,
         KeyExpires, UpdateAccount
<1>2. user' = user \/ user' = [user EXCEPT !.live = FALSE]
  BY DEF SessionIsEnded, EditConnection, DeleteConnection, PutAnswered, IssueKey, RevokeKey,
         KeyExpires, UpdateAccount
<1>3. user' \in [live : BOOLEAN, must : BOOLEAN, may : AnyMay] /\ user'.may = user.may
  BY <1>2 DEF GuardsInv
<1> QED BY <1>1, <1>3, ChangeKeeps

LEMMA GuardsStart ==
    ASSUME GuardsInit
    PROVE  GuardsInv
<1>1. /\ user \in [live : {TRUE}, must : BOOLEAN, may : AnyMay]
      /\ call = [r \in Calls |-> NoCall] /\ held = [r \in Calls |-> {}]
  BY DEF GuardsInit, AdmissionInit, AnyMay
<1>2. \A r \in Calls : ~UnderWay(r)
  BY <1>1 DEF UnderWay, NoCall
<1> QED BY <1>1, <1>2 DEF GuardsInv

LEMMA GuardsKeep ==
    ASSUME GuardsInv, [GuardsStep \/ AttemptsStep]_guardVars
    PROVE  GuardsInv'
<1>1. ASSUME UNCHANGED admissionVars PROVE GuardsInv'
  <2>1. UNCHANGED <<user, conn, replaced, key, call, held>>
    BY <1>1 DEF admissionVars
  <2>2. ASSUME NEW r \in Calls, UnderWay(r)'
        PROVE  /\ call'[r] \in CallRec /\ CallOK(call'[r], held'[r], user'.may)
               /\ Rights(RouteOf(r))' \subseteq held'[r]
    <3>1. UnderWay(r) /\ RouteOf(r)' = RouteOf(r)
      BY <2>1, <2>2 DEF UnderWay, RouteOf
    <3>2. Rights(RouteOf(r))' = Rights(RouteOf(r))
      BY <2>1, <3>1 DEF Rights, MaySee
    <3> QED BY <2>1, <3>1, <3>2, CallIs
  <2> QED BY <2>1, <2>2 DEF GuardsInv
<1>2. CASE AttemptsStep \/ UNCHANGED guardVars
  BY <1>1, <1>2 DEF AttemptsStep, guardVars
<1>3. ASSUME NEW r \in Calls, NEW name \in Routes, Arrive(r, name) PROVE GuardsInv'
  BY <1>3, ArriveKeeps
<1>4. ASSUME NEW r \in Calls,
             \/ Authenticate(r) \/ Permit(r) \/ SeeConnection(r) \/ ReadRows(r)
             \/ CheckCapability(r) \/ NoConnection(r) \/ CheckKey(r) \/ Answered(r)
      PROVE  GuardsInv'
  <2>1. CASE NoConnection(r)
    BY <2>1, RefusalKeeps DEF NoConnection, Refusals, UnderWay
  <2> QED BY <1>4, <2>1, AuthenticateKeeps, PermitKeeps, SeeConnectionKeeps, ReadRowsKeeps,
             CheckCapabilityKeeps, CheckKeyKeeps, AnsweredKeeps
<1>5. CASE GuardsStep
  BY <1>3, <1>4, <1>5, ChangesKeep DEF GuardsStep, GuardsNext
<1> QED BY <1>2, <1>5

THEOREM GuardsInvHolds == GuardsSpec => []GuardsInv
<1>1. GuardsInit => GuardsInv
  BY GuardsStart
<1>2. GuardsInv /\ [GuardsStep \/ AttemptsStep]_guardVars => GuardsInv'
  BY GuardsKeep
<1> QED BY <1>1, <1>2, PTL DEF GuardsSpec

\* Between two of its guards a user may lose the session, a connection may be
\* hidden or deleted and a key revoked: a request still works only on rights it
\* has had since it came, and learns that a capability is off only of a
\* connection it could see.
THEOREM RightsAreFresh == GuardsSpec => []AdmittedOnFreshRights
<1>1. GuardsInv => AdmittedOnFreshRights
  <2> SUFFICES ASSUME GuardsInv, NEW r \in Calls
               PROVE  /\ call[r].pc = "admitted" => Needs(RouteOf(r)) \subseteq held[r]
                      /\ call[r].pc = "not allowed" => "access" \in held[r]
    BY DEF AdmittedOnFreshRights
  <2>1. CASE UnderWay(r)
    BY <2>1, CallIs DEF CallOK, RouteOf
  <2>2. CASE ~UnderWay(r)
    BY <2>2 DEF UnderWay
  <2> QED BY <2>1, <2>2
<1> QED BY <1>1, GuardsInvHolds, PTL

-----------------------------------------------------------------------------
(* Attempts to sign in: positions in their order.                            *)

Rank(I, i) == Cardinality({j \in I : j <= i})

LEMMA RankIs ==
    ASSUME NEW I, I \subseteq Nat, IsFiniteSet(I), NEW i \in I
    PROVE  /\ Rank(I, i) \in 1 .. Cardinality(I)
           /\ \A j \in I : i < j => Rank(I, i) < Rank(I, j)
<1> DEFINE Upto(j) == {h \in I : h <= j}
<1>0. \A j : Rank(I, j) = Cardinality(Upto(j))
  BY DEF Rank
<1>1. \A j \in I : IsFiniteSet(Upto(j)) /\ Cardinality(Upto(j)) \in Nat /\ Cardinality(Upto(j)) <= Cardinality(I)
  <2> TAKE j \in I
  <2>1. Upto(j) \in SUBSET I
    OBVIOUS
  <2> QED BY <2>1, FS_Subset, FS_CardinalityType
<1>2. Cardinality(I) \in Nat
  BY FS_CardinalityType
<1>3. Rank(I, i) # 0
  <2>1. i \in Upto(i)
    OBVIOUS
  <2> HIDE DEF Upto
  <2> QED BY <1>0, <1>1, <2>1, FS_EmptySet
<1>4. ASSUME NEW j \in I, i < j
      PROVE  Rank(I, i) < Rank(I, j)
  <2>1. Upto(i) \cup {j} \subseteq Upto(j)
    <3>1. i \in Nat /\ j \in Nat /\ \A h \in I : h \in Nat
      OBVIOUS
    <3>2. \A h \in I : h <= i => h <= j
      BY <1>4, <3>1
    <3>3. \A h \in Upto(i) : h \in Upto(j)
      BY <3>2
    <3>4. j \in Upto(j)
      BY <3>1
    <3> HIDE DEF Upto
    <3> QED BY <3>3, <3>4
  <2>2. j \notin Upto(i)
    BY <1>4
  <2>3. IsFiniteSet(Upto(i) \cup {j}) /\ Cardinality(Upto(i) \cup {j}) = Cardinality(Upto(i)) + 1
    BY <1>1, <2>2, FS_AddElement
  <2>4. Cardinality(Upto(i) \cup {j}) <= Cardinality(Upto(j))
    <3> HIDE DEF Upto
    <3> QED BY <1>1, <2>1, FS_Subset
  <2> HIDE DEF Upto
  <2> QED BY <1>0, <1>1, <2>3, <2>4
<1> HIDE DEF Upto
<1> QED BY <1>0, <1>1, <1>2, <1>3, <1>4

LEMMA OrderIs ==
    ASSUME NEW I, I \subseteq Nat, IsFiniteSet(I)
    PROVE  /\ InOrder(I) \in [1 .. Cardinality(I) -> I]
           /\ \A k \in 1 .. Cardinality(I) : Rank(I, InOrder(I)[k]) = k
           /\ \A i \in I : InOrder(I)[Rank(I, i)] = i
<1> DEFINE N == Cardinality(I)
<1>1. N \in Nat
  BY FS_CardinalityType
<1>2. ASSUME NEW i \in I, NEW j \in I, Rank(I, i) = Rank(I, j)
      PROVE  i = j
  <2>1. i \in Nat /\ j \in Nat /\ Rank(I, i) \in 1 .. N /\ Rank(I, j) \in 1 .. N
    BY RankIs
  <2>2. (i < j => Rank(I, i) < Rank(I, j)) /\ (j < i => Rank(I, j) < Rank(I, i))
    BY RankIs
  <2> QED BY <1>1, <1>2, <2>1, <2>2
<1>3. ASSUME NEW k \in 1 .. N
      PROVE  \E i \in I : Rank(I, i) = k
  <2> SUFFICES ASSUME \A i \in I : Rank(I, i) # k PROVE FALSE
    OBVIOUS
  <2> DEFINE T == (1 .. N) \ {k}
             f == [i \in I |-> Rank(I, i)]
  <2>1. IsFiniteSet(1 .. N) /\ Cardinality(1 .. N) = N
    BY <1>1, FS_Interval
  <2>2. IsFiniteSet(T) /\ Cardinality(T) = N - 1
    BY <2>1, FS_RemoveElement
  <2>3. f \in [I -> T]
    BY RankIs
  <2>4. \E x, y \in I : x # y /\ f[x] = f[y]
    <3> HIDE DEF f, T
    <3>1. Cardinality(T) < N
      BY <1>1, <2>2
    <3> QED BY <2>2, <2>3, <3>1, FS_PigeonHole
  <2> QED BY <1>2, <2>4
<1>4. ASSUME NEW k \in 1 .. N
      PROVE  InOrder(I)[k] \in I /\ Rank(I, InOrder(I)[k]) = k
  <2>1. InOrder(I)[k] = CHOOSE i \in I : Rank(I, i) = k
    BY DEF InOrder, Rank
  <2> QED BY <1>3, <2>1
<1>5. InOrder(I) \in [1 .. N -> I]
  <2>1. InOrder(I) = [k \in 1 .. N |-> InOrder(I)[k]]
    BY DEF InOrder
  <2> QED BY <1>4, <2>1
<1>6. \A i \in I : InOrder(I)[Rank(I, i)] = i
  BY <1>2, <1>4, RankIs
<1> QED BY <1>4, <1>5, <1>6

\* What is taken of a sequence is at a place of it each, in the same order.
LEMMA ThoseAre ==
    ASSUME NEW X, NEW bs \in Seq(X), NEW I, I \subseteq DOMAIN bs
    PROVE  /\ Those(bs, I) \in Seq(X)
           /\ \A k \in DOMAIN Those(bs, I) : \E i \in I : Those(bs, I)[k] = bs[i]
           /\ \A i \in I : \E k \in DOMAIN Those(bs, I) : Those(bs, I)[k] = bs[i]
           /\ \A k, l \in DOMAIN Those(bs, I) : k < l =>
                 \E i, j \in I : i < j /\ Those(bs, I)[k] = bs[i] /\ Those(bs, I)[l] = bs[j]
<1> DEFINE N == Cardinality(I)
           at == InOrder(I)
<1>1. I \subseteq Nat /\ IsFiniteSet(I)
  <2>1. DOMAIN bs = 1 .. Len(bs) /\ Len(bs) \in Nat
    OBVIOUS
  <2>2. IsFiniteSet(1 .. Len(bs))
    BY <2>1, FS_Interval
  <2> QED BY <2>1, <2>2, FS_Subset
<1>2. N \in Nat
  BY <1>1, FS_CardinalityType
<1>3. /\ at \in [1 .. N -> I]
      /\ \A k \in 1 .. N : Rank(I, at[k]) = k
      /\ \A i \in I : at[Rank(I, i)] = i
  BY <1>1, OrderIs
<1>4. \A i \in I : Rank(I, i) \in 1 .. N
  BY <1>1, RankIs
<1> HIDE DEF at, N
<1>5. Those(bs, I) = [k \in 1 .. N |-> bs[at[k]]]
  BY <1>3 DEF Those, at
<1>6. \A i \in I : bs[i] \in X
  OBVIOUS
<1>7. Those(bs, I) \in Seq(X)
  BY <1>2, <1>3, <1>5, <1>6
<1>8. ASSUME NEW k \in 1 .. N, NEW l \in 1 .. N, k < l
      PROVE  at[k] < at[l]
  <2>1. at[k] \in I /\ at[l] \in I /\ Rank(I, at[k]) = k /\ Rank(I, at[l]) = l
    BY <1>3
  <2>2. at[l] < at[k] => Rank(I, at[l]) < Rank(I, at[k])
    BY <1>1, <2>1, RankIs
  <2> QED BY <1>1, <1>8, <2>1, <2>2
<1> QED BY <1>3, <1>4, <1>5, <1>7, <1>8
-----------------------------------------------------------------------------
(* Attempts to sign in: the order of the table.                              *)

Bucket == [sender : Senders, count : Nat, ends : Nat]

\* A sender has one bucket, and whoever has one behind it has tried since its last attempt.
InUseOrder(bs) ==
    \A i, j \in DOMAIN bs : i < j => /\ bs[i].sender # bs[j].sender
                                     /\ bs[j].sender \in since[bs[i].sender]

AttemptsInv ==
    /\ buckets \in Seq(Bucket) /\ checks \in Nat /\ now \in Nat
    /\ since \in [Senders -> SUBSET Senders]
    /\ \A s \in Senders : IsFiniteSet(since[s])
    /\ InUseOrder(buckets)

LEMMA ThoseInUseOrder ==
    ASSUME NEW bs \in Seq(Bucket), InUseOrder(bs), NEW I, I \subseteq DOMAIN bs
    PROVE  Those(bs, I) \in Seq(Bucket) /\ InUseOrder(Those(bs, I))
<1> DEFINE cs == Those(bs, I)
<1>1. /\ cs \in Seq(Bucket)
      /\ \A k, l \in DOMAIN cs : k < l => \E i, j \in I : i < j /\ cs[k] = bs[i] /\ cs[l] = bs[j]
  BY ThoseAre
<1> HIDE DEF cs
<1>2. ASSUME NEW k \in DOMAIN cs, NEW l \in DOMAIN cs, k < l
      PROVE  cs[k].sender # cs[l].sender /\ cs[l].sender \in since[cs[k].sender]
  <2>1. PICK i \in I, j \in I : i < j /\ cs[k] = bs[i] /\ cs[l] = bs[j]
    BY <1>1, <1>2
  <2>2. i \in DOMAIN bs /\ j \in DOMAIN bs
    OBVIOUS
  <2> QED BY <2>1, <2>2 DEF InUseOrder
<1>3. InUseOrder(cs)
  BY <1>2 DEF InUseOrder
<1> QED BY <1>1, <1>3 DEF cs

\* The others, in their order.
LEMMA WithoutIs ==
    ASSUME AttemptsInv, NEW s \in Senders
    PROVE  /\ Without(s) \in Seq(Bucket) /\ InUseOrder(Without(s))
           /\ \A k \in DOMAIN Without(s) : Without(s)[k].sender # s
           /\ \A i \in DOMAIN buckets : buckets[i].sender # s =>
                 \E k \in DOMAIN Without(s) : Without(s)[k] = buckets[i]
<1> DEFINE I == {i \in DOMAIN buckets : buckets[i].sender # s}
<1>1. buckets \in Seq(Bucket) /\ InUseOrder(buckets) /\ I \subseteq DOMAIN buckets
  BY DEF AttemptsInv
<1>2. Without(s) = Those(buckets, I)
  BY DEF Without
<1>3. \A i \in I : buckets[i].sender # s
  OBVIOUS
<1>4. \A i \in DOMAIN buckets : buckets[i].sender # s => i \in I
  OBVIOUS
<1> HIDE DEF I
<1>5. /\ \A k \in DOMAIN Those(buckets, I) : \E i \in I : Those(buckets, I)[k] = buckets[i]
      /\ \A i \in I : \E k \in DOMAIN Those(buckets, I) : Those(buckets, I)[k] = buckets[i]
  BY <1>1, ThoseAre
<1>6. Those(buckets, I) \in Seq(Bucket) /\ InUseOrder(Those(buckets, I))
  BY <1>1, ThoseInUseOrder
<1> QED BY <1>2, <1>3, <1>4, <1>5, <1>6

\* What makes room: a running window that is dropped has MaxBuckets - 1 others behind it.
LEMMA RoomIs ==
    ASSUME AttemptsInv, NEW bs \in Seq(Bucket), InUseOrder(bs),
           NEW t \in Senders, \A k \in DOMAIN bs : bs[k].sender # t
    PROVE  LET cs == EnsureCapacity(bs) IN
           /\ cs \in Seq(Bucket) /\ InUseOrder(cs)
           /\ \A k \in DOMAIN cs : cs[k].sender # t
           /\ \A i \in DOMAIN bs : bs[i].ends > now =>
                 \/ \E k \in DOMAIN cs : cs[k] = bs[i]
                 \/ Cardinality(since[bs[i].sender] \cup {t}) >= MaxBuckets
<1> DEFINE open == {i \in DOMAIN bs : bs[i].ends > now}
           Behind(i) == {j \in open : j > i}
           I == {i \in open : Cardinality(Behind(i)) < MaxBuckets - 1}
           cs == EnsureCapacity(bs)
<1>1. CASE Len(bs) < MaxBuckets
  <2>1. cs = bs
    BY <1>1 DEF EnsureCapacity
  <2> HIDE DEF cs, I, open, Behind
  <2>2. /\ cs \in Seq(Bucket) /\ InUseOrder(cs)
        /\ \A k \in DOMAIN cs : cs[k].sender # t
        /\ \A i \in DOMAIN bs : \E k \in DOMAIN cs : cs[k] = bs[i]
    BY <2>1
  <2> QED BY <2>2 DEF cs
<1>2. CASE ~(Len(bs) < MaxBuckets)
  <2>1. cs = Those(bs, I)
    BY <1>2 DEF EnsureCapacity
  <2>2. open \subseteq DOMAIN bs /\ I \subseteq DOMAIN bs
    OBVIOUS
  <2>3. /\ \A k \in DOMAIN cs : \E i \in I : cs[k] = bs[i]
        /\ \A i \in I : \E k \in DOMAIN cs : cs[k] = bs[i]
    <3> HIDE DEF cs, I
    <3> QED BY <2>1, <2>2, ThoseAre
  <2>4. cs \in Seq(Bucket) /\ InUseOrder(cs)
    <3> HIDE DEF cs, I
    <3> QED BY <2>1, <2>2, ThoseInUseOrder
  <2>5. ASSUME NEW i \in open, i \notin I
        PROVE  Cardinality(since[bs[i].sender] \cup {t}) >= MaxBuckets
    <3> DEFINE s == bs[i].sender
               T == since[s] \ {t}
               B == Behind(i)
               f == [j \in B |-> bs[j].sender]
    <3>1. i \in DOMAIN bs /\ s \in Senders
      <4>1. i \in DOMAIN bs
        OBVIOUS
      <4>2. bs[i] \in Bucket
        BY <4>1
      <4> QED BY <4>1, <4>2 DEF Bucket
    <3>2. IsFiniteSet(since[s])
      BY <3>1 DEF AttemptsInv
    <3>3. IsFiniteSet(T) /\ Cardinality(T) \in Nat
      BY <3>2, FS_RemoveElement, FS_CardinalityType
    <3>4. f \in Injection(B, T)
      <4>1. ASSUME NEW j \in B
            PROVE  bs[j].sender \in T
        <5>1. j \in DOMAIN bs /\ i < j
          OBVIOUS
        <5> QED BY <3>1, <5>1 DEF InUseOrder
      <4>2. ASSUME NEW j \in B, NEW k \in B, f[j] = f[k]
            PROVE  j = k
        <5>1. j \in DOMAIN bs /\ k \in DOMAIN bs /\ bs[j].sender = bs[k].sender
          BY <4>2
        <5>2. ~(j < k) /\ ~(k < j)
          BY <5>1 DEF InUseOrder
        <5>3. j \in Nat /\ k \in Nat
          BY <5>1
        <5> QED BY <5>2, <5>3
      <4>3. f \in [B -> T]
        BY <4>1
      <4> HIDE DEF f, B, T
      <4> QED BY <4>2, <4>3 DEF Injection, IsInjective
    <3>5. IsFiniteSet(B) /\ Cardinality(B) <= Cardinality(T)
      <4> HIDE DEF f, B, T
      <4> QED BY <3>3, <3>4, FS_Injection
    <3>6. Cardinality(B) \in Nat
      BY <3>5, FS_CardinalityType
    <3>7. ~(Cardinality(B) < MaxBuckets - 1)
      BY <2>5
    <3>8. Cardinality(T \cup {t}) = Cardinality(T) + 1
      BY <3>3, FS_AddElement
    <3>9. since[s] \cup {t} = T \cup {t}
      OBVIOUS
    <3> HIDE DEF B, T, s
    <3>10. MaxBuckets \in Nat
      BY AdmissionAssumption
    <3>11. Cardinality(T) + 1 >= MaxBuckets
      BY <3>3, <3>5, <3>6, <3>7, <3>10
    <3> QED BY <3>8, <3>9, <3>11 DEF s
  <2>6. \A i \in DOMAIN bs : bs[i].ends > now => i \in open
    OBVIOUS
  <2>7. \A k \in DOMAIN cs : cs[k].sender # t
    <3> HIDE DEF cs, I
    <3> QED BY <2>2, <2>3
  <2> HIDE DEF cs, I, open
  <2>8. \A i \in DOMAIN bs : bs[i].ends > now =>
           \/ \E k \in DOMAIN cs : cs[k] = bs[i]
           \/ Cardinality(since[bs[i].sender] \cup {t}) >= MaxBuckets
    BY <2>3, <2>5, <2>6
  <2> QED BY <2>4, <2>7, <2>8 DEF cs
<1> QED BY <1>1, <1>2
-----------------------------------------------------------------------------
(* Attempts to sign in: every step keeps the windows that run.               *)

\* What WindowsAreKept says of a step.
Keeps ==
    \A s \in Senders : \A b \in Running(s) :
       \/ \E i \in DOMAIN buckets' :
             LET kept == buckets'[i] IN kept.sender = s /\ kept.ends = b.ends /\ kept.count >= b.count
       \/ Cardinality(since'[s]) >= MaxBuckets

LEMMA RunningIs ==
    ASSUME AttemptsInv, NEW s \in Senders, NEW b \in Running(s)
    PROVE  /\ b \in Bucket /\ b.sender = s /\ b.ends > now
           /\ b.count \in Nat
           /\ \E i \in DOMAIN buckets : b = buckets[i]
<1>1. PICK i \in DOMAIN buckets : b = buckets[i] /\ b.sender = s /\ b.ends > now
  BY DEF Running
<1>2. buckets[i] \in Bucket
  BY DEF AttemptsInv
<1> QED BY <1>1, <1>2 DEF Bucket

\* A table whose windows stay.
LEMMA SameKeeps ==
    ASSUME AttemptsInv, buckets' = buckets
    PROVE  Keeps
<1> SUFFICES ASSUME NEW s \in Senders, NEW b \in Running(s)
             PROVE  \E i \in DOMAIN buckets' :
                       LET kept == buckets'[i] IN kept.sender = s /\ kept.ends = b.ends /\ kept.count >= b.count
  BY DEF Keeps
<1>1. b.sender = s /\ b.count \in Nat /\ \E i \in DOMAIN buckets : b = buckets[i]
  BY RunningIs
<1> QED BY <1>1

\* A sender goes behind all others; they note that it tried.
LEMMA AppendInUseOrder ==
    ASSUME AttemptsInv, NEW t \in Senders,
           NEW cs \in Seq(Bucket), InUseOrder(cs), \A k \in DOMAIN cs : cs[k].sender # t,
           NEW b \in Bucket, b.sender = t,
           buckets' = Append(cs, b),
           since' = [s \in Senders |-> IF s = t THEN {} ELSE since[s] \cup {t}],
           UNCHANGED <<checks, now>>
    PROVE  AttemptsInv'
<1>1. buckets' \in Seq(Bucket) /\ checks' \in Nat /\ now' \in Nat
  BY DEF AttemptsInv
<1>2. since' \in [Senders -> SUBSET Senders]
  BY DEF AttemptsInv
<1>3. ASSUME NEW s \in Senders
      PROVE  IsFiniteSet(since'[s])
  <2>1. IsFiniteSet(since[s]) /\ since'[s] = IF s = t THEN {} ELSE since[s] \cup {t}
    BY DEF AttemptsInv
  <2> QED BY <2>1, FS_EmptySet, FS_AddElement
<1>4. ASSUME NEW i \in DOMAIN buckets', NEW j \in DOMAIN buckets', i < j
      PROVE  buckets'[i].sender # buckets'[j].sender /\ buckets'[j].sender \in since'[buckets'[i].sender]
  <2>1. Len(cs) \in Nat /\ DOMAIN cs = 1 .. Len(cs) /\ DOMAIN buckets' = 1 .. (Len(cs) + 1)
    OBVIOUS
  <2>2. i \in DOMAIN cs /\ buckets'[i] = cs[i] /\ cs[i] \in Bucket
    BY <1>4, <2>1
  <2>3. cs[i].sender \in Senders /\ cs[i].sender # t
    BY <2>2 DEF Bucket
  <2>4. since'[cs[i].sender] = since[cs[i].sender] \cup {t}
    BY <2>3
  <2>5. CASE j \in DOMAIN cs
    <3>1. buckets'[j] = cs[j]
      BY <2>1, <2>5
    <3> QED BY <1>4, <2>2, <2>4, <2>5, <3>1 DEF InUseOrder
  <2>6. CASE j \notin DOMAIN cs
    <3>1. buckets'[j] = b
      BY <2>1, <2>6
    <3> QED BY <2>2, <2>3, <2>4, <3>1
  <2> QED BY <2>5, <2>6
<1>5. InUseOrder(buckets)'
  BY <1>4 DEF InUseOrder
<1> QED BY <1>1, <1>2, <1>3, <1>5 DEF AttemptsInv

LEMMA ConsumeStep ==
    ASSUME AttemptsInv, NEW t \in Senders, Consume(t)
    PROVE  AttemptsInv' /\ Keeps
<1>1. /\ Without(t) \in Seq(Bucket) /\ InUseOrder(Without(t))
      /\ \A k \in DOMAIN Without(t) : Without(t)[k].sender # t
      /\ \A i \in DOMAIN buckets : buckets[i].sender # t =>
            \E k \in DOMAIN Without(t) : Without(t)[k] = buckets[i]
  BY WithoutIs
<1>2. since' = [s \in Senders |-> IF s = t THEN {} ELSE since[s] \cup {t}] /\ UNCHANGED <<checks, now>>
  BY DEF Consume
<1>3. CASE /\ Running(t) = {}
           /\ buckets' = Append(EnsureCapacity(Without(t)), [sender |-> t, count |-> 1, ends |-> now + WindowLength])
  <2> DEFINE bs == Without(t)
             cs == EnsureCapacity(bs)
             new == [sender |-> t, count |-> 1, ends |-> now + WindowLength]
  <2>1. /\ cs \in Seq(Bucket) /\ InUseOrder(cs)
        /\ \A k \in DOMAIN cs : cs[k].sender # t
        /\ \A i \in DOMAIN bs : bs[i].ends > now =>
              \/ \E k \in DOMAIN cs : cs[k] = bs[i]
              \/ Cardinality(since[bs[i].sender] \cup {t}) >= MaxBuckets
    <3> HIDE DEF bs
    <3>1. bs \in Seq(Bucket) /\ InUseOrder(bs) /\ \A k \in DOMAIN bs : bs[k].sender # t
      BY <1>1 DEF bs
    <3> QED BY <3>1, RoomIs
  <2>2. new \in Bucket /\ new.sender = t
    BY AdmissionAssumption DEF Bucket, AttemptsInv
  <2>3. buckets' = Append(cs, new)
    BY <1>3
  <2> HIDE DEF bs, cs, new
  <2>4. AttemptsInv'
    BY <1>2, <2>1, <2>2, <2>3, AppendInUseOrder
  <2>5. ASSUME NEW s \in Senders, NEW b \in Running(s)
        PROVE  \/ \E i \in DOMAIN buckets' :
                     LET kept == buckets'[i] IN kept.sender = s /\ kept.ends = b.ends /\ kept.count >= b.count
               \/ Cardinality(since'[s]) >= MaxBuckets
    <3>1. PICK i \in DOMAIN buckets : b = buckets[i]
      BY RunningIs
    <3>2. s # t
      BY <1>3
    <3>3. b.sender = s /\ b.ends > now /\ b.count \in Nat
      BY RunningIs
    <3>4. PICK k \in DOMAIN bs : bs[k] = b
      BY <1>1, <3>1, <3>2, <3>3 DEF bs
    <3>5. CASE \E h \in DOMAIN cs : cs[h] = bs[k]
      <4>1. PICK h \in DOMAIN cs : cs[h] = b
        BY <3>4, <3>5
      <4>2. h \in DOMAIN buckets' /\ buckets'[h] = b
        BY <2>1, <2>3, <4>1
      <4> QED BY <3>3, <4>2
    <3>6. CASE Cardinality(since[bs[k].sender] \cup {t}) >= MaxBuckets
      <4>1. since'[s] = since[s] \cup {t}
        BY <1>2, <3>2
      <4> QED BY <3>3, <3>4, <3>6, <4>1
    <3> QED BY <2>1, <3>3, <3>4, <3>5, <3>6
  <2> QED BY <2>4, <2>5 DEF Keeps
<1>4. ASSUME NEW b \in Running(t),
             buckets' = Moved([b EXCEPT !.count = IF @ < MaxAttempts THEN @ + 1 ELSE @])
      PROVE  AttemptsInv' /\ Keeps
  <2> DEFINE cs == Without(t)
             new == [b EXCEPT !.count = IF @ < MaxAttempts THEN @ + 1 ELSE @]
  <2>1. b \in Bucket /\ b.sender = t /\ b.count \in Nat
    BY RunningIs
  <2>2. new \in Bucket /\ new.sender = t /\ new.ends = b.ends /\ new.count >= b.count
    BY <2>1, AdmissionAssumption DEF Bucket
  <2>3. buckets' = Append(cs, new)
    <3> HIDE DEF new
    <3> QED BY <1>4, <2>2 DEF Moved, new
  <2>4. /\ cs \in Seq(Bucket) /\ InUseOrder(cs)
        /\ \A k \in DOMAIN cs : cs[k].sender # t
        /\ \A i \in DOMAIN buckets : buckets[i].sender # t => \E k \in DOMAIN cs : cs[k] = buckets[i]
    BY <1>1
  <2> HIDE DEF cs, new
  <2>5. AttemptsInv'
    BY <1>2, <2>2, <2>3, <2>4, AppendInUseOrder
  <2>6. ASSUME NEW s \in Senders, NEW c \in Running(s)
        PROVE  \E i \in DOMAIN buckets' :
                  LET kept == buckets'[i] IN kept.sender = s /\ kept.ends = c.ends /\ kept.count >= c.count
    <3>1. PICK i \in DOMAIN buckets : c = buckets[i]
      BY RunningIs
    <3>2. c.sender = s /\ c.count \in Nat
      BY RunningIs
    <3>3. CASE s = t
      <4>1. PICK j \in DOMAIN buckets : b = buckets[j]
        BY RunningIs
      <4>2. i = j
        <5>1. i \in Nat /\ j \in Nat
          BY DEF AttemptsInv
        <5>2. ~(i < j) /\ ~(j < i)
          BY <2>1, <3>1, <3>2, <3>3, <4>1 DEF AttemptsInv, InUseOrder
        <5> QED BY <5>1, <5>2
      <4>3. Len(cs) + 1 \in DOMAIN buckets' /\ buckets'[Len(cs) + 1] = new
        BY <2>3, <2>4
      <4> QED BY <2>2, <3>1, <3>3, <4>1, <4>2, <4>3
    <3>4. CASE s # t
      <4>1. PICK k \in DOMAIN cs : cs[k] = c
        BY <2>4, <3>1, <3>2, <3>4
      <4>2. k \in DOMAIN buckets' /\ buckets'[k] = c
        BY <2>3, <2>4, <4>1
      <4> QED BY <3>2, <4>2
    <3> QED BY <3>3, <3>4
  <2> QED BY <2>5, <2>6 DEF Keeps
<1> QED BY <1>3, <1>4 DEF Consume

LEMMA AttemptsStart == GuardsInit => AttemptsInv
<1> SUFFICES ASSUME GuardsInit PROVE AttemptsInv
  OBVIOUS
<1>1. buckets = <<>> /\ checks = 0 /\ now = 0 /\ since = [s \in Senders |-> {}]
  BY DEF GuardsInit, AttemptsInit
<1>2. InUseOrder(buckets) /\ buckets \in Seq(Bucket)
  BY <1>1 DEF InUseOrder
<1> QED BY <1>1, <1>2, FS_EmptySet DEF AttemptsInv

LEMMA AttemptsSteps ==
    AttemptsInv /\ [GuardsStep \/ AttemptsStep]_guardVars => AttemptsInv' /\ (Keeps \/ UNCHANGED attemptVars)
<1> SUFFICES ASSUME AttemptsInv, [GuardsStep \/ AttemptsStep]_guardVars
             PROVE  AttemptsInv' /\ (Keeps \/ UNCHANGED attemptVars)
  OBVIOUS
<1>1. CASE UNCHANGED attemptVars
  BY <1>1 DEF attemptVars, AttemptsInv, InUseOrder
<1>2. ASSUME NEW s \in Senders, Consume(s) PROVE AttemptsInv' /\ Keeps
  BY <1>2, ConsumeStep
<1>3. CASE StartCheck \/ EndCheck \/ ClockTicks
  <2>1. /\ buckets' = buckets /\ since' = since
        /\ \/ checks' = checks + 1 \/ (checks > 0 /\ checks' = checks - 1) \/ checks' = checks
        /\ now' = now \/ now' = now + 1
    BY <1>3 DEF StartCheck, EndCheck, ClockTicks
  <2>2. checks' \in Nat /\ now' \in Nat
    BY <2>1 DEF AttemptsInv
  <2> QED BY <2>1, <2>2, SameKeeps DEF AttemptsInv, InUseOrder
<1> QED BY <1>1, <1>2, <1>3 DEF GuardsStep, AttemptsStep, AttemptsNext, guardVars

\* Whoever else tries to sign in, the window that counts a sender's attempts stays as long
\* as it runs, unless MaxBuckets other senders have tried since
\* (auth-rate-limit.ts:17-31, 43-53).
THEOREM WindowsStay == GuardsSpec => WindowsAreKept
<1>1. AttemptsInv /\ [GuardsStep \/ AttemptsStep]_guardVars => [Keeps]_attemptVars
  BY AttemptsSteps
<1>2. AttemptsInv /\ [GuardsStep \/ AttemptsStep]_guardVars => AttemptsInv'
  BY AttemptsSteps
<1> QED BY AttemptsStart, <1>1, <1>2, PTL DEF GuardsSpec, WindowsAreKept, Keeps

-----------------------------------------------------------------------------
(* Fields and connections.                                                   *)

LEMMA FieldsAre ==
    /\ Fields = { "name", "basic", "secret", "mode", "users", "read", "write", "scan",
                  "metrics", "track", "every", "provider", "room" }
    /\ EditOnly \subseteq Fields
BY DEF Fields, Groups, EditOnly

\* A field is sent with one group.
LEMMA OneGroup ==
    ASSUME NEW g \in Groups, NEW h \in Groups, NEW f \in g, f \in h
    PROVE  g = h
BY DEF Groups

LEMMA ValuesAre ==
    /\ FieldValues.name = Names \cup {Absent} /\ FieldValues.basic = {1, 2}
    /\ FieldValues.secret = {Absent, 1, 2} /\ FieldValues.mode = {"public", "whitelist"}
    /\ FieldValues.users = SUBSET Members
    /\ FieldValues.read = BOOLEAN /\ FieldValues.write = BOOLEAN /\ FieldValues.scan = BOOLEAN
    /\ FieldValues.metrics = BOOLEAN /\ FieldValues.track = BOOLEAN
    /\ FieldValues.every = {6, 24} /\ FieldValues.provider = {Absent, "aws"}
    /\ FieldValues.room = {Absent, 3, 4, 6}
BY DEF FieldValues

LEMMA ValuesOfFields == \A f \in Fields : FieldValues[f] \subseteq AnyValues
<1>1. /\ FieldValues["name"] \subseteq AnyValues /\ FieldValues["basic"] \subseteq AnyValues
      /\ FieldValues["secret"] \subseteq AnyValues /\ FieldValues["mode"] \subseteq AnyValues
      /\ FieldValues["users"] \subseteq AnyValues
  BY ValuesAre DEF AnyValues
<1>2. /\ FieldValues["read"] \subseteq AnyValues /\ FieldValues["write"] \subseteq AnyValues
      /\ FieldValues["scan"] \subseteq AnyValues /\ FieldValues["metrics"] \subseteq AnyValues
      /\ FieldValues["track"] \subseteq AnyValues
  BY ValuesAre DEF AnyValues
<1>3. /\ FieldValues["every"] \subseteq AnyValues /\ FieldValues["provider"] \subseteq AnyValues
      /\ FieldValues["room"] \subseteq AnyValues
  BY ValuesAre DEF AnyValues
<1> QED
  BY <1>1, <1>2, <1>3, FieldsAre

LEMMA ConnectionIsThere == \A one : IsConnection(one) => one # Absent
<1> SUFFICES ASSUME NEW one, IsConnection(one) PROVE one # Absent
  OBVIOUS
<1>1. \A f \in Fields : one[f] \in AnyValues
  BY ValuesOfFields DEF IsConnection
<1>2. one = [f \in Fields |-> one[f]]
  BY DEF IsConnection
<1>3. one \in [Fields -> AnyValues]
  BY <1>1, <1>2
<1> QED
  BY <1>3, RowsAssumption

LEMMA NewRowIs == IsConnection(NewRow)
<1>1. /\ NewRow.name = Absent /\ NewRow.basic = 1 /\ NewRow.secret = Absent /\ NewRow.mode = "public"
      /\ NewRow.users = {} /\ NewRow.every = 24 /\ NewRow.provider = Absent /\ NewRow.room = Absent
  BY DEF NewRow
<1>3. /\ NewRow["read"] \in BOOLEAN /\ NewRow["write"] \in BOOLEAN /\ NewRow["scan"] \in BOOLEAN
      /\ NewRow["metrics"] \in BOOLEAN /\ NewRow["track"] \in BOOLEAN
  BY DEF NewRow
<1>4. \A f \in Fields : NewRow[f] \in FieldValues[f]
  BY <1>1, <1>3, FieldsAre, ValuesAre
<1>2. NewRow = [f \in Fields |-> NewRow[f]]
  BY FieldsAre DEF NewRow
<1> QED
  BY <1>2, <1>4 DEF IsConnection

\* One field changed.
LEMMA FieldChanged ==
    ASSUME NEW one, IsConnection(one), NEW f \in Fields, NEW v \in FieldValues[f]
    PROVE  /\ IsConnection([one EXCEPT ![f] = v])
           /\ \A e \in Fields : [one EXCEPT ![f] = v][e] = IF e = f THEN v ELSE one[e]
<1>1. one = [e \in Fields |-> one[e]]
  BY DEF IsConnection
<1>2. [one EXCEPT ![f] = v] = [e \in Fields |-> IF e = f THEN v ELSE one[e]]
  BY <1>1
<1> QED
  BY <1>1, <1>2 DEF IsConnection

LEMMA MaskedIs ==
    ASSUME NEW one, IsConnection(one)
    PROVE  IsConnection(Masked(one))
<1>1. one.users \cap members \in FieldValues["users"] /\ "users" \in Fields
  BY FieldsAre, ValuesAre DEF IsConnection
<1> QED
  BY <1>1, FieldChanged DEF Masked

LEMMA TenthsAre == \A room \in {Absent, 3, 4, 6} : ToTenths(room) \in {Absent, 3, 4, 6}
<1>1. (3 + 1) \div 2 = 2 /\ (4 + 1) \div 2 = 2 /\ (6 + 1) \div 2 = 3
  OBVIOUS
<1> QED
  BY <1>1 DEF ToTenths

LEMMA FormOfIs ==
    ASSUME NEW one, IsConnection(one)
    PROVE  /\ IsConnection(FormOf(one))
           /\ FormOf(one).secret = Absent
           /\ \A f \in Fields \ {"secret", "room"} : FormOf(one)[f] = one[f]
<1>1. one = [f \in Fields |-> one[f]] /\ \A f \in Fields : one[f] \in FieldValues[f]
  BY DEF IsConnection
<1>2. ToTenths(one.room) \in FieldValues["room"] /\ Absent \in FieldValues["secret"]
  BY <1>1, FieldsAre, ValuesAre, TenthsAre
<1>3. FormOf(one) = [f \in Fields |-> IF f = "secret" THEN Absent
                                      ELSE IF f = "room" THEN ToTenths(one.room) ELSE one[f]]
  BY <1>1, FieldsAre DEF FormOf
<1> QED
  BY <1>1, <1>2, <1>3, FieldsAre DEF IsConnection

-----------------------------------------------------------------------------
(* The forms, the lists and the imports.                                     *)

AllConnections == {one \in [Fields -> AnyValues] : IsConnection(one)}

OpenForms ==
    [ pc : {"new", "edit"}, id : ConnectionIds \cup {Absent}, base : AllConnections,
      shown : AllConnections, touched : SUBSET Fields ]

LEMMA ConnectionsAre == \A one : one \in AllConnections <=> IsConnection(one)
<1> SUFFICES ASSUME NEW one, IsConnection(one) PROVE one \in [Fields -> AnyValues]
  BY DEF AllConnections
<1>1. \A f \in Fields : one[f] \in AnyValues
  BY ValuesOfFields DEF IsConnection
<1>2. one = [f \in Fields |-> one[f]]
  BY DEF IsConnection
<1> QED
  BY <1>1, <1>2

\* A form shows a connection, and what it shows otherwise than it did at first was
\* touched; a new one has what only the form of an existing one asks for as it is.
\* The room is not compared (see NothingUntouchedIsSent).
IsForm(fm) ==
    \/ fm = Closed
    \/ /\ fm \in OpenForms
       /\ \/ fm.pc = "new" /\ \A f \in EditOnly : fm.shown[f] = NewRow[f]
          \/ /\ fm.pc = "edit" /\ fm.id \in ConnectionIds
             /\ \A f \in Fields \ {"room"} : fm.shown[f] # FormOf(fm.base)[f] => f \in fm.touched

\* FileEntries of a file.
IsEntry(e) == \A f \in {"name", "mode", "users", "read", "write"} : e[f] \in FieldValues[f]

FileEntries == {e \in [{"name", "mode", "users", "read", "write"} -> AnyValues] : IsEntry(e)}

Imports ==
    [ pc : {"import"}, doomed : SUBSET ConnectionIds, known : SUBSET AnyValues,
      of : SUBSET FileEntries, left : SUBSET FileEntries ]

IsList(shown) == \A i \in ConnectionIds : shown[i] # Absent => IsConnection(shown[i])

\* An import deletes what the list shows under a name that its file does not hold.
IsImport(im, shown) ==
    \/ im = Closed
    \/ /\ im \in Imports
       /\ \A i \in im.doomed : shown[i] # Absent /\ \A e \in im.of : e.name # shown[i].name

AdminOK(fm, im, shown) ==
    IsForm(fm) /\ IsImport(im, shown) /\ IsList(shown) /\ (fm.pc = "list" \/ im.pc = "list")

StoredOK ==
    /\ stored = [i \in ConnectionIds |-> stored[i]]
    /\ IsList(stored)

FileOK == file \subseteq FileEntries

AdminsOK ==
    /\ form = [a \in Admins |-> form[a]] /\ import = [a \in Admins |-> import[a]]
    /\ list = [a \in Admins |-> list[a]]
    /\ \A a \in Admins : AdminOK(form[a], import[a], list[a])

EditingInv == StoredOK /\ FileOK /\ AdminsOK

LEMMA ClosedIs ==
    /\ Closed.pc = "list" /\ IsForm(Closed) /\ \A shown : IsImport(Closed, shown)
BY DEF Closed, IsForm, IsImport

LEMMA PcOfForms == \A fm : IsForm(fm) => fm.pc \in {"list", "new", "edit"} /\ (fm.pc = "list" => fm = Closed)
BY DEF Closed, IsForm, OpenForms

LEMMA PcOfImports ==
    \A im, shown : IsImport(im, shown) => im.pc \in {"list", "import"} /\ (im.pc = "list" => im = Closed)
BY DEF Closed, IsImport, Imports

\* The rows that are left behind.
LEMMA CreatedIs ==
    ASSUME NEW shown, IsConnection(shown), \A f \in EditOnly : shown[f] = NewRow[f]
    PROVE  /\ IsConnection(CreateInput(shown))
           /\ \A f \in Fields : CreateInput(shown)[f] = shown[f] \/ f = "scan"
<1>1. /\ \A f \in Fields : NewRow[f] \in FieldValues[f] /\ shown[f] \in FieldValues[f]
      /\ CreateInput(shown) = [f \in Fields |-> IF f \in EditOnly \cup {"scan"} THEN NewRow[f] ELSE shown[f]]
  BY NewRowIs DEF IsConnection, CreateInput
<1> QED
  BY <1>1 DEF IsConnection

LEMMA RestoredIs ==
    ASSUME NEW e, IsEntry(e)
    PROVE  /\ IsConnection(Restored(e))
           /\ Restored(e).name = e.name /\ Restored(e).mode = e.mode /\ Restored(e).users = e.users
           /\ Restored(e).read => e.read
           /\ Restored(e).write => e.write
<1> DEFINE w == e.write /\ e.read
<1>1. /\ e["name"] \in FieldValues["name"] /\ e["mode"] \in FieldValues["mode"]
      /\ e["users"] \in FieldValues["users"] /\ e["read"] \in FieldValues["read"]
      /\ 1 \in FieldValues["secret"] /\ w \in FieldValues["write"]
  BY ValuesAre DEF IsEntry
<1>2. /\ NewRow = [f \in Fields |-> NewRow[f]]
      /\ \A f \in Fields : NewRow[f] \in FieldValues[f]
  BY NewRowIs DEF IsConnection
<1>3. Restored(e) = [NewRow EXCEPT !.name = e.name, !.secret = 1, !.mode = e.mode, !.users = e.users,
                                   !.read = e.read, !.write = w]
  BY DEF Restored
<1>5. w => e.write
  OBVIOUS
<1> HIDE DEF w
<1>4. Restored(e) = [f \in Fields |->
         IF f = "name" THEN e.name ELSE IF f = "secret" THEN 1 ELSE IF f = "mode" THEN e.mode
         ELSE IF f = "users" THEN e.users ELSE IF f = "read" THEN e.read
         ELSE IF f = "write" THEN w ELSE NewRow[f]]
  BY <1>2, <1>3, FieldsAre
<1>6. IsConnection(Restored(e))
  BY <1>1, <1>2, <1>4, FieldsAre DEF IsConnection
<1>7. /\ Restored(e).name = e.name /\ Restored(e).mode = e.mode /\ Restored(e).users = e.users
      /\ Restored(e).read = e.read /\ Restored(e).write = w
  BY <1>4, FieldsAre
<1> QED
  BY <1>5, <1>6, <1>7

LEMMA PatchedIs ==
    ASSUME NEW one, IsConnection(one), NEW shown, IsConnection(shown), NEW base
    PROVE  LET input == UpdateInput(shown, base)
               new == Patched(one, input) IN
           /\ IsConnection(new)
           /\ \A f \in Fields : new[f] \in {shown[f], one[f]}
           /\ \A f \in Fields : new[f] # one[f] =>
                 \E g \in Groups : f \in g /\ \E e \in g : Differs(shown, base, e)
<1> DEFINE sent == UNION {g \in Groups : \E e \in g : Differs(shown, base, e)}
           input == UpdateInput(shown, base)
           new == Patched(one, input)
<1>1. /\ sent \subseteq Fields
      /\ \A f \in sent : \E g \in Groups : f \in g /\ \E e \in g : Differs(shown, base, e)
  BY DEF Fields
<1>2. input = [f \in sent |-> shown[f]]
  BY DEF UpdateInput
<1> HIDE DEF sent, input
<1>3. new = [f \in Fields |->
         IF f \in DOMAIN input /\ (f = "users" => input[f] # one.users \cap members)
         THEN input[f] ELSE one[f]]
  BY DEF Patched
<1>4. \A f \in Fields : /\ new[f] \in {shown[f], one[f]}
                        /\ new[f] # one[f] => f \in sent
  BY <1>1, <1>2, <1>3
<1>5. IsConnection(new)
  BY <1>3, <1>4 DEF IsConnection
<1> QED
  BY <1>1, <1>4, <1>5 DEF input

LEMMA ReducedIs ==
    ASSUME NEW shown, IsConnection(shown), NEW f \in Fields, NEW v \in FieldValues[f]
    PROVE  /\ IsConnection(Reduced(shown, f, v))
           /\ \A e \in Fields : Reduced(shown, f, v)[e] # shown[e] =>
                 e = f \/ (e = "track" /\ Reduced(shown, f, v)[e] = FALSE) \/ e = "write"
<1> DEFINE red == Reduced(shown, f, v)
           Good == /\ IsConnection(red)
                   /\ \A e \in Fields : red[e] # shown[e] =>
                         e = f \/ (e = "track" /\ red[e] = FALSE) \/ e = "write"
           Off == red = [shown EXCEPT ![f] = FALSE, !.track = FALSE] /\ f \in {"scan", "metrics"}
           Unread == red = [shown EXCEPT !.read = FALSE, !.write = FALSE] /\ f = "read"
           Set == red = [shown EXCEPT ![f] = v]
<1>1. Off \/ Unread \/ Set
  BY Zenon DEF Reduced
<1>2. /\ shown = [e \in Fields |-> shown[e]]
      /\ \A e \in Fields : shown[e] \in FieldValues[e]
  BY DEF IsConnection
<1>3. Off => Good
  <2> SUFFICES ASSUME Off PROVE Good
    OBVIOUS
  <2>1. red = [e \in Fields |-> IF e \in {f, "track"} THEN FALSE ELSE shown[e]]
    BY <1>2, FieldsAre
  <2>2. \A e \in Fields : e \in {f, "track"} => FALSE \in FieldValues[e]
    BY ValuesAre
  <2> QED
    BY <1>2, <2>1, <2>2 DEF IsConnection
<1>4. Unread => Good
  <2> SUFFICES ASSUME Unread PROVE Good
    OBVIOUS
  <2>1. red = [e \in Fields |-> IF e \in {"read", "write"} THEN FALSE ELSE shown[e]]
    BY <1>2, FieldsAre
  <2>2. \A e \in Fields : e \in {"read", "write"} => FALSE \in FieldValues[e]
    BY ValuesAre
  <2> QED
    BY <1>2, <2>1, <2>2 DEF IsConnection
<1>5. Set => Good
  <2> SUFFICES ASSUME Set PROVE Good
    OBVIOUS
  <2>1. red = [e \in Fields |-> IF e = f THEN v ELSE shown[e]]
    BY <1>2
  <2> QED
    BY <1>2, <2>1 DEF IsConnection
<1> HIDE DEF Off, Unread, Set
<1> QED
  BY <1>1, <1>3, <1>4, <1>5

\* What an administrator does leaves the others alone.
LEMMA OneAdmin ==
    ASSUME AdminsOK, NEW a \in Admins, NEW fm, NEW im, NEW shown, AdminOK(fm, im, shown),
           form' = [form EXCEPT ![a] = fm] \/ (form' = form /\ fm = form[a]),
           import' = [import EXCEPT ![a] = im] \/ (import' = import /\ im = import[a]),
           list' = [list EXCEPT ![a] = shown] \/ (list' = list /\ shown = list[a])
    PROVE  AdminsOK'
<1>1. form' = [b \in Admins |-> IF b = a THEN fm ELSE form[b]]
  BY DEF AdminsOK
<1>2. import' = [b \in Admins |-> IF b = a THEN im ELSE import[b]]
  BY DEF AdminsOK
<1>3. list' = [b \in Admins |-> IF b = a THEN shown ELSE list[b]]
  BY DEF AdminsOK
<1>4. ASSUME NEW b \in Admins PROVE AdminOK(form'[b], import'[b], list'[b])
  BY <1>1, <1>2, <1>3 DEF AdminsOK
<1> QED
  BY <1>1, <1>2, <1>3, <1>4 DEF AdminsOK

LEMMA OnListIs ==
    ASSUME AdminsOK, NEW a \in Admins
    PROVE  /\ AdminOK(form[a], import[a], list[a])
           /\ OnList(a) => form[a] = Closed /\ import[a] = Closed
           /\ form[a].pc \in {"new", "edit"} => import[a] = Closed
           /\ import[a].pc = "import" => form[a] = Closed
<1>1. AdminOK(form[a], import[a], list[a])
  BY DEF AdminsOK
<1> QED
  BY <1>1, PcOfForms, PcOfImports DEF AdminOK, OnList

LEMMA ListedIs == StoredOK => IsList(Listed)
BY MaskedIs DEF StoredOK, IsList, Listed

LEMMA OneRow ==
    ASSUME StoredOK, NEW i \in ConnectionIds, NEW one, one = Absent \/ IsConnection(one),
           stored' = [stored EXCEPT ![i] = one]
    PROVE  /\ StoredOK' /\ stored'[i] = one
           /\ \A j \in ConnectionIds : j # i => stored'[j] = stored[j]
<1>1. stored' = [j \in ConnectionIds |-> IF j = i THEN one ELSE stored[j]]
  BY DEF StoredOK
<1> QED
  BY <1>1 DEF StoredOK, IsList

TouchedTo(fm, shown, touched) == [fm EXCEPT !.shown = shown, !.touched = touched]

LEMMA TouchedFields ==
    ASSUME NEW fm \in OpenForms, NEW shown \in AllConnections, NEW touched \in SUBSET Fields
    PROVE  /\ TouchedTo(fm, shown, touched) \in OpenForms
           /\ TouchedTo(fm, shown, touched).pc = fm.pc
           /\ TouchedTo(fm, shown, touched).id = fm.id
           /\ TouchedTo(fm, shown, touched).base = fm.base
           /\ TouchedTo(fm, shown, touched).shown = shown
           /\ TouchedTo(fm, shown, touched).touched = touched
BY DEF TouchedTo, OpenForms

LEMMA TouchedForm ==
    ASSUME NEW fm, IsForm(fm), fm.pc \in {"new", "edit"}, NEW f \in Fields, NEW v \in FieldValues[f],
           Touchable(fm.shown, fm.pc = "edit", f), NEW shown, shown = Reduced(fm.shown, f, v),
           NEW touched, touched = fm.touched \cup {e \in Fields : shown[e] # fm.shown[e]}
    PROVE  IsForm(TouchedTo(fm, shown, touched)) /\ TouchedTo(fm, shown, touched).pc = fm.pc
<1> DEFINE new == TouchedTo(fm, shown, touched)
<1>1. /\ fm \in OpenForms
      /\ \/ fm.pc = "new" /\ \A e \in EditOnly : fm.shown[e] = NewRow[e]
         \/ /\ fm.pc = "edit" /\ fm.id \in ConnectionIds
            /\ \A e \in Fields \ {"room"} : fm.shown[e] # FormOf(fm.base)[e] => e \in fm.touched
  <2>1. fm # Closed
    BY ClosedIs
  <2> QED
    BY <2>1 DEF IsForm
<1>2. /\ IsConnection(fm.shown) /\ fm.touched \in SUBSET Fields
  BY <1>1, ConnectionsAre DEF OpenForms
<1>4. /\ IsConnection(shown)
      /\ \A e \in Fields : shown[e] # fm.shown[e] =>
            e = f \/ (e = "track" /\ shown[e] = FALSE) \/ e = "write"
  BY <1>2, ReducedIs
<1>3. /\ new \in OpenForms
      /\ new.pc = fm.pc /\ new.id = fm.id /\ new.base = fm.base /\ new.shown = shown /\ new.touched = touched
  <2>1. shown \in AllConnections /\ touched \in SUBSET Fields
    BY <1>2, <1>4, ConnectionsAre
  <2> QED
    BY <1>1, <2>1, TouchedFields
<1> HIDE DEF new
<1>5. CASE fm.pc = "new"
  <2>1. f \notin EditOnly
    BY <1>5 DEF Touchable
  <2>2. NewRow["track"] = FALSE /\ "write" \notin EditOnly
    BY DEF NewRow, EditOnly
  <2>3. \A e \in EditOnly : shown[e] = NewRow[e]
    BY <1>1, <1>4, <1>5, <2>1, <2>2, FieldsAre
  <2>4. new.pc = "new" /\ \A e \in EditOnly : new.shown[e] = NewRow[e]
    BY <1>3, <1>5, <2>3
  <2>5. IsForm(new)
    BY <1>3, <2>4, Zenon DEF IsForm
  <2> QED
    BY <1>3, <2>5 DEF new
<1>6. CASE fm.pc = "edit"
  <2>1. \A e \in Fields \ {"room"} : shown[e] # FormOf(fm.base)[e] => e \in touched
    BY <1>1, <1>6
  <2>2. /\ new.pc = "edit" /\ new.id \in ConnectionIds
        /\ \A e \in Fields \ {"room"} : new.shown[e] # FormOf(new.base)[e] => e \in new.touched
    BY <1>1, <1>3, <1>6, <2>1
  <2>3. IsForm(new)
    BY <1>3, <2>2, Zenon DEF IsForm
  <2> QED
    BY <1>3, <2>3 DEF new
<1> QED
  BY <1>5, <1>6

-----------------------------------------------------------------------------
(* What is meant.                                                            *)

IsMeant(i) ==
    stored'[i] # stored[i] =>
        CASE stored[i] = Absent -> MeantByNew(i)
          [] stored'[i] = Absent -> MeantByDeletion(i)
          [] OTHER -> MeantByForm(i)

LEMMA MeantIs ==
    ASSUME NEW i, \/ stored'[i] = stored[i]
                  \/ stored[i] = Absent /\ MeantByNew(i)
                  \/ stored[i] # Absent /\ stored'[i] = Absent /\ MeantByDeletion(i)
                  \/ stored[i] # Absent /\ stored'[i] # Absent /\ MeantByForm(i)
    PROVE  IsMeant(i)
BY Zenon DEF IsMeant

LEMMA UpdateIsMeant ==
    ASSUME EditingInv, NEW a \in Admins, form[a].pc = "edit", Update(form[a].id, Input(a))
    PROVE  StoredOK' /\ \A i \in ConnectionIds : IsMeant(i)
<1> DEFINE fm == form[a]
           new == Patched(stored[fm.id], Input(a))
<1>1. /\ IsConnection(fm.base) /\ IsConnection(fm.shown) /\ fm.id \in ConnectionIds
      /\ \A f \in Fields \ {"room"} : fm.shown[f] # FormOf(fm.base)[f] => f \in fm.touched
  <2>1. IsForm(fm) /\ fm # Closed
    BY OnListIs, ClosedIs DEF EditingInv, AdminOK
  <2>2. fm \in OpenForms
    BY <2>1 DEF IsForm
  <2> QED
    BY <2>1, <2>2, ConnectionsAre DEF IsForm, OpenForms
<1>2. stored[fm.id] # Absent /\ stored' = [stored EXCEPT ![fm.id] = new]
  BY DEF Update
<1>3. IsConnection(stored[fm.id])
  BY <1>1, <1>2 DEF EditingInv, StoredOK, IsList
<1>4. /\ IsConnection(new)
      /\ \A f \in Fields : new[f] \in {fm.shown[f], stored[fm.id][f]}
      /\ \A f \in Fields : new[f] # stored[fm.id][f] =>
            \E g \in Groups : f \in g /\ \E e \in g : Differs(fm.shown, fm.base, e)
  BY <1>1, <1>3, PatchedIs DEF Input
<1>5. /\ StoredOK' /\ stored'[fm.id] = new
      /\ \A j \in ConnectionIds : j # fm.id => stored'[j] = stored[j]
  BY <1>1, <1>2, <1>4, OneRow DEF EditingInv
<1> HIDE DEF new
<1>6. ASSUME NEW g \in Groups \ {{"room"}}, NEW f \in g, new[f] # stored[fm.id][f]
      PROVE  g \cap fm.touched # {}
  <2>1. f \in Fields
    BY DEF Fields
  <2>2. PICK h \in Groups : f \in h /\ \E e \in h : Differs(fm.shown, fm.base, e)
    BY <1>4, <1>6, <2>1
  <2>3. h = g
    BY <2>2, OneGroup
  <2>4. PICK e \in g : Differs(fm.shown, fm.base, e)
    BY <2>2, <2>3
  <2>5. e # "room"
    <3>1. {"room"} \in Groups
      BY DEF Groups
    <3> QED
      BY <1>6, <3>1, OneGroup
  <2>6. e \in Fields
    BY DEF Fields
  <2>7. fm.shown[e] # FormOf(fm.base)[e]
    BY <1>1, <2>4, <2>5, <2>6, FormOfIs DEF Differs
  <2> QED
    BY <1>1, <2>5, <2>6, <2>7
<1>7. MeantByForm(fm.id)
  <2>1. Edits(a, fm.id)
    BY DEF Edits
  <2>2. ASSUME NEW g \in Groups \ {{"room"}}, NEW f \in g
        PROVE  stored'[fm.id][f] = fm.shown[f] \/ stored'[fm.id][f] = stored[fm.id][f]
    <3>1. f \in Fields
      BY DEF Fields
    <3> QED
      BY <1>4, <1>5, <3>1
  <2>3. ASSUME NEW g \in Groups \ {{"room"}}, \E f \in g : stored'[fm.id][f] # stored[fm.id][f]
        PROVE  g \cap fm.touched # {}
    BY <1>5, <1>6, <2>3
  <2> QED
    BY <2>1, <2>2, <2>3 DEF MeantByForm
<1>8. stored'[fm.id] # Absent
  BY <1>4, <1>5, ConnectionIsThere
<1> QED
  BY <1>2, <1>5, <1>7, <1>8, MeantIs

\* A connection is made by a form that is new, or by an import.
LEMMA InsertIs ==
    ASSUME EditingInv, NEW one, IsConnection(one), InsertRow(one)
    PROVE  /\ StoredOK'
           /\ \A i \in ConnectionIds :
                 stored'[i] = stored[i] \/ (stored[i] = Absent /\ stored'[i] = one)
<1>1. PICK i \in FreeIds : stored' = [stored EXCEPT ![i] = one]
  BY DEF InsertRow
<1>2. i \in ConnectionIds /\ stored[i] = Absent
  BY DEF FreeIds
<1> QED
  BY <1>1, <1>2, OneRow DEF EditingInv

LEMMA SaveNewIsMeant ==
    ASSUME EditingInv, NEW a \in Admins, form[a].pc = "new", InsertRow(CreateInput(form[a].shown))
    PROVE  StoredOK' /\ \A i \in ConnectionIds : IsMeant(i)
<1> DEFINE one == CreateInput(form[a].shown)
<1>1. /\ IsConnection(form[a].shown) /\ \A f \in EditOnly : form[a].shown[f] = NewRow[f]
  <2>1. IsForm(form[a]) /\ form[a] # Closed
    BY OnListIs, ClosedIs DEF EditingInv, AdminOK
  <2>2. form[a] \in OpenForms
    BY <2>1 DEF IsForm
  <2> QED
    BY <2>1, <2>2, ConnectionsAre DEF IsForm, OpenForms
<1>2. IsConnection(one) /\ \A f \in Fields : one[f] = form[a].shown[f] \/ f = "scan"
  BY <1>1, CreatedIs
<1> HIDE DEF one
<1>3. /\ StoredOK'
      /\ \A i \in ConnectionIds :
            stored'[i] = stored[i] \/ (stored[i] = Absent /\ stored'[i] = one)
  BY <1>2, InsertIs DEF one
<1>4. ASSUME NEW i \in ConnectionIds, stored'[i] = one PROVE MeantByNew(i)
  BY <1>2, <1>4 DEF MeantByNew
<1> QED
  BY <1>3, <1>4, MeantIs

LEMMA ImportIsMeant ==
    ASSUME EditingInv, NEW a \in Admins, import[a].pc = "import", NEW e \in import[a].left,
           InsertRow(Restored(e))
    PROVE  StoredOK' /\ \A i \in ConnectionIds : IsMeant(i)
<1> DEFINE one == Restored(e)
<1>1. IsEntry(e)
  <2>1. IsImport(import[a], list[a]) /\ import[a] # Closed
    BY OnListIs, ClosedIs DEF EditingInv, AdminOK
  <2> QED
    BY <2>1 DEF IsImport, Imports, FileEntries
<1>2. /\ IsConnection(one)
      /\ one.name = e.name /\ one.mode = e.mode /\ one.users = e.users
      /\ one.read => e.read
      /\ one.write => e.write
  BY <1>1, RestoredIs
<1> HIDE DEF one
<1>3. /\ StoredOK'
      /\ \A i \in ConnectionIds :
            stored'[i] = stored[i] \/ (stored[i] = Absent /\ stored'[i] = one)
  BY <1>2, InsertIs DEF one
<1>4. ASSUME NEW i \in ConnectionIds, stored'[i] = one PROVE MeantByNew(i)
  BY <1>2, <1>4 DEF MeantByNew
<1> QED
  BY <1>3, <1>4, MeantIs

LEMMA DeletionIsMeant ==
    ASSUME EditingInv, NEW i \in ConnectionIds, Delete(i), MeantByDeletion(i)
    PROVE  StoredOK' /\ \A j \in ConnectionIds : IsMeant(j)
<1>1. stored[i] # Absent /\ stored' = [stored EXCEPT ![i] = Absent]
  BY DEF Delete
<1>2. /\ StoredOK' /\ stored'[i] = Absent
      /\ \A j \in ConnectionIds : j # i => stored'[j] = stored[j]
  BY <1>1, OneRow DEF EditingInv
<1> QED
  BY <1>1, <1>2, MeantIs

-----------------------------------------------------------------------------
(* At the start, and after every step.                                       *)

LEMMA EditingInitially == EditingInit => EditingInv
<1> SUFFICES ASSUME EditingInit PROVE EditingInv
  OBVIOUS
<1>1. StoredOK
  BY RowsAssumption DEF EditingInit, StoredOK, IsList
<1>2. FileOK
  BY DEF EditingInit, FileOK
<1>3. AdminOK(Closed, Closed, Listed)
  BY <1>1, ListedIs, ClosedIs DEF AdminOK
<1>4. AdminsOK
  BY <1>3 DEF EditingInit, AdminsOK
<1> QED
  BY <1>1, <1>2, <1>4 DEF EditingInv

LEMMA StoredStays ==
    ASSUME StoredOK, stored' = stored
    PROVE  StoredOK' /\ \A i \in ConnectionIds : IsMeant(i)
BY MeantIs DEF StoredOK

LEMMA FormIs ==
    ASSUME NEW fm, fm \in OpenForms,
           \/ fm.pc = "new" /\ \A f \in EditOnly : fm.shown[f] = NewRow[f]
           \/ /\ fm.pc = "edit" /\ fm.id \in ConnectionIds
              /\ \A f \in Fields \ {"room"} : fm.shown[f] # FormOf(fm.base)[f] => f \in fm.touched
    PROVE  IsForm(fm)
BY Zenon DEF IsForm

LEMMA OpenNewKeeps ==
    ASSUME EditingInv, NEW a \in Admins, OpenNew(a)
    PROVE  EditingInv' /\ \A i \in ConnectionIds : IsMeant(i)
<1> DEFINE fm == [pc |-> "new", id |-> Absent, base |-> NewRow, shown |-> NewRow, touched |-> {}]
<1>1. /\ OnList(a) /\ form' = [form EXCEPT ![a] = fm]
      /\ UNCHANGED <<stored, list, file, import>>
  BY DEF OpenNew, Visit
<1>2. NewRow \in AllConnections
  BY NewRowIs, ConnectionsAre
<1>3. fm \in OpenForms /\ fm.pc = "new" /\ fm.shown = NewRow
  BY <1>2 DEF OpenForms
<1> HIDE DEF fm
<1>4. IsForm(fm)
  BY <1>3, FormIs
<1>5. import[a] = Closed /\ IsList(list[a])
  BY <1>1, OnListIs DEF EditingInv, AdminOK
<1>6. AdminOK(fm, Closed, list[a])
  BY <1>4, <1>5, ClosedIs DEF AdminOK
<1>7. AdminsOK'
  BY <1>1, <1>5, <1>6, OneAdmin DEF EditingInv
<1>8. StoredOK' /\ \A i \in ConnectionIds : IsMeant(i)
  BY <1>1, StoredStays DEF EditingInv
<1>9. FileOK'
  BY <1>1 DEF EditingInv, FileOK
<1> QED
  BY <1>7, <1>8, <1>9 DEF EditingInv

LEMMA OpenEditorKeeps ==
    ASSUME EditingInv, NEW a \in Admins, NEW i \in ConnectionIds, OpenEditor(a, i)
    PROVE  EditingInv' /\ \A j \in ConnectionIds : IsMeant(j)
<1> DEFINE base == Masked(stored[i])
           shown == FormOf(base)
           fm == [pc |-> "edit", id |-> i, base |-> base, shown |-> shown, touched |-> {}]
<1>1. /\ OnList(a) /\ form' = [form EXCEPT ![a] = fm] /\ stored[i] # Absent
      /\ UNCHANGED <<stored, list, file, import>>
  BY DEF OpenEditor, Visit
<1>2. IsConnection(base) /\ IsConnection(shown)
  BY <1>1, MaskedIs, FormOfIs DEF EditingInv, StoredOK, IsList
<1>10. base \in AllConnections /\ shown \in AllConnections /\ shown = FormOf(base)
  BY <1>2, ConnectionsAre
<1> HIDE DEF base, shown
<1>3. /\ fm \in OpenForms /\ fm.pc = "edit" /\ fm.shown = shown /\ fm.base = base /\ fm.id = i
  BY <1>10 DEF OpenForms
<1> HIDE DEF fm
<1>4. IsForm(fm)
  BY <1>3, <1>10, FormIs
<1>5. import[a] = Closed /\ IsList(list[a])
  BY <1>1, OnListIs DEF EditingInv, AdminOK
<1>6. AdminOK(fm, Closed, list[a])
  BY <1>4, <1>5, ClosedIs DEF AdminOK
<1>7. AdminsOK'
  BY <1>1, <1>5, <1>6, OneAdmin DEF EditingInv
<1>8. StoredOK' /\ \A j \in ConnectionIds : IsMeant(j)
  BY <1>1, StoredStays DEF EditingInv
<1>9. FileOK'
  BY <1>1 DEF EditingInv, FileOK
<1> QED
  BY <1>7, <1>8, <1>9 DEF EditingInv

LEMMA TouchKeeps ==
    ASSUME EditingInv, NEW a \in Admins, NEW f \in Fields, NEW v \in FieldValues[f], Touch(a, f, v)
    PROVE  EditingInv' /\ \A i \in ConnectionIds : IsMeant(i)
<1> DEFINE fm == form[a]
           shown == Reduced(fm.shown, f, v)
           touched == fm.touched \cup {e \in Fields : shown[e] # fm.shown[e]}
<1>1. /\ fm.pc \in {"new", "edit"} /\ Touchable(fm.shown, fm.pc = "edit", f)
      /\ form' = [form EXCEPT ![a].shown = shown, ![a].touched = touched]
      /\ UNCHANGED <<stored, list, file, import>>
  BY DEF Touch
<1>2. IsForm(fm) /\ IsList(list[a]) /\ import[a] = Closed
  BY <1>1, OnListIs DEF EditingInv, AdminOK
<1>3. IsForm(TouchedTo(fm, shown, touched)) /\ TouchedTo(fm, shown, touched).pc = fm.pc
  BY <1>1, <1>2, TouchedForm
<1>4. form' = [form EXCEPT ![a] = TouchedTo(fm, shown, touched)]
  <2> HIDE DEF shown, touched
  <2>1. form = [b \in Admins |-> form[b]]
    BY DEF EditingInv, AdminsOK
  <2> QED
    BY <1>1, <2>1 DEF TouchedTo
<1> HIDE DEF shown, touched
<1>6. AdminOK(TouchedTo(fm, shown, touched), Closed, list[a])
  BY <1>2, <1>3, ClosedIs DEF AdminOK
<1>7. AdminsOK'
  BY <1>1, <1>2, <1>4, <1>6, OneAdmin DEF EditingInv
<1>8. StoredOK' /\ \A i \in ConnectionIds : IsMeant(i)
  BY <1>1, StoredStays DEF EditingInv
<1>9. FileOK'
  BY <1>1 DEF EditingInv, FileOK
<1> QED
  BY <1>7, <1>8, <1>9 DEF EditingInv

LEMMA ListOK == StoredOK => AdminOK(Closed, Closed, Listed)
BY ListedIs, ClosedIs DEF AdminOK

LEMMA SaveKeeps ==
    ASSUME EditingInv, NEW a \in Admins, Save(a)
    PROVE  EditingInv' /\ \A i \in ConnectionIds : IsMeant(i)
<1>1. StoredOK' /\ \A i \in ConnectionIds : IsMeant(i)
  <2>1. CASE form[a].pc = "edit" /\ Update(form[a].id, Input(a))
    BY <2>1, UpdateIsMeant
  <2>2. CASE form[a].pc = "new" /\ InsertRow(CreateInput(form[a].shown))
    BY <2>2, SaveNewIsMeant
  <2> QED
    BY <2>1, <2>2 DEF Save
<1>2. /\ UNCHANGED <<members, file, import>> /\ form[a].pc \in {"new", "edit"}
      /\ \/ form' = [form EXCEPT ![a] = Closed] /\ list' = [list EXCEPT ![a] = Listed']
         \/ UNCHANGED <<form, list>>
  <2>1. Sendable(a) /\ Saved(a)
    BY DEF Save
  <2>2. form[a].pc \in {"new", "edit"}
    BY <2>1 DEF Sendable
  <2> QED
    BY <2>1, <2>2 DEF Saved
<1>3. import[a] = Closed /\ AdminOK(form[a], import[a], list[a])
  BY <1>2, OnListIs DEF EditingInv
<1>4. AdminOK(Closed, Closed, Listed')
  <2>1. ASSUME NEW i \in ConnectionIds, stored'[i] # Absent PROVE IsConnection(Masked(stored'[i]))
    BY <1>1, <2>1, MaskedIs DEF StoredOK, IsList
  <2>2. Listed' = [i \in ConnectionIds |-> IF stored'[i] = Absent THEN Absent ELSE Masked(stored'[i])]
    BY <1>2 DEF Listed, Masked
  <2> QED
    BY <2>1, <2>2, ClosedIs DEF AdminOK, IsList
<1>5. AdminsOK'
  <2>1. CASE form' = [form EXCEPT ![a] = Closed] /\ list' = [list EXCEPT ![a] = Listed']
    BY <1>2, <1>3, <1>4, <2>1, OneAdmin DEF EditingInv
  <2>2. CASE UNCHANGED <<form, list>>
    BY <1>2, <1>3, <2>2, OneAdmin DEF EditingInv
  <2> QED
    BY <1>2, <2>1, <2>2
<1>6. FileOK'
  BY <1>2 DEF EditingInv, FileOK
<1> QED
  BY <1>1, <1>5, <1>6 DEF EditingInv

\* The form or the import is closed, the list is loaded.
LEMMA ClosingKeeps ==
    ASSUME EditingInv, NEW a \in Admins, CloseForm(a) \/ LoadList(a) \/ ImportEnds(a)
    PROVE  EditingInv' /\ \A i \in ConnectionIds : IsMeant(i)
<1>1. UNCHANGED <<stored, file>>
  BY DEF CloseForm, LoadList, ImportEnds
<1>2. AdminOK(form[a], import[a], list[a]) /\ AdminOK(Closed, Closed, Listed)
  BY OnListIs, ListOK DEF EditingInv
<1>3. AdminsOK'
  <2>1. CASE CloseForm(a)
    <3>1. /\ form' = [form EXCEPT ![a] = Closed] /\ UNCHANGED <<list, import>>
          /\ import[a] = Closed
      BY <2>1, OnListIs DEF CloseForm, EditingInv
    <3>2. AdminOK(Closed, Closed, list[a])
      BY <1>2, ClosedIs DEF AdminOK
    <3> QED
      BY <3>1, <3>2, OneAdmin DEF EditingInv
  <2>2. CASE LoadList(a)
    <3>1. /\ list' = [list EXCEPT ![a] = Listed] /\ UNCHANGED <<form, import>>
          /\ form[a] = Closed /\ import[a] = Closed
      BY <2>2, OnListIs DEF LoadList, EditingInv
    <3> QED
      BY <1>2, <3>1, OneAdmin DEF EditingInv
  <2>3. CASE ImportEnds(a)
    <3>1. /\ import' = [import EXCEPT ![a] = Closed] /\ list' = [list EXCEPT ![a] = Listed]
          /\ form' = form /\ form[a] = Closed
      BY <2>3, OnListIs DEF ImportEnds, EditingInv
    <3> QED
      BY <1>2, <3>1, OneAdmin DEF EditingInv
  <2> QED
    BY <2>1, <2>2, <2>3
<1>4. StoredOK' /\ \A i \in ConnectionIds : IsMeant(i)
  BY <1>1, StoredStays DEF EditingInv
<1>5. FileOK'
  BY <1>1 DEF EditingInv, FileOK
<1> QED
  BY <1>3, <1>4, <1>5 DEF EditingInv

LEMMA DeleteOneKeeps ==
    ASSUME EditingInv, NEW a \in Admins, NEW i \in ConnectionIds, DeleteOne(a, i)
    PROVE  EditingInv' /\ \A j \in ConnectionIds : IsMeant(j)
<1>1. /\ OnList(a) /\ list[a][i] # Absent /\ Delete(i)
      /\ UNCHANGED <<form, list, file, import>>
  BY DEF DeleteOne, Shown
<1>2. MeantByDeletion(i)
  BY <1>1 DEF MeantByDeletion
<1>3. StoredOK' /\ \A j \in ConnectionIds : IsMeant(j)
  BY <1>1, <1>2, DeletionIsMeant
<1>4. AdminsOK' /\ FileOK'
  BY <1>1 DEF EditingInv, AdminsOK, FileOK
<1> QED
  BY <1>3, <1>4 DEF EditingInv

LEMMA ExportKeeps ==
    ASSUME EditingInv, NEW a \in Admins, Export(a)
    PROVE  EditingInv' /\ \A i \in ConnectionIds : IsMeant(i)
<1> DEFINE entry(i) == [f \in {"name", "mode", "users", "read", "write"} |-> list[a][i][f]]
<1>1. /\ file' = {entry(i) : i \in Shown(a)} /\ UNCHANGED <<stored, form, list, import>>
  BY DEF Export
<1>2. ASSUME NEW i \in Shown(a) PROVE entry(i) \in FileEntries
  <2>1. IsConnection(list[a][i])
    BY OnListIs DEF Shown, EditingInv, AdminOK, IsList
  <2>2. \A f \in {"name", "mode", "users", "read", "write"} :
           list[a][i][f] \in FieldValues[f] /\ FieldValues[f] \subseteq AnyValues
    BY <2>1, FieldsAre, ValuesOfFields DEF IsConnection
  <2> QED
    BY <2>2 DEF FileEntries, IsEntry
<1>3. FileOK'
  BY <1>1, <1>2 DEF FileOK
<1>4. AdminsOK'
  BY <1>1 DEF EditingInv, AdminsOK
<1>5. StoredOK' /\ \A i \in ConnectionIds : IsMeant(i)
  BY <1>1, StoredStays DEF EditingInv
<1> QED
  BY <1>3, <1>4, <1>5 DEF EditingInv

LEMMA StartImportKeeps ==
    ASSUME EditingInv, NEW a \in Admins, NEW replace \in BOOLEAN, StartImport(a, replace)
    PROVE  EditingInv' /\ \A i \in ConnectionIds : IsMeant(i)
<1> DEFINE gone == IF replace THEN {i \in Shown(a) : \A e \in file : e.name # list[a][i].name} ELSE {}
           names == {list[a][i].name : i \in Shown(a)}
           im == [pc |-> "import", doomed |-> gone, known |-> names, of |-> file, left |-> file]
<1>1. /\ OnList(a) /\ import' = [import EXCEPT ![a] = im]
      /\ UNCHANGED <<stored, form, list, file>>
  BY DEF StartImport, Visit
<1>2. form[a] = Closed /\ IsList(list[a])
  BY <1>1, OnListIs DEF EditingInv, AdminOK
<1>3. /\ gone \in SUBSET ConnectionIds
      /\ \A i \in gone : list[a][i] # Absent /\ \A e \in file : e.name # list[a][i].name
  BY DEF Shown
<1>4. names \in SUBSET AnyValues
  <2>1. ASSUME NEW i \in Shown(a) PROVE list[a][i].name \in AnyValues
    <3>1. IsConnection(list[a][i])
      BY <1>2 DEF Shown, IsList
    <3> QED
      BY <3>1, FieldsAre, ValuesOfFields DEF IsConnection
  <2> QED
    BY <2>1
<1>5. file \in SUBSET FileEntries
  BY DEF EditingInv, FileOK
<1> HIDE DEF gone, names
<1>6. im \in Imports /\ im.doomed = gone /\ im.of = file /\ im.pc = "import"
  BY <1>3, <1>4, <1>5 DEF Imports
<1> HIDE DEF im
<1>7. IsImport(im, list[a])
  BY <1>3, <1>6 DEF IsImport
<1>8. AdminOK(Closed, im, list[a])
  BY <1>2, <1>7, ClosedIs DEF AdminOK
<1>9. AdminsOK'
  BY <1>1, <1>2, <1>8, OneAdmin DEF EditingInv
<1>10. StoredOK' /\ \A i \in ConnectionIds : IsMeant(i)
  BY <1>1, StoredStays DEF EditingInv
<1>11. FileOK'
  BY <1>1 DEF EditingInv, FileOK
<1> QED
  BY <1>9, <1>10, <1>11 DEF EditingInv

\* An import with less to delete, fewer names or less to make.
Rest(im, doomed, known, left) == [im EXCEPT !.doomed = doomed, !.known = known, !.left = left]

LEMMA RestIs ==
    ASSUME NEW im \in Imports, NEW doomed \in SUBSET im.doomed, NEW known \in SUBSET im.known,
           NEW left \in SUBSET im.left
    PROVE  /\ Rest(im, doomed, known, left) \in Imports
           /\ Rest(im, doomed, known, left).pc = "import"
           /\ Rest(im, doomed, known, left).doomed = doomed
           /\ Rest(im, doomed, known, left).of = im.of
BY DEF Rest, Imports

LEMMA RestOfImport ==
    ASSUME NEW im, NEW shown, IsImport(im, shown), im.pc = "import",
           NEW doomed \in SUBSET im.doomed, NEW known \in SUBSET im.known, NEW left \in SUBSET im.left
    PROVE  IsImport(Rest(im, doomed, known, left), shown)
<1>1. im \in Imports /\ \A i \in im.doomed : shown[i] # Absent /\ \A e \in im.of : e.name # shown[i].name
  BY ClosedIs DEF IsImport
<1>2. /\ Rest(im, doomed, known, left) \in Imports
      /\ Rest(im, doomed, known, left).doomed = doomed
      /\ Rest(im, doomed, known, left).of = im.of
  BY <1>1, RestIs
<1> QED
  BY <1>1, <1>2 DEF IsImport

\* The parts of an import that goes on.
LEMMA ImportIs ==
    ASSUME AdminsOK, NEW a \in Admins, import[a].pc = "import"
    PROVE  /\ import[a] \in Imports
           /\ IsImport(import[a], list[a]) /\ IsList(list[a]) /\ form[a] = Closed
           /\ \A i \in import[a].doomed :
                 list[a][i] # Absent /\ \A e \in import[a].of : e.name # list[a][i].name
<1>1. IsImport(import[a], list[a]) /\ IsList(list[a]) /\ form[a] = Closed
  BY OnListIs DEF AdminOK
<1> QED
  BY <1>1, ClosedIs DEF IsImport

LEMMA ImportGoesOn ==
    ASSUME AdminsOK, NEW a \in Admins, import[a].pc = "import", UNCHANGED <<form, list>>,
           NEW doomed \in SUBSET import[a].doomed, NEW known \in SUBSET import[a].known,
           NEW left \in SUBSET import[a].left,
           import' = [import EXCEPT ![a] = Rest(import[a], doomed, known, left)]
    PROVE  AdminsOK'
<1> DEFINE im == Rest(import[a], doomed, known, left)
<1>1. IsImport(import[a], list[a]) /\ IsList(list[a]) /\ form[a] = Closed
  BY ImportIs
<1>2. IsImport(im, list[a])
  BY <1>1, RestOfImport
<1> HIDE DEF im
<1>3. AdminOK(Closed, im, list[a])
  BY <1>1, <1>2, ClosedIs DEF AdminOK
<1> QED
  BY <1>1, <1>3, OneAdmin DEF im

LEMMA ImportDeleteKeeps ==
    ASSUME EditingInv, NEW a \in Admins, NEW i \in ConnectionIds, ImportDelete(a, i)
    PROVE  EditingInv' /\ \A j \in ConnectionIds : IsMeant(j)
<1> DEFINE im == import[a]
           Forgot == import' = [import EXCEPT ![a].doomed = @ \ {i}, ![a].known = @ \ {list[a][i].name}]
           Kept == import' = [import EXCEPT ![a].doomed = @ \ {i}]
<1>1. /\ im.pc = "import" /\ i \in im.doomed
      /\ Delete(i) \/ UNCHANGED stored
      /\ Forgot \/ Kept
      /\ UNCHANGED <<form, list, file>>
  BY DEF ImportDelete
<1>2. /\ im \in Imports /\ list[a][i] # Absent /\ \A e \in im.of : e.name # list[a][i].name
      /\ import = [b \in Admins |-> import[b]]
  BY <1>1, ImportIs DEF EditingInv, AdminsOK
<1>3. PICK known \in SUBSET im.known :
         import' = [import EXCEPT ![a] = Rest(im, im.doomed \ {i}, known, im.left)]
  <2>1. CASE Forgot
    <3>1. import' = [import EXCEPT ![a] = Rest(im, im.doomed \ {i}, im.known \ {list[a][i].name}, im.left)]
      BY <1>2, <2>1 DEF Rest, Imports
    <3> QED
      BY <3>1
  <2>2. CASE Kept
    <3>1. import' = [import EXCEPT ![a] = Rest(im, im.doomed \ {i}, im.known, im.left)]
      BY <1>2, <2>2 DEF Rest, Imports
    <3> QED
      BY <3>1
  <2> QED
    BY <1>1, <2>1, <2>2
<1>4. AdminsOK'
  BY <1>1, <1>3, ImportGoesOn DEF EditingInv
<1>5. MeantByDeletion(i)
  BY <1>1, <1>2 DEF MeantByDeletion
<1>6. StoredOK' /\ \A j \in ConnectionIds : IsMeant(j)
  <2>1. CASE Delete(i)
    BY <1>5, <2>1, DeletionIsMeant
  <2>2. CASE UNCHANGED stored
    BY <2>2, StoredStays DEF EditingInv
  <2> QED
    BY <1>1, <2>1, <2>2
<1>7. FileOK'
  BY <1>1 DEF EditingInv, FileOK
<1> QED
  BY <1>4, <1>6, <1>7 DEF EditingInv

LEMMA ImportOneKeeps ==
    ASSUME EditingInv, NEW a \in Admins, NEW e, ImportOne(a, e)
    PROVE  EditingInv' /\ \A i \in ConnectionIds : IsMeant(i)
<1> DEFINE im == import[a]
<1>1. /\ im.pc = "import" /\ e \in im.left
      /\ InsertRow(Restored(e)) \/ UNCHANGED stored
      /\ import' = [import EXCEPT ![a].left = @ \ {e}]
      /\ UNCHANGED <<form, list, file>>
  BY DEF ImportOne
<1>2. im \in Imports /\ import = [b \in Admins |-> import[b]]
  BY <1>1, ImportIs DEF EditingInv, AdminsOK
<1>3. PICK left \in SUBSET im.left :
         import' = [import EXCEPT ![a] = Rest(im, im.doomed, im.known, left)]
  <2>1. import' = [import EXCEPT ![a] = Rest(im, im.doomed, im.known, im.left \ {e})]
    BY <1>1, <1>2 DEF Rest, Imports
  <2> QED
    BY <2>1
<1>4. AdminsOK'
  BY <1>1, <1>3, ImportGoesOn DEF EditingInv
<1>5. StoredOK' /\ \A i \in ConnectionIds : IsMeant(i)
  <2>1. CASE InsertRow(Restored(e))
    BY <1>1, <2>1, ImportIsMeant
  <2>2. CASE UNCHANGED stored
    BY <2>2, StoredStays DEF EditingInv
  <2> QED
    BY <1>1, <2>1, <2>2
<1>6. FileOK'
  BY <1>1 DEF EditingInv, FileOK
<1> QED
  BY <1>4, <1>5, <1>6 DEF EditingInv

LEMMA EditingKept ==
    ASSUME EditingInv, EditingNext \/ UNCHANGED editingVars
    PROVE  EditingInv' /\ \A i \in ConnectionIds : IsMeant(i)
<1>1. CASE UNCHANGED editingVars
  <2>1. UNCHANGED <<stored, form, list, file, import>>
    BY <1>1 DEF editingVars
  <2>2. StoredOK' /\ \A i \in ConnectionIds : IsMeant(i)
    BY <2>1, StoredStays DEF EditingInv
  <2> QED
    BY <2>1, <2>2 DEF EditingInv, AdminsOK, FileOK
<1>2. CASE \E u \in Members : DeleteMember(u)
  <2>1. UNCHANGED <<stored, form, list, file, import>>
    BY <1>2 DEF DeleteMember
  <2>2. StoredOK' /\ \A i \in ConnectionIds : IsMeant(i)
    BY <2>1, StoredStays DEF EditingInv
  <2> QED
    BY <2>1, <2>2 DEF EditingInv, AdminsOK, FileOK
<1>3. ASSUME NEW a \in Admins,
             \/ OpenNew(a) \/ Save(a) \/ CloseForm(a)
             \/ LoadList(a) \/ Export(a) \/ ImportEnds(a)
             \/ \E i \in ConnectionIds : OpenEditor(a, i) \/ DeleteOne(a, i) \/ ImportDelete(a, i)
             \/ \E f \in Fields : \E v \in FieldValues[f] : Touch(a, f, v)
             \/ \E replace \in BOOLEAN : StartImport(a, replace)
             \/ \E e \in (IF import[a].pc = "import" THEN import[a].left ELSE {}) : ImportOne(a, e)
      PROVE  EditingInv' /\ \A i \in ConnectionIds : IsMeant(i)
  BY <1>3, OpenNewKeeps, OpenEditorKeeps, SaveKeeps, ClosingKeeps, ExportKeeps, DeleteOneKeeps,
     ImportDeleteKeeps, TouchKeeps, StartImportKeeps, ImportOneKeeps
<1> QED
  BY <1>1, <1>2, <1>3, Zenon DEF EditingNext

\* However the forms, imports and deletions of administrators interleave, and
\* although forms and lists are older than the connections they are sent for, a
\* connection only changes in what its editor touched and to what the form shows,
\* one that is restored is not more open than it was exported, and one only
\* disappears that was shown to whoever deletes it (pages/ConnectionsPage.tsx,
\* lib/connectionFormState.ts, api/routes/connections.ts).
THEOREM ChangesAreMeant == EditingSpec => OnlyWhatWasMeant
<1>1. EditingInv /\ [EditingNext]_editingVars => EditingInv'
  BY EditingKept
<1>2. EditingInv /\ [EditingNext]_editingVars =>
         [\A i \in ConnectionIds :
            stored'[i] # stored[i] =>
                CASE stored[i] = Absent -> MeantByNew(i)
                  [] stored'[i] = Absent -> MeantByDeletion(i)
                  [] OTHER -> MeantByForm(i)]_editingVars
  BY EditingKept, Zenon DEF IsMeant
<1> QED
  BY EditingInitially, <1>1, <1>2, PTL DEF EditingSpec, OnlyWhatWasMeant
=============================================================================
