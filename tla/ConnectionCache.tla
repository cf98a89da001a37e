--------------------------- MODULE ConnectionCache ---------------------------
(***************************************************************************)
(* The storage factory (api/storage.ts): the cache of one connection's row  *)
(* and S3 client that each process keeps, the loads that fill it, and the   *)
(* invalidation a PUT or DELETE of the connection sends after its COMMIT    *)
(* (api/routes/connections.ts).  Only the api process hears of it: the      *)
(* worker relies on the time limit of an entry.                             *)
(*                                                                          *)
(* A request asks twice, first for the settings (lib/capabilityGuard.ts),   *)
(* then for the client.  A row is its version number, the fields an         *)
(* S3Client is built from ("endpoint") and one permission ("allow").        *)
(***************************************************************************)
EXTENDS Naturals, FiniteSetsExt

CONSTANTS
    Procs, Api,        \* processes with a factory; the one that is invalidated
    Requests, ProcOf,  \* requests, and the process each one runs in
    Endpoints,         \* values of the fields that make a client
    Blocked,           \* those isAllowedEndpoint refuses
    ConnLoads,         \* promises of a load (reused once nobody holds them)
    ClientIds,         \* S3Client objects (reused once nobody holds them)
    MaxVersion,        \* bound: writes to the row
    NoLoad, NoConnEntry

ASSUME ConnectionCacheAssumption ==
    /\ Api \in Procs
    /\ ProcOf \in [Requests -> Procs]
    /\ Blocked \subseteq Endpoints
    /\ MaxVersion \in Nat
    /\ NoLoad \notin ConnLoads

Rows == [ver : 0 .. MaxVersion, endpoint : Endpoints, allow : BOOLEAN,
         present : BOOLEAN]
\* A client keeps the fields it was built from.
Clients == [id : ClientIds, endpoint : Endpoints]

Entries == [ver : 0 .. MaxVersion, endpoint : Endpoints, allow : BOOLEAN,
            client : Clients]

ASSUME NoEntryAssumption == NoConnEntry \notin Rows \cup Entries

VARIABLES
    row,       \* the committed row of the connection
    writing,   \* versions committed whose invalidate has not run yet
    acked,     \* newest version whose PUT or DELETE was answered (history)
    cache,     \* the entry of the connection in each process
    fresh,     \* that entry is younger than CONNECTION_CACHE_TTL_MS
    loading,   \* the load other callers join
    lpc, lproc, lprev, lrow, lentry,   \* the loads
    rpc,       \* where each request is
    rload,     \* the load it awaits
    rfloor,    \* what `acked` was when it asked (history)
    rgot       \* the entry it got

rowVars == <<row, writing, acked>>
entryVars == <<cache, fresh, loading>>
loadVars == <<lpc, lproc, lprev, lrow, lentry>>
reqVars == <<rpc, rload, rfloor, rgot>>
connVars == <<rowVars, entryVars, loadVars, reqVars>>

ConnInit ==
    /\ row \in Rows
    /\ row.ver = 0 /\ row.allow /\ row.present
    /\ writing = {}
    /\ acked = 0
    /\ cache = [p \in Procs |-> NoConnEntry]
    /\ fresh = [p \in Procs |-> FALSE]
    /\ loading = [p \in Procs |-> NoLoad]
    /\ lpc = [l \in ConnLoads |-> "settled"]
    /\ lproc = [l \in ConnLoads |-> Api]
    /\ lprev = [l \in ConnLoads |-> NoConnEntry]
    /\ lrow = [l \in ConnLoads |-> NoConnEntry]
    /\ lentry = [l \in ConnLoads |-> NoConnEntry]
    /\ rpc = [r \in Requests |-> "idle"]
    /\ rload = [r \in Requests |-> NoLoad]
    /\ rfloor = [r \in Requests |-> 0]
    /\ rgot = [r \in Requests |-> NoConnEntry]

-----------------------------------------------------------------------------
(* The row.  A commit whose answer is lost (the connection to the database   *)
(* breaks) ends in the catch of the route, which does not invalidate.       *)

Write(next) ==
    /\ row.present
    /\ row.ver < MaxVersion
    /\ next.ver = row.ver + 1
    /\ ~next.present => next.endpoint = row.endpoint /\ next.allow = row.allow
    /\ row' = next
    /\ \/ writing' = writing \cup {next.ver}
       \/ UNCHANGED writing
    /\ UNCHANGED <<acked, entryVars, loadVars, reqVars>>

\* mutant: the load in flight stays in the map
Invalidate_CacheOnly(v) ==
    /\ v \in writing
    /\ writing' = writing \ {v}
    /\ acked' = IF v > acked THEN v ELSE acked
    /\ cache' = [cache EXCEPT ![Api] = NoConnEntry]
    /\ UNCHANGED <<row, fresh, loading, loadVars, reqVars>>

\* invalidate(), then the answer of the PUT or DELETE.
Invalidate(v) ==
    /\ v \in writing
    /\ writing' = writing \ {v}
    /\ acked' = IF v > acked THEN v ELSE acked
    /\ cache' = [cache EXCEPT ![Api] = NoConnEntry]
    /\ loading' = [loading EXCEPT ![Api] = NoLoad]
    /\ UNCHANGED <<row, fresh, loadVars, reqVars>>

-----------------------------------------------------------------------------
(* load(), called by a request.                                             *)

\* What a request may rely on: an answered write, in the process that heard it.
Floor(p) == IF p = Api THEN acked ELSE 0

\* mutant: entries have no time limit
Usable_ForEver(p) == cache[p] # NoConnEntry
Usable(p) == cache[p] # NoConnEntry /\ fresh[p]

\* No promise or request refers to the load any more.
Unused(l) == lpc[l] = "settled" /\ \A r \in Requests : rload[r] # l

\* The guard answers 403 when the permission is off.
Receive(r, entry, at) ==
    /\ rpc' = [rpc EXCEPT ![r] = IF at = "opening" THEN "using"
                                 ELSE IF entry.allow THEN "guarded" ELSE "idle"]
    /\ rgot' = [rgot EXCEPT ![r] = IF at = "opening" \/ entry.allow THEN entry
                                   ELSE NoConnEntry]
    /\ rload' = [rload EXCEPT ![r] = NoLoad]

Wait(r, l, at) ==
    /\ rpc' = [rpc EXCEPT ![r] = at]
    /\ rload' = [rload EXCEPT ![r] = l]
    /\ rgot' = [rgot EXCEPT ![r] = NoConnEntry]

StartLoad(r, l, at) ==
    LET p == ProcOf[r] IN
    /\ Unused(l)
    /\ lpc' = [lpc EXCEPT ![l] = "query"]
    /\ lproc' = [lproc EXCEPT ![l] = p]
    /\ lprev' = [lprev EXCEPT ![l] = cache[p]]
    /\ lrow' = [lrow EXCEPT ![l] = NoConnEntry]
    /\ lentry' = [lentry EXCEPT ![l] = NoConnEntry]
    /\ loading' = [loading EXCEPT ![p] = l]
    /\ Wait(r, l, at)

Load(r, at) ==
    LET p == ProcOf[r] IN
    /\ rfloor' = [rfloor EXCEPT ![r] = Floor(p)]
    /\ \/ /\ Usable(p)
          /\ Receive(r, cache[p], at)
          /\ UNCHANGED <<loading, loadVars>>
       \/ /\ ~Usable(p)
          /\ loading[p] # NoLoad
          /\ Wait(r, loading[p], at)
          /\ UNCHANGED <<loading, loadVars>>
       \/ /\ ~Usable(p)
          /\ loading[p] = NoLoad
          /\ \E l \in ConnLoads : StartLoad(r, l, at)
    /\ UNCHANGED <<rowVars, cache, fresh>>

\* requireCapability: getConnectionConfig
Guard(r) == rpc[r] = "idle" /\ Load(r, "guarding")

\* the handler: getStorage
OpenStorage(r) == rpc[r] = "guarded" /\ Load(r, "opening")

\* `await load(...)` resumes; a failed load is a 404 or a 500.  The entry is
\* garbage once the last request has taken it.
Resume(r) ==
    /\ rload[r] # NoLoad
    /\ lpc[rload[r]] = "settled"
    /\ \/ /\ lentry[rload[r]] # NoConnEntry
          /\ Receive(r, lentry[rload[r]], rpc[r])
       \/ /\ lentry[rload[r]] = NoConnEntry
          /\ rpc' = [rpc EXCEPT ![r] = "idle"]
          /\ rgot' = [rgot EXCEPT ![r] = NoConnEntry]
          /\ rload' = [rload EXCEPT ![r] = NoLoad]
    /\ lentry' = [l \in ConnLoads |-> IF l = rload[r] /\ \A q \in Requests : rload'[q] # l
                                THEN NoConnEntry ELSE lentry[l]]
    /\ UNCHANGED <<rowVars, entryVars, lpc, lproc, lprev, lrow, rfloor>>

\* The request is over and drops the client.
Done(r) ==
    /\ rpc[r] = "using"
    /\ rpc' = [rpc EXCEPT ![r] = "idle"]
    /\ rgot' = [rgot EXCEPT ![r] = NoConnEntry]
    /\ UNCHANGED <<rowVars, entryVars, loadVars, rload, rfloor>>

-----------------------------------------------------------------------------
(* readEntry() and the callbacks load() hangs on it.                        *)

\* The SELECT reads the committed row, or fails.
Query(l) ==
    /\ lpc[l] = "query"
    /\ lpc' = [lpc EXCEPT ![l] = "answer"]
    /\ \/ row.present /\ lrow' = [lrow EXCEPT ![l] = row]
       \/ UNCHANGED lrow
    /\ UNCHANGED <<rowVars, entryVars, lproc, lprev, lentry, reqVars>>

Held(c) ==
    \/ \E p \in Procs : cache[p] # NoConnEntry /\ cache[p].client.id = c
    \/ \E l \in ConnLoads : \E e \in {lprev[l], lentry[l]} \ {NoConnEntry} : e.client.id = c
    \/ \E r \in Requests : rgot[r] # NoConnEntry /\ rgot[r].client.id = c

\* new S3Client(...) for the row of a load
NewClient(l) == {[id |-> c, endpoint |-> lrow[l].endpoint] : c \in {d \in ClientIds : ~Held(d)}}

\* The previous client if it was built from the same fields, else a new one.
ClientFor(l) ==
    IF lprev[l] # NoConnEntry /\ lprev[l].endpoint = lrow[l].endpoint
    THEN {lprev[l].client}
    ELSE NewClient(l)

Entry(from, c) == [ver |-> from.ver, endpoint |-> from.endpoint,
                   allow |-> from.allow, client |-> c]

\* readEntry ends and .then runs: the result enters the cache only if no
\* invalidate has removed this load meanwhile.
Answer(l) ==
    /\ lpc[l] = "answer"
    /\ lrow[l] # NoConnEntry
    /\ lrow[l].endpoint \notin Blocked
    /\ \E c \in ClientFor(l) :
          /\ lentry' = [lentry EXCEPT ![l] = Entry(lrow[l], c)]
          /\ \/ /\ loading[lproc[l]] = l
                /\ cache' = [cache EXCEPT ![lproc[l]] = Entry(lrow[l], c)]
                /\ fresh' = [fresh EXCEPT ![lproc[l]] = TRUE]
             \/ /\ loading[lproc[l]] # l
                /\ UNCHANGED <<cache, fresh>>
    /\ lpc' = [lpc EXCEPT ![l] = "settling"]
    /\ UNCHANGED <<rowVars, loading, lproc, lprev, lrow, reqVars>>

\* The query failed, found no row, or found an endpoint that is refused: the
\* cache keeps what it has.
AnswerFails(l) ==
    /\ lpc[l] = "answer"
    /\ lrow[l] # NoConnEntry => lrow[l].endpoint \in Blocked
    /\ lpc' = [lpc EXCEPT ![l] = "settling"]
    /\ UNCHANGED <<rowVars, entryVars, lproc, lprev, lrow, lentry, reqVars>>

\* .finally; the captured row and the captured entry are garbage from here.
Finally(l) ==
    /\ lpc[l] = "settling"
    /\ lpc' = [lpc EXCEPT ![l] = "settled"]
    /\ loading' = [p \in Procs |-> IF loading[p] = l THEN NoLoad ELSE loading[p]]
    /\ lprev' = [lprev EXCEPT ![l] = NoConnEntry]
    /\ lrow' = [lrow EXCEPT ![l] = NoConnEntry]
    /\ UNCHANGED <<rowVars, cache, fresh, lproc, lentry, reqVars>>

\* CONNECTION_CACHE_TTL_MS have passed.
Expire(p) ==
    /\ fresh[p]
    /\ fresh' = [fresh EXCEPT ![p] = FALSE]
    /\ UNCHANGED <<rowVars, cache, loading, loadVars, reqVars>>

\* The process stops (close()) or dies, and starts again with empty maps.
Restart(p) ==
    /\ cache' = [cache EXCEPT ![p] = NoConnEntry]
    /\ fresh' = [fresh EXCEPT ![p] = FALSE]
    /\ loading' = [loading EXCEPT ![p] = NoLoad]
    /\ lpc' = [l \in ConnLoads |-> IF lproc[l] = p THEN "settled" ELSE lpc[l]]
    /\ lprev' = [l \in ConnLoads |-> IF lproc[l] = p THEN NoConnEntry ELSE lprev[l]]
    /\ lrow' = [l \in ConnLoads |-> IF lproc[l] = p THEN NoConnEntry ELSE lrow[l]]
    /\ lentry' = [l \in ConnLoads |-> IF lproc[l] = p THEN NoConnEntry ELSE lentry[l]]
    /\ rpc' = [r \in Requests |-> IF ProcOf[r] = p THEN "idle" ELSE rpc[r]]
    /\ rload' = [r \in Requests |-> IF ProcOf[r] = p THEN NoLoad ELSE rload[r]]
    /\ rgot' = [r \in Requests |-> IF ProcOf[r] = p THEN NoConnEntry ELSE rgot[r]]
    /\ writing' = IF p = Api THEN {} ELSE writing
    /\ UNCHANGED <<row, acked, lproc, rfloor>>

-----------------------------------------------------------------------------
LoadStep(l) == Query(l) \/ Answer(l) \/ AnswerFails(l) \/ Finally(l)

ConnNext ==
    \/ \E next \in Rows : Write(next)
    \/ \E v \in 1 .. MaxVersion : Invalidate(v)
    \/ \E r \in Requests : Guard(r) \/ OpenStorage(r) \/ Resume(r) \/ Done(r)
    \/ \E l \in ConnLoads : LoadStep(l)
    \/ \E p \in Procs : Expire(p) \/ Restart(p)

ConnSpec == ConnInit /\ [][ConnNext]_connVars

\* Queries answer, callbacks run and time passes.  Nobody is obliged to write,
\* to ask, or to restart.
ConnFairness ==
    /\ \A l \in ConnLoads : WF_connVars(LoadStep(l))
    /\ \A p \in Procs : WF_connVars(Expire(p))

ConnFairSpec == ConnSpec /\ ConnFairness

-----------------------------------------------------------------------------
(* Properties.                                                              *)

FactoryOK ==
    /\ row \in Rows
    /\ writing \subseteq 1 .. MaxVersion
    /\ acked \in 0 .. MaxVersion
    /\ cache \in [Procs -> Entries \cup {NoConnEntry}]
    /\ fresh \in [Procs -> BOOLEAN]
    /\ loading \in [Procs -> ConnLoads \cup {NoLoad}]

LoadsOK ==
    /\ lpc \in [ConnLoads -> {"query", "answer", "settling", "settled"}]
    /\ lproc \in [ConnLoads -> Procs]
    /\ lprev \in [ConnLoads -> Entries \cup {NoConnEntry}]
    /\ lrow \in [ConnLoads -> Rows \cup {NoConnEntry}]
    /\ lentry \in [ConnLoads -> Entries \cup {NoConnEntry}]

RequestsOK ==
    /\ rpc \in [Requests -> {"idle", "guarding", "guarded", "opening", "using"}]
    /\ rload \in [Requests -> ConnLoads \cup {NoLoad}]
    /\ rfloor \in [Requests -> 0 .. MaxVersion]
    /\ rgot \in [Requests -> Entries \cup {NoConnEntry}]

\* The shape of the factories, the loads and the requests.
ConnTypeOK == FactoryOK /\ LoadsOK /\ RequestsOK

\* Once a PUT or DELETE of the connection was answered, no request that asks
\* afterwards in the api process is served an older row, whatever loads were
\* in flight when it was invalidated ("a load that began before invalidate does
\* not go back into the cache").
AnsweredWriteIsSeen ==
    \A r \in Requests : rgot[r] # NoConnEntry => rgot[r].ver >= rfloor[r]

\* A client is never used or kept with a row it was not built from: a change of
\* endpoint or credentials is never served by the old client.
ClientMatchesRow ==
    /\ \A p \in Procs : cache[p] # NoConnEntry => cache[p].client.endpoint = cache[p].endpoint
    /\ \A r \in Requests : rgot[r] # NoConnEntry => rgot[r].client.endpoint = rgot[r].endpoint

\* A request works with the settings and with the client of one row, which is no older
\* than the last write answered before it asked (storage.ts:182-231).
ServedOnCurrentRow == AnsweredWriteIsSeen /\ ClientMatchesRow

\* Reading the settings again does not exchange a client whose fields did not
\* change (an exchange would lose the tar index that is being played).
ReloadKeepsClient ==
    [][\A p \in Procs :
         /\ cache[p] # NoConnEntry
         /\ cache'[p] # NoConnEntry
         /\ cache'[p].endpoint = cache[p].endpoint
         => cache'[p].client = cache[p].client]_connVars

\* Also without an invalidation (in the worker, or after the answer of a COMMIT
\* was lost) every process ends up serving the current row only, to requests
\* that find it in the cache as to those that joined a load.
StaleEntriesDieOut ==
    <>[][\A r \in Requests : rgot'[r] # rgot[r] /\ rgot'[r] # NoConnEntry
           => rgot'[r].ver = row.ver]_connVars
=============================================================================
