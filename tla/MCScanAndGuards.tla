-------------------------- MODULE MCScanAndGuards --------------------------
\* The capacity history, the caches of connections and what a request is admitted by.
\* They share no state; a behaviour runs one of them and leaves
\* the others where they begin.
EXTENDS MCCapacityScan, ConnectionCache, Admission

CONSTANTS api, worker, r1, w1, e1

VARIABLE part

-----------------------------------------------------------------------------
(* The caches of a connection: two requests of the api, or one of the worker,   *)
(* which nobody tells of a change.  Which free identity a load or a client gets *)
(* makes no difference, and neither does the name of the first endpoint.        *)

BothApi == (r1 :> api) @@ (w1 :> api)
OneEach == (r1 :> api) @@ (w1 :> worker)

FirstFree == CHOOSE c \in ClientIds : ~Held(c) \/ \A d \in ClientIds : Held(d)

LowestFirst ==
    \A l \in ConnLoads :
        /\ lpc[l] = "settled" /\ lpc'[l] = "query" => l = CHOOSE m \in ConnLoads : Unused(m)
        /\ lentry'[l] # lentry[l] /\ lentry'[l] # NoConnEntry
              => lentry'[l].client.id \in {c \in ClientIds : Held(c)} \cup {FirstFree}

-----------------------------------------------------------------------------
scanPartVars == <<vars, connVars, guardVars>>

\* Where a part begins that is not the one that runs, there is one state.
BeginScan ==
    /\ Init /\ ConnInit /\ GuardsInit
    /\ row.endpoint = e1
    /\ part \notin {"connections", "worker"} => row = CHOOSE r \in Rows : r.ver = 0 /\ r.allow /\ r.present /\ r.endpoint = e1
    /\ part # "guards" => user.may = {} /\ ~user.must

\* The history of a bucket that may be scanned and may vanish while it is tracked.
\* Without a timer nobody reads the worker's copy of the permission.
OneBucketIsScanned ==
    part = "capacity" =>
        /\ view' = view /\ permitted'
        /\ tracking' # tracking => present = Buckets
        /\ present' # present => tracking

\* The guards of a browser's request and that of a key have no state in common.
ScanNext ==
    /\ \/ part = "capacity" /\ Next
       \/ part # "capacity" /\ UNCHANGED vars
    /\ \/ part = "connections" /\ ConnNext /\ LowestFirst
       \/ part = "worker" /\ ConnNext /\ LowestFirst /\ rpc'[r1] = rpc[r1]
       \/ part \notin {"connections", "worker"} /\ UNCHANGED connVars
    /\ \/ part = "guards" /\ GuardsStep /\ UNCHANGED key
       \/ part = "keys" /\ GuardsStep /\ UNCHANGED <<user, conn, replaced>>
       \/ part = "attempts" /\ AttemptsStep
       \/ part \notin {"guards", "keys", "attempts"} /\ UNCHANGED guardVars

GuardedInit ==
    part \in {"capacity", "connections", "guards", "keys", "attempts"} /\ BeginScan
=============================================================================
