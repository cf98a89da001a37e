-------------------------- MODULE ConnectionSettings --------------------------
(***************************************************************************)
(* The connections and their settings under concurrent administrators      *)
(* (api/routes/connections.ts): PUT /connections/:id, PUT .../default, POST  *)
(* and DELETE, as transactions of a READ COMMITTED database.                *)
(*                                                                          *)
(* The row of storage_connections is locked by SELECT ... FOR UPDATE OF c;  *)
(* the settings live in tables of their own and are read by sub-queries of  *)
(* that statement, from the snapshot it took before it waited for the lock. *)
(* What a transaction writes is committed in one step: the rows it touched  *)
(* stay locked until then.                                                  *)
(***************************************************************************)
EXTENDS Naturals, FiniteSets

CONSTANTS
    Conns,         \* ids of connections
    Puts,          \* PUT /connections/:id requests
    Patches,       \* bodies of a PUT: functions from settings to BOOLEAN
    Switches,      \* PUT /connections/:id/default requests
    Nobody

\* The settings that depend on each other.
Keys == {"readmeRead", "readmeWrite", "scan", "metrics", "tracking"}
Settings == [Keys -> BOOLEAN]

ASSUME ConnectionSettingsAssumption ==
    /\ \A q \in Patches : DOMAIN q \subseteq Keys /\ \A k \in DOMAIN q : q[k] \in BOOLEAN
    /\ Puts \cap Switches = {}
    /\ Nobody \notin Puts \cup Switches \cup Conns

VARIABLES
    row,           \* of storage_connections: "unborn", "live" or "gone"
    default,       \* storage_connections.is_default
    val,           \* connection_settings and storage_capacity_settings.enabled
    connLock,       \* the transaction that holds the row, or Nobody
    advisory,      \* holder of the advisory lock of the default
    ppc, pconn, ppatch, seen,   \* a PUT: its place, target, body, what it read
    panswer,       \* and how the last one was answered
    spc, sconn,    \* a switch: its place and target
    cleared        \* the defaults its first UPDATE found

tableVars == <<row, default, val>>
putVars == <<ppc, pconn, ppatch, seen, panswer>>
switchVars == <<spc, sconn, cleared>>
settingVars == <<tableVars, connLock, advisory, putVars, switchVars>>

\* What a row without any settings means.
Defaults == [k \in Keys |-> k # "tracking"]

Coherent(s) ==
    /\ s["readmeWrite"] => s["readmeRead"]
    /\ s["tracking"] => s["scan"] /\ s["metrics"]

Live(c) == row[c] = "live"

SettingsInit ==
    /\ row \in [Conns -> {"unborn", "live"}]
    /\ default = [c \in Conns |-> FALSE]
    /\ val = [c \in Conns |-> Defaults]
    /\ connLock = [c \in Conns |-> Nobody]
    /\ advisory = Nobody
    /\ ppc = [p \in Puts |-> "idle"]
    /\ pconn = [p \in Puts |-> Nobody]
    /\ ppatch = [p \in Puts |-> <<>>]
    /\ seen = [p \in Puts |-> Defaults]
    /\ panswer = [p \in Puts |-> "none"]
    /\ spc = [s \in Switches |-> "idle"]
    /\ sconn = [s \in Switches |-> Nobody]
    /\ cleared = [s \in Switches |-> {}]

-----------------------------------------------------------------------------
(* PUT /connections/:id.                                                    *)

\* The SELECT takes its snapshot ...
PutSelect(p, c, patch) ==
    /\ ppc[p] = "idle"
    /\ Live(c)
    /\ ppc' = [ppc EXCEPT ![p] = "waiting"]
    /\ pconn' = [pconn EXCEPT ![p] = c]
    /\ ppatch' = [ppatch EXCEPT ![p] = patch]
    /\ seen' = [seen EXCEPT ![p] = val[c]]
    /\ panswer' = [panswer EXCEPT ![p] = "none"]
    /\ UNCHANGED <<tableVars, connLock, advisory, switchVars>>

PutEnds(p, answer) ==
    /\ ppc' = [ppc EXCEPT ![p] = "idle"]
    /\ pconn' = [pconn EXCEPT ![p] = Nobody]
    /\ ppatch' = [ppatch EXCEPT ![p] = <<>>]
    /\ seen' = [seen EXCEPT ![p] = Defaults]
    /\ panswer' = [panswer EXCEPT ![p] = answer]

\* ... and gets the row; a row deleted meanwhile is answered with 404.
PutLock(p) ==
    /\ ppc[p] = "waiting"
    /\ connLock[pconn[p]] = Nobody
    /\ \/ /\ Live(pconn[p])
          /\ connLock' = [connLock EXCEPT ![pconn[p]] = p]
          /\ ppc' = [ppc EXCEPT ![p] = "locked"]
          /\ UNCHANGED <<pconn, ppatch, seen, panswer>>
       \/ ~Live(pconn[p]) /\ PutEnds(p, "refused") /\ UNCHANGED connLock
    /\ UNCHANGED <<tableVars, advisory, switchVars>>

\* The settings the PUT believes it will leave behind.
Effective(p) ==
    [k \in Keys |-> IF k \in DOMAIN ppatch[p] THEN ppatch[p][k] ELSE seen[p][k]]

\* The pair of README permissions is only looked at when one of them is sent.
Refused(p) ==
    LET e == Effective(p) IN
    \/ /\ DOMAIN ppatch[p] \cap {"readmeRead", "readmeWrite"} # {}
       /\ e["readmeWrite"] /\ ~e["readmeRead"]
    \/ e["tracking"] /\ ~(e["scan"] /\ e["metrics"])

\* mutant: the settings are written back as they were read
Upserted_Whole(p) == Effective(p)

\* The keys that are sent are written; the tracking only if it seems to change.
Upserted(p) ==
    [k \in Keys |->
        IF /\ k \in DOMAIN ppatch[p]
           /\ k = "tracking" => ppatch[p][k] # seen[p][k]
        THEN ppatch[p][k] ELSE val[pconn[p]][k]]

UnlockRow(p) == connLock' = [connLock EXCEPT ![pconn[p]] = Nobody]

\* ROLLBACK and 400, also on an error of any statement.
PutRollback(p) ==
    /\ ppc[p] = "locked"
    /\ UnlockRow(p)
    /\ PutEnds(p, "refused")
    /\ UNCHANGED <<tableVars, advisory, switchVars>>

\* Nothing differs from what was read: COMMIT, and the current row as answer.
PutSame(p) ==
    /\ ppc[p] = "locked" /\ ~Refused(p)
    /\ \A k \in DOMAIN ppatch[p] : ppatch[p][k] = seen[p][k]
    /\ UnlockRow(p)
    /\ PutEnds(p, "ok")
    /\ UNCHANGED <<tableVars, advisory, switchVars>>

PutCommit(p) ==
    /\ ppc[p] = "locked" /\ ~Refused(p)
    /\ \E k \in DOMAIN ppatch[p] : ppatch[p][k] # seen[p][k]
    /\ val' = [val EXCEPT ![pconn[p]] = Upserted(p)]
    /\ UnlockRow(p)
    /\ PutEnds(p, "ok")
    /\ UNCHANGED <<row, default, advisory, switchVars>>

-----------------------------------------------------------------------------
(* PUT /connections/:id/default.                                            *)

SGoto(s, pc) == spc' = [spc EXCEPT ![s] = pc]

SwitchBegin(s, c) ==
    /\ spc[s] = "idle"
    /\ SGoto(s, "begin")
    /\ sconn' = [sconn EXCEPT ![s] = c]
    /\ UNCHANGED <<tableVars, connLock, advisory, putVars, cleared>>

\* mutant: without the advisory lock
SwitchSerialize_None(s) ==
    /\ spc[s] = "begin"
    /\ SGoto(s, "pick")
    /\ UNCHANGED <<tableVars, connLock, advisory, putVars, sconn, cleared>>

SwitchSerialize(s) ==
    /\ spc[s] = "begin"
    /\ advisory = Nobody
    /\ advisory' = s
    /\ SGoto(s, "pick")
    /\ UNCHANGED <<tableVars, connLock, putVars, sconn, cleared>>

\* The transaction ends: its locks and its locals are gone.
SwitchEnds(s) ==
    /\ SGoto(s, "idle")
    /\ sconn' = [sconn EXCEPT ![s] = Nobody]
    /\ cleared' = [cleared EXCEPT ![s] = {}]
    /\ advisory' = IF advisory = s THEN Nobody ELSE advisory
    /\ connLock' = [c \in Conns |-> IF connLock[c] = s THEN Nobody ELSE connLock[c]]

\* SELECT ... FOR UPDATE of the target: 404, nothing to do, or on.
SwitchPick(s) ==
    /\ spc[s] = "pick"
    /\ connLock[sconn[s]] = Nobody
    /\ \/ /\ Live(sconn[s]) /\ ~default[sconn[s]]
          /\ connLock' = [connLock EXCEPT ![sconn[s]] = s]
          /\ SGoto(s, "clear")
          /\ UNCHANGED <<sconn, cleared, advisory>>
       \/ ~Live(sconn[s]) /\ SwitchEnds(s)
       \/ default[sconn[s]] /\ SwitchEnds(s)
    /\ UNCHANGED <<tableVars, putVars>>

\* The first UPDATE finds the defaults committed when it starts ...
SwitchClear(s) ==
    /\ spc[s] = "clear"
    /\ cleared' = [cleared EXCEPT ![s] = {c \in Conns : default[c]}]
    /\ SGoto(s, "wait")
    /\ UNCHANGED <<tableVars, connLock, advisory, putVars, sconn>>

\* ... and locks them.
SwitchWait(s) ==
    /\ spc[s] = "wait"
    /\ \A c \in cleared[s] : connLock[c] = Nobody
    /\ connLock' = [c \in Conns |-> IF c \in cleared[s] THEN s ELSE connLock[c]]
    /\ SGoto(s, "set")
    /\ UNCHANGED <<tableVars, advisory, putVars, sconn, cleared>>

\* A default the first UPDATE did not see: the partial unique index refuses.
Conflict(s) == \E c \in Conns \ (cleared[s] \cup {sconn[s]}) : default[c]

SwitchCommit(s) ==
    /\ spc[s] = "set" /\ ~Conflict(s)
    /\ default' = [c \in Conns |-> c = sconn[s] \/ (default[c] /\ c \notin cleared[s])]
    /\ SwitchEnds(s)
    /\ UNCHANGED <<row, val, putVars>>

SwitchRollback(s) ==
    /\ spc[s] \in {"pick", "clear", "wait", "set"}
    /\ SwitchEnds(s)
    /\ UNCHANGED <<tableVars, putVars>>

-----------------------------------------------------------------------------
(* DELETE and POST.                                                         *)

Delete(c) ==
    /\ Live(c) /\ connLock[c] = Nobody
    /\ row' = [row EXCEPT ![c] = "gone"]
    /\ default' = [default EXCEPT ![c] = FALSE]
    /\ val' = [val EXCEPT ![c] = Defaults]
    /\ UNCHANGED <<connLock, advisory, putVars, switchVars>>

\* The id is fresh.  A body that asks to write the README but not to read it is refused.
Create(c, read, write) ==
    /\ row[c] = "unborn"
    /\ write => read
    /\ row' = [row EXCEPT ![c] = "live"]
    /\ val' = [val EXCEPT ![c] = [Defaults EXCEPT !["readmeRead"] = read,
                                                  !["readmeWrite"] = write]]
    /\ UNCHANGED <<default, connLock, advisory, putVars, switchVars>>

-----------------------------------------------------------------------------
PutStep(p) ==
    \/ \E c \in Conns, patch \in Patches : PutSelect(p, c, patch)
    \/ PutLock(p) \/ PutRollback(p) \/ PutSame(p) \/ PutCommit(p)

SwitchStep(s) ==
    \/ \E c \in Conns : SwitchBegin(s, c)
    \/ SwitchSerialize(s) \/ SwitchPick(s) \/ SwitchClear(s) \/ SwitchWait(s)
    \/ SwitchCommit(s) \/ SwitchRollback(s)

SettingsNext ==
    \/ \E p \in Puts : PutStep(p)
    \/ \E s \in Switches : SwitchStep(s)
    \/ \E c \in Conns : Delete(c) \/ \E read, write \in BOOLEAN : Create(c, read, write)

SettingsSpec == SettingsInit /\ [][SettingsNext]_settingVars

-----------------------------------------------------------------------------
(* Properties.                                                              *)

TablesOK ==
    /\ row \in [Conns -> {"unborn", "live", "gone"}]
    /\ default \in [Conns -> BOOLEAN]
    /\ val \in [Conns -> Settings]
    /\ connLock \in [Conns -> Puts \cup Switches \cup {Nobody}]
    /\ advisory \in Switches \cup {Nobody}

RequestsOK ==
    /\ ppc \in [Puts -> {"idle", "waiting", "locked"}]
    /\ pconn \in [Puts -> Conns \cup {Nobody}]
    /\ ppatch \in [Puts -> Patches \cup {<<>>}]
    /\ seen \in [Puts -> Settings]
    /\ panswer \in [Puts -> {"none", "ok", "refused"}]
    /\ spc \in [Switches -> {"idle", "begin", "pick", "clear", "wait", "set"}]
    /\ sconn \in [Switches -> Conns \cup {Nobody}]
    /\ cleared \in [Switches -> SUBSET Conns]

\* The shape of the tables and of the transactions.
SettingsTypeOK == TablesOK /\ RequestsOK

\* However switches, deletions and re-creations interleave, at most one
\* existing connection is the default.
AtMostOneDefault ==
    \A c, d \in Conns : default[c] /\ default[d] => c = d /\ Live(c)

\* "Concurrent PUTs are serialised; without the lock the unique index would
\* answer with a 500": no switch ever runs into the index.
SwitchNeverConflicts == \A s \in Switches : spc[s] = "set" => ~Conflict(s)

\* A PUT leaves the settings it was not sent as the other administrators left
\* them, whatever it had read.
UnsentSettingsSurvive ==
    [][\A p \in Puts : ppc[p] = "locked" /\ ppc'[p] = "idle" =>
         \A k \in Keys \ DOMAIN ppatch[p] : val'[pconn[p]][k] = val[pconn[p]][k]]_settingVars

-----------------------------------------------------------------------------
(* Statements of the comments and messages that the code does not keep.      *)

\* "Editing the README needs reading it", "the periodic measurement needs the
\* scan and the metrics to be allowed": the PUT refuses any other combination.
SettingsCoherent == \A c \in Conns : Coherent(val[c])
=============================================================================
