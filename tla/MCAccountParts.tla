---------------------------- MODULE MCAccountParts ----------------------------
\* Users and their sessions, and connections and their settings, in one run of TLC:
\* both are about requests that wait for one another's rows.  They share no state; a
\* behaviour runs one of them and leaves the other where it begins.
EXTENDS MCAccounts, ConnectionSettings

CONSTANTS conn1, conn2, put1, put2, switch1, switch2

VARIABLE part

\* Every write of the default, and PUTs of two settings of which one depends on the
\* other.
TwoConns == {conn1, conn2}
TwoPuts == {put1, put2}
TwoSwitches == {switch1, switch2}
FewToggles == {("scan" :> FALSE), ("tracking" :> TRUE)}

\* Two switches, or two PUTs of one connection with one switch among them.
FewAtOnce ==
    IF part = "default" THEN ppc' = ppc
    ELSE spc'[switch2] = "idle" /\ \A p \in Puts : pconn'[p] # conn2

\* Two sessions at a time.
FewSessions == Cardinality(sessions') <= 2

allVars == <<part, vars, settingVars>>

MCInit ==
    /\ part \in {"accounts", "default", "settings"}
    /\ Init /\ SettingsInit
    /\ part = "accounts" => row = [c \in Conns |-> "unborn"]

MCNext ==
    /\ UNCHANGED part
    /\ \/ part = "accounts" /\ Next /\ FewSessions /\ UNCHANGED settingVars
       \/ part # "accounts" /\ SettingsNext /\ FewAtOnce /\ UNCHANGED vars

MCSpec == MCInit /\ [][MCNext]_allVars
=============================================================================
