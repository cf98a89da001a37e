---------------------------- MODULE SharedRequests ----------------------------
(***************************************************************************)
(* SharedRequests.run (api/lib/shared-requests.ts): callers who ask for the *)
(* same key share one load, and the upstream is aborted when the last of    *)
(* them has gone.  The operators below are the steps of the class; what a   *)
(* load does belongs to the module that uses it, and so does `state`        *)
(* becoming "settled".  Between a settled promise, its .finally and the     *)
(* .then of each caller other callbacks may run.                            *)
(***************************************************************************)
EXTENDS Naturals, FiniteSets

CONSTANTS
    SharedKeys, Callers,
    Requests,      \* PendingRequest objects (reused once they are over)
    KeyOf,         \* the key each of them is created for
    MaxPending,    \* MAX_PENDING_REQUESTS
    NoRequest

ASSUME SharedRequestsAssumption ==
    /\ IsFiniteSet(Requests)
    /\ KeyOf \in [Requests -> SharedKeys]
    /\ NoRequest \notin Requests
    /\ MaxPending \in Nat

VARIABLES
    pending,       \* the map
    state,         \* of a request's promise: "loading", "settled", "done"
    subs,          \* its subscribers
    cancelled        \* its AbortController, until .finally has run

sharedVars == <<pending, state, subs, cancelled>>

SharedInit ==
    /\ pending = [k \in SharedKeys |-> NoRequest]
    /\ state = [r \in Requests |-> "done"]
    /\ subs = [r \in Requests |-> {}]
    /\ cancelled = [r \in Requests |-> FALSE]

Asking(c) == \E r \in Requests : c \in subs[r]

Join(c, k) ==
    /\ ~Asking(c)
    /\ pending[k] # NoRequest
    /\ subs' = [subs EXCEPT ![pending[k]] = @ \cup {c}]
    /\ UNCHANGED <<pending, state, cancelled>>

\* A caller who finds the map full gets a RequestQueueFullError at once.
Create(c, k, r) ==
    /\ ~Asking(c)
    /\ pending[k] = NoRequest
    /\ Cardinality({q \in SharedKeys : pending[q] # NoRequest}) < MaxPending
    /\ KeyOf[r] = k /\ state[r] = "done" /\ subs[r] = {}
    /\ pending' = [pending EXCEPT ![k] = r]
    /\ state' = [state EXCEPT ![r] = "loading"]
    /\ subs' = [subs EXCEPT ![r] = {c}]
    /\ UNCHANGED cancelled

Deleted(r) == [pending EXCEPT ![KeyOf[r]] = IF @ = r THEN NoRequest ELSE @]

\* The caller's signal is aborted.
Abort(c, r) ==
    /\ c \in subs[r]
    /\ subs' = [subs EXCEPT ![r] = @ \ {c}]
    /\ IF subs[r] = {c}
       THEN /\ pending' = Deleted(r)
            /\ cancelled' = [cancelled EXCEPT ![r] = state[r] # "done"]
       ELSE UNCHANGED <<pending, cancelled>>

\* mutant: whatever request is in the map goes
Finally_AnyEntry(r) ==
    /\ state[r] = "settled"
    /\ state' = [state EXCEPT ![r] = "done"]
    /\ pending' = [pending EXCEPT ![KeyOf[r]] = NoRequest]
    /\ cancelled' = [cancelled EXCEPT ![r] = FALSE]
    /\ UNCHANGED subs

Finally(r) ==
    /\ state[r] = "settled"
    /\ state' = [state EXCEPT ![r] = "done"]
    /\ pending' = Deleted(r)
    /\ cancelled' = [cancelled EXCEPT ![r] = FALSE]
    /\ UNCHANGED subs

\* The .then of one caller.
Deliver(c, r) ==
    /\ state[r] = "done"
    /\ c \in subs[r]
    /\ subs' = [subs EXCEPT ![r] = @ \ {c}]
    /\ UNCHANGED <<pending, state, cancelled>>

-----------------------------------------------------------------------------
SharedOK ==
    /\ pending \in [SharedKeys -> Requests \cup {NoRequest}]
    /\ state \in [Requests -> {"loading", "settled", "done"}]
    /\ subs \in [Requests -> SUBSET Callers]
    /\ cancelled \in [Requests -> BOOLEAN]

\* Nobody waits for, and nobody can join, a request whose upstream was told to
\* stop: a caller never gets the abort of somebody else.
NobodyWaitsOnAborted ==
    \A r \in Requests : cancelled[r] => subs[r] = {} /\ pending[KeyOf[r]] # r

\* The same fetch is shared: of one key at most one load is wanted, also when
\* an abandoned load of that key ends long after its successor has begun.
OneWantedLoadPerKey ==
    \A r, s \in Requests :
       /\ KeyOf[r] = KeyOf[s]
       /\ state[r] = "loading" /\ subs[r] # {}
       /\ state[s] = "loading" /\ subs[s] # {}
       => r = s

\* A load nobody waits for has been told to stop.
AbandonedIsAborted ==
    \A r \in Requests : state[r] = "loading" /\ subs[r] = {} => cancelled[r]

\* A load belongs to those who wait for it: shared while there are any, stopped when
\* there are none, and never in the way of the next load of its key.
LoadsAreShared == NobodyWaitsOnAborted /\ OneWantedLoadPerKey /\ AbandonedIsAborted
=============================================================================
