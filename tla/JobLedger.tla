------------------------------ MODULE JobLedger ------------------------------
(***************************************************************************)
(* What the job queue promises to the routes that use it: a target has no   *)
(* computation or one computation pending, and the result published for it  *)
(* is only ever replaced by a later one.                                    *)
(***************************************************************************)
EXTENDS Naturals

CONSTANT Keys

VARIABLES
    pending,   \* the targets with a queued or running job
    latest     \* the age of the result each target shows, 0 when it has none

Init == pending = {} /\ latest = [k \in Keys |-> 0]

Open(k) ==
    /\ k \notin pending
    /\ pending' = pending \cup {k}
    /\ UNCHANGED latest

Publish(k) ==
    /\ k \in pending
    /\ pending' = pending \ {k}
    /\ latest'[k] > latest[k]
    /\ latest' = [latest EXCEPT ![k] = latest'[k]]

\* Computations are canceled, fail, or are given up, several at once.
GiveUp ==
    /\ pending' \subseteq pending
    /\ UNCHANGED latest

Next == GiveUp \/ \E k \in Keys : Open(k) \/ Publish(k)

Spec == Init /\ [][Next]_<<pending, latest>>
=============================================================================
