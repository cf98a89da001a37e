------------------------------ MODULE Semaphore ------------------------------
(***************************************************************************)
(* createSemaphore (api/lib/semaphore.ts): a FIFO semaphore with a bounded  *)
(* queue.  release() hands the slot to the first waiter in the same call,   *)
(* and a second call of the same release() does nothing.                    *)
(***************************************************************************)
EXTENDS Naturals, Sequences, SequencesExt

CONSTANTS Limit, MaxWaiters

ASSUME SemaphoreAssumption == Limit \in Nat \ {0} /\ MaxWaiters \in Nat

VARIABLES
    active,        \* slots given out
    waiters        \* start() closures, by the task that waits

semaphoreVars == <<active, waiters>>

SemaphoreInit == active = 0 /\ waiters = <<>>

TakeSlot ==
    /\ active < Limit
    /\ active' = active + 1
    /\ UNCHANGED waiters

Queue(t) ==
    /\ active >= Limit
    /\ Len(waiters) < MaxWaiters
    /\ waiters' = Append(waiters, t)
    /\ UNCHANGED active

QueueFull == active >= Limit /\ Len(waiters) >= MaxWaiters

\* The abort listener of a waiter.
LeaveQueue(t) ==
    /\ \E i \in DOMAIN waiters : waiters[i] = t /\ waiters' = RemoveAt(waiters, i)
    /\ UNCHANGED active

\* active--, and start() of the first waiter does active++.
ReleaseSlot ==
    IF waiters = <<>>
    THEN active' = active - 1 /\ UNCHANGED waiters
    ELSE waiters' = Tail(waiters) /\ UNCHANGED active
=============================================================================
