----------------------------- MODULE MCJobQueue -----------------------------
(* Small instances of JobQueue. *)
EXTENDS JobQueue, TLC

CONSTANTS k1, k2, w1, w2, c1, c2

OneWorker == {w1}
TwoWorkers == {w1, w2}
TwoKeys == {k1, k2}
OneKey == {k1}
NoKeys == {}
OnlyK2 == {k2}
OneClient == {c1}
TwoClients == {c1, c2}
Interchangeable == Permutations(TwoWorkers) \cup Permutations(TwoClients)
=============================================================================
