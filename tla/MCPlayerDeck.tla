---------------------------- MODULE MCPlayerDeck ----------------------------
\* Two tracks, a short one whose sound is fetched first and a longer one.
EXTENDS PlayerDeck, TLC

CONSTANTS short, long

Lengths == (short :> 1) @@ (long :> 2)
=============================================================================
