--------------------------- MODULE MCCapacityScan ---------------------------
\* Model values for the model checking of CapacityScan.
EXTENDS CapacityScan, TLC

CONSTANTS bucket1, timer1, post1, worker1

NoBuckets == {}
OneBucket == {bucket1}
NoTimers == {}
OneTimer == {timer1}
NoPosts == {}
OnePost == {post1}
OneWorker == {worker1}
=============================================================================
