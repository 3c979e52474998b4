---------------------------- MODULE MCThreadPool ----------------------------
(* ThreadPool on small instances.  Tasks and worker records are            *)
(* interchangeable, which the safety runs use; the liveness runs do not.   *)
EXTENDS ThreadPool, TLC

CONSTANTS t1, t2, t3, t4, w1, w2, w3

ThreeTasks   == {t1, t2, t3}
FourTasks    == {t1, t2, t3, t4}
TwoTasks     == {t1, t2}
ThreeThreads == {w1, w2, w3}
OneThread    == {w1}
TwoThreads   == {w1, w2}

Symmetry == Permutations(Tasks) \cup Permutations(Threads)

=============================================================================
