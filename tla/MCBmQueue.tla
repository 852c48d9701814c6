----------------------------- MODULE MCBmQueue -----------------------------
(* BmQueue for TLC: the threads are interchangeable.                         *)
EXTENDS BmQueue, TLC

CONSTANTS t1, t2, t3
ThreeThreads == {t1, t2, t3}
Symmetry == Permutations(Threads)
=============================================================================
