----------------------------- MODULE MCLearnList -----------------------------
(* LearnList for TLC: threads and samples are interchangeable.               *)
EXTENDS LearnList, TLC

Symmetry == Permutations(Samples) \cup Permutations(Threads)
=============================================================================
