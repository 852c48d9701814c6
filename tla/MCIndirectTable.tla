-------------------------- MODULE MCIndirectTable --------------------------
(* IndirectTable for TLC: entries are interchangeable.                       *)
EXTENDS IndirectTable, TLC

CONSTANTS e1, e2
TwoEntries == {e1, e2}
Symmetry == Permutations(Entries)
=============================================================================
