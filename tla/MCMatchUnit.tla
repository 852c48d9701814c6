----------------------------- MODULE MCMatchUnit -----------------------------
(* MatchUnit with two packets, a key for one and one that matches both, and   *)
(* priorities up to the largest.                                              *)
EXTENDS MatchUnit

MCMatches == [k \in Keys |-> IF k = "a" THEN {1} ELSE {1, 2}]
=============================================================================
