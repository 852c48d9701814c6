---------------------------- MODULE MCConfigSwap ----------------------------
(***************************************************************************)
(* ConfigSwap with two configurations that share one table.                *)
(***************************************************************************)
EXTENDS ConfigSwap, TLC

CONSTANTS A, B, shared, old, new, c1, c2, p1, p2

MCTablesOf == A :> {shared, old} @@ B :> {shared, new}

=============================================================================
