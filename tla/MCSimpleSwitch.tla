--------------------------- MODULE MCSimpleSwitch ---------------------------
(* SimpleSwitch for TLC, with one multicast group of two replicas for the    *)
(* same port.                                                                *)
EXTENDS SimpleSwitch

TwoReplicas == <<<<0, 0>>>>
=============================================================================
