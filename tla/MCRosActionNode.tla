-------------------------- MODULE MCRosActionNode --------------------------
(* One leaf that runs twice, and another that shares its client.          *)
EXTENDS RosActionNode, TLC

CONSTANTS n1, n2

TwoAndOne == (n1 :> 2) @@ (n2 :> 1)
=============================================================================
