-------------------------- MODULE MCRosServiceNode --------------------------
(* One leaf that runs twice, and another that may share its client.       *)
EXTENDS RosServiceNode, TLC

CONSTANTS n1, n2

TwoAndOne == (n1 :> 2) @@ (n2 :> 1)
=============================================================================
