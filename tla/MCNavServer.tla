---------------------------- MODULE MCNavServer ----------------------------
(* Model-checking instances of NavServer: coordinates take two values, and  *)
(* the goals' end poses differ in some coordinates and agree in others.     *)
EXTENDS NavServer, TLC

CONSTANTS g1, g2

OneGoal  == {g1}
TwoGoals == {g1, g2}

PoseOf(a, b, c) == [i \in Coord |-> CASE i = "x" -> a [] i = "y" -> b [] i = "theta" -> c]

Ends1 == g1 :> PoseOf(1, 1, 0)
Ends2 == g1 :> PoseOf(1, 1, 0) @@ g2 :> PoseOf(1, 0, 1)
=============================================================================
