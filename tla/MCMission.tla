------------------------------ MODULE MCMission ------------------------------
(* Routines for TLC: the tree of bt_default.xml leaf by leaf, and a short one *)
(* with each kind of leaf.                                                    *)
EXTENDS Mission

Legs(n) == [k \in 1 .. n |-> "GoToPose"]

\* Init; Beacon with SetBeacon before its last leg; Sweep with SetBinIntake
\* after its fifth leg; Post-Sweep; End.
DefaultTree ==
    <<"Start">> \o Legs(6) \o <<"SetBeacon">> \o Legs(1)
                \o Legs(5) \o <<"SetBinIntake">> \o Legs(4)
                \o Legs(4) \o <<"Loop">>

ShortTree == <<"Start", "GoToPose", "SetBeacon", "GoToPose", "SetBinIntake", "Loop">>
=============================================================================
