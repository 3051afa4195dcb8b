--------------------------- MODULE MotionService ---------------------------
(***************************************************************************)
(* What the "crobot_navigation" action server promises to its clients,     *)
(* without the threads, the path search and the odometry behind it:        *)
(*                                                                         *)
(*   new --Accept--> active --Settle--> settled --Report--> done           *)
(*                                                                         *)
(* An active goal may command the base; a goal settles by stopping the     *)
(* base, and only then reports success.  NavServer implements this         *)
(* contract, and the behaviour tree (module Mission) is checked against    *)
(* it.  Cancelling is absent: the server accepts a cancel request and then *)
(* ignores it, so a client observes no transition.                         *)
(***************************************************************************)

CONSTANTS Goals,    \* goals the clients may send
          NoGoal    \* "nobody": the latest velocity on /cmd_vel is not a drive

VARIABLES st,       \* progress of each goal
          driver,   \* goal whose drive command is the latest on /cmd_vel
          up        \* the server's rclcpp::ok()

serviceVars == <<st, driver, up>>

Progress == {"new", "active", "settled", "done", "lost"}

Init ==
    /\ st = [g \in Goals |-> "new"]
    /\ driver = NoGoal
    /\ up = TRUE

\* Every goal is accepted, however many are active already.
Accept(g) ==
    /\ up
    /\ st[g] = "new"
    /\ st' = [st EXCEPT ![g] = "active"]
    /\ UNCHANGED <<driver, up>>

Command(g) ==
    /\ up
    /\ st[g] = "active"
    /\ driver' = g
    /\ UNCHANGED <<st, up>>

\* Variant with a bug: the base is not stopped.
Settle_KeepsDriving(g) ==
    /\ up
    /\ st[g] = "active"
    /\ st' = [st EXCEPT ![g] = "settled"]
    /\ UNCHANGED <<driver, up>>

Settle(g) ==
    /\ up
    /\ st[g] = "active"
    /\ st' = [st EXCEPT ![g] = "settled"]
    /\ driver' = NoGoal
    /\ UNCHANGED up

Report(g) ==
    /\ up
    /\ st[g] = "settled"
    /\ st' = [st EXCEPT ![g] = "done"]
    /\ UNCHANGED <<driver, up>>

\* A shut-down server reports nothing: results still owed are lost.
Shutdown ==
    /\ up
    /\ up' = FALSE
    /\ st' = [g \in Goals |-> IF st[g] = "settled" THEN "lost" ELSE st[g]]
    /\ UNCHANGED driver

Withdraw(g) ==
    /\ ~up
    /\ st[g] = "active"
    /\ st' = [st EXCEPT ![g] = "lost"]
    /\ UNCHANGED <<driver, up>>

Step(g) ==
    \/ Accept(g)
    \/ Command(g)
    \/ Settle(g)
    \/ Report(g)
    \/ Withdraw(g)

Next ==
    \/ \E g \in Goals : Step(g)
    \/ Shutdown

Spec == Init /\ [][Next]_serviceVars

ServiceTypeOK ==
    /\ st \in [Goals -> Progress]
    /\ driver \in Goals \cup {NoGoal}
    /\ up \in BOOLEAN

=============================================================================
