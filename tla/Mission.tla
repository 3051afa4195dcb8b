------------------------------ MODULE Mission ------------------------------
(***************************************************************************)
(* The competition routine: BehaviorNode ticking the tree of               *)
(* tree/bt_default.xml against the navigation server (MotionService).      *)
(*                                                                         *)
(* The tree is one long sequence of leaves, flattened into Plan: a Start   *)
(* leaf, GoToPose leaves, the actuator leaves SetBeacon and SetBinIntake,  *)
(* and a GoToPose under KeepRunningUntilFailure at its end ("Loop").  Each *)
(* leaf is an object of its own that lives as long as the tree.            *)
(* BehaviorNode spins one executor thread, so a tick, a timer and a result *)
(* callback exclude each other; the server is another process, and         *)
(* requests and results are messages.                                      *)
(*                                                                         *)
(* SetBinIntake throws for an input it does not know, and nothing between  *)
(* its tick() and main() catches: the process ends.  Which of these leaves *)
(* have such an input is a matter of the tree file: the deployed one has   *)
(* it (setBin="true" in line 58, where the port is setBinIntake and knows  *)
(* in, out and off).                                                       *)
(***************************************************************************)
EXTENDS Integers, Sequences

CONSTANTS Plan,      \* the kinds of the leaves, in order
          MaxGoals   \* bound: goals sent in one run

Leaves   == 1 .. Len(Plan)
LoopLeaf == Len(Plan)
Goals    == 1 .. MaxGoals
NoGoal   == 0
NoLeaf   == 0

ASSUME PlanAssumption ==
    /\ Plan \in Seq({"Start", "GoToPose", "SetBeacon", "SetBinIntake", "Loop"})
    /\ LoopLeaf > 1
    /\ \A k \in Leaves : /\ Plan[k] = "Start" <=> k = 1
                         /\ Plan[k] = "Loop" <=> k = LoopLeaf
ASSUME MaxGoalsAssumption == MaxGoals \in Nat

VARIABLES st, driver, up,  \* the navigation server, as MotionService has it
          alive,           \* the behaviour tree's node is running
          refused,         \* leaves of the tree file whose input tick() throws for
          thrownBy,        \* the leaf whose exception ended the node, or NoLeaf
          at,              \* the stateful leaf the sequence is at
          status,          \* that leaf's status, "IDLE" or "RUNNING"
          doneFlag,        \* done_flag_ of each GoToPose leaf
          timer,           \* the Start leaf's timer is armed
          shouldStart,     \* its _shouldStart
          owner,           \* owner[g]: the leaf that sent goal g
          delivered,       \* goals whose result callback has run
          actuated         \* leaves that have published on /gpio_controller

Server == INSTANCE MotionService

serverVars == <<st, driver, up>>
nodeVars   == <<alive, refused, thrownBy>>
leafVars   == <<at, status, timer, owner, actuated>>
vars == <<st, driver, up, alive, refused, thrownBy, at, status, doneFlag, timer,
          shouldStart, owner, delivered, actuated>>

Sent      == 1 .. Len(owner)
Refusable == {k \in Leaves : Plan[k] = "SetBinIntake"}

Init ==
    /\ Server!Init
    /\ alive = TRUE /\ thrownBy = NoLeaf
    /\ refused \in SUBSET Refusable
    /\ at = 1 /\ status = "IDLE"
    /\ doneFlag = [k \in Leaves |-> FALSE]
    /\ timer = FALSE /\ shouldStart = FALSE
    /\ owner = <<>> /\ delivered = {} /\ actuated = {}

-----------------------------------------------------------------------------
(* A tick of the tree, every 500 ms.                                       *)

\* The timer is dropped at once, as the subscription made in the constructor is.
ArmTimer_NotKept == UNCHANGED <<timer, owner>>

\* onStart of a Start leaf.
ArmTimer == timer' = TRUE /\ UNCHANGED owner

\* onStart of a GoToPose leaf: done_flag_ is not touched.
SendGoal(k) ==
    /\ Len(owner) < MaxGoals
    /\ owner' = Append(owner, k)
    /\ UNCHANGED timer

OnStart(k) == IF Plan[k] = "Start" THEN ArmTimer ELSE SendGoal(k)

\* Does not wait for a result, only for a goal to have been sent.
OnRunningSucceeds_Eager(k) ==
    IF Plan[k] = "Start" THEN shouldStart ELSE \E g \in Sent : owner[g] = k

\* onRunning of leaf k returns SUCCESS.
OnRunningSucceeds(k) == IF Plan[k] = "Start" THEN shouldStart ELSE doneFlag[k]

\* A tick ends at a leaf that has to wait, or throws.
EndsTick(k) == Plan[k] \in {"GoToPose", "Loop"} \/ k \in refused

\* m is the first leaf after k that a tick cannot pass in one go.
IsNext(k, m) ==
    /\ m > k /\ EndsTick(m)
    /\ \A j \in (k + 1) .. (m - 1) : ~EndsTick(j)

\* What a tick that goes from leaf k to leaf m publishes: the Start leaf's
\* start_robot and the actuator leaves' commands.
Publishing(k, m) == {j \in k .. (m - 1) : Plan[j] # "GoToPose"}

\* The sequence leaves leaf k and runs on as far as leaf m in the same tick.  A Start
\* leaf's timer is cancelled as it succeeds.
RunsOnTo(k, m) ==
    /\ IsNext(k, m)
    /\ actuated' = actuated \cup Publishing(k, m)
    /\ timer' = IF Plan[k] = "Start" THEN FALSE ELSE timer

\* The leaf is IDLE: the very first tick, or a new round of the loop.
TickStart ==
    /\ alive /\ status = "IDLE"
    /\ OnStart(at)
    /\ status' = "RUNNING"
    /\ UNCHANGED <<serverVars, nodeVars, at, doneFlag, shouldStart, delivered, actuated>>

\* Forgets that the next leaf has been started already.
TickAdvance_StaysIdle ==
    /\ alive /\ status = "RUNNING" /\ at # LoopLeaf
    /\ OnRunningSucceeds(at)
    /\ Len(owner) < MaxGoals
    /\ \E next \in Leaves \ refused :
        /\ RunsOnTo(at, next)
        /\ at' = next
        /\ owner' = Append(owner, next)
    /\ status' = "IDLE"
    /\ UNCHANGED <<serverVars, nodeVars, doneFlag, shouldStart, delivered>>

\* The leaf succeeds, and the sequences above it run on in the same tick: the
\* actuator leaves publish and the next stateful leaf is started.
TickAdvance ==
    /\ alive /\ status = "RUNNING" /\ at # LoopLeaf
    /\ OnRunningSucceeds(at)
    /\ Len(owner) < MaxGoals
    /\ \E next \in Leaves \ refused :
        /\ RunsOnTo(at, next)
        /\ at' = next
        /\ owner' = Append(owner, next)
    /\ UNCHANGED status
    /\ UNCHANGED <<serverVars, nodeVars, doneFlag, shouldStart, delivered>>

\* The same tick comes to a leaf that throws.  The sequences above it, the retry,
\* the timer's callback, spin() and main() let the exception pass: the node is gone,
\* with what the leaves before it have published.
TickThrows ==
    /\ alive /\ status = "RUNNING" /\ at # LoopLeaf
    /\ OnRunningSucceeds(at)
    /\ \E next \in refused :
        /\ RunsOnTo(at, next)
        /\ thrownBy' = next
    /\ alive' = FALSE
    /\ UNCHANGED <<serverVars, refused, at, status, owner, doneFlag, shouldStart, delivered>>

\* KeepRunningUntilFailure resets its successful child and keeps running.
TickLoop ==
    /\ alive /\ status = "RUNNING" /\ at = LoopLeaf
    /\ OnRunningSucceeds(at)
    /\ status' = "IDLE"
    /\ UNCHANGED <<serverVars, nodeVars, at, doneFlag, timer, shouldStart, owner,
                   delivered, actuated>>

Tick == TickStart \/ TickAdvance \/ TickThrows \/ TickLoop

\* timer_callback of the Start leaf.
TimerFires ==
    /\ alive /\ timer
    /\ shouldStart' = TRUE
    /\ UNCHANGED <<serverVars, nodeVars, leafVars, doneFlag, delivered>>

\* As if the leaves shared one flag.
ResultCallback_AllLeaves(g) ==
    /\ alive /\ g \in Sent \ delivered /\ st[g] = "done"
    /\ doneFlag' = [k \in Leaves |-> TRUE]
    /\ delivered' = delivered \cup {g}
    /\ UNCHANGED <<serverVars, nodeVars, leafVars, shouldStart>>

\* nav_to_pose_callback of the leaf that sent goal g.
ResultCallback(g) ==
    /\ alive /\ g \in Sent \ delivered /\ st[g] = "done"
    /\ doneFlag' = [doneFlag EXCEPT ![owner[g]] = TRUE]
    /\ delivered' = delivered \cup {g}
    /\ UNCHANGED <<serverVars, nodeVars, leafVars, shouldStart>>

\* The node exits or crashes; onHalted() and the destructors cancel nothing.
NodeStops ==
    /\ alive
    /\ alive' = FALSE
    /\ UNCHANGED <<serverVars, refused, thrownBy, leafVars, doneFlag, shouldStart, delivered>>

treeVars == <<nodeVars, leafVars, doneFlag, shouldStart, delivered>>

\* A request arrives, in any order with the others; the server works on it.
ServerStep(g) == g \in Sent /\ Server!Step(g) /\ UNCHANGED treeVars
ServerShutdown == Server!Shutdown /\ UNCHANGED treeVars

Next ==
    \/ Tick
    \/ TimerFires
    \/ NodeStops
    \/ \E g \in Goals : ResultCallback(g)
    \/ \E g \in Goals : ServerStep(g)
    \/ ServerShutdown

Spec == Init /\ [][Next]_vars

\* Wall timers fire, messages between live processes arrive, and the robot,
\* steered by a goal, comes to its end pose (ArrivalIsReported of NavServer).
Fairness ==
    /\ WF_vars(Tick)
    /\ WF_vars(TimerFires)
    /\ \A g \in Goals :
        /\ WF_vars(ResultCallback(g))
        /\ WF_vars(g \in Sent /\ Server!Accept(g) /\ UNCHANGED treeVars)
        /\ WF_vars(g \in Sent /\ Server!Settle(g) /\ UNCHANGED treeVars)
        /\ WF_vars(g \in Sent /\ Server!Report(g) /\ UNCHANGED treeVars)

FairSpec == Spec /\ Fairness

-----------------------------------------------------------------------------
(* Properties                                                              *)

\* Every variable has its type.
TypeOK ==
    /\ Server!ServiceTypeOK
    /\ alive \in BOOLEAN /\ timer \in BOOLEAN /\ shouldStart \in BOOLEAN
    /\ refused \subseteq Refusable /\ thrownBy \in refused \cup {NoLeaf}
    /\ at \in Leaves /\ Plan[at] \in {"Start", "GoToPose", "Loop"}
    /\ status \in {"IDLE", "RUNNING"}
    /\ doneFlag \in [Leaves -> BOOLEAN]
    /\ owner \in Seq(Leaves) /\ Len(owner) <= MaxGoals
    /\ delivered \subseteq Sent
    /\ actuated \subseteq Leaves

\* A leg of the routine is requested only after every earlier leg's goal has
\* been reported as reached by the server: results that are late, or overtake
\* one another, never let the sequence run ahead of the robot.
LegsInOrder ==
    \A g, h \in Sent : owner[g] < owner[h] => st[g] = "done"

\* Two goals can only be under way together if both come from the final loop:
\* before it, one thread of the server commands the base.
OneGoalBeforeLoop ==
    \A g, h \in Sent :
        g # h /\ st[g] \notin {"done", "lost"} /\ st[h] \notin {"done", "lost"}
            => owner[g] = LoopLeaf /\ owner[h] = LoopLeaf

\* The beacon and the intake are operated only while the base is commanded to
\* stand still, although the tick never looks at /cmd_vel.
ActuatesAtRest == [][actuated' # actuated => driver = NoGoal]_vars

\* If nothing else stops a process, a routine whose tree file gives every leaf an
\* input it knows comes to its final loop; any other, the deployed one included, gets
\* as far as the first leaf that throws, and ends there.
ReachesLoop ==
    [](alive \/ thrownBy # NoLeaf) /\ []up
        => <>(IF refused = {} THEN at = LoopLeaf
              ELSE thrownBy \in refused /\ \A k \in refused : thrownBy <= k)

\* If the tree's node dies, goals under way or still in the network cannot
\* leave the base driving: the server stops it for good.
CrashStopsBase == []up => (~alive ~> [](driver = NoGoal))

\* crobot_navigation/README.md:64: GoToPosition "navigates robot to the goal
\* position": when the leaf reports "Goal reached" the goal it sent last is done.
LatestGoal(k) == CHOOSE g \in Sent : owner[g] = k /\ \A h \in Sent : owner[h] = k => h <= g
LeafSucceeds  == status = "RUNNING" /\ (at' # at \/ status' = "IDLE")
ReachedIsReached ==
    [][LeafSucceeds /\ Plan[at] # "Start" => st[LatestGoal(at)] = "done"]_vars

=============================================================================
