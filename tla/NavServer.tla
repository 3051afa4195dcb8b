----------------------------- MODULE NavServer -----------------------------
(***************************************************************************)
(* CrobotNavigationActionServer.  The executor runs the odometry callback  *)
(* and the action server's handlers one at a time; every accepted goal has *)
(* a detached thread of its own that runs execute().  All threads read     *)
(* currentPos, which the odometry callback overwrites one coordinate at a  *)
(* time and without a lock, and all of them publish on /cmd_vel.           *)
(*                                                                         *)
(* A coordinate is abstracted to a small set of values, and "within the    *)
(* threshold of points.back()" to equality.  closestT's result is any path *)
(* parameter it may return (module BezierPath).  A velocity is either a    *)
(* "drive" (line 145) or a "stop" (line 160).                              *)
(***************************************************************************)
EXTENDS Integers

CONSTANTS Goals, NoGoal,
          Values,     \* values of one coordinate of a pose
          Origin,     \* value of every coordinate before the first odometry
          EndPos,     \* EndPos[g]: the last point of goal g's path
          N,          \* path parameter that stands for t = 1.0
          Lookahead   \* most that one closestT call can add to t

Coord == {"x", "y", "theta"}
Pose  == [Coord -> Values]

ASSUME NavGoalAssumption == NoGoal \notin Goals
ASSUME NavPoseAssumption == Origin \in Values /\ EndPos \in [Goals -> Pose]
ASSUME NavPathAssumption == N \in Nat /\ Lookahead \in Nat

VARIABLES goalState,  \* the action server's status of each goal
          pc,         \* where each goal's execute() thread is
          currentT,   \* execute()'s local currentT
          currentPos, \* the member read by every thread
          odomAt,     \* coordinate odom_cb writes next, or "idle"
          odomMsg,    \* odom_cb's argument
          cmdVel,     \* latest message on /cmd_vel
          ok          \* rclcpp::ok()

threadVars == <<pc, currentT, cmdVel>>
odomVars   == <<currentPos, odomAt, odomMsg>>
vars == <<goalState, pc, currentT, currentPos, odomAt, odomMsg, cmdVel, ok>>

AtOrigin == [c \in Coord |-> Origin]

\* x, y and theta are written, and compared, in this order.
NextWrite(c)   == CASE c = "x" -> "y" [] c = "y" -> "theta" [] c = "theta" -> "idle"
NextCompare(c) == CASE c = "x" -> "y" [] c = "y" -> "theta" [] c = "theta" -> "stop"

Init ==
    /\ goalState = [g \in Goals |-> "unknown"]
    /\ pc = [g \in Goals |-> "none"]
    /\ currentT = [g \in Goals |-> 0]
    /\ currentPos = AtOrigin
    /\ odomAt = "idle"
    /\ odomMsg = AtOrigin
    /\ cmdVel = [kind |-> "stop", by |-> NoGoal]
    /\ ok = TRUE

-----------------------------------------------------------------------------
(* The executor: one callback at a time, none after shutdown.              *)

ExecutorFree == ok /\ odomAt = "idle"

\* handle_goal accepts every goal; handle_accepted detaches its thread.
HandleAccepted(g) ==
    /\ ExecutorFree
    /\ goalState[g] = "unknown"
    /\ goalState' = [goalState EXCEPT ![g] = "executing"]
    /\ pc' = [pc EXCEPT ![g] = "while"]
    /\ UNCHANGED <<currentT, cmdVel, ok, odomVars>>

\* The cancel request is accepted; no thread ever looks at it.
HandleCancel(g) ==
    /\ ExecutorFree
    /\ goalState[g] = "executing"
    /\ goalState' = [goalState EXCEPT ![g] = "canceling"]
    /\ UNCHANGED <<threadVars, odomVars, ok>>

OdomCallback(p) ==
    /\ ExecutorFree
    /\ odomMsg' = p
    /\ odomAt' = "x"
    /\ UNCHANGED <<goalState, threadVars, currentPos, ok>>

\* One assignment to currentPos.  The argument dies with the callback.
OdomWrite(c) ==
    /\ odomAt = c
    /\ currentPos' = [currentPos EXCEPT ![c] = odomMsg[c]]
    /\ odomAt' = NextWrite(c)
    /\ odomMsg' = IF NextWrite(c) = "idle" THEN AtOrigin ELSE odomMsg
    /\ UNCHANGED <<goalState, threadVars, ok>>

-----------------------------------------------------------------------------
(* execute(), one action per access to shared state.                       *)

\* A publisher of a shut-down context sends nothing.
Publish(m) == cmdVel' = IF ok THEN m ELSE cmdVel

Goto(g, l) == pc' = [pc EXCEPT ![g] = l]

While(g) ==
    /\ pc[g] = "while"
    /\ Goto(g, IF ok THEN "track" ELSE "finish")
    /\ UNCHANGED <<goalState, currentT, cmdVel, ok, odomVars>>

\* What closestT may return for t: never behind t, never past the end.
Ahead(t) == {u \in t .. (t + Lookahead) : u <= N}

Track(g) ==
    /\ pc[g] = "track"
    /\ \E t \in Ahead(currentT[g]) : currentT' = [currentT EXCEPT ![g] = t]
    /\ Goto(g, "drive")
    /\ UNCHANGED <<goalState, cmdVel, ok, odomVars>>

Drive(g) ==
    /\ pc[g] = "drive"
    /\ Publish([kind |-> "drive", by |-> g])
    /\ Goto(g, "x")
    /\ UNCHANGED <<goalState, currentT, ok, odomVars>>

\* Succeeds as soon as the position is right, before the base is stopped.
Compare_SucceedEarly(g, c) ==
    /\ pc[g] = c
    /\ Goto(g, IF currentPos[c] = EndPos[g][c] THEN NextCompare(c) ELSE "while")
    /\ goalState' = IF c = "theta" /\ currentPos[c] = EndPos[g][c]
                    THEN [goalState EXCEPT ![g] = "succeeded"] ELSE goalState
    /\ UNCHANGED <<currentT, cmdVel, ok, odomVars>>

\* One operand of the && chain, read from the shared currentPos.
Compare(g, c) ==
    /\ pc[g] = c
    /\ Goto(g, IF currentPos[c] = EndPos[g][c] THEN NextCompare(c) ELSE "while")
    /\ UNCHANGED <<goalState, currentT, cmdVel, ok, odomVars>>

Halt_NoStop(g) ==
    /\ pc[g] = "stop"
    /\ Goto(g, "finish")
    /\ UNCHANGED <<goalState, currentT, cmdVel, ok, odomVars>>

Halt_NoBreak(g) ==
    /\ pc[g] = "stop"
    /\ Publish([kind |-> "stop", by |-> g])
    /\ Goto(g, "while")
    /\ UNCHANGED <<goalState, currentT, ok, odomVars>>

Halt(g) ==
    /\ pc[g] = "stop"
    /\ Publish([kind |-> "stop", by |-> g])
    /\ Goto(g, "finish")
    /\ UNCHANGED <<goalState, currentT, ok, odomVars>>

Finish_Unchecked(g) ==
    /\ pc[g] = "finish"
    /\ goalState' = [goalState EXCEPT ![g] = "succeeded"]
    /\ Goto(g, "exited")
    /\ UNCHANGED <<currentT, cmdVel, ok, odomVars>>

Finish(g) ==
    /\ pc[g] = "finish"
    /\ goalState' = IF ok THEN [goalState EXCEPT ![g] = "succeeded"] ELSE goalState
    /\ Goto(g, "exited")
    /\ UNCHANGED <<currentT, cmdVel, ok, odomVars>>

Shutdown ==
    /\ ok
    /\ ok' = FALSE
    /\ UNCHANGED <<goalState, threadVars, odomVars>>

Thread(g) ==
    \/ While(g)
    \/ Track(g)
    \/ Drive(g)
    \/ \E c \in Coord : Compare(g, c)
    \/ Halt(g)
    \/ Finish(g)

Executor ==
    \/ \E g \in Goals : HandleAccepted(g) \/ HandleCancel(g)
    \/ \E p \in Pose : OdomCallback(p)
    \/ \E c \in Coord : OdomWrite(c)

Next ==
    \/ Executor
    \/ \E g \in Goals : Thread(g)
    \/ Shutdown

Spec == Init /\ [][Next]_vars

\* The operating system schedules every thread, the executor's included.
Fairness ==
    /\ \A g \in Goals : WF_vars(Thread(g))
    /\ WF_vars(\E c \in Coord : OdomWrite(c))

FairSpec == Spec /\ Fairness

-----------------------------------------------------------------------------
(* Properties                                                              *)

InLoop == {"while", "track", "drive", "stop"} \cup Coord

\* Every variable has its type; in particular closestT keeps t within 0..N.
TypeOK ==
    /\ goalState \in [Goals -> {"unknown", "executing", "canceling", "succeeded"}]
    /\ pc \in [Goals -> {"none", "finish", "exited"} \cup InLoop]
    /\ currentT \in [Goals -> 0 .. N]
    /\ currentPos \in Pose
    /\ odomAt \in Coord \cup {"idle"}
    /\ odomMsg \in Pose
    /\ cmdVel \in [kind : {"drive", "stop"}, by : Goals \cup {NoGoal}]
    /\ ok \in BOOLEAN

\* While the node runs, a base left driving is always being driven by a thread
\* still in its loop, whatever the other threads published: no interleaving of
\* threads ends with the last message on /cmd_vel a drive that nobody will
\* follow with a stop (lines 145 and 160).
DriverIsAlive ==
    ok /\ cmdVel.kind = "drive" => cmdVel.by \in Goals /\ pc[cmdVel.by] \in InLoop

\* After a goal's success has been reported its thread never speaks on
\* /cmd_vel again, so the client may hand the base to the next goal (line 170).
SucceededIsQuiet ==
    \A g \in Goals : goalState[g] = "succeeded" /\ cmdVel' # cmdVel => cmdVel'.by # g

QuietAfterSuccess == [][SucceededIsQuiet]_vars

\* If the node stays up and odometry keeps reporting the goal's end pose, a goal
\* that was accepted is eventually reported as reached, whether or not somebody
\* asked for its cancellation and whatever other goals do.
ArrivalIsReported ==
    \A g \in Goals :
        []ok /\ <>[](currentPos = EndPos[g]) => []<>(pc[g] = "none" \/ goalState[g] = "succeeded")

\* The server keeps the contract its clients rely on.
Observed(g) ==
    CASE pc[g] = "none" -> "new"
      [] pc[g] \in InLoop -> "active"
      [] pc[g] = "finish" -> (IF ok THEN "settled" ELSE "lost")
      [] pc[g] = "exited" -> (IF goalState[g] = "succeeded" THEN "done" ELSE "lost")

Service == INSTANCE MotionService WITH
    st <- [g \in Goals |-> Observed(g)],
    driver <- IF cmdVel.kind = "drive" THEN cmdVel.by ELSE NoGoal,
    up <- ok

\* Every behaviour of the threads and callbacks, cancel requests and shutdown
\* included, is one of the promised service: a goal stops the base before it
\* reports success, and only active goals drive.
ImplementsService == Service!Spec

=============================================================================
