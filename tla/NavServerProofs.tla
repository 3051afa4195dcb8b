-------------------------- MODULE NavServerProofs --------------------------
(* Proofs, for any set of goals and any poses, of the safety properties of  *)
(* NavServer and of its refinement of MotionService.                        *)
EXTENDS NavServer, TLAPS

\* A goal without a thread has not been seen by the server, and a thread whose
\* goal has succeeded has returned.
StatusMatchesThread ==
    \A g \in Goals :
        /\ goalState[g] = "unknown" <=> pc[g] = "none"
        /\ goalState[g] = "succeeded" => pc[g] = "exited"

\* The inductive invariant: DriverIsAlive alone says too little about a thread
\* that is about to be started, and StatusMatchesThread supplies that.
IInv == TypeOK /\ DriverIsAlive /\ StatusMatchesThread

-----------------------------------------------------------------------------

LEMMA InitTypeOK == Init => TypeOK
  BY NavPoseAssumption, NavPathAssumption DEF Init, TypeOK, InLoop, AtOrigin, Pose

LEMMA NextTypeOK == TypeOK /\ [Next]_vars => TypeOK'
<1> SUFFICES ASSUME TypeOK, [Next]_vars PROVE TypeOK'
  OBVIOUS
<1> USE DEF TypeOK, InLoop, threadVars, odomVars
<1>1. ASSUME NEW g \in Goals, HandleAccepted(g) PROVE TypeOK'
  BY <1>1 DEF HandleAccepted, ExecutorFree
<1>2. ASSUME NEW g \in Goals, HandleCancel(g) PROVE TypeOK'
  BY <1>2 DEF HandleCancel, ExecutorFree
<1>3. ASSUME NEW p \in Pose, OdomCallback(p) PROVE TypeOK'
  BY <1>3 DEF OdomCallback, ExecutorFree, Coord
<1>4. ASSUME NEW c \in Coord, OdomWrite(c) PROVE TypeOK'
  <2>1. odomMsg[c] \in Values
    BY DEF Pose
  <2>2. currentPos' \in Pose
    BY <1>4, <2>1 DEF OdomWrite, Pose
  <2>3. odomAt' \in Coord \cup {"idle"}
    BY <1>4 DEF OdomWrite, NextWrite, Coord
  <2>4. odomMsg' \in Pose
    BY <1>4, NavPoseAssumption DEF OdomWrite, AtOrigin, Pose
  <2> QED
    BY <1>4, <2>2, <2>3, <2>4 DEF OdomWrite
<1>5. ASSUME NEW g \in Goals, While(g) PROVE TypeOK'
  BY <1>5 DEF While, Goto
<1>6. ASSUME NEW g \in Goals, Track(g) PROVE TypeOK'
  <2>1. PICK t \in Ahead(currentT[g]) : currentT' = [currentT EXCEPT ![g] = t]
    BY <1>6 DEF Track
  <2>2. t \in 0 .. N
    BY <2>1, NavPathAssumption DEF Ahead
  <2> QED
    BY <1>6, <2>1, <2>2 DEF Track, Goto
<1>7. ASSUME NEW g \in Goals, Drive(g) PROVE TypeOK'
  BY <1>7 DEF Drive, Publish, Goto, Coord
<1>8. ASSUME NEW g \in Goals, NEW c \in Coord, Compare(g, c) PROVE TypeOK'
  BY <1>8 DEF Compare, Goto, NextCompare, Coord
<1>9. ASSUME NEW g \in Goals, Halt(g) PROVE TypeOK'
  BY <1>9 DEF Halt, Publish, Goto
<1>10. ASSUME NEW g \in Goals, Finish(g) PROVE TypeOK'
  BY <1>10 DEF Finish, Goto
<1>11. CASE Shutdown
  BY <1>11 DEF Shutdown
<1>12. CASE UNCHANGED vars
  BY <1>12 DEF vars
<1> QED
  BY <1>1, <1>2, <1>3, <1>4, <1>5, <1>6, <1>7, <1>8, <1>9, <1>10, <1>11, <1>12
  DEF Next, Executor, Thread

\* Every reachable state is well typed: in particular the path parameter of
\* every thread stays within 0..N (execute, lines 86 and 93).
THEOREM TypeCorrect == Spec => []TypeOK
<1> QED
  BY InitTypeOK, NextTypeOK, PTL DEF Spec

-----------------------------------------------------------------------------

LEMMA InitIInv == Init => IInv
  BY InitTypeOK DEF Init, IInv, DriverIsAlive, StatusMatchesThread

LEMMA NextIInv == IInv /\ [Next]_vars => IInv'
<1> SUFFICES ASSUME IInv, [Next]_vars PROVE DriverIsAlive' /\ StatusMatchesThread'
  BY NextTypeOK DEF IInv
<1> USE DEF IInv, TypeOK, DriverIsAlive, StatusMatchesThread, InLoop, threadVars, odomVars
<1>1. ASSUME NEW g \in Goals, HandleAccepted(g)
      PROVE  DriverIsAlive' /\ StatusMatchesThread'
  BY <1>1 DEF HandleAccepted, ExecutorFree
<1>2. ASSUME NEW g \in Goals, HandleCancel(g)
      PROVE  DriverIsAlive' /\ StatusMatchesThread'
  BY <1>2 DEF HandleCancel, ExecutorFree
<1>3. ASSUME NEW p \in Pose, OdomCallback(p)
      PROVE  DriverIsAlive' /\ StatusMatchesThread'
  BY <1>3 DEF OdomCallback, ExecutorFree
<1>4. ASSUME NEW c \in Coord, OdomWrite(c)
      PROVE  DriverIsAlive' /\ StatusMatchesThread'
  BY <1>4 DEF OdomWrite
<1>5. ASSUME NEW g \in Goals, While(g)
      PROVE  DriverIsAlive' /\ StatusMatchesThread'
  BY <1>5 DEF While, Goto
<1>6. ASSUME NEW g \in Goals, Track(g)
      PROVE  DriverIsAlive' /\ StatusMatchesThread'
  BY <1>6 DEF Track, Goto
<1>7. ASSUME NEW g \in Goals, Drive(g)
      PROVE  DriverIsAlive' /\ StatusMatchesThread'
  BY <1>7 DEF Drive, Publish, Goto, Coord
<1>8. ASSUME NEW g \in Goals, NEW c \in Coord, Compare(g, c)
      PROVE  DriverIsAlive' /\ StatusMatchesThread'
  BY <1>8 DEF Compare, Goto, NextCompare, Coord
<1>9. ASSUME NEW g \in Goals, Halt(g)
      PROVE  DriverIsAlive' /\ StatusMatchesThread'
  BY <1>9 DEF Halt, Publish, Goto
<1>10. ASSUME NEW g \in Goals, Finish(g)
       PROVE  DriverIsAlive' /\ StatusMatchesThread'
  BY <1>10 DEF Finish, Goto, Coord
<1>11. CASE Shutdown
  BY <1>11 DEF Shutdown
<1>12. CASE UNCHANGED vars
  BY <1>12 DEF vars
<1> QED
  BY <1>1, <1>2, <1>3, <1>4, <1>5, <1>6, <1>7, <1>8, <1>9, <1>10, <1>11, <1>12
  DEF Next, Executor, Thread

LEMMA IInvHolds == Spec => []IInv
<1> QED
  BY InitIInv, NextIInv, PTL DEF Spec

\* While the node runs, the base is never left to a drive command whose thread
\* has gone, for any number of concurrent goals (execute, lines 145-164).
THEOREM DriverAlive == Spec => []DriverIsAlive
<1>1. IInv => DriverIsAlive
  BY DEF IInv
<1> QED
  BY <1>1, IInvHolds, PTL

-----------------------------------------------------------------------------

\* Once a goal has been reported as succeeded, its thread never publishes on
\* /cmd_vel again (execute, lines 145, 160 and 170).
THEOREM QuietThreads == Spec => QuietAfterSuccess
<1>1. IInv /\ [Next]_vars => [SucceededIsQuiet]_vars
  <2> SUFFICES ASSUME IInv, Next, NEW g \in Goals,
                      goalState[g] = "succeeded", cmdVel' # cmdVel
               PROVE  cmdVel'.by # g
    BY DEF SucceededIsQuiet
  <2> USE DEF IInv, StatusMatchesThread, threadVars, odomVars
  <2>1. pc[g] = "exited"
    OBVIOUS
  <2>2. ASSUME NEW h \in Goals, Thread(h) PROVE cmdVel'.by # g
    <3>1. pc[h] \in {"drive", "stop"} /\ cmdVel'.by = h
      BY <2>2 DEF Thread, While, Track, Drive, Compare, Halt, Finish, Publish
    <3> QED
      BY <2>1, <3>1
  <2>3. CASE Executor
    BY <2>3 DEF Executor, HandleAccepted, HandleCancel, OdomCallback, OdomWrite
  <2>4. CASE Shutdown
    BY <2>4 DEF Shutdown
  <2> QED
    BY <2>2, <2>3, <2>4 DEF Next
<1> QED
  BY <1>1, IInvHolds, PTL DEF QuietAfterSuccess, Spec

-----------------------------------------------------------------------------
(* The refinement: each step of NavServer is a step of the promised service *)
(* or leaves its three variables unchanged.                                 *)

\* Observed is a function of the thread's position, the status and ok.
LEMMA ObservedValue ==
  ASSUME NEW g \in Goals
  PROVE  /\ pc[g] = "none" => Observed(g) = "new"
         /\ pc[g] \in InLoop => Observed(g) = "active"
         /\ pc[g] = "finish" => Observed(g) = (IF ok THEN "settled" ELSE "lost")
         /\ pc[g] = "exited" =>
              Observed(g) = (IF goalState[g] = "succeeded" THEN "done" ELSE "lost")
  BY DEF Observed, InLoop, Coord

LEMMA ObservedValueNext ==
  ASSUME NEW g \in Goals
  PROVE  /\ pc'[g] = "none" => Observed(g)' = "new"
         /\ pc'[g] \in InLoop => Observed(g)' = "active"
         /\ pc'[g] = "finish" => Observed(g)' = (IF ok' THEN "settled" ELSE "lost")
         /\ pc'[g] = "exited" =>
              Observed(g)' = (IF goalState'[g] = "succeeded" THEN "done" ELSE "lost")
  BY DEF Observed, InLoop, Coord

LEMMA InitService == Init => Service!Init
  BY ObservedValue DEF Init, Service!Init

\* Moving thread g from position l0, with the node's ok unchanged, leaves the
\* observable progress of every other goal alone.
LEMMA OthersUnchanged ==
  ASSUME TypeOK, NEW g \in Goals, NEW l, Goto(g, l), ok' = ok,
         \A h \in Goals \ {g} : goalState'[h] = goalState[h]
  PROVE  /\ pc'[g] = l
         /\ [h \in Goals |-> Observed(h)]' =
              [[h \in Goals |-> Observed(h)] EXCEPT ![g] = Observed(g)']
<1>1. pc'[g] = l /\ \A h \in Goals \ {g} : pc'[h] = pc[h]
  BY DEF TypeOK, Goto
<1>2. \A h \in Goals \ {g} : Observed(h)' = Observed(h)
  BY <1>1 DEF Observed
<1> QED
  BY <1>1, <1>2

LEMMA NextService == IInv /\ IInv' /\ [Next]_vars => [Service!Next]_(Service!serviceVars)
<1> SUFFICES ASSUME IInv, IInv', [Next]_vars
             PROVE  Service!Next \/ UNCHANGED Service!serviceVars
  OBVIOUS
<1> DEFINE obs == [h \in Goals |-> Observed(h)]
           drv == IF cmdVel.kind = "drive" THEN cmdVel.by ELSE NoGoal
<1> USE DEF IInv, threadVars, odomVars
<1>0. TypeOK
  OBVIOUS
<1>s. ASSUME pc' = pc, goalState' = goalState, cmdVel' = cmdVel, ok' = ok
      PROVE  UNCHANGED Service!serviceVars
  BY <1>s DEF Service!serviceVars, Observed
<1>1. ASSUME NEW g \in Goals, HandleAccepted(g) PROVE Service!Accept(g)
  <2>1. Goto(g, "while") /\ ok' = ok /\ cmdVel' = cmdVel /\ ok
    BY <1>1 DEF HandleAccepted, Goto, ExecutorFree
  <2>2. \A h \in Goals \ {g} : goalState'[h] = goalState[h]
    BY <1>1 DEF HandleAccepted, TypeOK
  <2>3. pc[g] = "none"
    BY <1>1 DEF HandleAccepted, StatusMatchesThread
  <2>4. Observed(g) = "new"
    BY <2>3, ObservedValue
  <2>5. pc'[g] = "while" /\ obs' = [obs EXCEPT ![g] = Observed(g)']
    BY <2>1, <2>2, OthersUnchanged
  <2>6. Observed(g)' = "active"
    BY <2>5, ObservedValueNext DEF InLoop
  <2> QED
    BY <2>1, <2>4, <2>5, <2>6 DEF Service!Accept
<1>2. ASSUME NEW g \in Goals, HandleCancel(g) PROVE UNCHANGED Service!serviceVars
  <2>1. \A h \in Goals : Observed(h)' = Observed(h)
    BY <1>2 DEF HandleCancel, Observed, TypeOK
  <2> QED
    BY <1>2, <2>1 DEF HandleCancel, Service!serviceVars
<1>3. ASSUME NEW p \in Pose, OdomCallback(p) PROVE UNCHANGED Service!serviceVars
  BY <1>3, <1>s DEF OdomCallback
<1>4. ASSUME NEW c \in Coord, OdomWrite(c) PROVE UNCHANGED Service!serviceVars
  BY <1>4, <1>s DEF OdomWrite
\* A thread that stays in its loop keeps its goal active.
<1>l. ASSUME NEW g \in Goals, NEW l \in InLoop, pc[g] \in InLoop, Goto(g, l),
             ok' = ok, goalState' = goalState
      PROVE  obs' = obs
  <2>1. pc'[g] = l /\ obs' = [obs EXCEPT ![g] = Observed(g)']
    BY <1>l, OthersUnchanged
  <2>2. Observed(g)' = "active" /\ Observed(g) = "active"
    BY <1>l, <2>1, ObservedValue, ObservedValueNext
  <2> QED
    BY <2>1, <2>2
<1>5. ASSUME NEW g \in Goals, While(g)
      PROVE  Service!Withdraw(g) \/ UNCHANGED Service!serviceVars
  <2>1. CASE ok
    <3>1. obs' = obs
      BY <1>5, <1>l, <2>1 DEF While, InLoop
    <3> QED
      BY <1>5, <3>1 DEF While, Service!serviceVars
  <2>2. CASE ~ok
    <3>1. pc'[g] = "finish" /\ obs' = [obs EXCEPT ![g] = Observed(g)']
      BY <1>5, <2>2, OthersUnchanged DEF While
    <3>2. Observed(g) = "active" /\ Observed(g)' = "lost"
      BY <1>5, <2>2, <3>1, ObservedValue, ObservedValueNext DEF While, InLoop
    <3> QED
      BY <1>5, <2>2, <3>1, <3>2 DEF While, Service!Withdraw
  <2> QED
    BY <2>1, <2>2
<1>6. ASSUME NEW g \in Goals, Track(g) PROVE UNCHANGED Service!serviceVars
  <2>1. obs' = obs
    BY <1>6, <1>l DEF Track, InLoop
  <2> QED
    BY <1>6, <2>1 DEF Track, Service!serviceVars
<1>7. ASSUME NEW g \in Goals, Drive(g)
      PROVE  Service!Command(g) \/ UNCHANGED Service!serviceVars
  <2>1. obs' = obs
    BY <1>7, <1>l DEF Drive, InLoop, Coord
  <2>2. CASE ok
    <3>1. drv' = g
      BY <1>7, <2>2 DEF Drive, Publish
    <3>2. Observed(g) = "active"
      BY <1>7, ObservedValue DEF Drive, InLoop
    <3> QED
      BY <1>7, <2>1, <2>2, <3>1, <3>2 DEF Drive, Service!Command
  <2>3. CASE ~ok
    BY <1>7, <2>1, <2>3 DEF Drive, Publish, Service!serviceVars
  <2> QED
    BY <2>2, <2>3
<1>8. ASSUME NEW g \in Goals, NEW c \in Coord, Compare(g, c)
      PROVE  UNCHANGED Service!serviceVars
  <2>1. obs' = obs
    BY <1>8, <1>l DEF Compare, NextCompare, InLoop, Coord
  <2> QED
    BY <1>8, <2>1 DEF Compare, Service!serviceVars
<1>9. ASSUME NEW g \in Goals, Halt(g)
      PROVE  Service!Settle(g) \/ Service!Withdraw(g)
  <2>1. pc'[g] = "finish" /\ obs' = [obs EXCEPT ![g] = Observed(g)']
    BY <1>9, OthersUnchanged DEF Halt
  <2>2. Observed(g) = "active" /\ Observed(g)' = IF ok THEN "settled" ELSE "lost"
    BY <1>9, <2>1, ObservedValue, ObservedValueNext DEF Halt, InLoop
  <2> QED
    BY <1>9, <2>1, <2>2 DEF Halt, Publish, Service!Settle, Service!Withdraw
<1>10. ASSUME NEW g \in Goals, Finish(g)
       PROVE  Service!Report(g) \/ UNCHANGED Service!serviceVars
  <2>1. \A h \in Goals \ {g} : goalState'[h] = goalState[h]
    BY <1>10 DEF Finish, TypeOK
  <2>2. pc'[g] = "exited" /\ obs' = [obs EXCEPT ![g] = Observed(g)']
    BY <1>10, <2>1, OthersUnchanged DEF Finish
  <2>3. goalState'[g] = "succeeded" <=> ok
    BY <1>10 DEF Finish, TypeOK, StatusMatchesThread
  <2>4. /\ Observed(g) = IF ok THEN "settled" ELSE "lost"
        /\ Observed(g)' = IF ok THEN "done" ELSE "lost"
    BY <1>10, <2>2, <2>3, ObservedValue, ObservedValueNext DEF Finish
  <2>5. CASE ok
    BY <1>10, <2>2, <2>4, <2>5 DEF Finish, Service!Report
  <2>6. CASE ~ok
    <3>1. obs' = obs
      BY <2>2, <2>4, <2>6
    <3> QED
      BY <1>10, <3>1 DEF Finish, Service!serviceVars
  <2> QED
    BY <2>5, <2>6
<1>11. CASE Shutdown
  <2>1. \A g \in Goals : Observed(g)' = IF Observed(g) = "settled" THEN "lost"
                                                               ELSE Observed(g)
    BY <1>11, <1>0 DEF Shutdown, TypeOK, Observed, InLoop, Coord
  <2> QED
    BY <1>11, <2>1 DEF Shutdown, Service!Shutdown, Service!Next
<1>12. CASE UNCHANGED vars
  BY <1>12, <1>s DEF vars
<1> QED
  BY <1>1, <1>2, <1>3, <1>4, <1>5, <1>6, <1>7, <1>8, <1>9, <1>10, <1>11, <1>12
  DEF Next, Executor, Thread, Service!Next, Service!Step

\* The navigation server implements the service the behaviour tree is checked
\* against, for any number of goals and threads.
THEOREM ServerImplementsService == Spec => ImplementsService
<1> QED
  BY InitService, NextService, IInvHolds, PTL DEF Spec, ImplementsService, Service!Spec
=============================================================================
