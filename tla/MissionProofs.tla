--------------------------- MODULE MissionProofs ---------------------------
(* Proof, for every routine and every number of goals, that the legs of a   *)
(* routine are requested in order, each after the earlier ones are reached,  *)
(* and that actuators are operated while the base is commanded to stand.    *)
EXTENDS Mission, SequenceTheorems, TLAPS

\* The sequence has passed only leaves whose goals are done, and a leaf other
\* than the final loop has sent at most one goal.
PassedAreDone  == \A g \in Sent : owner[g] <= at /\ (owner[g] < at => st[g] = "done")
OneGoalPerLeaf == \A g, h \in Sent : g # h /\ owner[g] = owner[h] => owner[g] = LoopLeaf

\* A raised done_flag_ comes from a goal of that leaf that the server finished.
FlagsAreEarned ==
    \A k \in Leaves : doneFlag[k] => \E g \in Sent : owner[g] = k /\ st[g] = "done"

\* Only the first leaf and the loop are ever waiting to be started.
IdleOnlyAtEnds ==
    /\ status = "IDLE" => at \in {1, LoopLeaf}
    /\ \A g \in Sent : owner[g] # 1

IInv == TypeOK /\ PassedAreDone /\ OneGoalPerLeaf /\ FlagsAreEarned /\ IdleOnlyAtEnds

Ordered == PassedAreDone /\ OneGoalPerLeaf /\ FlagsAreEarned /\ IdleOnlyAtEnds

-----------------------------------------------------------------------------

LEMMA InitIInv == Init => IInv
<1> SUFFICES ASSUME Init PROVE IInv
  OBVIOUS
<1>1. owner = <<>> /\ Len(owner) = 0 /\ Sent = {} /\ owner \in Seq(Leaves)
  BY DEF Init, Sent
<1>2. 1 \in Leaves /\ Plan[1] = "Start" /\ LoopLeaf \in Nat
  BY PlanAssumption DEF Leaves, LoopLeaf
<1>3. Server!ServiceTypeOK
  BY DEF Init, Server!Init, Server!ServiceTypeOK, Server!Progress, NoGoal
<1>4. Len(owner) <= MaxGoals
  BY <1>1, MaxGoalsAssumption
<1>5. at = 1 /\ doneFlag \in [Leaves -> BOOLEAN] /\ delivered = {} /\ actuated = {}
  BY DEF Init
<1>6. /\ status = "IDLE" /\ alive = TRUE /\ timer = FALSE /\ shouldStart = FALSE
      /\ refused \subseteq Refusable /\ thrownBy = NoLeaf
  BY DEF Init
<1>7. TypeOK
  BY <1>1, <1>2, <1>3, <1>4, <1>5, <1>6 DEF TypeOK
<1> QED
  BY <1>1, <1>2, <1>7
  DEF Init, IInv, PassedAreDone, OneGoalPerLeaf, FlagsAreEarned, IdleOnlyAtEnds

\* Appending leaf k's goal to a sequence of senders.
LEMMA SendFacts ==
  ASSUME TypeOK, NEW k \in Leaves, owner' = Append(owner, k)
  PROVE  /\ owner' \in Seq(Leaves)
         /\ Len(owner') = Len(owner) + 1
         /\ Sent' = Sent \cup {Len(owner')}
         /\ Len(owner') \notin Sent
         /\ \A g \in Sent : owner'[g] = owner[g]
         /\ owner'[Len(owner')] = k
<1>1. owner \in Seq(Leaves) /\ Len(owner) \in Nat
  BY DEF TypeOK
<1>2. /\ owner' \in Seq(Leaves)
      /\ Len(owner') = Len(owner) + 1
      /\ \A g \in 1 .. Len(owner) : owner'[g] = owner[g]
      /\ owner'[Len(owner) + 1] = k
  BY <1>1, AppendProperties
<1> QED
  BY <1>1, <1>2 DEF Sent

LEMMA LeafFacts ==
  /\ LoopLeaf \in Nat /\ LoopLeaf > 1 /\ LoopLeaf \in Leaves /\ Leaves \subseteq Nat
  /\ \A k \in Leaves : k <= LoopLeaf
  BY PlanAssumption DEF Leaves, LoopLeaf

LEMMA OwnerType ==
  ASSUME TypeOK
  PROVE  \A g \in Sent : owner[g] \in Leaves /\ owner[g] \in Nat
<1>1. owner \in Seq(Leaves)
  BY DEF TypeOK
<1>2. \A g \in 1 .. Len(owner) : owner[g] \in Leaves
  BY <1>1, ElementOfSeq
<1> QED
  BY <1>2, LeafFacts DEF Sent

\* The server's own steps keep its types and never take back a "done".
LEMMA ServerKeepsDone ==
  ASSUME Server!ServiceTypeOK, Server!Next
  PROVE  Server!ServiceTypeOK' /\ \A g \in Goals : st[g] = "done" => st'[g] = "done"
<1> USE DEF Server!ServiceTypeOK, Server!Progress
<1>1. ASSUME NEW g \in Goals, Server!Step(g)
      PROVE  Server!ServiceTypeOK' /\ \A h \in Goals : st[h] = "done" => st'[h] = "done"
  BY <1>1 DEF Server!Step, Server!Accept, Server!Command, Server!Settle, Server!Report,
              Server!Withdraw
<1>2. CASE Server!Shutdown
  BY <1>2 DEF Server!Shutdown
<1> QED
  BY <1>1, <1>2 DEF Server!Next

-----------------------------------------------------------------------------

(* A tick that sends a goal for leaf k, when the sequence is at k afterwards. *)

LEMMA SendOrdered ==
  ASSUME IInv, NEW k \in Leaves, NEW n, Sent' = Sent \cup {n}, n \notin Sent,
         \A g \in Sent : owner'[g] = owner[g],
         owner'[n] = k, at' = k, k # 1, at <= k,
         st' = st, doneFlag' = doneFlag,
         \A g \in Sent : owner[g] < k => st[g] = "done",
         \A g \in Sent : owner[g] = k => k = LoopLeaf,
         status' = "IDLE" => k = LoopLeaf
  PROVE  Ordered'
<1> USE DEF IInv
<1>1. k \in Nat /\ at \in Nat /\ \A g \in Sent : owner[g] \in Nat
  BY LeafFacts, OwnerType DEF TypeOK
<1>2. PassedAreDone'
  BY <1>1 DEF PassedAreDone
<1>3. OneGoalPerLeaf'
  BY DEF OneGoalPerLeaf, LoopLeaf
<1>4. FlagsAreEarned'
  <2> SUFFICES ASSUME NEW j \in Leaves, doneFlag'[j]
               PROVE  \E g \in Sent' : owner'[g] = j /\ st'[g] = "done"
    BY DEF FlagsAreEarned, Leaves
  <2>1. PICK g \in Sent : owner[g] = j /\ st[g] = "done"
    BY DEF FlagsAreEarned
  <2> QED
    BY <2>1
<1>5. IdleOnlyAtEnds'
  BY DEF IdleOnlyAtEnds, LoopLeaf
<1> QED
  BY <1>2, <1>3, <1>4, <1>5 DEF Ordered

LEMMA StartIInv == ASSUME IInv, TickStart PROVE IInv'
<1> USE DEF IInv
<1>1. at \in Leaves /\ at \in {1, LoopLeaf}
  BY DEF TickStart, IdleOnlyAtEnds, TypeOK
<1>2. CASE Plan[at] = "Start"
  <2>1. UNCHANGED <<owner, at, st, doneFlag>> /\ status' = "RUNNING"
    BY <1>2 DEF TickStart, OnStart, ArmTimer, SendGoal, serverVars
  <2>2. TypeOK'
    BY <1>2, <2>1 DEF TickStart, OnStart, ArmTimer, SendGoal, TypeOK, serverVars, nodeVars, Server!ServiceTypeOK, Sent
  <2> QED
    BY <2>1, <2>2 DEF PassedAreDone, OneGoalPerLeaf, FlagsAreEarned, IdleOnlyAtEnds, Sent
<1>3. CASE Plan[at] # "Start"
  <2>1. at = LoopLeaf /\ at # 1
    BY <1>1, <1>3, PlanAssumption, LeafFacts
  <2>2. /\ owner' = Append(owner, at) /\ Len(owner) < MaxGoals /\ status' = "RUNNING"
        /\ UNCHANGED <<at, st, driver, up, alive, refused, thrownBy, timer, shouldStart,
                      doneFlag, delivered, actuated>>
    BY <1>3 DEF TickStart, OnStart, ArmTimer, SendGoal, serverVars, nodeVars
  <2>3. TypeOK'
    <3>1. owner' \in Seq(Leaves) /\ Len(owner') = Len(owner) + 1 /\ Sent \subseteq Sent'
      BY <1>1, <2>2, SendFacts
    <3>2. Len(owner') <= MaxGoals
      BY <2>2, <3>1, MaxGoalsAssumption DEF TypeOK
    <3> QED
      BY <2>2, <3>1, <3>2 DEF TypeOK, Server!ServiceTypeOK
  <2>4. Ordered'
    <3>1. /\ Sent' = Sent \cup {Len(owner')} /\ Len(owner') \notin Sent
          /\ \A g \in Sent : owner'[g] = owner[g]
          /\ owner'[Len(owner')] = at
      BY <1>1, <2>2, SendFacts
    <3> QED
      BY <1>1, <2>1, <2>2, <3>1, SendOrdered, LeafFacts DEF PassedAreDone
  <2> QED
    BY <2>3, <2>4 DEF Ordered
<1> QED
  BY <1>2, <1>3

\* The leaf that succeeds has its one goal done, because its flag is earned, and
\* so have the leaves before it.
LEMMA AdvanceFindsAllDone ==
  ASSUME IInv, TickAdvance \/ TickThrows
  PROVE  \A g \in Sent : st[g] = "done"
<1> USE DEF IInv
<1>1. at \in Leaves /\ at \in Nat /\ at # LoopLeaf /\ OnRunningSucceeds(at)
  BY LeafFacts DEF TickAdvance, TickThrows, TypeOK
<1>2. SUFFICES ASSUME NEW g \in Sent, owner[g] = at PROVE st[g] = "done"
  BY <1>1, OwnerType DEF PassedAreDone
<1>3. Plan[at] # "Start"
  BY <1>1, <1>2, PlanAssumption DEF IdleOnlyAtEnds
<1>4. PICK h \in Sent : owner[h] = at /\ st[h] = "done"
  BY <1>1, <1>3 DEF OnRunningSucceeds, FlagsAreEarned
<1>5. g = h
  BY <1>1, <1>2, <1>4 DEF OneGoalPerLeaf
<1> QED
  BY <1>4, <1>5

LEMMA AdvanceIInv == ASSUME IInv, TickAdvance PROVE IInv'
<1> USE DEF IInv
<1>1. PICK next \in Leaves \ refused :
        /\ IsNext(at, next) /\ at' = next /\ owner' = Append(owner, next)
        /\ actuated' = actuated \cup Publishing(at, next)
  BY DEF TickAdvance, RunsOnTo
<1>2. /\ Len(owner) < MaxGoals /\ at # LoopLeaf /\ OnRunningSucceeds(at)
      /\ status = "RUNNING" /\ timer' \in BOOLEAN
      /\ UNCHANGED <<st, driver, up, alive, refused, thrownBy, shouldStart, doneFlag,
                    delivered, status>>
  BY DEF TickAdvance, RunsOnTo, serverVars, nodeVars, TypeOK
<1>3. at \in Leaves /\ at \in Nat /\ next \in Nat /\ at >= 1 /\ next > at /\ next <= LoopLeaf
  BY <1>1, LeafFacts DEF TypeOK, IsNext, Leaves
<1>4. TypeOK'
  <2>1. owner' \in Seq(Leaves) /\ Len(owner') = Len(owner) + 1 /\ Sent \subseteq Sent'
    BY <1>1, SendFacts
  <2>2. Len(owner') <= MaxGoals
    BY <1>2, <2>1, MaxGoalsAssumption DEF TypeOK
  <2>3. at' \in Leaves /\ Plan[at'] \in {"Start", "GoToPose", "Loop"}
    BY <1>1 DEF IsNext, EndsTick
  <2>4. at .. (next - 1) \subseteq Leaves
    BY <1>3, LeafFacts DEF Leaves, LoopLeaf
  <2>5. actuated' \subseteq Leaves
    BY <1>1, <2>4 DEF TypeOK, Publishing
  <2> QED
    BY <1>2, <2>1, <2>2, <2>3, <2>5 DEF TypeOK, Server!ServiceTypeOK
<1>5. \A g \in Sent : owner[g] \in Nat /\ owner[g] <= at
  BY OwnerType DEF PassedAreDone
<1>6. \A g \in Sent : st[g] = "done"
  BY AdvanceFindsAllDone
<1>7. \A g \in Sent : owner[g] < next => st[g] = "done"
  BY <1>6
<1>8. \A g \in Sent : owner[g] # next
  BY <1>3, <1>5
<1>9. Ordered'
  <2>1. /\ Sent' = Sent \cup {Len(owner')} /\ Len(owner') \notin Sent
        /\ \A g \in Sent : owner'[g] = owner[g]
        /\ owner'[Len(owner')] = next
    BY <1>1, SendFacts
  <2>2. at' = next /\ next # 1 /\ at <= next
    BY <1>1, <1>3
  <2>3. st' = st /\ doneFlag' = doneFlag /\ status' = "RUNNING"
    BY <1>2
  <2> QED
    BY <1>7, <1>8, <2>1, <2>2, <2>3, SendOrdered
<1> QED
  BY <1>4, <1>9 DEF Ordered

\* A tick that throws moves nothing the invariant speaks of but what is published.
LEMMA ThrowIInv == ASSUME IInv, TickThrows PROVE IInv'
<1> USE DEF IInv
<1>1. PICK next \in refused :
        /\ IsNext(at, next) /\ thrownBy' = next
        /\ actuated' = actuated \cup Publishing(at, next)
  BY DEF TickThrows, RunsOnTo
<1>2. /\ alive' = FALSE /\ timer' \in BOOLEAN
      /\ UNCHANGED <<st, driver, up, refused, at, status, owner, doneFlag, shouldStart, delivered>>
  BY DEF TickThrows, RunsOnTo, serverVars, TypeOK
<1>3. next \in Leaves /\ next \in Nat /\ next <= LoopLeaf /\ at \in Nat /\ at >= 1
  BY LeafFacts DEF TypeOK, Refusable, Leaves
<1>4. at .. (next - 1) \subseteq Leaves
  BY <1>3, LeafFacts DEF Leaves, LoopLeaf
<1>5. actuated' \subseteq Leaves
  BY <1>1, <1>4 DEF TypeOK, Publishing
<1>6. TypeOK'
  BY <1>1, <1>2, <1>5 DEF TypeOK, Sent, Server!ServiceTypeOK
<1>7. Ordered'
  BY <1>2 DEF Ordered, PassedAreDone, OneGoalPerLeaf, FlagsAreEarned, IdleOnlyAtEnds, Sent
<1> QED
  BY <1>6, <1>7 DEF Ordered

LEMMA NextIInv == IInv /\ [Next]_vars => IInv'
<1> SUFFICES ASSUME IInv, [Next]_vars PROVE IInv'
  OBVIOUS
<1> USE DEF IInv, PassedAreDone, OneGoalPerLeaf, FlagsAreEarned, IdleOnlyAtEnds
<1>1. CASE TickStart
  BY <1>1, StartIInv
<1>2. CASE TickAdvance
  BY <1>2, AdvanceIInv
<1>9. CASE TickThrows
  BY <1>9, ThrowIInv
<1>3. CASE TickLoop
  BY <1>3 DEF TickLoop, TypeOK, Sent, serverVars, nodeVars, Server!ServiceTypeOK
<1>4. CASE TimerFires
  BY <1>4 DEF TimerFires, TypeOK, Sent, serverVars, nodeVars, leafVars, Server!ServiceTypeOK
<1>5. CASE NodeStops
  BY <1>5 DEF NodeStops, TypeOK, Sent, serverVars, leafVars, Server!ServiceTypeOK
<1>6. ASSUME NEW g \in Goals, ResultCallback(g) PROVE IInv'
  <2>1. g \in Sent /\ st[g] = "done" /\ owner[g] \in Leaves
    BY <1>6, OwnerType DEF ResultCallback
  <2>2. UNCHANGED <<st, driver, up, alive, refused, thrownBy, at, status, timer, owner,
                    actuated, shouldStart>>
    BY <1>6 DEF ResultCallback, serverVars, nodeVars, leafVars
  <2>3. /\ doneFlag' \in [Leaves -> BOOLEAN] /\ delivered' \subseteq Sent
        /\ \A k \in Leaves : doneFlag'[k] => doneFlag[k] \/ k = owner[g]
    BY <1>6, <2>1 DEF ResultCallback, TypeOK
  <2>4. TypeOK'
    BY <2>2, <2>3 DEF TypeOK, Sent, Server!ServiceTypeOK
  <2>5. FlagsAreEarned'
    BY <2>1, <2>2, <2>3 DEF Sent
  <2> QED
    BY <2>2, <2>4, <2>5 DEF Sent
<1>7. ASSUME Server!Next, UNCHANGED treeVars PROVE IInv'
  <2>1. UNCHANGED <<alive, refused, thrownBy, at, status, timer, owner, actuated, doneFlag,
                    shouldStart, delivered>>
    BY <1>7 DEF treeVars, nodeVars, leafVars
  <2>2. Server!ServiceTypeOK' /\ \A g \in Goals : st[g] = "done" => st'[g] = "done"
    BY <1>7, ServerKeepsDone DEF TypeOK
  <2>3. TypeOK' /\ Sent' = Sent
    BY <2>1, <2>2 DEF TypeOK, Sent
  <2>4. Sent \subseteq Goals
    BY MaxGoalsAssumption DEF TypeOK, Sent, Goals
  <2> QED
    BY <2>1, <2>2, <2>3, <2>4
<1>8. CASE UNCHANGED vars
  BY <1>8 DEF vars, TypeOK, Sent, Server!ServiceTypeOK
<1> QED
  BY <1>1, <1>2, <1>3, <1>4, <1>5, <1>6, <1>7, <1>8, <1>9
  DEF Next, Tick, ServerStep, ServerShutdown, Server!Next

LEMMA IInvHolds == Spec => []IInv
<1> QED
  BY InitIInv, NextIInv, PTL DEF Spec

\* Every reachable state of the routine is well typed.
THEOREM TypeCorrect == Spec => []TypeOK
<1>1. IInv => TypeOK
  BY DEF IInv
<1> QED
  BY <1>1, IInvHolds, PTL

\* Whatever the routine, and however the network delays requests and results, a
\* leg's goal is sent only after the goals of all earlier legs are done.
THEOREM LegsAreOrdered == Spec => []LegsInOrder
<1>1. IInv => LegsInOrder
  <2> SUFFICES ASSUME IInv, NEW g \in Sent, NEW h \in Sent, owner[g] < owner[h]
               PROVE  st[g] = "done"
    BY DEF LegsInOrder
  <2>1. owner[g] \in Nat /\ owner[h] \in Nat /\ at \in Nat /\ owner[h] <= at
    BY LeafFacts, OwnerType DEF IInv, TypeOK, PassedAreDone
  <2>2. owner[g] < at
    BY <2>1
  <2> QED
    BY <2>2 DEF IInv, PassedAreDone
<1> QED
  BY <1>1, IInvHolds, PTL

\* Before the final loop at most one goal is under way, so at most one thread of
\* the server commands the base, whatever the routine.
THEOREM OneGoalAtATime == Spec => []OneGoalBeforeLoop
<1>1. IInv => OneGoalBeforeLoop
  <2> SUFFICES ASSUME IInv, NEW g \in Sent, NEW h \in Sent, g # h,
                      st[g] # "done", st[h] # "done"
               PROVE  owner[g] = LoopLeaf /\ owner[h] = LoopLeaf
    BY DEF OneGoalBeforeLoop
  <2>1. owner[g] \in Nat /\ owner[h] \in Nat /\ at \in Nat
    BY LeafFacts, OwnerType DEF IInv, TypeOK
  <2>2. owner[g] = at /\ owner[h] = at
    BY <2>1 DEF IInv, PassedAreDone
  <2> QED
    BY <2>2 DEF IInv, OneGoalPerLeaf
<1> QED
  BY <1>1, IInvHolds, PTL

-----------------------------------------------------------------------------

\* A drive in force is that of a goal which was sent and has not settled.
DriverUnderWay ==
    driver # NoGoal => driver \in Sent /\ st[driver] \in {"active", "lost"}

LEMMA NextDriver == IInv /\ DriverUnderWay /\ [Next]_vars => DriverUnderWay'
<1> SUFFICES ASSUME IInv, DriverUnderWay, [Next]_vars PROVE DriverUnderWay'
  OBVIOUS
<1>1. \A g \in Goals : g # NoGoal
  BY DEF Goals, NoGoal
<1>2. Sent \subseteq Goals /\ st \in [Goals -> Server!Progress]
  BY MaxGoalsAssumption DEF IInv, TypeOK, Sent, Goals, Server!ServiceTypeOK
<1>3. ASSUME UNCHANGED <<driver, st>>, Sent \subseteq Sent' PROVE DriverUnderWay'
  BY <1>3 DEF DriverUnderWay
<1>4. CASE Tick
  <2>1. UNCHANGED <<driver, st>>
    BY <1>4 DEF Tick, TickStart, TickAdvance, TickThrows, TickLoop, serverVars
  <2>2. owner' = owner \/ \E k \in Leaves : owner' = Append(owner, k)
    BY <1>4 DEF Tick, TickStart, TickAdvance, TickThrows, TickLoop, OnStart, ArmTimer, SendGoal, IInv, TypeOK
  <2>3. Sent \subseteq Sent'
    BY <2>2, SendFacts DEF Sent, IInv
  <2> QED
    BY <1>3, <2>1, <2>3
<1>5. CASE TimerFires \/ NodeStops \/ (\E g \in Goals : ResultCallback(g)) \/ UNCHANGED vars
  <2>1. UNCHANGED <<driver, st, owner>>
    BY <1>5 DEF TimerFires, NodeStops, ResultCallback, vars, serverVars, leafVars
  <2> QED
    BY <1>3, <2>1 DEF Sent
<1>6. ASSUME NEW g \in Goals, ServerStep(g) PROVE DriverUnderWay'
  <2>1. g \in Sent /\ Sent' = Sent
    BY <1>6 DEF ServerStep, treeVars, leafVars, Sent
  <2>2. CASE Server!Accept(g)
    BY <1>2, <2>1, <2>2 DEF Server!Accept, DriverUnderWay
  <2>3. CASE Server!Command(g)
    BY <1>2, <2>1, <2>3 DEF Server!Command, DriverUnderWay
  <2>4. CASE Server!Settle(g)
    BY <2>4 DEF Server!Settle, DriverUnderWay
  <2>5. CASE Server!Report(g)
    BY <1>2, <2>1, <2>5 DEF Server!Report, DriverUnderWay
  <2>6. CASE Server!Withdraw(g)
    BY <1>2, <2>1, <2>6 DEF Server!Withdraw, DriverUnderWay
  <2> QED
    BY <1>6, <2>2, <2>3, <2>4, <2>5, <2>6 DEF ServerStep, Server!Step
<1>7. CASE ServerShutdown
  <2>1. Sent' = Sent
    BY <1>7 DEF ServerShutdown, treeVars, leafVars, Sent
  <2> QED
    BY <1>2, <1>7, <2>1 DEF ServerShutdown, Server!Shutdown, DriverUnderWay
<1> QED
  BY <1>4, <1>5, <1>6, <1>7 DEF Next

\* Whatever the routine, the tick that operates an actuator finds every goal sent
\* so far done, and so no drive command in force.
THEOREM ActuatorsAtRest == Spec => ActuatesAtRest
<1>1. Init => DriverUnderWay
  BY DEF Init, Server!Init, DriverUnderWay
<1>2. IInv /\ DriverUnderWay /\ [Next]_vars => [actuated' # actuated => driver = NoGoal]_vars
  <2> SUFFICES ASSUME IInv, DriverUnderWay, [Next]_vars, actuated' # actuated
               PROVE  driver = NoGoal
    OBVIOUS
  <2>1. TickAdvance \/ TickThrows
    BY DEF Next, Tick, TickStart, TickLoop, TimerFires, NodeStops, ResultCallback,
           ServerStep, ServerShutdown, leafVars, treeVars, vars
  <2> QED
    BY <2>1, AdvanceFindsAllDone DEF DriverUnderWay
<1> QED
  BY <1>1, <1>2, NextDriver, IInvHolds, PTL DEF Spec, ActuatesAtRest

-----------------------------------------------------------------------------

\* What LatestGoal chooses for a leaf that has one goal only.
LEMMA LatestIsSent ==
  ASSUME IInv, at # LoopLeaf, NEW g \in Sent, owner[g] = at
  PROVE  LatestGoal(at) \in Sent
<1>1. Sent \subseteq Nat
  BY DEF Sent
<1>2. \A h \in Sent : owner[h] = at => h <= g
  <2> SUFFICES ASSUME NEW h \in Sent, owner[h] = at PROVE h <= g
    OBVIOUS
  <2>1. h = g
    BY DEF IInv, OneGoalPerLeaf
  <2> QED
    BY <1>1, <2>1
<1> QED
  BY <1>2 DEF LatestGoal

\* Up to the final loop a GoToPose leaf that succeeds has its goal done: the flag it
\* reads, which is never lowered, was raised for its one goal (lines 39-49, 55-61 of
\* odom_go_to_position.cpp).  Only the loop's leaf, which runs again, reports early.
THEOREM ReachedBeforeLoop ==
  Spec => [][LeafSucceeds /\ Plan[at] \notin {"Start", "Loop"}
                => st[LatestGoal(at)] = "done"]_vars
<1> DEFINE Reached == LeafSucceeds /\ Plan[at] \notin {"Start", "Loop"}
                         => st[LatestGoal(at)] = "done"
<1>1. IInv /\ [Next]_vars => [Reached]_vars
  <2> SUFFICES ASSUME IInv, Next, LeafSucceeds, Plan[at] \notin {"Start", "Loop"}
               PROVE  st[LatestGoal(at)] = "done"
    OBVIOUS
  <2>1. at \in Leaves /\ at # LoopLeaf
    BY PlanAssumption DEF IInv, TypeOK
  <2>2. TickAdvance
    BY <2>1 DEF LeafSucceeds, Next, Tick, TickStart, TickThrows, TickLoop, TimerFires, NodeStops,
                ResultCallback, ServerStep, ServerShutdown, leafVars, treeVars
  <2>3. PICK g \in Sent : owner[g] = at
    BY <2>1, <2>2 DEF TickAdvance, OnRunningSucceeds, IInv, FlagsAreEarned
  <2> QED
    BY <2>1, <2>2, <2>3, LatestIsSent, AdvanceFindsAllDone
<1> QED
  BY <1>1, IInvHolds, PTL DEF Spec

\* The routine leaves the server to itself: what happens to goals and to the base is a
\* behaviour of the contract, whatever the tree does and wherever it stops.
THEOREM KeepsContract == Spec => Server!Spec
<1>1. Init => Server!Init
  BY DEF Init
<1>2. [Next]_vars => [Server!Next]_(Server!serviceVars)
  <2> SUFFICES ASSUME [Next]_vars PROVE [Server!Next]_(Server!serviceVars)
    OBVIOUS
  <2>1. CASE Tick \/ TimerFires \/ NodeStops \/ \E g \in Goals : ResultCallback(g)
    BY <2>1 DEF Tick, TickStart, TickAdvance, TickThrows, TickLoop, TimerFires, NodeStops, ResultCallback,
                serverVars, Server!serviceVars
  <2>2. CASE (\E g \in Goals : ServerStep(g)) \/ ServerShutdown
    BY <2>2 DEF ServerStep, ServerShutdown, Server!Next
  <2>3. CASE UNCHANGED vars
    BY <2>3 DEF vars, Server!serviceVars
  <2> QED
    BY <2>1, <2>2, <2>3 DEF Next
<1> QED
  BY <1>1, <1>2, PTL DEF Spec, Server!Spec

=============================================================================
