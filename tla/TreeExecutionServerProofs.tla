--------------------- MODULE TreeExecutionServerProofs ---------------------
(* Proofs, for any number of goals, about the threads and handlers of       *)
(* TreeExecutionServer and of its refinement of TreeService.                *)
EXTENDS TreeExecutionServer, TLAPS

Ongoing == {"begin", "reload", "create", "finish"} \cup InLoop

\* A goal's state says where its execute() is.
GoalMatchesThread ==
    \A g \in Goals :
        /\ pc[g] = "none" => goal[g] \in {"new", "requested", "rejected"}
                             \/ (goal[g] = "executing" /\ joining = g)
        /\ pc[g] \in Ongoing => goal[g] \in {"executing", "canceling"} /\ thread = g
        /\ pc[g] = "done" => goal[g] \in Terminal

\* A goal that waits for join() has not begun, and a thread that was started has.
ThreadsBegin ==
    /\ joining # None => goal[joining] = "executing" /\ pc[joining] = "none"
    /\ thread # None => pc[thread] # "none"

\* A goal is ticked after its cancellation at most once: the next look at the loop's
\* head finds the cancellation.
TicksBound ==
    \A g \in Goals :
        /\ ticks[g] \in {0, 1}
        /\ ticks[g] = 1 => goal[g] \in {"canceling"} \cup Terminal /\ pc[g] # "tick"

\* No goal begins after the timer was fired and before its callback is over.
TimerFirst == joining # None \/ thread # None => early \/ timer = "cancelled"

IInv == /\ TypeOK /\ GoalMatchesThread /\ ThreadsBegin /\ TicksBound /\ TimerFirst
        /\ TicksItsOwnTree /\ RegistrationIsAlone

-----------------------------------------------------------------------------

LEMMA InitIInv == Init => IInv
<1> SUFFICES ASSUME Init PROVE IInv
  OBVIOUS
<1>1. TypeOK
  BY DEF Init, TypeOK
<1>2. GoalMatchesThread /\ ThreadsBegin /\ TicksBound /\ TimerFirst
  BY DEF Init, GoalMatchesThread, ThreadsBegin, TicksBound, TimerFirst, Ongoing, InLoop
<1>3. TicksItsOwnTree /\ RegistrationIsAlone
  BY DEF Init, TicksItsOwnTree, RegistrationIsAlone, InLoop
<1> QED
  BY <1>1, <1>2, <1>3 DEF IInv

LEMMA NextTypeOK == TypeOK /\ [Next]_vars => TypeOK'
<1> SUFFICES ASSUME TypeOK, [Next]_vars
             PROVE  TypeOK'
  OBVIOUS
<1> USE DEF goalVars, treeVars, factoryVars
<1> DEFINE GoalsTyped ==
      /\ goal \in [Goals -> {"new", "requested", "rejected", "executing", "canceling"}
                            \cup Terminal]
      /\ pc \in [Goals -> {"none", "begin", "reload", "create", "finish", "done"} \cup InLoop]
<1>1. CASE TimerFires
  BY <1>1 DEF TimerFires, ExecutorFree, TypeOK
<1>2. CASE TimerDone
  BY <1>2 DEF TimerDone, Loads, TypeOK
<1>3. CASE Joined
  BY <1>3 DEF Joined, TypeOK
<1>4. ASSUME NEW g \in Goals, HandleGoal(g)
      PROVE  TypeOK'
  BY <1>4 DEF HandleGoal, ExecutorFree, TypeOK
<1>5. ASSUME NEW g \in Goals, HandleCancel(g)
      PROVE  TypeOK'
  BY <1>5 DEF HandleCancel, ExecutorFree, TypeOK
<1>6. ASSUME NEW g \in Goals, Request(g)
      PROVE  TypeOK'
  BY <1>6 DEF Request, TypeOK
<1>7. ASSUME NEW g \in Goals, RequestCancel(g)
      PROVE  TypeOK'
  BY <1>7 DEF RequestCancel, TypeOK
<1>8. ASSUME NEW g \in Goals, Executing(g)
      PROVE  TypeOK'
  <2> USE DEF At, Goto, EndGoal, Terminal, InLoop
  <2>1. CASE Begin(g)
    BY <2>1 DEF Begin, TypeOK
  <2>2. CASE Reload(g)
    BY <2>2 DEF Reload, Loads, TypeOK
  <2>3. CASE Create(g)
    BY <2>3 DEF Create, TypeOK
  <2>4. CASE Test(g)
    <3>1. GoalsTyped'
      BY <2>4 DEF Test, TypeOK
    <3>2. halted' \in BOOLEAN
      BY <2>4 DEF Test, TypeOK
    <3>3. UNCHANGED <<cancels, joining, thread, status, tree, threw, ticks, factoryVars, ok,
                      fault, early>>
      BY <2>4 DEF Test
    <3> QED
      BY <3>1, <3>2, <3>3 DEF TypeOK
  <2>5. CASE Tick(g)
    <3>1. /\ ticks' \in [Goals -> Nat] /\ status' \in [Goals -> {"RUNNING", "SUCCESS", "FAILURE"}]
          /\ threw' \subseteq Goals
      BY <2>5 DEF Tick, TypeOK
    <3>2. GoalsTyped'
      BY <2>5 DEF Tick, TypeOK
    <3>3. /\ UNCHANGED <<cancels, joining, thread, tree, factoryVars, ok, fault, early>>
          /\ halted' = FALSE
      BY <2>5 DEF Tick
    <3> QED
      BY <3>1, <3>2, <3>3 DEF TypeOK
  <2>6. CASE After(g)
    <3>1. GoalsTyped'
      BY <2>6 DEF After, TypeOK
    <3>2. halted' \in BOOLEAN
      BY <2>6 DEF After, TypeOK
    <3>3. UNCHANGED <<cancels, joining, thread, status, tree, threw, ticks, factoryVars, ok,
                      fault, early>>
      BY <2>6 DEF After
    <3> QED
      BY <3>1, <3>2, <3>3 DEF TypeOK
  <2>7. CASE Finish(g)
    BY <2>7 DEF Finish, TypeOK
  <2> QED
    BY <1>8, <2>1, <2>2, <2>3, <2>4, <2>5, <2>6, <2>7 DEF Executing
<1>9. CASE ParametersChange \/ Shutdown \/ Destroy
  BY <1>9 DEF ParametersChange, Shutdown, Destroy, TypeOK
<1>10. CASE UNCHANGED vars
  BY <1>10 DEF vars, TypeOK
<1> QED
  BY <1>1, <1>2, <1>3, <1>4, <1>5, <1>6, <1>7, <1>8, <1>9, <1>10 DEF Next, Handlers

\* A thread that goes on changes nothing that a client can see.
LEMMA ThreadGoesOn ==
  ASSUME IInv, NEW g \in Goals, thread = g, pc[g] \in Ongoing,
         NEW place \in Ongoing, Goto(g, place),
         goal' = goal, joining' = joining, thread' = thread
  PROVE  GoalMatchesThread' /\ ThreadsBegin' /\ UNCHANGED Service!serviceVars
<1> USE DEF Goto, Ongoing, InLoop
<1>1. GoalMatchesThread'
  BY DEF IInv, TypeOK, GoalMatchesThread
<1>2. ThreadsBegin'
  BY DEF IInv, TypeOK, ThreadsBegin
<1>3. \A h \in Goals : Progress(h)' = Progress(h)
  BY DEF IInv, TypeOK, Progress, Terminal
<1>4. Executed' = Executed
  BY DEF IInv, TypeOK, Executed
<1> QED
  BY <1>1, <1>2, <1>3, <1>4 DEF Service!serviceVars

\* A thread that ends takes its goal to a terminal state.
LEMMA ThreadEnds ==
  ASSUME IInv, NEW g \in Goals, thread = g, pc[g] \in Ongoing,
         NEW how \in Terminal, EndGoal(g, how), how = "canceled" => goal[g] = "canceling",
         joining' = joining, thread' = thread
  PROVE  GoalMatchesThread' /\ ThreadsBegin' /\ Service!End(g, how)
<1> USE DEF Goto, EndGoal, Ongoing, InLoop, Terminal
<1>0. goal[g] \in {"executing", "canceling"} /\ pc[g] \notin {"none", "done"}
  BY DEF IInv, GoalMatchesThread
<1>1. GoalMatchesThread'
  BY DEF IInv, TypeOK, GoalMatchesThread
<1>2. ThreadsBegin'
  BY <1>0 DEF IInv, TypeOK, ThreadsBegin
<1>3. \A h \in Goals : Progress(h)' = IF h = g THEN how ELSE Progress(h)
  BY DEF IInv, TypeOK, Progress
<1>4. Executed = g /\ Executed' = None
  BY <1>0, NoneAssumption DEF IInv, TypeOK, Executed
<1>5. {h \in Goals : goal[h] = "canceling"}' = {h \in Goals : goal[h] = "canceling"} \ {g}
  BY DEF IInv, TypeOK
<1>6. [h \in Goals |-> Progress(h)]' = [[h \in Goals |-> Progress(h)] EXCEPT ![g] = how]
  BY <1>3
<1> QED
  BY <1>1, <1>2, <1>4, <1>5, <1>6 DEF Service!End


LEMMA NextThreads ==
  IInv /\ [Next]_vars =>
      GoalMatchesThread' /\ ThreadsBegin' /\ [Service!Next]_(Service!serviceVars)
<1> SUFFICES ASSUME IInv, [Next]_vars
             PROVE  /\ GoalMatchesThread' /\ ThreadsBegin'
                    /\ Service!Next \/ UNCHANGED Service!serviceVars
  OBVIOUS
<1> DEFINE Threads == GoalMatchesThread /\ ThreadsBegin
           progress == [h \in Goals |-> Progress(h)]
<1>q. ASSUME goal' = goal, pc' = pc, joining' = joining, thread' = thread
      PROVE  Threads' /\ UNCHANGED Service!serviceVars
  BY <1>q DEF IInv, GoalMatchesThread, ThreadsBegin, Service!serviceVars, Progress, Executed
<1>1. CASE TimerFires \/ TimerDone \/ ParametersChange \/ Shutdown \/ Destroy
  BY <1>1, <1>q DEF TimerFires, TimerDone, ParametersChange, Shutdown, Destroy, goalVars
<1>2. CASE Joined
  <2>1. /\ joining \in Goals /\ pc[joining] = "none" /\ goal[joining] = "executing"
        /\ goal' = goal /\ thread' = joining /\ joining' = None
        /\ pc' = [pc EXCEPT ![joining] = "begin"]
    BY <1>2 DEF Joined, IInv, TypeOK, ThreadsBegin, goalVars
  <2>2. \A h \in Goals : pc[h] \notin Ongoing
    BY <1>2, NoneAssumption DEF Joined, IInv, GoalMatchesThread, Ongoing, InLoop
  <2>3. Threads'
    BY <2>1, <2>2 DEF IInv, TypeOK, GoalMatchesThread, ThreadsBegin, Ongoing, InLoop
  <2>4. /\ Progress(joining) = "waiting"
        /\ progress' = [progress EXCEPT ![joining] = "active"]
    BY <2>1 DEF Progress, Terminal, IInv, TypeOK
  <2>5. Executed = None /\ Executed' = joining
    BY <1>2, <2>1, NoneAssumption DEF Joined, Executed, IInv, TypeOK
  <2>6. Service!Execute(joining)
    BY <2>1, <2>4, <2>5 DEF Service!Execute
  <2> QED
    BY <2>1, <2>3, <2>6 DEF Service!Next
<1>3. ASSUME NEW g \in Goals, HandleGoal(g)
      PROVE  Threads' /\ Service!Next
  <2>1. /\ joining = None /\ goal[g] = "requested" /\ thread' = thread /\ pc' = pc
        /\ pc[g] = "none"
    BY <1>3 DEF HandleGoal, ExecutorFree, IInv, TypeOK, GoalMatchesThread, Ongoing, Terminal
  <2>2. Executed' = Executed
    BY <2>1 DEF Executed
  <2>3. CASE goal' = [goal EXCEPT ![g] = "rejected"] /\ joining' = joining
    <3>1. Threads'
      BY <2>1, <2>3 DEF IInv, TypeOK, GoalMatchesThread, ThreadsBegin, Ongoing, InLoop
    <3>2. Progress(g) = "new" /\ progress' = [progress EXCEPT ![g] = "rejected"]
      BY <2>1, <2>3 DEF Progress, Terminal, IInv, TypeOK
    <3>3. {h \in Goals : goal[h] = "canceling"}' = {h \in Goals : goal[h] = "canceling"}
      BY <2>1, <2>3 DEF IInv, TypeOK
    <3> QED
      BY <2>2, <3>1, <3>2, <3>3 DEF Service!Reject, Service!Next
  <2>4. CASE goal' = [goal EXCEPT ![g] = "executing"] /\ joining' = g
    <3>1. Threads'
      <4>1. GoalMatchesThread'
        BY <2>1, <2>4, NoneAssumption DEF IInv, TypeOK, GoalMatchesThread, Ongoing, InLoop
      <4>2. ThreadsBegin'
        BY <2>1, <2>4 DEF IInv, TypeOK, ThreadsBegin
      <4> QED
        BY <4>1, <4>2
    <3>2. Progress(g) = "new" /\ progress' = [progress EXCEPT ![g] = "waiting"]
      BY <2>1, <2>4 DEF Progress, Terminal, IInv, TypeOK
    <3>3. {h \in Goals : goal[h] = "canceling"}' = {h \in Goals : goal[h] = "canceling"}
      BY <2>1, <2>4 DEF IInv, TypeOK
    <3>4. \A h \in Goals : Progress(h) # "waiting"
      BY <2>1, NoneAssumption DEF IInv, TypeOK, GoalMatchesThread, Progress, Terminal
    <3> QED
      BY <2>2, <3>1, <3>2, <3>3, <3>4 DEF Service!Accept, Service!Next
  <2> QED
    BY <1>3, <2>3, <2>4 DEF HandleGoal
<1>4. ASSUME NEW g \in Goals, HandleCancel(g)
      PROVE  Threads' /\ (Service!Next \/ UNCHANGED Service!serviceVars)
  <2>1. joining = None /\ joining' = joining /\ thread' = thread /\ pc' = pc
    BY <1>4 DEF HandleCancel, ExecutorFree
  <2>2. CASE goal[g] = "executing"
    <3>1. goal' = [goal EXCEPT ![g] = "canceling"] /\ pc[g] \in Ongoing
      BY <1>4, <2>1, <2>2, NoneAssumption
      DEF HandleCancel, IInv, TypeOK, GoalMatchesThread, Ongoing, Terminal
    <3>2. Threads'
      BY <2>1, <2>2, <3>1, NoneAssumption
      DEF IInv, TypeOK, GoalMatchesThread, ThreadsBegin, Ongoing, InLoop
    <3>3. Progress(g) = "active" /\ progress' = progress
      BY <2>1, <2>2, <3>1 DEF Progress, Terminal, IInv, TypeOK, Ongoing, InLoop
    <3>4. {h \in Goals : goal[h] = "canceling"}'
              = {h \in Goals : goal[h] = "canceling"} \cup {g}
      BY <3>1 DEF IInv, TypeOK
    <3>5. Executed' = Executed
      BY <2>1 DEF Executed
    <3> QED
      BY <3>2, <3>3, <3>4, <3>5 DEF Service!Cancel, Service!Next
  <2>3. CASE goal[g] # "executing"
    BY <1>4, <1>q, <2>1, <2>3 DEF HandleCancel
  <2> QED
    BY <2>2, <2>3
<1>5. ASSUME NEW g \in Goals, Request(g)
      PROVE  Threads' /\ UNCHANGED Service!serviceVars
  <2>1. /\ goal[g] = "new" /\ goal' = [goal EXCEPT ![g] = "requested"]
        /\ pc' = pc /\ joining' = joining /\ thread' = thread
    BY <1>5 DEF Request
  <2>2. Threads'
    BY <2>1 DEF IInv, TypeOK, GoalMatchesThread, ThreadsBegin, Ongoing, InLoop, Terminal
  <2>3. progress' = progress /\ Executed' = Executed
    BY <2>1 DEF Progress, Executed, Terminal, IInv, TypeOK
  <2>4. {h \in Goals : goal[h] = "canceling"}' = {h \in Goals : goal[h] = "canceling"}
    BY <2>1 DEF IInv, TypeOK
  <2> QED
    BY <2>2, <2>3, <2>4 DEF Service!serviceVars
<1>6. ASSUME NEW g \in Goals, RequestCancel(g)
      PROVE  Threads' /\ UNCHANGED Service!serviceVars
  BY <1>6, <1>q DEF RequestCancel
<1>7. ASSUME NEW g \in Goals, Executing(g)
      PROVE  Threads' /\ (Service!Next \/ UNCHANGED Service!serviceVars)
  <2>0. /\ thread = g /\ pc[g] \in Ongoing
        /\ joining' = joining /\ thread' = thread
    BY <1>7 DEF Executing, Begin, Reload, Create, Test, Tick, After, Finish, At, Ongoing, InLoop
  <2>1. ASSUME NEW place \in Ongoing, Goto(g, place), goal' = goal
        PROVE  Threads' /\ UNCHANGED Service!serviceVars
    BY <2>0, <2>1, ThreadGoesOn
  <2>2. ASSUME NEW how \in Terminal, EndGoal(g, how), how = "canceled" => goal[g] = "canceling"
        PROVE  Threads' /\ Service!Next
    <3>1. Threads' /\ Service!End(g, how)
      BY <2>0, <2>2, ThreadEnds
    <3> QED
      BY <2>2, <3>1 DEF Service!Next, Service!Outcomes, Terminal
  <2> USE DEF Ongoing, InLoop, Terminal
  <2>3. CASE Begin(g)
    BY <2>1, <2>3 DEF Begin, goalVars
  <2>4. CASE Reload(g)
    BY <2>1, <2>4 DEF Reload, goalVars
  <2>5. CASE Create(g)
    <3>1. CASE Goto(g, "test") /\ goal' = goal
      BY <2>1, <3>1
    <3>2. CASE EndGoal(g, "aborted")
      BY <2>2, <3>2
    <3>3. CASE goal' = goal /\ pc' = pc
      BY <1>q, <2>0, <3>3
    <3> QED
      BY <2>5, <3>1, <3>2, <3>3 DEF Create
  <2>6. CASE Test(g)
    <3>1. CASE EndGoal(g, "canceled") /\ goal[g] = "canceling"
      BY <2>2, <3>1
    <3>2. CASE (Goto(g, "finish") \/ Goto(g, "tick")) /\ goal' = goal
      BY <2>1, <3>2
    <3> QED
      BY <2>6, <3>1, <3>2 DEF Test
  <2>7. CASE Tick(g)
    <3>1. CASE Goto(g, "after") /\ goal' = goal
      BY <2>1, <3>1
    <3>2. CASE EndGoal(g, "aborted")
      BY <2>2, <3>2
    <3> QED
      BY <2>7, <3>1, <3>2 DEF Tick
  <2>8. CASE After(g)
    <3>1. CASE Goto(g, "test") /\ goal' = goal
      BY <2>1, <3>1
    <3>2. CASE EndGoal(g, "aborted")
      BY <2>2, <3>2
    <3> QED
      BY <2>8, <3>1, <3>2 DEF After
  <2>9. CASE Finish(g)
    BY <2>2, <2>9 DEF Finish
  <2> QED
    BY <1>7, <2>3, <2>4, <2>5, <2>6, <2>7, <2>8, <2>9 DEF Executing
<1>8. CASE UNCHANGED vars
  BY <1>8, <1>q DEF vars, goalVars
<1> QED
  BY <1>1, <1>2, <1>3, <1>4, <1>5, <1>6, <1>7, <1>8 DEF Next, Handlers

LEMMA NextTicks == IInv /\ [Next]_vars => TicksBound'
<1> SUFFICES ASSUME IInv, [Next]_vars
             PROVE  TicksBound'
  OBVIOUS
<1>1. ASSUME ticks' = ticks,
             \A g \in Goals : /\ goal[g] \in {"canceling"} \cup Terminal =>
                                    goal'[g] \in {"canceling"} \cup Terminal
                              /\ pc'[g] = "tick" => pc[g] = "tick"
      PROVE  TicksBound'
  BY <1>1 DEF IInv, TicksBound
<1>2. CASE Handlers
  <2>1. /\ ticks' = ticks
        /\ \A g \in Goals : pc'[g] = "tick" => pc[g] = "tick"
    BY <1>2 DEF Handlers, TimerFires, TimerDone, Joined, HandleGoal, HandleCancel,
                treeVars, IInv, TypeOK
  <2>2. \A g \in Goals : goal[g] \in {"canceling"} \cup Terminal =>
                             goal'[g] \in {"canceling"} \cup Terminal
    BY <1>2 DEF Handlers, TimerFires, TimerDone, Joined, HandleGoal, HandleCancel,
                goalVars, IInv, TypeOK, Terminal
  <2> QED
    BY <1>1, <2>1, <2>2
<1>3. ASSUME NEW g \in Goals, Request(g) \/ RequestCancel(g)
      PROVE  TicksBound'
  <2>1. /\ ticks' = ticks /\ pc' = pc
        /\ \A h \in Goals : goal[h] \in {"canceling"} \cup Terminal => goal'[h] = goal[h]
    BY <1>3 DEF Request, RequestCancel, treeVars, IInv, TypeOK, Terminal
  <2> QED
    BY <1>1, <2>1
<1>4. ASSUME NEW g \in Goals, Executing(g)
      PROVE  TicksBound'
  <2>0. thread = g /\ goal[g] \in {"executing", "canceling"}
    BY <1>4 DEF Executing, Begin, Reload, Create, Test, Tick, After, Finish, At, Ongoing, InLoop,
                IInv, GoalMatchesThread
  <2>1. ASSUME ticks' = ticks, NEW place, place # "tick", Goto(g, place),
               goal' = goal \/ \E how \in Terminal : goal' = [goal EXCEPT ![g] = how]
        PROVE  TicksBound'
    <3>1. \A h \in Goals : /\ goal[h] \in {"canceling"} \cup Terminal =>
                                    goal'[h] \in {"canceling"} \cup Terminal
                           /\ pc'[h] = "tick" => pc[h] = "tick"
      BY <2>1 DEF Goto, IInv, TypeOK
    <3> QED
      BY <1>1, <2>1, <3>1
  <2> USE DEF EndGoal, treeVars, goalVars
  <2>2. CASE Begin(g)
    BY <2>1, <2>2 DEF Begin
  <2>3. CASE Reload(g)
    BY <2>1, <2>3 DEF Reload
  <2>4. CASE Create(g)
    <3>1. CASE pc' = pc /\ goal' = goal
      BY <1>1, <2>4, <3>1 DEF Create
    <3> QED
      BY <2>1, <2>4, <3>1 DEF Create, Terminal
  <2>5. CASE Test(g)
    <3>1. CASE Goto(g, "tick") /\ goal' = goal /\ goal[g] # "canceling"
      <4>1. goal[g] \notin {"canceling"} \cup Terminal
        BY <2>0, <3>1 DEF Terminal
      <4>2. ticks[g] = 0 /\ ticks' = ticks
        BY <2>5, <4>1 DEF Test, IInv, TicksBound
      <4> QED
        BY <3>1, <4>2 DEF IInv, TypeOK, TicksBound, Goto
    <3> QED
      BY <2>1, <2>5, <3>1 DEF Test, Terminal
  <2>6. CASE Tick(g)
    <3>1. pc[g] = "tick" /\ ticks[g] = 0
      BY <2>6 DEF Tick, At, IInv, TicksBound
    <3>2. ticks' = [ticks EXCEPT ![g] = IF goal[g] = "canceling" THEN 1 ELSE 0]
      BY <2>6, <3>1 DEF Tick, IInv, TypeOK
    <3>3. /\ pc'[g] # "tick" /\ \A h \in Goals \ {g} : pc'[h] = pc[h] /\ goal'[h] = goal[h]
          /\ goal[g] = "canceling" => goal'[g] \in {"canceling"} \cup Terminal
      BY <2>6 DEF Tick, Goto, IInv, TypeOK, Terminal
    <3>4. /\ ticks'[g] \in {0, 1} /\ (ticks'[g] = 1 => goal[g] = "canceling")
          /\ \A h \in Goals \ {g} : ticks'[h] = ticks[h]
      BY <3>2 DEF IInv, TypeOK
    <3> QED
      BY <3>3, <3>4 DEF IInv, TicksBound
  <2>7. CASE After(g)
    BY <2>1, <2>7 DEF After, Terminal
  <2>8. CASE Finish(g)
    BY <2>1, <2>8 DEF Finish, Terminal
  <2> QED
    BY <1>4, <2>2, <2>3, <2>4, <2>5, <2>6, <2>7, <2>8 DEF Executing
<1>5. CASE ParametersChange \/ Shutdown \/ Destroy \/ UNCHANGED vars
  BY <1>1, <1>5 DEF ParametersChange, Shutdown, Destroy, vars, treeVars, goalVars
<1> QED
  BY <1>2, <1>3, <1>4, <1>5 DEF Next

LEMMA NextRegistration == IInv /\ [Next]_vars => TimerFirst' /\ RegistrationIsAlone'
<1> SUFFICES ASSUME IInv, [Next]_vars
             PROVE  TimerFirst' /\ RegistrationIsAlone'
  OBVIOUS
<1> USE DEF IInv, TypeOK, TimerFirst, RegistrationIsAlone
<1>1. CASE TimerFires \/ TimerDone
  BY <1>1 DEF TimerFires, TimerDone, Loads, ExecutorFree
<1>2. CASE Joined
  BY <1>2 DEF Joined, factoryVars
<1>3. ASSUME NEW g \in Goals, HandleGoal(g)
      PROVE  TimerFirst' /\ RegistrationIsAlone'
  <2>1. CASE joining' = joining /\ early' = early
    BY <1>3, <2>1 DEF HandleGoal, factoryVars
  <2>2. CASE early' = (early \/ timer = "armed")
    <3>1. timer \in {"armed", "cancelled"} /\ timer' = timer /\ fault' = fault
      BY <1>3 DEF HandleGoal, ExecutorFree, factoryVars
    <3>2. early' \/ timer' = "cancelled"
      BY <2>2, <3>1
    <3>3. fault' # "race"
      BY <1>3, <3>1 DEF HandleGoal, ExecutorFree, Up
    <3> QED
      BY <3>2, <3>3
  <2> QED
    BY <1>3, <2>1, <2>2 DEF HandleGoal
<1>4. ASSUME NEW g \in Goals, HandleCancel(g) \/ Request(g) \/ RequestCancel(g)
      PROVE  TimerFirst' /\ RegistrationIsAlone'
  BY <1>4 DEF HandleCancel, Request, RequestCancel, factoryVars
<1>5. ASSUME NEW g \in Goals, Reload(g) \/ Create(g)
      PROVE  TimerFirst' /\ RegistrationIsAlone'
  <2>1. thread = g /\ thread # None /\ thread' = thread /\ joining' = joining
    BY <1>5, NoneAssumption DEF Reload, Create, At
  <2>2. early' = early /\ timer' = timer
    BY <1>5 DEF Reload, Create, factoryVars
  <2>3. timer = "firing" => early
    BY <2>1
  <2>4. fault' = "race" => fault = "race" \/ timer = "firing"
    BY <1>5 DEF Reload, Create, Loads
  <2> QED
    BY <2>1, <2>2, <2>3, <2>4
<1>6. ASSUME NEW g \in Goals, Begin(g) \/ Test(g) \/ Tick(g) \/ After(g) \/ Finish(g)
      PROVE  TimerFirst' /\ RegistrationIsAlone'
  BY <1>6 DEF Begin, Test, Tick, After, Finish, factoryVars
<1>7. CASE ParametersChange \/ Shutdown \/ Destroy
  BY <1>7 DEF ParametersChange, Shutdown, Destroy, factoryVars
<1>8. CASE UNCHANGED vars
  BY <1>8 DEF vars, factoryVars
<1> QED
  BY <1>1, <1>2, <1>3, <1>4, <1>5, <1>6, <1>7, <1>8 DEF Next, Handlers, Executing

LEMMA NextOwnTree == IInv /\ [Next]_vars => TicksItsOwnTree'
<1> SUFFICES ASSUME IInv, [Next]_vars
             PROVE  TicksItsOwnTree'
  OBVIOUS
<1>1. ASSUME tree' = tree, \A g \in Goals : pc'[g] \in InLoop => pc[g] \in InLoop
      PROVE  TicksItsOwnTree'
  BY <1>1 DEF IInv, TicksItsOwnTree
<1>2. CASE Handlers \/ ParametersChange \/ Shutdown \/ Destroy \/ UNCHANGED vars
  <2>1. tree' = tree /\ \A g \in Goals : pc'[g] \in InLoop => pc[g] \in InLoop
    BY <1>2 DEF Handlers, TimerFires, TimerDone, Joined, HandleGoal, HandleCancel,
                ParametersChange, Shutdown, Destroy, vars, treeVars, IInv, TypeOK, InLoop
  <2> QED
    BY <1>1, <2>1
<1>3. ASSUME NEW g \in Goals, Request(g) \/ RequestCancel(g)
      PROVE  TicksItsOwnTree'
  BY <1>1, <1>3 DEF Request, RequestCancel, treeVars
<1>4. ASSUME NEW g \in Goals, Create(g)
      PROVE  TicksItsOwnTree'
  <2>1. \A h \in Goals : pc[h] \notin InLoop
    BY <1>4 DEF Create, At, IInv, GoalMatchesThread, Ongoing, InLoop
  <2>2. CASE tree' = g /\ Goto(g, "test")
    BY <2>1, <2>2 DEF Goto, IInv, TypeOK, TicksItsOwnTree
  <2>3. CASE tree' = tree /\ pc' = pc
    BY <1>1, <2>3
  <2>4. CASE EndGoal(g, "aborted")
    <3>1. \A h \in Goals : pc'[h] \notin InLoop
      BY <2>1, <2>4 DEF EndGoal, Goto, IInv, TypeOK, InLoop
    <3> QED
      BY <3>1 DEF TicksItsOwnTree
  <2> QED
    BY <1>4, <2>2, <2>3, <2>4 DEF Create
<1>5. ASSUME NEW g \in Goals, Begin(g) \/ Reload(g) \/ Test(g) \/ Tick(g) \/ After(g) \/ Finish(g)
      PROVE  TicksItsOwnTree'
  <2>1. tree' = tree
    BY <1>5 DEF Begin, Reload, Test, Tick, After, Finish, treeVars
  <2>2. \A h \in Goals : pc'[h] \in InLoop => pc[h] \in InLoop
    <3>1. \A h \in Goals \ {g} : pc'[h] = pc[h]
      BY <1>5 DEF Begin, Reload, Test, Tick, After, Finish, EndGoal, Goto, IInv, TypeOK
    <3>2. pc'[g] \in InLoop => pc[g] \in InLoop
      BY <1>5 DEF Begin, Reload, Test, Tick, After, Finish, At, EndGoal, Goto, IInv, TypeOK, InLoop
    <3> QED
      BY <3>1, <3>2
  <2> QED
    BY <1>1, <2>1, <2>2
<1> QED
  BY <1>2, <1>3, <1>4, <1>5 DEF Next, Executing

LEMMA NextIInv == IInv /\ [Next]_vars => IInv'
  BY NextTypeOK, NextThreads, NextTicks, NextRegistration, NextOwnTree DEF IInv

LEMMA IInvHolds == Spec => []IInv
  BY InitIInv, NextIInv, PTL DEF Spec

-----------------------------------------------------------------------------

\* The members and locals of the server keep their types through handlers, timer,
\* threads and shutdown.
THEOREM TypeCorrect == Spec => []TypeOK
<1>1. IInv => TypeOK
  BY DEF IInv
<1> QED
  BY <1>1, IInvHolds, PTL

\* execute() ticks the tree it created (lines 183-226), for any number of goals that
\* are accepted meanwhile.
THEOREM OwnTree == Spec => []TicksItsOwnTree
<1>1. IInv => TicksItsOwnTree
  BY DEF IInv
<1> QED
  BY <1>1, IInvHolds, PTL

\* After handle_cancel() accepted a cancellation, tickExactlyOnce() is called at most
\* once more for that goal (lines 198-226).
THEOREM PromptCancel == Spec => []CancelIsPrompt
<1>1. IInv => CancelIsPrompt
  <2> SUFFICES ASSUME IInv, NEW g \in Goals
               PROVE  ticks[g] <= 1
    BY DEF CancelIsPrompt
  <2>1. ticks[g] \in {0, 1}
    BY DEF IInv, TicksBound
  <2> QED
    BY <2>1
<1> QED
  BY <1>1, IInvHolds, PTL

\* The factory is filled by the timer (lines 81-92) and used by execute() at once only
\* if a goal was accepted before the timer fired.
THEOREM RegistrationAlone == Spec => []RegistrationIsAlone
<1>1. IInv => RegistrationIsAlone
  BY DEF IInv
<1> QED
  BY <1>1, IInvHolds, PTL

\* A loop that came to its end found a status or the shutdown.
HaltInv ==
    /\ \A g \in Goals : pc[g] = "finish" => ~ok \/ status[g] # "RUNNING"
    /\ OverIsHalted

LEMMA NextHaltInv == IInv /\ HaltInv /\ [Next]_vars => HaltInv'
<1> SUFFICES ASSUME IInv, HaltInv, [Next]_vars
             PROVE  HaltInv'
  OBVIOUS
<1> DEFINE Untouched == UNCHANGED <<status, tree, halted, threw>> /\ (~ok => ~ok')
<1>t. tree # None => tree \in Goals
  BY DEF IInv, TypeOK
<1>1. ASSUME Untouched, \A g \in Goals : pc'[g] \in {"finish", "done"} => pc[g] = pc'[g]
      PROVE  HaltInv'
  BY <1>1, <1>t DEF HaltInv, OverIsHalted
<1>2. CASE Handlers \/ ParametersChange \/ Shutdown \/ Destroy \/ UNCHANGED vars
  <2>1. Untouched
    BY <1>2 DEF Handlers, TimerFires, TimerDone, Joined, HandleGoal, HandleCancel,
                ParametersChange, Shutdown, Destroy, vars, treeVars
  <2>2. \A g \in Goals : pc'[g] \in {"finish", "done"} => pc[g] = pc'[g]
    BY <1>2 DEF Handlers, TimerFires, TimerDone, Joined, HandleGoal, HandleCancel,
                ParametersChange, Shutdown, Destroy, vars, IInv, TypeOK
  <2> QED
    BY <1>1, <2>1, <2>2
<1>3. ASSUME NEW g \in Goals, Request(g) \/ RequestCancel(g)
      PROVE  HaltInv'
  BY <1>1, <1>3 DEF Request, RequestCancel, treeVars
\* Thread g leaves everything but its place alone, or halts the tree.
<1>4. ASSUME NEW g \in Goals, NEW place, Goto(g, place), status' = status, tree' = tree,
             threw' = threw, ok' = ok, halted' = halted, place \notin {"finish", "done"}
      PROVE  HaltInv'
  <2>1. \A h \in Goals : pc'[h] \in {"finish", "done"} => pc[h] = pc'[h]
    BY <1>4 DEF Goto, IInv, TypeOK
  <2> QED
    BY <1>1, <1>4, <2>1
<1>5. ASSUME NEW g \in Goals, Goto(g, "done"), status' = status, ok' = ok, halted' = TRUE
      PROVE  HaltInv'
  <2>1. \A h \in Goals : pc'[h] = "finish" => pc[h] = "finish"
    BY <1>5 DEF Goto, IInv, TypeOK
  <2>2. OverIsHalted'
    BY <1>5 DEF OverIsHalted
  <2> QED
    BY <1>5, <2>1, <2>2 DEF HaltInv
<1>6. ASSUME NEW g \in Goals, NEW place, Goto(g, place), tree' = tree, threw' = threw,
             UNCHANGED <<status, halted, ok>>, place \in {"finish", "done"},
             ~ok \/ status[g] # "RUNNING"
      PROVE  HaltInv'
  <2>1. pc'[g] = place /\ \A h \in Goals \ {g} : pc'[h] = pc[h]
    BY <1>6 DEF Goto, IInv, TypeOK
  <2> QED
    BY <1>6, <1>t, <2>1 DEF HaltInv, OverIsHalted
<1>7. ASSUME NEW g \in Goals, Begin(g) \/ Reload(g)
      PROVE  HaltInv'
  BY <1>4, <1>7 DEF Begin, Reload, treeVars
<1>8. ASSUME NEW g \in Goals, Create(g)
      PROVE  HaltInv'
  <2>1. CASE tree' = g /\ halted' = TRUE /\ Goto(g, "test")
    <3>1. \A h \in Goals : pc'[h] = "finish" => pc[h] = "finish"
      BY <2>1 DEF Goto, IInv, TypeOK
    <3>2. OverIsHalted'
      BY <2>1 DEF OverIsHalted
    <3> QED
      BY <1>8, <3>1, <3>2 DEF Create, HaltInv
  <2>2. CASE threw' = threw \cup {g} /\ EndGoal(g, "aborted") /\ UNCHANGED <<tree, halted>>
    <3>1. pc'[g] = "done" /\ \A h \in Goals \ {g} : pc'[h] = pc[h]
      BY <2>2 DEF EndGoal, Goto, IInv, TypeOK
    <3>2. status' = status /\ ok' = ok
      BY <1>8 DEF Create
    <3> QED
      BY <1>t, <2>2, <3>1, <3>2 DEF HaltInv, OverIsHalted
  <2>3. CASE UNCHANGED <<pc, tree, halted, threw>>
    <3>1. Untouched
      BY <1>8, <2>3 DEF Create
    <3> QED
      BY <1>1, <2>3, <3>1
  <2>4. CASE tree' = g /\ halted' = TRUE /\ EndGoal(g, "aborted")
    <3>1. \A h \in Goals : pc'[h] = "finish" => pc[h] = "finish"
      BY <2>4 DEF EndGoal, Goto, IInv, TypeOK
    <3>2. OverIsHalted'
      BY <2>4 DEF OverIsHalted
    <3> QED
      BY <1>8, <3>1, <3>2 DEF Create, HaltInv
  <2> QED
    BY <1>8, <2>1, <2>2, <2>3, <2>4 DEF Create
<1>9. ASSUME NEW g \in Goals, Test(g)
      PROVE  HaltInv'
  <2>1. CASE ~ok \/ status[g] # "RUNNING"
    BY <1>6, <1>9, <2>1 DEF Test
  <2>2. CASE ok /\ status[g] = "RUNNING" /\ goal[g] = "canceling"
    BY <1>5, <1>9, <2>2 DEF Test, EndGoal
  <2>3. CASE ok /\ status[g] = "RUNNING" /\ goal[g] # "canceling"
    BY <1>4, <1>9, <2>3 DEF Test
  <2> QED
    BY <2>1, <2>2, <2>3
<1>10. ASSUME NEW g \in Goals, Tick(g)
       PROVE  HaltInv'
  <2>1. /\ tree = g /\ tree' = tree /\ ok' = ok
        /\ \A h \in Goals \ {g} : pc'[h] = pc[h] /\ status'[h] = status[h]
    BY <1>10 DEF Tick, At, EndGoal, Goto, IInv, TypeOK, TicksItsOwnTree, InLoop
  <2>2. CASE Goto(g, "after")
    <3>1. pc'[g] = "after"
      BY <2>2 DEF Goto, IInv, TypeOK
    <3> QED
      BY <2>1, <3>1 DEF HaltInv, OverIsHalted
  <2>3. CASE threw' = threw \cup {g} /\ EndGoal(g, "aborted")
    <3>1. pc'[g] = "done"
      BY <2>3 DEF EndGoal, Goto, IInv, TypeOK
    <3> QED
      BY <2>1, <2>3, <3>1 DEF HaltInv, OverIsHalted
  <2> QED
    BY <1>10, <2>2, <2>3 DEF Tick
<1>11. ASSUME NEW g \in Goals, After(g)
       PROVE  HaltInv'
  <2>1. CASE Goto(g, "test") /\ halted' = halted
    BY <1>4, <1>11, <2>1 DEF After
  <2>2. CASE halted' = TRUE /\ EndGoal(g, "aborted")
    BY <1>5, <1>11, <2>2 DEF After, EndGoal
  <2> QED
    BY <1>11, <2>1, <2>2 DEF After
<1>12. ASSUME NEW g \in Goals, Finish(g)
       PROVE  HaltInv'
  <2>1. ~ok \/ status[g] # "RUNNING"
    BY <1>12 DEF Finish, At, HaltInv
  <2> QED
    BY <1>6, <1>12, <2>1 DEF Finish, EndGoal, treeVars
<1> QED
  BY <1>2, <1>3, <1>7, <1>8, <1>9, <1>10, <1>11, <1>12 DEF Next, Executing

\* When a goal is over, stop_action (lines 199-213) or its own end has left its tree
\* halted, but for exceptions and shutdown.
THEOREM OverHalted == Spec => []OverIsHalted
<1>1. Init => HaltInv
  BY DEF Init, HaltInv, OverIsHalted
<1>2. HaltInv => OverIsHalted
  BY DEF HaltInv
<1> QED
  BY <1>1, <1>2, NextHaltInv, IInvHolds, PTL DEF Spec

LEMMA InitService == Init => Service!Init
<1> SUFFICES ASSUME Init PROVE Service!Init
  OBVIOUS
<1>1. \A g \in Goals : Progress(g) = "new"
  BY DEF Init, Progress
<1>2. Executed = None /\ {g \in Goals : goal[g] = "canceling"} = {}
  BY DEF Init, Executed
<1> QED
  BY <1>1, <1>2 DEF Service!Init

\* Handlers, join and threads execute one goal at a time, end it once, and as canceled
\* only if its cancellation was accepted.
THEOREM ServerImplementsTreeService == Spec => ImplementsTreeService
<1> QED
  BY InitService, NextThreads, IInvHolds, PTL DEF Spec, ImplementsTreeService, Service!Spec
=============================================================================
