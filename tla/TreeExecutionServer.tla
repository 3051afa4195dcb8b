------------------------ MODULE TreeExecutionServer ------------------------
(***************************************************************************)
(* TreeExecutionServer: an action server whose handlers run one at a time  *)
(* in the executor's thread (they share the node's default callback group) *)
(* and whose execute() runs in action_thread, one thread per goal, each    *)
(* joined before the next is started.                                      *)
(*                                                                         *)
(* What a tick, the user's callbacks and the loading of trees return is    *)
(* left open.  Messages, feedback and the time slept are left out.         *)
(***************************************************************************)
EXTENDS Integers

CONSTANTS Goals, None

ASSUME NoneAssumption == None \notin Goals

VARIABLES goal,        \* the action server's state of each goal
          cancels,     \* goals with a request to cancel under way
          joining,     \* goal whose handle_accepted() waits in join()
          thread,      \* goal whose execute() action_thread runs or has run
          pc, status,  \* of each execute(): place and local status
          tree,        \* goal that p_->tree was created for
          halted,      \* that tree was halted after its last tick
          timer,       \* single_shot_timer: "armed", "firing", "cancelled"
          loaded,      \* factory_initialized_
          dirty,       \* param_listener->is_old(params)
          ok,          \* rclcpp::ok()
          fault        \* "none", or what ended the process: "exception", "race",
                       \* "terminate" (destroying a std::thread), "exit"

\* History.
VARIABLES early,       \* a goal was accepted before the timer had fired
          threw,       \* goals whose tree ended by an exception
          ticks        \* ticks begun after a goal's cancellation was accepted

goalVars == <<goal, cancels>>
treeVars == <<tree, halted, threw, ticks>>
factoryVars == <<timer, loaded, dirty>>
vars == <<goalVars, joining, thread, pc, status, treeVars, factoryVars,
          ok, fault, early>>

Terminal == {"succeeded", "aborted", "canceled"}
InLoop   == {"test", "tick", "after"}

Init ==
    /\ goal = [g \in Goals |-> "new"] /\ cancels = {}
    /\ joining = None /\ thread = None
    /\ pc = [g \in Goals |-> "none"] /\ status = [g \in Goals |-> "RUNNING"]
    /\ tree = None /\ halted = TRUE
    /\ timer = "armed" /\ loaded = FALSE /\ dirty = FALSE
    /\ ok = TRUE /\ fault = "none"
    /\ early = FALSE /\ threw = {} /\ ticks = [g \in Goals |-> 0]

Up == fault = "none"

-----------------------------------------------------------------------------
(* The executor's thread.                                                  *)

\* Handlers may interrupt each other.
ExecutorFree_Reentrant == Up /\ ok /\ joining = None

ExecutorFree == Up /\ ok /\ joining = None /\ timer # "firing"

\* The single shot: executeRegistration(), unless it was done already.
TimerFires ==
    /\ ExecutorFree /\ timer = "armed"
    /\ timer' = IF loaded THEN "cancelled" ELSE "firing"
    /\ UNCHANGED <<goalVars, joining, thread, pc, status, treeVars, loaded, dirty,
                   ok, fault, early>>

Loads(result) ==
    IF result THEN loaded' = TRUE /\ dirty' = FALSE /\ UNCHANGED fault
              ELSE fault' = "exception" /\ UNCHANGED <<loaded, dirty>>

\* registerNodesIntoFactory() is the user's, and nothing catches what it throws.
TimerDone ==
    /\ Up /\ timer = "firing"
    /\ \E result \in BOOLEAN : Loads(result)
    /\ timer' = "cancelled"
    /\ UNCHANGED <<goalVars, joining, thread, pc, status, treeVars, ok, early>>

Request(g) ==
    /\ Up /\ goal[g] = "new"
    /\ goal' = [goal EXCEPT ![g] = "requested"]
    /\ UNCHANGED <<cancels, joining, thread, pc, status, treeVars, factoryVars,
                   ok, fault, early>>

\* handle_goal, and handle_accepted up to join()
HandleGoal(g) ==
    /\ ExecutorFree /\ goal[g] = "requested"
    /\ \/ goal' = [goal EXCEPT ![g] = "rejected"] /\ UNCHANGED <<joining, early>>
       \/ /\ goal' = [goal EXCEPT ![g] = "executing"]
          /\ joining' = g
          /\ early' = (early \/ timer = "armed")
    /\ UNCHANGED <<cancels, thread, pc, status, treeVars, factoryVars, ok, fault>>

\* The previous thread is detached instead of joined.
Joined_Detached ==
    /\ Up /\ joining # None
    /\ thread' = joining
    /\ pc' = [pc EXCEPT ![joining] = "begin"]
    /\ joining' = None
    /\ UNCHANGED <<goalVars, status, treeVars, factoryVars, ok, fault, early>>

\* handle_accepted after join(): at once if no thread was started before.
Joined ==
    /\ Up /\ joining # None
    /\ thread # None => pc[thread] = "done"
    /\ thread' = joining
    /\ pc' = [pc EXCEPT ![joining] = "begin"]
    /\ joining' = None
    /\ UNCHANGED <<goalVars, status, treeVars, factoryVars, ok, fault, early>>

RequestCancel(g) ==
    /\ Up /\ goal[g] \notin {"new", "rejected"} /\ g \notin cancels
    /\ cancels' = cancels \cup {g}
    /\ UNCHANGED <<goal, joining, thread, pc, status, treeVars, factoryVars,
                   ok, fault, early>>

\* A cancellation is accepted without a look at the goal's state.
HandleCancel_Unchecked(g) ==
    /\ ExecutorFree /\ g \in cancels /\ goal[g] # "requested"
    /\ cancels' = cancels \ {g}
    /\ goal' = [goal EXCEPT ![g] = "canceling"]
    /\ UNCHANGED <<joining, thread, pc, status, treeVars, factoryVars, ok, fault, early>>

HandleCancel(g) ==
    /\ ExecutorFree /\ g \in cancels /\ goal[g] # "requested"
    /\ cancels' = cancels \ {g}
    /\ goal' = IF goal[g] = "executing" THEN [goal EXCEPT ![g] = "canceling"] ELSE goal
    /\ UNCHANGED <<joining, thread, pc, status, treeVars, factoryVars, ok, fault, early>>

-----------------------------------------------------------------------------
(* execute(), in the thread of goal g.                                     *)

At(g, place) == Up /\ thread = g /\ pc[g] = place
Goto(g, place) == pc' = [pc EXCEPT ![g] = place]

EndGoal(g, how) ==
    /\ goal' = [goal EXCEPT ![g] = how]
    /\ Goto(g, "done")

Begin(g) ==
    /\ At(g, "begin")
    /\ Goto(g, IF dirty THEN "reload" ELSE "create")
    /\ UNCHANGED <<goalVars, joining, thread, status, treeVars, factoryVars,
                   ok, fault, early>>

\* executeRegistration() before the try block
Reload(g) ==
    /\ At(g, "reload")
    /\ IF timer = "firing"
       THEN fault' = "race" /\ UNCHANGED <<loaded, dirty>>
       ELSE \E result \in BOOLEAN : Loads(result)
    /\ Goto(g, "create")
    /\ UNCHANGED <<goalVars, joining, thread, status, treeVars, timer, ok, early>>

\* Replacing the tree halts the one before.  Nothing can be created from an empty
\* factory, and no tree may be created while the timer fills it.  What throws is
\* createTree() or, once the tree is replaced, onTreeCreated() or the publisher.
Create(g) ==
    /\ At(g, "create")
    /\ \/ /\ timer # "firing" /\ loaded
          /\ tree' = g /\ halted' = TRUE
          /\ Goto(g, "test")
          /\ UNCHANGED <<goal, fault, threw>>
       \/ /\ timer # "firing"
          /\ \/ UNCHANGED <<tree, halted>>
             \/ loaded /\ tree' = g /\ halted' = TRUE
          /\ threw' = threw \cup {g}
          /\ EndGoal(g, "aborted")
          /\ UNCHANGED fault
       \/ /\ timer = "firing"
          /\ fault' = "race"
          /\ UNCHANGED <<goal, pc, tree, halted, threw>>
    /\ UNCHANGED <<cancels, joining, thread, status, ticks, factoryVars, ok, early>>

\* is_canceling() is not asked.
Test_IgnoresCancel(g) ==
    /\ At(g, "test")
    /\ Goto(g, IF ~ok \/ status[g] # "RUNNING" THEN "finish" ELSE "tick")
    /\ UNCHANGED <<goal, halted, cancels, joining, thread, status, tree, threw, ticks,
                   factoryVars, ok, fault, early>>

\* The tree is halted and the client is not told.
Test_Silent(g) ==
    /\ At(g, "test")
    /\ IF ~ok \/ status[g] # "RUNNING"
       THEN Goto(g, "finish") /\ UNCHANGED halted
       ELSE IF goal[g] = "canceling"
       THEN halted' = TRUE /\ Goto(g, "done")
       ELSE Goto(g, "tick") /\ UNCHANGED halted
    /\ UNCHANGED <<goal, cancels, joining, thread, status, tree, threw, ticks,
                   factoryVars, ok, fault, early>>

\* The head of the loop; a cancellation ends it by stop_action.
Test(g) ==
    /\ At(g, "test")
    /\ IF ~ok \/ status[g] # "RUNNING"
       THEN Goto(g, "finish") /\ UNCHANGED <<goal, halted>>
       ELSE IF goal[g] = "canceling"
       THEN halted' = TRUE /\ EndGoal(g, "canceled")
       ELSE Goto(g, "tick") /\ UNCHANGED <<goal, halted>>
    /\ UNCHANGED <<cancels, joining, thread, status, tree, threw, ticks,
                   factoryVars, ok, fault, early>>

\* tickExactlyOnce()
Tick(g) ==
    /\ At(g, "tick")
    /\ halted' = FALSE
    /\ ticks' = [ticks EXCEPT ![g] = IF goal[g] = "canceling" THEN @ + 1 ELSE @]
    /\ \/ /\ \E s \in {"RUNNING", "SUCCESS", "FAILURE"} : status' = [status EXCEPT ![g] = s]
          /\ Goto(g, "after")
          /\ UNCHANGED <<goal, threw>>
       \/ /\ threw' = threw \cup {g}
          /\ EndGoal(g, "aborted")
          /\ UNCHANGED status
    /\ UNCHANGED <<cancels, joining, thread, tree, factoryVars, ok, fault, early>>

\* The goal is aborted without haltTree().
After_WithoutHalt(g) ==
    /\ At(g, "after")
    /\ \/ Goto(g, "test") /\ UNCHANGED goal
       \/ EndGoal(g, "aborted")
    /\ UNCHANGED <<halted, cancels, joining, thread, status, tree, threw, ticks,
                   factoryVars, ok, fault, early>>

\* onLoopAfterTick() may stop the execution by stop_action.
After(g) ==
    /\ At(g, "after")
    /\ \/ Goto(g, "test") /\ UNCHANGED <<goal, halted>>
       \/ halted' = TRUE /\ EndGoal(g, "aborted")
    /\ UNCHANGED <<cancels, joining, thread, status, tree, threw, ticks,
                   factoryVars, ok, fault, early>>

Finish(g) ==
    /\ At(g, "finish")
    /\ EndGoal(g, IF status[g] = "SUCCESS" THEN "succeeded" ELSE "aborted")
    /\ UNCHANGED <<cancels, joining, thread, status, treeVars, factoryVars,
                   ok, fault, early>>

-----------------------------------------------------------------------------
(* The environment.                                                        *)

ParametersChange ==
    /\ Up /\ ok /\ ~dirty
    /\ dirty' = TRUE
    /\ UNCHANGED <<goalVars, joining, thread, pc, status, treeVars, timer, loaded,
                   ok, fault, early>>

Shutdown ==
    /\ Up /\ ok
    /\ ok' = FALSE
    /\ UNCHANGED <<goalVars, joining, thread, pc, status, treeVars, factoryVars,
                   fault, early>>

\* The destructor joins nothing: destroying a thread that was started terminates
\* the process, even if execute() has returned.
Destroy ==
    /\ Up /\ ~ok /\ joining = None /\ timer # "firing"
    /\ fault' = IF thread = None THEN "exit" ELSE "terminate"
    /\ UNCHANGED <<goalVars, joining, thread, pc, status, treeVars, factoryVars,
                   ok, early>>

-----------------------------------------------------------------------------

Executing(g) ==
    Begin(g) \/ Reload(g) \/ Create(g) \/ Test(g) \/ Tick(g) \/ After(g) \/ Finish(g)

Handlers ==
    \/ TimerFires \/ TimerDone \/ Joined
    \/ \E g \in Goals : HandleGoal(g) \/ HandleCancel(g)

Next ==
    \/ Handlers
    \/ \E g \in Goals : Request(g) \/ RequestCancel(g) \/ Executing(g)
    \/ ParametersChange \/ Shutdown \/ Destroy

Spec == Init /\ [][Next]_vars

\* Both threads run.  That ticks return is part of it; that trees end is not.
Fairness == WF_vars(Handlers) /\ \A g \in Goals : WF_vars(Executing(g))

FairSpec == Spec /\ Fairness

-----------------------------------------------------------------------------
(* Properties                                                              *)

TypeOK ==
    /\ goal \in [Goals -> {"new", "requested", "rejected", "executing", "canceling"}
                          \cup Terminal]
    /\ cancels \subseteq Goals
    /\ joining \in Goals \cup {None} /\ thread \in Goals \cup {None}
    /\ pc \in [Goals -> {"none", "begin", "reload", "create", "finish", "done"} \cup InLoop]
    /\ status \in [Goals -> {"RUNNING", "SUCCESS", "FAILURE"}]
    /\ tree \in Goals \cup {None} /\ halted \in BOOLEAN
    /\ timer \in {"armed", "firing", "cancelled"} /\ loaded \in BOOLEAN
    /\ dirty \in BOOLEAN /\ ok \in BOOLEAN
    /\ fault \in {"none", "exception", "race", "terminate", "exit"}
    /\ early \in BOOLEAN /\ threw \subseteq Goals /\ ticks \in [Goals -> Nat]

\* A goal that is in its loop ticks the tree that was created for it, however many
\* goals were accepted since.
TicksItsOwnTree == \A g \in Goals : pc[g] \in InLoop => tree = g

\* Once its cancellation was accepted, a goal's tree is ticked at most once more.
CancelIsPrompt == \A g \in Goals : ticks[g] <= 1

\* A tree whose execution is over was left in a running state only by an exception
\* or by a shutdown.
OverIsHalted ==
    tree # None /\ pc[tree] = "done" /\ status[tree] = "RUNNING" /\ ~halted
        => tree \in threw \/ ~ok

\* The factory is used by two threads at once only if a goal came first of all.
RegistrationIsAlone == fault = "race" => early

\* What a client may know of goal g, and the goal in execution.
Progress(g) ==
    IF goal[g] \in {"new", "requested"} THEN "new"
    ELSE IF goal[g] \in Terminal \cup {"rejected"} THEN goal[g]
    ELSE IF pc[g] = "none" THEN "waiting" ELSE "active"
Executed == IF thread # None /\ pc[thread] # "done" THEN thread ELSE None

\* Goals are executed one at a time and end once.
Service == INSTANCE TreeService WITH
    st <- [g \in Goals |-> Progress(g)],
    active <- Executed,
    stopping <- {g \in Goals : goal[g] = "canceling"}

ImplementsTreeService == Service!Spec

\* A goal whose cancellation was accepted ends.
CancelEnds ==
    \A g \in Goals : goal[g] = "canceling" ~> goal[g] \in Terminal \/ fault # "none"

\* tree_execution_server.cpp:160, on starting a thread: "To avoid blocking the
\* executor".
ExecutorComesBack == []<>(joining = None \/ fault # "none")

=============================================================================
