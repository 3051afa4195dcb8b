--------------------------- MODULE RosActionNode ---------------------------
(***************************************************************************)
(* RosActionNode: leaves of one tree that wrap clients of one action.      *)
(* Their client, with its executor, is shared (getRegistry), so a tick or  *)
(* a halt of one leaf runs the callbacks of all of them.                   *)
(*                                                                         *)
(* One thread ticks the tree; `at` is where it stands inside a tick or a   *)
(* halt.  A spin of zero duration runs at most one callback, because the   *)
(* client is a single waitable of its executor; the waits of cancelGoal()  *)
(* run callbacks until their future is complete or server_timeout_ is      *)
(* over.  A tick after rclcpp::shutdown() is a halt whose waits all fail.  *)
(* What setGoal, onFeedback and the tree decide is left open; how a goal   *)
(* ended only selects the callback that returns the leaf's status.         *)
(* Only the callbacks of a start may throw here: any other one returns.    *)
(***************************************************************************)
EXTENDS Integers

CONSTANTS Nodes,    \* the leaves that share the client
          Runs,     \* bound: number of goals each leaf sends
          None      \* no leaf, no goal

ASSUME RunsAssumption == Runs \in [Nodes -> Nat]
Goals == UNION {{n} \X (1 .. Runs[n]) : n \in Nodes}
ASSUME NoneAssumption == None \notin Nodes /\ None \notin Goals

VARIABLES status,    \* "IDLE" or "RUNNING": what the tree sees of a leaf
          run,       \* number of times the leaf was started with a goal to send
          future,    \* future_goal_handle_.valid()
          received,  \* goal_received_
          handle,    \* goal_handle_
          stop,      \* on_feedback_state_change_ is no longer RUNNING
          result,    \* the goal of result_
          server,    \* the server's status of each goal
          answered, resulted,  \* goals whose response, whose result was received
          asked,     \* goals the server was asked to cancel
          at, turn,  \* where the tree's thread is, and in which leaf
          halting,   \* it is in cancelGoal() for halt(), not for a tick
          fault      \* "none", "result", "rejected" (null handle), "unknown"

\* History.
VARIABLES cut,       \* goals whose run ended by a timeout, or by the handle or
                     \* the result of another run
          foreign,   \* a response was received in another leaf's spin
          missed     \* goals whose result came when the leaf did not have their handle

tickVars == <<status, run, future, received, handle>>
serverVars == <<server, asked>>
inbox == <<answered, resulted, stop, result, fault, foreign, missed>>
vars == <<tickVars, serverVars, inbox, at, turn, halting, cut>>

Init ==
    /\ status = [n \in Nodes |-> "IDLE"] /\ run = [n \in Nodes |-> 0]
    /\ future = [n \in Nodes |-> FALSE] /\ received = [n \in Nodes |-> FALSE]
    /\ handle = [n \in Nodes |-> None]
    /\ stop = [n \in Nodes |-> FALSE] /\ result = [n \in Nodes |-> None]
    /\ server = [g \in Goals |-> "unsent"]
    /\ answered = {} /\ resulted = {} /\ asked = {}
    /\ at = "tree" /\ turn = None /\ halting = FALSE /\ fault = "none"
    /\ cut = {} /\ foreign = FALSE /\ missed = {}

Up == fault = "none"
Current(n) == <<n, run[n]>>
Ready(n) == Current(n) \in answered   \* of future_goal_handle_
Rejected(n) == server[Current(n)] = "rejected"
Unsent(n) == server[Current(n)] = "unsent"

-----------------------------------------------------------------------------
(* Callbacks, run by whichever leaf n spins; they change the inbox only.    *)

\* goal_response_callback only logs; the response completes the future.
ReceiveResponse(n, g) ==
    /\ server[g] \in {"executing", "rejected", "ended"} /\ g \notin answered
    /\ answered' = answered \cup {g}
    /\ foreign' = (foreign \/ n # g[1])
    /\ UNCHANGED <<resulted, stop, result, fault, missed>>

\* The comparison of the goal ids is inverted.
ReceiveResult_Others(g) ==
    LET n == g[1] IN
    /\ server[g] = "ended" /\ g \in answered /\ g \notin resulted
    /\ resulted' = resulted \cup {g}
    /\ fault' = IF handle[n] = None THEN "result" ELSE fault
    /\ result' = IF handle[n] # g THEN [result EXCEPT ![n] = g] ELSE result
    /\ missed' = IF handle[n] # g THEN missed \cup {g} ELSE missed
    /\ UNCHANGED <<answered, stop, foreign>>

\* result_callback: a result is asked for once the goal is known to be accepted.
ReceiveResult(g) ==
    LET n == g[1] IN
    /\ server[g] = "ended" /\ g \in answered /\ g \notin resulted
    /\ resulted' = resulted \cup {g}
    /\ fault' = IF handle[n] = None THEN "result" ELSE fault
    /\ result' = IF handle[n] = g THEN [result EXCEPT ![n] = g] ELSE result
    /\ missed' = IF handle[n] # g THEN missed \cup {g} ELSE missed
    /\ UNCHANGED <<answered, stop, foreign>>

\* feedback_callback of a goal the client still keeps: is the leaf to stop?
ReceiveFeedback(g, s) ==
    /\ server[g] \in {"executing", "ended"} /\ g \in answered \ resulted
    /\ stop' = [stop EXCEPT ![g[1]] = s]
    /\ UNCHANGED <<answered, resulted, result, fault, foreign, missed>>

Callback(n) ==
    \E g \in Goals : \/ ReceiveResponse(n, g)
                     \/ ReceiveResult(g)
                     \/ \E s \in BOOLEAN : ReceiveFeedback(g, s)

NoCallback == UNCHANGED inbox

-----------------------------------------------------------------------------
(* tick()                                                                  *)

\* result_ is kept.
Forget_KeepsResult(n) ==
    /\ received' = [received EXCEPT ![n] = FALSE]
    /\ stop' = [stop EXCEPT ![n] = FALSE]
    /\ UNCHANGED <<handle, answered, resulted, result, fault, foreign, missed>>

\* The members an IDLE leaf resets: not its goal handle.
Forget(n) ==
    /\ received' = [received EXCEPT ![n] = FALSE]
    /\ stop' = [stop EXCEPT ![n] = FALSE]
    /\ result' = [result EXCEPT ![n] = None]
    /\ UNCHANGED <<handle, answered, resulted, fault, foreign, missed>>

Starting(n) ==
    /\ Up /\ at = "tree" /\ status[n] = "IDLE" /\ run[n] < Runs[n]
    /\ Forget(n)
    /\ UNCHANGED <<at, turn, halting, cut>>

\* setGoal refuses, or the server cannot be reached.
StartFails(n) ==
    /\ Starting(n)
    /\ future' = [future EXCEPT ![n] = FALSE]
    /\ UNCHANGED <<status, run, serverVars>>

RunBegins(n) ==
    /\ status' = [status EXCEPT ![n] = "RUNNING"]
    /\ run' = [run EXCEPT ![n] = @ + 1]

\* setGoal or onFailure throws, or onFailure's answer is no verdict: the leaf is left
\* running, without a goal.
StartThrows(n) ==
    /\ Starting(n) /\ RunBegins(n)
    /\ future' = [future EXCEPT ![n] = FALSE]
    /\ UNCHANGED serverVars

Start(n) ==
    /\ Starting(n) /\ RunBegins(n)
    /\ future' = [future EXCEPT ![n] = TRUE]
    /\ server' = [server EXCEPT ![<<n, run[n] + 1>>] = "requested"]
    /\ UNCHANGED asked

\* spin_some()
TickRunning(n) ==
    /\ Up /\ at = "tree" /\ status[n] = "RUNNING"
    /\ Callback(n) \/ NoCallback
    /\ at' = IF received[n] THEN "check" ELSE "poll"
    /\ turn' = n
    /\ UNCHANGED <<tickVars, serverVars, halting, cut>>

BackToTree == at' = "tree" /\ turn' = None /\ halting' = FALSE

EndRun(n) ==
    /\ status' = [status EXCEPT ![n] = "IDLE"]
    /\ BackToTree

\* The handle goes to a local variable that hides the member.
TakeHandle_Hidden(n) ==
    /\ UNCHANGED handle
    /\ future' = [future EXCEPT ![n] = FALSE]

TakeHandle(n) ==
    /\ handle' = [handle EXCEPT ![n] = IF Rejected(n) THEN None ELSE Current(n)]
    /\ future' = [future EXCEPT ![n] = FALSE]

\* spin_until_future_complete(future_goal_handle_, 0) finds the response there or
\* receives it.
GoalReceived ==
    /\ Up /\ at = "poll" /\ future[turn]
    /\ \/ Ready(turn) /\ NoCallback
       \/ ReceiveResponse(turn, Current(turn))
    /\ TakeHandle(turn)
    /\ received' = [received EXCEPT ![turn] = TRUE]
    /\ IF Rejected(turn) THEN EndRun(turn)
       ELSE at' = "check" /\ UNCHANGED <<status, turn, halting>>
    /\ UNCHANGED <<run, serverVars, cut>>

\* It receives something else, or nothing.
PollFails ==
    /\ Up /\ at = "poll" /\ future[turn] /\ ~Ready(turn)
    /\ Callback(turn) \/ NoCallback
    /\ Current(turn) \notin answered'
    /\ UNCHANGED <<run, future, received, handle, serverVars>>

StillWaiting == PollFails /\ BackToTree /\ UNCHANGED <<status, cut>>

\* SEND_GOAL_TIMEOUT: the goal is not cancelled.
SendGoalTimeout == PollFails /\ EndRun(turn) /\ cut' = cut \cup {Current(turn)}

\* Without a future the wait throws, in this tick and in every other.
PollThrows ==
    /\ Up /\ at = "poll" /\ ~future[turn]
    /\ BackToTree
    /\ UNCHANGED <<tickVars, serverVars, inbox, cut>>

\* onResultReceived or onFailure
ReportResult ==
    /\ Up /\ at = "check" /\ ~stop[turn] /\ result[turn] # None
    /\ EndRun(turn)
    /\ cut' = IF result[turn] = Current(turn) THEN cut ELSE cut \cup {Current(turn)}
    /\ UNCHANGED <<run, future, received, handle, serverVars, inbox>>

StillRunning ==
    /\ Up /\ at = "check" /\ ~stop[turn] /\ result[turn] = None
    /\ BackToTree
    /\ UNCHANGED <<tickVars, serverVars, inbox, cut>>

-----------------------------------------------------------------------------
(* cancelGoal(), called by halt() and when a feedback asked to stop.       *)

BeginCancel(n, h) ==
    /\ at' = IF handle[n] = None THEN "response" ELSE "ask"
    /\ turn' = n /\ halting' = h
    /\ UNCHANGED <<tickVars, serverVars, inbox, cut>>

\* The leaf returns what the feedback asked for, and no more.
StopRequested_WithoutCancel ==
    /\ Up /\ at = "check" /\ stop[turn]
    /\ EndRun(turn)
    /\ UNCHANGED <<run, future, received, handle, serverVars, inbox, cut>>

StopRequested == Up /\ at = "check" /\ stop[turn] /\ BeginCancel(turn, FALSE)

Halt(n) == Up /\ at = "tree" /\ status[n] = "RUNNING" /\ BeginCancel(n, TRUE)

\* Callbacks run by the waits for the response, or for the server's answer and
\* the result.
SpinWhileWaiting ==
    /\ Up
    /\ (at = "response" /\ future[turn] /\ ~Ready(turn)) \/ at = "cancel"
    /\ Callback(turn)
    /\ UNCHANGED <<tickVars, serverVars, at, turn, halting, cut>>

\* A halt ends the run.  A tick returns what the latest feedback asked for, which may
\* have come during the waits and let the leaf go on.
EndsRun == halting \/ stop[turn]

CancelReturns == IF EndsRun THEN EndRun(turn) ELSE BackToTree /\ UNCHANGED status

\* A leaf with neither handle nor future: nothing to cancel.
NothingToCancel ==
    /\ Up /\ at = "response" /\ ~future[turn]
    /\ CancelReturns
    /\ UNCHANGED <<run, future, received, handle, serverVars, inbox, cut>>

ResponseForCancel ==
    /\ Up /\ at = "response" /\ Ready(turn)
    /\ TakeHandle(turn)
    /\ at' = "ask"
    /\ UNCHANGED <<status, run, received, serverVars, inbox, turn, halting, cut>>

\* async_get_result throws for a goal whose result the client has had; no call
\* looks for a null handle.
AskCancel ==
    /\ Up /\ at = "ask"
    /\ IF handle[turn] = None \/ handle[turn] \in resulted
       THEN /\ fault' = IF handle[turn] = None THEN "rejected" ELSE "unknown"
            /\ BackToTree
            /\ UNCHANGED asked
       ELSE /\ asked' = asked \cup {handle[turn]}
            /\ at' = "cancel"
            /\ UNCHANGED <<turn, halting, fault>>
    /\ cut' = IF handle[turn] \in {None, Current(turn)} THEN cut
              ELSE cut \cup {Current(turn)}
    /\ UNCHANGED <<tickVars, server, answered, resulted, stop, result, foreign, missed>>

CancelDone ==
    /\ Up /\ at = "cancel" /\ handle[turn] \in resulted
    /\ CancelReturns
    /\ UNCHANGED <<run, future, received, handle, serverVars, inbox, cut>>

CancelTimeout ==
    /\ Up
    /\ \/ at = "response" /\ future[turn] /\ ~Ready(turn)
       \/ at = "cancel" /\ handle[turn] \notin resulted
    /\ CancelReturns
    /\ cut' = IF EndsRun THEN cut \cup {Current(turn)} ELSE cut
    /\ UNCHANGED <<run, future, received, handle, serverVars, inbox>>

-----------------------------------------------------------------------------
(* The action server.                                                      *)

ServerMoves(g, from, to) ==
    /\ Up /\ server[g] = from
    /\ server' = [server EXCEPT ![g] = to]
    /\ UNCHANGED <<tickVars, asked, inbox, at, turn, halting, cut>>

Accept(g) == ServerMoves(g, "requested", "executing")
Reject(g) == ServerMoves(g, "requested", "rejected")
Finish(g) == ServerMoves(g, "executing", "ended")   \* in any way, or cancelled

-----------------------------------------------------------------------------

Tick(n) == StartFails(n) \/ StartThrows(n) \/ Start(n) \/ TickRunning(n)

\* The thread's steps inside a tick or a halt, other than callbacks in a wait.
Onward ==
    \/ GoalReceived \/ StillWaiting \/ SendGoalTimeout \/ PollThrows
    \/ ReportResult \/ StillRunning \/ StopRequested
    \/ NothingToCancel \/ ResponseForCancel \/ AskCancel \/ CancelDone \/ CancelTimeout

Next ==
    \/ \E n \in Nodes : Tick(n) \/ Halt(n)
    \/ Onward \/ SpinWhileWaiting
    \/ \E g \in Goals : Accept(g) \/ Reject(g) \/ Finish(g)

Spec == Init /\ [][Next]_vars

\* The tree ticks every running leaf again and again, a tick or a halt goes on to
\* its end, the server answers and finishes, and what it sent is received.
Fairness ==
    /\ \A n \in Nodes : SF_vars(TickRunning(n))
    /\ WF_vars(Onward)
    /\ WF_vars(\E g \in Goals : Accept(g) \/ Reject(g) \/ Finish(g))
    /\ SF_vars(\E n \in Nodes, g \in Goals :
                  TickRunning(n) /\ (ReceiveResponse(n, g) \/ ReceiveResult(g)))

FairSpec == Spec /\ Fairness

-----------------------------------------------------------------------------
(* Properties                                                              *)

TypeOK ==
    /\ status \in [Nodes -> {"IDLE", "RUNNING"}]
    /\ run \in [Nodes -> Nat] /\ \A n \in Nodes : run[n] <= Runs[n]
    /\ future \in [Nodes -> BOOLEAN] /\ received \in [Nodes -> BOOLEAN]
    /\ handle \in [Nodes -> Goals \cup {None}] /\ stop \in [Nodes -> BOOLEAN]
    /\ result \in [Nodes -> Goals \cup {None}]
    /\ server \in [Goals -> {"unsent", "requested", "rejected", "executing", "ended"}]
    /\ answered \subseteq Goals /\ resulted \subseteq answered /\ asked \subseteq Goals
    /\ at \in {"tree", "poll", "check", "response", "ask", "cancel"}
    /\ turn \in Nodes \cup {None} /\ (at = "tree" <=> turn = None) /\ halting \in BOOLEAN
    /\ fault \in {"none", "result", "rejected", "unknown"}
    /\ cut \subseteq Goals /\ foreign \in BOOLEAN /\ missed \subseteq Goals

\* The run that sent g is over.
Over(g) == run[g[1]] > g[2] \/ (run[g[1]] = g[2] /\ status[g[1]] = "IDLE")

\* A goal that is still under way when its run is over was asked to stop, or its
\* run was cut short by a timeout or by the handle or result of another run.
LeftRunning ==
    \A g \in Goals :
        Over(g) /\ server[g] \in {"requested", "executing"}
            => g \in asked \cup cut

\* A leaf reports the result of the goal it sent in this run, unless it has
\* abandoned a goal in an earlier one.
OwnResult ==
    [][\A n \in Nodes :
          ReportResult /\ turn = n /\ result[n] # Current(n)
              => \E g \in cut : g[1] = n]_vars

\* Without timeouts, and unless leaves that run together share the client, the
\* result callback never meets a null handle.
ResultFindsHandle == fault = "result" => cut # {} \/ foreign

\* bt_action_node.hpp:125 on onHalt(): "Note that cancelGoal() is done
\* automatically": when a leaf that never met a timeout is halted and its goal is under
\* way, it is that goal that is cancelled.
HaltCancels ==
    [][AskCancel /\ halting /\ cut = {} /\ server[Current(turn)] \in {"requested", "executing"}
          => Current(turn) \in asked']_vars

\* A halt cancels no goal of another leaf; and, once the run has its goal handle or is
\* the leaf's first, it cancels this run's goal, unless that is over already.
CancelsItsOwn ==
    [][AskCancel =>
          /\ \A g \in asked' \ asked : g[1] = turn
          /\ received[turn] \/ run[turn] = 1
                => Current(turn) \in asked' \cup resulted \/ Rejected(turn)]_vars

\* A run ends, one that feedback let go on after cancelGoal() included, unless its
\* start threw or its result came before its handle.
RunsEnd ==
    \A n \in Nodes :
        status[n] = "RUNNING" ~> \/ status[n] = "IDLE" \/ fault # "none"
                                 \/ Unsent(n) \/ Current(n) \in missed

=============================================================================
