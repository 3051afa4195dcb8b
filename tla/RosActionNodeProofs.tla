------------------------ MODULE RosActionNodeProofs ------------------------
(* Proofs, for any number of leaves on one client and any number of runs of *)
(* each, about the goals that RosActionNode leaves behind and the results   *)
(* it reports.                                                              *)
EXTENDS RosActionNode, TLAPS

\* A tick or a halt is that of a running leaf, and a running leaf has sent a goal.
Place ==
    /\ at # "tree" => status[turn] = "RUNNING"
    /\ \A n \in Nodes : status[n] = "RUNNING" => run[n] # 0

\* The client has heard only of goals that were sent and decided.
ServerFirst ==
    \A g \in Goals :
        /\ g[2] > run[g[1]] => server[g] = "unsent"
        /\ g \in answered => server[g] \in {"executing", "rejected", "ended"}
        /\ g \in resulted => server[g] = "ended"

\* A result that is kept has been received.
ResultsReceived == \A n \in Nodes : result[n] # None => result[n] \in resulted

\* cancelGoal() waits for a response only without a handle, and has a handle after that,
\* but for a rejection; a handle that is not that of this run marks the run as cut.
CancelHandle ==
    /\ at = "response" => handle[turn] = None
    /\ at = "ask" /\ handle[turn] = None => Rejected(turn)
    /\ at = "cancel" => /\ handle[turn] # None
                        /\ handle[turn] = Current(turn) \/ Current(turn) \in cut

CutBy(n) == \E g \in cut : g[1] = n

\* A running leaf with neither future nor handle has sent nothing, or was rejected.
FutureHeld ==
    \A n \in Nodes :
        status[n] = "RUNNING" /\ ~future[n] /\ handle[n] = None => Unsent(n) \/ Rejected(n)

\* In a leaf that was never cut, a goal whose run is over has ended, was rejected or was
\* never sent.
OverEnded ==
    \A g \in Goals :
        Over(g) /\ ~CutBy(g[1]) => g \in resulted \/ server[g] \in {"rejected", "unsent"}

\* goal_received_ means that the response is there.
ReceivedAnswered == \A n \in Nodes : received[n] => Current(n) \in answered

\* Without cuts and foreign responses, a response is followed by its handle within
\* the same tick or halt.
HandleTaken ==
    cut = {} /\ ~foreign =>
        \A n \in Nodes :
            Current(n) \in answered /\ ~Rejected(n)
                => handle[n] # None \/ (turn = n /\ at \in {"poll", "response"})

\* The result a leaf keeps is that of its run, unless it was cut.
KeepsOwn == \A n \in Nodes : result[n] # None => result[n] = Current(n) \/ CutBy(n)

IInv == /\ TypeOK /\ Place /\ ServerFirst /\ ResultsReceived /\ CancelHandle /\ FutureHeld
        /\ LeftRunning /\ OverEnded /\ ReceivedAnswered /\ HandleTaken /\ KeepsOwn
        /\ ResultFindsHandle

-----------------------------------------------------------------------------

LEMMA GoalFacts ==
  /\ \A g \in Goals : /\ g[1] \in Nodes /\ g[2] \in Nat /\ g[2] # 0 /\ g[2] <= Runs[g[1]]
                      /\ g = <<g[1], g[2]>>
  /\ \A n \in Nodes, i \in Nat : i # 0 /\ i <= Runs[n] => <<n, i>> \in Goals
<1>1. \A g \in Goals : \E n \in Nodes : g \in {n} \X (1 .. Runs[n])
  BY DEF Goals
<1>2. ASSUME NEW n \in Nodes, NEW i \in Nat, i # 0, i <= Runs[n]
      PROVE  <<n, i>> \in Goals
  <2>1. i \in 1 .. Runs[n]
    BY <1>2, RunsAssumption
  <2> QED
    BY <2>1 DEF Goals
<1> QED
  BY <1>1, <1>2, RunsAssumption

\* The goal of a running leaf.
LEMMA CurrentFacts ==
  ASSUME TypeOK, Place, NEW n \in Nodes, status[n] = "RUNNING"
  PROVE  Current(n) \in Goals /\ Current(n)[1] = n /\ Current(n)[2] = run[n]
<1>1. run[n] \in Nat /\ run[n] # 0 /\ run[n] <= Runs[n]
  BY DEF TypeOK, Place
<1> QED
  BY <1>1, GoalFacts DEF Current

LEMMA InitIInv == Init => IInv
<1> SUFFICES ASSUME Init PROVE IInv
  OBVIOUS
<1>1. TypeOK
  <2>1. run \in [Nodes -> Nat] /\ \A n \in Nodes : run[n] <= Runs[n]
    BY RunsAssumption DEF Init
  <2>2. handle \in [Nodes -> Goals \cup {None}] /\ result \in [Nodes -> Goals \cup {None}]
    BY DEF Init
  <2>3. turn \in Nodes \cup {None} /\ (at = "tree" <=> turn = None) /\ foreign \in BOOLEAN
        /\ halting \in BOOLEAN /\ missed \subseteq Goals
    BY DEF Init
  <2> QED
    BY <2>1, <2>2, <2>3 DEF Init, TypeOK
<1>2. Place /\ ResultsReceived /\ CancelHandle /\ FutureHeld /\ ReceivedAnswered /\ KeepsOwn
  BY DEF Init, Place, ResultsReceived, CancelHandle, FutureHeld, ReceivedAnswered, KeepsOwn
<1>3. ServerFirst
  BY GoalFacts DEF Init, ServerFirst
<1>4. LeftRunning /\ OverEnded
  BY GoalFacts DEF Init, LeftRunning, OverEnded, Over
<1>5. HandleTaken /\ ResultFindsHandle
  BY DEF Init, HandleTaken, ResultFindsHandle
<1> QED
  BY <1>1, <1>2, <1>3, <1>4, <1>5 DEF IInv

InboxTypes ==
    /\ answered \subseteq Goals /\ resulted \subseteq answered
    /\ stop \in [Nodes -> BOOLEAN] /\ result \in [Nodes -> Goals \cup {None}]
    /\ fault \in {"none", "result", "rejected", "unknown"} /\ foreign \in BOOLEAN
    /\ missed \subseteq Goals

\* What a callback run by leaf n, or none, does to the inbox.
LEMMA CallbackFacts ==
  ASSUME IInv, NEW n \in Nodes, Callback(n) \/ NoCallback
  PROVE  /\ InboxTypes'
         /\ answered \subseteq answered' /\ resulted \subseteq resulted'
         /\ foreign => foreign'
         /\ \A g \in answered' \ answered :
                /\ server[g] \in {"executing", "rejected", "ended"}
                /\ foreign' \/ g[1] = n
         /\ \A g \in resulted' \ resulted : server[g] = "ended"
         /\ \A m \in Nodes : result'[m] = result[m]
                \/ /\ result'[m] \in resulted' \ resulted /\ result'[m] \in Goals
                   /\ result'[m][1] = m
         /\ fault' = fault \/
                /\ fault' = "result"
                /\ \E g \in Goals : /\ server[g] = "ended" /\ g \in answered
                                    /\ g \notin resulted /\ handle[g[1]] = None
<1> USE DEF IInv, TypeOK, InboxTypes
<1>1. ASSUME NEW g \in Goals, ReceiveResponse(n, g)
      PROVE  /\ answered' = answered \cup {g} /\ UNCHANGED <<resulted, stop, result, fault, missed>>
             /\ server[g] \in {"executing", "rejected", "ended"}
             /\ foreign' \in BOOLEAN /\ (foreign => foreign') /\ (foreign' \/ g[1] = n)
  BY <1>1 DEF ReceiveResponse
<1>2. ASSUME NEW g \in Goals, ReceiveResult(g)
      PROVE  /\ resulted' = resulted \cup {g} /\ UNCHANGED <<answered, stop, foreign>>
             /\ server[g] = "ended" /\ g \in answered /\ g \notin resulted
             /\ fault' = fault \/ (fault' = "result" /\ handle[g[1]] = None)
             /\ result' = result \/ result' = [result EXCEPT ![g[1]] = g]
             /\ missed' \subseteq missed \cup {g}
  <2>1. fault' = fault \/ (fault' = "result" /\ handle[g[1]] = None)
    BY <1>2 DEF ReceiveResult
  <2>2. result' = result \/ result' = [result EXCEPT ![g[1]] = g]
    BY <1>2 DEF ReceiveResult
  <2> QED
    BY <1>2, <2>1, <2>2 DEF ReceiveResult
<1>3. ASSUME NEW g \in Goals, NEW s \in BOOLEAN, ReceiveFeedback(g, s)
      PROVE  /\ UNCHANGED <<answered, resulted, result, fault, foreign, missed>>
             /\ stop' = [stop EXCEPT ![g[1]] = s]
  BY <1>3 DEF ReceiveFeedback
<1>4. CASE \E g \in Goals : ReceiveResponse(n, g)
  BY <1>1, <1>4
<1>5. CASE \E g \in Goals : ReceiveResult(g)
  <2>1. PICK g \in Goals : ReceiveResult(g)
    BY <1>5
  <2>2. result' \in [Nodes -> Goals \cup {None}]
    BY <1>2, <2>1, GoalFacts
  <2>3. \A m \in Nodes : result'[m] = result[m] \/ (m = g[1] /\ result'[m] = g)
    BY <1>2, <2>1, GoalFacts
  <2> QED
    BY <1>2, <2>1, <2>2, <2>3
<1>6. CASE \E g \in Goals, s \in BOOLEAN : ReceiveFeedback(g, s)
  BY <1>3, <1>6, GoalFacts
<1>7. CASE NoCallback
  BY <1>7 DEF NoCallback, inbox
<1> QED
  BY <1>4, <1>5, <1>6, <1>7 DEF Callback

-----------------------------------------------------------------------------
(* Types                                                                    *)

LeafTypes ==
    /\ status \in [Nodes -> {"IDLE", "RUNNING"}]
    /\ run \in [Nodes -> Nat] /\ \A n \in Nodes : run[n] <= Runs[n]
    /\ future \in [Nodes -> BOOLEAN] /\ received \in [Nodes -> BOOLEAN]
    /\ handle \in [Nodes -> Goals \cup {None}]
ServerTypes ==
    /\ server \in [Goals -> {"unsent", "requested", "rejected", "executing", "ended"}]
    /\ asked \subseteq Goals
TurnTypes ==
    /\ at \in {"tree", "poll", "check", "response", "ask", "cancel"}
    /\ turn \in Nodes \cup {None} /\ (at = "tree" <=> turn = None) /\ halting \in BOOLEAN

Types == InboxTypes /\ LeafTypes /\ ServerTypes /\ TurnTypes /\ cut \subseteq Goals

LEMMA TypeParts == (TypeOK <=> Types) /\ (TypeOK' <=> Types')
  BY DEF Types, TypeOK, InboxTypes, LeafTypes, ServerTypes, TurnTypes

LEMMA TurnFacts ==
  ASSUME IInv, at # "tree"
  PROVE  /\ turn \in Nodes /\ turn # None /\ status[turn] = "RUNNING"
         /\ Current(turn) \in Goals /\ Current(turn)[1] = turn
<1>1. turn \in Nodes /\ turn # None
  BY DEF IInv, TypeOK
<1>2. status[turn] = "RUNNING"
  BY DEF IInv, Place
<1> QED
  BY <1>1, <1>2, CurrentFacts DEF IInv

LEMMA TakeTypes ==
  ASSUME IInv, at # "tree", TakeHandle(turn)
  PROVE  handle' \in [Nodes -> Goals \cup {None}] /\ future' \in [Nodes -> BOOLEAN]
<1>1. Current(turn) \in Goals
  BY TurnFacts
<1> QED
  BY <1>1 DEF TakeHandle, IInv, TypeOK

LEMMA NextTypeOK == IInv /\ [Next]_vars => TypeOK'
<1> SUFFICES ASSUME IInv, [Next]_vars PROVE TypeOK'
  OBVIOUS
<1>0. InboxTypes /\ LeafTypes /\ ServerTypes /\ TurnTypes /\ cut \subseteq Goals
  BY TypeParts DEF Types, IInv
<1>q. UNCHANGED inbox => InboxTypes'
  BY <1>0 DEF InboxTypes, inbox
<1>s. UNCHANGED serverVars => ServerTypes'
  BY <1>0 DEF ServerTypes, serverVars
<1>r. BackToTree => TurnTypes'
  BY DEF BackToTree, TurnTypes
<1>l. UNCHANGED tickVars => LeafTypes'
  BY <1>0 DEF tickVars, LeafTypes
<1>e. UNCHANGED <<run, future, received, handle>> /\ EndRun(turn) => LeafTypes' /\ TurnTypes'
  BY <1>0, <1>r DEF LeafTypes, EndRun
<1>1. ASSUME NEW n \in Nodes, StartFails(n) \/ StartThrows(n) \/ Start(n)
      PROVE  TypeOK'
  <2>0. Starting(n)
    BY <1>1 DEF StartFails, StartThrows, Start
  <2>1. InboxTypes' /\ TurnTypes' /\ cut' \subseteq Goals
    BY <1>0, <2>0 DEF Starting, Forget, InboxTypes, TurnTypes
  <2>2. CASE StartFails(n)
    <3>1. LeafTypes' /\ ServerTypes'
      BY <1>0, <1>s, <2>0, <2>2 DEF StartFails, Starting, Forget, LeafTypes
    <3> QED
      BY <2>1, <3>1, TypeParts DEF Types
  <2>3. CASE StartThrows(n) \/ Start(n)
    <3>1. run[n] \in Nat /\ Runs[n] \in Nat /\ run[n] < Runs[n] /\ RunBegins(n)
      BY <1>0, <2>0, <2>3, RunsAssumption DEF StartThrows, Start, Starting, LeafTypes
    <3>2. run' \in [Nodes -> Nat] /\ \A m \in Nodes : run'[m] <= Runs[m]
      BY <1>0, <3>1 DEF RunBegins, LeafTypes
    <3>3. LeafTypes'
      BY <1>0, <2>0, <2>3, <3>1, <3>2 DEF StartThrows, Start, Starting, RunBegins, Forget, LeafTypes
    <3>4. ServerTypes'
      BY <1>0, <1>s, <2>3 DEF StartThrows, Start, ServerTypes
    <3> QED
      BY <2>1, <3>3, <3>4, TypeParts DEF Types
  <2> QED
    BY <1>1, <2>2, <2>3
<1>2. ASSUME NEW n \in Nodes, TickRunning(n)
      PROVE  TypeOK'
  <2>1. InboxTypes'
    BY <1>2, CallbackFacts DEF TickRunning
  <2>2. TurnTypes'
    BY <1>0, <1>2, NoneAssumption DEF TickRunning, TurnTypes
  <2> QED
    BY <1>0, <1>2, <1>l, <1>s, <2>1, <2>2, TypeParts DEF Types, TickRunning
<1>3. ASSUME NEW n \in Nodes, NEW h \in BOOLEAN, BeginCancel(n, h)
      PROVE  TypeOK'
  <2>1. TurnTypes'
    BY <1>3, NoneAssumption DEF BeginCancel, TurnTypes
  <2> QED
    BY <1>0, <1>3, <1>l, <1>s, <1>q, <2>1, TypeParts DEF Types, BeginCancel
<1>4. CASE GoalReceived
  <2>1. turn \in Nodes /\ Current(turn) \in Goals /\ at # "tree"
    BY <1>4, TurnFacts DEF GoalReceived
  <2>2. InboxTypes'
    BY <1>4, <2>1, CallbackFacts DEF GoalReceived, Callback
  <2>3. LeafTypes'
    <3>1. handle' \in [Nodes -> Goals \cup {None}] /\ future' \in [Nodes -> BOOLEAN]
      BY <1>4, <2>1, TakeTypes DEF GoalReceived
    <3>2. status' \in [Nodes -> {"IDLE", "RUNNING"}]
      BY <1>0, <1>4 DEF GoalReceived, EndRun, LeafTypes
    <3> QED
      BY <1>0, <1>4, <3>1, <3>2 DEF GoalReceived, LeafTypes
  <2>4. TurnTypes'
    BY <1>0, <1>4, <1>r DEF GoalReceived, EndRun, TurnTypes
  <2> QED
    BY <1>0, <1>4, <1>s, <2>2, <2>3, <2>4, TypeParts DEF Types, GoalReceived
<1>5. CASE StillWaiting \/ SendGoalTimeout
  <2>1. turn \in Nodes /\ Current(turn) \in Goals
    BY <1>5, TurnFacts DEF StillWaiting, SendGoalTimeout, PollFails
  <2>2. InboxTypes'
    BY <1>5, <2>1, CallbackFacts DEF StillWaiting, SendGoalTimeout, PollFails
  <2>3. LeafTypes' /\ TurnTypes'
    BY <1>0, <1>5, <1>e, <1>r DEF StillWaiting, SendGoalTimeout, PollFails, LeafTypes
  <2> QED
    BY <1>0, <1>5, <1>s, <2>1, <2>2, <2>3, TypeParts DEF Types, StillWaiting, SendGoalTimeout, PollFails
<1>6. CASE ReportResult \/ NothingToCancel \/ CancelDone \/ CancelTimeout
  <2>1. Current(turn) \in Goals
    BY <1>6, TurnFacts DEF ReportResult, NothingToCancel, CancelDone, CancelTimeout
  <2>2. LeafTypes' /\ TurnTypes'
    BY <1>0, <1>6, <1>e, <1>r DEF ReportResult, NothingToCancel, CancelDone, CancelTimeout,
                                  CancelReturns, LeafTypes
  <2> QED
    BY <1>0, <1>6, <1>q, <1>s, <2>1, <2>2, TypeParts DEF Types, ReportResult, NothingToCancel,
                                                          CancelDone, CancelTimeout
<1>7. CASE StillRunning \/ PollThrows
  BY <1>0, <1>7, <1>l, <1>q, <1>r, <1>s, TypeParts DEF Types, StillRunning, PollThrows
<1>8. CASE ResponseForCancel
  <2>1. LeafTypes'
    BY <1>0, <1>8, TakeTypes DEF ResponseForCancel, LeafTypes
  <2>2. TurnTypes'
    BY <1>0, <1>8 DEF ResponseForCancel, TurnTypes
  <2> QED
    BY <1>0, <1>8, <1>q, <1>s, <2>1, <2>2, TypeParts DEF Types, ResponseForCancel
<1>9. CASE AskCancel
  <2>1. turn \in Nodes /\ Current(turn) \in Goals
    BY <1>9, TurnFacts DEF AskCancel
  <2>2. InboxTypes'
    BY <1>0, <1>9 DEF AskCancel, InboxTypes
  <2>3. LeafTypes' /\ TurnTypes'
    BY <1>0, <1>9, <1>l, <1>r DEF AskCancel, TurnTypes
  <2>4. ServerTypes'
    <3>1. handle[turn] # None => handle[turn] \in Goals
      BY <1>0, <2>1 DEF LeafTypes
    <3> QED
      BY <1>0, <1>9, <3>1 DEF AskCancel, ServerTypes
  <2>5. cut' \subseteq Goals
    BY <1>0, <1>9, <2>1 DEF AskCancel
  <2> QED
    BY <2>2, <2>3, <2>4, <2>5, TypeParts DEF Types
<1>10. CASE SpinWhileWaiting
  <2>1. turn \in Nodes
    BY <1>10, TurnFacts DEF SpinWhileWaiting
  <2>2. InboxTypes'
    BY <1>10, <2>1, CallbackFacts DEF SpinWhileWaiting
  <2>3. TurnTypes'
    BY <1>0, <1>10 DEF SpinWhileWaiting, TurnTypes
  <2> QED
    BY <1>0, <1>10, <1>l, <1>s, <2>2, <2>3, TypeParts DEF Types, SpinWhileWaiting
<1>11. ASSUME NEW g \in Goals, Accept(g) \/ Reject(g) \/ Finish(g)
       PROVE  TypeOK'
  <2>1. ServerTypes' /\ TurnTypes'
    BY <1>0, <1>11 DEF Accept, Reject, Finish, ServerMoves, ServerTypes, TurnTypes
  <2> QED
    BY <1>0, <1>11, <1>l, <1>q, <2>1, TypeParts DEF Types, Accept, Reject, Finish, ServerMoves
<1>12. CASE UNCHANGED vars
  BY <1>0, <1>12, <1>l, <1>q, <1>s, TypeParts DEF Types, vars, TurnTypes
<1>13. ASSUME NEW n \in Nodes, Halt(n)
       PROVE  TypeOK'
  BY <1>3, <1>13 DEF Halt
<1>14. CASE StopRequested
  BY <1>3, <1>14, TurnFacts DEF StopRequested
<1> QED
  BY <1>1, <1>2, <1>4, <1>5, <1>6, <1>7, <1>8, <1>9, <1>10, <1>11, <1>12, <1>13, <1>14
  DEF Next, Tick, Onward

-----------------------------------------------------------------------------
(* What a step does to the inbox, to the runs and to the server's goals.    *)

Heard ==
    /\ answered \subseteq answered' /\ resulted \subseteq resulted' /\ (foreign => foreign')
    /\ \A g \in answered' \ answered : server[g] \in {"executing", "rejected", "ended"}
    /\ \A g \in resulted' \ resulted : server[g] = "ended"
    /\ \A m \in Nodes : \/ result'[m] = result[m] \/ result'[m] = None
                        \/ /\ result'[m] \in resulted' \ resulted /\ result'[m] \in Goals
                           /\ result'[m][1] = m

LEMMA StepHeard == IInv /\ [Next]_vars => Heard
<1> SUFFICES ASSUME IInv, [Next]_vars PROVE Heard
  OBVIOUS
<1>c. ASSUME NEW n \in Nodes, Callback(n) \/ NoCallback
      PROVE  Heard
  BY <1>c, CallbackFacts DEF Heard
<1>u. UNCHANGED inbox => Heard
  BY DEF inbox, Heard
<1>t. at # "tree" => turn \in Nodes
  BY TurnFacts
<1>1. ASSUME NEW n \in Nodes, StartFails(n) \/ StartThrows(n) \/ Start(n)
      PROVE  Heard
  <2>1. Forget(n)
    BY <1>1 DEF StartFails, StartThrows, Start, Starting
  <2>2. \A m \in Nodes : result'[m] = result[m] \/ result'[m] = None
    BY <2>1 DEF Forget, IInv, TypeOK
  <2> QED
    BY <2>1, <2>2 DEF Forget, Heard
<1>2. ASSUME NEW n \in Nodes, TickRunning(n) \/ Halt(n)
      PROVE  Heard
  BY <1>2, <1>c, <1>u DEF TickRunning, Halt, BeginCancel
<1>3. CASE GoalReceived
  <2>1. turn \in Nodes /\ Current(turn) \in Goals
    BY <1>3, TurnFacts DEF GoalReceived
  <2> QED
    BY <1>3, <1>c, <2>1 DEF GoalReceived, Callback
<1>4. CASE StillWaiting \/ SendGoalTimeout \/ SpinWhileWaiting
  BY <1>4, <1>c, <1>t DEF StillWaiting, SendGoalTimeout, PollFails, SpinWhileWaiting
<1>5. CASE PollThrows \/ ReportResult \/ StillRunning \/ StopRequested \/ NothingToCancel
           \/ ResponseForCancel \/ CancelDone \/ CancelTimeout
  BY <1>5, <1>u DEF PollThrows, ReportResult, StillRunning, StopRequested, BeginCancel,
                    NothingToCancel, ResponseForCancel, CancelDone, CancelTimeout
<1>6. CASE AskCancel
  BY <1>6 DEF AskCancel, Heard
<1>7. ASSUME NEW g \in Goals, Accept(g) \/ Reject(g) \/ Finish(g)
      PROVE  Heard
  BY <1>7, <1>u DEF Accept, Reject, Finish, ServerMoves
<1>8. CASE UNCHANGED vars
  BY <1>8, <1>u DEF vars
<1> QED
  BY <1>1, <1>2, <1>3, <1>4, <1>5, <1>6, <1>7, <1>8 DEF Next, Tick, Onward

\* The goal of a run that ends has a result, was rejected, was never sent or is marked
\* as cut.
Settled(n) == Current(n) \in cut' \/ Current(n) \in resulted \/ Rejected(n) \/ Unsent(n)

Begins(n) == Start(n) \/ StartThrows(n)

LeafSteps ==
    /\ cut \subseteq cut'
    /\ \A m \in Nodes :
          \/ run'[m] = run[m] /\ status'[m] = status[m]
          \/ /\ Begins(m) /\ status[m] = "IDLE" /\ status'[m] = "RUNNING"
             /\ run'[m] = run[m] + 1
          \/ /\ run'[m] = run[m] /\ status[m] = "RUNNING" /\ status'[m] = "IDLE"
             /\ Settled(m)

LEMMA StepLeaf == IInv /\ [Next]_vars => LeafSteps
<1> SUFFICES ASSUME IInv, [Next]_vars PROVE LeafSteps
  OBVIOUS
<1>0. status \in [Nodes -> {"IDLE", "RUNNING"}] /\ run \in [Nodes -> Nat]
  BY DEF IInv, TypeOK
<1>u. UNCHANGED <<status, run, cut>> => LeafSteps
  BY DEF LeafSteps
<1>e. ASSUME at # "tree", EndRun(turn), run' = run, cut \subseteq cut', Settled(turn)
      PROVE  LeafSteps
  <2>1. status[turn] = "RUNNING" /\ status' = [status EXCEPT ![turn] = "IDLE"]
    BY <1>e, TurnFacts DEF EndRun
  <2> QED
    BY <1>0, <1>e, <2>1 DEF LeafSteps
<1>c. ASSUME at # "tree", CancelReturns, run' = run, cut \subseteq cut', EndsRun => Settled(turn)
      PROVE  LeafSteps
  <2>1. CASE EndsRun
    BY <1>c, <1>e, <2>1 DEF CancelReturns
  <2>2. CASE ~EndsRun
    BY <1>c, <2>2 DEF CancelReturns, LeafSteps
  <2> QED
    BY <2>1, <2>2
<1>1. ASSUME NEW n \in Nodes, Begins(n)
      PROVE  LeafSteps
  <2>0. Starting(n) /\ RunBegins(n)
    BY <1>1 DEF Begins, Start, StartThrows
  <2>1. \A m \in Nodes : m # n => run'[m] = run[m] /\ status'[m] = status[m]
    BY <1>0, <2>0 DEF RunBegins
  <2>2. run'[n] = run[n] + 1 /\ status[n] = "IDLE" /\ status'[n] = "RUNNING" /\ cut' = cut
    BY <1>0, <2>0 DEF Starting, RunBegins
  <2> QED
    BY <1>1, <2>1, <2>2 DEF LeafSteps
<1>2. ASSUME NEW n \in Nodes, StartFails(n) \/ TickRunning(n) \/ Halt(n)
      PROVE  LeafSteps
  BY <1>2, <1>u DEF StartFails, Starting, TickRunning, Halt, BeginCancel, tickVars
<1>3. CASE GoalReceived
  <2>1. CASE Rejected(turn)
    BY <1>3, <1>e, <2>1 DEF GoalReceived, Settled
  <2>2. CASE ~Rejected(turn)
    BY <1>3, <1>u, <2>2 DEF GoalReceived
  <2> QED
    BY <2>1, <2>2
<1>4. CASE StillWaiting \/ PollThrows \/ SpinWhileWaiting \/ StillRunning \/ StopRequested
           \/ ResponseForCancel \/ AskCancel
  <2>1. CASE AskCancel
    BY <2>1 DEF AskCancel, tickVars, LeafSteps
  <2> QED
    BY <1>4, <1>u, <2>1 DEF StillWaiting, PollFails, PollThrows, SpinWhileWaiting, StillRunning,
                            StopRequested, BeginCancel, ResponseForCancel, tickVars
<1>5. CASE SendGoalTimeout
  BY <1>5, <1>e DEF SendGoalTimeout, PollFails, Settled
<1>6. CASE ReportResult
  <2>1. turn \in Nodes /\ result[turn] \in resulted
    BY <1>6, TurnFacts DEF ReportResult, IInv, ResultsReceived
  <2>2. Settled(turn)
    BY <1>6, <2>1 DEF ReportResult, Settled
  <2> QED
    BY <1>6, <1>e, <2>2 DEF ReportResult
<1>7. CASE CancelDone
  <2>1. handle[turn] = Current(turn) \/ Current(turn) \in cut
    BY <1>7 DEF CancelDone, IInv, CancelHandle
  <2> QED
    BY <1>7, <1>c, <2>1 DEF CancelDone, Settled
<1>8. CASE CancelTimeout
  BY <1>8, <1>c DEF CancelTimeout, Settled
<1>9. CASE NothingToCancel
  <2>1. turn \in Nodes /\ status[turn] = "RUNNING" /\ at = "response" /\ ~future[turn]
    BY <1>9, TurnFacts DEF NothingToCancel
  <2>2. Settled(turn)
    BY <2>1 DEF IInv, CancelHandle, FutureHeld, Settled
  <2> QED
    BY <1>9, <1>c, <2>2 DEF NothingToCancel
<1>10. ASSUME NEW g \in Goals, Accept(g) \/ Reject(g) \/ Finish(g)
       PROVE  LeafSteps
  BY <1>10, <1>u DEF Accept, Reject, Finish, ServerMoves, tickVars
<1>11. CASE UNCHANGED vars
  BY <1>11, <1>u DEF vars, tickVars
<1> QED
  BY <1>1, <1>2, <1>3, <1>4, <1>5, <1>6, <1>7, <1>8, <1>9, <1>10, <1>11
  DEF Next, Tick, Onward, Begins

ServerSteps ==
    /\ asked \subseteq asked'
    /\ \A g \in Goals :
          \/ server'[g] = server[g] /\ \A n \in Nodes : Start(n) => g # <<n, run[n] + 1>>
          \/ server[g] = "requested" /\ server'[g] \in {"executing", "rejected"}
          \/ server[g] = "executing" /\ server'[g] = "ended"
          \/ /\ server'[g] = "requested"
             /\ \E n \in Nodes : Start(n) /\ g = <<n, run[n] + 1>>

LEMMA StepServer == IInv /\ [Next]_vars => ServerSteps
<1> SUFFICES ASSUME IInv, [Next]_vars PROVE ServerSteps
  OBVIOUS
<1>0. server \in [Goals -> {"unsent", "requested", "rejected", "executing", "ended"}]
      /\ run \in [Nodes -> Nat]
  BY DEF IInv, TypeOK
<1>n. ASSUME status' = status, NEW n \in Nodes
      PROVE  ~Start(n)
  BY <1>n DEF Start, Starting, RunBegins, IInv, TypeOK
<1>1. ASSUME NEW n \in Nodes, Start(n)
      PROVE  ServerSteps
  <2>1. server' = [server EXCEPT ![<<n, run[n] + 1>>] = "requested"] /\ asked' = asked
    BY <1>1 DEF Start
  <2>2. ASSUME NEW m \in Nodes, Start(m)
        PROVE  m = n
    BY <1>1, <2>2 DEF Start, Starting, RunBegins, IInv, TypeOK
  <2> QED
    BY <1>0, <1>1, <2>1, <2>2 DEF ServerSteps
<1>2. ASSUME NEW g \in Goals, Accept(g) \/ Reject(g) \/ Finish(g)
      PROVE  ServerSteps
  <2>1. \A n \in Nodes : ~Start(n)
    BY <1>2, <1>n DEF Accept, Reject, Finish, ServerMoves, tickVars
  <2> QED
    BY <1>0, <1>2, <2>1 DEF Accept, Reject, Finish, ServerMoves, ServerSteps
<1>3. ASSUME UNCHANGED server, asked \subseteq asked', \A n \in Nodes : ~Start(n)
      PROVE  ServerSteps
  BY <1>3 DEF ServerSteps
<1>4. ASSUME \A n \in Nodes : ~Start(n), UNCHANGED vars \/ Onward \/ SpinWhileWaiting
                \/ \E n \in Nodes : \/ StartFails(n) \/ StartThrows(n)
                                   \/ TickRunning(n) \/ Halt(n)
      PROVE  ServerSteps
  <2>1. UNCHANGED server /\ asked \subseteq asked'
    <3>1. CASE UNCHANGED vars \/ SpinWhileWaiting
      BY <3>1 DEF vars, SpinWhileWaiting, serverVars
    <3>2. CASE \E n \in Nodes : StartFails(n) \/ StartThrows(n) \/ TickRunning(n) \/ Halt(n)
      BY <3>2 DEF StartFails, StartThrows, TickRunning, Halt, BeginCancel, serverVars
    <3>3. CASE \/ GoalReceived \/ StillWaiting \/ SendGoalTimeout \/ PollThrows
               \/ ReportResult \/ StillRunning
      BY <3>3 DEF GoalReceived, StillWaiting, SendGoalTimeout, PollFails, PollThrows,
                  ReportResult, StillRunning, serverVars
    <3>4. CASE \/ StopRequested \/ NothingToCancel \/ ResponseForCancel
               \/ CancelDone \/ CancelTimeout
      BY <3>4 DEF StopRequested, BeginCancel, NothingToCancel, ResponseForCancel, CancelDone,
                  CancelTimeout, serverVars
    <3>5. CASE AskCancel
      BY <3>5 DEF AskCancel
    <3> QED
      BY <1>4, <3>1, <3>2, <3>3, <3>4, <3>5 DEF Onward
  <2> QED
    BY <1>3, <1>4, <2>1
<1> QED
  BY <1>1, <1>2, <1>4 DEF Next, Tick

-----------------------------------------------------------------------------
(* The goals.                                                               *)

\* Starting a run replaces the leaf's goal by one that was never sent.
LEMMA StartFacts ==
  ASSUME IInv, NEW n \in Nodes, Begins(n)
  PROVE  /\ <<n, run[n] + 1>> \in Goals /\ server[<<n, run[n] + 1>>] = "unsent"
         /\ run' = [run EXCEPT ![n] = run[n] + 1]
         /\ status[n] = "IDLE" /\ at = "tree" /\ Starting(n) /\ RunBegins(n)
<1>0. Starting(n) /\ RunBegins(n)
  BY DEF Begins, Start, StartThrows
<1>1. run[n] \in Nat /\ run[n] + 1 <= Runs[n]
  <2>1. run[n] \in Nat /\ Runs[n] \in Nat
    BY RunsAssumption DEF IInv, TypeOK
  <2>2. run[n] < Runs[n]
    BY <1>0 DEF Starting
  <2> QED
    BY <2>1, <2>2
<1>2. <<n, run[n] + 1>> \in Goals
  BY <1>1, GoalFacts
<1>3. server[<<n, run[n] + 1>>] = "unsent"
  BY <1>1, <1>2 DEF IInv, ServerFirst
<1> QED
  BY <1>0, <1>2, <1>3 DEF Starting, RunBegins

LEMMA NextServerFirst == IInv /\ [Next]_vars => ServerFirst' /\ ResultsReceived'
<1> SUFFICES ASSUME IInv, [Next]_vars PROVE ServerFirst' /\ ResultsReceived'
  OBVIOUS
<1>0. Heard /\ LeafSteps /\ ServerSteps
  BY StepHeard, StepLeaf, StepServer
<1>r. run \in [Nodes -> Nat]
  BY DEF IInv, TypeOK
<1>1. ASSUME NEW g \in Goals
      PROVE  g[2] > run'[g[1]] => server'[g] = "unsent"
  <2>0. (g[2] > run[g[1]] => server[g] = "unsent") /\ g[1] \in Nodes /\ g[2] \in Nat
        /\ g = <<g[1], g[2]>>
    BY GoalFacts DEF IInv, ServerFirst
  <2>1. CASE run'[g[1]] = run[g[1]]
    <3>1. ASSUME NEW n \in Nodes, Start(n) PROVE g # <<n, run[n] + 1>>
      <4>1. run'[n] = run[n] + 1 /\ run[n] \in Nat
        BY <1>r, <3>1, StartFacts DEF Begins
      <4> QED
        BY <2>1, <4>1
    <3>2. server[g] = "unsent" => server'[g] = "unsent"
      BY <1>0, <3>1 DEF ServerSteps
    <3> QED
      BY <2>0, <2>1, <3>2
  <2>2. CASE Start(g[1]) /\ run'[g[1]] = run[g[1]] + 1
    <3>1. server' = [server EXCEPT ![<<g[1], run[g[1]] + 1>>] = "requested"]
      BY <2>2 DEF Start
    <3>2. CASE g[2] = run[g[1]] + 1
      <4>1. server'[g] = "requested"
        BY <2>0, <3>1, <3>2 DEF IInv, TypeOK
      <4> QED
        BY <1>r, <2>0, <2>2, <3>2, <4>1
    <3>3. CASE g[2] # run[g[1]] + 1
      <4>1. g # <<g[1], run[g[1]] + 1>>
        BY <3>3
      <4>2. server'[g] = server[g]
        BY <3>1, <4>1 DEF IInv, TypeOK
      <4>3. run[g[1]] \in Nat
        BY <1>r, <2>0
      <4> QED
        BY <2>0, <2>2, <3>3, <4>2, <4>3
    <3> QED
      BY <3>2, <3>3
  <2>3. CASE StartThrows(g[1]) /\ run'[g[1]] = run[g[1]] + 1
    BY <1>r, <2>0, <2>3 DEF StartThrows, serverVars
  <2> QED
    BY <1>0, <2>0, <2>1, <2>2, <2>3 DEF LeafSteps, Begins
<1>2. ASSUME NEW g \in Goals
      PROVE  /\ g \in answered' => server'[g] \in {"executing", "rejected", "ended"}
             /\ g \in resulted' => server'[g] = "ended"
  <2>1. /\ g \in answered' => server[g] \in {"executing", "rejected", "ended"}
        /\ g \in resulted' => server[g] = "ended"
    BY <1>0 DEF Heard, IInv, ServerFirst
  <2>2. ASSUME NEW n \in Nodes, Start(n), g = <<n, run[n] + 1>>
        PROVE  server[g] = "unsent"
    BY <2>2, StartFacts DEF Begins
  <2> QED
    BY <1>0, <2>1, <2>2 DEF ServerSteps
<1>3. ResultsReceived'
  BY <1>0 DEF Heard, IInv, ResultsReceived
<1> QED
  BY <1>1, <1>2, <1>3 DEF ServerFirst

\* A goal whose run is over: its run was over before, or ends in this step, settled.
LEMMA OverFacts ==
  ASSUME IInv, [Next]_vars, NEW g \in Goals, Over(g)'
  PROVE  Over(g) \/ (g = Current(g[1]) /\ Settled(g[1]))
<1>0. LeafSteps
  BY StepLeaf
<1>1. g[1] \in Nodes /\ g[2] \in Nat /\ g = <<g[1], g[2]>> /\ run[g[1]] \in Nat
  BY GoalFacts DEF IInv, TypeOK
<1>2. run'[g[1]] > g[2] \/ (run'[g[1]] = g[2] /\ status'[g[1]] = "IDLE")
  BY DEF Over
<1>3. CASE run'[g[1]] = run[g[1]] /\ status'[g[1]] = status[g[1]]
  BY <1>2, <1>3 DEF Over
<1>4. CASE /\ status[g[1]] = "IDLE" /\ status'[g[1]] = "RUNNING"
           /\ run'[g[1]] = run[g[1]] + 1
  BY <1>1, <1>2, <1>4 DEF Over
<1>5. CASE run'[g[1]] = run[g[1]] /\ Settled(g[1])
  BY <1>1, <1>2, <1>5 DEF Over, Current
<1> QED
  BY <1>0, <1>1, <1>3, <1>4, <1>5 DEF LeafSteps

LEMMA NextOver == IInv /\ [Next]_vars => LeftRunning' /\ OverEnded'
<1> SUFFICES ASSUME IInv, [Next]_vars, NEW g \in Goals, Over(g)'
             PROVE  /\ server'[g] \in {"requested", "executing"} => g \in asked' \cup cut'
                    /\ ~CutBy(g[1])' => g \in resulted' \/ server'[g] \in {"rejected", "unsent"}
  BY DEF LeftRunning, OverEnded
<1>0. Heard /\ LeafSteps /\ ServerSteps
  BY StepHeard, StepLeaf, StepServer
<1>1. g[1] \in Nodes /\ g[2] \in Nat /\ run[g[1]] \in Nat
  BY GoalFacts DEF IInv, TypeOK
<1>2. ~(\E n \in Nodes : Start(n) /\ g = <<n, run[n] + 1>>)
  <2>1. ASSUME NEW n \in Nodes, Start(n), g = <<n, run[n] + 1>>
        PROVE  FALSE
    <3>1. g[1] = n /\ g[2] = run[n] + 1 /\ run'[n] = run[n] + 1 /\ status'[n] = "RUNNING"
      BY <2>1, StartFacts DEF Begins, RunBegins, IInv, TypeOK
    <3> QED
      BY <1>1, <3>1 DEF Over
  <2> QED
    BY <2>1
<1>4. /\ server'[g] \in {"requested", "executing"} => server[g] \in {"requested", "executing"}
      /\ server[g] \in {"rejected", "unsent"} => server'[g] = server[g]
  BY <1>0, <1>2 DEF ServerSteps
<1>5. CutBy(g[1]) => CutBy(g[1])'
  BY <1>0 DEF LeafSteps, CutBy
<1>6. CASE Over(g)
  <2>1. server[g] \in {"requested", "executing"} => g \in asked \cup cut
    BY <1>6 DEF IInv, LeftRunning
  <2>2. ~CutBy(g[1]) => g \in resulted \/ server[g] \in {"rejected", "unsent"}
    BY <1>6 DEF IInv, OverEnded
  <2> QED
    BY <1>0, <1>4, <1>5, <2>1, <2>2 DEF Heard, LeafSteps, ServerSteps
<1>7. CASE g = Current(g[1]) /\ Settled(g[1])
  <2>1. g \in cut' \/ g \in resulted \/ server[g] \in {"rejected", "unsent"}
    BY <1>7 DEF Settled, Rejected, Unsent
  <2>2. g \in resulted => server[g] = "ended"
    BY DEF IInv, ServerFirst
  <2>3. g \in cut' => CutBy(g[1])'
    BY DEF CutBy
  <2> QED
    BY <1>0, <1>4, <2>1, <2>2, <2>3 DEF Heard
<1> QED
  BY <1>6, <1>7, OverFacts

\* A result is received of the goal under way, or of one left by a cut.
LEMMA NewResult ==
  ASSUME IInv, NEW g \in Goals, server[g] = "ended", g \notin resulted
  PROVE  \/ CutBy(g[1])
         \/ g = Current(g[1]) /\ status[g[1]] = "RUNNING"
<1>1. g[1] \in Nodes /\ g[2] \in Nat /\ g = <<g[1], g[2]>> /\ run[g[1]] \in Nat
  BY GoalFacts DEF IInv, TypeOK
<1>2. ~(g[2] > run[g[1]])
  BY DEF IInv, ServerFirst
<1>3. Over(g) => CutBy(g[1])
  BY DEF IInv, OverEnded
<1>4. status[g[1]] \in {"IDLE", "RUNNING"}
  BY <1>1 DEF IInv, TypeOK
<1> QED
  BY <1>1, <1>2, <1>3, <1>4 DEF Over, Current

LEMMA NextKeepsOwn == IInv /\ [Next]_vars => KeepsOwn'
<1> SUFFICES ASSUME IInv, [Next]_vars, NEW m \in Nodes, result'[m] # None, ~CutBy(m)'
             PROVE  result'[m] = Current(m)'
  BY DEF KeepsOwn
<1>0. Heard /\ LeafSteps
  BY StepHeard, StepLeaf
<1>1. ~CutBy(m)
  BY <1>0 DEF LeafSteps, CutBy
<1>2. ~Begins(m)
  BY DEF Begins, Start, StartThrows, Starting, Forget, IInv, TypeOK
<1>3. Current(m)' = Current(m)
  BY <1>0, <1>2 DEF LeafSteps, Current
<1>4. CASE result'[m] = result[m]
  BY <1>1, <1>3, <1>4 DEF IInv, KeepsOwn
<1>5. CASE /\ result'[m] \in resulted' \ resulted /\ result'[m] \in Goals
           /\ result'[m][1] = m
  <2>1. server[result'[m]] = "ended" /\ result'[m] \notin resulted
    BY <1>0, <1>5 DEF Heard
  <2>2. result'[m] = Current(m)
    BY <1>1, <1>5, <2>1, NewResult
  <2> QED
    BY <1>3, <2>2
<1> QED
  BY <1>0, <1>4, <1>5 DEF Heard

-----------------------------------------------------------------------------
(* The ticks and halts.                                                     *)

LEMMA NextPlace == IInv /\ [Next]_vars => Place'
<1> SUFFICES ASSUME IInv, [Next]_vars PROVE Place'
  OBVIOUS
<1>0. LeafSteps
  BY StepLeaf
<1>1. ASSUME NEW n \in Nodes, status'[n] = "RUNNING"
      PROVE  run'[n] # 0
  <2>1. run[n] \in Nat /\ (status[n] = "RUNNING" => run[n] # 0)
    BY DEF IInv, TypeOK, Place
  <2> QED
    BY <1>0, <1>1, <2>1 DEF LeafSteps
<1>2. at' # "tree" => status'[turn'] = "RUNNING"
  <2>1. CASE \E n \in Nodes : StartFails(n) \/ StartThrows(n) \/ Start(n)
    <3>1. at' = at /\ at = "tree"
      BY <2>1 DEF StartFails, StartThrows, Start, Starting
    <3> QED
      BY <3>1
  <2>2. CASE \E n \in Nodes : TickRunning(n) \/ Halt(n)
    BY <2>2 DEF TickRunning, Halt, BeginCancel, tickVars
  <2>3. CASE at # "tree" /\ UNCHANGED <<status, turn>>
    BY <2>3, TurnFacts
  <2>4. CASE BackToTree
    BY <2>4 DEF BackToTree
  <2>5. CASE Onward
    <3>1. CASE GoalReceived
      BY <2>3, <2>4, <3>1 DEF GoalReceived, EndRun
    <3>2. CASE \/ StillWaiting \/ SendGoalTimeout \/ PollThrows \/ ReportResult \/ StillRunning
               \/ NothingToCancel \/ CancelDone \/ CancelTimeout
      BY <2>4, <3>2 DEF StillWaiting, SendGoalTimeout, PollThrows, ReportResult, StillRunning,
                        NothingToCancel, CancelDone, CancelTimeout, CancelReturns, EndRun
    <3>3. CASE StopRequested \/ ResponseForCancel
      BY <2>3, <3>3 DEF StopRequested, BeginCancel, ResponseForCancel, tickVars
    <3>4. CASE AskCancel
      BY <2>3, <2>4, <3>4 DEF AskCancel, tickVars
    <3> QED
      BY <2>5, <3>1, <3>2, <3>3, <3>4 DEF Onward
  <2>6. CASE SpinWhileWaiting
    BY <2>3, <2>6 DEF SpinWhileWaiting, tickVars
  <2>7. CASE UNCHANGED <<status, turn, at>>
    BY <2>7 DEF IInv, Place
  <2>8. CASE \E g \in Goals : Accept(g) \/ Reject(g) \/ Finish(g)
    BY <2>7, <2>8 DEF Accept, Reject, Finish, ServerMoves, tickVars
  <2>9. CASE UNCHANGED vars
    BY <2>7, <2>9 DEF vars, tickVars
  <2> QED
    BY <2>1, <2>2, <2>5, <2>6, <2>8, <2>9 DEF Next, Tick
<1> QED
  BY <1>1, <1>2 DEF Place

LEMMA NextReceived == IInv /\ [Next]_vars => ReceivedAnswered'
<1> SUFFICES ASSUME IInv, [Next]_vars, NEW m \in Nodes, received'[m]
             PROVE  Current(m)' \in answered'
  BY DEF ReceivedAnswered
<1>0. Heard /\ LeafSteps
  BY StepHeard, StepLeaf
<1>r. received \in [Nodes -> BOOLEAN]
  BY DEF IInv, TypeOK
<1>1. ~Begins(m)
  BY <1>r DEF Begins, Start, StartThrows, Starting, Forget
<1>2. Current(m)' = Current(m)
  BY <1>0, <1>1 DEF LeafSteps, Current
<1>3. CASE received[m]
  BY <1>0, <1>2, <1>3 DEF Heard, IInv, ReceivedAnswered
<1>4. CASE GoalReceived /\ turn = m
  <2>1. Current(m) \in answered'
    BY <1>4 DEF GoalReceived, Ready, NoCallback, inbox, ReceiveResponse
  <2> QED
    BY <1>2, <2>1
<1>5. CASE GoalReceived /\ turn # m
  BY <1>3, <1>5, <1>r DEF GoalReceived
<1>6. CASE \E n \in Nodes : StartFails(n) \/ StartThrows(n) \/ Start(n)
  BY <1>3, <1>6, <1>r DEF StartFails, StartThrows, Start, Starting, Forget
<1>7. CASE UNCHANGED received
  BY <1>3, <1>7
<1>8. CASE \E n \in Nodes : TickRunning(n) \/ Halt(n)
  BY <1>7, <1>8 DEF TickRunning, Halt, BeginCancel, tickVars
<1>9. CASE \/ StillWaiting \/ SendGoalTimeout \/ PollThrows \/ ReportResult \/ StillRunning
           \/ NothingToCancel \/ CancelDone \/ CancelTimeout
  BY <1>7, <1>9 DEF StillWaiting, SendGoalTimeout, PollFails, PollThrows, ReportResult,
                    StillRunning, NothingToCancel, CancelDone, CancelTimeout, tickVars
<1>10. CASE StopRequested \/ ResponseForCancel \/ AskCancel \/ SpinWhileWaiting
  BY <1>7, <1>10 DEF StopRequested, BeginCancel, ResponseForCancel, AskCancel,
                     SpinWhileWaiting, tickVars
<1>11. CASE \E g \in Goals : Accept(g) \/ Reject(g) \/ Finish(g)
  BY <1>7, <1>11 DEF Accept, Reject, Finish, ServerMoves, tickVars
<1>12. CASE UNCHANGED vars
  BY <1>7, <1>12 DEF vars, tickVars
<1> QED
  BY <1>4, <1>5, <1>6, <1>8, <1>9, <1>10, <1>11, <1>12 DEF Next, Tick, Onward

LEMMA NextCancelHandle == IInv /\ [Next]_vars => CancelHandle'
<1> SUFFICES ASSUME IInv, [Next]_vars PROVE CancelHandle'
  OBVIOUS
<1>0. LeafSteps /\ ServerSteps
  BY StepLeaf, StepServer
<1>k. at' \notin {"ask", "cancel", "response"} => CancelHandle'
  BY DEF CancelHandle
\* A rejection and a cut stay.
<1>r. ASSUME at # "tree", UNCHANGED run, Rejected(turn)
      PROVE  server'[Current(turn)] = "rejected"
  <2>1. Current(turn) \in Goals /\ server[Current(turn)] = "rejected"
    BY <1>r, TurnFacts DEF Rejected
  <2>2. ~(\E n \in Nodes : Start(n) /\ Current(turn) = <<n, run[n] + 1>>)
    BY <1>r DEF Start, Starting
  <2> QED
    BY <1>0, <2>1, <2>2 DEF ServerSteps
<1>1. CASE at \in {"ask", "cancel", "response"} /\ UNCHANGED <<at, turn, handle, run>>
  <2>1. Current(turn)' = Current(turn)
    BY <1>1 DEF Current
  <2>2. at = "ask" /\ handle[turn] = None => Rejected(turn)
    BY DEF IInv, CancelHandle
  <2>3. at = "ask" /\ handle[turn] = None => Rejected(turn)'
    BY <1>1, <1>r, <2>1, <2>2 DEF Rejected
  <2>4. at = "cancel" => /\ handle[turn] # None
                         /\ handle[turn] = Current(turn) \/ Current(turn) \in cut
    BY DEF IInv, CancelHandle
  <2>5. at = "response" => handle[turn] = None
    BY DEF IInv, CancelHandle
  <2> QED
    BY <1>0, <1>1, <2>1, <2>3, <2>4, <2>5 DEF CancelHandle, LeafSteps
<1>2. CASE AskCancel
  <2>1. CASE handle[turn] = None \/ handle[turn] \in resulted
    BY <1>2, <1>k, <2>1 DEF AskCancel, BackToTree
  <2>2. CASE ~(handle[turn] = None \/ handle[turn] \in resulted)
    <3>1. at' = "cancel" /\ turn' = turn /\ handle' = handle /\ Current(turn)' = Current(turn)
          /\ cut' = IF handle[turn] \in {None, Current(turn)} THEN cut
                    ELSE cut \cup {Current(turn)}
      BY <1>2, <2>2 DEF AskCancel, Current, tickVars
    <3> QED
      BY <2>2, <3>1 DEF CancelHandle
  <2> QED
    BY <2>1, <2>2
<1>3. CASE ResponseForCancel
  <2>1. turn \in Nodes /\ Current(turn) \in Goals /\ Current(turn) # None
    BY <1>3, NoneAssumption, TurnFacts DEF ResponseForCancel
  <2>2. handle'[turn] = IF Rejected(turn) THEN None ELSE Current(turn)
    BY <1>3, <2>1 DEF ResponseForCancel, TakeHandle, IInv, TypeOK
  <2>3. at' = "ask" /\ turn' = turn /\ (Rejected(turn) => Rejected(turn)')
    BY <1>3 DEF ResponseForCancel, Rejected, Current, serverVars
  <2> QED
    BY <2>1, <2>2, <2>3 DEF CancelHandle
<1>4. ASSUME NEW n \in Nodes, NEW h \in BOOLEAN, BeginCancel(n, h)
      PROVE  CancelHandle'
  BY <1>4 DEF BeginCancel, CancelHandle, tickVars
<1>5. CASE StopRequested \/ \E n \in Nodes : Halt(n)
  BY <1>4, <1>5, TurnFacts DEF StopRequested, Halt
<1>6. CASE \E n \in Nodes : StartFails(n) \/ StartThrows(n) \/ Start(n) \/ TickRunning(n)
  BY <1>6, <1>k DEF StartFails, StartThrows, Start, Starting, TickRunning
<1>7. CASE \/ GoalReceived \/ StillWaiting \/ SendGoalTimeout \/ PollThrows \/ ReportResult
           \/ StillRunning \/ NothingToCancel \/ CancelDone \/ CancelTimeout
  BY <1>7, <1>k DEF GoalReceived, StillWaiting, SendGoalTimeout, PollThrows, ReportResult,
                    StillRunning, NothingToCancel, CancelDone, CancelTimeout, CancelReturns,
                    EndRun, BackToTree
<1>8. CASE SpinWhileWaiting
  BY <1>1, <1>8, <1>k DEF SpinWhileWaiting, tickVars
<1>9. CASE \E g \in Goals : Accept(g) \/ Reject(g) \/ Finish(g)
  <2>1. UNCHANGED <<at, turn, handle, run>>
    BY <1>9 DEF Accept, Reject, Finish, ServerMoves, tickVars
  <2> QED
    BY <1>1, <1>k, <2>1
<1>10. CASE UNCHANGED vars
  <2>1. UNCHANGED <<at, turn, handle, run>>
    BY <1>10 DEF vars, tickVars
  <2> QED
    BY <1>1, <1>k, <2>1
<1> QED
  BY <1>2, <1>3, <1>5, <1>6, <1>7, <1>8, <1>9, <1>10 DEF Next, Tick, Onward

\* With no cut and no foreign response, a leaf that heard of its goal's acceptance
\* has its handle, but between the polls and waits for it.
LEMMA NextHandleTaken == IInv /\ [Next]_vars => HandleTaken'
<1> SUFFICES ASSUME IInv, [Next]_vars, cut' = {}, ~foreign', NEW m \in Nodes,
                    Current(m)' \in answered', ~Rejected(m)'
             PROVE  handle'[m] # None \/ (turn' = m /\ at' \in {"poll", "response"})
  BY DEF HandleTaken
<1>0. Heard /\ LeafSteps /\ ServerSteps
  BY StepHeard, StepLeaf, StepServer
<1>1. cut = {} /\ ~foreign
  BY <1>0 DEF LeafSteps, Heard
<1>2. ~Begins(m)
  <2>1. ASSUME Begins(m) PROVE FALSE
    <3>0. run' = [run EXCEPT ![m] = run[m] + 1] /\ Starting(m)
      BY <2>1, StartFacts
    <3>1. Current(m)' = <<m, run[m] + 1>> /\ answered' = answered
      BY <3>0 DEF Current, Starting, Forget, IInv, TypeOK
    <3>2. <<m, run[m] + 1>> \in Goals /\ server[<<m, run[m] + 1>>] = "unsent"
      BY <2>1, StartFacts
    <3> QED
      BY <3>1, <3>2 DEF IInv, ServerFirst
  <2> QED
    BY <2>1
<1>3. Current(m)' = Current(m) /\ run'[m] = run[m]
  BY <1>0, <1>2 DEF LeafSteps, Current
<1>4. Current(m) \in Goals /\ Current(m)[1] = m /\ ~Rejected(m)
  <2>1. Current(m) \in Goals
    BY <1>3, NextTypeOK DEF TypeOK
  <2>2. Current(m)[1] = m
    BY DEF Current
  <2>3. ASSUME Rejected(m) PROVE FALSE
    <3>1. ~(\E n \in Nodes : Start(n) /\ Current(m) = <<n, run[n] + 1>>)
      BY <1>2 DEF Begins, Current
    <3>2. server'[Current(m)] = "rejected"
      BY <1>0, <2>1, <2>3, <3>1 DEF ServerSteps, Rejected
    <3> QED
      BY <1>3, <3>2 DEF Rejected
  <2> QED
    BY <2>1, <2>2, <2>3
<1>5. Current(m) \in answered => handle[m] # None \/ (turn = m /\ at \in {"poll", "response"})
  BY <1>1, <1>4 DEF IInv, HandleTaken
<1>n. ASSUME NEW n \in Nodes, Callback(n) \/ NoCallback, Current(m) \notin answered
      PROVE  m = n
  BY <1>3, <1>4, <1>n, CallbackFacts
<1>6. CASE handle' = handle /\ answered' = answered /\ at \notin {"poll", "response"}
  BY <1>3, <1>5, <1>6
<1>7. CASE UNCHANGED <<handle, answered, turn, at>>
  BY <1>3, <1>5, <1>7
<1>t. at # "tree" => turn \in Nodes
  BY TurnFacts
<1>8. CASE \E n \in Nodes : StartFails(n) \/ StartThrows(n) \/ Start(n) \/ Halt(n)
  BY <1>6, <1>8 DEF StartFails, StartThrows, Start, Starting, Forget, Halt, BeginCancel,
                    tickVars, inbox
<1>9. ASSUME NEW n \in Nodes, TickRunning(n)
      PROVE  handle'[m] # None \/ (turn' = m /\ at' \in {"poll", "response"})
  <2>1. CASE Current(m) \in answered
    BY <1>5, <1>9, <2>1 DEF TickRunning, tickVars
  <2>2. CASE Current(m) \notin answered
    <3>1. m = n
      BY <1>9, <1>n, <2>2 DEF TickRunning
    <3>2. ~received[n]
      BY <2>2, <3>1 DEF IInv, ReceivedAnswered
    <3> QED
      BY <1>9, <3>1, <3>2 DEF TickRunning
  <2> QED
    BY <2>1, <2>2
\* Taking the handle.
<1>h. ASSUME at # "tree", TakeHandle(turn)
      PROVE  /\ turn = m => handle'[m] # None
             /\ turn # m => handle'[m] = handle[m]
  <2>1. turn \in Nodes /\ handle \in [Nodes -> Goals \cup {None}]
    BY <1>h, TurnFacts DEF IInv, TypeOK
  <2> QED
    BY <1>4, <1>h, <2>1, NoneAssumption DEF TakeHandle
<1>10. CASE GoalReceived
  <2>1. turn \in Nodes /\ Current(turn) \in Goals
    BY <1>10, TurnFacts DEF GoalReceived
  <2>2. Current(m) \notin answered => m = turn
    BY <1>10, <1>n, <2>1 DEF GoalReceived, Callback
  <2> QED
    BY <1>5, <1>10, <1>h, <2>2 DEF GoalReceived
<1>11. CASE StillWaiting
  <2>1. turn # m
    BY <1>3, <1>11 DEF StillWaiting, PollFails
  <2>2. Current(m) \in answered
    BY <1>11, <1>n, <1>t, <2>1 DEF StillWaiting, PollFails
  <2> QED
    BY <1>5, <1>11, <2>1, <2>2 DEF StillWaiting, PollFails
<1>12. CASE SendGoalTimeout
  BY <1>12 DEF SendGoalTimeout
<1>13. CASE ReportResult \/ StillRunning \/ StopRequested \/ CancelDone
  BY <1>6, <1>13 DEF ReportResult, StillRunning, StopRequested, BeginCancel, CancelDone,
                     tickVars, inbox
<1>14. CASE AskCancel
  BY <1>6, <1>14 DEF AskCancel, tickVars
<1>19. CASE CancelTimeout
  <2>1. /\ handle' = handle /\ answered' = answered
        /\ at = "cancel" \/ (at = "response" /\ Current(turn) \notin answered)
    BY <1>19 DEF CancelTimeout, Ready, inbox
  <2> QED
    BY <1>3, <1>5, <2>1
\* Without a future, the leaf has its handle or has nothing to wait for.
<1>20. CASE PollThrows \/ NothingToCancel
  <2>1. /\ handle' = handle /\ answered' = answered /\ turn \in Nodes /\ ~future[turn]
        /\ status[turn] = "RUNNING"
    BY <1>20, TurnFacts DEF PollThrows, NothingToCancel, tickVars, inbox
  <2>2. turn = m => handle[m] # None
    <3>1. server[Current(m)] # "unsent"
      BY <1>3, <1>4, <2>1 DEF IInv, ServerFirst
    <3> QED
      BY <1>4, <2>1, <3>1 DEF IInv, FutureHeld, Unsent
  <2> QED
    BY <1>3, <1>5, <2>1, <2>2
<1>15. CASE ResponseForCancel
  BY <1>3, <1>5, <1>15, <1>h DEF ResponseForCancel, inbox
<1>16. CASE SpinWhileWaiting
  <2>1. UNCHANGED <<handle, turn, at>> /\ turn \in Nodes /\ (Callback(turn) \/ NoCallback)
        /\ at \in {"response", "cancel"}
    BY <1>16, <1>t DEF SpinWhileWaiting, tickVars
  <2>2. CASE Current(m) \in answered
    BY <1>5, <2>1, <2>2
  <2>3. CASE Current(m) \notin answered
    <3>1. m = turn
      BY <1>n, <2>1, <2>3
    <3>2. at = "cancel" => handle[turn] # None
      BY DEF IInv, CancelHandle
    <3> QED
      BY <2>1, <3>1, <3>2
  <2> QED
    BY <2>2, <2>3
<1>17. CASE \E g \in Goals : Accept(g) \/ Reject(g) \/ Finish(g)
  BY <1>7, <1>17 DEF Accept, Reject, Finish, ServerMoves, tickVars, inbox
<1>18. CASE UNCHANGED vars
  BY <1>7, <1>18 DEF vars, tickVars, inbox
<1> QED
  BY <1>8, <1>9, <1>10, <1>11, <1>12, <1>13, <1>14, <1>15, <1>16, <1>17, <1>18,
     <1>19, <1>20
  DEF Next, Tick, Onward

LEMMA NextFutureHeld == IInv /\ [Next]_vars => FutureHeld'
<1> SUFFICES ASSUME IInv, [Next]_vars, NEW m \in Nodes,
                    status'[m] = "RUNNING", ~future'[m], handle'[m] = None
             PROVE  Unsent(m)' \/ Rejected(m)'
  BY DEF FutureHeld
<1>0. LeafSteps /\ ServerSteps
  BY StepLeaf, StepServer
<1>1. future \in [Nodes -> BOOLEAN] /\ handle \in [Nodes -> Goals \cup {None}]
  BY DEF IInv, TypeOK
<1>2. CASE Begins(m)
  <2>1. Current(m)' = <<m, run[m] + 1>> /\ server[<<m, run[m] + 1>>] = "unsent"
    BY <1>2, StartFacts DEF Current, IInv, TypeOK
  <2>2. ~Start(m)
    BY <1>1 DEF Start
  <2> QED
    BY <1>2, <2>1, <2>2 DEF Begins, StartThrows, serverVars, Unsent
\* Neither the run nor what the server holds of its goal changes.
<1>3. ASSUME ~Begins(m), Unsent(m) \/ Rejected(m)
      PROVE  Unsent(m)' \/ Rejected(m)'
  <2>1. Current(m)' = Current(m) /\ status[m] = "RUNNING"
    BY <1>0, <1>3 DEF LeafSteps, Current
  <2>2. Current(m) \in Goals
    BY <2>1, CurrentFacts DEF IInv
  <2>3. ~(\E n \in Nodes : Start(n) /\ Current(m) = <<n, run[n] + 1>>)
    BY <1>3 DEF Begins, Current
  <2>4. server'[Current(m)] = server[Current(m)]
    BY <1>0, <1>3, <2>2, <2>3 DEF ServerSteps, Unsent, Rejected
  <2> QED
    BY <1>3, <2>1, <2>4 DEF Unsent, Rejected
<1>4. CASE ~Begins(m) /\ future'[m] = future[m] /\ handle'[m] = handle[m]
  <2>1. status[m] = "RUNNING"
    BY <1>0, <1>4 DEF LeafSteps
  <2> QED
    BY <1>3, <1>4, <2>1 DEF IInv, FutureHeld
<1>5. CASE ~Begins(m) /\ at # "tree" /\ TakeHandle(turn)
  <2>1. turn \in Nodes /\ Current(turn) \in Goals
    BY <1>5, TurnFacts
  <2>2. CASE turn = m
    <3>1. Rejected(m)
      BY <1>1, <1>5, <2>1, <2>2, NoneAssumption DEF TakeHandle
    <3> QED
      BY <1>3, <1>5, <3>1
  <2>3. CASE turn # m
    BY <1>1, <1>4, <1>5, <2>1, <2>3 DEF TakeHandle
  <2> QED
    BY <2>2, <2>3
<1>6. CASE ~Begins(m) /\ \E n \in Nodes : StartFails(n) \/ StartThrows(n) \/ Start(n)
  <2>1. PICK n \in Nodes : StartFails(n) \/ StartThrows(n) \/ Start(n)
    BY <1>6
  <2>2. handle' = handle /\ (m # n => future'[m] = future[m])
    BY <1>1, <2>1 DEF StartFails, StartThrows, Start, Starting, Forget
  <2>3. m # n
    BY <1>6, <2>1 DEF Begins, StartFails, Starting
  <2> QED
    BY <1>4, <1>6, <2>2, <2>3
<1>7. CASE GoalReceived \/ ResponseForCancel
  <2>1. ~Begins(m)
    BY <1>7 DEF GoalReceived, ResponseForCancel, Begins, Start, StartThrows, Starting
  <2> QED
    BY <1>5, <1>7, <2>1 DEF GoalReceived, ResponseForCancel
<1>8. CASE UNCHANGED <<future, handle>>
  BY <1>2, <1>4, <1>8
<1>9. CASE \E n \in Nodes : TickRunning(n) \/ Halt(n)
  BY <1>8, <1>9 DEF TickRunning, Halt, BeginCancel, tickVars
<1>10. CASE \/ StillWaiting \/ SendGoalTimeout \/ PollThrows \/ ReportResult \/ StillRunning
            \/ StopRequested
  BY <1>8, <1>10 DEF StillWaiting, SendGoalTimeout, PollFails, PollThrows, ReportResult,
                     StillRunning, StopRequested, BeginCancel, tickVars
<1>11. CASE NothingToCancel \/ AskCancel \/ CancelDone \/ CancelTimeout \/ SpinWhileWaiting
  BY <1>8, <1>11 DEF NothingToCancel, AskCancel, CancelDone, CancelTimeout, SpinWhileWaiting,
                     tickVars
<1>12. CASE UNCHANGED vars \/ \E g \in Goals : Accept(g) \/ Reject(g) \/ Finish(g)
  BY <1>8, <1>12 DEF Accept, Reject, Finish, ServerMoves, vars, tickVars
<1> QED
  BY <1>2, <1>6, <1>7, <1>9, <1>10, <1>11, <1>12 DEF Next, Tick, Onward, Begins

LEMMA NextFindsHandle == IInv /\ [Next]_vars => ResultFindsHandle'
<1> SUFFICES ASSUME IInv, [Next]_vars, cut' = {}, ~foreign'
             PROVE  fault' # "result"
  BY DEF ResultFindsHandle
<1>0. Heard /\ LeafSteps
  BY StepHeard, StepLeaf
<1>1. cut = {} /\ ~foreign
  BY <1>0 DEF LeafSteps, Heard
<1>2. fault # "result"
  BY <1>1 DEF IInv, ResultFindsHandle
<1>u. fault' = fault => fault' # "result"
  BY <1>2
<1>c. ASSUME NEW n \in Nodes, Callback(n) \/ NoCallback,
             at \in {"poll", "response"} => Current(turn) \notin answered
      PROVE  fault' # "result"
  <2>1. ASSUME NEW g \in Goals, server[g] = "ended", g \in answered, g \notin resulted,
               handle[g[1]] = None
        PROVE  FALSE
    <3>1. g[1] \in Nodes /\ g = Current(g[1])
      BY <1>1, <2>1, NewResult, GoalFacts DEF CutBy
    <3>2. ~Rejected(g[1])
      BY <2>1, <3>1 DEF Rejected
    <3>3. turn = g[1] /\ at \in {"poll", "response"}
      BY <1>1, <2>1, <3>1, <3>2 DEF IInv, HandleTaken
    <3> QED
      BY <1>c, <2>1, <3>1, <3>3
  <2> QED
    BY <1>2, <1>c, <2>1, CallbackFacts
<1>t. at # "tree" => turn \in Nodes
  BY TurnFacts
<1>3. CASE \E n \in Nodes : StartFails(n) \/ StartThrows(n) \/ Start(n) \/ Halt(n)
  BY <1>u, <1>3 DEF StartFails, StartThrows, Start, Starting, Forget, Halt, BeginCancel, inbox
<1>4. CASE \E n \in Nodes : TickRunning(n)
  BY <1>c, <1>4 DEF TickRunning
<1>5. CASE GoalReceived
  BY <1>u, <1>5 DEF GoalReceived, NoCallback, inbox, ReceiveResponse
<1>6. CASE StillWaiting \/ SendGoalTimeout
  BY <1>c, <1>t, <1>6 DEF StillWaiting, SendGoalTimeout, PollFails, Ready
<1>7. CASE \/ PollThrows \/ ReportResult \/ StillRunning \/ StopRequested \/ NothingToCancel
           \/ ResponseForCancel \/ CancelDone \/ CancelTimeout
  BY <1>u, <1>7 DEF PollThrows, ReportResult, StillRunning, StopRequested, BeginCancel,
                    NothingToCancel, ResponseForCancel, CancelDone, CancelTimeout, inbox
<1>8. CASE AskCancel
  BY <1>u, <1>8 DEF AskCancel
<1>9. CASE SpinWhileWaiting
  BY <1>c, <1>t, <1>9 DEF SpinWhileWaiting, Ready
<1>10. CASE \E g \in Goals : Accept(g) \/ Reject(g) \/ Finish(g)
  BY <1>u, <1>10 DEF Accept, Reject, Finish, ServerMoves, inbox
<1>11. CASE UNCHANGED vars
  BY <1>u, <1>11 DEF vars, inbox
<1> QED
  BY <1>3, <1>4, <1>5, <1>6, <1>7, <1>8, <1>9, <1>10, <1>11 DEF Next, Tick, Onward

-----------------------------------------------------------------------------
(* The theorems.                                                            *)

LEMMA InvariantStep == IInv /\ [Next]_vars => IInv'
  BY NextTypeOK, NextPlace, NextServerFirst, NextCancelHandle, NextFutureHeld, NextOver, NextReceived,
     NextHandleTaken, NextKeepsOwn, NextFindsHandle
  DEF IInv

LEMMA Invariant == Spec => []IInv
<1>1. Init => IInv
  BY InitIInv
<1>2. IInv /\ [Next]_vars => IInv'
  BY InvariantStep
<1> QED
  BY <1>1, <1>2, PTL DEF Spec

\* The types: among them that every kept result is of a goal, and that only answered
\* goals have results.
THEOREM TypeCorrect == Spec => []TypeOK
<1>1. IInv => TypeOK
  BY DEF IInv
<1> QED
  BY <1>1, Invariant, PTL

\* cancelGoal() and the end of a run: a goal is left under way only when it was asked
\* to stop, or when its run was cut short by a timeout or by another run's handle or
\* result.
THEOREM NothingLeftRunning == Spec => []LeftRunning
<1>1. IInv => LeftRunning
  BY DEF IInv
<1> QED
  BY <1>1, Invariant, PTL

\* result_callback meets a null goal_handle_ only after a cut, or when a response was
\* received while another leaf was spinning.
THEOREM HandleBeforeResult == Spec => []ResultFindsHandle
<1>1. IInv => ResultFindsHandle
  BY DEF IInv
<1> QED
  BY <1>1, Invariant, PTL

\* A leaf reports the result of the goal it sent in this run, unless it has abandoned a
\* goal in an earlier one.
THEOREM ReportsItsOwn == Spec => OwnResult
<1>1. ASSUME IInv, NEW n \in Nodes, ReportResult, turn = n, result[n] # Current(n)
      PROVE  \E g \in cut : g[1] = n
  BY <1>1 DEF IInv, KeepsOwn, CutBy, ReportResult
<1>2. IInv => [\A n \in Nodes :
                  ReportResult /\ turn = n /\ result[n] # Current(n)
                      => \E g \in cut : g[1] = n]_vars
  BY <1>1
<1> QED
  BY <1>2, Invariant, PTL DEF OwnResult

-----------------------------------------------------------------------------
(* What a halt cancels.                                                     *)

\* A handle is that of a goal the leaf has sent, and of this run's goal once the run
\* has received it.
OwnHandle ==
    \A n \in Nodes :
        /\ handle[n] # None => handle[n][1] = n /\ handle[n][2] <= run[n]
        /\ received[n] /\ status[n] = "RUNNING" => handle[n] = Current(n)

LEMMA NextOwnHandle == IInv /\ OwnHandle /\ [Next]_vars => OwnHandle'
<1> SUFFICES ASSUME IInv, OwnHandle, [Next]_vars PROVE OwnHandle'
  OBVIOUS
<1>0. /\ run \in [Nodes -> Nat] /\ handle \in [Nodes -> Goals \cup {None}]
      /\ received \in [Nodes -> BOOLEAN] /\ status \in [Nodes -> {"IDLE", "RUNNING"}]
  BY DEF IInv, TypeOK
<1>k. ASSUME UNCHANGED <<run, received, handle>>,
             \A n \in Nodes : status'[n] = "RUNNING" => status[n] = "RUNNING"
      PROVE  OwnHandle'
  BY <1>k DEF OwnHandle, Current
<1>1. CASE \E n \in Nodes : StartFails(n) \/ StartThrows(n) \/ Start(n)
  <2>1. PICK n \in Nodes : StartFails(n) \/ StartThrows(n) \/ Start(n)
    BY <1>1
  <2>2. /\ handle' = handle /\ received' = [received EXCEPT ![n] = FALSE]
        /\ \A m \in Nodes : run'[m] \in Nat /\ run'[m] >= run[m]
        /\ \A m \in Nodes \ {n} : run'[m] = run[m] /\ status'[m] = status[m]
    BY <1>0, <2>1 DEF StartFails, StartThrows, Start, Starting, RunBegins, Forget
  <2>3. \A m \in Nodes : handle[m] # None => handle[m][2] \in Nat
    BY <1>0, GoalFacts
  <2> QED
    BY <1>0, <2>2, <2>3 DEF OwnHandle, Current
<1>2. CASE \E n \in Nodes : TickRunning(n)
  BY <1>k, <1>2 DEF TickRunning, tickVars
<1>3. CASE StopRequested \/ \E n \in Nodes : Halt(n)
  BY <1>k, <1>3 DEF StopRequested, Halt, BeginCancel, tickVars
<1>4. CASE GoalReceived \/ ResponseForCancel
  <2>1. turn \in Nodes /\ at \in {"poll", "response"} /\ Current(turn) \in Goals
        /\ Current(turn)[1] = turn /\ Current(turn)[2] = run[turn] /\ status[turn] = "RUNNING"
    BY <1>4, TurnFacts, CurrentFacts DEF GoalReceived, ResponseForCancel, IInv
  <2>2. PICK p \in Nodes : p = turn
    BY <2>1
  <2>3. /\ run' = run
        /\ handle'[p] = IF Rejected(p) THEN None ELSE Current(p)
        /\ \A m \in Nodes \ {p} : /\ handle'[m] = handle[m] /\ status'[m] = status[m]
                                  /\ received'[m] = received[m]
    BY <1>0, <1>4, <2>2 DEF GoalReceived, ResponseForCancel, TakeHandle, EndRun, BackToTree
  <2>4. received'[p] /\ status'[p] = "RUNNING" => ~Rejected(p)
    <3>1. CASE GoalReceived
      BY <1>0, <2>2, <3>1 DEF GoalReceived, EndRun
    <3>2. CASE ResponseForCancel
      <4>1. received'[p] = received[p] /\ handle[p] = None
        BY <2>2, <3>2 DEF ResponseForCancel, IInv, CancelHandle
      <4> QED
        BY <2>1, <2>2, <4>1, NoneAssumption DEF OwnHandle
    <3> QED
      BY <1>4, <3>1, <3>2
  <2>5. Current(p)' = Current(p) /\ Current(p)[1] = p /\ Current(p)[2] <= run[p]
    BY <1>0, <2>1, <2>2, <2>3 DEF Current
  <2>6. \A m \in Nodes \ {p} : Current(m)' = Current(m)
    BY <2>3 DEF Current
  <2> QED
    BY <2>3, <2>4, <2>5, <2>6 DEF OwnHandle
<1>5. CASE \/ StillWaiting \/ SendGoalTimeout \/ PollThrows \/ ReportResult \/ StillRunning
           \/ NothingToCancel \/ AskCancel \/ CancelDone \/ CancelTimeout
  <2>1. UNCHANGED <<run, received, handle>>
    BY <1>5 DEF StillWaiting, SendGoalTimeout, PollFails, PollThrows, ReportResult, StillRunning,
                NothingToCancel, AskCancel, CancelDone, CancelTimeout, tickVars
  <2>2. status' = status \/ status' = [status EXCEPT ![turn] = "IDLE"]
    BY <1>5 DEF StillWaiting, SendGoalTimeout, PollThrows, ReportResult, StillRunning,
                NothingToCancel, AskCancel, CancelDone, CancelTimeout, CancelReturns, EndRun,
                tickVars
  <2> QED
    BY <1>0, <1>k, <2>1, <2>2
<1>7. CASE SpinWhileWaiting \/ (\E g \in Goals : Accept(g) \/ Reject(g) \/ Finish(g))
           \/ UNCHANGED vars
  <2>1. UNCHANGED <<run, received, handle, status>>
    BY <1>7 DEF SpinWhileWaiting, Accept, Reject, Finish, ServerMoves, vars, tickVars
  <2> QED
    BY <1>k, <2>1
<1> QED
  BY <1>1, <1>2, <1>3, <1>4, <1>5, <1>7 DEF Next, Tick, Onward

\* cancelGoal() (lines 519-567) reaches the goal of the leaf that is halted, and that of
\* its current run if the run has received its handle (line 471) or is the first.
THEOREM HaltReachesItsOwn == Spec => CancelsItsOwn
<1>1. Init => OwnHandle
  BY DEF Init, OwnHandle
<1>2. IInv /\ OwnHandle /\ [Next]_vars
        => [AskCancel =>
              /\ \A g \in asked' \ asked : g[1] = turn
              /\ received[turn] \/ run[turn] = 1
                    => Current(turn) \in asked' \cup resulted \/ Rejected(turn)]_vars
  <2> SUFFICES ASSUME IInv, OwnHandle, AskCancel
               PROVE  /\ \A g \in asked' \ asked : g[1] = turn
                      /\ received[turn] \/ run[turn] = 1
                            => Current(turn) \in asked' \cup resulted \/ Rejected(turn)
    OBVIOUS
  <2>1. turn \in Nodes /\ status[turn] = "RUNNING"
    BY TurnFacts DEF AskCancel
  <2>2. \A g \in asked' \ asked : g = handle[turn] /\ handle[turn] # None
    BY DEF AskCancel
  <2>3. handle[turn] # None => handle[turn] \in asked' \cup resulted
    BY DEF AskCancel
  <2>4. handle[turn] = None => Rejected(turn)
    BY DEF AskCancel, IInv, CancelHandle
  <2>5. (received[turn] \/ run[turn] = 1) /\ handle[turn] # None => handle[turn] = Current(turn)
    <3>1. CASE received[turn]
      BY <2>1, <3>1 DEF OwnHandle
    <3>2. CASE run[turn] = 1 /\ handle[turn] # None
      <4>1. handle[turn] \in Goals /\ handle[turn][1] = turn /\ handle[turn][2] <= 1
        BY <2>1, <3>2 DEF OwnHandle, IInv, TypeOK
      <4>2. handle[turn][2] = 1
        BY <4>1, GoalFacts
      <4> QED
        BY <3>2, <4>1, <4>2, GoalFacts DEF Current
    <3> QED
      BY <3>1, <3>2
  <2> QED
    BY <2>1, <2>2, <2>3, <2>4, <2>5 DEF OwnHandle
<1> QED
  BY <1>1, <1>2, NextOwnHandle, Invariant, PTL DEF Spec, CancelsItsOwn

=============================================================================
