# CRO-JETSON in TLA+

Specifications, model-checking configurations and machine-checked proofs for
the ROS 2 workspace in `src/`: the software of a competition robot with a
mecanum base, dead-wheel odometry and a microcontroller behind a serial port.
Paths below are relative to `src/src/`.

## 1. The system

```
 BehaviorNode --goal--> CrobotNavigationActionServer --/cmd_vel--> (mux) --> CrobotDriveController
   ^   |     <--result--        ^                                              |        ^
   |   |                        +----------------- /odom ----------------------+        |
   |   +--/gpio_controller/commands--> GPIO controller                     wheels   encoders
   |                                        |                                  v        |
   +--/start_led_bool (dropped)             +-------------------------->  CrobotHardware + SerialComm
```

| Component | State it keeps | Operations | Meets |
|---|---|---|---|
| Navigation server (`crobot_navigation_server.cpp`) | status of each goal, `currentPos`, the local state of one detached thread per goal | goal, cancel and accepted handlers, `odom_cb`, `execute()` | its clients through an action; its own threads through `currentPos` and `/cmd_vel` |
| Bezier path (`BezierPath.cpp`) | none; the caller keeps `currentT` | `closestT`, `pathBezier`, `binomialCoefficients`, `setupPath` | called by `execute()` |
| Behaviour tree (`behavior_node.cpp`, leaves, `bt_default.xml`) | where the tree is, `done_flag_` of each GoToPose leaf, the Start leaf's timer | a tick every 500 ms, timer and result callbacks | the server (action), the GPIO controller (topic) |
| Drive controller (`crobot_drive_controller.cpp`) | lifecycle state, a realtime buffer of references, wheel commands, odometry | configure, activate, deactivate, reference callback, update | two threads around `input_ref_`; the hardware through command and state interfaces |
| Odometry (`odometry.cpp`) | pose and encoder counts | `updatePos`, `resetOdometry` | called by `update()` |
| Hardware (`crobot_hardware_system.cpp`, `serial_comm.cpp`) | descriptor, static receive buffer, exported values | lifecycle, `read`, `write` | the control loop; the microcontroller through a byte stream |
| Shared clients (`createClient`, `createSubscriber`, `getRegistry` of behaviortree_ros2) | a static registry of weak pointers, a strong pointer in each leaf | look up, create, drop | all the wrappers below |
| RosActionNode (`bt_action_node.hpp`) | future, handle and result of the run's goal, `goal_received_`, the state a feedback asked for | tick, halt, `cancelGoal`, response, result and feedback callbacks | an action server; other leaves through the client they share and its executor |
| RosServiceNode (`bt_service_node.hpp`) | future and response of the run's request, the time it was sent, the service's name | construction, tick, halt, destruction | a service; other leaves through the shared client |
| Topic wrappers (`bt_topic_sub_node.hpp`, `bt_topic_pub_node.hpp`) | `last_msg_`, the connection to the subscriber's signal; the publisher's topic | construction, tick, destruction | each other through topics; leaves that share a subscriber |
| Tree execution server (`tree_execution_server.cpp`) | the tree, its factory, `action_thread`, the registration timer | goal, cancel and accepted handlers, timer, `execute()` | clients through an action; its thread through the members above |

What is hard here, and what makes each part correct:

* **Navigation server.** Goals run concurrently, nothing stops an older goal
  when a newer one arrives, cancel requests are accepted and ignored, and every
  thread reads `currentPos` without a lock. Correct: the base is never left
  driving by a thread that is gone; a goal that reports success has stopped the
  base and stays silent; a goal whose robot has arrived is reported.
* **Bezier path.** A window search around the current parameter that looks
  behind it and past the end. Correct: it finds the closest point and never
  sends the robot back along its path.
* **Behaviour tree.** Ticks, results and timers interleave; results are late;
  flags outlive the run they were set in; a leaf throws through the whole process; either
  process may die. Correct: legs in order, one goal under way, actuators used at rest, the
  routine gets to its end or to the leaf that throws, and a dead tree does not leave a
  driving base.
* **Drive controller.** Messages are lost and late; a try-lock decides which of
  two slots the control loop reads; transitions meet both. Correct: no velocity that
  an activation finds in the buffer moves the wheels after it; with a timeout, a silent
  commander means a base at rest.
* **Hardware and serial link.** Replies split anywhere, inside a number too, and join;
  nothing pairs them with requests, a descriptor is reused after close, a read blocks the
  control loop. Correct: the interface uses its own port, nothing it has exported is taken
  back for something older, and a command to stand still gets through.
* **Odometry.** Differences of counters across a reset or a wrap.
* **Shared clients.** The registry is keyed by name, holds weak pointers and never
  replaces an entry. Correct: a leaf talks to the service, action or topic it was
  given, whoever came and went before it.
* **RosActionNode.** A spin of one leaf runs the callbacks of all leaves on the client;
  responses, results, halts and timeouts race; members survive the run they belong to.
  Correct: a run reports the result of its own goal, a run that is over does not leave its
  goal going, and runs end, as far as the code sees to it: section 3 says where it does not.
* **RosServiceNode.** An answer may arrive in another leaf's spin, after a timeout, after
  the leaf was given another service, or never. Correct: a run asks the service
  named, gets the answer to its own request, and ends.
* **Topic wrappers.** A subscriber with a queue of one message serves several leaves, and a leaf
  that moves to another topic stays connected. Correct: the messages of the leaf's
  topic, in order, once unless the leaf keeps it, and none to a leaf that is gone.
* **Tree execution server.** Handlers, a timer and a thread per goal share the tree and its
  factory, and a new goal joins the previous thread in the executor. Correct: one goal at a
  time, on its own tree; an accepted cancellation ends the goal promptly; the tree is
  halted when the goal is over.

`PROJECT.json` lists the hazards line by line with the properties that answer them.

### The program that is modelled

As committed, the tree does not build or load: `behavior_node.cpp` declares
`set_sorting` twice (lines 81, 87) and registers SetSorting with another leaf's
builder (line 98), and `bt_default.xml:14` has an attribute in an end tag. The model is
that of one builder and a well-formed file. The inputs of SetBinIntake are not repaired:
`bt_default.xml:58` gives `setBin="true"`, while `set_bin_intake.cpp` reads the port
`setBinIntake` and takes `in`, `out` and `off`. `Mission` therefore has routines in which
that leaf throws, the deployed one among them, and routines in which it does not, which is
what the file becomes with a value the leaf knows. (A loader that checks ports refuses
`setBin` before the first tick; such a routine never starts.)
`/cmd_vel` carries a Twist on the navigation side and a TwistStamped on the
controller's; the models of the two sides are therefore not composed. The package
behaviortree_ros2 is part of the workspace but the default tree uses none of its
classes; its models stand for any tree that does.

## 2. Modules

| Module | Models | EXTENDS / INSTANCE |
|---|---|---|
| `MotionService` | what the action server promises to its clients (abstract) | |
| `NavServer` | the server: executor and one thread per goal | INSTANCE `MotionService` as refinement |
| `BezierCurve` | `binomialCoefficients`, one action per access of its vector, and `pathBezier` | |
| `BezierPath` | a goal's path: those coefficients, then `closestT`, one action per loop iteration | EXTENDS `BezierCurve` |
| `Mission` | the tree against the service | INSTANCE `MotionService` as environment |
| `DriveController` | the controller's two threads and its buffer | |
| `CrobotHardware` | the hardware interface, its control loop, the serial line and the device | |
| `SharedClients` | the registry through which leaves share clients and subscribers | |
| `RosActionNode` | leaves of one tree on one action client, and the server's goals | |
| `RosServiceNode` | leaves that call services | EXTENDS `SharedClients` |
| `RosTopicNodes` | leaves that read and publish topics | EXTENDS `SharedClients` |
| `TreeService` | what a server that executes trees promises to its clients (abstract) | |
| `TreeExecutionServer` | that server: handlers, timer, one thread per goal | INSTANCE `TreeService` as refinement |
| `MCNavServer`, `MCMission`, `MCCrobotHardware`, `MCRosActionNode`, `MCRosServiceNode` | instances for TLC | |
| `NavServerProofs`, `BezierPathProofs`, `MissionProofs`, `DriveControllerProofs`, `CrobotHardwareProofs`, `RosActionNodeProofs`, `TreeExecutionServerProofs` | theorems | EXTENDS the component, `TLAPS` |
| `SharedClientsProofs` | theorems about `RosServiceNode` and `RosTopicNodes` | EXTENDS both, `TLAPS` |

The chain of arguments between modules: `BezierPath`'s *NeverBack* justifies
`NavServer`'s `Ahead` (the parameter never decreases, advances by at most
`Lookahead` = 2W and stops at N); `NavServer` implements `MotionService`
(*ImplementsService*); `Mission` is written against `MotionService`, so what
`Mission` shows holds with the server in its place, because nothing else in `Mission`
touches the service's state (`MissionProofs!KeepsContract`); and `NavServer`'s
*ArrivalIsReported* is what `Mission`'s fairness assumption on `Settle` stands for,
given a robot that comes to rest at the end of its path.

### NavServer

`goalState`, `currentPos` and `ok` are the action server's status table, the
member of that name and `rclcpp::ok()`; `pc[g]` and `currentT[g]` are the program
counter and local of goal g's thread, `odomAt`/`odomMsg` the progress and argument
of the odometry callback, `cmdVel` the latest message on `/cmd_vel`. One action of `execute()` is at most one access to
shared state: the loop test, `closestT`, the published drive, each operand of
the three-part comparison of line 150, the stop with `break`, and the report. The
odometry callback writes x, y, theta one at a time. The unlocked accesses are data
races; each coordinate is taken to be read and written whole (an aligned double
on the robot's 64-bit processors), so a read yields the old or the new value, in
any combination over the three coordinates. Reads of `currentPos` before line 149
only determine a velocity's value, which is abstracted to "drive". "Within the
threshold of `points.back()`" is equality of abstract coordinates. Callbacks run
one at a time because the component's executable spins one executor thread. `Finish` takes
the test of `rclcpp::ok()` (line 169) and `succeed()` in one step: of a goal that succeeds
after the shutdown its client learns as little as of one that does not.

### BezierPath

t is counted in steps of 0.001: N is 1.0, W is 0.05 (1000 and 50 in the code).
A call is given any function from parameters to distances, since nothing bounds
where the robot is pushed between calls; `pathBezier` is thereby covered for every
control polygon. The grid is exact: rounding of repeated `i += 0.001`, which may add or
lose one iteration at the window's edge, is not modelled.

`BezierCurve` comes first in `execute()`: `degree` is one less than the number of
points of the goal, -1 and 0 included because `handle_goal` accepts them, `b` the vector
that the two loops over `row` and `col` fill in place, and `step = "outside"` a write
beyond its end. `PathBezier` is the code's sum in whole numbers, scaled by N^degree,
for one coordinate.

### Mission

`Plan` is the depth-first list of the tree's leaves (`MCMission!DefaultTree` is
`bt_default.xml`). `at` and `status` say which stateful leaf the sequences
stand at; SUCCESS of a leaf runs on, in the same tick, through the synchronous
leaves to the next stateful one, whose `onStart` sends its goal: `TickAdvance` is
that whole tick. `doneFlag`, `timer` and `shouldStart` are the members of those
names, `owner` remembers which leaf sent which goal, `delivered` whose result
callback has run. Requests are accepted in any order. No leaf returns FAILURE, so the
retry decorator never acts, but SetBinIntake throws for an input it does not know
(`set_bin_intake.cpp:16-28`), and nothing on the way to `main()` catches that: the
sequences, the decorators, the timer's callback and `spin()` let it pass. `refused` are the
leaves of the tree file with such an input, any subset of the SetBinIntake leaves and
fixed for a behaviour; `TickThrows` is the tick that comes to one: what the leaves before
it publish is published, and the process is gone (`thrownBy` is history).
SetBeacon's input, and the parsing of every other port value, is taken to be one
the leaf knows. `wait_for_action_server()` (`odom_go_to_position.cpp:30`) is taken to find the
server; without one it blocks the tick, which is not modelled.

### DriveController

`nonRT`, `RT` and `newData` are the two slots and the flag of
`realtime_tools::RealtimeBuffer`; `writing` is a reference being stored while the
buffer's mutex is held, during which `readFromRT`'s try-lock fails and the old
slot is read. `wire` is the message waiting in a best-effort, keep-last(1)
subscription. Ages of references replace time stamps, and saturate at
`Timeout + 1`: comparisons with the timeout cannot tell greater ages apart.
`received` and `replayed` are history: a reference that the latest activation found in a
slot is "before", one whose write it found under way is "during", and `replayed` are
wheels that come from a "before". The distinction is the code's: `on_activate` (line 235)
overwrites what `readFromRT` returns, and a write that holds the mutex at that moment
(line 190) ends afterwards and is then the newest reference, so a velocity received before
the activation, by as little as the length of a write, does move the wheels.
*StartsAtRest* claims the rest: nothing that is in the buffer does. `fault` records the
dereference of the null pointer an untouched slot holds; "race" when a write was under way.

### CrobotHardware

`lifecycle` is the state the resource manager keeps of the component; `on_error`
is not overridden, so an error finalizes it. `fd` is the member of `SerialComm`, and
`table` says what each descriptor of the process refers to, because `disconnect()`
closes `fd` without forgetting it: `others` are the descriptors other code believes
its own, and `misclosed` is a history of the close that hits one of them. `loop` is
the place of the control loop between `read`, `update` and `write`; transitions
wait for it, since the manager's lock is held while `read()` blocks. `buff` is the
static `read_buff`, `enc` the text that the exported encoder values were read from.

The serial line is three queues: `toDevice`, `line` and `arrived` (what the kernel
holds). A reply is a text, a sequence of pieces with the time of their sample, and
`read()` may return after any piece beyond `Vmin`, in the middle of a number too: it takes
what has arrived and overwrites that much of the buffer, whose tail keeps earlier text up to
the first terminator (`Filled`, `Parses`). Which pieces there are (`Symbols`), which texts
parse (`Whole`) and what the device answers when (`Text`) are constants; only a piece of
`Opens` begins a text and nothing else does, as an object's brace. Replies may differ in
length: a reply shorter than the one before leaves the longer one's last bytes behind it,
and nothing parses any more. The instance (`MCCrobotHardware`) has an encoder at 19 and then
at 20, each in two pieces, so that 29 is a text which parses and which the device has never
sent; the code exports it. No property says otherwise: *NewestFirst* and *NothingOlder* say
in which way texts are mixed, namely newer samples before older ones and never back, and
nothing about the value of a number that is made of two samples.

White space and separators are part of the piece they follow. A text that parses but is no
object with the four keys makes `read()` throw, and is left out: `Whole` are the texts of
replies. A full buffer without a terminator, whose text would run on behind the array, is
taken not to parse. VMIN is 6 in the code, because the macro's own value is stored
in the slot of its index, although the comment beside it says "Read at least 1 character"; it
is less than any reply. That a sample is a time gives "older" a meaning across the
counters' resets. A foreign file is taken to have nothing to read.

### SharedClients

A leaf holds its client with a strong pointer (`client`), the registry with a weak
one (`registry`). `serves[c]` is the name client c was created for, `None` when c does not
exist: identities are used again, as the allocator does. The ROS node is part of
the key in the code; all leaves here have the same one. `insert()` does nothing when the
name has an entry, so the entry of a client that has died stays, and from
then on leaves of that name share nothing (*SharedByName*).

### RosActionNode

`status` is what the tree sees of each leaf; `future`, `received`, `handle`, `stop` and
`result` are members, `run[n]` numbers the runs so that `<<n, run[n]>>` is the goal
of the current one. A tick or a halt takes several actions, because callbacks run
inside it: `TickRunning` is its `spin_some()`, `GoalReceived`, `StillWaiting` and
`SendGoalTimeout` the three outcomes of the poll for the response, `ReportResult`,
`StillRunning` and `StopRequested` those of the rest; `BeginCancel` to
`CancelTimeout` are `cancelGoal()` with its two waits, during which any callback may run
(`SpinWhileWaiting`). A halt ends the run there; a tick returns
`on_feedback_state_change_`, which feedback that comes in during those waits may have set
back to RUNNING, and then the leaf goes on although its goal was asked to stop
(`CancelReturns`). A start whose `setGoal` or `onFailure` throws leaves the leaf RUNNING with
neither goal nor future (`StartThrows`): every later tick throws in the wait
(`PollThrows`), and a halt finds nothing to cancel (`NothingToCancel`). Other callbacks
are taken to return. `inbox` is all that a callback can change. An action client is one
waitable of its executor, so a spin of zero duration runs one callback.
`fault` names the exception or the null pointer that ends the model: a result without a
handle, a null handle passed to `async_cancel_goal`, a result asked for twice. `cut`,
`foreign` and `missed` are history: runs ended by a timeout or by another run's handle or
result, responses received in another leaf's spin, and results that came while the leaf had
no handle or that of another goal and so were dropped. The change of the action's name at a
tick is left to `RosServiceNode`, whose code is the same.

### RosServiceNode

`run` numbers the requests of a leaf; `request[r]` and `via[r]` say what became of
request r and with which client it was sent. `Construct` and the actions that start a run
take the name found in the port; a leaf in `Checked` reads it from the blackboard at each
start and changes its client when it differs. A tick of a running leaf takes up to two
responses, one in each of its spins, and leaves the rest for other ticks; they
complete whichever future they belong to. Callbacks may throw, and the status stays
RUNNING: after a start whose `setRequest` or `onFailure` throws (`StartThrows`) there is no
future, and every tick throws in the wait for it (`TickThrows`); after `onResponseReceived`
or a timeout's `onFailure` the next tick calls it again (`CallbackThrows`). `threw` are the
leaves to which this has happened in their present run, the runs *RunEnds* leaves out.

### RosTopicNodes

`waiting[c]` is the queue of one message in the subscription of client c, `kept[c]` the
last message the subscriber has seen, which a new leaf is given, and `Receivers(c)` the
leaves its signal calls. A tick that reads is two actions, since publishers are
not bound to the tree's thread: `Tick` up to the choice of the topic, and `Process`, the spin
with the signal and `onTick`. A leaf that moves to another topic keeps its connection to
the first one's signal (`stale`), which is cut neither then nor when the leaf is
destroyed; `dangling` are the subscribers whose signal still calls it, and `fault`
is such a call. `handed` remembers the newest message each leaf was given. An `onTick()` that
throws, or whose answer is no verdict, leaves `last_msg_` as it is (`OnTickThrows`), so that
the next tick gives it the same message; `thrown` are the leaves for which it threw last. The module's
`TopicInit`, `TopicNext` and `TopicSpec` carry that prefix, and `ConstructSub` and
`DestroySub` their suffix, so that one module of proofs can extend it together with
`RosServiceNode`: both stand on the same facts about `SharedClients`.

### TreeExecutionServer

`goal` is the action server's status table. Handlers and the timer share the default
callback group of a node that one executor spins, so they exclude each other;
`joining` is a `handle_accepted` that waits in `action_thread.join()` and keeps the
executor, and the timer's callback is two actions because an `execute()` can run during it.
`pc[g]` is where goal g's `execute()` is: `reload` and `create` use the factory, the loop
is `test`, `tick`, `after`, and `stop_action` is the part that `Test` and `After` share.
`early`, `threw` and `ticks` are history. Two accesses of the factory at once are the
fault "race", whose outcome C++ leaves undefined.

## 3. Runs

| Run | Instance | Shows |
|---|---|---|
| `NavServer_server` | 2 goals, 2 values per coordinate, N = 1 | *DriverIsAlive*: while the node runs, the goal behind the latest drive is still in its loop; *QuietAfterSuccess*: a goal reported as reached never publishes again; *ImplementsService*: refinement of `MotionService`; *ArrivalIsReported*: odometry that stays at a goal's end leads to its success, cancelled or not |
| `BezierPath_search` | N = 4, W = 2, 3 distances; goals of 0 to 5 points | *FindsClosest*, *NeverBack* over calls in any order; *StaysInside*: only a goal without a second point makes `binomialCoefficients` leave its vector; *CurveIsBezier*: with its coefficients `pathBezier` agrees with de Casteljau's construction for all points and all t |
| `Mission_routine` | default tree, 24 goals | *LegsInOrder*, *OneGoalBeforeLoop*, *ActuatesAtRest*; *ReachesLoop*: the routine comes to its final loop or, if a leaf refuses its input, as the deployed tree's does, to that leaf; *CrashStopsBase*: neither that exception nor a crash leaves the base driving |
| `Mission_reached` (violated) | 6 leaves, 4 goals | *ReachedIsReached*, the README of crobot_navigation: the loop's leaf succeeds at once from its second round on |
| `DriveController_references` | Timeout = 2 | *StartsAtRest*: no velocity that an activation finds in the buffer moves the wheels after it; *ActivationIsDefined*; the proofs extend both to the deployed timeout of 0; *SilenceStopsBase* |
| `Hardware_exchange` | 1 descriptor, replies of one number in 2 pieces, buffer of 3, clock to 1 | *LinkIsOurs*; *NewestFirst*, *NothingOlder*: which mixtures of replies tearing can produce and which not; *StopReachesMotors*: the loop never waits for a byte that is not under way |
| `RosActionNode_runs` | 2 leaves on one client, one of them runs twice | *LeftRunning*: a goal still under way when its run is over was asked to stop or abandoned by a timeout; *OwnResult*: a leaf that abandoned nothing reports its run's result; *ResultFindsHandle*; *CancelsItsOwn*: a halt cancels no goal of another leaf, and that of its own run once the run has its handle or is the first; *RunsEnd*: also of a run that feedback lets go on after `cancelGoal()`, but not of one whose start threw or whose result was missed |
| `RosActionNode_halt` (violated) | the same | *HaltCancels*, the note on `onHalt()`: a halt in a second run, before the response, tries to cancel the first run's goal while the second is under way (*CancelsItsOwn* says when it does not) |
| `TreeExecutionServer_goals` | 2 goals | *TicksItsOwnTree*, *CancelIsPrompt*, *OverIsHalted*, *RegistrationIsAlone*; *ImplementsTreeService*: refinement of `TreeService`; *CancelEnds* |
| `TreeExecutionServer_join` (violated) | 2 goals | *ExecutorComesBack*, the comment on starting a thread: a second goal blocks the executor until the first one's tree ends |
| `RosServiceNode_calls` | 2 leaves, 2 names, 3 clients; one leaf runs twice and may be renamed | *SharedByName*, *AnswerComesHere*; *AsksTheServiceNamed*, *OwnResponse*; *RunEnds*: without an answer too, unless a callback throws |
| `RosTopicNodes_topics` | 2 leaves, 2 topics with 2 messages each, 3 clients; one leaf may move, the other latches | *OwnTopic*, *NewestOnce*, *GoneIsGone*: what a leaf is given, in which order and how often, and who is called; *Delivered* |

**Bounds.** Two goals are enough for one thread to overtake another's messages,
and their end poses share a coordinate and differ in the others, so a comparison can
pass on parts of two samples. Two values per coordinate distinguish "at the end"
from "elsewhere", and N = 1 the start of a path from its end: no action of the
server is guarded by t. For `BezierPath`, W = 2
and N = 4 give windows cut off at 0, inside the path, and reaching past its end,
and three distances give ties and strict orders. Curves of up to five points take the
loops over the coefficients through rows of every kind; a curve is linear in its points, so
coordinates 0 and 1 are enough. `MaxGoals` bounds the goals a
run of `Mission` sends: 20 legs come before the loop, so 24 lets it go around
several times. Timeout = 2 gives fresh, ageing and expired references. For `CrobotHardware`, a number in two pieces
and three places in the buffer are the least that let a reply be torn inside a number, a read
return one and a half replies and a text be cut off by the terminator; one descriptor is enough
to be closed and reused by other code; `OutCap` and `LineCap` bound the queues to and
from the device, and a clock of two values tells an older sample from a newer one.
In
`RosActionNode`, a second run of one leaf is what meets the first run's handle and result,
and a second leaf is what receives another's callbacks. `RosServiceNode` and
`RosTopicNodes` have two leaves and two names, so that a client is shared, left and
closed, and three clients, one more than the leaves can hold, so that there is a
choice of identities. Two messages of a topic are enough for one to be
overwritten in the queue, repeated or overtaken. Two goals of `TreeExecutionServer` are the one in
execution and the one that waits.
Deadlock checking is off where the system may stop: after shutdown, after a crash, a
fault or undefined behaviour, or when the bound is reached.

**Fairness.** `NavServer`: every thread and the odometry callback's body are weakly
fair, because the operating system schedules them; nothing is assumed of clients,
odometry messages or shutdown. `Mission`: ticks and timers fire, messages
between live processes arrive, and the server settles an active goal, which is the
assumption that the robot gets there; *ReachesLoop* is stated for processes that
stay up but for the exception of a leaf. `DriveController`: the control loop updates, the executor takes
messages, time passes; nothing is assumed of delivery or transitions. That the control loop
updates presupposes that `read()` returns, and it waits for a silent device without a
limit: *SilenceStopsBase* is about a robot whose microcontroller answers.
`CrobotHardware`: the loop runs, the device works off its messages while it has power,
and bytes on the line arrive; nothing is assumed of power, transitions or other code. `RosActionNode`: the tree ticks its
running leaves again and again and goes on to the end of each tick; the server answers and
ends goals; a response or result that stays there to be taken in a leaf's spin is taken in one,
which is strong fairness because other callbacks may come first. `RosServiceNode`: a running
leaf is ticked and time passes; nothing is assumed of the service. `RosTopicNodes`: the tree
ticks its leaves; strong fairness, because each tick of one leaf disables the others'
for its duration. `TreeExecutionServer`: both threads run, which includes that user
callbacks and ticks return; that trees end is not assumed.

## 4. Proofs

All theorems hold for every value of the constants that satisfies the named assumptions.

| Theorem | Argument |
|---|---|
| `NavServerProofs!TypeCorrect`, `DriverAlive`, `QuietThreads`, `ServerImplementsService` | The inductive invariant adds to the types that a thread is where its goal's status says (`succeeded` only after `exited`, and no thread of an unknown goal), and that the goal of a drive is in its loop while the node runs: *DriverIsAlive* alone is not inductive, because a thread could leave the loop for `finish` with its own drive in force; the step into `finish` from `stop` replaces it and the one from `while` needs the node down. Refinement: each action maps to the service action of its goal or to a stutter. |
| `BezierPathProofs!TypeCorrect`, `ClosestIsFound`, `NeverMovesBack`, `WritesInside`, `ReturnsBinomials` | The loop invariant: `new_t` is a first closest point of what has been scanned. `NeverMovesBack` adds that `new_t` is at most W behind t, which the look-ahead makes up for. `WritesInside`: a row begins below the last coefficient and its loop stays below the row. `ReturnsBinomials` needs no induction over the points of a goal, because the code itself goes from row to row: given any C that satisfies the equations of Pascal's triangle (`PascalsTriangle`), the vector holds row `row` of C or, while the inner loop goes down, the next row behind `col` and the old one up to it (`PascalInv`). |
| `MissionProofs!TypeCorrect`, `LegsAreOrdered`, `OneGoalAtATime`, `ActuatorsAtRest`, `ReachedBeforeLoop`, `KeepsContract` | The invariant ties the flags to the service: every goal of a leaf behind `at` is done and none belongs to a leaf ahead of it, a set `doneFlag[k]` means that a goal of k is done, and a leaf before the loop has sent at most one goal. *LegsInOrder* alone is not inductive: it does not say why the flag that lets the tree go on may be trusted. `ActuatorsAtRest` adds that a drive in force is that of a goal which was sent and has not settled: the tick that actuates finds all goals done. `ReachedBeforeLoop` is *ReachedIsReached*, which the code violates, where it does hold: a leaf before the loop has one goal, and its flag was raised for that one. A tick that ends in an exception is like one that goes on, as far as it comes (`RunsOnTo`). `KeepsContract`: every step is a step of `MotionService` or leaves its state alone. |
| `DriveControllerProofs!TypeCorrect`, `NeverReplays`, `ActivationDefined` | The slot an active controller can read next is never a reference which the activation found in the buffer: such a one can remain only in the slot that is not new, and the write that the activation met, if any, stores its own (`received = "during"`). A configured controller's buffer has a non-null slot that the next read returns, unless a write holds the mutex. |
| `CrobotHardwareProofs!TypeCorrect`, `LinkOurs`, `TextNeverAges`, `MixedNewestFirst`, `NeverWaitsInVain` | `LinkInv` adds to *LinkIsOurs* that what other code opened is still its own while nothing has been misclosed: the port is then never among what it closes. `StreamInv` orders the whole path of a sample: clock, line, kernel, buffer slot, exported piece; a slot is only ever overwritten by something that left the device later. `MixedNewestFirst` adds that pieces which follow one another without the start of a reply are of one sample on their way (`Unbroken`), and in the buffer of the same or ever earlier ones (`BufferUnbroken`), because `read()` overwrites a prefix. It is stated for any two pieces, not for neighbours, so that no induction over the pieces is needed. `NeverWaitsInVain` is the safety core of *StopReachesMotors*: as long as the device has power and nothing was misclosed, a loop that waits in `read()` has bytes in the kernel or on the line, or a request in the queue to the device (`WaitInv`); a message taken off the queue that is no request leaves the request in it. The assumption is a `[]` over the behaviour, and so the invariant is carried through steps in which power stays. |
| `RosActionNodeProofs!TypeCorrect`, `NothingLeftRunning`, `HandleBeforeResult`, `ReportsItsOwn`, `HaltReachesItsOwn` | *LeftRunning* says nothing of goals that are not under way; the invariant adds that in a leaf that was never cut, every goal whose run is over has its result or was rejected (`OverEnded`). Hence a result received later is that of the current run (`NewResult`), which gives *OwnResult*. The handle: with no cut and no foreign response, a leaf whose goal is known to be accepted has its handle or stands in a poll or wait that takes it (`HandleTaken`), and in such a poll the response is not there yet, so no result callback comes before it. A running leaf without future and handle has sent nothing, or was rejected (`FutureHeld`), so that a `cancelGoal()` which finds neither leaves no goal going. `HaltReachesItsOwn` adds that a handle is that of a goal of its own leaf, that of the current run once `goal_received_` is set, and that `cancelGoal()` waits for a response only without a handle (`OwnHandle`): a stale handle is then one of an earlier run, which a first run does not have. |
| `SharedClientsProofs!TypeCorrect`, `OwnNames`, `ClientsAreShared`, `AnswersComeHere`, `AsksNamed`, `OwnResponses` | The client a leaf holds is alive and was created for the leaf's name, and an entry of the registry that is alive serves the name it is filed under (`ClientInv`): that is what makes a client found by name the right one, although identities are used again and dead entries stay. The requests of earlier runs, and the clients they went through, are never touched again. |
| `SharedClientsProofs!TopicTypes`, `OwnTopicOnly`, `NoneGoneIsCalled`, `GivenInOrder`, `NothingMissed` | On the same `ClientInv`, `TopicInv` orders the way of a message: what waits in a subscription is of the subscriber's topic and newer than what the subscriber keeps (`QueueInv`); what a leaf that never moved was given is older than what it has, and that older than what waits for it (`NewerInv`); nobody has anything that was not sent, and only a leaf that moved is connected to another signal than its subscriber's (`SeenInv`). *OwnTopic* and *NewestOnce* are not inductive alone: neither speaks of the messages on their way. A subscriber whose identity is used again starts without messages, because the client before it died with its queue (`PurgeKeeps`). `NothingMissed` is the safety core of *Delivered*: what a leaf has, in its `last_msg_` or in its subscriber, stays there or is replaced by something newer until the leaf is given it. |
| `TreeExecutionServerProofs!TypeCorrect`, `OwnTree`, `PromptCancel`, `RegistrationAlone`, `OverHalted`, `ServerImplementsTreeService` | At most one thread is inside `execute()`, because `handle_accepted` joins the previous one before it starts another; the tree is therefore that of the goal in its loop. A goal that is over has left the loop through the halt. Refinement: `Progress` maps the thread's place and the goal's status to the service's stages, and each action is a service step or a stutter. |

The types of all components are proved, and so are all invariants and action
properties of the passing runs but *CurveIsBezier*. No run lists a *TypeOK*: the theorems
cover the instances.

Model-checked only: every liveness property (fairness is beyond the prover),
*CurveIsBezier* (`ReturnsBinomials` proves that the coefficients are the binomial ones;
that their sum is de Casteljau's curve would need induction over the points of a curve), and
of course the violated statements. Of two of these the part that is true is proved:
`ReachedBeforeLoop` and `HaltReachesItsOwn`. Of two liveness properties the safety core is
proved: `NeverWaitsInVain` says for *StopReachesMotors* that the control loop has something
to wait for, and `NothingMissed` for *Delivered* that no message is lost on the way.

## 5. Where code and documents differ

Three runs end in a counterexample by design, and `PROJECT.json` ("findings") quotes the
statements:

* `Mission_reached`: the loop's GoToPose reports goals as reached that it has just
  sent, because its flag is still set.
* `RosActionNode_halt`: `goal_handle_` survives its run, so `cancelGoal()` of a later run
  turns to the earlier goal until the new response has been taken, and the goal under way
  goes on.
* `TreeExecutionServer_join`: the thread that is meant to keep the executor free is
  joined in the executor.

Others were met on the way and are not runs; each shows in the model where named:

* `crobot_navigation_server.cpp:147` says the loop stops at the end of the path: it stops
  without looking at t, and may do so on x, y and theta of different samples
  (`NavServer!Compare`).
* `BezierPath.cpp:32` writes beyond the vector of coefficients for a goal of one point, and
  `:31` for one of none; the server accepts both (`BezierCurve!PutEnds`).
* `BezierPath.cpp:46` and `:57` speak of a curve up to t = 1.0; the window goes past it
  (`BezierPath!Next`).
* A `reference_timeout` of 0 is described as resetting the reference after each run;
  nothing is reset (`DriveController!Expired`).
* `read()` waits for a silent device without a limit, whatever `timeout_ms` says, and
  once the receive buffer is out of step with the replies no text parses, so that the
  encoder values come to a standstill with a device that answers
  (`CrobotHardware!ReadReply`, `Parses`).
* `read()` parses what stands in the buffer, whatever part of it is new: a reply torn inside
  a number exports the leading digits of one sample with the rest of another, 2999 between
  1999 and 2000 (`Filled`, `Export`).
* `on_activate` resets the reference that it reads (`crobot_drive_controller.cpp:235`), but a
  velocity whose write is under way at that moment comes into force after it
  (`DriveController!Activate`, `WriteEnd`).
* `bt_default.xml:58` gives SetBinIntake an input that it refuses by an exception which
  ends the process (`Mission!TickThrows`).
* A start that throws leaves `RosActionNode` and `RosServiceNode` RUNNING with an empty
  future, and every later tick throws until the leaf is halted (`StartThrows`); an `onTick()`
  that throws is given the same message again (`OnTickThrows`).
* A leaf that asked to stop by its feedback may go on with its cancelled goal, when later
  feedback says so during the wait (`RosActionNode!CancelReturns`).
* An activation that meets the write of the very first message reads a null
  pointer: `fault = "race"` in `DriveController`.
* A leaf of `RosActionNode` that shares its client and whose response is taken in
  another leaf's spin can see its result before its handle, and throws; if it still has the
  handle of an earlier goal, the result is dropped and the leaf runs for ever (`missed`).
  *ResultFindsHandle* and *RunsEnd* say when not.
* The message given to `onTick()` is "the latest message received since the last tick"
  (`bt_topic_sub_node.hpp:138`); a new leaf, or one that moves to another topic, is given what the
  subscriber received before, and latching repeats it.
* A leaf that moves to another topic and is destroyed can still be called (*GoneIsGone*).

## 6. Not modelled, and what is left

Left out for good: rounding in curves and the kinematics, `XyhVector`, message
definitions, launch files, robot description, simulation worlds, the manual test client,
the loading of trees and plugins from files, and the registration macros.

What would extend the project:

1. `ControlLoop`: `CrobotHardware` and `DriveController` composed in the one thread that
   runs `read`, `update` and `write`, so that the timeout meets a blocking read.
2. `Odometry`: the tick differences across resets, the integer part of floating-point code.
3. Leaves that the default tree does not use: `AprilTagSubscriberID` waits for a message
   the way GoToPose waits for a result.
4. The change of the action's name in `RosActionNode`, by EXTENDS of `SharedClients`.
5. Proofs of the safety cores of the other liveness properties: that before its loop the
   tree of `Mission` always has a timer, a goal or a flag to wait for (*ReachesLoop*), and
   that a running leaf of `RosActionNode` that is neither cut nor met by foreign callbacks
   always has an answer or a result to come (*RunsEnd*).
