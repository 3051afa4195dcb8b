--------------------------- MODULE CrobotHardware ---------------------------
(***************************************************************************)
(* CrobotHardware and SerialComm: the lifecycle of the hardware interface, *)
(* the control loop that reads encoders, lets the controllers compute and  *)
(* writes wheel commands, and the serial line to the microcontroller.      *)
(*                                                                         *)
(* A reply is a text: the first piece opens it and can stand nowhere else, *)
(* the others are digits and what stands between numbers.  read() may stop *)
(* between any two pieces, inside a number too; replies differ in length.  *)
(* Which texts parse is a constant, so is the reply the device would send  *)
(* at each time; every piece carries the time at which it was sampled.  A  *)
(* base command is "zero" or "move"; the other outputs travel in the same  *)
(* message.  Descriptors are shared with the rest of the process.          *)
(***************************************************************************)
EXTENDS Integers, Sequences, FiniteSets

CONSTANTS Fds,      \* file descriptors the process can have
          Symbols,  \* what the pieces of a text can be
          Opens,    \* those that only open a reply
          Whole,    \* the texts that json::parse accepts
          Text,     \* Text[t]: the reply with the counters of time t
          Vmin,     \* pieces that read() waits for
          Cap,      \* pieces that read_buff holds
          OutCap,   \* bound: messages on their way to the device
          LineCap,  \* bound: pieces on their way from the device
          MaxTime,  \* bound: the device's clock stops there
          Nul       \* a piece of read_buff that was never written

NoFd == -1

Times == 0 .. MaxTime
Piece == [sym : Symbols, at : Times]

ASSUME FdAssumption == Fds \subseteq Nat
ASSUME SizeAssumption == /\ Cap \in Nat /\ Vmin \in 1 .. Cap
                         /\ OutCap \in Nat /\ LineCap \in Nat
ASSUME TimeAssumption == MaxTime \in Nat
ASSUME TextAssumption ==
    /\ Whole \subseteq Seq(Symbols)
    /\ \A w \in Whole : \A i \in 2 .. Len(w) : w[i] \notin Opens
    /\ Text \in [Times -> Whole]
    /\ \A t \in Times : Text[t][1] \in Opens /\ Len(Text[t]) \in Vmin .. (Cap - 1)
ASSUME NulAssumption == Nul \notin Piece

VARIABLES lifecycle,   \* "unconfigured", "inactive", "active" or "finalized"
          fd,          \* SerialComm::fd
          table,       \* what each descriptor refers to: "free", "serial", "other"
          others,      \* descriptors that other code of the process believes its own
          misclosed,   \* history: disconnect() has closed somebody else's file
          loop,        \* the control loop: "read", "blocked", "update", "write"
          cmd,         \* velocity command interfaces
          buff,        \* the static read_buff
          enc,         \* the text that the exported encoder values were read from
          toDevice,    \* messages on their way to the device
          line,        \* pieces on their way from the device
          arrived,     \* pieces the kernel holds for read()
          motors,      \* what the device makes the motors do
          powered,     \* the device is running
          now          \* its clock

portVars   == <<fd, table, others, misclosed>>
readVars   == <<buff, enc>>
deviceVars == <<line, motors, powered, now>>
vars == <<lifecycle, fd, table, others, misclosed, loop, cmd, buff, enc,
          toDevice, line, arrived, motors, powered, now>>

Messages == [kind : {"request", "reset"}] \cup [kind : {"write"}, cmd : {"zero", "move"}]

Init ==
    /\ lifecycle = "unconfigured"
    /\ fd = NoFd /\ table = [f \in Fds |-> "free"] /\ others = {} /\ misclosed = FALSE
    /\ loop = "read" /\ cmd = "zero"
    /\ buff = [s \in 1 .. Cap |-> Nul] /\ enc = <<>>
    /\ toDevice = <<>> /\ line = <<>> /\ arrived = <<>>
    /\ motors = "zero" /\ powered = TRUE /\ now = 0

Connected == fd # NoFd
PortIsOurs == table[fd] = "serial"
Up        == lifecycle \in {"inactive", "active"}
PortOpen  == \E f \in Fds : table[f] = "serial"

-----------------------------------------------------------------------------
(* Lifecycle transitions; the resource manager's lock keeps them out of     *)
(* read() and write().                                                      *)

Free(t) == {f \in Fds : t[f] = "free"}

\* disconnect(): whatever fd refers to is closed, and fd keeps its value.
Disconnected == IF Connected THEN [table EXCEPT ![fd] = "free"] ELSE table

\* open() takes the lowest free descriptor; a fresh port is flushed.
OpenSucceeds(t) ==
    \E f \in Free(t) :
        /\ \A h \in Free(t) : f <= h
        /\ fd' = f
        /\ table' = [t EXCEPT ![f] = "serial"]
        /\ arrived' = <<>> /\ toDevice' = <<>>

\* As if the result of open() were stored only when it succeeds.
OpenFails_KeepsFd(t) ==
    /\ table' = t /\ arrived' = <<>>
    /\ UNCHANGED <<fd, toDevice>>

OpenFails(t) ==
    /\ fd' = NoFd
    /\ table' = t /\ arrived' = <<>>
    /\ UNCHANGED toDevice

\* on_configure succeeds whether or not the port could be opened.
Configure ==
    /\ lifecycle = "unconfigured" /\ loop # "blocked"
    /\ OpenSucceeds(Disconnected) \/ OpenFails(Disconnected)
    /\ misclosed' = (misclosed \/ (Connected /\ table[fd] = "other"))
    /\ lifecycle' = "inactive"
    /\ UNCHANGED <<others, loop, cmd, readVars, deviceVars>>

Cleanup ==
    /\ lifecycle = "inactive" /\ loop # "blocked"
    /\ table' = Disconnected /\ arrived' = <<>>
    /\ misclosed' = (misclosed \/ (Connected /\ table[fd] = "other"))
    /\ lifecycle' = "unconfigured"
    /\ UNCHANGED <<fd, others, loop, cmd, readVars, toDevice, deviceVars>>

\* A send blocks while the output buffer is full; what is written to a closed or
\* foreign descriptor does not reach the device.
Send(m) ==
    IF PortIsOurs
    THEN Len(toDevice) < OutCap /\ toDevice' = Append(toDevice, m)
    ELSE UNCHANGED toDevice

Activate ==
    /\ lifecycle = "inactive" /\ loop # "blocked"
    /\ IF Connected
       THEN lifecycle' = "active" /\ Send([kind |-> "reset"])
       ELSE lifecycle' = "finalized" /\ UNCHANGED toDevice
    /\ UNCHANGED <<portVars, loop, cmd, readVars, arrived, deviceVars>>

Deactivate ==
    /\ lifecycle = "active" /\ loop # "blocked"
    /\ lifecycle' = "inactive"
    /\ UNCHANGED <<portVars, loop, cmd, readVars, toDevice, arrived, deviceVars>>

-----------------------------------------------------------------------------
(* The control loop: read, update, write.                                  *)

ReadRequest ==
    /\ loop = "read" /\ Up /\ Connected
    /\ Send([kind |-> "request"])
    /\ loop' = "blocked"
    /\ UNCHANGED <<lifecycle, portVars, cmd, readVars, arrived, deviceVars>>

\* As if the pieces that are read were added to those read before.
Filled_Appends(n) ==
    LET k == Cardinality({s \in 1 .. Cap : buff[s] # Nul})
    IN  [s \in 1 .. Cap |-> IF k + n <= Cap /\ s \in (k + 1) .. (k + n)
                            THEN arrived[s - k] ELSE buff[s]]

\* read() overwrites the first n pieces; the others keep what they held.
Filled(n) == [s \in 1 .. Cap |-> IF s <= n THEN arrived[s] ELSE buff[s]]

\* The text in b ends, at the first terminator, after k pieces, and parses.
Parses(b, k) ==
    /\ \A s \in 1 .. k : b[s] # Nul
    /\ b[k + 1] = Nul
    /\ [s \in 1 .. k |-> b[s].sym] \in Whole

\* As if a discarded value were read like any other, with defaults.
Export_Defaults(b) ==
    \/ \E k \in 0 .. (Cap - 1) : Parses(b, k) /\ enc' = [s \in 1 .. k |-> b[s]]
    \/ (\A k \in 0 .. (Cap - 1) : ~Parses(b, k)) /\ enc' = <<>>

\* The encoders are exported if the text parses.
Export(b) ==
    \/ \E k \in 0 .. (Cap - 1) : Parses(b, k) /\ enc' = [s \in 1 .. k |-> b[s]]
    \/ (\A k \in 0 .. (Cap - 1) : ~Parses(b, k)) /\ UNCHANGED enc

\* As if read() waited for as many bytes as it is asked for.
ReadReply_WaitsForAll ==
    /\ loop = "blocked" /\ PortIsOurs /\ Len(arrived) >= Cap
    /\ buff' = Filled(Cap) /\ Export(buff')
    /\ arrived' = SubSeq(arrived, Cap + 1, Len(arrived))
    /\ loop' = "update"
    /\ UNCHANGED <<lifecycle, portVars, cmd, toDevice, deviceVars>>

\* The blocking read waits for VMIN (6) bytes and returns what has arrived, up to the
\* buffer's size.
ReadReply ==
    /\ loop = "blocked" /\ PortIsOurs /\ Len(arrived) >= Vmin
    /\ LET n == IF Len(arrived) < Cap THEN Len(arrived) ELSE Cap
       IN  /\ buff' = Filled(n) /\ Export(buff')
           /\ arrived' = SubSeq(arrived, n + 1, Len(arrived))
    /\ loop' = "update"
    /\ UNCHANGED <<lifecycle, portVars, cmd, toDevice, deviceVars>>

\* The read fails, or finds nothing in a foreign file: the old text is parsed.
ReadElsewhere ==
    /\ loop = "blocked" /\ ~PortIsOurs
    /\ Export(buff)
    /\ loop' = "update"
    /\ UNCHANGED <<lifecycle, portVars, cmd, buff, toDevice, arrived, deviceVars>>

\* The controllers run.
Update(c) ==
    /\ loop = "update"
    /\ cmd' = c
    /\ loop' = "write"
    /\ UNCHANGED <<lifecycle, portVars, readVars, toDevice, arrived, deviceVars>>

Write ==
    /\ loop = "write" /\ Up /\ Connected
    /\ Send([kind |-> "write", cmd |-> cmd])
    /\ loop' = "read"
    /\ UNCHANGED <<lifecycle, portVars, cmd, readVars, arrived, deviceVars>>

Following == IF loop = "read" THEN "update" ELSE "read"

\* read() or write() returns ERROR, and so does on_error().
NotConnected ==
    /\ loop \in {"read", "write"} /\ Up /\ ~Connected
    /\ lifecycle' = "finalized"
    /\ loop' = Following
    /\ UNCHANGED <<portVars, cmd, readVars, toDevice, arrived, deviceVars>>

\* Components that are not up are passed over.
PassOver ==
    /\ loop \in {"read", "write"} /\ ~Up
    /\ loop' = Following
    /\ UNCHANGED <<lifecycle, portVars, cmd, readVars, toDevice, arrived, deviceVars>>

-----------------------------------------------------------------------------
(* The device and the line.                                                *)

Reply == [p \in 1 .. Len(Text[now]) |-> [sym |-> Text[now][p], at |-> now]]

Answer ==
    /\ powered /\ toDevice # <<>> /\ Head(toDevice).kind = "request"
    /\ Len(line) + Len(Reply) <= LineCap
    /\ line' = line \o Reply
    /\ toDevice' = Tail(toDevice)
    /\ UNCHANGED <<lifecycle, portVars, loop, cmd, readVars, arrived, motors, powered, now>>

\* Commands, and resets of the counters.
Obey ==
    /\ powered /\ toDevice # <<>> /\ Head(toDevice).kind # "request"
    /\ motors' = IF Head(toDevice).kind = "write" THEN Head(toDevice).cmd ELSE motors
    /\ toDevice' = Tail(toDevice)
    /\ UNCHANGED <<lifecycle, portVars, loop, cmd, readVars, arrived, line, powered, now>>

\* A closed port drops what it receives.
Receive ==
    /\ line # <<>>
    /\ line' = Tail(line)
    /\ arrived' = IF PortOpen THEN Append(arrived, Head(line)) ELSE <<>>
    /\ UNCHANGED <<lifecycle, portVars, loop, cmd, readVars, toDevice, motors, powered, now>>

\* Without power everything on the line is lost, and the motors stop.
PowerFails ==
    /\ powered
    /\ powered' = FALSE /\ motors' = "zero"
    /\ line' = <<>> /\ toDevice' = <<>>
    /\ UNCHANGED <<lifecycle, portVars, loop, cmd, readVars, arrived, now>>

LostMessage ==
    /\ ~powered /\ toDevice # <<>>
    /\ toDevice' = Tail(toDevice)
    /\ UNCHANGED <<lifecycle, portVars, loop, cmd, readVars, arrived, deviceVars>>

PowerReturns ==
    /\ ~powered
    /\ powered' = TRUE
    /\ UNCHANGED <<lifecycle, portVars, loop, cmd, readVars, toDevice, arrived, line, motors, now>>

TimePasses ==
    /\ now < MaxTime
    /\ now' = now + 1
    /\ UNCHANGED <<lifecycle, portVars, loop, cmd, readVars, toDevice, arrived, line, motors, powered>>

-----------------------------------------------------------------------------
(* Other code of the process opens files, and closes what it opened.       *)

OtherOpens(f) ==
    /\ table[f] = "free"
    /\ table' = [table EXCEPT ![f] = "other"]
    /\ others' = others \cup {f}
    /\ UNCHANGED <<lifecycle, fd, misclosed, loop, cmd, readVars, toDevice, arrived, deviceVars>>

OtherCloses(f) ==
    /\ f \in others
    /\ table' = [table EXCEPT ![f] = "free"]
    /\ others' = others \ {f}
    /\ arrived' = IF table[f] = "serial" THEN <<>> ELSE arrived
    /\ UNCHANGED <<lifecycle, fd, misclosed, loop, cmd, readVars, toDevice, deviceVars>>

Transition == Configure \/ Cleanup \/ Activate \/ Deactivate

ControlLoop ==
    \/ ReadRequest \/ ReadReply \/ ReadElsewhere \/ Write
    \/ \E c \in {"zero", "move"} : Update(c)
    \/ NotConnected \/ PassOver

Device == Answer \/ Obey

Next ==
    \/ Transition
    \/ ControlLoop
    \/ Device \/ Receive
    \/ PowerFails \/ LostMessage \/ PowerReturns \/ TimePasses
    \/ \E f \in Fds : OtherOpens(f) \/ OtherCloses(f)

Spec == Init /\ [][Next]_vars

\* The control loop runs, a powered device works off its messages, and what is
\* on the line arrives.
Fairness == WF_vars(ControlLoop) /\ WF_vars(Device) /\ WF_vars(Receive)

FairSpec == Spec /\ Fairness

-----------------------------------------------------------------------------
(* Properties                                                              *)

\* Every variable has its type: fd is -1 or a descriptor, and the queues hold
\* messages and pieces.
TypeOK ==
    /\ lifecycle \in {"unconfigured", "inactive", "active", "finalized"}
    /\ fd \in Fds \cup {NoFd} /\ table \in [Fds -> {"free", "serial", "other"}]
    /\ others \subseteq Fds /\ misclosed \in BOOLEAN
    /\ loop \in {"read", "blocked", "update", "write"} /\ cmd \in {"zero", "move"}
    /\ buff \in [1 .. Cap -> Piece \cup {Nul}] /\ enc \in Seq(Piece)
    /\ toDevice \in Seq(Messages) /\ line \in Seq(Piece) /\ arrived \in Seq(Piece)
    /\ motors \in {"zero", "move"} /\ powered \in BOOLEAN /\ now \in Times

\* While the interface is up, the descriptor it reads and writes is its serial
\* port, through cleanups and failed opens: only closing a second time, as
\* on_configure (line 220) does after a cleanup, a descriptor that has meanwhile
\* become somebody else's can change that.
LinkIsOurs == Up /\ Connected /\ ~misclosed => PortIsOurs

\* A text mixed in read_buff from several replies is mixed in one way only, newest
\* first: however replies are torn, inside a number too, cut off by power failures and
\* read too late, no encoder is exported with an older one before it in the text, and
\* a number of two samples, whose value the device has never sent, has its leading
\* digits from the newer one.
NewestFirst == \A p, q \in 1 .. Len(enc) : p < q => enc[p].at >= enc[q].at

\* However replies are torn and mixed in read_buff, discarded or left over from
\* before a cleanup, no piece of an exported text is ever replaced by an older one, and
\* none is taken back.
NothingOlder ==
    [][Len(enc') >= Len(enc) /\ \A p \in 1 .. Len(enc) : enc'[p].at >= enc[p].at]_vars

\* If the controllers end up commanding a standstill, the motors come to one for
\* good: however far replies lag behind requests, the loop never waits for a
\* byte that is not under way, as long as the device stays up.
StopReachesMotors ==
    [](powered /\ ~misclosed) /\ <>[](lifecycle = "active" /\ cmd = "zero")
        => <>[](motors = "zero")

=============================================================================
