------------------------ MODULE CrobotHardwareProofs ------------------------
(* Proofs, for any descriptors, replies, buffer size and clock, that the    *)
(* interface uses its own port and how exported texts can be mixed.         *)
EXTENDS CrobotHardware, SequenceTheorems, TLAPS

\* While nobody else's file has been closed, what other code opened is its own.
LinkInv ==
    /\ ~misclosed => \A f \in others : table[f] = "other"
    /\ LinkIsOurs

\* Pieces arrive in the order of their samples; what is in the buffer is no younger
\* than anything still to come, and no older than what was exported from its place.
Ordered(q) == \A i \in 1 .. Len(q), j \in 1 .. Len(q) : i <= j => q[i].at <= q[j].at
AllFrom(t, q) == \A i \in 1 .. Len(q) : t <= q[i].at
Past(t) == t <= now /\ AllFrom(t, arrived) /\ AllFrom(t, line)

StreamInv ==
    /\ Ordered(arrived) /\ Ordered(line)
    /\ \A i \in 1 .. Len(line) : line[i].at <= now
    /\ \A i \in 1 .. Len(arrived) : arrived[i].at <= now /\ AllFrom(arrived[i].at, line)
    /\ \A s \in 1 .. Cap : buff[s] # Nul => Past(buff[s].at)
    /\ \A p \in 1 .. Len(enc) : /\ p \in 1 .. Cap /\ buff[p] # Nul
                                /\ Past(enc[p].at) /\ enc[p].at <= buff[p].at

\* No exported piece is taken back or replaced by an older one.
Grows == Len(enc') >= Len(enc) /\ \A p \in 1 .. Len(enc) : enc'[p].at >= enc[p].at

-----------------------------------------------------------------------------

LEMMA DisconnectedFacts ==
  ASSUME TypeOK
  PROVE  /\ Disconnected \in [Fds -> {"free", "serial", "other"}]
         /\ \A f \in Fds : f # fd => Disconnected[f] = table[f]
  BY DEF TypeOK, Disconnected, Connected

LEMMA SendFacts ==
  ASSUME TypeOK, NEW m \in Messages, Send(m)
  PROVE  toDevice' \in Seq(Messages)
<1>1. toDevice \in Seq(Messages)
  BY DEF TypeOK
<1>2. Append(toDevice, m) \in Seq(Messages)
  BY <1>1
<1>3. toDevice' = toDevice \/ toDevice' = Append(toDevice, m)
  BY DEF Send
<1> QED
  BY <1>1, <1>2, <1>3

LEMMA MessageFacts ==
  /\ [kind |-> "reset"] \in Messages /\ [kind |-> "request"] \in Messages
  /\ \A c \in {"zero", "move"} : [kind |-> "write", cmd |-> c] \in Messages
  BY DEF Messages

LEMMA EmptyQueues == <<>> \in Seq(Messages) /\ <<>> \in Seq(Piece)
  OBVIOUS

LEMMA FunctionIsSeq ==
  ASSUME NEW S, NEW n \in Nat, NEW f \in [1 .. n -> S]
  PROVE  f \in Seq(S) /\ Len(f) = n
<1>1. f \in Seq(S)
  BY SeqDef
<1>2. Len(f) \in Nat /\ 1 .. Len(f) = 1 .. n
  BY <1>1, LenProperties
<1> QED
  BY <1>1, <1>2

LEMMA ReplyFacts ==
  ASSUME TypeOK
  PROVE  /\ Reply \in Seq(Piece) /\ Len(Reply) \in Nat /\ Len(Reply) >= Vmin
         /\ Vmin \in Nat /\ Vmin >= 1
         /\ Reply[1].sym \in Opens
         /\ \A p \in 1 .. Len(Reply) : Reply[p].at = now
         /\ \A p \in 2 .. Len(Reply) : Reply[p].sym \notin Opens
<1>1. now \in Times /\ Text[now] \in Whole
  BY TextAssumption DEF TypeOK
<1>2. /\ Text[now] \in Seq(Symbols) /\ Len(Text[now]) \in Vmin .. (Cap - 1)
      /\ Text[now][1] \in Opens
      /\ \A i \in 2 .. Len(Text[now]) : Text[now][i] \notin Opens
  BY <1>1, TextAssumption
<1>3. /\ Vmin \in Nat /\ Vmin >= 1 /\ Cap \in Nat /\ Len(Text[now]) \in Nat
      /\ Len(Text[now]) >= Vmin /\ 1 \in 1 .. Len(Text[now])
  BY <1>2, SizeAssumption
<1>4. \A p \in 1 .. Len(Text[now]) : Text[now][p] \in Symbols
  BY <1>2, ElementOfSeq
<1>5. \A p \in 1 .. Len(Text[now]) : [sym |-> Text[now][p], at |-> now] \in Piece
  BY <1>1, <1>4 DEF Piece
<1>6. /\ Reply \in Seq(Piece) /\ Len(Reply) = Len(Text[now])
      /\ \A p \in 1 .. Len(Text[now]) : Reply[p] = [sym |-> Text[now][p], at |-> now]
  <2>1. Reply \in [1 .. Len(Text[now]) -> Piece]
    BY <1>5 DEF Reply
  <2> QED
    BY <1>3, <2>1, FunctionIsSeq DEF Reply
<1>7. \A p \in 1 .. Len(Text[now]) : Reply[p].sym = Text[now][p] /\ Reply[p].at = now
  <2>1. TAKE p \in 1 .. Len(Text[now])
  <2>2. Reply[p] = [sym |-> Text[now][p], at |-> now]
    BY <1>6
  <2> QED
    BY <2>2
<1>8. \A p \in 2 .. Len(Reply) : p \in 1 .. Len(Text[now])
  BY <1>3, <1>6
<1>9. Reply[1].sym \in Opens
  BY <1>2, <1>3, <1>7
<1>10. \A p \in 2 .. Len(Reply) : Reply[p].sym \notin Opens
  BY <1>2, <1>6, <1>7, <1>8
<1> QED
  BY <1>3, <1>6, <1>7, <1>9, <1>10

LEMMA ExportFacts ==
  ASSUME TypeOK, NEW b \in [1 .. Cap -> Piece \cup {Nul}], Export(b)
  PROVE  /\ enc' \in Seq(Piece)
         /\ \/ UNCHANGED enc
            \/ \E k \in 0 .. (Cap - 1) :
                  /\ Parses(b, k) /\ Len(enc') = k
                  /\ \A s \in 1 .. k : s \in 1 .. Cap /\ b[s] # Nul /\ enc'[s] = b[s]
<1>1. CASE UNCHANGED enc
  BY <1>1 DEF TypeOK
<1>2. ASSUME NEW k \in 0 .. (Cap - 1), Parses(b, k), enc' = [s \in 1 .. k |-> b[s]]
      PROVE  /\ enc' \in Seq(Piece) /\ Len(enc') = k
             /\ \A s \in 1 .. k : s \in 1 .. Cap /\ b[s] # Nul /\ enc'[s] = b[s]
  <2>1. \A s \in 1 .. k : s \in 1 .. Cap /\ b[s] # Nul
    BY <1>2, SizeAssumption DEF Parses
  <2>2. \A s \in 1 .. k : b[s] \in Piece
    BY <2>1
  <2>3. k \in Nat
    BY SizeAssumption
  <2>4. enc' \in [1 .. k -> Piece]
    BY <1>2, <2>2
  <2> QED
    BY <1>2, <2>1, <2>3, <2>4, FunctionIsSeq
<1> QED
  BY <1>1, <1>2 DEF Export

LEMMA FilledFacts ==
  ASSUME TypeOK, NEW n \in 0 .. Cap, n <= Len(arrived)
  PROVE  Filled(n) \in [1 .. Cap -> Piece \cup {Nul}]
<1>1. ASSUME NEW s \in 1 .. Cap, s <= n
      PROVE  arrived[s] \in Piece
  BY <1>1, SizeAssumption, ElementOfSeq DEF TypeOK
<1>2. \A s \in 1 .. Cap : buff[s] \in Piece \cup {Nul}
  BY DEF TypeOK
<1> QED
  BY <1>1, <1>2, SizeAssumption DEF Filled

-----------------------------------------------------------------------------

\* Every reachable state of the interface, the port and the device has its types.
THEOREM TypeCorrect == Spec => []TypeOK
<1>1. Init => TypeOK
  <2> SUFFICES ASSUME Init PROVE TypeOK
    OBVIOUS
  <2>1. /\ buff \in [1 .. Cap -> Piece \cup {Nul}]
        /\ enc \in Seq(Piece) /\ now \in Times
    BY TimeAssumption, EmptyQueues DEF Init, Times
  <2>2. toDevice \in Seq(Messages) /\ line \in Seq(Piece) /\ arrived \in Seq(Piece)
    BY EmptyQueues DEF Init
  <2> QED
    BY <2>1, <2>2 DEF Init, TypeOK
<1>2. TypeOK /\ [Next]_vars => TypeOK'
  <2> SUFFICES ASSUME TypeOK, [Next]_vars
               PROVE  TypeOK'
    OBVIOUS
  <2>1. CASE Configure
    <3>1. CASE OpenSucceeds(Disconnected)
      <4>1. PICK f \in Fds : fd' = f /\ table' = [Disconnected EXCEPT ![f] = "serial"]
        BY <3>1 DEF OpenSucceeds, Free
      <4>2. table' \in [Fds -> {"free", "serial", "other"}]
        BY <4>1, DisconnectedFacts
      <4>3. arrived' = <<>> /\ toDevice' = <<>>
        BY <3>1 DEF OpenSucceeds
      <4> QED
        BY <2>1, <4>1, <4>2, <4>3 DEF Configure, TypeOK, readVars, deviceVars
    <3>2. CASE OpenFails(Disconnected)
      BY <2>1, <3>2, DisconnectedFacts DEF Configure, OpenFails, TypeOK, readVars, deviceVars
    <3> QED
      BY <2>1, <3>1, <3>2 DEF Configure
  <2>2. CASE Cleanup
    BY <2>2, DisconnectedFacts DEF Cleanup, TypeOK, readVars, deviceVars
  <2>3. CASE Activate
    BY <2>3, SendFacts, MessageFacts DEF Activate, TypeOK, portVars, readVars, deviceVars
  <2>4. CASE Deactivate
    BY <2>4 DEF Deactivate, TypeOK, portVars, readVars, deviceVars
  <2>5. CASE ReadRequest
    BY <2>5, SendFacts, MessageFacts DEF ReadRequest, TypeOK, portVars, readVars, deviceVars
  <2>6. CASE ReadReply
    <3> DEFINE n == IF Len(arrived) < Cap THEN Len(arrived) ELSE Cap
    <3>1. n \in 0 .. Cap /\ n <= Len(arrived)
      BY SizeAssumption DEF TypeOK
    <3>2. buff' = Filled(n) /\ Export(buff') /\ arrived' = SubSeq(arrived, n + 1, Len(arrived))
      BY <2>6 DEF ReadReply
    <3>3. buff' \in [1 .. Cap -> Piece \cup {Nul}] /\ enc' \in Seq(Piece)
      BY <3>1, <3>2, FilledFacts, ExportFacts
    <3>4. arrived' \in Seq(Piece)
      <4>1. n + 1 \in 1 .. Len(arrived) + 1 /\ Len(arrived) \in Nat
        BY <3>1 DEF TypeOK
      <4> QED
        BY <3>2, <4>1, SubSeqProperties DEF TypeOK
    <3> QED
      BY <2>6, <3>3, <3>4 DEF ReadReply, TypeOK, portVars, deviceVars
  <2>7. CASE ReadElsewhere
    <3>1. enc' \in Seq(Piece)
      BY <2>7, ExportFacts DEF ReadElsewhere, TypeOK
    <3> QED
      BY <2>7, <3>1 DEF ReadElsewhere, TypeOK, portVars, deviceVars
  <2>8. CASE Write
    BY <2>8, SendFacts, MessageFacts DEF Write, TypeOK, portVars, readVars, deviceVars
  <2>9. ASSUME NEW c \in {"zero", "move"}, Update(c)
        PROVE  TypeOK'
    BY <2>9 DEF Update, TypeOK, portVars, readVars, deviceVars
  <2>10. CASE NotConnected
    BY <2>10 DEF NotConnected, Following, TypeOK, portVars, readVars, deviceVars
  <2>11. CASE PassOver
    BY <2>11 DEF PassOver, Following, TypeOK, portVars, readVars, deviceVars
  <2>12. CASE Answer
    <3>1. line' \in Seq(Piece)
      BY <2>12, ReplyFacts, ConcatProperties DEF Answer, TypeOK
    <3>2. toDevice' \in Seq(Messages)
      BY <2>12 DEF Answer, TypeOK
    <3> QED
      BY <2>12, <3>1, <3>2 DEF Answer, TypeOK, portVars, readVars
  <2>13. CASE Obey
    <3>1. Head(toDevice) \in Messages /\ toDevice' \in Seq(Messages)
      BY <2>13 DEF Obey, TypeOK
    <3>2. motors' \in {"zero", "move"}
      BY <2>13, <3>1 DEF Obey, TypeOK, Messages
    <3> QED
      BY <2>13, <3>1, <3>2 DEF Obey, TypeOK, portVars, readVars
  <2>14. CASE Receive
    <3>1. line' \in Seq(Piece) /\ arrived' \in Seq(Piece)
      BY <2>14 DEF Receive, TypeOK
    <3> QED
      BY <2>14, <3>1 DEF Receive, TypeOK, portVars, readVars
  <2>15. CASE PowerFails
    BY <2>15, EmptyQueues DEF PowerFails, TypeOK, portVars, readVars
  <2>16. CASE LostMessage
    <3>1. toDevice' \in Seq(Messages)
      BY <2>16 DEF LostMessage, TypeOK
    <3> QED
      BY <2>16, <3>1 DEF LostMessage, TypeOK, portVars, readVars, deviceVars
  <2>17. CASE PowerReturns
    BY <2>17 DEF PowerReturns, TypeOK, portVars, readVars
  <2>18. CASE TimePasses
    BY <2>18, TimeAssumption DEF TimePasses, TypeOK, Times, portVars, readVars
  <2>19. ASSUME NEW f \in Fds, OtherOpens(f)
         PROVE  TypeOK'
    BY <2>19 DEF OtherOpens, TypeOK, readVars, deviceVars
  <2>20. ASSUME NEW f \in Fds, OtherCloses(f)
         PROVE  TypeOK'
    BY <2>20 DEF OtherCloses, TypeOK, readVars, deviceVars
  <2>21. CASE UNCHANGED vars
    BY <2>21 DEF vars, TypeOK
  <2> QED
    BY <2>1, <2>2, <2>3, <2>4, <2>5, <2>6, <2>7, <2>8, <2>9, <2>10, <2>11, <2>12,
       <2>13, <2>14, <2>15, <2>16, <2>17, <2>18, <2>19, <2>20, <2>21
       DEF Next, Transition, ControlLoop, Device
<1> QED
  BY <1>1, <1>2, PTL DEF Spec

-----------------------------------------------------------------------------

\* Steps that touch neither the port nor the lifecycle cannot break the link.
LEMMA LinkKept ==
  ASSUME LinkInv, UNCHANGED portVars, Up' => Up
  PROVE  LinkInv'
  BY DEF LinkInv, LinkIsOurs, Connected, PortIsOurs, portVars

LEMMA LinkInvHolds == Spec => []LinkInv
<1>1. Init => LinkInv
  BY DEF Init, LinkInv, LinkIsOurs, Up
<1>2. TypeOK /\ LinkInv /\ [Next]_vars => LinkInv'
  <2> SUFFICES ASSUME TypeOK, LinkInv, [Next]_vars
               PROVE  LinkInv'
    OBVIOUS
  <2> USE DEF LinkInv, LinkIsOurs, PortIsOurs, Connected, Up
  <2>1. ASSUME ~misclosed', misclosed' = (misclosed \/ (Connected /\ table[fd] = "other"))
        PROVE  /\ ~misclosed /\ \A f \in others : f # fd
               /\ \A f \in others : Disconnected[f] = "other"
    <3>1. ~misclosed /\ ~(fd # NoFd /\ table[fd] = "other")
      BY <2>1
    <3>2. \A f \in others : f \in Fds /\ f # NoFd /\ table[f] = "other"
      BY <3>1, FdAssumption DEF TypeOK, NoFd
    <3> QED
      BY <3>1, <3>2, DisconnectedFacts
  <2>2. CASE Configure
    <3> SUFFICES ASSUME ~misclosed' PROVE LinkInv'
      BY DEF LinkInv
    <3>1. \A f \in others : Disconnected[f] = "other"
      BY <2>1, <2>2 DEF Configure
    <3>2. others' = others
      BY <2>2 DEF Configure
    <3>3. CASE OpenSucceeds(Disconnected)
      <4>1. PICK f \in Fds : /\ fd' = f /\ Disconnected[f] = "free"
                             /\ table' = [Disconnected EXCEPT ![f] = "serial"]
        BY <3>3 DEF OpenSucceeds, Free
      <4>2. f \notin others
        BY <3>1, <4>1
      <4>3. /\ table'[f] = "serial"
            /\ \A h \in others : table'[h] = "other"
        BY <3>1, <4>1, <4>2, DisconnectedFacts DEF TypeOK
      <4> QED
        BY <3>2, <4>1, <4>3
    <3>4. CASE OpenFails(Disconnected)
      BY <3>1, <3>2, <3>4 DEF OpenFails
    <3> QED
      BY <2>2, <3>3, <3>4 DEF Configure
  <2>3. CASE Cleanup
    BY <2>1, <2>3 DEF Cleanup
  <2>4. CASE Activate \/ Deactivate \/ NotConnected \/ PassOver
    <3>1. UNCHANGED portVars /\ (Up' => Up)
      BY <2>4 DEF Activate, Deactivate, NotConnected, PassOver
    <3> QED
      BY <3>1, LinkKept
  <2>5. CASE ReadRequest \/ ReadReply \/ ReadElsewhere \/ Write
    <3>1. UNCHANGED portVars /\ lifecycle' = lifecycle
      BY <2>5 DEF ReadRequest, ReadReply, ReadElsewhere, Write
    <3> QED
      BY <3>1, LinkKept
  <2>6. CASE \E c \in {"zero", "move"} : Update(c)
    <3>1. UNCHANGED portVars /\ lifecycle' = lifecycle
      BY <2>6 DEF Update
    <3> QED
      BY <3>1, LinkKept
  <2>7. CASE Answer \/ Obey \/ Receive \/ PowerFails \/ LostMessage \/ PowerReturns \/ TimePasses
    <3>1. UNCHANGED portVars /\ lifecycle' = lifecycle
      BY <2>7 DEF Answer, Obey, Receive, PowerFails, LostMessage, PowerReturns, TimePasses
    <3> QED
      BY <3>1, LinkKept
  <2>8. ASSUME NEW f \in Fds, OtherOpens(f)
        PROVE  LinkInv'
    <3>1. table' = [table EXCEPT ![f] = "other"] /\ table[f] = "free" /\ others' = others \cup {f}
      BY <2>8 DEF OtherOpens
    <3>2. \A h \in Fds : table'[h] = IF h = f THEN "other" ELSE table[h]
      BY <3>1 DEF TypeOK
    <3>3. others \subseteq Fds /\ fd \in Fds \cup {NoFd}
      BY DEF TypeOK
    <3> QED
      BY <2>8, <3>1, <3>2, <3>3 DEF OtherOpens
  <2>9. ASSUME NEW f \in Fds, OtherCloses(f)
        PROVE  LinkInv'
    <3>1. table' = [table EXCEPT ![f] = "free"] /\ f \in others /\ others' = others \ {f}
      BY <2>9 DEF OtherCloses
    <3>2. \A h \in Fds : h # f => table'[h] = table[h]
      BY <3>1 DEF TypeOK
    <3>3. others \subseteq Fds /\ fd \in Fds \cup {NoFd}
      BY DEF TypeOK
    <3> QED
      BY <2>9, <3>1, <3>2, <3>3 DEF OtherCloses
  <2>10. CASE UNCHANGED vars
    BY <2>10 DEF vars
  <2> QED
    BY <2>2, <2>3, <2>4, <2>5, <2>6, <2>7, <2>8, <2>9, <2>10
       DEF Next, Transition, ControlLoop, Device
<1> QED
  BY <1>1, <1>2, TypeCorrect, PTL DEF Spec

\* For any set of descriptors, an interface that is up reads and writes its own
\* serial port, as long as it has not closed somebody else's file.
THEOREM LinkOurs == Spec => []LinkIsOurs
<1>1. LinkInv => LinkIsOurs
  BY DEF LinkInv
<1> QED
  BY <1>1, LinkInvHolds, PTL

-----------------------------------------------------------------------------

LEMMA PieceTimes ==
  ASSUME TypeOK
  PROVE  /\ now \in Int
         /\ \A i \in 1 .. Len(line) : line[i].at \in Int
         /\ \A i \in 1 .. Len(arrived) : arrived[i].at \in Int
         /\ \A s \in 1 .. Cap : buff[s] # Nul => buff[s].at \in Int
         /\ Len(enc) \in Nat /\ \A p \in 1 .. Len(enc) : enc[p].at \in Int
<1>1. Times \subseteq Int
  BY TimeAssumption DEF Times
<1>2. \A x \in Piece : x.at \in Int
  BY <1>1 DEF Piece
<1>3. /\ \A i \in 1 .. Len(line) : line[i] \in Piece
      /\ \A i \in 1 .. Len(arrived) : arrived[i] \in Piece
      /\ \A p \in 1 .. Len(enc) : enc[p] \in Piece
  BY ElementOfSeq DEF TypeOK
<1>4. \A s \in 1 .. Cap : buff[s] \in Piece \cup {Nul}
  BY DEF TypeOK
<1> QED
  BY <1>1, <1>2, <1>3, <1>4 DEF TypeOK

\* Losing what is on its way cannot disturb the order.
LEMMA StreamKept ==
  ASSUME StreamInv, UNCHANGED readVars, now' = now,
         arrived' = arrived \/ arrived' = <<>>, line' = line \/ line' = <<>>
  PROVE  StreamInv'
<1>1. Len(<<>>) = 0
  OBVIOUS
<1>2. /\ Ordered(arrived)' /\ Ordered(line)'
      /\ \A t : AllFrom(t, arrived) => AllFrom(t, arrived)'
      /\ \A t : AllFrom(t, line) => AllFrom(t, line)'
  BY <1>1 DEF StreamInv, Ordered, AllFrom
<1>3. \A t : Past(t) => Past(t)'
  BY <1>2 DEF Past
<1>4. /\ \A i \in 1 .. Len(line') : i \in 1 .. Len(line) /\ line'[i] = line[i]
      /\ \A i \in 1 .. Len(arrived') : i \in 1 .. Len(arrived) /\ arrived'[i] = arrived[i]
  BY <1>1
<1>5. /\ \A i \in 1 .. Len(line') : line'[i].at <= now'
      /\ \A i \in 1 .. Len(arrived') : arrived'[i].at <= now' /\ AllFrom(arrived[i].at, line)'
  BY <1>2, <1>4 DEF StreamInv
<1> QED
  BY <1>2, <1>3, <1>4, <1>5 DEF StreamInv, readVars

LEMMA StreamAnswered ==
  ASSUME TypeOK, StreamInv, Answer
  PROVE  StreamInv'
<1>1. line' = line \o Reply /\ UNCHANGED <<arrived, buff, enc, now>>
  BY DEF Answer, readVars
<1>2. line \in Seq(Piece) /\ Len(line) \in Nat /\ Len(Reply) \in Nat
  BY ReplyFacts DEF TypeOK
<1>3. /\ Len(line') = Len(line) + Len(Reply)
      /\ \A i \in 1 .. Len(line') :
            line'[i] = IF i <= Len(line) THEN line[i] ELSE Reply[i - Len(line)]
  <2>1. Reply \in Seq(Piece)
    BY ReplyFacts
  <2>2. /\ Len(line \o Reply) = Len(line) + Len(Reply)
        /\ \A i \in 1 .. Len(line) + Len(Reply) :
              (line \o Reply)[i] = IF i <= Len(line) THEN line[i] ELSE Reply[i - Len(line)]
    BY <1>2, <2>1, ConcatProperties
  <2> QED
    BY <1>1, <2>1, <2>2
<1>4. \A i \in 1 .. Len(line') :
         IF i <= Len(line) THEN i \in 1 .. Len(line) /\ line'[i] = line[i]
                           ELSE line'[i].at = now
  BY <1>2, <1>3, ReplyFacts
<1>5. \A t : AllFrom(t, line) /\ t <= now => AllFrom(t, line')
  BY <1>4 DEF AllFrom
<1>6. /\ Ordered(line')
      /\ \A i \in 1 .. Len(line') : line'[i].at <= now
  <2>1. \A i \in 1 .. Len(line') : line'[i].at <= now
    BY <1>4, PieceTimes DEF StreamInv
  <2>2. ASSUME NEW i \in 1 .. Len(line'), NEW j \in 1 .. Len(line'), i <= j
        PROVE  line'[i].at <= line'[j].at
    <3>1. CASE j <= Len(line)
      BY <1>2, <1>3, <1>4, <2>2, <3>1 DEF StreamInv, Ordered
    <3>2. CASE ~(j <= Len(line))
      BY <1>4, <2>1, <2>2, <3>2
    <3> QED
      BY <3>1, <3>2
  <2> QED
    BY <2>1, <2>2 DEF Ordered
<1>7. \A i \in 1 .. Len(arrived) : AllFrom(arrived[i].at, line')
  BY <1>5 DEF StreamInv
<1>8. \A t : Past(t) => Past(t)'
  BY <1>1, <1>5 DEF Past
<1> QED
  BY <1>1, <1>6, <1>7, <1>8 DEF StreamInv

LEMMA StreamReceived ==
  ASSUME TypeOK, StreamInv, Receive, PortOpen
  PROVE  StreamInv'
<1>1. /\ line # <<>> /\ line' = Tail(line) /\ arrived' = Append(arrived, Head(line))
      /\ UNCHANGED <<buff, enc, now>>
  BY DEF Receive, readVars
<1>2. /\ Len(line) \in Nat /\ Len(line) >= 1 /\ Head(line) = line[1]
      /\ Len(line') = Len(line) - 1
      /\ \A i \in 1 .. Len(line') : i + 1 \in 1 .. Len(line) /\ line'[i] = line[i + 1]
  BY <1>1 DEF TypeOK
<1>3. /\ Len(arrived) \in Nat /\ Len(arrived') = Len(arrived) + 1
      /\ \A i \in 1 .. Len(arrived') :
            IF i <= Len(arrived) THEN i \in 1 .. Len(arrived) /\ arrived'[i] = arrived[i]
                                 ELSE i = Len(arrived) + 1 /\ arrived'[i] = line[1]
  BY <1>1, <1>2 DEF TypeOK
<1>4. 1 \in 1 .. Len(line)
  BY <1>2
<1>5. \A t : AllFrom(t, arrived) /\ AllFrom(t, line) => AllFrom(t, arrived') /\ AllFrom(t, line')
  BY <1>2, <1>3, <1>4 DEF AllFrom
<1>6. Ordered(line') /\ AllFrom(line[1].at, line')
  <2>1. \A i \in 1 .. Len(line), j \in 1 .. Len(line) : i <= j => line[i].at <= line[j].at
    BY DEF StreamInv, Ordered
  <2>2. ASSUME NEW i \in 1 .. Len(line'), NEW j \in 1 .. Len(line'), i <= j
        PROVE  line'[i].at <= line'[j].at
    <3>1. i + 1 \in 1 .. Len(line) /\ j + 1 \in 1 .. Len(line) /\ i + 1 <= j + 1
      BY <1>2, <2>2
    <3> QED
      BY <1>2, <2>1, <3>1
  <2>3. ASSUME NEW i \in 1 .. Len(line')
        PROVE  line[1].at <= line'[i].at
    <3>1. i + 1 \in 1 .. Len(line) /\ 1 <= i + 1
      BY <1>2
    <3> QED
      BY <1>2, <1>4, <2>1, <3>1
  <2> QED
    BY <2>2, <2>3 DEF Ordered, AllFrom
<1>7. Ordered(arrived')
  BY <1>3, <1>4, PieceTimes DEF StreamInv, Ordered, AllFrom
<1>8. /\ \A i \in 1 .. Len(line') : line'[i].at <= now
      /\ \A i \in 1 .. Len(arrived') : arrived'[i].at <= now
  BY <1>2, <1>3, <1>4 DEF StreamInv
<1>9. \A i \in 1 .. Len(arrived') : AllFrom(arrived'[i].at, line')
  BY <1>2, <1>3, <1>6 DEF StreamInv, AllFrom
<1>10. \A t : Past(t) => Past(t)'
  BY <1>1, <1>5 DEF Past
<1> QED
  BY <1>1, <1>6, <1>7, <1>8, <1>9, <1>10 DEF StreamInv

\* What is exported from a buffer whose pieces are no older than those exported
\* before, and which holds something in their places, is at least as long.
LEMMA ExportGrows ==
  ASSUME TypeOK, buff' \in [1 .. Cap -> Piece \cup {Nul}],
         NEW k \in 0 .. (Cap - 1), Parses(buff', k), Len(enc') = k,
         \A s \in 1 .. k : s \in 1 .. Cap /\ buff'[s] # Nul /\ enc'[s] = buff'[s],
         \A s \in 1 .. Cap : buff'[s] # Nul => Past(buff[s].at)',
         \A p \in 1 .. Len(enc) : p \in 1 .. Cap /\ buff'[p] # Nul /\ enc[p].at <= buff'[p].at
  PROVE  Grows /\ \A p \in 1 .. Len(enc') : /\ p \in 1 .. Cap /\ buff'[p] # Nul
                                            /\ Past(enc[p].at)' /\ enc'[p].at <= buff'[p].at
<1>1. k \in Nat /\ Cap \in Nat /\ k + 1 \in 1 .. Cap /\ Len(enc) \in Nat
  BY SizeAssumption, PieceTimes
<1>2. buff'[k + 1] = Nul
  BY DEF Parses
<1>3. Len(enc) <= k
  <2> SUFFICES ASSUME ~(Len(enc) <= k) PROVE FALSE
    OBVIOUS
  <2>1. k + 1 \in 1 .. Len(enc)
    BY <1>1
  <2> QED
    BY <1>2, <2>1
<1>4. \A s \in 1 .. k : buff'[s].at \in Int
  <2>1. \A s \in 1 .. k : buff'[s] \in Piece
    OBVIOUS
  <2> QED
    BY <2>1, TimeAssumption DEF Piece, Times
<1>5. \A p \in 1 .. Len(enc) : p \in 1 .. k /\ enc[p].at \in Int
  BY <1>1, <1>3, PieceTimes
<1>6. Grows
  BY <1>1, <1>3, <1>4, <1>5 DEF Grows
<1>7. ASSUME NEW p \in 1 .. Len(enc')
      PROVE  /\ p \in 1 .. Cap /\ buff'[p] # Nul
             /\ Past(enc[p].at)' /\ enc'[p].at <= buff'[p].at
  <2>1. p \in 1 .. k /\ enc'[p] = buff'[p] /\ buff'[p] # Nul /\ p \in 1 .. Cap
    OBVIOUS
  <2>2. Past(buff[p].at)'
    BY <2>1
  <2> QED
    BY <1>4, <2>1, <2>2 DEF Past, AllFrom
<1> QED
  BY <1>6, <1>7

LEMMA StreamRead ==
  ASSUME TypeOK, StreamInv, NEW n \in 0 .. Cap, n <= Len(arrived),
         buff' = Filled(n), Export(buff'),
         arrived' = SubSeq(arrived, n + 1, Len(arrived)), UNCHANGED <<line, now>>
  PROVE  StreamInv' /\ Grows
<1>1. n \in Nat /\ Len(arrived) \in Nat /\ Cap \in Nat
  BY SizeAssumption DEF TypeOK
<1>2. /\ Len(arrived') = Len(arrived) - n
      /\ \A i \in 1 .. Len(arrived') : i + n \in 1 .. Len(arrived) /\ arrived'[i] = arrived[i + n]
  <2>1. n + 1 \in 1 .. Len(arrived) + 1
    BY <1>1
  <2>2. /\ Len(arrived') = IF n + 1 <= Len(arrived) THEN Len(arrived) - (n + 1) + 1 ELSE 0
        /\ \A i \in 1 .. Len(arrived) - (n + 1) + 1 : arrived'[i] = arrived[(n + 1) + i - 1]
    BY <2>1, SubSeqProperties DEF TypeOK
  <2>3. Len(arrived') = Len(arrived) - n
    BY <1>1, <2>2
  <2>4. ASSUME NEW i \in 1 .. Len(arrived')
        PROVE  i + n \in 1 .. Len(arrived) /\ arrived'[i] = arrived[i + n]
    <3>1. i \in 1 .. Len(arrived) - (n + 1) + 1 /\ (n + 1) + i - 1 = i + n
      BY <1>1, <2>3
    <3> QED
      BY <1>1, <2>2, <2>3, <3>1
  <2> QED
    BY <2>3, <2>4
<1>3. \A t : AllFrom(t, arrived) => AllFrom(t, arrived')
  BY <1>2 DEF AllFrom
<1>4. \A t : Past(t) => Past(t)'
  BY <1>3 DEF Past
<1>5. \A i \in 1 .. Len(arrived), j \in 1 .. Len(arrived) : i <= j => arrived[i].at <= arrived[j].at
  BY DEF StreamInv, Ordered
<1>6. Ordered(arrived')
  <2>1. ASSUME NEW i \in 1 .. Len(arrived'), NEW j \in 1 .. Len(arrived'), i <= j
        PROVE  arrived'[i].at <= arrived'[j].at
    <3>1. i + n \in 1 .. Len(arrived) /\ j + n \in 1 .. Len(arrived) /\ i + n <= j + n
      BY <1>1, <1>2, <2>1
    <3> QED
      BY <1>2, <1>5, <3>1
  <2> QED
    BY <2>1 DEF Ordered
<1>7. \A s \in 1 .. Cap : /\ s <= n => s \in 1 .. Len(arrived) /\ buff'[s] = arrived[s]
                          /\ ~(s <= n) => buff'[s] = buff[s]
  BY <1>1 DEF Filled
<1>8. ASSUME NEW s \in 1 .. Cap, buff'[s] # Nul
      PROVE  Past(buff[s].at)'
  <2>1. CASE s <= n
    <3>1. s \in 1 .. Len(arrived) /\ buff'[s] = arrived[s]
      BY <1>7, <2>1
    <3>2. ASSUME NEW i \in 1 .. Len(arrived')
          PROVE  arrived[s].at <= arrived'[i].at
      <4>1. i + n \in 1 .. Len(arrived) /\ s <= i + n
        BY <1>1, <1>2, <2>1
      <4> QED
        BY <1>2, <1>5, <3>1, <4>1
    <3>3. arrived[s].at <= now /\ AllFrom(arrived[s].at, line)
      BY <3>1 DEF StreamInv
    <3> QED
      BY <3>1, <3>2, <3>3 DEF Past, AllFrom
  <2>2. CASE ~(s <= n)
    BY <1>4, <1>7, <1>8, <2>2 DEF StreamInv
  <2> QED
    BY <2>1, <2>2
<1>9. ASSUME NEW p \in 1 .. Len(enc)
      PROVE  p \in 1 .. Cap /\ buff'[p] # Nul /\ enc[p].at <= buff'[p].at
  <2>1. p \in 1 .. Cap /\ buff[p] # Nul
    BY DEF StreamInv
  <2>2. CASE p <= n
    <3>1. p \in 1 .. Len(arrived) /\ buff'[p] = arrived[p] /\ arrived[p] \in Piece
      BY <1>7, <2>1, <2>2, ElementOfSeq DEF TypeOK
    <3> QED
      BY <2>1, <3>1, NulAssumption DEF StreamInv, Past, AllFrom
  <2>3. CASE ~(p <= n)
    BY <1>7, <2>1, <2>3 DEF StreamInv
  <2> QED
    BY <2>1, <2>2, <2>3
<1>10. Grows /\ \A p \in 1 .. Len(enc') : /\ p \in 1 .. Cap /\ buff'[p] # Nul
                                          /\ Past(enc[p].at)' /\ enc'[p].at <= buff'[p].at
  <2>1. buff' \in [1 .. Cap -> Piece \cup {Nul}]
    BY FilledFacts
  <2>2. CASE UNCHANGED enc
    <3>1. Grows
      BY <2>2, PieceTimes DEF Grows
    <3>2. \A p \in 1 .. Len(enc) : Past(enc[p].at)'
      BY <1>4, <2>2 DEF StreamInv
    <3> QED
      BY <1>9, <2>2, <3>1, <3>2
  <2>3. CASE ~UNCHANGED enc
    BY <1>8, <1>9, <2>1, <2>3, ExportFacts, ExportGrows
  <2> QED
    BY <2>2, <2>3
<1>11. \A i \in 1 .. Len(arrived') : arrived'[i].at <= now /\ AllFrom(arrived'[i].at, line)
  BY <1>2 DEF StreamInv
<1> QED
  BY <1>6, <1>8, <1>10, <1>11 DEF StreamInv

\* The old text parsed once more exports nothing older.
LEMMA StreamParsedAgain ==
  ASSUME TypeOK, StreamInv, Export(buff), UNCHANGED <<buff, line, arrived, now>>
  PROVE  StreamInv' /\ Grows
<1>1. CASE UNCHANGED enc
  <2>1. UNCHANGED readVars
    BY <1>1 DEF readVars
  <2>2. StreamInv'
    BY <2>1, StreamKept
  <2> QED
    BY <1>1, <2>2, PieceTimes DEF Grows
<1>2. CASE ~UNCHANGED enc
  <2>1. buff \in [1 .. Cap -> Piece \cup {Nul}] /\ buff' = buff
    BY DEF TypeOK
  <2>2. \A t : Past(t) => Past(t)'
    BY DEF Past
  <2>3. \A s \in 1 .. Cap : buff'[s] # Nul => Past(buff[s].at)'
    BY <2>1, <2>2 DEF StreamInv
  <2>4. \A p \in 1 .. Len(enc) : p \in 1 .. Cap /\ buff'[p] # Nul /\ enc[p].at <= buff'[p].at
    BY <2>1 DEF StreamInv
  <2>5. Grows /\ \A p \in 1 .. Len(enc') : /\ p \in 1 .. Cap /\ buff'[p] # Nul
                                           /\ Past(enc[p].at)' /\ enc'[p].at <= buff'[p].at
    BY <1>2, <2>1, <2>3, <2>4, ExportFacts, ExportGrows
  <2> QED
    BY <2>1, <2>3, <2>5 DEF StreamInv
<1> QED
  BY <1>1, <1>2

LEMMA StreamStep ==
  ASSUME TypeOK, StreamInv, [Next]_vars
  PROVE  StreamInv' /\ Grows
<1>0. ASSUME UNCHANGED readVars
      PROVE  Grows
  BY <1>0, PieceTimes DEF readVars, Grows
<1>1. ASSUME UNCHANGED readVars, now' = now,
             arrived' = arrived \/ arrived' = <<>>, line' = line \/ line' = <<>>
      PROVE  StreamInv' /\ Grows
  BY <1>0, <1>1, StreamKept
<1>2. CASE Configure \/ Cleanup
  BY <1>1, <1>2 DEF Configure, Cleanup, OpenSucceeds, OpenFails, deviceVars
<1>3. CASE Activate \/ Deactivate \/ ReadRequest \/ Write \/ NotConnected \/ PassOver
  BY <1>1, <1>3 DEF Activate, Deactivate, ReadRequest, Write, NotConnected, PassOver, deviceVars
<1>4. CASE \E c \in {"zero", "move"} : Update(c)
  BY <1>1, <1>4 DEF Update, deviceVars
<1>5. CASE Obey \/ PowerFails \/ LostMessage \/ PowerReturns
  BY <1>1, <1>5 DEF Obey, PowerFails, LostMessage, PowerReturns, deviceVars
<1>6. CASE \E f \in Fds : OtherOpens(f) \/ OtherCloses(f)
  BY <1>1, <1>6 DEF OtherOpens, OtherCloses, deviceVars
<1>7. CASE ReadReply
  <2> DEFINE n == IF Len(arrived) < Cap THEN Len(arrived) ELSE Cap
  <2>1. n \in 0 .. Cap /\ n <= Len(arrived)
    BY SizeAssumption DEF TypeOK
  <2>2. /\ buff' = Filled(n) /\ Export(buff')
        /\ arrived' = SubSeq(arrived, n + 1, Len(arrived)) /\ UNCHANGED <<line, now>>
    BY <1>7 DEF ReadReply, deviceVars
  <2> HIDE DEF n
  <2> QED
    BY <2>1, <2>2, StreamRead
<1>8. CASE ReadElsewhere
  BY <1>8, StreamParsedAgain DEF ReadElsewhere, deviceVars
<1>9. CASE Answer
  BY <1>0, <1>9, StreamAnswered DEF Answer
<1>10. CASE Receive
  <2>1. CASE PortOpen
    BY <1>0, <1>10, <2>1, StreamReceived DEF Receive
  <2>2. CASE ~PortOpen
    <3>1. /\ line # <<>> /\ line' = Tail(line) /\ arrived' = <<>>
          /\ UNCHANGED <<buff, enc, now>>
      BY <1>10, <2>2 DEF Receive, readVars
    <3>2. /\ Len(line) \in Nat /\ Len(arrived') = 0
          /\ \A i \in 1 .. Len(line') : i + 1 \in 1 .. Len(line) /\ line'[i] = line[i + 1]
      BY <3>1 DEF TypeOK
    <3>3. \A t : AllFrom(t, line) => AllFrom(t, line')
      BY <3>2 DEF AllFrom
    <3>4. Ordered(line')
      <4>1. \A i \in 1 .. Len(line), j \in 1 .. Len(line) : i <= j => line[i].at <= line[j].at
        BY DEF StreamInv, Ordered
      <4>2. ASSUME NEW i \in 1 .. Len(line'), NEW j \in 1 .. Len(line'), i <= j
            PROVE  line'[i].at <= line'[j].at
        <5>1. i + 1 \in 1 .. Len(line) /\ j + 1 \in 1 .. Len(line) /\ i + 1 <= j + 1
          BY <4>2, <3>2
        <5> QED
          BY <3>2, <4>1, <5>1
      <4> QED
        BY <4>2 DEF Ordered
    <3>5. Ordered(arrived') /\ \A t : AllFrom(t, arrived')
      BY <3>2 DEF Ordered, AllFrom
    <3>6. \A t : Past(t) => Past(t)'
      BY <3>1, <3>3, <3>5 DEF Past
    <3>7. \A i \in 1 .. Len(line') : line'[i].at <= now
      BY <3>2 DEF StreamInv
    <3>8. StreamInv'
      BY <3>1, <3>2, <3>4, <3>5, <3>6, <3>7 DEF StreamInv
    <3> QED
      BY <1>0, <3>1, <3>8 DEF readVars
  <2> QED
    BY <2>1, <2>2
<1>11. CASE TimePasses
  <2>1. now' = now + 1 /\ UNCHANGED <<line, arrived, buff, enc>>
    BY <1>11 DEF TimePasses, readVars
  <2>2. ASSUME NEW p \in 1 .. Len(enc)
        PROVE  Past(enc[p].at)'
    <3>1. Past(enc[p].at) /\ enc[p].at \in Int /\ now \in Int
      BY PieceTimes DEF StreamInv
    <3> QED
      BY <2>1, <3>1 DEF Past, AllFrom
  <2>3. \A s \in 1 .. Cap : buff[s] # Nul => Past(buff[s].at)'
    BY <2>1, PieceTimes DEF StreamInv, Past
  <2>4. /\ \A i \in 1 .. Len(line) : line[i].at <= now'
        /\ \A i \in 1 .. Len(arrived) : arrived[i].at <= now'
    <3>1. /\ \A i \in 1 .. Len(line) : line[i].at <= now
          /\ \A i \in 1 .. Len(arrived) : arrived[i].at <= now
      BY DEF StreamInv
    <3>2. /\ now \in Int
          /\ \A i \in 1 .. Len(line) : line[i].at \in Int
          /\ \A i \in 1 .. Len(arrived) : arrived[i].at \in Int
      BY PieceTimes
    <3> QED
      BY <2>1, <3>1, <3>2
  <2>5. StreamInv'
    BY <2>1, <2>2, <2>3, <2>4 DEF StreamInv
  <2> QED
    BY <1>0, <2>1, <2>5 DEF readVars
<1>12. CASE UNCHANGED vars
  BY <1>1, <1>12 DEF vars, readVars
<1> QED
  BY <1>2, <1>3, <1>4, <1>5, <1>6, <1>7, <1>8, <1>9, <1>10, <1>11, <1>12
     DEF Next, Transition, ControlLoop, Device

LEMMA StreamHolds == Spec => []StreamInv
<1>1. Init => StreamInv
  <2> SUFFICES ASSUME Init PROVE StreamInv
    OBVIOUS
  <2>1. Len(line) = 0 /\ Len(arrived) = 0 /\ now = 0
    BY DEF Init
  <2>2. Past(0)
    BY <2>1 DEF Past, AllFrom
  <2>3. \A s \in 1 .. Cap : buff[s] = Nul
    BY DEF Init
  <2>4. Len(enc) = 0
    BY DEF Init
  <2> QED
    BY <2>1, <2>2, <2>3, <2>4 DEF StreamInv, Ordered
<1>2. TypeOK /\ StreamInv /\ [Next]_vars => StreamInv'
  BY StreamStep
<1> QED
  BY <1>1, <1>2, TypeCorrect, PTL DEF Spec

\* For replies of any lengths, torn and mixed in any way, and any buffer that holds
\* more than one, no piece of an exported text is ever replaced by an older one or taken
\* back.
THEOREM TextNeverAges == Spec => NothingOlder
<1>1. TypeOK /\ StreamInv /\ [Next]_vars => [Grows]_vars
  BY StreamStep
<1>2. TypeOK /\ StreamInv /\ [Next]_vars
        => [Len(enc') >= Len(enc) /\ \A p \in 1 .. Len(enc) : enc'[p].at >= enc[p].at]_vars
  BY <1>1 DEF Grows
<1> QED
  BY <1>2, StreamHolds, TypeCorrect, PTL DEF Spec, NothingOlder

-----------------------------------------------------------------------------

\* What the kernel holds and then what is on the line, as one sequence.
ComingLen == Len(arrived) + Len(line)
Coming(i) == IF i <= Len(arrived) THEN arrived[i] ELSE line[i - Len(arrived)]

\* Pieces with no start of a reply after the first of them are of one sample, so
\* losses only ever cut replies at their ends.
Unbroken ==
    \A i \in 1 .. ComingLen, j \in 1 .. ComingLen :
        i < j /\ (\A k \in i + 1 .. j : Coming(k).sym \notin Opens)
            => Coming(i).at >= Coming(j).at

\* In the buffer such pieces may be of several samples, later ones first: what
\* read() overwrites is a prefix.
BufferUnbroken ==
    \A r \in 1 .. Cap, s \in 1 .. Cap :
        r < s /\ buff[r] # Nul /\ (\A k \in r + 1 .. s : buff[k] # Nul /\ buff[k].sym \notin Opens)
            => buff[r].at >= buff[s].at

MixInv == Unbroken /\ BufferUnbroken /\ NewestFirst

LEMMA ComingFacts ==
  ASSUME TypeOK
  PROVE  /\ Len(arrived) \in Nat /\ Len(line) \in Nat /\ ComingLen \in Nat
         /\ \A i \in 1 .. ComingLen : Coming(i).at \in Int
<1>1. Len(arrived) \in Nat /\ Len(line) \in Nat /\ ComingLen \in Nat
  BY DEF TypeOK, ComingLen
<1>2. ASSUME NEW i \in 1 .. ComingLen
      PROVE  Coming(i).at \in Int
  <2>1. CASE i <= Len(arrived)
    BY <1>1, <2>1, PieceTimes DEF Coming
  <2>2. CASE ~(i <= Len(arrived))
    BY <1>1, <2>2, PieceTimes DEF Coming, ComingLen
  <2> QED
    BY <2>1, <2>2
<1> QED
  BY <1>1, <1>2

\* Whatever is lost at either end, what is left has no gap.
LEMMA PartUnbroken ==
  ASSUME Unbroken, ComingLen \in Nat, ComingLen' \in Nat, NEW d \in Nat,
         \A i \in 1 .. ComingLen' : i + d \in 1 .. ComingLen /\ Coming(i)' = Coming(i + d)
  PROVE  Unbroken'
<1> SUFFICES ASSUME NEW i \in 1 .. ComingLen', NEW j \in 1 .. ComingLen', i < j,
                    \A k \in i + 1 .. j : Coming(k)'.sym \notin Opens
             PROVE  Coming(i)'.at >= Coming(j)'.at
  BY DEF Unbroken
<1>1. ASSUME NEW k \in i + d + 1 .. j + d
      PROVE  Coming(k).sym \notin Opens
  <2>1. k - d \in i + 1 .. j /\ k - d \in 1 .. ComingLen' /\ (k - d) + d = k
    OBVIOUS
  <2>2. Coming(k - d)' = Coming((k - d) + d)
    BY <2>1
  <2> QED
    BY <2>1, <2>2
<1>2. i + d \in 1 .. ComingLen /\ j + d \in 1 .. ComingLen /\ i + d < j + d
  OBVIOUS
<1>3. Coming(i + d).at >= Coming(j + d).at
  BY <1>1, <1>2 DEF Unbroken
<1> QED
  BY <1>3

\* Losing all that has arrived, or all that is on the line.
LEMMA LossUnbroken ==
  ASSUME TypeOK, TypeOK', Unbroken,
         arrived' = arrived \/ arrived' = <<>>, line' = line \/ line' = <<>>
  PROVE  Unbroken'
<1>1. /\ Len(arrived) \in Nat /\ Len(line) \in Nat
      /\ Len(arrived') \in Nat /\ Len(line') \in Nat /\ ComingLen' \in Nat /\ ComingLen \in Nat
  BY DEF TypeOK, ComingLen
<1>2. Len(<<>>) = 0
  OBVIOUS
<1>3. CASE arrived' = arrived
  <2>1. \A i \in 1 .. ComingLen' : i + 0 \in 1 .. ComingLen /\ Coming(i)' = Coming(i + 0)
    BY <1>1, <1>2, <1>3 DEF ComingLen, Coming
  <2> QED
    BY <1>1, <2>1, PartUnbroken
<1>4. CASE arrived' = <<>>
  <2>1. \A i \in 1 .. ComingLen' :
           i + Len(arrived) \in 1 .. ComingLen /\ Coming(i)' = Coming(i + Len(arrived))
    BY <1>1, <1>2, <1>4 DEF ComingLen, Coming
  <2> QED
    BY <1>1, <2>1, PartUnbroken
<1> QED
  BY <1>3, <1>4

LEMMA AnswerUnbroken ==
  ASSUME TypeOK, Unbroken, Answer
  PROVE  Unbroken'
<1>1. line' = line \o Reply /\ arrived' = arrived
  BY DEF Answer
<1>2. /\ Len(arrived) \in Nat /\ Len(line) \in Nat /\ ComingLen \in Nat /\ now \in Int
      /\ Len(Reply) \in Nat /\ Len(Reply) >= 1
  BY ComingFacts, PieceTimes, ReplyFacts
<1>3. /\ Len(line') = Len(line) + Len(Reply)
      /\ \A i \in 1 .. Len(line') :
            line'[i] = IF i <= Len(line) THEN line[i] ELSE Reply[i - Len(line)]
  <2>1. Reply \in Seq(Piece)
    BY ReplyFacts
  <2> QED
    BY <1>1, <2>1, ConcatProperties DEF TypeOK
<1>4. ComingLen' = ComingLen + Len(Reply)
  BY <1>1, <1>2, <1>3 DEF ComingLen
<1>5. \A i \in 1 .. ComingLen' :
         Coming(i)' = IF i <= ComingLen THEN Coming(i) ELSE Reply[i - ComingLen]
  BY <1>1, <1>2, <1>3, <1>4 DEF ComingLen, Coming
<1>6. /\ \A p \in 1 .. Len(Reply) : Reply[p].at = now
      /\ Reply[1].sym \in Opens
  BY ReplyFacts
<1> SUFFICES ASSUME NEW i \in 1 .. ComingLen', NEW j \in 1 .. ComingLen', i < j,
                    \A k \in i + 1 .. j : Coming(k)'.sym \notin Opens
             PROVE  Coming(i)'.at >= Coming(j)'.at
  BY DEF Unbroken
<1>7. CASE j <= ComingLen
  <2>1. \A k \in i + 1 .. j : Coming(k).sym \notin Opens
    BY <1>2, <1>4, <1>5, <1>7
  <2>2. i \in 1 .. ComingLen /\ j \in 1 .. ComingLen
    BY <1>2, <1>4, <1>7
  <2>3. Coming(i).at >= Coming(j).at
    BY <2>1, <2>2 DEF Unbroken
  <2> QED
    BY <1>5, <1>7, <2>2, <2>3
\* A new reply begins with its first piece.
<1>8. CASE i <= ComingLen /\ j > ComingLen
  <2>1. PICK k \in i + 1 .. j : k = ComingLen + 1 /\ k \in 1 .. ComingLen'
    BY <1>2, <1>4, <1>8
  <2>2. ~(k <= ComingLen) /\ k - ComingLen = 1
    BY <1>2, <2>1
  <2>3. Coming(k)' = Reply[1]
    BY <1>5, <2>1, <2>2
  <2> QED
    BY <1>6, <2>3
<1>9. CASE i > ComingLen
  <2>1. i - ComingLen \in 1 .. Len(Reply) /\ j - ComingLen \in 1 .. Len(Reply)
    BY <1>2, <1>4, <1>9
  <2>2. Coming(i)'.at = now /\ Coming(j)'.at = now
    BY <1>2, <1>4, <1>5, <1>6, <1>9, <2>1
  <2> QED
    BY <1>2, <2>2
<1> QED
  BY <1>2, <1>4, <1>7, <1>8, <1>9

LEMMA ReceiveUnbroken ==
  ASSUME TypeOK, TypeOK', Unbroken, Receive
  PROVE  Unbroken'
<1>1. /\ Len(arrived) \in Nat /\ Len(line) \in Nat /\ ComingLen \in Nat
      /\ Len(arrived') \in Nat /\ Len(line') \in Nat /\ ComingLen' \in Nat
  BY DEF TypeOK, ComingLen
<1>2. /\ Len(line) >= 1 /\ Head(line) = line[1] /\ Len(line') = Len(line) - 1
      /\ \A i \in 1 .. Len(line') : line'[i] = line[i + 1]
  BY DEF Receive, TypeOK
<1>3. CASE PortOpen
  <2>1. /\ Len(arrived') = Len(arrived) + 1
        /\ \A i \in 1 .. Len(arrived') :
              arrived'[i] = IF i <= Len(arrived) THEN arrived[i] ELSE line[1]
    BY <1>2, <1>3 DEF Receive, TypeOK
  <2>2. ComingLen' = ComingLen
    BY <1>1, <1>2, <2>1 DEF ComingLen
  <2>3. ASSUME NEW i \in 1 .. ComingLen'
        PROVE  Coming(i)' = Coming(i + 0)
    <3>1. CASE i <= Len(arrived')
      BY <1>1, <2>1, <3>1 DEF Coming
    <3>2. CASE ~(i <= Len(arrived'))
      <4>1. i - Len(arrived') \in 1 .. Len(line') /\ (i - Len(arrived')) + 1 = i - Len(arrived)
        BY <1>1, <2>1, <3>2 DEF ComingLen
      <4>2. line'[i - Len(arrived')] = line[i - Len(arrived)]
        BY <1>2, <4>1
      <4> QED
        BY <1>1, <2>1, <3>2, <4>2 DEF Coming
    <3> QED
      BY <3>1, <3>2
  <2>4. \A i \in 1 .. ComingLen' : i + 0 \in 1 .. ComingLen
    BY <1>1, <2>2
  <2> QED
    BY <1>1, <2>3, <2>4, PartUnbroken
<1>4. CASE ~PortOpen
  <2>1. arrived' = <<>> /\ Len(arrived') = 0
    BY <1>4 DEF Receive
  <2>2. PICK d \in Nat : d = Len(arrived) + 1
    BY <1>1
  <2>3. ASSUME NEW i \in 1 .. ComingLen'
        PROVE  i + d \in 1 .. ComingLen /\ Coming(i)' = Coming(i + d)
    <3>1. /\ i \in 1 .. Len(line') /\ i - Len(arrived') = i
          /\ (i + d) - Len(arrived) = i + 1
          /\ ~(i <= Len(arrived')) /\ ~(i + d <= Len(arrived))
      BY <1>1, <2>1, <2>2 DEF ComingLen
    <3> QED
      BY <1>1, <1>2, <2>2, <3>1 DEF ComingLen, Coming
  <2> QED
    BY <1>1, <2>3, PartUnbroken
<1> QED
  BY <1>3, <1>4

-----------------------------------------------------------------------------

\* What the buffer exports is in order because the buffer is.
LEMMA ExportInOrder ==
  ASSUME TypeOK, TypeOK', BufferUnbroken', NewestFirst, Export(buff')
  PROVE  NewestFirst'
<1>1. CASE UNCHANGED enc
  BY <1>1 DEF NewestFirst
<1>2. CASE ~UNCHANGED enc
  <2>1. PICK k \in 0 .. (Cap - 1) :
           /\ Parses(buff', k) /\ Len(enc') = k
           /\ \A s \in 1 .. k : s \in 1 .. Cap /\ buff'[s] # Nul /\ enc'[s] = buff'[s]
    <3>1. buff' \in [1 .. Cap -> Piece \cup {Nul}]
      BY DEF TypeOK
    <3> QED
      BY <1>2, <3>1, ExportFacts
  <2>2. \A s \in 2 .. k : buff'[s].sym \notin Opens
    <3> DEFINE w == [s \in 1 .. k |-> buff'[s].sym]
    <3>1. w \in Whole
      BY <2>1 DEF Parses
    <3>2. k \in Nat /\ Len(w) = k
      <4>1. k \in Nat /\ w \in Seq(Symbols) /\ DOMAIN w = 1 .. k
        BY <3>1, SizeAssumption, TextAssumption
      <4> HIDE DEF w
      <4>2. Len(w) \in Nat /\ 1 .. Len(w) = 1 .. k
        BY <4>1, LenProperties
      <4> QED
        BY <4>1, <4>2
    <3> HIDE DEF w
    <3>3. \A s \in 2 .. k : w[s] \notin Opens
      BY <3>1, <3>2, TextAssumption
    <3>4. \A s \in 2 .. k : s \in 1 .. k
      BY <3>2
    <3>5. \A s \in 1 .. k : w[s] = buff'[s].sym
      BY DEF w
    <3> QED
      BY <3>3, <3>4, <3>5
  <2> SUFFICES ASSUME NEW p \in 1 .. k, NEW q \in 1 .. k, p < q
               PROVE  enc'[p].at >= enc'[q].at
    BY <2>1 DEF NewestFirst
  <2>3. \A r \in p + 1 .. q : r \in 2 .. k /\ r \in 1 .. k
    OBVIOUS
  <2>4. /\ p \in 1 .. Cap /\ q \in 1 .. Cap /\ buff'[p] # Nul
        /\ \A r \in p + 1 .. q : buff'[r] # Nul /\ buff'[r].sym \notin Opens
    BY <2>1, <2>2, <2>3
  <2>5. buff'[p].at >= buff'[q].at
    BY <2>4 DEF BufferUnbroken
  <2> QED
    BY <2>1, <2>5
<1> QED
  BY <1>1, <1>2

LEMMA ReadUnbroken ==
  ASSUME TypeOK, TypeOK', StreamInv, Unbroken, BufferUnbroken, NEW n \in 0 .. Cap,
         n <= Len(arrived), buff' = Filled(n), line' = line,
         arrived' = SubSeq(arrived, n + 1, Len(arrived))
  PROVE  Unbroken' /\ BufferUnbroken'
<1>1. /\ Len(arrived) \in Nat /\ Len(line) \in Nat /\ ComingLen \in Nat /\ ComingLen' \in Nat
      /\ n \in Nat /\ Cap \in Nat
  BY SizeAssumption DEF TypeOK, ComingLen
<1>2. /\ Len(arrived') = Len(arrived) - n
      /\ \A i \in 1 .. Len(arrived') : arrived'[i] = arrived[i + n]
  <2>1. n + 1 \in 1 .. Len(arrived) + 1
    BY <1>1
  <2>2. /\ Len(arrived') = IF n + 1 <= Len(arrived) THEN Len(arrived) - (n + 1) + 1 ELSE 0
        /\ \A i \in 1 .. Len(arrived) - (n + 1) + 1 : arrived'[i] = arrived[(n + 1) + i - 1]
    BY <2>1, SubSeqProperties DEF TypeOK
  <2>3. Len(arrived') = Len(arrived) - n
    BY <1>1, <2>2
  <2>4. ASSUME NEW i \in 1 .. Len(arrived')
        PROVE  arrived'[i] = arrived[i + n]
    <3>1. i \in 1 .. Len(arrived) - (n + 1) + 1 /\ (n + 1) + i - 1 = i + n
      BY <1>1, <2>3
    <3> QED
      BY <2>2, <3>1
  <2> QED
    BY <2>3, <2>4
<1>3. Unbroken'
  <2>1. \A i \in 1 .. ComingLen' : i + n \in 1 .. ComingLen
    BY <1>1, <1>2 DEF ComingLen
  <2>2. ASSUME NEW i \in 1 .. ComingLen'
        PROVE  Coming(i)' = Coming(i + n)
    <3>1. (i + n) - Len(arrived) = i - Len(arrived') /\ (i <= Len(arrived') <=> i + n <= Len(arrived))
      <4>1. i \in Int /\ n \in Int /\ Len(arrived) \in Int /\ Len(arrived') = Len(arrived) - n
        BY <1>1, <1>2
      <4> QED
        BY ONLY <4>1
    <3> QED
      BY <1>1, <1>2, <3>1 DEF Coming
  <2> QED
    BY <1>1, <2>1, <2>2, PartUnbroken
<1>4. \A s \in 1 .. Cap : buff'[s] = IF s <= n THEN arrived[s] ELSE buff[s]
  BY DEF Filled
<1>5. ASSUME NEW r \in 1 .. Cap, NEW s \in 1 .. Cap, r < s, buff'[r] # Nul,
             \A k \in r + 1 .. s : buff'[k] # Nul /\ buff'[k].sym \notin Opens
      PROVE  buff'[r].at >= buff'[s].at
  <2>1. CASE s <= n
    <3>1. \A k \in r .. s : /\ k \in 1 .. ComingLen /\ k <= Len(arrived)
                            /\ buff'[k] = Coming(k)
      BY <1>1, <1>4, <2>1 DEF Coming, ComingLen
    <3>2. \A k \in r + 1 .. s : Coming(k).sym \notin Opens
      BY <1>5, <3>1
    <3>3. Coming(r).at >= Coming(s).at
      BY <1>5, <3>1, <3>2 DEF Unbroken
    <3> QED
      BY <1>5, <3>1, <3>3
  \* The prefix just read is younger than what was in the buffer.
  <2>2. CASE r <= n /\ ~(s <= n)
    <3>1. buff'[r] = arrived[r] /\ r \in 1 .. Len(arrived)
      BY <1>1, <1>4, <2>2
    <3>2. buff'[s] = buff[s] /\ buff[s] # Nul
      BY <1>4, <1>5, <2>2
    <3>3. buff[s].at <= arrived[r].at
      BY <3>1, <3>2 DEF StreamInv, Past, AllFrom
    <3>4. buff[s].at \in Int /\ arrived[r].at \in Int
      BY <3>1, <3>2, PieceTimes
    <3> QED
      BY <3>1, <3>2, <3>3, <3>4
  <2>3. CASE ~(r <= n)
    <3>1. \A k \in r .. s : k \in 1 .. Cap /\ buff'[k] = buff[k]
      BY <1>1, <1>4, <2>3
    <3>2. buff[r] # Nul /\ \A k \in r + 1 .. s : buff[k] # Nul /\ buff[k].sym \notin Opens
      BY <1>5, <3>1
    <3>3. buff[r].at >= buff[s].at
      BY <1>5, <3>2 DEF BufferUnbroken
    <3> QED
      BY <1>5, <3>1, <3>3
  <2> QED
    BY <1>1, <2>1, <2>2, <2>3
<1>6. BufferUnbroken'
  BY <1>5 DEF BufferUnbroken
<1> QED
  BY <1>3, <1>6

LEMMA MixStep ==
  ASSUME TypeOK, TypeOK', StreamInv, MixInv, [Next]_vars
  PROVE  MixInv'
<1>1. ASSUME UNCHANGED readVars, arrived' = arrived \/ arrived' = <<>>,
             line' = line \/ line' = <<>>
      PROVE  MixInv'
  BY <1>1, LossUnbroken DEF MixInv, BufferUnbroken, NewestFirst, readVars
<1>2. CASE Configure \/ Cleanup
  BY <1>1, <1>2 DEF Configure, Cleanup, OpenSucceeds, OpenFails, deviceVars
<1>3. CASE Activate \/ Deactivate \/ ReadRequest \/ Write \/ NotConnected \/ PassOver
  BY <1>1, <1>3 DEF Activate, Deactivate, ReadRequest, Write, NotConnected, PassOver, deviceVars
<1>4. CASE (\E c \in {"zero", "move"} : Update(c)) \/ TimePasses
  BY <1>1, <1>4 DEF Update, TimePasses, deviceVars
<1>5. CASE Obey \/ PowerFails \/ LostMessage \/ PowerReturns
  BY <1>1, <1>5 DEF Obey, PowerFails, LostMessage, PowerReturns, deviceVars
<1>6. CASE \E f \in Fds : OtherOpens(f) \/ OtherCloses(f)
  BY <1>1, <1>6 DEF OtherOpens, OtherCloses, deviceVars
<1>7. CASE ReadReply
  <2> DEFINE n == IF Len(arrived) < Cap THEN Len(arrived) ELSE Cap
  <2>1. n \in 0 .. Cap /\ n <= Len(arrived)
    BY SizeAssumption DEF TypeOK
  <2>2. /\ buff' = Filled(n) /\ Export(buff')
        /\ arrived' = SubSeq(arrived, n + 1, Len(arrived)) /\ line' = line
    BY <1>7 DEF ReadReply, deviceVars
  <2> HIDE DEF n
  <2>3. Unbroken' /\ BufferUnbroken'
    BY <2>1, <2>2, ReadUnbroken DEF MixInv
  <2> QED
    BY <2>2, <2>3, ExportInOrder DEF MixInv
<1>8. CASE ReadElsewhere
  <2>1. Export(buff') /\ UNCHANGED <<buff, arrived, line>>
    BY <1>8 DEF ReadElsewhere, deviceVars
  <2>2. Unbroken' /\ BufferUnbroken'
    BY <2>1, LossUnbroken DEF MixInv, BufferUnbroken
  <2> QED
    BY <2>1, <2>2, ExportInOrder DEF MixInv
<1>9. CASE Answer
  BY <1>9, AnswerUnbroken DEF Answer, MixInv, BufferUnbroken, NewestFirst, readVars
<1>10. CASE Receive
  BY <1>10, ReceiveUnbroken DEF Receive, MixInv, BufferUnbroken, NewestFirst, readVars
<1>11. CASE UNCHANGED vars
  BY <1>1, <1>11 DEF vars, readVars
<1> QED
  BY <1>2, <1>3, <1>4, <1>5, <1>6, <1>7, <1>8, <1>9, <1>10, <1>11
     DEF Next, Transition, ControlLoop, Device

\* For replies of any lengths, torn anywhere, and any buffer that holds more than one,
\* an exported text never has an older piece before a newer one.
THEOREM MixedNewestFirst == Spec => []NewestFirst
<1>1. Init => MixInv
  <2> SUFFICES ASSUME Init PROVE MixInv
    OBVIOUS
  <2>1. ComingLen = 0 /\ \A s \in 1 .. Cap : buff[s] = Nul
    BY DEF Init, ComingLen
  <2>2. Len(enc) = 0
    BY DEF Init
  <2> QED
    BY <2>1, <2>2 DEF MixInv, Unbroken, BufferUnbroken, NewestFirst
<1>2. TypeOK /\ TypeOK' /\ StreamInv /\ MixInv /\ [Next]_vars => MixInv'
  BY MixStep
<1>3. MixInv => NewestFirst
  BY DEF MixInv
<1> QED
  BY <1>1, <1>2, <1>3, StreamHolds, TypeCorrect, PTL DEF Spec

-----------------------------------------------------------------------------

\* The request for a reply is under way, or what read() waits for is.
RequestSent == \E k \in 1 .. Len(toDevice) : toDevice[k].kind = "request"
Awaited == RequestSent \/ Len(arrived) + Len(line) >= Vmin

\* A loop that waits for a reply is that of an interface that is up and connected.
WaitInv ==
    loop = "blocked" => /\ Up /\ Connected
                        /\ powered /\ ~misclosed => Awaited

\* Taking a message that is no request off the queue leaves the requests in it.
LEMMA TailKeepsRequest ==
  ASSUME TypeOK, toDevice # <<>>, Head(toDevice).kind # "request", RequestSent,
         toDevice' = Tail(toDevice)
  PROVE  RequestSent'
<1>1. toDevice \in Seq(Messages) /\ Len(toDevice) \in Nat
  BY DEF TypeOK
<1>2. PICK k \in 1 .. Len(toDevice) : toDevice[k].kind = "request"
  BY DEF RequestSent
<1>3. k # 1
  BY <1>1, <1>2, HeadTailProperties
<1>4. Len(toDevice') = Len(toDevice) - 1 /\ \A j \in 1 .. Len(toDevice') : toDevice'[j] = toDevice[j + 1]
  BY <1>1, HeadTailProperties
<1>5. k - 1 \in 1 .. Len(toDevice') /\ (k - 1) + 1 = k
  BY <1>1, <1>2, <1>3, <1>4
<1>6. toDevice'[k - 1] = toDevice[k]
  BY <1>4, <1>5
<1> QED
  BY <1>2, <1>5, <1>6 DEF RequestSent

LEMMA NextWaitInv ==
  ASSUME TypeOK, LinkInv, WaitInv, powered, [Next]_vars
  PROVE  WaitInv'
<1>k. ASSUME loop' = loop, lifecycle' = lifecycle, fd' = fd, UNCHANGED <<powered, misclosed>>,
             loop = "blocked" /\ ~misclosed /\ Awaited => Awaited'
      PROVE  WaitInv'
  BY <1>k DEF WaitInv, Up, Connected
<1>n. loop' # "blocked" => WaitInv'
  BY DEF WaitInv
<1>p. loop = "blocked" /\ ~misclosed => PortIsOurs /\ fd \in Fds
  BY DEF WaitInv, LinkInv, LinkIsOurs, TypeOK, Connected
<1>1. CASE Transition
  BY <1>n, <1>1 DEF Transition, Configure, Cleanup, Activate, Deactivate
<1>2. CASE ReadRequest
  <2>1. /\ Up /\ Connected /\ Send([kind |-> "request"])
        /\ UNCHANGED <<lifecycle, fd, table, misclosed, powered>>
    BY <1>2 DEF ReadRequest, portVars, deviceVars
  <2>2. ~misclosed => RequestSent'
    <3> SUFFICES ASSUME ~misclosed PROVE RequestSent'
      OBVIOUS
    <3>1. toDevice' = Append(toDevice, [kind |-> "request"])
      BY <2>1 DEF Send, LinkInv, LinkIsOurs
    <3>2. /\ toDevice \in Seq(Messages) /\ [kind |-> "request"] \in Messages
      BY MessageFacts DEF TypeOK
    <3>3. /\ Len(toDevice') \in 1 .. Len(toDevice')
          /\ toDevice'[Len(toDevice')] = [kind |-> "request"]
      BY <3>1, <3>2, AppendProperties
    <3> QED
      BY <3>3 DEF RequestSent
  <2> QED
    BY <2>1, <2>2 DEF WaitInv, Up, Connected, Awaited
<1>3. CASE ReadReply \/ ReadElsewhere \/ Write \/ NotConnected \/ PassOver
           \/ \E c \in {"zero", "move"} : Update(c)
  BY <1>n, <1>3 DEF ReadReply, ReadElsewhere, Write, NotConnected, PassOver, Update, Following
<1>4. CASE Answer
  <2>1. line' = line \o Reply /\ UNCHANGED <<lifecycle, fd, misclosed, loop, powered, arrived>>
    BY <1>4 DEF Answer, portVars
  <2>2. Len(arrived') + Len(line') >= Vmin
    <3>1. /\ Len(line') = Len(line) + Len(Reply) /\ Len(line) \in Nat
          /\ Len(arrived') = Len(arrived) /\ Len(arrived) \in Nat
      BY <2>1, ReplyFacts, ConcatProperties DEF TypeOK
    <3>2. Len(Reply) \in Nat /\ Vmin \in Nat /\ Len(Reply) >= Vmin
      BY ReplyFacts
    <3> QED
      BY <3>1, <3>2
  <2> QED
    BY <1>k, <2>1, <2>2 DEF Awaited
<1>5. CASE Obey
  <2>1. /\ toDevice # <<>> /\ Head(toDevice).kind # "request" /\ toDevice' = Tail(toDevice)
        /\ UNCHANGED <<lifecycle, fd, misclosed, loop, powered, line, arrived>>
    BY <1>5 DEF Obey, portVars
  <2> QED
    BY <1>k, <2>1, TailKeepsRequest DEF Awaited
<1>6. CASE Receive
  <2>1. /\ arrived' = IF PortOpen THEN Append(arrived, Head(line)) ELSE <<>>
        /\ UNCHANGED <<lifecycle, fd, misclosed, loop, powered, toDevice>>
        /\ line # <<>> /\ line' = Tail(line)
    BY <1>6 DEF Receive, portVars
  <2>2. loop = "blocked" /\ ~misclosed => PortOpen
    BY <1>p DEF PortOpen, PortIsOurs
  <2>3. arrived \in Seq(Piece) /\ line \in Seq(Piece) /\ Head(line) \in Piece
    BY <2>1, HeadTailProperties DEF TypeOK
  <2>4. /\ Len(Append(arrived, Head(line))) = Len(arrived) + 1 /\ Len(arrived) \in Nat
        /\ Len(line') = Len(line) - 1 /\ Len(line) \in Nat
    BY <2>1, <2>3, AppendProperties, HeadTailProperties
  <2>5. PortOpen => Len(arrived') + Len(line') = Len(arrived) + Len(line)
    BY <2>1, <2>4
  <2> QED
    BY <1>k, <2>1, <2>2, <2>5 DEF Awaited, RequestSent
<1>7. CASE PowerFails
  <2>1. powered' = FALSE /\ UNCHANGED <<lifecycle, fd, loop>>
    BY <1>7 DEF PowerFails, portVars
  <2> QED
    BY <2>1 DEF WaitInv, Up, Connected
<1>8. CASE LostMessage \/ PowerReturns
  BY <1>8 DEF LostMessage, PowerReturns
<1>9. CASE TimePasses \/ (\E f \in Fds : OtherOpens(f)) \/ UNCHANGED vars
  <2>1. UNCHANGED <<lifecycle, fd, misclosed, loop, powered, toDevice, line, arrived>>
    BY <1>9 DEF TimePasses, OtherOpens, portVars, deviceVars, vars
  <2> QED
    BY <1>k, <2>1 DEF Awaited, RequestSent
<1>10. ASSUME NEW f \in Fds, OtherCloses(f)
       PROVE  WaitInv'
  <2>1. /\ UNCHANGED <<lifecycle, fd, misclosed, loop, powered, toDevice, line>>
        /\ f \in others /\ arrived' = IF table[f] = "serial" THEN <<>> ELSE arrived
    BY <1>10 DEF OtherCloses, deviceVars
  <2>2. ~misclosed => arrived' = arrived
    BY <2>1 DEF LinkInv
  <2> QED
    BY <1>k, <2>1, <2>2 DEF Awaited, RequestSent
<1> QED
  BY <1>1, <1>2, <1>3, <1>4, <1>5, <1>6, <1>7, <1>8, <1>9, <1>10 DEF Next, ControlLoop, Device

\* As long as the device stays up and nobody else's file has been closed, the control
\* loop never waits in vain: the blocking read() is called with a request under way, or
\* with as many pieces as it waits for on the line or in the kernel's buffer.
THEOREM NeverWaitsInVain ==
  Spec /\ [](powered /\ ~misclosed) => [](loop = "blocked" => Awaited)
<1>1. Init => WaitInv
  BY DEF Init, WaitInv
<1>2. TypeOK /\ LinkInv /\ WaitInv /\ powered /\ [Next]_vars => WaitInv'
  BY NextWaitInv
<1>3. WaitInv /\ powered /\ ~misclosed => (loop = "blocked" => Awaited)
  BY DEF WaitInv
<1> QED
  BY <1>1, <1>2, <1>3, TypeCorrect, LinkInvHolds, PTL DEF Spec

=============================================================================
