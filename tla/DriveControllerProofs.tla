----------------------- MODULE DriveControllerProofs -----------------------
(* Proofs, for every timeout, that references an activation finds in the    *)
(* buffer are never executed and that an activation which no write overlaps *)
(* finds a reference there.                                                 *)
EXTENDS DriveController, TLAPS

Types ==
    /\ lifecycle \in {"unconfigured", "inactive", "active"}
    /\ subscribed \in BOOLEAN /\ sender \in BOOLEAN /\ newData \in BOOLEAN
    /\ wire \in Packet \cup {None} /\ writing \in Reference \cup {None}
    /\ nonRT \in Reference \cup {None} /\ RT \in Reference \cup {None}
    /\ wheels \in {"nan", "zero", "move"} /\ replayed \in BOOLEAN
    /\ fault \in {"none", "race", "null"}

\* A configured controller has a reference in one of the two slots, an active
\* one in the slot it reads, and the new-data flag never announces nothing.
BufferFilled ==
    /\ newData => nonRT # None
    /\ lifecycle # "unconfigured" => newData \/ RT # None
    /\ lifecycle = "active" => RT # None

\* What an active controller reads now, or after the next swap, was not in the buffer
\* at the activation, unless a write in progress is about to replace it.
Current(r) == r # None => ~(r.cmd = "move" /\ r.received = "before")
BufferCurrent ==
    /\ writing # None => writing.received # "before"
    /\ lifecycle = "active" => Current(RT)
    /\ lifecycle = "active" /\ newData /\ writing = None => Current(nonRT)

IInv == Types /\ BufferFilled /\ BufferCurrent /\ StartsAtRest /\ ActivationIsDefined

-----------------------------------------------------------------------------

LEMMA OlderFacts ==
  ASSUME NEW r \in Reference
  PROVE  /\ Older(r) \in Reference
         /\ Older(r) # None
         /\ Older(r).cmd = r.cmd /\ Older(r).received = r.received
  BY TimeoutAssumption, NoneAssumption DEF Older, Reference, Ages

LEMMA OlderNone == Older(None) = None
  BY DEF Older

LEMMA OlderPacket ==
  ASSUME NEW p \in Packet \cup {None}
  PROVE  Older(p) \in Packet \cup {None}
<1>1. CASE p = None
  BY <1>1 DEF Older
<1>2. CASE p # None
  BY <1>2, TimeoutAssumption DEF Older, Packet, Ages
<1> QED
  BY <1>1, <1>2

LEMMA ReceivedFacts ==
  ASSUME NEW r \in Reference \cup {None}, NEW when \in {"before", "during", "after"}
  PROVE  /\ Received(r, when) \in Reference \cup {None}
         /\ Received(r, when) = None <=> r = None
         /\ r # None => Received(r, when).received = when
<1>1. CASE r = None
  BY <1>1 DEF Received
<1>2. CASE r # None
  BY <1>2, NoneAssumption DEF Received, Reference
<1> QED
  BY <1>1, <1>2

LEMMA ResetFacts == ResetRef \in Reference /\ ResetRef # None /\ ResetRef.cmd = "nan"
<1>1. ResetRef \in Reference
  BY TimeoutAssumption DEF ResetRef, Reference, Ages
<1>2. ResetRef # None
  BY <1>1, NoneAssumption
<1> QED
  BY <1>1, <1>2 DEF ResetRef

\* A read always leaves a reference in the slot read, if the buffer is filled.
LEMMA ReadFacts ==
  ASSUME Types, BufferFilled
  PROVE  /\ Read \in Reference \cup {None} /\ LeftOver \in Reference \cup {None}
         /\ ReadFlag \in BOOLEAN
         /\ ReadFlag => nonRT # None /\ LeftOver = nonRT /\ writing # None
         /\ lifecycle = "active" => Read # None
         /\ lifecycle = "inactive" /\ writing = None => Read # None
<1> USE DEF Types, BufferFilled, Read, LeftOver, ReadFlag
<1>1. CASE Swaps
  <2>1. writing = None /\ newData /\ nonRT # None
    BY <1>1 DEF Swaps
  <2>2. Read = nonRT /\ LeftOver = RT /\ ~ReadFlag
    BY <1>1
  <2>3. ReadFlag \in BOOLEAN
    BY <1>1
  <2> QED
    BY <2>1, <2>2, <2>3
<1>2. CASE ~Swaps
  <2>1. writing # None \/ ~newData
    BY <1>2 DEF Swaps
  <2>2. Read = RT /\ LeftOver = nonRT
    BY <1>2
  <2>3. ReadFlag \in BOOLEAN /\ (ReadFlag => newData)
    BY <1>2
  <2> QED
    BY <2>1, <2>2, <2>3
<1> QED
  BY <1>1, <1>2

LEMMA InitIInv == Init => IInv
  BY NoneAssumption
  DEF Init, IInv, Types, BufferFilled, BufferCurrent, Current, StartsAtRest, ActivationIsDefined

LEMMA ActivateIInv == ASSUME IInv, Activate PROVE IInv'
<1> USE DEF IInv
<1>1. /\ lifecycle = "inactive" /\ newData' = ReadFlag
      /\ nonRT' = Received(LeftOver, "before") /\ writing' = Received(writing, "during")
      /\ UNCHANGED <<subscribed, sender, wire, wheels, replayed>>
  BY DEF Activate
<1>4. /\ writing' \in Reference \cup {None} /\ (writing' = None <=> writing = None)
      /\ writing' # None => writing'.received # "before"
  BY <1>1, ReceivedFacts DEF Types
<1>5. /\ nonRT' \in Reference \cup {None} /\ newData' \in BOOLEAN
      /\ nonRT' = None <=> LeftOver = None
  BY <1>1, ReadFacts, ReceivedFacts
<1>2. CASE Read = None
  <2>1. fault' = "race" /\ UNCHANGED <<lifecycle, RT>>
    BY <1>1, <1>2, ReadFacts DEF Activate
  <2>2. ~Swaps /\ newData' = newData /\ LeftOver = nonRT
    BY <1>1, <1>2 DEF Read, LeftOver, ReadFlag, Swaps, BufferFilled, Types
  <2> QED
    BY <1>1, <1>4, <1>5, <2>1, <2>2
    DEF Types, BufferFilled, BufferCurrent, StartsAtRest, ActivationIsDefined
<1>3. CASE Read # None
  <2>1. lifecycle' = "active" /\ RT' = ResetRef /\ fault' = fault
    BY <1>3 DEF Activate
  <2>2. newData' => writing' # None /\ nonRT' # None
    BY <1>1, <1>4, <1>5, ReadFacts DEF Types
  <2> QED
    BY <1>1, <1>4, <1>5, <2>1, <2>2, ResetFacts
    DEF Types, BufferFilled, BufferCurrent, Current, StartsAtRest, ActivationIsDefined
<1> QED
  BY <1>2, <1>3

LEMMA UpdateIInv == ASSUME IInv, Update PROVE IInv'
<1> USE DEF IInv
<1> DEFINE ref == IF Expired(Read) THEN [Read EXCEPT !.cmd = "zero"] ELSE Read
<1>1. /\ lifecycle = "active"
      /\ RT' = ref /\ nonRT' = LeftOver /\ newData' = ReadFlag
      /\ wheels' = IF ref.cmd = "move" THEN "move" ELSE "zero"
      /\ replayed' = (ref.cmd = "move" /\ ref.received = "before")
      /\ UNCHANGED <<lifecycle, subscribed, sender, wire, writing, fault>>
  BY DEF Update
<1>2. Read \in Reference /\ Read # None
  BY <1>1, ReadFacts
<1>3. Current(Read)
  BY <1>1 DEF Read, Swaps, BufferCurrent
<1>4. ref \in Reference /\ (ref.cmd = "move" => Read.cmd = "move" /\ ref.received = Read.received)
  BY <1>2 DEF Reference
<1>5. ref # None /\ ~(ref.cmd = "move" /\ ref.received = "before")
  BY <1>2, <1>3, <1>4, NoneAssumption DEF Current
<1>6. Types'
  BY <1>1, <1>4, ReadFacts DEF Types, Reference
<1>7. BufferFilled'
  BY <1>1, <1>5, ReadFacts DEF BufferFilled
<1>8. BufferCurrent'
  BY <1>1, <1>5, ReadFacts DEF BufferCurrent, Current
<1> QED
  BY <1>1, <1>5, <1>6, <1>7, <1>8 DEF StartsAtRest, ActivationIsDefined

LEMMA TickIInv == ASSUME IInv, Tick PROVE IInv'
<1> USE DEF IInv
<1>1. /\ wire' = Older(wire) /\ writing' = Older(writing)
      /\ nonRT' = Older(nonRT) /\ RT' = Older(RT)
      /\ UNCHANGED <<lifecycle, subscribed, sender, newData, wheels, replayed, fault>>
  BY DEF Tick
<1>2. ASSUME NEW r \in Reference \cup {None}
      PROVE  /\ Older(r) \in Reference \cup {None}
             /\ Older(r) = None <=> r = None
             /\ r # None => Older(r).cmd = r.cmd /\ Older(r).received = r.received
  BY OlderFacts, OlderNone
<1>3. Types'
  BY <1>1, <1>2, OlderPacket DEF Types
<1>4. BufferFilled'
  BY <1>1, <1>2 DEF BufferFilled, Types
<1>5. BufferCurrent'
  BY <1>1, <1>2 DEF BufferCurrent, Current, Types
<1> QED
  BY <1>1, <1>3, <1>4, <1>5 DEF StartsAtRest, ActivationIsDefined

LEMMA NextIInv == IInv /\ [Next]_vars => IInv'
<1> SUFFICES ASSUME IInv, [Next]_vars PROVE IInv'
  OBVIOUS
<1> USE DEF IInv, Types, BufferFilled, BufferCurrent, Current, StartsAtRest,
            ActivationIsDefined, bufferVars
<1>1. ASSUME NEW c \in {"zero", "move"}, NEW s \in BOOLEAN, Send(c, s) PROVE IInv'
  BY <1>1, TimeoutAssumption DEF Send, Packet, Ages
<1>2. CASE Lose
  BY <1>2 DEF Lose
<1>3. CASE Receive
  <2>1. wire \in Packet /\ AgeAtReceipt(wire) \in Ages
    BY <1>3, TimeoutAssumption DEF Receive, AgeAtReceipt, Packet, Ages
  <2>2. /\ writing' \in Reference \cup {None}
        /\ writing' # None => writing'.received # "before"
    BY <1>3, <2>1 DEF Receive, Reference, Packet
  <2> QED
    BY <1>3, <2>2 DEF Receive
<1>4. CASE WriteEnd
  BY <1>4 DEF WriteEnd
<1>5. CASE Configure
  BY <1>5, ResetFacts DEF Configure
<1>6. CASE Cleanup
  BY <1>6 DEF Cleanup
<1>7. CASE Activate
  BY <1>7, ActivateIInv
<1>8. CASE Deactivate
  BY <1>8 DEF Deactivate
<1>9. CASE Update
  BY <1>9, UpdateIInv
<1>10. CASE SenderStops
  BY <1>10 DEF SenderStops
<1>11. CASE Tick
  BY <1>11, TickIInv
<1>12. CASE UNCHANGED vars
  BY <1>12 DEF vars
<1> QED
  BY <1>1, <1>2, <1>3, <1>4, <1>5, <1>6, <1>7, <1>8, <1>9, <1>10, <1>11, <1>12 DEF Next

LEMMA IInvHolds == Spec => []IInv
<1> QED
  BY InitIInv, NextIInv, PTL DEF Spec

-----------------------------------------------------------------------------

\* Every reachable state is well typed, and update() always finds a reference.
THEOREM TypeCorrect == Spec => []TypeOK
<1>1. IInv => TypeOK
  BY ReadFacts DEF IInv, Types, TypeOK
<1> QED
  BY <1>1, IInvHolds, PTL

\* For every timeout, zero included: no velocity that an activation finds in either slot
\* of the buffer is executed after it (on_activate, line 235, against readFromRT's
\* try_lock).  It says nothing of the one velocity whose write the activation meets.
THEOREM NeverReplays == Spec => []StartsAtRest
<1>1. IInv => StartsAtRest
  BY DEF IInv
<1> QED
  BY <1>1, IInvHolds, PTL

\* on_activate dereferences a null reference only if it overlaps a write.
THEOREM ActivationDefined == Spec => []ActivationIsDefined
<1>1. IInv => ActivationIsDefined
  BY DEF IInv
<1> QED
  BY <1>1, IInvHolds, PTL

=============================================================================
