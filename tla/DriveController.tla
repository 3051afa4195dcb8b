-------------------------- MODULE DriveController --------------------------
(***************************************************************************)
(* CrobotDriveController: velocity references arrive in a subscription     *)
(* callback of the executor's thread, go through a RealtimeBuffer, and are *)
(* turned into wheel velocities by update() in the control loop's thread,  *)
(* where the lifecycle transitions run too.                                *)
(*                                                                         *)
(* A reference is all NaN, zero, or a motion.  Time is kept as the age of  *)
(* every stored or travelling reference, counted up to one tick past the   *)
(* timeout, which is all that comparisons with ref_timeout_ can tell.      *)
(* The dead-wheel odometry that update() also computes and publishes does  *)
(* not touch references or wheels and is left out.                         *)
(***************************************************************************)
EXTENDS Integers

CONSTANTS Timeout,  \* ref_timeout_ in ticks; 0 switches it off
          None      \* no message, or the null shared_ptr

ASSUME TimeoutAssumption == Timeout \in Nat

Ages == 0 .. (Timeout + 1)

\* received: history, when its callback ran as seen from the latest activation;
\* "during" is a reference whose storing the activation finds under way.
Reference == [cmd : {"nan", "zero", "move"}, age : Ages,
              received : {"before", "during", "after"}]
Packet    == [cmd : {"zero", "move"}, age : Ages, stamped : BOOLEAN]

ASSUME NoneAssumption == None \notin Reference /\ None \notin Packet

VARIABLES lifecycle,   \* "unconfigured", "inactive" or "active"
          subscribed,  \* ref_cmd_subscriber_ exists
          sender,      \* somebody still publishes velocities
          wire,        \* the one message a keep_last(1) subscription holds
          writing,     \* reference being stored, the buffer's mutex held
          nonRT, RT,   \* the two slots of input_ref_
          newData,     \* its new_data_available_
          wheels,      \* value of the four command interfaces
          replayed,    \* history: wheels follow a reference received "before"
          fault        \* a null reference was dereferenced: "none", "race", "null"

bufferVars == <<nonRT, RT, newData>>
vars == <<lifecycle, subscribed, sender, wire, writing, nonRT, RT, newData,
          wheels, replayed, fault>>

Older(r) == IF r = None THEN None
            ELSE [r EXCEPT !.age = IF @ > Timeout THEN @ ELSE @ + 1]
Received(r, when) == IF r = None THEN None ELSE [r EXCEPT !.received = when]

\* reset_controller_reference_msg
ResetRef == [cmd |-> "nan", age |-> 0, received |-> "after"]

Init ==
    /\ lifecycle = "unconfigured" /\ subscribed = FALSE /\ sender = TRUE
    /\ wire = None /\ writing = None
    /\ nonRT = None /\ RT = None /\ newData = FALSE
    /\ wheels = "nan" /\ replayed = FALSE /\ fault = "none"

Running == fault = "none"

-----------------------------------------------------------------------------
(* The executor's thread.                                                  *)

\* Best effort: a newer message replaces one that still waits.
Send(c, s) ==
    /\ Running /\ subscribed /\ sender
    /\ wire' = [cmd |-> c, age |-> 0, stamped |-> s]
    /\ UNCHANGED <<lifecycle, subscribed, sender, writing, bufferVars, wheels, replayed, fault>>

Lose ==
    /\ Running /\ wire # None
    /\ wire' = None
    /\ UNCHANGED <<lifecycle, subscribed, sender, writing, bufferVars, wheels, replayed, fault>>

\* Commands without a time stamp count as sent when they are received.
AgeAtReceipt(p) == IF p.stamped THEN p.age ELSE 0

\* reference_callback up to the write, which takes the mutex.
Receive ==
    /\ Running /\ wire # None /\ writing = None
    /\ wire' = None
    /\ writing' = IF Timeout = 0 \/ AgeAtReceipt(wire) <= Timeout
                  THEN [cmd |-> wire.cmd, age |-> AgeAtReceipt(wire), received |-> "after"]
                  ELSE None
    /\ UNCHANGED <<lifecycle, subscribed, sender, bufferVars, wheels, replayed, fault>>

\* The end of writeFromNonRT.
WriteEnd ==
    /\ Running /\ writing # None
    /\ nonRT' = writing /\ newData' = TRUE
    /\ writing' = None
    /\ UNCHANGED <<lifecycle, subscribed, sender, wire, RT, wheels, replayed, fault>>

-----------------------------------------------------------------------------
(* The control loop's thread.                                              *)

\* readFromRT: the slots are swapped unless a writer holds the mutex.
Swaps    == writing = None /\ newData
Read     == IF Swaps THEN nonRT ELSE RT
LeftOver == IF Swaps THEN RT ELSE nonRT
ReadFlag == newData /\ ~Swaps

\* No reference is stored until the first message.
Configure_StoresNothing ==
    /\ Running /\ lifecycle = "unconfigured" /\ writing = None
    /\ lifecycle' = "inactive"
    /\ subscribed' = TRUE /\ wire' = None
    /\ UNCHANGED <<sender, writing, bufferVars, wheels, replayed, fault>>

\* on_configure; writeFromNonRT waits for the mutex.
Configure ==
    /\ Running /\ lifecycle = "unconfigured" /\ writing = None
    /\ lifecycle' = "inactive"
    /\ subscribed' = TRUE /\ wire' = None
    /\ nonRT' = ResetRef /\ newData' = TRUE
    /\ UNCHANGED <<sender, writing, RT, wheels, replayed, fault>>

\* on_cleanup is not overridden: the subscription lives on.
Cleanup ==
    /\ Running /\ lifecycle = "inactive"
    /\ lifecycle' = "unconfigured"
    /\ UNCHANGED <<subscribed, sender, wire, writing, bufferVars, wheels, replayed, fault>>

\* Overwrites the slot read last, without looking for a newer one.
Activate_WithoutSwap ==
    /\ Running /\ lifecycle = "inactive"
    /\ lifecycle' = "active"
    /\ RT' = ResetRef
    /\ nonRT' = Received(nonRT, "before") /\ writing' = Received(writing, "during")
    /\ UNCHANGED <<subscribed, sender, wire, newData, wheels, replayed, fault>>

\* on_activate: what readFromRT returns is overwritten in place; a write that holds
\* the mutex goes on.
Activate ==
    /\ Running /\ lifecycle = "inactive"
    /\ nonRT' = Received(LeftOver, "before") /\ newData' = ReadFlag
    /\ writing' = Received(writing, "during")
    /\ IF Read = None
       THEN /\ fault' = IF writing # None THEN "race" ELSE "null"
            /\ UNCHANGED <<lifecycle, RT>>
       ELSE /\ lifecycle' = "active"
            /\ RT' = ResetRef
            /\ UNCHANGED fault
    /\ UNCHANGED <<subscribed, sender, wire, wheels, replayed>>

Deactivate ==
    /\ Running /\ lifecycle = "active"
    /\ lifecycle' = "inactive"
    /\ wheels' = "nan" /\ replayed' = FALSE
    /\ UNCHANGED <<subscribed, sender, wire, writing, bufferVars, fault>>

\* The timeout is not looked at.
Expired_Never(r) == FALSE

Expired(r) == r.age > Timeout /\ Timeout # 0

\* update(): an expired reference is zeroed in place; NaN stops the wheels.
Update ==
    /\ Running /\ lifecycle = "active"
    /\ LET ref == IF Expired(Read) THEN [Read EXCEPT !.cmd = "zero"] ELSE Read
       IN  /\ RT' = ref /\ nonRT' = LeftOver /\ newData' = ReadFlag
           /\ wheels' = IF ref.cmd = "move" THEN "move" ELSE "zero"
           /\ replayed' = (ref.cmd = "move" /\ ref.received = "before")
    /\ UNCHANGED <<lifecycle, subscribed, sender, wire, writing, fault>>

-----------------------------------------------------------------------------
(* The environment.                                                        *)

SenderStops ==
    /\ Running /\ sender
    /\ sender' = FALSE
    /\ UNCHANGED <<lifecycle, subscribed, wire, writing, bufferVars, wheels, replayed, fault>>

Tick ==
    /\ Running
    /\ wire' = Older(wire) /\ writing' = Older(writing)
    /\ nonRT' = Older(nonRT) /\ RT' = Older(RT)
    /\ UNCHANGED <<lifecycle, subscribed, sender, newData, wheels, replayed, fault>>

Next ==
    \/ \E c \in {"zero", "move"}, s \in BOOLEAN : Send(c, s)
    \/ Lose \/ Receive \/ WriteEnd
    \/ Configure \/ Cleanup \/ Activate \/ Deactivate \/ Update
    \/ SenderStops \/ Tick

Spec == Init /\ [][Next]_vars

\* Both threads run, and time passes.
Fairness == WF_vars(Receive) /\ WF_vars(WriteEnd) /\ WF_vars(Update) /\ WF_vars(Tick)

FairSpec == Spec /\ Fairness

-----------------------------------------------------------------------------
(* Properties                                                              *)

\* Every variable has its type; an active controller has a reference to read.
TypeOK ==
    /\ lifecycle \in {"unconfigured", "inactive", "active"}
    /\ subscribed \in BOOLEAN /\ sender \in BOOLEAN /\ newData \in BOOLEAN
    /\ wire \in Packet \cup {None} /\ writing \in Reference \cup {None}
    /\ nonRT \in Reference \cup {None} /\ RT \in Reference \cup {None}
    /\ wheels \in {"nan", "zero", "move"} /\ replayed \in BOOLEAN
    /\ fault \in {"none", "race", "null"}
    /\ lifecycle = "active" => Read # None

\* A velocity that was in the buffer when the controller was activated never moves the
\* wheels after it, whichever of the two slots it sits in, and although an activation
\* that meets a write resets the slot which the write is not about to replace.  The
\* velocity of that write itself (line 190 during line 235), the only received one an
\* activation can find outside the buffer, is not among them: the code lets it through.
StartsAtRest == ~replayed

\* An activation that no write overlaps finds a reference in the buffer.
ActivationIsDefined == fault # "null"

\* With a timeout, once everybody has stopped publishing the base comes to rest
\* for good, even if the last message is a motion still on its way and whatever
\* transitions the controller goes through.
SilenceStopsBase == ~sender ~> [](wheels # "move")

=============================================================================
