--------------------------- MODULE RosTopicNodes ---------------------------
(***************************************************************************)
(* RosTopicSubNode and RosTopicPubNode: leaves that read, and leaves that  *)
(* publish, the messages of topics.                                        *)
(*                                                                         *)
(* The leaves that read one topic share a subscriber (SharedClients) which *)
(* keeps the last message only; whichever of them spins takes it, and the  *)
(* subscriber's signal hands it to all connected leaves.  A message is the *)
(* pair of its topic and its number.  One thread ticks the leaves that     *)
(* read; publishers may be in other trees.  What onTick and setMessage do  *)
(* is left open; an empty name throws before anything changes.             *)
(***************************************************************************)
EXTENDS SharedClients, Naturals

CONSTANTS Publishers,   \* leaves that publish
          TopicChecked, \* leaves of both kinds whose port points to the blackboard
          Latch,        \* leaves whose latchLastMessage() is true
          Limit         \* bound: number of messages of a topic

ASSUME LeavesAssumption == Latch \subseteq Nodes /\ None \notin Nodes
ASSUME LimitAssumption == Limit \in Nat
Messages == Names \X (1 .. Limit)
ASSUME MessageAssumption == None \notin Messages

VARIABLES built,     \* leaves that exist
          lastMsg,   \* last_msg_ of a leaf
          waiting,   \* the message in the subscription of a client
          kept,      \* last_msg of a client (SubscriberInstance)
          stale,     \* <<n, c>>: leaf n left client c, still connected to its signal
          dangling,  \* clients whose signal calls a leaf that is gone
          turn,      \* the leaf that is inside tick()
          topic,     \* prev_topic_name_ of a publisher
          sent       \* number of messages published on each topic

\* History.
VARIABLES handed,    \* number of the newest message of each topic given to a leaf
          renamed,   \* leaves that changed their topic
          moved,     \* some leaf has ever changed its topic
          thrown,    \* leaves whose onTick() threw for the message it was last given,
                     \* and that do not keep it anyway
          fault      \* a leaf that is gone was called

subVars == <<built, lastMsg, waiting, kept, stale, dangling, turn>>
pubVars == <<topic, sent>>
history == <<handed, renamed, moved, thrown, fault>>
topicVars == <<clientVars, subVars, pubVars, history>>

TopicInit ==
    /\ InitClients
    /\ built = {} /\ lastMsg = [n \in Nodes |-> None]
    /\ waiting = [c \in Clients |-> None] /\ kept = [c \in Clients |-> None]
    /\ stale = {} /\ dangling = {} /\ turn = None
    /\ topic = [p \in Publishers |-> None] /\ sent = [k \in Names |-> 0]
    /\ handed = [n \in Nodes |-> [k \in Names |-> 0]]
    /\ renamed = {} /\ moved = FALSE /\ thrown = {} /\ fault = FALSE

-----------------------------------------------------------------------------
(* RosTopicSubNode                                                         *)

\* What is left of the subscribers once clients are destroyed.
Alive(c) == serves'[c] # None /\ serves'[c] = serves[c]
Purge(left, gone) ==
    /\ stale' = {s \in left : Alive(s[2])}
    /\ dangling' = {c \in gone : Alive(c)}
    /\ waiting' = [c \in Clients |-> IF Alive(c) THEN waiting[c] ELSE None]
    /\ kept' = [c \in Clients |-> IF Alive(c) THEN kept[c] ELSE None]

\* The connection to an earlier topic's signal, if any, is not cut.
CreateSubscriber(n, k) ==
    /\ CreateClient(n, k)
    /\ Purge(stale \cup (IF client[n] = None THEN {} ELSE {<<n, client[n]>>}), dangling)
    /\ lastMsg' = [lastMsg EXCEPT ![n] = IF kept'[client'[n]] # None
                                         THEN kept'[client'[n]] ELSE @]

ConstructSub(n, k) ==
    /\ ~fault /\ turn = None /\ n \notin built /\ (k = None <=> n \in TopicChecked)
    /\ IF k = None
       THEN UNCHANGED <<clientVars, lastMsg, waiting, kept, stale, dangling>>
       ELSE CreateSubscriber(n, k)
    /\ built' = built \cup {n}
    /\ UNCHANGED <<turn, pubVars, history>>

\* No connection is cut.
Disconnect_Not(n) ==
    Purge({s \in stale : s[1] # n},
          dangling \cup {s[2] : s \in {t \in stale : t[1] = n}} \cup ({client[n]} \ {None}))

\* signal_connection_ is the connection to the latest topic.
Disconnect(n) ==
    Purge({s \in stale : s[1] # n}, dangling \cup {s[2] : s \in {t \in stale : t[1] = n}})

DestroySub(n) ==
    /\ ~fault /\ turn = None /\ n \in built
    /\ DropClient(n)
    /\ Disconnect(n)
    /\ built' = built \ {n}
    /\ lastMsg' = [lastMsg EXCEPT ![n] = None]
    /\ handed' = [handed EXCEPT ![n] = [k \in Names |-> 0]]
    /\ renamed' = renamed \ {n} /\ thrown' = thrown \ {n}
    /\ UNCHANGED <<turn, pubVars, moved, fault>>

\* tick() reads the name k in the port, None when there is none or it is a fixed one.
Tick(n, k) ==
    /\ ~fault /\ turn = None /\ n \in built
    /\ k = None => client[n] # None
    /\ k # None => n \in TopicChecked
    /\ IF k \in {None, name[n]}
       THEN UNCHANGED <<clientVars, lastMsg, waiting, kept, stale, dangling,
                        renamed, moved>>
       ELSE /\ CreateSubscriber(n, k)
            /\ renamed' = IF client[n] = None THEN renamed ELSE renamed \cup {n}
            /\ moved' = (moved \/ client[n] # None)
    /\ turn' = n
    /\ UNCHANGED <<built, pubVars, handed, thrown, fault>>

\* Only the leaf that spins gets the message.
Receivers_Spinner(c) == {turn}

\* The leaves whose last_msg_ the signal of client c sets.
Receivers(c) == {n \in Nodes : client[n] = c \/ <<n, c>> \in stale}

\* last_msg_ is kept in any case.
Forget_Never(n, last) == lastMsg' = last /\ thrown' = thrown \ {n}

\* last_msg_ once onTick() has seen it.
Forget(n, last) ==
    /\ lastMsg' = IF n \in Latch THEN last ELSE [last EXCEPT ![n] = None]
    /\ thrown' = thrown \ {n}

\* onTick() throws, or its answer is no verdict: last_msg_ is not reset.
OnTickThrows(n, last) ==
    /\ lastMsg' = last
    /\ thrown' = IF n \in Latch \/ last[n] = None THEN thrown \ {n} ELSE thrown \cup {n}

\* The message onTick() is given: the one that waits, else last_msg_.
Given ==
    LET c == client[turn] IN
    IF waiting[c] # None /\ turn \in Receivers(c) THEN waiting[c] ELSE lastMsg[turn]

\* The rest of tick(): spin_some() takes the message that waits; then onTick().
Process ==
    /\ ~fault /\ turn # None
    /\ LET c == client[turn]
           m == waiting[c]
           last == [n \in Nodes |-> IF m # None /\ n \in Receivers(c) THEN m ELSE lastMsg[n]]
       IN  /\ waiting' = [waiting EXCEPT ![c] = None]
           /\ kept' = [kept EXCEPT ![c] = IF m # None THEN m ELSE @]
           /\ fault' = (m # None /\ c \in dangling)
           /\ Forget(turn, last) \/ OnTickThrows(turn, last)
    /\ handed' = IF Given = None THEN handed
                 ELSE [handed EXCEPT ![turn][Given[1]] = Given[2]]
    /\ turn' = None
    /\ UNCHANGED <<clientVars, built, stale, dangling, pubVars, renamed, moved>>

-----------------------------------------------------------------------------
(* RosTopicPubNode::tick(): k is the name in the port.                     *)

UpdateTopic(p, k) ==
    topic' = IF (topic[p] = None \/ p \in TopicChecked) /\ topic[p] # k
             THEN [topic EXCEPT ![p] = k] ELSE topic

\* setMessage refuses.
PublishFails(p, k) ==
    /\ ~fault /\ UpdateTopic(p, k)
    /\ UNCHANGED <<clientVars, subVars, sent, history>>

Publish(p, k) ==
    /\ ~fault /\ UpdateTopic(p, k)
    /\ LET to == topic'[p] IN
       /\ sent[to] < Limit
       /\ sent' = [sent EXCEPT ![to] = @ + 1]
       /\ waiting' = [c \in Clients |-> IF serves[c] = to THEN <<to, sent'[to]>>
                                        ELSE waiting[c]]
    /\ UNCHANGED <<clientVars, built, lastMsg, kept, stale, dangling, turn, history>>

-----------------------------------------------------------------------------

TopicNext ==
    \/ \E n \in Nodes, k \in Names \cup {None} : ConstructSub(n, k) \/ Tick(n, k)
    \/ \E n \in Nodes : DestroySub(n)
    \/ Process
    \/ \E p \in Publishers, k \in Names : PublishFails(p, k) \/ Publish(p, k)

TopicSpec == TopicInit /\ [][TopicNext]_topicVars

\* The tree ticks its leaves again and again, and a tick goes on to its end.
TopicFairness ==
    /\ WF_topicVars(Process)
    /\ \A n \in Nodes : SF_topicVars(\E k \in Names \cup {None} : Tick(n, k))

TopicFairSpec == TopicSpec /\ TopicFairness

-----------------------------------------------------------------------------
(* Properties                                                              *)

TopicTypeOK ==
    /\ ClientsTypeOK
    /\ built \subseteq Nodes /\ \A n \in Nodes : client[n] # None => n \in built
    /\ lastMsg \in [Nodes -> Messages \cup {None}]
    /\ waiting \in [Clients -> Messages \cup {None}]
    /\ kept \in [Clients -> Messages \cup {None}]
    /\ stale \subseteq built \X Clients /\ dangling \subseteq Clients
    /\ turn \in built \cup {None} /\ (turn # None => client[turn] # None)
    /\ topic \in [Publishers -> Names \cup {None}] /\ sent \in [Names -> 0 .. Limit]
    /\ handed \in [Nodes -> [Names -> 0 .. Limit]]
    /\ renamed \subseteq built /\ moved \in BOOLEAN
    /\ thrown \subseteq built /\ fault \in BOOLEAN

\* A leaf that never changed its topic is given messages of that topic only: a shared
\* subscriber, or one whose client was used for something else, brings no other.
OwnTopic ==
    \A n \in Nodes \ renamed, k \in Names : handed[n][k] > 0 => name[n] = k

\* Such a leaf is given the messages in the order they were published, whoever takes
\* them from the queue, and none twice, unless it latches or its onTick() threw when it
\* was last given the message.
NewestOnce ==
    [][Process /\ Given # None /\ turn \notin renamed =>
          LET last == handed[turn][Given[1]] IN
          Given[2] > last \/ (turn \in Latch \cup thrown /\ Given[2] = last)]_topicVars

\* Unless some leaf ever changed its topic, no subscriber can call a leaf that is gone.
GoneIsGone == dangling # {} \/ fault => moved

\* A message that reaches a leaf's subscriber is given to the leaf, or a newer one of
\* the topic is, unless the leaf ends or changes its topic.
Delivered ==
    \A n \in Nodes, m \in Messages :
        turn = None /\ client[n] # None /\ waiting[client[n]] = m
            ~> \/ handed[n][m[1]] >= m[2]
               \/ n \notin built \/ n \in renamed \/ fault

=============================================================================
