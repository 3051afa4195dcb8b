--------------------------- MODULE SharedClients ---------------------------
(***************************************************************************)
(* The static registry through which the leaves of behaviortree_ros2 share *)
(* the client of an action or a service, or the subscriber of a topic.     *)
(*                                                                         *)
(* RosActionNode, RosServiceNode and RosTopicSubNode carry the same code:  *)
(* the registry keeps a weak pointer for each name, a leaf holds its       *)
(* client with a strong one, and insert() adds an entry where the name has *)
(* none: an entry whose client is gone is never replaced.  The ROS node is *)
(* one, so the name is the key.                                            *)
(***************************************************************************)
CONSTANTS Nodes,    \* the leaves
          Names,    \* of the services or topics
          Clients,  \* identities of clients, used again when a client is gone
          None,     \* no name, no client, no entry
          Expired   \* an entry whose client is gone

ASSUME SpecialAssumption ==
    /\ None \notin Names /\ None \notin Clients
    /\ Expired \notin Clients /\ Expired # None

VARIABLES name,      \* service_name_ or topic_name_ of each leaf
          client,    \* the client each leaf holds
          serves,    \* the name for which each client was created
          registry   \* the entry of each name

clientVars == <<name, client, serves, registry>>

InitClients ==
    /\ name = [n \in Nodes |-> None] /\ client = [n \in Nodes |-> None]
    /\ serves = [c \in Clients |-> None] /\ registry = [k \in Names |-> None]

Free == {c \in Clients : serves[c] = None}
Fresh == CHOOSE c \in Free : TRUE

\* What is left of the clients when the leaves hold `cl` (client') only, c being
\* held for the name k.
Keep(cl, c, k) ==
    LET held == {cl[m] : m \in Nodes} IN
    /\ serves' = [d \in Clients |-> IF d = c THEN k
                                    ELSE IF d \in held THEN serves[d] ELSE None]
    /\ registry' = [j \in Names |->
            IF j = k /\ registry[j] = None THEN c
            ELSE IF registry[j] \in Clients \ held THEN Expired ELSE registry[j]]

\* No entry is added.
CreateClient_NotRegistered(n, k) ==
    /\ registry[k] \notin Clients => Free # {}
    /\ LET c == IF registry[k] \in Clients THEN registry[k] ELSE Fresh IN
       /\ client' = [client EXCEPT ![n] = c]
       /\ serves' = [d \in Clients |-> IF d = c THEN k
                         ELSE IF d \in {client'[m] : m \in Nodes} THEN serves[d] ELSE None]
       /\ UNCHANGED registry
    /\ name' = [name EXCEPT ![n] = k]

\* The key leaves the name out.
CreateClient_AnyEntry(n, k) ==
    LET live == {registry[j] : j \in Names} \cap Clients IN
    /\ live = {} => Free # {}
    /\ \E c \in IF live = {} THEN {Fresh} ELSE live :
          /\ client' = [client EXCEPT ![n] = c]
          /\ Keep(client', c, IF live = {} THEN k ELSE serves[c])
    /\ name' = [name EXCEPT ![n] = k]

\* createClient, createSubscriber: the registered client while it lives, else a
\* new one, which is registered if the name has no entry at all.
CreateClient(n, k) ==
    /\ registry[k] \notin Clients => Free # {}
    /\ LET c == IF registry[k] \in Clients THEN registry[k] ELSE Fresh IN
       /\ client' = [client EXCEPT ![n] = c]
       /\ Keep(client', c, k)
    /\ name' = [name EXCEPT ![n] = k]

\* The leaf closes its client, whoever else holds it.
DropClient_Closes(n) ==
    /\ client' = [client EXCEPT ![n] = None]
    /\ name' = [name EXCEPT ![n] = None]
    /\ serves' = [c \in Clients |-> IF c = client[n] THEN None ELSE serves[c]]
    /\ registry' = [k \in Names |-> IF registry[k] \in Clients /\ registry[k] = client[n]
                                    THEN Expired ELSE registry[k]]

\* The leaf is destroyed.
DropClient(n) ==
    /\ client' = [client EXCEPT ![n] = None]
    /\ name' = [name EXCEPT ![n] = None]
    /\ Keep(client', None, None)

-----------------------------------------------------------------------------

ClientsTypeOK ==
    /\ name \in [Nodes -> Names \cup {None}]
    /\ client \in [Nodes -> Clients \cup {None}]
    /\ serves \in [Clients -> Names \cup {None}]
    /\ registry \in [Names -> Clients \cup {None, Expired}]

\* A leaf holds a client of the name it was given, and a name is registered with
\* a client of its own.
OwnName ==
    /\ \A n \in Nodes : client[n] # None => serves[client[n]] = name[n]
    /\ \A k \in Names : registry[k] \in Clients => serves[registry[k]] = k

\* Leaves of one name share its client, until the first client of that name is
\* gone: from then on each leaf creates its own.
SharedByName ==
    \A m, n \in Nodes :
        client[m] # None /\ client[n] # None /\ name[m] = name[n] /\ client[m] # client[n]
            => registry[name[n]] = Expired

=============================================================================
