------------------------ MODULE SharedClientsProofs ------------------------
(* Proofs, for any leaves, names and clients, about the sharing of clients, *)
(* about the requests that RosServiceNode sends through them, and about the *)
(* messages that the leaves of RosTopicNodes take from shared subscribers.  *)
(* Both modules extend SharedClients; each theorem is about Spec or about   *)
(* TopicSpec, and about the sharing there are lemmas that serve for both.   *)
EXTENDS RosServiceNode, RosTopicNodes, TLAPS

\* A leaf has a name when it has a client, which is a client of that name, and the
\* name is registered with that client unless an earlier one has expired.
HeldIsRegistered ==
    \A n \in Nodes :
        /\ client[n] = None <=> name[n] = None
        /\ client[n] # None => /\ serves[client[n]] = name[n]
                               /\ registry[name[n]] \in {client[n], Expired}

\* A registered client serves that name.
RegisteredServes ==
    \A k \in Names : registry[k] \in Clients => serves[registry[k]] = k

ClientInv == ClientsTypeOK /\ HeldIsRegistered /\ RegisteredServes

LEMMA InitClientInv == InitClients => ClientInv
  BY SpecialAssumption
  DEF InitClients, ClientInv, ClientsTypeOK, HeldIsRegistered, RegisteredServes

LEMMA FreshIsFree == Free # {} => Fresh \in Free
  BY DEF Fresh

\* The client that createClient() gives to leaf n is registered for k or new.
LEMMA CreateKeeps ==
  ASSUME ClientInv, NEW n \in Nodes, NEW k \in Names, CreateClient(n, k)
  PROVE  ClientInv' /\ client'[n] \in Clients /\ name'[n] = k
<1> DEFINE c == IF registry[k] \in Clients THEN registry[k] ELSE Fresh
           held == {client'[m] : m \in Nodes}
<1>1. /\ client' = [client EXCEPT ![n] = c] /\ name' = [name EXCEPT ![n] = k]
      /\ serves' = [d \in Clients |-> IF d = c THEN k
                                      ELSE IF d \in held THEN serves[d] ELSE None]
      /\ registry' = [j \in Names |->
              IF j = k /\ registry[j] = None THEN c
              ELSE IF registry[j] \in Clients \ held THEN Expired ELSE registry[j]]
  BY DEF CreateClient, Keep
<1>2. c \in Clients /\ (registry[k] \in Clients \/ serves[c] = None)
  BY FreshIsFree DEF CreateClient, Free
<1>3. registry[k] \in Clients => c = registry[k] /\ serves[c] = k
  BY DEF ClientInv, RegisteredServes
<1> HIDE DEF c
<1>4. /\ client'[n] = c /\ name'[n] = k
      /\ \A m \in Nodes \ {n} : client'[m] = client[m] /\ name'[m] = name[m]
  BY <1>1 DEF ClientInv, ClientsTypeOK
<1>5. ClientsTypeOK'
  <2>1. client' \in [Nodes -> Clients \cup {None}] /\ name' \in [Nodes -> Names \cup {None}]
    BY <1>1, <1>2 DEF ClientInv, ClientsTypeOK
  <2>2. serves' \in [Clients -> Names \cup {None}]
    BY <1>1 DEF ClientInv, ClientsTypeOK
  <2>3. registry' \in [Names -> Clients \cup {None, Expired}]
    BY <1>1, <1>2 DEF ClientInv, ClientsTypeOK
  <2> QED
    BY <2>1, <2>2, <2>3 DEF ClientsTypeOK
<1>6. \A m \in Nodes : client'[m] \in held
  OBVIOUS
<1> HIDE DEF held
<1>7. ASSUME NEW m \in Nodes, m # n, client[m] # None
      PROVE  serves'[client'[m]] = name'[m] /\ registry'[name'[m]] \in {client'[m], Expired}
  <2>1. /\ client[m] \in Clients /\ name[m] \in Names /\ client[m] \in held
        /\ serves[client[m]] = name[m] /\ name[m] # None
        /\ registry[name[m]] \in {client[m], Expired}
    BY <1>4, <1>6, <1>7, SpecialAssumption DEF ClientInv, ClientsTypeOK, HeldIsRegistered
  <2>2. client[m] = c => name[m] = k
    BY <1>2, <1>3, <2>1
  <2>3. serves'[client[m]] = name[m]
    BY <1>1, <2>1, <2>2
  <2>4. registry[name[m]] # None /\ registry'[name[m]] \in {client[m], Expired}
    BY <1>1, <2>1, SpecialAssumption
  <2> QED
    BY <1>4, <1>7, <2>3, <2>4
<1>8. serves'[c] = k /\ registry'[k] \in {c, Expired}
  <2>1. c \in held
    BY <1>4, <1>6
  <2>2. registry[k] \in Clients \cup {None, Expired}
    BY DEF ClientInv, ClientsTypeOK
  <2> QED
    BY <1>1, <1>2, <1>3, <2>1, <2>2
<1>9. HeldIsRegistered'
  <2> SUFFICES ASSUME NEW m \in Nodes
               PROVE  /\ client'[m] = None <=> name'[m] = None
                      /\ client'[m] # None => /\ serves'[client'[m]] = name'[m]
                                              /\ registry'[name'[m]] \in {client'[m], Expired}
    BY DEF HeldIsRegistered
  <2>1. CASE m = n
    BY <1>2, <1>4, <1>8, <2>1, SpecialAssumption
  <2>2. CASE m # n
    BY <1>4, <1>7, <2>2 DEF ClientInv, HeldIsRegistered
  <2> QED
    BY <2>1, <2>2
<1>10. RegisteredServes'
  <2> SUFFICES ASSUME NEW j \in Names, registry'[j] \in Clients
               PROVE  serves'[registry'[j]] = j
    BY DEF RegisteredServes
  <2>1. CASE j = k /\ registry[j] = None
    BY <1>1, <1>8, <2>1
  <2>2. CASE registry[j] \in held /\ registry'[j] = registry[j]
    <3>1. serves[registry[j]] = j /\ j # None
      BY <2>2, SpecialAssumption DEF ClientInv, RegisteredServes
    <3>2. registry[j] = c => j = k
      BY <1>2, <1>3, <3>1
    <3> QED
      BY <1>1, <2>2, <3>1, <3>2
  <2>3. ~(j = k /\ registry[j] = None) => registry[j] \in held /\ registry'[j] = registry[j]
    BY <1>1, SpecialAssumption
  <2> QED
    BY <2>1, <2>2, <2>3
<1> QED
  BY <1>2, <1>4, <1>5, <1>9, <1>10 DEF ClientInv

LEMMA DropKeeps ==
  ASSUME ClientInv, NEW n \in Nodes, DropClient(n)
  PROVE  ClientInv'
<1> DEFINE held == {client'[m] : m \in Nodes}
<1>1. /\ client' = [client EXCEPT ![n] = None] /\ name' = [name EXCEPT ![n] = None]
      /\ serves' = [d \in Clients |-> IF d \in held THEN serves[d] ELSE None]
      /\ registry' = [j \in Names |->
              IF registry[j] \in Clients \ held THEN Expired ELSE registry[j]]
  BY SpecialAssumption DEF DropClient, Keep
<1>2. \A m \in Nodes : client'[m] \in held
  OBVIOUS
<1> HIDE DEF held
<1>3. ClientsTypeOK'
  BY <1>1 DEF ClientInv, ClientsTypeOK
<1>4. HeldIsRegistered'
  <2> SUFFICES ASSUME NEW m \in Nodes
               PROVE  /\ client'[m] = None <=> name'[m] = None
                      /\ client'[m] # None => /\ serves'[client'[m]] = name'[m]
                                              /\ registry'[name'[m]] \in {client'[m], Expired}
    BY DEF HeldIsRegistered
  <2>1. CASE m = n
    BY <1>1, <2>1 DEF ClientInv, ClientsTypeOK
  <2>2. CASE m # n
    <3>1. client'[m] = client[m] /\ name'[m] = name[m] /\ client[m] \in held
      BY <1>1, <1>2, <2>2 DEF ClientInv, ClientsTypeOK
    <3>2. CASE client[m] # None
      <4>1. client[m] \in Clients /\ name[m] \in Names /\ serves[client[m]] = name[m]
        BY <3>2 DEF ClientInv, ClientsTypeOK, HeldIsRegistered
      <4>2. registry[name[m]] \in {client[m], Expired}
        BY <3>2 DEF ClientInv, HeldIsRegistered
      <4>3. registry'[name[m]] \in {client[m], Expired}
        BY <1>1, <3>1, <4>1, <4>2
      <4> QED
        BY <1>1, <3>1, <3>2, <4>1, <4>3, SpecialAssumption
    <3> QED
      BY <3>1, <3>2 DEF ClientInv, HeldIsRegistered
  <2> QED
    BY <2>1, <2>2
<1>5. RegisteredServes'
  BY <1>1, SpecialAssumption DEF ClientInv, RegisteredServes
<1> QED
  BY <1>3, <1>4, <1>5 DEF ClientInv

-----------------------------------------------------------------------------

\* A running leaf has a client and a request; what answers the request comes in
\* through that client, and a response it has is the answer.
RunInv(n) ==
    status[n] = "RUNNING" =>
        /\ client[n] # None /\ run[n] # 0
        /\ request[Current(n)] \in {"sent", "answered"} => via[Current(n)] = client[n]
        /\ received[n] => response[n] = Current(n) /\ request[Current(n)] = "received"

\* The requests of runs to come are not sent.
FutureUnsent == \A r \in Requests : r[2] > run[r[1]] => request[r] = "unsent"

IInv == TypeOK /\ ClientInv /\ FutureUnsent /\ \A n \in Nodes : RunInv(n)

LEMMA RequestFacts ==
  ASSUME NEW n \in Nodes, NEW i \in 1 .. Runs[n]
  PROVE  <<n, i>> \in Requests
  BY DEF Requests

LEMMA RequestParts == \A r \in Requests : r[1] \in Nodes /\ r[2] \in Nat /\ r = <<r[1], r[2]>>
<1>1. \A r \in Requests : \E n \in Nodes : r \in {n} \X (1 .. Runs[n])
  BY DEF Requests
<1> QED
  BY <1>1, RunsAssumption

LEMMA InitIInv == Init => IInv
<1> SUFFICES ASSUME Init PROVE IInv
  OBVIOUS
<1>1. ClientInv
  BY InitClientInv DEF Init
<1>2. TypeOK
  BY <1>1, RunsAssumption DEF Init, ClientInv, TypeOK
<1>3. FutureUnsent /\ \A n \in Nodes : RunInv(n)
  BY DEF Init, RunInv, FutureUnsent
<1> QED
  BY <1>1, <1>2, <1>3 DEF IInv

LEMMA CurrentFacts ==
  ASSUME IInv, NEW n \in Nodes, status[n] = "RUNNING"
  PROVE  Current(n) \in Requests
<1>1. run[n] \in 1 .. Runs[n]
  BY RunsAssumption DEF IInv, TypeOK, RunInv
<1> QED
  BY <1>1, RequestFacts DEF Current

\* Reading the name of the service leaves the other leaves' clients alone.
LEMMA UpdateKeeps ==
  ASSUME ClientInv, NEW n \in Nodes, NEW k \in Names, UpdateClient(n, k)
  PROVE  /\ ClientInv' /\ client'[n] # None
         /\ n \in Checked => name'[n] = k
         /\ \A m \in Nodes \ {n} : client'[m] = client[m]
<1>1. CASE CreateClient(n, k)
  <2>1. \A m \in Nodes \ {n} : client'[m] = client[m]
    BY <1>1 DEF CreateClient, ClientInv, ClientsTypeOK
  <2> QED
    BY <1>1, <2>1, CreateKeeps, SpecialAssumption
<1>2. CASE UNCHANGED clientVars /\ ~((client[n] = None \/ n \in Checked) /\ k # name[n])
  <2>1. ClientInv'
    BY <1>2 DEF clientVars, ClientInv, ClientsTypeOK, HeldIsRegistered, RegisteredServes
  <2>2. client[n] # None
    BY <1>2, SpecialAssumption DEF ClientInv, HeldIsRegistered
  <2> QED
    BY <1>2, <2>1, <2>2 DEF clientVars
<1> QED
  BY <1>1, <1>2 DEF UpdateClient

LEMMA SameClients ==
  ASSUME ClientInv, UNCHANGED clientVars
  PROVE  ClientInv' /\ \A m \in Nodes : client'[m] = client[m]
  BY DEF clientVars, ClientInv, ClientsTypeOK, HeldIsRegistered, RegisteredServes

\* The client of a leaf is not among those that are closed.
LEMMA HeldIsOpen ==
  ASSUME IInv, ClientInv', NEW m \in Nodes, client'[m] = client[m], status[m] = "RUNNING"
  PROVE  ~Gone(Current(m))
<1>1. client[m] # None /\ serves'[client[m]] # None
  BY DEF IInv, RunInv, ClientInv, HeldIsRegistered
<1> QED
  BY <1>1 DEF Gone, IInv, RunInv

\* What a leaf has is kept when no request of its own becomes open again.
LEMMA RunKept ==
  ASSUME NEW n \in Nodes, RunInv(n), client'[n] = client[n], run'[n] = run[n],
         status'[n] = "RUNNING" => status[n] = "RUNNING",
         received'[n] = received[n], response'[n] = response[n],
         status[n] = "RUNNING" =>
             /\ request'[Current(n)] \in {"sent", "answered"} =>
                    /\ request[Current(n)] \in {"sent", "answered"}
                    /\ via'[Current(n)] = via[Current(n)]
             /\ request[Current(n)] = "received" => request'[Current(n)] = "received"
  PROVE  RunInv(n)'
  BY DEF RunInv, Current

\* After Lapse the requests of running leaves are what they were.
LEMMA LapseKeeps ==
  ASSUME IInv, ClientInv', Lapse, NEW m \in Nodes, client'[m] = client[m], status[m] = "RUNNING"
  PROVE  request'[Current(m)] = request[Current(m)] /\ via'[Current(m)] = via[Current(m)]
<1>1. Current(m) \in Requests /\ ~Gone(Current(m))
  BY CurrentFacts, HeldIsOpen
<1> QED
  BY <1>1 DEF Lapse

LEMMA LapseTypes ==
  ASSUME TypeOK, Lapse
  PROVE  /\ request' \in [Requests -> {"unsent", "sent", "answered", "received", "lost"}]
         /\ via' \in [Requests -> Clients \cup {None}]
  BY DEF TypeOK, Lapse

LEMMA NextIInv == IInv /\ [Next]_vars => IInv'
<1> SUFFICES ASSUME IInv, [Next]_vars PROVE IInv'
  OBVIOUS
<1>c. ClientInv /\ TypeOK /\ \A m \in Nodes : RunInv(m)
  BY DEF IInv
<1>f. FutureUnsent
  BY DEF IInv
\* No step but a start sends a request.
<1>g. ASSUME run' = run, \A r \in Requests : request[r] = "unsent" => request'[r] = "unsent"
      PROVE  FutureUnsent'
  BY <1>f, <1>g DEF FutureUnsent
<1>o. ASSUME ClientInv', Lapse, NEW n \in Nodes, \A m \in Nodes \ {n} : client'[m] = client[m],
             \A m \in Nodes \ {n} : /\ status'[m] = status[m] /\ run'[m] = run[m]
                                    /\ received'[m] = received[m] /\ response'[m] = response[m]
      PROVE  \A m \in Nodes \ {n} : RunInv(m)'
  BY <1>c, <1>o, LapseKeeps, RunKept
<1>1. ASSUME NEW n \in Nodes, NEW k \in Names \cup {None}, Construct(n, k)
      PROVE  IInv'
  <2>1. ClientInv' /\ \A m \in Nodes \ {n} : client'[m] = client[m]
    <3>1. CASE k = None
      BY <1>1, <1>c, <3>1, SameClients DEF Construct
    <3>2. CASE k # None
      BY <1>1, <1>c, <3>2, CreateKeeps DEF Construct, CreateClient, ClientInv, ClientsTypeOK
    <3> QED
      BY <3>1, <3>2
  <2>2. TypeOK'
    BY <1>1, <1>c, <2>1 DEF Construct, TypeOK, ClientInv
  <2>3. \A m \in Nodes : status'[m] = "RUNNING" => m # n /\ status[m] = "RUNNING"
    BY <1>1, <1>c DEF Construct, TypeOK
  <2>4. UNCHANGED <<run, received, response, request, via>>
    BY <1>1 DEF Construct
  <2>5. \A m \in Nodes : RunInv(m)'
    BY <1>c, <2>1, <2>3, <2>4 DEF RunInv, Current
  <2> QED
    BY <1>g, <2>1, <2>2, <2>4, <2>5 DEF IInv
<1>2. ASSUME NEW n \in Nodes, Destroy(n)
      PROVE  IInv'
  <2>1. ClientInv' /\ \A m \in Nodes \ {n} : client'[m] = client[m]
    BY <1>2, <1>c, DropKeeps DEF Destroy, DropClient, ClientInv, ClientsTypeOK
  <2>2. TypeOK'
    BY <1>2, <1>c, <2>1, LapseTypes DEF Destroy, TypeOK, ClientInv
  <2>3. \A m \in Nodes \ {n} : RunInv(m)'
    <3>1. \A m \in Nodes \ {n} : /\ status'[m] = status[m] /\ run'[m] = run[m]
                                 /\ received'[m] = received[m] /\ response'[m] = response[m]
      BY <1>2, <1>c DEF Destroy, TypeOK
    <3> QED
      BY <1>2, <1>o, <2>1, <3>1 DEF Destroy
  <2>4. status'[n] = "NONE"
    BY <1>2, <1>c DEF Destroy, TypeOK
  <2>5. FutureUnsent'
    BY <1>2, <1>g DEF Destroy, Lapse, Gone
  <2> QED
    BY <2>1, <2>2, <2>3, <2>4, <2>5 DEF IInv, RunInv
<1>3. ASSUME NEW n \in Nodes, NEW k \in Names, StartFails(n, k) \/ StartThrows(n, k)
      PROVE  IInv'
  <2>0. Starting(n, k) /\ Lapse
    BY <1>3 DEF StartFails, StartThrows
  <2>1. /\ ClientInv' /\ client'[n] # None
        /\ \A m \in Nodes \ {n} : client'[m] = client[m]
    BY <1>c, <2>0, UpdateKeeps DEF Starting
  <2>2. /\ run' \in [Nodes -> Nat] /\ \A m \in Nodes : run'[m] <= Runs[m]
        /\ run'[n] = run[n] \/ (run'[n] = run[n] + 1 /\ run'[n] # 0)
        /\ status' \in [Nodes -> {"NONE", "IDLE", "RUNNING"}] /\ threw' \subseteq Nodes
        /\ \A m \in Nodes \ {n} : status'[m] = status[m] /\ run'[m] = run[m]
        /\ status'[n] = "RUNNING" => run'[n] = run[n] + 1 /\ run'[n] # 0
    <3>1. run[n] \in Nat /\ run[n] < Runs[n] /\ Runs[n] \in Nat /\ status[n] = "IDLE"
      BY <1>c, <2>0, RunsAssumption DEF Starting, TypeOK
    <3> QED
      BY <1>3, <1>c, <3>1 DEF StartFails, StartThrows, RunBegins, TypeOK
  <2>3. TypeOK'
    BY <1>c, <2>0, <2>1, <2>2, LapseTypes DEF Starting, Reset, TypeOK, ClientInv
  <2>4. \A m \in Nodes \ {n} : RunInv(m)'
    <3>1. \A m \in Nodes \ {n} : received'[m] = received[m] /\ response'[m] = response[m]
      BY <1>c, <2>0 DEF Starting, Reset, TypeOK
    <3> QED
      BY <1>o, <2>0, <2>1, <2>2, <3>1
\* A run that has just begun without a request has nothing that is open.
  <2>5. RunInv(n)'
    <3> SUFFICES ASSUME status'[n] = "RUNNING" PROVE RunInv(n)'
      BY DEF RunInv
    <3>1. /\ run'[n] = run[n] + 1 /\ run'[n] # 0 /\ ~received'[n]
          /\ <<n, run[n] + 1>> \in Requests /\ request[<<n, run[n] + 1>>] = "unsent"
      <4>1. run[n] \in Nat /\ run[n] + 1 \in 1 .. Runs[n]
        BY <1>c, <2>2, RunsAssumption DEF TypeOK
      <4>2. <<n, run[n] + 1>> \in Requests /\ <<n, run[n] + 1>>[2] > run[n]
        BY <4>1, RequestFacts
      <4>3. request[<<n, run[n] + 1>>] = "unsent"
        BY <1>f, <4>2 DEF FutureUnsent
      <4> QED
        BY <1>c, <2>0, <2>2, <4>2, <4>3 DEF Starting, Reset, TypeOK
    <3>2. request'[<<n, run[n] + 1>>] = "unsent"
      BY <2>0, <3>1 DEF Lapse, Gone
    <3> QED
      BY <2>1, <3>1, <3>2 DEF RunInv, Current
  <2>6. FutureUnsent'
    <3>1. ASSUME NEW r \in Requests, r[2] > run'[r[1]] PROVE request'[r] = "unsent"
      <4>1. r[1] \in Nodes /\ r[2] \in Nat /\ run[r[1]] \in Nat
        BY <1>c, RequestParts DEF TypeOK
      <4>2. r[2] > run[r[1]]
        BY <2>2, <3>1, <4>1
      <4> QED
        BY <1>f, <2>0, <4>2 DEF FutureUnsent, Lapse, Gone
    <3> QED
      BY <3>1 DEF FutureUnsent
  <2> QED
    BY <2>1, <2>3, <2>4, <2>5, <2>6 DEF IInv
<1>4. ASSUME NEW n \in Nodes, NEW k \in Names, Start(n, k)
      PROVE  IInv'
  <2> DEFINE new == <<n, run[n] + 1>>
  <2>0. Starting(n, k) /\ RunBegins(n)
    BY <1>4 DEF Start
  <2>1. ClientInv' /\ client'[n] # None /\ \A m \in Nodes \ {n} : client'[m] = client[m]
    BY <1>c, <2>0, UpdateKeeps DEF Starting
  <2>2. run[n] + 1 \in 1 .. Runs[n] /\ new \in Requests
    <3>1. run[n] \in Nat /\ run[n] < Runs[n] /\ Runs[n] \in Nat
      BY <1>c, <2>0, RunsAssumption DEF Starting, TypeOK
    <3> QED
      BY <3>1, RequestFacts
  <2>3. /\ request' = [r \in Requests |-> IF r = new THEN "sent"
                                          ELSE IF Gone(r) THEN "lost" ELSE request[r]]
        /\ via' = [r \in Requests |-> IF r = new THEN client'[n]
                                      ELSE IF Gone(r) THEN None ELSE via[r]]
    BY <1>4 DEF Start
  <2>4. TypeOK'
    <3>1. /\ request' \in [Requests -> {"unsent", "sent", "answered", "received", "lost"}]
          /\ via' \in [Requests -> Clients \cup {None}]
      BY <1>c, <2>1, <2>3 DEF TypeOK, ClientInv, ClientsTypeOK
    <3>2. run' \in [Nodes -> Nat] /\ \A m \in Nodes : run'[m] <= Runs[m]
      BY <1>c, <2>0, <2>2 DEF RunBegins, TypeOK
    <3>3. /\ received' \in [Nodes -> BOOLEAN] /\ response' \in [Nodes -> Requests \cup {None}]
          /\ \A m \in Nodes : received'[m] <=> response'[m] # None
      BY <1>c, <2>0 DEF Starting, Reset, TypeOK
    <3>4. /\ status' \in [Nodes -> {"NONE", "IDLE", "RUNNING"}] /\ late' \in [Nodes -> BOOLEAN]
          /\ threw' \subseteq Nodes
      BY <1>4, <1>c, <2>0 DEF Start, Starting, RunBegins, TypeOK
    <3> QED
      BY <2>1, <3>1, <3>2, <3>3, <3>4 DEF TypeOK, ClientInv
  <2>5. ASSUME NEW m \in Nodes \ {n}
        PROVE  RunInv(m)'
    <3>1. /\ status'[m] = status[m] /\ run'[m] = run[m]
          /\ received'[m] = received[m] /\ response'[m] = response[m]
      BY <1>c, <2>0 DEF Starting, RunBegins, Reset, TypeOK
    <3>2. status[m] = "RUNNING" => Current(m) \in Requests /\ ~Gone(Current(m)) /\ Current(m) # new
      BY <1>c, <2>1, CurrentFacts, HeldIsOpen DEF Current
    <3>3. status[m] = "RUNNING" => /\ request'[Current(m)] = request[Current(m)]
                                   /\ via'[Current(m)] = via[Current(m)]
      BY <2>3, <3>2
    <3> QED
      BY <1>c, <2>1, <3>1, <3>3, RunKept
  <2>6. RunInv(n)'
    <3>1. run'[n] = run[n] + 1 /\ run'[n] # 0 /\ received'[n] = FALSE
      BY <1>c, <2>0, <2>2 DEF Starting, RunBegins, Reset, TypeOK
    <3>2. Current(n)' = new /\ via'[new] = client'[n]
      BY <2>2, <2>3, <3>1 DEF Current
    <3> QED
      BY <2>1, <3>1, <3>2 DEF RunInv
  <2>7. FutureUnsent'
    <3>1. ASSUME NEW r \in Requests, r[2] > run'[r[1]] PROVE request'[r] = "unsent"
      <4>1. r[1] \in Nodes /\ r[2] \in Nat /\ run[r[1]] \in Nat
        BY <1>c, RequestParts DEF TypeOK
      <4>2. r[2] > run[r[1]] /\ r # new
        BY <1>c, <2>0, <3>1, <4>1 DEF RunBegins, TypeOK
      <4> QED
        BY <1>f, <2>3, <4>2 DEF FutureUnsent, Gone
    <3> QED
      BY <3>1 DEF FutureUnsent
  <2> QED
    BY <2>1, <2>4, <2>5, <2>6, <2>7 DEF IInv
<1>5. ASSUME NEW n \in Nodes, NEW R \in SUBSET Arrived(n),
             Report(n, R) \/ StillWaiting(n, R) \/ Timeout(n, R) \/ TickThrows(n, R)
      PROVE  IInv'
  <2>1. /\ request' = [r \in Requests |-> IF r \in R THEN "received" ELSE request[r]]
        /\ via' = [r \in Requests |-> IF r \in R THEN None ELSE via[r]]
        /\ UNCHANGED <<clientVars, run>> /\ status[n] = "RUNNING"
    BY <1>5 DEF Report, StillWaiting, Timeout, TickThrows, Spin, leafVars
  <2>2. ClientInv' /\ client' = client
    BY <1>c, <2>1, SameClients DEF clientVars
  <2>3. Current(n) \in Requests
    BY <2>1, CurrentFacts
  <2>4. /\ status' \in [Nodes -> {"NONE", "IDLE", "RUNNING"}] /\ late' \in [Nodes -> BOOLEAN]
        /\ threw' \subseteq Nodes
    BY <1>5, <1>c DEF Report, StillWaiting, Timeout, TickThrows, EndRun, CallbackThrows, TypeOK,
                      leafVars
  <2>5. /\ received' \in [Nodes -> BOOLEAN] /\ response' \in [Nodes -> Requests \cup {None}]
        /\ \A m \in Nodes : received'[m] <=> response'[m] # None
    <3>1. CASE Report(n, R)
      <4>1. /\ received' = [received EXCEPT ![n] = TRUE]
            /\ response' = [response EXCEPT ![n] = IF received[n] THEN response[n] ELSE Current(n)]
        BY <3>1 DEF Report
      <4> QED
        BY <1>c, <2>3, <4>1, NoneAssumption DEF TypeOK
    <3>2. CASE received' = received /\ response' = response
      BY <1>c, <3>2 DEF TypeOK
    <3> QED
      BY <1>5, <3>1, <3>2 DEF StillWaiting, Timeout, TickThrows, leafVars
  <2>6. TypeOK'
    <3>1. /\ request' \in [Requests -> {"unsent", "sent", "answered", "received", "lost"}]
          /\ via' \in [Requests -> Clients \cup {None}]
      BY <1>c, <2>1 DEF TypeOK
    <3>2. run' \in [Nodes -> Nat] /\ \A m \in Nodes : run'[m] <= Runs[m]
      BY <1>c, <2>1 DEF TypeOK
    <3> QED
      BY <2>2, <2>4, <2>5, <3>1, <3>2 DEF TypeOK, ClientInv
  <2>7. ASSUME NEW m \in Nodes \ {n}
        PROVE  RunInv(m)'
    <3>1. /\ status'[m] = status[m] /\ received'[m] = received[m] /\ response'[m] = response[m]
      BY <1>5, <1>c DEF Report, StillWaiting, Timeout, TickThrows, EndRun, CallbackThrows,
                        TypeOK, leafVars
    <3>2. status[m] = "RUNNING" =>
             /\ request'[Current(m)] \in {"sent", "answered"} =>
                    /\ request[Current(m)] \in {"sent", "answered"}
                    /\ via'[Current(m)] = via[Current(m)]
             /\ request[Current(m)] = "received" => request'[Current(m)] = "received"
      BY <2>1, CurrentFacts
    <3> QED
      BY <1>c, <2>1, <2>2, <3>1, <3>2, RunKept
  <2>8. RunInv(n)'
    <3>1. /\ client'[n] # None /\ run'[n] # 0 /\ Current(n)' = Current(n)
          /\ request'[Current(n)] \in {"sent", "answered"} => via'[Current(n)] = client'[n]
      BY <1>c, <2>1, <2>2, <2>3 DEF RunInv, Current
    <3>2. received'[n] => response'[n] = Current(n) /\ request'[Current(n)] = "received"
      <4>1. CASE received[n]
        <5>1. response[n] = Current(n) /\ request'[Current(n)] = "received"
          BY <1>c, <2>1, <2>3, <4>1 DEF RunInv
        <5>2. response'[n] = response[n]
          BY <1>5, <1>c, <4>1 DEF Report, StillWaiting, Timeout, TickThrows, TypeOK, leafVars
        <5> QED
          BY <5>1, <5>2
      <4>2. CASE ~received[n] /\ received'[n]
        <5>1. Report(n, R)
          BY <1>5, <4>2 DEF StillWaiting, Timeout, TickThrows, leafVars
        <5>2. Complete(n) /\ response'[n] = Current(n)
          BY <1>c, <4>2, <5>1 DEF Report, TypeOK
        <5> QED
          BY <5>2 DEF Complete
      <4> QED
        BY <4>1, <4>2
    <3> QED
      BY <3>1, <3>2 DEF RunInv
  <2>9. FutureUnsent'
    BY <1>5, <1>g, <2>1 DEF Arrived
  <2> QED
    BY <2>2, <2>6, <2>7, <2>8, <2>9 DEF IInv
<1>6. ASSUME NEW n \in Nodes, Halt(n) \/ TimePasses(n)
      PROVE  IInv'
  <2>1. ClientInv' /\ client' = client
    BY <1>6, <1>c, SameClients DEF Halt, TimePasses, clientVars
  <2>2. UNCHANGED <<run, received, response, request, via>>
    BY <1>6 DEF Halt, TimePasses
  <2>3. /\ status' \in [Nodes -> {"NONE", "IDLE", "RUNNING"}] /\ late' \in [Nodes -> BOOLEAN]
        /\ threw' \subseteq Nodes
        /\ \A m \in Nodes : status'[m] = "RUNNING" => status[m] = "RUNNING"
    BY <1>6, <1>c DEF Halt, TimePasses, EndRun, TypeOK
  <2>4. TypeOK'
    BY <1>c, <2>1, <2>2, <2>3 DEF TypeOK, ClientInv
  <2>5. \A m \in Nodes : RunInv(m)'
    BY <1>c, <2>1, <2>2, <2>3 DEF RunInv, Current
  <2> QED
    BY <1>g, <2>1, <2>2, <2>4, <2>5 DEF IInv
<1>7. ASSUME NEW q \in Requests, Answer(q) \/ Lose(q)
      PROVE  IInv'
  <2>1. ClientInv' /\ client' = client
    BY <1>7, <1>c, SameClients DEF Answer, Lose, clientVars
  <2>2. UNCHANGED <<status, run, received, response, late, threw>>
    BY <1>7 DEF Answer, Lose, leafVars
  <2>3. /\ request' \in [Requests -> {"unsent", "sent", "answered", "received", "lost"}]
        /\ via' \in [Requests -> Clients \cup {None}]
    BY <1>7, <1>c DEF Answer, Lose, TypeOK
  <2>4. TypeOK'
    BY <1>c, <2>1, <2>2, <2>3 DEF TypeOK, ClientInv
  <2>5. \A r \in Requests : /\ request'[r] \in {"sent", "answered"} =>
                                 request[r] \in {"sent", "answered"} /\ via'[r] = via[r]
                            /\ request[r] = "received" => request'[r] = "received"
    BY <1>7, <1>c DEF Answer, Lose, TypeOK
  <2>6. \A m \in Nodes : RunInv(m)'
    BY <1>c, <2>1, <2>2, <2>5, CurrentFacts, RunKept
  <2>7. FutureUnsent'
    BY <1>7, <1>c, <1>g, <2>2 DEF Answer, Lose, TypeOK
  <2> QED
    BY <2>1, <2>4, <2>6, <2>7 DEF IInv
<1>8. CASE UNCHANGED vars
  <2>1. ClientInv'
    BY <1>8, <1>c, SameClients DEF vars
  <2>2. TypeOK'
    BY <1>8, <1>c, <2>1 DEF vars, leafVars, TypeOK, ClientInv
  <2>3. FutureUnsent' /\ \A m \in Nodes : RunInv(m)'
    BY <1>8, <1>c, <1>g DEF vars, leafVars, clientVars, RunInv, Current
  <2> QED
    BY <2>1, <2>2, <2>3 DEF IInv
<1> QED
  BY <1>1, <1>2, <1>3, <1>4, <1>5, <1>6, <1>7, <1>8 DEF Next, TickRunning

LEMMA IInvHolds == Spec => []IInv
  BY InitIInv, NextIInv, PTL DEF Spec

-----------------------------------------------------------------------------

\* Leaves, requests, clients and the registry keep their types.
THEOREM TypeCorrect == Spec => []TypeOK
<1>1. IInv => TypeOK
  BY DEF IInv
<1> QED
  BY <1>1, IInvHolds, PTL

\* A leaf holds a client of the name it was given, and a name is registered with a
\* client of its own (lines 256-296), although identities are used again.
THEOREM OwnNames == Spec => []OwnName
<1>1. IInv => OwnName
  BY SpecialAssumption DEF IInv, ClientInv, ClientsTypeOK, HeldIsRegistered, RegisteredServes,
                           OwnName
<1> QED
  BY <1>1, IInvHolds, PTL

\* createClient() (lines 256-296) shares clients by name until the first one of the
\* name is gone, for any number of leaves and names.
THEOREM ClientsAreShared == Spec => []SharedByName
<1>1. IInv => SharedByName
  BY DEF IInv, ClientInv, HeldIsRegistered, SharedByName
<1> QED
  BY <1>1, IInvHolds, PTL

\* The response to a running leaf's request comes in through the client that the
\* leaf spins (lines 371-383), whatever other leaves do.
THEOREM AnswersComeHere == Spec => []AnswerComesHere
<1>1. IInv => AnswerComesHere
  BY DEF IInv, ClientInv, HeldIsRegistered, RunInv, AnswerComesHere
<1> QED
  BY <1>1, IInvHolds, PTL

\* A run asks the service that the blackboard names (lines 314-331).
THEOREM AsksNamed == Spec => AsksTheServiceNamed
<1> DEFINE Asks == \A n \in Nodes, k \in Names :
                      Start(n, k) /\ n \in Checked => serves'[client'[n]] = k
<1>1. IInv /\ [Next]_vars => [Asks]_vars
  <2> SUFFICES ASSUME IInv, NEW n \in Nodes, NEW k \in Names, Start(n, k), n \in Checked
               PROVE  serves'[client'[n]] = k
    OBVIOUS
  <2>1. ClientInv' /\ client'[n] # None /\ name'[n] = k
    BY UpdateKeeps DEF Start, Starting, IInv
  <2> QED
    BY <2>1 DEF ClientInv, HeldIsRegistered
<1> QED
  BY <1>1, IInvHolds, PTL DEF AsksTheServiceNamed, Spec

\* onResponseReceived() (lines 396-410) is given the response to the run's own request.
THEOREM OwnResponses == Spec => OwnResponse
<1> DEFINE Own == \A n \in Nodes : TickRunning(n) /\ received'[n]
                      => response'[n] = Current(n) /\ request'[Current(n)] = "received"
<1>1. IInv /\ [Next]_vars => [Own]_vars
  <2> SUFFICES ASSUME IInv, NEW n \in Nodes, TickRunning(n), received'[n]
               PROVE  response'[n] = Current(n) /\ request'[Current(n)] = "received"
    OBVIOUS
  <2>1. PICK R \in SUBSET Arrived(n) :
               Report(n, R) \/ StillWaiting(n, R) \/ Timeout(n, R) \/ TickThrows(n, R)
    BY DEF TickRunning
  <2>2. /\ request' = [r \in Requests |-> IF r \in R THEN "received" ELSE request[r]]
        /\ status[n] = "RUNNING" /\ Current(n) \in Requests
    BY <2>1, CurrentFacts DEF Report, StillWaiting, Timeout, TickThrows, Spin
  <2>3. CASE received[n]
    <3>1. response[n] = Current(n) /\ request[Current(n)] = "received"
      BY <2>2, <2>3 DEF IInv, RunInv
    <3>2. response'[n] = response[n]
      BY <2>1, <2>3 DEF Report, StillWaiting, Timeout, TickThrows, IInv, TypeOK, leafVars
    <3> QED
      BY <2>2, <3>1, <3>2
  <2>4. CASE ~received[n]
    <3>1. Report(n, R)
      BY <2>1, <2>4 DEF StillWaiting, Timeout, TickThrows, leafVars
    <3>2. Complete(n) /\ response'[n] = Current(n)
      BY <2>4, <3>1 DEF Report, IInv, TypeOK
    <3> QED
      BY <3>2 DEF Complete
  <2> QED
    BY <2>3, <2>4
<1> QED
  BY <1>1, IInvHolds, PTL DEF OwnResponse, Spec
-----------------------------------------------------------------------------
(* RosTopicNodes: leaves that share subscribers in the same way.           *)

\* A subscriber has messages of its own topic, and the one that waits is newer than
\* the one it keeps.
QueueInv(c) ==
    /\ waiting[c] # None => waiting[c][1] = serves[c] /\ waiting[c][2] <= sent[waiting[c][1]]
    /\ kept[c] # None => kept[c][1] = serves[c] /\ kept[c][2] <= sent[kept[c][1]]
    /\ waiting[c] # None /\ kept[c] # None => waiting[c][2] > kept[c][2]

\* A leaf has messages that were sent, and one that never changed its topic has no
\* connection to the signal of another.
SeenInv(n) ==
    /\ lastMsg[n] # None => lastMsg[n][2] <= sent[lastMsg[n][1]]
    /\ \A k \in Names : handed[n][k] <= sent[k]
    /\ \A c \in Clients : <<n, c>> \in stale => n \in renamed

\* What such a leaf was given is older than what it has, unless it keeps that, which is
\* older than what waits in its subscriber.
NewerInv(n) ==
    n \notin renamed =>
        /\ \A k \in Names : handed[n][k] > 0 => name[n] = k
        /\ lastMsg[n] # None => /\ lastMsg[n][1] = name[n]
                                /\ lastMsg[n][2] >= handed[n][name[n]]
                                /\ n \notin Latch \cup thrown =>
                                       lastMsg[n][2] > handed[n][name[n]]
        /\ client[n] # None /\ waiting[client[n]] # None =>
               /\ waiting[client[n]][2] > handed[n][name[n]]
               /\ lastMsg[n] # None => waiting[client[n]][2] > lastMsg[n][2]

LeavesInv == \A n \in Nodes : SeenInv(n) /\ NewerInv(n)

TopicInv ==
    /\ TopicTypeOK /\ ClientInv
    /\ \A c \in Clients : QueueInv(c)
    /\ LeavesInv
    /\ stale # {} \/ dangling # {} \/ fault => moved

LEMMA MessageFacts ==
  /\ Limit \in Nat /\ None \notin Nodes /\ None \notin Messages
  /\ \A m \in Messages :
         m[1] \in Names /\ m[2] \in 1 .. Limit /\ m # None /\ m = <<m[1], m[2]>>
  BY LimitAssumption, LeavesAssumption, MessageAssumption DEF Messages

LEMMA InitTopicInv ==
  ASSUME TopicInit
  PROVE  TopicInv
<1>1. ClientInv
  BY InitClientInv DEF TopicInit, InitClients
<1>2. TopicTypeOK
  <2>1. ClientsTypeOK /\ \A n \in Nodes : client[n] = None
    BY <1>1 DEF TopicInit, InitClients, ClientsTypeOK, ClientInv, ClientsTypeOK
  <2>2. /\ lastMsg \in [Nodes -> Messages \cup {None}]
        /\ waiting \in [Clients -> Messages \cup {None}]
        /\ kept \in [Clients -> Messages \cup {None}]
    BY DEF TopicInit
  <2>3. /\ topic \in [Publishers -> Names \cup {None}] /\ sent \in [Names -> 0 .. Limit]
        /\ handed \in [Nodes -> [Names -> 0 .. Limit]]
    BY MessageFacts DEF TopicInit
  <2>4. built = {} /\ stale = {} /\ dangling = {} /\ turn = None /\ renamed = {}
        /\ moved = FALSE /\ thrown = {} /\ fault = FALSE
    BY DEF TopicInit
  <2> QED
    BY <2>1, <2>2, <2>3, <2>4 DEF TopicTypeOK
<1>3. (\A c \in Clients : QueueInv(c)) /\ LeavesInv
  BY DEF TopicInit, QueueInv, LeavesInv, SeenInv, NewerInv, InitClients
<1>4. ~(stale # {} \/ dangling # {} \/ fault)
  BY DEF TopicInit
<1> QED
  BY <1>1, <1>2, <1>3, <1>4 DEF TopicInv

\* A subscriber that outlives a step keeps its messages, any other has none.
LEMMA PurgeKeeps ==
  ASSUME TopicInv, NEW left, NEW gone, Purge(left, gone), sent' = sent
  PROVE  /\ \A c \in Clients : QueueInv(c)'
         /\ waiting' \in [Clients -> Messages \cup {None}]
         /\ kept' \in [Clients -> Messages \cup {None}]
         /\ stale' \subseteq left /\ dangling' \subseteq gone
         /\ \A c \in Clients : /\ waiting'[c] \in {waiting[c], None}
                               /\ kept'[c] \in {kept[c], None}
<1>1. waiting \in [Clients -> Messages \cup {None}]
      /\ kept \in [Clients -> Messages \cup {None}]
  BY DEF TopicInv, TopicTypeOK
<1>2. \A c \in Clients :
         \/ serves'[c] = serves[c] /\ waiting'[c] = waiting[c] /\ kept'[c] = kept[c]
         \/ waiting'[c] = None /\ kept'[c] = None
  BY DEF Purge, Alive
<1>3. \A c \in Clients : QueueInv(c)'
  BY <1>2 DEF TopicInv, QueueInv
<1>4. /\ waiting' \in [Clients -> Messages \cup {None}]
      /\ kept' \in [Clients -> Messages \cup {None}]
      /\ stale' \subseteq left /\ dangling' \subseteq gone
  BY <1>1 DEF Purge
<1> QED
  BY <1>2, <1>3, <1>4

\* createSubscriber() for a leaf that has no client or has changed its topic.
LEMMA SubscriberKeeps ==
  ASSUME TopicInv, NEW n \in Nodes, NEW k \in Names,
         CreateSubscriber(n, k), UNCHANGED <<sent, handed, thrown>>,
         renamed' = IF client[n] = None THEN renamed ELSE renamed \cup {n}
  PROVE  /\ ClientInv' /\ client'[n] \in Clients
         /\ \A m \in Nodes \ {n} : client'[m] = client[m]
         /\ lastMsg' \in [Nodes -> Messages \cup {None}]
         /\ waiting' \in [Clients -> Messages \cup {None}]
         /\ kept' \in [Clients -> Messages \cup {None}]
         /\ stale' \subseteq stale \cup (IF client[n] = None THEN {} ELSE {<<n, client[n]>>})
         /\ dangling' \subseteq dangling
         /\ \A c \in Clients : QueueInv(c)'
         /\ LeavesInv'
<1> DEFINE left == stale \cup (IF client[n] = None THEN {} ELSE {<<n, client[n]>>})
<1>a. /\ TopicTypeOK /\ ClientInv /\ LeavesInv /\ \A c \in Clients : QueueInv(c)
      /\ handed \in [Nodes -> [Names -> 0 .. Limit]]
      /\ lastMsg \in [Nodes -> Messages \cup {None}]
  BY DEF TopicInv, TopicTypeOK
<1>1. CreateClient(n, k) /\ Purge(left, dangling)
  BY DEF CreateSubscriber, CreateClient, Keep,
         Free, Fresh
<1>2. ClientInv' /\ client'[n] \in Clients /\ name'[n] = k
  BY <1>1, <1>a, CreateKeeps
<1>3. \A m \in Nodes \ {n} : client'[m] = client[m] /\ name'[m] = name[m]
  BY <1>1, <1>a DEF CreateClient, ClientInv, ClientsTypeOK
<1>4. /\ \A c \in Clients : QueueInv(c)'
      /\ waiting' \in [Clients -> Messages \cup {None}]
      /\ kept' \in [Clients -> Messages \cup {None}]
      /\ stale' \subseteq left /\ dangling' \subseteq dangling
      /\ \A c \in Clients : waiting'[c] \in {waiting[c], None} /\ kept'[c] \in {kept[c], None}
  BY <1>1, PurgeKeeps
<1>5. /\ lastMsg' = [lastMsg EXCEPT ![n] = IF kept'[client'[n]] # None
                                          THEN kept'[client'[n]] ELSE lastMsg[n]]
      /\ lastMsg' \in [Nodes -> Messages \cup {None}]
  BY <1>a, <1>2, <1>4 DEF CreateSubscriber
<1>6. ASSUME NEW m \in Nodes \ {n}
      PROVE  SeenInv(m)' /\ NewerInv(m)'
  <2>1. /\ lastMsg'[m] = lastMsg[m] /\ (m \in renamed' <=> m \in renamed)
        /\ SeenInv(m) /\ NewerInv(m)
    BY <1>5, <1>a DEF LeavesInv
  <2>2. \A c \in Clients : <<m, c>> \in stale' => <<m, c>> \in stale
    BY <1>4
  <2>3. SeenInv(m)'
    BY <2>1, <2>2 DEF SeenInv
  <2>4. client[m] # None => client[m] \in Clients /\ waiting'[client[m]] \in {waiting[client[m]], None}
    BY <1>a, <1>4 DEF ClientInv, ClientsTypeOK
  <2>5. NewerInv(m)'
    BY <1>3, <2>1, <2>4 DEF NewerInv
  <2> QED
    BY <2>3, <2>5
<1>7. SeenInv(n)'
  <2>1. lastMsg'[n] # None => lastMsg'[n][2] <= sent[lastMsg'[n][1]]
    BY <1>a, <1>2, <1>4, <1>5 DEF LeavesInv, SeenInv, QueueInv
  <2>2. \A c \in Clients : <<n, c>> \in stale' => n \in renamed'
    BY <1>4, <1>a DEF LeavesInv, SeenInv
  <2> QED
    BY <1>a, <2>1, <2>2 DEF LeavesInv, SeenInv
<1>8. NewerInv(n)'
  <2> DEFINE c == client'[n]
  <2> SUFFICES ASSUME n \notin renamed' PROVE NewerInv(n)'
    BY DEF NewerInv
  <2>1. n \notin renamed /\ name[n] = None
    BY <1>a DEF ClientInv, HeldIsRegistered
  <2>2. \A j \in Names : handed'[n][j] = 0
    BY <1>a, <2>1, MessageFacts, SpecialAssumption DEF LeavesInv, NewerInv
  <2>3. lastMsg[n] = None
    BY <1>a, <2>1, MessageFacts, SpecialAssumption DEF LeavesInv, NewerInv
  <2>4. lastMsg'[n] = kept'[c]
    BY <1>a, <1>5, <2>3
  <2>5. serves'[c] = k
    BY <1>2, SpecialAssumption DEF ClientInv, HeldIsRegistered
  <2>6. kept'[c] # None => kept'[c][1] = k /\ kept'[c][2] > 0
    BY <1>2, <1>4, <2>5, MessageFacts DEF QueueInv
  <2>7. waiting'[c] # None => /\ waiting'[c][2] > 0
                              /\ kept'[c] # None => waiting'[c][2] > kept'[c][2]
    BY <1>2, <1>4, MessageFacts DEF QueueInv
  <2>8. kept'[c] # None => kept'[c][2] >= 0
    BY <1>2, <1>4, MessageFacts
  <2> HIDE DEF c
  <2>9. c = client'[n]
    BY DEF c
  <2> QED
    BY <1>2, <2>2, <2>4, <2>6, <2>7, <2>8, <2>9 DEF NewerInv
<1> QED
  BY <1>2, <1>3, <1>4, <1>5, <1>6, <1>7, <1>8 DEF LeavesInv

LEMMA TickKeeps ==
  ASSUME TopicInv, NEW n \in Nodes, NEW k \in Names \cup {None},
         Tick(n, k)
  PROVE  TopicInv'
<1>a. /\ TopicTypeOK /\ ClientInv /\ LeavesInv /\ \A c \in Clients : QueueInv(c)
      /\ stale # {} \/ dangling # {} \/ fault => moved
  BY DEF TopicInv
<1>1. /\ n \in built /\ turn' = n
      /\ k = None => client[n] # None
      /\ UNCHANGED <<built, topic, sent, handed, thrown, fault>>
  BY DEF Tick, pubVars
<1>2. CASE k \in {None, name[n]}
  <2>1. UNCHANGED <<name, client, serves, registry, lastMsg, waiting, kept, stale, dangling,
                    renamed, moved>>
    BY <1>2 DEF Tick, clientVars
  <2>2. client[n] # None
    BY <1>1, <1>2, <1>a, SpecialAssumption DEF Tick, ClientInv, HeldIsRegistered
  <2>3. ClientInv'
    BY <1>a, <2>1, SameClients DEF clientVars
  <2>4. TopicTypeOK'
    <3>1. ClientsTypeOK'
      BY <1>a, <2>1 DEF TopicTypeOK, ClientsTypeOK
    <3>2. turn' \in built \cup {None} /\ (turn' # None => client'[turn'] # None)
      BY <1>1, <2>1, <2>2
    <3> QED
      BY <1>a, <1>1, <2>1, <3>1, <3>2 DEF TopicTypeOK
  <2>5. (\A c \in Clients : QueueInv(c)') /\ LeavesInv'
    BY <1>a, <1>1, <2>1 DEF QueueInv, LeavesInv, SeenInv, NewerInv
  <2> QED
    BY <1>a, <1>1, <2>1, <2>3, <2>4, <2>5 DEF TopicInv
<1>3. CASE k \notin {None, name[n]}
  <2>1. /\ CreateSubscriber(n, k) /\ k \in Names
        /\ renamed' = IF client[n] = None THEN renamed ELSE renamed \cup {n}
        /\ moved' = (moved \/ client[n] # None)
    BY <1>3 DEF Tick
  <2>2. /\ ClientInv' /\ client'[n] \in Clients
        /\ \A m \in Nodes \ {n} : client'[m] = client[m]
        /\ lastMsg' \in [Nodes -> Messages \cup {None}]
        /\ waiting' \in [Clients -> Messages \cup {None}]
        /\ kept' \in [Clients -> Messages \cup {None}]
        /\ stale' \subseteq stale \cup (IF client[n] = None THEN {} ELSE {<<n, client[n]>>})
        /\ dangling' \subseteq dangling
        /\ \A c \in Clients : QueueInv(c)'
        /\ LeavesInv'
    BY <1>1, <2>1, SubscriberKeeps
  <2>3. stale' \subseteq built \X Clients
    BY <1>a, <1>1, <2>2 DEF TopicTypeOK, ClientInv, ClientsTypeOK
  <2>4. ClientsTypeOK'
    BY <2>2 DEF ClientsTypeOK, ClientInv, ClientsTypeOK
  <2>5. TopicTypeOK'
    <3>1. turn' \in built' \cup {None} /\ (turn' # None => client'[turn'] # None)
      BY <1>1, <2>2, SpecialAssumption
    <3>2. \A m \in Nodes : client'[m] # None => m \in built'
      BY <1>a, <1>1, <2>2 DEF TopicTypeOK
    <3>3. renamed' \subseteq built' /\ moved' \in BOOLEAN
      BY <1>a, <1>1, <2>1 DEF TopicTypeOK
    <3>4. dangling' \subseteq Clients /\ stale' \subseteq built' \X Clients
      BY <1>a, <1>1, <2>2, <2>3 DEF TopicTypeOK
    <3> QED
      BY <1>a, <1>1, <2>2, <2>4, <3>1, <3>2, <3>3, <3>4 DEF TopicTypeOK
  <2>6. stale' # {} \/ dangling' # {} \/ fault' => moved'
    BY <1>a, <1>1, <2>1, <2>2
  <2> QED
    BY <2>2, <2>5, <2>6 DEF TopicInv
<1> QED
  BY <1>2, <1>3

LEMMA ConstructKeeps ==
  ASSUME TopicInv, NEW n \in Nodes, NEW k \in Names \cup {None},
         ConstructSub(n, k)
  PROVE  TopicInv'
<1>a. /\ TopicTypeOK /\ ClientInv /\ LeavesInv /\ \A c \in Clients : QueueInv(c)
      /\ stale # {} \/ dangling # {} \/ fault => moved
  BY DEF TopicInv
<1>1. /\ n \notin built /\ client[n] = None /\ built' = built \cup {n}
      /\ UNCHANGED <<turn, topic, sent, handed, renamed, moved, thrown, fault>>
  BY <1>a DEF ConstructSub, TopicTypeOK, pubVars, history
<1>2. CASE k = None
  <2>1. UNCHANGED <<name, client, serves, registry, lastMsg, waiting, kept, stale, dangling>>
    BY <1>2 DEF ConstructSub, clientVars
  <2>2. ClientInv'
    BY <1>a, <2>1, SameClients DEF clientVars
  <2>3. TopicTypeOK'
    BY <1>a, <1>1, <2>1 DEF TopicTypeOK, ClientsTypeOK
  <2>4. (\A c \in Clients : QueueInv(c)') /\ LeavesInv'
    BY <1>a, <1>1, <2>1 DEF QueueInv, LeavesInv, SeenInv, NewerInv
  <2> QED
    BY <1>a, <1>1, <2>1, <2>2, <2>3, <2>4 DEF TopicInv
<1>3. CASE k # None
  <2>1. CreateSubscriber(n, k) /\ k \in Names
    BY <1>3 DEF ConstructSub
  <2>2. /\ ClientInv' /\ client'[n] \in Clients
        /\ \A m \in Nodes \ {n} : client'[m] = client[m]
        /\ lastMsg' \in [Nodes -> Messages \cup {None}]
        /\ waiting' \in [Clients -> Messages \cup {None}]
        /\ kept' \in [Clients -> Messages \cup {None}]
        /\ stale' \subseteq stale \cup (IF client[n] = None THEN {} ELSE {<<n, client[n]>>})
        /\ dangling' \subseteq dangling
        /\ \A c \in Clients : QueueInv(c)'
        /\ LeavesInv'
    BY <1>1, <2>1, SubscriberKeeps
  <2>3. stale' \subseteq stale
    BY <1>1, <2>2
  <2>4. ClientsTypeOK'
    BY <2>2 DEF ClientsTypeOK, ClientInv, ClientsTypeOK
  <2>5. turn' # None => client'[turn'] # None
    BY <1>a, <1>1, <2>2, SpecialAssumption DEF TopicTypeOK
  <2>6. TopicTypeOK'
    <3>1. turn' \in built' \cup {None} /\ renamed' \subseteq built' /\ thrown' \subseteq built'
      BY <1>a, <1>1 DEF TopicTypeOK
    <3>2. built' \subseteq Nodes /\ \A m \in Nodes : client'[m] # None => m \in built'
      BY <1>a, <1>1, <2>2 DEF TopicTypeOK
    <3>3. dangling' \subseteq Clients /\ stale' \subseteq built' \X Clients
      BY <1>a, <1>1, <2>2, <2>3 DEF TopicTypeOK
    <3> QED
      BY <1>a, <1>1, <2>2, <2>4, <2>5, <3>1, <3>2, <3>3 DEF TopicTypeOK
  <2> QED
    BY <1>a, <1>1, <2>2, <2>3, <2>6 DEF TopicInv
<1> QED
  BY <1>2, <1>3

LEMMA DestroyKeeps ==
  ASSUME TopicInv, NEW n \in Nodes, DestroySub(n)
  PROVE  TopicInv'
<1> DEFINE left == {s \in stale : s[1] # n}
           gone == dangling \cup {s[2] : s \in {t \in stale : t[1] = n}}
<1>a. /\ TopicTypeOK /\ ClientInv /\ LeavesInv /\ \A c \in Clients : QueueInv(c)
      /\ stale # {} \/ dangling # {} \/ fault => moved
  BY DEF TopicInv
<1>1. /\ turn = None /\ Purge(left, gone)
      /\ built' = built \ {n} /\ lastMsg' = [lastMsg EXCEPT ![n] = None]
      /\ handed' = [handed EXCEPT ![n] = [k \in Names |-> 0]]
      /\ renamed' = renamed \ {n} /\ thrown' = thrown \ {n}
      /\ UNCHANGED <<turn, topic, sent, moved, fault>>
  BY DEF DestroySub, Disconnect, pubVars
<1>2. DropClient(n)
  BY DEF DestroySub, DropClient, Keep
<1>3. ClientInv'
  BY <1>2, <1>a, DropKeeps
<1>4. /\ client' = [client EXCEPT ![n] = None] /\ name' = [name EXCEPT ![n] = None]
      /\ client \in [Nodes -> Clients \cup {None}] /\ name \in [Nodes -> Names \cup {None}]
  BY <1>2, <1>a DEF DropClient, ClientInv, ClientsTypeOK
<1>5. /\ \A c \in Clients : QueueInv(c)'
      /\ waiting' \in [Clients -> Messages \cup {None}]
      /\ kept' \in [Clients -> Messages \cup {None}]
      /\ stale' \subseteq left /\ dangling' \subseteq gone
      /\ \A c \in Clients : waiting'[c] \in {waiting[c], None} /\ kept'[c] \in {kept[c], None}
  BY <1>1, PurgeKeeps
<1>6. stale' # {} \/ dangling' # {} \/ fault' => moved'
  BY <1>a, <1>1, <1>5
<1>7. TopicTypeOK'
  <2>1. ClientsTypeOK'
    BY <1>3 DEF ClientsTypeOK, ClientInv, ClientsTypeOK
  <2>2. stale' \subseteq built' \X Clients
    BY <1>1, <1>5, <1>a DEF TopicTypeOK
  <2>3. dangling' \subseteq Clients
    BY <1>5, <1>a DEF TopicTypeOK
  <2>4. lastMsg' \in [Nodes -> Messages \cup {None}]
    BY <1>1, <1>a DEF TopicTypeOK
  <2>5. handed' \in [Nodes -> [Names -> 0 .. Limit]]
    BY <1>1, <1>a, MessageFacts DEF TopicTypeOK
  <2>6. \A m \in Nodes : client'[m] # None => m \in built'
    BY <1>1, <1>4, <1>a DEF TopicTypeOK
  <2> QED
    BY <1>1, <1>5, <1>a, <2>1, <2>2, <2>3, <2>4, <2>5, <2>6 DEF TopicTypeOK
<1>8. ASSUME NEW m \in Nodes \ {n}
      PROVE  SeenInv(m)' /\ NewerInv(m)'
  <2>1. /\ lastMsg'[m] = lastMsg[m] /\ handed'[m] = handed[m] /\ client'[m] = client[m]
        /\ name'[m] = name[m] /\ (m \in renamed' <=> m \in renamed)
        /\ (m \in thrown' <=> m \in thrown) /\ SeenInv(m) /\ NewerInv(m)
    BY <1>1, <1>4, <1>a DEF LeavesInv, TopicTypeOK
  <2>2. \A c \in Clients : <<m, c>> \in stale' => <<m, c>> \in stale
    BY <1>5
  <2>3. client[m] # None => client[m] \in Clients /\ waiting'[client[m]] \in {waiting[client[m]], None}
    BY <1>4, <1>5
  <2>4. SeenInv(m)'
    BY <1>1, <2>1, <2>2 DEF SeenInv
  <2>5. NewerInv(m)'
    BY <2>1, <2>3 DEF NewerInv
  <2> QED
    BY <2>4, <2>5
<1>9. SeenInv(n)' /\ NewerInv(n)'
  <2>1. /\ lastMsg'[n] = None /\ client'[n] = None /\ \A k \in Names : handed'[n][k] = 0
    BY <1>1, <1>4, <1>a DEF TopicTypeOK
  <2>2. \A k \in Names : sent'[k] >= 0
    BY <1>1, <1>a, MessageFacts DEF TopicTypeOK
  <2>3. \A c \in Clients : <<n, c>> \notin stale'
    BY <1>5
  <2> QED
    BY <2>1, <2>2, <2>3 DEF SeenInv, NewerInv
<1> QED
  BY <1>3, <1>5, <1>6, <1>7, <1>8, <1>9 DEF TopicInv, LeavesInv

\* tick() from the spin on: the message that waits goes to every leaf connected.
LEMMA ProcessKeeps ==
  ASSUME TopicInv, Process
  PROVE  /\ TopicInv'
         /\ Given # None /\ turn \notin renamed =>
               LET last == handed[turn][Given[1]] IN
               \/ Given[2] > last
               \/ turn \in Latch \cup thrown /\ Given[2] = last
<1> DEFINE c == client[turn]
           m == waiting[c]
           g == Given
           next == [n \in Nodes |-> IF m # None /\ n \in Receivers(c)
                                    THEN m ELSE lastMsg[n]]
<1>a. /\ TopicTypeOK /\ ClientInv /\ LeavesInv /\ \A d \in Clients : QueueInv(d)
      /\ stale # {} \/ dangling # {} \/ fault => moved
      /\ waiting \in [Clients -> Messages \cup {None}]
      /\ kept \in [Clients -> Messages \cup {None}]
      /\ lastMsg \in [Nodes -> Messages \cup {None}]
      /\ handed \in [Nodes -> [Names -> 0 .. Limit]]
      /\ sent \in [Names -> 0 .. Limit]
  BY DEF TopicInv, TopicTypeOK
<1>1. /\ turn \in Nodes /\ turn' = None /\ c \in Clients
      /\ serves[c] = name[turn] /\ name[turn] \in Names /\ turn \in Receivers(c)
  BY <1>a, MessageFacts
  DEF Process, TopicTypeOK, Receivers, ClientInv, ClientsTypeOK, HeldIsRegistered
<1>2. /\ waiting' = [waiting EXCEPT ![c] = None]
      /\ kept' = [kept EXCEPT ![c] = IF m # None THEN m ELSE kept[c]]
      /\ fault' = (m # None /\ c \in dangling)
      /\ Forget(turn, next) \/ OnTickThrows(turn, next)
      /\ handed' = IF g = None THEN handed ELSE [handed EXCEPT ![turn][g[1]] = g[2]]
      /\ UNCHANGED <<name, client, serves, registry, built, stale, dangling, topic, sent,
                     renamed, moved>>
  BY DEF Process, clientVars, pubVars
<1>3. g = IF m # None THEN m ELSE lastMsg[turn]
  BY <1>1 DEF Given
<1>4. m \in Messages \cup {None} /\ g \in Messages \cup {None}
  BY <1>1, <1>3, <1>a
<1>5. /\ lastMsg' \in [Nodes -> Messages \cup {None}]
      /\ \A n \in Nodes \ {turn} : lastMsg'[n] = next[n]
      /\ lastMsg'[turn] # None => lastMsg'[turn] = g /\ turn \in Latch \cup thrown'
      /\ thrown' \in {thrown \ {turn}, thrown \cup {turn}}
  <2>1. next \in [Nodes -> Messages \cup {None}] /\ next[turn] = g
    BY <1>1, <1>3, <1>4, <1>a
  <2> HIDE DEF next
  <2> QED
    BY <1>1, <1>2, <2>1 DEF Forget, OnTickThrows
<1>6. /\ handed' \in [Nodes -> [Names -> 0 .. Limit]]
      /\ \A n \in Nodes \ {turn} : handed'[n] = handed[n]
      /\ g = None => handed'[turn] = handed[turn]
      /\ g # None => /\ g[1] \in Names /\ g[2] \in 1 .. Limit
                     /\ handed'[turn][g[1]] = g[2]
                     /\ \A k \in Names \ {g[1]} : handed'[turn][k] = handed[turn][k]
  <2>1. g # None => g[1] \in Names /\ g[2] \in 1 .. Limit
    BY <1>4, MessageFacts
  <2> HIDE DEF g
  <2> QED
    BY <1>1, <1>2, <1>a, <2>1, MessageFacts
<1>7. m # None => m[1] = name[turn] /\ m[2] <= sent[m[1]] /\ m[1] \in Names /\ m[2] \in 1 .. Limit
  BY <1>1, <1>4, <1>a, MessageFacts DEF QueueInv
<1>8. g # None => g[2] <= sent[g[1]]
  BY <1>1, <1>3, <1>7, <1>a DEF LeavesInv, SeenInv
<1>9. g # None /\ turn \notin renamed =>
         /\ g[1] = name[turn]
         /\ g[2] >= handed[turn][name[turn]]
         /\ g[2] > handed[turn][name[turn]] \/ (m = None /\ turn \in Latch \cup thrown)
  <2> SUFFICES ASSUME g # None, turn \notin renamed
               PROVE  /\ g[1] = name[turn]
                      /\ g[2] >= handed[turn][name[turn]]
                      /\ g[2] > handed[turn][name[turn]] \/ (m = None /\ turn \in Latch \cup thrown)
    OBVIOUS
  <2>1. NewerInv(turn) /\ c # None
    BY <1>1, <1>a, SpecialAssumption DEF LeavesInv
  <2>2. handed[turn][name[turn]] \in Nat /\ g[2] \in Nat
    BY <1>1, <1>6, <1>a, MessageFacts
  <2> QED
    BY <1>3, <1>7, <2>1, <2>2 DEF NewerInv
<1> HIDE DEF c, m, g, next
<1>10. TopicTypeOK'
  <2>1. ClientsTypeOK'
    BY <1>2, <1>a DEF TopicTypeOK, ClientsTypeOK
  <2>2. /\ waiting' \in [Clients -> Messages \cup {None}]
        /\ kept' \in [Clients -> Messages \cup {None}]
    BY <1>2, <1>4, <1>a
  <2>3. fault' \in BOOLEAN
    BY <1>2
  <2>4. turn \in built /\ thrown' \subseteq built
    BY <1>1, <1>5, <1>a, MessageFacts DEF TopicTypeOK
  <2> QED
    BY <1>1, <1>2, <1>5, <1>6, <1>a, <2>1, <2>2, <2>3, <2>4 DEF TopicTypeOK
<1>11. ClientInv'
  BY <1>2, <1>a, SameClients DEF clientVars
<1>12. stale' # {} \/ dangling' # {} \/ fault' => moved'
  BY <1>2, <1>a
<1>13. \A d \in Clients : QueueInv(d)'
  <2> SUFFICES ASSUME NEW d \in Clients PROVE QueueInv(d)'
    OBVIOUS
  <2>1. CASE d = c
    BY <1>1, <1>2, <1>7, <1>a, <2>1 DEF QueueInv
  <2>2. CASE d # c
    BY <1>2, <1>a, <2>2 DEF QueueInv
  <2> QED
    BY <2>1, <2>2
<1>p. PICK p \in Nodes : p = turn
  BY <1>1
<1>14. ASSUME NEW n \in Nodes \ {p}
       PROVE  SeenInv(n)' /\ NewerInv(n)'
  <2>1. \/ lastMsg'[n] = m /\ m # None /\ n \in Receivers(c)
        \/ lastMsg'[n] = lastMsg[n]
    BY <1>5, <1>p DEF next
  <2>2. SeenInv(n) /\ NewerInv(n) /\ handed'[n] = handed[n] /\ (n \in thrown' <=> n \in thrown)
    BY <1>5, <1>6, <1>a, <1>p DEF LeavesInv
  <2>3. SeenInv(n)'
    BY <1>2, <1>7, <2>1, <2>2 DEF SeenInv
  <2>4. NewerInv(n)'
    <3> SUFFICES ASSUME n \notin renamed PROVE NewerInv(n)'
      BY <1>2 DEF NewerInv
    <3>1. CASE client[n] = c
      <4>1. name[n] = name[turn] /\ c # None /\ waiting'[c] = None /\ waiting[c] = m
        BY <1>1, <1>2, <1>a, <3>1, SpecialAssumption
        DEF ClientInv, HeldIsRegistered, m
      <4>2. handed[n][name[n]] \in Nat
        BY <1>1, <1>a, <4>1
      <4>3. m # None => m[1] = name[n] /\ m[2] > handed[n][name[n]] /\ m[2] \in Nat
        BY <1>7, <2>2, <3>1, <4>1, MessageFacts DEF NewerInv
      <4> QED
        BY <1>2, <2>1, <2>2, <3>1, <4>1, <4>2, <4>3 DEF NewerInv
    <3>2. CASE client[n] # c
      <4>1. n \notin Receivers(c)
        BY <1>1, <2>2, <3>2 DEF Receivers, SeenInv
      <4>2. client[n] # None => waiting'[client[n]] = waiting[client[n]]
        BY <1>2, <1>a, <3>2 DEF ClientInv, ClientsTypeOK
      <4> QED
        BY <1>2, <2>1, <2>2, <4>1, <4>2 DEF NewerInv
    <3> QED
      BY <3>1, <3>2
  <2> QED
    BY <2>3, <2>4
<1>15. SeenInv(p)' /\ NewerInv(p)'
  <2>1. SeenInv(p) /\ NewerInv(p)
    BY <1>p, <1>1, <1>a DEF LeavesInv
  <2>2. \A k \in Names : handed'[p][k] <= sent[k]
    BY <1>p, <1>6, <1>8, <2>1 DEF SeenInv
  <2>3. SeenInv(p)'
    BY <1>p, <1>2, <1>5, <1>8, <2>1, <2>2 DEF SeenInv
  <2>4. NewerInv(p)'
    <3> SUFFICES ASSUME p \notin renamed PROVE NewerInv(p)'
      BY <1>p, <1>2 DEF NewerInv
    <3>1. waiting'[c] = None /\ client'[p] = c /\ name'[p] = name[p]
      BY <1>p, <1>1, <1>2, <1>a DEF c
    <3>2. \A k \in Names : handed'[p][k] > 0 => name[p] = k
      BY <1>p, <1>6, <1>9, <2>1 DEF NewerInv
    <3>3. g # None => handed'[p][name[p]] = g[2] /\ g[1] = name[p] /\ g[2] \in Nat
      BY <1>p, <1>6, <1>9
    <3> QED
      BY <1>p, <1>2, <1>5, <3>1, <3>2, <3>3 DEF NewerInv
  <2> QED
    BY <2>3, <2>4
<1>16. TopicInv'
  BY <1>1, <1>10, <1>11, <1>12, <1>13, <1>14, <1>15, <1>p DEF TopicInv, LeavesInv
<1>17. g # None /\ turn \notin renamed =>
          \/ g[2] > handed[turn][g[1]]
          \/ turn \in Latch \cup thrown /\ g[2] = handed[turn][g[1]]
  <2>1. g # None => g[2] \in Nat /\ handed[turn][g[1]] \in Nat
    BY <1>1, <1>6, <1>a
  <2> QED
    BY <1>9, <2>1
<1> QED
  BY <1>16, <1>17 DEF g

LEMMA PublishKeeps ==
  ASSUME TopicInv, NEW p \in Publishers, NEW k \in Names,
         PublishFails(p, k) \/ Publish(p, k)
  PROVE  TopicInv'
<1>a. /\ TopicTypeOK /\ ClientInv /\ LeavesInv /\ \A d \in Clients : QueueInv(d)
      /\ stale # {} \/ dangling # {} \/ fault => moved
      /\ waiting \in [Clients -> Messages \cup {None}]
      /\ lastMsg \in [Nodes -> Messages \cup {None}]
      /\ kept \in [Clients -> Messages \cup {None}]
      /\ handed \in [Nodes -> [Names -> 0 .. Limit]]
      /\ sent \in [Names -> 0 .. Limit]
  BY DEF TopicInv, TopicTypeOK
<1>1. UNCHANGED <<name, client, serves, registry, built, lastMsg, kept, stale, dangling, turn,
                  handed, renamed, moved, thrown, fault>>
  BY DEF PublishFails, Publish, clientVars, subVars, history
<1>2. ClientInv' /\ ClientsTypeOK'
  BY <1>1, <1>a, SameClients
  DEF clientVars, ClientInv, ClientsTypeOK
<1>3. topic' \in [Publishers -> Names \cup {None}]
  BY <1>a DEF PublishFails, Publish, UpdateTopic, TopicTypeOK
<1>4. CASE UNCHANGED <<sent, waiting>>
  <2>1. TopicTypeOK'
    BY <1>1, <1>2, <1>3, <1>4, <1>a DEF TopicTypeOK
  <2> QED
    BY <1>1, <1>2, <1>4, <1>a, <2>1 DEF TopicInv, QueueInv, LeavesInv, SeenInv, NewerInv
<1>5. CASE Publish(p, k)
  <2>1. PICK to \in Names :
           /\ sent[to] < Limit /\ sent' = [sent EXCEPT ![to] = sent[to] + 1]
           /\ waiting' = [c \in Clients |-> IF serves[c] = to THEN <<to, sent'[to]>>
                                            ELSE waiting[c]]
    <3>1. topic'[p] \in Names
      BY <1>5, <1>a DEF Publish, UpdateTopic, TopicTypeOK
    <3> QED
      BY <1>5, <3>1 DEF Publish
  <2>2. /\ sent' \in [Names -> 0 .. Limit] /\ sent'[to] = sent[to] + 1
        /\ \A j \in Names : sent'[j] >= sent[j]
        /\ \A j \in Names \ {to} : sent'[j] = sent[j]
    BY <1>a, <2>1, MessageFacts
  <2>3. <<to, sent'[to]>> \in Messages
    BY <1>a, <2>2, MessageFacts DEF Messages
  <2>4. waiting' \in [Clients -> Messages \cup {None}]
    BY <1>a, <2>1, <2>3
  <2>5. TopicTypeOK'
    BY <1>1, <1>2, <1>3, <1>a, <2>2, <2>4 DEF TopicTypeOK
  <2>6. ASSUME NEW c \in Clients
        PROVE  QueueInv(c)'
    <3>1. /\ waiting[c] # None => waiting[c][1] \in Names /\ waiting[c][2] \in Nat
          /\ kept[c] # None => kept[c][1] \in Names /\ kept[c][2] \in Nat
          /\ QueueInv(c)
      BY <1>a, MessageFacts
    <3>2. CASE serves[c] = to
      <4>1. waiting'[c] = <<to, sent[to] + 1>> /\ sent[to] \in Nat
        BY <1>a, <2>1, <2>2, <3>2, MessageFacts
      <4> QED
        BY <1>1, <2>2, <3>1, <3>2, <4>1 DEF QueueInv
    <3>3. CASE serves[c] # to
      <4>1. waiting'[c] = waiting[c]
        BY <2>1, <3>3
      <4> QED
        BY <1>1, <2>2, <3>1, <3>3, <4>1 DEF QueueInv
    <3> QED
      BY <3>2, <3>3
  <2>7. ASSUME NEW n \in Nodes
        PROVE  SeenInv(n)' /\ NewerInv(n)'
    <3>1. /\ lastMsg[n] # None => lastMsg[n][1] \in Names /\ lastMsg[n][2] \in Nat
          /\ SeenInv(n) /\ NewerInv(n)
          /\ \A j \in Names : handed[n][j] \in Nat /\ sent[j] \in Nat /\ sent'[j] \in Nat
      BY <1>a, <2>2, MessageFacts DEF LeavesInv
    <3>2. SeenInv(n)'
      <4>1. lastMsg'[n] # None => lastMsg'[n][2] <= sent'[lastMsg'[n][1]]
        BY <1>1, <2>2, <3>1 DEF SeenInv
      <4>2. \A j \in Names : handed'[n][j] <= sent'[j]
        BY <1>1, <2>2, <3>1 DEF SeenInv
      <4> QED
        BY <1>1, <3>1, <4>1, <4>2 DEF SeenInv
    <3>3. NewerInv(n)'
      <4> SUFFICES ASSUME n \notin renamed PROVE NewerInv(n)'
        BY <1>1 DEF NewerInv
      <4>1. CASE client[n] # None /\ serves[client[n]] = to
        <5>1. name[n] = to /\ waiting'[client[n]] = <<to, sent[to] + 1>>
          BY <1>a, <2>1, <2>2, <4>1 DEF ClientInv, ClientsTypeOK, HeldIsRegistered
        <5> QED
          BY <1>1, <3>1, <4>1, <5>1 DEF SeenInv, NewerInv
      <4>2. CASE ~(client[n] # None /\ serves[client[n]] = to)
        <5>1. client[n] # None => waiting'[client[n]] = waiting[client[n]]
          BY <1>a, <2>1, <4>2 DEF ClientInv, ClientsTypeOK
        <5> QED
          BY <1>1, <3>1, <5>1 DEF NewerInv
      <4> QED
        BY <4>1, <4>2
    <3> QED
      BY <3>2, <3>3
  <2> QED
    BY <1>1, <1>2, <1>a, <2>5, <2>6, <2>7 DEF TopicInv, LeavesInv
<1> QED
  BY <1>4, <1>5 DEF PublishFails, subVars

LEMMA NextTopicInv == TopicInv /\ [TopicNext]_topicVars => TopicInv'
<1> SUFFICES ASSUME TopicInv, [TopicNext]_topicVars PROVE TopicInv'
  OBVIOUS
<1>1. CASE TopicNext
  BY <1>1, ConstructKeeps, TickKeeps, DestroyKeeps, ProcessKeeps, PublishKeeps DEF TopicNext
<1>2. CASE UNCHANGED topicVars
  <2>1. UNCHANGED <<name, client, serves, registry, built, lastMsg, waiting, kept, stale,
                    dangling, turn, topic, sent, handed, renamed, moved, thrown, fault>>
    BY <1>2 DEF topicVars, clientVars, subVars, pubVars, history
  <2>2. ClientInv'
    BY <2>1, SameClients DEF TopicInv, clientVars
  <2>3. TopicTypeOK'
    BY <2>1 DEF TopicInv, TopicTypeOK, ClientsTypeOK
  <2> QED
    BY <2>1, <2>2, <2>3 DEF TopicInv, QueueInv, LeavesInv, SeenInv, NewerInv
<1> QED
  BY <1>1, <1>2

LEMMA TopicInvHolds == TopicSpec => []TopicInv
<1>1. TopicInit => TopicInv
  BY InitTopicInv
<1>2. TopicInv /\ [TopicNext]_topicVars => TopicInv'
  BY NextTopicInv
<1> QED
  BY <1>1, <1>2, PTL DEF TopicSpec

\* Leaves, publishers, subscribers and messages keep their types.
THEOREM TopicTypes == TopicSpec => []TopicTypeOK
<1>1. TopicInv => TopicTypeOK
  BY DEF TopicInv
<1> QED
  BY <1>1, TopicInvHolds, PTL

\* A leaf that never changed its topic is given messages of its topic only, whoever
\* shares its subscriber and whatever the subscriber was used for before.
THEOREM OwnTopicOnly == TopicSpec => []OwnTopic
<1>1. TopicInv => OwnTopic
  BY DEF TopicInv, LeavesInv, NewerInv, OwnTopic
<1> QED
  BY <1>1, TopicInvHolds, PTL

\* Without a change of topic no subscriber's signal can reach a leaf that is gone.
THEOREM NoneGoneIsCalled == TopicSpec => []GoneIsGone
<1>1. TopicInv => GoneIsGone
  BY DEF TopicInv, GoneIsGone
<1> QED
  BY <1>1, TopicInvHolds, PTL

\* Such a leaf is given messages in the order they were published, whichever leaf of the
\* topic takes them from the queue, and none again that it did not keep: because it
\* latches, or because onTick() or the check of its answer (lines 317-318) threw for it.
THEOREM GivenInOrder == TopicSpec => NewestOnce
<1> DEFINE Newer == Process /\ Given # None /\ turn \notin renamed =>
                       LET last == handed[turn][Given[1]] IN
                       \/ Given[2] > last
                       \/ turn \in Latch \cup thrown /\ Given[2] = last
<1>1. TopicInv /\ [TopicNext]_topicVars => [Newer]_topicVars
  BY ProcessKeeps
<1> QED
  BY <1>1, TopicInvHolds, PTL DEF NewestOnce, TopicSpec
-----------------------------------------------------------------------------
(* What a leaf of RosTopicNodes has is not lost before it is given.         *)

AtLeast(x, m) == x # None /\ x[1] = m[1] /\ x[2] >= m[2]

\* Leaf n was given message m of its topic, or has it or its subscriber has it, or a
\* newer one.
Has(n, m) ==
    \/ handed[n][m[1]] >= m[2]
    \/ AtLeast(lastMsg[n], m)
    \/ client[n] # None /\ AtLeast(waiting[client[n]], m)

LEMMA HasNothing ==
  ASSUME TopicInv, NEW n \in Nodes, client[n] = None, n \notin renamed, NEW m \in Messages
  PROVE  ~Has(n, m)
<1>1. NewerInv(n) /\ lastMsg[n] \in Messages \cup {None} /\ name[n] = None
  BY DEF TopicInv, TopicTypeOK, LeavesInv, ClientInv, HeldIsRegistered
<1>2. /\ m[1] \in Names /\ m[2] \in 1 .. Limit /\ Limit \in Nat
      /\ lastMsg[n] # None => lastMsg[n][1] \in Names
  BY <1>1, MessageFacts
<1>3. handed[n][m[1]] = 0
  BY <1>1, <1>2, SpecialAssumption DEF TopicInv, TopicTypeOK, NewerInv
<1>4. lastMsg[n] = None
  BY <1>1, <1>2, SpecialAssumption DEF NewerInv
<1> QED
  BY <1>2, <1>3, <1>4 DEF Has, AtLeast

\* A subscriber that a leaf goes on holding keeps the message that waits.
LEMMA HeldKeepsWaiting ==
  ASSUME ClientInv, ClientInv', NEW left, NEW gone, Purge(left, gone), NEW n \in Nodes,
         client'[n] = client[n], client[n] # None, name'[n] = name[n]
  PROVE  waiting'[client[n]] = waiting[client[n]]
<1>1. /\ client[n] \in Clients /\ serves[client[n]] = name[n] /\ name[n] # None
      /\ serves'[client[n]] = name[n]
  BY DEF ClientInv, ClientsTypeOK, HeldIsRegistered
<1> QED
  BY <1>1 DEF Purge, Alive

\* createSubscriber() for n: another leaf keeps what it has.
LEMMA SubscriberLeavesOthers ==
  ASSUME TopicInv, TopicInv', NEW n \in Nodes, NEW k \in Names, CreateSubscriber(n, k),
         handed' = handed, NEW j \in Nodes \ {n}, NEW m \in Messages, Has(j, m)
  PROVE  Has(j, m)'
<1>1. /\ client'[j] = client[j] /\ name'[j] = name[j] /\ lastMsg'[j] = lastMsg[j]
      /\ ClientInv /\ ClientInv'
  BY DEF CreateSubscriber, CreateClient, TopicInv, TopicTypeOK, ClientsTypeOK
<1>2. client[j] # None => waiting'[client[j]] = waiting[client[j]]
  BY <1>1, HeldKeepsWaiting DEF CreateSubscriber
<1> QED
  BY <1>1, <1>2 DEF Has, AtLeast

\* The tick of a leaf that never moved gives it the newest message it has.
LEMMA ProcessMissesNothing ==
  ASSUME TopicInv, Process, NEW n \in Nodes, n \notin renamed, NEW m \in Messages, Has(n, m)
  PROVE  Has(n, m)'
<1> DEFINE c == client[turn]
           w == waiting[c]
           next == [j \in Nodes |-> IF w # None /\ j \in Receivers(c) THEN w ELSE lastMsg[j]]
<1>0. turn \in Nodes /\ c \in Clients /\ c # None
  BY SpecialAssumption DEF Process, TopicInv, TopicTypeOK, ClientInv, ClientsTypeOK
<1>1. /\ turn \in Nodes /\ c \in Clients /\ turn \in Receivers(c)
      /\ n \in Receivers(c) <=> client[n] = c
      /\ client[n] = c => name[n] = serves[c]
  <2>1. <<n, c>> \notin stale
    BY <1>0 DEF TopicInv, LeavesInv, SeenInv
  <2>2. client[n] = c => name[n] = serves[c]
    BY <1>0 DEF TopicInv, ClientInv, HeldIsRegistered
  <2> HIDE DEF c
  <2>3. turn \in Receivers(c)
    BY <1>0 DEF Receivers, c
  <2> QED
    BY <1>0, <2>1, <2>2, <2>3 DEF Receivers
<1>2. /\ waiting' = [waiting EXCEPT ![c] = None]
      /\ Forget(turn, next) \/ OnTickThrows(turn, next)
      /\ handed' = IF Given = None THEN handed ELSE [handed EXCEPT ![turn][Given[1]] = Given[2]]
      /\ UNCHANGED <<name, client>>
  BY DEF Process, clientVars
<1>3. /\ NewerInv(n) /\ QueueInv(c)
      /\ lastMsg[n] \in Messages \cup {None} /\ w \in Messages \cup {None}
      /\ waiting \in [Clients -> Messages \cup {None}]
      /\ lastMsg \in [Nodes -> Messages \cup {None}]
      /\ handed \in [Nodes -> [Names -> 0 .. Limit]]
  BY <1>1 DEF TopicInv, TopicTypeOK, LeavesInv
<1>4. /\ m[1] \in Names /\ m[2] \in Nat /\ m[2] > 0
      /\ lastMsg[n] # None => lastMsg[n][1] \in Names /\ lastMsg[n][2] \in Nat
      /\ w # None => w[1] \in Names /\ w[2] \in Nat
      /\ \A k \in Names : handed[n][k] \in Nat
  BY <1>3, MessageFacts
<1>5. next[n] = IF w # None /\ client[n] = c THEN w ELSE lastMsg[n]
  BY <1>1
<1>6. client[n] = c => \/ handed[n][m[1]] >= m[2]
                       \/ AtLeast(next[n], m)
  <2> SUFFICES ASSUME client[n] = c PROVE handed[n][m[1]] >= m[2] \/ AtLeast(next[n], m)
    OBVIOUS
  <2>1. waiting[client[n]] = w /\ c # None
    BY <1>0
  <2>2. w # None => /\ w[1] = name[n]
                    /\ lastMsg[n] # None => lastMsg[n][1] = name[n] /\ w[2] > lastMsg[n][2]
    BY <1>1, <1>3, <2>1 DEF NewerInv, QueueInv
  <2>3. next[n] = IF w # None THEN w ELSE lastMsg[n]
    BY <1>5
  <2>4. handed[n][m[1]] >= m[2] \/ AtLeast(lastMsg[n], m) \/ AtLeast(w, m)
    BY <2>1 DEF Has
  <2> HIDE DEF c, w, next
  <2> QED
    BY <1>4, <2>2, <2>3, <2>4 DEF AtLeast
<1>7. CASE n # turn
  <2>1. lastMsg'[n] = next[n] /\ handed'[n] = handed[n]
    <3> HIDE DEF next
    <3>1. next \in [Nodes -> Messages \cup {None}]
      BY <1>1, <1>3 DEF next
    <3> QED
      BY <1>1, <1>2, <1>3, <1>7, <3>1 DEF Forget, OnTickThrows
  <2>2. CASE client[n] = c
    <3> HIDE DEF next
    <3> QED
      BY <1>6, <2>1, <2>2 DEF Has
  <2>3. CASE client[n] # c
    <3>1. client[n] # None => waiting'[client[n]] = waiting[client[n]]
      BY <1>2, <1>3, <2>3 DEF TopicInv, TopicTypeOK, ClientsTypeOK
    <3>2. lastMsg'[n] = lastMsg[n]
      BY <1>5, <2>1, <2>3
    <3> QED
      BY <1>2, <2>1, <3>1, <3>2 DEF Has, AtLeast
  <2> QED
    BY <2>2, <2>3
<1>8. CASE n = turn
  <2>1. Given = next[n]
    BY <1>1, <1>5, <1>8 DEF Given
  <2>2. next[n] # None => /\ next[n][1] = name[n] /\ name[n] \in Names /\ next[n][2] \in Nat
                          /\ next[n][2] >= handed[n][name[n]]
    <3>1. client[n] = c
      BY <1>8
    <3>2. w # None => w[1] = name[n] /\ w[2] > handed[n][name[n]]
      BY <1>0, <1>1, <1>3, <3>1 DEF NewerInv, QueueInv
    <3>3. lastMsg[n] # None => lastMsg[n][1] = name[n] /\ lastMsg[n][2] >= handed[n][name[n]]
      BY <1>3 DEF NewerInv
    <3>4. next[n] = IF w # None THEN w ELSE lastMsg[n]
      BY <1>5, <3>1
    <3> HIDE DEF c, w, next
    <3> QED
      BY <1>4, <3>2, <3>3, <3>4
  <2>3. next[n] = None => handed' = handed
    BY <1>2, <2>1
  <2>4. next[n] # None => /\ handed'[n][name[n]] = next[n][2]
                          /\ \A k \in Names \ {name[n]} : handed'[n][k] = handed[n][k]
    <3> HIDE DEF next
    <3> QED
      BY <1>2, <1>3, <1>8, <2>1, <2>2
  <2>5. handed[n][m[1]] >= m[2] => handed'[n][m[1]] >= m[2]
    <3> HIDE DEF next
    <3> QED
      BY <1>4, <2>2, <2>3, <2>4
  <2>6. AtLeast(next[n], m) => handed'[n][m[1]] >= m[2]
    <3> HIDE DEF next
    <3> QED
      BY <2>2, <2>4 DEF AtLeast
  <2> QED
    BY <1>6, <1>8, <2>5, <2>6 DEF Has
<1> QED
  BY <1>7, <1>8

LEMMA StepMissesNothing ==
  ASSUME TopicInv, TopicNext, NEW n \in Nodes, n \in built', n \notin renamed',
         NEW m \in Messages, Has(n, m)
  PROVE  Has(n, m)'
<1>i. TopicInv' /\ ClientInv /\ ClientInv'
  BY NextTopicInv DEF TopicInv
<1>k. ASSUME UNCHANGED <<client, lastMsg, waiting, handed>>
      PROVE  Has(n, m)'
  BY <1>k DEF Has, AtLeast
<1>1. ASSUME NEW j \in Nodes, NEW k \in Names \cup {None}, ConstructSub(j, k)
      PROVE  Has(n, m)'
  <2>1. j \notin built /\ j \notin renamed /\ client[j] = None /\ handed' = handed
    BY <1>1 DEF ConstructSub, TopicInv, TopicTypeOK, history
  <2>2. j # n
    BY <2>1, HasNothing
  <2>3. CASE k = None
    BY <1>1, <1>k, <2>3 DEF ConstructSub, clientVars, history
  <2>4. CASE k # None
    BY <1>1, <1>i, <2>1, <2>2, <2>4, SubscriberLeavesOthers DEF ConstructSub
  <2> QED
    BY <2>3, <2>4
<1>2. ASSUME NEW j \in Nodes, NEW k \in Names \cup {None}, Tick(j, k)
      PROVE  Has(n, m)'
  <2>1. CASE k \in {None, name[j]}
    BY <1>2, <1>k, <2>1 DEF Tick, clientVars
  <2>2. CASE k \notin {None, name[j]}
    <3>1. /\ CreateSubscriber(j, k) /\ k \in Names /\ handed' = handed
          /\ renamed' = IF client[j] = None THEN renamed ELSE renamed \cup {j}
      BY <1>2, <2>2 DEF Tick
    <3>2. j # n
      BY <3>1, HasNothing
    <3> QED
      BY <1>i, <3>1, <3>2, SubscriberLeavesOthers
  <2> QED
    BY <2>1, <2>2
<1>3. ASSUME NEW j \in Nodes, DestroySub(j)
      PROVE  Has(n, m)'
  <2>1. j # n
    BY <1>3 DEF DestroySub
  <2>2. /\ client'[n] = client[n] /\ name'[n] = name[n] /\ lastMsg'[n] = lastMsg[n]
        /\ handed'[n] = handed[n]
    BY <1>3, <2>1 DEF DestroySub, DropClient, TopicInv, TopicTypeOK, ClientsTypeOK
  <2>3. client[n] # None => waiting'[client[n]] = waiting[client[n]]
    BY <1>3, <1>i, <2>2, HeldKeepsWaiting DEF DestroySub, Disconnect
  <2> QED
    BY <2>2, <2>3 DEF Has, AtLeast
<1>4. CASE Process
  BY <1>4, ProcessMissesNothing DEF Process
<1>5. ASSUME NEW p \in Publishers, NEW k \in Names, PublishFails(p, k)
      PROVE  Has(n, m)'
  BY <1>5, <1>k DEF PublishFails, clientVars, subVars, history
<1>6. ASSUME NEW p \in Publishers, NEW k \in Names, Publish(p, k)
      PROVE  Has(n, m)'
  <2> DEFINE to == topic'[p]
             c == client[n]
  <2>1. /\ UNCHANGED <<client, lastMsg, handed>>
        /\ sent' = [sent EXCEPT ![to] = sent[to] + 1]
        /\ waiting' = [d \in Clients |-> IF serves[d] = to THEN <<to, sent'[to]>>
                                         ELSE waiting[d]]
    BY <1>6 DEF Publish, clientVars, history
  <2>2. to \in Names
    BY <1>6 DEF Publish, UpdateTopic, TopicInv, TopicTypeOK
  <2>3. ASSUME c # None, AtLeast(waiting[c], m) PROVE AtLeast(waiting'[c], m)
    <3>1. /\ c \in Clients /\ QueueInv(c) /\ waiting[c] \in Messages
          /\ sent \in [Names -> 0 .. Limit]
      BY <2>3 DEF AtLeast, TopicInv, TopicTypeOK, ClientInv, ClientsTypeOK
    <3>2. /\ waiting[c][1] = serves[c] /\ waiting[c][2] <= sent[waiting[c][1]]
          /\ waiting[c][2] \in Nat /\ m[2] \in Nat /\ Limit \in Nat
      BY <2>3, <3>1, MessageFacts DEF AtLeast, QueueInv
    <3>3. CASE serves[c] = to
      <4>1. waiting'[c] = <<to, sent[to] + 1>> /\ sent[to] \in Nat
        BY <2>1, <2>2, <3>1, <3>2, <3>3
      <4>2. <<to, sent[to] + 1>> # None
        <5>1. sent[to] + 1 \in 1 .. Limit
          BY <1>6, <2>2, <3>1, <3>2 DEF Publish
        <5> QED
          BY <2>2, <5>1, MessageFacts DEF Messages
      <4> QED
        BY <2>3, <3>2, <3>3, <4>1, <4>2 DEF AtLeast
    <3>4. CASE serves[c] # to
      BY <2>1, <2>3, <3>1, <3>4
    <3> QED
      BY <3>3, <3>4
  <2> QED
    BY <2>1, <2>3 DEF Has, AtLeast
<1> QED
  BY <1>1, <1>2, <1>3, <1>4, <1>5, <1>6 DEF TopicNext

\* A message that has come to a leaf, to its last_msg_ or to its subscriber, is not lost:
\* it stays there until onTick() is given it or a newer one of its topic, whoever spins,
\* comes or goes meanwhile, as long as the leaf exists and does not change its topic.
\* This is what Delivered rests on, beside the fairness of ticks.
THEOREM NothingMissed ==
  TopicSpec => [][\A n \in Nodes, m \in Messages :
                     Has(n, m) /\ n \in built' \ renamed' => Has(n, m)']_topicVars
<1> DEFINE Kept == \A n \in Nodes, m \in Messages :
                       Has(n, m) /\ n \in built' \ renamed' => Has(n, m)'
<1>1. TopicInv /\ [TopicNext]_topicVars => [Kept]_topicVars
  <2> SUFFICES ASSUME TopicInv, TopicNext, NEW n \in Nodes, NEW m \in Messages,
                      Has(n, m), n \in built', n \notin renamed'
               PROVE  Has(n, m)'
    OBVIOUS
  <2> QED
    BY StepMissesNothing
<1> QED
  BY <1>1, TopicInvHolds, PTL DEF TopicSpec
=============================================================================
