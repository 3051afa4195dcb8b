--------------------------- MODULE RosServiceNode ---------------------------
(***************************************************************************)
(* RosServiceNode: leaves that call a service, sharing clients by the name *)
(* of the service.                                                         *)
(*                                                                         *)
(* A client is a single waitable of its executor, so a spin of zero        *)
(* duration takes at most one response, which completes the future of      *)
(* whichever leaf sent the request; a tick of a running leaf spins twice.  *)
(* Trees come and go: a leaf is constructed and destroyed again.  A tick   *)
(* after rclcpp::shutdown() is a halt.  An empty name throws before        *)
(* anything changes and is left out; so is the null response, which the    *)
(* client never delivers.                                                  *)
(***************************************************************************)
EXTENDS SharedClients, Naturals, FiniteSets

CONSTANTS Checked,  \* service_name_should_be_checked_: leaves whose port points to
                    \* the blackboard
          Runs      \* bound: number of runs of each leaf that begin

ASSUME CheckedAssumption == Checked \subseteq Nodes
ASSUME RunsAssumption == Runs \in [Nodes -> Nat]
Requests == UNION {{n} \X (1 .. Runs[n]) : n \in Nodes}
ASSUME NoneAssumption == None \notin Requests

VARIABLES status,    \* "NONE" (not constructed), "IDLE", "RUNNING"
          run,       \* number of runs begun, of which each sends a request
          received,  \* response_received_
          response,  \* the request answered by response_
          late,      \* service_timeout_ has passed since the request
          request,   \* what became of each request
          via,       \* the client it was sent with, while it is open
          threw      \* history: running leaves of which a callback threw in this run

leafVars == <<status, run, received, response, late, threw>>
vars == <<clientVars, leafVars, request, via>>

Init ==
    /\ InitClients
    /\ status = [n \in Nodes |-> "NONE"] /\ run = [n \in Nodes |-> 0]
    /\ received = [n \in Nodes |-> FALSE] /\ response = [n \in Nodes |-> None]
    /\ late = [n \in Nodes |-> FALSE] /\ threw = {}
    /\ request = [r \in Requests |-> "unsent"] /\ via = [r \in Requests |-> None]

Current(n) == <<n, run[n]>>

\* The run has sent its request: future_response_ is valid until the response is taken.
Asked(n) == request[Current(n)] # "unsent"

\* A client that is destroyed takes the requests still open with it.
Gone(r) == request[r] \in {"sent", "answered"} /\ serves'[via[r]] = None
Lapse == /\ request' = [r \in Requests |-> IF Gone(r) THEN "lost" ELSE request[r]]
         /\ via' = [r \in Requests |-> IF Gone(r) THEN None ELSE via[r]]

-----------------------------------------------------------------------------
(* The life of a leaf                                                      *)

\* k is the name fixed by the port or, failing that, the default; a leaf whose port
\* points to the blackboard may have none.
Construct(n, k) ==
    /\ status[n] = "NONE" /\ (k = None => n \in Checked)
    /\ IF k = None THEN UNCHANGED clientVars ELSE CreateClient(n, k)
    /\ status' = [status EXCEPT ![n] = "IDLE"]
    /\ UNCHANGED <<run, received, response, late, threw, request, via>>

Destroy(n) ==
    /\ status[n] # "NONE"
    /\ DropClient(n)
    /\ status' = [status EXCEPT ![n] = "NONE"]
    /\ received' = [received EXCEPT ![n] = FALSE]
    /\ response' = [response EXCEPT ![n] = None]
    /\ late' = [late EXCEPT ![n] = FALSE] /\ threw' = threw \ {n}
    /\ Lapse
    /\ UNCHANGED run

-----------------------------------------------------------------------------
(* tick() and halt().  k is what getInput() reads in the port.             *)

\* The name is read only by a leaf that has no client yet.
UpdateClient_Once(n, k) ==
    IF client[n] = None THEN CreateClient(n, k) ELSE UNCHANGED clientVars

\* A leaf whose name comes from the blackboard takes a new client when the name has
\* changed.
UpdateClient(n, k) ==
    IF (client[n] = None \/ n \in Checked) /\ k # name[n]
    THEN CreateClient(n, k) ELSE UNCHANGED clientVars

\* response_received_ and response_ keep their values.
Reset_KeepsResponse(n) == UNCHANGED <<received, response>>

Reset(n) ==
    /\ received' = [received EXCEPT ![n] = FALSE]
    /\ response' = [response EXCEPT ![n] = None]

Starting(n, k) ==
    /\ status[n] = "IDLE" /\ run[n] < Runs[n]
    /\ UpdateClient(n, k)
    /\ Reset(n)
    /\ UNCHANGED late

\* INVALID_REQUEST or SERVICE_UNREACHABLE.
StartFails(n, k) ==
    /\ Starting(n, k)
    /\ Lapse
    /\ UNCHANGED <<status, run, threw>>

RunBegins(n) ==
    /\ status' = [status EXCEPT ![n] = "RUNNING"]
    /\ run' = [run EXCEPT ![n] = @ + 1]

\* setRequest or onFailure throws, or onFailure's answer is no verdict: the leaf is left
\* running, without a request.
StartThrows(n, k) ==
    /\ Starting(n, k) /\ RunBegins(n)
    /\ Lapse
    /\ threw' = threw \cup {n}

Start(n, k) ==
    /\ Starting(n, k) /\ RunBegins(n)
    /\ request' = [r \in Requests |-> IF r = <<n, run[n] + 1>> THEN "sent"
                                      ELSE IF Gone(r) THEN "lost" ELSE request[r]]
    /\ via' = [r \in Requests |-> IF r = <<n, run[n] + 1>> THEN client'[n]
                                  ELSE IF Gone(r) THEN None ELSE via[r]]
    /\ UNCHANGED threw

\* Responses that have arrived at the leaf's client.
Arrived(n) == {r \in Requests : request[r] = "answered" /\ via[r] = client[n]}

\* spin_some(), and spin_until_future_complete(future_response_, 0) while the
\* response is not there; without a future that one throws.
Spin(n, R) ==
    /\ R \subseteq Arrived(n)
    /\ Cardinality(R) <= IF received[n] \/ ~Asked(n) THEN 1 ELSE 2
    /\ request' = [r \in Requests |-> IF r \in R THEN "received" ELSE request[r]]
    /\ via' = [r \in Requests |-> IF r \in R THEN None ELSE via[r]]

Complete(n) == request'[Current(n)] = "received"

EndRun(n) ==
    /\ status' = [status EXCEPT ![n] = "IDLE"]
    /\ late' = [late EXCEPT ![n] = FALSE] /\ threw' = threw \ {n}

CallbackThrows(n) == threw' = threw \cup {n} /\ UNCHANGED <<status, late>>

\* onResponseReceived() returns a status, or throws and is called again in the
\* next tick.
Report(n, R) ==
    /\ status[n] = "RUNNING" /\ Spin(n, R)
    /\ received[n] \/ Complete(n)
    /\ received' = [received EXCEPT ![n] = TRUE]
    /\ response' = [response EXCEPT ![n] = IF received[n] THEN @ ELSE Current(n)]
    /\ EndRun(n) \/ CallbackThrows(n)
    /\ UNCHANGED <<clientVars, run>>

StillWaiting(n, R) ==
    /\ status[n] = "RUNNING" /\ Spin(n, R)
    /\ Asked(n) /\ ~received[n] /\ ~Complete(n) /\ ~late[n]
    /\ UNCHANGED <<clientVars, leafVars>>

\* A leaf that is late goes on waiting.
Timeout_Never(n, R) ==
    /\ status[n] = "RUNNING" /\ Spin(n, R)
    /\ Asked(n) /\ ~received[n] /\ ~Complete(n) /\ late[n]
    /\ UNCHANGED <<clientVars, leafVars>>

\* SERVICE_TIMEOUT; onFailure() may throw, too, and is called again in the next tick.
Timeout(n, R) ==
    /\ status[n] = "RUNNING" /\ Spin(n, R)
    /\ Asked(n) /\ ~received[n] /\ ~Complete(n) /\ late[n]
    /\ EndRun(n) \/ CallbackThrows(n)
    /\ UNCHANGED <<clientVars, run, received, response>>

\* After StartThrows there is nothing to wait for, and every tick throws.
TickThrows(n, R) ==
    /\ status[n] = "RUNNING" /\ Spin(n, R)
    /\ ~Asked(n) /\ ~received[n]
    /\ UNCHANGED <<clientVars, leafVars>>

TickRunning(n) ==
    \E R \in SUBSET Arrived(n) :
        Report(n, R) \/ StillWaiting(n, R) \/ Timeout(n, R) \/ TickThrows(n, R)

\* The request goes on.
Halt(n) ==
    /\ status[n] = "RUNNING"
    /\ EndRun(n)
    /\ UNCHANGED <<clientVars, run, received, response, request, via>>

TimePasses(n) ==
    /\ status[n] = "RUNNING" /\ Asked(n) /\ ~late[n]
    /\ late' = [late EXCEPT ![n] = TRUE]
    /\ UNCHANGED <<clientVars, status, run, received, response, threw, request, via>>

\* The service answers, or the request or its answer is lost.
Answer(r) ==
    /\ request[r] = "sent"
    /\ request' = [request EXCEPT ![r] = "answered"]
    /\ UNCHANGED <<clientVars, leafVars, via>>

Lose(r) ==
    /\ request[r] = "sent"
    /\ request' = [request EXCEPT ![r] = "lost"]
    /\ via' = [via EXCEPT ![r] = None]
    /\ UNCHANGED <<clientVars, leafVars>>

-----------------------------------------------------------------------------

Next ==
    \/ \E n \in Nodes :
        \/ \E k \in Names \cup {None} : Construct(n, k)
        \/ \E k \in Names : StartFails(n, k) \/ StartThrows(n, k) \/ Start(n, k)
        \/ TickRunning(n) \/ Halt(n) \/ Destroy(n) \/ TimePasses(n)
    \/ \E r \in Requests : Answer(r) \/ Lose(r)

Spec == Init /\ [][Next]_vars

\* A running leaf is ticked again and time passes; nothing is said of the service.
Fairness == \A n \in Nodes : WF_vars(TickRunning(n)) /\ WF_vars(TimePasses(n))

FairSpec == Spec /\ Fairness

-----------------------------------------------------------------------------
(* Properties                                                              *)

TypeOK ==
    /\ ClientsTypeOK
    /\ status \in [Nodes -> {"NONE", "IDLE", "RUNNING"}]
    /\ run \in [Nodes -> Nat] /\ \A n \in Nodes : run[n] <= Runs[n]
    /\ received \in [Nodes -> BOOLEAN]
    /\ response \in [Nodes -> Requests \cup {None}]
    /\ \A n \in Nodes : received[n] <=> response[n] # None
    /\ late \in [Nodes -> BOOLEAN] /\ threw \subseteq Nodes
    /\ request \in [Requests -> {"unsent", "sent", "answered", "received", "lost"}]
    /\ via \in [Requests -> Clients \cup {None}]

\* The answer a running leaf waits for comes in through the client it holds and
\* spins: no rename or end of any leaf takes that client away.
AnswerComesHere ==
    \A n \in Nodes :
        status[n] = "RUNNING" /\ request[Current(n)] \in {"sent", "answered"}
            => via[Current(n)] = client[n] /\ serves[client[n]] = name[n]

\* A run sends its request to the service the blackboard names when the run begins,
\* whatever it named in earlier runs, and whoever else uses that service.
AsksTheServiceNamed ==
    [][\A n \in Nodes, k \in Names :
          Start(n, k) /\ n \in Checked => serves'[client'[n]] = k]_vars

\* onResponseReceived() gets the response to this run's request, never that of a run
\* that was halted or timed out, or of a leaf that shares the client.
OwnResponse ==
    [][\A n \in Nodes : TickRunning(n) /\ received'[n]
          => response'[n] = Current(n) /\ request'[Current(n)] = "received"]_vars

\* A run ends, even if the service never answers, unless one of its callbacks throws.
RunEnds ==
    \A n \in Nodes : status[n] = "RUNNING" ~> status[n] # "RUNNING" \/ n \in threw

=============================================================================
