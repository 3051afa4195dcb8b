---------------------------- MODULE TreeService ----------------------------
(***************************************************************************)
(* What an action server that executes behaviour trees promises to its     *)
(* clients: goals are executed one after the other, a goal ends once, and  *)
(* it ends as canceled only if a request to cancel it was accepted.        *)
(*                                                                         *)
(*   new --Accept--> waiting --Execute--> active --End--> succeeded,       *)
(*    +--Reject--> rejected                               aborted, canceled*)
(***************************************************************************)

CONSTANTS Goals, None

VARIABLES st,       \* progress of each goal
          active,   \* the goal being executed
          stopping  \* unfinished goals whose cancellation was accepted

serviceVars == <<st, active, stopping>>

Outcomes == {"succeeded", "aborted", "canceled"}

Init ==
    /\ st = [g \in Goals |-> "new"]
    /\ active = None
    /\ stopping = {}

Reject(g) ==
    /\ st[g] = "new"
    /\ st' = [st EXCEPT ![g] = "rejected"]
    /\ UNCHANGED <<active, stopping>>

\* A goal may be accepted while another is executed; then it waits.
Accept(g) ==
    /\ st[g] = "new" /\ \A h \in Goals : st[h] # "waiting"
    /\ st' = [st EXCEPT ![g] = "waiting"]
    /\ UNCHANGED <<active, stopping>>

Execute(g) ==
    /\ st[g] = "waiting" /\ active = None
    /\ st' = [st EXCEPT ![g] = "active"]
    /\ active' = g
    /\ UNCHANGED stopping

Cancel(g) ==
    /\ st[g] = "active"
    /\ stopping' = stopping \cup {g}
    /\ UNCHANGED <<st, active>>

End(g, how) ==
    /\ active = g
    /\ how = "canceled" => g \in stopping
    /\ st' = [st EXCEPT ![g] = how]
    /\ active' = None
    /\ stopping' = stopping \ {g}

Next ==
    \E g \in Goals :
        \/ Reject(g) \/ Accept(g) \/ Execute(g) \/ Cancel(g)
        \/ \E how \in Outcomes : End(g, how)

Spec == Init /\ [][Next]_serviceVars
=============================================================================
