----------------------------- MODULE BezierPath -----------------------------
(***************************************************************************)
(* A goal's path in execute(): the coefficients of its curve once, and     *)
(* then, over and over with the pose of the moment, closestT, the search   *)
(* that advances the robot along it, one action per iteration of its loop. *)
(*                                                                         *)
(* The path parameter t is counted in the code's steps of 0.001: N stands  *)
(* for t = 1.0 and W for the 0.05 that is both half the search window and  *)
(* the look-ahead.  A pose matters only through the distances it has to    *)
(* the points of the curve, so a call is given a function from parameters  *)
(* to distances: any such function, since nothing bounds where the robot   *)
(* is.  The exact grid ignores the rounding of repeated "i += 0.001".      *)
(***************************************************************************)
EXTENDS BezierCurve

CONSTANTS W,
          Distances,   \* values a distance can take
          NoDistance   \* profile of no pose: between two calls

ASSUME PathAssumption == N \in Nat /\ W \in Nat
ASSUME DistanceAssumption == Distances \subseteq Int

\* The loop may pass t = 1.0 by as much as the window.
Params   == 0 .. (N + W)
Profiles == [Params -> Distances]

VARIABLES currentT,      \* execute()'s parameter, the argument of the call
          profile,       \* distance of each point of the curve to the robot
          i,             \* loop variable
          new_t,         \* best parameter so far
          min_distance,  \* its distance
          pc             \* "ready" between calls, "scan" in the loop

searchVars == <<currentT, profile, i, new_t, min_distance, pc>>
vars == <<curveVars, searchVars>>

StartT(t) == IF t - W > 0 THEN t - W ELSE 0

Init ==
    /\ InitCurve
    /\ currentT = 0
    /\ profile = NoDistance
    /\ i = 0
    /\ new_t = 0
    /\ min_distance = 0
    /\ pc = "ready"

Call(p) ==
    /\ step = "done" /\ pc = "ready"
    /\ pc' = "scan"
    /\ profile' = p
    /\ min_distance' = p[currentT]
    /\ new_t' = currentT
    /\ i' = StartT(currentT)
    /\ UNCHANGED <<currentT, curveVars>>

\* for (i = starting_t; i < 0.05 + t && t <= 1.0; i += 0.001)
InWindow == i < currentT + W /\ currentT <= N

Scan_LastWins ==
    /\ pc = "scan" /\ InWindow
    /\ min_distance' = profile[i]
    /\ new_t' = IF profile[i] <= min_distance THEN i ELSE new_t
    /\ i' = i + 1
    /\ UNCHANGED <<currentT, profile, pc, curveVars>>

Scan ==
    /\ pc = "scan" /\ InWindow
    /\ IF profile[i] < min_distance
       THEN min_distance' = profile[i] /\ new_t' = i
       ELSE UNCHANGED <<min_distance, new_t>>
    /\ i' = i + 1
    /\ UNCHANGED <<currentT, profile, pc, curveVars>>

Advanced_NoLookahead == IF new_t > N THEN N ELSE new_t

\* The closest point plus a look-ahead, but not past the end of the path.
Advanced == IF new_t + W > N THEN N ELSE new_t + W

Return ==
    /\ pc = "scan" /\ ~InWindow
    /\ currentT' = Advanced
    /\ pc' = "ready"
    /\ profile' = NoDistance
    /\ i' = 0 /\ new_t' = 0 /\ min_distance' = 0
    /\ UNCHANGED curveVars

Next ==
    \/ Coefficients /\ UNCHANGED searchVars
    \/ \E p \in Profiles : Call(p)
    \/ Scan \/ Return

Spec == Init /\ [][Next]_vars

-----------------------------------------------------------------------------
(* Properties                                                              *)

SearchTypeOK ==
    /\ currentT \in 0 .. N
    /\ pc \in {"ready", "scan"}
    /\ pc = "scan" =>
        /\ profile \in Profiles
        /\ i \in Params
        /\ new_t \in Params
        /\ min_distance \in Distances

\* Every variable has its type, the curve is only evaluated at parameters from 0 up to
\* the window past its end, and its coefficients are natural numbers.
TypeOK == CurveTypeOK /\ SearchTypeOK

Window == StartT(currentT) .. (currentT + W - 1)

\* When the loop ends it has found a closest point of the window: t itself if
\* no point is strictly closer, and otherwise the first of the closest ones.
FindsClosest ==
    pc = "scan" /\ ~InWindow =>
        /\ \A k \in Window \cup {currentT} : profile[new_t] <= profile[k]
        /\ new_t # currentT =>
            /\ new_t \in Window
            /\ profile[new_t] < profile[currentT]
            /\ \A k \in Window : k < new_t => profile[new_t] < profile[k]

\* Wherever the robot is pushed, and although the search looks behind t, the
\* parameter never moves back along the path and never jumps ahead of the
\* robot by more than the window and the look-ahead together.
Advances == currentT' >= currentT /\ currentT' <= currentT + 2 * W

NeverBack == [][Advances]_vars

=============================================================================
