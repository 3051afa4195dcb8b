---------------------------- MODULE BezierCurve ----------------------------
(***************************************************************************)
(* The curve of a goal: binomialCoefficients, which execute() calls once    *)
(* for the points of its goal, one action per access of the vector, and    *)
(* pathBezier, which evaluates the curve with the result.                  *)
(*                                                                         *)
(* A point is one coordinate, since the code treats x and y alike, and t   *)
(* is counted in steps of 1/N; PathBezier is then the code's value times   *)
(* N^degree, in integers.  The heading is interpolated between the ends    *)
(* without coefficients, and the curve setupPath computes is dropped.      *)
(***************************************************************************)
EXTENDS Integers
LOCAL INSTANCE Functions

CONSTANTS N,          \* steps from t = 0 to t = 1
          Lengths     \* numbers of points a goal can have

ASSUME LengthsAssumption == Lengths \subseteq Nat

VARIABLES degree,    \* n, one less than the number of points
          b,         \* the vector, of n + 1 zeros at first
          row, col,  \* the loop variables, i and k in the code
          step       \* "ends", "row", "shift", "done", "outside" the vector

curveVars == <<degree, b, row, col, step>>

InitCurve ==
    /\ degree \in {points - 1 : points \in Lengths}
    /\ b = [j \in 0 .. degree |-> 0]
    /\ row = 1 /\ col = 0 /\ step = "ends"

\* Writes values to the vector; beyond its end the outcome is undefined.
Put(values, next) ==
    IF DOMAIN values \subseteq DOMAIN b
    THEN /\ b' = [j \in DOMAIN b |-> IF j \in DOMAIN values THEN values[j] ELSE b[j]]
         /\ step' = next
    ELSE step' = "outside" /\ UNCHANGED b

\* b[0] = 1, b[1] = 1
PutEnds ==
    /\ step = "ends"
    /\ Put([j \in {0, 1} |-> 1], IF degree = 1 THEN "done" ELSE "row")
    /\ UNCHANGED <<degree, row, col>>

BeginRow_TooMany ==
    /\ step = "row" /\ row <= degree
    /\ Put([j \in {row + 1} |-> 1], "shift")
    /\ col' = row
    /\ UNCHANGED <<degree, row>>

BeginRow_Short ==
    /\ step = "row" /\ row < degree
    /\ Put([j \in {row + 1} |-> 1], "shift")
    /\ col' = row - 1
    /\ UNCHANGED <<degree, row>>

BeginRow ==
    /\ step = "row" /\ row < degree
    /\ Put([j \in {row + 1} |-> 1], "shift")
    /\ col' = row
    /\ UNCHANGED <<degree, row>>

Shift ==
    /\ step = "shift" /\ col > 0
    /\ Put([j \in {col} |-> b[col] + b[col - 1]], "shift")
    /\ col' = col - 1
    /\ UNCHANGED <<degree, row>>

EndRow ==
    /\ step = "shift" /\ col = 0
    /\ row' = row + 1 /\ step' = "row"
    /\ UNCHANGED <<degree, b, col>>

ReturnCoefficients ==
    /\ step = "row" /\ row >= degree
    /\ step' = "done"
    /\ UNCHANGED <<degree, b, row, col>>

Coefficients == PutEnds \/ BeginRow \/ Shift \/ EndRow \/ ReturnCoefficients

\* pow(0, 0) is 1.
Pow(x, i) == IF i = 0 THEN 1 ELSE x^i

\* The curve through points, at t, times N^degree.
PathBezier(points, t) ==
    SumFunction([i \in 0 .. degree |->
                    b[i] * Pow(N - t, degree - i) * Pow(t, i) * points[i]])

-----------------------------------------------------------------------------
(* Properties                                                              *)

CurveTypeOK ==
    /\ degree \in {points - 1 : points \in Lengths}
    /\ step \in {"ends", "row", "shift", "done", "outside"}
    /\ row \in Nat /\ col \in Nat
    /\ b \in [0 .. degree -> Nat]

\* De Casteljau's construction, the definition of a Bezier curve: every point of
\* level j divides the segment between two of level j - 1.
DeCasteljau(points, t) ==
    LET level[j \in 0 .. degree] ==
            [i \in 0 .. degree - j |->
                IF j = 0 THEN points[i]
                ELSE (N - t) * level[j - 1][i] + t * level[j - 1][i + 1]]
    IN  level[degree][0]

\* With the coefficients that binomialCoefficients returns, pathBezier evaluates the
\* Bezier curve of the goal's points, from the first to the last of them.
CurveIsBezier ==
    [][step # "done" /\ step' = "done" =>
          \A points \in [0 .. degree -> {0, 1}], t \in 0 .. N :
              PathBezier(points, t)' = DeCasteljau(points, t)']_curveVars

\* Of all goals the server accepts, only one without a second point makes
\* binomialCoefficients leave its vector.
StaysInside == step = "outside" => degree < 1

=============================================================================
