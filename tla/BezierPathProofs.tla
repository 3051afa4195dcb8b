-------------------------- MODULE BezierPathProofs --------------------------
(* Proofs, for every resolution N, window W and distance profile, that      *)
(* closestT's loop finds the closest point of its window and that the path  *)
(* parameter never moves back; and, for goals of any number of points, that *)
(* binomialCoefficients leaves its vector only when there is one or none,   *)
(* and that what it returns is a row of Pascal's triangle.                  *)
EXTENDS BezierPath, TLAPS

Scanned == StartT(currentT) .. (i - 1)

\* The loop invariant: FindsClosest, for the part of the window seen so far.
LoopInv ==
    pc = "scan" =>
        /\ i \in StartT(currentT) .. (currentT + W)
        /\ new_t \in Scanned \cup {currentT}
        /\ min_distance = profile[new_t]
        /\ min_distance <= profile[currentT]
        /\ \A k \in Scanned : min_distance <= profile[k]
        /\ new_t # currentT =>
            /\ min_distance < profile[currentT]
            /\ \A k \in Scanned : k < new_t => min_distance < profile[k]

\* The loops over the coefficients run below the last one, and below the row.
CurveInv ==
    /\ step = "ends" => row = 1
    /\ step \in {"row", "shift"} => 1 <= row /\ row <= degree
    /\ step = "shift" => row < degree /\ col <= row
    /\ StaysInside

IInv == TypeOK /\ LoopInv /\ CurveInv

-----------------------------------------------------------------------------

\* The search starts at or behind t, at most W behind it, and never before 0.
LEMMA StartBound ==
  ASSUME NEW t \in 0 .. N
  PROVE  StartT(t) \in 0 .. t /\ StartT(t) >= t - W
  BY PathAssumption DEF StartT

LEMMA DegreeIsInt == CurveTypeOK => degree \in Int
  BY LengthsAssumption DEF CurveTypeOK

LEMMA InitIInv == Init => IInv
<1> SUFFICES ASSUME Init PROVE IInv
  OBVIOUS
<1>1. CurveTypeOK /\ CurveInv
  BY DEF Init, InitCurve, CurveTypeOK, CurveInv, StaysInside
<1>2. pc = "ready" /\ currentT \in 0 .. N
  BY PathAssumption DEF Init
<1> QED
  BY <1>1, <1>2 DEF IInv, TypeOK, SearchTypeOK, LoopInv

\* Each write of binomialCoefficients is in its vector, if the first two are.
LEMMA CoefficientsIInv ==
  ASSUME CurveTypeOK, CurveInv, Coefficients
  PROVE  CurveTypeOK' /\ CurveInv'
<1>0. degree \in Int /\ row \in Nat /\ col \in Nat /\ b \in [0 .. degree -> Nat]
      /\ degree \in {points - 1 : points \in Lengths}
  BY DegreeIsInt DEF CurveTypeOK
<1> USE DEF CurveInv, StaysInside
<1>1. CASE PutEnds
  <2>1. CASE degree < 1
    <3>1. ~(DOMAIN [j \in {0, 1} |-> 1] \subseteq DOMAIN b)
      BY <1>0, <2>1
    <3>2. step' = "outside" /\ b' = b /\ degree' = degree /\ row' = row /\ col' = col
      BY <1>1, <3>1 DEF PutEnds, Put
    <3>3. CurveTypeOK'
      BY <1>0, <3>2 DEF CurveTypeOK
    <3> QED
      BY <2>1, <3>2, <3>3
  <2>2. CASE degree >= 1
    <3>1. DOMAIN [j \in {0, 1} |-> 1] \subseteq DOMAIN b
      BY <1>0, <2>2
    <3>2. /\ b' = [j \in 0 .. degree |-> IF j \in {0, 1} THEN 1 ELSE b[j]]
          /\ step' = IF degree = 1 THEN "done" ELSE "row"
          /\ degree' = degree /\ row' = row /\ col' = col
      BY <1>0, <1>1, <3>1 DEF PutEnds, Put
    <3>3. b' \in [0 .. degree -> Nat]
      BY <1>0, <3>2
    <3>4. step = "ends"
      BY <1>1 DEF PutEnds
    <3>5. CurveTypeOK'
      BY <1>0, <3>2, <3>3 DEF CurveTypeOK
    <3>6. row' = 1 /\ (step' = "row" => 1 <= degree')
      BY <2>2, <3>2, <3>4
    <3> QED
      BY <1>0, <3>2, <3>5, <3>6
  <2> QED
    BY <1>0, <2>1, <2>2
<1>2. CASE BeginRow
  <2>1. 1 <= row /\ row < degree /\ row + 1 \in 0 .. degree
    BY <1>0, <1>2 DEF BeginRow
  <2>2. /\ b' = [j \in 0 .. degree |-> IF j = row + 1 THEN 1 ELSE b[j]]
        /\ step' = "shift" /\ degree' = degree /\ row' = row /\ col' = row
    BY <1>0, <1>2, <2>1 DEF BeginRow, Put
  <2> QED
    BY <1>0, <2>1, <2>2 DEF CurveTypeOK
<1>3. CASE Shift
  <2>1. col \in 0 .. degree /\ col - 1 \in 0 .. degree /\ col - 1 \in Nat
        /\ 1 <= row /\ row < degree /\ col <= row
    BY <1>0, <1>3 DEF Shift
  <2>2. /\ b' = [j \in 0 .. degree |-> IF j = col THEN b[col] + b[col - 1] ELSE b[j]]
        /\ step' = "shift" /\ degree' = degree /\ row' = row /\ col' = col - 1
    BY <1>0, <1>3, <2>1 DEF Shift, Put
  <2>3. b[col] + b[col - 1] \in Nat
    BY <1>0, <2>1
  <2>4. b' \in [0 .. degree -> Nat]
    BY <1>0, <2>2, <2>3
  <2> QED
    BY <1>0, <2>1, <2>2, <2>4 DEF CurveTypeOK
<1>4. CASE EndRow
  BY <1>0, <1>4 DEF EndRow, CurveTypeOK
<1>5. CASE ReturnCoefficients
  BY <1>0, <1>5 DEF ReturnCoefficients, CurveTypeOK
<1> QED
  BY <1>1, <1>2, <1>3, <1>4, <1>5 DEF Coefficients

LEMMA CurveKept ==
  ASSUME CurveTypeOK, CurveInv, UNCHANGED curveVars
  PROVE  CurveTypeOK' /\ CurveInv'
  BY DEF curveVars, CurveTypeOK, CurveInv, StaysInside

LEMMA CallIInv ==
  ASSUME IInv, NEW p \in Profiles, Call(p)
  PROVE  IInv'
<1>1. currentT \in Params /\ StartT(currentT) \in 0 .. currentT /\ currentT \in 0 .. N
  BY StartBound, PathAssumption DEF IInv, TypeOK, SearchTypeOK, Params
<1>2. StartT(currentT) \in Params /\ p[currentT] \in Distances
  BY <1>1, PathAssumption DEF Params, Profiles
<1>3. SearchTypeOK'
  BY <1>1, <1>2 DEF SearchTypeOK, Call
<1>c. CurveTypeOK' /\ CurveInv'
  BY CurveKept DEF IInv, TypeOK, Call
<1>4. Scanned' = {}
  <2>1. i' = StartT(currentT) /\ currentT' = currentT
    BY DEF Call
  <2> QED
    BY <1>1, <2>1 DEF Scanned, StartT
<1>5. LoopInv'
  <2>1. i' \in StartT(currentT') .. (currentT' + W)
    <3>1. i' = StartT(currentT) /\ currentT' = currentT
      BY DEF Call
    <3> QED
      BY <1>1, <3>1, PathAssumption DEF StartT
  <2>2. p[currentT] <= p[currentT]
    <3>1. p[currentT] \in Int
      BY <1>2, DistanceAssumption
    <3> QED
      BY <3>1
  <2>3. /\ pc' = "scan" /\ profile' = p /\ min_distance' = p[currentT]
        /\ new_t' = currentT /\ currentT' = currentT
    BY DEF Call
  <2>4. new_t' \in Scanned' \cup {currentT'} /\ min_distance' = profile'[new_t']
    BY <2>3
  <2>5. min_distance' <= profile'[currentT']
    BY <2>2, <2>3
  <2>6. new_t' = currentT'
    BY <2>3
  <2> QED
    BY <1>4, <2>1, <2>4, <2>5, <2>6 DEF LoopInv
<1> QED
  BY <1>3, <1>5, <1>c DEF IInv, TypeOK

LEMMA ScanIInv ==
  ASSUME IInv, Scan
  PROVE  SearchTypeOK' /\ LoopInv'
<1> USE DEF LoopInv, SearchTypeOK
<1>0. SearchTypeOK /\ LoopInv
  BY DEF IInv, TypeOK
<1>1. /\ currentT \in 0 .. N /\ currentT \in Params
      /\ StartT(currentT) \in 0 .. currentT
      /\ i \in StartT(currentT) .. (currentT + W - 1)
      /\ pc = "scan" /\ new_t \in Params
  BY <1>0, StartBound, PathAssumption DEF Scan, InWindow, Params
<1>2. i \in Params /\ i + 1 \in Params
  BY <1>1, PathAssumption DEF Params
<1>3. \A k \in Params : profile[k] \in Int /\ profile[k] \in Distances
  BY <1>0, <1>1, DistanceAssumption DEF Profiles
<1>4. /\ currentT' = currentT /\ profile' = profile /\ pc' = "scan" /\ i' = i + 1
  BY <1>1 DEF Scan
<1>5. Scanned' = Scanned \cup {i}
  BY <1>0, <1>1, <1>4 DEF Scanned, StartT
<1>6. Scanned \subseteq Params
  BY <1>0, <1>1, <1>2, PathAssumption DEF Scanned, Params
<1>7. CASE profile[i] < min_distance
  <2>1. new_t' = i /\ min_distance' = profile[i]
    BY <1>7 DEF Scan
  <2>2. \A k \in Scanned : profile[i] < profile[k]
    BY <1>0, <1>1, <1>2, <1>3, <1>6, <1>7
  <2>3. profile[i] < profile[currentT]
    BY <1>0, <1>1, <1>2, <1>3, <1>7
  <2>4. SearchTypeOK'
    BY <1>0, <1>1, <1>2, <1>3, <1>4, <2>1
  <2>5. i' \in StartT(currentT') .. (currentT' + W)
    BY <1>0, <1>1, <1>4, PathAssumption
  <2>6. \A k \in Scanned' : min_distance' <= profile'[k]
    BY <1>2, <1>3, <1>4, <1>5, <1>6, <2>1, <2>2
  <2>7. \A k \in Scanned' : k < new_t' => min_distance' < profile'[k]
    BY <1>0, <1>1, <1>2, <1>4, <1>5, <2>1, <2>2 DEF Params
  <2>8. min_distance' <= profile'[currentT'] /\ min_distance' < profile'[currentT']
    BY <1>0, <1>1, <1>2, <1>3, <1>4, <2>1, <2>3
  <2> QED
    BY <1>4, <1>5, <2>1, <2>4, <2>5, <2>6, <2>7, <2>8
<1>8. CASE ~(profile[i] < min_distance)
  <2>1. new_t' = new_t /\ min_distance' = min_distance
    BY <1>8 DEF Scan
  <2>2. min_distance <= profile[i]
    BY <1>0, <1>1, <1>2, <1>3, <1>8
  <2>3. SearchTypeOK'
    BY <1>0, <1>1, <1>2, <1>4, <2>1
  <2>4. i' \in StartT(currentT') .. (currentT' + W)
    BY <1>0, <1>1, <1>4, PathAssumption
  <2>5. \A k \in Scanned' : min_distance' <= profile'[k]
    BY <1>0, <1>1, <1>4, <1>5, <2>1, <2>2
  <2>6. new_t' # currentT' =>
          /\ min_distance' < profile'[currentT']
          /\ \A k \in Scanned' : k < new_t' => min_distance' < profile'[k]
    <3>1. new_t # currentT => new_t < i
      BY <1>0, <1>1 DEF Scanned, StartT
    <3> QED
      BY <1>0, <1>1, <1>2, <1>4, <1>5, <2>1, <3>1 DEF Params
  <2> QED
    BY <1>0, <1>1, <1>4, <1>5, <2>1, <2>3, <2>4, <2>5, <2>6
<1> QED
  BY <1>7, <1>8

LEMMA ReturnBound ==
  ASSUME IInv, Return
  PROVE  currentT' \in 0 .. N /\ Advances
<1>1. /\ currentT \in 0 .. N
      /\ StartT(currentT) \in 0 .. currentT
      /\ StartT(currentT) >= currentT - W
      /\ new_t \in StartT(currentT) .. (currentT + W)
  BY StartBound, PathAssumption DEF IInv, TypeOK, SearchTypeOK, LoopInv, Return, Scanned, StartT
<1> QED
  BY <1>1, PathAssumption DEF Return, Advanced, Advances, StartT

LEMMA NextIInv == IInv /\ [Next]_vars => IInv'
<1> SUFFICES ASSUME IInv, [Next]_vars PROVE IInv'
  OBVIOUS
<1>1. ASSUME NEW p \in Profiles, Call(p) PROVE IInv'
  BY <1>1, CallIInv
<1>2. CASE Scan
  <2>1. CurveTypeOK' /\ CurveInv'
    BY <1>2, CurveKept DEF IInv, TypeOK, Scan
  <2> QED
    BY <1>2, <2>1, ScanIInv DEF IInv, TypeOK
<1>3. CASE Return
  <2>1. CurveTypeOK' /\ CurveInv'
    BY <1>3, CurveKept DEF IInv, TypeOK, Return
  <2>2. SearchTypeOK' /\ LoopInv'
    BY <1>3, ReturnBound DEF Return, SearchTypeOK, LoopInv
  <2> QED
    BY <2>1, <2>2 DEF IInv, TypeOK
<1>4. ASSUME UNCHANGED searchVars
      PROVE  SearchTypeOK' /\ LoopInv'
  BY <1>4 DEF searchVars, IInv, TypeOK, SearchTypeOK, LoopInv, Scanned, Params, Profiles
<1>5. CASE Coefficients /\ UNCHANGED searchVars
  BY <1>4, <1>5, CoefficientsIInv DEF IInv, TypeOK
<1>6. CASE UNCHANGED vars
  BY <1>4, <1>6, CurveKept DEF vars, IInv, TypeOK
<1> QED
  BY <1>1, <1>2, <1>3, <1>5, <1>6 DEF Next

LEMMA IInvHolds == Spec => []IInv
<1> QED
  BY InitIInv, NextIInv, PTL DEF Spec

-----------------------------------------------------------------------------

\* The curve is only evaluated at parameters from 0 to the window past its end
\* (the clamp of lines 65-70 and the bound of line 72), with natural coefficients.
THEOREM TypeCorrect == Spec => []TypeOK
<1>1. IInv => TypeOK
  BY DEF IInv
<1> QED
  BY <1>1, IInvHolds, PTL

\* closestT returns a closest point of the window around t, and t itself when
\* no point is strictly closer (lines 62-83), whatever the path and the pose.
THEOREM ClosestIsFound == Spec => []FindsClosest
<1>1. IInv => FindsClosest
  <2> SUFFICES ASSUME IInv, pc = "scan", ~InWindow
               PROVE  /\ \A k \in Window \cup {currentT} : profile[new_t] <= profile[k]
                      /\ new_t # currentT =>
                          /\ new_t \in Window
                          /\ profile[new_t] < profile[currentT]
                          /\ \A k \in Window : k < new_t => profile[new_t] < profile[k]
    BY DEF FindsClosest
  <2>1. currentT \in 0 .. N /\ StartT(currentT) \in 0 .. currentT
    BY StartBound DEF IInv, TypeOK, SearchTypeOK
  <2>2. i \in StartT(currentT) .. (currentT + W) /\ ~(i < currentT + W)
    BY <2>1, PathAssumption DEF IInv, LoopInv, InWindow
  <2>3. i = currentT + W
    BY <2>1, <2>2, PathAssumption
  <2>4. Scanned = Window
    BY <2>1, <2>3, PathAssumption DEF Scanned, Window, StartT
  <2>5. min_distance = profile[new_t]
    BY DEF IInv, LoopInv
  <2>6. \A k \in Window \cup {currentT} : profile[new_t] <= profile[k]
    BY <2>4, <2>5 DEF IInv, LoopInv
  <2>7. new_t # currentT =>
          /\ profile[new_t] < profile[currentT]
          /\ \A k \in Window : k < new_t => profile[new_t] < profile[k]
    BY <2>4, <2>5 DEF IInv, LoopInv
  <2>8. new_t # currentT => new_t \in Window
    BY <2>4 DEF IInv, LoopInv
  <2> QED
    BY <2>6, <2>7, <2>8
<1> QED
  BY <1>1, IInvHolds, PTL

\* The path parameter of a goal never decreases and gains at most 2 * W per
\* call, although the search window reaches behind it (lines 65-70, 85-89).
THEOREM NeverMovesBack == Spec => NeverBack
<1>1. IInv /\ [Next]_vars => [Advances]_vars
  <2> SUFFICES ASSUME IInv, Next PROVE Advances
    OBVIOUS
  <2>1. ASSUME currentT' = currentT PROVE Advances
    BY <2>1, PathAssumption DEF IInv, TypeOK, SearchTypeOK, Advances
  <2>2. CASE Return
    BY <2>2, ReturnBound
  <2> QED
    BY <2>1, <2>2 DEF Next, Call, Scan, searchVars
<1> QED
  BY <1>1, IInvHolds, PTL DEF NeverBack, Spec

\* binomialCoefficients (lines 29-44) writes beyond its vector for no goal of two points
\* or more, however many.
THEOREM WritesInside == Spec => []StaysInside
<1>1. IInv => StaysInside
  BY DEF IInv, CurveInv
<1> QED
  BY <1>1, IInvHolds, PTL

-----------------------------------------------------------------------------

\* C[k][j] is the j-th number in row k of Pascal's triangle.
PascalsTriangle(C) ==
    /\ \A k \in Nat : C[k][0] = 1 /\ C[k][k] = 1
    /\ \A k, j \in Nat : 1 <= j /\ j <= k => C[k + 1][j] = C[k][j] + C[k][j - 1]

\* The vector holds a row of the triangle or, inside the loop, the next row behind
\* col and still the old one up to it.
PascalInv(C) ==
    /\ step = "row" => \A j \in 0 .. row : b[j] = C[row][j]
    /\ step = "shift" => /\ \A j \in 0 .. col : b[j] = C[row][j]
                         /\ \A j \in col + 1 .. row + 1 : b[j] = C[row + 1][j]
    /\ step = "done" => \A j \in 0 .. degree : b[j] = C[degree][j]

LEMMA CoefficientsPascal ==
  ASSUME NEW C, PascalsTriangle(C), CurveTypeOK, CurveInv, PascalInv(C), Coefficients
  PROVE  PascalInv(C)'
<1>0. degree \in Int /\ row \in Nat /\ col \in Nat /\ b \in [0 .. degree -> Nat]
  BY DegreeIsInt DEF CurveTypeOK
<1>1. CASE PutEnds
  <2>1. row = 1 /\ row' = 1 /\ degree' = degree /\ step = "ends"
    BY <1>1 DEF PutEnds, CurveInv
  <2>2. CASE degree < 1
    <3>1. ~(DOMAIN [j \in {0, 1} |-> 1] \subseteq DOMAIN b)
      BY <1>0, <2>2
    <3>2. step' = "outside"
      BY <1>1, <3>1 DEF PutEnds, Put
    <3> QED
      BY <3>2 DEF PascalInv
  <2>3. CASE degree >= 1
    <3>1. DOMAIN [j \in {0, 1} |-> 1] \subseteq DOMAIN b
      BY <1>0, <2>3
    <3>2. /\ b' = [j \in 0 .. degree |-> IF j \in {0, 1} THEN 1 ELSE b[j]]
          /\ step' = IF degree = 1 THEN "done" ELSE "row"
      BY <1>0, <1>1, <3>1 DEF PutEnds, Put
    <3>3. C[1][0] = 1 /\ C[1][1] = 1
      BY DEF PascalsTriangle
    <3>4. \A j \in 0 .. 1 : b'[j] = C[1][j]
      BY <1>0, <2>3, <3>2, <3>3
    <3> QED
      BY <2>1, <3>2, <3>4 DEF PascalInv
  <2> QED
    BY <1>0, <2>2, <2>3
<1>2. CASE BeginRow
  <2>1. /\ row + 1 \in 0 .. degree /\ row' = row /\ col' = row /\ degree' = degree
        /\ \A j \in 0 .. row : b[j] = C[row][j]
    BY <1>0, <1>2 DEF BeginRow, CurveInv, PascalInv
  <2>2. b' = [j \in 0 .. degree |-> IF j = row + 1 THEN 1 ELSE b[j]] /\ step' = "shift"
    BY <1>0, <1>2, <2>1 DEF BeginRow, Put
  <2>3. \A j \in 0 .. row : b'[j] = C[row][j]
    BY <1>0, <2>1, <2>2
  <2>4. b'[row + 1] = 1 /\ C[row + 1][row + 1] = 1
    BY <1>0, <2>1, <2>2 DEF PascalsTriangle
  <2>5. \A j \in row + 1 .. row + 1 : j = row + 1
    BY <1>0
  <2> QED
    BY <2>1, <2>2, <2>3, <2>4, <2>5 DEF PascalInv
<1>3. CASE Shift
  <2>1. /\ col \in 1 .. row /\ row < degree /\ row' = row /\ col' = col - 1 /\ degree' = degree
        /\ step = "shift"
    BY <1>0, <1>3 DEF Shift, CurveInv
  <2>2. /\ \A j \in 0 .. col : b[j] = C[row][j]
        /\ \A j \in col + 1 .. row + 1 : b[j] = C[row + 1][j]
    BY <2>1 DEF PascalInv
  <2>3. col \in 0 .. degree /\ col - 1 \in 0 .. degree /\ col - 1 \in Nat /\ row + 1 \in 0 .. degree
    BY <1>0, <2>1
  <2>4. /\ b' = [j \in 0 .. degree |-> IF j = col THEN b[col] + b[col - 1] ELSE b[j]]
        /\ step' = "shift"
    BY <1>0, <1>3, <2>3 DEF Shift, Put
  <2>5. b'[col] = C[row + 1][col]
    <3>1. b[col] = C[row][col] /\ b[col - 1] = C[row][col - 1]
      BY <1>0, <2>1, <2>2
    <3>2. C[row + 1][col] = C[row][col] + C[row][col - 1]
      BY <1>0, <2>1 DEF PascalsTriangle
    <3> QED
      BY <2>3, <2>4, <3>1, <3>2
  <2>6. \A j \in 0 .. col - 1 : b'[j] = C[row][j]
    <3> SUFFICES ASSUME NEW j \in 0 .. col - 1 PROVE b'[j] = C[row][j]
      OBVIOUS
    <3>1. j \in 0 .. col /\ j # col /\ j \in 0 .. degree
      BY <1>0, <2>1
    <3> QED
      BY <2>2, <2>4, <3>1
  <2>7. \A j \in col .. row + 1 : b'[j] = C[row + 1][j]
    <3> SUFFICES ASSUME NEW j \in col .. row + 1, j # col PROVE b'[j] = C[row + 1][j]
      BY <2>5
    <3>1. j \in col + 1 .. row + 1 /\ j \in 0 .. degree
      BY <1>0, <2>1
    <3> QED
      BY <2>2, <2>4, <3>1
  <2>8. col' + 1 = col
    BY <1>0, <2>1
  <2> QED
    BY <2>1, <2>4, <2>6, <2>7, <2>8 DEF PascalInv
<1>4. CASE EndRow
  <2>1. /\ step = "shift" /\ col = 0 /\ row' = row + 1 /\ step' = "row" /\ degree' = degree
        /\ b' = b
    BY <1>4 DEF EndRow
  <2>2. /\ \A j \in 0 .. 0 : b[j] = C[row][j]
        /\ \A j \in 1 .. row + 1 : b[j] = C[row + 1][j]
    BY <2>1 DEF PascalInv
  <2>3. C[row][0] = 1 /\ C[row + 1][0] = 1
    BY <1>0 DEF PascalsTriangle
  <2>4. \A j \in 0 .. row + 1 : b[j] = C[row + 1][j]
    <3> SUFFICES ASSUME NEW j \in 0 .. row + 1 PROVE b[j] = C[row + 1][j]
      OBVIOUS
    <3>1. j = 0 \/ j \in 1 .. row + 1
      BY <1>0
    <3>2. 0 \in 0 .. 0
      OBVIOUS
    <3> QED
      BY <2>2, <2>3, <3>1, <3>2
  <2> QED
    BY <2>1, <2>4 DEF PascalInv
<1>5. CASE ReturnCoefficients
  <2>1. row = degree /\ step = "row" /\ step' = "done" /\ degree' = degree /\ b' = b
    BY <1>0, <1>5 DEF ReturnCoefficients, CurveInv
  <2> QED
    BY <2>1 DEF PascalInv
<1> QED
  BY <1>1, <1>2, <1>3, <1>4, <1>5 DEF Coefficients

\* For a goal of any number of points, binomialCoefficients (lines 29-44) returns the
\* row of Pascal's triangle that belongs to the degree of the goal's curve.
THEOREM ReturnsBinomials ==
  ASSUME NEW C, PascalsTriangle(C)
  PROVE  Spec => [](step = "done" => \A j \in 0 .. degree : b[j] = C[degree][j])
<1>1. Init => PascalInv(C)
  BY DEF Init, InitCurve, PascalInv
<1>2. IInv /\ PascalInv(C) /\ [Next]_vars => PascalInv(C)'
  <2> SUFFICES ASSUME IInv, PascalInv(C), [Next]_vars PROVE PascalInv(C)'
    OBVIOUS
  <2>1. CASE Coefficients
    BY <2>1, CoefficientsPascal DEF IInv, TypeOK
  <2>2. CASE UNCHANGED curveVars
    BY <2>2 DEF curveVars, PascalInv
  <2> QED
    BY <2>1, <2>2 DEF Next, Call, Scan, Return, vars
<1>3. PascalInv(C) => (step = "done" => \A j \in 0 .. degree : b[j] = C[degree][j])
  BY DEF PascalInv
<1> QED
  BY <1>1, <1>2, <1>3, IInvHolds, PTL DEF Spec

=============================================================================
