----------------------------- MODULE Hungarian -----------------------------
(***************************************************************************)
(* AssociateDetections and hungarianSolve of products/rs1/fusion: the      *)
(* detections of one sensor frame are assigned to the tracks by the        *)
(* Hungarian algorithm.  Azimuths are whole degrees, and neither list is   *)
(* empty, for then nothing is solved.  A step is one pass of the inner     *)
(* loop; which of several augmenting paths the breadth-first search meets  *)
(* first is left open.                                                     *)
(***************************************************************************)
EXTENDS Integers, FiniteSets, FiniteSetsExt, Functions

CONSTANTS Azimuth,               \* azimuths in use, in degrees
          MaxDetections,         \* bound on the detections and on the tracks
          MaxAssociationAngle, NoMatchCost

(* atan2 and the bearing of a camera give angles on both sides of ahead. *)
ASSUME AzimuthAssumption == Azimuth \subseteq -180 .. 180
ASSUME BoundAssumption == MaxDetections \in Nat \ {0}
ASSUME CostAssumption ==
    /\ MaxAssociationAngle \in Nat /\ NoMatchCost \in Nat
    /\ NoMatchCost > MaxDetections * MaxAssociationAngle

VARIABLES
    vision, radar,     \* visionAzimuths, radarAzimuths
    matrix,            \* the square matrix, reduced
    rowAssignment,     \* the column of each row, or -1; colAssignment inverts it
    done               \* hungarianSolve has returned

solverVars == <<vision, radar, matrix, rowAssignment, done>>

Rows == DOMAIN vision
Columns == DOMAIN radar
n == Max({Cardinality(Rows), Cardinality(Columns)})
Index == 1 .. n

Lists == UNION {[1 .. k -> Azimuth] : k \in 1 .. MaxDetections}
----------------------------------------------------------------------------
(* The costs, and the reductions.                                          *)

Abs(x) == IF x < 0 THEN -x ELSE x

(* A wrong version of the next definition, for a mutation run. *)
AbsAngleDiff_NoWrap(a, b) == Abs(a - b)

AbsAngleDiff(a, b) == LET diff == Abs(a - b) IN IF diff > 180 THEN 360 - diff ELSE diff

Cost(i, j) ==
    LET angularDiff == AbsAngleDiff(vision[i], radar[j])
    IN  IF angularDiff > MaxAssociationAngle THEN NoMatchCost ELSE angularDiff

(* Dummy rows or columns make the matrix square. *)
Padded == [i \in Index |-> [j \in Index |-> IF i \in Rows /\ j \in Columns THEN Cost(i, j) ELSE 0]]

ReduceRows(M) == [i \in DOMAIN M |-> LET least == Min(Range(M[i]))
                                     IN  [j \in DOMAIN M |-> M[i][j] - least]]

(* A wrong version of the next definition, for a mutation run. *)
ReduceColumns_Most(M) == [i \in DOMAIN M |-> [j \in DOMAIN M |->
                             M[i][j] - Max({M[k][j] : k \in DOMAIN M})]]

ReduceColumns(M) == [i \in DOMAIN M |-> [j \in DOMAIN M |->
                        M[i][j] - Min({M[k][j] : k \in DOMAIN M})]]

(* A wrong version of the next definition, for a mutation run. *)
Greedy_Shared(M) ==
    [i \in DOMAIN M |-> IF 0 \in Range(M[i]) THEN Min({j \in DOMAIN M : M[i][j] = 0}) ELSE -1]

(* Each row in turn takes the first of its zeros whose column is free. *)
Greedy(M) ==
    LET zeros(i, taken) == {j \in DOMAIN M \ taken : M[i][j] = 0}
        pick(i, taken) == IF zeros(i, taken) = {} THEN -1 ELSE Min(zeros(i, taken))
        G[i \in 0 .. Cardinality(DOMAIN M)] ==
            IF i = 0 THEN [k \in DOMAIN M |-> -1]
            ELSE [G[i - 1] EXCEPT ![i] = pick(i, Range(G[i - 1]))]
    IN  G[Cardinality(DOMAIN M)]

SolverInit ==
    /\ vision \in Lists /\ radar \in Lists
    /\ matrix = ReduceColumns(ReduceRows(Padded))
    /\ rowAssignment = Greedy(matrix)
    /\ done = FALSE
----------------------------------------------------------------------------
(* The main loop.                                                          *)

Unassigned == {i \in Index : rowAssignment[i] = -1}
Covered == Range(rowAssignment)

(* Rows are never covered: the least element of the free columns is taken  *)
(* from every row of them.                                                 *)
Adjusted(M) ==
    LET free == Index \ Covered
        least == Min({M[i][j] : i \in Index, j \in free})
    IN  [i \in Index |-> [j \in Index |-> IF j \in free THEN M[i][j] - least ELSE M[i][j]]]

(* The rows of an augmenting path: the first has no column, each of the    *)
(* others gives its own up to its predecessor, the last takes a free one.  *)
Path(M, p, j) ==
    /\ rowAssignment[p[1]] = -1
    /\ IsInjective(p)
    /\ \A k \in DOMAIN p \ {1} :
          rowAssignment[p[k]] # -1 /\ M[p[k - 1]][rowAssignment[p[k]]] = 0
    /\ j \notin Covered /\ M[p[Cardinality(DOMAIN p)]][j] = 0

(* A wrong version of the next definition, for a mutation run. *)
Paths_Direct(M) ==
    {pj \in [1 .. 1 -> Index] \X Index : Path(M, pj[1], pj[2])}

Paths(M) ==
    {pj \in (UNION {[1 .. k -> Index] : k \in Index}) \X Index : Path(M, pj[1], pj[2])}

(* A wrong version of the next definition, for a mutation run. *)
Flip_FirstOnly(p, j) ==
    [i \in Index |->
        IF i = p[1] THEN (IF 2 \in DOMAIN p THEN rowAssignment[p[2]] ELSE j)
        ELSE IF i \in Range(p) THEN -1 ELSE rowAssignment[i]]

Flip(p, j) ==
    [i \in Index |->
        IF i \in Range(p)
        THEN LET k == CHOOSE k \in DOMAIN p : p[k] = i
             IN  IF k + 1 \in DOMAIN p THEN rowAssignment[p[k + 1]] ELSE j
        ELSE rowAssignment[i]]

Augment ==
    /\ ~done /\ Unassigned # {}
    /\ matrix' = Adjusted(matrix)
    /\ \E pj \in Paths(matrix') : rowAssignment' = Flip(pj[1], pj[2])
    /\ UNCHANGED <<vision, radar, done>>

(* A pass that finds no path is followed by another one. *)
Retry ==
    /\ ~done /\ Unassigned # {}
    /\ matrix' = Adjusted(matrix)
    /\ Paths(matrix') = {}
    /\ UNCHANGED <<vision, radar, rowAssignment, done>>

Return ==
    /\ ~done /\ Unassigned = {}
    /\ done' = TRUE
    /\ UNCHANGED <<vision, radar, matrix, rowAssignment>>

SolverNext == Augment \/ Retry \/ Return

SolverSpec == SolverInit /\ [][SolverNext]_solverVars /\ WF_solverVars(SolverNext)
----------------------------------------------------------------------------
SolverTypeOK ==
    /\ vision \in Lists /\ radar \in Lists
    /\ DOMAIN matrix = Index
    /\ \A i \in Index : DOMAIN matrix[i] = Index /\ Range(matrix[i]) \subseteq Nat
    /\ rowAssignment \in [Index -> Index \cup {-1}]
    /\ done \in BOOLEAN

(* The associations AssociateDetections makes of an assignment. *)
Associations ==
    {p \in Rows \X Columns : rowAssignment[p[1]] = p[2] /\ Cost(p[1], p[2]) < NoMatchCost}

Matching(A) == \A p, q \in A : (p[1] = q[1]) <=> (p[2] = q[2])
Angle(a, b) == Min({Abs(a - b + k) : k \in {-360, 0, 360}})
Within == {p \in Rows \X Columns : Angle(vision[p[1]], radar[p[2]]) <= MaxAssociationAngle}
Gaps == [p \in Rows \X Columns |-> Angle(vision[p[1]], radar[p[2]])]
Total(A) == MapThenSumSet(LAMBDA p : Gaps[p], A)

(* AssociateDetections returns a one-to-one association of detections no   *)
(* more than MaxAssociationAngle apart; no other has more pairs, and none  *)
(* with as many pairs has a smaller sum of angles.                         *)
ResultIsOptimal ==
    done => /\ Associations \subseteq Within /\ Matching(Associations)
            /\ \A A \in SUBSET Within : Matching(A) =>
                  \/ Cardinality(A) < Cardinality(Associations)
                  \/ /\ Cardinality(A) = Cardinality(Associations)
                     /\ Total(Associations) <= Total(A)

(* While it searches, no two rows share a column, and an assigned row has  *)
(* a zero of the reduced matrix there: what makes the result optimal.      *)
AssignedZeros ==
    \A i \in Index \ Unassigned :
        /\ matrix[i][rowAssignment[i]] = 0
        /\ \A k \in Index \ {i} : rowAssignment[k] # rowAssignment[i]

(* An augmentation may move rows to other columns, but takes no row's      *)
(* column away without giving it another.                                  *)
RowsStayAssigned == [][Unassigned' \subseteq Unassigned]_solverVars

(* Up to two detections and two tracks, the solver returns: every zero     *)
(* matrix it can meet there has a zero in every column for a row to take.  *)
SmallReturns == (n <= 2) ~> done

(* "Main loop: augment until all rows are assigned" (hungarian.go:194).    *)
SolverReturns == <>done

(* The search keeps what makes its result optimal, and it is; types.       *)
Associates == SolverTypeOK /\ AssignedZeros /\ ResultIsOptimal
=============================================================================
