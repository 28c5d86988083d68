----------------------------- MODULE MCPrograms -----------------------------
(***************************************************************************)
(* The three sequential programs without environment, ip_filter, the       *)
(* map-reduce pipelines and a user of Matrix, for TLC.  A behaviour is one *)
(* of one of them, the others stay where they begin.                       *)
(***************************************************************************)
EXTENDS IpFilter, MapReduce, Matrix

VARIABLE program

Programs == {"ip_filter", "mapreduce", "matrix"}

Init ==
    /\ program \in Programs
    /\ FilterInit
    /\ ReduceInit
    /\ program # "mapreduce" => csv = <<>>
    /\ MatrixInit

Next ==
    /\ \/ /\ program = "ip_filter"
          /\ FilterNext
          /\ UNCHANGED <<reduceVars, matrixVars>>
       \/ /\ program = "mapreduce"
          /\ ReduceNext
          /\ UNCHANGED <<filterVars, matrixVars>>
       \/ /\ program = "matrix"
          /\ MatrixNext
          /\ UNCHANGED <<filterVars, reduceVars>>
    /\ UNCHANGED program

Spec == Init /\ [][Next]_<<program, filterVars, reduceVars, matrixVars>>

-----------------------------------------------------------------------------
(* Octets below 72 stand for those below 256: 1, 46 and 70 are among them. *)
Piece(n) == [number |-> n, left |-> FALSE]

Address(a, b, c, d) == <<Piece(a), Piece(b), Piece(c), Piece(d)>>

SomeLines ==
    {Address(a, b, 2, 3) : a \in {1, 46}, b \in {0, 70, 71}}
    \cup {Address(0, 1, 46, 71), Address(0, 46, 1, 71), Address(71, 0, 71, 46)}
    \cup {Address(46, 70, 2, n) : n \in {-1, 4, 72}}
    \cup {<<>>, <<Piece(1), Piece(46), Piece(70)>>,
          Append(Address(1, 2, 3, 4), Piece(5)),
          [Address(1, 2, 3, 4) EXCEPT ![4].left = TRUE],
          [Address(46, 70, 3, 4) EXCEPT ![2].number = NoNumber]}

(* With two digits 95 is exact, 105 and 115 are ties between 100 and 110   *)
(* and between 110 and 120, 118 is not, and 996 gains a digit.             *)
SomeRows ==
    {[fields |-> n, price |-> 95] : n \in {7, 8}}
    \cup {[fields |-> 9, price |-> p] : p \in {NoPrice, 0, 95, 105, 115, 118, 996}}
=============================================================================
