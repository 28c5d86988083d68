------------------------------ MODULE TotalMap ------------------------------
(***************************************************************************)
(* What the matrix of hw-6 promises: a value for every cell, all equal to  *)
(* a default at first, and the number of cells that differ from it.  The   *)
(* user sees what a read or size() returns.                                *)
(***************************************************************************)
EXTENDS Naturals, FiniteSets

CONSTANTS Cells, Values, Default

VARIABLES
    cell,       \* the value of every cell
    result      \* what the last read, or the last size(), returned

vars == <<cell, result>>

Init ==
    /\ cell = [i \in Cells |-> Default]
    /\ result = Default

Read(i) == result' = cell[i] /\ UNCHANGED cell

Count == result' = Cardinality({i \in Cells : cell[i] # Default}) /\ UNCHANGED cell

Assign(i, v) == cell' = [cell EXCEPT ![i] = v] /\ UNCHANGED result

Next ==
    \/ Count
    \/ \E i \in Cells : Read(i) \/ \E v \in Values : Assign(i, v)

Spec == Init /\ [][Next]_vars
=============================================================================
