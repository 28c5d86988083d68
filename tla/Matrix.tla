------------------------------- MODULE Matrix -------------------------------
(***************************************************************************)
(* The matrix of hw-6-matrix (infinity_matrix.hpp): a std::map from index  *)
(* pairs to the values that differ from DefaultValue, written and read     *)
(* through CellProxy objects, and walked by an Iterator while the loop's   *)
(* body may go on assigning.                                               *)
(*                                                                         *)
(* A proxy is a cell's index: it looks the cell up at each use.  A chain   *)
(* of assignments is one assign after another.  The body of a loop does    *)
(* not reset the cell its iterator stands on, which would invalidate it;   *)
(* every other assignment leaves a map's iterators valid.                  *)
(***************************************************************************)
EXTENDS Naturals, Sequences, FiniteSets

CONSTANTS
    Coordinates,    \* the indices in use
    Values,         \* Type
    DefaultValue,
    End             \* end()

ASSUME MatrixAssumption ==
    /\ Coordinates \subseteq Nat
    /\ IsFiniteSet(Coordinates)
    /\ DefaultValue \in Values
    /\ End \notin Coordinates \X Coordinates

Cells == Coordinates \X Coordinates     \* Index: row x, column y

VARIABLES
    data,       \* the map
    result,     \* what the last read, or the last size(), returned
    it,         \* the cell under the iterator of a loop, or End
    visited,    \* history: the cells the loop has seen, in order
    steady      \* history: the cells occupied ever since the loop began

loopVars == <<it, visited, steady>>
matrixVars == <<data, result, loopVars>>

MatrixInit ==
    /\ data = <<>>
    /\ result = DefaultValue
    /\ it = End
    /\ visited = <<>>
    /\ steady = {}

\* (mutant of Before: the columns are not compared)
Before_RowsOnly(i, j) == i[1] < j[1]
\* Index::operator<
Before(i, j) == i[1] < j[1] \/ (i[1] = j[1] /\ i[2] < j[2])

\* CellProxy::operator Type
Value(i) == IF i \in DOMAIN data THEN data[i] ELSE DefaultValue

\* (mutant of Stored: a default is kept like any other value)
Stored_Always(i, v) == [j \in DOMAIN data \cup {i} |-> IF j = i THEN v ELSE data[j]]
\* the map after CellProxy::operator=(const Type&)
Stored(i, v) ==
    IF v = DefaultValue THEN [j \in DOMAIN data \ {i} |-> data[j]]
    ELSE [j \in DOMAIN data \cup {i} |-> IF j = i THEN v ELSE data[j]]

-----------------------------------------------------------------------------
read(i) ==
    /\ result' = Value(i)
    /\ UNCHANGED <<data, loopVars>>

size ==
    /\ result' = Cardinality(DOMAIN data)
    /\ UNCHANGED <<data, loopVars>>

assign(i, v) ==
    /\ v = DefaultValue => i # it
    /\ data' = Stored(i, v)
    /\ steady' = steady \cap DOMAIN data'
    /\ UNCHANGED <<result, it, visited>>

\* CellProxy::operator=(const CellProxy&)
assign_cell(i, j) == assign(i, Value(j))

\* The iterator that stands on the first of these cells.
First(S) == CHOOSE i \in S : \A j \in S : ~Before(j, i)
At(S) == IF S = {} THEN End ELSE First(S)
\* operator!= and operator*, once the iterator has come to i
Seen(i) == IF i = End THEN <<>> ELSE <<i>>

begin ==
    /\ it = End
    /\ it' = At(DOMAIN data)
    /\ visited' = Seen(it')
    /\ steady' = DOMAIN data
    /\ UNCHANGED <<data, result>>

\* Iterator::operator++
advance ==
    /\ it # End
    /\ it' = At({i \in DOMAIN data : Before(it, i)})
    /\ visited' = visited \o Seen(it')
    /\ UNCHANGED <<data, result, steady>>

MatrixNext ==
    \/ size \/ begin \/ advance
    \/ \E i \in Cells :
          \/ read(i)
          \/ \E v \in Values : assign(i, v)
          \/ \E j \in Cells : assign_cell(i, j)

MatrixSpec == MatrixInit /\ [][MatrixNext]_matrixVars

-----------------------------------------------------------------------------
(***************************************************************************)
(* A matrix is a total map: reading and counting through the sparse map    *)
(* give what they would give if every cell were stored.  This needs that   *)
(* no default is ever stored, whichever way it is assigned.                *)
(***************************************************************************)
Total == INSTANCE TotalMap WITH cell <- [i \in Cells |-> Value(i)],
                                Default <- DefaultValue

ImplementsTotalMap == Total!Spec

(***************************************************************************)
(* A loop sees its cells in order of row and column, none twice; and it    *)
(* has passed by no cell that was occupied all the while, whatever its     *)
(* body assigned to other cells.                                           *)
(***************************************************************************)
LoopSeesSteadyCells ==
    /\ \A m, n \in DOMAIN visited : m < n => Before(visited[m], visited[n])
    /\ \A i \in steady :
          \/ it # End /\ Before(it, i)
          \/ \E n \in DOMAIN visited : visited[n] = i
=============================================================================
