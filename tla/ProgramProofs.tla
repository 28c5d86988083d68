--------------------------- MODULE ProgramProofs ---------------------------
(***************************************************************************)
(* Theorems about two programs with one user.  The matrix of hw-6, for any *)
(* finite set of indices and any values: nothing is stored in vain, a loop *)
(* misses nothing, and it is a total map.  The vector editor of hw-5, for  *)
(* drawings of any length, any number of entities and of restarts.         *)
(***************************************************************************)
EXTENDS Matrix, Editor, WellFoundedInduction, TLAPS

-----------------------------------------------------------------------------
(***************************************************************************)
(* Index::operator< is a strict total order, and every non-empty set of    *)
(* cells has a first one.                                                  *)
(***************************************************************************)
LEMMA CellParts ==
    ASSUME NEW i \in Cells
    PROVE  i[1] \in Nat /\ i[2] \in Nat /\ i = <<i[1], i[2]>>
<1>1. PICK a \in Coordinates, b \in Coordinates : i = <<a, b>>
  BY DEF Cells
<1>2. <<a, b>>[1] = a /\ <<a, b>>[2] = b
  OBVIOUS
<1> QED
  BY <1>1, <1>2, MatrixAssumption

LEMMA OrderOfCells ==
    ASSUME NEW i \in Cells, NEW j \in Cells, NEW k \in Cells
    PROVE  /\ ~Before(i, i)
           /\ Before(i, j) \/ Before(j, i) \/ i = j
           /\ Before(i, j) /\ Before(j, k) => Before(i, k)
<1>1. /\ i[1] \in Nat /\ i[2] \in Nat /\ i = <<i[1], i[2]>>
      /\ j[1] \in Nat /\ j[2] \in Nat /\ j = <<j[1], j[2]>>
      /\ k[1] \in Nat /\ k[2] \in Nat
  BY CellParts
<1>2. i[1] = j[1] /\ i[2] = j[2] => i = j
  BY <1>1
<1> QED
  BY <1>1, <1>2 DEF Before

LEMMA LeastNumber ==
    ASSUME NEW S, S \subseteq Nat, S # {}
    PROVE  \E n \in S : \A m \in S : ~(m < n)
<1>1. \E n \in S : \A m \in S : <<m, n>> \notin OpToRel(<, Nat)
  BY NatLessThanWellFounded, WFMin, Zenon
<1> QED
  BY <1>1 DEF OpToRel

LEMMA FirstCell ==
    ASSUME NEW S, S \subseteq Cells, S # {}
    PROVE  First(S) \in S /\ \A j \in S : ~Before(j, First(S))
<1> DEFINE X == {i[1] : i \in S}
<1>1. X \subseteq Nat /\ X # {}
  BY CellParts
<1>2. PICK x \in X : \A m \in X : ~(m < x)
  BY <1>1, LeastNumber
<1> DEFINE Y == {i[2] : i \in {j \in S : j[1] = x}}
<1>3. Y \subseteq Nat /\ Y # {}
  <2>1. PICK i \in S : i[1] = x
    OBVIOUS
  <2> QED
    BY <2>1, CellParts
<1>4. PICK y \in Y : \A m \in Y : ~(m < y)
  BY <1>3, LeastNumber
<1>5. PICK i \in S : i[1] = x /\ i[2] = y
  BY DEF Y
<1>6. ASSUME NEW j \in S, Before(j, i)
      PROVE  FALSE
  <2>1. j[1] \in X /\ (j[1] = x => j[2] \in Y)
    OBVIOUS
  <2> HIDE DEF X, Y
  <2> QED
    BY <2>1, <1>2, <1>4, <1>5, <1>6 DEF Before
<1> QED
  BY <1>6 DEF First

-----------------------------------------------------------------------------
(***************************************************************************)
(* The map holds values that differ from the default only, the iterator of *)
(* a loop stands on an occupied cell, and what was occupied all the while  *)
(* still is.                                                               *)
(***************************************************************************)
MatrixTypeOK ==
    /\ DOMAIN data \subseteq Cells
    /\ data \in [DOMAIN data -> Values \ {DefaultValue}]
    /\ it \in Cells \cup {End}
    /\ it # End => it \in DOMAIN data
    /\ visited \in Seq(Cells)
    /\ steady \subseteq DOMAIN data

LEMMA EndIsNoCell == End \notin Cells
  BY MatrixAssumption DEF Cells

LEMMA StoredIsSparse ==
    ASSUME MatrixTypeOK, NEW i \in Cells, NEW v \in Values
    PROVE  /\ DOMAIN Stored(i, v) \subseteq Cells
           /\ Stored(i, v) \in [DOMAIN Stored(i, v) -> Values \ {DefaultValue}]
           /\ DOMAIN Stored(i, v) =
                 IF v = DefaultValue THEN DOMAIN data \ {i} ELSE DOMAIN data \cup {i}
           /\ \A j \in DOMAIN Stored(i, v) : Stored(i, v)[j] = IF j = i THEN v ELSE data[j]
  BY DEF Stored, MatrixTypeOK

LEMMA ValueTyped ==
    ASSUME MatrixTypeOK, NEW i \in Cells
    PROVE  Value(i) \in Values
  BY MatrixAssumption DEF Value, MatrixTypeOK

\* Where the iterator goes: to a first cell, or to the end.
LEMMA AtCell ==
    ASSUME NEW S, S \subseteq Cells
    PROVE  /\ S = {} => At(S) = End /\ Seen(At(S)) = <<>>
           /\ S # {} => /\ At(S) \in S
                        /\ At(S) # End
                        /\ Seen(At(S)) = <<At(S)>>
                        /\ \A j \in S : j = At(S) \/ Before(At(S), j)
<1>1. CASE S = {}
  BY <1>1 DEF At, Seen
<1>2. CASE S # {}
  <2>1. At(S) \in S /\ \A j \in S : ~Before(j, At(S))
    BY <1>2, FirstCell DEF At
  <2>2. At(S) # End
    BY <2>1, EndIsNoCell
  <2> QED
    BY <1>2, <2>1, <2>2, OrderOfCells DEF Seen
<1> QED
  BY <1>1, <1>2

LEMMA MatrixTypes ==
    ASSUME MatrixTypeOK, [MatrixNext]_matrixVars
    PROVE  MatrixTypeOK'
<1>1. CASE UNCHANGED matrixVars
  BY <1>1 DEF MatrixTypeOK, matrixVars, loopVars
<1>2. ASSUME NEW i \in Cells, NEW v \in Values, assign(i, v)
      PROVE  MatrixTypeOK'
  <2>1. /\ data' = Stored(i, v)
        /\ steady' = steady \cap DOMAIN data'
        /\ UNCHANGED <<it, visited>>
        /\ v = DefaultValue => i # it
    BY <1>2 DEF assign
  <2>2. /\ DOMAIN data' \subseteq Cells
        /\ data' \in [DOMAIN data' -> Values \ {DefaultValue}]
    BY <2>1, StoredIsSparse
  <2>3. DOMAIN data' = IF v = DefaultValue THEN DOMAIN data \ {i} ELSE DOMAIN data \cup {i}
    BY <2>1, StoredIsSparse
  <2>4. it # End => it \in DOMAIN data'
    BY <2>1, <2>3 DEF MatrixTypeOK
  <2> QED
    BY <2>1, <2>2, <2>4 DEF MatrixTypeOK
<1>3. ASSUME NEW i \in Cells, NEW j \in Cells, assign_cell(i, j)
      PROVE  MatrixTypeOK'
  BY <1>2, <1>3, ValueTyped DEF assign_cell
<1>4. CASE size \/ \E i \in Cells : read(i)
  BY <1>4 DEF size, read, MatrixTypeOK, loopVars
<1>5. ASSUME NEW S, S \subseteq DOMAIN data, it' = At(S),
             visited' = Seen(it') \/ visited' = visited \o Seen(it'),
             steady' \subseteq DOMAIN data, data' = data
      PROVE  MatrixTypeOK'
  <2>1. S \subseteq Cells
    BY <1>5 DEF MatrixTypeOK
  <2>2. At(S) \in S \cup {End} /\ Seen(At(S)) \in Seq(Cells)
    <3>1. CASE S = {}
      <4>1. At(S) = End /\ Seen(At(S)) = <<>>
        BY <3>1, <2>1, AtCell
      <4> QED
        BY <4>1
    <3>2. CASE S # {}
      <4>1. At(S) \in S /\ Seen(At(S)) = <<At(S)>>
        BY <3>2, <2>1, AtCell
      <4>2. At(S) \in Cells
        BY <4>1, <2>1
      <4> QED
        BY <4>1, <4>2
    <3> QED
      BY <3>1, <3>2
  <2>3. Seen(it') = Seen(At(S))
    BY <1>5
  <2>4. visited' \in Seq(Cells)
    <3>1. visited \in Seq(Cells) /\ Seen(it') \in Seq(Cells)
      BY <2>2, <2>3 DEF MatrixTypeOK
    <3>2. visited \o Seen(it') \in Seq(Cells)
      BY <3>1
    <3> QED
      BY <3>1, <3>2, <1>5
  <2>5. /\ it' \in Cells \cup {End}
        /\ it' # End => it' \in DOMAIN data
    BY <2>1, <2>2, <1>5
  <2> QED
    BY <2>4, <2>5, <1>5 DEF MatrixTypeOK
<1>6. CASE begin
  BY <1>5, <1>6 DEF begin
<1>7. CASE advance
  <2>1. {i \in DOMAIN data : Before(it, i)} \subseteq DOMAIN data
    OBVIOUS
  <2>2. steady' \subseteq DOMAIN data
    BY <1>7 DEF advance, MatrixTypeOK
  <2> QED
    BY <1>5, <1>7, <2>1, <2>2 DEF advance
<1> QED
  BY <1>1, <1>2, <1>3, <1>4, <1>6, <1>7 DEF MatrixNext

LEMMA MatrixStarts == MatrixInit => MatrixTypeOK
<1>1. DOMAIN <<>> = {}
  OBVIOUS
<1> QED
  BY <1>1, MatrixAssumption DEF MatrixInit, MatrixTypeOK

(***************************************************************************)
(* No default is ever stored, whatever is assigned in whatever order.      *)
(***************************************************************************)
THEOREM MatrixIsSparse == MatrixSpec => []MatrixTypeOK
  BY MatrixStarts, MatrixTypes, PTL DEF MatrixSpec

-----------------------------------------------------------------------------
(***************************************************************************)
(* The loop.  Besides what LoopSeesSteadyCells says, the iterator stands   *)
(* on the last cell seen.                                                  *)
(***************************************************************************)
Loop ==
    /\ LoopSeesSteadyCells
    /\ it # End =>
          /\ visited # <<>>
          /\ visited[Len(visited)] = it

\* Every cell seen comes before the iterator's, or is it.
LEMMA SeenBefore ==
    ASSUME MatrixTypeOK, Loop, it # End, NEW n \in DOMAIN visited
    PROVE  visited[n] = it \/ Before(visited[n], it)
<1>1. Len(visited) \in DOMAIN visited /\ visited[Len(visited)] = it
  BY DEF Loop, MatrixTypeOK
<1>2. n = Len(visited) \/ n < Len(visited)
  BY DEF MatrixTypeOK
<1> QED
  BY <1>1, <1>2 DEF Loop, LoopSeesSteadyCells

LEMMA SeenExtended ==
    ASSUME MatrixTypeOK, NEW i \in Cells
    PROVE  /\ DOMAIN (visited \o <<i>>) = DOMAIN visited \cup {Len(visited) + 1}
           /\ \A n \in DOMAIN visited : (visited \o <<i>>)[n] = visited[n]
           /\ (visited \o <<i>>)[Len(visited) + 1] = i
           /\ Len(visited \o <<i>>) = Len(visited) + 1
           /\ visited \o <<i>> # <<>>
           /\ \A n \in DOMAIN visited : n < Len(visited) + 1
<1>1. visited \in Seq(Cells)
  BY DEF MatrixTypeOK
<1> QED
  BY <1>1

LEMMA LoopStep ==
    ASSUME MatrixTypeOK, Loop, [MatrixNext]_matrixVars
    PROVE  Loop'
<1>1. CASE UNCHANGED matrixVars
  BY <1>1 DEF Loop, LoopSeesSteadyCells, matrixVars, loopVars
<1>2. ASSUME NEW i \in Cells, NEW v \in Values, assign(i, v)
      PROVE  Loop'
  BY <1>2 DEF assign, Loop, LoopSeesSteadyCells
<1>3. ASSUME NEW i \in Cells, NEW j \in Cells, assign_cell(i, j)
      PROVE  Loop'
  BY <1>2, <1>3, ValueTyped DEF assign_cell
<1>4. CASE size \/ \E i \in Cells : read(i)
  BY <1>4 DEF size, read, loopVars, Loop, LoopSeesSteadyCells
<1>5. CASE begin
  <2> DEFINE S == DOMAIN data
  <2>1. S \subseteq Cells
    BY DEF MatrixTypeOK
  <2>2. it' = At(S) /\ visited' = Seen(At(S)) /\ steady' = S
    BY <1>5 DEF begin
  <2> HIDE DEF S
  <2>3. CASE S = {}
    <3>1. it' = End /\ visited' = <<>> /\ steady' = {}
      BY <2>1, <2>2, <2>3, AtCell
    <3> QED
      BY <3>1 DEF Loop, LoopSeesSteadyCells
  <2>4. CASE S # {}
    <3>1. /\ it' \in S /\ it' # End
          /\ visited' = <<it'>>
          /\ \A j \in S : j = it' \/ Before(it', j)
      BY <2>1, <2>2, <2>4, AtCell
    <3>2. DOMAIN visited' = {1} /\ Len(visited') = 1 /\ visited'[1] = it'
      BY <3>1
    <3> QED
      BY <2>2, <3>1, <3>2 DEF Loop, LoopSeesSteadyCells
  <2> QED
    BY <2>3, <2>4
<1>6. CASE advance
  <2> DEFINE S == {i \in DOMAIN data : Before(it, i)}
  <2>1. S \subseteq Cells /\ \A i \in S : Before(it, i)
    BY DEF MatrixTypeOK
  <2>2. it # End /\ it' = At(S) /\ visited' = visited \o Seen(At(S)) /\ steady' = steady
    BY <1>6 DEF advance
  <2>3. \A i \in steady : i \in S \/ \E n \in DOMAIN visited : visited[n] = i
    BY <2>2 DEF MatrixTypeOK, Loop, LoopSeesSteadyCells
  <2> HIDE DEF S
  <2>4. visited \in Seq(Cells) /\ it \in Cells
    BY <2>2 DEF MatrixTypeOK
  <2>5. CASE S = {}
    <3>1. it' = End /\ visited' = visited \o <<>>
      BY <2>1, <2>2, <2>5, AtCell
    <3>2. visited' = visited
      BY <3>1, <2>4
    <3> QED
      BY <2>2, <2>3, <2>5, <3>1, <3>2 DEF Loop, LoopSeesSteadyCells
  <2>6. CASE S # {}
    <3>1. /\ it' \in S /\ it' # End /\ it' \in Cells
          /\ visited' = visited \o <<it'>>
          /\ \A j \in S : j = it' \/ Before(it', j)
      BY <2>1, <2>2, <2>6, AtCell
    <3>2. /\ DOMAIN visited' = DOMAIN visited \cup {Len(visited) + 1}
          /\ \A n \in DOMAIN visited : visited'[n] = visited[n] /\ n < Len(visited) + 1
          /\ visited'[Len(visited) + 1] = it'
          /\ Len(visited') = Len(visited) + 1
          /\ visited' # <<>>
      BY <3>1, SeenExtended
    <3>3. \A n \in DOMAIN visited : Before(visited[n], it')
      <4> SUFFICES ASSUME NEW n \in DOMAIN visited
                   PROVE  Before(visited[n], it')
        OBVIOUS
      <4>1. visited[n] \in Cells
        BY <2>4
      <4>2. Before(it, it')
        BY <2>1, <3>1
      <4>3. visited[n] = it \/ Before(visited[n], it)
        BY <2>2, SeenBefore
      <4> QED
        BY <4>1, <4>2, <4>3, <2>4, <3>1, OrderOfCells
    <3>4. \A m, n \in DOMAIN visited' : m < n => Before(visited'[m], visited'[n])
      <4> SUFFICES ASSUME NEW m \in DOMAIN visited', NEW n \in DOMAIN visited', m < n
                   PROVE  Before(visited'[m], visited'[n])
        OBVIOUS
      <4>1. m \in Nat /\ n \in Nat /\ Len(visited) \in Nat
        BY <2>4, <3>2
      <4>2. m \in DOMAIN visited
        BY <2>4, <3>2, <4>1
      <4>3. CASE n \in DOMAIN visited
        BY <4>2, <4>3, <3>2 DEF Loop, LoopSeesSteadyCells
      <4>4. CASE n = Len(visited) + 1
        BY <4>2, <4>4, <3>2, <3>3
      <4> QED
        BY <4>3, <4>4, <3>2
    <3>5. \A i \in steady' : \/ it' # End /\ Before(it', i)
                             \/ \E n \in DOMAIN visited' : visited'[n] = i
      BY <2>2, <2>3, <3>1, <3>2
    <3> QED
      BY <3>1, <3>2, <3>4, <3>5 DEF Loop, LoopSeesSteadyCells
  <2> QED
    BY <2>5, <2>6
<1> QED
  BY <1>1, <1>2, <1>3, <1>4, <1>5, <1>6 DEF MatrixNext

(***************************************************************************)
(* For any indices, and whatever the body of a loop assigns to other cells *)
(* than the iterator's, the loop sees its cells in order, and every cell   *)
(* that was occupied all the while.                                        *)
(***************************************************************************)
THEOREM LoopCorrect == MatrixSpec => []LoopSeesSteadyCells
<1>1. MatrixInit => MatrixTypeOK /\ Loop
  BY MatrixStarts DEF MatrixInit, Loop, LoopSeesSteadyCells
<1>2. MatrixTypeOK /\ Loop /\ [MatrixNext]_matrixVars => (MatrixTypeOK /\ Loop)'
  BY MatrixTypes, LoopStep
<1>3. Loop => LoopSeesSteadyCells
  BY DEF Loop
<1> QED
  BY <1>1, <1>2, <1>3, PTL DEF MatrixSpec

-----------------------------------------------------------------------------
(***************************************************************************)
(* The sparse map implements the total one: an assignment changes the      *)
(* value of one cell, a read and size() return what the total map has, and *)
(* a step of a loop changes nothing.                                       *)
(***************************************************************************)
Whole == [i \in Cells |-> Value(i)]

LEMMA AssignImplements ==
    ASSUME MatrixTypeOK, NEW i \in Cells, NEW v \in Values, assign(i, v)
    PROVE  Total!Assign(i, v)
<1>1. data' = Stored(i, v) /\ result' = result
  BY DEF assign
<1>2. \A j \in Cells : Value(j)' = IF j = i THEN v ELSE Value(j)
  <2>1. /\ DOMAIN data' =
              IF v = DefaultValue THEN DOMAIN data \ {i} ELSE DOMAIN data \cup {i}
        /\ \A j \in DOMAIN data' : data'[j] = IF j = i THEN v ELSE data[j]
    <3>1. /\ DOMAIN Stored(i, v) =
                IF v = DefaultValue THEN DOMAIN data \ {i} ELSE DOMAIN data \cup {i}
          /\ \A j \in DOMAIN Stored(i, v) : Stored(i, v)[j] = IF j = i THEN v ELSE data[j]
      BY StoredIsSparse
    <3> QED
      BY <1>1, <3>1
  <2> SUFFICES ASSUME NEW j \in Cells
               PROVE  Value(j)' = IF j = i THEN v ELSE Value(j)
    OBVIOUS
  <2>2. CASE j = i
    BY <2>1, <2>2 DEF Value
  <2>3. CASE j # i
    <3>1. j \in DOMAIN data' <=> j \in DOMAIN data
      BY <2>1, <2>3
    <3>2. j \in DOMAIN data' => data'[j] = data[j]
      BY <2>1, <2>3
    <3> QED
      BY <3>1, <3>2, <2>3 DEF Value
  <2> QED
    BY <2>2, <2>3
<1>3. Whole' = [Whole EXCEPT ![i] = v]
  BY <1>2 DEF Whole
<1> QED
  BY <1>1, <1>3 DEF Total!Assign, Whole

LEMMA ReadImplements ==
    ASSUME NEW i \in Cells, read(i)
    PROVE  Total!Read(i)
  BY DEF read, Total!Read, Value

LEMMA SizeImplements ==
    ASSUME MatrixTypeOK, size
    PROVE  Total!Count
<1>1. {i \in Cells : [j \in Cells |-> Value(j)][i] # DefaultValue} = DOMAIN data
  BY DEF Value, MatrixTypeOK
<1>2. result' = Cardinality(DOMAIN data) /\ data' = data
  BY DEF size
<1>3. Whole' = Whole
  BY <1>2 DEF Whole, Value
<1>4. result' = Cardinality({i \in Cells : [j \in Cells |-> Value(j)][i] # DefaultValue})
  BY <1>1, <1>2, Zenon
<1> QED
  BY <1>3, <1>4, Zenon DEF Total!Count, Total!Cardinality, Cardinality, Whole

LEMMA StepImplements ==
    ASSUME MatrixTypeOK, [MatrixNext]_matrixVars
    PROVE  [Total!Next]_Total!vars
<1>1. ASSUME data' = data, result' = result
      PROVE  UNCHANGED Total!vars
  BY <1>1 DEF Total!vars, Value
<1>2. CASE UNCHANGED matrixVars \/ begin \/ advance
  BY <1>1, <1>2 DEF matrixVars, begin, advance
<1>3. ASSUME NEW i \in Cells, NEW v \in Values, assign(i, v)
      PROVE  Total!Next
  BY <1>3, AssignImplements DEF Total!Next
<1>4. ASSUME NEW i \in Cells, NEW j \in Cells, assign_cell(i, j)
      PROVE  Total!Next
  BY <1>3, <1>4, ValueTyped DEF assign_cell
<1>5. ASSUME NEW i \in Cells, read(i)
      PROVE  Total!Next
  BY <1>5, ReadImplements DEF Total!Next
<1>6. CASE size
  BY <1>6, SizeImplements DEF Total!Next
<1> QED
  BY <1>2, <1>3, <1>4, <1>5, <1>6 DEF MatrixNext

(***************************************************************************)
(* A user of the matrix cannot tell the sparse map behind its proxies from *)
(* a map that stores every cell.                                           *)
(***************************************************************************)
THEOREM MatrixRefines == MatrixSpec => ImplementsTotalMap
<1>1. MatrixInit => Total!Init
  <2> SUFFICES ASSUME MatrixInit PROVE Total!Init
    OBVIOUS
  <2>1. data = <<>> /\ result = DefaultValue
    BY DEF MatrixInit
  <2>2. DOMAIN <<>> = {}
    OBVIOUS
  <2> QED
    BY <2>1, <2>2 DEF Total!Init, Value
<1>2. MatrixTypeOK /\ [MatrixNext]_matrixVars => [Total!Next]_Total!vars
  BY StepImplements
<1> QED
  BY <1>1, <1>2, MatrixIsSparse, PTL DEF MatrixSpec, ImplementsTotalMap, Total!Spec

-----------------------------------------------------------------------------
LEMMA ShapesOf ==
    ASSUME NEW S, NEW list \in Seq([id : S, type : ShapeTypes])
    PROVE  /\ Shapes(list) \in Seq(ShapeTypes)
           /\ Len(Shapes(list)) = Len(list)
           /\ \A k \in 1..Len(list) : Shapes(list)[k] = list[k].type
<1> DEFINE E == [id : S, type : ShapeTypes]
<1>0. \A k \in 1..Len(list) : list[k] \in E
  <2> HIDE DEF E
  <2>1. list \in Seq(E)
    BY DEF E
  <2> QED
    BY <2>1
<1>1. \A k \in 1..Len(list) : list[k].type \in ShapeTypes
  BY <1>0
<1>2. Shapes(list) = [k \in 1..Len(list) |-> list[k].type]
  BY DEF Shapes
<1> QED
  BY <1>1, <1>2

LEMMA NoShapes == Shapes(<<>>) = <<>>
<1>1. <<>> \in Seq([id : {}, type : ShapeTypes])
  OBVIOUS
<1>2. Shapes(<<>>) \in Seq(ShapeTypes) /\ Len(Shapes(<<>>)) = 0
  BY <1>1, ShapesOf
<1> QED
  BY <1>2

(***************************************************************************)
(* createEntity appends shapes whose ids are above the counter.            *)
(***************************************************************************)
Created(new) == [k \in DOMAIN new |-> [id |-> NewId(k), type |-> new[k]]]

LEMMA CreatedShapes ==
    ASSUME NEW new \in Seq(ShapeTypes), counter \in Nat, counter + Len(new) <= MaxIds,
           MaxIds \in Nat
    PROVE  /\ Created(new) \in Seq([id : 1..MaxIds, type : ShapeTypes])
           /\ Len(Created(new)) = Len(new)
           /\ \A k \in 1..Len(new) : /\ Created(new)[k].id = counter + k
                                     /\ Created(new)[k].type = new[k]
<1>1. DOMAIN new = 1..Len(new) /\ Len(new) \in Nat
  OBVIOUS
<1>2. \A k \in 1..Len(new) : counter + k \in 1..MaxIds /\ new[k] \in ShapeTypes
  BY <1>1
<1>3. Created(new) = [k \in 1..Len(new) |-> [id |-> counter + k, type |-> new[k]]]
  BY <1>1 DEF Created, NewId
<1> QED
  BY <1>1, <1>2, <1>3

-----------------------------------------------------------------------------
(***************************************************************************)
(* Types, and the order of the ids.                                        *)
(***************************************************************************)
LEMMA TypeInit == Init => TypeOK
<1> SUFFICES ASSUME Init PROVE TypeOK
  OBVIOUS
<1>1. NoDocument \in [kind : {"none", "damaged", "document"}, shapes : Seq(ShapeTypes)]
  BY DEF NoDocument
<1>2. DOMAIN entities = {} /\ entities \in Seq([id : 1..MaxIds, type : ShapeTypes])
  BY DEF Init
<1>3. /\ \A i, j \in DOMAIN entities : i < j => entities[i].id < entities[j].id
      /\ \A i \in DOMAIN entities : entities[i].id <= counter
  BY <1>2
<1>4. /\ counter \in 0..MaxIds /\ runs \in 1..MaxRuns /\ last_id \in 0..counter
      /\ shapes_model \in Seq(ShapeTypes) /\ drawn \in Seq(ShapeTypes)
  BY EditorAssumption DEF Init
<1> QED
  BY <1>1, <1>2, <1>3, <1>4, Zenon DEF Init, TypeOK

LEMMA CreateKeepsTypes ==
    ASSUME TypeOK,
           NEW old \in {entities, <<>>}, NEW new \in Seq(ShapeTypes), create(old, new)
    PROVE  /\ entities' \in Seq([id : 1..MaxIds, type : ShapeTypes])
           /\ counter' \in 0..MaxIds
           /\ last_id' \in 0..counter'
           /\ \A i, j \in DOMAIN entities' : i < j => entities'[i].id < entities'[j].id
           /\ \A i \in DOMAIN entities' : entities'[i].id <= counter'
<1> DEFINE E == [id : 1..MaxIds, type : ShapeTypes]
<1>1. /\ old \in Seq(E)
      /\ \A i, j \in 1..Len(old) : i < j => old[i].id < old[j].id
      /\ \A i \in 1..Len(old) : old[i].id <= counter
  <2>1. CASE old = entities
    <3>1. /\ entities \in Seq(E)
          /\ \A i, j \in DOMAIN entities : i < j => entities[i].id < entities[j].id
          /\ \A i \in DOMAIN entities : entities[i].id <= counter
      BY Zenon DEF TypeOK
    <3>2. DOMAIN entities = 1..Len(entities)
      <4> HIDE DEF E
      <4> QED
        BY <3>1
    <3> QED
      BY <2>1, <3>1, <3>2, Zenon
  <2>2. CASE old = <<>>
    BY <2>2
  <2> QED
    BY <2>1, <2>2
<1>2. counter \in Nat /\ MaxIds \in Nat /\ last_id \in 0..counter
  BY EditorAssumption DEF TypeOK
<1>3. counter + Len(new) <= MaxIds /\ entities' = old \o Created(new)
      /\ counter' = counter + Len(new)
  BY DEF create, Created
<1>4. /\ Created(new) \in Seq(E) /\ Len(Created(new)) = Len(new)
      /\ \A k \in 1..Len(new) : Created(new)[k].id = counter + k
  BY <1>2, <1>3, CreatedShapes
<1>5. Len(new) \in Nat /\ Len(old) \in Nat
  BY <1>1
<1>6. entities' \in Seq(E) /\ Len(entities') = Len(old) + Len(new)
  <2> HIDE DEF E
  <2> QED
    BY <1>1, <1>3, <1>4, <1>5
<1>7. \A i \in 1..Len(entities') :
         entities'[i] = IF i <= Len(old) THEN old[i] ELSE Created(new)[i - Len(old)]
  BY <1>1, <1>3, <1>4, <1>5
<1>8. \A i \in 1..Len(old) : entities'[i].id = old[i].id
  BY <1>5, <1>6, <1>7
<1>9. \A i \in (Len(old) + 1)..Len(entities') : entities'[i].id = counter + (i - Len(old))
  <2> SUFFICES ASSUME NEW i \in (Len(old) + 1)..Len(entities')
               PROVE  entities'[i].id = counter + (i - Len(old))
    OBVIOUS
  <2>1. i - Len(old) \in 1..Len(new) /\ i \in 1..Len(entities') /\ ~(i <= Len(old))
    BY <1>5, <1>6
  <2>2. entities'[i] = Created(new)[i - Len(old)]
    BY <2>1, <1>7
  <2> QED
    BY <2>1, <2>2, <1>4
<1>10. \A i \in 1..Len(old) : old[i].id \in Nat
  <2> SUFFICES ASSUME NEW i \in 1..Len(old) PROVE old[i].id \in Nat
    OBVIOUS
  <2>1. old[i] \in E
    <3> HIDE DEF E
    <3> QED
      BY <1>1
  <2> QED
    BY <2>1
<1>11. \A i \in 1..Len(entities') : entities'[i].id <= counter'
  BY <1>1, <1>2, <1>3, <1>5, <1>6, <1>8, <1>9, <1>10
<1>12. \A i, j \in 1..Len(entities') : i < j => entities'[i].id < entities'[j].id
  <2> SUFFICES ASSUME NEW i \in 1..Len(entities'), NEW j \in 1..Len(entities'), i < j
               PROVE  entities'[i].id < entities'[j].id
    OBVIOUS
  <2>1. CASE j <= Len(old)
    BY <2>1, <1>1, <1>5, <1>8
  <2>2. CASE i <= Len(old) /\ ~(j <= Len(old))
    <3>1. i \in 1..Len(old) /\ j \in (Len(old) + 1)..Len(entities')
      BY <2>2, <1>5, <1>6
    <3>2. entities'[i].id = old[i].id /\ old[i].id <= counter /\ old[i].id \in Nat
      BY <3>1, <1>1, <1>8, <1>10
    <3>3. entities'[j].id = counter + (j - Len(old)) /\ j - Len(old) > 0
      BY <3>1, <1>5, <1>6, <1>9
    <3> QED
      BY <3>1, <3>2, <3>3, <1>2, <1>5
  <2>3. CASE ~(i <= Len(old))
    <3>1. /\ i \in (Len(old) + 1)..Len(entities')
          /\ j \in (Len(old) + 1)..Len(entities')
      BY <2>3, <1>5, <1>6
    <3>2. /\ entities'[i].id = counter + (i - Len(old))
          /\ entities'[j].id = counter + (j - Len(old))
      BY <3>1, <1>9
    <3> QED
      BY <3>2, <1>2, <1>5, <1>6
  <2> QED
    BY <2>1, <2>2, <2>3, <1>5, <1>6
<1>13. last_id' \in 0..counter'
  <2>1. CASE new = <<>>
    BY <2>1, <1>2, <1>3 DEF create
  <2>2. CASE new # <<>>
    <3>1. Len(new) > 0 /\ last_id' = entities'[Len(entities')].id
      BY <2>2 DEF create
    <3> QED
      BY SMTT(30), <3>1, <1>2, <1>3, <1>5, <1>6, <1>9
  <2> QED
    BY <2>1, <2>2
<1> QED
  <2>1. DOMAIN entities' = 1..Len(entities') /\ counter' \in 0..MaxIds
    BY <1>2, <1>3, <1>5, <1>6
  <2> QED
    BY <2>1, <1>6, <1>11, <1>12, <1>13

LEMMA LoadKeepsTypes ==
    ASSUME TypeOK, load
    PROVE  /\ entities' \in Seq([id : 1..MaxIds, type : ShapeTypes])
           /\ counter' \in 0..MaxIds
           /\ last_id' \in 0..counter'
           /\ \A i, j \in DOMAIN entities' : i < j => entities'[i].id < entities'[j].id
           /\ \A i \in DOMAIN entities' : entities'[i].id <= counter'
<1>1. CASE UNCHANGED <<entities, counter, last_id>>
  BY <1>1 DEF TypeOK
<1>2. CASE entities' = Cleared /\ UNCHANGED <<counter, last_id>>
  BY <1>2 DEF TypeOK, Cleared
<1>3. CASE create(Cleared, disk.shapes)
  <2>1. disk.shapes \in Seq(ShapeTypes) /\ Cleared \in {entities, <<>>}
    BY DEF TypeOK, Cleared
  <2> QED
    BY <2>1, <1>3, CreateKeepsTypes, Zenon
<1> QED
  BY <1>1, <1>2, <1>3 DEF load

LEMMA TypeStep == TypeOK /\ [Next]_vars => TypeOK'
<1> SUFFICES ASSUME TypeOK, [Next]_vars PROVE TypeOK'
  OBVIOUS
<1>0. ASSUME entities' \in Seq([id : 1..MaxIds, type : ShapeTypes]), refresh
      PROVE  shapes_model' \in Seq(ShapeTypes)
  BY <1>0, ShapesOf DEF refresh, Shown
<1>1. CASE on_new_document
  <2>1. entities' \in Seq([id : 1..MaxIds, type : ShapeTypes])
    BY <1>1 DEF on_new_document
  <2> QED
    BY <2>1, <1>0, <1>1 DEF on_new_document, TypeOK
<1>2. CASE on_open_dialog
  BY <1>0, <1>2, LoadKeepsTypes DEF on_open_dialog, TypeOK
<1>3. CASE on_save_dialog
  <2>1. Damaged \in [kind : {"none", "damaged", "document"}, shapes : Seq(ShapeTypes)]
    BY DEF Damaged
  <2> QED
    BY <2>1, <1>3 DEF on_save_dialog, TypeOK
<1>4. CASE write_message
  <2>1. Shapes(entities) \in Seq(ShapeTypes)
    BY ShapesOf DEF TypeOK
  <2>2. Document(Written) \in
            [kind : {"none", "damaged", "document"}, shapes : Seq(ShapeTypes)]
    BY <2>1 DEF Document, Written
  <2> QED
    BY <2>1, <2>2, <1>4 DEF write_message, TypeOK
<1>5. ASSUME NEW type \in ShapeTypes, on_add(type)
      PROVE  TypeOK'
  <2>1. <<type>> \in Seq(ShapeTypes)
    OBVIOUS
  <2>2. create(entities, <<type>>)
    BY <1>5 DEF on_add
  <2> QED
    BY <2>1, <2>2, <1>0, <1>5, CreateKeepsTypes DEF on_add, TypeOK
<1>6. CASE restart
  <2>1. entities' \in Seq([id : 1..MaxIds, type : ShapeTypes])
        /\ shapes_model' \in Seq(ShapeTypes)
    BY <1>6 DEF restart
  <2>2. runs' \in 1..MaxRuns
    BY <1>6, EditorAssumption DEF restart, TypeOK
  <2>3. DOMAIN entities' = {}
    BY <1>6 DEF restart
  <2>4. /\ \A i, j \in DOMAIN entities' : i < j => entities'[i].id < entities'[j].id
        /\ \A i \in DOMAIN entities' : entities'[i].id <= counter'
    BY <2>3
  <2>5. counter' \in 0..MaxIds /\ last_id' \in 0..counter'
    BY <1>6, EditorAssumption DEF restart
  <2>6. disk' = disk /\ drawn' = drawn /\ saving' \in BOOLEAN
    BY <1>6 DEF restart
  <2> QED
    BY <2>1, <2>2, <2>4, <2>5, <2>6, Zenon DEF TypeOK
<1>7. CASE UNCHANGED vars
  BY <1>7 DEF vars, TypeOK
<1> QED
  BY <1>1, <1>2, <1>3, <1>4, <1>5, <1>6, <1>7 DEF Next

(***************************************************************************)
(* The state is well typed, and ids grow along the registry: no two shapes *)
(* have one id, and the counter is not behind any.                         *)
(***************************************************************************)
THEOREM TypeCorrect == Spec => []TypeOK
  BY TypeInit, TypeStep, PTL DEF Spec

-----------------------------------------------------------------------------
(***************************************************************************)
(* An id that is new is greater than every id a shape had before.          *)
(***************************************************************************)
LEMMA FreshStep ==
    ASSUME TypeOK, [Next]_vars, runs' = runs
    PROVE  \A i \in DOMAIN entities' :
              \/ entities'[i].id > last_id
              \/ \E j \in DOMAIN entities : entities[j] = entities'[i]
<1> DEFINE Fresh == \A i \in DOMAIN entities' :
              \/ entities'[i].id > last_id
              \/ \E j \in DOMAIN entities : entities[j] = entities'[i]
<1>1. ASSUME NEW old \in {entities, <<>>}, NEW new \in Seq(ShapeTypes), create(old, new)
      PROVE  Fresh
  <2>1. /\ counter \in Nat /\ last_id \in Nat /\ last_id <= counter /\ MaxIds \in Nat
        /\ counter + Len(new) <= MaxIds
        /\ entities' = old \o Created(new)
    BY <1>1, EditorAssumption DEF TypeOK, create, Created
  <2>2. Len(Created(new)) = Len(new)
        /\ \A k \in 1..Len(new) : Created(new)[k].id = counter + k
    BY <2>1, CreatedShapes
  <2>3. /\ old \in Seq([id : 1..MaxIds, type : ShapeTypes])
        /\ Created(new) \in Seq([id : 1..MaxIds, type : ShapeTypes])
    <3>1. <<>> \in Seq([id : 1..MaxIds, type : ShapeTypes])
      OBVIOUS
    <3>2. entities \in Seq([id : 1..MaxIds, type : ShapeTypes])
      BY DEF TypeOK
    <3>3. Created(new) \in Seq([id : 1..MaxIds, type : ShapeTypes])
      BY <1>1, <2>1, CreatedShapes
    <3> QED
      BY <1>1, <3>1, <3>2, <3>3, Zenon
  <2>4. ASSUME NEW i \in DOMAIN entities'
        PROVE  \/ entities'[i].id > last_id
               \/ \E j \in DOMAIN entities : entities[j] = entities'[i]
    <3>1. CASE i \in DOMAIN old
      <4>1. old = entities /\ entities'[i] = old[i]
        BY <3>1, <1>1, <2>1, <2>3
      <4> QED
        BY <4>1, <3>1
    <3>2. CASE i \notin DOMAIN old
      <4>1. i - Len(old) \in 1..Len(new) /\ entities'[i] = Created(new)[i - Len(old)]
        BY <3>2, <2>1, <2>2, <2>3
      <4>2. entities'[i].id = counter + (i - Len(old))
        BY <4>1, <2>2
      <4> QED
        BY <4>1, <4>2, <2>1
    <3> QED
      BY <3>1, <3>2
  <2> QED
    BY <2>4
<1>2. CASE UNCHANGED entities
  BY <1>2
<1>3. CASE entities' = <<>>
  BY <1>3
<1>4. CASE on_new_document
  BY <1>3, <1>4 DEF on_new_document
<1>5. CASE on_open_dialog
  <2>1. disk.shapes \in Seq(ShapeTypes) /\ Cleared \in {entities, <<>>} /\ Cleared = <<>>
    BY DEF TypeOK, Cleared
  <2>2. \/ UNCHANGED entities
        \/ entities' = <<>>
        \/ create(Cleared, disk.shapes)
    BY <2>1, <1>5 DEF on_open_dialog, load
  <2> QED
    BY <2>1, <2>2, <1>1, <1>2, <1>3
<1>6. ASSUME NEW type \in ShapeTypes, on_add(type)
      PROVE  Fresh
  <2>1. <<type>> \in Seq(ShapeTypes) /\ create(entities, <<type>>)
    BY <1>6 DEF on_add
  <2> QED
    BY <2>1, <1>1
<1>7. CASE on_save_dialog \/ write_message \/ UNCHANGED vars
  BY <1>2, <1>7 DEF on_save_dialog, write_message, vars
<1>8. CASE restart
  BY <1>3, <1>8 DEF restart
<1> QED
  BY <1>4, <1>5, <1>6, <1>7, <1>8 DEF Next

(***************************************************************************)
(* While the program runs, a shape gets an id that no shape had before it, *)
(* through any number of New, Open and Add.                                *)
(***************************************************************************)
THEOREM FreshCorrect == Spec => NewIdsAreFresh
<1>1. TypeOK /\ [Next]_vars =>
         (runs' = runs =>
             \A i \in DOMAIN entities' :
                \/ entities'[i].id > last_id
                \/ \E j \in DOMAIN entities : entities[j] = entities'[i])
  BY FreshStep
<1> QED
  BY <1>1, TypeCorrect, PTL DEF Spec, NewIdsAreFresh

-----------------------------------------------------------------------------
(***************************************************************************)
(* What is written is the drawing, and what is read is what was written.   *)
(***************************************************************************)
DiskHoldsDrawing == disk.kind = "document" => disk.shapes = drawn

WindowInv == TypeOK /\ WindowShowsRegistry /\ DiskHoldsDrawing

LEMMA WindowInit == Init => WindowInv
  BY TypeInit, NoShapes DEF Init, WindowInv, WindowShowsRegistry, DiskHoldsDrawing, NoDocument

LEMMA WindowStep == WindowInv /\ [Next]_vars => WindowInv'
<1> SUFFICES ASSUME WindowInv, [Next]_vars
             PROVE  WindowShowsRegistry' /\ DiskHoldsDrawing'
  BY TypeStep DEF WindowInv
<1> USE DEF WindowInv, WindowShowsRegistry, DiskHoldsDrawing
<1>1. CASE on_new_document
  BY <1>1 DEF on_new_document, refresh, Shown
<1>2. CASE on_open_dialog
  BY <1>2 DEF on_open_dialog, refresh, Shown
<1>3. CASE on_save_dialog
  BY <1>3 DEF on_save_dialog, Damaged, Shapes
<1>4. CASE write_message
  BY <1>4 DEF write_message, Document, Written, Shapes
<1>5. ASSUME NEW type \in ShapeTypes, on_add(type)
      PROVE  WindowShowsRegistry' /\ DiskHoldsDrawing'
  BY <1>5 DEF on_add, refresh, Shown
<1>6. CASE restart
  BY <1>6, NoShapes DEF restart
<1>7. CASE UNCHANGED vars
  BY <1>7 DEF vars, Shapes
<1> QED
  BY <1>1, <1>2, <1>3, <1>4, <1>5, <1>6, <1>7 DEF Next

(***************************************************************************)
(* Between handlers the window shows the registry.                         *)
(***************************************************************************)
THEOREM WindowCorrect == Spec => []WindowShowsRegistry
  BY WindowInit, WindowStep, PTL DEF Spec, WindowInv

\* Each way through load.
LEMMA OpenStep ==
    ASSUME WindowInv, on_open_dialog
    PROVE  shapes_model' \in {shapes_model, <<>>, drawn}
<1>1. shapes_model' = Shapes(entities')
  BY DEF on_open_dialog, refresh, Shown
<1>2. CASE UNCHANGED entities
  BY <1>1, <1>2 DEF WindowInv, WindowShowsRegistry, Shapes
<1>3. CASE entities' = Cleared
  BY <1>1, <1>3, NoShapes DEF Cleared
<1>4. CASE disk.kind = "document" /\ create(Cleared, disk.shapes)
  <2>1. drawn \in Seq(ShapeTypes) /\ disk.shapes = drawn
    BY <1>4 DEF WindowInv, TypeOK, DiskHoldsDrawing
  <2>2. /\ counter \in Nat /\ MaxIds \in Nat /\ counter + Len(drawn) <= MaxIds
        /\ entities' = <<>> \o Created(drawn)
    BY <1>4, <2>1, EditorAssumption DEF WindowInv, TypeOK, create, Cleared, Created
  <2>3. /\ Created(drawn) \in Seq([id : 1..MaxIds, type : ShapeTypes])
        /\ Len(Created(drawn)) = Len(drawn)
        /\ \A k \in 1..Len(drawn) : Created(drawn)[k].type = drawn[k]
    BY <2>1, <2>2, CreatedShapes
  <2>4. entities' = Created(drawn)
    BY <2>2, <2>3
  <2>5. /\ Shapes(entities') \in Seq(ShapeTypes)
        /\ Len(Shapes(entities')) = Len(drawn)
        /\ \A k \in 1..Len(drawn) : Shapes(entities')[k] = drawn[k]
    BY <2>3, <2>4, ShapesOf
  <2>6. Shapes(entities') = drawn
    BY <2>1, <2>5
  <2> QED
    BY <1>1, <2>6
<1> QED
  BY <1>2, <1>3, <1>4 DEF on_open_dialog, load

(***************************************************************************)
(* Opening shows the old drawing, nothing, or all of the drawing that was  *)
(* saved last.                                                             *)
(***************************************************************************)
THEOREM OpenCorrect == Spec => OpenNeverMixes
<1>1. WindowInv /\ [Next]_vars =>
         (on_open_dialog => shapes_model' \in {shapes_model, <<>>, drawn})
  BY OpenStep
<1> QED
  BY <1>1, WindowInit, WindowStep, PTL DEF Spec, OpenNeverMixes
=============================================================================
