-------------------------- MODULE JoinServerProofs --------------------------
(***************************************************************************)
(* Proofs about the join server, for any number of clients, any finite set *)
(* of ids and any names: what a query that is not atomic may answer.       *)
(***************************************************************************)
EXTENDS JoinServer, FiniteSetTheorems, WellFoundedInduction, TLAPS

-----------------------------------------------------------------------------
(***************************************************************************)
(* The least id of a set of ids is one of them.  The sets of the ids below *)
(* an id are well-founded under strict inclusion.                          *)
(***************************************************************************)
LEMMA LeastExists ==
    ASSUME NEW T, T \subseteq Int, IsFiniteSet(T), T # {}
    PROVE  \E x \in T : \A y \in T : x <= y
<1> DEFINE Below(x) == {y \in T : y < x}
           Family == {Below(x) : x \in T}
<1>1. Family \subseteq FiniteSubsetsOf(T) /\ Family # {}
  <2>1. \A x \in T : Below(x) \in SUBSET T
    OBVIOUS
  <2>2. \A x \in T : Below(x) \in FiniteSubsetsOf(T)
    BY <2>1, FS_FiniteSubsetsOfFinite, Zenon
  <2> QED
    BY <2>2
<1>2. PICK F \in Family : \A G \in Family : <<G, F>> \notin StrictSubsetOrdering(T)
  <2> HIDE DEF Family
  <2> QED
    BY <1>1, FS_StrictSubsetOrderingWellFounded, WFMin, Zenon
<1>3. PICK x \in T : F = Below(x)
  BY <1>2, Zenon
<1>4. ASSUME NEW y \in T, y < x
      PROVE  FALSE
  <2>1. x \in Int /\ y \in Int
    OBVIOUS
  <2>2. Below(y) \in Family
    OBVIOUS
  <2>3. ASSUME NEW z \in T, z < y
        PROVE  z < x
    <3>1. z \in Int
      OBVIOUS
    <3> QED
      BY <1>4, <2>1, <2>3, <3>1
  <2>4. /\ Below(y) \subseteq Below(x)
        /\ y \in Below(x) /\ y \notin Below(y)
    <3>1. Below(y) \subseteq Below(x)
      BY <2>3, Zenon
    <3>2. y \in Below(x) /\ y \notin Below(y)
      BY <1>4, <2>1
    <3> QED
      BY <3>1, <3>2, Zenon
  <2>5. <<Below(y), Below(x)>> \in StrictSubsetOrdering(T)
    <3>1. <<Below(y), Below(x)>> \in (SUBSET T) \X (SUBSET T)
      BY Zenon
    <3> HIDE DEF Below
    <3> QED
      BY <2>4, <3>1 DEF StrictSubsetOrdering
  <2> QED
    BY <2>2, <2>5, <1>2, <1>3
<1> QED
  BY <1>4

LEMMA MinBelongs ==
    ASSUME NEW T \in SUBSET Ids, T # {}
    PROVE  Min(T) \in T
<1>1. IsFiniteSet(T) /\ T \subseteq Int
  BY TableAssumption, FS_Subset
<1>2. \E x \in T : \A y \in T : x <= y
  BY <1>1, LeastExists
<1> QED
  BY <1>2, Zenon DEF Min

LEMMA RangeOfAppend ==
    ASSUME NEW S, NEW s \in Seq(S), NEW e \in S
    PROVE  Range(Append(s, e)) = Range(s) \cup {e}
<1>1. /\ DOMAIN Append(s, e) = 1..(Len(s) + 1) /\ DOMAIN s = 1..Len(s)
      /\ \A k \in 1..Len(s) : Append(s, e)[k] = s[k]
      /\ Append(s, e)[Len(s) + 1] = e /\ Len(s) \in Nat
  OBVIOUS
<1>2. 1..(Len(s) + 1) = (1..Len(s)) \cup {Len(s) + 1}
  BY <1>1
<1> QED
  BY <1>1, <1>2, ZenonT(30) DEF Range

LEMMA RangeOfEmpty == Range(<<>>) = {}
  BY DEF Range

-----------------------------------------------------------------------------
(***************************************************************************)
(* What a thread keeps in which phase of a command.                        *)
(***************************************************************************)
Phase(c) ==
    /\ pc[c] \in {"none", "recv", "i_ok", "sd_ok"} => ids[c] = {}
    /\ pc[c] # "i_has" => common[c] = {}
    /\ pc[c] \in {"sd_inB", "sd_names"} => ids[c] # {}
    /\ line[c] # Blank => pc[c] \in {"i_names", "sd_names"} /\ ids[c] # {}
    /\ pc[c] \in {"none", "recv", "i_has", "sd_ids"} => reply[c] = <<>>
    /\ pc[c] \in {"none", "recv"} => touched[c] = {} /\ truncated[c] = {}

PhaseInv == TypeOK /\ \A c \in Clients : Phase(c)

(* What the steps of d leave alone in another client. *)
SameLocals(c) ==
    /\ pc'[c] = pc[c] /\ ids'[c] = ids[c] /\ common'[c] = common[c]
    /\ inA'[c] = inA[c] /\ line'[c] = line[c] /\ reply'[c] = reply[c]

OwnStep(d) ==
    \/ accept(d) \/ hang_up(d)
    \/ handle_intersection(d) \/ handle_symmetric_difference(d)
    \/ QueryStep(d)

Write(d) == handle_insert(d) \/ handle_truncate(d)

LEMMA StepsOfNext ==
    ASSUME [Next]_vars
    PROVE  \/ run \/ UNCHANGED vars
           \/ \E d \in Clients : OwnStep(d) \/ Write(d)
  BY DEF Next, OwnStep, Write

LEMMA OwnStepIsOwn ==
    ASSUME TypeOK, NEW d \in Clients, OwnStep(d), NEW c \in Clients, c # d
    PROVE  /\ SameLocals(c)
           /\ touched'[c] = touched[c] /\ truncated'[c] = truncated[c]
<1> USE DEF SameLocals, TypeOK, locals, history
<1>1. CASE accept(d)
  BY <1>1 DEF accept, Goto
<1>2. CASE hang_up(d)
  BY <1>2 DEF hang_up, Goto
<1>3. CASE handle_intersection(d)
  BY <1>3 DEF handle_intersection, Begin, Goto
<1>4. CASE handle_symmetric_difference(d)
  BY <1>4 DEF handle_symmetric_difference, Begin, Goto
<1>5. CASE i_has(d)
  BY <1>5 DEF i_has, NextId
<1>6. CASE i_sort(d)
  BY <1>6 DEF i_sort, Goto
<1>7. CASE sd_ids(d)
  BY <1>7 DEF sd_ids, Goto
<1>8. CASE sd_inA(d)
  BY <1>8 DEF sd_inA, Goto
<1>9. CASE sd_inB(d)
  BY <1>9 DEF sd_inB, Goto, NextId
<1>10. CASE read_name(d)
  BY <1>10 DEF read_name, Goto, NextId
<1>11. CASE EndOfRows(d)
  BY <1>11 DEF EndOfRows, Goto
<1>12. CASE send_ok(d)
  BY <1>12 DEF send_ok
<1> QED
  BY <1>1, <1>2, <1>3, <1>4, <1>5, <1>6, <1>7, <1>8, <1>9, <1>10, <1>11, <1>12
     DEF OwnStep, QueryStep

(***************************************************************************)
(* Only writes change the tables; no query changes the history of one that *)
(* goes on.                                                                *)
(***************************************************************************)
LEMMA OwnStepKeepsData ==
    ASSUME NEW d \in Clients, OwnStep(d)
    PROVE  /\ data' = data /\ server' = server
           /\ UNCHANGED <<touched, truncated>> \/ send_ok(d)
<1> USE DEF locals, history
<1>1. CASE accept(d) \/ hang_up(d)
  BY <1>1 DEF accept, hang_up
<1>2. CASE handle_intersection(d) \/ handle_symmetric_difference(d)
  BY <1>2 DEF handle_intersection, handle_symmetric_difference, Begin
<1>3. CASE i_has(d) \/ i_sort(d) \/ sd_ids(d) \/ sd_inA(d) \/ sd_inB(d)
  BY <1>3 DEF i_has, i_sort, sd_ids, sd_inA, sd_inB
<1>4. CASE read_name(d)
  BY <1>4 DEF read_name
<1>5. CASE EndOfRows(d) \/ send_ok(d)
  BY <1>5 DEF EndOfRows, send_ok
<1> QED
  BY <1>1, <1>2, <1>3, <1>4, <1>5 DEF OwnStep, QueryStep

-----------------------------------------------------------------------------
(***************************************************************************)
(* Types and phases, first for the client that steps.                      *)
(***************************************************************************)
PCs == {"none", "recv", "i_has", "i_names", "i_ok", "sd_ids", "sd_inA", "sd_inB",
        "sd_names", "sd_ok"}

LocalTypes(c) ==
    /\ pc[c] \in PCs
    /\ ids[c] \in SUBSET Ids /\ common[c] \in SUBSET Ids /\ inA[c] \in BOOLEAN
    /\ line[c] \in [Tables -> Names \cup {Absent, Unread}]
    /\ reply[c] \in Seq(Rows)
    /\ touched[c] \in SUBSET (Tables \X Ids) /\ truncated[c] \in SUBSET Tables

OverClients ==
    /\ pc = [c \in Clients |-> pc[c]] /\ ids = [c \in Clients |-> ids[c]]
    /\ common = [c \in Clients |-> common[c]] /\ inA = [c \in Clients |-> inA[c]]
    /\ line = [c \in Clients |-> line[c]] /\ reply = [c \in Clients |-> reply[c]]
    /\ touched = [c \in Clients |-> touched[c]]
    /\ truncated = [c \in Clients |-> truncated[c]]

Shared ==
    /\ server \in {"start", "socket", "bound", "listening", "returned"}
    /\ data \in [Tables -> [Ids -> Names \cup {Absent}]]

ByClient == Shared /\ OverClients /\ \A c \in Clients : LocalTypes(c) /\ Phase(c)

LEMMA PhaseInvByClient == PhaseInv <=> ByClient
<1>1. ASSUME PhaseInv PROVE ByClient
  BY <1>1 DEF PhaseInv, TypeOK, ByClient, Shared, OverClients, LocalTypes, PCs
<1>2. ASSUME ByClient PROVE PhaseInv
  <2>1. \A c \in Clients : ~Querying(c) =>
          /\ ids[c] = {} /\ common[c] = {} /\ line[c] = Blank /\ reply[c] = <<>>
          /\ touched[c] = {} /\ truncated[c] = {}
    BY <1>2 DEF ByClient, Phase, Querying
  <2>2. /\ pc \in [Clients -> PCs]
        /\ ids \in [Clients -> SUBSET Ids]
        /\ common \in [Clients -> SUBSET Ids]
        /\ inA \in [Clients -> BOOLEAN]
        /\ line \in [Clients -> [Tables -> Names \cup {Absent, Unread}]]
        /\ reply \in [Clients -> Seq(Rows)]
        /\ touched \in [Clients -> SUBSET (Tables \X Ids)]
        /\ truncated \in [Clients -> SUBSET Tables]
    BY <1>2, Zenon DEF ByClient, OverClients, LocalTypes
  <2> QED
    BY <1>2, <2>1, <2>2, Zenon DEF PhaseInv, TypeOK, ByClient, Shared, PCs
<1> QED
  BY <1>1, <1>2

LEMMA RowInRows ==
    ASSUME Shared, NEW id \in Ids,
           NEW row \in [Tables -> Names \cup {Absent, Unread}],
           \A u \in Tables : row[u] # Unread
    PROVE  [id |-> id, A |-> row["A"], B |-> row["B"]] \in Rows
  BY DEF Rows, Tables

LEMMA GetName ==
    ASSUME Shared, NEW t \in Tables, NEW id \in Ids
    PROVE  get_name(t, id) \in Names \cup {Absent} /\ get_name(t, id) # Unread
<1>1. get_name(t, id) \in Names \cup {Absent}
  BY DEF Shared, get_name
<1>2. Unread \notin Names /\ Unread # Absent
  BY TableAssumption DEF Unread, Absent
<1> QED
  BY <1>1, <1>2

LEMMA OwnStepKeepsPhase ==
    ASSUME PhaseInv, NEW d \in Clients, OwnStep(d)
    PROVE  LocalTypes(d)' /\ Phase(d)' /\ OverClients'
<1>0. ByClient
  BY PhaseInvByClient
<1>a. LocalTypes(d) /\ Phase(d) /\ OverClients /\ Shared
  BY <1>0 DEF ByClient
<1> USE DEF locals, history, LocalTypes, OverClients, Phase
<1>1. CASE accept(d)
  BY <1>a, <1>1 DEF accept, Goto, PCs
<1>2. CASE hang_up(d)
  BY <1>a, <1>2 DEF hang_up, Goto, PCs
<1>3. CASE handle_intersection(d)
  BY <1>a, <1>3 DEF handle_intersection, Begin, Goto, PCs, get_all_ids
<1>4. CASE handle_symmetric_difference(d)
  BY <1>a, <1>4 DEF handle_symmetric_difference, Begin, Goto, PCs, get_all_ids
<1>5. CASE i_has(d)
  <2>1. Current(d) \in Ids
    BY <1>a, <1>5, MinBelongs DEF i_has, Current
  <2> QED
    BY <1>a, <1>5, <2>1 DEF i_has, NextId, PCs
<1>6. CASE i_sort(d)
  BY <1>a, <1>6 DEF i_sort, Goto, PCs
<1>7. CASE sd_ids(d)
  BY <1>a, <1>7 DEF sd_ids, Goto, PCs, get_all_ids
<1>8. CASE sd_inA(d)
  BY <1>a, <1>8 DEF sd_inA, Goto, PCs, has_id
<1>9. CASE sd_inB(d)
  BY <1>a, <1>9 DEF sd_inB, Goto, NextId, PCs
<1>10. CASE read_name(d)
  <2>1. PICK t \in Tables :
          LET row == [line[d] EXCEPT ![t] = get_name(t, Current(d))] IN
          /\ pc[d] \in {"i_names", "sd_names"}
          /\ ids[d] # {}
          /\ \/ /\ line' = [line EXCEPT ![d] = row]
                /\ UNCHANGED <<pc, ids, reply>>
             \/ /\ \A u \in Tables : row[u] # Unread
                /\ line' = [line EXCEPT ![d] = Blank]
                /\ reply' = [reply EXCEPT ![d] =
                      Append(@, [id |-> Current(d), A |-> row["A"], B |-> row["B"]])]
                /\ NextId(d)
                /\ Goto(d, pc[d], IF pc[d] = "i_names" THEN "i_names" ELSE "sd_inA")
          /\ UNCHANGED <<server, data, common, inA, history>>
    BY <1>10, Zenon DEF read_name
  <2> DEFINE row == [line[d] EXCEPT ![t] = get_name(t, Current(d))]
  <2>2. Current(d) \in Ids
    BY <1>a, <2>1, MinBelongs DEF Current
  <2>3. row \in [Tables -> Names \cup {Absent, Unread}]
    BY <1>a, <2>2, GetName
  <2>4. CASE line' = [line EXCEPT ![d] = row] /\ UNCHANGED <<pc, ids, reply>>
    <3> HIDE DEF row
    <3> QED
      BY <1>a, <2>1, <2>3, <2>4
  <2>5. CASE /\ \A u \in Tables : row[u] # Unread
             /\ line' = [line EXCEPT ![d] = Blank]
             /\ reply' = [reply EXCEPT ![d] =
                   Append(@, [id |-> Current(d), A |-> row["A"], B |-> row["B"]])]
             /\ NextId(d)
             /\ Goto(d, pc[d], IF pc[d] = "i_names" THEN "i_names" ELSE "sd_inA")
    <3> DEFINE answer == [id |-> Current(d), A |-> row["A"], B |-> row["B"]]
    <3>1. answer \in Rows
      <4> HIDE DEF row
      <4> QED
        BY <1>a, <2>2, <2>3, <2>5, RowInRows
    <3>2. Append(reply[d], answer) \in Seq(Rows)
      <4> HIDE DEF answer
      <4> QED
        BY <1>a, <3>1
    <3> HIDE DEF answer
    <3>3. reply' = [reply EXCEPT ![d] = Append(@, answer)]
      BY <2>5 DEF answer
    <3> HIDE DEF row
    <3>4. Blank \in [Tables -> Names \cup {Absent, Unread}]
      BY DEF Blank
    <3>5. pc'[d] \in {"i_names", "sd_inA"} /\ pc' = [pc EXCEPT ![d] = pc'[d]]
      BY <1>a, <2>5 DEF Goto
    <3>6. LocalTypes(d)'
      BY <1>a, <2>1, <2>5, <3>2, <3>3, <3>4, <3>5 DEF NextId, PCs
    <3>7. Phase(d)'
      BY <1>a, <2>1, <2>5, <3>5 DEF NextId, Goto
    <3>8. OverClients'
      BY <1>a, <2>1, <2>5, <3>3, <3>5 DEF NextId
    <3> QED
      BY <3>6, <3>7, <3>8, Zenon
  <2> QED
    BY <2>1, <2>4, <2>5
<1>11. CASE EndOfRows(d)
  BY <1>a, <1>11 DEF EndOfRows, Goto, PCs
<1>12. CASE send_ok(d)
  <2>1. /\ pc'[d] = "recv" /\ pc[d] \in {"i_ok", "sd_ok"}
        /\ reply'[d] = <<>> /\ touched'[d] = {} /\ truncated'[d] = {}
        /\ ids' = ids /\ common' = common /\ inA' = inA /\ line' = line
    BY <1>a, <1>12 DEF send_ok
  <2>2. LocalTypes(d)'
    BY <1>a, <2>1 DEF PCs
  <2>3. Phase(d)'
    BY <1>a, <2>1
  <2>4. OverClients'
    BY <1>a, <1>12 DEF send_ok
  <2> QED
    BY <2>2, <2>3, <2>4, Zenon
<1> QED
  BY <1>1, <1>2, <1>3, <1>4, <1>5, <1>6, <1>7, <1>8, <1>9, <1>10, <1>11, <1>12
     DEF OwnStep, QueryStep

(***************************************************************************)
(* A write changes the tables and the histories of queries, nothing else.  *)
(***************************************************************************)
LEMMA WriteKeepsPhase ==
    ASSUME PhaseInv, NEW d \in Clients, Write(d)
    PROVE  PhaseInv'
<1>1. ByClient
  BY PhaseInvByClient
<1>2. /\ server' = server /\ pc' = pc /\ ids' = ids /\ common' = common
      /\ inA' = inA /\ line' = line /\ reply' = reply
  BY DEF Write, handle_insert, handle_truncate, locals
<1>3. data' \in [Tables -> [Ids -> Names \cup {Absent}]]
  <2>1. CASE handle_insert(d)
    BY <1>1, <2>1 DEF handle_insert, ByClient, Shared
  <2>2. CASE handle_truncate(d)
    BY <1>1, <2>2 DEF handle_truncate, ByClient, Shared
  <2> QED
    BY <2>1, <2>2 DEF Write
<1>4. PICK cells \in SUBSET (Tables \X Ids), tables \in SUBSET Tables :
         touched' = Note(touched, cells) /\ truncated' = Note(truncated, tables)
  <2>1. CASE handle_insert(d)
    <3>1. PICK t \in Tables, id \in Ids : touched' = Note(touched, {<<t, id>>})
      BY <2>1 DEF handle_insert
    <3>2. truncated' = Note(truncated, {})
      BY <1>1, <2>1 DEF handle_insert, Note, ByClient, OverClients
    <3>3. {<<t, id>>} \in SUBSET (Tables \X Ids) /\ {} \in SUBSET Tables
      OBVIOUS
    <3> QED
      BY <3>1, <3>2, <3>3
  <2>2. CASE handle_truncate(d)
    <3>1. PICK t \in Tables : /\ touched' = Note(touched, {t} \X get_all_ids(t))
                              /\ truncated' = Note(truncated, {t})
      BY <2>2 DEF handle_truncate
    <3>2. {t} \X get_all_ids(t) \in SUBSET (Tables \X Ids) /\ {t} \in SUBSET Tables
      BY DEF get_all_ids
    <3> QED
      BY <3>1, <3>2
  <2> QED
    BY <2>1, <2>2 DEF Write
<1>5. ASSUME NEW c \in Clients
      PROVE  LocalTypes(c)' /\ Phase(c)'
  <2>1. LocalTypes(c) /\ Phase(c)
    BY <1>1 DEF ByClient
  <2>2. /\ touched'[c] = IF Querying(c) THEN touched[c] \cup cells ELSE touched[c]
        /\ truncated'[c] = IF Querying(c) THEN truncated[c] \cup tables ELSE truncated[c]
    BY <1>4 DEF Note
  <2>3. touched'[c] \in SUBSET (Tables \X Ids) /\ truncated'[c] \in SUBSET Tables
    BY <2>1, <2>2 DEF LocalTypes
  <2>4. LocalTypes(c)'
    BY <1>2, <2>1, <2>3, Zenon DEF LocalTypes
  <2>5. pc[c] \in {"none", "recv"} => touched'[c] = {} /\ truncated'[c] = {}
    BY <2>1, <2>2 DEF Phase, Querying
  <2>6. Phase(c)'
    BY <1>2, <2>1, <2>5 DEF Phase
  <2> QED
    BY <2>4, <2>6
<1>6. OverClients'
  BY <1>1, <1>2, <1>4, Zenon DEF ByClient, OverClients, Note
<1>7. ByClient'
  BY <1>1, <1>2, <1>3, <1>5, <1>6, Zenon DEF ByClient, Shared
<1> QED
  BY <1>7, PhaseInvByClient, PTL

LEMMA PhaseInit == Init => PhaseInv
<1>1. Init => Shared
  BY DEF Init, Shared
<1>2. ASSUME Init PROVE OverClients
  BY <1>2, Zenon DEF Init, OverClients
<1>3. ASSUME Init, NEW c \in Clients PROVE LocalTypes(c) /\ Phase(c)
  <2>1. Blank \in [Tables -> Names \cup {Absent, Unread}]
    BY DEF Blank
  <2>2. /\ pc[c] = "none" /\ ids[c] = {} /\ common[c] = {} /\ inA[c] = FALSE
        /\ line[c] = Blank /\ reply[c] = <<>> /\ touched[c] = {} /\ truncated[c] = {}
    BY <1>3 DEF Init
  <2> QED
    <3>1. reply[c] \in Seq(Rows)
      BY <2>2
    <3>2. LocalTypes(c)
      BY <2>1, <2>2, <3>1, Zenon DEF LocalTypes, PCs
    <3>3. Phase(c)
      BY <2>2, Zenon DEF Phase
    <3> QED
      BY <3>2, <3>3
<1> QED
  BY <1>1, <1>2, <1>3, PhaseInvByClient DEF ByClient

LEMMA PhaseStep == PhaseInv /\ [Next]_vars => PhaseInv'
<1> SUFFICES ASSUME PhaseInv, [Next]_vars PROVE PhaseInv'
  OBVIOUS
<1>1. ByClient
  BY PhaseInvByClient
<1>2. CASE run \/ UNCHANGED vars
  <2>1. /\ data' = data /\ pc' = pc /\ ids' = ids /\ common' = common /\ inA' = inA
        /\ line' = line /\ reply' = reply /\ touched' = touched /\ truncated' = truncated
    BY <1>2 DEF run, Startup, vars, locals, history
  <2>2. server' \in {"start", "socket", "bound", "listening", "returned"}
    BY <1>1, <1>2 DEF run, Startup, vars, ByClient, Shared
  <2>3. Shared' /\ OverClients'
    BY <1>1, <2>1, <2>2, Zenon DEF ByClient, Shared, OverClients
  <2>4. \A c \in Clients : LocalTypes(c)' /\ Phase(c)'
    BY <1>1, <2>1, Zenon DEF ByClient, LocalTypes, Phase
  <2> QED
    <3>1. ByClient'
      BY <2>3, <2>4, Zenon DEF ByClient
    <3> QED
      BY <3>1, PhaseInvByClient, PTL
<1>3. ASSUME NEW d \in Clients, OwnStep(d)
      PROVE  PhaseInv'
  <2>1. LocalTypes(d)' /\ Phase(d)' /\ OverClients'
    BY <1>3, OwnStepKeepsPhase
  <2>2. ASSUME NEW c \in Clients, c # d
        PROVE  LocalTypes(c)' /\ Phase(c)'
    <3>1. LocalTypes(c) /\ Phase(c)
      BY <1>1 DEF ByClient
    <3>2. SameLocals(c) /\ touched'[c] = touched[c] /\ truncated'[c] = truncated[c]
      BY <1>3, <2>2, OwnStepIsOwn DEF PhaseInv
    <3> QED
      BY <3>1, <3>2, Zenon DEF SameLocals, LocalTypes, Phase
  <2>3. Shared'
    BY <1>1, <1>3, OwnStepKeepsData, Zenon DEF ByClient, Shared
  <2>4. \A c \in Clients : LocalTypes(c)' /\ Phase(c)'
    BY <2>1, <2>2, Zenon
  <2>5. ByClient'
    BY <2>1, <2>3, <2>4, Zenon DEF ByClient
  <2> QED
    BY <2>5, PhaseInvByClient, PTL
<1> QED
  BY <1>2, <1>3, StepsOfNext, WriteKeepsPhase

(***************************************************************************)
(* The state is well typed, and a thread that waits for a command has no   *)
(* query half done.                                                        *)
(***************************************************************************)
THEOREM TypeCorrect == Spec => []TypeOK
<1>1. PhaseInv => TypeOK
  BY DEF PhaseInv
<1> QED
  BY <1>1, PhaseInit, PhaseStep, PTL DEF Spec

-----------------------------------------------------------------------------
(***************************************************************************)
(* Why an answer is exact for an id that nobody wrote while the query ran: *)
(* what the loops hold of this id is always what the tables say of it now, *)
(* since the tables say what they said when the query began.               *)
(***************************************************************************)
Untouched(c, id) == \A t \in Tables : <<t, id>> \notin touched[c]

RowsOf(c, id) == {row \in Range(reply[c]) : row.id = id}

\* The row of an id has been sent if the loop is past it and it is called for.
Sent(c, id, query) ==
    RowsOf(c, id) = IF id \notin ids[c] /\ Expected(query, id) THEN {Row(id)} ELSE {}

Right(c, id) ==
    /\ pc[c] = "i_has" =>
          /\ id \in ids[c] \cup common[c] => has_id("A", id)
          /\ id \in common[c] => has_id("B", id)
          /\ has_id("A", id) /\ has_id("B", id) => id \in ids[c] \cup common[c]
    /\ pc[c] \in {"i_names", "i_ok"} =>
          Sent(c, id, "i_ok") /\ (id \in ids[c] => Expected("i_ok", id))
    /\ pc[c] = "sd_ids" => (id \in ids[c] <=> has_id("A", id))
    /\ pc[c] \in {"sd_inA", "sd_inB", "sd_names", "sd_ok"} => Sent(c, id, "sd_ok")
    /\ ids[c] # {} /\ id = Current(c) =>
          /\ pc[c] = "sd_inB" => (inA[c] <=> has_id("A", id))
          /\ pc[c] = "sd_names" => Expected("sd_ok", id)
          /\ \A t \in Tables : line[c][t] \in {Unread, get_name(t, id)}

RightInv ==
    PhaseInv /\ \A c \in Clients, id \in Ids : Untouched(c, id) => Right(c, id)

(***************************************************************************)
(* Nothing about an id changes for a client when neither its own state nor *)
(* the cells of the id do.                                                 *)
(***************************************************************************)
LEMMA RightIsLocal ==
    ASSUME NEW c \in Clients, NEW id \in Ids, Right(c, id), SameLocals(c),
           \A t \in Tables : data'[t][id] = data[t][id]
    PROVE  Right(c, id)'
<1>1. data'["A"][id] = data["A"][id] /\ data'["B"][id] = data["B"][id]
  BY DEF Tables
<1>2. /\ has_id("A", id)' <=> has_id("A", id)
      /\ has_id("B", id)' <=> has_id("B", id)
      /\ Row(id)' = Row(id)
      /\ \A t \in Tables : get_name(t, id)' = get_name(t, id)
  BY <1>1 DEF has_id, Row, get_name
<1>3. \A q \in {"i_ok", "sd_ok"} : Expected(q, id)' <=> Expected(q, id)
  BY <1>1, Zenon DEF Expected, has_id
<1>4. \A q \in {"i_ok", "sd_ok"} : Sent(c, id, q)' <=> Sent(c, id, q)
  BY <1>2, <1>3 DEF Sent, RowsOf, SameLocals
<1>5. Current(c)' = Current(c)
  BY DEF Current, SameLocals
<1> QED
  BY <1>2, <1>3, <1>4, <1>5 DEF Right, SameLocals

LEMMA WriteTouches ==
    ASSUME PhaseInv, NEW d \in Clients, Write(d), NEW c \in Clients, Querying(c),
           NEW id \in Ids, Untouched(c, id)'
    PROVE  Untouched(c, id) /\ \A t \in Tables : data'[t][id] = data[t][id]
<1>0. data \in [Tables -> [Ids -> Names \cup {Absent}]]
  BY DEF PhaseInv, TypeOK
<1>1. CASE handle_insert(d)
  <2>1. PICK u \in Tables, new \in Ids, name \in Names :
           /\ data' = [data EXCEPT ![u][new] = name]
           /\ touched' = Note(touched, {<<u, new>>})
    BY <1>1 DEF handle_insert
  <2>2. touched'[c] = touched[c] \cup {<<u, new>>}
    BY <2>1 DEF Note
  <2>3. Untouched(c, id) /\ new # id
    BY <2>2 DEF Untouched
  <2> QED
    BY <1>0, <2>1, <2>3
<1>2. CASE handle_truncate(d)
  <2>1. PICK u \in Tables :
           /\ data' = [data EXCEPT ![u] = [i \in Ids |-> Absent]]
           /\ touched' = Note(touched, {u} \X get_all_ids(u))
    BY <1>2 DEF handle_truncate
  <2>2. touched'[c] = touched[c] \cup ({u} \X get_all_ids(u))
    BY <2>1 DEF Note
  <2>3. Untouched(c, id) /\ id \notin get_all_ids(u)
    BY <2>2 DEF Untouched
  <2>4. data[u][id] = Absent
    BY <2>3 DEF get_all_ids, has_id
  <2> QED
    BY <1>0, <2>1, <2>3, <2>4
<1> QED
  BY <1>1, <1>2 DEF Write

\* Nothing is claimed of a client that has no query.
LEMMA IdleIsRight ==
    ASSUME PhaseInv, NEW c \in Clients, ~Querying(c), NEW id \in Ids
    PROVE  Right(c, id)
  BY DEF PhaseInv, Phase, Querying, Right

(***************************************************************************)
(* The step of a client keeps what is right for its own ids.               *)
(***************************************************************************)
LEMMA OwnStepIsRight ==
    ASSUME PhaseInv, NEW d \in Clients, OwnStep(d), NEW id \in Ids, Right(d, id)
    PROVE  Right(d, id)'
<1>1. LocalTypes(d) /\ Phase(d) /\ Shared /\ OverClients
  BY PhaseInvByClient DEF ByClient
<1>2. LocalTypes(d)' /\ Phase(d)' /\ OverClients'
  BY OwnStepKeepsPhase
<1>3. data' = data
  BY OwnStepKeepsData
<1>4. /\ has_id("A", id)' = has_id("A", id) /\ has_id("B", id)' = has_id("B", id)
      /\ Row(id)' = Row(id)
      /\ \A t \in Tables : get_name(t, id)' = get_name(t, id)
  BY <1>3 DEF has_id, Row, get_name
<1>5. \A q : Expected(q, id)' = Expected(q, id)
  BY <1>3, Zenon DEF Expected, has_id
<1>6. reply[d] = <<>> => RowsOf(d, id) = {}
  BY RangeOfEmpty DEF RowsOf
<1>7. (reply[d])' = <<>> => RowsOf(d, id)' = {}
  BY RangeOfEmpty DEF RowsOf
<1>8. ids[d] # {} => Current(d) \in ids[d]
  BY <1>1, MinBelongs DEF LocalTypes, Current
<1>9. Expected("i_ok", id) <=> has_id("A", id) /\ has_id("B", id)
  BY DEF Expected
<1>10. Expected("sd_ok", id) <=> ~(has_id("A", id) <=> has_id("B", id))
  BY DEF Expected, has_id
<1>11. CASE pc'[d] \in {"none", "recv"}
  BY <1>2, <1>11 DEF Right, Phase
<1>12. CASE handle_intersection(d)
  <2>1. pc'[d] = "i_has" /\ ids'[d] = get_all_ids("A") /\ common'[d] = {} /\ line'[d] = Blank
    BY <1>1, <1>2, <1>12 DEF handle_intersection, Begin, Goto, Phase, LocalTypes, OverClients
  <2>2. \A t \in Tables : line'[d][t] = Unread
    BY <2>1 DEF Blank
  <2> QED
    BY <1>4, <2>1, <2>2 DEF Right, get_all_ids
<1>13. CASE handle_symmetric_difference(d)
  <2>1. pc'[d] = "sd_ids" /\ ids'[d] = get_all_ids("A") /\ line'[d] = Blank
    BY <1>1, <1>2, <1>13
       DEF handle_symmetric_difference, Begin, Goto, Phase, LocalTypes, OverClients
  <2>2. \A t \in Tables : line'[d][t] = Unread
    BY <2>1 DEF Blank
  <2> QED
    BY <1>4, <2>1, <2>2 DEF Right, get_all_ids
<1>14. CASE i_has(d)
  <2>1. /\ pc[d] = "i_has" /\ pc'[d] = "i_has" /\ ids[d] # {}
        /\ ids'[d] = ids[d] \ {Current(d)}
        /\ common'[d] = IF has_id("B", Current(d)) THEN common[d] \cup {Current(d)}
                                                   ELSE common[d]
        /\ line'[d] = Blank
    BY <1>1, <1>2, <1>14 DEF i_has, NextId, Phase, LocalTypes, OverClients
  <2>2. \A t \in Tables : line'[d][t] = Unread
    BY <2>1 DEF Blank
  <2>3. CASE id = Current(d)
    BY <1>4, <1>8, <2>1, <2>2, <2>3 DEF Right
  <2>4. CASE id # Current(d)
    <3>1. /\ id \in ids'[d] <=> id \in ids[d]
          /\ id \in common'[d] <=> id \in common[d]
      BY <2>1, <2>4
    <3> QED
      BY <1>4, <2>1, <2>2, <3>1 DEF Right
  <2> QED
    BY <2>3, <2>4
<1>15. CASE i_sort(d)
  <2>1. /\ pc[d] = "i_has" /\ pc'[d] = "i_names" /\ ids[d] = {} /\ ids'[d] = common[d]
        /\ line'[d] = Blank /\ reply'[d] = <<>>
    BY <1>1, <1>15 DEF i_sort, Goto, Phase, LocalTypes, OverClients
  <2>2. \A t \in Tables : line'[d][t] = Unread
    BY <2>1 DEF Blank
  <2>3. id \in common[d] <=> Expected("i_ok", id)
    BY <1>9, <2>1 DEF Right
  <2>4. Sent(d, id, "i_ok")'
    BY <1>5, <1>7, <2>1, <2>3 DEF Sent
  <2> QED
    BY <1>5, <2>1, <2>2, <2>3, <2>4 DEF Right
<1>16. CASE sd_ids(d)
  <2>1. /\ pc[d] = "sd_ids" /\ pc'[d] = "sd_inA" /\ ids'[d] = ids[d] \cup get_all_ids("B")
        /\ line'[d] = Blank /\ reply'[d] = <<>>
    BY <1>1, <1>16 DEF sd_ids, Goto, Phase, LocalTypes, OverClients
  <2>2. \A t \in Tables : line'[d][t] = Unread
    BY <2>1 DEF Blank
  <2>3. id \notin ids'[d] => ~Expected("sd_ok", id)
    BY <1>10, <2>1 DEF Right, get_all_ids
  <2>4. Sent(d, id, "sd_ok")'
    BY <1>5, <1>7, <2>1, <2>3 DEF Sent
  <2> QED
    BY <2>1, <2>2, <2>4 DEF Right
<1>17. CASE sd_inA(d)
  <2>1. /\ pc[d] = "sd_inA" /\ pc'[d] = "sd_inB" /\ ids'[d] = ids[d]
        /\ inA'[d] = has_id("A", Current(d)) /\ line'[d] = Blank /\ reply'[d] = reply[d]
    BY <1>1, <1>17 DEF sd_inA, Goto, Phase, LocalTypes, OverClients
  <2>2. \A t \in Tables : line'[d][t] = Unread
    BY <2>1 DEF Blank
  <2>3. Current(d)' = Current(d)
    BY <2>1 DEF Current
  <2>4. Sent(d, id, "sd_ok")'
    BY <1>4, <1>5, <2>1 DEF Sent, RowsOf, Right
  <2> QED
    BY <1>4, <2>1, <2>2, <2>3, <2>4 DEF Right
<1>18. CASE sd_inB(d)
  <2>1. /\ pc[d] = "sd_inB" /\ ids[d] # {} /\ line'[d] = Blank /\ reply'[d] = reply[d]
        /\ \/ /\ inA[d] # has_id("B", Current(d))
              /\ pc'[d] = "sd_names" /\ ids'[d] = ids[d]
           \/ /\ inA[d] = has_id("B", Current(d))
              /\ pc'[d] = "sd_inA" /\ ids'[d] = ids[d] \ {Current(d)}
    BY <1>1, <1>18 DEF sd_inB, Goto, NextId, Phase, LocalTypes, OverClients
  <2>2. \A t \in Tables : line'[d][t] = Unread
    BY <2>1 DEF Blank
  <2>b. /\ inA[d] \in BOOLEAN
        /\ has_id("A", Current(d)) \in BOOLEAN /\ has_id("B", Current(d)) \in BOOLEAN
    BY <1>1 DEF LocalTypes, has_id
  <2>c. id = Current(d) => (inA[d] <=> has_id("A", Current(d)))
    BY <2>1, Zenon DEF Right
  <2>d. id = Current(d) =>
          (Expected("sd_ok", id) <=> ~(inA[d] <=> has_id("B", Current(d))))
    BY <1>10, <2>c, Zenon
  <2>3. CASE pc'[d] = "sd_names"
    <3>1. inA[d] # has_id("B", Current(d)) /\ ids'[d] = ids[d]
      BY <2>1, <2>3
    <3>2. Current(d)' = Current(d)
      BY <3>1 DEF Current
    <3>3. Sent(d, id, "sd_ok")'
      BY <1>4, <1>5, <2>1, <3>1 DEF Sent, RowsOf, Right
    <3>4. id = Current(d) => Expected("sd_ok", id)
      BY <2>b, <2>d, <3>1, Zenon
    <3> QED
      BY <1>5, <2>2, <2>3, <3>2, <3>3, <3>4 DEF Right
  <2>4. CASE pc'[d] = "sd_inA"
    <3>1. inA[d] = has_id("B", Current(d)) /\ ids'[d] = ids[d] \ {Current(d)}
      BY <2>1, <2>4
    <3>2. id = Current(d) => ~Expected("sd_ok", id)
      BY <2>b, <2>d, <3>1, Zenon
    <3>3. RowsOf(d, id)' = RowsOf(d, id) /\ Sent(d, id, "sd_ok")
      BY <2>1 DEF RowsOf, Right
    <3>4. Sent(d, id, "sd_ok")'
      BY <1>4, <1>5, <3>1, <3>2, <3>3 DEF Sent
    <3> QED
      BY <2>2, <2>4, <3>4 DEF Right
  <2> QED
    BY <2>1, <2>3, <2>4
<1>19. CASE EndOfRows(d)
  <2>1. /\ ids[d] = {} /\ ids'[d] = {} /\ reply'[d] = reply[d]
        /\ \/ pc[d] = "i_names" /\ pc'[d] = "i_ok"
           \/ pc[d] = "sd_inA" /\ pc'[d] = "sd_ok"
    BY <1>1, <1>19 DEF EndOfRows, Goto, LocalTypes, OverClients, locals
  <2>2. \A q : Sent(d, id, q) => Sent(d, id, q)'
    BY <1>4, <1>5, <2>1 DEF Sent, RowsOf
  <2> QED
    BY <2>1, <2>2 DEF Right
<1>20. CASE send_ok(d) \/ accept(d) \/ hang_up(d)
  BY <1>1, <1>11, <1>20 DEF send_ok, accept, hang_up, Goto, OverClients
<1>21. CASE read_name(d)
  <2>1. PICK t \in Tables :
          LET row == [line[d] EXCEPT ![t] = get_name(t, Current(d))] IN
          /\ pc[d] \in {"i_names", "sd_names"}
          /\ ids[d] # {}
          /\ \/ /\ line' = [line EXCEPT ![d] = row]
                /\ UNCHANGED <<pc, ids, reply>>
             \/ /\ \A u \in Tables : row[u] # Unread
                /\ line' = [line EXCEPT ![d] = Blank]
                /\ reply' = [reply EXCEPT ![d] =
                      Append(@, [id |-> Current(d), A |-> row["A"], B |-> row["B"]])]
                /\ NextId(d)
                /\ Goto(d, pc[d], IF pc[d] = "i_names" THEN "i_names" ELSE "sd_inA")
    BY <1>21, Zenon DEF read_name
  <2> DEFINE row == [line[d] EXCEPT ![t] = get_name(t, Current(d))]
             answer == [id |-> Current(d), A |-> row["A"], B |-> row["B"]]
  <2>2. Current(d) \in Ids /\ Current(d) \in ids[d]
    BY <1>1, <1>8, <2>1 DEF LocalTypes
  <2>3. row \in [Tables -> Names \cup {Absent, Unread}]
    BY <1>1, <2>2, GetName DEF LocalTypes
  <2>4. id = Current(d) => \A u \in Tables : row[u] \in {Unread, get_name(u, id)}
    BY <1>1, <2>1 DEF Right, LocalTypes
  <2>5. CASE line' = [line EXCEPT ![d] = row] /\ UNCHANGED <<pc, ids, reply>>
    <3>1. line'[d] = row /\ pc'[d] = pc[d] /\ ids'[d] = ids[d] /\ reply'[d] = reply[d]
      BY <1>1, <2>5 DEF OverClients
    <3>2. Current(d)' = Current(d)
      BY <3>1 DEF Current
    <3>3. \A q : Sent(d, id, q)' = Sent(d, id, q)
      BY <1>4, <1>5, <3>1 DEF Sent, RowsOf
    <3> HIDE DEF row
    <3> QED
      BY <1>4, <1>5, <2>1, <2>4, <3>1, <3>2, <3>3 DEF Right
  <2>6. CASE /\ \A u \in Tables : row[u] # Unread
             /\ line' = [line EXCEPT ![d] = Blank]
             /\ reply' = [reply EXCEPT ![d] = Append(@, answer)]
             /\ NextId(d)
             /\ Goto(d, pc[d], IF pc[d] = "i_names" THEN "i_names" ELSE "sd_inA")
    <3>1. answer \in Rows
      <4> HIDE DEF row
      <4> QED
        BY <1>1, <2>2, <2>3, <2>6, RowInRows
    <3>2. id = Current(d) => answer = Row(id)
      BY <2>4, <2>6 DEF Row, get_name, Tables
    <3>3. answer.id = Current(d)
      OBVIOUS
    <3> HIDE DEF answer
    <3>4. /\ line'[d] = Blank /\ reply'[d] = Append(reply[d], answer)
          /\ ids'[d] = ids[d] \ {Current(d)}
          /\ \/ pc[d] = "i_names" /\ pc'[d] = "i_names"
             \/ pc[d] = "sd_names" /\ pc'[d] = "sd_inA"
      <4> HIDE DEF row
      <4> QED
        BY <1>1, <2>1, <2>6 DEF Goto, NextId, OverClients
    <3>5. Range(reply'[d]) = Range(reply[d]) \cup {answer}
      BY <1>1, <3>1, <3>4, RangeOfAppend DEF LocalTypes
    <3>6. \A u \in Tables : line'[d][u] = Unread
      BY <3>4 DEF Blank
    <3>7. CASE id = Current(d)
      <4>1. RowsOf(d, id)' = RowsOf(d, id) \cup {Row(id)}
        BY <3>2, <3>3, <3>5, <3>7 DEF RowsOf
      <4>2. pc[d] = "i_names" => RowsOf(d, id) = {} /\ Expected("i_ok", id)
        BY <2>2, <3>7 DEF Right, Sent
      <4>3. pc[d] = "sd_names" => RowsOf(d, id) = {} /\ Expected("sd_ok", id)
        BY <2>1, <2>2, <3>7 DEF Right, Sent
      <4>4. id \notin ids'[d]
        BY <3>4, <3>7
      <4>5. /\ pc[d] = "i_names" => Sent(d, id, "i_ok")'
            /\ pc[d] = "sd_names" => Sent(d, id, "sd_ok")'
        BY <1>4, <1>5, <4>1, <4>2, <4>3, <4>4 DEF Sent
      <4> QED
        BY <3>4, <3>6, <4>4, <4>5 DEF Right
    <3>8. CASE id # Current(d)
      <4>1. RowsOf(d, id)' = RowsOf(d, id)
        BY <3>3, <3>5, <3>8 DEF RowsOf
      <4>2. id \in ids'[d] <=> id \in ids[d]
        BY <3>4, <3>8
      <4>3. \A q : Sent(d, id, q)' = Sent(d, id, q)
        BY <1>4, <1>5, <4>1, <4>2 DEF Sent
      <4> QED
        BY <1>5, <3>4, <3>6, <4>2, <4>3 DEF Right
    <3> QED
      BY <3>7, <3>8
  <2> QED
    BY <2>1, <2>5, <2>6
<1> QED
  BY <1>12, <1>13, <1>14, <1>15, <1>16, <1>17, <1>18, <1>19, <1>20, <1>21
     DEF OwnStep, QueryStep

LEMMA RightInit == Init => RightInv
<1> SUFFICES ASSUME Init PROVE RightInv
  OBVIOUS
<1>1. PhaseInv
  BY PhaseInit
<1>2. \A c \in Clients : ~Querying(c)
  BY DEF Init, Querying
<1> QED
  BY <1>1, <1>2, IdleIsRight DEF RightInv

LEMMA RightStep == RightInv /\ [Next]_vars => RightInv'
<1> SUFFICES ASSUME RightInv, [Next]_vars PROVE RightInv'
  OBVIOUS
<1>1. PhaseInv
  BY DEF RightInv
<1>2. PhaseInv'
  BY <1>1, PhaseStep
<1> SUFFICES ASSUME NEW c \in Clients, NEW id \in Ids, Untouched(c, id)'
             PROVE  Right(c, id)'
  BY <1>2, Zenon DEF RightInv
<1>3. CASE run \/ UNCHANGED vars
  <2>1. data' = data /\ touched' = touched /\ SameLocals(c)
    BY <1>3 DEF run, Startup, vars, locals, history, SameLocals
  <2>2. Right(c, id)
    BY <2>1 DEF RightInv, Untouched
  <2> QED
    BY <2>1, <2>2, RightIsLocal
<1>4. ASSUME NEW d \in Clients, OwnStep(d)
      PROVE  Right(c, id)'
  <2>1. data' = data
    BY <1>4, OwnStepKeepsData
  <2>2. CASE c = d
    <3>1. CASE touched' = touched
      <4>1. Right(c, id)
        BY <3>1 DEF RightInv, Untouched
      <4> QED
        BY <1>1, <1>4, <2>2, <4>1, OwnStepIsRight
    <3>2. CASE send_ok(d)
      <4>1. pc'[c] = "recv"
        BY <1>1, <2>2, <3>2 DEF send_ok, PhaseInv, TypeOK
      <4>2. Phase(c)'
        BY <1>2 DEF PhaseInv
      <4> QED
        BY <4>1, <4>2 DEF Right, Phase
    <3> QED
      BY <1>4, <3>1, <3>2, OwnStepKeepsData
  <2>3. CASE c # d
    <3>1. SameLocals(c) /\ touched'[c] = touched[c]
      BY <1>1, <1>4, <2>3, OwnStepIsOwn DEF PhaseInv
    <3>2. Right(c, id)
      BY <3>1 DEF RightInv, Untouched
    <3> QED
      BY <2>1, <3>1, <3>2, RightIsLocal
  <2> QED
    BY <2>2, <2>3
<1>5. ASSUME NEW d \in Clients, Write(d)
      PROVE  Right(c, id)'
  <2>1. SameLocals(c)
    BY <1>5 DEF Write, handle_insert, handle_truncate, locals, SameLocals
  <2>2. CASE Querying(c)
    <3>1. Untouched(c, id) /\ \A t \in Tables : data'[t][id] = data[t][id]
      BY <1>1, <1>5, <2>2, WriteTouches
    <3>2. Right(c, id)
      BY <3>1 DEF RightInv
    <3> QED
      BY <2>1, <3>1, <3>2, RightIsLocal
  <2>3. CASE ~Querying(c)
    <3>1. pc'[c] \in {"none", "recv"}
      BY <2>1, <2>3 DEF SameLocals, Querying
    <3>2. Phase(c)'
      BY <1>2 DEF PhaseInv
    <3> QED
      BY <3>1, <3>2 DEF Right, Phase
  <2> QED
    BY <2>2, <2>3
<1> QED
  BY <1>3, <1>4, <1>5, StepsOfNext

(***************************************************************************)
(* No id is answered twice: an answer has one row for each id it has, and  *)
(* an id that has been answered is not visited again.                      *)
(***************************************************************************)
Once(c) ==
    /\ \A i, j \in DOMAIN reply[c] : reply[c][i].id = reply[c][j].id => i = j
    /\ \A i \in DOMAIN reply[c] : reply[c][i].id \notin ids[c]

OnceInv == RightInv /\ \A c \in Clients : Once(c)

LEMMA EmptyIsOnce ==
    ASSUME NEW c, reply[c] = <<>>
    PROVE  Once(c)
  BY DEF Once

LEMMA FewerIdsKeepOnce ==
    ASSUME NEW c, Once(c), reply'[c] = reply[c], ids'[c] \subseteq ids[c]
    PROVE  Once(c)'
  BY DEF Once

LEMMA OwnStepKeepsOnce ==
    ASSUME PhaseInv, NEW d \in Clients, OwnStep(d), Once(d)
    PROVE  Once(d)'
<1>1. LocalTypes(d) /\ Phase(d) /\ OverClients
  BY PhaseInvByClient DEF ByClient
<1>2. Phase(d)'
  BY OwnStepKeepsPhase
<1>3. reply'[d] = <<>> => Once(d)'
  BY DEF Once
<1>4. CASE accept(d) \/ hang_up(d) \/ send_ok(d)
  <2>1. pc'[d] \in {"none", "recv"}
    BY <1>1, <1>4 DEF accept, hang_up, send_ok, Goto, OverClients
  <2> QED
    BY <1>2, <1>3, <2>1 DEF Phase
<1>5. CASE handle_intersection(d) \/ handle_symmetric_difference(d) \/ i_has(d)
  <2>1. pc'[d] \in {"i_has", "sd_ids"}
    BY <1>1, <1>5
       DEF handle_intersection, handle_symmetric_difference, Begin, i_has, Goto, OverClients
  <2> QED
    BY <1>2, <1>3, <2>1 DEF Phase
<1>6. CASE i_sort(d) \/ sd_ids(d)
  <2>1. reply'[d] = reply[d] /\ pc[d] \in {"i_has", "sd_ids"}
    BY <1>6 DEF i_sort, sd_ids, Goto
  <2> QED
    BY <1>1, <1>3, <2>1 DEF Phase
<1>7. CASE sd_inA(d) \/ sd_inB(d) \/ EndOfRows(d)
  <2>1. reply'[d] = reply[d] /\ ids'[d] \subseteq ids[d]
    BY <1>1, <1>7 DEF sd_inA, sd_inB, EndOfRows, NextId, OverClients, locals
  <2> QED
    BY <2>1, FewerIdsKeepOnce
<1>8. CASE read_name(d)
  <2>1. ids[d] # {} /\ Current(d) \in ids[d]
    BY <1>1, <1>8, MinBelongs DEF read_name, LocalTypes, Current
  <2>2. PICK names :
          \/ UNCHANGED <<ids, reply>>
          \/ /\ reply'[d] = Append(reply[d], [id |-> Current(d), A |-> names.A, B |-> names.B])
             /\ ids'[d] = ids[d] \ {Current(d)}
    <3>1. PICK t \in Tables :
            LET row == [line[d] EXCEPT ![t] = get_name(t, Current(d))] IN
            \/ UNCHANGED <<ids, reply>>
            \/ /\ reply' = [reply EXCEPT ![d] =
                      Append(@, [id |-> Current(d), A |-> row["A"], B |-> row["B"]])]
               /\ NextId(d)
      BY <1>8, Zenon DEF read_name
    <3> DEFINE row == [line[d] EXCEPT ![t] = get_name(t, Current(d))]
               answer == [id |-> Current(d), A |-> row["A"], B |-> row["B"]]
    <3>2. \/ UNCHANGED <<ids, reply>>
          \/ reply' = [reply EXCEPT ![d] = Append(@, answer)] /\ NextId(d)
      BY <3>1
    <3>3. answer = [id |-> Current(d), A |-> [A |-> row["A"], B |-> row["B"]].A,
                                       B |-> [A |-> row["A"], B |-> row["B"]].B]
      OBVIOUS
    <3> HIDE DEF answer, row
    <3>4. CASE UNCHANGED <<ids, reply>>
      BY <3>4
    <3>5. CASE reply' = [reply EXCEPT ![d] = Append(@, answer)] /\ NextId(d)
      <4>1. reply'[d] = Append(reply[d], answer) /\ ids'[d] = ids[d] \ {Current(d)}
        BY <1>1, <3>5 DEF OverClients, NextId
      <4> QED
        BY <3>3, <4>1
    <3> QED
      BY <3>2, <3>4, <3>5
  <2>3. CASE UNCHANGED <<ids, reply>>
    BY <2>3, FewerIdsKeepOnce
  <2>4. CASE /\ reply'[d] = Append(reply[d], [id |-> Current(d), A |-> names.A, B |-> names.B])
             /\ ids'[d] = ids[d] \ {Current(d)}
    <3> DEFINE answer == [id |-> Current(d), A |-> names.A, B |-> names.B]
    <3>1. answer.id = Current(d)
      OBVIOUS
    <3>2. reply'[d] = Append(reply[d], answer)
      BY <2>4
    <3> HIDE DEF answer
    <3>3. reply[d] \in Seq(Rows)
      BY <1>1 DEF LocalTypes
    <3>4. /\ DOMAIN reply'[d] = 1..(Len(reply[d]) + 1)
          /\ DOMAIN reply[d] = 1..Len(reply[d]) /\ Len(reply[d]) \in Nat
          /\ \A i \in 1..Len(reply[d]) : reply'[d][i] = reply[d][i]
          /\ reply'[d][Len(reply[d]) + 1] = answer
      BY <3>2, <3>3
    <3>5. \A i \in DOMAIN reply'[d] : i \in DOMAIN reply[d] \/ i = Len(reply[d]) + 1
      BY <3>4
    <3>6. \A i \in DOMAIN reply[d] : reply'[d][i].id = reply[d][i].id /\ reply[d][i].id # Current(d)
      BY <2>1, <3>4 DEF Once
    <3>7. reply'[d][Len(reply[d]) + 1].id = Current(d)
      BY <3>1, <3>4
    <3>8. \A i, j \in DOMAIN reply'[d] : reply'[d][i].id = reply'[d][j].id => i = j
      BY <3>5, <3>6, <3>7, Zenon DEF Once
    <3>9. \A i \in DOMAIN reply'[d] : reply'[d][i].id \notin ids'[d]
      BY <2>4, <3>5, <3>6, <3>7 DEF Once
    <3> QED
      BY <3>8, <3>9 DEF Once
  <2> QED
    BY <2>2, <2>3, <2>4
<1> QED
  BY <1>4, <1>5, <1>6, <1>7, <1>8 DEF OwnStep, QueryStep

LEMMA OnceInit == Init => OnceInv
<1> SUFFICES ASSUME Init PROVE OnceInv
  OBVIOUS
<1>1. \A c \in Clients : reply[c] = <<>>
  BY DEF Init
<1> QED
  BY <1>1, RightInit, EmptyIsOnce DEF OnceInv

LEMMA OnceStep == OnceInv /\ [Next]_vars => OnceInv'
<1> SUFFICES ASSUME OnceInv, [Next]_vars PROVE OnceInv'
  OBVIOUS
<1>1. RightInv /\ PhaseInv /\ TypeOK
  BY DEF OnceInv, RightInv, PhaseInv
<1>2. RightInv'
  BY <1>1, RightStep
<1>3. ASSUME NEW c \in Clients
      PROVE  Once(c)'
  <2>1. Once(c)
    BY DEF OnceInv
  <2>2. CASE reply'[c] = reply[c] /\ ids'[c] = ids[c]
    BY <2>1, <2>2, FewerIdsKeepOnce
  <2>3. CASE run \/ UNCHANGED vars
    BY <2>2, <2>3 DEF run, Startup, vars, locals
  <2>4. ASSUME NEW d \in Clients, OwnStep(d)
        PROVE  Once(c)'
    <3>1. CASE c = d
      BY <1>1, <2>1, <2>4, <3>1, OwnStepKeepsOnce
    <3>2. CASE c # d
      BY <1>1, <2>2, <2>4, <3>2, OwnStepIsOwn DEF SameLocals
    <3> QED
      BY <3>1, <3>2
  <2>5. ASSUME NEW d \in Clients, Write(d)
        PROVE  Once(c)'
    BY <2>2, <2>5 DEF Write, handle_insert, handle_truncate, locals
  <2> QED
    BY <2>3, <2>4, <2>5, StepsOfNext
<1> QED
  BY <1>2, <1>3 DEF OnceInv

LEMMA OnceIsExact == OnceInv => UntouchedRowsExact
<1> SUFFICES ASSUME OnceInv,
                    NEW c \in Clients, pc[c] \in {"i_ok", "sd_ok"},
                    NEW id \in Ids, touched[c] \cap (Tables \X {id}) = {}
             PROVE  LET sent == {k \in DOMAIN reply[c] : reply[c][k].id = id} IN
                    IF Expected(pc[c], id) THEN \E k \in sent : sent = {k} /\ reply[c][k] = Row(id)
                                           ELSE sent = {}
  BY Zenon DEF UntouchedRowsExact
<1> DEFINE sent == {k \in DOMAIN reply[c] : reply[c][k].id = id}
<1>1. Untouched(c, id)
  BY DEF Untouched
<1>2. Right(c, id) /\ Phase(c) /\ Once(c)
  BY <1>1 DEF OnceInv, RightInv, PhaseInv
<1>3. ids[c] = {}
  BY <1>2 DEF Phase
<1>4. Sent(c, id, pc[c])
  BY <1>2 DEF Right
<1>5. RowsOf(c, id) = {reply[c][k] : k \in sent}
  BY DEF RowsOf, Range
<1>6. CASE Expected(pc[c], id)
  <2>1. RowsOf(c, id) = {Row(id)}
    BY <1>3, <1>4, <1>6 DEF Sent
  <2>2. PICK k \in sent : reply[c][k] = Row(id)
    BY <1>5, <2>1
  <2>3. sent = {k}
    BY <1>2, <2>2 DEF Once
  <2> QED
    BY <1>6, <2>2, <2>3
<1>7. CASE ~Expected(pc[c], id)
  <2>1. RowsOf(c, id) = {}
    BY <1>3, <1>4, <1>7 DEF Sent
  <2>2. sent = {}
    BY <1>5, <2>1
  <2> QED
    BY <1>7, <2>2
<1> QED
  BY <1>6, <1>7

(***************************************************************************)
(* A query takes the locks one id at a time, and others write between; yet *)
(* its answer is exact, the number of rows included, for each id that      *)
(* nobody wrote while it ran.                                              *)
(***************************************************************************)
THEOREM ExactCorrect == Spec => []UntouchedRowsExact
  BY OnceInit, OnceStep, OnceIsExact, PTL DEF Spec

-----------------------------------------------------------------------------
(***************************************************************************)
(* What holds of an answer as long as no table was truncated: the tables   *)
(* only grow then, and a row that is there keeps its name.                 *)
(***************************************************************************)
Both == {id \in Ids : has_id("A", id) /\ has_id("B", id)}
Some == {id \in Ids : has_id("A", id) \/ has_id("B", id)}

Holds(row) == row = Row(row.id) /\ row.id \in Both
Named(row) == row.A # Absent \/ row.B # Absent

Kept(c) ==
    /\ pc[c] = "i_has" => ids[c] \subseteq get_all_ids("A") /\ common[c] \subseteq Both
    /\ pc[c] \in {"i_names", "i_ok"} =>
          /\ ids[c] \subseteq Both
          /\ \A row \in Range(reply[c]) : Holds(row)
          /\ ids[c] # {} => \A t \in Tables : line[c][t] \in {Unread, get_name(t, Current(c))}
    /\ pc[c] \in {"sd_ids", "sd_inA", "sd_inB", "sd_names"} => ids[c] \subseteq Some
    /\ pc[c] \in {"sd_inA", "sd_inB", "sd_names", "sd_ok"} =>
          \A row \in Range(reply[c]) : Named(row)
    /\ pc[c] = "sd_names" =>
          line[c]["B"] = Unread /\ (line[c]["A"] = Absent => has_id("B", Current(c)))

KeptInv == PhaseInv /\ \A c \in Clients : truncated[c] = {} => Kept(c)

Grows == \A t \in Tables, id \in Ids : has_id(t, id) => data'[t][id] = data[t][id]

LEMMA KeptWhileGrowing ==
    ASSUME PhaseInv, NEW c \in Clients, Kept(c), SameLocals(c), Grows
    PROVE  Kept(c)'
<1>1. LocalTypes(c) /\ Phase(c)
  BY PhaseInvByClient DEF ByClient
<1>2. \A t \in Tables, id \in Ids :
         has_id(t, id) => has_id(t, id)' /\ get_name(t, id)' = get_name(t, id)
  BY DEF Grows, has_id, get_name
<1>3. /\ get_all_ids("A") \subseteq get_all_ids("A")'
      /\ Both \subseteq Both' /\ Some \subseteq Some'
  BY <1>2 DEF get_all_ids, Both, Some, Tables
<1>4. \A row : Holds(row) => Holds(row)'
  <2>1. ASSUME NEW row, Holds(row)
        PROVE  Holds(row)'
    <3>1. row.id \in Both /\ row.id \in Both'
      BY <1>3, <2>1 DEF Holds
    <3>2. Row(row.id)' = Row(row.id)
      BY <1>2, <3>1 DEF Both, Row, get_name, Tables
    <3> QED
      BY <2>1, <3>1, <3>2 DEF Holds
  <2> QED
    BY <2>1
<1>5. Current(c)' = Current(c)
  BY DEF Current, SameLocals
<1>6. ids[c] # {} => Current(c) \in ids[c] /\ Current(c) \in Ids
  BY <1>1, MinBelongs DEF LocalTypes, Current
<1>7. pc[c] \in {"i_names", "i_ok"} /\ ids[c] # {} =>
         \A t \in Tables : get_name(t, Current(c))' = get_name(t, Current(c))
  BY <1>2, <1>5, <1>6 DEF Kept, Both, Tables
<1>8. pc[c] = "sd_names" => ids[c] # {}
  BY <1>1 DEF Phase
<1>9. pc[c] = "sd_names" /\ line[c]["A"] = Absent => has_id("B", Current(c))'
  BY <1>2, <1>5, <1>6, <1>8 DEF Kept, Tables
<1> QED
  BY <1>3, <1>4, <1>5, <1>7, <1>9 DEF Kept, SameLocals, Named

LEMMA WriteGrows ==
    ASSUME PhaseInv, NEW d \in Clients, Write(d), NEW c \in Clients, Querying(c),
           truncated'[c] = {}
    PROVE  truncated[c] = {} /\ Grows
<1>0. data \in [Tables -> [Ids -> Names \cup {Absent}]]
  BY DEF PhaseInv, TypeOK
<1>1. ASSUME handle_truncate(d)
      PROVE  FALSE
  <2>1. PICK u \in Tables : truncated' = Note(truncated, {u})
    BY <1>1 DEF handle_truncate
  <2>2. truncated'[c] = truncated[c] \cup {u}
    BY <2>1 DEF Note
  <2> QED
    BY <2>2
<1>2. CASE handle_insert(d)
  <2>1. PICK u \in Tables, new \in Ids, name \in Names :
           IsNew(u, new) /\ data' = [data EXCEPT ![u][new] = name]
    BY <1>2 DEF handle_insert
  <2>2. Grows
    BY <1>0, <2>1 DEF Grows, IsNew, has_id
  <2>3. truncated' = truncated
    BY <1>2 DEF handle_insert
  <2> QED
    BY <2>2, <2>3
<1> QED
  BY <1>1, <1>2 DEF Write

LEMMA OwnStepIsKept ==
    ASSUME PhaseInv, NEW d \in Clients, OwnStep(d), Kept(d)
    PROVE  Kept(d)'
<1>1. LocalTypes(d) /\ Phase(d) /\ Shared /\ OverClients
  BY PhaseInvByClient DEF ByClient
<1>2. LocalTypes(d)' /\ Phase(d)' /\ OverClients'
  BY OwnStepKeepsPhase
<1>3. data' = data
  BY OwnStepKeepsData
<1>4. /\ get_all_ids("A")' = get_all_ids("A") /\ Both' = Both /\ Some' = Some
      /\ \A t, id : get_name(t, id)' = get_name(t, id) /\ has_id(t, id)' = has_id(t, id)
      /\ \A row : Holds(row)' = Holds(row) /\ Named(row)' = Named(row)
  BY <1>3 DEF get_all_ids, Both, Some, get_name, has_id, Holds, Row, Named
<1>5. ids[d] # {} => Current(d) \in ids[d] /\ Current(d) \in Ids
  BY <1>1, MinBelongs DEF LocalTypes, Current
<1>6. reply'[d] = <<>> => Range(reply'[d]) = {}
  BY RangeOfEmpty
<1>11. CASE pc'[d] \in {"none", "recv"}
  BY <1>11 DEF Kept
<1>12. CASE handle_intersection(d)
  <2>1. pc'[d] = "i_has" /\ ids'[d] = get_all_ids("A") /\ common'[d] = {}
    BY <1>1, <1>2, <1>12 DEF handle_intersection, Begin, Goto, Phase, OverClients
  <2> QED
    BY <1>4, <2>1 DEF Kept
<1>13. CASE handle_symmetric_difference(d)
  <2>1. pc'[d] = "sd_ids" /\ ids'[d] = get_all_ids("A")
    BY <1>1, <1>13 DEF handle_symmetric_difference, Begin, Goto, OverClients
  <2> QED
    BY <1>4, <2>1 DEF Kept, get_all_ids, Some
<1>14. CASE i_has(d)
  <2>1. /\ pc[d] = "i_has" /\ pc'[d] = "i_has" /\ ids[d] # {}
        /\ ids'[d] = ids[d] \ {Current(d)}
        /\ common'[d] = IF has_id("B", Current(d)) THEN common[d] \cup {Current(d)}
                                                   ELSE common[d]
    BY <1>1, <1>14 DEF i_has, NextId, OverClients
  <2>2. has_id("A", Current(d)) /\ (has_id("B", Current(d)) => Current(d) \in Both)
    BY <1>5, <2>1 DEF Kept, get_all_ids, Both
  <2> QED
    BY <1>4, <2>1, <2>2 DEF Kept
<1>15. CASE i_sort(d)
  <2>1. /\ pc[d] = "i_has" /\ pc'[d] = "i_names" /\ ids'[d] = common[d]
        /\ line'[d] = Blank /\ reply'[d] = <<>>
    BY <1>1, <1>15 DEF i_sort, Goto, Phase, OverClients
  <2>2. \A t \in Tables : line'[d][t] = Unread
    BY <2>1 DEF Blank
  <2> QED
    BY <1>4, <1>6, <2>1, <2>2 DEF Kept
<1>16. CASE sd_ids(d)
  <2>1. /\ pc[d] = "sd_ids" /\ pc'[d] = "sd_inA" /\ ids'[d] = ids[d] \cup get_all_ids("B")
        /\ reply'[d] = <<>>
    BY <1>1, <1>16 DEF sd_ids, Goto, Phase, OverClients
  <2>2. get_all_ids("B") \subseteq Some
    BY DEF get_all_ids, Some
  <2> QED
    BY <1>4, <1>6, <2>1, <2>2 DEF Kept
<1>17. CASE sd_inA(d) \/ sd_inB(d)
  <2>1. /\ pc[d] \in {"sd_inA", "sd_inB"} /\ pc'[d] \in {"sd_inA", "sd_inB", "sd_names"}
        /\ ids'[d] \subseteq ids[d] /\ reply'[d] = reply[d] /\ line'[d] = Blank
    BY <1>1, <1>17 DEF sd_inA, sd_inB, Goto, NextId, Phase, OverClients
  <2>2. line'[d]["A"] = Unread /\ line'[d]["B"] = Unread /\ Unread # Absent
    BY <2>1 DEF Blank, Tables, Unread, Absent
  <2> QED
    BY <1>4, <2>1, <2>2 DEF Kept
<1>18. CASE EndOfRows(d)
  <2>1. /\ ids'[d] = {} /\ reply'[d] = reply[d]
        /\ \/ pc[d] = "i_names" /\ pc'[d] = "i_ok"
           \/ pc[d] = "sd_inA" /\ pc'[d] = "sd_ok"
    BY <1>1, <1>18 DEF EndOfRows, Goto, OverClients, locals
  <2> QED
    BY <1>4, <2>1 DEF Kept
<1>19. CASE send_ok(d) \/ accept(d) \/ hang_up(d)
  BY <1>1, <1>11, <1>19 DEF send_ok, accept, hang_up, Goto, OverClients
<1>20. CASE read_name(d)
  <2>1. PICK t \in Tables :
          LET row == [line[d] EXCEPT ![t] = get_name(t, Current(d))] IN
          /\ pc[d] \in {"i_names", "sd_names"}
          /\ ids[d] # {}
          /\ pc[d] = "sd_names" /\ t = "B" => line[d]["A"] # Unread
          /\ \/ /\ \E u \in Tables : row[u] = Unread
                /\ line' = [line EXCEPT ![d] = row]
                /\ UNCHANGED <<pc, ids, reply>>
             \/ /\ \A u \in Tables : row[u] # Unread
                /\ line' = [line EXCEPT ![d] = Blank]
                /\ reply' = [reply EXCEPT ![d] =
                      Append(@, [id |-> Current(d), A |-> row["A"], B |-> row["B"]])]
                /\ NextId(d)
                /\ Goto(d, pc[d], IF pc[d] = "i_names" THEN "i_names" ELSE "sd_inA")
    BY <1>20, Zenon DEF read_name
  <2> DEFINE row == [line[d] EXCEPT ![t] = get_name(t, Current(d))]
             answer == [id |-> Current(d), A |-> row["A"], B |-> row["B"]]
  <2>2. Current(d) \in Ids /\ Current(d) \in ids[d]
    BY <1>5, <2>1
  <2>3. row \in [Tables -> Names \cup {Absent, Unread}]
    BY <1>1, <2>2, GetName DEF LocalTypes
  <2>4. pc[d] = "i_names" => \A u \in Tables : row[u] \in {Unread, get_name(u, Current(d))}
    BY <1>1, <2>1 DEF Kept, LocalTypes
  <2>5. /\ row["A"] = IF t = "A" THEN get_name("A", Current(d)) ELSE line[d]["A"]
        /\ row["B"] = IF t = "B" THEN get_name("B", Current(d)) ELSE line[d]["B"]
    BY <1>1 DEF LocalTypes, Tables
  <2>6. pc[d] = "sd_names" => Current(d) \in Some
    BY <2>2 DEF Kept
  <2>7. pc[d] = "sd_names" /\ row["A"] = Absent => has_id("B", Current(d))
    BY <2>5, <2>6 DEF Kept, Some, get_name, has_id
  <2>8. get_name("B", Current(d)) # Unread
    BY <1>1, <2>2, GetName DEF Tables
  <2>9. CASE /\ \E u \in Tables : row[u] = Unread
             /\ line' = [line EXCEPT ![d] = row]
             /\ UNCHANGED <<pc, ids, reply>>
    <3>1. line'[d] = row /\ pc'[d] = pc[d] /\ ids'[d] = ids[d] /\ reply'[d] = reply[d]
      BY <1>1, <2>9 DEF OverClients
    <3>2. Current(d)' = Current(d)
      BY <3>1 DEF Current
    <3>3. pc[d] = "sd_names" => row["B"] = Unread
      BY <2>1, <2>5, <2>8, <2>9 DEF Kept, Tables
    <3> HIDE DEF row
    <3> QED
      BY <1>4, <2>1, <2>4, <2>7, <3>1, <3>2, <3>3 DEF Kept
  <2>10. CASE /\ \A u \in Tables : row[u] # Unread
              /\ line' = [line EXCEPT ![d] = Blank]
              /\ reply' = [reply EXCEPT ![d] = Append(@, answer)]
              /\ NextId(d)
              /\ Goto(d, pc[d], IF pc[d] = "i_names" THEN "i_names" ELSE "sd_inA")
    <3>1. answer \in Rows
      <4> HIDE DEF row
      <4> QED
        BY <1>1, <2>2, <2>3, <2>10, RowInRows
    <3>2. pc[d] = "i_names" => Holds(answer)
      <4>1. pc[d] = "i_names" => answer = Row(Current(d)) /\ Current(d) \in Both
        BY <2>2, <2>4, <2>10 DEF Row, get_name, Tables, Kept
      <4> QED
        BY <4>1 DEF Holds
    <3>3. pc[d] = "sd_names" => t = "B" /\ answer.B = get_name("B", Current(d))
      BY <2>5, <2>10 DEF Kept, Tables
    <3>4. pc[d] = "sd_names" => Named(answer)
      BY <2>7, <3>3 DEF Named, get_name, has_id
    <3> HIDE DEF answer
    <3>5. /\ line'[d] = Blank /\ reply'[d] = Append(reply[d], answer)
          /\ ids'[d] = ids[d] \ {Current(d)}
          /\ \/ pc[d] = "i_names" /\ pc'[d] = "i_names"
             \/ pc[d] = "sd_names" /\ pc'[d] = "sd_inA"
      <4> HIDE DEF row
      <4> QED
        BY <1>1, <2>1, <2>10 DEF Goto, NextId, OverClients
    <3>6. Range(reply'[d]) = Range(reply[d]) \cup {answer}
      BY <1>1, <3>1, <3>5, RangeOfAppend DEF LocalTypes
    <3>7. \A u \in Tables : line'[d][u] = Unread
      BY <3>5 DEF Blank
    <3> QED
      BY <1>4, <3>2, <3>4, <3>5, <3>6, <3>7 DEF Kept
  <2> QED
    BY <2>1, <2>9, <2>10
<1> QED
  BY <1>12, <1>13, <1>14, <1>15, <1>16, <1>17, <1>18, <1>19, <1>20
     DEF OwnStep, QueryStep

LEMMA KeptInit == Init => KeptInv
<1> SUFFICES ASSUME Init PROVE KeptInv
  OBVIOUS
<1>1. PhaseInv
  BY PhaseInit
<1>2. \A c \in Clients : pc[c] = "none"
  BY DEF Init
<1> QED
  BY <1>1, <1>2 DEF KeptInv, Kept

LEMMA KeptStep == KeptInv /\ [Next]_vars => KeptInv'
<1> SUFFICES ASSUME KeptInv, [Next]_vars PROVE KeptInv'
  OBVIOUS
<1>1. PhaseInv
  BY DEF KeptInv
<1>2. PhaseInv'
  BY <1>1, PhaseStep
<1> SUFFICES ASSUME NEW c \in Clients, truncated'[c] = {}
             PROVE  Kept(c)'
  BY <1>2, Zenon DEF KeptInv
<1>3. CASE run \/ UNCHANGED vars
  <2>1. data' = data /\ truncated' = truncated /\ SameLocals(c)
    BY <1>3 DEF run, Startup, vars, locals, history, SameLocals
  <2>2. Kept(c) /\ Grows
    BY <2>1 DEF KeptInv, Grows
  <2> QED
    BY <1>1, <2>1, <2>2, KeptWhileGrowing
<1>4. ASSUME NEW d \in Clients, OwnStep(d)
      PROVE  Kept(c)'
  <2>1. Grows
    BY <1>4, OwnStepKeepsData DEF Grows
  <2>2. CASE c = d
    <3>1. CASE truncated' = truncated
      BY <1>1, <1>4, <2>2, <3>1, OwnStepIsKept DEF KeptInv
    <3>2. CASE send_ok(d)
      <4>1. pc'[c] = "recv"
        BY <1>1, <2>2, <3>2 DEF send_ok, PhaseInv, TypeOK
      <4> QED
        BY <4>1 DEF Kept
    <3> QED
      BY <1>4, <3>1, <3>2, OwnStepKeepsData
  <2>3. CASE c # d
    <3>1. SameLocals(c) /\ truncated'[c] = truncated[c]
      BY <1>1, <1>4, <2>3, OwnStepIsOwn DEF PhaseInv
    <3> QED
      BY <1>1, <2>1, <3>1, KeptWhileGrowing DEF KeptInv
  <2> QED
    BY <2>2, <2>3
<1>5. ASSUME NEW d \in Clients, Write(d)
      PROVE  Kept(c)'
  <2>1. SameLocals(c)
    BY <1>5 DEF Write, handle_insert, handle_truncate, locals, SameLocals
  <2>2. CASE Querying(c)
    BY <1>1, <1>5, <2>1, <2>2, WriteGrows, KeptWhileGrowing DEF KeptInv
  <2>3. CASE ~Querying(c)
    <3>1. pc'[c] \in {"none", "recv"}
      BY <2>1, <2>3 DEF SameLocals, Querying
    <3> QED
      BY <3>1 DEF Kept
  <2> QED
    BY <2>2, <2>3
<1> QED
  BY <1>3, <1>4, <1>5, StepsOfNext

(***************************************************************************)
(* Inserts alone never spoil an INTERSECTION: unless a table is truncated  *)
(* while it runs, all rows it sent are rows of both tables, as they are.   *)
(***************************************************************************)
THEOREM IntersectionCorrect == Spec => []IntersectionRowsHold
<1>1. ASSUME KeptInv PROVE IntersectionRowsHold
  <2> SUFFICES ASSUME NEW c \in Clients, pc[c] \in {"i_names", "i_ok"},
                      truncated[c] = {}, NEW row \in Range(reply[c])
               PROVE  row = Row(row.id) /\ row.A # Absent /\ row.B # Absent
    BY DEF IntersectionRowsHold
  <2>1. Holds(row)
    BY <1>1 DEF KeptInv, Kept
  <2>2. has_id("A", row.id) /\ has_id("B", row.id)
    BY <2>1 DEF Holds, Both
  <2>3. row.A = data["A"][row.id] /\ row.B = data["B"][row.id]
    BY <2>1 DEF Holds, Row
  <2> QED
    BY <2>1, <2>2, <2>3 DEF Holds, has_id
<1> QED
  BY <1>1, KeptInit, KeptStep, PTL DEF Spec

(***************************************************************************)
(* SYMMETRIC_DIFFERENCE sends no row without a name unless a table was     *)
(* truncated while it ran.                                                 *)
(***************************************************************************)
THEOREM NamelessCorrect == Spec => []NamelessRowsNeedTruncate
<1>1. KeptInv => NamelessRowsNeedTruncate
  BY DEF KeptInv, Kept, Named, NamelessRowsNeedTruncate
<1> QED
  BY <1>1, KeptInit, KeptStep, PTL DEF Spec
=============================================================================
