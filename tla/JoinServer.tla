----------------------------- MODULE JoinServer -----------------------------
(***************************************************************************)
(* join_server of hw-11-join: two in-memory tables, each behind a          *)
(* shared_mutex, and one detached thread per client.  INSERT and TRUNCATE  *)
(* are one critical section each; INTERSECTION and SYMMETRIC_DIFFERENCE    *)
(* are sequences of short reads, each under the lock of one table, and     *)
(* other clients write between them.  One action is one critical section.  *)
(*                                                                         *)
(* Commands that are refused (wrong format, bad id, unknown table or       *)
(* command, duplicate id) answer an error and change nothing, so they are  *)
(* not actions.  A stored name is never empty (parse_command drops empty   *)
(* words), hence "" can stand for `no such row', as it does for get_name.  *)
(***************************************************************************)
EXTENDS Integers, Sequences, FiniteSets, FiniteSetsExt, Functions

CONSTANTS
    Clients,
    Ids,        \* row keys
    Names       \* the names clients insert

Absent == ""            \* get_name of an id that is not there
Unread == "unread"      \* a name the current row still lacks

ASSUME TableAssumption ==
    /\ IsFiniteSet(Ids)
    /\ Ids \subseteq Int
    /\ Names \cap {Absent, Unread} = {}

Tables == {"A", "B"}

VARIABLES
    server,     \* run(): "start" | "socket" | "bound" | "listening" | "returned"
    data,       \* table -> id -> name or Absent
    pc,         \* client -> where its thread is
    ids,        \* client -> ids its current loop has still to visit
    common,     \* client -> ids that INTERSECTION found in both tables
    inA,        \* client -> has_id(A, id) of SYMMETRIC_DIFFERENCE's current id
    line,       \* client -> table -> the names of the current row read so far
    reply,      \* client -> the rows sent for the current query
    touched,    \* history: client -> cells written during its query
    truncated   \* history: client -> tables truncated during its query

locals == <<ids, common, inA, line, reply>>
history == <<touched, truncated>>
vars == <<server, data, pc, locals, history>>

Blank == [t \in Tables |-> Unread]

Init ==
    /\ server = "start"
    /\ data = [t \in Tables |-> [id \in Ids |-> Absent]]
    /\ pc = [c \in Clients |-> "none"]
    /\ ids = [c \in Clients |-> {}]
    /\ common = [c \in Clients |-> {}]
    /\ inA = [c \in Clients |-> FALSE]
    /\ line = [c \in Clients |-> Blank]
    /\ reply = [c \in Clients |-> <<>>]
    /\ touched = [c \in Clients |-> {}]
    /\ truncated = [c \in Clients |-> {}]

Goto(c, from, to) == pc[c] = from /\ pc' = [pc EXCEPT ![c] = to]

\* (mutant of get_name: it asks the same table twice)
get_name_OnlyA(t, id) == data["A"][id]

\* Table::has_id, Table::get_all_ids, Table::get_name; a std::map is visited in ascending order
has_id(t, id) == data[t][id] # Absent
get_all_ids(t) == {id \in Ids : has_id(t, id)}
get_name(t, id) == data[t][id]
Current(c) == Min(ids[c])

NextId(c) == ids' = [ids EXCEPT ![c] = @ \ {Current(c)}]

\* A history learns what happened to the clients whose queries are running.
Querying(c) == pc[c] \notin {"none", "recv"}
Note(h, new) == [c \in Clients |-> IF Querying(c) THEN h[c] \cup new ELSE h[c]]

-----------------------------------------------------------------------------
(* run *)

\* socket, bind and listen in this order; a failure makes run return
Startup(from, to) ==
    /\ server = from
    /\ server' \in {to, "returned"}
    /\ UNCHANGED <<data, pc, locals, history>>

run == Startup("start", "socket") \/ Startup("socket", "bound")
          \/ Startup("bound", "listening")

accept(c) ==
    /\ server = "listening"
    /\ Goto(c, "none", "recv")
    /\ UNCHANGED <<server, data, locals, history>>

\* recv returns 0 or an error: the thread ends
hang_up(c) ==
    /\ Goto(c, "recv", "none")
    /\ UNCHANGED <<server, data, locals, history>>

-----------------------------------------------------------------------------
(* writes *)

\* (mutant of IsNew: a row that is there is replaced)
IsNew_Always(t, id) == TRUE
IsNew(t, id) == ~has_id(t, id)

\* Table::insert of a new id
handle_insert(c) ==
    /\ pc[c] = "recv"
    /\ \E t \in Tables, id \in Ids, name \in Names :
          /\ IsNew(t, id)
          /\ data' = [data EXCEPT ![t][id] = name]
          /\ touched' = Note(touched, {<<t, id>>})
    /\ UNCHANGED <<server, pc, locals, truncated>>

\* Table::clear
handle_truncate(c) ==
    /\ pc[c] = "recv"
    /\ \E t \in Tables :
          /\ data' = [data EXCEPT ![t] = [id \in Ids |-> Absent]]
          /\ touched' = Note(touched, {t} \X get_all_ids(t))
          /\ truncated' = Note(truncated, {t})
    /\ UNCHANGED <<server, pc, locals>>

-----------------------------------------------------------------------------
(* queries *)

\* both begin with tableA->get_all_ids()
Begin(c, next) ==
    /\ Goto(c, "recv", next)
    /\ ids' = [ids EXCEPT ![c] = get_all_ids("A")]
    /\ UNCHANGED <<server, data, common, inA, line, reply, history>>

handle_intersection(c) == Begin(c, "i_has")
handle_symmetric_difference(c) == Begin(c, "sd_ids")

\* INTERSECTION, first loop: tableB->has_id(id)
i_has(c) ==
    /\ pc[c] = "i_has"
    /\ ids[c] # {}
    /\ common' = [common EXCEPT ![c] =
                     IF has_id("B", Current(c)) THEN @ \cup {Current(c)} ELSE @]
    /\ NextId(c)
    /\ UNCHANGED <<server, data, pc, inA, line, reply, history>>

\* end of that loop, std::sort(common)
i_sort(c) ==
    /\ Goto(c, "i_has", "i_names")
    /\ ids[c] = {}
    /\ ids' = [ids EXCEPT ![c] = common[c]]
    /\ common' = [common EXCEPT ![c] = {}]
    /\ UNCHANGED <<server, data, inA, line, reply, history>>

\* (mutant of sd_ids: the ids of B replace those of A)
sd_ids_Replace(c) ==
    /\ Goto(c, "sd_ids", "sd_inA")
    /\ ids' = [ids EXCEPT ![c] = get_all_ids("B")]
    /\ UNCHANGED <<server, data, common, inA, line, reply, history>>

\* SYMMETRIC_DIFFERENCE: tableB->get_all_ids()
sd_ids(c) ==
    /\ Goto(c, "sd_ids", "sd_inA")
    /\ ids' = [ids EXCEPT ![c] = @ \cup get_all_ids("B")]
    /\ UNCHANGED <<server, data, common, inA, line, reply, history>>

\* tableA->has_id(id)
sd_inA(c) ==
    /\ ids[c] # {}
    /\ Goto(c, "sd_inA", "sd_inB")
    /\ inA' = [inA EXCEPT ![c] = has_id("A", Current(c))]
    /\ UNCHANGED <<server, data, ids, common, line, reply, history>>

\* tableB->has_id(id), and the comparison
sd_inB(c) ==
    /\ pc[c] = "sd_inB"
    /\ \/ /\ inA[c] # has_id("B", Current(c))
          /\ Goto(c, "sd_inB", "sd_names")
          /\ UNCHANGED ids
       \/ /\ inA[c] = has_id("B", Current(c))
          /\ Goto(c, "sd_inB", "sd_inA")
          /\ NextId(c)
    /\ inA' = [inA EXCEPT ![c] = FALSE]
    /\ UNCHANGED <<server, data, common, line, reply, history>>

\* get_name of one table; the second of a row also sends the row.
\* INTERSECTION calls both in one expression, whose order C++ leaves open;
\* SYMMETRIC_DIFFERENCE asks A first.
read_name(c) ==
    \E t \in Tables :
        LET row == [line[c] EXCEPT ![t] = get_name(t, Current(c))] IN
        /\ pc[c] \in {"i_names", "sd_names"}
        /\ ids[c] # {}
        /\ line[c][t] = Unread
        /\ pc[c] = "sd_names" /\ t = "B" => line[c]["A"] # Unread
        /\ \/ /\ \E u \in Tables : row[u] = Unread
              /\ line' = [line EXCEPT ![c] = row]
              /\ UNCHANGED <<pc, ids, reply>>
           \/ /\ \A u \in Tables : row[u] # Unread
              /\ line' = [line EXCEPT ![c] = Blank]
              /\ reply' = [reply EXCEPT ![c] =
                    Append(@, [id |-> Current(c), A |-> row["A"], B |-> row["B"]])]
              /\ NextId(c)
              /\ Goto(c, pc[c], IF pc[c] = "i_names" THEN "i_names" ELSE "sd_inA")
        /\ UNCHANGED <<server, data, common, inA, history>>

\* the loop over the result is over; next comes "< OK"
EndOfRows(c) ==
    /\ ids[c] = {}
    /\ Goto(c, "i_names", "i_ok") \/ Goto(c, "sd_inA", "sd_ok")
    /\ UNCHANGED <<server, data, locals, history>>

send_ok(c) ==
    /\ pc[c] \in {"i_ok", "sd_ok"}
    /\ pc' = [pc EXCEPT ![c] = "recv"]
    /\ reply' = [reply EXCEPT ![c] = <<>>]
    /\ touched' = [touched EXCEPT ![c] = {}]
    /\ truncated' = [truncated EXCEPT ![c] = {}]
    /\ UNCHANGED <<server, data, ids, common, inA, line>>

QueryStep(c) ==
    \/ i_has(c) \/ i_sort(c)
    \/ sd_ids(c) \/ sd_inA(c) \/ sd_inB(c)
    \/ read_name(c) \/ EndOfRows(c) \/ send_ok(c)

Next ==
    \/ run
    \/ \E c \in Clients :
          \/ accept(c) \/ hang_up(c)
          \/ handle_insert(c) \/ handle_truncate(c)
          \/ handle_intersection(c) \/ handle_symmetric_difference(c)
          \/ QueryStep(c)

Spec == Init /\ [][Next]_vars

-----------------------------------------------------------------------------
Rows == [id : Ids, A : Names \cup {Absent}, B : Names \cup {Absent}]

\* Types; and a thread that waits for a command has no query half done.
TypeOK ==
    /\ server \in {"start", "socket", "bound", "listening", "returned"}
    /\ data \in [Tables -> [Ids -> Names \cup {Absent}]]
    /\ pc \in [Clients -> {"none", "recv", "i_has", "i_names", "i_ok", "sd_ids",
                           "sd_inA", "sd_inB", "sd_names", "sd_ok"}]
    /\ ids \in [Clients -> SUBSET Ids]
    /\ common \in [Clients -> SUBSET Ids]
    /\ inA \in [Clients -> BOOLEAN]
    /\ line \in [Clients -> [Tables -> Names \cup {Absent, Unread}]]
    /\ reply \in [Clients -> Seq(Rows)]
    /\ touched \in [Clients -> SUBSET (Tables \X Ids)]
    /\ truncated \in [Clients -> SUBSET Tables]
    /\ \A c \in Clients : ~Querying(c) =>
          /\ ids[c] = {} /\ common[c] = {} /\ line[c] = Blank /\ reply[c] = <<>>
          /\ touched[c] = {} /\ truncated[c] = {}

Row(id) == [id |-> id, A |-> data["A"][id], B |-> data["B"][id]]

Expected(query, id) ==
    IF query = "i_ok" THEN has_id("A", id) /\ has_id("B", id)
                      ELSE has_id("A", id) # has_id("B", id)

(***************************************************************************)
(* A query is not atomic, but it is exact for the ids that nobody wrote    *)
(* while it ran: such an id is in the answer if and only if the tables     *)
(* call for it, once, with the names the tables hold.  In particular a     *)
(* query that runs alone is exact.                                         *)
(***************************************************************************)
UntouchedRowsExact ==
    \A c \in Clients : pc[c] \in {"i_ok", "sd_ok"} =>
        \A id \in Ids : touched[c] \cap (Tables \X {id}) = {} =>
            LET sent == {k \in DOMAIN reply[c] : reply[c][k].id = id} IN
            IF Expected(pc[c], id) THEN \E k \in sent : sent = {k} /\ reply[c][k] = Row(id)
                                   ELSE sent = {}

(***************************************************************************)
(* Inserts alone cannot spoil an INTERSECTION: unless a table is truncated *)
(* while it runs, each row it sent is a row of both tables, with its       *)
(* present names (INSERT never replaces a row), and none is empty.         *)
(***************************************************************************)
IntersectionRowsHold ==
    \A c \in Clients :
        pc[c] \in {"i_names", "i_ok"} /\ truncated[c] = {} =>
            \A row \in Range(reply[c]) :
                row = Row(row.id) /\ row.A # Absent /\ row.B # Absent

(***************************************************************************)
(* SYMMETRIC_DIFFERENCE sends a row without any name only if a table was   *)
(* truncated while it ran.                                                 *)
(***************************************************************************)
NamelessRowsNeedTruncate ==
    \A c \in Clients :
        pc[c] \in {"sd_inA", "sd_inB", "sd_names", "sd_ok"} /\ truncated[c] = {} =>
            \A row \in Range(reply[c]) : row.A # Absent \/ row.B # Absent
=============================================================================
