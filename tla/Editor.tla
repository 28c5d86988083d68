------------------------------- MODULE Editor -------------------------------
(***************************************************************************)
(* The vector editor of hw-5-editor: the registry, the window and the      *)
(* document on disk.  The window's event loop calls one handler at a time. *)
(* A handler of the controller is one action, but for saving, which        *)
(* empties the file before it writes it: the process may be killed in      *)
(* between.  All shapes of one type are alike, so a shape is its type.     *)
(***************************************************************************)
EXTENDS Integers, Sequences

CONSTANTS
    MaxShapes,  \* bound: shapes in the registry
    MaxIds,     \* bound: entities created by one process
    MaxRuns     \* bound: how often the program is started

ASSUME EditorAssumption ==
    MaxShapes \in Nat /\ MaxIds \in Nat /\ MaxRuns \in Nat \ {0}

ShapeTypes == {"Rectangle", "Line"}

\* what example.vec may be
NoDocument == [kind |-> "none", shapes |-> <<>>]
Damaged == [kind |-> "damaged", shapes |-> <<>>]
Document(shapes) == [kind |-> "document", shapes |-> shapes]

VARIABLES
    entities,       \* Registry: sequence of [id, type]
    counter,        \* the static counter of createEntity
    shapes_model,   \* what the window shows
    disk,           \* example.vec
    saving,         \* save has opened the file and is about to write it
    runs,           \* how often the program was started
    drawn,          \* history: the drawing that was saved last
    last_id         \* history: the largest id a user has seen

vars == <<entities, counter, shapes_model, disk, saving, runs, drawn, last_id>>

Init ==
    /\ entities = <<>>
    /\ counter = 0
    /\ shapes_model = <<>>
    /\ disk = NoDocument
    /\ saving = FALSE
    /\ runs = 1
    /\ drawn = <<>>
    /\ last_id = 0

Shapes(list) == [k \in DOMAIN list |-> list[k].type]

-----------------------------------------------------------------------------
\* (mutants: ids restart with an empty registry; the window is refreshed first)
NewId_FromSize(k) == Len(entities) + k
Shown_Before == Shapes(entities)

\* the k-th id that createEntity gives from now on
NewId(k) == counter + k

\* SlintCanvasView::refresh, after the registry has changed
Shown == Shapes(entities')
refresh == shapes_model' = Shown

\* createEntity for each of new, onto old
create(old, new) ==
    /\ counter + Len(new) <= MaxIds
    /\ Len(old) + Len(new) <= MaxShapes
    /\ entities' = old \o [k \in DOMAIN new |-> [id |-> NewId(k), type |-> new[k]]]
    /\ counter' = counter + Len(new)
    /\ last_id' = IF new = <<>> THEN last_id ELSE entities'[Len(entities')].id

\* no handler is running
Idle == ~saving

on_new_document ==
    /\ Idle
    /\ entities' = <<>>
    /\ refresh
    /\ UNCHANGED <<counter, disk, saving, runs, drawn, last_id>>

on_add(type) ==
    /\ Idle
    /\ create(entities, <<type>>)
    /\ refresh
    /\ UNCHANGED <<disk, saving, runs, drawn>>

\* (mutant of Cleared: the shapes are added to those of the old drawing)
Cleared_No == entities
Cleared == <<>>

\* SerializationSystem::load.  There may be no file to read, reading may fail
\* before the registry is cleared (open, the message, its root) and after it
\* (the list of shapes).
load ==
    \/ UNCHANGED <<entities, counter, last_id>>
    \/ disk.kind # "none" /\ entities' = Cleared /\ UNCHANGED <<counter, last_id>>
    \/ disk.kind = "document" /\ create(Cleared, disk.shapes)

on_open_dialog ==
    /\ Idle
    /\ load
    /\ refresh
    /\ UNCHANGED <<disk, saving, runs, drawn>>

\* SerializationSystem::save: open with O_TRUNC, or give up
on_save_dialog ==
    /\ Idle
    /\ \/ disk' = Damaged /\ saving' = TRUE
       \/ UNCHANGED <<disk, saving>>
    /\ UNCHANGED <<entities, counter, shapes_model, runs, drawn, last_id>>

Written == Shapes(entities)

\* writePackedMessage: all of it, or an exception
write_message ==
    /\ saving
    /\ saving' = FALSE
    /\ \/ disk' = Document(Written) /\ drawn' = Shapes(entities)
       \/ UNCHANGED <<disk, drawn>>
    /\ UNCHANGED <<entities, counter, shapes_model, runs, last_id>>

\* the process ends, or is killed while it saves, and is started again
restart ==
    /\ runs < MaxRuns
    /\ runs' = runs + 1
    /\ entities' = <<>>
    /\ counter' = 0
    /\ shapes_model' = <<>>
    /\ saving' = FALSE
    /\ last_id' = 0
    /\ UNCHANGED <<disk, drawn>>

Next ==
    \/ on_new_document \/ on_open_dialog \/ on_save_dialog \/ write_message
    \/ \E type \in ShapeTypes : on_add(type)
    \/ restart

Spec == Init /\ [][Next]_vars

-----------------------------------------------------------------------------
\* Types; ids grow along the registry, and the counter is not behind them.
TypeOK ==
    /\ entities \in Seq([id : 1..MaxIds, type : ShapeTypes])
    /\ counter \in 0..MaxIds
    /\ shapes_model \in Seq(ShapeTypes)
    /\ disk \in [kind : {"none", "damaged", "document"}, shapes : Seq(ShapeTypes)]
    /\ saving \in BOOLEAN
    /\ runs \in 1..MaxRuns
    /\ drawn \in Seq(ShapeTypes)
    /\ last_id \in 0..counter
    /\ \A i, j \in DOMAIN entities : i < j => entities[i].id < entities[j].id
    /\ \A i \in DOMAIN entities : entities[i].id <= counter

(***************************************************************************)
(* While the program runs, a shape gets an id that no shape had before it, *)
(* in spite of New and Open; other shapes keep theirs.                     *)
(***************************************************************************)
NewIdsAreFresh ==
    [][runs' = runs =>
        \A i \in DOMAIN entities' :
            \/ entities'[i].id > last_id
            \/ \E j \in DOMAIN entities : entities[j] = entities'[i]]_vars

(***************************************************************************)
(* Between handlers the window shows the registry, after failures of Open  *)
(* as well.                                                                *)
(***************************************************************************)
WindowShowsRegistry == shapes_model = Shapes(entities)

(***************************************************************************)
(* Opening never mixes drawings: what is on screen afterwards is the old   *)
(* drawing, nothing, or the drawing that was saved last by a save that     *)
(* succeeded, shape by shape.                                              *)
(***************************************************************************)
OpenNeverMixes ==
    [][on_open_dialog =>
        shapes_model' \in {shapes_model, <<>>, drawn}]_vars
=============================================================================
