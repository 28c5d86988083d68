---------------------------- MODULE CommandParser ----------------------------
(***************************************************************************)
(* bulk of hw-7-bulk: lines from standard input become bulks of commands,  *)
(* static ones of N commands and dynamic ones between braces, and every    *)
(* bulk goes to the console and to a file named by the second in which its *)
(* first command came.                                                     *)
(***************************************************************************)
EXTENDS Integers, Sequences, FiniteSets, SequencesExt, Numbering

CONSTANTS
    Commands,   \* lines other than braces
    Sizes,      \* what main may make of its argument
    MaxLines,   \* bound: lines of input
    MaxSecond   \* bound: seconds that the clock advances

Opening == "{"
Closing == "}"
Brace == {Opening, Closing}

ASSUME ParserAssumption ==
    /\ Commands \cap Brace = {}
    /\ Sizes \subseteq Nat
    /\ MaxLines \in Nat /\ MaxSecond \in Nat

Seconds == 0..MaxSecond
NoFile == <<>>          \* a bulk that is written is never empty

VARIABLES
    static_block_size_,
    current_block_,     \* Bulk: its commands and created_at
    nesting_level_,
    console,            \* the bulks ConsoleLogger printed
    file,               \* second -> the bulk in bulk<second>.log
    time,               \* std::time(nullptr)
    input,              \* history: the lines so far, with their seconds
    unwritten,          \* history: numbers of the bulks whose file did not open
    eof                 \* finish() has been called

vars == <<static_block_size_, current_block_, nesting_level_, console, file,
          time, input, unwritten, eof>>

Init ==
    /\ static_block_size_ \in Sizes
    /\ current_block_ = [commands |-> <<>>, created_at |-> 0]
    /\ nesting_level_ = 0
    /\ console = <<>>
    /\ file = [t \in Seconds |-> NoFile]
    /\ time = 0
    /\ input = <<>>
    /\ unwritten = {}
    /\ eof = FALSE

\* (mutant of add: created_at keeps the second of the first bulk ever)
add_Stale(bulk, cmd) == [bulk EXCEPT !.commands = Append(@, cmd)]

\* Bulk::add
add(bulk, cmd) ==
    [commands |-> Append(bulk.commands, cmd),
     created_at |-> IF bulk.commands = <<>> THEN time ELSE bulk.created_at]

clear(bulk) == [bulk EXCEPT !.commands = <<>>]

\* FileLogger::update, which truncates a file of the same name; it may not open
update(bulk) ==
    \/ /\ file' = [file EXCEPT ![bulk.created_at] = bulk.commands]
       /\ UNCHANGED unwritten
    \/ /\ unwritten' = unwritten \cup {Len(console) + 1}
       /\ UNCHANGED file

NoBulk == UNCHANGED <<console, file, unwritten>>

\* flush_block of a block: an empty one reaches nobody
flush_block(bulk) ==
    /\ current_block_' = clear(bulk)
    /\ IF bulk.commands = <<>> THEN NoBulk
       ELSE console' = Append(console, bulk.commands) /\ update(bulk)

-----------------------------------------------------------------------------
\* (mutant of LevelAfterClose: a closing brace too many counts)
LevelAfterClose_Unguarded == nesting_level_ - 1

Full(bulk) == Len(bulk.commands) >= static_block_size_
LevelAfterClose == IF nesting_level_ > 0 THEN nesting_level_ - 1 ELSE 0

\* process_line of an opening brace
open_brace ==
    /\ nesting_level_' = nesting_level_ + 1
    /\ IF nesting_level_ = 0 THEN flush_block(current_block_)
       ELSE NoBulk /\ UNCHANGED current_block_

\* process_line of a closing brace
close_brace ==
    /\ nesting_level_' = LevelAfterClose
    /\ IF nesting_level_ = 1 THEN flush_block(current_block_)
       ELSE NoBulk /\ UNCHANGED current_block_

\* process_line of a command
command(cmd) ==
    LET bulk == add(current_block_, cmd) IN
    /\ UNCHANGED nesting_level_
    /\ IF nesting_level_ = 0 /\ Full(bulk) THEN flush_block(bulk)
       ELSE NoBulk /\ current_block_' = bulk

process_line ==
    /\ ~eof
    /\ Len(input) < MaxLines
    /\ \E line \in Commands \cup Brace :
          /\ input' = Append(input, [line |-> line, at |-> time])
          /\ \/ line = Opening /\ open_brace
             \/ line = Closing /\ close_brace
             \/ line \in Commands /\ command(line)
    /\ UNCHANGED <<static_block_size_, time, eof>>

\* end of the input: a static block is flushed, a dynamic one dropped
finish ==
    /\ ~eof
    /\ eof' = TRUE
    /\ \/ nesting_level_ = 0 /\ flush_block(current_block_)
       \/ nesting_level_ > 0 /\ current_block_' = clear(current_block_) /\ NoBulk
    /\ UNCHANGED <<static_block_size_, nesting_level_, time, input>>

second ==
    /\ ~eof
    /\ time < MaxSecond
    /\ time' = time + 1
    /\ UNCHANGED <<static_block_size_, current_block_, nesting_level_, console,
                   file, input, unwritten, eof>>

Next == process_line \/ finish \/ second

Spec == Init /\ [][Next]_vars

-----------------------------------------------------------------------------
(***************************************************************************)
(* Reference: the complete bulks as sets of positions, in order.  The      *)
(* level after i lines is the balance of the braces so far, where a        *)
(* closing brace that closes nothing is void.  A boundary is a line that   *)
(* begins or ends an outermost pair.  Two commands share a bulk if no      *)
(* boundary lies between them and, outside braces, they belong to the same *)
(* group of N.  A bulk is complete if a boundary follows or, outside       *)
(* braces, if it has N commands or the input has ended.                    *)
(***************************************************************************)
Bulks ==
    LET upTo(i, l) == Cardinality({j \in 1..i : input[j].line = l})
        balance == [i \in 0..Len(input) |-> upTo(i, Opening) - upTo(i, Closing)]
        level == [i \in 0..Len(input) |->
                     balance[i] - Min({balance[j] : j \in 0..i})]
        boundaries == {i \in DOMAIN input : {level[i - 1], level[i]} = {0, 1}}
        positions == {i \in DOMAIN input : input[i].line \in Commands}
        segment == [i \in positions |-> Cardinality({b \in boundaries : b < i})]
        rank == [i \in positions |->
                    Cardinality({j \in positions : j < i /\ segment[j] = segment[i]})]
        group == [i \in positions |->
                     IF level[i] > 0 THEN 0
                     ELSE rank[i] \div Max({1, static_block_size_})]
        bulk == [i \in positions |->
                    {j \in positions : segment[j] = segment[i] /\ group[j] = group[i]}]
        complete == {i \in positions :
                        \/ \E b \in boundaries : b > i
                        \/ /\ level[i] = 0
                           /\ eof \/ Cardinality(bulk[i]) >= static_block_size_}
        firsts == {i \in complete : i = Min(bulk[i])}
    IN  [k \in 1..Cardinality(firsts) |-> bulk[Nth(firsts, k)]]

Text(S) == [k \in 1..Cardinality(S) |-> input[Nth(S, k)].line]

(***************************************************************************)
(* The console shows the reference's bulks in order: static bulks of N     *)
(* commands, shorter only before a brace or the end, a dynamic bulk for    *)
(* every outermost pair of braces, and nothing of one left open.           *)
(***************************************************************************)
ConsoleShowsBulks ==
    LET bulks == Bulks IN console = [k \in DOMAIN bulks |-> Text(bulks[k])]

(***************************************************************************)
(* The file of a second holds the last bulk whose first command came in    *)
(* that second and whose file could be opened: earlier bulks of the same   *)
(* second are lost, and no others are.                                     *)
(***************************************************************************)
FilesKeepLatest ==
    LET bulks == Bulks
        Written(t) == {k \in DOMAIN bulks \ unwritten : input[Min(bulks[k])].at = t}
    IN  \A t \in Seconds :
            file[t] = IF Written(t) = {} THEN NoFile ELSE Text(bulks[Max(Written(t))])
=============================================================================
