---------------------------- MODULE LineSplitter ----------------------------
(***************************************************************************)
(* How a byte stream that arrives in arbitrary chunks becomes commands and *)
(* blocks, in the three programs that do it: async::receive of hw-9-async, *)
(* its rewrite in hw-10-bulk, and handle_client of hw-11-join.  All three  *)
(* are fed the same chunks.  Between two chunks, what matters is the       *)
(* unfinished line (tail, full_cmd) and the unfinished block.              *)
(***************************************************************************)
EXTENDS Integers, Sequences, FiniteSets, SequencesExt, Numbering

CONSTANTS
    Letters,    \* the bytes that are neither a newline nor zero
    BulkSizes,  \* what connect may be given as bulk_size
    MaxBytes    \* bound: length of the stream

ASSUME SplitterAssumption == BulkSizes \subseteq Nat /\ MaxBytes \in Nat

NL == "\n"
NUL == "NUL"
Bytes == Letters \cup {NL, NUL}

VARIABLES
    received,   \* history: the stream so far
    appended,   \* history: the part of it that hw-11 appends to full_cmd
    aligned,    \* history: has every chunk ended with a newline?
    ctx9,       \* ContextState of hw-9, with the blocks it pushed
    ctx10,      \* ContextState of hw-10, likewise
    client11,   \* full_cmd of hw-11 and the commands it has processed
    open        \* FALSE after disconnect

splitVars == <<received, appended, aligned, ctx9, ctx10, client11, open>>

NewContext(size) ==
    [bulk_size |-> size, tail |-> <<>>, current_commands |-> <<>>, blocks |-> <<>>]

SplitInit ==
    /\ received = <<>>
    /\ appended = <<>>
    /\ aligned = TRUE
    /\ \E size \in BulkSizes : ctx9 = NewContext(size) /\ ctx10 = NewContext(size)
    /\ client11 = [full_cmd |-> <<>>, processed |-> <<>>]
    /\ open = TRUE

-----------------------------------------------------------------------------
\* std::views::split(s, '\n'), empty pieces included
Split(s) ==
    LET pieces[n \in 0..Len(s)] ==
            IF n = 0 THEN << <<>> >>
            ELSE IF s[n] = NL THEN Append(pieces[n - 1], <<>>)
            ELSE Append(Front(pieces[n - 1]), Append(Last(pieces[n - 1]), s[n]))
    IN  IF s = <<>> THEN <<>> ELSE pieces[Len(s)]

\* (mutant of NonEmpty: empty lines count)
NonEmpty_All(pieces) == pieces
NonEmpty(pieces) ==
    LET kept[n \in 0..Len(pieces)] ==
            IF n = 0 THEN <<>>
            ELSE IF pieces[n] = <<>> THEN kept[n - 1]
            ELSE Append(kept[n - 1], pieces[n])
    IN  kept[Len(pieces)]

\* (mutant of AddCommand: the block is pushed one command late)
AddCommand_Late(ctx, cmd) ==
    LET cmds == Append(ctx.current_commands, cmd) IN
    IF Len(cmds) > ctx.bulk_size
    THEN [ctx EXCEPT !.blocks = Append(@, cmds), !.current_commands = <<>>]
    ELSE [ctx EXCEPT !.current_commands = cmds]

\* one command more; a block of exactly bulk_size commands is pushed
AddCommand(ctx, cmd) ==
    LET cmds == Append(ctx.current_commands, cmd) IN
    IF Len(cmds) = ctx.bulk_size
    THEN [ctx EXCEPT !.blocks = Append(@, cmds), !.current_commands = <<>>]
    ELSE [ctx EXCEPT !.current_commands = cmds]

AddCommands(ctx, pieces) ==
    LET cmds == NonEmpty(pieces)
        added[n \in 0..Len(cmds)] ==
            IF n = 0 THEN ctx ELSE AddCommand(added[n - 1], cmds[n])
    IN  added[Len(cmds)]

\* (mutant of receive9: the tail is not cleared after a newline)
receive9_KeepTail(ctx, chunk) ==
    LET buffer == ctx.tail \o chunk
        cmds == Split(buffer)
    IN  IF Last(buffer) # NL
        THEN AddCommands([ctx EXCEPT !.tail = Last(cmds)], Front(cmds))
        ELSE AddCommands(ctx, cmds)

\* hw-9: the last piece is the new tail unless the buffer ends with a newline
receive9(ctx, chunk) ==
    LET buffer == ctx.tail \o chunk
        cmds == Split(buffer)
    IN  IF buffer # <<>> /\ Last(buffer) # NL
        THEN AddCommands([ctx EXCEPT !.tail = Last(cmds)], Front(cmds))
        ELSE AddCommands([ctx EXCEPT !.tail = <<>>], cmds)

\* hw-10: every piece of the buffer is a command, the unfinished one too; the
\* tail comes from the first Len(chunk) bytes only and is never cleared
receive10(ctx, chunk) ==
    LET buffer == ctx.tail \o chunk
        rest == Last(Split(SubSeq(buffer, 1, Len(chunk))))
    IN  AddCommands([ctx EXCEPT !.tail = IF rest = <<>> THEN @ ELSE rest],
                    Split(buffer))

\* disconnect (both): the tail is a command, what is left is a block
disconnect(ctx) ==
    LET cmds == IF ctx.tail = <<>> THEN ctx.current_commands
                ELSE Append(ctx.current_commands, ctx.tail)
    IN  IF cmds = <<>> THEN ctx ELSE [ctx EXCEPT !.blocks = Append(@, cmds)]

\* what full_cmd += buffer appends: buffer is taken as a C string, which ends
\* before the first zero byte of the chunk (or at the one set after the chunk)
CString(chunk) ==
    SubSeq(chunk, 1,
           Min({i \in 1..Len(chunk) : chunk[i] = NUL} \cup {Len(chunk) + 1}) - 1)

\* (mutant of handle_client: full_cmd starts afresh with every recv)
handle_client_Fresh(client, chunk) ==
    IF CString(chunk) = <<>> THEN client
    ELSE LET pieces == Split(CString(chunk)) IN
         [full_cmd |-> Last(pieces),
          processed |-> client.processed \o NonEmpty(Front(pieces))]

\* hw-11: append, and cut off line after line; an empty one is not processed.
\* full_cmd has no newline before the append, so with nothing to append there
\* is nothing to cut.
handle_client(client, chunk) ==
    IF CString(chunk) = <<>> THEN client
    ELSE LET pieces == Split(client.full_cmd \o CString(chunk)) IN
         [full_cmd |-> Last(pieces),
          processed |-> client.processed \o NonEmpty(Front(pieces))]

-----------------------------------------------------------------------------
Receive ==
    /\ open
    /\ \E chunk \in BoundedSeq(Bytes, MaxBytes - Len(received)) :
          /\ chunk # <<>>
          /\ received' = received \o chunk
          /\ appended' = appended \o CString(chunk)
          /\ aligned' = (aligned /\ Last(chunk) = NL)
          /\ ctx9' = receive9(ctx9, chunk)
          /\ ctx10' = receive10(ctx10, chunk)
          /\ client11' = handle_client(client11, chunk)
    /\ UNCHANGED open

Disconnect ==
    /\ open
    /\ open' = FALSE
    /\ ctx9' = disconnect(ctx9)
    /\ ctx10' = disconnect(ctx10)
    /\ UNCHANGED <<received, appended, aligned, client11>>

SplitNext == Receive \/ Disconnect

SplitSpec == SplitInit /\ [][SplitNext]_splitVars

-----------------------------------------------------------------------------
(***************************************************************************)
(* Reference: the commands of a stream are its longest runs of bytes       *)
(* without a newline, in order, found by where they end; the last one is   *)
(* unfinished if no newline follows.                                       *)
(***************************************************************************)
Ends(s) == {j \in 1..Len(s) : s[j] # NL /\ (j = Len(s) \/ s[j + 1] = NL)}

\* how many bytes up to j are not of the run that ends at j
Before(s, j) == Max({0} \cup {i \in 1..j : s[i] = NL})
RunTo(s) == [j \in 1..Len(s) |-> SubSeq(s, Before(s, j) + 1, j)]

Finished(s) == InOrder({j \in Ends(s) : j < Len(s)}, RunTo(s))
AllCommands(s) == InOrder(Ends(s), RunTo(s))

\* The commands of a context so far, in and out of blocks.
CommandsOf(ctx) == FlattenSeq(ctx.blocks) \o ctx.current_commands

(***************************************************************************)
(* hw-9: wherever the chunks are cut -- in the middle of a line, between a *)
(* line and its newline, in runs of newlines -- the commands are those of  *)
(* the whole stream, the unfinished one at the end included once           *)
(* disconnect takes it.  hw-11 drops that one, and whatever follows a zero *)
(* byte in its chunk; its commands are those of what it keeps, and where   *)
(* the stream has no zero byte it keeps all, however it is cut.            *)
(***************************************************************************)
ChunkingIsIgnored ==
    /\ open => CommandsOf(ctx9) = Finished(received)
    /\ ~open => FlattenSeq(ctx9.blocks) = AllCommands(received)
    /\ client11.processed = Finished(appended)
    /\ NUL \notin Range(received) => appended = received

(***************************************************************************)
(* Blocks hold bulk_size commands; only the one made by disconnect may     *)
(* hold fewer.  With bulk_size = 0 that one holds everything.              *)
(***************************************************************************)
BlocksAreFull ==
    \A ctx \in {ctx9, ctx10} :
        /\ ctx.bulk_size > 0 => Len(ctx.current_commands) < ctx.bulk_size
        /\ \A i \in DOMAIN ctx.blocks :
              LET n == Len(ctx.blocks[i]) IN
              \/ n = ctx.bulk_size
              \/ /\ ~open /\ i = Len(ctx.blocks)
                 /\ ctx.bulk_size = 0 \/ n \in 1..ctx.bulk_size

(***************************************************************************)
(* hw-10 yields the commands of the stream as long as every chunk ends     *)
(* with a newline.  (With other chunks it repeats unfinished lines.)       *)
(***************************************************************************)
Hw10NeedsWholeLines ==
    aligned => /\ ctx10.tail = <<>>
               /\ open => CommandsOf(ctx10) = AllCommands(received)
               /\ ~open => FlattenSeq(ctx10.blocks) = AllCommands(received)
=============================================================================
