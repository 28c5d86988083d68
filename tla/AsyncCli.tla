------------------------------ MODULE AsyncCli ------------------------------
(***************************************************************************)
(* The command-line programs of hw-9-async and hw-10-bulk (main.cpp) on    *)
(* top of AsyncLib: main connects all clients, then every client's thread  *)
(* receives and disconnects, main joins the threads, and after main the    *)
(* destructor of the GlobalState singleton joins the workers in the        *)
(* reverse order of its members.                                           *)
(***************************************************************************)
EXTENDS AsyncLib, SequencesExt

CONSTANT MaxTotal   \* bound: blocks of all clients together

ASSUME CliAssumption == MaxTotal \in Nat

VARIABLES
    exit,       \* the jthread members whose destructors have still to run
    pushed,     \* history: queue -> the blocks pushed to it, in order
    block,      \* worker -> its local variable, the block it has popped and is
                \* about to log (Sentinel when what it holds is not read again)
    written     \* worker -> what is in its log

cliVars == <<libVars, exit, pushed, block, written>>

CliInit ==
    /\ InitWith(FALSE)
    /\ exit = <<"file2", "file1", "log">>
    /\ pushed = [q \in Queues |-> <<>>]
    /\ block = [w \in Workers |-> Sentinel]
    /\ written = [w \in Workers |-> <<>>]

\* What one step of the library does to the blocks outside of the queues.
Record ==
    /\ pushed' =
          [q \in Queues |->
              LET n == Len(queue'[q]) IN
              IF n > Len(queue[q]) /\ queue'[q][n] # Sentinel
              THEN Append(pushed[q], queue'[q][n]) ELSE pushed[q]]
    /\ block' =
          [w \in Workers |->
              IF worker[w] = "pop" /\ worker'[w] = "write"
              THEN Head(queue[QueueOf(w[1])])
              ELSE IF worker'[w] = "loop" THEN Sentinel ELSE block[w]]
    /\ written' =
          [w \in Workers |->
              IF worker[w] = "write" /\ worker'[w] = "loop"
              THEN Append(written[w], block[w]) ELSE written[w]]

-----------------------------------------------------------------------------
\* (mutant of Connected: the client threads start with the first connect)
Connected_Early == TRUE
Connected == \A c \in Clients : call[c] # "new" /\ ~Starting(c)

FewBlocks == MapThenSumSet(LAMBDA c : sent[c], Clients) <= MaxTotal

\* main, until all clients are connected; then the client threads
cli_step(c) ==
    /\ \/ connect(c) \/ Proceed(c)
       \/ Connected /\ (receive(c) \/ disconnect(c))
    /\ FewBlocks'
    /\ Record
    /\ UNCHANGED exit

worker_step ==
    /\ WorkerStep
    /\ Record
    /\ UNCHANGED exit

\* ~jthread of the next member, once main has joined its client threads
destroy_thread ==
    /\ \A c \in Clients : call[c] = "closed"
    /\ exit # <<>>
    /\ Joined(<<Head(exit), handle[Head(exit)]>>)
    /\ exit' = Tail(exit)
    /\ UNCHANGED <<libVars, pushed, block, written>>

\* The process has ended.
Ended == exit = <<>> /\ UNCHANGED cliVars

CliNext ==
    \/ \E c \in Clients : cli_step(c)
    \/ worker_step
    \/ destroy_thread
    \/ Ended

CliSpec == CliInit /\ [][CliNext]_cliVars

(***************************************************************************)
(* The programs run to their end: as long as some thread can take a step,  *)
(* some thread does.  Which one is left open.  (hw-9's workers poll their  *)
(* queue and sleep in between; a poll that finds nothing is no step.)      *)
(***************************************************************************)
CliFairSpec == CliSpec /\ WF_cliVars(CliNext)

-----------------------------------------------------------------------------
(***************************************************************************)
(* While a client is connected, the pool runs and none of its workers has  *)
(* ended: only the last disconnect may stop the pool, once, and no         *)
(* sentinel is about before.                                               *)
(***************************************************************************)
PoolServesClients ==
    Connected /\ contexts # {} =>
        running /\ \A s \in Slots : Alive(<<s, handle[s]>>)

(***************************************************************************)
(* The pool starts once in the life of the process: every slot gets one    *)
(* worker.  hw-9's workers register a logger by a fixed name, which throws *)
(* the second time, and both programs' workers truncate their log file     *)
(* when they open it.                                                      *)
(***************************************************************************)
WorkersStartOnce ==
    \A s \in Slots : \A c, d \in Clients :
        worker[<<s, c>>] # "none" /\ worker[<<s, d>>] # "none" => c = d

(***************************************************************************)
(* What ends up behind a sentinel, and is lost if the workers leave by the *)
(* sentinel, is at most one block per client: the left-over of a client    *)
(* that erased its context and had not pushed yet when another             *)
(* disconnect found the map empty.                                         *)
(***************************************************************************)
OnlyLeftoversAreLate ==
    \A q \in Queues : \A i, j \in DOMAIN queue[q] :
        i < j /\ queue[q][i] = Sentinel /\ queue[q][j] # Sentinel =>
            LET b == queue[q][j] IN b.ctx \notin contexts /\ b.n = sent[b.ctx]

Queued(q) == Elements(queue[q]) \ {Sentinel}

Precedes(a, b, order) ==
    \E i, j \in DOMAIN order : i < j /\ order[i] = a /\ order[j] = b

\* Any two blocks of s stand in order as they do in s.
InOrder(s, order) ==
    \A i, j \in DOMAIN s :
        i < j /\ s[i] # Sentinel /\ s[j] # Sentinel => Precedes(s[i], s[j], order)

\* The log of a worker, and the block it has still in hand.
Taken == [w \in Workers |->
             IF worker[w] = "write" THEN Append(written[w], block[w]) ELSE written[w]]

(***************************************************************************)
(* The log, and the block that its worker is about to write, are a prefix  *)
(* of what was pushed: if the process ends with blocks unlogged, they are  *)
(* the most recent ones.                                                   *)
(***************************************************************************)
LogIsPrefix ==
    \E c \in Starters :
        LET log == Taken[<<"log", c>>]
            rest == (Len(log) + 1)..Len(pushed["log"])
        IN
        /\ IsPrefix(log, pushed["log"])
        /\ Queued("log") = {pushed["log"][i] : i \in rest}
        /\ InOrder(queue["log"], pushed["log"])

(***************************************************************************)
(* The two files share the blocks: one that was pushed is still queued, or *)
(* in the hand of one worker, or in one file.  Each file keeps the order   *)
(* of the pushes, and a block is taken before those behind it are.  (It    *)
(* need not be written before: a worker may stall with a block in hand     *)
(* while the other writes later ones.)                                     *)
(***************************************************************************)
FileWorkers == {w \in Workers : QueueOf(w[1]) = "file"}

FilesPartitionBlocks ==
    /\ Elements(pushed["file"]) =
          Queued("file") \cup UNION {Elements(Taken[w]) : w \in FileWorkers}
    /\ InOrder(queue["file"], pushed["file"])
    /\ \A w \in FileWorkers :
          /\ InOrder(Taken[w], pushed["file"])
          /\ \A a \in Elements(Taken[w]) :
                /\ \A b \in Queued("file") : Precedes(a, b, pushed["file"])
                /\ \A v \in FileWorkers \ {w} : a \notin Elements(Taken[v])

(***************************************************************************)
(* Log and files are fed alike: a client's blocks enter both queues once   *)
(* and in the order in which they were completed, the file queue at most   *)
(* one behind; between calls they agree.                                   *)
(***************************************************************************)
Numbers(c, q) == {b.n : b \in {x \in Elements(pushed[q]) : x.ctx = c}}

QueuesAgree ==
    /\ \A q \in Queues : \A i, j \in DOMAIN pushed[q] :
          i < j /\ pushed[q][i].ctx = pushed[q][j].ctx => pushed[q][i].n < pushed[q][j].n
    /\ \A c \in Clients : \E n \in 0..sent[c] :
          /\ Numbers(c, "log") = 1..n
          /\ Numbers(c, "file") \in {1..n, 1..(n - 1)}
          /\ call[c] # "push" => n = sent[c] /\ Numbers(c, "file") = 1..n

(***************************************************************************)
(* The process ends: the joins in ~GlobalState find every worker served,   *)
(* by a sentinel or by running_ = false.                                   *)
(***************************************************************************)
Terminates == <>(exit = <<>>)
=============================================================================
