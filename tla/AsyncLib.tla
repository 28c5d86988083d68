------------------------------ MODULE AsyncLib ------------------------------
(***************************************************************************)
(* The library `async` of hw-10-bulk and hw-9-async: the calls connect,    *)
(* receive and disconnect, the GlobalState singleton they share, and the   *)
(* pool of one log worker and two file workers that GlobalState starts     *)
(* and stops.                                                              *)
(*                                                                         *)
(* The calls of several client threads interleave between any two steps    *)
(* that touch shared state: the atomic flag running_, the context map      *)
(* under ctx_mutex_, one push or pop of an AsyncQueue (atomic: module      *)
(* AsyncQueue is shown to implement such a queue), a logger, and the       *)
(* jthread members.  A client is one context for its whole life, since ids are     *)
(* never used twice.  Both programs call connect from one thread at a      *)
(* time, and that is assumed here; see BulkServer and AsyncCli.            *)
(*                                                                         *)
(* Commands are abstracted to blocks: the n-th block of a context.  How    *)
(* receive cuts a byte stream into commands is module LineSplitter.        *)
(***************************************************************************)
EXTENDS Naturals, Sequences, FiniteSets

CONSTANTS
    Clients,    \* callers of the library, each owning one context
    Main,       \* the program's main thread, which may start the pool itself
    MaxBlocks   \* bound: blocks that one client produces

ASSUME LibAssumption ==
    /\ IsFiniteSet(Clients)
    /\ Main \notin Clients
    /\ MaxBlocks \in Nat

Slots == {"log", "file1", "file2"}          \* log_thread_, file_thread1_, file_thread2_
Queues == {"log", "file"}                   \* log_queue_, file_queue_
QueueOf(s) == IF s = "log" THEN "log" ELSE "file"

Starters == Clients \cup {Main}             \* who may win the race to start the pool
Workers == Slots \X Starters                \* a thread: its role and who spawned it

Blocks == [ctx : Clients, n : 1..MaxBlocks]
Sentinel == [ctx |-> Main, n |-> 0]         \* the block with is_shutdown_marker

VARIABLES
    running,    \* running_
    contexts,   \* the clients whose id is in contexts_
    call,       \* client -> where it is inside or between library calls
    todo,       \* client -> what is left of a loop of its call: the slots to
                \* start, or the queues to push to
    sent,       \* client -> number of blocks it has begun to push
    queue,      \* queue -> its contents
    handle,     \* slot -> who spawned the thread the jthread member owns
    worker      \* worker -> "none" | "loop" (at `while`) | "pop" (inside pop)
                \*   | "write" (pop has returned a block to log) | "done"

clientVars == <<call, todo, sent>>
poolVars == <<handle, worker>>
libVars == <<running, contexts, clientVars, queue, poolVars>>

(***************************************************************************)
(* main of bulk_server starts the pool before it accepts anybody (up); the *)
(* command-line programs leave it to the first connect.                    *)
(***************************************************************************)
InitWith(up) ==
    /\ running = up
    /\ contexts = {}
    /\ call = [c \in Clients |-> "new"]
    /\ todo = [c \in Clients |-> <<>>]
    /\ sent = [c \in Clients |-> 0]
    /\ queue = [q \in Queues |-> <<>>]
    /\ handle = [s \in Slots |-> Main]
    /\ worker = [w \in Workers |-> IF w[2] # Main THEN "none"
                                   ELSE IF up THEN "loop" ELSE "done"]

Init == \E up \in BOOLEAN : InitWith(up)

Alive(w) == worker[w] \in {"loop", "pop", "write"}
Starting(c) == call[c] \in {"spawn", "join", "emplace"}

Goto(c, l) == call' = [call EXCEPT ![c] = l]

\* One more element of todo is dealt with: stay, or go on to l after the last.
Advance(c, stay, l) ==
    /\ todo' = [todo EXCEPT ![c] = Tail(@)]
    /\ Goto(c, IF Len(todo[c]) > 1 THEN stay ELSE l)

-----------------------------------------------------------------------------
(* connect *)

\* ensure_workers_started: compare_exchange_strong(false, true)
connect(c) ==
    /\ call[c] = "new"
    /\ \A d \in Clients : ~Starting(d)
    /\ \/ /\ running
          /\ Goto(c, "emplace")
          /\ UNCHANGED <<running, todo>>
       \/ /\ ~running
          /\ running' = TRUE
          /\ Goto(c, "spawn")
          /\ todo' = [todo EXCEPT ![c] = <<"log", "file1", "file2">>]
    /\ UNCHANGED <<contexts, sent, queue, poolVars>>

\* the temporary jthread: the new worker runs before the old one is joined
spawn(c) ==
    /\ call[c] = "spawn"
    /\ worker' = [worker EXCEPT ![<<Head(todo[c]), c>>] = "loop"]
    /\ Goto(c, "join")
    /\ UNCHANGED <<running, contexts, todo, sent, queue, handle>>

\* (mutant of Joined: the old thread is detached instead)
Joined_Detached(w) == TRUE
Joined(w) == worker[w] = "done"

\* jthread::operator= joins the thread the member owns, then takes the new one
join(c) ==
    LET s == Head(todo[c]) IN
    /\ call[c] = "join"
    /\ Joined(<<s, handle[s]>>)
    /\ handle' = [handle EXCEPT ![s] = c]
    /\ Advance(c, "spawn", "emplace")
    /\ UNCHANGED <<running, contexts, sent, queue, worker>>

\* contexts_.emplace under ctx_mutex_; connect returns
emplace_back(c) ==
    /\ call[c] = "emplace"
    /\ contexts' = contexts \cup {c}
    /\ Goto(c, "open")
    /\ UNCHANGED <<running, todo, sent, queue, poolVars>>

-----------------------------------------------------------------------------
(* receive and disconnect *)

\* (mutant of Destinations: the file queue is forgotten)
Destinations_LogOnly == <<"log">>
Destinations == <<"log", "file">>

\* a block is complete: it goes to the log queue, then to the file queue
BeginPush(c) ==
    /\ sent[c] < MaxBlocks
    /\ sent' = [sent EXCEPT ![c] = @ + 1]
    /\ todo' = [todo EXCEPT ![c] = Destinations]
    /\ Goto(c, "push")

receive(c) ==
    /\ call[c] = "open"
    /\ BeginPush(c)
    /\ UNCHANGED <<running, contexts, queue, poolVars>>

\* (mutant of Enqueue: the queue is bounded, push waits)
Enqueue_Bounded(q, b) ==
    /\ queue[q] = <<>>
    /\ queue' = [queue EXCEPT ![q] = Append(@, b)]
\* AsyncQueue::push
Enqueue(q, b) == queue' = [queue EXCEPT ![q] = Append(@, b)]

\* log_queue().push(block), file_queue().push(block)
push_block(c) ==
    /\ call[c] = "push"
    /\ Enqueue(Head(todo[c]), [ctx |-> c, n |-> sent[c]])
    /\ Advance(c, "push", IF c \in contexts THEN "open" ELSE "check")
    /\ UNCHANGED <<running, contexts, sent, poolVars>>

\* take_and_erase_context succeeds; the commands left over are a last block
disconnect(c) ==
    /\ call[c] = "open"
    /\ contexts' = contexts \ {c}
    /\ \/ BeginPush(c)
       \/ Goto(c, "check") /\ UNCHANGED <<todo, sent>>
    /\ UNCHANGED <<running, queue, poolVars>>

\* (mutant of has_contexts: the map always looks empty)
has_contexts_No == FALSE
has_contexts == contexts # {}

check_contexts(c) ==
    /\ call[c] = "check"
    /\ Goto(c, IF has_contexts THEN "closed" ELSE "stop")
    /\ UNCHANGED <<running, contexts, todo, sent, queue, poolVars>>

\* (mutant of Sentinels: one for the two file workers)
Sentinels_TooFew == <<"log", "file">>
Sentinels == <<"log", "file", "file">>

\* request_shutdown: running_.exchange(false)
request_shutdown(c) ==
    /\ call[c] = "stop"
    /\ running' = FALSE
    /\ \/ /\ running
          /\ Goto(c, "sentinel")
          /\ todo' = [todo EXCEPT ![c] = Sentinels]
       \/ /\ ~running
          /\ Goto(c, "closed")
          /\ UNCHANGED todo
    /\ UNCHANGED <<contexts, sent, queue, poolVars>>

push_sentinel(c) ==
    /\ call[c] = "sentinel"
    /\ Enqueue(Head(todo[c]), Sentinel)
    /\ Advance(c, "sentinel", "closed")
    /\ UNCHANGED <<running, contexts, sent, poolVars>>

ClientStep(c) ==
    \/ connect(c) \/ spawn(c) \/ join(c) \/ emplace_back(c)
    \/ receive(c) \/ push_block(c)
    \/ disconnect(c) \/ check_contexts(c) \/ request_shutdown(c) \/ push_sentinel(c)

-----------------------------------------------------------------------------
(* log_worker and file_worker *)

\* while (g.running())
read_running(w) ==
    /\ worker[w] = "loop"
    /\ worker' = [worker EXCEPT ![w] = IF running THEN "pop" ELSE "done"]
    /\ UNCHANGED <<running, contexts, clientVars, queue, handle>>

\* (mutants of Dequeue and EndsLoop: the front stays inside; a worker looks at
\* running_ again before it writes)
Dequeue_Copy(q) == UNCHANGED queue
EndsLoop_Recheck(b) == b = Sentinel \/ ~running

\* AsyncQueue::pop
Dequeue(q) == queue' = [queue EXCEPT ![q] = Tail(@)]
EndsLoop(b) == b = Sentinel

\* pop returns; a marker ends the loop (hw-10's file workers write an empty
\* line for it first, which is left out)
pop(w) ==
    LET q == QueueOf(w[1]) IN
    /\ worker[w] = "pop"
    /\ queue[q] # <<>>
    /\ Dequeue(q)
    /\ worker' = [worker EXCEPT ![w] = IF EndsLoop(Head(queue[q])) THEN "done" ELSE "write"]
    /\ UNCHANGED <<running, contexts, clientVars, handle>>

\* logger->info(...), after the queue's mutex has been released
write(w) ==
    /\ worker[w] = "write"
    /\ worker' = [worker EXCEPT ![w] = "loop"]
    /\ UNCHANGED <<running, contexts, clientVars, queue, handle>>

PopFrom(q) == \E w \in Workers : QueueOf(w[1]) = q /\ pop(w)

WorkerStep == \E w \in Workers : read_running(w) \/ pop(w) \/ write(w)

Next == (\E c \in Clients : ClientStep(c)) \/ WorkerStep

Spec == Init /\ [][Next]_libVars

\* A call that has begun goes on (a join once the joined thread has ended).
Proceed(c) ==
    \/ spawn(c) \/ join(c) \/ emplace_back(c)
    \/ push_block(c) \/ check_contexts(c) \/ request_shutdown(c) \/ push_sentinel(c)

(***************************************************************************)
(* Threads that can run do.  For pop this is FifoQueue's fairness: some    *)
(* worker blocked on a queue that is not empty gets the front, no matter   *)
(* which.  Clients need not call anything.                                 *)
(***************************************************************************)
Fairness ==
    /\ \A c \in Clients : WF_libVars(Proceed(c))
    /\ \A w \in Workers : WF_libVars(read_running(w) \/ write(w))
    /\ \A q \in Queues : WF_libVars(PopFrom(q))

FairSpec == Spec /\ Fairness

-----------------------------------------------------------------------------
(***************************************************************************)
(* Types; and the loops of the calls have the elements left that their     *)
(* place in the code says, none outside a loop.                            *)
(***************************************************************************)
TodoOK(c) ==
    /\ call[c] \in {"spawn", "join"} =>
          todo[c] \in {<<"log", "file1", "file2">>, <<"file1", "file2">>, <<"file2">>}
    /\ call[c] = "push" => todo[c] \in {<<"log", "file">>, <<"file">>}
    /\ call[c] = "sentinel" =>
          todo[c] \in {<<"log", "file", "file">>, <<"file", "file">>, <<"file">>}
    /\ call[c] \notin {"spawn", "join", "push", "sentinel"} => todo[c] = <<>>

TypeOK ==
    /\ running \in BOOLEAN
    /\ contexts \subseteq Clients
    /\ call \in [Clients -> {"new", "spawn", "join", "emplace", "open", "push",
                             "check", "stop", "sentinel", "closed"}]
    /\ todo \in [Clients -> Seq(Slots \cup Queues)]
    /\ \A c \in Clients : TodoOK(c)
    /\ sent \in [Clients -> 0..MaxBlocks]
    /\ \A c \in Clients : call[c] = "push" => sent[c] > 0
    /\ queue \in [Queues -> Seq(Blocks \cup {Sentinel})]
    /\ handle \in [Slots -> Starters]
    /\ worker \in [Workers -> {"none", "loop", "pop", "write", "done"}]

(***************************************************************************)
(* jthread ownership.  A live worker belongs to the jthread member of its  *)
(* slot, or was just spawned by a connect that has not finished replacing  *)
(* that member: two generations of a slot overlap only inside connect.     *)
(***************************************************************************)
LiveWorkersAreOwned ==
    \A s \in Slots, st \in Starters :
        Alive(<<s, st>>) => \/ handle[s] = st
                            \/ /\ st \in Clients
                               /\ call[st] = "join"
                               /\ Head(todo[st]) = s

(***************************************************************************)
(* Nobody is stranded in pop.  For each queue, the workers that live or    *)
(* that a connect is about to spawn are covered by the running_ flag (good *)
(* for one set of workers, which the next request_shutdown will serve), by *)
(* the sentinels in the queue and by the sentinels a request_shutdown has  *)
(* still to push -- over any number of restarts, whoever eats a sentinel   *)
(* and whoever leaves by reading running_ = false.                         *)
(***************************************************************************)
Elements(t) == {t[i] : i \in DOMAIN t}

\* the slots a connect has still to fill; the one it joins at is filled
ToSpawn(c) ==
    CASE call[c] = "spawn" -> Elements(todo[c])
      [] call[c] = "join" -> Elements(Tail(todo[c]))
      [] OTHER -> {}

Consumers(q) ==
    {w \in Workers : /\ QueueOf(w[1]) = q
                     /\ Alive(w) \/ (w[2] \in Clients /\ w[1] \in ToSpawn(w[2]))}

SentinelsIn(q) == {i \in DOMAIN queue[q] : queue[q][i] = Sentinel}

\* <<c, k>>: the k-th last sentinel that request_shutdown of c pushes
SentinelsToCome(q) ==
    {p \in Clients \X (1..3) :
        LET left == todo[p[1]] IN
        /\ call[p[1]] = "sentinel"
        /\ p[2] <= Len(left)
        /\ left[Len(left) + 1 - p[2]] = q}

Group(q) == IF q = "log" THEN 1 ELSE 2

SentinelCover ==
    \A q \in Queues :
        Cardinality(Consumers(q)) <=
            (IF running THEN Group(q) ELSE 0)
            + Cardinality(SentinelsIn(q)) + Cardinality(SentinelsToCome(q))

(***************************************************************************)
(* A stopped pool winds down: workers that sleep in pop, and workers in    *)
(* the middle of a backlog, all end, unless a connect starts the pool      *)
(* again.                                                                  *)
(***************************************************************************)
StoppedPoolEnds ==
    ~running ~> (running \/ \A w \in Workers : ~Alive(w))
=============================================================================
