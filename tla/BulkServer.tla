----------------------------- MODULE BulkServer -----------------------------
(***************************************************************************)
(* bulk_server of hw-10-bulk: an acceptor and its sessions on top of       *)
(* AsyncLib.  Every handler (the accept handler, a session's read handler) *)
(* occupies one of the threads that run io_context from its first step to  *)
(* its last.  The acceptor is armed again only when its handler is         *)
(* through, a session reads again only when its read handler is through.   *)
(*                                                                         *)
(* A client of AsyncLib is here one TCP connection and its Session object. *)
(***************************************************************************)
EXTENDS AsyncLib

CONSTANT ThreadCounts   \* what std::thread::hardware_concurrency() may return

ASSUME ThreadCountsAssumption == ThreadCounts \subseteq Nat

VARIABLES
    io_threads, \* the threads that run io_context
    session     \* client -> "none" | "accept" (accept handler runs)
                \*   | "idle" (read pending) | "read" (read handler runs)
                \*   | "gone" (Session destroyed)

serverVars == <<libVars, io_threads, session>>

\* main starts the pool before the first accept
ServerInit ==
    /\ InitWith(TRUE)
    /\ io_threads \in ThreadCounts
    /\ session = [c \in Clients |-> "none"]

Enter(c, from, to) ==
    /\ session[c] = from
    /\ session' = [session EXCEPT ![c] = to]
    /\ UNCHANGED io_threads

Stay == UNCHANGED <<io_threads, session>>

ThreadFree ==
    Cardinality({c \in Clients : session[c] \in {"accept", "read"}}) < io_threads

-----------------------------------------------------------------------------
\* the accept handler constructs the Session, which calls connect
accept(c) ==
    /\ ThreadFree
    /\ \A d \in Clients : session[d] # "accept"
    /\ Enter(c, "none", "accept")
    /\ connect(c)

\* connect has returned: start() begins to read, do_accept() arms the acceptor
start(c) ==
    /\ call[c] = "open"
    /\ Enter(c, "accept", "idle")
    /\ UNCHANGED libVars

\* the read handler: data for receive, or an error for disconnect
on_read(c) ==
    /\ ThreadFree
    /\ Enter(c, "idle", "read")
    /\ disconnect(c) \/ UNCHANGED libVars

\* the data of one read completes some blocks, or none
complete_block(c) ==
    /\ session[c] = "read"
    /\ receive(c)
    /\ Stay

\* (mutant of read_again: the next read is armed before receive has returned)
read_again_Early(c) ==
    /\ Enter(c, "read", "idle")
    /\ UNCHANGED libVars

\* receive has returned: do_read()
read_again(c) ==
    /\ call[c] = "open"
    /\ Enter(c, "read", "idle")
    /\ UNCHANGED libVars

\* disconnect has returned and the handler held the last reference: ~Session
\* calls disconnect again, which finds no context and returns
destroy(c) ==
    /\ call[c] = "closed"
    /\ c \notin contexts
    /\ Enter(c, "read", "gone")
    /\ UNCHANGED libVars

Continue(c) == Proceed(c) /\ Stay

ServerNext ==
    \/ \E c \in Clients :
          \/ accept(c) \/ start(c) \/ on_read(c) \/ complete_block(c)
          \/ read_again(c) \/ destroy(c) \/ Continue(c)
    \/ WorkerStep /\ Stay

ServerSpec == ServerInit /\ [][ServerNext]_serverVars

(***************************************************************************)
(* A handler that can take a step does; peers need not connect, send or    *)
(* hang up.  The same holds for the workers, see AsyncLib.                 *)
(***************************************************************************)
HandlersFair ==
    \A c \in Clients : WF_serverVars(start(c) \/ read_again(c) \/ destroy(c) \/ Continue(c))

WorkersFair ==
    /\ \A w \in Workers : WF_serverVars((read_running(w) \/ write(w)) /\ Stay)
    /\ \A q \in Queues : WF_serverVars(PopFrom(q) /\ Stay)

HandlersFairSpec == ServerSpec /\ HandlersFair
ServerFairSpec == HandlersFairSpec /\ WorkersFair

-----------------------------------------------------------------------------
(***************************************************************************)
(* Types; and a session is inside a library call only while a handler of   *)
(* its own runs, so that its calls never overlap.                          *)
(***************************************************************************)
ServerTypeOK ==
    /\ TypeOK
    /\ io_threads \in ThreadCounts
    /\ session \in [Clients -> {"none", "accept", "idle", "read", "gone"}]
    /\ \A c \in Clients :
          /\ session[c] = "none" => call[c] = "new"
          /\ session[c] = "idle" => call[c] = "open"
          /\ session[c] = "gone" => call[c] = "closed" /\ c \notin contexts

(***************************************************************************)
(* An open session has a running pool.  It holds when one thread runs all  *)
(* handlers: then no accept comes between a disconnect's has_contexts and  *)
(* its request_shutdown.  (With two threads it does not.)                  *)
(***************************************************************************)
SessionHasPool ==
    io_threads = 1 =>
        \A c \in Clients : session[c] = "idle" => running /\ c \in contexts

(***************************************************************************)
(* A read handler always ends, even if no worker ever takes a step and the *)
(* accept handler waits for one on another thread: neither receive nor     *)
(* disconnect, nor the second disconnect of ~Session, waits for the pool.  *)
(***************************************************************************)
ReadHandlersEnd ==
    \A c \in Clients : session[c] = "read" ~> session[c] \in {"idle", "gone"}

(***************************************************************************)
(* "Starting workers: log + file1 + file2": after the announcement the     *)
(* three jthread members own the three new workers.                        *)
(***************************************************************************)
AnnouncedPoolStarts ==
    \A c \in Clients : call[c] = "spawn" ~> \A s \in Slots : handle[s] = c
=============================================================================
