---------------------------- MODULE CallerProofs ----------------------------
(***************************************************************************)
(* Theorems about the programs that call the library, bulk_server and the  *)
(* command-line programs, for any number of clients and blocks: they use   *)
(* it as AsyncLib lets any client use it, so that the theorems on AsyncLib *)
(* hold of them, and what each of them adds.  The last part follows the    *)
(* blocks of the command-line programs from receive to the log and the two *)
(* files: none is lost before the process ends, written twice or out of    *)
(* order.                                                                  *)
(***************************************************************************)
EXTENDS AsyncLibProofs, BulkServer, AsyncCli

-----------------------------------------------------------------------------
(* bulk_server implements the library *)

LEMMA ProceedIsStep ==
    ASSUME NEW c \in Clients, Proceed(c)
    PROVE  ClientStep(c)
  BY DEF Proceed, ClientStep

LEMMA ServerStepIsStep == ServerNext => Next \/ UNCHANGED libVars
<1> SUFFICES ASSUME ServerNext PROVE Next \/ UNCHANGED libVars
  OBVIOUS
<1>1. ASSUME NEW c \in Clients,
             accept(c) \/ on_read(c) \/ complete_block(c) \/ Continue(c)
      PROVE  ClientStep(c) \/ UNCHANGED libVars
  BY <1>1, ProceedIsStep
     DEF accept, on_read, complete_block, Continue, ClientStep
<1>2. ASSUME NEW c \in Clients, start(c) \/ read_again(c) \/ destroy(c)
      PROVE  UNCHANGED libVars
  BY <1>2 DEF start, read_again, destroy
<1> QED
  BY <1>1, <1>2 DEF ServerNext, Next

LEMMA ServerInitIsInit == ServerInit => Init
  BY DEF ServerInit, Init

(***************************************************************************)
(* Every behaviour of bulk_server is one of the library with some clients: *)
(* its handlers call connect, receive and disconnect as AsyncLib has it.   *)
(***************************************************************************)
THEOREM ServerImplementsLib == ServerSpec => Spec
<1>1. [ServerNext]_serverVars => [Next]_libVars
  BY ServerStepIsStep DEF serverVars
<1> QED
  BY <1>1, ServerInitIsInit, PTL DEF ServerSpec, Spec

-----------------------------------------------------------------------------
(* the command-line programs implement the library *)

LEMMA CliStepIsStep == CliNext => Next \/ UNCHANGED libVars
<1> SUFFICES ASSUME CliNext PROVE Next \/ UNCHANGED libVars
  OBVIOUS
<1>1. ASSUME NEW c \in Clients, cli_step(c)
      PROVE  ClientStep(c)
  BY <1>1, ProceedIsStep DEF cli_step, ClientStep
<1>2. worker_step => WorkerStep
  BY DEF worker_step
<1>3. destroy_thread => UNCHANGED libVars
  BY DEF destroy_thread
<1>4. Ended => UNCHANGED libVars
  BY DEF Ended, cliVars
<1> QED
  BY <1>1, <1>2, <1>3, <1>4 DEF CliNext, Next

LEMMA CliInitIsInit == CliInit => Init
  BY DEF CliInit, Init

(***************************************************************************)
(* Every behaviour of the command-line programs is one of the library.     *)
(***************************************************************************)
THEOREM CliImplementsLib == CliSpec => Spec
<1>1. [CliNext]_cliVars => [Next]_libVars
  BY CliStepIsStep DEF cliVars
<1> QED
  BY <1>1, CliInitIsInit, PTL DEF CliSpec, Spec

(***************************************************************************)
(* Hence both programs inherit what is proved of the library: workers are  *)
(* owned, and none is stranded in pop.                                     *)
(***************************************************************************)
COROLLARY ProgramsInherit ==
    /\ ServerSpec => []LiveWorkersAreOwned /\ []SentinelCover
    /\ CliSpec => []LiveWorkersAreOwned /\ []SentinelCover
  BY ServerImplementsLib, CliImplementsLib, OwnershipCorrect, CoverCorrect, PTL

-----------------------------------------------------------------------------
(***************************************************************************)
(* What any use of the library keeps: only an open client is in the map,   *)
(* and only its own calls put it there or take it out.                     *)
(***************************************************************************)
KnownAs(c) ==
    /\ call[c] = "open" => c \in contexts
    /\ call[c] \in {"new", "spawn", "join", "emplace", "check", "stop", "sentinel",
                    "closed"} => c \notin contexts

Known == \A c \in Clients : KnownAs(c)

LEMMA InitKnown == Init => Known
  BY DEF Init, InitWith, Known, KnownAs

\* What a step of c leaves alone in the other clients.
LEMMA StepIsOwn ==
    ASSUME TypeOK, NEW c \in Clients, ClientStep(c), NEW d \in Clients, d # c
    PROVE  /\ call'[d] = call[d] /\ todo'[d] = todo[d]
           /\ d \in contexts' <=> d \in contexts
<1> USE DEF TypeOK, Goto, Advance, BeginPush
<1>1. CASE connect(c) \/ spawn(c) \/ join(c)
  BY <1>1 DEF connect, spawn, join
<1>2. CASE emplace_back(c)
  BY <1>2 DEF emplace_back
<1>3. CASE receive(c) \/ push_block(c) \/ push_sentinel(c)
  BY <1>3 DEF receive, push_block, push_sentinel
<1>4. CASE disconnect(c)
  BY <1>4 DEF disconnect
<1>5. CASE check_contexts(c) \/ request_shutdown(c)
  BY <1>5 DEF check_contexts, request_shutdown
<1> QED
  BY <1>1, <1>2, <1>3, <1>4, <1>5 DEF ClientStep

LEMMA StepKnown ==
    ASSUME TypeOK, NEW c \in Clients, ClientStep(c), KnownAs(c)
    PROVE  KnownAs(c)'
<1> USE DEF TypeOK, Goto, Advance, BeginPush, KnownAs
<1>1. CASE connect(c) \/ spawn(c) \/ join(c)
  BY <1>1 DEF connect, spawn, join
<1>2. CASE emplace_back(c)
  BY <1>2 DEF emplace_back
<1>3. CASE receive(c) \/ push_block(c) \/ push_sentinel(c)
  BY <1>3 DEF receive, push_block, push_sentinel
<1>4. CASE disconnect(c)
  BY <1>4 DEF disconnect
<1>5. CASE check_contexts(c) \/ request_shutdown(c)
  BY <1>5 DEF check_contexts, request_shutdown
<1> QED
  BY <1>1, <1>2, <1>3, <1>4, <1>5 DEF ClientStep

\* A worker's step is no step of a client.
LEMMA WorkerStepIsNoCall ==
    ASSUME NEW w \in Workers, read_running(w) \/ pop(w) \/ write(w)
    PROVE  UNCHANGED <<running, contexts, clientVars, handle>>
  BY DEF read_running, pop, write

LEMMA NextKnown == TypeOK /\ Known /\ [Next]_libVars => Known'
<1> SUFFICES ASSUME TypeOK, Known, [Next]_libVars, NEW d \in Clients
             PROVE  KnownAs(d)'
  BY DEF Known
<1>1. KnownAs(d)
  BY DEF Known
<1>2. ASSUME NEW c \in Clients, ClientStep(c) PROVE KnownAs(d)'
  <2>1. CASE c = d
    BY <1>1, <1>2, <2>1, StepKnown
  <2>2. CASE c # d
    BY <1>1, <1>2, <2>2, StepIsOwn DEF KnownAs
  <2> QED
    BY <2>1, <2>2
<1>3. ASSUME UNCHANGED <<contexts, call>> PROVE KnownAs(d)'
  BY <1>1, <1>3 DEF KnownAs
<1> QED
  BY <1>2, <1>3, WorkerStepIsNoCall DEF Next, WorkerStep, libVars, clientVars

-----------------------------------------------------------------------------
(***************************************************************************)
(* bulk_server: a session is in a call only while a handler of its own     *)
(* runs.                                                                   *)
(***************************************************************************)
LEMMA ServerTypes ==
    TypeOK' /\ Known /\ ServerTypeOK /\ [ServerNext]_serverVars => ServerTypeOK'
<1> DEFINE Session(c) ==
              /\ session[c] \in {"none", "accept", "idle", "read", "gone"}
              /\ session[c] = "none" => call[c] = "new"
              /\ session[c] = "idle" => call[c] = "open"
              /\ session[c] = "gone" => call[c] = "closed" /\ c \notin contexts
<1> SUFFICES ASSUME TypeOK', Known, ServerTypeOK, [ServerNext]_serverVars
             PROVE  ServerTypeOK'
  OBVIOUS
<1>0. TypeOK
  BY DEF ServerTypeOK
<1>a. \A d \in Clients : Session(d)
  BY DEF ServerTypeOK
<1>1. /\ io_threads' = io_threads
      /\ session' = [d \in Clients |-> session'[d]]
  BY DEF ServerTypeOK, ServerNext, accept, start, on_read, complete_block, read_again,
         destroy, Continue, Enter, Stay, serverVars
<1>2. ASSUME NEW c \in Clients,
             \/ accept(c) \/ start(c) \/ on_read(c) \/ complete_block(c)
             \/ read_again(c) \/ destroy(c) \/ Continue(c),
             NEW d \in Clients
      PROVE  Session(d)'
  <2>1. CASE d = c
    <3> USE <1>0, <1>a, <2>1 DEF ServerTypeOK, TypeOK, Enter, Stay, Goto, Known, KnownAs
    <3>1. CASE accept(c)
      BY <3>1 DEF accept
    <3>2. CASE start(c) \/ read_again(c)
      BY <3>2 DEF start, read_again, libVars, clientVars
    <3>3. CASE on_read(c)
      BY <3>3 DEF on_read
    <3>4. CASE complete_block(c)
      BY <3>4 DEF complete_block
    <3>5. CASE destroy(c)
      BY <3>5 DEF destroy, libVars, clientVars
    <3>6. CASE Continue(c)
      BY <3>6 DEF Continue, Proceed, spawn, join, emplace_back, push_block,
                  check_contexts, request_shutdown, push_sentinel
    <3> QED
      BY <1>2, <3>1, <3>2, <3>3, <3>4, <3>5, <3>6
  <2>2. CASE d # c
    <3>1. ClientStep(c) \/ UNCHANGED libVars
      BY <1>2, ProceedIsStep DEF accept, start, on_read, complete_block, read_again,
             destroy, Continue, ClientStep
    <3>2. call'[d] = call[d] /\ (d \in contexts' <=> d \in contexts)
      BY <1>0, <2>2, <3>1, StepIsOwn DEF libVars, clientVars
    <3>3. session'[d] = session[d]
      BY <1>2, <2>2 DEF accept, start, on_read, complete_block, read_again, destroy,
             Continue, Enter, Stay, ServerTypeOK
    <3> QED
      BY <1>a, <3>2, <3>3
  <2> QED
    BY <2>1, <2>2
<1>3. ASSUME (WorkerStep /\ Stay) \/ UNCHANGED serverVars, NEW d \in Clients
      PROVE  Session(d)'
  <2>1. UNCHANGED <<contexts, call, session>>
    BY <1>3, WorkerStepIsNoCall DEF WorkerStep, Stay, serverVars, libVars, clientVars
  <2> QED
    BY <1>a, <2>1
<1>4. \A d \in Clients : Session(d)'
  BY <1>2, <1>3 DEF ServerNext
<1> QED
  BY <1>1, <1>4 DEF ServerTypeOK

LEMMA ServerInitTypes == ServerInit => TypeOK /\ Known /\ ServerTypeOK
<1> SUFFICES ASSUME ServerInit PROVE TypeOK /\ Known /\ ServerTypeOK
  OBVIOUS
<1>1. TypeOK /\ Known
  BY ServerInitIsInit, InitType, InitKnown
<1> QED
  BY <1>1 DEF ServerTypeOK, ServerInit, InitWith

LEMMA ServerStep ==
    TypeOK /\ Known /\ ServerTypeOK /\ [ServerNext]_serverVars
       => (TypeOK /\ Known /\ ServerTypeOK)'
<1>1. [ServerNext]_serverVars => [Next]_libVars
  BY ServerStepIsStep DEF serverVars
<1> QED
  BY <1>1, NextType, NextKnown, ServerTypes

(***************************************************************************)
(* However many sessions and threads there are, the calls of a session     *)
(* never overlap: it is inside the library only while its handler runs.    *)
(***************************************************************************)
THEOREM ServerTypeCorrect == ServerSpec => []ServerTypeOK
  BY ServerInitTypes, ServerStep, PTL DEF ServerSpec

-----------------------------------------------------------------------------
(***************************************************************************)
(* bulk_server with one thread: one handler at a time, from its first step *)
(* to its last, so that none comes between has_contexts and                *)
(* request_shutdown.                                                       *)
(***************************************************************************)
Busy == {c \in Clients : session[c] \in {"accept", "read"}}

OneHandler == \A c, d \in Busy : c = d
NobodyAtStop == \A c \in Clients : call[c] = "stop" => contexts = {}
PoolIsUp == contexts # {} \/ (\E c \in Clients : Starting(c)) => running = TRUE

ServerInv == TypeOK /\ Known /\ ServerTypeOK
OneThread == io_threads = 1 => OneHandler /\ NobodyAtStop /\ PoolIsUp

LEMMA NobodyBusy == ThreadFree /\ io_threads = 1 => Busy = {}
<1> SUFFICES ASSUME ThreadFree, io_threads = 1 PROVE Busy = {}
  OBVIOUS
<1>1. IsFiniteSet(Busy)
  BY LibAssumption, FS_Subset DEF Busy
<1>2. Cardinality(Busy) \in Nat /\ Cardinality(Busy) < 1
  BY <1>1, FS_CardinalityType DEF ThreadFree, Busy
<1>3. Cardinality(Busy) = 0
  BY <1>2
<1> QED
  BY <1>1, <1>3, FS_EmptySet

\* Whoever is inside a call is inside a handler.
LEMMA InCallIsBusy ==
    ASSUME ServerTypeOK, NEW c \in Clients, call[c] \notin {"new", "open", "closed"}
    PROVE  c \in Busy
  BY DEF ServerTypeOK, Busy

LEMMA ServerOneThread ==
    ServerInv /\ OneThread /\ [ServerNext]_serverVars => OneThread'
<1> SUFFICES ASSUME ServerInv, OneThread, [ServerNext]_serverVars, io_threads' = 1
             PROVE  OneHandler' /\ NobodyAtStop' /\ PoolIsUp'
  BY DEF OneThread
<1>0. TypeOK /\ Known /\ ServerTypeOK
  BY DEF ServerInv
<1>1. io_threads = 1
  BY DEF ServerNext, accept, start, on_read, complete_block, read_again,
         destroy, Continue, Enter, Stay, serverVars
<1>2. OneHandler /\ NobodyAtStop /\ PoolIsUp
  BY <1>1 DEF OneThread
<1>3. ASSUME UNCHANGED <<running, contexts, call>>, Busy' \subseteq Busy
      PROVE  OneHandler' /\ NobodyAtStop' /\ PoolIsUp'
  BY <1>2, <1>3 DEF OneHandler, NobodyAtStop, PoolIsUp, Starting
<1>4. ASSUME NEW c \in Clients, accept(c)
      PROVE  OneHandler' /\ NobodyAtStop' /\ PoolIsUp'
  <2>1. Busy = {}
    BY <1>1, <1>4, NobodyBusy DEF accept
  <2>2. Busy' \subseteq {c}
    BY <1>0, <1>4, <2>1 DEF accept, Enter, Busy, ServerTypeOK
  <2>3. /\ contexts' = contexts /\ running' = TRUE
        /\ \A d \in Clients : call[d] # "stop"
        /\ call'[c] # "stop"
    BY <1>0, <1>4, <2>1, InCallIsBusy DEF accept, connect, Goto, TypeOK
  <2>4. \A d \in Clients : call'[d] # "stop"
    BY <1>0, <1>4, <2>3, StepIsOwn DEF accept, ClientStep
  <2> QED
    BY <2>2, <2>3, <2>4 DEF OneHandler, NobodyAtStop, PoolIsUp
<1>5. ASSUME NEW c \in Clients, on_read(c)
      PROVE  OneHandler' /\ NobodyAtStop' /\ PoolIsUp'
  <2>1. Busy = {}
    BY <1>1, <1>5, NobodyBusy DEF on_read
  <2>2. Busy' \subseteq {c}
    BY <1>0, <1>5, <2>1 DEF on_read, Enter, Busy, ServerTypeOK
  <2>3. \A d \in Clients : call[d] # "stop" /\ ~Starting(d)
    BY <1>0, <2>1, InCallIsBusy DEF Starting
  <2>4. /\ contexts' \subseteq contexts /\ running' = running
        /\ \A d \in Clients : call'[d] # "stop" /\ call'[d] \notin {"spawn", "join", "emplace"}
    BY <1>0, <1>5, <2>3 DEF on_read, disconnect, BeginPush, Goto, Starting, TypeOK,
                            libVars, clientVars
  <2> QED
    BY <1>2, <2>2, <2>4 DEF OneHandler, NobodyAtStop, PoolIsUp, Starting
<1>6. ASSUME NEW c \in Clients, start(c) \/ read_again(c) \/ destroy(c)
      PROVE  OneHandler' /\ NobodyAtStop' /\ PoolIsUp'
  <2>1. UNCHANGED <<running, contexts, call>> /\ Busy' \subseteq Busy
    BY <1>0, <1>6 DEF start, read_again, destroy, Enter, Busy, ServerTypeOK, libVars, clientVars
  <2> QED
    BY <1>3, <2>1
<1>7. ASSUME NEW c \in Clients, complete_block(c)
      PROVE  OneHandler' /\ NobodyAtStop' /\ PoolIsUp'
  <2>1. UNCHANGED <<running, contexts>> /\ Busy' = Busy
    BY <1>7 DEF complete_block, receive, Stay, Busy
  <2>2. \A d \in Clients : \/ call'[d] = call[d]
                           \/ call'[d] = "push"
    BY <1>0, <1>7 DEF complete_block, receive, BeginPush, Goto, TypeOK
  <2> QED
    BY <1>2, <2>1, <2>2 DEF OneHandler, NobodyAtStop, PoolIsUp, Starting
<1>8. ASSUME NEW c \in Clients, Continue(c)
      PROVE  OneHandler' /\ NobodyAtStop' /\ PoolIsUp'
  <2>1. Busy' = Busy /\ ClientStep(c)
    BY <1>8, ProceedIsStep DEF Continue, Stay, Busy
  <2>2. c \in Busy
    BY <1>0, <1>8, InCallIsBusy
       DEF Continue, Proceed, spawn, join, emplace_back, push_block, check_contexts,
           request_shutdown, push_sentinel
  <2>3. \A d \in Clients : d # c =>
           /\ call[d] \in {"new", "open", "closed"}
           /\ call'[d] = call[d]
    BY <1>0, <1>2, <2>1, <2>2, InCallIsBusy, StepIsOwn DEF OneHandler
  <2>4. /\ contexts # {} \/ Starting(c) => running = TRUE
        /\ call[c] = "stop" => contexts = {}
        /\ running \in BOOLEAN
    BY <1>0, <1>2 DEF PoolIsUp, NobodyAtStop, TypeOK
  <2> DEFINE Goal == /\ contexts' # {} \/ Starting(c)' => running' = TRUE
                     /\ call'[c] = "stop" => contexts' = {}
  <2>5. ASSUME spawn(c) \/ join(c) PROVE Goal
    BY <1>0, <2>4, <2>5 DEF spawn, join, Starting, TypeOK, Goto, Advance
  <2>6. ASSUME emplace_back(c) PROVE Goal
    BY <1>0, <2>4, <2>6 DEF emplace_back, Starting, TypeOK, Goto
  <2>7. ASSUME push_block(c) \/ push_sentinel(c) PROVE Goal
    BY <1>0, <2>4, <2>7 DEF push_block, push_sentinel, Starting, TypeOK, Goto, Advance
  <2>8. ASSUME check_contexts(c) PROVE Goal
    BY <1>0, <2>4, <2>8 DEF check_contexts, has_contexts, Starting, TypeOK, Goto
  <2>9. ASSUME request_shutdown(c) PROVE Goal
    BY <1>0, <2>4, <2>9 DEF request_shutdown, Starting, TypeOK, Goto
  <2>10. Goal
    BY <1>8, <2>5, <2>6, <2>7, <2>8, <2>9 DEF Continue, Proceed
  <2>11. \A d \in Clients : (Starting(d)' => d = c) /\ (call'[d] = "stop" => d = c)
    BY <2>3 DEF Starting
  <2>12. NobodyAtStop' /\ PoolIsUp'
    BY <2>10, <2>11, Zenon DEF NobodyAtStop, PoolIsUp
  <2> QED
    BY <1>2, <2>1, <2>12 DEF OneHandler
<1>9. CASE WorkerStep /\ Stay
  BY <1>3, <1>9, WorkerStepIsNoCall DEF WorkerStep, Stay, Busy, clientVars
<1>10. CASE UNCHANGED serverVars
  BY <1>3, <1>10 DEF serverVars, libVars, clientVars, Busy
<1> QED
  BY <1>4, <1>5, <1>6, <1>7, <1>8, <1>9, <1>10 DEF ServerNext

(***************************************************************************)
(* When one thread runs all handlers, an open session has a running pool:  *)
(* has_contexts and request_shutdown are as good as one step.              *)
(***************************************************************************)
THEOREM SessionCorrect == ServerSpec => []SessionHasPool
<1>1. ServerInit => ServerInv /\ OneThread
  <2> SUFFICES ASSUME ServerInit PROVE ServerInv /\ OneThread
    OBVIOUS
  <2>1. ServerInv
    BY ServerInitTypes DEF ServerInv
  <2>2. Busy = {} /\ contexts = {} /\ \A c \in Clients : call[c] = "new"
    BY DEF ServerInit, InitWith, Busy
  <2> QED
    BY <2>1, <2>2 DEF OneThread, OneHandler, NobodyAtStop, PoolIsUp, Starting
<1>2. ServerInv /\ OneThread /\ [ServerNext]_serverVars => (ServerInv /\ OneThread)'
  BY ServerStep, ServerOneThread DEF ServerInv
<1>3. ServerInv /\ OneThread => SessionHasPool
  BY DEF ServerInv, OneThread, PoolIsUp, Known, KnownAs, ServerTypeOK, SessionHasPool
<1> QED
  BY <1>1, <1>2, <1>3, PTL DEF ServerSpec

-----------------------------------------------------------------------------
(***************************************************************************)
(* The command-line programs.  main connects one client after another, so  *)
(* that only the first finds no pool, and client threads start when all    *)
(* are connected: until the last of them has left, nobody stops the pool.  *)
(***************************************************************************)
Serving == ~Connected \/ contexts # {}
AllNew == \A c \in Clients : call[c] = "new"
Filling(c) == call[c] \in {"spawn", "join"}

\* the slots whose handle a connect has still to replace
Unfilled(c) == IF Filling(c) THEN Elements(todo[c]) ELSE {}

Spawns(c) == Filling(c) \/ \E s \in Slots : worker[<<s, c>>] # "none"

OneSpawns == \A c, d \in Clients : Spawns(c) /\ Spawns(d) => c = d

EarlyCalls ==
    ~Connected => \A c \in Clients : call[c] \in {"new", "spawn", "join", "emplace", "open"}

PoolRuns == Serving => running = ~AllNew

NobodyStops ==
    Serving => /\ \A c \in Clients : call[c] \notin {"stop", "sentinel"}
               /\ \A q \in Queues : \A i \in DOMAIN queue[q] : queue[q][i] # Sentinel
               /\ \A s \in Slots, c \in Clients : worker[<<s, c>>] # "done"

Filled(s) == handle[s] \in Clients /\ worker[<<s, handle[s]>>] # "none"

SlotsFill ==
    /\ ~AllNew => \A s \in Slots : Filled(s) \/ \E c \in Clients : s \in Unfilled(c)
    /\ \A c \in Clients : call[c] = "join" => worker[<<Head(todo[c]), c>>] # "none"

LibInv == TypeOK /\ NotYetSpawned
CliInv == OneSpawns /\ EarlyCalls /\ PoolRuns /\ NobodyStops /\ SlotsFill

LEMMA CliInitInv == CliInit => LibInv /\ CliInv
<1> SUFFICES ASSUME CliInit PROVE LibInv /\ CliInv
  OBVIOUS
<1>1. LibInv
  BY CliInitIsInit, InitType, InitFresh DEF LibInv
<1>2. /\ AllNew /\ running = FALSE /\ contexts = {}
      /\ \A q \in Queues : queue[q] = <<>>
      /\ \A s \in Slots, c \in Clients : worker[<<s, c>>] = "none"
  <2>1. \A s \in Slots, c \in Clients : <<s, c>> \in Workers /\ c # Main
    BY LibAssumption DEF Workers, Starters
  <2> QED
    BY <2>1 DEF CliInit, InitWith, AllNew
<1>3. OneSpawns
  BY <1>2 DEF OneSpawns, Spawns, Filling, AllNew
<1>4. EarlyCalls /\ NobodyStops
  BY <1>2 DEF EarlyCalls, NobodyStops, AllNew
<1>5. PoolRuns
  BY <1>2 DEF PoolRuns
<1>6. SlotsFill
  BY <1>2 DEF SlotsFill, AllNew
<1> QED
  BY <1>1, <1>3, <1>4, <1>5, <1>6 DEF CliInv

\* Who takes which step when.
EarlyStep(c) == connect(c) \/ spawn(c) \/ join(c) \/ emplace_back(c)
LateStep(c) ==
    \/ receive(c) \/ push_block(c)
    \/ disconnect(c) \/ check_contexts(c) \/ request_shutdown(c) \/ push_sentinel(c)

LEMMA CliSteps ==
    ASSUME EarlyCalls, NEW c \in Clients, cli_step(c)
    PROVE  \/ ~Connected /\ EarlyStep(c)
           \/ Connected /\ LateStep(c)
<1>1. ASSUME EarlyStep(c) PROVE ~Connected
  BY <1>1 DEF EarlyStep, connect, spawn, join, emplace_back, Connected, Starting
<1>2. ASSUME push_block(c) \/ check_contexts(c) \/ request_shutdown(c) \/ push_sentinel(c)
      PROVE  Connected
  BY <1>2 DEF EarlyCalls, push_block, check_contexts, request_shutdown, push_sentinel
<1> QED
  BY <1>1, <1>2 DEF cli_step, Proceed, EarlyStep, LateStep

(***************************************************************************)
(* While main connects its clients.                                        *)
(***************************************************************************)
LEMMA EarlyStepInv ==
    ASSUME LibInv, CliInv, NEW c \in Clients, ~Connected, EarlyStep(c), TypeOK'
    PROVE  CliInv'
<1>0. TypeOK /\ NotYetSpawned /\ Serving
  BY DEF LibInv, Serving
<1>a. /\ OneSpawns /\ EarlyCalls /\ PoolRuns /\ NobodyStops /\ SlotsFill
  BY DEF CliInv
<1>1. \A d \in Clients : d # c => call'[d] = call[d] /\ todo'[d] = todo[d]
  BY <1>0, StepIsOwn DEF EarlyStep, ClientStep
<1>2. /\ call'[c] \in {"spawn", "join", "emplace", "open"}
      /\ queue' = queue
  BY <1>0 DEF EarlyStep, connect, spawn, join, emplace_back, Goto, Advance, TypeOK
<1>3. /\ ~AllNew'
      /\ running' = TRUE
  <2>1. CASE connect(c)
    BY <1>0, <1>2, <2>1 DEF connect, AllNew, TypeOK
  <2>2. CASE ~connect(c)
    <3>1. running' = running /\ call[c] # "new"
      BY <2>2 DEF EarlyStep, spawn, join, emplace_back
    <3> QED
      BY <1>0, <1>2, <1>a, <3>1 DEF PoolRuns, AllNew
  <2> QED
    BY <2>1, <2>2
<1>4. EarlyCalls' /\ PoolRuns'
  BY <1>1, <1>2, <1>3, <1>a DEF EarlyCalls, PoolRuns
<1>5. \A s \in Slots, d \in Clients :
         \/ worker'[<<s, d>>] = worker[<<s, d>>]
         \/ spawn(c) /\ d = c /\ s = Head(todo[c]) /\ worker'[<<s, d>>] = "loop"
  <2>1. CASE spawn(c)
    <3>1. worker' = [worker EXCEPT ![<<Head(todo[c]), c>>] = "loop"]
      BY <2>1 DEF spawn
    <3>2. \A s \in Slots, d \in Clients : <<s, d>> \in Workers
      BY DEF Workers, Starters
    <3> QED
      BY <1>0, <2>1, <3>1, <3>2 DEF TypeOK
  <2>2. CASE connect(c) \/ join(c) \/ emplace_back(c)
    BY <2>2 DEF connect, join, emplace_back, poolVars
  <2> QED
    BY <2>1, <2>2 DEF EarlyStep
<1>6. NobodyStops'
  <2>1. \A d \in Clients : call'[d] \notin {"stop", "sentinel"}
    BY <1>0, <1>1, <1>2, <1>a DEF NobodyStops
  <2> QED
    BY <1>0, <1>2, <1>5, <1>a, <2>1 DEF NobodyStops
<1>7. OneSpawns'
  <2>1. ASSUME connect(c), ~running
        PROVE  \A d \in Clients : ~Spawns(d)
    <3>1. AllNew
      BY <1>0, <1>a, <2>1 DEF PoolRuns, TypeOK
    <3> QED
      BY <1>0, <3>1 DEF AllNew, Spawns, Filling, NotYetSpawned
  <2>2. ASSUME ~(connect(c) /\ ~running)
        PROVE  Spawns(c)' => Spawns(c)
    <3>1. CASE spawn(c) \/ join(c)
      BY <3>1 DEF spawn, join, Spawns, Filling
    <3>2. CASE connect(c) \/ emplace_back(c)
      <4>1. call'[c] \notin {"spawn", "join"}
        BY <1>0, <2>2, <3>2 DEF connect, emplace_back, Goto, TypeOK
      <4>2. worker' = worker
        BY <3>2 DEF connect, emplace_back, poolVars
      <4> QED
        BY <4>1, <4>2 DEF Spawns, Filling
    <3> QED
      BY <3>1, <3>2 DEF EarlyStep
  <2>3. \A d \in Clients : d # c => (Spawns(d)' => Spawns(d))
    BY <1>1, <1>5 DEF Spawns, Filling
  <2> QED
    BY <1>a, <2>1, <2>2, <2>3 DEF OneSpawns
<1>8. \A s \in Slots, d \in Clients :
         worker[<<s, d>>] # "none" => worker'[<<s, d>>] # "none"
  BY <1>5
<1>9. \A d \in Clients : call'[d] = "join" => worker'[<<Head(todo'[d]), d>>] # "none"
  <2>1. ASSUME NEW d \in Clients, d # c, call'[d] = "join"
        PROVE  worker'[<<Head(todo'[d]), d>>] # "none"
    <3>1. call[d] = "join" /\ todo'[d] = todo[d] /\ worker[<<Head(todo[d]), d>>] # "none"
      BY <1>1, <1>a, <2>1 DEF SlotsFill
    <3>2. Head(todo[d]) \in Slots
      BY <1>0, <3>1, TodoLists, StartList DEF TypeOK
    <3> QED
      BY <1>8, <3>1, <3>2
  <2>2. ASSUME call'[c] = "join" PROVE worker'[<<Head(todo'[c]), c>>] # "none"
    <3>1. spawn(c)
      BY <1>0, <2>2 DEF EarlyStep, connect, join, emplace_back, Goto, Advance, TypeOK
    <3>2. call[c] = "spawn" /\ todo'[c] = todo[c]
          /\ worker' = [worker EXCEPT ![<<Head(todo[c]), c>>] = "loop"]
      BY <3>1 DEF spawn
    <3>3. <<Head(todo[c]), c>> \in Workers
      <4>1. Head(todo[c]) \in Slots
        BY <1>0, <3>2, TodoLists, StartList DEF TypeOK
      <4> QED
        BY <4>1 DEF Workers, Starters
    <3> QED
      BY <1>0, <3>2, <3>3 DEF TypeOK
  <2> QED
    BY <2>1, <2>2
<1>10. ASSUME NEW s \in Slots
       PROVE  Filled(s)' \/ \E d \in Clients : s \in Unfilled(d)'
  <2>1. \A d \in Clients : d # c => Unfilled(d)' = Unfilled(d)
    BY <1>1 DEF Unfilled, Filling
  <2>2. handle'[s] = handle[s] => (Filled(s) => Filled(s)')
    BY <1>8 DEF Filled
  <2>3. CASE connect(c) /\ ~running
    <3>1. call'[c] = "spawn" /\ todo'[c] = <<"log", "file1", "file2">>
      BY <1>0, <2>3 DEF connect, Goto, TypeOK
    <3>2. DOMAIN <<"log", "file1", "file2">> = {1, 2, 3}
      BY ListFacts
    <3>3. s \in Elements(todo'[c])
      BY <3>1, <3>2 DEF Elements, Slots
    <3> QED
      BY <3>1, <3>3 DEF Unfilled, Filling
  <2>4. CASE (connect(c) /\ running) \/ spawn(c) \/ emplace_back(c)
    <3>1. ~AllNew
      BY <1>0, <1>a, <2>4 DEF PoolRuns, connect, spawn, emplace_back, AllNew
    <3>2. Unfilled(c)' = Unfilled(c)
      BY <1>0, <2>4 DEF connect, spawn, emplace_back, Goto, TypeOK, Unfilled, Filling
    <3>3. handle' = handle
      BY <2>4 DEF connect, spawn, emplace_back, poolVars
    <3> QED
      BY <1>a, <2>1, <2>2, <3>1, <3>2, <3>3 DEF SlotsFill
  <2>5. CASE join(c)
    <3>1. /\ call[c] = "join" /\ handle' = [handle EXCEPT ![Head(todo[c])] = c]
          /\ todo'[c] = Tail(todo[c])
          /\ call'[c] = IF Len(todo[c]) > 1 THEN "spawn" ELSE "emplace"
      BY <1>0, <2>5 DEF join, Advance, Goto, TypeOK
    <3>2. todo[c] \in Starts
      BY <1>0, <3>1, TodoLists DEF TypeOK
    <3>3. CASE s = Head(todo[c])
      <4>1. handle'[s] = c /\ worker[<<s, c>>] # "none"
        BY <1>0, <1>a, <3>1, <3>3 DEF SlotsFill, TypeOK
      <4> QED
        BY <1>8, <4>1 DEF Filled
    <3>4. CASE s # Head(todo[c])
      <4>1. handle'[s] = handle[s]
        BY <1>0, <3>1, <3>4 DEF TypeOK
      <4>2. s \in Unfilled(c) => s \in Elements(todo'[c])
        BY <3>1, <3>2, <3>4, StartElements DEF Unfilled, Filling
      <4>3. Elements(<<>>) = {}
        BY DEF Elements
      <4>4. s \in Unfilled(c) => s \in Unfilled(c)'
        BY <3>1, <3>2, <4>2, <4>3, StartList DEF Unfilled, Filling
      <4>5. ~AllNew
        BY <3>1 DEF AllNew
      <4> QED
        BY <1>a, <2>1, <2>2, <4>1, <4>4, <4>5 DEF SlotsFill
    <3> QED
      BY <3>3, <3>4
  <2> QED
    BY <2>3, <2>4, <2>5 DEF EarlyStep
<1>11. SlotsFill'
  BY <1>9, <1>10 DEF SlotsFill
<1> QED
  BY <1>4, <1>6, <1>7, <1>11 DEF CliInv

(***************************************************************************)
(* Once all are connected.                                                 *)
(***************************************************************************)
LEMMA LateStepInv ==
    ASSUME LibInv, CliInv, NEW c \in Clients, Connected, LateStep(c), TypeOK'
    PROVE  CliInv'
<1>0. TypeOK /\ OneSpawns /\ PoolRuns /\ NobodyStops /\ SlotsFill
  BY DEF LibInv, CliInv
<1>1. \A d \in Clients : d # c => call'[d] = call[d] /\ todo'[d] = todo[d]
  BY <1>0, StepIsOwn DEF LateStep, ClientStep
<1>2. /\ call'[c] \in {"open", "push", "check", "stop", "sentinel", "closed"}
      /\ contexts' \subseteq contexts
      /\ handle' = handle /\ worker' = worker
  BY <1>0 DEF LateStep, receive, push_block, disconnect, check_contexts,
              request_shutdown, push_sentinel, BeginPush, Goto, Advance, TypeOK, poolVars
<1>3. \A d \in Clients : /\ call[d] # "new" /\ ~Starting(d)
                         /\ call'[d] # "new" /\ ~Starting(d)'
  BY <1>1, <1>2 DEF Connected, Starting
<1>4. Connected' /\ EarlyCalls'
  BY <1>3 DEF Connected, EarlyCalls
<1>5. OneSpawns' /\ SlotsFill'
  <2>1. \A d \in Clients : /\ Unfilled(d) = {} /\ Unfilled(d)' = {}
                           /\ ~Filling(d) /\ ~Filling(d)'
                           /\ call'[d] # "join"
    BY <1>3 DEF Unfilled, Filling, Starting
  <2>2. \A s \in Slots : Filled(s)' <=> Filled(s)
    BY <1>2 DEF Filled
  <2>3. OneSpawns'
    BY <1>0, <1>2, <2>1 DEF OneSpawns, Spawns
  <2>4. ~AllNew
    BY <1>3 DEF AllNew
  <2> QED
    BY <1>0, <2>1, <2>2, <2>3, <2>4 DEF SlotsFill
<1>6. ASSUME Serving' PROVE ~request_shutdown(c) /\ ~push_sentinel(c) /\ Serving
  BY <1>0, <1>2, <1>4, <1>6 DEF Serving, NobodyStops, request_shutdown, push_sentinel
<1>7. PoolRuns'
  <2>1. ~AllNew /\ ~AllNew'
    BY <1>3 DEF AllNew
  <2>2. Serving' => running' = running
    BY <1>6 DEF LateStep, receive, push_block, disconnect, check_contexts
  <2> QED
    BY <1>0, <1>6, <2>1, <2>2 DEF PoolRuns
<1>8. ASSUME Serving' PROVE NobodyStops'
  <2>1. \A d \in Clients : call'[d] \notin {"stop", "sentinel"}
    <3>1. contexts' # {}
      BY <1>4, <1>8 DEF Serving
    <3>2. call'[c] \notin {"stop", "sentinel"}
      BY <1>0, <1>6, <1>8, <3>1
         DEF LateStep, receive, push_block, disconnect, check_contexts, has_contexts,
             BeginPush, Goto, Advance, TypeOK
    <3> QED
      BY <1>0, <1>1, <1>6, <1>8, <3>2 DEF NobodyStops
  <2>2. ASSUME NEW q \in Queues, NEW i \in DOMAIN queue'[q]
        PROVE  queue'[q][i] # Sentinel
    <3>1. \A k \in DOMAIN queue[q] : queue[q][k] # Sentinel
      BY <1>0, <1>6, <1>8 DEF NobodyStops
    <3>2. CASE push_block(c)
      <4> DEFINE b == [ctx |-> c, n |-> sent[c]]
      <4>1. b # Sentinel
        BY LibAssumption DEF Sentinel
      <4>2. queue' = [queue EXCEPT ![Head(todo[c])] = Append(@, b)]
        BY <3>2 DEF push_block, Enqueue
      <4> HIDE DEF b
      <4>3. queue[q] \in Seq(Blocks \cup {Sentinel})
        BY <1>0 DEF TypeOK
      <4>4. queue'[q] = queue[q] \/ queue'[q] = Append(queue[q], b)
        BY <1>0, <4>2 DEF TypeOK
      <4> QED
        BY <3>1, <4>1, <4>3, <4>4
    <3>3. CASE ~push_block(c)
      BY <1>6, <1>8, <3>1, <3>3 DEF LateStep, receive, disconnect, check_contexts
    <3> QED
      BY <3>2, <3>3
  <2> QED
    BY <1>0, <1>2, <1>6, <1>8, <2>1, <2>2 DEF NobodyStops
<1>9. NobodyStops'
  BY <1>8 DEF NobodyStops
<1> QED
  BY <1>4, <1>5, <1>7, <1>9 DEF CliInv

LEMMA WorkerStepInv ==
    ASSUME LibInv, CliInv, NEW w \in Workers, read_running(w) \/ pop(w) \/ write(w), TypeOK'
    PROVE  CliInv'
<1>0. /\ TypeOK /\ NotYetSpawned
      /\ OneSpawns /\ EarlyCalls /\ PoolRuns /\ NobodyStops /\ SlotsFill
  BY DEF LibInv, CliInv
<1>1. UNCHANGED <<running, contexts, call, todo, handle>>
  BY WorkerStepIsNoCall DEF clientVars
<1>2. /\ worker[w] \in {"loop", "pop", "write"} /\ worker'[w] # "none"
      /\ \A v \in Workers \ {w} : worker'[v] = worker[v]
  BY <1>0 DEF read_running, pop, write, TypeOK
<1>3. \A v \in Workers : worker'[v] # "none" <=> worker[v] # "none"
  BY <1>2
<1>4. \A s \in Slots, d \in Starters : <<s, d>> \in Workers
  BY DEF Workers
<1>5. Serving' <=> Serving
  BY <1>1 DEF Serving, Connected, Starting
<1>6. EarlyCalls' /\ PoolRuns'
  BY <1>0, <1>1, <1>5 DEF EarlyCalls, PoolRuns, AllNew, Connected, Starting
<1>7. OneSpawns'
  BY <1>0, <1>1, <1>3, <1>4 DEF OneSpawns, Spawns, Filling, Starters
<1>8. SlotsFill'
  <2>1. \A s \in Slots : Filled(s)' <=> Filled(s)
    BY <1>0, <1>1, <1>3, <1>4 DEF Filled, TypeOK
  <2>2. \A d \in Clients : Unfilled(d)' = Unfilled(d)
    BY <1>1 DEF Unfilled, Filling
  <2>3. ASSUME NEW d \in Clients, call[d] = "join"
        PROVE  worker'[<<Head(todo[d]), d>>] # "none"
    <3>1. Head(todo[d]) \in Slots
      BY <1>0, <2>3, TodoLists, StartList DEF TypeOK
    <3> QED
      BY <1>0, <1>3, <1>4, <2>3, <3>1 DEF SlotsFill, Starters
  <2> QED
    BY <1>0, <1>1, <2>1, <2>2, <2>3 DEF SlotsFill, AllNew
<1>9. ASSUME Serving PROVE NobodyStops'
  <2>1. \A q \in Queues : \A i \in DOMAIN queue[q] : queue[q][i] # Sentinel
    BY <1>0, <1>9 DEF NobodyStops
  <2>2. \A q \in Queues : \A i \in DOMAIN queue'[q] : queue'[q][i] # Sentinel
    <3>1. CASE read_running(w)
      BY <2>1, <3>1 DEF read_running
    <3>2. CASE pop(w)
      <4>1. /\ queue[QueueOf(w[1])] # <<>>
            /\ queue' = [queue EXCEPT ![QueueOf(w[1])] = Tail(@)]
        BY <3>2 DEF pop, Dequeue
      <4>2. ASSUME NEW q \in Queues, NEW i \in DOMAIN queue'[q]
            PROVE  queue'[q][i] # Sentinel
        <5>1. queue[q] \in Seq(Blocks \cup {Sentinel})
          BY <1>0 DEF TypeOK
        <5>2. \/ queue'[q] = queue[q]
              \/ queue[q] # <<>> /\ queue'[q] = Tail(queue[q])
          BY <1>0, <4>1 DEF TypeOK
        <5>3. CASE queue'[q] = queue[q]
          BY <2>1, <4>2, <5>3
        <5>4. CASE queue[q] # <<>> /\ queue'[q] = Tail(queue[q])
          <6>1. i + 1 \in DOMAIN queue[q] /\ queue'[q][i] = queue[q][i + 1]
            BY <4>2, <5>1, <5>4
          <6> QED
            BY <2>1, <6>1
        <5> QED
          BY <5>2, <5>3, <5>4
      <4> QED
        BY <4>2
    <3>3. CASE write(w)
      BY <2>1, <3>3 DEF write
    <3> QED
      BY <3>1, <3>2, <3>3
  <2>3. ASSUME NEW s \in Slots, NEW c \in Clients, worker'[<<s, c>>] = "done"
        PROVE  FALSE
    <3>1. w = <<s, c>>
      BY <1>0, <1>2, <1>4, <1>9, <2>3 DEF NobodyStops, Starters
    <3>2. worker[<<s, c>>] # "none" /\ worker[<<s, c>>] # "done"
      BY <1>2, <3>1
    <3>3. CASE read_running(w)
      <4>1. running = FALSE
        BY <1>0, <2>3, <3>1, <3>3 DEF read_running, TypeOK
      <4>2. AllNew
        BY <1>0, <1>9, <4>1 DEF PoolRuns
      <4> QED
        BY <1>0, <3>2, <4>2 DEF AllNew, NotYetSpawned
    <3>4. CASE pop(w)
      <4>1. QueueOf(w[1]) \in Queues
        BY DEF QueueOf, Queues
      <4>2. queue[QueueOf(w[1])] \in Seq(Blocks \cup {Sentinel}) /\ queue[QueueOf(w[1])] # <<>>
        BY <1>0, <3>4, <4>1 DEF pop, TypeOK
      <4>3. Head(queue[QueueOf(w[1])]) # Sentinel
        BY <2>1, <4>1, <4>2
      <4> QED
        BY <1>0, <2>3, <3>1, <3>4, <4>3 DEF pop, EndsLoop, TypeOK
    <3>5. CASE write(w)
      BY <1>0, <2>3, <3>1, <3>5 DEF write, TypeOK
    <3> QED
      BY <3>3, <3>4, <3>5
  <2>4. \A c \in Clients : call'[c] \notin {"stop", "sentinel"}
    BY <1>0, <1>1, <1>9 DEF NobodyStops
  <2> QED
    BY <2>2, <2>3, <2>4 DEF NobodyStops
<1>10. NobodyStops'
  BY <1>5, <1>9 DEF NobodyStops
<1> QED
  BY <1>6, <1>7, <1>8, <1>10 DEF CliInv

LEMMA CliStepInv == LibInv /\ CliInv /\ [CliNext]_cliVars => (LibInv /\ CliInv)'
<1> SUFFICES ASSUME LibInv, CliInv, [CliNext]_cliVars PROVE (LibInv /\ CliInv)'
  OBVIOUS
<1>1. [Next]_libVars
  BY CliStepIsStep DEF cliVars
<1>2. LibInv'
  BY <1>1, NextType, NextFresh DEF LibInv
<1>3. ASSUME NEW c \in Clients, cli_step(c) PROVE CliInv'
  BY <1>2, <1>3, CliSteps, EarlyStepInv, LateStepInv DEF LibInv, CliInv
<1>4. CASE worker_step
  BY <1>2, <1>4, WorkerStepInv DEF worker_step, WorkerStep, LibInv
<1>5. CASE UNCHANGED libVars
  <2>1. /\ UNCHANGED <<running, contexts, call, todo, queue, handle, worker>>
    BY <1>5 DEF libVars, clientVars, poolVars
  <2>2. /\ \A c \in Clients : /\ Unfilled(c)' = Unfilled(c)
                              /\ Spawns(c)' = Spawns(c)
        /\ \A s \in Slots : Filled(s)' = Filled(s)
        /\ Connected' = Connected /\ Serving' = Serving /\ AllNew' = AllNew
    BY <2>1, Zenon DEF Unfilled, Spawns, Filling, Filled, Connected, Serving, AllNew, Starting
  <2> QED
    BY <1>2, <2>1, <2>2, Zenon
       DEF CliInv, OneSpawns, EarlyCalls, PoolRuns, NobodyStops, SlotsFill
<1>6. destroy_thread \/ Ended \/ UNCHANGED cliVars => UNCHANGED libVars
  BY DEF destroy_thread, Ended, cliVars
<1> QED
  BY <1>2, <1>3, <1>4, <1>5, <1>6 DEF CliNext

(***************************************************************************)
(* While a client is connected the pool runs, with all its workers, in     *)
(* whatever order clients disconnect.                                      *)
(***************************************************************************)
THEOREM ServiceCorrect == CliSpec => []PoolServesClients
<1>1. ASSUME LibInv, CliInv PROVE PoolServesClients
  <2> SUFFICES ASSUME Connected, contexts # {}
               PROVE  running /\ \A s \in Slots : Alive(<<s, handle[s]>>)
    BY DEF PoolServesClients
  <2>1. Serving /\ PoolRuns /\ NobodyStops /\ SlotsFill /\ TypeOK
    BY <1>1 DEF Serving, CliInv, LibInv
  <2>2. \A c \in Clients : call[c] # "new" /\ Unfilled(c) = {}
    BY DEF Connected, Unfilled, Filling, Starting
  <2>3. ~AllNew
    BY <2>1, <2>2 DEF TypeOK, AllNew
  <2>4. running
    BY <2>1, <2>3 DEF PoolRuns
  <2>5. ASSUME NEW s \in Slots PROVE Alive(<<s, handle[s]>>)
    <3>1. Filled(s)
      BY <2>1, <2>2, <2>3 DEF SlotsFill
    <3>2. <<s, handle[s]>> \in Workers
      BY <3>1 DEF Filled, Workers, Starters
    <3> QED
      BY <2>1, <3>1, <3>2 DEF Filled, NobodyStops, Alive, TypeOK
  <2> QED
    BY <2>4, <2>5
<1> QED
  BY <1>1, CliInitInv, CliStepInv, PTL DEF CliSpec

(***************************************************************************)
(* The pool starts once in the life of the process, with any number of     *)
(* clients: hw-9's loggers are never registered twice.                     *)
(***************************************************************************)
THEOREM StartCorrect == CliSpec => []WorkersStartOnce
<1>1. LibInv /\ CliInv => WorkersStartOnce
  BY DEF CliInv, OneSpawns, Spawns, WorkersStartOnce
<1> QED
  BY <1>1, CliInitInv, CliStepInv, PTL DEF CliSpec

-----------------------------------------------------------------------------
(***************************************************************************)
(* What a push and a pop do to the way in which a queue and those who pop  *)
(* from it share what was pushed.                                          *)
(*                                                                         *)
(* Where the blocks of a queue are, for sequences and functions of any     *)
(* origin: p was pushed, s is the queue, out[w] is what consumer w took.   *)
(***************************************************************************)
Shared(p, s, W, out) ==
    /\ Elements(p) = (Elements(s) \ {Sentinel}) \cup UNION {Elements(out[w]) : w \in W}
    /\ InOrder(s, p)
    /\ \A w \in W :
          /\ InOrder(out[w], p)
          /\ \A a \in Elements(out[w]) :
                /\ \A b \in Elements(s) \ {Sentinel} : Precedes(a, b, p)
                /\ \A v \in W \ {w} : a \notin Elements(out[v])

NoRepeats(p) == \A i, j \in DOMAIN p : p[i] = p[j] => i = j

LEMMA ElementsAppend ==
    ASSUME NEW T, NEW s \in Seq(T), NEW b
    PROVE  Elements(Append(s, b)) = Elements(s) \cup {b}
<1>1. /\ Len(s) \in Nat /\ DOMAIN s = 1..Len(s)
      /\ DOMAIN Append(s, b) = 1..(Len(s) + 1)
      /\ \A i \in 1..Len(s) : Append(s, b)[i] = s[i]
      /\ Append(s, b)[Len(s) + 1] = b
  OBVIOUS
<1> QED
  BY <1>1 DEF Elements

LEMMA ElementsTail ==
    ASSUME NEW T, NEW s \in Seq(T), s # <<>>
    PROVE  Elements(s) = Elements(Tail(s)) \cup {Head(s)}
<1>1. /\ Len(s) \in Nat /\ Len(s) > 0 /\ DOMAIN s = 1..Len(s)
      /\ DOMAIN Tail(s) = 1..(Len(s) - 1)
      /\ \A i \in 1..(Len(s) - 1) : Tail(s)[i] = s[i + 1]
      /\ Head(s) = s[1]
  OBVIOUS
<1>2. \A i \in 2..Len(s) : i - 1 \in 1..(Len(s) - 1) /\ s[i] = Tail(s)[i - 1]
  BY <1>1
<1>3. \A i \in 1..Len(s) : i = 1 \/ i \in 2..Len(s)
  BY <1>1
<1>4. \A i \in 1..(Len(s) - 1) : i + 1 \in 1..Len(s)
  BY <1>1
<1>5. 1 \in 1..Len(s)
  BY <1>1
<1>6. ASSUME NEW x \in Elements(s) PROVE x \in Elements(Tail(s)) \cup {Head(s)}
  <2>1. PICK i \in 1..Len(s) : x = s[i]
    BY <1>1, <1>6 DEF Elements
  <2>2. CASE i = 1
    BY <1>1, <2>1, <2>2
  <2>3. CASE i \in 2..Len(s)
    BY <1>1, <1>2, <2>1, <2>3 DEF Elements
  <2> QED
    BY <1>3, <2>2, <2>3
<1>7. ASSUME NEW x \in Elements(Tail(s)) PROVE x \in Elements(s)
  BY <1>1, <1>4, <1>7 DEF Elements
<1>8. Head(s) \in Elements(s)
  BY <1>1, <1>5 DEF Elements
<1> QED
  BY <1>6, <1>7, <1>8

LEMMA PrecedesAppend ==
    ASSUME NEW T, NEW p \in Seq(T), NEW x
    PROVE  /\ \A a, b : Precedes(a, b, p) => Precedes(a, b, Append(p, x))
           /\ \A a \in Elements(p) : Precedes(a, x, Append(p, x))
<1>1. /\ Len(p) \in Nat /\ DOMAIN p = 1..Len(p)
      /\ DOMAIN Append(p, x) = 1..(Len(p) + 1)
      /\ \A i \in 1..Len(p) : Append(p, x)[i] = p[i] /\ i < Len(p) + 1
      /\ Append(p, x)[Len(p) + 1] = x
  OBVIOUS
<1>2. DOMAIN p \subseteq DOMAIN Append(p, x) /\ Len(p) + 1 \in DOMAIN Append(p, x)
  BY <1>1
<1> QED
  BY <1>1, <1>2 DEF Precedes, Elements

LEMMA PrecedesStrictly ==
    ASSUME NEW T, NEW p \in Seq(T), NoRepeats(p), NEW a, NEW b, Precedes(a, b, p)
    PROVE  a # b /\ ~Precedes(b, a, p) /\ a \in Elements(p) /\ b \in Elements(p)
<1>1. Len(p) \in Nat /\ DOMAIN p = 1..Len(p)
  OBVIOUS
<1> QED
  BY <1>1 DEF Precedes, NoRepeats, Elements

LEMMA InOrderAppend ==
    ASSUME NEW T, NEW s \in Seq(T), NEW p, NEW b, InOrder(s, p),
           \A a \in Elements(s) \ {Sentinel} : b # Sentinel => Precedes(a, b, p)
    PROVE  InOrder(Append(s, b), p)
<1>1. /\ Len(s) \in Nat /\ DOMAIN s = 1..Len(s)
      /\ DOMAIN Append(s, b) = 1..(Len(s) + 1)
      /\ \A i \in 1..Len(s) : Append(s, b)[i] = s[i]
      /\ Append(s, b)[Len(s) + 1] = b
  OBVIOUS
<1> SUFFICES ASSUME NEW i \in 1..(Len(s) + 1), NEW j \in 1..(Len(s) + 1), i < j,
                    Append(s, b)[i] # Sentinel, Append(s, b)[j] # Sentinel
             PROVE  Precedes(Append(s, b)[i], Append(s, b)[j], p)
  BY <1>1 DEF InOrder
<1>2. i \in 1..Len(s) /\ Append(s, b)[i] = s[i] /\ s[i] \in Elements(s)
  BY <1>1 DEF Elements
<1>3. CASE j \in 1..Len(s)
  BY <1>1, <1>2, <1>3 DEF InOrder
<1>4. CASE j = Len(s) + 1
  BY <1>1, <1>2, <1>4
<1> QED
  BY <1>1, <1>3, <1>4

LEMMA InOrderTail ==
    ASSUME NEW T, NEW s \in Seq(T), s # <<>>, NEW p, InOrder(s, p)
    PROVE  /\ InOrder(Tail(s), p)
           /\ Head(s) # Sentinel =>
                 \A b \in Elements(Tail(s)) \ {Sentinel} : Precedes(Head(s), b, p)
<1>1. /\ Len(s) \in Nat /\ Len(s) > 0 /\ DOMAIN s = 1..Len(s)
      /\ DOMAIN Tail(s) = 1..(Len(s) - 1)
      /\ \A i \in 1..(Len(s) - 1) : Tail(s)[i] = s[i + 1] /\ i + 1 \in 1..Len(s) /\ 1 < i + 1
      /\ Head(s) = s[1] /\ 1 \in 1..Len(s)
  OBVIOUS
<1>2. InOrder(Tail(s), p)
  <2> SUFFICES ASSUME NEW i \in 1..(Len(s) - 1), NEW j \in 1..(Len(s) - 1), i < j,
                      Tail(s)[i] # Sentinel, Tail(s)[j] # Sentinel
               PROVE  Precedes(Tail(s)[i], Tail(s)[j], p)
    BY <1>1 DEF InOrder
  <2>1. i + 1 < j + 1 /\ i + 1 \in DOMAIN s /\ j + 1 \in DOMAIN s
        /\ Tail(s)[i] = s[i + 1] /\ Tail(s)[j] = s[j + 1]
    BY <1>1
  <2> QED
    BY <2>1 DEF InOrder
<1>3. ASSUME Head(s) # Sentinel, NEW b \in Elements(Tail(s)) \ {Sentinel}
      PROVE  Precedes(Head(s), b, p)
  <2>1. PICK i \in 1..(Len(s) - 1) : b = s[i + 1]
    BY <1>1, <1>3 DEF Elements
  <2> QED
    BY <1>1, <1>3, <2>1 DEF InOrder
<1> QED
  BY <1>2, <1>3

LEMMA InOrderGrows ==
    ASSUME NEW T, NEW p \in Seq(T), NEW x, NEW s, InOrder(s, p)
    PROVE  InOrder(s, Append(p, x))
  BY PrecedesAppend DEF InOrder

LEMMA PushShares ==
    ASSUME NEW T, NEW p \in Seq(T), NEW s \in Seq(T), NEW W, NEW out, Shared(p, s, W, out),
           NEW b, b # Sentinel, b \notin Elements(p)
    PROVE  Shared(Append(p, b), Append(s, b), W, out)
<1> DEFINE pp == Append(p, b)
           ss == Append(s, b)
<1>1. Elements(pp) = Elements(p) \cup {b} /\ Elements(ss) = Elements(s) \cup {b}
  BY ElementsAppend
<1>2. /\ \A x, y : Precedes(x, y, p) => Precedes(x, y, pp)
      /\ \A a \in Elements(p) : Precedes(a, b, pp)
  BY PrecedesAppend
<1>3. \A w \in W : Elements(out[w]) \subseteq Elements(p)
  BY DEF Shared
<1>4. Elements(s) \ {Sentinel} \subseteq Elements(p)
  BY DEF Shared
<1> HIDE DEF pp, ss
<1>5. Elements(pp) = (Elements(ss) \ {Sentinel}) \cup UNION {Elements(out[w]) : w \in W}
  BY <1>1 DEF Shared
<1>6. InOrder(ss, pp)
  <2>1. InOrder(s, pp)
    BY InOrderGrows DEF Shared, pp
  <2> QED
    BY <1>2, <1>4, <2>1, InOrderAppend DEF ss
<1>7. ASSUME NEW w \in W
      PROVE  /\ InOrder(out[w], pp)
             /\ \A a \in Elements(out[w]) :
                   /\ \A x \in Elements(ss) \ {Sentinel} : Precedes(a, x, pp)
                   /\ \A v \in W \ {w} : a \notin Elements(out[v])
  <2>1. InOrder(out[w], pp)
    BY InOrderGrows DEF Shared, pp
  <2>2. ASSUME NEW a \in Elements(out[w]), NEW x \in Elements(ss) \ {Sentinel}
        PROVE  Precedes(a, x, pp)
    BY <1>1, <1>2, <1>3 DEF Shared
  <2> QED
    BY <2>1, <2>2 DEF Shared
<1> QED
  BY <1>5, <1>6, <1>7 DEF Shared, pp, ss

LEMMA SentinelShares ==
    ASSUME NEW T, NEW p, NEW s \in Seq(T), NEW W, NEW out, Shared(p, s, W, out)
    PROVE  Shared(p, Append(s, Sentinel), W, out)
<1>1. Elements(Append(s, Sentinel)) = Elements(s) \cup {Sentinel}
  BY ElementsAppend
<1>2. InOrder(Append(s, Sentinel), p)
  BY InOrderAppend DEF Shared
<1> QED
  BY <1>1, <1>2 DEF Shared

LEMMA PopSentinelShares ==
    ASSUME NEW T, NEW p, NEW s \in Seq(T), s # <<>>, Head(s) = Sentinel,
           NEW W, NEW out, Shared(p, s, W, out)
    PROVE  Shared(p, Tail(s), W, out)
<1>1. Elements(s) = Elements(Tail(s)) \cup {Sentinel}
  BY ElementsTail
<1>2. InOrder(Tail(s), p)
  BY InOrderTail DEF Shared
<1> QED
  BY <1>1, <1>2 DEF Shared

LEMMA PopBlockShares ==
    ASSUME NEW T, NEW p \in Seq(T), NoRepeats(p), NEW s \in Seq(T), s # <<>>,
           Head(s) # Sentinel,
           NEW W, NEW U, W \subseteq U, NEW out \in [U -> Seq(T)], Shared(p, s, W, out),
           NEW w \in W
    PROVE  Shared(p, Tail(s), W, [out EXCEPT ![w] = Append(@, Head(s))])
<1> DEFINE b == Head(s)
           oo == [out EXCEPT ![w] = Append(@, Head(s))]
<1>1. Elements(s) = Elements(Tail(s)) \cup {b}
  BY ElementsTail
<1>2. InOrder(Tail(s), p) /\ \A x \in Elements(Tail(s)) \ {Sentinel} : Precedes(b, x, p)
  BY InOrderTail DEF Shared
<1>3. /\ oo[w] = Append(out[w], b) /\ Elements(oo[w]) = Elements(out[w]) \cup {b}
      /\ \A v \in W \ {w} : oo[v] = out[v]
  BY ElementsAppend
<1>4. b # Sentinel
  OBVIOUS
<1> HIDE DEF b, oo
<1>5. \A v \in W : \A a \in Elements(out[v]) : Precedes(a, b, p) /\ a # b
  <2>1. \A v \in W : \A a \in Elements(out[v]) : Precedes(a, b, p)
    BY <1>1, <1>4 DEF Shared
  <2> QED
    BY <2>1, PrecedesStrictly
<1>6. b \notin Elements(Tail(s))
  BY <1>2, <1>4, PrecedesStrictly
<1>7. Elements(p) = (Elements(Tail(s)) \ {Sentinel}) \cup UNION {Elements(oo[v]) : v \in W}
  <2>1. ASSUME NEW x
        PROVE  (\E v \in W : x \in Elements(oo[v]))
                  <=> (x = b \/ \E v \in W : x \in Elements(out[v]))
    BY <1>3
  <2>2. \A x : x \in Elements(p) <=>
              (x \in Elements(s) \ {Sentinel} \/ \E v \in W : x \in Elements(out[v]))
    BY DEF Shared
  <2>3. \A x : x \in Elements(s) \ {Sentinel} <=>
              (x \in Elements(Tail(s)) \ {Sentinel} \/ x = b)
    BY <1>1, <1>4
  <2>4. \A x : x \in Elements(p) <=>
              (x \in Elements(Tail(s)) \ {Sentinel} \/ \E v \in W : x \in Elements(oo[v]))
    BY <2>1, <2>2, <2>3, Zenon
  <2> QED
    BY <2>4
<1>8. ASSUME NEW v \in W
      PROVE  /\ InOrder(oo[v], p)
             /\ \A a \in Elements(oo[v]) :
                   /\ \A x \in Elements(Tail(s)) \ {Sentinel} : Precedes(a, x, p)
                   /\ \A u \in W \ {v} : a \notin Elements(oo[u])
  <2>1. InOrder(oo[v], p)
    <3>1. CASE v = w
      <4>1. InOrder(out[w], p) /\ out[w] \in Seq(T)
        BY DEF Shared
      <4>2. \A a \in Elements(out[w]) \ {Sentinel} : b # Sentinel => Precedes(a, b, p)
        BY <1>5
      <4>3. InOrder(Append(out[w], b), p)
        BY <4>1, <4>2, InOrderAppend
      <4> QED
        BY <1>3, <3>1, <4>3
    <3>2. CASE v # w
      BY <1>3, <3>2 DEF Shared
    <3> QED
      BY <3>1, <3>2
  <2>2. ASSUME NEW a \in Elements(oo[v])
        PROVE  \A x \in Elements(Tail(s)) \ {Sentinel} : Precedes(a, x, p)
    <3>1. a = b \/ a \in Elements(out[v])
      BY <1>3
    <3>2. ASSUME a \in Elements(out[v])
          PROVE  \A x \in Elements(s) \ {Sentinel} : Precedes(a, x, p)
      BY <3>2 DEF Shared
    <3> QED
      BY <1>1, <1>2, <3>1, <3>2
  <2>3. ASSUME NEW a \in Elements(oo[v]), NEW u \in W \ {v}
        PROVE  a \notin Elements(oo[u])
    BY <1>3, <1>5 DEF Shared
  <2> QED
    BY <2>1, <2>2, <2>3
<1> QED
  BY <1>2, <1>7, <1>8 DEF Shared, oo

(***************************************************************************)
(* One taker, which has taken a prefix: what is next in the queue is next  *)
(* in the order of the pushes.                                             *)
(***************************************************************************)
PrefixOf(s, p) == Len(s) <= Len(p) /\ \A i \in 1..Len(s) : s[i] = p[i]

LEMMA NextInLine ==
    ASSUME NEW T, NEW p \in Seq(T), NoRepeats(p), NEW s \in Seq(T), s # <<>>,
           Head(s) # Sentinel, InOrder(s, p),
           NEW log \in Seq(T), PrefixOf(log, p),
           Elements(s) \ {Sentinel} = {p[i] : i \in (Len(log) + 1)..Len(p)}
    PROVE  PrefixOf(Append(log, Head(s)), p)
<1>1. /\ Len(p) \in Nat /\ Len(log) \in Nat /\ DOMAIN p = 1..Len(p)
  OBVIOUS
<1>2. Elements(s) = Elements(Tail(s)) \cup {Head(s)}
  BY ElementsTail
<1>3. PICK k \in (Len(log) + 1)..Len(p) : p[k] = Head(s)
  BY <1>2
<1>4. k = Len(log) + 1
  <2> SUFFICES ASSUME k > Len(log) + 1 PROVE FALSE
    BY <1>1
  <2> DEFINE m == Len(log) + 1
  <2>1. m \in 1..Len(p) /\ m \in m..Len(p) /\ m # k /\ k \in 1..Len(p)
    BY <1>1
  <2>2. p[m] \in Elements(s) \ {Sentinel}
    BY <2>1
  <2>3. p[m] # Head(s)
    BY <1>1, <1>3, <2>1 DEF NoRepeats
  <2>4. Precedes(Head(s), p[m], p)
    BY <1>2, <2>2, <2>3, InOrderTail
  <2>5. Precedes(p[m], Head(s), p)
    BY <1>1, <1>3, <2>1 DEF Precedes
  <2> QED
    BY <2>4, <2>5, PrecedesStrictly
<1>5. /\ Len(Append(log, Head(s))) = Len(log) + 1
      /\ Append(log, Head(s))[Len(log) + 1] = Head(s)
      /\ \A i \in 1..Len(log) : Append(log, Head(s))[i] = log[i]
  OBVIOUS
<1>6. \A i \in 1..(Len(log) + 1) : i \in 1..Len(log) \/ i = Len(log) + 1
  BY <1>1
<1> QED
  BY <1>1, <1>3, <1>4, <1>5, <1>6 DEF PrefixOf

-----------------------------------------------------------------------------
(***************************************************************************)
(* The inductive invariant: a queue's blocks are shared by the queue and   *)
(* its workers, blocks are pushed once and in order, and one log worker    *)
(* at most has been started.                                               *)
(***************************************************************************)
HistoryTypes ==
    /\ pushed \in [Queues -> Seq(Blocks)]
    /\ Taken \in [Workers -> Seq(Blocks)]

\* the number of the last block of c that was pushed to q
Reached(c, q) ==
    IF call[c] = "push" /\ q \in Elements(todo[c]) THEN sent[c] - 1 ELSE sent[c]

Ascending ==
    \A q \in Queues : \A i, j \in DOMAIN pushed[q] :
        i < j /\ pushed[q][i].ctx = pushed[q][j].ctx => pushed[q][i].n < pushed[q][j].n

Counted == \A c \in Clients, q \in Queues : Numbers(c, q) = 1..Reached(c, q)

WritersOf(q) == {w \in Workers : QueueOf(w[1]) = q}

AllShared == \A q \in Queues : Shared(pushed[q], queue[q], WritersOf(q), Taken)

NothingYet ==
    /\ \A s \in Slots : worker[<<s, Main>>] = "done"
    /\ \A w \in Workers : worker[w] = "none" \/ w[2] = Main => Taken[w] = <<>>

OneLogger(c) ==
    /\ \A d \in Clients \ {c} : worker[<<"log", d>>] = "none"
    /\ PrefixOf(Taken[<<"log", c>>], pushed["log"])

Logged == \E c \in Starters : OneLogger(c)

BlockInv ==
    /\ HistoryTypes /\ Ascending /\ Counted /\ AllShared /\ NothingYet /\ Logged
    /\ OnlyLeftoversAreLate

LEMMA ReachedTypes ==
    ASSUME TypeOK, NEW c \in Clients, NEW q \in Queues
    PROVE  Reached(c, q) \in 0..MaxBlocks
<1>1. sent[c] \in 0..MaxBlocks /\ MaxBlocks \in Nat /\ (call[c] = "push" => sent[c] > 0)
  BY LibAssumption DEF TypeOK
<1> QED
  BY <1>1 DEF Reached

LEMMA NeverTwice ==
    ASSUME HistoryTypes, Ascending, NEW q \in Queues
    PROVE  NoRepeats(pushed[q])
<1> SUFFICES ASSUME NEW i \in DOMAIN pushed[q], NEW j \in DOMAIN pushed[q],
                    pushed[q][i] = pushed[q][j], i < j
             PROVE  FALSE
  <2>1. DOMAIN pushed[q] \subseteq Nat
    BY DEF HistoryTypes
  <2>2. ASSUME \A i, j \in DOMAIN pushed[q] : ~(pushed[q][i] = pushed[q][j] /\ i < j)
        PROVE  NoRepeats(pushed[q])
    BY <2>1, <2>2 DEF NoRepeats
  <2> QED
    BY <2>2
<1>1. pushed[q][i] \in Blocks
  BY DEF HistoryTypes
<1>2. pushed[q][i].n \in Nat
  BY <1>1, LibAssumption DEF Blocks
<1> QED
  BY <1>2 DEF Ascending

LEMMA ElementsOfPush ==
    /\ Elements(<<"log", "file">>) = {"log", "file"}
    /\ Elements(<<"file">>) = {"file"}
<1>1. DOMAIN <<"log", "file">> = {1, 2} /\ DOMAIN <<"file">> = {1}
  OBVIOUS
<1> QED
  BY <1>1 DEF Elements

\* A client's step does not change what has been pushed, unless it pushes.
LEMMA ReachedStays ==
    ASSUME TypeOK, NEW c \in Clients, ClientStep(c), ~push_block(c),
           NEW d \in Clients, NEW q \in Queues
    PROVE  Reached(d, q)' = Reached(d, q)
<1>1. CASE d # c
  <2>1. call'[d] = call[d] /\ todo'[d] = todo[d]
    BY <1>1, StepIsOwn
  <2>2. sent'[d] = sent[d]
    BY <1>1 DEF ClientStep, connect, spawn, join, emplace_back, receive, disconnect,
                check_contexts, request_shutdown, push_sentinel, BeginPush, TypeOK
  <2> QED
    BY <2>1, <2>2 DEF Reached
<1>2. CASE d = c
  <2>1. CASE receive(c) \/ (disconnect(c) /\ BeginPush(c))
    <3>1. call[c] = "open" /\ BeginPush(c)
      BY <2>1 DEF receive, disconnect
    <3>2. /\ call'[c] = "push" /\ todo'[c] = <<"log", "file">>
          /\ sent'[c] = sent[c] + 1 /\ sent[c] \in Nat
      BY <3>1, LibAssumption DEF BeginPush, Goto, Destinations, TypeOK
    <3>3. q \in Elements(todo'[c])
      BY <3>2, ElementsOfPush DEF Queues
    <3> QED
      BY <1>2, <3>1, <3>2, <3>3 DEF Reached
  <2>2. CASE ~(receive(c) \/ (disconnect(c) /\ BeginPush(c)))
    <3>1. sent' = sent /\ call[c] # "push" /\ call'[c] # "push"
      BY <2>2 DEF ClientStep, connect, spawn, join, emplace_back, receive, disconnect,
                  check_contexts, request_shutdown, push_sentinel, Goto, Advance, TypeOK
    <3> QED
      BY <1>2, <3>1 DEF Reached
  <2> QED
    BY <2>1, <2>2
<1> QED
  BY <1>1, <1>2

LEMMA ReachedGrows ==
    ASSUME TypeOK, NEW c \in Clients, push_block(c)
    PROVE  /\ Head(todo[c]) \in Queues
           /\ \A q \in Queues : q = Head(todo[c]) =>
                 Reached(c, q) = sent[c] - 1 /\ Reached(c, q)' = sent[c]
           /\ \A d \in Clients, q \in Queues :
                 d # c \/ q # Head(todo[c]) => Reached(d, q)' = Reached(d, q)
<1>1. /\ call[c] = "push" /\ sent' = sent
      /\ todo' = [todo EXCEPT ![c] = Tail(@)]
      /\ call'[c] = "push" <=> Len(todo[c]) > 1
  BY DEF push_block, Advance, Goto, TypeOK
<1>2. todo[c] = <<"log", "file">> \/ todo[c] = <<"file">>
  BY <1>1, TodoLists DEF TypeOK, Pushes
<1>3. todo'[c] = Tail(todo[c])
  BY <1>1 DEF TypeOK
<1>o. ASSUME NEW d \in Clients, d # c, NEW q \in Queues PROVE Reached(d, q)' = Reached(d, q)
  <2>1. call'[d] = call[d] /\ todo'[d] = todo[d]
    BY <1>o, StepIsOwn DEF ClientStep
  <2> QED
    BY <1>1, <2>1 DEF Reached
<1>4. CASE todo[c] = <<"log", "file">>
  <2>1. Head(todo[c]) = "log" /\ todo'[c] = <<"file">> /\ call'[c] = "push"
    BY <1>1, <1>3, <1>4, ListFacts
  <2>2. \A q \in Queues : /\ Reached(c, q) = sent[c] - 1
                          /\ Reached(c, q)' = IF q = "log" THEN sent[c] ELSE sent[c] - 1
    BY <1>1, <1>4, <2>1, ElementsOfPush DEF Reached, Queues
  <2> QED
    BY <1>o, <2>1, <2>2 DEF Queues
<1>5. CASE todo[c] = <<"file">>
  <2>1. Head(todo[c]) = "file" /\ call'[c] # "push"
    BY <1>1, <1>5, ListFacts
  <2>2. \A q \in Queues : /\ Reached(c, q) = IF q = "log" THEN sent[c] ELSE sent[c] - 1
                          /\ Reached(c, q)' = sent[c]
    BY <1>1, <1>5, <2>1, ElementsOfPush DEF Reached, Queues
  <2> QED
    BY <1>o, <2>1, <2>2 DEF Queues
<1> QED
  BY <1>2, <1>4, <1>5

-----------------------------------------------------------------------------
(* What Record makes of a step of the library. *)

LEMMA NothingPushed ==
    ASSUME TypeOK, HistoryTypes, Record,
           \A q \in Queues : \/ queue'[q] = queue[q]
                             \/ queue'[q] = Tail(queue[q]) /\ queue[q] # <<>>
                             \/ queue'[q] = Append(queue[q], Sentinel)
    PROVE  pushed' = pushed
<1>1. ASSUME NEW q \in Queues
      PROVE  ~(Len(queue'[q]) > Len(queue[q]) /\ queue'[q][Len(queue'[q])] # Sentinel)
  <2>1. queue[q] \in Seq(Blocks \cup {Sentinel})
    BY DEF TypeOK
  <2>2. CASE queue'[q] = queue[q]
    BY <2>1, <2>2
  <2>3. CASE queue'[q] = Tail(queue[q]) /\ queue[q] # <<>>
    BY <2>1, <2>3
  <2>4. CASE queue'[q] = Append(queue[q], Sentinel)
    BY <2>1, <2>4
  <2> QED
    BY <2>2, <2>3, <2>4
<1>2. pushed' = [q \in Queues |-> pushed[q]]
  BY <1>1 DEF Record
<1> QED
  BY <1>2 DEF HistoryTypes

LEMMA BlockPushed ==
    ASSUME TypeOK, HistoryTypes, Record, NEW h \in Queues, NEW b \in Blocks, b # Sentinel,
           Enqueue(h, b)
    PROVE  pushed' = [pushed EXCEPT ![h] = Append(@, b)]
<1>1. queue'[h] = Append(queue[h], b) /\ queue[h] \in Seq(Blocks \cup {Sentinel})
  BY DEF TypeOK, Enqueue
<1>2. Len(queue'[h]) > Len(queue[h]) /\ queue'[h][Len(queue'[h])] = b
  BY <1>1
<1>3. ASSUME NEW q \in Queues, q # h PROVE ~(Len(queue'[q]) > Len(queue[q]))
  <2>1. queue'[q] = queue[q] /\ Len(queue[q]) \in Nat
    BY <1>3 DEF TypeOK, Enqueue
  <2> QED
    BY <2>1
<1>4. pushed' = [q \in Queues |-> IF q = h THEN Append(pushed[h], b) ELSE pushed[q]]
  BY <1>2, <1>3 DEF Record
<1> QED
  BY <1>4 DEF HistoryTypes

\* A worker that takes no block may still log the one it has in hand.
LEMMA NothingTaken ==
    ASSUME Record,
           \A w \in Workers :
              /\ worker'[w] = "write" => worker[w] = "write"
              /\ worker[w] = "write" => worker'[w] \in {"write", "loop"}
    PROVE  Taken' = Taken
<1>1. ASSUME NEW w \in Workers PROVE Taken'[w] = Taken[w]
  <2>1. /\ Taken[w] = IF worker[w] = "write" THEN Append(written[w], block[w]) ELSE written[w]
        /\ Taken'[w] = IF worker'[w] = "write" THEN Append(written'[w], block'[w])
                                               ELSE written'[w]
    BY DEF Taken
  <2>2. /\ block'[w] = IF worker[w] = "pop" /\ worker'[w] = "write"
                       THEN Head(queue[QueueOf(w[1])])
                       ELSE IF worker'[w] = "loop" THEN Sentinel ELSE block[w]
        /\ written'[w] = IF worker[w] = "write" /\ worker'[w] = "loop"
                         THEN Append(written[w], block[w]) ELSE written[w]
    BY DEF Record
  <2>3. CASE worker[w] = "write" /\ worker'[w] = "write"
    BY <2>1, <2>2, <2>3
  <2>4. CASE worker[w] = "write" /\ worker'[w] = "loop"
    BY <2>1, <2>2, <2>4
  <2>5. CASE worker[w] # "write" /\ worker'[w] # "write"
    BY <2>1, <2>2, <2>5
  <2> QED
    BY <2>3, <2>4, <2>5
<1>2. /\ Taken = [w \in Workers |-> Taken[w]]
      /\ Taken' = [w \in Workers |-> Taken'[w]]
  BY DEF Taken
<1> QED
  BY <1>1, <1>2, Zenon

LEMMA BlockTaken ==
    ASSUME Record, NEW v \in Workers,
           worker[v] = "pop", worker'[v] = "write",
           \A w \in Workers \ {v} : worker'[w] = worker[w]
    PROVE  Taken' = [Taken EXCEPT ![v] = Append(@, Head(queue[QueueOf(v[1])]))]
<1>1. Taken'[v] = Append(Taken[v], Head(queue[QueueOf(v[1])]))
  <2>1. Taken[v] = written[v] /\ Taken'[v] = Append(written'[v], block'[v])
    BY DEF Taken
  <2>2. block'[v] = Head(queue[QueueOf(v[1])]) /\ written'[v] = written[v]
    BY DEF Record
  <2> QED
    BY <2>1, <2>2
<1>2. ASSUME NEW w \in Workers, w # v PROVE Taken'[w] = Taken[w]
  <2>1. worker'[w] = worker[w]
    BY <1>2
  <2>2. /\ worker[w] = "write" => block'[w] = block[w]
        /\ written'[w] = written[w]
    BY <2>1 DEF Record
  <2> QED
    BY <2>1, <2>2 DEF Taken
<1>3. /\ Taken = [w \in Workers |-> Taken[w]]
      /\ Taken' = [w \in Workers |-> Taken'[w]]
  BY DEF Taken
<1>4. Taken' = [w \in Workers |-> IF w = v THEN Append(Taken[v], Head(queue[QueueOf(v[1])]))
                                          ELSE Taken[w]]
  BY <1>1, <1>2, <1>3, Zenon
<1> QED
  BY <1>3, <1>4

-----------------------------------------------------------------------------
(* The steps. *)

\* Everything but OnlyLeftoversAreLate and Logged, in a step of calls only.
LEMMA CallStep ==
    ASSUME TypeOK, BlockInv, UNCHANGED <<pushed, Taken, queue>>,
           \A c \in Clients, q \in Queues : Reached(c, q)' = Reached(c, q),
           \A s \in Slots : worker'[<<s, Main>>] = worker[<<s, Main>>],
           \A w \in Workers : worker'[w] = "none" => worker[w] = "none"
    PROVE  (HistoryTypes /\ Ascending /\ Counted /\ AllShared /\ NothingYet)'
<1>1. HistoryTypes' /\ Ascending'
  BY DEF BlockInv, HistoryTypes, Ascending
<1>2. Counted'
  BY DEF BlockInv, Counted, Numbers
<1>3. AllShared'
  BY DEF BlockInv, AllShared
<1>4. NothingYet'
  BY DEF BlockInv, NothingYet
<1> QED
  BY <1>1, <1>2, <1>3, <1>4

\* What is in the log queue is what the one log worker has not written.
LEMMA LogRest ==
    ASSUME TypeOK, BlockInv, NEW c \in Starters, OneLogger(c)
    PROVE  Queued("log") =
              {pushed["log"][i] : i \in (Len(Taken[<<"log", c>>]) + 1)..Len(pushed["log"])}
<1> DEFINE p == pushed["log"]
           log == Taken[<<"log", c>>]
<1>1. "log" \in Queues /\ <<"log", c>> \in Workers /\ QueueOf("log") = "log"
  BY DEF Queues, Workers, Slots, QueueOf
<1>2. p \in Seq(Blocks) /\ log \in Seq(Blocks) /\ NoRepeats(p)
  BY <1>1, NeverTwice DEF BlockInv, HistoryTypes
<1>3. \A w \in WritersOf("log") : w # <<"log", c>> => Taken[w] = <<>>
  <2> SUFFICES ASSUME NEW w \in Workers, QueueOf(w[1]) = "log", w # <<"log", c>>
               PROVE  Taken[w] = <<>>
    BY DEF WritersOf
  <2>1. PICK d \in Starters : w = <<"log", d>>
    BY DEF Workers, QueueOf, Slots
  <2>2. d = Main \/ worker[w] = "none"
    BY <2>1 DEF OneLogger, Starters
  <2> QED
    BY <2>1, <2>2 DEF BlockInv, NothingYet
<1>4. <<"log", c>> \in WritersOf("log")
  BY <1>1 DEF WritersOf
<1>5. Shared(p, queue["log"], WritersOf("log"), Taken)
  BY <1>1 DEF BlockInv, AllShared
<1>6. Elements(<<>>) = {}
  BY DEF Elements
<1>7. \A x : x \in Elements(p) <=> x \in Queued("log") \/ x \in Elements(log)
  BY <1>3, <1>4, <1>5, <1>6 DEF Shared, Queued
<1>8. \A x \in Elements(log) : x \notin Queued("log")
  BY <1>2, <1>4, <1>5, PrecedesStrictly DEF Shared, Queued
<1>p. PrefixOf(log, p)
  BY DEF OneLogger
<1> HIDE DEF p, log
<1>9. /\ Len(p) \in Nat /\ Len(log) \in Nat /\ Len(log) <= Len(p)
      /\ DOMAIN p = 1..Len(p) /\ DOMAIN log = 1..Len(log)
      /\ \A i \in 1..Len(log) : log[i] = p[i]
  BY <1>2, <1>p DEF PrefixOf
<1>10. ASSUME NEW i \in (Len(log) + 1)..Len(p) PROVE p[i] \in Queued("log")
  <2>1. i \in DOMAIN p /\ p[i] \in Elements(p)
    BY <1>9 DEF Elements
  <2>2. ASSUME NEW k \in 1..Len(log) PROVE p[i] # log[k]
    BY <1>2, <1>9, <2>1 DEF NoRepeats
  <2> QED
    BY <1>7, <1>9, <2>1, <2>2 DEF Elements
<1>11. ASSUME NEW x \in Queued("log")
       PROVE  \E i \in (Len(log) + 1)..Len(p) : x = p[i]
  <2>1. PICK i \in 1..Len(p) : x = p[i]
    BY <1>7, <1>9 DEF Elements
  <2>2. i \notin 1..Len(log)
    BY <1>8, <1>9, <2>1 DEF Elements
  <2> QED
    BY <1>9, <2>1, <2>2
<1> QED
  BY <1>10, <1>11 DEF p, log

LEMMA PrefixGrows ==
    ASSUME NEW T, NEW p \in Seq(T), NEW s \in Seq(T), NEW x, PrefixOf(s, p)
    PROVE  PrefixOf(s, Append(p, x))
<1>1. /\ Len(p) \in Nat /\ Len(s) \in Nat /\ Len(Append(p, x)) = Len(p) + 1
      /\ \A i \in 1..Len(p) : Append(p, x)[i] = p[i]
  OBVIOUS
<1> QED
  BY <1>1 DEF PrefixOf

\* push_block: a new block at the end of one queue
LEMMA PushStep ==
    ASSUME TypeOK, BlockInv, NEW c \in Clients, push_block(c), Record
    PROVE  (HistoryTypes /\ Ascending /\ Counted /\ AllShared /\ NothingYet /\ Logged)'
<1> DEFINE b == [ctx |-> c, n |-> sent[c]]
<1>0. PICK h \in Queues : h = Head(todo[c])
  BY ReachedGrows
<1>i. HistoryTypes /\ Ascending /\ Counted /\ AllShared /\ NothingYet /\ Logged
  BY DEF BlockInv
<1>1. /\ b \in Blocks /\ b # Sentinel /\ b.ctx = c /\ b.n = sent[c]
      /\ sent[c] \in Nat /\ sent[c] > 0
  BY LibAssumption DEF push_block, TypeOK, Blocks, Sentinel
<1> HIDE DEF b
<1>2. Enqueue(h, b)
  BY <1>0 DEF push_block, b
<1>3. /\ worker' = worker
      /\ queue'[h] = Append(queue[h], b) /\ queue[h] \in Seq(Blocks \cup {Sentinel})
      /\ \A q \in Queues \ {h} : queue'[q] = queue[q]
  BY <1>2 DEF push_block, poolVars, Enqueue, TypeOK
<1>4. pushed' = [pushed EXCEPT ![h] = Append(@, b)]
  BY <1>1, <1>2, <1>i, BlockPushed
<1>5. Taken' = Taken
  BY <1>3, <1>i, NothingTaken
<1>6. /\ pushed'[h] = Append(pushed[h], b) /\ pushed[h] \in Seq(Blocks)
      /\ \A q \in Queues \ {h} : pushed'[q] = pushed[q]
  BY <1>4, <1>i DEF HistoryTypes
<1>7. Elements(pushed'[h]) = Elements(pushed[h]) \cup {b}
  BY <1>6, ElementsAppend
<1>8. Reached(c, h) = sent[c] - 1 /\ Reached(c, h)' = sent[c]
  BY <1>0, ReachedGrows
<1>9. \A x \in Elements(pushed[h]) : x.ctx = c => x.n < sent[c]
  <2>1. Numbers(c, h) = 1..(sent[c] - 1)
    BY <1>8, <1>i DEF Counted
  <2> QED
    BY <1>1, <2>1 DEF Numbers
<1>10. b \notin Elements(pushed[h])
  BY <1>1, <1>9
<1>11. HistoryTypes'
  BY <1>1, <1>4, <1>5, <1>i DEF HistoryTypes
<1>12. Ascending'
  <2> SUFFICES ASSUME NEW q \in Queues, NEW i \in DOMAIN pushed'[q], NEW j \in DOMAIN pushed'[q],
                      i < j, pushed'[q][i].ctx = pushed'[q][j].ctx
               PROVE  pushed'[q][i].n < pushed'[q][j].n
    BY DEF Ascending
  <2>1. CASE q # h
    BY <1>6, <1>i, <2>1 DEF Ascending
  <2>2. CASE q = h
    <3>1. /\ Len(pushed[h]) \in Nat /\ DOMAIN pushed[h] = 1..Len(pushed[h])
          /\ DOMAIN pushed'[h] = 1..(Len(pushed[h]) + 1)
          /\ \A k \in 1..Len(pushed[h]) : pushed'[h][k] = pushed[h][k]
          /\ pushed'[h][Len(pushed[h]) + 1] = b
      BY <1>6
    <3>2. i \in 1..Len(pushed[h]) /\ pushed[h][i] \in Elements(pushed[h])
      BY <2>2, <3>1 DEF Elements
    <3>3. CASE j \in 1..Len(pushed[h])
      BY <1>i, <2>2, <3>1, <3>2, <3>3 DEF Ascending
    <3>4. CASE j = Len(pushed[h]) + 1
      BY <1>1, <1>9, <2>2, <3>1, <3>2, <3>4
    <3> QED
      BY <2>2, <3>1, <3>3, <3>4
  <2> QED
    BY <2>1, <2>2
<1>13. Counted'
  <2> SUFFICES ASSUME NEW d \in Clients, NEW q \in Queues
               PROVE  Numbers(d, q)' = 1..Reached(d, q)'
    BY DEF Counted
  <2>1. Numbers(d, q) = 1..Reached(d, q)
    BY <1>i DEF Counted
  <2>2. CASE q # h
    <3>1. Reached(d, q)' = Reached(d, q) /\ Numbers(d, q)' = Numbers(d, q)
      BY <1>0, <1>6, <2>2, ReachedGrows DEF Numbers
    <3> QED
      BY <2>1, <3>1
  <2>3. CASE q = h /\ d # c
    <3>1. Reached(d, q)' = Reached(d, q)
      BY <2>3, ReachedGrows
    <3>2. Numbers(d, q)' = Numbers(d, q)
      BY <1>1, <1>7, <2>3 DEF Numbers
    <3> QED
      BY <2>1, <3>1, <3>2
  <2>4. CASE q = h /\ d = c
    <3>1. Numbers(c, h)' = Numbers(c, h) \cup {sent[c]}
      BY <1>1, <1>7 DEF Numbers
    <3> QED
      BY <1>1, <1>8, <2>1, <2>4, <3>1
  <2> QED
    BY <2>2, <2>3, <2>4
<1>14. AllShared'
  <2> SUFFICES ASSUME NEW q \in Queues
               PROVE  Shared(pushed'[q], queue'[q], WritersOf(q), Taken)
    BY <1>5 DEF AllShared, WritersOf
  <2>1. Shared(pushed[q], queue[q], WritersOf(q), Taken)
    BY <1>i DEF AllShared
  <2>2. CASE q = h
    <3>1. pushed[h] \in Seq(Blocks \cup {Sentinel}) /\ queue[h] \in Seq(Blocks \cup {Sentinel})
      BY <1>3, <1>6
    <3>2. Shared(pushed[h], queue[h], WritersOf(h), Taken)
      BY <2>1, <2>2
    <3>3. Shared(Append(pushed[h], b), Append(queue[h], b), WritersOf(h), Taken)
      BY <1>1, <1>10, <3>1, <3>2, PushShares
    <3> QED
      BY <1>3, <1>6, <2>2, <3>3
  <2>3. CASE q # h
    BY <1>3, <1>6, <2>1, <2>3
  <2> QED
    BY <2>2, <2>3
<1>15. NothingYet'
  BY <1>3, <1>5, <1>i DEF NothingYet
<1>16. Logged'
  <2>1. PICK l \in Starters : OneLogger(l)
    BY <1>i DEF Logged
  <2>2. "log" \in Queues /\ <<"log", l>> \in Workers
    BY DEF Queues, Workers, Slots
  <2>3. Taken[<<"log", l>>] \in Seq(Blocks) /\ pushed["log"] \in Seq(Blocks)
    BY <1>i, <2>2 DEF HistoryTypes
  <2>4. pushed'["log"] = pushed["log"] \/ pushed'["log"] = Append(pushed["log"], b)
    BY <1>6, <2>2
  <2>5. PrefixOf(Taken[<<"log", l>>], pushed'["log"])
    BY <2>1, <2>3, <2>4, PrefixGrows DEF OneLogger
  <2>6. OneLogger(l)'
    BY <1>3, <1>5, <2>1, <2>5 DEF OneLogger
  <2> QED
    BY <2>6 DEF Logged
<1> QED
  BY <1>11, <1>12, <1>13, <1>14, <1>15, <1>16

\* push_sentinel: nothing moves but the sentinel
LEMMA SentinelStep ==
    ASSUME TypeOK, BlockInv, NEW c \in Clients, push_sentinel(c), Record
    PROVE  (HistoryTypes /\ Ascending /\ Counted /\ AllShared /\ NothingYet /\ Logged)'
<1>i. HistoryTypes /\ Ascending /\ Counted /\ AllShared /\ NothingYet /\ Logged
  BY DEF BlockInv
<1>1. worker' = worker /\ Enqueue(Head(todo[c]), Sentinel)
  BY DEF push_sentinel, poolVars
<1>2. \A q \in Queues : queue'[q] = queue[q] \/ queue'[q] = Append(queue[q], Sentinel)
  BY <1>1 DEF Enqueue, TypeOK
<1>3. pushed' = pushed /\ Taken' = Taken
  BY <1>1, <1>2, <1>i, NothingPushed, NothingTaken
<1>4. HistoryTypes' /\ Ascending' /\ NothingYet' /\ Logged'
  BY <1>1, <1>3, <1>i DEF HistoryTypes, Ascending, NothingYet, Logged, OneLogger
<1>5. Counted'
  <2>1. ~push_block(c)
    BY DEF push_sentinel, push_block
  <2>2. \A d \in Clients, q \in Queues : Reached(d, q)' = Reached(d, q)
    BY <2>1, ReachedStays DEF ClientStep
  <2> QED
    BY <1>3, <1>i, <2>2 DEF Counted, Numbers
<1>6. AllShared'
  <2> SUFFICES ASSUME NEW q \in Queues
               PROVE  Shared(pushed[q], queue'[q], WritersOf(q), Taken)
    BY <1>3 DEF AllShared, WritersOf
  <2>1. Shared(pushed[q], queue[q], WritersOf(q), Taken)
        /\ queue[q] \in Seq(Blocks \cup {Sentinel})
    BY <1>i DEF AllShared, TypeOK
  <2> QED
    BY <1>2, <2>1, SentinelShares
<1> QED
  BY <1>4, <1>5, <1>6

\* What a worker's step leaves alone.
LEMMA WorkerMoves ==
    ASSUME TypeOK, BlockInv, NEW w \in Workers, read_running(w) \/ pop(w) \/ write(w)
    PROVE  /\ worker[w] \in {"loop", "pop", "write"} /\ worker'[w] # "none"
           /\ \A v \in Workers \ {w} : worker'[v] = worker[v]
           /\ \A s \in Slots : <<s, Main>> # w
           /\ \A c \in Starters : OneLogger(c) =>
                 /\ w[1] = "log" => w = <<"log", c>>
                 /\ \A d \in Clients \ {c} : worker'[<<"log", d>>] = "none"
           /\ \A c \in Clients, q \in Queues : Reached(c, q)' = Reached(c, q)
           /\ pushed' = pushed /\ Taken' = Taken => Logged'
<1>i. NothingYet /\ Logged
  BY DEF BlockInv
<1>1. /\ worker[w] \in {"loop", "pop", "write"} /\ worker'[w] # "none"
      /\ \A v \in Workers \ {w} : worker'[v] = worker[v]
  BY DEF read_running, pop, write, TypeOK
<1>2. \A s \in Slots : <<s, Main>> # w
  BY <1>1, <1>i DEF NothingYet
<1>3. ASSUME NEW c \in Starters, OneLogger(c)
      PROVE  /\ w[1] = "log" => w = <<"log", c>>
             /\ \A d \in Clients \ {c} : worker'[<<"log", d>>] = "none"
  <2>1. \A d \in Clients \ {c} : worker[<<"log", d>>] = "none" /\ <<"log", d>> \in Workers
    BY <1>3 DEF OneLogger, Workers, Slots, Starters
  <2>2. ASSUME w[1] = "log" PROVE w = <<"log", c>>
    <3>1. PICK d \in Starters : w = <<"log", d>>
      BY <2>2 DEF Workers
    <3>2. d # Main
      BY <1>2, <3>1 DEF Slots
    <3> QED
      BY <1>1, <2>1, <3>1, <3>2 DEF Starters
  <2> QED
    BY <1>1, <2>1, <2>2
<1>4. \A c \in Clients, q \in Queues : Reached(c, q)' = Reached(c, q)
  BY WorkerStepIsNoCall DEF Reached, clientVars
<1>5. pushed' = pushed /\ Taken' = Taken => Logged'
  BY <1>3, <1>i DEF Logged, OneLogger
<1> QED
  BY <1>1, <1>2, <1>3, <1>4, <1>5

LEMMA LookStep ==
    ASSUME TypeOK, BlockInv, NEW w \in Workers, read_running(w), Record
    PROVE  (HistoryTypes /\ Ascending /\ Counted /\ AllShared /\ NothingYet /\ Logged)'
<1>1. HistoryTypes
  BY DEF BlockInv
<1>2. queue' = queue /\ worker[w] = "loop" /\ worker'[w] # "write"
  BY DEF read_running, TypeOK
<1>3. /\ \A v \in Workers \ {w} : worker'[v] = worker[v]
      /\ \A s \in Slots : <<s, Main>> # w
      /\ worker'[w] # "none"
  BY WorkerMoves
<1>4. pushed' = pushed
  BY <1>1, <1>2, NothingPushed
<1>5. Taken' = Taken
  BY <1>1, <1>2, <1>3, NothingTaken
<1>6. \A s \in Slots : <<s, Main>> \in Workers
  BY DEF Workers, Starters
<1> QED
  BY <1>2, <1>3, <1>4, <1>5, <1>6, CallStep, WorkerMoves

\* the block in hand goes to the log
LEMMA WriteStep ==
    ASSUME TypeOK, BlockInv, NEW w \in Workers, write(w), Record
    PROVE  (HistoryTypes /\ Ascending /\ Counted /\ AllShared /\ NothingYet /\ Logged)'
<1>1. HistoryTypes
  BY DEF BlockInv
<1>2. queue' = queue /\ worker[w] = "write" /\ worker'[w] = "loop"
  BY DEF write, TypeOK
<1>3. /\ \A v \in Workers \ {w} : worker'[v] = worker[v]
      /\ \A s \in Slots : <<s, Main>> # w
      /\ worker'[w] # "none"
  BY WorkerMoves
<1>4. pushed' = pushed
  BY <1>1, <1>2, NothingPushed
<1>5. Taken' = Taken
  BY <1>2, <1>3, NothingTaken
<1>6. \A s \in Slots : <<s, Main>> \in Workers
  BY DEF Workers, Starters
<1> QED
  BY <1>2, <1>3, <1>4, <1>5, <1>6, CallStep, WorkerMoves

\* pop of a sentinel, which ends the worker
LEMMA PopSentinelStep ==
    ASSUME TypeOK, BlockInv, NEW w \in Workers, pop(w), Record,
           Head(queue[QueueOf(w[1])]) = Sentinel
    PROVE  (HistoryTypes /\ Ascending /\ Counted /\ AllShared /\ NothingYet /\ Logged)'
<1> DEFINE h == QueueOf(w[1])
<1>i. HistoryTypes /\ Ascending /\ Counted /\ AllShared /\ NothingYet /\ Logged
  BY DEF BlockInv
<1>0. h \in Queues
  BY DEF QueueOf, Queues
<1>1. /\ queue[h] # <<>> /\ queue[h] \in Seq(Blocks \cup {Sentinel})
      /\ queue' = [queue EXCEPT ![h] = Tail(@)]
      /\ worker[w] = "pop" /\ worker'[w] = "done"
  BY <1>0 DEF pop, Dequeue, EndsLoop, TypeOK
<1>2. /\ \A v \in Workers \ {w} : worker'[v] = worker[v]
      /\ \A s \in Slots : <<s, Main>> # w
      /\ \A c \in Clients, q \in Queues : Reached(c, q)' = Reached(c, q)
  BY WorkerMoves
<1>3. /\ queue'[h] = Tail(queue[h])
      /\ \A q \in Queues \ {h} : queue'[q] = queue[q]
  BY <1>0, <1>1 DEF TypeOK
<1>4. pushed' = pushed
  BY <1>1, <1>3, <1>i, NothingPushed
<1>5. Taken' = Taken
  BY <1>1, <1>2, <1>i, NothingTaken
<1>6. HistoryTypes' /\ Ascending' /\ Counted'
  BY <1>2, <1>4, <1>5, <1>i DEF HistoryTypes, Ascending, Counted, Numbers
<1>7. NothingYet'
  <2>1. \A s \in Slots : <<s, Main>> \in Workers
    BY DEF Workers, Starters
  <2> QED
    BY <1>1, <1>2, <1>5, <1>i, <2>1 DEF NothingYet
<1>8. Logged'
  BY <1>4, <1>5, WorkerMoves
<1>9. AllShared'
  <2> SUFFICES ASSUME NEW q \in Queues
               PROVE  Shared(pushed[q], queue'[q], WritersOf(q), Taken)
    BY <1>4, <1>5 DEF AllShared, WritersOf
  <2>1. Shared(pushed[q], queue[q], WritersOf(q), Taken)
        /\ queue[q] \in Seq(Blocks \cup {Sentinel})
    BY <1>i DEF AllShared, TypeOK
  <2>2. CASE q = h /\ queue'[q] = Tail(queue[q])
    <3>1. Head(queue[q]) = Sentinel /\ queue[q] # <<>>
      BY <1>1, <2>2
    <3>2. Shared(pushed[q], Tail(queue[q]), WritersOf(q), Taken)
      BY <2>1, <3>1, PopSentinelShares
    <3> QED
      BY <2>2, <3>2
  <2> QED
    BY <1>3, <2>1, <2>2
<1> QED
  BY <1>6, <1>7, <1>8, <1>9

\* pop of a block, which is written
LEMMA PopBlockStep ==
    ASSUME TypeOK, BlockInv, NEW w \in Workers, pop(w), Record,
           Head(queue[QueueOf(w[1])]) # Sentinel
    PROVE  (HistoryTypes /\ Ascending /\ Counted /\ AllShared /\ NothingYet /\ Logged)'
<1> DEFINE h == QueueOf(w[1])
           b == Head(queue[h])
<1>i. HistoryTypes /\ Ascending /\ Counted /\ AllShared /\ NothingYet /\ Logged
  BY DEF BlockInv
<1>0. h \in Queues
  BY DEF QueueOf, Queues
<1>1. /\ queue[h] # <<>> /\ queue[h] \in Seq(Blocks \cup {Sentinel})
      /\ queue' = [queue EXCEPT ![h] = Tail(@)]
      /\ worker[w] = "pop" /\ worker'[w] = "write"
      /\ b \in Blocks /\ b # Sentinel
  BY <1>0 DEF pop, Dequeue, EndsLoop, TypeOK
<1>2. /\ \A v \in Workers \ {w} : worker'[v] = worker[v]
      /\ \A s \in Slots : <<s, Main>> # w
      /\ \A c \in Clients, q \in Queues : Reached(c, q)' = Reached(c, q)
  BY WorkerMoves
<1>3. /\ queue'[h] = Tail(queue[h])
      /\ \A q \in Queues \ {h} : queue'[q] = queue[q]
  BY <1>0, <1>1 DEF TypeOK
<1>4. pushed' = pushed
  BY <1>1, <1>3, <1>i, NothingPushed
<1>5. Taken' = [Taken EXCEPT ![w] = Append(@, b)]
  BY <1>1, <1>2, <1>i, BlockTaken
<1> HIDE DEF b
<1>o. /\ Taken'[w] = Append(Taken[w], b)
      /\ \A v \in Workers \ {w} : Taken'[v] = Taken[v]
  BY <1>5, <1>i DEF HistoryTypes
<1>6. HistoryTypes'
  BY <1>1, <1>4, <1>5, <1>i DEF HistoryTypes
<1>7. Ascending' /\ Counted'
  BY <1>2, <1>4, <1>i DEF Ascending, Counted, Numbers
<1>8. NothingYet'
  <2>1. \A s \in Slots : <<s, Main>> \in Workers
    BY DEF Workers, Starters
  <2>2. w[2] # Main
    BY <1>2 DEF Workers
  <2> QED
    BY <1>1, <1>2, <1>i, <1>o, <2>1, <2>2 DEF NothingYet
<1>9. AllShared'
  <2> SUFFICES ASSUME NEW q \in Queues
               PROVE  Shared(pushed[q], queue'[q], WritersOf(q), Taken')
    BY <1>4 DEF AllShared, WritersOf
  <2>1. Shared(pushed[q], queue[q], WritersOf(q), Taken)
    BY <1>i DEF AllShared
  <2>2. CASE q = h
    <3> DEFINE T == Blocks \cup {Sentinel}
    <3>1. w \in WritersOf(h) /\ WritersOf(h) \subseteq Workers
      BY DEF WritersOf
    <3>2. pushed[h] \in Seq(T) /\ Taken \in [Workers -> Seq(T)] /\ queue[h] \in Seq(T)
      BY <1>0, <1>1, <1>i DEF HistoryTypes
    <3>3. NoRepeats(pushed[h])
      BY <1>0, <1>i, NeverTwice
    <3>4. Shared(pushed[h], queue[h], WritersOf(h), Taken)
      BY <2>1, <2>2
    <3>5. Head(queue[h]) # Sentinel /\ queue[h] # <<>>
      BY <1>1
    <3> HIDE DEF T, h
    <3>6. Shared(pushed[h], Tail(queue[h]), WritersOf(h),
                 [Taken EXCEPT ![w] = Append(@, Head(queue[h]))])
      BY <3>1, <3>2, <3>3, <3>4, <3>5, PopBlockShares
    <3> QED
      BY <1>3, <1>5, <2>2, <3>6 DEF b
  <2>3. CASE q # h
    <3>1. w \notin WritersOf(q) /\ WritersOf(q) \subseteq Workers
      BY <2>3 DEF WritersOf
    <3>2. \A v \in WritersOf(q) : Taken'[v] = Taken[v]
      BY <1>o, <3>1
    <3>3. queue'[q] = queue[q]
      BY <1>3, <2>3
    <3> QED
      BY <2>1, <3>2, <3>3 DEF Shared
  <2> QED
    BY <2>2, <2>3
<1>10. Logged'
  <2>1. PICK c \in Starters : OneLogger(c)
    BY <1>i DEF Logged
  <2>2. /\ w[1] = "log" => w = <<"log", c>>
        /\ \A d \in Clients \ {c} : worker'[<<"log", d>>] = "none"
    BY <2>1, WorkerMoves
  <2>3. "log" \in Queues /\ <<"log", c>> \in Workers
    BY DEF Queues, Workers, Slots
  <2>4. PrefixOf(Taken'[<<"log", c>>], pushed["log"])
    <3>1. CASE w # <<"log", c>>
      BY <1>o, <2>1, <2>3, <3>1 DEF OneLogger
    <3>2. CASE w = <<"log", c>>
      <4> DEFINE p == pushed["log"]
                 s == queue["log"]
                 log == Taken[<<"log", c>>]
                 T == Blocks \cup {Sentinel}
      <4>1. h = "log"
        BY <3>2 DEF QueueOf
      <4>2. p \in Seq(T) /\ log \in Seq(T) /\ s \in Seq(T)
        BY <1>1, <1>i, <2>3, <4>1 DEF HistoryTypes
      <4>3. NoRepeats(p)
        BY <1>i, <2>3, NeverTwice
      <4>4. InOrder(s, p)
        BY <1>i, <2>3 DEF AllShared, Shared
      <4>5. PrefixOf(log, p)
        BY <2>1 DEF OneLogger
      <4>6. Elements(s) \ {Sentinel} = {p[i] : i \in (Len(log) + 1)..Len(p)}
        BY <2>1, LogRest DEF Queued
      <4>7. Head(s) # Sentinel /\ s # <<>> /\ Head(s) = b
        BY <1>1, <4>1 DEF b
      <4> HIDE DEF p, s, log, T
      <4>8. PrefixOf(Append(log, Head(s)), p)
        BY <4>2, <4>3, <4>4, <4>5, <4>6, <4>7, NextInLine
      <4> QED
        BY <1>o, <3>2, <4>7, <4>8 DEF p, log
    <3> QED
      BY <3>1, <3>2
  <2>5. OneLogger(c)'
    BY <1>4, <2>2, <2>4 DEF OneLogger
  <2> QED
    BY <2>5 DEF Logged
<1> QED
  BY <1>6, <1>7, <1>8, <1>9, <1>10

\* connect, and the steps of receive and disconnect that push nothing
LEMMA QuietStep ==
    ASSUME LibInv, CliInv, BlockInv, NEW c \in Clients, ClientStep(c), Record,
           ~push_block(c), ~push_sentinel(c)
    PROVE  (HistoryTypes /\ Ascending /\ Counted /\ AllShared /\ NothingYet /\ Logged)'
<1>i. TypeOK /\ NotYetSpawned /\ OneSpawns /\ HistoryTypes /\ NothingYet /\ Logged
  BY DEF BlockInv, LibInv, CliInv
<1>1. queue' = queue
  BY DEF ClientStep, connect, spawn, join, emplace_back, receive, disconnect,
         check_contexts, request_shutdown
<1>2. pushed' = pushed
  BY <1>1, <1>i, NothingPushed
<1>3. \A d \in Clients, q \in Queues : Reached(d, q)' = Reached(d, q)
  BY <1>i, ReachedStays
<1>4. CASE ~spawn(c)
  <2>1. worker' = worker
    BY <1>4 DEF ClientStep, connect, join, emplace_back, receive, disconnect,
                check_contexts, request_shutdown, poolVars
  <2>2. Taken' = Taken
    BY <1>i, <2>1, NothingTaken
  <2>3. Logged'
    BY <1>2, <1>i, <2>1, <2>2 DEF Logged, OneLogger
  <2> QED
    BY <1>1, <1>2, <1>3, <1>i, <2>1, <2>2, <2>3, CallStep
<1>5. CASE spawn(c)
  <2> DEFINE v == <<Head(todo[c]), c>>
  <2>1. call[c] = "spawn" /\ worker' = [worker EXCEPT ![v] = "loop"]
    BY <1>5 DEF spawn
  <2>2. todo[c] \in Starts
    BY <1>i, <2>1, TodoLists DEF TypeOK
  <2>3. Head(todo[c]) \in Slots /\ v \in Workers
    BY <2>2, StartList DEF Workers, Starters
  <2>4. Head(todo[c]) \in Elements(todo[c])
    <3>1. todo[c] \in Seq(Slots \cup Queues)
      BY <2>2, StartList
    <3>2. todo[c] # <<>>
      BY <2>2, ListFacts DEF Starts
    <3> QED
      BY <3>1, <3>2, ElementsTail
  <2>5. worker[v] = "none"
    BY <1>i, <2>1, <2>3, <2>4 DEF NotYetSpawned, ToSpawn
  <2> HIDE DEF v
  <2>6. worker'[v] = "loop" /\ \A w \in Workers \ {v} : worker'[w] = worker[w]
    BY <1>i, <2>1, <2>3 DEF TypeOK
  <2>7. Taken' = Taken
    BY <1>i, <2>5, <2>6, NothingTaken
  <2>8. \A s \in Slots : <<s, Main>> # v /\ <<s, Main>> \in Workers
    BY LibAssumption DEF v, Workers, Starters
  <2>9. (HistoryTypes /\ Ascending /\ Counted /\ AllShared /\ NothingYet)'
    BY <1>1, <1>2, <1>3, <1>i, <2>6, <2>7, <2>8, CallStep
  <2>10. \A d \in Clients \ {c}, s \in Slots :
            worker[<<s, d>>] = "none" /\ <<s, d>> \in Workers /\ <<s, d>> # v
    BY <1>i, <2>1 DEF OneSpawns, Spawns, Filling, Workers, Starters, v
  <2>11. \A d \in Clients \ {c} : worker'[<<"log", d>>] = "none"
    BY <2>6, <2>10 DEF Slots
  <2>12. PICK l \in Starters : OneLogger(l)
    BY <1>i DEF Logged
  <2>13. CASE v[1] = "log"
    <3>1. v = <<"log", c>>
      BY <2>13 DEF v
    <3>2. Taken[<<"log", c>>] = <<>>
      BY <1>i, <2>3, <2>5, <3>1 DEF NothingYet, v
    <3>3. pushed["log"] \in Seq(Blocks)
      BY <1>i DEF HistoryTypes, Queues
    <3>4. PrefixOf(Taken[<<"log", c>>], pushed["log"])
      BY <3>2, <3>3 DEF PrefixOf
    <3>5. OneLogger(c)'
      BY <1>2, <2>7, <2>11, <3>4 DEF OneLogger
    <3> QED
      BY <2>9, <3>5 DEF Logged, Starters
  <2>14. CASE v[1] # "log"
    <3>1. \A d \in Clients : <<"log", d>> \in Workers \ {v}
      BY <2>14 DEF Workers, Slots, Starters
    <3>2. OneLogger(l)'
      BY <1>2, <2>6, <2>7, <2>12, <3>1 DEF OneLogger
    <3> QED
      BY <2>9, <3>2 DEF Logged
  <2> QED
    BY <2>13, <2>14
<1> QED
  BY <1>4, <1>5

-----------------------------------------------------------------------------
(***************************************************************************)
(* Behind a sentinel.  The first sentinel is pushed when all have been     *)
(* connected and the map is empty; it stays empty, so that nobody begins   *)
(* to push another block, and what is pushed late is the last of a client. *)
(***************************************************************************)
LEMMA LeftoverStep ==
    ASSUME LibInv, CliInv, Known, OnlyLeftoversAreLate, [CliNext]_cliVars
    PROVE  OnlyLeftoversAreLate'
<1>i. TypeOK /\ EarlyCalls /\ NobodyStops
  BY DEF LibInv, CliInv
<1> SUFFICES ASSUME NEW q \in Queues, NEW i \in DOMAIN queue'[q], NEW j \in DOMAIN queue'[q],
                    i < j, queue'[q][i] = Sentinel, queue'[q][j] # Sentinel
             PROVE  queue'[q][j].ctx \notin contexts' /\ queue'[q][j].n = sent'[queue'[q][j].ctx]
  BY DEF OnlyLeftoversAreLate
<1>t. queue[q] \in Seq(Blocks \cup {Sentinel})
  BY <1>i DEF TypeOK
<1>1. CASE UNCHANGED <<contexts, sent, queue>>
  BY <1>1 DEF OnlyLeftoversAreLate
<1>2. ASSUME NEW w \in Workers, pop(w)
      PROVE  queue'[q][j].ctx \notin contexts' /\ queue'[q][j].n = sent'[queue'[q][j].ctx]
  <2>1. contexts' = contexts /\ sent' = sent
    BY <1>2 DEF pop, clientVars
  <2>2. queue'[q] = queue[q] \/ (queue[q] # <<>> /\ queue'[q] = Tail(queue[q]))
    BY <1>2, <1>i DEF pop, Dequeue, TypeOK
  <2>3. CASE queue'[q] = queue[q]
    BY <2>1, <2>3 DEF OnlyLeftoversAreLate
  <2>4. CASE queue[q] # <<>> /\ queue'[q] = Tail(queue[q])
    <3>1. /\ i + 1 \in DOMAIN queue[q] /\ j + 1 \in DOMAIN queue[q] /\ i + 1 < j + 1
          /\ queue'[q][i] = queue[q][i + 1] /\ queue'[q][j] = queue[q][j + 1]
      BY <1>t, <2>4
    <3> QED
      BY <2>1, <3>1 DEF OnlyLeftoversAreLate
  <2> QED
    BY <2>2, <2>3, <2>4
<1>3. ASSUME NEW c \in Clients, cli_step(c)
      PROVE  queue'[q][j].ctx \notin contexts' /\ queue'[q][j].n = sent'[queue'[q][j].ctx]
  <2>1. CASE ~Connected
    <3>1. EarlyStep(c)
      BY <1>3, <1>i, <2>1, CliSteps
    <3>2. queue' = queue
      BY <3>1 DEF EarlyStep, connect, spawn, join, emplace_back
    <3>3. queue[q][i] # Sentinel
      BY <1>i, <2>1, <3>2 DEF NobodyStops, Serving
    <3> QED
      BY <3>2, <3>3
  <2>2. CASE Connected
    <3>1. LateStep(c)
      BY <1>3, <1>i, <2>2, CliSteps
    <3>2. ASSUME ~push_block(c), ~push_sentinel(c)
          PROVE  queue' = queue
      BY <3>1, <3>2 DEF LateStep, receive, disconnect, check_contexts, request_shutdown
    <3>3. CASE contexts # {}
      <4>1. /\ call[c] # "sentinel"
            /\ \A k \in DOMAIN queue[q] : queue[q][k] # Sentinel
        BY <1>i, <3>3 DEF NobodyStops, Serving
      <4>2. CASE push_block(c)
        <5>1. queue'[q] = queue[q]
              \/ queue'[q] = Append(queue[q], [ctx |-> c, n |-> sent[c]])
          BY <1>i, <4>2 DEF push_block, Enqueue, TypeOK
        <5>2. i \in DOMAIN queue[q] /\ queue'[q][i] = queue[q][i]
          BY <1>t, <5>1
        <5> QED
          BY <4>1, <5>2
      <4> QED
        BY <3>2, <4>1, <4>2 DEF push_sentinel
    <3>4. CASE contexts = {}
      <4>1. call[c] # "open"
        BY <3>4 DEF Known, KnownAs
      <4>2. contexts' = contexts /\ sent' = sent
        BY <3>1, <4>1 DEF LateStep, receive, push_block, disconnect, check_contexts,
                          request_shutdown, push_sentinel
      <4>3. CASE push_block(c)
        <5> DEFINE b == [ctx |-> c, n |-> sent[c]]
        <5>1. queue'[q] = queue[q] \/ queue'[q] = Append(queue[q], b)
          BY <1>i, <4>3 DEF push_block, Enqueue, TypeOK
        <5>2. b.ctx = c /\ b.n = sent[c]
          OBVIOUS
        <5> HIDE DEF b
        <5>3. CASE j \in DOMAIN queue[q] /\ queue'[q][j] = queue[q][j]
          <6>1. i \in DOMAIN queue[q] /\ queue'[q][i] = queue[q][i]
            BY <1>t, <5>1, <5>3
          <6> QED
            BY <4>2, <5>3, <6>1 DEF OnlyLeftoversAreLate
        <5>4. CASE queue'[q][j] = b
          BY <3>4, <4>2, <5>2, <5>4
        <5> QED
          BY SMTT(30), <1>t, <5>1, <5>3, <5>4
      <4>4. CASE push_sentinel(c)
        <5>1. queue'[q] = queue[q] \/ queue'[q] = Append(queue[q], Sentinel)
          BY <1>i, <4>4 DEF push_sentinel, Enqueue, TypeOK
        <5>2. /\ i \in DOMAIN queue[q] /\ queue'[q][i] = queue[q][i]
              /\ j \in DOMAIN queue[q] /\ queue'[q][j] = queue[q][j]
          BY <1>t, <5>1
        <5> QED
          BY <4>2, <5>2 DEF OnlyLeftoversAreLate
      <4> QED
        BY <3>2, <4>2, <4>3, <4>4 DEF OnlyLeftoversAreLate
    <3> QED
      BY <3>3, <3>4
  <2> QED
    BY <2>1, <2>2
<1>4. ASSUME NEW w \in Workers, read_running(w) \/ write(w)
      PROVE  UNCHANGED <<contexts, sent, queue>>
  BY <1>4 DEF read_running, write, clientVars
<1>5. destroy_thread \/ Ended \/ UNCHANGED cliVars => UNCHANGED <<contexts, sent, queue>>
  BY DEF destroy_thread, Ended, cliVars, libVars, clientVars
<1> QED
  BY <1>1, <1>2, <1>3, <1>4, <1>5 DEF CliNext, worker_step, WorkerStep

-----------------------------------------------------------------------------
LEMMA BlocksInit == CliInit => BlockInv
<1> SUFFICES ASSUME CliInit PROVE BlockInv
  OBVIOUS
<1>1. /\ \A q \in Queues : queue[q] = <<>> /\ pushed[q] = <<>>
      /\ Taken = [w \in Workers |-> <<>>]
      /\ \A c \in Clients : call[c] = "new" /\ sent[c] = 0
      /\ \A s \in Slots : worker[<<s, Main>>] = "done"
      /\ \A c \in Clients : worker[<<"log", c>>] = "none"
  <2>1. \A w \in Workers : worker[w] = IF w[2] # Main THEN "none" ELSE "done"
    BY DEF CliInit, InitWith
  <2>2. \A s \in Slots, c \in Starters : <<s, c>> \in Workers
    BY DEF Workers
  <2>3. Taken = [w \in Workers |-> <<>>]
    BY <2>1 DEF CliInit, Taken
  <2> QED
    BY <2>1, <2>2, <2>3, LibAssumption DEF CliInit, InitWith, Starters, Slots
<1>2. Elements(<<>>) = {} /\ DOMAIN <<>> = {} /\ Len(<<>>) = 0
  BY DEF Elements
<1>3. HistoryTypes
  BY <1>1 DEF CliInit, HistoryTypes
<1>4. Ascending /\ OnlyLeftoversAreLate
  BY <1>1, <1>2 DEF Ascending, OnlyLeftoversAreLate
<1>5. Counted
  <2>1. \A c \in Clients, q \in Queues : Numbers(c, q) = {} /\ Reached(c, q) = 0
    BY <1>1, <1>2 DEF Numbers, Reached
  <2> QED
    BY <2>1 DEF Counted
<1>6. AllShared
  <2> SUFFICES ASSUME NEW q \in Queues
               PROVE  Shared(<<>>, <<>>, WritersOf(q), Taken)
    BY <1>1 DEF AllShared
  <2>1. \A w \in WritersOf(q) : Taken[w] = <<>>
    BY <1>1 DEF WritersOf
  <2>2. InOrder(<<>>, <<>>)
    BY <1>2 DEF InOrder
  <2>3. UNION {Elements(Taken[w]) : w \in WritersOf(q)} = {}
    BY <1>2, <2>1
  <2> QED
    BY <1>2, <2>1, <2>2, <2>3 DEF Shared
<1>7. NothingYet
  BY <1>1 DEF NothingYet
<1>8. OneLogger(Main)
  <2>1. <<"log", Main>> \in Workers /\ "log" \in Queues
    BY DEF Workers, Slots, Starters, Queues
  <2> QED
    BY <1>1, <1>2, <2>1 DEF OneLogger, PrefixOf
<1> QED
  BY <1>3, <1>4, <1>5, <1>6, <1>7, <1>8 DEF BlockInv, Logged, Starters

CliAll == LibInv /\ CliInv /\ Known /\ BlockInv

LEMMA BlocksStep == CliAll /\ [CliNext]_cliVars => CliAll'
<1> SUFFICES ASSUME CliAll, [CliNext]_cliVars PROVE CliAll'
  OBVIOUS
<1> DEFINE Goal == (HistoryTypes /\ Ascending /\ Counted /\ AllShared /\ NothingYet /\ Logged)'
<1>i. LibInv /\ CliInv /\ Known /\ BlockInv /\ TypeOK /\ OnlyLeftoversAreLate
  BY DEF CliAll, LibInv, BlockInv
<1>1. (LibInv /\ CliInv)'
  BY <1>i, CliStepInv
<1>2. Known'
  <2>1. [Next]_libVars
    BY CliStepIsStep DEF cliVars
  <2> QED
    BY <1>i, <2>1, NextKnown
<1>3. OnlyLeftoversAreLate'
  BY <1>i, LeftoverStep
<1>4. ASSUME NEW c \in Clients, cli_step(c) PROVE Goal
  <2>1. Record /\ ClientStep(c)
    BY <1>4, ProceedIsStep DEF cli_step, ClientStep
  <2> QED
    BY <1>i, <2>1, PushStep, SentinelStep, QuietStep
<1>5. ASSUME worker_step PROVE Goal
  <2>1. Record /\ \E w \in Workers : read_running(w) \/ pop(w) \/ write(w)
    BY <1>5 DEF worker_step, WorkerStep
  <2>2. PICK w \in Workers : read_running(w) \/ pop(w) \/ write(w)
    BY <2>1
  <2>3. CASE read_running(w)
    BY <1>i, <2>1, <2>3, LookStep
  <2>4. CASE pop(w) /\ Head(queue[QueueOf(w[1])]) = Sentinel
    BY <1>i, <2>1, <2>4, PopSentinelStep
  <2>5. CASE pop(w) /\ Head(queue[QueueOf(w[1])]) # Sentinel
    BY <1>i, <2>1, <2>5, PopBlockStep
  <2>6. CASE write(w)
    BY <1>i, <2>1, <2>6, WriteStep
  <2> QED
    BY <2>2, <2>3, <2>4, <2>5, <2>6
<1>6. ASSUME destroy_thread \/ Ended \/ UNCHANGED cliVars PROVE Goal
  <2>0. UNCHANGED <<call, todo, sent, queue, worker, pushed, block, written>>
    BY <1>6 DEF destroy_thread, Ended, cliVars, libVars, clientVars, poolVars
  <2>1. UNCHANGED <<call, todo, sent, queue, worker, pushed, Taken>>
    BY <2>0 DEF Taken
  <2>2. \A c \in Clients, q \in Queues : Reached(c, q)' = Reached(c, q)
    BY <2>1 DEF Reached
  <2>3. Logged'
    BY <1>i, <2>1 DEF BlockInv, Logged, OneLogger
  <2>4. (HistoryTypes /\ Ascending /\ Counted /\ AllShared /\ NothingYet)'
    BY <1>i, <2>1, <2>2, CallStep
  <2> QED
    BY <2>3, <2>4
<1> HIDE DEF Goal
<1>7. Goal
  BY <1>4, <1>5, <1>6 DEF CliNext
<1> QED
  BY <1>1, <1>2, <1>3, <1>7 DEF CliAll, BlockInv, Goal

LEMMA CliAllInvariant == CliSpec => []CliAll
<1>1. CliInit => CliAll
  BY CliInitInv, CliInitIsInit, InitKnown, BlocksInit DEF CliAll
<1> QED
  BY <1>1, BlocksStep, PTL DEF CliSpec

(***************************************************************************)
(* What is queued behind a sentinel, and lost if the workers leave by it,  *)
(* is at most the left-over of each client, with any number of clients.    *)
(***************************************************************************)
THEOREM LeftoversCorrect == CliSpec => []OnlyLeftoversAreLate
<1>1. CliAll => OnlyLeftoversAreLate
  BY DEF CliAll, BlockInv
<1> QED
  BY <1>1, CliAllInvariant, PTL

(***************************************************************************)
(* The two files of the file workers share the blocks, each in the order   *)
(* of the pushes, however the workers and the clients interleave.          *)
(***************************************************************************)
THEOREM FilesCorrect == CliSpec => []FilesPartitionBlocks
<1>1. CliAll => FilesPartitionBlocks
  <2>1. "file" \in Queues /\ WritersOf("file") = FileWorkers
    BY DEF Queues, WritersOf, FileWorkers
  <2> QED
    BY <2>1 DEF CliAll, BlockInv, AllShared, Shared, FilesPartitionBlocks, Queued
<1> QED
  BY <1>1, CliAllInvariant, PTL

(***************************************************************************)
(* The log is what was pushed, from the first block on and without a gap:  *)
(* one log worker writes it in the life of the process.                    *)
(***************************************************************************)
THEOREM LogCorrect == CliSpec => []LogIsPrefix
<1>1. ASSUME CliAll PROVE LogIsPrefix
  <2>1. TypeOK /\ BlockInv
    BY <1>1 DEF CliAll, LibInv
  <2>2. PICK c \in Starters : OneLogger(c)
    BY <2>1 DEF BlockInv, Logged
  <2> DEFINE p == pushed["log"]
             log == Taken[<<"log", c>>]
  <2>3. "log" \in Queues /\ <<"log", c>> \in Workers
    BY DEF Queues, Workers, Slots
  <2>4. p \in Seq(Blocks) /\ log \in Seq(Blocks)
    BY <2>1, <2>3 DEF BlockInv, HistoryTypes
  <2>5. InOrder(queue["log"], p)
    BY <2>1, <2>3 DEF BlockInv, AllShared, Shared
  <2>6. PrefixOf(log, p)
    BY <2>2 DEF OneLogger
  <2>7. Queued("log") = {p[i] : i \in (Len(log) + 1)..Len(p)}
    BY <2>1, <2>2, LogRest
  <2> HIDE DEF p, log
  <2>8. IsPrefix(log, p)
    BY <2>4, <2>6 DEF IsPrefix, PrefixOf
  <2> QED
    BY <2>5, <2>7, <2>8 DEF LogIsPrefix, p, log
<1> QED
  BY <1>1, CliAllInvariant, PTL

(***************************************************************************)
(* Log and files are fed alike: a client's blocks enter both queues once   *)
(* and in order, the file queue at most one behind.                        *)
(***************************************************************************)
THEOREM AgreeCorrect == CliSpec => []QueuesAgree
<1>1. ASSUME CliAll PROVE QueuesAgree
  <2>1. TypeOK /\ Ascending /\ Counted
    BY <1>1 DEF CliAll, LibInv, BlockInv
  <2>2. ASSUME NEW c \in Clients
        PROVE  \E n \in 0..sent[c] :
                  /\ Numbers(c, "log") = 1..n
                  /\ Numbers(c, "file") \in {1..n, 1..(n - 1)}
                  /\ call[c] # "push" => n = sent[c] /\ Numbers(c, "file") = 1..n
    <3>1. /\ sent[c] \in Nat /\ (call[c] = "push" => sent[c] > 0)
          /\ call[c] = "push" => todo[c] \in Pushes
      BY <2>1, TodoLists, LibAssumption DEF TypeOK
    <3>2. Numbers(c, "log") = 1..Reached(c, "log") /\ Numbers(c, "file") = 1..Reached(c, "file")
      BY <2>1 DEF Counted, Queues
    <3>3. CASE call[c] # "push"
      <4>1. Reached(c, "log") = sent[c] /\ Reached(c, "file") = sent[c]
        BY <3>3 DEF Reached
      <4> QED
        BY <3>1, <3>2, <4>1
    <3>4. CASE call[c] = "push" /\ todo[c] = <<"log", "file">>
      <4>1. Reached(c, "log") = sent[c] - 1 /\ Reached(c, "file") = sent[c] - 1
        BY <3>4, ElementsOfPush DEF Reached
      <4>2. sent[c] - 1 \in 0..sent[c]
        BY <3>1, <3>4
      <4>3. Numbers(c, "log") = 1..(sent[c] - 1) /\ Numbers(c, "file") = 1..(sent[c] - 1)
        BY <3>2, <4>1
      <4> QED
        BY <3>4, <4>2, <4>3
    <3>5. CASE call[c] = "push" /\ todo[c] = <<"file">>
      <4>1. Reached(c, "log") = sent[c] /\ Reached(c, "file") = sent[c] - 1
        BY <3>5, ElementsOfPush DEF Reached
      <4> QED
        BY <3>1, <3>2, <3>5, <4>1
    <3> QED
      BY <3>1, <3>3, <3>4, <3>5 DEF Pushes
  <2> QED
    BY <2>1, <2>2 DEF QueuesAgree, Ascending
<1> QED
  BY <1>1, CliAllInvariant, PTL
=============================================================================
