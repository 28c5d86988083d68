--------------------------- MODULE AsyncLibProofs ---------------------------
(***************************************************************************)
(* Theorems about AsyncLib, for any number of clients, and thus of         *)
(* restarts of the pool, and any number of blocks: types, the ownership of *)
(* the jthreads, and that workers and sentinels match (SentinelCover).     *)
(*                                                                         *)
(* The invariant of the last counts, so that its part of the module begins *)
(* with the cardinality of the three sets it counts; then comes what each  *)
(* action does to them.                                                    *)
(***************************************************************************)
EXTENDS AsyncLib, FiniteSetTheorems, TLAPS

-----------------------------------------------------------------------------
(***************************************************************************)
(* The lists that the loops of the calls work off are short and known.     *)
(***************************************************************************)
LEMMA ListFacts ==
    ASSUME NEW a, NEW b, NEW c
    PROVE  /\ Len(<<>>) = 0
           /\ Len(<<a>>) = 1 /\ Head(<<a>>) = a /\ Tail(<<a>>) = <<>>
           /\ Len(<<a, b>>) = 2 /\ Head(<<a, b>>) = a /\ Tail(<<a, b>>) = <<b>>
           /\ Len(<<a, b, c>>) = 3 /\ Head(<<a, b, c>>) = a
           /\ Tail(<<a, b, c>>) = <<b, c>>
  OBVIOUS

Starts == {<<"log", "file1", "file2">>, <<"file1", "file2">>, <<"file2">>}
Pushes == {<<"log", "file">>, <<"file">>}
Stops == {<<"log", "file", "file">>, <<"file", "file">>, <<"file">>}

LEMMA StartList ==
    ASSUME NEW t \in Starts
    PROVE  /\ t \in Seq(Slots \cup Queues)
           /\ Head(t) \in Slots
           /\ Len(t) > 1 => Tail(t) \in Starts
           /\ ~(Len(t) > 1) => Tail(t) = <<>>
           /\ Tail(t) \in Seq(Slots \cup Queues)
<1>1. CASE t = <<"log", "file1", "file2">>
  BY <1>1, ListFacts DEF Starts, Slots, Queues
<1>2. CASE t = <<"file1", "file2">>
  BY <1>2, ListFacts DEF Starts, Slots, Queues
<1>3. CASE t = <<"file2">>
  BY <1>3, ListFacts DEF Starts, Slots, Queues
<1> QED
  BY <1>1, <1>2, <1>3 DEF Starts

LEMMA PushList ==
    ASSUME NEW t \in Pushes
    PROVE  /\ t \in Seq(Slots \cup Queues)
           /\ Head(t) \in Queues
           /\ Len(t) > 1 => Tail(t) \in Pushes
           /\ ~(Len(t) > 1) => Tail(t) = <<>>
           /\ Tail(t) \in Seq(Slots \cup Queues)
<1>1. CASE t = <<"log", "file">>
  BY <1>1, ListFacts DEF Pushes, Slots, Queues
<1>2. CASE t = <<"file">>
  BY <1>2, ListFacts DEF Pushes, Slots, Queues
<1> QED
  BY <1>1, <1>2 DEF Pushes

LEMMA StopList ==
    ASSUME NEW t \in Stops
    PROVE  /\ t \in Seq(Slots \cup Queues)
           /\ Head(t) \in Queues
           /\ Len(t) > 1 => Tail(t) \in Stops
           /\ ~(Len(t) > 1) => Tail(t) = <<>>
           /\ Tail(t) \in Seq(Slots \cup Queues)
<1>1. CASE t = <<"log", "file", "file">>
  BY <1>1, ListFacts DEF Stops, Slots, Queues
<1>2. CASE t = <<"file", "file">>
  BY <1>2, ListFacts DEF Stops, Slots, Queues
<1>3. CASE t = <<"file">>
  BY <1>3, ListFacts DEF Stops, Slots, Queues
<1> QED
  BY <1>1, <1>2, <1>3 DEF Stops

\* TodoOK in terms of these sets.
LEMMA TodoLists ==
    ASSUME NEW c \in Clients
    PROVE  TodoOK(c) <=>
              /\ call[c] \in {"spawn", "join"} => todo[c] \in Starts
              /\ call[c] = "push" => todo[c] \in Pushes
              /\ call[c] = "sentinel" => todo[c] \in Stops
              /\ call[c] \notin {"spawn", "join", "push", "sentinel"} => todo[c] = <<>>
  BY DEF TodoOK, Starts, Pushes, Stops

Labels == {"new", "spawn", "join", "emplace", "open", "push", "check", "stop",
           "sentinel", "closed"}

\* What label l allows todo to be.
Fits(l, t) ==
    /\ l \in {"spawn", "join"} => t \in Starts
    /\ l = "push" => t \in Pushes
    /\ l = "sentinel" => t \in Stops
    /\ l \notin {"spawn", "join", "push", "sentinel"} => t = <<>>

\* A step of client c that leaves it at label l with list t.
LEMMA ListStep ==
    ASSUME TypeOK, NEW c \in Clients, NEW l \in Labels, NEW t, Fits(l, t),
           call' = [call EXCEPT ![c] = l],
           todo' = [todo EXCEPT ![c] = t]
    PROVE  /\ call' \in [Clients -> Labels]
           /\ todo' \in [Clients -> Seq(Slots \cup Queues)]
           /\ \A d \in Clients : TodoOK(d)'
<1>1. t \in Seq(Slots \cup Queues)
  <2>1. t \in Starts \/ t \in Pushes \/ t \in Stops \/ t = <<>>
    BY DEF Fits
  <2>2. <<>> \in Seq(Slots \cup Queues)
    OBVIOUS
  <2> QED
    BY <2>1, <2>2, StartList, PushList, StopList
<1>2. /\ call' \in [Clients -> Labels]
      /\ todo' \in [Clients -> Seq(Slots \cup Queues)]
  BY <1>1 DEF TypeOK, Labels
<1>3. ASSUME NEW d \in Clients PROVE TodoOK(d)'
  <2>1. CASE d = c
    <3>1. call'[d] = l /\ todo'[d] = t
      BY <2>1 DEF TypeOK
    <3> QED
      BY <3>1 DEF Fits, TodoOK, Starts, Pushes, Stops
  <2>2. CASE d # c
    <3>1. call'[d] = call[d] /\ todo'[d] = todo[d] /\ TodoOK(d)
      BY <2>2 DEF TypeOK
    <3> QED
      BY <3>1 DEF TodoOK
  <2> QED
    BY <2>1, <2>2
<1> QED
  BY <1>2, <1>3

\* The list a client is working off has something left.
LEMMA ListNow ==
    ASSUME TypeOK, NEW c \in Clients
    PROVE  Fits(call[c], todo[c]) /\ call[c] \in Labels
  BY DEF TypeOK, TodoOK, Fits, Starts, Pushes, Stops, Labels

-----------------------------------------------------------------------------
LEMMA InitType == Init => TypeOK
  BY LibAssumption
     DEF Init, InitWith, TypeOK, TodoOK, Starters, Workers, Slots, Queues, Sentinel

\* Steps that neither touch todo nor start from a loop.
LEMMA SimpleStep ==
    ASSUME TypeOK, NEW c \in Clients, NEW l \in Labels, Goto(c, l), UNCHANGED todo,
           Fits(l, todo[c])
    PROVE  /\ call' \in [Clients -> Labels]
           /\ todo' \in [Clients -> Seq(Slots \cup Queues)]
           /\ \A d \in Clients : TodoOK(d)'
<1>1. todo' = [todo EXCEPT ![c] = todo[c]]
  BY DEF TypeOK
<1> QED
  BY <1>1, ListStep DEF Goto

\* A step of a loop of client c.
LEMMA AdvanceStep ==
    ASSUME TypeOK, NEW c \in Clients, NEW l \in Labels, NEW e \in Labels,
           call[c] \in {"spawn", "join"} => l = "spawn",
           call[c] \in {"push", "sentinel"} => l = call[c],
           call[c] \in {"spawn", "join", "push", "sentinel"},
           e \notin {"spawn", "join", "push", "sentinel"},
           Advance(c, l, e)
    PROVE  /\ call' \in [Clients -> Labels]
           /\ todo' \in [Clients -> Seq(Slots \cup Queues)]
           /\ \A d \in Clients : TodoOK(d)'
<1> DEFINE n == IF Len(todo[c]) > 1 THEN l ELSE e
<1>1. todo' = [todo EXCEPT ![c] = Tail(todo[c])] /\ call' = [call EXCEPT ![c] = n]
  BY DEF Advance, Goto
<1>2. n \in Labels
  OBVIOUS
<1>3. Fits(n, Tail(todo[c]))
  <2>1. CASE call[c] \in {"spawn", "join"}
    BY <2>1, ListNow, StartList DEF Fits
  <2>2. CASE call[c] = "push"
    BY <2>2, ListNow, PushList DEF Fits
  <2>3. CASE call[c] = "sentinel"
    BY <2>3, ListNow, StopList DEF Fits
  <2> QED
    BY <2>1, <2>2, <2>3
<1> HIDE DEF n
<1> QED
  BY <1>1, <1>2, <1>3, ListStep

\* Receiving and disconnecting both may start to push a block.
LEMMA BeginPushStep ==
    ASSUME TypeOK, NEW c \in Clients, BeginPush(c)
    PROVE  /\ call' \in [Clients -> Labels]
           /\ todo' \in [Clients -> Seq(Slots \cup Queues)]
           /\ \A d \in Clients : TodoOK(d)'
           /\ sent' \in [Clients -> 0..MaxBlocks]
           /\ \A d \in Clients : call'[d] = "push" => sent'[d] > 0
<1>1. /\ call' = [call EXCEPT ![c] = "push"]
      /\ todo' = [todo EXCEPT ![c] = <<"log", "file">>]
      /\ sent' = [sent EXCEPT ![c] = sent[c] + 1]
      /\ sent[c] < MaxBlocks
  BY DEF BeginPush, Goto, Destinations
<1>2. Fits("push", <<"log", "file">>)
  BY DEF Fits, Pushes
<1>3. sent' \in [Clients -> 0..MaxBlocks]
  BY <1>1, LibAssumption DEF TypeOK
<1>4. \A d \in Clients : call'[d] = "push" => sent'[d] > 0
  BY <1>1 DEF TypeOK
<1>5. "push" \in Labels
  BY DEF Labels
<1> QED
  BY <1>1, <1>2, <1>3, <1>4, <1>5, ListStep

\* The conjuncts of TypeOK about calls and those about everything else.
CallsOK ==
    /\ call \in [Clients -> Labels]
    /\ todo \in [Clients -> Seq(Slots \cup Queues)]
    /\ \A d \in Clients : TodoOK(d)

RestOK ==
    /\ running \in BOOLEAN
    /\ contexts \subseteq Clients
    /\ sent \in [Clients -> 0..MaxBlocks]
    /\ \A d \in Clients : call[d] = "push" => sent[d] > 0
    /\ queue \in [Queues -> Seq(Blocks \cup {Sentinel})]
    /\ handle \in [Slots -> Starters]
    /\ worker \in [Workers -> {"none", "loop", "pop", "write", "done"}]

LEMMA TypeParts == TypeOK <=> CallsOK /\ RestOK
  BY DEF TypeOK, CallsOK, RestOK, Labels

LEMMA EnqueueType ==
    ASSUME TypeOK, NEW q \in Queues, NEW b \in Blocks \cup {Sentinel}, Enqueue(q, b)
    PROVE  queue' \in [Queues -> Seq(Blocks \cup {Sentinel})]
  BY DEF TypeOK, Enqueue

LEMMA NextType == TypeOK /\ [Next]_libVars => TypeOK'
<1> SUFFICES ASSUME TypeOK, [Next]_libVars PROVE CallsOK' /\ RestOK'
  BY DEF TypeOK, CallsOK, RestOK, Labels
<1> USE LibAssumption
<1>1. ASSUME NEW c \in Clients, connect(c) PROVE CallsOK' /\ RestOK'
  <2>1. ASSUME running PROVE CallsOK'
    BY <1>1, <2>1, ListNow, SimpleStep DEF connect, Fits, Labels, CallsOK
  <2>2. ASSUME ~running PROVE CallsOK'
    BY <1>1, <2>2, ListStep DEF connect, Goto, Fits, Labels, Starts, CallsOK
  <2>3. RestOK'
    BY <1>1 DEF connect, Goto, TypeOK, RestOK, poolVars
  <2> QED
    BY <2>1, <2>2, <2>3 DEF CallsOK
<1>2. ASSUME NEW c \in Clients, spawn(c) PROVE CallsOK' /\ RestOK'
  <2>1. CallsOK'
    BY <1>2, ListNow, SimpleStep DEF spawn, Fits, Labels, CallsOK
  <2>2. RestOK'
    BY <1>2 DEF spawn, Goto, TypeOK, RestOK
  <2> QED
    BY <2>1, <2>2
<1>3. ASSUME NEW c \in Clients, join(c) PROVE CallsOK' /\ RestOK'
  <2>1. CallsOK'
    BY <1>3, AdvanceStep DEF join, Labels, CallsOK
  <2>2. RestOK'
    BY <1>3 DEF join, Advance, Goto, TypeOK, RestOK, Starters
  <2> QED
    BY <2>1, <2>2
<1>4. ASSUME NEW c \in Clients, emplace_back(c) PROVE CallsOK' /\ RestOK'
  <2>1. CallsOK'
    BY <1>4, ListNow, SimpleStep DEF emplace_back, Fits, Labels, CallsOK
  <2>2. RestOK'
    BY <1>4 DEF emplace_back, Goto, TypeOK, RestOK, poolVars
  <2> QED
    BY <2>1, <2>2
<1>5. ASSUME NEW c \in Clients, receive(c) PROVE CallsOK' /\ RestOK'
  <2>1. BeginPush(c) /\ UNCHANGED <<running, contexts, queue, handle, worker>>
    BY <1>5 DEF receive, poolVars
  <2> QED
    BY <2>1, BeginPushStep DEF TypeOK, CallsOK, RestOK
<1>6. ASSUME NEW c \in Clients, push_block(c) PROVE CallsOK' /\ RestOK'
  <2>1. CallsOK'
    BY <1>6, AdvanceStep DEF push_block, Labels, CallsOK
  <2>2. [ctx |-> c, n |-> sent[c]] \in Blocks
    BY <1>6 DEF push_block, TypeOK, Blocks
  <2>3. Head(todo[c]) \in Queues
    BY <1>6, ListNow, PushList DEF push_block, Fits
  <2>4. queue' \in [Queues -> Seq(Blocks \cup {Sentinel})]
    BY <1>6, <2>2, <2>3, EnqueueType DEF push_block
  <2>5. RestOK'
    BY <1>6, <2>4 DEF push_block, Advance, Goto, TypeOK, RestOK, poolVars
  <2> QED
    BY <2>1, <2>5
<1>7. ASSUME NEW c \in Clients, disconnect(c) PROVE CallsOK' /\ RestOK'
  <2>1. /\ contexts' \subseteq Clients
        /\ UNCHANGED <<running, queue, handle, worker>>
    BY <1>7 DEF disconnect, poolVars, TypeOK
  <2>2. CASE BeginPush(c)
    BY <2>1, <2>2, BeginPushStep DEF TypeOK, CallsOK, RestOK
  <2>3. CASE Goto(c, "check") /\ UNCHANGED <<todo, sent>>
    <3>1. call[c] = "open" /\ "check" \in Labels
      BY <1>7 DEF disconnect, Labels
    <3>2. CallsOK'
      BY <2>3, <3>1, ListNow, SimpleStep DEF Fits, CallsOK
    <3>3. RestOK'
      BY <2>1, <2>3 DEF Goto, TypeOK, RestOK
    <3> QED
      BY <3>2, <3>3
  <2> QED
    BY <1>7, <2>2, <2>3 DEF disconnect
<1>8. ASSUME NEW c \in Clients, check_contexts(c) PROVE CallsOK' /\ RestOK'
  <2>1. CallsOK'
    BY <1>8, ListNow, SimpleStep DEF check_contexts, Fits, Labels, CallsOK
  <2>2. RestOK'
    BY <1>8 DEF check_contexts, Goto, TypeOK, RestOK, poolVars
  <2> QED
    BY <2>1, <2>2
<1>9. ASSUME NEW c \in Clients, request_shutdown(c) PROVE CallsOK' /\ RestOK'
  <2>1. ASSUME ~running PROVE CallsOK'
    BY <1>9, <2>1, ListNow, SimpleStep DEF request_shutdown, Fits, Labels, CallsOK
  <2>2. ASSUME running PROVE CallsOK'
    BY <1>9, <2>2, ListStep
       DEF request_shutdown, Goto, Fits, Labels, Stops, Sentinels, CallsOK
  <2>3. RestOK'
    BY <1>9 DEF request_shutdown, Goto, TypeOK, RestOK, poolVars
  <2> QED
    BY <2>1, <2>2, <2>3
<1>10. ASSUME NEW c \in Clients, push_sentinel(c) PROVE CallsOK' /\ RestOK'
  <2>1. CallsOK'
    BY <1>10, AdvanceStep DEF push_sentinel, Labels, CallsOK
  <2>2. Head(todo[c]) \in Queues
    BY <1>10, ListNow, StopList DEF push_sentinel, Fits
  <2>3. queue' \in [Queues -> Seq(Blocks \cup {Sentinel})]
    BY <1>10, <2>2, EnqueueType DEF push_sentinel
  <2>4. RestOK'
    BY <1>10, <2>3 DEF push_sentinel, Advance, Goto, TypeOK, RestOK, poolVars
  <2> QED
    BY <2>1, <2>4
<1>11. ASSUME NEW w \in Workers, read_running(w) PROVE CallsOK' /\ RestOK'
  <2>1. UNCHANGED <<call, todo, sent>> /\ RestOK'
    BY <1>11 DEF read_running, TypeOK, RestOK, clientVars
  <2> QED
    BY <2>1, TypeParts DEF CallsOK, TodoOK
<1>12. ASSUME NEW w \in Workers, pop(w) PROVE CallsOK' /\ RestOK'
  <2>1. QueueOf(w[1]) \in Queues
    BY DEF QueueOf, Queues
  <2>2. queue' \in [Queues -> Seq(Blocks \cup {Sentinel})]
    BY <1>12, <2>1 DEF pop, Dequeue, TypeOK
  <2>3. UNCHANGED <<call, todo, sent>> /\ RestOK'
    BY <1>12, <2>2 DEF pop, TypeOK, RestOK, clientVars
  <2> QED
    BY <2>3, TypeParts DEF CallsOK, TodoOK
<1>13. ASSUME NEW w \in Workers, write(w) PROVE CallsOK' /\ RestOK'
  <2>1. UNCHANGED <<call, todo, sent>> /\ RestOK'
    BY <1>13 DEF write, TypeOK, RestOK, clientVars
  <2> QED
    BY <2>1, TypeParts DEF CallsOK, TodoOK
<1>14. CASE UNCHANGED libVars
  BY <1>14, TypeParts DEF libVars, clientVars, poolVars, CallsOK, RestOK, TodoOK
<1> QED
  BY <1>1, <1>2, <1>3, <1>4, <1>5, <1>6, <1>7, <1>8, <1>9, <1>10, <1>11, <1>12, <1>13, <1>14
     DEF Next, ClientStep, WorkerStep

(***************************************************************************)
(* Types, and what every loop of a library call has left to do.            *)
(***************************************************************************)
THEOREM LibTypeCorrect == Spec => []TypeOK
  BY InitType, NextType, PTL DEF Spec

-----------------------------------------------------------------------------
(***************************************************************************)
(* jthread ownership.                                                      *)
(***************************************************************************)
LEMMA InitOwned == Init => LiveWorkersAreOwned
  BY LibAssumption
     DEF Init, InitWith, LiveWorkersAreOwned, Alive, Workers, Starters, Slots

LEMMA NextOwned ==
    TypeOK /\ LiveWorkersAreOwned /\ [Next]_libVars => LiveWorkersAreOwned'
<1> SUFFICES ASSUME TypeOK, LiveWorkersAreOwned, [Next]_libVars,
                    NEW s \in Slots, NEW st \in Starters, Alive(<<s, st>>)'
             PROVE  \/ handle'[s] = st
                    \/ st \in Clients /\ call'[st] = "join" /\ Head(todo'[st]) = s
  BY DEF LiveWorkersAreOwned
<1> DEFINE Owned == \/ handle[s] = st
                    \/ st \in Clients /\ call[st] = "join" /\ Head(todo[st]) = s
           Goal == \/ handle'[s] = st
                   \/ st \in Clients /\ call'[st] = "join" /\ Head(todo'[st]) = s
<1>0. <<s, st>> \in Workers
  BY DEF Workers
<1>1. ASSUME NEW c \in Clients, spawn(c) PROVE Goal
  <2>1. CASE st = c /\ s = Head(todo[c])
    BY <1>1, <2>1 DEF spawn, Goto, TypeOK
  <2>2. CASE ~(st = c /\ s = Head(todo[c]))
    <3>1. Alive(<<s, st>>)
      BY <1>0, <1>1, <2>2 DEF spawn, Alive, TypeOK
    <3>2. Owned
      BY <3>1 DEF LiveWorkersAreOwned
    <3> QED
      BY <1>1, <3>2 DEF spawn, Goto, TypeOK
  <2> QED
    BY <2>1, <2>2
<1>2. ASSUME NEW c \in Clients, join(c) PROVE Goal
  <2>1. Alive(<<s, st>>) /\ Owned
    BY <1>2 DEF join, Alive, LiveWorkersAreOwned
  <2>2. Head(todo[c]) \in Slots
    BY <1>2, ListNow, StartList DEF join, Fits
  <2>3. CASE s = Head(todo[c])
    <3>1. handle[s] # st
      BY <1>2, <2>1, <2>3 DEF join, Joined, Alive
    <3>2. st \in Clients /\ call[st] = "join" /\ Head(todo[st]) = s
      BY <2>1, <3>1
    <3> QED
      BY <1>2, <2>3, <3>2 DEF join, Advance, Goto, TypeOK
  <2>4. CASE s # Head(todo[c])
    BY <1>2, <2>1, <2>2, <2>4 DEF join, Advance, Goto, TypeOK
  <2> QED
    BY <2>3, <2>4
<1> DEFINE Elsewhere(c) ==
              /\ UNCHANGED <<handle, worker>>
              /\ call[c] # "join"
              /\ \A d \in Clients \ {c} : call'[d] = call[d] /\ todo'[d] = todo[d]
<1>3. ASSUME NEW c \in Clients, Elsewhere(c) PROVE Goal
  <2>1. Alive(<<s, st>>) /\ Owned
    BY <1>3 DEF Alive, LiveWorkersAreOwned
  <2> QED
    BY <1>3, <2>1
<1>4. ASSUME NEW c \in Clients,
             connect(c) \/ emplace_back(c) \/ receive(c) \/ disconnect(c)
                \/ check_contexts(c) \/ request_shutdown(c)
      PROVE  Elsewhere(c)
  BY <1>4 DEF connect, emplace_back, receive, disconnect, BeginPush, check_contexts,
              request_shutdown, Goto, poolVars, TypeOK
<1>5. ASSUME NEW c \in Clients, push_block(c) \/ push_sentinel(c) PROVE Elsewhere(c)
  BY <1>5 DEF push_block, push_sentinel, Advance, Goto, poolVars, TypeOK
<1>6. ASSUME NEW w \in Workers, read_running(w) \/ pop(w) \/ write(w) PROVE Goal
  <2>1. /\ UNCHANGED <<handle, call, todo>>
        /\ worker[w] \in {"loop", "pop", "write"}
        /\ \A v \in Workers \ {w} : worker'[v] = worker[v]
    BY <1>6 DEF read_running, pop, write, clientVars, TypeOK
  <2>2. Alive(<<s, st>>)
    BY <1>0, <2>1 DEF Alive
  <2> QED
    BY <2>1, <2>2 DEF LiveWorkersAreOwned
<1>7. CASE UNCHANGED libVars
  BY <1>7 DEF libVars, clientVars, poolVars, LiveWorkersAreOwned, Alive
<1> HIDE DEF Elsewhere
<1> QED
  BY <1>1, <1>2, <1>3, <1>4, <1>5, <1>6, <1>7 DEF Next, ClientStep, WorkerStep

(***************************************************************************)
(* However connects, disconnects and workers interleave, a live worker is  *)
(* owned by the jthread member of its slot or is being handed to it.       *)
(***************************************************************************)
THEOREM OwnershipCorrect == Spec => []LiveWorkersAreOwned
<1>1. Init => TypeOK /\ LiveWorkersAreOwned
  BY InitType, InitOwned
<1>2. TypeOK /\ LiveWorkersAreOwned /\ [Next]_libVars
         => (TypeOK /\ LiveWorkersAreOwned)'
  BY NextType, NextOwned
<1> QED
  BY <1>1, <1>2, PTL DEF Spec

-----------------------------------------------------------------------------
(* Counting the occurrences of an element in a sequence *)

Where(s, x) == {i \in DOMAIN s : s[i] = x}

LEMMA WhereFinite ==
    ASSUME NEW S, NEW s \in Seq(S), NEW x
    PROVE  IsFiniteSet(Where(s, x)) /\ Cardinality(Where(s, x)) \in Nat
<1>1. IsFiniteSet(1..Len(s))
  BY FS_Interval
<1>2. Where(s, x) \in SUBSET (1..Len(s))
  BY DEF Where
<1> QED
  BY <1>1, <1>2, FS_Subset, FS_CardinalityType

LEMMA WhereAppend ==
    ASSUME NEW S, NEW s \in Seq(S), NEW x, NEW y \in S
    PROVE  Cardinality(Where(Append(s, y), x)) =
              Cardinality(Where(s, x)) + (IF y = x THEN 1 ELSE 0)
<1>1. Len(s) + 1 \notin Where(s, x)
  BY DEF Where
<1>2. CASE y = x
  <2>1. Where(Append(s, y), x) = Where(s, x) \cup {Len(s) + 1}
    BY <1>2 DEF Where
  <2> QED
    BY <1>1, <1>2, <2>1, WhereFinite, FS_AddElement
<1>3. CASE y # x
  <2>1. Where(Append(s, y), x) = Where(s, x)
    BY <1>3 DEF Where
  <2> QED
    BY <1>3, <2>1, WhereFinite
<1> QED
  BY <1>2, <1>3

LEMMA WhereTail ==
    ASSUME NEW S, NEW s \in Seq(S), s # <<>>, NEW x
    PROVE  Cardinality(Where(Tail(s), x)) =
              Cardinality(Where(s, x)) - (IF Head(s) = x THEN 1 ELSE 0)
<1> DEFINE A == Where(Tail(s), x)
           B == Where(s, x) \ {1}
           f == [i \in A |-> i + 1]
<1>1. /\ Tail(s) \in Seq(S)
      /\ Len(s) \in Nat \ {0}
      /\ DOMAIN s = 1..Len(s)
      /\ DOMAIN Tail(s) = 1..(Len(s) - 1)
      /\ \A i \in 1..(Len(s) - 1) : Tail(s)[i] = s[i + 1]
      /\ Head(s) = s[1]
  OBVIOUS
<1>2. f \in Bijection(A, B)
  <2>1. f \in [A -> B]
    BY <1>1 DEF Where
  <2>2. \A i, j \in A : f[i] = f[j] => i = j
    BY <1>1 DEF Where
  <2>3. ASSUME NEW k \in B PROVE \E i \in A : f[i] = k
    <3>1. k - 1 \in A
      BY <1>1, <2>3 DEF Where
    <3>2. f[k - 1] = k
      BY <1>1, <2>3, <3>1 DEF Where
    <3> QED
      BY <3>1, <3>2
  <2> QED
    BY <2>1, <2>2, <2>3, Zenon
       DEF Bijection, Injection, Surjection, IsInjective
<1>3. IsFiniteSet(A)
  BY <1>1, WhereFinite
<1>4. Cardinality(A) = Cardinality(B)
  BY <1>2, <1>3, FS_Bijection DEF ExistsBijection
<1>5. 1 \in Where(s, x) <=> Head(s) = x
  BY <1>1 DEF Where
<1> HIDE DEF A, B, f
<1>6. Cardinality(Where(s, x) \ {1}) =
         IF Head(s) = x THEN Cardinality(Where(s, x)) - 1
                        ELSE Cardinality(Where(s, x))
  BY <1>5, WhereFinite, FS_RemoveElement
<1> QED
  BY <1>4, <1>6, WhereFinite DEF A, B

-----------------------------------------------------------------------------
(* The three sets are finite *)

LEMMA AddBound ==
    ASSUME NEW S, IsFiniteSet(S), NEW x
    PROVE  /\ IsFiniteSet(S \cup {x})
           /\ Cardinality(S \cup {x}) \in Nat
           /\ Cardinality(S \cup {x}) <= Cardinality(S) + 1
<1>1. Cardinality(S) \in Nat
  BY FS_CardinalityType
<1>2. /\ IsFiniteSet(S \cup {x})
      /\ Cardinality(S \cup {x}) = IF x \in S THEN Cardinality(S) ELSE Cardinality(S) + 1
  BY FS_AddElement
<1> QED
  BY <1>1, <1>2

LEMMA SlotsAdded == Slots = (({} \cup {"log"}) \cup {"file1"}) \cup {"file2"}
  BY DEF Slots

LEMMA WorkersFinite == IsFiniteSet(Workers)
<1>1. IsFiniteSet(Slots)
  BY FS_EmptySet, FS_AddElement, SlotsAdded
<1>2. IsFiniteSet(Starters)
  BY LibAssumption, FS_AddElement DEF Starters
<1> QED
  BY <1>1, <1>2, FS_Product DEF Workers

LEMMA ConsumersFinite ==
    ASSUME NEW q
    PROVE  /\ IsFiniteSet(Consumers(q)) /\ Cardinality(Consumers(q)) \in Nat
           /\ IsFiniteSet(Consumers(q)') /\ Cardinality(Consumers(q)') \in Nat
<1>1. Consumers(q) \in SUBSET Workers /\ Consumers(q)' \in SUBSET Workers
  BY DEF Consumers
<1> QED
  BY <1>1, WorkersFinite, FS_Subset, FS_CardinalityType

LEMMA SentinelsFinite ==
    ASSUME TypeOK, NEW q \in Queues
    PROVE  /\ SentinelsIn(q) = Where(queue[q], Sentinel)
           /\ Cardinality(SentinelsIn(q)) \in Nat
<1>1. SentinelsIn(q) = Where(queue[q], Sentinel)
  BY DEF SentinelsIn, Where
<1>2. queue[q] \in Seq(Blocks \cup {Sentinel})
  BY DEF TypeOK
<1> QED
  BY <1>1, <1>2, WhereFinite

LEMMA ToComeFinite ==
    ASSUME NEW q
    PROVE  /\ IsFiniteSet(SentinelsToCome(q))
           /\ Cardinality(SentinelsToCome(q)) \in Nat
           /\ IsFiniteSet(SentinelsToCome(q)')
           /\ Cardinality(SentinelsToCome(q)') \in Nat
<1>1. IsFiniteSet(1..3)
  <2>1. 1 \in Int /\ 3 \in Int
    OBVIOUS
  <2> QED
    BY <2>1, FS_Interval
<1>2. IsFiniteSet(Clients \X (1..3))
  BY <1>1, LibAssumption, FS_Product
<1>3. /\ SentinelsToCome(q) \in SUBSET (Clients \X (1..3))
      /\ SentinelsToCome(q)' \in SUBSET (Clients \X (1..3))
  BY DEF SentinelsToCome
<1> QED
  BY <1>2, <1>3, FS_Subset, FS_CardinalityType

-----------------------------------------------------------------------------
(* What a connect has still to spawn *)

LEMMA StartElements ==
    ASSUME NEW t \in Starts
    PROVE  /\ Elements(t) \subseteq Slots
           /\ Head(t) \in Elements(t)
           /\ Elements(Tail(t)) = Elements(t) \ {Head(t)}
<1>1. CASE t = <<"log", "file1", "file2">>
  <2>1. DOMAIN t = {1, 2, 3} /\ DOMAIN Tail(t) = {1, 2}
    BY <1>1, ListFacts
  <2>2. Head(t) = "log" /\ Tail(t) = <<"file1", "file2">>
    BY <1>1, ListFacts
  <2> QED
    BY <1>1, <2>1, <2>2 DEF Elements, Slots
<1>2. CASE t = <<"file1", "file2">>
  <2>1. DOMAIN t = {1, 2} /\ DOMAIN Tail(t) = {1}
    BY <1>2, ListFacts
  <2>2. Head(t) = "file1" /\ Tail(t) = <<"file2">>
    BY <1>2, ListFacts
  <2> QED
    BY <1>2, <2>1, <2>2 DEF Elements, Slots
<1>3. CASE t = <<"file2">>
  <2>1. DOMAIN t = {1} /\ DOMAIN Tail(t) = {}
    BY <1>3, ListFacts
  <2>2. Head(t) = "file2"
    BY <1>3, ListFacts
  <2> QED
    BY <1>3, <2>1, <2>2 DEF Elements, Slots
<1> QED
  BY <1>1, <1>2, <1>3 DEF Starts

LEMMA ToSpawnIs ==
    ASSUME NEW c \in Clients
    PROVE  /\ call[c] = "spawn" => ToSpawn(c) = Elements(todo[c])
           /\ call[c] = "join" => ToSpawn(c) = Elements(Tail(todo[c]))
           /\ call[c] \notin {"spawn", "join"} => ToSpawn(c) = {}
           /\ call'[c] = "spawn" => ToSpawn(c)' = Elements(todo'[c])
           /\ call'[c] = "join" => ToSpawn(c)' = Elements(Tail(todo'[c]))
           /\ call'[c] \notin {"spawn", "join"} => ToSpawn(c)' = {}
  BY DEF ToSpawn

\* A step of one client leaves the calls of the others alone.
LEMMA OtherClients ==
    ASSUME TypeOK, NEW c \in Clients, ClientStep(c), NEW d \in Clients, d # c
    PROVE  /\ call'[d] = call[d] /\ todo'[d] = todo[d]
           /\ ToSpawn(d)' = ToSpawn(d)
<1>1. call'[d] = call[d] /\ todo'[d] = todo[d]
  BY DEF ClientStep, connect, spawn, join, emplace_back, receive, push_block,
         disconnect, check_contexts, request_shutdown, push_sentinel,
         BeginPush, Advance, Goto, TypeOK
<1> QED
  BY <1>1 DEF ToSpawn

\* Only connect adds to what is to be spawned; spawn removes what it spawns.
LEMMA ToSpawnStep ==
    ASSUME TypeOK, NEW c \in Clients, ClientStep(c)
    PROVE  /\ connect(c) => ToSpawn(c)' \subseteq Slots
           /\ connect(c) /\ running => ToSpawn(c)' = {}
           /\ spawn(c) => /\ Head(todo[c]) \in ToSpawn(c)
                          /\ ToSpawn(c)' = ToSpawn(c) \ {Head(todo[c])}
           /\ ~connect(c) => ToSpawn(c)' \subseteq ToSpawn(c)
<1>1. ASSUME connect(c) PROVE ToSpawn(c)' \subseteq Slots
  <2>1. CASE running
    BY <1>1, <2>1, ToSpawnIs DEF connect, Goto, TypeOK
  <2>2. CASE ~running
    <3>1. call'[c] = "spawn" /\ todo'[c] = <<"log", "file1", "file2">>
      BY <1>1, <2>2 DEF connect, Goto, TypeOK
    <3>2. todo'[c] \in Starts
      BY <3>1 DEF Starts
    <3> QED
      BY <3>1, <3>2, ToSpawnIs, StartElements
  <2> QED
    BY <2>1, <2>2
<1>2. ASSUME connect(c), running PROVE ToSpawn(c)' = {}
  BY <1>2, ToSpawnIs DEF connect, Goto, TypeOK
<1>3. ASSUME spawn(c)
      PROVE  /\ Head(todo[c]) \in ToSpawn(c)
             /\ ToSpawn(c)' = ToSpawn(c) \ {Head(todo[c])}
  <2>1. /\ call[c] = "spawn" /\ call'[c] = "join" /\ todo'[c] = todo[c]
        /\ todo[c] \in Starts
    BY <1>3, ListNow DEF spawn, Goto, TypeOK, Fits
  <2> QED
    BY <2>1, ToSpawnIs, StartElements
<1>4. ASSUME join(c) PROVE ToSpawn(c)' \subseteq ToSpawn(c)
  <2>1. /\ call[c] = "join" /\ todo'[c] = Tail(todo[c])
        /\ call'[c] \in {"spawn", "emplace"}
    BY <1>4 DEF join, Advance, Goto, TypeOK
  <2> QED
    BY <2>1, ToSpawnIs
<1>5. ASSUME ~connect(c), ~spawn(c), ~join(c) PROVE ToSpawn(c)' = {}
  <2>1. call'[c] \notin {"spawn", "join"}
    BY <1>5 DEF ClientStep, emplace_back, receive, push_block, disconnect,
                check_contexts, request_shutdown, push_sentinel,
                BeginPush, Advance, Goto, TypeOK
  <2> QED
    BY <2>1, ToSpawnIs
<1> QED
  BY <1>1, <1>2, <1>3, <1>4, <1>5

(***************************************************************************)
(* The strengthening: a worker is to be spawned once at most, since its    *)
(* client connects once.                                                   *)
(***************************************************************************)
NotYetSpawned ==
    \A c \in Clients, s \in Slots :
        call[c] = "new" \/ s \in ToSpawn(c) => worker[<<s, c>>] = "none"

LEMMA InitFresh == Init => NotYetSpawned
<1> SUFFICES ASSUME Init, NEW c \in Clients, NEW s \in Slots
             PROVE  worker[<<s, c>>] = "none"
  BY DEF NotYetSpawned
<1>1. <<s, c>> \in Workers /\ c # Main
  BY LibAssumption DEF Workers, Starters
<1> QED
  BY <1>1 DEF Init, InitWith

LEMMA NextFresh == TypeOK /\ NotYetSpawned /\ [Next]_libVars => NotYetSpawned'
<1> SUFFICES ASSUME TypeOK, NotYetSpawned, [Next]_libVars,
                    NEW d \in Clients, NEW s \in Slots,
                    call'[d] = "new" \/ s \in ToSpawn(d)'
             PROVE  worker'[<<s, d>>] = "none"
  BY DEF NotYetSpawned
<1>0. <<s, d>> \in Workers
  BY DEF Workers, Starters
<1>1. ASSUME NEW c \in Clients, ClientStep(c), d # c
      PROVE  worker'[<<s, d>>] = "none"
  <2>1. worker[<<s, d>>] = "none"
    BY <1>1, OtherClients DEF NotYetSpawned
  <2>2. worker'[<<s, d>>] = worker[<<s, d>>]
    BY <1>0, <1>1
       DEF ClientStep, connect, spawn, join, emplace_back, receive, push_block,
           disconnect, check_contexts, request_shutdown, push_sentinel, poolVars, TypeOK
  <2> QED
    BY <2>1, <2>2
<1>2. ASSUME ClientStep(d) PROVE worker'[<<s, d>>] = "none"
  <2>1. call'[d] # "new"
    BY <1>2 DEF ClientStep, connect, spawn, join, emplace_back, receive, push_block,
                disconnect, check_contexts, request_shutdown, push_sentinel,
                BeginPush, Advance, Goto, TypeOK
  <2>2. CASE connect(d)
    BY <2>2 DEF connect, poolVars, NotYetSpawned
  <2>3. CASE spawn(d)
    <3>1. s \in ToSpawn(d) /\ s # Head(todo[d])
      BY <1>2, <2>1, <2>3, ToSpawnStep
    <3>2. worker[<<s, d>>] = "none"
      BY <3>1 DEF NotYetSpawned
    <3> QED
      BY <1>0, <2>3, <3>1, <3>2 DEF spawn, TypeOK
  <2>4. CASE ~connect(d) /\ ~spawn(d)
    <3>1. s \in ToSpawn(d)
      BY <1>2, <2>1, <2>4, ToSpawnStep
    <3>2. worker' = worker
      BY <1>2, <2>4
         DEF ClientStep, join, emplace_back, receive, push_block, disconnect,
             check_contexts, request_shutdown, push_sentinel, poolVars
    <3> QED
      BY <3>1, <3>2 DEF NotYetSpawned
  <2> QED
    BY <2>2, <2>3, <2>4
<1>3. ASSUME NEW w \in Workers, read_running(w) \/ pop(w) \/ write(w)
      PROVE  worker'[<<s, d>>] = "none"
  <2>1. /\ UNCHANGED <<call, todo>>
        /\ worker[w] \in {"loop", "pop", "write"}
        /\ \A v \in Workers \ {w} : worker'[v] = worker[v]
    BY <1>3 DEF read_running, pop, write, clientVars, TypeOK
  <2>2. worker[<<s, d>>] = "none"
    BY <2>1 DEF NotYetSpawned, ToSpawn
  <2> QED
    BY <1>0, <2>1, <2>2
<1>4. CASE UNCHANGED libVars
  BY <1>4 DEF libVars, clientVars, poolVars, NotYetSpawned, ToSpawn
<1> QED
  BY <1>1, <1>2, <1>3, <1>4 DEF Next, WorkerStep

-----------------------------------------------------------------------------
(* What the steps of a client do to the consumers *)

LEMMA ConsumersStay ==
    ASSUME TypeOK, NEW q \in Queues, NEW c \in Clients, ClientStep(c),
           ~connect(c) \/ running
    PROVE  Consumers(q)' \subseteq Consumers(q)
<1> SUFFICES ASSUME NEW w \in Workers, w \in Consumers(q)' PROVE w \in Consumers(q)
  BY DEF Consumers
<1>1. w = <<w[1], w[2]>> /\ w[1] \in Slots
  BY DEF Workers
<1>2. CASE Alive(w)' /\ worker'[w] = worker[w]
  BY <1>2 DEF Consumers, Alive
<1>3. CASE worker'[w] # worker[w]
  <2>1. spawn(c) /\ w = <<Head(todo[c]), c>>
    BY <1>3 DEF ClientStep, connect, spawn, join, emplace_back, receive, push_block,
                disconnect, check_contexts, request_shutdown, push_sentinel,
                poolVars, TypeOK
  <2>2. w[1] \in ToSpawn(w[2]) /\ w[2] \in Clients
    BY <1>1, <2>1, ToSpawnStep
  <2> QED
    BY <2>2 DEF Consumers
<1>4. CASE w[2] \in Clients /\ w[1] \in ToSpawn(w[2])'
  <2>1. ToSpawn(c)' \subseteq ToSpawn(c)
    BY ToSpawnStep
  <2>2. w[1] \in ToSpawn(w[2])
    BY <1>4, <2>1, OtherClients
  <2> QED
    BY <1>4, <2>2 DEF Consumers
<1> QED
  BY <1>2, <1>3, <1>4 DEF Consumers

\* The pool of a connect that wins the race: one log worker, two file workers.
LEMMA ConsumersGrow ==
    ASSUME TypeOK, NEW q \in Queues, NEW c \in Clients, ClientStep(c),
           connect(c), ~running
    PROVE  Cardinality(Consumers(q)') <= Cardinality(Consumers(q)) + Group(q)
<1> DEFINE New(s) == <<s, c>>
<1>1. ASSUME NEW w \in Consumers(q)', w \notin Consumers(q)
      PROVE  w[2] = c /\ w[1] \in Slots /\ w = <<w[1], w[2]>> /\ QueueOf(w[1]) = q
  <2>1. w \in Workers /\ QueueOf(w[1]) = q
    BY DEF Consumers
  <2>2. w = <<w[1], w[2]>> /\ w[1] \in Slots
    BY <2>1 DEF Workers
  <2>3. worker' = worker
    BY DEF connect, poolVars
  <2>4. ~Alive(w)'
    BY <1>1, <2>1, <2>3 DEF Consumers, Alive
  <2>5. w[2] \in Clients /\ w[1] \in ToSpawn(w[2])'
    BY <2>4 DEF Consumers
  <2>6. w[1] \notin ToSpawn(w[2])
    BY <1>1, <2>1, <2>5 DEF Consumers
  <2>7. w[2] = c
    BY <2>5, <2>6, OtherClients
  <2> QED
    BY <2>1, <2>2, <2>7
<1>2. CASE q = "log"
  <2>1. Consumers(q)' \subseteq Consumers(q) \cup {New("log")}
    BY <1>1, <1>2 DEF QueueOf, Slots
  <2>2. /\ IsFiniteSet(Consumers(q) \cup {New("log")})
        /\ Cardinality(Consumers(q) \cup {New("log")}) \in Nat
        /\ Cardinality(Consumers(q) \cup {New("log")}) <= Cardinality(Consumers(q)) + 1
    BY ConsumersFinite, AddBound
  <2>3. Cardinality(Consumers(q)') <= Cardinality(Consumers(q) \cup {New("log")})
    BY <2>1, <2>2, FS_Subset
  <2> QED
    BY <1>2, <2>2, <2>3, ConsumersFinite DEF Group
<1>3. CASE q = "file"
  <2> DEFINE One == Consumers(q) \cup {New("file1")}
             Two == One \cup {New("file2")}
  <2>1. Consumers(q)' \subseteq Two
    BY <1>1, <1>3 DEF QueueOf, Slots
  <2>2. /\ IsFiniteSet(One) /\ Cardinality(One) \in Nat
        /\ Cardinality(One) <= Cardinality(Consumers(q)) + 1
    BY ConsumersFinite, AddBound
  <2> HIDE DEF One
  <2>3. /\ IsFiniteSet(Two) /\ Cardinality(Two) \in Nat
        /\ Cardinality(Two) <= Cardinality(One) + 1
    BY <2>2, AddBound
  <2> HIDE DEF Two
  <2>4. Cardinality(Consumers(q)') <= Cardinality(Two)
    BY <2>1, <2>3, FS_Subset
  <2> QED
    BY <1>3, <2>2, <2>3, <2>4, ConsumersFinite DEF Group
<1> QED
  BY <1>2, <1>3 DEF Queues

-----------------------------------------------------------------------------
(* What the steps of a client do to the sentinels it has still to push *)

LEMMA StopElements ==
    ASSUME NEW t \in Stops
    PROVE  /\ Len(t) \in 1..3
           /\ Len(Tail(t)) = Len(t) - 1
           /\ t[1] = Head(t)
           /\ \A k \in 1..(Len(t) - 1) : Tail(t)[Len(t) - k] = t[Len(t) + 1 - k]
<1>1. t \in Seq(Slots \cup Queues)
  BY StopList
<1>2. Len(t) \in 1..3
  <2>1. CASE t = <<"log", "file", "file">>
    BY <2>1, ListFacts
  <2>2. CASE t = <<"file", "file">>
    BY <2>2, ListFacts
  <2>3. CASE t = <<"file">>
    BY <2>3, ListFacts
  <2> QED
    BY <2>1, <2>2, <2>3 DEF Stops
<1>3. t # <<>>
  BY <1>2, ListFacts
<1> QED
  BY <1>1, <1>2, <1>3

\* Clients that do not stop the pool.
LEMMA ToComeStays ==
    ASSUME TypeOK, NEW q \in Queues, NEW c \in Clients, ClientStep(c),
           call[c] # "sentinel", call'[c] # "sentinel"
    PROVE  SentinelsToCome(q)' = SentinelsToCome(q)
<1>1. ASSUME NEW p \in Clients \X (1..3)
      PROVE  /\ (call'[p[1]] = "sentinel" <=> call[p[1]] = "sentinel")
             /\ call[p[1]] = "sentinel" => todo'[p[1]] = todo[p[1]]
  BY OtherClients
<1> QED
  BY <1>1 DEF SentinelsToCome

\* request_shutdown that wins the race: one for the log, two for the files.
LEMMA ToComeGrows ==
    ASSUME TypeOK, NEW q \in Queues, NEW c \in Clients, ClientStep(c),
           request_shutdown(c), running
    PROVE  Cardinality(SentinelsToCome(q)') >=
              Cardinality(SentinelsToCome(q)) + Group(q)
<1> DEFINE T == SentinelsToCome(q)
           N(k) == <<c, k>>
<1>1. /\ call[c] = "stop" /\ call'[c] = "sentinel"
      /\ todo'[c] = <<"log", "file", "file">>
  BY DEF request_shutdown, Goto, Sentinels, TypeOK
<1>2. \A k : N(k) \notin T
  BY <1>1 DEF SentinelsToCome
<1>3. T \subseteq SentinelsToCome(q)'
  BY <1>1, OtherClients DEF SentinelsToCome
<1>4. /\ Len(todo'[c]) = 3
      /\ todo'[c][1] = "log" /\ todo'[c][2] = "file" /\ todo'[c][3] = "file"
  BY <1>1, ListFacts
<1>5. IsFiniteSet(T) /\ Cardinality(T) \in Nat
  BY ToComeFinite
<1>6. IsFiniteSet(SentinelsToCome(q)') /\ Cardinality(SentinelsToCome(q)') \in Nat
  BY ToComeFinite
<1> HIDE DEF T
<1>7. CASE q = "log"
  <2>1. N(3) \in SentinelsToCome(q)'
    <3>1. N(3) \in Clients \X (1..3) /\ N(3)[1] = c /\ N(3)[2] = 3
      OBVIOUS
    <3>2. 3 <= Len(todo'[c]) /\ todo'[c][Len(todo'[c]) + 1 - 3] = q
      BY <1>4, <1>7
    <3> HIDE DEF N
    <3> QED
      BY <1>1, <3>1, <3>2 DEF SentinelsToCome
  <2>2. T \cup {N(3)} \in SUBSET SentinelsToCome(q)'
    BY <1>3, <2>1
  <2>3. Cardinality(T \cup {N(3)}) = Cardinality(T) + 1
    BY <1>2, <1>5, FS_AddElement
  <2>4. Cardinality(T \cup {N(3)}) <= Cardinality(SentinelsToCome(q)')
    BY <1>6, <2>2, FS_Subset
  <2> QED
    BY <1>5, <1>6, <1>7, <2>3, <2>4 DEF Group, T
<1>8. CASE q = "file"
  <2> DEFINE One == T \cup {N(2)}
             Two == One \cup {N(1)}
  <2>1. N(1) \in SentinelsToCome(q)' /\ N(2) \in SentinelsToCome(q)'
    <3>1. /\ N(1) \in Clients \X (1..3) /\ N(1)[1] = c /\ N(1)[2] = 1
          /\ N(2) \in Clients \X (1..3) /\ N(2)[1] = c /\ N(2)[2] = 2
      OBVIOUS
    <3>2. /\ 1 <= Len(todo'[c]) /\ todo'[c][Len(todo'[c]) + 1 - 1] = q
          /\ 2 <= Len(todo'[c]) /\ todo'[c][Len(todo'[c]) + 1 - 2] = q
      BY <1>4, <1>8
    <3> HIDE DEF N
    <3> QED
      BY <1>1, <3>1, <3>2 DEF SentinelsToCome
  <2>2. Two \in SUBSET SentinelsToCome(q)'
    BY <1>3, <2>1
  <2>3. N(1) \notin One
    BY <1>2
  <2>4. IsFiniteSet(One) /\ Cardinality(One) = Cardinality(T) + 1
    BY <1>2, <1>5, FS_AddElement
  <2> HIDE DEF One
  <2>5. Cardinality(Two) = Cardinality(One) + 1
    BY <2>3, <2>4, FS_AddElement
  <2> HIDE DEF Two
  <2>6. Cardinality(Two) <= Cardinality(SentinelsToCome(q)')
    BY <1>6, <2>2, FS_Subset
  <2> QED
    BY <1>5, <1>6, <1>8, <2>4, <2>5, <2>6 DEF Group, T
<1> QED
  BY <1>7, <1>8 DEF Queues

\* One step of the loop of request_shutdown: the first sentinel leaves the list.
LEMMA ToComeShifts ==
    ASSUME TypeOK, NEW q \in Queues, NEW c \in Clients, ClientStep(c), push_sentinel(c)
    PROVE  Cardinality(SentinelsToCome(q)) <=
              Cardinality(SentinelsToCome(q)') + (IF q = Head(todo[c]) THEN 1 ELSE 0)
<1> DEFINE t == todo[c]
           T == SentinelsToCome(q)'
<1>1. /\ call[c] = "sentinel" /\ t \in Stops
      /\ todo'[c] = Tail(t)
      /\ Len(t) > 1 => call'[c] = "sentinel"
  BY ListNow DEF push_sentinel, Advance, Goto, TypeOK, Fits
<1>2. ASSUME NEW p \in SentinelsToCome(q), p \notin T
      PROVE  p = <<c, Len(t)>> /\ q = Head(t)
  <2>1. p \in Clients \X (1..3) /\ call[p[1]] = "sentinel"
    BY DEF SentinelsToCome
  <2>2. p[1] = c
    BY <1>2, <2>1, OtherClients DEF SentinelsToCome
  <2>3. p[2] \in 1..3 /\ p[2] <= Len(t) /\ t[Len(t) + 1 - p[2]] = q
    BY <2>1, <2>2 DEF SentinelsToCome
  <2>4. CASE p[2] = Len(t)
    BY <1>1, <2>1, <2>2, <2>3, <2>4, StopElements
  <2>5. CASE p[2] < Len(t)
    <3>1. /\ p[2] \in 1..(Len(t) - 1) /\ Len(t) > 1
          /\ Len(Tail(t)) = Len(t) - 1
          /\ Len(t) \in 1..3
          /\ Tail(t)[Len(t) - p[2]] = q
      <4> HIDE DEF t, T
      <4>1. /\ Len(t) \in 1..3 /\ Len(Tail(t)) = Len(t) - 1
            /\ \A k \in 1..(Len(t) - 1) : Tail(t)[Len(t) - k] = t[Len(t) + 1 - k]
        BY <1>1, StopElements
      <4>2. p[2] \in 1..(Len(t) - 1) /\ Len(t) > 1
        BY <2>3, <2>5, <4>1
      <4> QED
        BY <2>3, <4>1, <4>2
    <3>2. p[2] <= Len(Tail(t)) /\ Tail(t)[Len(Tail(t)) + 1 - p[2]] = q
      <4>1. Len(Tail(t)) + 1 - p[2] = Len(t) - p[2] /\ p[2] <= Len(Tail(t))
        <5>1. \A n \in 1..3, k \in 1..3 :
                  k \in 1..(n - 1) => (n - 1) + 1 - k = n - k /\ k <= n - 1
          OBVIOUS
        <5> HIDE DEF t
        <5> QED
          BY <2>3, <3>1, <5>1
      <4> QED
        BY <3>1, <4>1
    <3>3. p \in T
      BY <1>1, <2>1, <2>2, <3>1, <3>2 DEF SentinelsToCome
    <3> QED
      BY <1>2, <3>3
  <2> QED
    BY <1>1, <2>3, <2>4, <2>5, StopElements
<1>3. /\ IsFiniteSet(T) /\ Cardinality(T) \in Nat
      /\ IsFiniteSet(SentinelsToCome(q)) /\ Cardinality(SentinelsToCome(q)) \in Nat
  BY ToComeFinite
<1> HIDE DEF T, t
<1>4. CASE q = Head(t)
  <2>1. SentinelsToCome(q) \in SUBSET (T \cup {<<c, Len(t)>>})
    BY <1>2
  <2>2. /\ IsFiniteSet(T \cup {<<c, Len(t)>>})
        /\ Cardinality(T \cup {<<c, Len(t)>>}) <= Cardinality(T) + 1
        /\ Cardinality(T \cup {<<c, Len(t)>>}) \in Nat
    BY <1>3, AddBound
  <2>3. Cardinality(SentinelsToCome(q)) <= Cardinality(T \cup {<<c, Len(t)>>})
    BY <2>1, <2>2, FS_Subset
  <2> QED
    BY <1>3, <1>4, <2>2, <2>3 DEF T, t
<1>5. CASE q # Head(t)
  <2>1. SentinelsToCome(q) \in SUBSET T
    BY <1>2, <1>5
  <2>2. Cardinality(SentinelsToCome(q)) <= Cardinality(T)
    BY <1>3, <2>1, FS_Subset
  <2> QED
    BY <1>3, <1>5, <2>2 DEF T, t
<1> QED
  BY <1>4, <1>5

-----------------------------------------------------------------------------
(* What pushes and pops do to the sentinels in a queue *)

Count(q) == Cardinality(SentinelsIn(q))

LEMMA EnqueueCount ==
    ASSUME TypeOK, NEW q \in Queues, NEW r \in Queues,
           NEW b \in Blocks \cup {Sentinel}, Enqueue(r, b)
    PROVE  Count(q)' = Count(q) + (IF q = r /\ b = Sentinel THEN 1 ELSE 0)
<1>1. /\ queue[q] \in Seq(Blocks \cup {Sentinel})
      /\ Count(q) = Cardinality(Where(queue[q], Sentinel)) /\ Count(q) \in Nat
      /\ Count(q)' = Cardinality(Where(queue'[q], Sentinel))
  BY SentinelsFinite DEF TypeOK, Count, SentinelsIn, Where
<1>2. CASE q = r
  <2>1. queue'[q] = Append(queue[q], b)
    BY <1>2 DEF Enqueue, TypeOK
  <2> QED
    BY <1>1, <1>2, <2>1, WhereAppend
<1>3. CASE q # r
  <2>1. queue'[q] = queue[q]
    BY <1>3 DEF Enqueue, TypeOK
  <2> QED
    BY <1>1, <1>3, <2>1
<1> QED
  BY <1>2, <1>3

LEMMA DequeueCount ==
    ASSUME TypeOK, NEW q \in Queues, NEW r \in Queues, queue[r] # <<>>, Dequeue(r)
    PROVE  Count(q)' = Count(q) - (IF q = r /\ Head(queue[r]) = Sentinel THEN 1 ELSE 0)
<1>1. /\ queue[q] \in Seq(Blocks \cup {Sentinel})
      /\ Count(q) = Cardinality(Where(queue[q], Sentinel)) /\ Count(q) \in Nat
      /\ Count(q)' = Cardinality(Where(queue'[q], Sentinel))
  BY SentinelsFinite DEF TypeOK, Count, SentinelsIn, Where
<1>2. CASE q = r
  <2>1. queue'[q] = Tail(queue[q])
    BY <1>2 DEF Dequeue, TypeOK
  <2> QED
    BY <1>1, <1>2, <2>1, WhereTail
<1>3. CASE q # r
  <2>1. queue'[q] = queue[q]
    BY <1>3 DEF Dequeue, TypeOK
  <2> QED
    BY <1>1, <1>3, <2>1
<1> QED
  BY <1>2, <1>3

-----------------------------------------------------------------------------
(* The theorem *)

\* One consumer less.
LEMMA ConsumerLeaves ==
    ASSUME TypeOK, NotYetSpawned, NEW q \in Queues, NEW w \in Workers,
           UNCHANGED <<call, todo>>, Alive(w),
           worker' = [worker EXCEPT ![w] = "done"]
    PROVE  Cardinality(Consumers(q)') =
              Cardinality(Consumers(q)) - (IF QueueOf(w[1]) = q THEN 1 ELSE 0)
<1>1. w = <<w[1], w[2]>> /\ w[1] \in Slots
  BY DEF Workers
<1>2. \A c \in Clients : ToSpawn(c)' = ToSpawn(c)
  BY DEF ToSpawn
<1>3. /\ ~Alive(w)'
      /\ \A v \in Workers \ {w} : Alive(v)' <=> Alive(v)
  BY DEF TypeOK, Alive
<1>4. w[2] \in Clients => w[1] \notin ToSpawn(w[2])
  BY <1>1 DEF NotYetSpawned, Alive
<1>5. \A v \in Workers : v \in Consumers(q)' <=> v \in Consumers(q) /\ v # w
  BY <1>2, <1>3, <1>4 DEF Consumers
<1>6. Consumers(q)' = Consumers(q) \ {w}
  BY <1>5 DEF Consumers
<1>7. w \in Consumers(q) <=> QueueOf(w[1]) = q
  BY DEF Consumers
<1>8. Cardinality(Consumers(q) \ {w}) =
         IF w \in Consumers(q) THEN Cardinality(Consumers(q)) - 1
                               ELSE Cardinality(Consumers(q))
  BY ConsumersFinite, FS_RemoveElement
<1>9. Cardinality(Consumers(q)) \in Nat
  BY ConsumersFinite
<1> QED
  BY <1>6, <1>7, <1>8, <1>9

\* Alive workers only move between their loop, pop and the log.
LEMMA ConsumersSame ==
    ASSUME TypeOK, NEW q \in Queues, NEW w \in Workers,
           UNCHANGED <<call, todo>>, Alive(w),
           \/ worker' = [worker EXCEPT ![w] = "loop"]
           \/ worker' = [worker EXCEPT ![w] = "pop"]
           \/ worker' = [worker EXCEPT ![w] = "write"]
    PROVE  Consumers(q)' = Consumers(q)
<1>1. \A c \in Clients : ToSpawn(c)' = ToSpawn(c)
  BY DEF ToSpawn
<1>2. \A v \in Workers : Alive(v)' <=> Alive(v)
  BY DEF TypeOK, Alive
<1> QED
  BY <1>1, <1>2 DEF Consumers

Cover(q) ==
    Cardinality(Consumers(q)) <=
        (IF running THEN Group(q) ELSE 0) + Count(q) + Cardinality(SentinelsToCome(q))

LEMMA CoverIs == SentinelCover <=> \A q \in Queues : Cover(q)
  BY DEF SentinelCover, Cover, Count

LEMMA CountTypes ==
    ASSUME TypeOK, TypeOK', NEW q \in Queues
    PROVE  /\ Group(q) \in Nat
           /\ Count(q) \in Nat /\ Count(q)' \in Nat
           /\ Cardinality(Consumers(q)) \in Nat
           /\ Cardinality(Consumers(q)') \in Nat
           /\ Cardinality(SentinelsToCome(q)) \in Nat
           /\ Cardinality(SentinelsToCome(q)') \in Nat
<1>1. queue[q] \in Seq(Blocks \cup {Sentinel}) /\ queue'[q] \in Seq(Blocks \cup {Sentinel})
  BY DEF TypeOK
<1>2. /\ Count(q) = Cardinality(Where(queue[q], Sentinel))
      /\ Count(q)' = Cardinality(Where(queue'[q], Sentinel))
  BY DEF Count, SentinelsIn, Where
<1>3. Count(q) \in Nat /\ Count(q)' \in Nat
  BY <1>1, <1>2, WhereFinite
<1> QED
  BY <1>3, ConsumersFinite, ToComeFinite DEF Group

LEMMA ClientCover ==
    ASSUME TypeOK, TypeOK', NEW q \in Queues, Cover(q),
           NEW c \in Clients, ClientStep(c)
    PROVE  Cover(q)'
<1> USE CountTypes
<1>1. CASE connect(c) /\ ~running
  <2>1. /\ running' /\ UNCHANGED queue
        /\ call[c] # "sentinel" /\ call'[c] # "sentinel"
    BY <1>1 DEF connect, Goto, TypeOK
  <2>2. Count(q)' = Count(q)
    BY <2>1 DEF Count, SentinelsIn
  <2>3. SentinelsToCome(q)' = SentinelsToCome(q)
    BY <2>1, ToComeStays
  <2>4. Cardinality(Consumers(q)') <= Cardinality(Consumers(q)) + Group(q)
    BY <1>1, ConsumersGrow
  <2> QED
    BY <1>1, <2>1, <2>2, <2>3, <2>4 DEF Cover
<1>2. ASSUME ~connect(c) \/ running
      PROVE  Cardinality(Consumers(q)') <= Cardinality(Consumers(q))
  BY <1>2, ConsumersStay, ConsumersFinite, FS_Subset
<1>3. CASE request_shutdown(c) /\ running
  <2>1. ~running' /\ UNCHANGED queue
    BY <1>3 DEF request_shutdown
  <2>2. Count(q)' = Count(q)
    BY <2>1 DEF Count, SentinelsIn
  <2>3. Cardinality(SentinelsToCome(q)') >= Cardinality(SentinelsToCome(q)) + Group(q)
    BY <1>3, ToComeGrows
  <2> QED
    BY <1>2, <1>3, <2>1, <2>2, <2>3 DEF Cover
<1>4. CASE push_sentinel(c)
  <2>1. Head(todo[c]) \in Queues
    BY <1>4, ListNow, StopList DEF push_sentinel, Fits
  <2>2. Count(q)' = Count(q) + (IF q = Head(todo[c]) THEN 1 ELSE 0)
    BY <1>4, <2>1, EnqueueCount DEF push_sentinel
  <2>3. Cardinality(SentinelsToCome(q)) <=
           Cardinality(SentinelsToCome(q)') + (IF q = Head(todo[c]) THEN 1 ELSE 0)
    BY <1>4, ToComeShifts
  <2>4. running' = running /\ ~connect(c)
    BY <1>4 DEF push_sentinel, connect
  <2> QED
    BY <1>2, <2>2, <2>3, <2>4 DEF Cover
<1>5. CASE push_block(c)
  <2>1. Head(todo[c]) \in Queues /\ [ctx |-> c, n |-> sent[c]] \in Blocks
    BY <1>5, ListNow, PushList DEF push_block, Fits, TypeOK, Blocks
  <2>2. [ctx |-> c, n |-> sent[c]] # Sentinel
    BY LibAssumption DEF Sentinel
  <2>3. Count(q)' = Count(q)
    BY <1>5, <2>1, <2>2, EnqueueCount DEF push_block
  <2>4. /\ running' = running /\ ~connect(c)
        /\ call[c] # "sentinel" /\ call'[c] # "sentinel"
    BY <1>5 DEF push_block, connect, Advance, Goto, TypeOK
  <2> QED
    BY <1>2, <2>3, <2>4, ToComeStays DEF Cover
<1>6. CASE \/ connect(c) /\ running
           \/ request_shutdown(c) /\ ~running
           \/ spawn(c) \/ join(c) \/ emplace_back(c)
           \/ receive(c) \/ disconnect(c) \/ check_contexts(c)
  <2>1. /\ running' = running /\ UNCHANGED queue
        /\ call[c] # "sentinel" /\ call'[c] # "sentinel"
        /\ ~connect(c) \/ running
    BY <1>6 DEF connect, request_shutdown, spawn, join, emplace_back, receive,
                disconnect, check_contexts, BeginPush, Advance, Goto, TypeOK
  <2>2. Count(q)' = Count(q)
    BY <2>1 DEF Count, SentinelsIn
  <2> QED
    BY <1>2, <2>1, <2>2, ToComeStays DEF Cover
<1> QED
  BY <1>1, <1>3, <1>4, <1>5, <1>6 DEF ClientStep

LEMMA WorkerCover ==
    ASSUME TypeOK, TypeOK', NotYetSpawned, NEW q \in Queues, Cover(q),
           NEW w \in Workers, read_running(w) \/ pop(w) \/ write(w)
    PROVE  Cover(q)'
<1> USE CountTypes
<1> DEFINE mine == QueueOf(w[1])
<1>1. /\ UNCHANGED <<running, call, todo>> /\ Alive(w)
      /\ SentinelsToCome(q)' = SentinelsToCome(q)
  BY DEF read_running, pop, write, clientVars, SentinelsToCome, Alive
<1>2. CASE read_running(w)
  <2>1. Count(q)' = Count(q)
    BY <1>2 DEF read_running, Count, SentinelsIn
  <2>2. Cardinality(Consumers(q)') <= Cardinality(Consumers(q))
    <3>1. CASE running
      <4>1. worker' = [worker EXCEPT ![w] = "pop"]
        BY <1>2, <3>1 DEF read_running
      <4>2. Consumers(q)' = Consumers(q)
        BY <1>1, <4>1, ConsumersSame
      <4> QED
        BY <4>2
    <3>2. CASE ~running
      <4>1. worker' = [worker EXCEPT ![w] = "done"]
        BY <1>2, <3>2 DEF read_running
      <4>2. Cardinality(Consumers(q)') =
               Cardinality(Consumers(q)) - (IF mine = q THEN 1 ELSE 0)
        BY <1>1, <4>1, ConsumerLeaves
      <4> QED
        BY <4>2
    <3> QED
      BY <3>1, <3>2
  <2> QED
    BY <1>1, <2>1, <2>2 DEF Cover
<1>3. CASE pop(w)
  <2>1. mine \in Queues /\ queue[mine] # <<>> /\ Dequeue(mine)
    BY <1>3 DEF pop, QueueOf, Queues
  <2>2. Count(q)' = Count(q) - (IF q = mine /\ Head(queue[mine]) = Sentinel THEN 1 ELSE 0)
    BY <2>1, DequeueCount
  <2>3. CASE Head(queue[mine]) = Sentinel
    <3>1. worker' = [worker EXCEPT ![w] = "done"]
      BY <1>3, <2>3 DEF pop, EndsLoop
    <3>2. Cardinality(Consumers(q)') =
             Cardinality(Consumers(q)) - (IF mine = q THEN 1 ELSE 0)
      BY <1>1, <3>1, ConsumerLeaves
    <3> QED
      BY <1>1, <2>2, <2>3, <3>2 DEF Cover
  <2>4. CASE Head(queue[mine]) # Sentinel
    <3>1. worker' = [worker EXCEPT ![w] = "write"]
      BY <1>3, <2>4 DEF pop, EndsLoop
    <3>2. Consumers(q)' = Consumers(q)
      BY <1>1, <3>1, ConsumersSame
    <3> QED
      BY <1>1, <2>2, <2>4, <3>2 DEF Cover
  <2> QED
    BY <2>3, <2>4
<1>4. CASE write(w)
  <2>1. Count(q)' = Count(q) /\ worker' = [worker EXCEPT ![w] = "loop"]
    BY <1>4 DEF write, Count, SentinelsIn
  <2>2. Consumers(q)' = Consumers(q)
    BY <1>1, <2>1, ConsumersSame
  <2> QED
    BY <1>1, <2>1, <2>2 DEF Cover
<1> QED
  BY <1>2, <1>3, <1>4

LEMMA InitCover ==
    ASSUME Init, NEW q \in Queues
    PROVE  Cover(q)
<1>1. PICK up \in BOOLEAN : InitWith(up)
  BY DEF Init
<1>2. /\ running = up
      /\ \A w \in Workers : Alive(w) => running /\ w[2] = Main
      /\ \A c \in Clients : ToSpawn(c) = {} /\ call[c] = "new"
      /\ \A r \in Queues : queue[r] = <<>>
  BY <1>1 DEF InitWith, Alive, ToSpawn
<1>3. Count(q) = 0 /\ Cardinality(SentinelsToCome(q)) = 0
  <2>1. SentinelsIn(q) = {} /\ SentinelsToCome(q) = {}
    BY <1>2 DEF SentinelsIn, SentinelsToCome
  <2> QED
    BY <2>1, FS_EmptySet DEF Count
<1>4. ASSUME NEW w \in Consumers(q)
      PROVE  running /\ w = <<w[1], Main>> /\ w[1] \in Slots /\ QueueOf(w[1]) = q
  BY <1>2 DEF Consumers, Workers
<1>5. CASE ~running
  <2>1. Consumers(q) = {}
    BY <1>4, <1>5
  <2> QED
    BY <1>3, <1>5, <2>1, FS_EmptySet DEF Cover
<1>6. CASE running /\ q = "log"
  <2>1. Consumers(q) \subseteq {<<"log", Main>>}
    BY <1>4, <1>6 DEF QueueOf, Slots
  <2>2. /\ IsFiniteSet({<<"log", Main>>}) /\ Cardinality({<<"log", Main>>}) = 1
    BY FS_Singleton
  <2>3. Cardinality(Consumers(q)) <= Cardinality({<<"log", Main>>})
    BY <2>1, <2>2, FS_Subset
  <2> QED
    BY <1>3, <1>6, <2>2, <2>3, ConsumersFinite DEF Cover, Group
<1>7. CASE running /\ q = "file"
  <2> DEFINE One == {<<"file1", Main>>}
             Two == One \cup {<<"file2", Main>>}
  <2>1. Consumers(q) \subseteq Two
    BY <1>4, <1>7 DEF QueueOf, Slots
  <2>2. IsFiniteSet(One) /\ Cardinality(One) = 1
    BY FS_Singleton
  <2> HIDE DEF One
  <2>3. /\ IsFiniteSet(Two) /\ Cardinality(Two) \in Nat
        /\ Cardinality(Two) <= Cardinality(One) + 1
    BY <2>2, AddBound
  <2> HIDE DEF Two
  <2>4. Cardinality(Consumers(q)) <= Cardinality(Two)
    BY <2>1, <2>3, FS_Subset
  <2> QED
    BY <1>3, <1>7, <2>2, <2>3, <2>4, ConsumersFinite DEF Cover, Group
<1> QED
  BY <1>5, <1>6, <1>7 DEF Queues

IInv == TypeOK /\ NotYetSpawned /\ SentinelCover

LEMMA NextCover == IInv /\ [Next]_libVars => IInv'
<1> SUFFICES ASSUME IInv, [Next]_libVars PROVE IInv'
  OBVIOUS
<1>1. TypeOK' /\ NotYetSpawned'
  BY NextType, NextFresh DEF IInv
<1>2. ASSUME NEW q \in Queues PROVE Cover(q)'
  <2>1. Cover(q)
    BY CoverIs DEF IInv
  <2>2. ASSUME NEW c \in Clients, ClientStep(c) PROVE Cover(q)'
    BY <1>1, <2>1, <2>2, ClientCover DEF IInv
  <2>3. ASSUME NEW w \in Workers, read_running(w) \/ pop(w) \/ write(w) PROVE Cover(q)'
    BY <1>1, <2>1, <2>3, WorkerCover DEF IInv
  <2>4. CASE UNCHANGED libVars
    BY <2>1, <2>4
       DEF libVars, clientVars, poolVars, Cover, Count, Consumers, Alive, ToSpawn,
           SentinelsIn, SentinelsToCome
  <2> QED
    BY <2>2, <2>3, <2>4 DEF Next, WorkerStep
<1>3. SentinelCover'
  BY <1>2 DEF SentinelCover, Cover, Count
<1> QED
  BY <1>1, <1>3 DEF IInv

(***************************************************************************)
(* Nobody is stranded in pop: for each queue the consumers never outnumber *)
(* the sentinels they can count on, whichever generation of workers eats   *)
(* which sentinel.                                                         *)
(***************************************************************************)
THEOREM CoverCorrect == Spec => []SentinelCover
<1>1. Init => IInv
  BY InitType, InitFresh, InitCover, CoverIs DEF IInv
<1>2. IInv => SentinelCover
  BY DEF IInv
<1> QED
  BY <1>1, <1>2, NextCover, PTL DEF Spec
=============================================================================
