-------------------------- MODULE AsyncQueueProofs --------------------------
(***************************************************************************)
(* Theorems about AsyncQueue, for any finite number of threads, any items  *)
(* and any number of pushes.                                               *)
(***************************************************************************)
EXTENDS AsyncQueue, FiniteSetTheorems, SequenceTheorems, TLAPS

\* Taking the first element off a sequence splits it.
LEMMA FrontSplits ==
    ASSUME NEW S, NEW q \in Seq(S), q # <<>>
    PROVE  /\ Head(q) \in S
           /\ Tail(q) \in Seq(S)
           /\ Len(Tail(q)) = Len(q) - 1
           /\ \A p \in Seq(S) : p \o q = Append(p, Head(q)) \o Tail(q)
  OBVIOUS

\* Appending commutes with putting something in front.
LEMMA AppendAfter ==
    ASSUME NEW S, NEW p \in Seq(S), NEW q \in Seq(S), NEW x \in S
    PROVE  p \o Append(q, x) = Append(p \o q, x)
  OBVIOUS

\* TypeOK together with Fifo is inductive.
Shape == TypeOK /\ Fifo

LEMMA InitShape == Init => Shape
  BY ThreadAssumption DEF Init, Shape, TypeOK, Fifo

LEMMA TakeFrontShape ==
    ASSUME Shape, queue_ # <<>>, TakeFront, UNCHANGED pushed
    PROVE  /\ queue_' \in Seq(Items)
           /\ popped' \in Seq(Items)
           /\ Len(popped') <= Len(pushed')
           /\ Fifo'
           /\ Len(queue_') = Len(queue_) - 1
<1>1. /\ queue_' \in Seq(Items)
      /\ popped' \in Seq(Items)
      /\ Len(queue_') = Len(queue_) - 1
  BY FrontSplits DEF Shape, TypeOK, TakeFront
<1>2. pushed = popped' \o queue_'
  BY FrontSplits DEF Shape, TypeOK, Fifo, TakeFront
<1>3. Len(popped') <= Len(pushed')
  BY <1>1, <1>2, ConcatProperties
<1> QED
  BY <1>1, <1>2, <1>3 DEF Fifo

\* The invariant that fixes the contents: type correctness and order.
LEMMA NextShape == Shape /\ [Next]_vars => Shape'
<1> SUFFICES ASSUME Shape, [Next]_vars PROVE Shape'
  OBVIOUS
<1> USE ThreadAssumption
<1>1. ASSUME NEW p \in Producers, push(p) PROVE Shape'
  <2> PICK x \in Items : /\ queue_' = Append(queue_, x)
                         /\ pushed' = Append(pushed, x)
    BY <1>1 DEF push
  <2>1. Fifo'
    <3>1. popped \o queue_' = Append(popped \o queue_, x)
      BY AppendAfter DEF Shape, TypeOK
    <3>2. popped' = popped /\ pushed = popped \o queue_
      BY <1>1 DEF push, Shape, Fifo
    <3> QED
      BY <3>1, <3>2 DEF Fifo
  <2>2. TypeOK'
    BY <1>1 DEF push, AfterPush, Shape, TypeOK
  <2> QED
    BY <2>1, <2>2 DEF Shape
<1>2. ASSUME NEW p \in Producers, notify_one(p) PROVE Shape'
  BY <1>2 DEF notify_one, WakeOne, Shape, TypeOK, Fifo, Waiting
<1>3. ASSUME NEW c \in Consumers, call_pop(c) PROVE Shape'
  BY <1>3 DEF call_pop, Shape, TypeOK, Fifo
<1>4. ASSUME NEW c \in Consumers, pop(c) PROVE Shape'
  <2>1. CASE queue_ = <<>>
    BY <1>4, <2>1 DEF pop, Shape, TypeOK, Fifo
  <2>2. CASE queue_ # <<>>
    <3>1. TakeFront /\ UNCHANGED <<producer, pushed>>
      BY <1>4, <2>2 DEF pop
    <3>2. consumer' \in [Consumers -> {"idle", "lock", "wait"}]
      BY <1>4 DEF pop, Shape, TypeOK
    <3> QED
      BY <2>2, <3>1, <3>2, TakeFrontShape DEF Shape, TypeOK
  <2> QED
    BY <2>1, <2>2
<1>5. ASSUME NEW c \in Consumers, spurious_wakeup(c) PROVE Shape'
  BY <1>5 DEF spurious_wakeup, Shape, TypeOK, Fifo
<1>6. ASSUME NEW c \in Consumers, try_pop(c) PROVE Shape'
  <2>1. TakeFront /\ queue_ # <<>> /\ UNCHANGED <<producer, consumer, pushed>>
    BY <1>6 DEF try_pop
  <2> QED
    BY <2>1, TakeFrontShape DEF Shape, TypeOK
<1>7. CASE UNCHANGED vars
  BY <1>7 DEF vars, Shape, TypeOK, Fifo
<1> QED
  BY <1>1, <1>2, <1>3, <1>4, <1>5, <1>6, <1>7 DEF Next

(***************************************************************************)
(* The variables keep their types, and the bound on pushes is kept.        *)
(***************************************************************************)
THEOREM TypeCorrect == Spec => []TypeOK
<1>1. Shape => TypeOK
  BY DEF Shape
<1> QED
  BY <1>1, InitShape, NextShape, PTL DEF Spec

(***************************************************************************)
(* push, pop and try_pop lose nothing, duplicate nothing and keep the      *)
(* order, however many threads call them.                                  *)
(***************************************************************************)
THEOREM FifoCorrect == Spec => []Fifo
<1>1. Shape => Fifo
  BY DEF Shape
<1> QED
  BY <1>1, InitShape, NextShape, PTL DEF Spec

-----------------------------------------------------------------------------
(***************************************************************************)
(* Wake-ups.  Every conjunct that moves is about the size of one of two    *)
(* sets, so the steps below only say how these sets change.                *)
(***************************************************************************)
LEMMA SetsFinite ==
    /\ IsFiniteSet(Notifying) /\ Cardinality(Notifying) \in Nat
    /\ IsFiniteSet(Locking) /\ Cardinality(Locking) \in Nat
<1>1. Notifying \subseteq Producers /\ Locking \subseteq Consumers
  BY DEF Notifying, Locking
<1> QED
  BY <1>1, ThreadAssumption, FS_Subset, FS_CardinalityType

LEMMA InitWakeup == Init => NoLostWakeup
  BY DEF Init, NoLostWakeup, Waiting

LEMMA NextWakeup == Shape /\ NoLostWakeup /\ [Next]_vars => NoLostWakeup'
<1> SUFFICES ASSUME Shape, NoLostWakeup, [Next]_vars, Waiting' # {}
             PROVE  Len(queue_') <= Cardinality(Notifying') + Cardinality(Locking')
  BY DEF NoLostWakeup
<1> USE SetsFinite
<1>0. /\ queue_ \in Seq(Items)
      /\ Len(queue_) \in Nat
      /\ producer \in [Producers -> {"idle", "notify"}]
      /\ consumer \in [Consumers -> {"idle", "lock", "wait"}]
  BY DEF Shape, TypeOK
<1>1. ASSUME NEW p \in Producers, push(p)
      PROVE  Len(queue_') <= Cardinality(Notifying') + Cardinality(Locking')
  <2>1. Len(queue_') = Len(queue_) + 1
    BY <1>0, <1>1 DEF push
  <2>2. Notifying' = Notifying \cup {p} /\ p \notin Notifying
    BY <1>0, <1>1 DEF push, AfterPush, Notifying
  <2>3. Cardinality(Notifying') = Cardinality(Notifying) + 1
    BY <2>2, FS_AddElement
  <2>4. Waiting' = Waiting /\ Locking' = Locking
    BY <1>1 DEF push, Waiting, Locking
  <2> QED
    BY <1>0, <2>1, <2>3, <2>4 DEF NoLostWakeup
<1>2. ASSUME NEW p \in Producers, notify_one(p)
      PROVE  Len(queue_') <= Cardinality(Notifying') + Cardinality(Locking')
  <2>1. Waiting # {}
    BY <1>0, <1>2 DEF notify_one, WakeOne, Waiting
  <2>2. PICK c \in Waiting : consumer' = [consumer EXCEPT ![c] = "lock"]
    BY <1>2, <2>1 DEF notify_one, WakeOne
  <2>3. Locking' = Locking \cup {c} /\ c \notin Locking
    BY <1>0, <2>2 DEF Waiting, Locking
  <2>4. Cardinality(Locking') = Cardinality(Locking) + 1
    BY <2>3, FS_AddElement
  <2>5. Notifying' = Notifying \ {p} /\ p \in Notifying
    BY <1>0, <1>2 DEF notify_one, Notifying
  <2>6. Cardinality(Notifying') = Cardinality(Notifying) - 1
    BY <2>5, FS_RemoveElement
  <2> QED
    BY <1>0, <1>2, <2>1, <2>4, <2>6 DEF NoLostWakeup, notify_one
<1>3. ASSUME NEW c \in Consumers, consumer[c] \in {"idle", "wait"},
             consumer' = [consumer EXCEPT ![c] = "lock"],
             UNCHANGED <<queue_, producer>>
      PROVE  Len(queue_') <= Cardinality(Notifying') + Cardinality(Locking')
  <2>1. Waiting # {}
    BY <1>0, <1>3 DEF Waiting
  <2>2. Locking' = Locking \cup {c} /\ c \notin Locking
    BY <1>0, <1>3 DEF Locking
  <2>3. Cardinality(Locking') = Cardinality(Locking) + 1
    BY <2>2, FS_AddElement
  <2>4. Notifying' = Notifying
    BY <1>3 DEF Notifying
  <2> QED
    BY <1>0, <1>3, <2>1, <2>3, <2>4 DEF NoLostWakeup
<1>4. ASSUME NEW c \in Consumers, pop(c)
      PROVE  Len(queue_') <= Cardinality(Notifying') + Cardinality(Locking')
  <2>1. Notifying' = Notifying
    BY <1>4 DEF pop, Notifying
  <2>2. Locking' = Locking \ {c} /\ c \in Locking
    BY <1>0, <1>4 DEF pop, Locking
  <2>3. Cardinality(Locking') = Cardinality(Locking) - 1 /\ Cardinality(Locking') \in Nat
    BY <2>2, FS_RemoveElement, FS_CardinalityType
  <2>4. CASE queue_ = <<>>
    BY <1>4, <2>1, <2>3, <2>4 DEF pop
  <2>5. CASE queue_ # <<>>
    <3>1. Waiting' = Waiting
      BY <1>0, <1>4, <2>5 DEF pop, Waiting
    <3>2. Len(queue_') = Len(queue_) - 1
      BY <1>0, <1>4, <2>5, FrontSplits DEF pop, TakeFront
    <3> QED
      BY <1>0, <2>1, <2>3, <3>1, <3>2 DEF NoLostWakeup
  <2> QED
    BY <2>4, <2>5
<1>5. ASSUME NEW c \in Consumers, try_pop(c)
      PROVE  Len(queue_') <= Cardinality(Notifying') + Cardinality(Locking')
  <2>1. Notifying' = Notifying /\ Locking' = Locking /\ Waiting' = Waiting
    BY <1>5 DEF try_pop, Notifying, Locking, Waiting
  <2>2. Len(queue_') = Len(queue_) - 1
    BY <1>0, <1>5, FrontSplits DEF try_pop, TakeFront
  <2> QED
    BY <1>0, <2>1, <2>2 DEF NoLostWakeup
<1>6. CASE UNCHANGED vars
  BY <1>6 DEF vars, NoLostWakeup, Waiting, Notifying, Locking
<1> QED
  BY <1>1, <1>2, <1>3, <1>4, <1>5, <1>6 DEF Next, call_pop, spurious_wakeup

(***************************************************************************)
(* An item and a sleeping consumer are never left together without a       *)
(* notification or a lock attempt still to come: unlocking before          *)
(* notify_one, as push does, is safe.                                      *)
(***************************************************************************)
THEOREM WakeupCorrect == Spec => []NoLostWakeup
<1>1. Init => Shape /\ NoLostWakeup
  BY InitShape, InitWakeup
<1>2. Shape /\ NoLostWakeup /\ [Next]_vars => (Shape /\ NoLostWakeup)'
  BY NextShape, NextWakeup
<1> QED
  BY <1>1, <1>2, PTL DEF Spec

-----------------------------------------------------------------------------
(***************************************************************************)
(* Refinement of FifoQueue, without its fairness.                          *)
(***************************************************************************)
LEMMA InitImplements == Init => Abstract!Init
  BY DEF Init, Abstract!Init, Waiting, Locking

\* What the front of the deque is in terms of the histories.
LEMMA FrontIsNext ==
    ASSUME Shape, queue_ # <<>>
    PROVE  /\ Len(popped) < Len(pushed)
           /\ Head(queue_) = pushed[Len(popped) + 1]
  BY DEF Shape, TypeOK, Fifo

LEMMA NextImplements == Shape /\ [Next]_vars => [Abstract!Next]_(Abstract!vars)
<1> SUFFICES ASSUME Shape, [Next]_vars PROVE [Abstract!Next]_(Abstract!vars)
  OBVIOUS
<1> DEFINE callers == Waiting \cup Locking
<1> USE DEF Abstract!vars, Waiting, Locking
<1>0. consumer \in [Consumers -> {"idle", "lock", "wait"}]
  BY DEF Shape, TypeOK
<1>1. ASSUME NEW p \in Producers, push(p) PROVE Abstract!Next
  BY <1>1 DEF push, Abstract!Next, Abstract!Put
<1>2. ASSUME NEW p \in Producers, notify_one(p) PROVE UNCHANGED Abstract!vars
  <2>1. callers' = callers
    BY <1>0, <1>2 DEF notify_one, WakeOne
  <2> QED
    BY <1>2, <2>1 DEF notify_one
<1>3. ASSUME NEW c \in Consumers, call_pop(c) PROVE Abstract!Next
  <2>1. callers' = callers \cup {c} /\ c \notin callers
    BY <1>0, <1>3 DEF call_pop
  <2> QED
    BY <1>3, <2>1 DEF call_pop, Abstract!Next, Abstract!Call
<1>4. ASSUME NEW c \in Consumers, pop(c), queue_ # <<>> PROVE Abstract!Next
  <2>1. callers' = callers \ {c} /\ c \in callers
    BY <1>0, <1>4 DEF pop
  <2>2. Abstract!TakeNext
    BY <1>4, FrontIsNext DEF pop, TakeFront, Abstract!TakeNext
  <2> QED
    BY <2>1, <2>2 DEF Abstract!Next, Abstract!Return
<1>5. ASSUME NEW c \in Consumers, pop(c), queue_ = <<>> PROVE UNCHANGED Abstract!vars
  <2>1. callers' = callers
    BY <1>0, <1>5 DEF pop
  <2> QED
    BY <1>5, <2>1 DEF pop
<1>6. ASSUME NEW c \in Consumers, spurious_wakeup(c) PROVE UNCHANGED Abstract!vars
  <2>1. callers' = callers
    BY <1>0, <1>6 DEF spurious_wakeup
  <2> QED
    BY <1>6, <2>1 DEF spurious_wakeup
<1>7. ASSUME NEW c \in Consumers, try_pop(c) PROVE Abstract!Next
  BY <1>7, FrontIsNext
     DEF try_pop, TakeFront, Abstract!Next, Abstract!TryTake, Abstract!TakeNext
<1>8. CASE UNCHANGED vars
  BY <1>8 DEF vars
<1> QED
  BY <1>1, <1>2, <1>3, <1>4, <1>5, <1>6, <1>7, <1>8 DEF Next

(***************************************************************************)
(* Every behaviour of the monitor is a behaviour of the abstract queue.    *)
(***************************************************************************)
THEOREM QueueRefines == Spec => Abstract!Spec
<1>1. Spec => []Shape
  BY InitShape, NextShape, PTL DEF Spec
<1> QED
  BY <1>1, InitImplements, NextImplements, PTL DEF Spec, Abstract!Spec
=============================================================================
