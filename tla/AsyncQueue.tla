----------------------------- MODULE AsyncQueue -----------------------------
(***************************************************************************)
(* async::detail::AsyncQueue<T> of hw-10-bulk and hw-9-async: a deque      *)
(* guarded by one mutex, with one condition variable for the consumers.    *)
(* Whatever runs under the mutex is one action.  push unlocks before it    *)
(* notifies, so the notification is an action of its own, and a consumer   *)
(* that waits in cv_.wait needs a wake-up and then the mutex again.        *)
(*                                                                         *)
(* hw-9 has a single consumer operation, called try_pop, which blocks: it  *)
(* is hw-10's pop.  hw-10's try_pop does not block.                        *)
(***************************************************************************)
EXTENDS Naturals, Sequences, FiniteSets

CONSTANTS
    Producers,  \* threads that call push
    Consumers,  \* threads that call pop or try_pop
    Items,      \* values of type T
    MaxPush     \* bound: how many pushes a behaviour contains

ASSUME ThreadAssumption ==
    /\ IsFiniteSet(Producers)
    /\ IsFiniteSet(Consumers)
    /\ MaxPush \in Nat

VARIABLES
    queue_,     \* the deque
    producer,   \* producer -> "idle" | "notify" (between unlock and notify_one)
    consumer,   \* consumer -> "idle" | "lock" (about to lock) | "wait" (asleep)
    pushed,     \* history: everything pushed
    popped      \* history: everything popped, by whichever consumer

vars == <<queue_, producer, consumer, pushed, popped>>

Init ==
    /\ queue_ = <<>>
    /\ producer = [p \in Producers |-> "idle"]
    /\ consumer = [c \in Consumers |-> "idle"]
    /\ pushed = <<>>
    /\ popped = <<>>

Waiting == {c \in Consumers : consumer[c] = "wait"}
Locking == {c \in Consumers : consumer[c] = "lock"}
Notifying == {p \in Producers : producer[p] = "notify"}

\* (mutant of TakeFront: the wrong end taken)
TakeFront_Back ==
    /\ popped' = Append(popped, queue_[Len(queue_)])
    /\ queue_' = SubSeq(queue_, 1, Len(queue_) - 1)

\* queue_.front() moved out, then queue_.pop_front()
TakeFront ==
    /\ popped' = Append(popped, Head(queue_))
    /\ queue_' = Tail(queue_)

-----------------------------------------------------------------------------
\* (mutant of AfterPush: notify only if the deque was empty)
AfterPush_IfEmpty == IF queue_ = <<>> THEN "notify" ELSE "idle"
AfterPush == "notify"

\* push: the part under the lock
push(p) ==
    /\ producer[p] = "idle"
    /\ Len(pushed) < MaxPush
    /\ \E x \in Items :
          /\ queue_' = Append(queue_, x)
          /\ pushed' = Append(pushed, x)
    /\ producer' = [producer EXCEPT ![p] = AfterPush]
    /\ UNCHANGED <<consumer, popped>>

\* (mutant of WakeOne: the call is missing)
WakeOne_Nobody == UNCHANGED consumer

\* cv_.notify_one() wakes one sleeper, any of them, or nobody
WakeOne ==
    \/ Waiting = {} /\ UNCHANGED consumer
    \/ \E c \in Waiting : consumer' = [consumer EXCEPT ![c] = "lock"]

\* push: after the unlock
notify_one(p) ==
    /\ producer[p] = "notify"
    /\ producer' = [producer EXCEPT ![p] = "idle"]
    /\ WakeOne
    /\ UNCHANGED <<queue_, pushed, popped>>

\* pop is called
call_pop(c) ==
    /\ consumer[c] = "idle"
    /\ consumer' = [consumer EXCEPT ![c] = "lock"]
    /\ UNCHANGED <<queue_, producer, pushed, popped>>

\* pop holds the lock: the predicate of cv_.wait decides
pop(c) ==
    /\ consumer[c] = "lock"
    /\ \/ /\ queue_ # <<>>
          /\ TakeFront
          /\ consumer' = [consumer EXCEPT ![c] = "idle"]
       \/ /\ queue_ = <<>>
          /\ consumer' = [consumer EXCEPT ![c] = "wait"]
          /\ UNCHANGED <<queue_, popped>>
    /\ UNCHANGED <<producer, pushed>>

\* cv_.wait may return without a notification
spurious_wakeup(c) ==
    /\ consumer[c] = "wait"
    /\ consumer' = [consumer EXCEPT ![c] = "lock"]
    /\ UNCHANGED <<queue_, producer, pushed, popped>>

\* hw-10's try_pop; on an empty queue it returns false and changes nothing
try_pop(c) ==
    /\ consumer[c] = "idle"
    /\ queue_ # <<>>
    /\ TakeFront
    /\ UNCHANGED <<producer, consumer, pushed>>

Next ==
    \/ \E p \in Producers : push(p) \/ notify_one(p)
    \/ \E c \in Consumers :
          call_pop(c) \/ pop(c) \/ spurious_wakeup(c) \/ try_pop(c)

Spec == Init /\ [][Next]_vars

(***************************************************************************)
(* A thread that can run does: push reaches its notification, and a        *)
(* consumer that wants the mutex gets it (every critical section is        *)
(* short).  Nothing makes a program call push or pop, and nothing makes a  *)
(* spurious wake-up happen.                                                *)
(***************************************************************************)
FairSpec ==
    /\ Spec
    /\ \A p \in Producers : WF_vars(notify_one(p))
    /\ \A c \in Consumers : WF_vars(pop(c))

-----------------------------------------------------------------------------
(***************************************************************************)
(* The values the variables take; no more is popped than was pushed.       *)
(***************************************************************************)
TypeOK ==
    /\ queue_ \in Seq(Items)
    /\ pushed \in Seq(Items)
    /\ popped \in Seq(Items)
    /\ Len(popped) <= Len(pushed)
    /\ Len(pushed) <= MaxPush
    /\ producer \in [Producers -> {"idle", "notify"}]
    /\ consumer \in [Consumers -> {"idle", "lock", "wait"}]

(***************************************************************************)
(* Across all producers and consumers, what came out followed by what is   *)
(* still inside is what went in, in the order of the pushes: push_back     *)
(* and pop_front under one mutex lose, repeat and overtake nothing.        *)
(***************************************************************************)
Fifo == pushed = popped \o queue_

(***************************************************************************)
(* No lost wake-up.  While a consumer sleeps in cv_.wait, every item in    *)
(* the deque is covered by a producer that has yet to notify or by a       *)
(* consumer that is about to lock the mutex; so notifying after the        *)
(* unlock, and one waiter at a time, never leaves an item and a sleeper    *)
(* together for good.                                                      *)
(***************************************************************************)
NoLostWakeup ==
    Waiting # {} =>
        Len(queue_) <= Cardinality(Notifying) + Cardinality(Locking)

(***************************************************************************)
(* The monitor implements the abstract queue, fairness included: in pop    *)
(* are the consumers that are about to lock or that sleep.                 *)
(***************************************************************************)
Abstract == INSTANCE FifoQueue WITH
                in <- pushed, out <- popped, callers <- Waiting \cup Locking

ImplementsFifo == Abstract!FairSpec
=============================================================================
