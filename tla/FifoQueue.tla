------------------------------ MODULE FifoQueue ------------------------------
(***************************************************************************)
(* What AsyncQueue<T> promises its callers: a multi-producer,              *)
(* multi-consumer queue that hands out every item once and in the order    *)
(* in which the items were put, and in which a thread blocked in pop is    *)
(* served as long as there is something to take.  No mutex, no condition   *)
(* variable: module AsyncQueue implements this one.                        *)
(***************************************************************************)
EXTENDS Naturals, Sequences

CONSTANTS
    Consumers,  \* threads that call pop or try_pop
    Items       \* what producers put

VARIABLES
    in,         \* every item ever put, in order
    out,        \* every item ever taken, in order
    callers     \* the consumers that are inside pop

vars == <<in, out, callers>>

Init == in = <<>> /\ out = <<>> /\ callers = {}

Put(x) ==
    /\ in' = Append(in, x)
    /\ UNCHANGED <<out, callers>>

\* The oldest item that is still there goes out.
TakeNext ==
    /\ Len(out) < Len(in)
    /\ out' = Append(out, in[Len(out) + 1])
    /\ UNCHANGED in

Call(c) ==
    /\ c \notin callers
    /\ callers' = callers \cup {c}
    /\ UNCHANGED <<in, out>>

Return(c) ==
    /\ c \in callers
    /\ TakeNext
    /\ callers' = callers \ {c}

TryTake == TakeNext /\ UNCHANGED callers

Next ==
    \/ \E x \in Items : Put(x)
    \/ \E c \in Consumers : Call(c) \/ Return(c)
    \/ TryTake

Spec == Init /\ [][Next]_vars

(***************************************************************************)
(* Some caller returns when there is something to return.  It is not said  *)
(* which one: a condition variable does not queue its waiters.             *)
(***************************************************************************)
FairSpec == Spec /\ WF_vars(\E c \in Consumers : Return(c))
==============================================================================
