---------------------------- MODULE PoolAllocator ----------------------------
(***************************************************************************)
(* ExpandablePoolAllocator of hw-3-custom-allocator.  Requests that fit    *)
(* one block are served from a LIFO free list threaded through chunks that *)
(* are only given back at the end; larger ones go to operator new.  A      *)
(* block is a chunk and an index.  operator new may always fail, and then  *)
(* bad_alloc leaves allocate wherever it is.                               *)
(***************************************************************************)
EXTENDS Integers, Sequences, FiniteSets

CONSTANTS
    Memory,         \* what ::operator new can return
    Sizes,          \* sizeof(T) of the types the template is used with
    BlockSize,      \* the template's second argument
    SizeofNode,     \* sizeof(Node): the link of the free list
    MinGrow         \* 64

ASSUME AllocatorAssumption ==
    /\ Sizes \subseteq Nat \ {0}
    /\ BlockSize \in Nat
    /\ SizeofNode \in Nat \ {0}
    /\ MinGrow \in Nat \ {0}

VARIABLES
    sizeof_T,   \* sizeof(T), fixed by the instantiation
    heap,       \* the memory operator new gave out and has not got back
    chunks_,    \* the pool's own chunks, the newest first
    free_list_, \* the free blocks, the next one to be used first
    used_, total_,
    live        \* external: what the users of the allocator hold, as
                \* [pool |-> TRUE, at |-> block] or [pool |-> FALSE, at |-> memory]

pool == <<chunks_, free_list_, used_, total_>>
poolVars == <<sizeof_T, heap, pool, live>>

PoolInit ==
    /\ sizeof_T \in Sizes
    /\ heap = {}
    /\ chunks_ = <<>> /\ free_list_ = <<>>
    /\ used_ = 0 /\ total_ = 0
    /\ live = {}

AtLeast(a, b) == IF a >= b THEN a ELSE b
ActualBlockSize == AtLeast(BlockSize, SizeofNode)
needed_blocks(n) == (n * sizeof_T + ActualBlockSize - 1) \div ActualBlockSize

Blocks == Memory \X (Nat \ {0})

\* The state of the pool after grow(k) has got the chunk m.
Grown(m, k) ==
    [chunks |-> <<m>> \o chunks_,
     free |-> [i \in 1..k |-> <<m, k + 1 - i>>] \o free_list_,
     total |-> total_ + k]
NotGrown == [chunks |-> chunks_, free |-> free_list_, total |-> total_]

Pooled(n) == needed_blocks(n) <= 1

\* grow, if the free list is shorter than what is needed; the outcomes, as the
\* memory taken and the pool left behind
Growths(n) ==
    IF Len(free_list_) >= needed_blocks(n)
    THEN {[taken |-> {}, pool |-> NotGrown]}
    ELSE {[taken |-> {m},
           pool |-> Grown(m, AtLeast(MinGrow, needed_blocks(n) - Len(free_list_)))]
             : m \in Memory \ heap}

\* Results of allocate(n), n > 0: the growth and the allocation
SetPool(p) == chunks_' = p.chunks /\ total_' = p.total

from_pool(g) ==
    /\ SetPool(g.pool)
    /\ heap' = heap \cup g.taken
    /\ free_list_' = Tail(g.pool.free)
    /\ used_' = used_ + 1
    /\ live' = live \cup {[pool |-> TRUE, at |-> Head(g.pool.free)]}

from_heap(g, m) ==
    /\ SetPool(g.pool)
    /\ heap' = heap \cup g.taken \cup {m}
    /\ free_list_' = g.pool.free
    /\ live' = live \cup {[pool |-> FALSE, at |-> m]}
    /\ UNCHANGED used_

allocate(n) ==
    /\ \E g \in Growths(n) :
          \/ Pooled(n) /\ from_pool(g)
          \/ ~Pooled(n) /\ \E m \in Memory \ (heap \cup g.taken) : from_heap(g, m)
    /\ UNCHANGED sizeof_T

\* only the growth stays
keep_growth(g) ==
    /\ SetPool(g.pool)
    /\ heap' = heap \cup g.taken
    /\ free_list_' = g.pool.free
    /\ UNCHANGED <<used_, live>>

\* allocate(n) throws: grow itself failed, or the large request after it
bad_alloc(n) ==
    /\ \/ Len(free_list_) < needed_blocks(n) /\ UNCHANGED <<heap, pool, live>>
       \/ ~Pooled(n) /\ \E g \in Growths(n) : keep_growth(g)
    /\ UNCHANGED sizeof_T

\* deallocate(a.at, n), with the n it was allocated with
deallocate(a) ==
    /\ a \in live
    /\ live' = live \ {a}
    /\ \/ /\ a.pool
          /\ free_list_' = <<a.at>> \o free_list_
          /\ used_' = used_ - 1
          /\ UNCHANGED heap
       \/ /\ ~a.pool
          /\ heap' = heap \ {a.at}
          /\ UNCHANGED <<free_list_, used_>>
    /\ UNCHANGED <<sizeof_T, chunks_, total_>>

\* ~ExpandablePoolAllocator, when its users hold nothing any more
release_all ==
    /\ live = {}
    /\ heap' = heap \ {chunks_[i] : i \in DOMAIN chunks_}
    /\ chunks_' = <<>> /\ free_list_' = <<>>
    /\ used_' = 0 /\ total_' = 0
    /\ UNCHANGED <<sizeof_T, live>>

\* Any user: a node-based container, a vector, several at a time.
PoolNext ==
    \/ \E n \in Nat \ {0} : allocate(n) \/ bad_alloc(n)
    \/ \E a \in live : deallocate(a)
    \/ release_all

PoolSpec == PoolInit /\ [][PoolNext]_poolVars

-----------------------------------------------------------------------------
Owned == {chunks_[i] : i \in DOMAIN chunks_}
Free == {free_list_[i] : i \in DOMAIN free_list_}
Taken == {a.at : a \in {b \in live : b.pool}}
Large == {a.at : a \in {b \in live : ~b.pool}}

PoolTypeOK ==
    /\ sizeof_T \in Sizes
    /\ heap \subseteq Memory
    /\ chunks_ \in Seq(Memory)
    /\ free_list_ \in Seq(Blocks)
    /\ used_ \in Nat /\ total_ \in Nat
    /\ live \subseteq [pool : {TRUE}, at : Blocks] \cup [pool : {FALSE}, at : Memory]

(***************************************************************************)
(* No block is given out twice: the free list holds each of its blocks     *)
(* once, none of them is in use, and used_ and total_ count what is in use *)
(* and what there is, whatever the order of calls and failures.            *)
(***************************************************************************)
PoolAccounts ==
    /\ \A i, j \in DOMAIN free_list_ : free_list_[i] = free_list_[j] => i = j
    /\ Free \cap Taken = {}
    /\ used_ = Cardinality(Taken)
    /\ total_ = used_ + Len(free_list_)

(***************************************************************************)
(* Nothing dangles and nothing leaks: the memory taken from operator new   *)
(* is that of the pool's chunks, each owned once, and of the large         *)
(* requests in use, which are different; every block lies in an owned      *)
(* chunk.                                                                  *)
(***************************************************************************)
HeapOwned ==
    /\ heap = Owned \cup Large
    /\ Owned \cap Large = {}
    /\ \A i, j \in DOMAIN chunks_ : chunks_[i] = chunks_[j] => i = j
    /\ \A b \in Free \cup Taken : b[1] \in Owned
=============================================================================
