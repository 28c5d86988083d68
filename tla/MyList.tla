------------------------------- MODULE MyList -------------------------------
(***************************************************************************)
(* MyList<T, Allocator> of hw-3-custom-allocator: a singly linked list     *)
(* whose nodes come one by one from a pool of its own.  With the types of  *)
(* main.cpp a node is larger than the pool's blocks, and the pool grows    *)
(* but serves nothing; with a larger BlockSize it serves every node.       *)
(***************************************************************************)
EXTENDS PoolAllocator, SequencesExt

CONSTANTS
    Values,     \* T
    Null        \* nullptr

VARIABLES
    head_, tail_, size_,
    node,       \* what the nodes hold: [data, next]
    state,      \* "alive" | "cleared" (in the destructor) | "gone"
    pushed      \* history: the values pushed since the list was empty

listVars == <<head_, tail_, size_, node>>
vars == <<poolVars, listVars, state, pushed>>

Init ==
    /\ PoolInit
    /\ head_ = Null /\ tail_ = Null /\ size_ = 0
    /\ node = <<>>
    /\ state = "alive"
    /\ pushed = <<>>

\* the old tail, if there is one, points to the new node
Linked(n) == [node EXCEPT ![tail_].next = n]

\* (mutant of NewTail: tail_ is set for the first node only)
NewTail_First(n) == IF size_ = 0 THEN n ELSE tail_
NewTail(n) == n

push_back(v) ==
    /\ state = "alive"
    /\ allocate(1)
    /\ \E n \in live' \ live :
          /\ head_' = IF size_ = 0 THEN n ELSE head_
          /\ tail_' = NewTail(n)
          /\ node' = [a \in live' |-> IF a = n THEN [data |-> v, next |-> Null]
                                     ELSE Linked(n)[a]]
    /\ size_' = size_ + 1
    /\ pushed' = Append(pushed, v)
    /\ UNCHANGED state

\* (mutant of undo: the node is not given back)
undo_Leak(g) ==
    /\ SetPool(g.pool)
    /\ heap' = heap \cup g.taken
    /\ free_list_' = Tail(g.pool.free)
    /\ used_' = used_ + 1
    /\ UNCHANGED live

\* allocate, then deallocate: the block is the next one to be used again
undo(g) == keep_growth(g)

\* allocate throws, or T's copy constructor does and the node is given back
push_back_throws ==
    /\ state = "alive"
    /\ \/ bad_alloc(1)
       \/ /\ \E g \in Growths(1) :
                /\ Pooled(1) \/ Memory \ (heap \cup g.taken) # {}
                /\ undo(g)
          /\ UNCHANGED sizeof_T
    /\ UNCHANGED <<listVars, state, pushed>>

\* the nodes as the loops over the list find them
Chain ==
    LET at[k \in 1..size_] == IF k = 1 THEN head_ ELSE node[at[k - 1]].next
    IN  [k \in 1..size_ |-> at[k]]

\* (mutant of Given_back: the first node is skipped)
Given_back_NotFirst == IF size_ = 0 THEN <<>> ELSE Tail(Chain)
Given_back == Chain

\* clear: every node is deallocated, from the first to the last
clear_list ==
    /\ live' = live \ ToSet(Chain)
    /\ \/ /\ Pooled(1)
          /\ free_list_' = Reverse([k \in DOMAIN Given_back |-> Given_back[k].at]) \o free_list_
          /\ used_' = used_ - Len(Given_back)
          /\ UNCHANGED heap
       \/ /\ ~Pooled(1)
          /\ heap' = heap \ {a.at : a \in ToSet(Given_back)}
          /\ UNCHANGED <<free_list_, used_>>
    /\ head_' = Null /\ tail_' = Null /\ size_' = 0
    /\ node' = <<>>
    /\ pushed' = <<>>
    /\ UNCHANGED <<sizeof_T, chunks_, total_>>

clear == state = "alive" /\ clear_list /\ UNCHANGED state

\* ~MyList: its body clears, then the allocator is destroyed
begin_destruction == state = "alive" /\ clear_list /\ state' = "cleared"
destroy_allocator ==
    /\ state = "cleared"
    /\ release_all
    /\ state' = "gone"
    /\ UNCHANGED <<listVars, pushed>>

Next ==
    \/ \E v \in Values : push_back(v)
    \/ push_back_throws \/ clear
    \/ begin_destruction \/ destroy_allocator

Spec == Init /\ [][Next]_vars

-----------------------------------------------------------------------------
(***************************************************************************)
(* The list holds the values pushed since it was last cleared, in order,   *)
(* whatever blocks its nodes had before; tail_ is the last node, and the   *)
(* nodes are all that the list holds of the allocator.                     *)
(***************************************************************************)
ListHoldsValues ==
    /\ ToSet(Chain) = live
    /\ [k \in 1..size_ |-> node[Chain[k]].data] = pushed
    /\ IF size_ = 0 THEN head_ = Null /\ tail_ = Null
       ELSE Chain[size_] = tail_ /\ node[tail_].next = Null
=============================================================================
