------------------------- MODULE PoolAllocatorProofs -------------------------
(***************************************************************************)
(* The accounts and the ownership of the pool allocator hold for every     *)
(* user, every size of T and of a block, and every sequence of failures    *)
(* of operator new; and MyList, one of the users, holds what was pushed.   *)
(***************************************************************************)
EXTENDS PoolAllocator, MyList, FiniteSetTheorems, WellFoundedInduction, TLAPS

\* The blocks in use are finitely many, so that used_ can count them.
FiniteUse == IsFiniteSet(Taken)

\* What a user may hold.
Allocations == [pool : {TRUE}, at : Blocks] \cup [pool : {FALSE}, at : Memory]

IInv == PoolTypeOK /\ FiniteUse /\ PoolAccounts /\ HeapOwned

Elems(s) == {s[i] : i \in DOMAIN s}
Injective(s) == \A i, j \in DOMAIN s : s[i] = s[j] => i = j

-----------------------------------------------------------------------------
(* Sequences *)

\* A prefix without repetitions, disjoint from a sequence without repetitions.
LEMMA ConcatFacts ==
    ASSUME NEW S, NEW s \in Seq(S), NEW t \in Seq(S)
    PROVE  /\ s \o t \in Seq(S)
           /\ Len(s \o t) = Len(s) + Len(t)
           /\ Elems(s \o t) = Elems(s) \cup Elems(t)
           /\ Injective(s) /\ Injective(t) /\ Elems(s) \cap Elems(t) = {}
                 => Injective(s \o t)
<1> DEFINE st == s \o t
<1>1. st \in Seq(S) /\ Len(st) = Len(s) + Len(t)
  OBVIOUS
<1>2. \A i \in DOMAIN st :
          \/ i \in DOMAIN s /\ st[i] = s[i]
          \/ i - Len(s) \in DOMAIN t /\ i > Len(s) /\ st[i] = t[i - Len(s)]
  OBVIOUS
<1>3. \A i \in DOMAIN s : i \in DOMAIN st /\ st[i] = s[i]
  OBVIOUS
<1>4. \A i \in DOMAIN t : i + Len(s) \in DOMAIN st /\ st[i + Len(s)] = t[i]
  OBVIOUS
<1>5. Elems(st) = Elems(s) \cup Elems(t)
  <2> HIDE DEF st
  <2>1. Elems(st) \subseteq Elems(s) \cup Elems(t)
    BY <1>2 DEF Elems
  <2>2. Elems(s) \cup Elems(t) \subseteq Elems(st)
    BY <1>3, <1>4 DEF Elems
  <2> QED BY <2>1, <2>2
<1>6. ASSUME Injective(s), Injective(t), Elems(s) \cap Elems(t) = {},
             NEW i \in DOMAIN st, NEW j \in DOMAIN st, st[i] = st[j]
      PROVE  i = j
  <2> HIDE DEF st
  <2>1. CASE i \in DOMAIN s /\ st[i] = s[i] /\ j \in DOMAIN s /\ st[j] = s[j]
    BY <2>1, <1>6 DEF Injective
  <2>2. CASE i - Len(s) \in DOMAIN t /\ st[i] = t[i - Len(s)]
             /\ j - Len(s) \in DOMAIN t /\ st[j] = t[j - Len(s)]
    <3>1. i - Len(s) = j - Len(s)
      BY <2>2, <1>6 DEF Injective
    <3>2. i \in Nat /\ j \in Nat /\ Len(s) \in Nat
      BY <1>1
    <3> QED BY <3>1, <3>2
  <2>3. ASSUME NEW a \in DOMAIN s, NEW b \in DOMAIN t PROVE s[a] # t[b]
    BY <1>6 DEF Elems
  <2> QED BY <1>2, <1>6, <2>1, <2>2, <2>3
<1> QED BY <1>1, <1>5, <1>6 DEF Injective

\* Front and rest of a sequence without repetitions.
LEMMA TailFacts ==
    ASSUME NEW S, NEW s \in Seq(S), s # <<>>
    PROVE  /\ Tail(s) \in Seq(S) /\ Head(s) \in S
           /\ Len(Tail(s)) = Len(s) - 1
           /\ Elems(s) = Elems(Tail(s)) \cup {Head(s)}
           /\ Injective(s) => Injective(Tail(s)) /\ Head(s) \notin Elems(Tail(s))
<1>1. Tail(s) \in Seq(S) /\ Head(s) \in S /\ Len(Tail(s)) = Len(s) - 1 /\ Head(s) = s[1]
  OBVIOUS
<1>2. \A i \in DOMAIN Tail(s) : i + 1 \in DOMAIN s /\ Tail(s)[i] = s[i + 1] /\ i \in Nat \ {0}
  OBVIOUS
<1>3. \A i \in DOMAIN s : i = 1 \/ (i - 1 \in DOMAIN Tail(s) /\ Tail(s)[i - 1] = s[i])
  OBVIOUS
<1>4. 1 \in DOMAIN s
  OBVIOUS
<1>5. Elems(s) = Elems(Tail(s)) \cup {Head(s)}
  <2> DEFINE r == Tail(s)
             h == Head(s)
  <2>1. h = s[1]
    BY <1>1
  <2>2. \A i \in DOMAIN r : i + 1 \in DOMAIN s /\ r[i] = s[i + 1]
    BY <1>2
  <2>3. \A i \in DOMAIN s : i = 1 \/ (i - 1 \in DOMAIN r /\ r[i - 1] = s[i])
    BY <1>3
  <2> HIDE DEF r, h
  <2>4. Elems(s) \subseteq Elems(r) \cup {h}
    BY <2>1, <2>3 DEF Elems
  <2>5. Elems(r) \cup {h} \subseteq Elems(s)
    BY <2>1, <2>2, <1>4 DEF Elems
  <2> QED BY <2>4, <2>5 DEF r, h
<1>6. Injective(s) => Injective(Tail(s)) /\ Head(s) \notin Elems(Tail(s))
  <2> SUFFICES ASSUME Injective(s) PROVE Injective(Tail(s)) /\ Head(s) \notin Elems(Tail(s))
    OBVIOUS
  <2>1. ASSUME NEW i \in DOMAIN Tail(s), NEW j \in DOMAIN Tail(s), Tail(s)[i] = Tail(s)[j]
        PROVE  i = j
    <3>1. i + 1 = j + 1
      BY <1>2, <2>1 DEF Injective
    <3> QED BY <3>1, <1>2
  <2>2. ASSUME NEW i \in DOMAIN Tail(s), Tail(s)[i] = s[1] PROVE FALSE
    <3>1. i + 1 = 1
      BY <1>2, <1>4, <2>2 DEF Injective
    <3> QED BY <3>1, <1>2
  <2> QED BY <2>1, <2>2, <1>1 DEF Injective, Elems
<1> QED BY <1>1, <1>5, <1>6

-----------------------------------------------------------------------------
(* Growth *)

\* A positive request needs a positive number of blocks.
LEMMA NeededBlocks ==
    ASSUME PoolTypeOK, NEW n \in Nat \ {0}
    PROVE  needed_blocks(n) \in Nat \ {0}
<1> DEFINE A == ActualBlockSize
           x == n * sizeof_T
<1>1. A \in Nat \ {0}
  BY AllocatorAssumption DEF ActualBlockSize, AtLeast
<1>2. sizeof_T \in Nat \ {0}
  BY AllocatorAssumption DEF PoolTypeOK, Allocations
<1>3. x \in Nat \ {0}
  BY <1>2
<1>4. needed_blocks(n) = (x + A - 1) \div A
  BY DEF needed_blocks
<1> HIDE DEF x, A
<1>5. (x + A - 1) \div A \in Nat \ {0}
  BY <1>1, <1>3
<1> QED BY <1>4, <1>5

\* What allocate may use after its growth: the chunks are owned once, the free
\* blocks are different, in owned chunks and not in use, and there is one.
Sound(taken, chunks, free, total) ==
    /\ taken \subseteq Memory \ heap
    /\ chunks \in Seq(Memory)
    /\ Injective(chunks)
    /\ Elems(chunks) = Owned \cup taken
    /\ free \in Seq(Blocks)
    /\ free # <<>>
    /\ Injective(free)
    /\ Elems(free) \cap Taken = {}
    /\ \A b \in Elems(free) : b[1] \in Owned \cup taken
    /\ total \in Nat
    /\ total = used_ + Len(free)

LEMMA GrowthsAreSound ==
    ASSUME IInv, NEW n \in Nat \ {0}, NEW g \in Growths(n)
    PROVE  Sound(g.taken, g.pool.chunks, g.pool.free, g.pool.total)
<1> DEFINE needed == needed_blocks(n)
<1>1. needed \in Nat \ {0}
  BY NeededBlocks DEF IInv
<1> HIDE DEF needed
<1>2. /\ chunks_ \in Seq(Memory) /\ Injective(chunks_) /\ Elems(chunks_) = Owned
      /\ free_list_ \in Seq(Blocks) /\ Injective(free_list_) /\ Elems(free_list_) = Free
      /\ Free \cap Taken = {}
      /\ \A b \in Free \cup Taken : b[1] \in Owned
      /\ Owned \subseteq heap /\ heap \subseteq Memory
      /\ used_ \in Nat /\ total_ \in Nat /\ total_ = used_ + Len(free_list_)
  BY DEF IInv, PoolTypeOK, PoolAccounts, HeapOwned, Injective, Elems, Owned, Free
<1>3. CASE Len(free_list_) >= needed
  <2>1. g.taken = {} /\ g.pool.chunks = chunks_ /\ g.pool.free = free_list_ /\ g.pool.total = total_
    BY <1>3 DEF Growths, NotGrown, needed
  <2>2. free_list_ # <<>>
    BY <1>1, <1>2, <1>3
  <2> QED BY <1>2, <2>1, <2>2 DEF Sound
<1>4. CASE ~(Len(free_list_) >= needed)
  <2> DEFINE k == AtLeast(MinGrow, needed - Len(free_list_))
  <2>1. PICK m \in Memory \ heap : g = [taken |-> {m}, pool |-> Grown(m, k)]
    BY <1>4 DEF Growths, needed
  <2>2. k \in Nat \ {0}
    BY <1>1, <1>2, AllocatorAssumption DEF AtLeast
  <2> HIDE DEF k
  <2> DEFINE new == [i \in 1..k |-> <<m, k + 1 - i>>]
  <2>3. g.taken = {m} /\ g.pool.chunks = <<m>> \o chunks_ /\ g.pool.free = new \o free_list_
        /\ g.pool.total = total_ + k
    BY <2>1 DEF Grown
  <2>4. new \in Seq(Blocks) /\ Len(new) = k
    BY <2>2 DEF Blocks
  <2>5. \A b \in Elems(new) : b[1] = m
    BY DEF Elems
  <2>6. Injective(new)
    BY <2>2 DEF Injective
  <2> HIDE DEF new
  <2>7. Elems(new) \cap (Free \cup Taken) = {}
    BY <1>2, <2>1, <2>5
  <2>8. /\ g.pool.free \in Seq(Blocks) /\ Len(g.pool.free) = k + Len(free_list_)
        /\ Elems(g.pool.free) = Elems(new) \cup Free
        /\ Injective(g.pool.free)
    BY <1>2, <2>3, <2>4, <2>6, <2>7, ConcatFacts
  <2> DEFINE one == <<m>>
  <2>9. /\ one \in Seq(Memory) /\ Injective(one) /\ Elems(one) = {m}
    BY <2>1 DEF Injective, Elems
  <2>13. g.pool.chunks = one \o chunks_ /\ {m} \cap Owned = {}
    BY <1>2, <2>1, <2>3
  <2> HIDE DEF one
  <2>10. /\ g.pool.chunks \in Seq(Memory)
         /\ Injective(g.pool.chunks)
         /\ Elems(g.pool.chunks) = {m} \cup Owned
    BY <1>2, <2>9, <2>13, ConcatFacts
  <2>11. g.pool.free # <<>>
    BY <1>2, <2>2, <2>8
  <2>12. g.pool.total \in Nat /\ g.pool.total = used_ + Len(g.pool.free)
    BY <1>2, <2>2, <2>3, <2>8
  <2> QED BY <1>2, <2>1, <2>3, <2>5, <2>7, <2>8, <2>10, <2>11, <2>12 DEF Sound
<1> QED BY <1>3, <1>4

-----------------------------------------------------------------------------
(* The steps *)

LEMMA InitHolds == PoolInit => IInv
<1> SUFFICES ASSUME PoolInit PROVE IInv
  OBVIOUS
<1>1. Taken = {} /\ Large = {} /\ Owned = {} /\ Free = {}
  BY DEF PoolInit, Taken, Large, Owned, Free
<1>2. PoolTypeOK
  BY DEF PoolInit, PoolTypeOK
<1>3. FiniteUse
  BY <1>1, FS_EmptySet DEF FiniteUse
<1>4. PoolAccounts
  BY <1>1, FS_EmptySet DEF PoolInit, PoolAccounts
<1>5. HeapOwned
  BY <1>1 DEF PoolInit, HeapOwned
<1> QED BY <1>2, <1>3, <1>4, <1>5 DEF IInv

\* The invariant says of the sequences what the lemmas about them use.
LEMMA Kinds ==
    /\ \A x \in Blocks : [pool |-> TRUE, at |-> x] \in Allocations
    /\ \A m \in Memory : [pool |-> FALSE, at |-> m] \in Allocations
    /\ \A b \in Allocations :
          \/ b.pool /\ b.at \in Blocks /\ b = [pool |-> TRUE, at |-> b.at]
          \/ ~b.pool /\ b.at \in Memory /\ b = [pool |-> FALSE, at |-> b.at]
<1>1. \A x \in Blocks : [pool |-> TRUE, at |-> x] \in Allocations
  BY DEF Allocations
<1>2. \A m \in Memory : [pool |-> FALSE, at |-> m] \in Allocations
  BY DEF Allocations
<1>3. \A b \in [pool : {TRUE}, at : Blocks] :
          b.pool /\ b.at \in Blocks /\ b = [pool |-> TRUE, at |-> b.at]
  <2> TAKE b \in [pool : {TRUE}, at : Blocks]
  <2>1. b.pool = TRUE /\ b.at \in Blocks
    OBVIOUS
  <2>2. b = [pool |-> b.pool, at |-> b.at]
    OBVIOUS
  <2> QED BY <2>1, <2>2, Zenon
<1>4. \A b \in [pool : {FALSE}, at : Memory] :
          ~b.pool /\ b.at \in Memory /\ b = [pool |-> FALSE, at |-> b.at]
  <2> TAKE b \in [pool : {FALSE}, at : Memory]
  <2>1. b.pool = FALSE /\ b.at \in Memory
    OBVIOUS
  <2>2. b = [pool |-> b.pool, at |-> b.at]
    OBVIOUS
  <2> QED BY <2>1, <2>2, Zenon
<1> QED BY <1>1, <1>2, <1>3, <1>4, Zenon DEF Allocations

LEMMA Unfolded ==
    ASSUME IInv
    PROVE  /\ chunks_ \in Seq(Memory) /\ Injective(chunks_) /\ Elems(chunks_) = Owned
           /\ free_list_ \in Seq(Blocks) /\ Injective(free_list_) /\ Elems(free_list_) = Free
           /\ Free \cap Taken = {}
           /\ \A b \in Free \cup Taken : b[1] \in Owned
           /\ Owned \subseteq heap /\ heap \subseteq Memory
           /\ heap = Owned \cup Large /\ Owned \cap Large = {}
           /\ used_ \in Nat /\ used_ = Cardinality(Taken)
           /\ total_ \in Nat /\ total_ = used_ + Len(free_list_)
           /\ live \subseteq Allocations
           /\ IsFiniteSet(Taken)
BY DEF IInv, PoolTypeOK, FiniteUse, PoolAccounts, HeapOwned, Injective, Elems, Owned, Free, Allocations

\* A block of the pool, or memory of the heap, comes into use.
LEMMA MoreLive ==
    ASSUME NEW x
    PROVE  /\ live' = live \cup {[pool |-> TRUE, at |-> x]}
                 => Taken' = Taken \cup {x} /\ Large' = Large
           /\ live' = live \cup {[pool |-> FALSE, at |-> x]}
                 => Taken' = Taken /\ Large' = Large \cup {x}
<1>1. /\ [pool |-> TRUE, at |-> x].pool /\ [pool |-> TRUE, at |-> x].at = x
      /\ ~[pool |-> FALSE, at |-> x].pool /\ [pool |-> FALSE, at |-> x].at = x
  OBVIOUS
<1>2. ASSUME NEW a, a.pool, a.at = x, live' = live \cup {a}
      PROVE  Taken' = Taken \cup {x} /\ Large' = Large
  BY <1>2, Zenon DEF Taken, Large
<1>3. ASSUME NEW a, ~a.pool, a.at = x, live' = live \cup {a}
      PROVE  Taken' = Taken /\ Large' = Large \cup {x}
  BY <1>3, Zenon DEF Taken, Large
<1> QED BY <1>1, <1>2, <1>3, Zenon

LEMMA Unchanged ==
    ASSUME IInv, UNCHANGED poolVars
    PROVE  IInv'
<1> /\ sizeof_T' = sizeof_T /\ heap' = heap /\ live' = live /\ chunks_' = chunks_
    /\ free_list_' = free_list_ /\ used_' = used_ /\ total_' = total_
  BY DEF poolVars, pool
<1>1. Owned' = Owned /\ Free' = Free /\ Taken' = Taken /\ Large' = Large
  BY Zenon DEF Owned, Free, Taken, Large
<1>2. PoolTypeOK'
  BY DEF IInv, PoolTypeOK
<1>3. FiniteUse' /\ PoolAccounts' /\ HeapOwned'
  BY <1>1 DEF IInv, FiniteUse, PoolAccounts, HeapOwned
<1> QED BY <1>2, <1>3 DEF IInv

LEMMA FromPool ==
    ASSUME IInv, NEW taken, NEW free, Sound(taken, chunks_', free, total_'),
           free_list_' = Tail(free), used_' = used_ + 1, heap' = heap \cup taken,
           live' = live \cup {[pool |-> TRUE, at |-> Head(free)]},
           UNCHANGED sizeof_T
    PROVE  IInv'
<1> DEFINE h == Head(free)
<1>1. /\ free_list_' \in Seq(Blocks) /\ h \in Blocks
      /\ Len(free_list_') = Len(free) - 1
      /\ Elems(free) = Elems(free_list_') \cup {h}
      /\ Injective(free_list_') /\ h \notin Elems(free_list_')
  BY TailFacts DEF Sound
<1>2. total_' \in Nat /\ total_' = used_ + Len(free) /\ Len(free) \in Nat /\ used_ \in Nat
  BY Unfolded DEF Sound
<1>3. Taken' = Taken \cup {h} /\ Large' = Large
  BY MoreLive
<1>4. live' \subseteq Allocations
  <2>1. live \subseteq Allocations /\ [pool |-> TRUE, at |-> h] \in Allocations
    BY <1>1, Unfolded, Kinds
  <2> QED BY <2>1
<1> HIDE DEF h
<1>5. Owned' = Owned \cup taken /\ Free' = Elems(free_list_')
  BY DEF Owned, Free, Elems, Sound
<1>6. h \notin Taken
  BY <1>1 DEF Sound
<1>7. PoolTypeOK'
  <2>1. heap' \subseteq Memory /\ chunks_' \in Seq(Memory)
    BY Unfolded DEF Sound
  <2>2. used_' \in Nat /\ sizeof_T' \in Sizes
    BY <1>2 DEF IInv, PoolTypeOK
  <2> QED BY <1>1, <1>2, <1>4, <2>1, <2>2 DEF PoolTypeOK, Allocations
<1>8. FiniteUse' /\ Cardinality(Taken') = Cardinality(Taken) + 1
  BY <1>3, <1>6, Unfolded, FS_AddElement DEF FiniteUse
<1>9. PoolAccounts'
  <2>1. (Free \cap Taken)' = {}
    BY <1>1, <1>3, <1>5 DEF Sound
  <2>2. total_' = used_' + Len(free_list_')
    BY <1>1, <1>2
  <2>3. used_' = Cardinality(Taken')
    BY <1>8, Unfolded
  <2> QED BY <1>1, <2>1, <2>2, <2>3 DEF PoolAccounts, Injective
<1>10. HeapOwned'
  <2>1. Injective(chunks_') /\ taken \cap heap = {}
    BY DEF Sound
  <2>2. heap' = Owned' \cup Large' /\ Owned' \cap Large' = {}
    BY <1>3, <1>5, <2>1, Unfolded
  <2>3. \A b \in Free' \cup Taken' : b[1] \in Owned'
    BY <1>1, <1>3, <1>5, Unfolded DEF Sound
  <2> QED BY <2>1, <2>2, <2>3 DEF HeapOwned, Injective
<1> QED BY <1>7, <1>8, <1>9, <1>10 DEF IInv

\* from_heap, and keep_growth, which takes no memory beside the chunk.
LEMMA FromHeap ==
    ASSUME IInv, NEW taken, Sound(taken, chunks_', free_list_', total_'),
           UNCHANGED <<sizeof_T, used_>>,
           NEW M \in SUBSET (Memory \ (heap \cup taken)),
           heap' = heap \cup taken \cup M,
           Taken' = Taken, Large' = Large \cup M,
           live' \subseteq Allocations
    PROVE  IInv'
<1>1. Owned' = Owned \cup taken /\ Free' = Elems(free_list_')
  BY DEF Owned, Free, Elems, Sound
<1>2. PoolTypeOK'
  <2>1. heap' \subseteq Memory
    BY Unfolded DEF Sound
  <2> QED BY <2>1 DEF IInv, PoolTypeOK, Sound, Allocations
<1>3. FiniteUse'
  BY Unfolded DEF FiniteUse
<1>4. PoolAccounts'
  BY <1>1, Unfolded DEF PoolAccounts, Injective, Sound
<1>5. HeapOwned'
  <2>1. Injective(chunks_') /\ taken \cap heap = {}
    BY DEF Sound
  <2>2. heap' = Owned' \cup Large' /\ Owned' \cap Large' = {}
    BY <1>1, <2>1, Unfolded
  <2>3. \A b \in Free' \cup Taken' : b[1] \in Owned'
    BY <1>1, Unfolded DEF Sound
  <2> QED BY <2>1, <2>2, <2>3 DEF HeapOwned, Injective
<1> QED BY <1>2, <1>3, <1>4, <1>5 DEF IInv

LEMMA Allocate ==
    ASSUME IInv, NEW n \in Nat \ {0}, allocate(n)
    PROVE  IInv'
<1>1. UNCHANGED sizeof_T
  BY DEF allocate
<1>2. ASSUME NEW g \in Growths(n), from_pool(g) PROVE IInv'
  <2>1. /\ chunks_' = g.pool.chunks /\ total_' = g.pool.total
        /\ free_list_' = Tail(g.pool.free) /\ used_' = used_ + 1
        /\ heap' = heap \cup g.taken
        /\ live' = live \cup {[pool |-> TRUE, at |-> Head(g.pool.free)]}
    BY <1>2 DEF from_pool, SetPool
  <2>2. Sound(g.taken, chunks_', g.pool.free, total_')
    BY <2>1, GrowthsAreSound
  <2> QED BY <1>1, <2>1, <2>2, FromPool
<1>3. ASSUME NEW g \in Growths(n), NEW m \in Memory \ (heap \cup g.taken), from_heap(g, m)
      PROVE  IInv'
  <2>1. /\ chunks_' = g.pool.chunks /\ total_' = g.pool.total
        /\ free_list_' = g.pool.free /\ used_' = used_
        /\ heap' = heap \cup g.taken \cup {m}
        /\ live' = live \cup {[pool |-> FALSE, at |-> m]}
    BY <1>3 DEF from_heap, SetPool
  <2>2. Sound(g.taken, chunks_', free_list_', total_')
    BY <2>1, GrowthsAreSound
  <2>3. Taken' = Taken /\ Large' = Large \cup {m}
    BY <2>1, MoreLive
  <2>4. live' \subseteq Allocations
    <3>1. live \subseteq Allocations /\ [pool |-> FALSE, at |-> m] \in Allocations
      BY Unfolded, Kinds
    <3> QED BY <2>1, <3>1
  <2>5. {m} \in SUBSET (Memory \ (heap \cup g.taken))
    OBVIOUS
  <2> QED BY <1>1, <2>1, <2>2, <2>3, <2>4, <2>5, FromHeap
<1> QED BY <1>2, <1>3 DEF allocate

LEMMA BadAlloc ==
    ASSUME IInv, NEW n \in Nat \ {0}, bad_alloc(n)
    PROVE  IInv'
<1>1. CASE UNCHANGED poolVars
  BY <1>1, Unchanged
<1>2. ASSUME NEW g \in Growths(n), keep_growth(g), UNCHANGED sizeof_T PROVE IInv'
  <2>1. /\ chunks_' = g.pool.chunks /\ total_' = g.pool.total
        /\ free_list_' = g.pool.free /\ used_' = used_ /\ live' = live
        /\ heap' = heap \cup g.taken \cup {}
    BY <1>2 DEF keep_growth, SetPool
  <2>2. Sound(g.taken, chunks_', free_list_', total_')
    BY <2>1, GrowthsAreSound
  <2>3. Taken' = Taken /\ Large' = Large \cup {}
    BY <2>1, Zenon DEF Taken, Large
  <2>4. live' \subseteq Allocations
    BY <2>1, Unfolded
  <2>5. {} \in SUBSET (Memory \ (heap \cup g.taken))
    OBVIOUS
  <2> QED BY <1>2, <2>1, <2>2, <2>3, <2>4, <2>5, FromHeap
<1> QED BY <1>1, <1>2 DEF bad_alloc, poolVars, pool

\* What is in use is told apart by its kind and its address.
LEMMA LessLive ==
    ASSUME IInv, NEW a \in live, live' = live \ {a}
    PROVE  /\ a.pool => /\ a.at \in Taken /\ a.at \in Blocks
                        /\ Taken' = Taken \ {a.at} /\ Large' = Large
           /\ ~a.pool => /\ a.at \in Large
                         /\ Taken' = Taken /\ Large' = Large \ {a.at}
<1>1. \A b \in live :
          \/ b.pool /\ b.at \in Blocks /\ b = [pool |-> TRUE, at |-> b.at]
          \/ ~b.pool /\ b = [pool |-> FALSE, at |-> b.at]
  <2>1. live \subseteq Allocations
    BY Unfolded
  <2> QED BY <2>1, Kinds
<1>2. \A b \in live : b.at = a.at /\ (b.pool <=> a.pool) => b = a
  BY <1>1
<1>3. CASE a.pool
  <2>1. a.at \in Taken /\ a.at \in Blocks
    BY <1>1, <1>3, Zenon DEF Taken
  <2>2. Large' = Large
    BY <1>3, Zenon DEF Large
  <2>3. Taken' = Taken \ {a.at}
    BY <1>2, <1>3, Zenon DEF Taken
  <2> QED BY <1>3, <2>1, <2>2, <2>3
<1>4. CASE ~a.pool
  <2>1. a.at \in Large
    BY <1>4, Zenon DEF Large
  <2>2. Taken' = Taken
    BY <1>4, Zenon DEF Taken
  <2>3. Large' = Large \ {a.at}
    BY <1>2, <1>4, Zenon DEF Large
  <2> QED BY <1>4, <2>1, <2>2, <2>3
<1> QED BY <1>3, <1>4

LEMMA Deallocate ==
    ASSUME IInv, NEW a \in live, deallocate(a)
    PROVE  IInv'
<1> DEFINE x == a.at
<1>1. /\ live' = live \ {a} /\ UNCHANGED <<sizeof_T, chunks_, total_>>
      /\ a.pool => free_list_' = <<x>> \o free_list_ /\ used_' = used_ - 1 /\ heap' = heap
      /\ ~a.pool => heap' = heap \ {x} /\ free_list_' = free_list_ /\ used_' = used_
  BY DEF deallocate
<1>2. /\ a.pool => x \in Taken /\ x \in Blocks /\ Taken' = Taken \ {x} /\ Large' = Large
      /\ ~a.pool => x \in Large /\ Taken' = Taken /\ Large' = Large \ {x}
  BY <1>1, LessLive
<1>3. live' \subseteq Allocations
  BY <1>1, Unfolded
<1>4. chunks_' = chunks_ /\ total_' = total_ /\ sizeof_T' = sizeof_T /\ sizeof_T \in Sizes
  BY <1>1 DEF IInv, PoolTypeOK
<1>5. Owned' = Owned
  BY <1>4 DEF Owned
<1> HIDE DEF x
<1>6. CASE a.pool
  <2> DEFINE one == <<x>>
  <2>1. one \in Seq(Blocks) /\ Injective(one) /\ Elems(one) = {x} /\ Len(one) = 1
    BY <1>2, <1>6 DEF Injective, Elems
  <2>2. /\ free_list_' = one \o free_list_ /\ used_' = used_ - 1 /\ heap' = heap
        /\ x \in Taken /\ Taken' = Taken \ {x} /\ Large' = Large
    BY <1>1, <1>2, <1>6
  <2> HIDE DEF one
  <2>3. x \notin Free /\ x[1] \in Owned
    BY <2>2, Unfolded
  <2>4. /\ free_list_' \in Seq(Blocks) /\ Len(free_list_') = 1 + Len(free_list_)
        /\ Elems(free_list_') = {x} \cup Free /\ Injective(free_list_')
    <3>1. /\ one \in Seq(Blocks) /\ Injective(one)
          /\ free_list_ \in Seq(Blocks) /\ Injective(free_list_)
          /\ Elems(free_list_) = Free /\ Elems(one) \cap Elems(free_list_) = {}
      BY <2>1, <2>3, Unfolded
    <3>2. free_list_' = one \o free_list_
      BY <2>2
    <3>3. /\ one \o free_list_ \in Seq(Blocks)
          /\ Len(one \o free_list_) = Len(one) + Len(free_list_)
          /\ Elems(one \o free_list_) = Elems(one) \cup Elems(free_list_)
          /\ Injective(one \o free_list_)
      BY <3>1, ConcatFacts
    <3> QED BY <2>1, <3>1, <3>2, <3>3
  <2>5. Free' = {x} \cup Free
    BY <2>4 DEF Free, Elems
  <2>6. IsFiniteSet(Taken') /\ Cardinality(Taken') = Cardinality(Taken) - 1
        /\ Cardinality(Taken') \in Nat
    BY <2>2, Unfolded, FS_RemoveElement, FS_CardinalityType
  <2>7. used_' \in Nat /\ used_' = Cardinality(Taken')
    BY <2>2, <2>6, Unfolded
  <2>8. total_' \in Nat /\ total_' = used_' + Len(free_list_')
    BY <1>4, <2>2, <2>4, Unfolded
  <2>9. PoolTypeOK'
    BY <1>3, <1>4, <2>2, <2>4, <2>7, <2>8, Unfolded DEF PoolTypeOK, Allocations
  <2>10. PoolAccounts'
    BY <2>2, <2>4, <2>5, <2>7, <2>8, Unfolded DEF PoolAccounts, Injective
  <2>11. HeapOwned'
    <3>1. heap' = Owned' \cup Large' /\ Owned' \cap Large' = {}
      BY <1>5, <2>2, Unfolded
    <3>2. Injective(chunks_')
      BY <1>4, Unfolded
    <3>3. \A b \in Free' \cup Taken' : b[1] \in Owned'
      BY <1>5, <2>2, <2>3, <2>5, Unfolded
    <3> QED BY <3>1, <3>2, <3>3 DEF HeapOwned, Injective
  <2> QED BY <2>6, <2>9, <2>10, <2>11 DEF IInv, FiniteUse
<1>7. CASE ~a.pool
  <2>1. /\ free_list_' = free_list_ /\ used_' = used_ /\ heap' = heap \ {x}
        /\ x \in Large /\ Taken' = Taken /\ Large' = Large \ {x}
    BY <1>1, <1>2, <1>7
  <2>2. Free' = Free
    BY <2>1 DEF Free
  <2>3. PoolTypeOK'
    BY <1>3, <1>4, <2>1, Unfolded DEF PoolTypeOK, Allocations
  <2>4. FiniteUse' /\ PoolAccounts'
    BY <1>4, <2>1, <2>2 DEF IInv, FiniteUse, PoolAccounts
  <2>5. HeapOwned'
    <3>1. heap' = Owned' \cup Large' /\ Owned' \cap Large' = {}
      BY <1>5, <2>1, Unfolded
    <3>2. Injective(chunks_')
      BY <1>4, Unfolded
    <3>3. \A b \in Free' \cup Taken' : b[1] \in Owned'
      BY <1>5, <2>1, <2>2, Unfolded
    <3> QED BY <3>1, <3>2, <3>3 DEF HeapOwned, Injective
  <2> QED BY <2>3, <2>4, <2>5 DEF IInv
<1> QED BY <1>6, <1>7

LEMMA Release ==
    ASSUME IInv, release_all
    PROVE  IInv'
<1>1. /\ live = {} /\ live' = {} /\ heap' = heap \ Owned
      /\ chunks_' = <<>> /\ free_list_' = <<>> /\ used_' = 0 /\ total_' = 0
      /\ sizeof_T' = sizeof_T
  BY DEF release_all, Owned
<1>2. Taken' = {} /\ Large' = {} /\ Large = {} /\ Owned' = {} /\ Free' = {}
  BY <1>1 DEF Taken, Large, Owned, Free
<1>3. heap' = {}
  BY <1>1, <1>2, Unfolded
<1>4. PoolTypeOK'
  BY <1>1, <1>3 DEF IInv, PoolTypeOK
<1>5. FiniteUse' /\ PoolAccounts'
  BY <1>1, <1>2, FS_EmptySet DEF FiniteUse, PoolAccounts
<1>6. HeapOwned'
  BY <1>1, <1>2, <1>3 DEF HeapOwned
<1> QED BY <1>4, <1>5, <1>6 DEF IInv

LEMMA NextKeeps == IInv /\ [PoolNext]_poolVars => IInv'
<1> SUFFICES ASSUME IInv, [PoolNext]_poolVars PROVE IInv'
  OBVIOUS
<1>1. CASE UNCHANGED poolVars
  BY <1>1, Unchanged
<1>2. ASSUME NEW n \in Nat \ {0}, allocate(n) PROVE IInv'
  BY <1>2, Allocate
<1>3. ASSUME NEW n \in Nat \ {0}, bad_alloc(n) PROVE IInv'
  BY <1>3, BadAlloc
<1>4. ASSUME NEW a \in live, deallocate(a) PROVE IInv'
  BY <1>4, Deallocate
<1>5. CASE release_all
  BY <1>5, Release
<1> QED BY <1>1, <1>2, <1>3, <1>4, <1>5 DEF PoolNext

-----------------------------------------------------------------------------
(***************************************************************************)
(* Whatever its users ask for and whenever operator new fails, the pool    *)
(* gives no block out twice, and used_ and total_ count what they say.     *)
(***************************************************************************)
THEOREM AccountsCorrect == PoolSpec => []PoolAccounts
<1>1. IInv => PoolAccounts
  BY DEF IInv
<1> QED BY <1>1, InitHolds, NextKeeps, PTL DEF PoolSpec

(***************************************************************************)
(* The memory taken from operator new is that of the chunks and of the     *)
(* large requests in use: nothing leaks and no free block dangles.         *)
(***************************************************************************)
THEOREM OwnershipOfMemory == PoolSpec => []HeapOwned
<1>1. IInv => HeapOwned
  BY DEF IInv
<1> QED BY <1>1, InitHolds, NextKeeps, PTL DEF PoolSpec

-----------------------------------------------------------------------------
(***************************************************************************)
(* MyList.  clear gives back all nodes in one step of the model, so that   *)
(* its step is no step of PoolNext and the invariant of the pool is shown  *)
(* again, with what the list adds to it: the sequence of its nodes.        *)
(***************************************************************************)
\* keep_growth, from anywhere that allocate may throw
LEMMA KeepGrowth ==
    ASSUME IInv, NEW n \in Nat \ {0}, NEW g \in Growths(n), keep_growth(g), UNCHANGED sizeof_T
    PROVE  IInv'
<1>1. /\ chunks_' = g.pool.chunks /\ total_' = g.pool.total
      /\ free_list_' = g.pool.free /\ used_' = used_ /\ live' = live
      /\ heap' = heap \cup g.taken \cup {}
  BY DEF keep_growth, SetPool
<1>2. Sound(g.taken, chunks_', free_list_', total_')
  BY <1>1, GrowthsAreSound
<1>3. Taken' = Taken /\ Large' = Large \cup {}
  BY <1>1, Zenon DEF Taken, Large
<1>4. live' \subseteq Allocations
  BY <1>1, Unfolded
<1>5. {} \in SUBSET (Memory \ (heap \cup g.taken))
  OBVIOUS
<1> QED BY <1>1, <1>2, <1>3, <1>4, <1>5, FromHeap

\* allocate gives something that is not in use.
LEMMA AllocatesOne ==
    ASSUME IInv, allocate(1)
    PROVE  \E x \in Allocations \ live :
              live' = live \cup {x} /\ (x.pool <=> Pooled(1)) /\ sizeof_T' = sizeof_T
<1>1. CASE Pooled(1)
  <2>1. PICK g \in Growths(1) : from_pool(g)
    BY <1>1 DEF allocate
  <2>2. Sound(g.taken, g.pool.chunks, g.pool.free, g.pool.total)
    BY GrowthsAreSound
  <2> DEFINE h == Head(g.pool.free)
             x == [pool |-> TRUE, at |-> h]
  <2>3. h \in Blocks /\ h \in Elems(g.pool.free) /\ h \notin Taken
    BY <2>2, TailFacts DEF Sound
  <2>4. x \in Allocations /\ x.pool /\ x.at = h
    BY <2>3, Kinds
  <2>5. live' = live \cup {x} /\ sizeof_T' = sizeof_T
    BY <2>1 DEF from_pool, allocate
  <2> HIDE DEF h, x
  <2>6. x \notin live
    BY <2>3, <2>4, Zenon DEF Taken
  <2> QED BY <1>1, <2>4, <2>5, <2>6
<1>2. CASE ~Pooled(1)
  <2>0. PICK g \in Growths(1) : \E m \in Memory \ (heap \cup g.taken) : from_heap(g, m)
    BY <1>2 DEF allocate
  <2>1. PICK m \in Memory \ (heap \cup g.taken) : from_heap(g, m)
    BY <2>0
  <2> DEFINE x == [pool |-> FALSE, at |-> m]
  <2>2. m \notin Large
    BY Unfolded
  <2>3. x \in Allocations /\ ~x.pool /\ x.at = m
    BY Kinds
  <2>4. live' = live \cup {x} /\ sizeof_T' = sizeof_T
    BY <2>1 DEF from_heap, allocate
  <2> HIDE DEF x
  <2>5. x \notin live
    BY <2>2, <2>3, Zenon DEF Large
  <2> QED BY <1>2, <2>3, <2>4, <2>5
<1> QED BY <1>1, <1>2

-----------------------------------------------------------------------------
(***************************************************************************)
(* The list.  s is the sequence of its nodes, the invariant's witness for  *)
(* what the loops over the list find.                                      *)
(***************************************************************************)
IsList(s) ==
    /\ s \in Seq(Allocations) /\ Len(s) = size_
    /\ Injective(s) /\ Elems(s) = live
    /\ node \in [live -> [data : Values, next : Allocations \cup {Null}]]
    /\ pushed \in Seq(Values) /\ Len(pushed) = size_
    /\ \A k \in 1..size_ : node[s[k]].data = pushed[k]
    /\ \A k \in 1..(size_ - 1) : node[s[k]].next = s[k + 1]
    /\ IF size_ = 0 THEN head_ = Null /\ tail_ = Null
       ELSE head_ = s[1] /\ tail_ = s[size_] /\ node[tail_].next = Null

\* One instantiation has nodes of one size.
OneKind == \A a \in live : a.pool <=> Pooled(1)

ListInv == IInv /\ OneKind /\ \E s \in Seq(Allocations) : IsList(s)

\* Along the links lie the nodes: no first place where another one is found.
LessRel == OpToRel(<, Nat)

LEMMA FirstOf ==
    ASSUME NEW T \in SUBSET Nat, T # {}
    PROVE  \E x \in T : \A y \in T : ~(y < x)
<1>1. \A y, x \in Nat : <<y, x>> \in LessRel <=> y < x
  BY DEF LessRel, OpToRel
<1>2. IsWellFoundedOn(LessRel, Nat)
  BY NatLessThanWellFounded DEF LessRel
<1>3. PICK x \in T : \A y \in T : ~(<<y, x>> \in LessRel)
  BY <1>2, WFMin
<1> QED
  BY <1>1, <1>3

LEMMA ChainIs ==
    ASSUME NEW s \in Seq(Allocations), IsList(s)
    PROVE  Chain = s
<1> DEFINE Follows(f) == f = [k \in 1..size_ |-> IF k = 1 THEN head_ ELSE node[f[k - 1]].next]
           at == CHOOSE f : Follows(f)
<1>1. size_ \in Nat /\ DOMAIN s = 1..size_
  BY DEF IsList
<1>2. Follows(s)
  <2>1. \A k \in 1..size_ : s[k] = IF k = 1 THEN head_ ELSE node[s[k - 1]].next
    <3> TAKE k \in 1..size_
    <3>1. CASE k = 1
      BY <1>1, <3>1 DEF IsList
    <3>2. CASE k # 1
      <4>1. k - 1 \in 1..(size_ - 1) /\ (k - 1) + 1 = k
        BY <1>1, <3>2
      <4>2. node[s[k - 1]].next = s[(k - 1) + 1]
        BY <4>1 DEF IsList
      <4> QED
        BY <3>2, <4>1, <4>2
    <3> QED
      BY <3>1, <3>2
  <2>2. s = [k \in 1..size_ |-> s[k]]
    BY <1>1
  <2> QED
    BY <2>1, <2>2
<1>3. Follows(at)
  BY <1>2
<1>4. Chain = [k \in 1..size_ |-> at[k]]
  BY DEF Chain
<1> HIDE DEF at
<1>5. /\ DOMAIN at = 1..size_
      /\ \A k \in 1..size_ : at[k] = IF k = 1 THEN head_ ELSE node[at[k - 1]].next
  BY <1>3
<1>6. \A k \in 1..size_ : s[k] = IF k = 1 THEN head_ ELSE node[s[k - 1]].next
  BY <1>2
<1>7. \A k \in 1..size_ : at[k] = s[k]
  <2> DEFINE T == {k \in 1..size_ : at[k] # s[k]}
  <2> SUFFICES ASSUME T # {} PROVE FALSE
    OBVIOUS
  <2>1. T \in SUBSET Nat
    BY <1>1
  <2>2. PICK k \in T : \A j \in T : ~(j < k)
    BY <2>1, FirstOf
  <2>3. CASE k = 1
    BY <1>5, <1>6, <2>2, <2>3
  <2>4. CASE k # 1
    <3>1. k \in 1..size_ /\ k - 1 \in 1..size_ /\ k - 1 < k
      BY <1>1, <2>2, <2>4
    <3>2. at[k - 1] = s[k - 1]
      BY <2>2, <3>1
    <3> QED
      BY <1>5, <1>6, <2>2, <2>4, <3>1, <3>2
  <2> QED
    BY <2>3, <2>4
<1>8. s = [k \in 1..size_ |-> s[k]]
  BY <1>1
<1> QED
  BY <1>4, <1>7, <1>8

LEMMA EmptyList ==
    ASSUME live = {}, size_ = 0, head_ = Null, tail_ = Null, node = <<>>, pushed = <<>>
    PROVE  IsList(<<>>)
<1>1. node \in [live -> [data : Values, next : Allocations \cup {Null}]]
  OBVIOUS
<1> QED
  BY <1>1 DEF IsList, Injective, Elems

LEMMA PushKeeps ==
    ASSUME ListInv, NEW v \in Values, push_back(v)
    PROVE  ListInv'
<1>0. IInv /\ OneKind
  BY DEF ListInv
<1>1. allocate(1)
  BY DEF push_back
<1>2. IInv'
  BY <1>0, <1>1, Allocate
<1>3. PICK x \in Allocations \ live :
         live' = live \cup {x} /\ (x.pool <=> Pooled(1)) /\ sizeof_T' = sizeof_T
  BY <1>0, <1>1, AllocatesOne
<1>4. live' \ live = {x}
  BY <1>3
<1>5. /\ head_' = IF size_ = 0 THEN x ELSE head_
      /\ tail_' = x
      /\ node' = [a \in live' |-> IF a = x THEN [data |-> v, next |-> Null]
                                 ELSE [node EXCEPT ![tail_].next = x][a]]
      /\ size_' = size_ + 1 /\ pushed' = Append(pushed, v)
  BY <1>4 DEF push_back, NewTail, Linked
<1>6. PICK s \in Seq(Allocations) : IsList(s)
  BY DEF ListInv
<1> DEFINE t == Append(s, x)
<1>7. /\ size_ \in Nat /\ Len(s) = size_ /\ DOMAIN s = 1..size_
      /\ x \notin Elems(s) /\ Injective(s) /\ Elems(s) = live
      /\ node \in [live -> [data : Values, next : Allocations \cup {Null}]]
      /\ pushed \in Seq(Values) /\ Len(pushed) = size_
      /\ \A k \in 1..size_ : node[s[k]].data = pushed[k]
      /\ \A k \in 1..(size_ - 1) : node[s[k]].next = s[k + 1]
      /\ size_ # 0 => head_ = s[1] /\ tail_ = s[size_]
  BY <1>3, <1>6 DEF IsList
<1>8. /\ t \in Seq(Allocations) /\ Len(t) = size_ + 1 /\ DOMAIN t = 1..(size_ + 1)
      /\ \A k \in 1..size_ : t[k] = s[k]
      /\ t[size_ + 1] = x
  BY <1>3, <1>7
<1> HIDE DEF t
<1>9. Elems(t) = live' /\ Injective(t)
  <2>1. \A k \in 1..(size_ + 1) : k \in 1..size_ \/ k = size_ + 1
    BY <1>7
  <2>2. 1..size_ \subseteq 1..(size_ + 1) /\ size_ + 1 \in 1..(size_ + 1)
    BY <1>7
  <2>3. Elems(t) = Elems(s) \cup {x}
    <3>1. /\ Elems(t) = {t[k] : k \in 1..(size_ + 1)}
          /\ Elems(s) = {s[k] : k \in 1..size_}
      BY <1>7, <1>8 DEF Elems
    <3>2. \A y : (\E k \in 1..(size_ + 1) : y = t[k]) <=> (y = x \/ \E k \in 1..size_ : y = s[k])
      BY <1>8, <2>1, <2>2
    <3> QED
      BY <3>1, <3>2
  <2>4. \A k \in 1..size_ : s[k] # x
    BY <1>7 DEF Elems
  <2>5. Injective(t)
    BY <1>7, <1>8, <2>1, <2>4 DEF Injective
  <2> QED
    BY <1>3, <1>7, <2>3, <2>5
<1> DEFINE old == [node EXCEPT ![tail_].next = x]
<1>10. \A a \in live : /\ old[a] \in [data : Values, next : Allocations \cup {Null}]
                       /\ old[a].data = node[a].data
                       /\ old[a].next = IF a = tail_ THEN x ELSE node[a].next
  <2> TAKE a \in live
  <2>1. node[a] \in [data : Values, next : Allocations \cup {Null}]
    BY <1>7
  <2>2. old[a] = IF a = tail_ THEN [node[a] EXCEPT !.next = x] ELSE node[a]
    BY <1>7
  <2> QED
    BY <1>3, <2>1, <2>2
<1> HIDE DEF old
<1>13. /\ node'[x] = [data |-> v, next |-> Null]
       /\ \A a \in live : node'[a] = old[a]
       /\ node' = [a \in live' |-> node'[a]]
  BY <1>3, <1>5 DEF old
<1>14. node' \in [live' -> [data : Values, next : Allocations \cup {Null}]]
  <2>1. node'[x] \in [data : Values, next : Allocations \cup {Null}]
    BY <1>13
  <2>2. \A a \in live' : node'[a] \in [data : Values, next : Allocations \cup {Null}]
    BY <1>3, <1>10, <1>13, <2>1
  <2> QED
    BY <1>13, <2>2
<1>15. \A k \in 1..size_ : s[k] \in live
  BY <1>7 DEF Elems
<1>16. \A k \in 1..(size_ + 1) : node'[t[k]].data = pushed'[k]
  <2> TAKE k \in 1..(size_ + 1)
  <2>1. CASE k = size_ + 1
    <3>1. pushed'[size_ + 1] = v
      BY <1>5, <1>7
    <3> QED
      BY <1>8, <1>13, <2>1, <3>1
  <2>2. CASE k \in 1..size_
    <3>1. pushed'[k] = pushed[k]
      BY <1>5, <1>7, <2>2
    <3>2. node'[t[k]].data = node[s[k]].data
      BY <1>8, <1>10, <1>13, <1>15, <2>2
    <3> QED
      BY <1>7, <2>2, <3>1, <3>2
  <2> QED
    BY <1>7, <2>1, <2>2
<1>17. \A k \in 1..size_ : node'[t[k]].next = t[k + 1]
  <2> TAKE k \in 1..size_
  <2>1. node'[t[k]].next = IF s[k] = tail_ THEN x ELSE node[s[k]].next
    BY <1>8, <1>10, <1>13, <1>15
  <2>2. s[k] = tail_ <=> k = size_
    <3>1. size_ \in 1..size_ /\ tail_ = s[size_]
      BY <1>7
    <3> QED
      BY <1>7, <3>1 DEF Injective
  <2>3. CASE k = size_
    BY <1>8, <2>1, <2>2, <2>3
  <2>4. CASE k # size_
    <3>1. k \in 1..(size_ - 1) /\ k + 1 \in 1..size_
      BY <1>7, <2>4
    <3> QED
      BY <1>7, <1>8, <2>1, <2>2, <2>4, <3>1
  <2> QED
    BY <2>3, <2>4
<1>18. IsList(t)'
  <2>1. /\ pushed' \in Seq(Values) /\ Len(pushed') = size_'
        /\ size_' = size_ + 1 /\ size_' # 0 /\ size_' - 1 = size_
    BY <1>5, <1>7
  <2>2. head_' = t[1] /\ tail_' = t[size_']
    BY <1>5, <1>7, <1>8
  <2>3. node'[tail_'].next = Null
    BY <1>5, <1>13
  <2> QED
    BY <1>8, <1>9, <1>14, <1>16, <1>17, <2>1, <2>2, <2>3 DEF IsList
<1>19. OneKind'
  BY <1>0, <1>3 DEF OneKind, Pooled, needed_blocks
<1> QED
  BY <1>2, <1>8, <1>18, <1>19 DEF ListInv

LEMMA PushThrowsKeeps ==
    ASSUME ListInv, push_back_throws
    PROVE  ListInv'
<1>1. IInv'
  BY BadAlloc, KeepGrowth DEF ListInv, push_back_throws, undo
<1>2. UNCHANGED <<live, sizeof_T, head_, tail_, size_, node, pushed>>
  BY DEF push_back_throws, listVars, undo, keep_growth, bad_alloc, pool
<1> QED
  BY <1>1, <1>2 DEF ListInv, OneKind, Pooled, needed_blocks, IsList

\* The sequence of what is different has as many elements as there are.
LEMMA Counting ==
    ASSUME NEW S, NEW s \in Seq(S), Injective(s)
    PROVE  Cardinality(Elems(s)) = Len(s)
<1>1. Len(s) \in Nat /\ DOMAIN s = 1..Len(s)
  OBVIOUS
<1>2. s \in Bijection(1..Len(s), Elems(s))
  BY <1>1 DEF Bijection, Injection, Surjection, IsInjective, Injective, Elems
<1> QED
  BY <1>1, <1>2, FS_CountingElements DEF ExistsBijection

LEMMA ReverseFacts ==
    ASSUME NEW S, NEW s \in Seq(S)
    PROVE  /\ Reverse(s) \in Seq(S) /\ Len(Reverse(s)) = Len(s)
           /\ Elems(Reverse(s)) = Elems(s)
           /\ Injective(s) => Injective(Reverse(s))
<1> DEFINE r == Reverse(s)
           n == Len(s)
<1>1. n \in Nat /\ DOMAIN s = 1..n
  OBVIOUS
<1>2. r = [i \in 1..n |-> s[(n - i) + 1]]
  BY DEF Reverse
<1> HIDE DEF n, r
<1>3. \A i \in 1..n : /\ (n - i) + 1 \in 1..n
                      /\ (n - ((n - i) + 1)) + 1 = i
  BY <1>1
<1>4. r \in Seq(S) /\ Len(r) = n /\ DOMAIN r = 1..n
  <2>1. \A i \in 1..n : s[(n - i) + 1] \in S
    BY <1>1, <1>3
  <2> QED
    BY <1>1, <1>2, <2>1
<1>5. Elems(r) = Elems(s)
  <2>1. \A i \in 1..n : r[i] = s[(n - i) + 1] /\ s[i] = r[(n - i) + 1]
    BY <1>2, <1>3
  <2>2. Elems(r) = {r[i] : i \in 1..n} /\ Elems(s) = {s[i] : i \in 1..n}
    BY <1>1, <1>4 DEF Elems
  <2>3. ASSUME NEW i \in 1..n PROVE r[i] \in Elems(s) /\ s[i] \in Elems(r)
    <3>1. (n - i) + 1 \in 1..n
      BY <1>3
    <3>2. r[i] = s[(n - i) + 1] /\ s[i] = r[(n - i) + 1]
      BY <2>1
    <3> QED
      BY <2>2, <3>1, <3>2
  <2> QED
    BY <2>2, <2>3
<1>6. ASSUME Injective(s), NEW i \in 1..n, NEW j \in 1..n, r[i] = r[j] PROVE i = j
  <2>1. (n - i) + 1 = (n - j) + 1
    BY <1>1, <1>2, <1>3, <1>6 DEF Injective
  <2> QED
    BY <1>3, <2>1
<1> QED
  BY <1>4, <1>5, <1>6 DEF r, n, Injective

LEMMA ClearKeeps ==
    ASSUME ListInv, clear_list
    PROVE  ListInv' /\ live' = {}
<1>0. IInv /\ OneKind
  BY DEF ListInv
<1>1. PICK s \in Seq(Allocations) : IsList(s)
  BY DEF ListInv
<1>2. Chain = s
  BY <1>1, ChainIs
<1>3. Injective(s) /\ Elems(s) = live /\ ToSet(s) = live
  BY <1>1 DEF IsList, Elems, ToSet
<1>4. live' = {}
  BY <1>2, <1>3 DEF clear_list
<1>5. /\ chunks_' = chunks_ /\ total_' = total_ /\ sizeof_T' = sizeof_T
      /\ head_' = Null /\ tail_' = Null /\ size_' = 0 /\ node' = <<>> /\ pushed' = <<>>
  BY DEF clear_list
<1>6. Taken' = {} /\ Large' = {} /\ Owned' = Owned
  BY <1>4, <1>5 DEF Taken, Large, Owned
<1>7. \A a \in live :
         \/ a.pool /\ a.at \in Blocks /\ a = [pool |-> TRUE, at |-> a.at]
         \/ ~a.pool /\ a = [pool |-> FALSE, at |-> a.at]
  BY <1>0, Unfolded, Kinds
<1>8. IInv'
  <2>1. CASE Pooled(1)
    <3> DEFINE f == [k \in DOMAIN s |-> s[k].at]
               r == Reverse(f)
    <3>1. /\ free_list_' = r \o free_list_
          /\ used_' = used_ - Len(s) /\ heap' = heap
      BY <1>2, <2>1 DEF clear_list, Given_back
    <3>2. \A a \in live : a.pool /\ a.at \in Blocks
      BY <1>0, <1>7, <2>1 DEF OneKind
    <3>3. Taken = {a.at : a \in live} /\ Large = {}
      BY <3>2 DEF Taken, Large
    <3>4. f \in Seq(Blocks) /\ Len(f) = Len(s) /\ DOMAIN f = DOMAIN s
      <4>1. \A k \in 1..Len(s) : s[k].at \in Blocks
        BY <1>3, <3>2 DEF Elems
      <4> QED
        BY <4>1
    <3>5. Elems(f) = Taken
      BY <1>3, <3>3, <3>4 DEF Elems
    <3>6. Injective(f)
      <4>1. \A a, b \in live : a.at = b.at => a = b
        BY <1>7, <3>2
      <4>2. \A k \in DOMAIN s : s[k] \in live
        BY <1>3 DEF Elems
      <4> QED
        BY <1>3, <3>4, <4>1, <4>2 DEF Injective
    <3>7. Cardinality(Taken) = Len(s)
      BY <3>4, <3>5, <3>6, Counting
    <3> HIDE DEF f
    <3>8. r \in Seq(Blocks) /\ Len(r) = Len(s) /\ Elems(r) = Taken /\ Injective(r)
      BY <3>4, <3>5, <3>6, ReverseFacts
    <3> HIDE DEF r
    <3>9. /\ free_list_' \in Seq(Blocks) /\ Len(free_list_') = Len(s) + Len(free_list_)
          /\ Elems(free_list_') = Taken \cup Free /\ Injective(free_list_')
      <4>1. /\ free_list_ \in Seq(Blocks) /\ Injective(free_list_)
            /\ Elems(free_list_) = Free /\ Elems(r) \cap Elems(free_list_) = {}
        BY <1>0, <3>8, Unfolded
      <4>2. /\ r \o free_list_ \in Seq(Blocks)
            /\ Len(r \o free_list_) = Len(r) + Len(free_list_)
            /\ Elems(r \o free_list_) = Elems(r) \cup Elems(free_list_)
            /\ Injective(r \o free_list_)
        BY <3>8, <4>1, ConcatFacts
      <4> QED
        BY <3>1, <3>8, <4>1, <4>2
    <3>10. used_' = 0 /\ total_' = used_' + Len(free_list_') /\ total_' \in Nat
      BY <1>0, <1>5, <3>1, <3>7, <3>9, Unfolded
    <3>11. Free' = Taken \cup Free
      BY <3>9 DEF Free, Elems
    <3>12. PoolTypeOK'
      <4>1. sizeof_T' \in Sizes /\ heap' \subseteq Memory /\ chunks_' \in Seq(Memory)
        BY <1>0, <1>5, <3>1 DEF IInv, PoolTypeOK
      <4> QED
        BY <1>4, <3>9, <3>10, <4>1 DEF PoolTypeOK
    <3>13. FiniteUse' /\ PoolAccounts'
      BY <1>6, <3>9, <3>10, FS_EmptySet DEF FiniteUse, PoolAccounts, Injective
    <3>14. HeapOwned'
      <4>1. heap' = Owned' /\ \A b \in Free' : b[1] \in Owned'
        BY <1>0, <1>6, <3>1, <3>3, <3>11, Unfolded
      <4>2. Injective(chunks_')
        BY <1>0, <1>5, Unfolded
      <4> QED
        BY <1>6, <4>1, <4>2 DEF HeapOwned, Injective
    <3> QED
      BY <3>12, <3>13, <3>14 DEF IInv
  <2>2. CASE ~Pooled(1)
    <3>1. /\ free_list_' = free_list_ /\ used_' = used_
          /\ heap' = heap \ {a.at : a \in live}
      BY <1>2, <1>3, <2>2 DEF clear_list, Given_back
    <3>2. \A a \in live : ~a.pool
      BY <1>0, <2>2 DEF OneKind
    <3>3. Taken = {} /\ Large = {a.at : a \in live}
      BY <3>2 DEF Taken, Large
    <3>4. heap' = Owned' /\ Free' = Free
      BY <1>0, <1>6, <3>1, <3>3, Unfolded DEF Free
    <3>5. PoolTypeOK'
      <4>1. heap' \subseteq Memory
        BY <1>0, <3>1, Unfolded
      <4> QED
        BY <1>0, <1>4, <1>5, <3>1, <4>1 DEF IInv, PoolTypeOK
    <3>6. FiniteUse' /\ PoolAccounts'
      BY <1>0, <1>5, <1>6, <3>1, <3>3, <3>4 DEF IInv, FiniteUse, PoolAccounts
    <3>7. HeapOwned'
      <4>1. Injective(chunks_') /\ \A b \in Free : b[1] \in Owned
        BY <1>0, <1>5, Unfolded
      <4> QED
        BY <1>6, <3>4, <4>1 DEF HeapOwned, Injective
    <3> QED
      BY <3>5, <3>6, <3>7 DEF IInv
  <2> QED
    BY <2>1, <2>2
<1>9. OneKind' /\ IsList(<<>>)'
  BY <1>4, <1>5, EmptyList DEF OneKind, IsList, Injective, Elems
<1>10. <<>> \in Seq(Allocations)
  OBVIOUS
<1> QED
  BY <1>4, <1>8, <1>9, <1>10 DEF ListInv

-----------------------------------------------------------------------------
LEMMA ListInit == Init => ListInv
<1> SUFFICES ASSUME Init PROVE ListInv
  OBVIOUS
<1>1. IInv /\ live = {}
  BY InitHolds DEF Init, PoolInit
<1>2. IsList(<<>>) /\ <<>> \in Seq(Allocations)
  BY <1>1, EmptyList DEF Init
<1> QED
  BY <1>1, <1>2 DEF ListInv, OneKind

LEMMA ListStep == ListInv /\ [Next]_vars => ListInv'
<1> SUFFICES ASSUME ListInv, [Next]_vars PROVE ListInv'
  OBVIOUS
<1>1. ASSUME NEW v \in Values, push_back(v) PROVE ListInv'
  BY <1>1, PushKeeps
<1>2. CASE push_back_throws
  BY <1>2, PushThrowsKeeps
<1>3. CASE clear \/ begin_destruction
  BY <1>3, ClearKeeps DEF clear, begin_destruction
<1>4. CASE destroy_allocator
  <2>1. IInv' /\ UNCHANGED <<sizeof_T, live, head_, tail_, size_, node, pushed>>
    BY <1>4, Release DEF destroy_allocator, release_all, ListInv, listVars
  <2> QED
    BY <2>1 DEF ListInv, OneKind, Pooled, needed_blocks, IsList
<1>5. CASE UNCHANGED vars
  <2>1. UNCHANGED <<poolVars, sizeof_T, live, head_, tail_, size_, node, pushed>>
    BY <1>5 DEF vars, poolVars, listVars
  <2>2. IInv'
    BY <2>1, Unchanged DEF ListInv
  <2> QED
    BY <2>1, <2>2 DEF ListInv, OneKind, Pooled, needed_blocks, IsList
<1> QED
  BY <1>1, <1>2, <1>3, <1>4, <1>5 DEF Next

(***************************************************************************)
(* With MyList as its user the pool keeps its accounts and its memory,     *)
(* although clear gives back all nodes at once.                            *)
(***************************************************************************)
THEOREM ListAccountsCorrect == Spec => []PoolAccounts /\ []HeapOwned
<1>1. ListInv => PoolAccounts /\ HeapOwned
  BY DEF ListInv, IInv
<1> QED
  BY <1>1, ListInit, ListStep, PTL DEF Spec

(***************************************************************************)
(* The list holds what was pushed since it was last cleared, in order, for *)
(* any memory, sizes and values, and whenever an allocation or a copy      *)
(* throws; its nodes are all that it holds of the allocator.               *)
(***************************************************************************)
THEOREM ListCorrect == Spec => []ListHoldsValues
<1>1. ASSUME ListInv PROVE ListHoldsValues
  <2>1. PICK s \in Seq(Allocations) : IsList(s)
    BY <1>1 DEF ListInv
  <2>2. Chain = s
    BY <2>1, ChainIs
  <2>3. ToSet(s) = live
    BY <2>1 DEF IsList, ToSet, Elems
  <2>4. [k \in 1..size_ |-> node[s[k]].data] = pushed
    <3>1. /\ pushed \in Seq(Values) /\ Len(pushed) = size_
          /\ \A k \in 1..size_ : node[s[k]].data = pushed[k]
      BY <2>1 DEF IsList
    <3> QED
      BY <3>1
  <2> QED
    BY <2>1, <2>2, <2>3, <2>4 DEF ListHoldsValues, IsList
<1> QED
  BY <1>1, ListInit, ListStep, PTL DEF Spec
=============================================================================
