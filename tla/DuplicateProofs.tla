-------------------------- MODULE DuplicateProofs --------------------------
(***************************************************************************)
(* Theorems about bayan of hw-8, for any files, settings and file system:  *)
(* what the program keeps is well typed, the walk finds each file as often *)
(* as it should, no file is printed more often than it was found, and if   *)
(* no file changes the groups printed are those of files whose blocks have *)
(* the same checksums, whatever Crc is.                                    *)
(*                                                                         *)
(* check_blocks hands the files of the listing on: from the call that      *)
(* reads to calls to come, to what is printed, or to nowhere.  The         *)
(* invariant gives each file of the listing one such place, and says of    *)
(* files in one place up to which block their checksums agree.             *)
(*                                                                         *)
(* The levels of the iterator are those of a chain of directories, from    *)
(* the include directory down.  What was found of a file and what is still *)
(* due is one for each include directory opened that should find it.       *)
(***************************************************************************)
EXTENDS TextProofs, Duplicates

-----------------------------------------------------------------------------
(* Positions in order *)

LEMMA NthGrows ==
    ASSUME NEW S, S \subseteq Nat, IsFiniteSet(S),
           NEW a \in 1..Cardinality(S), NEW b \in 1..Cardinality(S), a < b
    PROVE  Nth(S, a) < Nth(S, b)
<1> DEFINE x == Nth(S, a)
           y == Nth(S, b)
           upTo(n) == {j \in S : j <= n}
<1>1. x \in S /\ y \in S /\ Cardinality(upTo(x)) = a /\ Cardinality(upTo(y)) = b
  BY NthExists
<1> HIDE DEF x, y
<1>2. ASSUME y <= x PROVE FALSE
  <2>1. IsFiniteSet(upTo(x))
    BY FS_Subset
  <2>2. upTo(y) \in SUBSET upTo(x)
    <3>1. \A j \in S : j <= y => j <= x
      BY <1>1, <1>2
    <3> QED
      BY <3>1
  <2>3. Cardinality(upTo(y)) <= Cardinality(upTo(x))
    BY <2>1, <2>2, FS_Subset
  <2> QED
    BY <1>1, <2>3, FS_CardinalityType
<1>3. x \in Nat /\ y \in Nat
  BY <1>1
<1>4. x < y
  BY <1>2, <1>3
<1> QED
  BY <1>4 DEF x, y

LEMMA NthDiffers ==
    ASSUME NEW S, S \subseteq Nat, IsFiniteSet(S),
           NEW a \in 1..Cardinality(S), NEW b \in 1..Cardinality(S), Nth(S, a) = Nth(S, b)
    PROVE  a = b
<1>1. Cardinality({j \in S : j <= Nth(S, a)}) = a /\ Cardinality({j \in S : j <= Nth(S, b)}) = b
  BY NthExists
<1> QED
  BY <1>1

LEMMA RankIs ==
    ASSUME NEW S, S \subseteq Nat, IsFiniteSet(S), NEW i \in S
    PROVE  /\ Cardinality({j \in S : j <= i}) \in 1..Cardinality(S)
           /\ Nth(S, Cardinality({j \in S : j <= i})) = i
<1> DEFINE T == {j \in S : j <= i}
<1>1. T \in SUBSET S /\ i \in T
  OBVIOUS
<1>2. IsFiniteSet(T) /\ Cardinality(T) \in Nat /\ Cardinality(T) <= Cardinality(S)
  BY <1>1, FS_Subset, FS_CardinalityType
<1>3. Cardinality(T) # 0 /\ Cardinality(S) \in Nat
  BY <1>1, <1>2, FS_EmptySet, FS_CardinalityType
<1>4. Nth(S, Cardinality(T)) = i
  BY NthIs
<1> HIDE DEF T
<1>5. Cardinality(T) \in 1..Cardinality(S)
  BY <1>2, <1>3
<1> QED
  BY <1>4, <1>5 DEF T

LEMMA InOrderIs ==
    ASSUME NEW S, S \subseteq Nat, IsFiniteSet(S), NEW f, NEW E, \A i \in S : f[i] \in E
    PROVE  /\ InOrder(S, f) \in Seq(E)
           /\ Cardinality(S) \in Nat /\ Len(InOrder(S, f)) = Cardinality(S)
           /\ \A k \in 1..Cardinality(S) : Nth(S, k) \in S /\ InOrder(S, f)[k] = f[Nth(S, k)]
<1> DEFINE n == Cardinality(S)
<1>1. n \in Nat
  BY FS_CardinalityType
<1>2. \A k \in 1..n : Nth(S, k) \in S
  BY NthExists
<1>3. InOrder(S, f) = [k \in 1..n |-> f[Nth(S, k)]]
  BY DEF InOrder
<1>4. \A k \in 1..n : f[Nth(S, k)] \in E
  BY <1>2
<1> HIDE DEF n
<1> QED
  BY <1>1, <1>2, <1>3, <1>4 DEF n

(***************************************************************************)
(* The elements at the positions T in a list of the elements of S.         *)
(***************************************************************************)
Chosen(S, T) == {Nth(S, k) : k \in T}

Picks(S, T) == S \subseteq Nat /\ IsFiniteSet(S) /\ T \subseteq 1..Cardinality(S)

LEMMA NthChosen ==
    ASSUME NEW S, NEW T, Picks(S, T)
    PROVE  /\ Chosen(S, T) \subseteq S /\ IsFiniteSet(Chosen(S, T))
           /\ IsFiniteSet(T) /\ Cardinality(Chosen(S, T)) = Cardinality(T)
           /\ \A k \in 1..Cardinality(T) : Nth(Chosen(S, T), k) = Nth(S, Nth(T, k))
<1> USE DEF Picks
<1> DEFINE n == Cardinality(S)
           U == Chosen(S, T)
<1>1. n \in Nat /\ IsFiniteSet(1..n)
  BY FS_CardinalityType, FS_Interval
<1>2. IsFiniteSet(T) /\ T \subseteq Nat
  <2>1. T \in SUBSET (1..n)
    OBVIOUS
  <2> HIDE DEF n
  <2>2. IsFiniteSet(T)
    BY <1>1, <2>1, FS_Subset
  <2> QED
    BY <2>1, <2>2
<1>3. U \subseteq S
  <2>1. \A k \in 1..n : Nth(S, k) \in S
    BY NthExists
  <2> QED
    BY <2>1 DEF Chosen
<1>4. IsFiniteSet(U) /\ U \subseteq Nat
  BY <1>3, FS_Subset
<1>5. ASSUME NEW A, A \subseteq T
      PROVE  Cardinality(Chosen(S, A)) = Cardinality(A)
  <2> DEFINE f == [k \in A |-> Nth(S, k)]
  <2>1. f \in Bijection(A, Chosen(S, A))
    <3>1. f \in [A -> Chosen(S, A)]
      BY DEF Chosen
    <3>2. ASSUME NEW a \in A, NEW b \in A, f[a] = f[b]
          PROVE  a = b
      <4>1. a \in 1..Cardinality(S) /\ b \in 1..Cardinality(S) /\ Nth(S, a) = Nth(S, b)
        BY <1>5, <3>2
      <4> QED
        BY <4>1, NthDiffers
    <3>3. \A x \in Chosen(S, A) : \E a \in A : f[a] = x
      BY DEF Chosen
    <3> QED
      BY <3>1, <3>2, <3>3 DEF Bijection, Injection, Surjection, IsInjective
  <2>2. ExistsBijection(A, Chosen(S, A))
    BY <2>1 DEF ExistsBijection
  <2>3. IsFiniteSet(A)
    <3>1. A \in SUBSET T
      BY <1>5
    <3> QED
      BY <1>2, <3>1, FS_Subset
  <2> QED
    BY <2>2, <2>3, FS_Bijection
<1>6. ASSUME NEW k \in 1..Cardinality(T)
      PROVE  Nth(U, k) = Nth(S, Nth(T, k))
  <2> DEFINE t == Nth(T, k)
             A == {i \in T : i <= t}
             u == Nth(S, t)
  <2>1. t \in T /\ Cardinality(A) = k
    BY <1>2, NthExists
  <2>2. u \in U
    BY <2>1 DEF Chosen
  <2>3. {j \in U : j <= u} = Chosen(S, A)
    <3>1. ASSUME NEW i \in T
          PROVE  (Nth(S, i) <= u) <=> (i <= t)
      <4>1. i \in 1..n /\ t \in 1..n /\ Nth(S, i) \in Nat /\ Nth(S, t) \in Nat
        BY <2>1, NthExists
      <4>2. i < t => Nth(S, i) < Nth(S, t)
        BY <4>1, NthGrows
      <4>3. t < i => Nth(S, t) < Nth(S, i)
        BY <4>1, NthGrows
      <4> HIDE DEF t
      <4> QED
        BY <1>1, <4>1, <4>2, <4>3
    <3> QED
      BY <3>1 DEF Chosen
  <2>4. Cardinality({j \in U : j <= u}) = k
    <3>1. A \subseteq T
      OBVIOUS
    <3> QED
      BY <1>5, <2>1, <2>3, <3>1
  <2>5. Nth(U, Cardinality({j \in U : j <= u})) = u
    BY <1>4, <2>2, NthIs
  <2> QED
    BY <2>4, <2>5
<1>7. Cardinality(U) = Cardinality(T)
  BY <1>5
<1> QED
  BY <1>2, <1>3, <1>4, <1>6, <1>7

\* A list picked from a list.
LEMMA InOrderOf ==
    ASSUME NEW S, NEW T, Picks(S, T), NEW f
    PROVE  InOrder(T, InOrder(S, f)) = InOrder(Chosen(S, T), f)
<1>1. /\ IsFiniteSet(T) /\ Cardinality(Chosen(S, T)) = Cardinality(T)
      /\ \A k \in 1..Cardinality(T) : Nth(Chosen(S, T), k) = Nth(S, Nth(T, k))
  BY NthChosen
<1>2. T \subseteq Nat
  BY FS_CardinalityType DEF Picks
<1>3. ASSUME NEW k \in 1..Cardinality(T)
      PROVE  InOrder(S, f)[Nth(T, k)] = f[Nth(Chosen(S, T), k)]
  <2>1. Nth(T, k) \in 1..Cardinality(S)
    BY <1>1, <1>2, NthExists DEF Picks
  <2> QED
    BY <1>1, <2>1 DEF InOrder
<1> QED
  BY <1>1, <1>3 DEF InOrder

\* The list without its head is that of the set without its least element.
LEMMA InOrderTail ==
    ASSUME NEW S, S \subseteq Nat, IsFiniteSet(S), NEW f, S # {}
    PROVE  LET m == Nth(S, 1) IN
           /\ m \in S /\ \A j \in S \ {m} : m < j
           /\ Head(InOrder(S, f)) = f[m]
           /\ Tail(InOrder(S, f)) = InOrder(S \ {m}, f)
<1> DEFINE n == Cardinality(S)
           m == Nth(S, 1)
           T == S \ {m}
<1>1. n \in Nat /\ n # 0
  BY FS_CardinalityType, FS_EmptySet
<1>2. 1 \in 1..n /\ m \in S
  <2>1. 1 \in 1..n
    BY <1>1
  <2> QED
    BY <2>1, NthExists
<1>3. IsFiniteSet(T) /\ Cardinality(T) = n - 1
  BY <1>2, FS_RemoveElement
<1>4. \A j \in T : m < j
  <2> TAKE j \in T
  <2>1. /\ Cardinality({i \in S : i <= j}) \in 1..n
        /\ Nth(S, Cardinality({i \in S : i <= j})) = j
    BY RankIs
  <2> DEFINE r == Cardinality({i \in S : i <= j})
  <2> HIDE DEF r
  <2>2. r # 1 /\ r \in 1..n /\ Nth(S, r) = j
    BY <2>1 DEF r
  <2>3. 1 < r
    BY <1>1, <2>2
  <2> QED
    BY <1>2, <2>2, <2>3, NthGrows
<1>5. ASSUME NEW k \in 1..(n - 1)
      PROVE  Nth(T, k) = Nth(S, k + 1)
  <2> DEFINE i == Nth(S, k + 1)
  <2>1. k + 1 \in 1..n /\ 1 < k + 1
    BY <1>1
  <2>2. i \in S /\ Cardinality({j \in S : j <= i}) = k + 1
    BY <2>1, NthExists
  <2>3. m < i /\ m \in Nat
    BY <1>2, <2>1, NthGrows
  <2>4. {j \in T : j <= i} = {j \in S : j <= i} \ {m}
    OBVIOUS
  <2>7. m \in {j \in S : j <= i}
    <3> HIDE DEF m, i
    <3>1. m <= i
      BY <2>2, <2>3
    <3> QED
      BY <1>2, <3>1
  <2>5. IsFiniteSet({j \in S : j <= i})
    BY FS_Subset
  <2>6. Cardinality({j \in T : j <= i}) = k
    <3> DEFINE A == {j \in S : j <= i}
    <3>1. IsFiniteSet(A) /\ Cardinality(A) = k + 1 /\ m \in A
      BY <2>2, <2>7, <2>5
    <3> HIDE DEF A, m
    <3>2. Cardinality(A \ {m}) = Cardinality(A) - 1
      BY <3>1, FS_RemoveElement
    <3>3. {j \in T : j <= i} = A \ {m}
      BY <2>4 DEF A
    <3> QED
      BY <3>1, <3>2, <3>3
  <2>10. i \in T
    BY <2>2, <2>3
  <2>8. T \subseteq Nat
    OBVIOUS
  <2> HIDE DEF i, T
  <2>9. Nth(T, Cardinality({j \in T : j <= i})) = i
    BY <1>3, <2>10, <2>8, NthIs
  <2> QED
    BY <2>6, <2>9 DEF i
<1> HIDE DEF T, m
<1>6. Head(InOrder(S, f)) = f[m] /\ Tail(InOrder(S, f)) = InOrder(T, f)
  <2> DEFINE E == {f[i] : i \in S}
             s == InOrder(S, f)
             t == InOrder(T, f)
  <2>1. \A i \in S : f[i] \in E
    OBVIOUS
  <2>2. T \subseteq S /\ T \subseteq Nat
    BY DEF T
  <2> HIDE DEF E
  <2>3. s \in Seq(E) /\ Len(s) = n /\ \A k \in 1..n : s[k] = f[Nth(S, k)]
    BY <2>1, InOrderIs
  <2>4. t \in Seq(E) /\ Len(t) = n - 1 /\ \A k \in 1..(n - 1) : t[k] = f[Nth(T, k)]
    BY <1>3, <2>1, <2>2, InOrderIs
  <2> HIDE DEF s, t, n
  <2>5. /\ s # <<>> /\ Head(s) = s[1]
        /\ Tail(s) \in Seq(E) /\ Len(Tail(s)) = n - 1 /\ \A k \in 1..(n - 1) : Tail(s)[k] = s[k + 1]
    BY <1>1, <2>3
  <2>6. \A k \in 1..(n - 1) : Tail(s)[k] = t[k]
    <3> TAKE k \in 1..(n - 1)
    <3>1. k + 1 \in 1..n
      BY <1>1
    <3> QED
      BY <1>5, <2>3, <2>4, <2>5, <3>1
  <2>7. Tail(s) = t
    BY <2>4, <2>5, <2>6, SameSequence
  <2>8. s[1] = f[m]
    BY <1>2, <2>3 DEF m
  <2> QED
    BY <2>5, <2>7, <2>8 DEF s, t
<1> QED
  BY <1>2, <1>4, <1>6 DEF T, m

-----------------------------------------------------------------------------
(* How often *)

Hits(f, s) == {k \in DOMAIN s : s[k] = f}

LEMMA TimesIs ==
    ASSUME NEW E, NEW s \in Seq(E), NEW f
    PROVE  IsFiniteSet(Hits(f, s)) /\ Times(f, s) = Cardinality(Hits(f, s)) /\ Times(f, s) \in Nat
<1>1. IsFiniteSet(1..Len(s)) /\ Hits(f, s) \in SUBSET (1..Len(s))
  BY FS_Interval DEF Hits
<1>2. IsFiniteSet(Hits(f, s))
  BY <1>1, FS_Subset
<1>3. Times(f, s) = Cardinality(Hits(f, s))
  BY DEF Times, Hits
<1> QED
  BY <1>2, <1>3, FS_CardinalityType

LEMMA TimesJoined ==
    ASSUME NEW E, NEW s \in Seq(E), NEW t \in Seq(E), NEW f
    PROVE  Times(f, Joined(s, t)) = Times(f, s) + Times(f, t)
<1> DEFINE n == Len(s)
           g == [k \in Hits(f, t) |-> n + k]
           B == {n + k : k \in Hits(f, t)}
<1>1. n \in Nat /\ Hits(f, s) \subseteq 1..n /\ Hits(f, t) \subseteq 1..Len(t) /\ Len(t) \in Nat
  BY DEF Hits
<1>2. s \o t \in Seq(E) /\ DOMAIN (s \o t) = 1..(n + Len(t))
  OBVIOUS
<1>3. Hits(f, s \o t) = Hits(f, s) \cup B
  <2>1. ASSUME NEW k \in Hits(f, s \o t) PROVE k \in Hits(f, s) \cup B
    <3>1. k \in 1..(n + Len(t)) /\ (s \o t)[k] = f
      BY <1>2, <2>1 DEF Hits
    <3>2. CASE k <= n
      BY <3>1, <3>2 DEF Hits
    <3>3. CASE ~(k <= n)
      <4>1. k - n \in 1..Len(t) /\ t[k - n] = f /\ k = n + (k - n)
        BY <1>1, <3>1, <3>3
      <4> QED
        BY <4>1 DEF Hits
    <3> QED
      BY <3>2, <3>3
  <2>2. ASSUME NEW k \in Hits(f, s) PROVE k \in Hits(f, s \o t)
    <3>1. k \in 1..n /\ s[k] = f
      BY DEF Hits
    <3> QED
      BY <1>1, <1>2, <3>1 DEF Hits
  <2>3. ASSUME NEW k \in Hits(f, t) PROVE n + k \in Hits(f, s \o t)
    <3>1. k \in 1..Len(t) /\ t[k] = f
      BY DEF Hits
    <3>2. n + k \in 1..(n + Len(t)) /\ (s \o t)[n + k] = t[k]
      BY <1>1, <3>1
    <3> QED
      BY <1>2, <3>1, <3>2 DEF Hits
  <2> QED
    BY <2>1, <2>2, <2>3
<1>4. IsFiniteSet(Hits(f, s)) /\ IsFiniteSet(Hits(f, t))
  BY TimesIs
<1>5. IsFiniteSet(B) /\ Cardinality(B) = Cardinality(Hits(f, t))
  <2>1. g \in Bijection(Hits(f, t), B)
    <3>1. g \in [Hits(f, t) -> B]
      OBVIOUS
    <3>2. \A a, b \in Hits(f, t) : g[a] = g[b] => a = b
      BY <1>1
    <3>3. \A b \in B : \E a \in Hits(f, t) : g[a] = b
      OBVIOUS
    <3> HIDE DEF g, B
    <3> QED
      BY <3>1, <3>2, <3>3 DEF Bijection, Injection, Surjection, IsInjective
  <2>2. ExistsBijection(Hits(f, t), B)
    BY <2>1 DEF ExistsBijection
  <2> QED
    BY <1>4, <2>2, FS_Bijection
<1>6. Hits(f, s) \cap B = {}
  BY <1>1
<1> HIDE DEF B
<1>7. Cardinality(Hits(f, s) \cup B) = Cardinality(Hits(f, s)) + Cardinality(B)
  <2>1. Cardinality(Hits(f, s) \cup B) =
            Cardinality(Hits(f, s)) + Cardinality(B) - Cardinality(Hits(f, s) \cap B)
    BY <1>4, <1>5, FS_Union
  <2>2. Cardinality(Hits(f, s)) \in Nat /\ Cardinality(B) \in Nat
    BY <1>4, <1>5, FS_CardinalityType
  <2>3. Cardinality(Hits(f, s) \cap B) = 0
    BY <1>6, FS_EmptySet
  <2> QED
    BY <2>1, <2>2, <2>3
<1>8. /\ Times(f, s) = Cardinality(Hits(f, s)) /\ Times(f, t) = Cardinality(Hits(f, t))
      /\ Times(f, s \o t) = Cardinality(Hits(f, s \o t))
  BY <1>2, TimesIs
<1> QED
  BY <1>3, <1>5, <1>7, <1>8 DEF Joined

\* where f is in the lists of a list
Marks(f, lists) == {m \in Nat \X Nat : m[1] \in 1..Len(lists) /\ m[2] \in Hits(f, lists[m[1]])}

LEMMA MarksNext ==
    ASSUME NEW E, NEW lists \in Seq(Seq(E)), NEW e \in Seq(E), NEW f, IsFiniteSet(Marks(f, lists))
    PROVE  /\ IsFiniteSet(Marks(f, Append(lists, e)))
           /\ Cardinality(Marks(f, Append(lists, e))) = Cardinality(Marks(f, lists)) + Times(f, e)
<1> DEFINE n == Len(lists)
           B == {<<n + 1, k>> : k \in Hits(f, e)}
           g == [k \in Hits(f, e) |-> <<n + 1, k>>]
<1>1. n \in Nat /\ Hits(f, e) \subseteq Nat
  BY DEF Hits
<1>2. Marks(f, Append(lists, e)) = Marks(f, lists) \cup B
  <2>1. /\ Len(Append(lists, e)) = n + 1 /\ Append(lists, e)[n + 1] = e
        /\ \A i \in 1..n : Append(lists, e)[i] = lists[i]
    OBVIOUS
  <2> DEFINE more == Append(lists, e)
  <2> HIDE DEF more
  <2>2. ASSUME NEW m \in Marks(f, more) PROVE m \in Marks(f, lists) \cup B
    <3>1. m \in Nat \X Nat /\ m[1] \in 1..(n + 1) /\ m[2] \in Hits(f, more[m[1]])
      BY <2>1 DEF Marks, more
    <3>2. CASE m[1] = n + 1
      <4>1. m[2] \in Hits(f, e) /\ m = <<n + 1, m[2]>>
        BY <2>1, <3>1, <3>2 DEF more
      <4> QED
        BY <4>1
    <3>3. CASE m[1] # n + 1
      <4>1. m[1] \in 1..n
        BY <1>1, <3>1, <3>3
      <4> QED
        BY <2>1, <3>1, <4>1 DEF Marks, more
    <3> QED
      BY <3>2, <3>3
  <2>3. ASSUME NEW m \in Marks(f, lists) PROVE m \in Marks(f, more)
    <3>1. m \in Nat \X Nat /\ m[1] \in 1..n /\ m[2] \in Hits(f, lists[m[1]])
      BY DEF Marks
    <3>2. m[1] \in 1..(n + 1)
      BY <1>1, <3>1
    <3> QED
      BY <2>1, <3>1, <3>2 DEF Marks, more
  <2>4. ASSUME NEW k \in Hits(f, e) PROVE <<n + 1, k>> \in Marks(f, more)
    <3>1. n + 1 \in 1..(n + 1) /\ <<n + 1, k>> \in Nat \X Nat
      BY <1>1
    <3> QED
      BY <2>1, <3>1 DEF Marks, more
  <2> QED
    BY <2>2, <2>3, <2>4 DEF more
<1>3. IsFiniteSet(Hits(f, e)) /\ Times(f, e) = Cardinality(Hits(f, e)) /\ Times(f, e) \in Nat
  BY TimesIs
<1>4. IsFiniteSet(B) /\ Cardinality(B) = Times(f, e)
  <2>1. g \in Bijection(Hits(f, e), B)
    <3>1. g \in [Hits(f, e) -> B]
      OBVIOUS
    <3>2. \A a, b \in Hits(f, e) : g[a] = g[b] => a = b
      OBVIOUS
    <3>3. \A b \in B : \E a \in Hits(f, e) : g[a] = b
      OBVIOUS
    <3> HIDE DEF g, B
    <3> QED
      BY <3>1, <3>2, <3>3 DEF Bijection, Injection, Surjection, IsInjective
  <2>2. ExistsBijection(Hits(f, e), B)
    BY <2>1 DEF ExistsBijection
  <2> QED
    BY <1>3, <2>2, FS_Bijection
<1>5. Marks(f, lists) \cap B = {}
  <2>1. \A m \in Marks(f, lists) : m[1] # n + 1
    BY <1>1 DEF Marks
  <2> QED
    BY <2>1
<1> HIDE DEF B
<1>6. /\ IsFiniteSet(Marks(f, lists) \cup B)
      /\ Cardinality(Marks(f, lists) \cup B) =
            Cardinality(Marks(f, lists)) + Cardinality(B) - Cardinality(Marks(f, lists) \cap B)
  BY <1>4, FS_Union
<1>7. Cardinality(Marks(f, lists) \cap B) = 0
  BY <1>5, FS_EmptySet
<1>8. Cardinality(Marks(f, lists)) \in Nat
  BY FS_CardinalityType
<1>9. Cardinality(Marks(f, lists) \cup B) = Cardinality(Marks(f, lists)) + Times(f, e)
  BY <1>3, <1>4, <1>6, <1>7, <1>8
<1> QED
  BY <1>2, <1>6, <1>9

LEMMA TimesFlat ==
    ASSUME NEW E, NEW lists \in Seq(Seq(E)), NEW f
    PROVE  /\ IsFiniteSet(Marks(f, lists))
           /\ Times(f, FlattenSeq(lists)) = Cardinality(Marks(f, lists))
<1> DEFINE n == Len(lists)
           OK(s) == /\ IsFiniteSet(Marks(f, s))
                    /\ Times(f, FlattenSeq(s)) = Cardinality(Marks(f, s))
           T == {m \in 0..n : ~OK(SubSeq(lists, 1, m))}
<1>1. n \in Nat
  OBVIOUS
<1>2. OK(<<>>)
  <2>1. Marks(f, <<>>) = {}
    BY DEF Marks
  <2>2. Hits(f, <<>>) = {}
    BY DEF Hits
  <2>3. <<>> \in Seq(E)
    OBVIOUS
  <2>4. Times(f, <<>>) = Cardinality(Hits(f, <<>>))
    BY <2>3, TimesIs
  <2> QED
    BY <2>1, <2>2, <2>4, FlattenNone, FS_EmptySet
<1>3. ASSUME NEW m \in 1..n, OK(SubSeq(lists, 1, m - 1)) PROVE OK(SubSeq(lists, 1, m))
  <2> DEFINE s == SubSeq(lists, 1, m - 1)
  <2>1. /\ SubSeq(lists, 1, m) = Append(s, lists[m])
        /\ s \in Seq(Seq(E)) /\ lists[m] \in Seq(E)
    BY PrefixNext
  <2>2. IsFiniteSet(Marks(f, s)) /\ Times(f, FlattenSeq(s)) = Cardinality(Marks(f, s))
    BY <1>3
  <2> HIDE DEF s
  <2>3. FlattenSeq(Append(s, lists[m])) = Joined(FlattenSeq(s), lists[m])
    BY <2>1, FlattenNext
  <2>4. FlattenSeq(s) \in Seq(E)
    BY <2>1, FlattenTyped
  <2>5. Times(f, Joined(FlattenSeq(s), lists[m])) = Times(f, FlattenSeq(s)) + Times(f, lists[m])
    BY <2>1, <2>4, TimesJoined
  <2>6. /\ IsFiniteSet(Marks(f, Append(s, lists[m])))
        /\ Cardinality(Marks(f, Append(s, lists[m]))) = Cardinality(Marks(f, s)) + Times(f, lists[m])
    BY <2>1, <2>2, MarksNext
  <2> QED
    BY <2>1, <2>2, <2>3, <2>5, <2>6
<1>4. SubSeq(lists, 1, 0) = <<>> /\ SubSeq(lists, 1, n) = lists
  BY PrefixEnds
<1> HIDE DEF OK
<1>5. T = {}
  <2> SUFFICES ASSUME T # {} PROVE FALSE
    OBVIOUS
  <2>1. T \subseteq Nat
    BY <1>1
  <2>2. PICK m \in T : \A l \in T : ~(l < m)
    BY <2>1, LeastNumber
  <2>3. m # 0
    BY <1>2, <1>4, <2>2
  <2>4. m \in 1..n /\ m - 1 \in 0..n /\ m - 1 < m
    BY <1>1, <2>2, <2>3
  <2>5. OK(SubSeq(lists, 1, m - 1))
    BY <2>2, <2>4
  <2> QED
    BY <1>3, <2>2, <2>4, <2>5
<1>6. OK(lists)
  <2>1. n \in 0..n
    BY <1>1
  <2> QED
    BY <1>4, <1>5, <2>1
<1> QED
  BY <1>6 DEF OK

(***************************************************************************)
(* own says of each position of a list p to which group it belongs, if to  *)
(* any: groups take no position twice.                                     *)
(***************************************************************************)
At(own, place) == {k \in DOMAIN own : own[k] = place}

LEMMA AtIs ==
    ASSUME NEW n \in Nat, NEW P, NEW own \in [1..n -> P], NEW place
    PROVE  /\ At(own, place) \subseteq 1..n /\ At(own, place) \subseteq Nat
           /\ IsFiniteSet(At(own, place))
<1>1. IsFiniteSet(1..n) /\ At(own, place) \in SUBSET (1..n)
  BY FS_Interval DEF At
<1> QED
  BY <1>1, FS_Subset

LEMMA AtSame ==
    ASSUME NEW a, NEW b, DOMAIN a = DOMAIN b, NEW x, NEW y,
           \A k \in DOMAIN b : (a[k] = x) <=> (b[k] = y)
    PROVE  At(a, x) = At(b, y)
  BY DEF At

Owned(own, p, lists) ==
    \A i \in 1..Len(lists) : lists[i] = InOrder(At(own, <<"reported", i>>), p)

LEMMA GroupsApart ==
    ASSUME NEW E, NEW p \in Seq(E), NEW lists \in Seq(Seq(E)), NEW P,
           NEW own \in [1..Len(p) -> P], Owned(own, p, lists), NEW f
    PROVE  Times(f, FlattenSeq(lists)) <= Times(f, p)
<1> DEFINE at(i) == At(own, <<"reported", i>>)
           M == Marks(f, lists)
           H == Hits(f, p)
           g == [m \in M |-> Nth(at(m[1]), m[2])]
<1>1. Len(p) \in Nat /\ \A k \in 1..Len(p) : p[k] \in E
  OBVIOUS
<1>2. ASSUME NEW i PROVE at(i) \subseteq 1..Len(p) /\ at(i) \subseteq Nat /\ IsFiniteSet(at(i))
  BY <1>1, AtIs
<1>3. ASSUME NEW m \in M
      PROVE  /\ m \in Nat \X Nat /\ m[2] \in 1..Cardinality(at(m[1]))
             /\ g[m] \in at(m[1]) /\ g[m] \in H
  <2> DEFINE i == m[1]
             k == m[2]
  <2>1. m \in Nat \X Nat /\ i \in 1..Len(lists) /\ k \in Hits(f, lists[i])
    BY DEF Marks
  <2>2. lists[i] = InOrder(at(i), p)
    BY <2>1 DEF Owned
  <2> DEFINE S == at(i)
  <2>3. S \subseteq 1..Len(p) /\ S \subseteq Nat /\ IsFiniteSet(S)
    BY <1>2
  <2>4. \A j \in S : p[j] \in E
    BY <1>1, <2>3
  <2> HIDE DEF S
  <2>5. /\ InOrder(S, p) \in Seq(E)
        /\ Cardinality(S) \in Nat /\ Len(InOrder(S, p)) = Cardinality(S)
        /\ \A l \in 1..Cardinality(S) : Nth(S, l) \in S /\ InOrder(S, p)[l] = p[Nth(S, l)]
    BY <2>3, <2>4, InOrderIs
  <2>6. k \in 1..Cardinality(S) /\ InOrder(S, p)[k] = f
    BY <2>1, <2>2, <2>5 DEF Hits, S
  <2>7. Nth(S, k) \in S /\ p[Nth(S, k)] = f
    BY <2>5, <2>6
  <2>8. Nth(S, k) \in Hits(f, p)
    <3>1. DOMAIN p = 1..Len(p)
      OBVIOUS
    <3> QED
      BY <2>3, <2>7, <3>1 DEF Hits
  <2> QED
    BY <2>1, <2>6, <2>7, <2>8 DEF S
<1>4. g \in Injection(M, H)
  <2>1. g \in [M -> H]
    BY <1>3
  <2>2. ASSUME NEW a \in M, NEW b \in M, g[a] = g[b] PROVE a = b
    <3>1. a[1] = b[1]
      <4>1. own[g[a]] = <<"reported", a[1]>> /\ own[g[b]] = <<"reported", b[1]>>
        BY <1>3 DEF At
      <4>2. <<"reported", a[1]>> = <<"reported", b[1]>>
        BY <2>2, <4>1
      <4> QED
        BY <4>2
    <3>2. a[2] = b[2]
      <4> DEFINE S == at(a[1])
      <4>1. S \subseteq Nat /\ IsFiniteSet(S)
        BY <1>2
      <4>2. /\ a[2] \in 1..Cardinality(S) /\ b[2] \in 1..Cardinality(S)
            /\ Nth(S, a[2]) = Nth(S, b[2])
        BY <1>3, <2>2, <3>1
      <4> HIDE DEF S
      <4> QED
        BY <4>1, <4>2, NthDiffers
    <3>3. a \in Nat \X Nat /\ b \in Nat \X Nat
      BY <1>3
    <3> QED
      BY <3>1, <3>2, <3>3
  <2> HIDE DEF g, M, H
  <2> QED
    BY <2>1, <2>2 DEF Injection, IsInjective
<1>5. IsFiniteSet(H) /\ Times(f, p) = Cardinality(H)
  BY TimesIs
<1>6. Times(f, FlattenSeq(lists)) = Cardinality(M)
  BY TimesFlat
<1> HIDE DEF g, M, H
<1>7. Cardinality(M) <= Cardinality(H)
  BY <1>4, <1>5, FS_Injection
<1> QED
  BY <1>5, <1>6, <1>7

-----------------------------------------------------------------------------
(* The state of Duplicates *)

Roots == UNION {ToSet(s.include_dirs) : s \in Settings}
Found == [path : Files, via : Roots, size : Nat]
Groups == [paths : Seq(Files), block : Nat]
Checksums == {Crc(s) : s \in Seq({0, 1})}
Hashed == [path : Files, hash : Checksums]
Tasks == [block : Nat, paths : Seq(Files), sizing : BOOLEAN, hashes : Seq(Hashed),
          any_file_ended : BOOLEAN]

\* what the walk keeps
WalkTypeOK ==
    /\ settings \in Settings
    /\ denied \in DeniedDirs
    /\ dirs \in Seq(Roots) /\ root \in Roots
    /\ it \in Seq(SUBSET (Dirs \cup Files))
    /\ listing \in Seq(Found)

\* what the comparison keeps
CompareTypeOK ==
    /\ stack \in Seq(Groups)
    /\ task \in Tasks /\ (task.sizing => task.paths # <<>>)
    /\ reported \in Seq(Seq(Files))

FilesTypeOK ==
    /\ content \in [Files -> Contents]
    /\ gone \subseteq Files
    /\ unreadable \in DeniedFiles
    /\ changes \in 0..MaxChanges

\* which of them has begun
PhaseOK ==
    /\ phase \in {"scan", "compare", "done", "error"}
    /\ phase = "scan" => changes = 0 /\ stack = <<>> /\ task = NoTask /\ reported = <<>>
    /\ phase = "done" => stack = <<>> /\ task = NoTask
    /\ changes = 0 =>
          /\ gone = {}
          /\ \A k \in 1..Len(listing) : listing[k].size = Len(content[listing[k].path])

BayanTypeOK == WalkTypeOK /\ CompareTypeOK /\ FilesTypeOK /\ PhaseOK

LEMMA SettingsTyped ==
    ASSUME NEW s \in Settings
    PROVE  /\ s.block_size \in Nat \ {0}
           /\ s.include_dirs \in Seq(Roots) /\ s.include_dirs # <<>>
           /\ s.include_dirs[1] \in Roots
<1> DEFINE d == s.include_dirs
<1>1. s.block_size \in Nat \ {0} /\ d \in Seq(ToSet(d)) /\ d # <<>>
  BY FileAssumption
<1>2. ToSet(d) \subseteq Roots
  BY DEF Roots
<1> HIDE DEF d
<1>3. d \in Seq(Roots) /\ d[1] \in Roots
  BY <1>1, <1>2
<1> QED
  BY <1>1, <1>3 DEF d

LEMMA ContentTyped ==
    ASSUME FilesTypeOK, NEW f \in Files
    PROVE  /\ content[f] \in Seq({0, 1}) /\ Len(content[f]) \in Nat
           /\ \A i \in 1..Len(content[f]) : content[f][i] \in {0, 1}
<1>1. content[f] \in Seq({0, 1})
  BY FileAssumption DEF FilesTypeOK
<1> QED
  BY <1>1

\* lists of files found, or read
LEMMA PathsTyped ==
    ASSUME NEW R, \A x \in R : x.path \in Files, NEW list \in Seq(R)
    PROVE  /\ Paths(list) \in Seq(Files)
           /\ Len(list) \in Nat /\ Len(Paths(list)) = Len(list)
           /\ DOMAIN list = 1..Len(list)
           /\ \A k \in 1..Len(list) : /\ list[k] \in R /\ list[k].path \in Files
                                      /\ Paths(list)[k] = list[k].path
<1>1. Len(list) \in Nat /\ DOMAIN list = 1..Len(list) /\ \A k \in 1..Len(list) : list[k] \in R
  OBVIOUS
<1>2. Paths(list) = [k \in 1..Len(list) |-> list[k].path]
  BY <1>1 DEF Paths
<1>3. \A k \in 1..Len(list) : list[k].path \in Files
  BY <1>1
<1>4. Paths(list) \in Seq(Files) /\ Len(Paths(list)) = Len(list)
  BY <1>1, <1>2, <1>3
<1> QED
  BY <1>1, <1>2, <1>3, <1>4

LEMMA PartTyped ==
    ASSUME NEW p \in Seq(Files), NEW S, S \subseteq 1..Len(p)
    PROVE  /\ S \subseteq Nat /\ IsFiniteSet(S) /\ Cardinality(S) \in Nat
           /\ InOrder(S, p) \in Seq(Files) /\ Len(InOrder(S, p)) = Cardinality(S)
<1>1. Len(p) \in Nat /\ \A k \in 1..Len(p) : p[k] \in Files
  OBVIOUS
<1>2. IsFiniteSet(1..Len(p)) /\ S \in SUBSET (1..Len(p))
  BY <1>1, FS_Interval
<1>3. IsFiniteSet(S)
  BY <1>2, FS_Subset
<1>4. S \subseteq Nat /\ \A k \in S : p[k] \in Files
  BY <1>1
<1> QED
  BY <1>3, <1>4, InOrderIs

LEMMA OrdersAre ==
    ASSUME NEW S, IsFiniteSet(S), NEW o \in Orders(S)
    PROVE  /\ Cardinality(S) \in Nat /\ o \in [1..Cardinality(S) -> S]
           /\ \A i, j \in 1..Cardinality(S) : o[i] = o[j] => i = j
           /\ \A x \in S : \E i \in 1..Cardinality(S) : o[i] = x
<1>1. Cardinality(S) \in Nat
  BY FS_CardinalityType
<1> QED
  BY <1>1 DEF Orders, Bijection, Injection, Surjection, IsInjective

LEMMA ValuesFinite ==
    ASSUME NEW n \in Nat, NEW f, NEW S, S \subseteq {f[k] : k \in 1..n}
    PROVE  IsFiniteSet(S)
<1> DEFINE V == {f[k] : k \in 1..n}
           g == [k \in 1..n |-> f[k]]
<1>1. g \in Surjection(1..n, V)
  <2>1. g \in [1..n -> V] /\ \A v \in V : \E k \in 1..n : g[k] = v
    OBVIOUS
  <2> HIDE DEF g, V
  <2> QED
    BY <2>1 DEF Surjection
<1>2. IsFiniteSet(1..n)
  BY FS_Interval
<1> HIDE DEF V, g
<1>3. IsFiniteSet(V)
  BY <1>1, <1>2, FS_Surjection
<1>4. S \in SUBSET V
  BY DEF V
<1> QED
  BY <1>3, <1>4, FS_Subset

LEMMA SizesFinite ==
    ASSUME WalkTypeOK
    PROVE  IsFiniteSet({n \in FileSizes : Len(OfSize(n)) >= 2})
<1> DEFINE f == [k \in 1..Len(listing) |-> listing[k].size]
           S == {n \in FileSizes : Len(OfSize(n)) >= 2}
<1>1. Len(listing) \in Nat /\ DOMAIN listing = 1..Len(listing)
  BY DEF WalkTypeOK
<1>2. \A n \in FileSizes : \E k \in 1..Len(listing) : n = f[k]
  BY <1>1 DEF FileSizes, ToSet
<1>3. S \subseteq {f[k] : k \in 1..Len(listing)}
  BY <1>2
<1> HIDE DEF f, S
<1>4. IsFiniteSet(S)
  BY <1>1, <1>3, ValuesFinite
<1> QED
  BY <1>4 DEF S

LEMMA HashesFinite ==
    ASSUME CompareTypeOK
    PROVE  IsFiniteSet(SharedHashes)
<1> DEFINE f == [k \in 1..Len(task.hashes) |-> task.hashes[k].hash]
<1>1. task.hashes \in Seq(Hashed)
  BY DEF CompareTypeOK, Tasks
<1>2. Len(task.hashes) \in Nat /\ DOMAIN task.hashes = 1..Len(task.hashes)
  BY <1>1
<1>3. \A h \in SharedHashes : \E k \in 1..Len(task.hashes) : h = f[k]
  BY <1>2 DEF SharedHashes, ToSet
<1>4. SharedHashes \subseteq {f[k] : k \in 1..Len(task.hashes)}
  BY <1>3
<1> HIDE DEF f
<1> QED
  BY <1>2, <1>4, ValuesFinite

LEMMA OfSizeTyped ==
    ASSUME WalkTypeOK, NEW n
    PROVE  OfSize(n) \in Seq(Files)
<1>1. \A x \in Found : x.path \in Files
  BY DEF Found
<1>2. /\ Paths(listing) \in Seq(Files) /\ Len(Paths(listing)) = Len(listing)
      /\ DOMAIN listing = 1..Len(listing)
  BY <1>1, PathsTyped DEF WalkTypeOK
<1> DEFINE S == {k \in DOMAIN listing : listing[k].size = n}
<1>3. S \subseteq 1..Len(Paths(listing))
  BY <1>2
<1> HIDE DEF S
<1>4. InOrder(S, Paths(listing)) \in Seq(Files)
  BY <1>2, <1>3, PartTyped
<1> QED
  BY <1>4 DEF OfSize, S

LEMMA WithHashTyped ==
    ASSUME CompareTypeOK, NEW h
    PROVE  WithHash(h) \in Seq(Files)
<1>1. \A x \in Hashed : x.path \in Files
  BY DEF Hashed
<1> DEFINE list == task.hashes
<1>2. list \in Seq(Hashed)
  BY DEF CompareTypeOK, Tasks
<1>3. /\ Paths(list) \in Seq(Files) /\ Len(Paths(list)) = Len(list)
      /\ DOMAIN list = 1..Len(list)
  BY <1>1, <1>2, PathsTyped
<1> DEFINE S == {k \in DOMAIN list : list[k].hash = h}
<1>4. S \subseteq 1..Len(Paths(list))
  BY <1>3
<1> HIDE DEF S, list
<1>5. InOrder(S, Paths(list)) \in Seq(Files)
  BY <1>3, <1>4, PartTyped
<1> QED
  BY <1>5 DEF WithHash, S, list

LEMMA BlockTyped ==
    ASSUME FilesTypeOK, settings \in Settings, NEW f \in Files, NEW b \in Nat
    PROVE  BlockOf(f, b) \in Seq({0, 1})
<1> DEFINE n == settings.block_size
           e(k) == IF b * n + k <= Len(content[f]) THEN content[f][b * n + k] ELSE 0
<1>1. n \in Nat
  BY SettingsTyped
<1>2. b * n \in Nat
  BY <1>1
<1>3. ASSUME NEW k \in 1..n PROVE e(k) \in {0, 1}
  <2> DEFINE i == b * n + k
  <2>1. i \in Nat /\ i >= 1
    BY <1>1, <1>2
  <2> HIDE DEF i
  <2>2. i <= Len(content[f]) => content[f][i] \in {0, 1}
    <3>1. Len(content[f]) \in Nat /\ \A l \in 1..Len(content[f]) : content[f][l] \in {0, 1}
      BY ContentTyped
    <3>2. i <= Len(content[f]) => i \in 1..Len(content[f])
      BY <2>1, <3>1
    <3> QED
      BY <3>1, <3>2
  <2> QED
    BY <2>2 DEF i
<1>4. BlockOf(f, b) = [k \in 1..n |-> e(k)]
  BY DEF BlockOf
<1> HIDE DEF e, n
<1> QED
  BY <1>1, <1>3, <1>4

LEMMA SettleTyped ==
    ASSUME NEW E, NEW levels \in Seq(E)
    PROVE  Settle(levels) \in Seq(E)
<1> DEFINE K == {0} \cup {k \in DOMAIN levels : levels[k] # {}}
<1>1. Len(levels) \in Nat /\ K \subseteq 0..Len(levels) /\ K # {} /\ K \subseteq Nat
  OBVIOUS
<1> HIDE DEF K
<1>2. IsFiniteSet(0..Len(levels)) /\ K \in SUBSET (0..Len(levels))
  BY <1>1, FS_Interval
<1>3. IsFiniteSet(K)
  BY <1>2, FS_Subset
<1>4. Max(K) \in 0..Len(levels)
  BY <1>1, <1>3, MaxOfNumbers
<1>5. SubSeq(levels, 1, Max(K)) \in Seq(E)
  BY <1>1, <1>4
<1> QED
  BY <1>5 DEF Settle, K

LEMMA BayanInitTyped == BayanInit => BayanTypeOK
<1> SUFFICES ASSUME BayanInit PROVE BayanTypeOK
  OBVIOUS
<1> USE DEF BayanInit
<1>1. WalkTypeOK
  <2>1. settings.include_dirs \in Seq(Roots) /\ settings.include_dirs[1] \in Roots
    BY SettingsTyped
  <2> QED
    BY <2>1 DEF WalkTypeOK
<1>2. NoTask \in Tasks /\ NoTask.sizing = FALSE
  BY DEF NoTask, Tasks
<1>3. CompareTypeOK
  BY <1>2 DEF CompareTypeOK
<1>4. FilesTypeOK
  BY FileAssumption DEF FilesTypeOK
<1>5. PhaseOK
  BY DEF PhaseOK
<1> QED
  BY <1>1, <1>3, <1>4, <1>5 DEF BayanTypeOK

LEMMA OpenDirTyped ==
    ASSUME BayanTypeOK, open_dir
    PROVE  BayanTypeOK'
<1> USE DEF BayanTypeOK
<1>1. /\ phase = "scan" /\ phase' \in {"scan", "error"}
      /\ UNCHANGED <<settings, env, listing, stack, task, reported>>
      /\ \/ UNCHANGED <<dirs, root, it>>
         \/ /\ dirs # <<>> /\ dirs' = Tail(dirs) /\ root' = Head(dirs)
            /\ it' = IF Head(dirs) \in Dirs \ denied
                     THEN Settle(<<Entries(Head(dirs))>>) ELSE <<>>
  BY DEF open_dir
<1>2. WalkTypeOK'
  <2>1. dirs # <<>> => Head(dirs) \in Roots /\ Tail(dirs) \in Seq(Roots)
    BY DEF WalkTypeOK
  <2>2. it' \in Seq(SUBSET (Dirs \cup Files))
    <3> DEFINE E == SUBSET (Dirs \cup Files)
    <3>1. <<Entries(Head(dirs))>> \in Seq(E) /\ <<>> \in Seq(E)
      BY DEF Entries
    <3>2. Settle(<<Entries(Head(dirs))>>) \in Seq(E)
      BY <3>1, SettleTyped
    <3> QED
      BY <1>1, <3>1, <3>2 DEF WalkTypeOK
  <2> QED
    BY <1>1, <2>1, <2>2 DEF WalkTypeOK, env
<1>3. CompareTypeOK' /\ FilesTypeOK' /\ PhaseOK'
  BY <1>1 DEF CompareTypeOK, FilesTypeOK, PhaseOK, env
<1> QED
  BY <1>2, <1>3

LEMMA VisitTyped ==
    ASSUME BayanTypeOK, visit
    PROVE  BayanTypeOK'
<1> DEFINE E == SUBSET (Dirs \cup Files)
<1> USE DEF BayanTypeOK
<1>1. /\ phase = "scan" /\ it # <<>>
      /\ UNCHANGED <<settings, env, phase, dirs, root, stack, task, reported>>
  BY DEF visit
<1>2. PICK e \in Last(it) :
          \/ it' = Settle(Front(it)) /\ UNCHANGED listing
          \/ /\ it' = IF is_path_excluded(e) THEN Settle(Without(e))
                      ELSE IF e \in denied THEN <<>>
                      ELSE Settle(Append(Without(e), Entries(e)))
             /\ UNCHANGED listing
          \/ /\ e \in Files /\ it' = Settle(Without(e))
             /\ \/ listing' = listing
                \/ listing' = Append(listing, [path |-> e, via |-> root,
                                               size |-> Len(content[e])])
  BY DEF visit
<1>3. it \in Seq(E) /\ Last(it) \in E /\ Front(it) \in Seq(E)
  <2>1. it \in Seq(E) /\ Len(it) \in 1..Len(it)
    BY <1>1 DEF WalkTypeOK
  <2> QED
    BY <2>1 DEF Last, Front
<1>4. /\ Without(e) \in Seq(E) /\ Entries(e) \in E
      /\ Append(Without(e), Entries(e)) \in Seq(E) /\ <<>> \in Seq(E)
  <2>1. Last(it) \ {e} \in E /\ Entries(e) \in E
    BY <1>3 DEF Entries
  <2> QED
    BY <1>3, <2>1 DEF Without
<1>5. it' \in Seq(E)
  <2>1. /\ Settle(Front(it)) \in Seq(E) /\ Settle(Without(e)) \in Seq(E)
        /\ Settle(Append(Without(e), Entries(e))) \in Seq(E)
    BY <1>3, <1>4, SettleTyped
  <2> QED
    BY <1>2, <1>4, <2>1
<1>6. listing \in Seq(Found) /\ Len(listing) \in Nat
  BY DEF WalkTypeOK
<1>7. listing' \in Seq(Found) /\
      ((\A k \in 1..Len(listing) : listing[k].size = Len(content[listing[k].path])) =>
       (\A k \in 1..Len(listing') : listing'[k].size = Len(content[listing'[k].path])))
  <2>1. CASE listing' = listing
    BY <1>6, <2>1
  <2>2. CASE e \in Files /\ listing' = Append(listing, [path |-> e, via |-> root,
                                                        size |-> Len(content[e])])
    <3> DEFINE x == [path |-> e, via |-> root, size |-> Len(content[e])]
    <3>1. x \in Found /\ x.size = Len(content[x.path])
      <4>1. Len(content[e]) \in Nat /\ root \in Roots
        BY <2>2, ContentTyped DEF WalkTypeOK
      <4> QED
        BY <2>2, <4>1 DEF Found
    <3> HIDE DEF x
    <3>2. /\ listing' = Append(listing, x) /\ Len(listing') = Len(listing) + 1
          /\ listing'[Len(listing) + 1] = x
          /\ \A k \in 1..Len(listing) : listing'[k] = listing[k]
          /\ listing' \in Seq(Found)
      BY <1>6, <2>2, <3>1 DEF x
    <3>3. ASSUME NEW k \in 1..Len(listing')
          PROVE  k \in 1..Len(listing) \/ k = Len(listing) + 1
      BY <1>6, <3>2
    <3> QED
      BY <3>1, <3>2, <3>3
  <2> QED
    BY <1>2, <2>1, <2>2
<1>8. WalkTypeOK'
  BY <1>1, <1>5, <1>7 DEF WalkTypeOK, env
<1>9. CompareTypeOK' /\ FilesTypeOK'
  BY <1>1 DEF CompareTypeOK, FilesTypeOK, env
<1>10. PhaseOK'
  BY <1>1, <1>7 DEF PhaseOK, env
<1> QED
  BY <1>8, <1>9, <1>10

LEMMA RunTyped ==
    ASSUME BayanTypeOK, run
    PROVE  BayanTypeOK'
<1> USE DEF run, env, scanVars, BayanTypeOK
<1>1. stack' \in Seq(Groups)
  <2> DEFINE S == {n \in FileSizes : Len(OfSize(n)) >= 2}
  <2>1. PICK sizes \in Orders(S) :
            stack' = [k \in DOMAIN sizes |-> [paths |-> OfSize(sizes[k]), block |-> 0]]
    OBVIOUS
  <2>2. IsFiniteSet(S)
    BY SizesFinite
  <2> HIDE DEF S
  <2>3. Cardinality(S) \in Nat /\ DOMAIN sizes = 1..Cardinality(S)
    BY <2>2, OrdersAre
  <2>4. \A n : OfSize(n) \in Seq(Files)
    BY OfSizeTyped
  <2>5. \A k \in 1..Cardinality(S) : [paths |-> OfSize(sizes[k]), block |-> 0] \in Groups
    BY <2>4 DEF Groups
  <2> QED
    BY <2>1, <2>3, <2>5
<1>2. WalkTypeOK' /\ FilesTypeOK'
  BY DEF WalkTypeOK, FilesTypeOK
<1>3. CompareTypeOK' /\ PhaseOK'
  BY <1>1 DEF CompareTypeOK, PhaseOK
<1> QED
  BY <1>2, <1>3

LEMMA NoTaskIs ==
    /\ NoTask \in Tasks /\ NoTask.block = 0 /\ NoTask.paths = <<>> /\ NoTask.sizing = FALSE
    /\ NoTask.hashes = <<>> /\ NoTask.any_file_ended = FALSE
  BY DEF NoTask, Tasks

LEMMA FreshTask ==
    ASSUME NEW g \in Groups
    PROVE  LET new == [NoTask EXCEPT !.paths = g.paths, !.block = g.block] IN
           /\ new \in Tasks /\ new.sizing = FALSE /\ new.any_file_ended = FALSE
           /\ new.paths = g.paths /\ new.block = g.block /\ new.hashes = <<>>
<1>1. g.paths \in Seq(Files) /\ g.block \in Nat
  BY DEF Groups
<1> QED
  BY <1>1, NoTaskIs DEF Tasks

LEMMA CheckTyped ==
    ASSUME BayanTypeOK, check_blocks
    PROVE  BayanTypeOK'
<1> USE DEF check_blocks, env, scanVars, BayanTypeOK
<1>1. Head(stack) \in Groups /\ Tail(stack) \in Seq(Groups)
  BY DEF CompareTypeOK
<1>2. task' \in Tasks /\ task'.sizing = FALSE
  BY <1>1, FreshTask
<1>3. CompareTypeOK'
  BY <1>1, <1>2 DEF CompareTypeOK
<1>4. WalkTypeOK' /\ FilesTypeOK' /\ PhaseOK'
  BY DEF WalkTypeOK, FilesTypeOK, PhaseOK
<1> QED
  BY <1>3, <1>4

LEMMA ReadTyped ==
    ASSUME BayanTypeOK, read_block
    PROVE  BayanTypeOK'
<1> USE DEF read_block, env, scanVars, BayanTypeOK
<1> DEFINE f == Head(task.paths)
           x == [path |-> f, hash |-> calculate_crc32(f, task.block)]
<1>1. task \in Tasks /\ task.paths # <<>> /\ task.block \in Nat /\ task.hashes \in Seq(Hashed)
  BY DEF CompareTypeOK, Tasks
<1>2. f \in Files /\ Tail(task.paths) \in Seq(Files)
  BY <1>1 DEF Tasks
<1>3. x \in Hashed
  <2>1. BlockOf(f, task.block) \in Seq({0, 1})
    BY <1>1, <1>2, BlockTyped DEF WalkTypeOK
  <2>2. calculate_crc32(f, task.block) \in Checksums
    BY <2>1 DEF calculate_crc32, Checksums
  <2> QED
    BY <1>2, <2>2 DEF Hashed
<1> HIDE DEF x
<1>4. task' = [task EXCEPT !.paths = Tail(@)]
         \/ task' = [task EXCEPT !.sizing = TRUE, !.hashes = Append(@, x)]
  BY DEF x
<1>5. Append(task.hashes, x) \in Seq(Hashed)
  BY <1>1, <1>3
<1>6. task' \in Tasks /\ (task'.sizing => task'.paths # <<>>)
  BY <1>1, <1>2, <1>4, <1>5 DEF Tasks
<1>7. CompareTypeOK'
  BY <1>6 DEF CompareTypeOK
<1>8. WalkTypeOK' /\ FilesTypeOK' /\ PhaseOK'
  BY DEF WalkTypeOK, FilesTypeOK, PhaseOK
<1> QED
  BY <1>7, <1>8

LEMMA SizeTyped ==
    ASSUME BayanTypeOK, file_size
    PROVE  BayanTypeOK'
<1> USE DEF file_size, env, scanVars, BayanTypeOK
<1>1. task \in Tasks /\ task.paths # <<>> /\ Tail(task.paths) \in Seq(Files)
  BY DEF CompareTypeOK, Tasks
<1>2. task' \in Tasks /\ (task'.sizing => task'.paths # <<>>)
  <2>1. Ended(Head(task.paths), task.block) \in BOOLEAN
    BY DEF Ended
  <2> QED
    BY <1>1, <2>1 DEF Tasks, CompareTypeOK
<1>3. CompareTypeOK'
  BY <1>2 DEF CompareTypeOK
<1>4. WalkTypeOK' /\ FilesTypeOK' /\ PhaseOK'
  BY DEF WalkTypeOK, FilesTypeOK, PhaseOK
<1> QED
  BY <1>3, <1>4

LEMMA JoinTyped ==
    ASSUME NEW E, NEW s \in Seq(E), NEW t \in Seq(E)
    PROVE  s \o t \in Seq(E)
  OBVIOUS

LEMMA CompareTyped ==
    ASSUME BayanTypeOK, compare
    PROVE  BayanTypeOK'
<1> USE DEF compare, env, scanVars, BayanTypeOK
<1> DEFINE n == Cardinality(SharedHashes)
<1>1. PICK hashes \in Orders(SharedHashes) :
          \/ /\ reported' = reported \o [k \in DOMAIN hashes |-> Printed(WithHash(hashes[k]))]
             /\ UNCHANGED stack
          \/ /\ stack' = [k \in DOMAIN hashes |->
                             [paths |-> WithHash(hashes[k]), block |-> NextBlock]] \o stack
             /\ UNCHANGED reported
  OBVIOUS
<1>2. n \in Nat /\ DOMAIN hashes = 1..n
  BY HashesFinite, OrdersAre
<1> HIDE DEF n
<1>3. \A h : WithHash(h) \in Seq(Files) /\ Printed(WithHash(h)) \in Seq(Files)
  BY WithHashTyped DEF Printed
<1>4. NextBlock \in Nat
  BY DEF NextBlock, CompareTypeOK, Tasks
<1> DEFINE printed_ == [k \in 1..n |-> Printed(WithHash(hashes[k]))]
           deeper == [k \in 1..n |-> [paths |-> WithHash(hashes[k]), block |-> NextBlock]]
<1>5. printed_ \in Seq(Seq(Files))
  BY <1>2, <1>3
<1>6. deeper \in Seq(Groups)
  <2>1. \A k \in 1..n : [paths |-> WithHash(hashes[k]), block |-> NextBlock] \in Groups
    BY <1>3, <1>4 DEF Groups
  <2> QED
    BY <1>2, <2>1
<1>7. \/ reported' = reported \o printed_ /\ UNCHANGED stack
      \/ stack' = deeper \o stack /\ UNCHANGED reported
  BY <1>1, <1>2
<1> HIDE DEF printed_, deeper
<1>8. reported' \in Seq(Seq(Files)) /\ stack' \in Seq(Groups)
  <2>1. reported \in Seq(Seq(Files)) /\ stack \in Seq(Groups)
    BY DEF CompareTypeOK
  <2>2. reported \o printed_ \in Seq(Seq(Files)) /\ deeper \o stack \in Seq(Groups)
    BY <1>5, <1>6, <2>1, JoinTyped
  <2> QED
    BY <1>7, <2>1, <2>2
<1>9. task' \in Tasks /\ task'.sizing = FALSE
  BY DEF NoTask, Tasks
<1>10. CompareTypeOK'
  BY <1>8, <1>9 DEF CompareTypeOK
<1>11. WalkTypeOK' /\ FilesTypeOK' /\ PhaseOK'
  BY DEF WalkTypeOK, FilesTypeOK, PhaseOK
<1> QED
  BY <1>10, <1>11

LEMMA OthersTyped ==
    ASSUME BayanTypeOK, main_ends \/ change \/ UNCHANGED bayanVars
    PROVE  BayanTypeOK'
<1> USE DEF BayanTypeOK, WalkTypeOK, CompareTypeOK, PhaseOK, scanVars, env
<1>1. CASE main_ends
  BY <1>1 DEF main_ends, FilesTypeOK
<1>2. CASE change
  <2>1. WalkTypeOK' /\ CompareTypeOK'
    BY <1>2 DEF change
  <2>2. FilesTypeOK' /\ changes' # 0
    <3>1. changes \in Nat /\ changes' = changes + 1 /\ changes < MaxChanges
      BY <1>2 DEF change, FilesTypeOK
    <3>2. content' \in [Files -> Contents] /\ gone' \subseteq Files
      BY <1>2 DEF change, FilesTypeOK
    <3>3. unreadable' \in DeniedFiles
      BY <1>2 DEF change, FilesTypeOK
    <3> QED
      BY <3>1, <3>2, <3>3, FileAssumption DEF FilesTypeOK
  <2>3. PhaseOK'
    BY <1>2, <2>2 DEF change
  <2> QED
    BY <2>1, <2>2, <2>3
<1>3. CASE UNCHANGED bayanVars
  BY <1>3 DEF bayanVars, FilesTypeOK
<1> QED
  BY <1>1, <1>2, <1>3

LEMMA BayanNextTyped == BayanTypeOK /\ [BayanNext]_bayanVars => BayanTypeOK'
  BY OpenDirTyped, VisitTyped, RunTyped, CheckTyped, ReadTyped, SizeTyped, CompareTyped,
     OthersTyped DEF BayanNext, Step

-----------------------------------------------------------------------------
(***************************************************************************)
(* Where each position of the listing is: own says whether it was printed  *)
(* with the i-th group, is in the i-th call to come, still to be read or   *)
(* already hashed by the check_blocks at work, or in no group any more.    *)
(***************************************************************************)
ReportedAs(i) == <<"reported", i>>
Stacked(i) == <<"stack", i>>
Waiting == <<"waiting", 0>>
Hashing == <<"hashing", 0>>
Dropped == <<"dropped", 0>>

Places == {Waiting, Hashing, Dropped} \cup {Stacked(i) : i \in 1..Len(stack)}
              \cup {ReportedAs(i) : i \in 1..Len(reported)}

\* the paths that check_blocks has still to open
Rest == IF task.sizing THEN Tail(task.paths) ELSE task.paths

OwnedStack(own) ==
    \A i \in 1..Len(stack) : stack[i].paths = InOrder(At(own, Stacked(i)), Paths(listing))

OwnedTask(own) ==
    /\ Rest = InOrder(At(own, Waiting), Paths(listing))
    /\ Paths(task.hashes) = InOrder(At(own, Hashing), Paths(listing))
    /\ \A j \in At(own, Hashing) : \A k \in At(own, Waiting) : j < k
    /\ task.sizing => \E m \in At(own, Hashing) :
                          /\ Head(task.paths) = Paths(listing)[m]
                          /\ \A j \in At(own, Hashing) : j <= m

Holds(own) ==
    /\ own \in [1..Len(listing) -> Places]
    /\ Owned(own, Paths(listing), reported)
    /\ OwnedStack(own)
    /\ OwnedTask(own)

LEMMA AtTyped ==
    ASSUME BayanTypeOK, NEW own, DOMAIN own = 1..Len(listing), NEW place
    PROVE  /\ At(own, place) \subseteq 1..Len(Paths(listing)) /\ At(own, place) \subseteq Nat
           /\ At(own, place) \subseteq 1..Len(listing)
           /\ IsFiniteSet(At(own, place)) /\ Cardinality(At(own, place)) \in Nat
           /\ InOrder(At(own, place), Paths(listing)) \in Seq(Files)
           /\ Len(InOrder(At(own, place), Paths(listing))) = Cardinality(At(own, place))
<1>1. \A x \in Found : x.path \in Files
  BY DEF Found
<1>2. Paths(listing) \in Seq(Files) /\ Len(Paths(listing)) = Len(listing)
  BY <1>1, PathsTyped DEF BayanTypeOK, WalkTypeOK
<1>3. At(own, place) \subseteq 1..Len(Paths(listing))
  BY <1>2 DEF At
<1> QED
  BY <1>2, <1>3, PartTyped

LEMMA EmptyOrder == \A f : InOrder({}, f) = <<>>
<1>1. Cardinality({}) = 0
  BY FS_EmptySet
<1> QED
  BY <1>1 DEF InOrder

\* While the walk goes on, nothing is in a group.
LEMMA NothingHeld ==
    ASSUME BayanTypeOK, phase = "scan"
    PROVE  Holds([k \in 1..Len(listing) |-> Dropped])
<1> DEFINE own == [k \in 1..Len(listing) |-> Dropped]
<1>1. stack = <<>> /\ reported = <<>> /\ task = NoTask
  BY DEF BayanTypeOK, PhaseOK
<1>2. own \in [1..Len(listing) -> Places]
  BY DEF Places
<1>3. At(own, Waiting) = {} /\ At(own, Hashing) = {}
  BY DEF At, Waiting, Hashing, Dropped
<1>4. Rest = <<>> /\ Paths(task.hashes) = <<>> /\ task.sizing = FALSE
  BY <1>1, NoTaskIs DEF Rest, Paths
<1>5. OwnedTask(own)
  BY <1>3, <1>4, EmptyOrder DEF OwnedTask
<1>6. OwnedStack(own) /\ Owned(own, Paths(listing), reported)
  BY <1>1 DEF OwnedStack, Owned
<1> QED
  BY <1>2, <1>5, <1>6 DEF Holds

(***************************************************************************)
(* run puts a position into the call for the files of its size.            *)
(***************************************************************************)
\* where v is in a list
Index(o, v) == CHOOSE i \in DOMAIN o : o[i] = v
Occurs(o, v) == \E i \in DOMAIN o : o[i] = v

LEMMA IndexIs ==
    ASSUME NEW S, IsFiniteSet(S), NEW o \in Orders(S), NEW i \in 1..Cardinality(S), NEW v
    PROVE  (Occurs(o, v) /\ Index(o, v) = i) <=> (o[i] = v)
<1>1. DOMAIN o = 1..Cardinality(S) /\ \A a, b \in 1..Cardinality(S) : o[a] = o[b] => a = b
  BY OrdersAre
<1> QED
  BY <1>1 DEF Index, Occurs

LEMMA IndexTyped ==
    ASSUME NEW S, IsFiniteSet(S), NEW o \in Orders(S), NEW v, Occurs(o, v)
    PROVE  Index(o, v) \in 1..Cardinality(S) /\ o[Index(o, v)] = v
<1>1. DOMAIN o = 1..Cardinality(S)
  BY OrdersAre
<1> QED
  BY <1>1 DEF Index, Occurs

ShownSizes == {n \in FileSizes : Len(OfSize(n)) >= 2}
RunOwn(sizes) ==
    [k \in 1..Len(listing) |->
        IF Occurs(sizes, listing[k].size) THEN Stacked(Index(sizes, listing[k].size)) ELSE Dropped]

RunMoves(own, sizes) ==
    /\ At(own, Waiting) = {} /\ At(own, Hashing) = {}
    /\ \A i \in 1..Cardinality(ShownSizes) :
          At(own, Stacked(i)) = {k \in DOMAIN listing : listing[k].size = sizes[i]}

LEMMA RunHolds ==
    ASSUME BayanTypeOK, run, NEW sizes \in Orders(ShownSizes),
           stack' = [k \in DOMAIN sizes |-> [paths |-> OfSize(sizes[k]), block |-> 0]],
           NEW own, own = RunOwn(sizes)
    PROVE  Holds(own)' /\ RunMoves(own, sizes)
<1> DEFINE n == Cardinality(ShownSizes)
<1>1. IsFiniteSet(ShownSizes)
  BY SizesFinite DEF BayanTypeOK, ShownSizes
<1>2. n \in Nat /\ DOMAIN sizes = 1..n
  BY <1>1, OrdersAre
<1>3. /\ task' = NoTask /\ reported' = <<>> /\ listing' = listing
      /\ task = NoTask /\ DOMAIN listing = 1..Len(listing)
  BY DEF run, scanVars, BayanTypeOK, PhaseOK, WalkTypeOK
<1>4. Len(stack') = n /\ \A i \in 1..n : stack'[i].paths = OfSize(sizes[i])
  BY <1>2
<1>5. own \in [1..Len(listing) -> Places']
  <2>1. ASSUME NEW k \in 1..Len(listing) PROVE own[k] \in Places'
    <3>1. CASE Occurs(sizes, listing[k].size)
      <4>1. Index(sizes, listing[k].size) \in 1..n
        BY <1>1, <3>1, IndexTyped
      <4> QED
        BY <1>4, <3>1, <4>1 DEF Places, RunOwn
    <3>2. CASE ~Occurs(sizes, listing[k].size)
      BY <3>2 DEF Places, RunOwn
    <3> QED
      BY <3>1, <3>2
  <2> QED
    BY <2>1 DEF RunOwn
<1>6. ASSUME NEW i \in 1..n
      PROVE  At(own, Stacked(i)) = {k \in DOMAIN listing : listing[k].size = sizes[i]}
  <2>1. ASSUME NEW k \in 1..Len(listing)
        PROVE  (own[k] = Stacked(i)) <=> (sizes[i] = listing[k].size)
    <3>1. (Occurs(sizes, listing[k].size) /\ Index(sizes, listing[k].size) = i)
              <=> (sizes[i] = listing[k].size)
      BY <1>1, IndexIs
    <3>2. own[k] = IF Occurs(sizes, listing[k].size) THEN Stacked(Index(sizes, listing[k].size))
                   ELSE Dropped
      BY DEF RunOwn
    <3>3. Dropped # Stacked(i) /\ \A j : Stacked(j) = Stacked(i) => j = i
      BY DEF Dropped, Stacked
    <3> QED
      BY <3>1, <3>2, <3>3
  <2> QED
    BY <1>3, <1>5, <2>1 DEF At
<1>7. OwnedStack(own)'
  BY <1>3, <1>4, <1>6 DEF OwnedStack, OfSize
<1>10. At(own, Waiting) = {} /\ At(own, Hashing) = {}
  BY DEF At, Waiting, Hashing, Dropped, Stacked, RunOwn
<1>8. OwnedTask(own)'
  <2>2. Rest' = <<>> /\ Paths(task'.hashes) = <<>> /\ task'.sizing = FALSE
    BY <1>3, NoTaskIs DEF Rest, Paths
  <2> QED
    BY <1>10, <2>2, EmptyOrder DEF OwnedTask
<1>9. Owned(own, Paths(listing), reported)'
  BY <1>3 DEF Owned
<1>11. RunMoves(own, sizes)
  BY <1>6, <1>10 DEF RunMoves
<1> QED
  BY <1>3, <1>5, <1>7, <1>8, <1>9, <1>11 DEF Holds

(***************************************************************************)
(* check_blocks takes the first group of the stack.                        *)
(***************************************************************************)
CheckOwn(own) ==
    [k \in DOMAIN own |->
        IF own[k] = Stacked(1) THEN Waiting
        ELSE IF own[k][1] = "stack" THEN Stacked(own[k][2] - 1)
        ELSE own[k]]

LEMMA NothingAtWork ==
    ASSUME BayanTypeOK, NEW own, Holds(own), task.paths = <<>>
    PROVE  /\ task.sizing = FALSE /\ At(own, Waiting) = {}
           /\ task.hashes = <<>> => At(own, Hashing) = {}
<1>1. task.sizing = FALSE
  BY DEF BayanTypeOK, CompareTypeOK, Tasks
<1>2. DOMAIN own = 1..Len(listing) /\ OwnedTask(own)
  BY DEF Holds
<1>3. InOrder(At(own, Waiting), Paths(listing)) = <<>>
  BY <1>1, <1>2 DEF OwnedTask, Rest
<1>4. ASSUME NEW place, InOrder(At(own, place), Paths(listing)) = <<>>
      PROVE  At(own, place) = {}
  <2>1. /\ IsFiniteSet(At(own, place))
        /\ Len(InOrder(At(own, place), Paths(listing))) = Cardinality(At(own, place))
    BY <1>2, AtTyped
  <2>2. Cardinality(At(own, place)) = 0
    BY <1>4, <2>1
  <2> QED
    BY <2>1, <2>2, FS_EmptySet
<1>5. task.hashes = <<>> => InOrder(At(own, Hashing), Paths(listing)) = <<>>
  BY <1>2 DEF OwnedTask, Paths
<1> QED
  BY <1>1, <1>3, <1>4, <1>5

CheckMoves(old, own) ==
    /\ At(own, Waiting) = At(old, Stacked(1)) /\ At(own, Hashing) = {}
    /\ \A i \in 1..(Len(stack) - 1) : At(own, Stacked(i)) = At(old, Stacked(i + 1))
    /\ \A i : At(own, ReportedAs(i)) = At(old, ReportedAs(i))

LEMMA CheckHolds ==
    ASSUME BayanTypeOK, check_blocks, NEW old, Holds(old), NEW own, own = CheckOwn(old)
    PROVE  Holds(own)' /\ CheckMoves(old, own)
<1> DEFINE n == Len(stack)
           p == Paths(listing)
<1>1. /\ task = NoTask /\ stack # <<>> /\ stack' = Tail(stack) /\ listing' = listing
      /\ task' = [NoTask EXCEPT !.paths = Head(stack).paths, !.block = Head(stack).block]
      /\ reported' = reported
  BY DEF check_blocks, scanVars
<1>2. stack \in Seq(Groups) /\ n \in Nat /\ n # 0 /\ Head(stack) = stack[1] /\ Head(stack) \in Groups
  BY <1>1 DEF BayanTypeOK, CompareTypeOK
<1>3. Len(stack') = n - 1 /\ \A i \in 1..(n - 1) : stack'[i] = stack[i + 1]
  BY <1>1, <1>2
<1>4. task'.sizing = FALSE /\ task'.paths = stack[1].paths /\ task'.hashes = <<>>
  BY <1>1, <1>2, FreshTask
<1>5. old \in [1..Len(listing) -> Places] /\ OwnedStack(old) /\ Owned(old, p, reported)
  BY DEF Holds
<1>6. At(old, Waiting) = {} /\ At(old, Hashing) = {}
  BY <1>1, NothingAtWork, NoTaskIs
<1>7. ASSUME NEW k \in 1..Len(listing)
      PROVE  /\ own[k] \in Places'
             /\ (own[k] = Waiting) <=> (old[k] = Stacked(1))
             /\ own[k] # Hashing
             /\ \A i \in 1..(n - 1) : (own[k] = Stacked(i)) <=> (old[k] = Stacked(i + 1))
             /\ \A i : (own[k] = ReportedAs(i)) <=> (old[k] = ReportedAs(i))
  <2>1. own[k] = IF old[k] = Stacked(1) THEN Waiting
                 ELSE IF old[k][1] = "stack" THEN Stacked(old[k][2] - 1)
                 ELSE old[k]
    BY <1>5 DEF CheckOwn
  <2>2. old[k] \in Places /\ old[k] # Waiting /\ old[k] # Hashing
    BY <1>5, <1>6 DEF At
  <2>3. CASE old[k] = Dropped
    BY <2>1, <2>3 DEF Places, Dropped, Stacked, ReportedAs, Waiting, Hashing
  <2>4. CASE \E i \in 1..n : old[k] = Stacked(i)
    <3>1. PICK i \in 1..n : old[k] = Stacked(i)
      BY <2>4
    <3>2. CASE i = 1
      BY <2>1, <3>1, <3>2, <1>2 DEF Places, Dropped, Stacked, ReportedAs, Waiting, Hashing
    <3>3. CASE i # 1
      <4>1. old[k] # Stacked(1) /\ old[k][1] = "stack" /\ old[k][2] = i
        BY <3>1, <3>3 DEF Stacked
      <4>2. own[k] = Stacked(i - 1) /\ i - 1 \in 1..(n - 1)
        BY <2>1, <3>1, <3>3, <4>1, <1>2
      <4>3. own[k] \in Places'
        BY <1>3, <4>2 DEF Places
      <4>4. \A j \in 1..(n - 1) : (own[k] = Stacked(j)) <=> (old[k] = Stacked(j + 1))
        BY <1>2, <3>1, <4>2 DEF Stacked
      <4>5. \A j : own[k] # ReportedAs(j) /\ old[k] # ReportedAs(j)
        BY <3>1, <4>2 DEF Stacked, ReportedAs
      <4>6. own[k] # Waiting /\ own[k] # Hashing
        BY <4>2 DEF Stacked, Waiting, Hashing
      <4> QED
        BY <4>1, <4>3, <4>4, <4>5, <4>6
    <3> QED
      BY <3>2, <3>3
  <2>5. CASE \E i \in 1..Len(reported) : old[k] = ReportedAs(i)
    <3>1. PICK i \in 1..Len(reported) : old[k] = ReportedAs(i)
      BY <2>5
    <3>2. old[k][1] # "stack" /\ own[k] = ReportedAs(i)
      BY <2>1, <3>1 DEF ReportedAs, Stacked
    <3> QED
      BY <1>1, <3>1, <3>2 DEF Places, Dropped, Stacked, ReportedAs, Waiting, Hashing
  <2> QED
    BY <2>2, <2>3, <2>4, <2>5 DEF Places
<1>8. own \in [1..Len(listing) -> Places']
  BY <1>5, <1>7 DEF CheckOwn
<1>9. /\ At(own, Waiting) = At(old, Stacked(1)) /\ At(own, Hashing) = {}
      /\ \A i \in 1..(n - 1) : At(own, Stacked(i)) = At(old, Stacked(i + 1))
      /\ \A i : At(own, ReportedAs(i)) = At(old, ReportedAs(i))
  BY <1>5, <1>7, <1>8 DEF At
<1>10. OwnedStack(own)'
  <2>1. ASSUME NEW i \in 1..(n - 1)
        PROVE  stack'[i].paths = InOrder(At(own, Stacked(i)), p)
    <3>1. i + 1 \in 1..n
      BY <1>2
    <3>2. stack[i + 1].paths = InOrder(At(old, Stacked(i + 1)), p)
      BY <1>5, <3>1 DEF OwnedStack
    <3> QED
      BY <1>3, <1>9, <3>2
  <2> QED
    BY <1>1, <1>3, <2>1 DEF OwnedStack
<1>11. OwnedTask(own)'
  <2>1. Rest' = stack[1].paths /\ Paths(task'.hashes) = <<>>
    BY <1>4 DEF Rest, Paths
  <2>2. stack[1].paths = InOrder(At(old, Stacked(1)), p)
    <3>1. 1 \in 1..n
      BY <1>2
    <3> QED
      BY <1>5, <3>1 DEF OwnedStack
  <2> QED
    BY <1>1, <1>4, <1>9, <2>1, <2>2, EmptyOrder DEF OwnedTask
<1>12. Owned(own, p, reported)
  BY <1>5, <1>9 DEF Owned, ReportedAs
<1> QED
  BY <1>1, <1>8, <1>9, <1>10, <1>11, <1>12 DEF Holds, CheckMoves

(***************************************************************************)
(* The first of the paths that wait is hashed, or dropped.                 *)
(***************************************************************************)
ReadOwn(own) ==
    [own EXCEPT ![Nth(At(own, Waiting), 1)] =
        IF Head(task.paths) \in gone \cup unreadable THEN Dropped ELSE Hashing]

LEMMA NextWaiting ==
    ASSUME BayanTypeOK, NEW own, Holds(own), task.paths # <<>>, task.sizing = FALSE,
           NEW m, m = Nth(At(own, Waiting), 1)
    PROVE  /\ m \in At(own, Waiting) /\ m \in 1..Len(listing) /\ own[m] = Waiting
           /\ \A j \in At(own, Waiting) \ {m} : m < j
           /\ \A j \in At(own, Hashing) : j < m
           /\ Head(task.paths) = Paths(listing)[m]
           /\ Tail(task.paths) = InOrder(At(own, Waiting) \ {m}, Paths(listing))
<1> DEFINE W == At(own, Waiting)
           p == Paths(listing)
<1>1. DOMAIN own = 1..Len(listing) /\ OwnedTask(own)
  BY DEF Holds
<1>2. task.paths = InOrder(W, p) /\ \A j \in At(own, Hashing) : \A k \in W : j < k
  BY <1>1 DEF OwnedTask, Rest
<1>3. W \subseteq Nat /\ IsFiniteSet(W)
  BY <1>1, AtTyped
<1>4. W # {}
  BY <1>2, EmptyOrder
<1>5. \A k \in W : k \in 1..Len(listing) /\ own[k] = Waiting
  BY <1>1 DEF At
<1>7. m = Nth(W, 1)
  OBVIOUS
<1> HIDE DEF W, p
<1>6. /\ m \in W /\ \A j \in W \ {m} : m < j
      /\ Head(InOrder(W, p)) = p[m] /\ Tail(InOrder(W, p)) = InOrder(W \ {m}, p)
  BY ZenonT(30), <1>3, <1>4, <1>7, InOrderTail
<1> QED
  BY <1>2, <1>5, <1>6 DEF W, p

ReadMoves(old, own) ==
    /\ At(own, Waiting) = At(old, Waiting) \ {Nth(At(old, Waiting), 1)}
    /\ At(own, Hashing) =
          IF Head(task.paths) \in gone \cup unreadable THEN At(old, Hashing)
          ELSE At(old, Hashing) \cup {Nth(At(old, Waiting), 1)}
    /\ \A i : At(own, Stacked(i)) = At(old, Stacked(i))
    /\ \A i : At(own, ReportedAs(i)) = At(old, ReportedAs(i))

LEMMA ReadHolds ==
    ASSUME BayanTypeOK, read_block, NEW old, Holds(old), NEW own, own = ReadOwn(old)
    PROVE  Holds(own)' /\ ReadMoves(old, own)
<1> DEFINE m == Nth(At(old, Waiting), 1)
           W == At(old, Waiting)
           H == At(old, Hashing)
           p == Paths(listing)
           f == Head(task.paths)
           x == [path |-> f, hash |-> calculate_crc32(f, task.block)]
<1>1. /\ task.paths # <<>> /\ task.sizing = FALSE /\ listing' = listing
      /\ stack' = stack /\ reported' = reported
  BY DEF read_block, scanVars, BayanTypeOK, CompareTypeOK, Tasks
<1>2. task' = IF f \in gone \cup unreadable THEN [task EXCEPT !.paths = Tail(@)]
              ELSE [task EXCEPT !.sizing = TRUE, !.hashes = Append(@, x)]
  BY DEF read_block
<1>3. task \in Tasks /\ task.hashes \in Seq(Hashed) /\ x.path = f
  BY DEF BayanTypeOK, CompareTypeOK, Tasks
<1>4. /\ old \in [1..Len(listing) -> Places] /\ OwnedStack(old) /\ Owned(old, p, reported)
      /\ OwnedTask(old) /\ DOMAIN old = 1..Len(listing)
  BY DEF Holds
<1>5. /\ m \in W /\ m \in 1..Len(listing) /\ old[m] = Waiting
      /\ \A j \in W \ {m} : m < j
      /\ \A j \in H : j < m
      /\ f = p[m]
      /\ Tail(task.paths) = InOrder(W \ {m}, p)
  BY <1>1, NextWaiting
<1>6. Places' = Places
  BY <1>1 DEF Places
<1> DEFINE to == IF f \in gone \cup unreadable THEN Dropped ELSE Hashing
<1>7. to \in Places
  BY DEF Places
<1>8. own = [old EXCEPT ![m] = to]
  BY DEF ReadOwn
<1> HIDE DEF m, W, H, p, f, x, to
<1>9. own \in [1..Len(listing) -> Places]
  BY <1>4, <1>5, <1>7, <1>8
<1>10. /\ At(own, Waiting) = W \ {m}
       /\ At(own, Hashing) = IF to = Hashing THEN H \cup {m} ELSE H
       /\ \A i : At(own, Stacked(i)) = At(old, Stacked(i))
       /\ \A i : At(own, ReportedAs(i)) = At(old, ReportedAs(i))
  <2>1. to # Waiting /\ \A i : to # Stacked(i) /\ to # ReportedAs(i) /\ Waiting # Stacked(i) /\ Waiting # ReportedAs(i)
    BY DEF to, Dropped, Hashing, Waiting, Stacked, ReportedAs
  <2>2. Waiting # Hashing
    BY DEF Hashing, Waiting
  <2>3. \A k \in 1..Len(listing) : own[k] = IF k = m THEN to ELSE old[k]
    BY <1>4, <1>8
  <2>4. /\ W = {k \in 1..Len(listing) : old[k] = Waiting}
        /\ H = {k \in 1..Len(listing) : old[k] = Hashing}
        /\ DOMAIN own = 1..Len(listing)
    BY <1>4, <1>9 DEF W, H, At
  <2>5. At(own, Waiting) = W \ {m}
    BY <2>1, <2>3, <2>4 DEF At
  <2>6. At(own, Hashing) = IF to = Hashing THEN H \cup {m} ELSE H
    BY <1>5, <2>2, <2>3, <2>4 DEF At
  <2>7. \A i : At(own, Stacked(i)) = At(old, Stacked(i))
    BY <1>4, <1>5, <2>1, <2>3, <2>4 DEF At
  <2>8. \A i : At(own, ReportedAs(i)) = At(old, ReportedAs(i))
    BY <1>4, <1>5, <2>1, <2>3, <2>4 DEF At
  <2> QED
    BY <2>5, <2>6, <2>7, <2>8
<1>11. OwnedStack(own)' /\ Owned(own, p, reported)'
  BY <1>1, <1>4, <1>10 DEF OwnedStack, Owned, ReportedAs, p
<1>12. OwnedTask(own)'
  <2>1. CASE f \in gone \cup unreadable
    <3>1. task' = [task EXCEPT !.paths = Tail(@)] /\ At(own, Hashing) = H
      BY <1>2, <1>10, <2>1 DEF to, Dropped, Hashing
    <3>2. task'.sizing = FALSE /\ task'.hashes = task.hashes /\ task'.paths = Tail(task.paths)
      BY <1>1, <1>3, <3>1 DEF Tasks
    <3>3. Rest' = InOrder(At(own, Waiting), p) /\ Paths(task'.hashes) = InOrder(At(own, Hashing), p)
      BY <1>4, <1>5, <1>10, <3>1, <3>2 DEF Rest, OwnedTask, p, H
    <3>4. \A j \in At(own, Hashing) : \A k \in At(own, Waiting) : j < k
      BY <1>4, <1>10, <3>1 DEF OwnedTask, H, W
    <3> QED
      BY <1>1, <3>2, <3>3, <3>4 DEF OwnedTask, p
  <2>2. CASE f \notin gone \cup unreadable
    <3>1. /\ task' = [task EXCEPT !.sizing = TRUE, !.hashes = Append(@, x)]
          /\ At(own, Hashing) = H \cup {m}
      BY <1>2, <1>10, <2>2 DEF to, Dropped, Hashing
    <3>2. /\ task'.sizing = TRUE /\ task'.hashes = Append(task.hashes, x)
          /\ task'.paths = task.paths
      BY <1>3, <3>1 DEF Tasks
    <3>3. Rest' = InOrder(At(own, Waiting), p)
      BY <1>5, <1>10, <3>2 DEF Rest
    <3>4. Paths(task'.hashes) = InOrder(At(own, Hashing), p)
      <4>1. Paths(Append(task.hashes, x)) = Further(Paths(task.hashes), p[m])
        <5> DEFINE n == Len(task.hashes)
                   s == Append(task.hashes, x)
                   q == Paths(task.hashes)
        <5>1. \A y \in Hashed : y.path \in Files
          BY DEF Hashed
        <5>2. /\ q \in Seq(Files) /\ n \in Nat /\ Len(q) = n
              /\ \A k \in 1..n : q[k] = task.hashes[k].path
          BY <1>3, <5>1, PathsTyped
        <5>3. /\ DOMAIN s = 1..(n + 1) /\ s[n + 1] = x /\ \A k \in 1..n : s[k] = task.hashes[k]
          BY <1>3
        <5> HIDE DEF s, q
        <5>4. Paths(s) = [k \in 1..(n + 1) |-> s[k].path]
          BY <5>3 DEF Paths
        <5>5. f \in Files
          BY <1>1, <1>3 DEF f, Tasks
        <5>6. Append(q, f) \in Seq(Files) /\ Len(Append(q, f)) = n + 1
          BY <5>2, <5>5
        <5>7. \A k \in 1..(n + 1) : Append(q, f)[k] = IF k = n + 1 THEN f ELSE q[k]
          BY <5>2, <5>5
        <5>8. \A k \in 1..(n + 1) : Append(q, f)[k] = s[k].path
          <6> TAKE k \in 1..(n + 1)
          <6>1. CASE k = n + 1
            BY <1>3, <5>3, <5>7, <6>1
          <6>2. CASE k # n + 1
            <7>1. k \in 1..n
              BY <5>2, <6>2
            <7> QED
              BY <5>2, <5>3, <5>7, <6>2, <7>1
          <6> QED
            BY <6>1, <6>2
        <5>9. Append(q, f) = [k \in 1..(n + 1) |-> s[k].path]
          <6> DEFINE a == Append(q, f)
          <6> HIDE DEF a
          <6>3. a \in Seq(Files) /\ Len(a) = n + 1
            BY <5>6 DEF a
          <6>1. a = [k \in 1..(n + 1) |-> a[k]]
            BY <6>3
          <6>2. \A k \in 1..(n + 1) : a[k] = s[k].path
            BY <5>8 DEF a
          <6> QED
            BY <6>1, <6>2 DEF a
        <5> QED
          BY <1>5, <5>4, <5>9 DEF Further, s, q
      <4>2. Continues(H, p, m, p)
        <5>1. H \subseteq Nat /\ IsFiniteSet(H) /\ m \in Nat
          BY <1>4, <1>5, AtTyped DEF H
        <5> QED
          BY <1>5, <5>1 DEF Continues
      <4>3. InOrder(H \cup {m}, p) = Further(InOrder(H, p), p[m])
        BY <4>2, InOrderMore
      <4> QED
        BY <1>4, <3>1, <3>2, <4>1, <4>3 DEF OwnedTask, H, p
    <3>5. \A j \in At(own, Hashing) : \A k \in At(own, Waiting) : j < k
      BY <1>4, <1>5, <1>10, <3>1 DEF OwnedTask, H, W
    <3>6. /\ m \in At(own, Hashing) /\ Head(task'.paths) = p[m]
          /\ \A j \in At(own, Hashing) : j <= m
      <4>1. \A j \in H : j \in Nat /\ m \in Nat
        BY <1>4, <1>5, AtTyped DEF H
      <4> QED
        BY <1>5, <3>1, <3>2, <4>1 DEF f
    <3> QED
      BY <1>1, <3>3, <3>4, <3>5, <3>6 DEF OwnedTask, p
  <2> QED
    BY <2>1, <2>2
<1>13. ReadMoves(old, own)
  <2>1. (to = Hashing) <=> f \notin gone \cup unreadable
    BY DEF to, Hashing, Dropped
  <2> QED
    BY <1>10, <2>1 DEF ReadMoves, W, H, m, f
<1> QED
  BY <1>1, <1>6, <1>9, <1>11, <1>12, <1>13 DEF Holds, p

\* The size of the file that was hashed is asked for.
LEMMA SizeHolds ==
    ASSUME BayanTypeOK, file_size, NEW own, Holds(own)
    PROVE  Holds(own)'
<1>1. /\ task.sizing /\ listing' = listing /\ stack' = stack /\ reported' = reported
      /\ task \in Tasks
  BY DEF file_size, scanVars, BayanTypeOK, CompareTypeOK
<1>2. Rest' = Rest /\ task'.hashes = task.hashes /\ (task'.sizing => task' = task)
  <2>1. CASE task' = task
    BY <2>1 DEF Rest
  <2>2. CASE task' = [task EXCEPT !.sizing = FALSE, !.paths = Tail(@),
                          !.any_file_ended = @ \/ Ended(Head(task.paths), task.block)]
    <3>1. task'.sizing = FALSE /\ task'.paths = Tail(task.paths) /\ task'.hashes = task.hashes
      BY <1>1, <2>2 DEF Tasks
    <3> QED
      BY <1>1, <3>1 DEF Rest
  <2> QED
    BY <2>1, <2>2 DEF file_size
<1>3. Places' = Places
  BY <1>1 DEF Places
<1>4. OwnedTask(own)'
  BY <1>1, <1>2 DEF Holds, OwnedTask
<1>5. OwnedStack(own)' /\ Owned(own, Paths(listing), reported)'
  BY <1>1 DEF Holds, OwnedStack, Owned
<1> QED
  BY <1>1, <1>3, <1>4, <1>5 DEF Holds

(***************************************************************************)
(* compare: a position goes where the paths of its hash go.                *)
(***************************************************************************)
HashRank(own, k) == Cardinality({j \in At(own, Hashing) : j <= k})
HashAt(own, k) == task.hashes[HashRank(own, k)].hash

LEMMA HashGroup ==
    ASSUME BayanTypeOK, NEW own, Holds(own)
    PROVE  /\ \A v : WithHash(v) = InOrder({k \in At(own, Hashing) : HashAt(own, k) = v}, Paths(listing))
           /\ Len(task.hashes) = Cardinality(At(own, Hashing))
           /\ \A k \in At(own, Hashing) :
                 /\ HashRank(own, k) \in 1..Len(task.hashes)
                 /\ task.hashes[HashRank(own, k)].path = Paths(listing)[k]
<1> DEFINE H == At(own, Hashing)
           p == Paths(listing)
           list == task.hashes
           n == Len(list)
           T(v) == {r \in DOMAIN list : list[r].hash = v}
<1>1. DOMAIN own = 1..Len(listing) /\ Paths(list) = InOrder(H, p)
  BY DEF Holds, OwnedTask
<1>2. H \subseteq Nat /\ IsFiniteSet(H) /\ Len(InOrder(H, p)) = Cardinality(H)
  BY <1>1, AtTyped
<1>3. list \in Seq(Hashed) /\ \A y \in Hashed : y.path \in Files
  BY DEF BayanTypeOK, CompareTypeOK, Tasks, Hashed
<1>4. /\ n \in Nat /\ DOMAIN list = 1..n /\ Len(Paths(list)) = n
      /\ \A k \in 1..n : Paths(list)[k] = list[k].path
  BY <1>3, PathsTyped
<1>5. n = Cardinality(H)
  BY <1>1, <1>2, <1>4
<1> HIDE DEF H, p
<1>6. ASSUME NEW k \in H
      PROVE  HashRank(own, k) \in 1..n /\ Nth(H, HashRank(own, k)) = k /\ list[HashRank(own, k)].path = p[k]
  <2>1. HashRank(own, k) = Cardinality({j \in H : j <= k})
    BY DEF HashRank, H
  <2>2. HashRank(own, k) \in 1..Cardinality(H) /\ Nth(H, HashRank(own, k)) = k
    BY <1>2, <2>1, RankIs
  <2>3. InOrder(H, p)[HashRank(own, k)] = p[Nth(H, HashRank(own, k))]
    BY <2>2 DEF InOrder
  <2> QED
    BY <1>1, <1>4, <1>5, <2>2, <2>3
<1>7. ASSUME NEW v PROVE WithHash(v) = InOrder({k \in H : HashAt(own, k) = v}, p)
  <2>1. Picks(H, T(v))
    BY <1>2, <1>4, <1>5 DEF Picks
  <2>2. InOrder(T(v), InOrder(H, p)) = InOrder(Chosen(H, T(v)), p)
    BY <2>1, InOrderOf
  <2>3. Chosen(H, T(v)) = {k \in H : HashAt(own, k) = v}
    <3>1. ASSUME NEW r \in T(v) PROVE Nth(H, r) \in H /\ HashAt(own, Nth(H, r)) = v
      <4>1. r \in 1..Cardinality(H) /\ list[r].hash = v
        BY <1>4, <1>5
      <4>2. Nth(H, r) \in H /\ Cardinality({j \in H : j <= Nth(H, r)}) = r
        BY <1>2, <4>1, NthExists
      <4>3. HashRank(own, Nth(H, r)) = r
        BY <4>2 DEF HashRank, H
      <4> QED
        BY <4>1, <4>2, <4>3 DEF HashAt
    <3>2. ASSUME NEW k \in H, HashAt(own, k) = v PROVE \E r \in T(v) : Nth(H, r) = k
      <4>1. HashRank(own, k) \in T(v)
        BY <1>4, <1>6, <3>2 DEF HashAt
      <4> QED
        BY <1>6, <4>1
    <3> HIDE DEF T
    <3> QED
      BY <3>1, <3>2 DEF Chosen
  <2> QED
    BY <1>1, <2>2, <2>3 DEF WithHash
<1> QED
  BY <1>5, <1>6, <1>7 DEF H, p

CompareOwn(own, hashes) ==
    [k \in DOMAIN own |->
        IF own[k] = Hashing
        THEN IF ~Occurs(hashes, HashAt(own, k)) THEN Dropped
             ELSE IF task.any_file_ended
                  THEN ReportedAs(Len(reported) + Index(hashes, HashAt(own, k)))
             ELSE Stacked(Index(hashes, HashAt(own, k)))
        ELSE IF own[k][1] = "stack" /\ ~task.any_file_ended
             THEN Stacked(Cardinality(SharedHashes) + own[k][2])
        ELSE own[k]]

LEMMA SameShift ==
    ASSUME NEW n \in Nat, NEW i \in Nat, NEW j \in Nat
    PROVE  (n + i = n + j) <=> (i = j)
  OBVIOUS

PrintMoves(old, own, hashes) ==
    /\ Len(reported') = Len(reported) + Cardinality(SharedHashes)
    /\ \A i \in 1..Len(reported) : reported'[i] = reported[i]
    /\ At(own, Waiting) = {} /\ At(own, Hashing) = {}
    /\ \A i : At(own, Stacked(i)) = At(old, Stacked(i))
    /\ \A i \in 1..Len(reported) : At(own, ReportedAs(i)) = At(old, ReportedAs(i))
    /\ \A i \in 1..Cardinality(SharedHashes) :
          At(own, ReportedAs(Len(reported) + i)) =
              {k \in At(old, Hashing) : HashAt(old, k) = hashes[i]}

\* groups are printed
LEMMA PrintHolds ==
    ASSUME BayanTypeOK, compare, task.any_file_ended, NEW old, Holds(old),
           NEW hashes \in Orders(SharedHashes), stack' = stack,
           reported' = reported \o [k \in DOMAIN hashes |-> Printed(WithHash(hashes[k]))],
           NEW own, own = CompareOwn(old, hashes)
    PROVE  Holds(own)' /\ PrintMoves(old, own, hashes)
<1> DEFINE n == Len(reported)
           c == Cardinality(SharedHashes)
           p == Paths(listing)
           new == [k \in DOMAIN hashes |-> Printed(WithHash(hashes[k]))]
           H == At(old, Hashing)
<1>1. task.paths = <<>> /\ task' = NoTask /\ listing' = listing
  BY DEF compare, scanVars
<1>2. IsFiniteSet(SharedHashes) /\ c \in Nat /\ DOMAIN hashes = 1..c
  BY HashesFinite, OrdersAre DEF BayanTypeOK
<1>3. /\ old \in [1..Len(listing) -> Places] /\ OwnedStack(old) /\ Owned(old, p, reported)
      /\ At(old, Waiting) = {}
  BY <1>1, NothingAtWork DEF Holds
<1>4. /\ n \in Nat /\ Len(reported') = n + c
      /\ \A i \in 1..n : reported'[i] = reported[i]
      /\ \A i \in 1..c : reported'[n + i] = WithHash(hashes[i])
  <2>1. reported \in Seq(Seq(Files)) /\ \A h : WithHash(h) \in Seq(Files)
    BY WithHashTyped DEF BayanTypeOK, CompareTypeOK
  <2>2. new \in Seq(Seq(Files)) /\ Len(new) = c /\ \A i \in 1..c : new[i] = WithHash(hashes[i])
    <3>1. \A i \in 1..c : /\ Printed(WithHash(hashes[i])) \in Seq(Files)
                          /\ Printed(WithHash(hashes[i])) = WithHash(hashes[i])
      BY <2>1 DEF Printed
    <3>2. new = [i \in 1..c |-> Printed(WithHash(hashes[i]))]
      BY <1>2
    <3> HIDE DEF new, c
    <3> QED
      BY <1>2, <3>1, <3>2
  <2>3. reported' = reported \o new
    OBVIOUS
  <2> HIDE DEF new
  <2> QED
    BY <1>2, <2>1, <2>2, <2>3
<1> HIDE DEF c, new
<1>5. ASSUME NEW k \in 1..Len(listing), old[k] = Hashing
      PROVE  /\ own[k] \in Places' /\ own[k] # Waiting /\ own[k] # Hashing
             /\ \A i \in 1..c : (own[k] = ReportedAs(n + i)) <=> (HashAt(old, k) = hashes[i])
             /\ \A i \in 1..n : own[k] # ReportedAs(i)
             /\ \A i : own[k] # Stacked(i)
  <2> DEFINE h == HashAt(old, k)
             i == Index(hashes, h)
  <2>1. own[k] = IF ~Occurs(hashes, h) THEN Dropped ELSE ReportedAs(n + i)
    BY <1>3, <1>5 DEF CompareOwn
  <2>2. \A j \in 1..c : (Occurs(hashes, h) /\ i = j) <=> (hashes[j] = h)
    BY <1>2, IndexIs DEF c
  <2>3. Occurs(hashes, h) => i \in 1..c
    BY <1>2, IndexTyped DEF c
  <2> HIDE DEF h, i
  <2>4. CASE ~Occurs(hashes, h)
    <3>1. own[k] = Dropped
      BY <2>1, <2>4
    <3> QED
      BY <2>2, <2>4, <3>1 DEF Places, Dropped, Waiting, Hashing, ReportedAs, Stacked, h
  <2>5. CASE Occurs(hashes, h)
    <3>1. own[k] = ReportedAs(n + i) /\ i \in 1..c
      BY <2>1, <2>3, <2>5
    <3>2. n + i \in 1..Len(reported')
      BY <1>2, <1>4, <3>1
    <3>3. own[k] \in Places'
      BY <3>1, <3>2 DEF Places
    <3>4. \A j \in 1..c : (own[k] = ReportedAs(n + j)) <=> (HashAt(old, k) = hashes[j])
      <4>1. \A j \in 1..c : (ReportedAs(n + i) = ReportedAs(n + j)) <=> (i = j)
        <5> TAKE j \in 1..c
        <5>1. (n + i = n + j) <=> (i = j)
          <6>1. n \in Nat /\ i \in Nat /\ j \in Nat
            BY <1>2, <1>4, <3>1
          <6> QED
            BY <6>1, SameShift
        <5>2. (ReportedAs(n + i) = ReportedAs(n + j)) <=> (n + i = n + j)
          BY DEF ReportedAs
        <5> QED
          BY <5>1, <5>2
      <4> QED
        BY <2>2, <2>5, <3>1, <4>1 DEF h
    <3>5. \A j \in 1..n : own[k] # ReportedAs(j)
      BY <1>2, <1>4, <3>1 DEF ReportedAs
    <3> QED
      BY <3>1, <3>3, <3>4, <3>5 DEF Waiting, Hashing, ReportedAs, Stacked
  <2> QED
    BY <2>4, <2>5
<1>6. ASSUME NEW k \in 1..Len(listing), old[k] # Hashing
      PROVE  /\ own[k] = old[k] /\ own[k] \in Places' /\ own[k] # Waiting
             /\ \A i \in 1..c : own[k] # ReportedAs(n + i)
  <2>1. own[k] = old[k] /\ old[k] \in Places /\ own[k] # Waiting
    BY <1>3, <1>6 DEF CompareOwn, At
  <2>2. \A i \in 1..n : i \in 1..(n + c)
    BY <1>2, <1>4
  <2>3. own[k] \in Places'
    BY <1>4, <2>1, <2>2 DEF Places
  <2>4. \A i \in 1..c : own[k] # ReportedAs(n + i)
    <3>1. \A i \in 1..c : \A j \in 1..n : ReportedAs(n + i) # ReportedAs(j)
      BY <1>2, <1>4 DEF ReportedAs
    <3> QED
      BY <2>1, <3>1 DEF Places, Dropped, Waiting, Hashing, ReportedAs, Stacked
  <2> QED
    BY <2>1, <2>3, <2>4
<1>7. own \in [1..Len(listing) -> Places']
  BY <1>3, <1>5, <1>6 DEF CompareOwn
<1>8. /\ At(own, Waiting) = {} /\ At(own, Hashing) = {}
      /\ \A i : At(own, Stacked(i)) = At(old, Stacked(i))
      /\ \A i \in 1..n : At(own, ReportedAs(i)) = At(old, ReportedAs(i))
      /\ \A i \in 1..c : At(own, ReportedAs(n + i)) = {k \in H : HashAt(old, k) = hashes[i]}
  <2>1. \A i : Hashing # Stacked(i) /\ Hashing # ReportedAs(i)
    BY DEF Hashing, Stacked, ReportedAs
  <2>2. At(own, Waiting) = {} /\ At(own, Hashing) = {}
    BY ZenonT(30), <1>5, <1>6, <1>7 DEF At
  <2>6. DOMAIN own = 1..Len(listing) /\ DOMAIN old = 1..Len(listing)
    BY <1>3, <1>7
  <2>3. ASSUME NEW i PROVE At(own, Stacked(i)) = At(old, Stacked(i))
    <3>1. \A k \in 1..Len(listing) : (own[k] = Stacked(i)) <=> (old[k] = Stacked(i))
      BY <1>5, <1>6, <2>1
    <3> QED
      BY <2>6, <3>1, AtSame
  <2>4. ASSUME NEW i \in 1..n PROVE At(own, ReportedAs(i)) = At(old, ReportedAs(i))
    <3>1. \A k \in 1..Len(listing) : (own[k] = ReportedAs(i)) <=> (old[k] = ReportedAs(i))
      BY <1>5, <1>6, <2>1
    <3> QED
      BY <2>6, <3>1, AtSame
  <2>5. \A i \in 1..c : At(own, ReportedAs(n + i)) = {k \in H : HashAt(old, k) = hashes[i]}
    BY <1>3, <1>5, <1>6, <1>7, <2>1 DEF At
  <2> QED
    BY <2>2, <2>3, <2>4, <2>5
<1>9. Owned(own, p, reported)'
  <2>1. ASSUME NEW i \in 1..(n + c)
        PROVE  reported'[i] = InOrder(At(own, ReportedAs(i)), p)
    <3>1. CASE i <= n
      <4>1. i \in 1..n
        BY <1>4, <3>1
      <4> QED
        BY <1>3, <1>4, <1>8, <4>1 DEF Owned, ReportedAs
    <3>2. CASE ~(i <= n)
      <4>1. PICK j \in 1..c : i = n + j
        <5>1. i - n \in 1..c /\ i = n + (i - n)
          BY <1>2, <1>4, <3>2
        <5> QED
          BY <5>1
      <4>2. WithHash(hashes[j]) = InOrder({k \in H : HashAt(old, k) = hashes[j]}, p)
        BY HashGroup
      <4> QED
        BY <1>4, <1>8, <4>1, <4>2
    <3> QED
      BY <3>1, <3>2
  <2> QED
    BY <1>1, <1>4, <2>1 DEF Owned, ReportedAs
<1>10. OwnedStack(own)'
  BY <1>1, <1>3, <1>8 DEF OwnedStack
<1>11. OwnedTask(own)'
  <2>1. Rest' = <<>> /\ Paths(task'.hashes) = <<>> /\ task'.sizing = FALSE
    BY <1>1, NoTaskIs DEF Rest, Paths
  <2> QED
    BY <1>8, <2>1, EmptyOrder DEF OwnedTask
<1>12. PrintMoves(old, own, hashes)
  BY <1>4, <1>8 DEF PrintMoves, c
<1> QED
  BY <1>1, <1>7, <1>9, <1>10, <1>11, <1>12 DEF Holds

DeeperMoves(old, own, hashes) ==
    /\ Len(stack') = Cardinality(SharedHashes) + Len(stack)
    /\ \A i \in 1..Len(stack) : stack'[Cardinality(SharedHashes) + i] = stack[i]
    /\ \A i \in 1..Cardinality(SharedHashes) : stack'[i].block = NextBlock
    /\ At(own, Waiting) = {} /\ At(own, Hashing) = {}
    /\ \A i : At(own, ReportedAs(i)) = At(old, ReportedAs(i))
    /\ \A i \in 1..Len(stack) :
          At(own, Stacked(Cardinality(SharedHashes) + i)) = At(old, Stacked(i))
    /\ \A i \in 1..Cardinality(SharedHashes) :
          At(own, Stacked(i)) = {k \in At(old, Hashing) : HashAt(old, k) = hashes[i]}

\* groups go one block deeper
LEMMA DeeperHolds ==
    ASSUME BayanTypeOK, compare, ~task.any_file_ended, NEW old, Holds(old),
           NEW hashes \in Orders(SharedHashes), reported' = reported,
           stack' = [k \in DOMAIN hashes |->
                        [paths |-> WithHash(hashes[k]), block |-> NextBlock]] \o stack,
           NEW own, own = CompareOwn(old, hashes)
    PROVE  Holds(own)' /\ DeeperMoves(old, own, hashes)
<1> DEFINE n == Len(stack)
           c == Cardinality(SharedHashes)
           p == Paths(listing)
           new == [k \in DOMAIN hashes |-> [paths |-> WithHash(hashes[k]), block |-> NextBlock]]
           H == At(old, Hashing)
<1>1. task.paths = <<>> /\ task' = NoTask /\ listing' = listing
  BY DEF compare, scanVars
<1>2. IsFiniteSet(SharedHashes) /\ c \in Nat /\ DOMAIN hashes = 1..c
  BY HashesFinite, OrdersAre DEF BayanTypeOK
<1>3. /\ old \in [1..Len(listing) -> Places] /\ OwnedStack(old) /\ Owned(old, p, reported)
      /\ At(old, Waiting) = {}
  BY <1>1, NothingAtWork DEF Holds
<1>4. /\ n \in Nat /\ Len(stack') = c + n
      /\ \A i \in 1..n : stack'[c + i] = stack[i]
      /\ \A i \in 1..c : stack'[i].paths = WithHash(hashes[i]) /\ stack'[i].block = NextBlock
  <2>1. stack \in Seq(Groups) /\ NextBlock \in Nat /\ \A h : WithHash(h) \in Seq(Files)
    BY WithHashTyped DEF BayanTypeOK, CompareTypeOK, NextBlock, Tasks
  <2>2. /\ new \in Seq(Groups) /\ Len(new) = c
        /\ \A i \in 1..c : new[i].paths = WithHash(hashes[i]) /\ new[i].block = NextBlock
    <3> DEFINE e(i) == [paths |-> WithHash(hashes[i]), block |-> NextBlock]
    <3>1. \A i \in 1..c : /\ e(i) \in Groups
                          /\ e(i).paths = WithHash(hashes[i]) /\ e(i).block = NextBlock
      BY <2>1 DEF Groups
    <3>2. new = [i \in 1..c |-> e(i)]
      BY <1>2
    <3> HIDE DEF new, c, e
    <3> QED
      BY <1>2, <3>1, <3>2
  <2>3. stack' = new \o stack
    OBVIOUS
  <2> HIDE DEF new
  <2> QED
    BY <1>2, <2>1, <2>2, <2>3
<1> HIDE DEF c, new
<1>5. ASSUME NEW k \in 1..Len(listing), old[k] = Hashing
      PROVE  /\ own[k] \in Places' /\ own[k] # Waiting /\ own[k] # Hashing
             /\ \A i \in 1..c : (own[k] = Stacked(i)) <=> (HashAt(old, k) = hashes[i])
             /\ \A i \in 1..n : own[k] # Stacked(c + i)
             /\ \A i : own[k] # ReportedAs(i)
  <2> DEFINE h == HashAt(old, k)
             i == Index(hashes, h)
  <2>1. own[k] = IF ~Occurs(hashes, h) THEN Dropped ELSE Stacked(i)
    BY <1>3, <1>5 DEF CompareOwn
  <2>2. \A j \in 1..c : (Occurs(hashes, h) /\ i = j) <=> (hashes[j] = h)
    BY <1>2, IndexIs DEF c
  <2>3. Occurs(hashes, h) => i \in 1..c
    BY <1>2, IndexTyped DEF c
  <2> HIDE DEF h, i
  <2>4. CASE ~Occurs(hashes, h)
    <3>1. own[k] = Dropped
      BY <2>1, <2>4
    <3> QED
      BY <2>2, <2>4, <3>1 DEF Places, Dropped, Waiting, Hashing, ReportedAs, Stacked, h
  <2>5. CASE Occurs(hashes, h)
    <3>1. own[k] = Stacked(i) /\ i \in 1..c
      BY <2>1, <2>3, <2>5
    <3>2. i \in 1..Len(stack')
      BY <1>2, <1>4, <3>1
    <3>3. own[k] \in Places'
      BY <3>1, <3>2 DEF Places
    <3>4. \A j \in 1..c : (own[k] = Stacked(j)) <=> (HashAt(old, k) = hashes[j])
      BY <2>2, <2>5, <3>1 DEF h, Stacked
    <3>5. \A j \in 1..n : own[k] # Stacked(c + j)
      BY <1>2, <1>4, <3>1 DEF Stacked
    <3> QED
      BY <3>1, <3>3, <3>4, <3>5 DEF Waiting, Hashing, ReportedAs, Stacked
  <2> QED
    BY <2>4, <2>5
<1>6. ASSUME NEW k \in 1..Len(listing), old[k] # Hashing
      PROVE  /\ own[k] \in Places' /\ own[k] # Waiting /\ own[k] # Hashing
             /\ \A i \in 1..c : own[k] # Stacked(i)
             /\ \A i \in 1..n : (own[k] = Stacked(c + i)) <=> (old[k] = Stacked(i))
             /\ \A i : (own[k] = ReportedAs(i)) <=> (old[k] = ReportedAs(i))
  <2>1. /\ own[k] = IF old[k][1] = "stack" THEN Stacked(c + old[k][2]) ELSE old[k]
        /\ old[k] \in Places /\ old[k] # Waiting
    BY <1>3, <1>6 DEF CompareOwn, At, c
  <2>2. CASE \E i \in 1..n : old[k] = Stacked(i)
    <3>1. PICK i \in 1..n : old[k] = Stacked(i)
      BY <2>2
    <3>2. own[k] = Stacked(c + i)
      BY <2>1, <3>1 DEF Stacked
    <3>3. c + i \in 1..Len(stack')
      BY <1>2, <1>4
    <3>4. own[k] \in Places'
      BY <3>2, <3>3 DEF Places
    <3>5. \A j \in 1..c : own[k] # Stacked(j)
      BY <1>2, <1>4, <3>2 DEF Stacked
    <3>6. \A j \in 1..n : (own[k] = Stacked(c + j)) <=> (old[k] = Stacked(j))
      <4> TAKE j \in 1..n
      <4>1. (c + i = c + j) <=> (i = j)
        <5>1. c \in Nat /\ i \in Nat /\ j \in Nat
          BY <1>2, <1>4
        <5> QED
          BY <5>1, SameShift
      <4> QED
        BY <3>1, <3>2, <4>1 DEF Stacked
    <3> QED
      BY <3>1, <3>2, <3>4, <3>5, <3>6 DEF Waiting, Hashing, ReportedAs, Stacked
  <2>3. CASE ~\E i \in 1..n : old[k] = Stacked(i)
    <3>1. \/ old[k] = Dropped
          \/ \E i \in 1..Len(reported) : old[k] = ReportedAs(i)
      BY <1>6, <2>1, <2>3 DEF Places
    <3>2. own[k] = old[k]
      BY <2>1, <3>1 DEF Dropped, ReportedAs
    <3>3. own[k] \in Places'
      BY <3>1, <3>2 DEF Places
    <3>4. \A i : own[k] # Stacked(i) /\ old[k] # Stacked(i)
      BY <3>1, <3>2 DEF Dropped, ReportedAs, Stacked
    <3> QED
      BY <1>6, <2>1, <3>2, <3>3, <3>4
  <2> QED
    BY <2>2, <2>3
<1>7. own \in [1..Len(listing) -> Places']
  BY <1>3, <1>5, <1>6 DEF CompareOwn
<1>8. /\ At(own, Waiting) = {} /\ At(own, Hashing) = {}
      /\ \A i : At(own, ReportedAs(i)) = At(old, ReportedAs(i))
      /\ \A i \in 1..n : At(own, Stacked(c + i)) = At(old, Stacked(i))
      /\ \A i \in 1..c : At(own, Stacked(i)) = {k \in H : HashAt(old, k) = hashes[i]}
  <2>1. \A i : Hashing # Stacked(i) /\ Hashing # ReportedAs(i)
    BY DEF Hashing, Stacked, ReportedAs
  <2>2. At(own, Waiting) = {} /\ At(own, Hashing) = {}
    BY <1>5, <1>6, <1>7 DEF At
  <2>6. DOMAIN own = 1..Len(listing) /\ DOMAIN old = 1..Len(listing)
    BY <1>3, <1>7
  <2>3. ASSUME NEW i PROVE At(own, ReportedAs(i)) = At(old, ReportedAs(i))
    <3>1. \A k \in 1..Len(listing) : (own[k] = ReportedAs(i)) <=> (old[k] = ReportedAs(i))
      BY <1>5, <1>6, <2>1
    <3> QED
      BY <2>6, <3>1, AtSame
  <2>4. ASSUME NEW i \in 1..n PROVE At(own, Stacked(c + i)) = At(old, Stacked(i))
    <3>1. \A k \in 1..Len(listing) : (own[k] = Stacked(c + i)) <=> (old[k] = Stacked(i))
      BY <1>5, <1>6, <2>1
    <3> QED
      BY <2>6, <3>1, AtSame
  <2>5. \A i \in 1..c : At(own, Stacked(i)) = {k \in H : HashAt(old, k) = hashes[i]}
    BY <1>3, <1>5, <1>6, <1>7, <2>1 DEF At
  <2> QED
    BY <2>2, <2>3, <2>4, <2>5
<1>9. OwnedStack(own)'
  <2>1. ASSUME NEW i \in 1..(c + n)
        PROVE  stack'[i].paths = InOrder(At(own, Stacked(i)), p)
    <3>1. CASE i <= c
      <4>1. i \in 1..c
        BY <1>2, <3>1
      <4>2. WithHash(hashes[i]) = InOrder({k \in H : HashAt(old, k) = hashes[i]}, p)
        BY HashGroup
      <4> QED
        BY <1>4, <1>8, <4>1, <4>2
    <3>2. CASE ~(i <= c)
      <4>1. PICK j \in 1..n : i = c + j
        <5>1. i - c \in 1..n /\ i = c + (i - c)
          BY <1>2, <1>4, <3>2
        <5> QED
          BY <5>1
      <4>2. stack[j].paths = InOrder(At(old, Stacked(j)), p)
        BY <1>3 DEF OwnedStack
      <4> QED
        BY <1>4, <1>8, <4>1, <4>2
    <3> QED
      BY <3>1, <3>2
  <2> QED
    BY <1>1, <1>4, <2>1 DEF OwnedStack
<1>10. Owned(own, p, reported)'
  BY <1>1, <1>3, <1>8 DEF Owned, ReportedAs
<1>11. OwnedTask(own)'
  <2>1. Rest' = <<>> /\ Paths(task'.hashes) = <<>> /\ task'.sizing = FALSE
    BY <1>1, NoTaskIs DEF Rest, Paths
  <2> QED
    BY <1>8, <2>1, EmptyOrder DEF OwnedTask
<1>12. DeeperMoves(old, own, hashes)
  BY <1>4, <1>8 DEF DeeperMoves, c
<1> QED
  BY <1>1, <1>7, <1>9, <1>10, <1>11, <1>12 DEF Holds

-----------------------------------------------------------------------------
(***************************************************************************)
(* As long as no file changes, groups are also what they should be: files  *)
(* that look alike stay together, what was printed together looks alike,   *)
(* and what goes on together does so far, and has a block to read.         *)
(***************************************************************************)
PathAt(k) == Paths(listing)[k]
CanRead == {k \in 1..Len(listing) : PathAt(k) \notin unreadable}
Matching(j, k) == LookAlike(PathAt(j), PathAt(k))

\* block b is read of files like g, and those before it look alike
SoFar(f, g, b) ==
    /\ Len(content[f]) = Len(content[g])
    /\ b = 0 \/ ~Ended(g, b - 1)
    /\ \A c \in Nat : c < b => calculate_crc32(f, c) = calculate_crc32(g, c)

AtWork(own) == At(own, Waiting) \cup At(own, Hashing)

\* j and k are at the same place, where their group goes on
Together(own, j, k) ==
    \/ j \in AtWork(own) /\ k \in AtWork(own)
    \/ \E i \in 1..Len(stack) : j \in At(own, Stacked(i)) /\ k \in At(own, Stacked(i))
    \/ \E i \in 1..Len(reported) : j \in At(own, ReportedAs(i)) /\ k \in At(own, ReportedAs(i))

KeptTogether(own) ==
    \A j, k \in CanRead : j # k /\ Matching(j, k) => Together(own, j, k)

PrintedSame(own) ==
    \A i \in 1..Len(reported) :
        /\ Cardinality(At(own, ReportedAs(i))) >= 2
        /\ \A j, k \in At(own, ReportedAs(i)) : k \in CanRead /\ Matching(j, k)

StackSame(own) ==
    \A i \in 1..Len(stack) :
        \A j, k \in At(own, Stacked(i)) : SoFar(PathAt(j), PathAt(k), stack[i].block)

TaskSame(own) ==
    \A j, k \in AtWork(own) : SoFar(PathAt(j), PathAt(k), task.block)

HashesRight(own) ==
    /\ At(own, Hashing) \subseteq CanRead
    /\ \A r \in 1..Len(task.hashes) :
          task.hashes[r].hash = calculate_crc32(task.hashes[r].path, task.block)

EndRight(own) ==
    /\ task.any_file_ended => \A k \in AtWork(own) : Ended(PathAt(k), task.block)
    /\ ~task.sizing =>
          \A k \in At(own, Hashing) : Ended(PathAt(k), task.block) => task.any_file_ended

Exact(own) ==
    changes = 0 => /\ KeptTogether(own)
                   /\ PrintedSame(own)
                   /\ StackSame(own)
                   /\ TaskSame(own)
                   /\ HashesRight(own)
                   /\ EndRight(own)

BayanInv ==
    \E own : Holds(own) /\ (phase \in {"compare", "done"} => Exact(own))

LEMMA PathAtTyped ==
    ASSUME BayanTypeOK, NEW k \in 1..Len(listing)
    PROVE  PathAt(k) \in Files /\ PathAt(k) = listing[k].path
<1>1. \A x \in Found : x.path \in Files
  BY DEF Found
<1> QED
  BY <1>1, PathsTyped DEF BayanTypeOK, WalkTypeOK, PathAt

LEMMA BlockSize ==
    ASSUME BayanTypeOK, NEW b \in Nat
    PROVE  /\ settings.block_size \in Nat \ {0} /\ b * settings.block_size \in Nat
           /\ b <= b * settings.block_size
           /\ \A c \in Nat : c < b => (c + 1) * settings.block_size <= b * settings.block_size
<1> DEFINE n == settings.block_size
<1>1. n \in Nat \ {0}
  BY SettingsTyped DEF BayanTypeOK, WalkTypeOK
<1> HIDE DEF n
<1>2. ASSUME NEW x \in Nat, NEW y \in Nat, x <= y
      PROVE  x * n <= y * n
  <2> DEFINE d == y - x
  <2>1. d \in Nat /\ y = x + d
    BY <1>2
  <2> HIDE DEF d
  <2>2. (x + d) * n = x * n + d * n /\ x * n \in Nat /\ d * n \in Nat
    BY <1>1, <2>1
  <2> QED
    BY <2>1, <2>2
<1>3. b * n \in Nat /\ b <= b * n
  <2> DEFINE m == n - 1
  <2>1. m \in Nat /\ n = 1 + m
    BY <1>1
  <2> HIDE DEF m
  <2>2. b * (1 + m) = b + b * m /\ b * m \in Nat
    BY <2>1
  <2> QED
    BY <2>1, <2>2
<1>4. \A c \in Nat : c < b => (c + 1) * n <= b * n
  <2> TAKE c \in Nat
  <2> HAVE c < b
  <2>1. c + 1 \in Nat /\ c + 1 <= b
    OBVIOUS
  <2> QED
    BY <1>2, <2>1
<1> QED
  BY <1>1, <1>3, <1>4 DEF n

\* Block c comes before block b of a file: it is not its last.
LEMMA EndedLater ==
    ASSUME BayanTypeOK, NEW g \in Files, NEW b \in Nat, NEW c \in Nat, c < b, Ended(g, c)
    PROVE  Len(content[g]) <= b * settings.block_size
<1> DEFINE x == (c + 1) * settings.block_size
           y == b * settings.block_size
           l == Len(content[g])
<1>1. x <= y /\ x \in Nat /\ y \in Nat
  <2>1. c + 1 \in Nat
    OBVIOUS
  <2> QED
    BY <2>1, BlockSize
<1>2. x >= l /\ l \in Nat
  BY ContentTyped DEF Ended, BayanTypeOK
<1> HIDE DEF x, y, l
<1>3. l <= y
  BY <1>1, <1>2
<1> QED
  BY <1>3 DEF y, l

\* With the next block alike, a file agrees that far with another.
LEMMA BlockMore ==
    ASSUME BayanTypeOK, NEW f \in Files, NEW g \in Files, NEW b \in Nat, SoFar(f, g, b),
           calculate_crc32(f, b) = calculate_crc32(g, b), ~Ended(g, b)
    PROVE  SoFar(f, g, b + 1)
<1>1. \A c \in Nat : c < b + 1 => c < b \/ c = b
  OBVIOUS
<1>2. (b + 1) - 1 = b
  OBVIOUS
<1> QED
  BY <1>1, <1>2 DEF SoFar

LEMMA BlockLast ==
    ASSUME BayanTypeOK, NEW f \in Files, NEW g \in Files, NEW b \in Nat, SoFar(f, g, b),
           calculate_crc32(f, b) = calculate_crc32(g, b), Ended(g, b)
    PROVE  LookAlike(f, g)
<1>1. Len(content[f]) = Len(content[g]) /\ Len(content[g]) \in Nat
  BY ContentTyped DEF SoFar, BayanTypeOK
<1>2. ASSUME NEW c \in BlocksRead(f)
      PROVE  calculate_crc32(f, c) = calculate_crc32(g, c)
  <2>1. c \in Nat /\ (c = 0 \/ c * settings.block_size < Len(content[g]))
    BY <1>1 DEF BlocksRead
  <2>2. c <= b
    <3> SUFFICES ASSUME b < c PROVE FALSE
      BY <2>1
    <3> DEFINE y == c * settings.block_size
               l == Len(content[g])
    <3>1. l <= y /\ y \in Nat /\ l \in Nat
      BY <1>1, <2>1, EndedLater, BlockSize
    <3>2. c = 0 \/ y < l
      BY <2>1
    <3> HIDE DEF y, l
    <3> QED
      BY <2>1, <3>1, <3>2
  <2> QED
    BY <2>1, <2>2 DEF SoFar
<1> QED
  BY <1>1, <1>2 DEF LookAlike, calculate_crc32

\* The block that is read next is one of those compared in the end.
LEMMA BlockCounts ==
    ASSUME BayanTypeOK, NEW f \in Files, NEW g \in Files, NEW b \in Nat, SoFar(g, g, b),
           LookAlike(f, g)
    PROVE  calculate_crc32(f, b) = calculate_crc32(g, b)
<1> DEFINE l == Len(content[g])
           y == b * settings.block_size
<1>1. l \in Nat /\ Len(content[f]) = l
  BY ContentTyped DEF LookAlike, BayanTypeOK
<1>2. y \in Nat /\ b <= y
  BY BlockSize
<1>3. b = 0 \/ y < l
  <2>1. ASSUME b # 0 PROVE y < l
    <3>1. ~Ended(g, b - 1) /\ (b - 1) + 1 = b
      BY <2>1 DEF SoFar
    <3>2. ~(y >= l)
      BY <3>1 DEF Ended
    <3> QED
      BY <1>1, <1>2, <3>2
  <2> QED
    BY <2>1
<1> HIDE DEF l, y
<1>4. b \in 0..l
  BY <1>1, <1>2, <1>3
<1>5. b \in BlocksRead(f)
  BY <1>1, <1>3, <1>4 DEF BlocksRead, l, y
<1> QED
  BY <1>5 DEF LookAlike, calculate_crc32

\* A set with two elements has at least two; one with two has two.
LEMMA TwoOf ==
    ASSUME NEW S, IsFiniteSet(S)
    PROVE  /\ \A j, k \in S : j # k => Cardinality(S) >= 2
           /\ Cardinality(S) >= 2 => \E j, k \in S : j # k
<1>1. Cardinality(S) \in Nat
  BY FS_CardinalityType
<1>2. ASSUME NEW j \in S, NEW k \in S, j # k PROVE Cardinality(S) >= 2
  <2>1. {j} \in SUBSET S /\ S # {j} /\ Cardinality({j}) = 1
    BY <1>2, FS_Singleton
  <2>2. Cardinality({j}) <= Cardinality(S) /\ Cardinality({j}) # Cardinality(S)
    BY <2>1, FS_Subset
  <2> QED
    BY <1>1, <2>1, <2>2
<1>3. ASSUME Cardinality(S) >= 2 PROVE \E j, k \in S : j # k
  <2>1. S # {}
    BY <1>1, <1>3, FS_EmptySet
  <2>2. PICK j \in S : TRUE
    BY <2>1
  <2>3. S # {j}
    BY <1>1, <1>3, FS_Singleton
  <2> QED
    BY <2>2, <2>3
<1> QED
  BY <1>2, <1>3

\* What a step that changes no file leaves as it was.
LEMMA Steady ==
    ASSUME listing' = listing, unreadable' = unreadable, content' = content, settings' = settings
    PROVE  /\ CanRead' = CanRead
           /\ \A k : PathAt(k)' = PathAt(k)
           /\ \A j, k : Matching(j, k)' <=> Matching(j, k)
           /\ \A f, g, b : SoFar(f, g, b)' <=> SoFar(f, g, b)
           /\ \A f, b : calculate_crc32(f, b)' = calculate_crc32(f, b)
           /\ \A f, b : Ended(f, b)' <=> Ended(f, b)
<1>1. \A k : PathAt(k)' = PathAt(k)
  BY DEF PathAt
<1>2. CanRead' = CanRead
  BY <1>1 DEF CanRead
<1>3. \A f, b : BlockOf(f, b)' = BlockOf(f, b)
  BY DEF BlockOf
<1>4. \A f, b : calculate_crc32(f, b)' = calculate_crc32(f, b)
  BY <1>3 DEF calculate_crc32
<1>5. \A f, b : Ended(f, b)' <=> Ended(f, b)
  BY DEF Ended
<1>6. \A f, g, b : SoFar(f, g, b)' <=> SoFar(f, g, b)
  BY <1>4, <1>5 DEF SoFar
<1>7. \A f, g : LookAlike(f, g)' <=> LookAlike(f, g)
  BY <1>3 DEF LookAlike, BlocksRead
<1>8. \A j, k : Matching(j, k)' <=> Matching(j, k)
  BY <1>1, <1>7 DEF Matching
<1> QED
  BY <1>1, <1>2, <1>4, <1>5, <1>6, <1>8

\* Two files that look alike have the same size.
LEMMA RunExact ==
    ASSUME BayanTypeOK, run, NEW sizes \in Orders(ShownSizes),
           stack' = [k \in DOMAIN sizes |-> [paths |-> OfSize(sizes[k]), block |-> 0]],
           NEW own, own = RunOwn(sizes), RunMoves(own, sizes)
    PROVE  Exact(own)'
<1> SUFFICES ASSUME changes' = 0
             PROVE  /\ KeptTogether(own)' /\ PrintedSame(own)' /\ StackSame(own)'
                    /\ TaskSame(own)' /\ HashesRight(own)' /\ EndRight(own)'
  BY DEF Exact
<1> DEFINE n == Cardinality(ShownSizes)
           sized(v) == {k \in DOMAIN listing : listing[k].size = v}
<1>1. /\ listing' = listing /\ unreadable' = unreadable /\ content' = content
      /\ settings' = settings /\ changes = 0 /\ task' = NoTask /\ reported' = <<>>
      /\ task = NoTask /\ DOMAIN listing = 1..Len(listing)
  BY DEF run, env, scanVars, BayanTypeOK, PhaseOK, WalkTypeOK
<1>2. IsFiniteSet(ShownSizes)
  BY SizesFinite DEF BayanTypeOK, ShownSizes
<1>3. n \in Nat /\ DOMAIN sizes = 1..n /\ \A v \in ShownSizes : \E i \in 1..n : sizes[i] = v
  BY <1>2, OrdersAre
<1>4. Len(stack') = n /\ \A i \in 1..n : stack'[i].block = 0
  BY <1>3
<1>5. \A i \in 1..n : At(own, Stacked(i)) = sized(sizes[i])
  BY DEF RunMoves
<1>6. AtWork(own) = {} /\ At(own, Hashing) = {}
  BY DEF RunMoves, AtWork
<1>7. ASSUME NEW k \in 1..Len(listing)
      PROVE  PathAt(k) \in Files /\ listing[k].size = Len(content[PathAt(k)])
  BY <1>1, PathAtTyped DEF BayanTypeOK, PhaseOK
<1>8. ASSUME NEW j \in CanRead, NEW k \in CanRead, j # k, Matching(j, k)
      PROVE  Together(own, j, k)'
  <2> DEFINE v == listing[k].size
             S == sized(v)
  <2>1. j \in 1..Len(listing) /\ k \in 1..Len(listing) /\ listing[j].size = v
    BY <1>7, <1>8 DEF CanRead, Matching, LookAlike
  <2>2. j \in S /\ k \in S
    BY <1>1, <2>1
  <2>3. S \subseteq 1..Len(Paths(listing)) /\ Paths(listing) \in Seq(Files)
    <3>1. \A x \in Found : x.path \in Files
      BY DEF Found
    <3> QED
      BY <1>1, <3>1, PathsTyped DEF BayanTypeOK, WalkTypeOK
  <2>4. OfSize(v) = InOrder(S, Paths(listing))
    BY DEF OfSize
  <2>5. v \in FileSizes
    BY <1>1, <2>1 DEF FileSizes, ToSet
  <2> HIDE DEF S, v
  <2>6. IsFiniteSet(S) /\ Len(InOrder(S, Paths(listing))) = Cardinality(S)
    BY <2>3, PartTyped
  <2>7. Cardinality(S) >= 2
    BY <1>8, <2>2, <2>6, TwoOf
  <2>8. v \in ShownSizes
    BY <2>4, <2>5, <2>6, <2>7 DEF ShownSizes
  <2>9. PICK i \in 1..n : sizes[i] = v
    BY <1>3, <2>8
  <2>10. j \in At(own, Stacked(i)) /\ k \in At(own, Stacked(i)) /\ i \in 1..Len(stack')
    BY <1>4, <1>5, <2>2, <2>9 DEF S
  <2> QED
    BY <2>10 DEF Together
<1>9. KeptTogether(own)'
  BY <1>1, <1>8, Steady DEF KeptTogether
<1>10. PrintedSame(own)'
  BY <1>1 DEF PrintedSame
<1>11. StackSame(own)'
  <2>1. ASSUME NEW i \in 1..n, NEW j \in At(own, Stacked(i)), NEW k \in At(own, Stacked(i))
        PROVE  SoFar(PathAt(j), PathAt(k), 0)
    <3>1. /\ j \in 1..Len(listing) /\ k \in 1..Len(listing)
          /\ listing[j].size = listing[k].size
      BY <1>1, <1>5, <2>1
    <3>2. Len(content[PathAt(j)]) = Len(content[PathAt(k)])
      BY <1>7, <3>1
    <3> QED
      BY <3>2 DEF SoFar
  <2> QED
    BY <1>1, <1>4, <2>1, Steady DEF StackSame
<1>12. TaskSame(own)'
  BY <1>6 DEF TaskSame, AtWork
<1>13. HashesRight(own)'
  <2>1. Len(task'.hashes) = 0
    BY <1>1, NoTaskIs
  <2> QED
    BY <1>6, <2>1 DEF HashesRight
<1>14. EndRight(own)'
  BY <1>6 DEF EndRight, AtWork
<1> QED
  BY <1>9, <1>10, <1>11, <1>12, <1>13, <1>14

LEMMA CheckExact ==
    ASSUME BayanTypeOK, check_blocks, NEW old, Holds(old), Exact(old), NEW own,
           CheckMoves(old, own)
    PROVE  Exact(own)'
<1> SUFFICES ASSUME changes' = 0
             PROVE  /\ KeptTogether(own)' /\ PrintedSame(own)' /\ StackSame(own)'
                    /\ TaskSame(own)' /\ HashesRight(own)' /\ EndRight(own)'
  BY DEF Exact
<1> DEFINE n == Len(stack)
<1>1. /\ task = NoTask /\ stack # <<>> /\ stack' = Tail(stack) /\ reported' = reported
      /\ task' = [NoTask EXCEPT !.paths = Head(stack).paths, !.block = Head(stack).block]
      /\ listing' = listing /\ unreadable' = unreadable /\ content' = content
      /\ settings' = settings /\ changes = 0
  BY DEF check_blocks, env, scanVars
<1>2. stack \in Seq(Groups) /\ n \in Nat /\ n # 0 /\ Head(stack) = stack[1] /\ Head(stack) \in Groups
  BY <1>1 DEF BayanTypeOK, CompareTypeOK
<1>3. Len(stack') = n - 1 /\ \A i \in 1..(n - 1) : stack'[i] = stack[i + 1]
  BY <1>1, <1>2
<1>4. task'.block = stack[1].block /\ task'.any_file_ended = FALSE /\ Len(task'.hashes) = 0
  <2>1. task'.block = Head(stack).block /\ task'.any_file_ended = FALSE /\ task'.hashes = <<>>
    BY <1>1, <1>2, FreshTask
  <2> QED
    BY <1>2, <2>1
<1>5. KeptTogether(old) /\ PrintedSame(old) /\ StackSame(old)
  BY <1>1 DEF Exact
<1>6. AtWork(old) = {}
  BY <1>1, NothingAtWork, NoTaskIs DEF AtWork
<1>7. /\ AtWork(own) = At(old, Stacked(1)) /\ At(own, Hashing) = {}
      /\ \A i \in 1..(n - 1) : At(own, Stacked(i)) = At(old, Stacked(i + 1))
      /\ \A i : At(own, ReportedAs(i)) = At(old, ReportedAs(i))
  BY DEF CheckMoves, AtWork
<1>8. ASSUME NEW j, NEW k, Together(old, j, k)
      PROVE  Together(own, j, k)'
  <2>1. CASE \E i \in 1..n : j \in At(old, Stacked(i)) /\ k \in At(old, Stacked(i))
    <3>1. PICK i \in 1..n : j \in At(old, Stacked(i)) /\ k \in At(old, Stacked(i))
      BY <2>1
    <3>2. CASE i = 1
      BY <1>7, <3>1, <3>2 DEF Together, AtWork
    <3>3. CASE i # 1
      <4> DEFINE l == i - 1
      <4>1. l \in 1..(n - 1) /\ l + 1 = i
        BY <1>2, <3>3
      <4> HIDE DEF l
      <4>2. j \in At(own, Stacked(l)) /\ k \in At(own, Stacked(l)) /\ l \in 1..Len(stack')
        BY <1>3, <1>7, <3>1, <4>1
      <4> QED
        BY <4>2 DEF Together
    <3> QED
      BY <3>2, <3>3
  <2>2. CASE \E i \in 1..Len(reported) : j \in At(old, ReportedAs(i)) /\ k \in At(old, ReportedAs(i))
    BY <1>1, <1>7, <2>2 DEF Together
  <2> QED
    BY <1>6, <1>8, <2>1, <2>2 DEF Together
<1>9. KeptTogether(own)'
  BY <1>1, <1>5, <1>8, Steady DEF KeptTogether
<1>10. PrintedSame(own)'
  BY <1>1, <1>5, <1>7, Steady DEF PrintedSame
<1>11. StackSame(own)'
  <2>1. ASSUME NEW i \in 1..(n - 1), NEW j \in At(own, Stacked(i)), NEW k \in At(own, Stacked(i))
        PROVE  SoFar(PathAt(j), PathAt(k), stack'[i].block)
    <3>1. i + 1 \in 1..n
      BY <1>2
    <3> QED
      BY <1>3, <1>5, <1>7, <3>1 DEF StackSame
  <2> QED
    BY <1>1, <1>3, <2>1, Steady DEF StackSame
<1>12. TaskSame(own)'
  <2>1. 1 \in 1..n
    BY <1>2
  <2>2. \A j, k \in AtWork(own) : SoFar(PathAt(j), PathAt(k), task'.block)
    BY <1>4, <1>5, <1>7, <2>1 DEF StackSame
  <2> QED
    BY <1>1, <2>2, Steady DEF TaskSame, AtWork
<1>13. HashesRight(own)'
  BY <1>4, <1>7 DEF HashesRight
<1>14. EndRight(own)'
  BY <1>4, <1>7 DEF EndRight
<1> QED
  BY <1>9, <1>10, <1>11, <1>12, <1>13, <1>14

\* Positions at work have files of the same size, which end together.
LEMMA EndTogether ==
    ASSUME NEW f, NEW g, NEW b, NEW c, SoFar(f, g, c)
    PROVE  Ended(f, b) <=> Ended(g, b)
  BY DEF SoFar, Ended

LEMMA SizeExact ==
    ASSUME BayanTypeOK, file_size, NEW own, Holds(own), Exact(own)
    PROVE  Exact(own)'
<1> SUFFICES ASSUME changes' = 0
             PROVE  /\ KeptTogether(own)' /\ PrintedSame(own)' /\ StackSame(own)'
                    /\ TaskSame(own)' /\ HashesRight(own)' /\ EndRight(own)'
  BY DEF Exact
<1> DEFINE f == Head(task.paths)
<1>1. /\ task.sizing /\ stack' = stack /\ reported' = reported
      /\ listing' = listing /\ unreadable' = unreadable /\ content' = content
      /\ settings' = settings /\ changes = 0 /\ task \in Tasks
  BY DEF file_size, env, scanVars, BayanTypeOK, CompareTypeOK
<1>2. /\ KeptTogether(own) /\ PrintedSame(own) /\ StackSame(own)
      /\ TaskSame(own) /\ HashesRight(own) /\ EndRight(own)
  BY <1>1 DEF Exact
<1>3. \/ task' = task
      \/ /\ task'.sizing = FALSE /\ task'.hashes = task.hashes /\ task'.block = task.block
         /\ task'.any_file_ended = (task.any_file_ended \/ Ended(f, task.block))
  BY <1>1 DEF file_size, Tasks
<1>4. task'.hashes = task.hashes /\ task'.block = task.block
  BY <1>3
<1>5. PICK m \in At(own, Hashing) : f = PathAt(m)
  BY <1>1 DEF Holds, OwnedTask, PathAt
<1>6. KeptTogether(own)' /\ PrintedSame(own)' /\ StackSame(own)'
  <2>1. \A j, k : Together(own, j, k)' <=> Together(own, j, k)
    BY <1>1 DEF Together, AtWork
  <2> QED
    BY <1>1, <1>2, <2>1, Steady DEF KeptTogether, PrintedSame, StackSame
<1>7. TaskSame(own)' /\ HashesRight(own)'
  BY <1>1, <1>2, <1>4, Steady DEF TaskSame, HashesRight, AtWork
<1>8. \A k \in AtWork(own) : Ended(f, task.block) <=> Ended(PathAt(k), task.block)
  BY <1>2, <1>5, EndTogether DEF TaskSame, AtWork
<1>9. EndRight(own)'
  <2>1. /\ task.any_file_ended => \A k \in AtWork(own) : Ended(PathAt(k), task.block)
        /\ ~task.sizing =>
              \A k \in At(own, Hashing) : Ended(PathAt(k), task.block) => task.any_file_ended
    BY <1>2 DEF EndRight
  <2> HIDE DEF f
  <2>2. /\ task'.any_file_ended => \A k \in AtWork(own) : Ended(PathAt(k), task.block)
        /\ ~task'.sizing =>
              \A k \in At(own, Hashing) : Ended(PathAt(k), task.block) => task'.any_file_ended
    <3>1. CASE task' = task
      BY <2>1, <3>1
    <3>2. CASE /\ task'.sizing = FALSE
               /\ task'.any_file_ended = (task.any_file_ended \/ Ended(f, task.block))
      BY <1>8, <2>1, <3>2 DEF AtWork
    <3> QED
      BY <1>3, <3>1, <3>2
  <2> QED
    BY <1>1, <1>4, <2>2, Steady DEF EndRight, AtWork
<1> QED
  BY <1>6, <1>7, <1>9

LEMMA ReadExact ==
    ASSUME BayanTypeOK, read_block, NEW old, Holds(old), Exact(old), NEW own,
           ReadMoves(old, own)
    PROVE  Exact(own)'
<1> SUFFICES ASSUME changes' = 0
             PROVE  /\ KeptTogether(own)' /\ PrintedSame(own)' /\ StackSame(own)'
                    /\ TaskSame(own)' /\ HashesRight(own)' /\ EndRight(own)'
  BY DEF Exact
<1> DEFINE f == Head(task.paths)
           x == [path |-> f, hash |-> calculate_crc32(f, task.block)]
           m == Nth(At(old, Waiting), 1)
           n == Len(task.hashes)
<1>1. /\ task.paths # <<>> /\ task.sizing = FALSE /\ stack' = stack /\ reported' = reported
      /\ listing' = listing /\ unreadable' = unreadable /\ content' = content
      /\ settings' = settings /\ changes = 0 /\ task \in Tasks /\ gone = {}
  BY DEF read_block, env, scanVars, BayanTypeOK, CompareTypeOK, PhaseOK, Tasks
<1>2. /\ KeptTogether(old) /\ PrintedSame(old) /\ StackSame(old)
      /\ TaskSame(old) /\ HashesRight(old) /\ EndRight(old)
  BY <1>1 DEF Exact
<1>3. task' = IF f \in unreadable THEN [task EXCEPT !.paths = Tail(@)]
              ELSE [task EXCEPT !.sizing = TRUE, !.hashes = Append(@, x)]
  BY <1>1 DEF read_block
<1>4. /\ m \in At(old, Waiting) /\ m \in 1..Len(listing) /\ m \notin At(old, Hashing)
      /\ f = PathAt(m)
  <2>1. /\ m \in At(old, Waiting) /\ m \in 1..Len(listing) /\ old[m] = Waiting
        /\ f = Paths(listing)[m]
    BY <1>1, NextWaiting
  <2>2. Waiting # Hashing
    BY DEF Waiting, Hashing
  <2> HIDE DEF m, f
  <2> QED
    BY <2>1, <2>2 DEF At, PathAt
<1>5. /\ At(own, Hashing) = IF f \in unreadable THEN At(old, Hashing) ELSE At(old, Hashing) \cup {m}
      /\ At(own, Waiting) = At(old, Waiting) \ {m}
      /\ \A i : At(own, Stacked(i)) = At(old, Stacked(i))
      /\ \A i : At(own, ReportedAs(i)) = At(old, ReportedAs(i))
  BY <1>1 DEF ReadMoves
<1>6. AtWork(own) = IF f \in unreadable THEN AtWork(old) \ {m} ELSE AtWork(old)
  BY <1>4, <1>5 DEF AtWork
<1>7. task'.block = task.block /\ task'.any_file_ended = task.any_file_ended
  BY <1>1, <1>3 DEF Tasks
<1> HIDE DEF m, f
<1>8. m \in CanRead <=> f \notin unreadable
  BY <1>4 DEF CanRead
<1>9. \A j, k \in CanRead : Together(old, j, k) => Together(own, j, k)'
  BY <1>1, <1>5, <1>6, <1>8 DEF Together, AtWork
<1>10. KeptTogether(own)'
  BY <1>1, <1>2, <1>9, Steady DEF KeptTogether
<1>11. PrintedSame(own)' /\ StackSame(own)'
  BY <1>1, <1>2, <1>5, Steady DEF PrintedSame, StackSame
<1>12. TaskSame(own)'
  <2>1. \A j, k \in AtWork(own) : SoFar(PathAt(j), PathAt(k), task.block)
    BY <1>2, <1>6 DEF TaskSame
  <2> QED
    BY <1>1, <1>7, <2>1, Steady DEF TaskSame, AtWork
<1>13. HashesRight(own)'
  <2>1. At(own, Hashing) \subseteq CanRead
    BY <1>2, <1>5, <1>8 DEF HashesRight
  <2>2. \A r \in 1..Len(task'.hashes) :
            task'.hashes[r].hash = calculate_crc32(task'.hashes[r].path, task.block)
    <3>1. \A r \in 1..n : task.hashes[r].hash = calculate_crc32(task.hashes[r].path, task.block)
      BY <1>2 DEF HashesRight
    <3>2. task.hashes \in Seq(Hashed)
      BY <1>1 DEF Tasks
    <3>3. task'.hashes = task.hashes \/ task'.hashes = Append(task.hashes, x)
      BY <1>1, <1>3 DEF Tasks
    <3>4. x.hash = calculate_crc32(x.path, task.block)
      OBVIOUS
    <3> HIDE DEF x
    <3>5. ASSUME task'.hashes = Append(task.hashes, x), NEW r \in 1..Len(task'.hashes)
          PROVE  task'.hashes[r].hash = calculate_crc32(task'.hashes[r].path, task.block)
      <4>1. task'.hashes[r] = x \/ (r \in 1..n /\ task'.hashes[r] = task.hashes[r])
        BY <3>2, <3>5
      <4> QED
        BY <3>1, <3>4, <4>1
    <3> QED
      BY <3>1, <3>3, <3>5
  <2> QED
    BY <1>1, <1>7, <2>1, <2>2, Steady DEF HashesRight
<1>14. EndRight(own)'
  <2>1. task.any_file_ended => \A k \in AtWork(own) : Ended(PathAt(k), task.block)
    BY <1>2, <1>6 DEF EndRight
  <2>2. ~task'.sizing =>
            \A k \in At(own, Hashing) : Ended(PathAt(k), task.block) => task.any_file_ended
    <3>1. CASE f \in unreadable
      BY <1>1, <1>2, <1>5, <3>1 DEF EndRight
    <3>2. CASE f \notin unreadable
      <4>1. task'.sizing = TRUE
        BY <1>1, <1>3, <3>2 DEF Tasks
      <4> QED
        BY <4>1
    <3> QED
      BY <3>1, <3>2
  <2> QED
    BY <1>1, <1>7, <2>1, <2>2, Steady DEF EndRight, AtWork
<1> QED
  BY <1>10, <1>11, <1>12, <1>13, <1>14

\* When all blocks are read, files with the same hash agree in this block.
LEMMA HashIs ==
    ASSUME BayanTypeOK, NEW own, Holds(own), HashesRight(own), NEW k \in At(own, Hashing)
    PROVE  /\ k \in 1..Len(listing) /\ PathAt(k) \in Files
           /\ HashAt(own, k) = calculate_crc32(PathAt(k), task.block)
<1>1. /\ HashRank(own, k) \in 1..Len(task.hashes)
      /\ task.hashes[HashRank(own, k)].path = PathAt(k)
  BY HashGroup DEF PathAt
<1>2. k \in 1..Len(listing)
  BY DEF At, Holds
<1> QED
  BY <1>1, <1>2, PathAtTyped DEF HashesRight, HashAt

LEMMA SharedIs ==
    ASSUME BayanTypeOK, NEW own, Holds(own), NEW v,
           NEW S, S = {k \in At(own, Hashing) : HashAt(own, k) = v}
    PROVE  /\ IsFiniteSet(S)
           /\ v \in SharedHashes => Cardinality(S) >= 2
           /\ \A j, k \in S : j # k => v \in SharedHashes
<1>1. S \subseteq 1..Len(listing)
  BY DEF At, Holds
<1>2. \A x \in Found : x.path \in Files
  BY DEF Found
<1>3. Paths(listing) \in Seq(Files) /\ S \subseteq 1..Len(Paths(listing))
  BY <1>1, <1>2, PathsTyped DEF BayanTypeOK, WalkTypeOK
<1>4. IsFiniteSet(S) /\ Len(InOrder(S, Paths(listing))) = Cardinality(S)
  BY <1>3, PartTyped
<1>5. WithHash(v) = InOrder(S, Paths(listing))
  BY HashGroup
<1>6. ASSUME NEW j \in S, NEW k \in S, j # k PROVE v \in SharedHashes
  <2>1. HashRank(own, k) \in DOMAIN task.hashes /\ task.hashes[HashRank(own, k)].hash = v
    <3>1. HashRank(own, k) \in 1..Len(task.hashes)
      BY HashGroup
    <3>2. task.hashes \in Seq(Hashed)
      BY DEF BayanTypeOK, CompareTypeOK, Tasks
    <3> QED
      BY <3>1, <3>2 DEF HashAt
  <2>2. v \in {x.hash : x \in ToSet(task.hashes)}
    BY <2>1 DEF ToSet
  <2>3. Cardinality(S) >= 2
    BY <1>4, <1>6, TwoOf
  <2> QED
    BY <1>4, <1>5, <2>2, <2>3 DEF SharedHashes
<1>7. v \in SharedHashes => Cardinality(S) >= 2
  BY <1>4, <1>5 DEF SharedHashes
<1> QED
  BY <1>4, <1>6, <1>7

\* Files that look alike go the same way.
LEMMA SameWay ==
    ASSUME BayanTypeOK, compare, NEW old, Holds(old), HashesRight(old), TaskSame(old),
           NEW hashes \in Orders(SharedHashes),
           NEW j \in At(old, Hashing), NEW k \in At(old, Hashing), j # k, Matching(j, k)
    PROVE  \E i \in 1..Cardinality(SharedHashes) : HashAt(old, j) = hashes[i] /\ HashAt(old, k) = hashes[i]
<1> DEFINE v == HashAt(old, k)
           S == {l \in At(old, Hashing) : HashAt(old, l) = v}
<1>1. HashAt(old, j) = v
  <2>1. /\ PathAt(j) \in Files /\ PathAt(k) \in Files
        /\ HashAt(old, j) = calculate_crc32(PathAt(j), task.block)
        /\ HashAt(old, k) = calculate_crc32(PathAt(k), task.block)
    BY HashIs
  <2>2. SoFar(PathAt(k), PathAt(k), task.block)
    BY DEF TaskSame, AtWork
  <2>3. task.block \in Nat
    BY DEF BayanTypeOK, CompareTypeOK, Tasks
  <2>4. calculate_crc32(PathAt(j), task.block) = calculate_crc32(PathAt(k), task.block)
    BY <2>1, <2>2, <2>3, BlockCounts DEF Matching
  <2> QED
    BY <2>1, <2>4
<1>2. j \in S /\ k \in S /\ S = {l \in At(old, Hashing) : HashAt(old, l) = v}
  BY <1>1
<1> HIDE DEF v, S
<1>3. v \in SharedHashes
  BY <1>2, SharedIs
<1>4. IsFiniteSet(SharedHashes)
  BY HashesFinite DEF BayanTypeOK
<1>5. \E i \in 1..Cardinality(SharedHashes) : hashes[i] = v
  BY <1>3, <1>4, OrdersAre
<1> QED
  BY <1>1, <1>5 DEF v

LEMMA PrintExact ==
    ASSUME BayanTypeOK, compare, task.any_file_ended, NEW old, Holds(old), Exact(old),
           NEW hashes \in Orders(SharedHashes), stack' = stack,
           NEW own, PrintMoves(old, own, hashes)
    PROVE  Exact(own)'
<1> SUFFICES ASSUME changes' = 0
             PROVE  /\ KeptTogether(own)' /\ PrintedSame(own)' /\ StackSame(own)'
                    /\ TaskSame(own)' /\ HashesRight(own)' /\ EndRight(own)'
  BY DEF Exact
<1> DEFINE n == Len(reported)
           c == Cardinality(SharedHashes)
           H == At(old, Hashing)
           group(i) == {k \in H : HashAt(old, k) = hashes[i]}
<1>1. /\ task.paths = <<>> /\ task' = NoTask /\ listing' = listing /\ unreadable' = unreadable
      /\ content' = content /\ settings' = settings /\ changes = 0
  BY DEF compare, env, scanVars
<1>2. /\ KeptTogether(old) /\ PrintedSame(old) /\ StackSame(old)
      /\ TaskSame(old) /\ HashesRight(old) /\ EndRight(old)
  BY <1>1 DEF Exact
<1>3. c \in Nat /\ \A i \in 1..c : hashes[i] \in SharedHashes
  <2>1. IsFiniteSet(SharedHashes)
    BY HashesFinite DEF BayanTypeOK
  <2> QED
    BY <2>1, OrdersAre
<1>4. n \in Nat /\ Len(reported') = n + c
  BY DEF PrintMoves, BayanTypeOK, CompareTypeOK
<1>5. /\ AtWork(own) = {} /\ At(own, Hashing) = {}
      /\ \A i : At(own, Stacked(i)) = At(old, Stacked(i))
      /\ \A i \in 1..n : At(own, ReportedAs(i)) = At(old, ReportedAs(i))
      /\ \A i \in 1..c : At(own, ReportedAs(n + i)) = group(i)
  BY DEF PrintMoves, AtWork
<1>6. AtWork(old) = H
  BY <1>1, NothingAtWork DEF AtWork
<1> HIDE DEF n, c
<1>7. ASSUME NEW j, NEW k, Together(old, j, k), j # k, Matching(j, k)
      PROVE  Together(own, j, k)'
  <2>1. CASE j \in H /\ k \in H
    <3>1. PICK i \in 1..c : HashAt(old, j) = hashes[i] /\ HashAt(old, k) = hashes[i]
      BY <1>2, <1>7, <2>1, SameWay DEF c
    <3>2. n + i \in 1..Len(reported')
      BY <1>3, <1>4
    <3>3. j \in At(own, ReportedAs(n + i)) /\ k \in At(own, ReportedAs(n + i))
      BY <1>5, <2>1, <3>1
    <3> QED
      BY <3>2, <3>3 DEF Together
  <2>2. CASE \E i \in 1..Len(stack) : j \in At(old, Stacked(i)) /\ k \in At(old, Stacked(i))
    BY <1>5, <2>2 DEF Together
  <2>3. CASE \E i \in 1..n : j \in At(old, ReportedAs(i)) /\ k \in At(old, ReportedAs(i))
    <3>1. PICK i \in 1..n : j \in At(old, ReportedAs(i)) /\ k \in At(old, ReportedAs(i))
      BY <2>3
    <3>2. i \in 1..Len(reported')
      BY <1>3, <1>4
    <3> QED
      BY <1>5, <3>1, <3>2 DEF Together
  <2> QED
    BY <1>6, <1>7, <2>1, <2>2, <2>3 DEF Together, n
<1>8. KeptTogether(own)'
  BY <1>1, <1>2, <1>7, Steady DEF KeptTogether
<1>9. PrintedSame(own)'
  <2>1. ASSUME NEW i \in 1..(n + c)
        PROVE  /\ Cardinality(At(own, ReportedAs(i))) >= 2
               /\ \A j, k \in At(own, ReportedAs(i)) : k \in CanRead /\ Matching(j, k)
    <3>1. CASE i <= n
      <4>1. i \in 1..n
        BY <1>4, <3>1
      <4> QED
        BY <1>2, <1>5, <4>1 DEF PrintedSame, n
    <3>2. CASE ~(i <= n)
      <4>1. PICK l \in 1..c : i = n + l
        <5>1. i - n \in 1..c /\ i = n + (i - n)
          BY <1>3, <1>4, <3>2
        <5> QED
          BY <5>1
      <4>2. At(own, ReportedAs(i)) = group(l)
        BY <1>5, <4>1
      <4>3. Cardinality(group(l)) >= 2
        BY <1>3, SharedIs
      <4>4. ASSUME NEW j \in group(l), NEW k \in group(l)
            PROVE  k \in CanRead /\ Matching(j, k)
        <5>1. /\ PathAt(j) \in Files /\ PathAt(k) \in Files
              /\ calculate_crc32(PathAt(j), task.block) = calculate_crc32(PathAt(k), task.block)
          BY <1>2, <4>4, HashIs
        <5>2. SoFar(PathAt(j), PathAt(k), task.block) /\ Ended(PathAt(k), task.block)
          BY <1>2, <1>6, <4>4 DEF TaskSame, EndRight
        <5>3. task.block \in Nat
          BY DEF BayanTypeOK, CompareTypeOK, Tasks
        <5>4. LookAlike(PathAt(j), PathAt(k))
          BY <5>1, <5>2, <5>3, BlockLast
        <5> QED
          BY <1>2, <4>4, <5>4 DEF Matching, HashesRight
      <4> QED
        BY <4>2, <4>3, <4>4
    <3> QED
      BY <3>1, <3>2
  <2> QED
    BY <1>1, <1>4, <2>1, Steady DEF PrintedSame
<1>10. StackSame(own)'
  BY <1>1, <1>2, <1>5, Steady DEF StackSame
<1>11. TaskSame(own)' /\ EndRight(own)'
  BY <1>5 DEF TaskSame, EndRight, AtWork
<1>12. HashesRight(own)'
  <2>1. Len(task'.hashes) = 0
    BY <1>1, NoTaskIs
  <2> QED
    BY <1>5, <2>1 DEF HashesRight
<1> QED
  BY <1>8, <1>9, <1>10, <1>11, <1>12

LEMMA DeeperExact ==
    ASSUME BayanTypeOK, compare, ~task.any_file_ended, NEW old, Holds(old), Exact(old),
           NEW hashes \in Orders(SharedHashes), reported' = reported,
           NEW own, DeeperMoves(old, own, hashes)
    PROVE  Exact(own)'
<1> SUFFICES ASSUME changes' = 0
             PROVE  /\ KeptTogether(own)' /\ PrintedSame(own)' /\ StackSame(own)'
                    /\ TaskSame(own)' /\ HashesRight(own)' /\ EndRight(own)'
  BY DEF Exact
<1> DEFINE n == Len(stack)
           c == Cardinality(SharedHashes)
           H == At(old, Hashing)
           group(i) == {k \in H : HashAt(old, k) = hashes[i]}
<1>1. /\ task.paths = <<>> /\ task' = NoTask /\ listing' = listing /\ unreadable' = unreadable
      /\ content' = content /\ settings' = settings /\ changes = 0
  BY DEF compare, env, scanVars
<1>2. /\ KeptTogether(old) /\ PrintedSame(old) /\ StackSame(old)
      /\ TaskSame(old) /\ HashesRight(old) /\ EndRight(old)
  BY <1>1 DEF Exact
<1>3. c \in Nat
  <2>1. IsFiniteSet(SharedHashes)
    BY HashesFinite DEF BayanTypeOK
  <2> QED
    BY <2>1, OrdersAre
<1>4. /\ n \in Nat /\ Len(stack') = c + n
      /\ \A i \in 1..n : stack'[c + i] = stack[i]
      /\ \A i \in 1..c : stack'[i].block = NextBlock
  <2>1. n \in Nat
    <3>1. stack \in Seq(Groups)
      BY DEF BayanTypeOK, CompareTypeOK
    <3> QED
      BY <3>1
  <2> QED
    BY <2>1 DEF DeeperMoves
<1>5. /\ AtWork(own) = {} /\ At(own, Hashing) = {}
      /\ \A i : At(own, ReportedAs(i)) = At(old, ReportedAs(i))
      /\ \A i \in 1..n : At(own, Stacked(c + i)) = At(old, Stacked(i))
      /\ \A i \in 1..c : At(own, Stacked(i)) = group(i)
  BY DEF DeeperMoves, AtWork
<1>6. AtWork(old) = H
  BY <1>1, NothingAtWork DEF AtWork
<1> HIDE DEF n, c
<1>7. ASSUME NEW j, NEW k, Together(old, j, k), j # k, Matching(j, k)
      PROVE  Together(own, j, k)'
  <2>1. CASE j \in H /\ k \in H
    <3>1. PICK i \in 1..c : HashAt(old, j) = hashes[i] /\ HashAt(old, k) = hashes[i]
      BY <1>2, <1>7, <2>1, SameWay DEF c
    <3>2. i \in 1..Len(stack')
      BY <1>3, <1>4
    <3>3. j \in At(own, Stacked(i)) /\ k \in At(own, Stacked(i))
      BY <1>5, <2>1, <3>1
    <3> QED
      BY <3>2, <3>3 DEF Together
  <2>2. CASE \E i \in 1..n : j \in At(old, Stacked(i)) /\ k \in At(old, Stacked(i))
    <3>1. PICK i \in 1..n : j \in At(old, Stacked(i)) /\ k \in At(old, Stacked(i))
      BY <2>2
    <3>2. c + i \in 1..Len(stack')
      BY <1>3, <1>4
    <3>3. j \in At(own, Stacked(c + i)) /\ k \in At(own, Stacked(c + i))
      BY <1>5, <3>1
    <3> QED
      BY <3>2, <3>3 DEF Together
  <2>3. CASE \E i \in 1..Len(reported) : j \in At(old, ReportedAs(i)) /\ k \in At(old, ReportedAs(i))
    BY <1>5, <2>3 DEF Together
  <2> QED
    BY <1>6, <1>7, <2>1, <2>2, <2>3 DEF Together, n
<1>8. KeptTogether(own)'
  BY <1>1, <1>2, <1>7, Steady DEF KeptTogether
<1>9. PrintedSame(own)'
  BY <1>1, <1>2, <1>5, Steady DEF PrintedSame
<1>10. StackSame(own)'
  <2>1. ASSUME NEW i \in 1..(c + n), NEW j \in At(own, Stacked(i)), NEW k \in At(own, Stacked(i))
        PROVE  SoFar(PathAt(j), PathAt(k), stack'[i].block)
    <3>1. CASE i <= c
      <4>1. i \in 1..c
        BY <1>3, <3>1
      <4>2. j \in group(i) /\ k \in group(i)
        BY <1>5, <2>1, <4>1
      <4>3. /\ PathAt(j) \in Files /\ PathAt(k) \in Files
            /\ calculate_crc32(PathAt(j), task.block) = calculate_crc32(PathAt(k), task.block)
        BY <1>2, <4>2, HashIs
      <4>4. SoFar(PathAt(j), PathAt(k), task.block)
        BY <1>2, <1>6, <4>2 DEF TaskSame
      <4>5. task.block \in Nat
        BY DEF BayanTypeOK, CompareTypeOK, Tasks
      <4>6. ~Ended(PathAt(k), task.block)
        BY <1>1, <1>2, <4>2, NothingAtWork DEF EndRight
      <4>7. SoFar(PathAt(j), PathAt(k), task.block + 1)
        BY <4>3, <4>4, <4>5, <4>6, BlockMore
      <4> QED
        BY <1>4, <4>1, <4>7 DEF NextBlock
    <3>2. CASE ~(i <= c)
      <4>1. PICK l \in 1..n : i = c + l
        <5>1. i - c \in 1..n /\ i = c + (i - c)
          BY <1>3, <1>4, <3>2
        <5> QED
          BY <5>1
      <4> QED
        BY <1>2, <1>4, <1>5, <2>1, <4>1 DEF StackSame, n
    <3> QED
      BY <3>1, <3>2
  <2> QED
    BY <1>1, <1>4, <2>1, Steady DEF StackSame
<1>11. TaskSame(own)' /\ EndRight(own)'
  BY <1>5 DEF TaskSame, EndRight, AtWork
<1>12. HashesRight(own)'
  <2>1. Len(task'.hashes) = 0
    BY <1>1, NoTaskIs
  <2> QED
    BY <1>5, <2>1 DEF HashesRight
<1> QED
  BY <1>8, <1>9, <1>10, <1>11, <1>12

-----------------------------------------------------------------------------
Scanning == phase = "scan"

LEMMA ScanInv == BayanTypeOK /\ Scanning => BayanInv
  BY NothingHeld DEF BayanInv, Scanning

LEMMA ScanInvNext == BayanTypeOK' /\ Scanning' => BayanInv'
  BY ScanInv, PTL

\* A step that moves no position.
LEMMA SameHeld ==
    ASSUME UNCHANGED <<listing, stack, task, reported>>, NEW own, Holds(own)
    PROVE  Holds(own)'
<1>1. Places' = Places
  BY DEF Places
<1>2. OwnedStack(own)' /\ OwnedTask(own)' /\ Owned(own, Paths(listing), reported)'
  BY DEF Holds, OwnedStack, OwnedTask, Owned, Rest
<1> QED
  BY <1>1, <1>2 DEF Holds

LEMMA SameExact ==
    ASSUME UNCHANGED <<settings, env, listing, stack, task, reported>>, NEW own, Exact(own)
    PROVE  Exact(own)'
<1>1. /\ listing' = listing /\ unreadable' = unreadable /\ content' = content
      /\ settings' = settings /\ changes' = changes /\ stack' = stack /\ task' = task
      /\ reported' = reported
  BY DEF env
<1>2. \A j, k : Together(own, j, k)' <=> Together(own, j, k)
  BY <1>1 DEF Together, AtWork
<1> SUFFICES ASSUME changes' = 0
             PROVE  /\ KeptTogether(own)' /\ PrintedSame(own)' /\ StackSame(own)'
                    /\ TaskSame(own)' /\ HashesRight(own)' /\ EndRight(own)'
  BY DEF Exact
<1>3. /\ KeptTogether(own) /\ PrintedSame(own) /\ StackSame(own)
      /\ TaskSame(own) /\ HashesRight(own) /\ EndRight(own)
  BY <1>1 DEF Exact
<1>4. KeptTogether(own)' /\ PrintedSame(own)' /\ StackSame(own)'
  BY <1>1, <1>2, <1>3, Steady DEF KeptTogether, PrintedSame, StackSame
<1>5. TaskSame(own)' /\ HashesRight(own)' /\ EndRight(own)'
  BY <1>1, <1>3, Steady DEF TaskSame, HashesRight, EndRight, AtWork
<1> QED
  BY <1>4, <1>5

LEMMA BayanInvNext ==
    ASSUME BayanTypeOK, BayanTypeOK', BayanInv, [BayanNext]_bayanVars
    PROVE  BayanInv'
<1>1. PICK old : Holds(old) /\ (phase \in {"compare", "done"} => Exact(old))
  BY DEF BayanInv
<1>2. CASE open_dir \/ visit
  <2>1. CASE phase' = "error"
    <3>1. UNCHANGED <<listing, stack, task, reported>>
      BY <1>2, <2>1 DEF open_dir, visit
    <3>2. Holds(old)'
      BY <1>1, <3>1, SameHeld
    <3> QED
      BY <2>1, <3>2 DEF BayanInv
  <2>2. CASE phase' # "error"
    <3>1. Scanning'
      BY <1>2, <2>2 DEF open_dir, visit, Scanning
    <3> QED
      BY <3>1, ScanInvNext
  <2> QED
    BY <2>1, <2>2
<1>3. CASE run
  <2>1. PICK sizes \in Orders(ShownSizes) :
            stack' = [k \in DOMAIN sizes |-> [paths |-> OfSize(sizes[k]), block |-> 0]]
    BY <1>3 DEF run, ShownSizes
  <2>2. PICK own : own = RunOwn(sizes)
    OBVIOUS
  <2>3. Holds(own)' /\ RunMoves(own, sizes)
    BY <1>3, <2>1, <2>2, RunHolds
  <2>4. Exact(own)'
    BY <1>3, <2>1, <2>2, <2>3, RunExact
  <2> QED
    BY <2>3, <2>4 DEF BayanInv
<1>4. CASE check_blocks
  <2>1. PICK own : own = CheckOwn(old)
    OBVIOUS
  <2>2. phase = "compare"
    BY <1>4 DEF check_blocks
  <2>3. Holds(own)' /\ CheckMoves(old, own)
    BY <1>1, <1>4, <2>1, CheckHolds
  <2>4. Exact(own)'
    BY <1>1, <1>4, <2>2, <2>3, CheckExact
  <2> QED
    BY <2>3, <2>4 DEF BayanInv
<1>5. CASE read_block
  <2>1. PICK own : own = ReadOwn(old)
    OBVIOUS
  <2>2. phase = "compare"
    BY <1>5 DEF read_block
  <2>3. Holds(own)' /\ ReadMoves(old, own)
    BY <1>1, <1>5, <2>1, ReadHolds
  <2>4. Exact(own)'
    BY <1>1, <1>5, <2>2, <2>3, ReadExact
  <2> QED
    BY <2>3, <2>4 DEF BayanInv
<1>6. CASE file_size
  <2>1. phase = "compare"
    BY <1>6 DEF file_size
  <2>2. Holds(old)' /\ Exact(old)'
    BY <1>1, <1>6, <2>1, SizeHolds, SizeExact
  <2> QED
    BY <2>2 DEF BayanInv
<1>7. CASE compare
  <2>1. phase = "compare"
    BY <1>7 DEF compare
  <2>2. PICK hashes \in Orders(SharedHashes) :
            \/ /\ task.any_file_ended
               /\ reported' = reported \o
                      [k \in DOMAIN hashes |-> Printed(WithHash(hashes[k]))]
               /\ UNCHANGED stack
            \/ /\ ~task.any_file_ended
               /\ stack' = [k \in DOMAIN hashes |->
                               [paths |-> WithHash(hashes[k]), block |-> NextBlock]] \o stack
               /\ UNCHANGED reported
    BY <1>7 DEF compare
  <2>3. PICK own : own = CompareOwn(old, hashes)
    OBVIOUS
  <2>4. CASE /\ task.any_file_ended /\ stack' = stack
             /\ reported' = reported \o
                    [k \in DOMAIN hashes |-> Printed(WithHash(hashes[k]))]
    <3>1. Holds(own)' /\ PrintMoves(old, own, hashes)
      BY <1>1, <1>7, <2>3, <2>4, PrintHolds
    <3>2. Exact(own)'
      BY <1>1, <1>7, <2>1, <2>4, <3>1, PrintExact
    <3> QED
      BY <3>1, <3>2 DEF BayanInv
  <2>5. CASE /\ ~task.any_file_ended /\ reported' = reported
             /\ stack' = [k \in DOMAIN hashes |->
                             [paths |-> WithHash(hashes[k]), block |-> NextBlock]] \o stack
    <3>1. Holds(own)' /\ DeeperMoves(old, own, hashes)
      BY <1>1, <1>7, <2>3, <2>5, DeeperHolds
    <3>2. Exact(own)'
      BY <1>1, <1>7, <2>1, <2>5, <3>1, DeeperExact
    <3> QED
      BY <3>1, <3>2 DEF BayanInv
  <2> QED
    BY <2>2, <2>4, <2>5
<1>8. CASE main_ends
  <2>1. phase = "compare" /\ UNCHANGED <<settings, env, listing, stack, task, reported>>
    BY <1>8 DEF main_ends, scanVars
  <2>2. Holds(old)' /\ Exact(old)'
    BY <1>1, <2>1, SameHeld, SameExact
  <2> QED
    BY <2>2 DEF BayanInv
<1>9. CASE change
  <2>1. UNCHANGED <<listing, stack, task, reported>> /\ changes' # 0
    BY <1>9 DEF change, scanVars, BayanTypeOK, FilesTypeOK
  <2>2. Holds(old)'
    BY <1>1, <2>1, SameHeld
  <2>3. Exact(old)'
    BY <2>1 DEF Exact
  <2> QED
    BY <2>2, <2>3 DEF BayanInv
<1>10. CASE UNCHANGED bayanVars
  <2>1. phase' = phase /\ UNCHANGED <<settings, env, listing, stack, task, reported>>
    BY <1>10 DEF bayanVars, scanVars
  <2>2. Holds(old)'
    BY <1>1, <2>1, SameHeld
  <2>3. phase \in {"compare", "done"} => Exact(old)'
    BY <1>1, <2>1, SameExact
  <2> QED
    BY <2>1, <2>2, <2>3 DEF BayanInv
<1> QED
  BY <1>2, <1>3, <1>4, <1>5, <1>6, <1>7, <1>8, <1>9, <1>10 DEF BayanNext, Step

(***************************************************************************)
(* What bayan keeps has the types it should have, and phases are entered   *)
(* only in the states they begin with.                                     *)
(***************************************************************************)
THEOREM BayanTypeCorrect == BayanSpec => []BayanTypeOK
<1>1. BayanInit => BayanTypeOK
  BY BayanInitTyped
<1>2. BayanTypeOK /\ [BayanNext]_bayanVars => BayanTypeOK'
  BY BayanNextTyped
<1> QED
  BY <1>1, <1>2, PTL DEF BayanSpec

LEMMA BayanInvCorrect == BayanSpec => [](BayanTypeOK /\ BayanInv)
<1>1. BayanInit => BayanTypeOK /\ BayanInv
  <2>1. BayanInit => BayanTypeOK /\ phase = "scan"
    BY BayanInitTyped DEF BayanInit
  <2> QED
    BY <2>1, ScanInv DEF Scanning
<1>2. (BayanTypeOK /\ BayanInv) /\ [BayanNext]_bayanVars => (BayanTypeOK /\ BayanInv)'
  BY BayanNextTyped, BayanInvNext
<1> QED
  BY <1>1, <1>2, PTL DEF BayanSpec

(***************************************************************************)
(* A file found once is printed once at most, whatever happens to files    *)
(* meanwhile: every place of the listing is in one group at most.          *)
(***************************************************************************)
THEOREM NoPathTwiceCorrect == BayanSpec => []NoPathTwice
<1>1. BayanTypeOK /\ BayanInv => NoPathTwice
  <2> SUFFICES ASSUME BayanTypeOK, BayanInv, NEW f \in Files
               PROVE  Times(f, FlattenSeq(reported)) <= Times(f, Paths(listing))
    BY DEF NoPathTwice
  <2>1. PICK own : Holds(own)
    BY DEF BayanInv
  <2>2. \A x \in Found : x.path \in Files
    BY DEF Found
  <2>3. Paths(listing) \in Seq(Files) /\ Len(Paths(listing)) = Len(listing)
    BY <2>2, PathsTyped DEF BayanTypeOK, WalkTypeOK
  <2>4. /\ own \in [1..Len(Paths(listing)) -> Places] /\ Owned(own, Paths(listing), reported)
        /\ reported \in Seq(Seq(Files))
    BY <2>1, <2>3 DEF Holds, BayanTypeOK, CompareTypeOK
  <2> QED
    BY <2>3, <2>4, GroupsApart
<1> QED
  BY <1>1, BayanInvCorrect, PTL

\* the positions that can be read and have the bytes of k
Twins(k) == {j \in CanRead : Matching(j, k)}
Doubled == {k \in CanRead : Cardinality(Twins(k)) >= 2}

LEMMA GroupIs ==
    ASSUME BayanTypeOK, phase = "done", changes = 0, NEW own, Holds(own), Exact(own),
           NEW i \in 1..Len(reported), NEW k \in At(own, ReportedAs(i))
    PROVE  /\ k \in Doubled /\ At(own, ReportedAs(i)) = Twins(k)
           /\ \A j \in CanRead : Matching(j, k) => j \in At(own, ReportedAs(i))
<1>1. KeptTogether(own) /\ PrintedSame(own)
  BY DEF Exact
<1>2. stack = <<>> /\ AtWork(own) = {}
  BY NothingAtWork, NoTaskIs DEF AtWork, BayanTypeOK, PhaseOK
<1>3. k \in CanRead
  BY <1>1 DEF PrintedSame
<1>4. ASSUME NEW j \in CanRead, Matching(j, k) PROVE j \in At(own, ReportedAs(i))
  <2>1. CASE j = k
    BY <2>1
  <2>2. CASE j # k
    <3>1. Together(own, j, k)
      BY <1>1, <1>3, <1>4, <2>2 DEF KeptTogether
    <3>2. PICK l \in 1..Len(reported) : j \in At(own, ReportedAs(l)) /\ k \in At(own, ReportedAs(l))
      BY <1>2, <3>1 DEF Together
    <3>3. ReportedAs(l) = ReportedAs(i)
      BY <3>2 DEF At
    <3> QED
      BY <3>2, <3>3
  <2> QED
    BY <2>1, <2>2
<1>5. At(own, ReportedAs(i)) = Twins(k)
  <2>1. \A j \in At(own, ReportedAs(i)) : j \in CanRead /\ Matching(j, k)
    BY <1>1 DEF PrintedSame, Matching
  <2> QED
    BY <1>4, <2>1 DEF Twins
<1>6. Cardinality(At(own, ReportedAs(i))) >= 2
  BY <1>1 DEF PrintedSame
<1> QED
  BY <1>3, <1>4, <1>5, <1>6 DEF Doubled

\* Nothing is printed twice.
LEMMA GroupsDiffer ==
    ASSUME BayanTypeOK, phase = "done", changes = 0, NEW own, Holds(own), Exact(own),
           NEW i \in 1..Len(reported), NEW j \in 1..Len(reported), reported[i] = reported[j]
    PROVE  i = j
<1> DEFINE p == Paths(listing)
<1>1. PrintedSame(own) /\ Owned(own, p, reported) /\ DOMAIN own = 1..Len(listing)
  BY DEF Exact, Holds
<1>2. ASSUME NEW l \in 1..Len(reported)
      PROVE  \E a \in At(own, ReportedAs(l)) : reported[l][1] = PathAt(a)
  <2> DEFINE S == At(own, ReportedAs(l))
  <2>1. reported[l] = InOrder(S, p) /\ Cardinality(S) >= 2
    BY <1>1 DEF Owned, ReportedAs, PrintedSame
  <2>2. S \subseteq Nat /\ IsFiniteSet(S) /\ Cardinality(S) \in Nat
    BY <1>1, AtTyped
  <2> HIDE DEF S
  <2>3. 1 \in 1..Cardinality(S)
    BY <2>1, <2>2
  <2>4. Nth(S, 1) \in S
    BY <2>2, <2>3, NthExists
  <2>5. InOrder(S, p)[1] = p[Nth(S, 1)]
    BY <2>3 DEF InOrder
  <2> QED
    BY <2>1, <2>4, <2>5 DEF S, PathAt
<1>3. PICK a \in At(own, ReportedAs(i)) : reported[i][1] = PathAt(a)
  BY <1>2
<1>4. PICK b \in At(own, ReportedAs(j)) : reported[j][1] = PathAt(b)
  BY <1>2
<1>5. Matching(a, b)
  BY <1>3, <1>4 DEF Matching, LookAlike
<1>6. a \in CanRead
  BY <1>3, GroupIs DEF Doubled
<1>7. a \in At(own, ReportedAs(j))
  BY <1>4, <1>5, <1>6, GroupIs
<1>8. ReportedAs(i) = ReportedAs(j)
  BY <1>3, <1>7 DEF At
<1> QED
  BY <1>8 DEF ReportedAs

\* A byte is in one of the blocks read.
LEMMA BlockHolds ==
    ASSUME BayanTypeOK, NEW f \in Files, NEW i \in 1..Len(content[f])
    PROVE  \E b \in BlocksRead(f), k \in 1..settings.block_size :
               b * settings.block_size + k = i
<1> DEFINE n == settings.block_size
           l == Len(content[f])
           S == {c \in Nat : c * n >= i}
           m == Min(S)
<1>1. l \in Nat /\ i \in 1..l /\ n \in Nat \ {0}
  BY ContentTyped, BlockSize DEF BayanTypeOK
<1>2. m \in S /\ \A c \in S : m <= c
  <2>1. i \in Nat /\ i <= i * n /\ i * n \in Nat
    BY <1>1, BlockSize
  <2>2. i \in S
    BY <2>1
  <2>3. S \subseteq Nat /\ S # {}
    BY <2>2
  <2> HIDE DEF S
  <2> QED
    BY <2>3, MinOfNumbers
<1> HIDE DEF m
<1>3. m \in Nat /\ m * n >= i /\ m # 0
  <2>1. m \in Nat /\ m * n >= i
    BY <1>2
  <2>2. m = 0 => m * n = 0
    BY <1>1
  <2>3. ~(0 >= i)
    BY <1>1
  <2> HIDE DEF n
  <2> QED
    BY <2>1, <2>2, <2>3
<1> DEFINE b == m - 1
           from == b * n
<1>4. b \in Nat /\ m = b + 1 /\ from \in Nat /\ b <= from
  <2>1. b \in Nat /\ m = b + 1
    BY <1>3
  <2> HIDE DEF b
  <2> QED
    BY <2>1, BlockSize
<1> HIDE DEF b
<1>5. ~(from >= i)
  <2>1. ~(m <= b) /\ b \in Nat
    BY <1>4
  <2> QED
    BY <1>2, <2>1
<1>6. m * n = from + n
  <2>1. m = b + 1 /\ b \in Nat /\ n \in Nat
    BY <1>1, <1>4
  <2> HIDE DEF n
  <2>2. (b + 1) * n = b * n + n
    BY <2>1
  <2> QED
    BY <2>1, <2>2
<1> HIDE DEF from, n, l
<1>7. i - from \in 1..n /\ from + (i - from) = i /\ from < l
  BY <1>1, <1>3, <1>4, <1>5, <1>6
<1>8. b \in 0..l
  BY <1>1, <1>4, <1>7
<1>9. b \in BlocksRead(f)
  BY <1>7, <1>8 DEF BlocksRead, from, n, l
<1> QED
  BY <1>7, <1>9 DEF from, n

\* Where no checksums collide, files that look alike are the same.
LEMMA AlikeSame ==
    ASSUME BayanTypeOK, ~Collision, NEW f \in Files, NEW g \in Files
    PROVE  LookAlike(f, g) <=> content[f] = content[g]
<1> DEFINE F == content[f]
           G == content[g]
           n == settings.block_size
<1>1. ASSUME LookAlike(f, g) PROVE F = G
  <2>1. F \in Seq({0, 1}) /\ G \in Seq({0, 1}) /\ Len(F) = Len(G)
    BY <1>1, ContentTyped DEF LookAlike, BayanTypeOK
  <2>2. \A b \in BlocksRead(f) : BlockOf(f, b) = BlockOf(g, b)
    BY <1>1 DEF LookAlike, Collision
  <2>3. ASSUME NEW i \in 1..Len(F) PROVE F[i] = G[i]
    <3>1. PICK b \in BlocksRead(f), k \in 1..n : b * n + k = i
      BY BlockHolds
    <3> DEFINE at == b * n + k
    <3>2. /\ BlockOf(f, b)[k] = IF at <= Len(F) THEN F[at] ELSE 0
          /\ BlockOf(g, b)[k] = IF at <= Len(G) THEN G[at] ELSE 0
      BY DEF BlockOf
    <3>3. BlockOf(f, b)[k] = BlockOf(g, b)[k]
      BY <2>2
    <3>4. at = i
      BY <3>1
    <3> HIDE DEF at, F, G, n
    <3>5. i <= Len(F) /\ i <= Len(G)
      BY <2>1
    <3> QED
      BY <3>2, <3>3, <3>4, <3>5
  <2> HIDE DEF F, G
  <2> QED
    BY <2>1, <2>3, SameSequence
<1>2. F = G => LookAlike(f, g)
  <2> SUFFICES ASSUME F = G PROVE LookAlike(f, g)
    OBVIOUS
  <2>1. \A b : BlockOf(f, b) = BlockOf(g, b)
    BY DEF BlockOf
  <2> QED
    BY <2>1 DEF LookAlike
<1> QED
  BY <1>1, <1>2

(***************************************************************************)
(* If no file changes, bayan prints exactly the sets of two or more files  *)
(* among those it found and can open that have one size and, block by      *)
(* block, the same checksums, each set once.  This holds for any Crc; if   *)
(* it does not collide, these are the sets of files with the same bytes.   *)
(***************************************************************************)
THEOREM ReportCorrect == BayanSpec => []ReportExact
<1>1. BayanTypeOK /\ BayanInv => ReportExact
  <2> SUFFICES ASSUME BayanTypeOK, BayanInv, phase = "done", changes = 0
               PROVE  ReportExact
    BY DEF ReportExact
  <2>1. PICK own : Holds(own) /\ Exact(own)
    BY DEF BayanInv
  <2> DEFINE p == Paths(listing)
             G == {InOrder(Twins(k), p) : k \in Doubled}
             n == Len(reported)
             at(i) == At(own, ReportedAs(i))
  <2>2. n \in Nat /\ DOMAIN reported = 1..n
    BY DEF BayanTypeOK, CompareTypeOK
  <2>3. KeptTogether(own) /\ PrintedSame(own) /\ Owned(own, p, reported) /\ DOMAIN own = 1..Len(listing)
    BY <2>1 DEF Exact, Holds
  <2>4. ASSUME NEW i \in 1..n
        PROVE  reported[i] \in G
    <3>1. reported[i] = InOrder(at(i), p) /\ Cardinality(at(i)) >= 2
      BY <2>3 DEF Owned, ReportedAs, PrintedSame
    <3>2. IsFiniteSet(at(i))
      BY <2>3, AtTyped
    <3>3. PICK k \in at(i) : TRUE
      BY <3>1, <3>2, TwoOf
    <3>4. k \in Doubled /\ at(i) = Twins(k)
      BY <2>1, <3>3, GroupIs
    <3> QED
      BY <3>1, <3>4
  <2>5. ASSUME NEW k \in Doubled
        PROVE  \E i \in 1..n : reported[i] = InOrder(Twins(k), p)
    <3>1. k \in CanRead /\ Cardinality(Twins(k)) >= 2
      BY DEF Doubled
    <3>2. IsFiniteSet(Twins(k))
      <4>1. Len(listing) \in Nat
        BY DEF BayanTypeOK, WalkTypeOK
      <4>2. IsFiniteSet(1..Len(listing)) /\ Twins(k) \in SUBSET (1..Len(listing))
        BY <4>1, FS_Interval DEF Twins, CanRead
      <4> QED
        BY <4>2, FS_Subset
    <3>3. PICK a \in Twins(k), b \in Twins(k) : a # b
      BY <3>1, <3>2, TwoOf
    <3>4. PICK j \in CanRead : j # k /\ Matching(j, k)
      BY <3>3 DEF Twins
    <3>5. Together(own, j, k)
      BY <2>3, <3>1, <3>4 DEF KeptTogether
    <3>6. stack = <<>> /\ AtWork(own) = {}
      BY <2>1, NothingAtWork, NoTaskIs DEF AtWork, BayanTypeOK, PhaseOK
    <3>7. PICK i \in 1..n : k \in at(i)
      BY <3>5, <3>6 DEF Together
    <3>8. at(i) = Twins(k)
      BY <2>1, <3>7, GroupIs
    <3> QED
      BY <2>3, <3>8 DEF Owned, ReportedAs
  <2>6. ToSet(reported) = G
    BY <2>2, <2>4, <2>5 DEF ToSet
  <2>7. n = Cardinality(G)
    <3>1. reported \in Bijection(1..n, G)
      <4>1. reported \in [1..n -> G]
        <5>1. reported \in Seq(Seq(Files))
          BY DEF BayanTypeOK, CompareTypeOK
        <5>2. reported = [i \in 1..n |-> reported[i]]
          BY <5>1
        <5> HIDE DEF G, n
        <5> QED
          BY <2>4, <5>2
      <4>2. \A i, j \in 1..n : reported[i] = reported[j] => i = j
        BY <2>1, GroupsDiffer
      <4>3. \A g \in G : \E i \in 1..n : reported[i] = g
        BY <2>5
      <4> HIDE DEF G, n
      <4> QED
        BY <4>1, <4>2, <4>3 DEF Bijection, Injection, Surjection, IsInjective
    <3>2. IsFiniteSet(1..n) /\ Cardinality(1..n) = n
      <4>1. IsFiniteSet(1..n) /\ Cardinality(1..n) = IF 1 > n THEN 0 ELSE n - 1 + 1
        BY <2>2, FS_Interval
      <4> HIDE DEF n
      <4> QED
        BY <2>2, <4>1
    <3> HIDE DEF G, n
    <3> QED
      BY <3>1, <3>2, FS_Bijection DEF ExistsBijection
  <2>8. CanRead = {k \in DOMAIN p : p[k] \notin unreadable}
    <3>1. \A x \in Found : x.path \in Files
      BY DEF Found
    <3>2. p \in Seq(Files) /\ Len(p) = Len(listing)
      BY <3>1, PathsTyped DEF BayanTypeOK, WalkTypeOK
    <3> QED
      BY <3>2 DEF CanRead, PathAt
  <2>9. G = LET read == {k \in DOMAIN p : p[k] \notin unreadable}
                alike(k) == {j \in read : LookAlike(p[j], p[k])}
            IN  {InOrder(alike(k), p) : k \in {j \in read : Cardinality(alike(j)) >= 2}}
    BY <2>8 DEF Twins, Doubled, Matching, PathAt
  <2>10. ASSUME ~Collision, NEW k \in CanRead
         PROVE  {j \in CanRead : LookAlike(p[j], p[k])} =
                {j \in CanRead : content[p[j]] = content[p[k]]}
    <3>1. \A j \in CanRead : p[j] \in Files
      BY PathAtTyped DEF CanRead, PathAt
    <3>2. \A j \in CanRead : LookAlike(p[j], p[k]) <=> content[p[j]] = content[p[k]]
      BY <2>10, <3>1, AlikeSame
    <3> QED
      BY <3>2
  <2> HIDE DEF G, p, n
  <2>11. ToSet(reported) = G /\ Len(reported) = Cardinality(G)
    BY <2>6, <2>7 DEF n
  <2> QED
    BY <2>8, <2>9, <2>10, <2>11 DEF ReportExact, p
<1> QED
  BY <1>1, BayanInvCorrect, PTL

-----------------------------------------------------------------------------
(***************************************************************************)
(* The tree that is walked.                                                *)
(***************************************************************************)
LEMMA AncestorsClimb ==
    ASSUME NEW e
    PROVE  Ancestors(e) \subseteq Dirs /\ Climbs(Ancestors(e), e)
  BY DEF Ancestors, Climbs

LEMMA AncestorsLeast ==
    ASSUME NEW e, NEW S, S \subseteq Dirs, Climbs(S, e)
    PROVE  Ancestors(e) \subseteq S
  BY DEF Ancestors

LEMMA BelowIs ==
    ASSUME NEW e, NEW d
    PROVE  Below(e, d) <=> Parent[e] \in Dirs /\ (d = Parent[e] \/ Below(Parent[e], d))
<1> DEFINE p == Parent[e]
           Z == IF p \in Dirs THEN {p} \cup Ancestors(p) ELSE {}
<1>1. Climbs(Ancestors(e), e) /\ Climbs(Ancestors(p), p) /\ Ancestors(p) \subseteq Dirs
  BY AncestorsClimb
<1>2. ASSUME p \in Dirs, d = p \/ Below(p, d)
      PROVE  Below(e, d)
  <2>1. p \in Ancestors(e)
    BY <1>1, <1>2 DEF Climbs
  <2>2. Climbs(Ancestors(e), p)
    BY <1>1, <2>1 DEF Climbs
  <2>3. Ancestors(p) \subseteq Ancestors(e)
    BY <2>2, AncestorsClimb, AncestorsLeast
  <2> QED
    BY <1>2, <2>1, <2>3 DEF Below
<1>3. Climbs(Z, e)
  BY <1>1 DEF Climbs
<1>4. Ancestors(e) \subseteq Z
  BY <1>1, <1>3, AncestorsLeast
<1> QED
  BY <1>2, <1>4 DEF Below

LEMMA BelowTransitive ==
    ASSUME NEW e, NEW d, NEW c, Below(e, d), Below(d, c)
    PROVE  Below(e, c)
<1>1. Climbs(Ancestors(e), d)
  BY AncestorsClimb DEF Climbs, Below
<1>2. Ancestors(d) \subseteq Ancestors(e)
  BY <1>1, AncestorsClimb, AncestorsLeast
<1> QED
  BY <1>2 DEF Below

LEMMA NeverBelowItself ==
    ASSUME NEW d, NEW c, Below(d, c), c = d \/ Below(c, d)
    PROVE  FALSE
<1>1. Below(d, d) /\ d \in Dirs
  <2>1. Below(d, d)
    BY BelowTransitive
  <2> QED
    BY <2>1, AncestorsClimb DEF Below
<1> QED
  BY <1>1, TreeAssumption

\* What is above y lies in one line.
LEMMA AncestorsInLine ==
    ASSUME NEW y, NEW a, NEW b, Below(y, a), Below(y, b)
    PROVE  a = b \/ Below(a, b) \/ Below(b, a)
<1> DEFINE S == {d \in Ancestors(y) : d = a \/ Below(d, a) \/ Below(a, d)}
<1>1. Ancestors(y) \subseteq Dirs /\ Climbs(Ancestors(y), y) /\ a \in Ancestors(y)
  BY AncestorsClimb DEF Below
<1>2. ASSUME NEW x \in S \cup {y}, Parent[x] \in Dirs
      PROVE  Parent[x] \in S
  <2>1. Parent[x] \in Ancestors(y)
    BY <1>1, <1>2 DEF Climbs
  <2>2. CASE x = y
    <3>1. a = Parent[x] \/ Below(Parent[x], a)
      BY <2>2, BelowIs
    <3> QED
      BY <2>1, <3>1
  <2>3. CASE x = a
    <3>1. Below(a, Parent[x])
      BY <1>2, <2>3, BelowIs
    <3> QED
      BY <2>1, <3>1
  <2>4. CASE Below(x, a)
    <3>1. a = Parent[x] \/ Below(Parent[x], a)
      BY <2>4, BelowIs
    <3> QED
      BY <2>1, <3>1
  <2>5. CASE Below(a, x)
    <3>1. Below(x, Parent[x])
      BY <1>2, BelowIs
    <3>2. Below(a, Parent[x])
      BY <2>5, <3>1, BelowTransitive
    <3> QED
      BY <2>1, <3>2
  <2> QED
    BY <1>2, <2>2, <2>3, <2>4, <2>5
<1>3. Climbs(S, y)
  BY <1>2 DEF Climbs
<1>4. Ancestors(y) \subseteq S
  BY <1>1, <1>3, AncestorsLeast
<1> QED
  BY <1>4 DEF Below

\* Entries of one directory have nothing below them in common.
LEMMA Siblings ==
    ASSUME NEW p \in Dirs, NEW a, NEW b, Parent[a] = p, Parent[b] = p,
           NEW y, y = a \/ Below(y, a), y = b \/ Below(y, b)
    PROVE  a = b
<1>1. ASSUME NEW c, NEW d, Parent[c] = p, Parent[d] = p, Below(c, d)
      PROVE  FALSE
  <2>1. Below(d, p)
    BY <1>1, BelowIs
  <2>2. d = p \/ Below(p, d)
    BY <1>1, BelowIs
  <2> QED
    BY <2>1, <2>2, NeverBelowItself
<1>2. a = b \/ Below(a, b) \/ Below(b, a)
  BY AncestorsInLine
<1> QED
  BY <1>1, <1>2

LEMMA BetweenFinite ==
    ASSUME NEW via, NEW f
    PROVE  /\ IsFiniteSet(Between(via, f)) /\ Cardinality(Between(via, f)) \in Nat
           /\ \A S : S \subseteq Between(via, f) => Cardinality(S) <= Cardinality(Between(via, f))
<1>1. IsFiniteSet(Dirs) /\ Between(via, f) \in SUBSET Dirs
  BY TreeAssumption DEF Between
<1>2. IsFiniteSet(Between(via, f))
  BY <1>1, FS_Subset
<1> HIDE DEF Between
<1>3. \A S \in SUBSET Between(via, f) : Cardinality(S) <= Cardinality(Between(via, f))
  BY <1>2, FS_Subset
<1> QED
  BY <1>2, <1>3, FS_CardinalityType

\* One level deeper there is one directory more between.
LEMMA BetweenDeeper ==
    ASSUME NEW via \in Dirs, NEW x \in Dirs, NEW e, Parent[e] = x
    PROVE  /\ x = via => Below(e, via) /\ Between(via, e) = {}
           /\ Below(x, via) =>
                 /\ Below(e, via) /\ Between(via, e) = Between(via, x) \cup {x}
                 /\ Cardinality(Between(via, e)) = Cardinality(Between(via, x)) + 1
<1>1. \A d : Below(e, d) <=> d = x \/ Below(x, d)
  BY BelowIs
<1>2. ASSUME x = via
      PROVE  Below(e, via) /\ Between(via, e) = {}
  <2>1. \A d \in Dirs : Below(d, via) => ~(d = x \/ Below(x, d))
    BY <1>2, NeverBelowItself
  <2> QED
    BY <1>1, <1>2, <2>1 DEF Between
<1>3. ASSUME Below(x, via)
      PROVE  /\ Below(e, via) /\ Between(via, e) = Between(via, x) \cup {x}
             /\ Cardinality(Between(via, e)) = Cardinality(Between(via, x)) + 1
  <2>1. Between(via, e) = Between(via, x) \cup {x}
    BY <1>1, <1>3 DEF Between
  <2>2. x \notin Between(via, x)
    BY NeverBelowItself DEF Between
  <2>3. IsFiniteSet(Between(via, x))
    BY BetweenFinite
  <2>4. Cardinality(Between(via, x) \cup {x}) = Cardinality(Between(via, x)) + 1
    BY <2>2, <2>3, FS_AddElement
  <2> QED
    BY <1>1, <1>3, <2>1, <2>4
<1> QED
  BY <1>2, <1>3

-----------------------------------------------------------------------------
(***************************************************************************)
(* The levels of the iterator.                                             *)
(***************************************************************************)
LEMMA SettleIs ==
    ASSUME NEW E, NEW levels \in Seq(E)
    PROVE  /\ Settle(levels) \in Seq(E) /\ Len(Settle(levels)) \in 0..Len(levels)
           /\ \A k \in 1..Len(Settle(levels)) : Settle(levels)[k] = levels[k]
           /\ \A k \in 1..Len(levels) : levels[k] # {} => k \in 1..Len(Settle(levels))
<1> DEFINE K == {0} \cup {k \in DOMAIN levels : levels[k] # {}}
           m == Max(K)
<1>1. Len(levels) \in Nat /\ K \subseteq 0..Len(levels) /\ K # {} /\ K \subseteq Nat
  OBVIOUS
<1>2. \A k \in 1..Len(levels) : levels[k] # {} => k \in K
  OBVIOUS
<1>3. Settle(levels) = SubSeq(levels, 1, m)
  BY DEF Settle
<1> HIDE DEF K
<1>4. IsFiniteSet(0..Len(levels)) /\ K \in SUBSET (0..Len(levels))
  BY <1>1, FS_Interval
<1>5. IsFiniteSet(K)
  BY <1>4, FS_Subset
<1>6. m \in K /\ \A k \in K : k <= m
  BY <1>1, <1>5, MaxOfNumbers
<1> HIDE DEF m
<1>7. m \in 0..Len(levels)
  BY <1>1, <1>6
<1>8. /\ SubSeq(levels, 1, m) \in Seq(E) /\ Len(SubSeq(levels, 1, m)) = m
      /\ \A k \in 1..m : SubSeq(levels, 1, m)[k] = levels[k]
  BY <1>1, <1>7
<1>9. \A k \in 1..Len(levels) : levels[k] # {} => k \in 1..m
  BY <1>1, <1>2, <1>6, <1>7
<1> QED
  BY <1>3, <1>7, <1>8, <1>9

Entry == Dirs \cup Files

\* The iterator will still come to f, unless it turns back before.
Pending(levels, f) ==
    \E k \in 1..Len(levels) : \E x \in levels[k] : x = f \/ Below(f, x)

LEMMA SettlePending ==
    ASSUME NEW E, NEW levels \in Seq(E), NEW f
    PROVE  Pending(Settle(levels), f) <=> Pending(levels, f)
<1>1. /\ Len(Settle(levels)) \in 0..Len(levels) /\ Len(levels) \in Nat
      /\ \A k \in 1..Len(Settle(levels)) : Settle(levels)[k] = levels[k]
      /\ \A k \in 1..Len(levels) : levels[k] # {} => k \in 1..Len(Settle(levels))
  BY SettleIs
<1>2. \A k \in 1..Len(Settle(levels)) : k \in 1..Len(levels)
  BY <1>1
<1> QED
  BY <1>1, <1>2 DEF Pending

(***************************************************************************)
(* D are the directories the levels are of, from r down.  None of them but *)
(* r may be excluded, and on level k there are k - 2 between.              *)
(***************************************************************************)
Link(D, levels, k) ==
    /\ levels[k] \subseteq Entries(D[k])
    /\ k > 1 => Parent[D[k]] = D[k - 1] /\ D[k] \notin levels[k - 1]
    /\ \A i \in 1..(k - 1) : Below(D[k], D[i])
Walked(D, r, k) ==
    k > 1 => /\ Below(D[k], r) /\ Cardinality(Between(r, D[k])) = k - 2
             /\ (Between(r, D[k]) \cup {D[k]}) \cap Excluding(r) = {}
Chain(D, levels, r) ==
    /\ D \in Seq(Dirs) /\ Len(D) = Len(levels)
    /\ D # <<>> => D[1] = r
    /\ \A k \in 1..Len(D) : Link(D, levels, k) /\ Walked(D, r, k)

LEMMA ChainShorter ==
    ASSUME NEW E, NEW levels \in Seq(E), NEW short \in Seq(E), NEW D, NEW r,
           Chain(D, levels, r), Len(short) <= Len(levels),
           \A k \in 1..Len(short) : short[k] \subseteq levels[k]
    PROVE  Chain(SubSeq(D, 1, Len(short)), short, r)
<1> DEFINE m == Len(short)
           C == SubSeq(D, 1, m)
<1>1. /\ D \in Seq(Dirs) /\ Len(D) = Len(levels) /\ m \in Nat /\ m <= Len(D) /\ Len(D) \in Nat
      /\ D # <<>> => D[1] = r
      /\ \A k \in 1..Len(D) : Link(D, levels, k) /\ Walked(D, r, k)
  BY DEF Chain
<1>2. \A k \in 1..m : short[k] \subseteq levels[k]
  OBVIOUS
<1> HIDE DEF m
<1>3. C \in Seq(Dirs) /\ Len(C) = m /\ \A k \in 1..m : C[k] = D[k]
  BY <1>1
<1> HIDE DEF C
<1>4. C # <<>> => C[1] = r
  <2> SUFFICES ASSUME C # <<>> PROVE C[1] = r
    OBVIOUS
  <2>1. 1 \in 1..m
    BY <1>1, <1>3
  <2>2. D # <<>>
    BY <1>1, <2>1
  <2> QED
    BY <1>1, <1>3, <2>1, <2>2
<1>5. ASSUME NEW k \in 1..m
      PROVE  Link(C, short, k) /\ Walked(C, r, k)
  <2>1. k \in 1..Len(D) /\ C[k] = D[k] /\ \A i \in 1..(k - 1) : C[i] = D[i]
    BY <1>1, <1>3
  <2>2. k > 1 => k - 1 \in 1..m /\ C[k - 1] = D[k - 1]
    BY <1>1, <1>3
  <2>3. Link(D, levels, k) /\ Walked(D, r, k)
    BY <1>1, <2>1
  <2> QED
    BY <1>2, <2>1, <2>2, <2>3 DEF Link, Walked
<1> QED
  BY <1>3, <1>4, <1>5 DEF Chain, m, C

\* Going down to an entry of the last directory.
LEMMA ChainLonger ==
    ASSUME NEW E, NEW levels \in Seq(SUBSET E), NEW D, NEW r,
           Chain(D, levels, r), D # <<>>, NEW e \in Dirs, NEW S \in SUBSET E,
           Parent[e] = D[Len(D)], e \notin levels[Len(D)],
           S \subseteq Entries(e), e \notin Excluding(r)
    PROVE  Chain(Append(D, e), Append(levels, S), r)
<1> DEFINE n == Len(D)
           C == Append(D, e)
           L == Append(levels, S)
<1>1. /\ D \in Seq(Dirs) /\ n = Len(levels) /\ n \in Nat /\ n >= 1 /\ D[1] = r
      /\ \A k \in 1..n : Link(D, levels, k) /\ Walked(D, r, k)
  BY DEF Chain
<1>2. /\ C \in Seq(Dirs) /\ Len(C) = n + 1 /\ C[n + 1] = e /\ C # <<>>
      /\ \A k \in 1..n : C[k] = D[k]
  BY <1>1
<1>3. Len(L) = n + 1 /\ L[n + 1] = S /\ \A k \in 1..n : L[k] = levels[k]
  BY <1>1
<1> HIDE DEF C, L
<1>4. C[1] = r
  BY <1>1, <1>2
<1>5. ASSUME NEW k \in 1..n
      PROVE  Link(C, L, k) /\ Walked(C, r, k)
  <2>1. C[k] = D[k] /\ L[k] = levels[k] /\ \A i \in 1..(k - 1) : C[i] = D[i]
    BY <1>1, <1>2, <1>3
  <2>2. k > 1 => C[k - 1] = D[k - 1] /\ L[k - 1] = levels[k - 1]
    BY SMTT(30), <1>1, <1>2, <1>3
  <2>3. Link(D, levels, k) /\ Walked(D, r, k)
    BY <1>1
  <2> QED
    BY <2>1, <2>2, <2>3 DEF Link, Walked
<1>6. Parent[e] = D[n] /\ D[n] \in Dirs /\ r \in Dirs /\ n \in 1..n /\ e \notin levels[n]
  BY <1>1
<1>7. Link(C, L, n + 1)
  <2>1. \A i \in 1..n : Below(e, D[i])
    <3>1. Below(e, D[n])
      BY <1>6, BelowIs
    <3>2. \A i \in 1..(n - 1) : Below(D[n], D[i])
      BY <1>1, <1>6 DEF Link
    <3>3. \A i \in 1..(n - 1) : Below(e, D[i])
      BY <3>1, <3>2, BelowTransitive
    <3>4. \A i \in 1..n : i = n \/ i \in 1..(n - 1)
      BY <1>1
    <3> QED
      BY <3>1, <3>3, <3>4
  <2>2. (n + 1) - 1 = n
    BY <1>1
  <2>3. C[n + 1] = e /\ C[n] = D[n] /\ L[n] = levels[n] /\ L[n + 1] = S
    BY <1>2, <1>3, <1>6
  <2>4. \A i \in 1..n : Below(C[n + 1], C[i])
    BY <1>2, <2>1
  <2> QED
    BY <1>6, <2>2, <2>3, <2>4 DEF Link
<1>8. Walked(C, r, n + 1)
  <2>1. CASE n = 1
    <3>1. Below(e, r) /\ Between(r, e) = {}
      BY <1>1, <1>6, <2>1, BetweenDeeper
    <3>2. Cardinality(Between(r, e)) = 0 /\ (n + 1) - 2 = 0
      BY <2>1, <3>1, FS_EmptySet
    <3> QED
      BY <1>2, <3>1, <3>2 DEF Walked
  <2>2. CASE n # 1
    <3>1. n > 1
      BY <1>1, <2>2
    <3>2. /\ Below(D[n], r) /\ Cardinality(Between(r, D[n])) = n - 2
          /\ (Between(r, D[n]) \cup {D[n]}) \cap Excluding(r) = {}
      BY <1>1, <1>6, <3>1 DEF Walked
    <3>3. /\ Below(e, r) /\ Between(r, e) = Between(r, D[n]) \cup {D[n]}
          /\ Cardinality(Between(r, e)) = Cardinality(Between(r, D[n])) + 1
      BY <1>6, <3>2, BetweenDeeper
    <3>4. Cardinality(Between(r, e)) = (n + 1) - 2
      BY <1>1, <3>2, <3>3
    <3> QED
      BY <1>2, <3>2, <3>3, <3>4 DEF Walked
  <2> QED
    BY <2>1, <2>2
<1>9. \A k \in 1..(n + 1) : k = n + 1 \/ k \in 1..n
  BY <1>1
<1>10. \A k \in 1..Len(C) : Link(C, L, k) /\ Walked(C, r, k)
  BY <1>2, <1>5, <1>7, <1>8, <1>9
<1> QED
  BY <1>2, <1>3, <1>4, <1>10 DEF Chain, C, L

\* An entry of the last level.
LEMMA EntryIs ==
    ASSUME NEW levels, NEW D, NEW r, Chain(D, levels, r), levels # <<>>,
           levels \in Seq(SUBSET Entry), NEW e \in levels[Len(levels)]
    PROVE  /\ D # <<>> /\ Len(D) = Len(levels) /\ Len(D) \in Nat /\ Len(D) >= 1 /\ r \in Dirs
           /\ D[Len(D)] \in Dirs /\ Parent[e] = D[Len(D)] /\ Below(e, r)
           /\ Cardinality(Between(r, e)) = Len(D) - 1
           /\ Between(r, e) \cap Excluding(r) = {}
<1> DEFINE n == Len(D)
<1>1. /\ D \in Seq(Dirs) /\ n = Len(levels) /\ n \in Nat /\ n >= 1 /\ D # <<>> /\ D[1] = r
      /\ \A k \in 1..n : Link(D, levels, k) /\ Walked(D, r, k)
  <2>1. D \in Seq(Dirs) /\ n = Len(levels)
    BY DEF Chain
  <2>2. n \in Nat /\ n >= 1 /\ D # <<>>
    BY <2>1
  <2> QED
    BY <2>1, <2>2 DEF Chain
<1>2. D[n] \in Dirs /\ r \in Dirs /\ n \in 1..n
  BY <1>1
<1>3. Parent[e] = D[n]
  BY <1>1, <1>2 DEF Link, Entries
<1>4. CASE n = 1
  <2>1. Below(e, r) /\ Between(r, e) = {}
    BY <1>1, <1>2, <1>3, <1>4, BetweenDeeper
  <2> QED
    BY <1>1, <1>2, <1>3, <1>4, <2>1, FS_EmptySet
<1>5. CASE n # 1
  <2>1. n > 1
    BY <1>1, <1>5
  <2>2. /\ Below(D[n], r) /\ Cardinality(Between(r, D[n])) = n - 2
        /\ (Between(r, D[n]) \cup {D[n]}) \cap Excluding(r) = {}
    BY <1>1, <1>2, <2>1 DEF Walked
  <2>3. /\ Below(e, r) /\ Between(r, e) = Between(r, D[n]) \cup {D[n]}
        /\ Cardinality(Between(r, e)) = Cardinality(Between(r, D[n])) + 1
    BY <1>2, <1>3, <2>2, BetweenDeeper
  <2>4. Cardinality(Between(r, e)) = n - 1
    BY <1>1, <2>2, <2>3
  <2> QED
    BY <1>1, <1>2, <1>3, <2>2, <2>3, <2>4
<1> QED
  BY <1>4, <1>5

-----------------------------------------------------------------------------
(***************************************************************************)
(* The inductive invariant of the walk: what was found of a file, and what *)
(* the iterator will still find, is one for every include directory opened *)
(* that should find it; at most, if a directory cannot be opened.          *)
(***************************************************************************)
WantedRoots(f, n) ==
    {k \in 1..n : /\ settings.include_dirs[k] \in Dirs
                  /\ Wanted(settings.include_dirs[k], f)
                  /\ Len(content[f]) >= settings.min_size}
Due(levels, r, f) ==
    Pending(levels, f) /\ Wanted(r, f) /\ Len(content[f]) >= settings.min_size
Balanced(list, levels, r, n, f) ==
    LET have == Times(f, Paths(list)) + (IF Due(levels, r, f) THEN 1 ELSE 0) IN
    /\ have <= Cardinality(WantedRoots(f, n))
    /\ denied = {} => have = Cardinality(WantedRoots(f, n))

Opened == Len(settings.include_dirs) - Len(dirs)
RootsLeft ==
    /\ Opened \in Nat
    /\ \A i \in 1..Len(dirs) : dirs[i] = settings.include_dirs[Opened + i]

WalkInv ==
    phase = "scan" =>
        /\ RootsLeft
        /\ \E D : Chain(D, it, root)
        /\ \A f \in Files : Balanced(listing, it, root, Opened, f)

LEMMA WantedRootsGrow ==
    ASSUME NEW f, NEW n \in Nat
    PROVE  /\ Cardinality(WantedRoots(f, n)) \in Nat
           /\ Cardinality(WantedRoots(f, 0)) = 0
           /\ Cardinality(WantedRoots(f, n + 1)) =
                 Cardinality(WantedRoots(f, n))
                 + (IF /\ settings.include_dirs[n + 1] \in Dirs
                       /\ Wanted(settings.include_dirs[n + 1], f)
                       /\ Len(content[f]) >= settings.min_size
                    THEN 1 ELSE 0)
<1> DEFINE A == WantedRoots(f, n)
           B == WantedRoots(f, n + 1)
           more == /\ settings.include_dirs[n + 1] \in Dirs
                   /\ Wanted(settings.include_dirs[n + 1], f)
                   /\ Len(content[f]) >= settings.min_size
<1>1. IsFiniteSet(1..n) /\ A \in SUBSET (1..n)
  BY FS_Interval DEF WantedRoots
<1>2. IsFiniteSet(A)
  BY <1>1, FS_Subset
<1>3. Cardinality(A) \in Nat
  BY <1>2, FS_CardinalityType
<1>4. WantedRoots(f, 0) = {}
  BY DEF WantedRoots
<1>5. B = IF more THEN A \cup {n + 1} ELSE A
  <2>1. \A k : k \in 1..(n + 1) <=> k \in 1..n \/ k = n + 1
    OBVIOUS
  <2> QED
    BY <2>1 DEF WantedRoots
<1>6. n + 1 \notin A
  BY DEF WantedRoots
<1> HIDE DEF A, B, more
<1>7. Cardinality(A \cup {n + 1}) = Cardinality(A) + 1
  BY <1>2, <1>6, FS_AddElement
<1>8. Cardinality(B) = Cardinality(A) + (IF more THEN 1 ELSE 0)
  BY <1>3, <1>5, <1>7
<1> QED
  BY <1>3, <1>4, <1>8, FS_EmptySet DEF A, B, more

LEMMA TimesAppend ==
    ASSUME NEW s \in Seq(Files), NEW x \in Files, NEW f
    PROVE  /\ Times(f, s) \in Nat
           /\ Times(f, Append(s, x)) = Times(f, s) + (IF x = f THEN 1 ELSE 0)
<1> DEFINE n == Len(s)
           t == Append(s, x)
<1>1. t \in Seq(Files) /\ DOMAIN t = 1..(n + 1) /\ n \in Nat /\ DOMAIN s = 1..n
  OBVIOUS
<1>2. t[n + 1] = x /\ \A k \in 1..n : t[k] = s[k]
  OBVIOUS
<1>3. \A k : k \in 1..(n + 1) <=> k \in 1..n \/ k = n + 1
  BY <1>1
<1> HIDE DEF t, n
<1>4. Hits(f, t) = IF x = f THEN Hits(f, s) \cup {n + 1} ELSE Hits(f, s)
  BY <1>1, <1>2, <1>3 DEF Hits
<1>5. n + 1 \notin Hits(f, s)
  BY <1>1 DEF Hits
<1>6. IsFiniteSet(Hits(f, s)) /\ Times(f, s) = Cardinality(Hits(f, s)) /\ Times(f, s) \in Nat
  BY TimesIs
<1>7. Times(f, t) = Cardinality(Hits(f, t))
  BY <1>1, TimesIs
<1>8. Cardinality(Hits(f, s) \cup {n + 1}) = Cardinality(Hits(f, s)) + 1
  BY <1>5, <1>6, FS_AddElement
<1> QED
  BY <1>4, <1>6, <1>7, <1>8 DEF t

LEMMA ListingGrows ==
    ASSUME NEW list \in Seq(Found), NEW x \in Found, NEW f
    PROVE  /\ Times(f, Paths(list)) \in Nat
           /\ Times(f, Paths(Append(list, x))) =
                 Times(f, Paths(list)) + (IF x.path = f THEN 1 ELSE 0)
<1> DEFINE n == Len(list)
           t == Append(list, x)
           p == Paths(list)
           q == Paths(t)
<1>1. \A y \in Found : y.path \in Files
  BY DEF Found
<1>2. /\ t \in Seq(Found) /\ Len(t) = n + 1 /\ n \in Nat
      /\ t[n + 1] = x /\ \A k \in 1..n : t[k] = list[k]
  OBVIOUS
<1>3. p \in Seq(Files) /\ Len(p) = n /\ \A k \in 1..n : p[k] = list[k].path
  BY <1>1, PathsTyped
<1> HIDE DEF t
<1>4. q \in Seq(Files) /\ Len(q) = n + 1 /\ \A k \in 1..(n + 1) : q[k] = t[k].path
  BY <1>1, <1>2, PathsTyped
<1> HIDE DEF p, q, n
<1>5. q = Append(p, x.path)
  <2> DEFINE u == Append(p, x.path)
  <2>1. x.path \in Files
    BY <1>1
  <2>2. /\ u \in Seq(Files) /\ Len(u) = n + 1 /\ u[n + 1] = x.path
        /\ \A k \in 1..n : u[k] = p[k]
    BY <1>3, <2>1
  <2> HIDE DEF u
  <2>3. \A k \in 1..(n + 1) : k \in 1..n \/ k = n + 1
    BY <1>2
  <2>4. \A k \in 1..Len(q) : q[k] = u[k]
    <3> TAKE k \in 1..Len(q)
    <3>1. k \in 1..n \/ k = n + 1
      BY <1>4, <2>3
    <3>2. n + 1 \in 1..(n + 1) /\ \A l \in 1..n : l \in 1..(n + 1)
      BY <1>2
    <3>3. CASE k = n + 1
      BY <1>2, <1>4, <2>2, <3>2, <3>3
    <3>4. CASE k \in 1..n
      BY <1>2, <1>3, <1>4, <2>2, <3>2, <3>4
    <3> QED
      BY <3>1, <3>3, <3>4
  <2>5. q = u
    BY <1>4, <2>2, <2>4, SameSequence
  <2> QED
    BY <2>5 DEF u
<1>6. /\ Times(f, p) \in Nat
      /\ Times(f, Append(p, x.path)) = Times(f, p) + (IF x.path = f THEN 1 ELSE 0)
  BY <1>1, <1>3, TimesAppend
<1> QED
  BY <1>5, <1>6 DEF p, q, t

\* A step that finds nothing: nothing that was due is lost, unless a
\* directory cannot be opened.
LEMMA NothingFound ==
    ASSUME NEW list \in Seq(Found), NEW levels, NEW new, NEW r, NEW n \in Nat, NEW f,
           Balanced(list, levels, r, n, f),
           Due(new, r, f) => Due(levels, r, f),
           denied = {} /\ Due(levels, r, f) => Due(new, r, f)
    PROVE  Balanced(list, new, r, n, f)
<1> DEFINE t == Times(f, Paths(list))
           w == Cardinality(WantedRoots(f, n))
<1>1. w \in Nat
  BY WantedRootsGrow
<1>2. t \in Nat
  <2>1. \A y \in Found : y.path \in Files
    BY DEF Found
  <2>2. Paths(list) \in Seq(Files)
    BY <2>1, PathsTyped
  <2> QED
    BY <2>2, TimesIs
<1>3. /\ t + (IF Due(levels, r, f) THEN 1 ELSE 0) <= w
      /\ denied = {} => t + (IF Due(levels, r, f) THEN 1 ELSE 0) = w
  BY DEF Balanced
<1> HIDE DEF t, w
<1>4. /\ t + (IF Due(new, r, f) THEN 1 ELSE 0) <= w
      /\ denied = {} => t + (IF Due(new, r, f) THEN 1 ELSE 0) = w
  <2>1. CASE Due(new, r, f)
    BY <1>3, <2>1
  <2>2. CASE ~Due(new, r, f)
    <3>1. t + 0 <= w
      BY <1>1, <1>2, <1>3
    <3> QED
      BY <1>3, <2>2, <3>1
  <2> QED
    BY <2>1, <2>2
<1> QED
  BY <1>4 DEF Balanced, t, w

\* What was due is found.
LEMMA DueFound ==
    ASSUME NEW list \in Seq(Found), NEW levels, NEW new, NEW r, NEW n, NEW f,
           Balanced(list, levels, r, n, f), Due(levels, r, f), ~Due(new, r, f),
           NEW x \in Found, x.path = f
    PROVE  Balanced(Append(list, x), new, r, n, f)
<1>1. /\ Times(f, Paths(list)) \in Nat
      /\ Times(f, Paths(Append(list, x))) = Times(f, Paths(list)) + 1
  BY ListingGrows
<1> QED
  BY <1>1 DEF Balanced

LEMMA OtherFound ==
    ASSUME NEW list \in Seq(Found), NEW levels, NEW r, NEW n, NEW f,
           Balanced(list, levels, r, n, f), NEW x \in Found, x.path # f
    PROVE  Balanced(Append(list, x), levels, r, n, f)
<1>1. /\ Times(f, Paths(list)) \in Nat
      /\ Times(f, Paths(Append(list, x))) = Times(f, Paths(list)) + 0
  BY ListingGrows
<1>2. Times(f, Paths(Append(list, x))) = Times(f, Paths(list))
  BY <1>1
<1> QED
  BY <1>2 DEF Balanced

-----------------------------------------------------------------------------
(* One turn of the iterator *)

LEMMA WithoutIs ==
    ASSUME it \in Seq(SUBSET Entry), it # <<>>, NEW e
    PROVE  /\ Len(it) \in Nat /\ Len(it) >= 1 /\ Last(it) = it[Len(it)]
           /\ Front(it) \in Seq(SUBSET Entry) /\ Len(Front(it)) = Len(it) - 1
           /\ \A k \in 1..(Len(it) - 1) : Front(it)[k] = it[k]
           /\ Without(e) \in Seq(SUBSET Entry) /\ Len(Without(e)) = Len(it)
           /\ Without(e)[Len(it)] = it[Len(it)] \ {e}
           /\ \A k \in 1..(Len(it) - 1) : Without(e)[k] = it[k]
<1> DEFINE n == Len(it)
           S == it[n] \ {e}
           F == Front(it)
<1>1. n \in Nat /\ n >= 1 /\ Last(it) = it[n]
  BY DEF Last
<1>2. it[n] \in SUBSET Entry /\ S \in SUBSET Entry
  BY <1>1
<1>3. F = SubSeq(it, 1, n - 1)
  BY DEF Front
<1>4. F \in Seq(SUBSET Entry) /\ Len(F) = n - 1 /\ \A k \in 1..(n - 1) : F[k] = it[k]
  <2> DEFINE E == SUBSET Entry
             G == SubSeq(it, 1, n - 1)
  <2>1. it \in Seq(E) /\ n - 1 \in Nat /\ n - 1 <= Len(it)
    BY <1>1
  <2> HIDE DEF E
  <2>2. G \in Seq(E) /\ Len(G) = n - 1 /\ \A k \in 1..(n - 1) : G[k] = it[k]
    <3> DEFINE m == n - 1
    <3>1. m \in Nat /\ m <= Len(it) /\ G = SubSeq(it, 1, m)
      BY <2>1
    <3> HIDE DEF m, G
    <3>2. \A k \in 1..m : it[k] \in E
      BY <2>1, <3>1
    <3>3. G = [k \in 1..m |-> it[k]]
      BY <2>1, <3>1
    <3>4. G \in Seq(E) /\ Len(G) = m /\ \A k \in 1..m : G[k] = it[k]
      BY <3>1, <3>2, <3>3
    <3> QED
      BY <3>4 DEF m
  <2> QED
    BY <1>3, <2>2 DEF E
<1>5. Without(e) = Append(F, S)
  BY <1>1 DEF Without
<1> HIDE DEF F, S
<1>6. /\ Append(F, S) \in Seq(SUBSET Entry) /\ Len(Append(F, S)) = n
      /\ Append(F, S)[n] = S
      /\ \A k \in 1..(n - 1) : Append(F, S)[k] = F[k]
  <2>1. Append(F, S) \in Seq(SUBSET Entry) /\ Len(Append(F, S)) = Len(F) + 1
    BY <1>2, <1>4
  <2>2. Len(F) + 1 = n
    BY <1>1, <1>4
  <2>3. Append(F, S)[Len(F) + 1] = S
    BY <1>2, <1>4
  <2>4. \A k \in 1..Len(F) : Append(F, S)[k] = F[k]
    BY <1>2, <1>4
  <2> HIDE DEF n
  <2> QED
    BY <1>4, <2>1, <2>2, <2>3, <2>4
<1>7. Without(e)[n] = S /\ \A k \in 1..(n - 1) : Without(e)[k] = it[k]
  BY <1>4, <1>5, <1>6
<1> QED
  BY <1>1, <1>4, <1>5, <1>6, <1>7 DEF F, S

LEMMA SettledChain ==
    ASSUME NEW levels \in Seq(SUBSET Entry), NEW D, NEW r, Chain(D, levels, r)
    PROVE  \E C : Chain(C, Settle(levels), r)
<1> DEFINE L == Settle(levels)
<1>1. /\ L \in Seq(SUBSET Entry) /\ Len(L) <= Len(levels)
      /\ \A k \in 1..Len(L) : L[k] = levels[k]
  BY SettleIs
<1>2. \A k \in 1..Len(L) : L[k] \subseteq levels[k]
  BY <1>1
<1> HIDE DEF L
<1>3. Chain(SubSeq(D, 1, Len(L)), L, r)
  BY <1>1, <1>2, ChainShorter
<1> QED
  BY <1>3 DEF L

LEMMA PendingWithout ==
    ASSUME it \in Seq(SUBSET Entry), it # <<>>, NEW e, NEW f
    PROVE  /\ Pending(Front(it), f) => Pending(it, f)
           /\ Pending(it, f) => \/ Pending(Front(it), f)
                                \/ \E x \in it[Len(it)] : x = f \/ Below(f, x)
           /\ Pending(Without(e), f) => Pending(it, f)
           /\ Pending(it, f) => Pending(Without(e), f) \/ e = f \/ Below(f, e)
<1> DEFINE n == Len(it)
<1>1. /\ n \in Nat /\ n >= 1
      /\ Len(Front(it)) = n - 1 /\ \A k \in 1..(n - 1) : Front(it)[k] = it[k]
      /\ Len(Without(e)) = n /\ Without(e)[n] = it[n] \ {e}
      /\ \A k \in 1..(n - 1) : Without(e)[k] = it[k]
  BY WithoutIs
<1>2. \A k : k \in 1..n <=> k \in 1..(n - 1) \/ k = n
  BY <1>1
<1> QED
  BY <1>1, <1>2 DEF Pending

LEMMA PendingAppend ==
    ASSUME NEW levels \in Seq(SUBSET Entry), NEW S \in SUBSET Entry, NEW f
    PROVE  Pending(Append(levels, S), f) <=>
              Pending(levels, f) \/ \E x \in S : x = f \/ Below(f, x)
<1> DEFINE n == Len(levels)
           L == Append(levels, S)
<1>1. /\ n \in Nat /\ Len(L) = n + 1 /\ L[n + 1] = S /\ \A k \in 1..n : L[k] = levels[k]
  OBVIOUS
<1>2. \A k : k \in 1..(n + 1) <=> k \in 1..n \/ k = n + 1
  BY <1>1
<1> HIDE DEF L, n
<1>3. Pending(L, f) <=> \E k \in 1..(n + 1) : \E x \in L[k] : x = f \/ Below(f, x)
  BY <1>1 DEF Pending
<1>4. Pending(levels, f) <=> \E k \in 1..n : \E x \in levels[k] : x = f \/ Below(f, x)
  BY DEF Pending, n
<1> QED
  BY <1>1, <1>2, <1>3, <1>4 DEF L

\* What is below a directory is below its entries, or one of them.
LEMMA PendingEntries ==
    ASSUME NEW f \in Files, NEW e \in Dirs
    PROVE  (\E x \in Entries(e) : x = f \/ Below(f, x)) <=> Below(f, e)
<1>1. ASSUME NEW x \in Entries(e), x = f \/ Below(f, x)
      PROVE  Below(f, e)
  <2>1. Below(x, e)
    BY <1>1, BelowIs DEF Entries
  <2> QED
    BY <1>1, <2>1, BelowTransitive
<1>2. ASSUME Below(f, e), ~\E x \in Entries(e) : x = f \/ Below(f, x)
      PROVE  FALSE
  <2> DEFINE S == {d \in Ancestors(f) : Below(d, e)}
  <2>1. Ancestors(f) \subseteq Dirs /\ Climbs(Ancestors(f), f) /\ e \in Ancestors(f)
    BY <1>2, AncestorsClimb DEF Below
  <2>2. ASSUME NEW x \in S \cup {f}, Parent[x] \in Dirs
        PROVE  Parent[x] \in S
    <3>1. Parent[x] \in Ancestors(f)
      BY <2>1, <2>2 DEF Climbs
    <3>2. Below(x, e)
      BY <1>2
    <3>3. x \in Dirs \cup Files /\ (x = f \/ Below(f, x))
      BY <2>1 DEF Below
    <3>4. Parent[x] # e
      BY <1>2, <3>3 DEF Entries
    <3>5. Below(Parent[x], e)
      BY <3>2, <3>4, BelowIs
    <3> QED
      BY <3>1, <3>5
  <2>3. Climbs(S, f)
    BY <2>2 DEF Climbs
  <2>4. Ancestors(f) \subseteq S
    BY <2>1, <2>3, AncestorsLeast
  <2>5. Below(e, e)
    BY <2>1, <2>4
  <2> QED
    BY <2>5, NeverBelowItself
<1> QED
  BY <1>1, <1>2

\* The iterator comes to a file once.
LEMMA NotTwice ==
    ASSUME it \in Seq(SUBSET Entry), it # <<>>, NEW D, Chain(D, it, root),
           NEW e \in it[Len(it)]
    PROVE  ~Pending(Without(e), e)
<1> DEFINE n == Len(it)
<1>1. /\ n \in Nat /\ n >= 1 /\ Len(Without(e)) = n /\ Without(e)[n] = it[n] \ {e}
      /\ \A k \in 1..(n - 1) : Without(e)[k] = it[k]
  BY WithoutIs
<1>2. /\ D \in Seq(Dirs) /\ Len(D) = n /\ \A k \in 1..n : Link(D, it, k)
  BY DEF Chain
<1>3. D[n] \in Dirs /\ Parent[e] = D[n]
  BY EntryIs
<1> SUFFICES ASSUME NEW k \in 1..n, NEW x \in Without(e)[k], x = e \/ Below(e, x)
             PROVE  FALSE
  BY <1>1 DEF Pending
<1>4. CASE k = n
  <2>1. x \in it[n] /\ x # e
    BY <1>1, <1>4
  <2>2. Parent[x] = D[n]
    <3>1. n \in 1..n
      BY <1>1
    <3> QED
      BY <1>2, <2>1, <3>1 DEF Link, Entries
  <2>3. x = e
    BY <1>3, <2>2, Siblings
  <2> QED
    BY <2>1, <2>3
<1>5. CASE k # n
  <2>1. k \in 1..(n - 1) /\ k + 1 \in 1..n /\ (k + 1) - 1 = k /\ k + 1 > 1 /\ n \in 1..n
    BY <1>1, <1>5
  <2>2. x \in it[k] /\ Parent[x] = D[k] /\ D[k] \in Dirs
    BY <1>1, <1>2, <2>1 DEF Link, Entries
  <2>3. Parent[D[k + 1]] = D[k] /\ D[k + 1] \notin it[k]
    <3>1. Link(D, it, k + 1)
      BY <1>2, <2>1
    <3> QED
      BY <2>1, <3>1 DEF Link
  <2>4. Below(e, D[n])
    BY <1>3, BelowIs
  <2>5. D[k + 1] = D[n] \/ Below(D[n], D[k + 1])
    <3>1. k + 1 = n \/ k + 1 \in 1..(n - 1)
      BY <2>1
    <3>2. Link(D, it, n)
      BY <1>2, <2>1
    <3> QED
      BY <3>1, <3>2 DEF Link
  <2>6. Below(e, D[k + 1])
    BY <2>4, <2>5, BelowTransitive
  <2>7. x = D[k + 1]
    <3> DEFINE p == D[k]
               b == D[k + 1]
    <3>1. p \in Dirs /\ Parent[x] = p /\ Parent[b] = p /\ Below(e, b) /\ (e = x \/ Below(e, x))
      BY <2>2, <2>3, <2>6
    <3> HIDE DEF p, b
    <3>2. x = b
      BY <3>1, Siblings
    <3> QED
      BY <3>2 DEF b
  <2> QED
    BY <2>2, <2>3, <2>7
<1> QED
  BY <1>4, <1>5

\* Where the iterator turns back nothing is wanted.
LEMMA TooDeepUnwanted ==
    ASSUME it \in Seq(SUBSET Entry), it # <<>>, NEW D, Chain(D, it, root),
           settings \in Settings, TooDeep,
           NEW x \in it[Len(it)], NEW f, x = f \/ Below(f, x)
    PROVE  ~Wanted(root, f)
<1>1. /\ Len(D) = Len(it) /\ Len(it) \in Nat /\ Below(x, root)
      /\ Cardinality(Between(root, x)) = Len(D) - 1
  BY EntryIs
<1>2. Between(root, x) \subseteq Between(root, f)
  BY BelowTransitive DEF Between
<1>3. /\ Cardinality(Between(root, f)) \in Nat
      /\ Cardinality(Between(root, x)) <= Cardinality(Between(root, f))
  BY <1>2, BetweenFinite
<1>4. settings.max_depth \in Int /\ settings.max_depth >= 0 /\ Len(it) - 1 > settings.max_depth
  BY FileAssumption DEF TooDeep
<1>5. ~(Cardinality(Between(root, f)) <= settings.max_depth)
  BY <1>1, <1>3, <1>4
<1> QED
  BY <1>4, <1>5 DEF Wanted

LEMMA ExcludedUnwanted ==
    ASSUME it \in Seq(SUBSET Entry), it # <<>>, NEW D, Chain(D, it, root),
           NEW e \in it[Len(it)], e \in Dirs, is_path_excluded(e), NEW f, Below(f, e)
    PROVE  ~Wanted(root, f)
<1>1. Below(e, root)
  BY EntryIs
<1>2. e \in Between(root, f)
  BY <1>1 DEF Between
<1>3. e \in Excluding(root)
  BY DEF is_path_excluded, SameSpelling, Excluding
<1> QED
  BY <1>2, <1>3 DEF Wanted

\* and where it does not, a file of the level is wanted if its name fits
LEMMA EntryWanted ==
    ASSUME it \in Seq(SUBSET Entry), it # <<>>, NEW D, Chain(D, it, root),
           settings \in Settings, ~TooDeep, NEW e \in it[Len(it)]
    PROVE  Wanted(root, e) <=> e \in settings.masked
<1>1. /\ Len(D) = Len(it) /\ Len(it) \in Nat /\ Below(e, root)
      /\ Cardinality(Between(root, e)) = Len(D) - 1
      /\ Between(root, e) \cap Excluding(root) = {}
  BY EntryIs
<1>2. settings.max_depth \in Int
  BY FileAssumption
<1>3. settings.max_depth >= 0 => Cardinality(Between(root, e)) <= settings.max_depth
  BY <1>1, <1>2 DEF TooDeep
<1> QED
  BY <1>1, <1>3 DEF Wanted

-----------------------------------------------------------------------------
(* The walk, action by action *)

LEMMA SameSettings ==
    ASSUME settings' = settings, content' = content, denied' = denied
    PROVE  /\ \A D : Chain(D, it, root)' <=> Chain(D, it', root')
           /\ \A f : Balanced(listing, it, root, Opened, f)'
                        <=> Balanced(listing', it', root', Opened', f)
<1>1. \A r : Excluding(r)' = Excluding(r)
  BY DEF Excluding
<1>2. \A D : Chain(D, it, root)' <=> Chain(D, it', root')
  BY <1>1 DEF Chain, Link, Walked
<1>3. \A r, f : Wanted(r, f)' <=> Wanted(r, f)
  BY <1>1 DEF Wanted
<1>4. \A n, f : WantedRoots(f, n)' = WantedRoots(f, n)
  BY <1>3 DEF WantedRoots
<1>5. \A f : Due(it, root, f)' <=> Due(it', root', f)
  BY <1>1 DEF Due, Wanted
<1>6. \A f : WantedRoots(f, Opened)' = WantedRoots(f, Opened')
  BY <1>1 DEF WantedRoots, Wanted
<1>7. \A f : Balanced(listing, it, root, Opened, f)'
                <=> Balanced(listing', it', root', Opened', f)
  BY <1>5, <1>6 DEF Balanced
<1> QED
  BY <1>2, <1>7

LEMMA WalkStart == BayanInit => WalkInv
<1> SUFFICES ASSUME BayanInit PROVE WalkInv
  OBVIOUS
<1>1. settings \in Settings /\ dirs = settings.include_dirs /\ it = <<>> /\ listing = <<>>
  BY DEF BayanInit
<1>2. Len(dirs) \in Nat /\ Opened = 0 /\ RootsLeft
  <2>1. Len(dirs) \in Nat
    BY <1>1, SettingsTyped
  <2>2. Opened = 0
    BY <1>1, <2>1 DEF Opened
  <2>3. \A i \in 1..Len(dirs) : 0 + i = i
    BY <2>1
  <2> QED
    BY <1>1, <2>1, <2>2, <2>3 DEF RootsLeft
<1>3. Chain(<<>>, it, root)
  BY <1>1 DEF Chain
<1>4. ASSUME NEW f \in Files
      PROVE  Balanced(listing, it, root, Opened, f)
  <2>1. ~Due(it, root, f)
    BY <1>1 DEF Due, Pending
  <2>2. Times(f, Paths(listing)) = 0
    <3>1. {k \in DOMAIN Paths(listing) : Paths(listing)[k] = f} = {}
      BY <1>1 DEF Paths
    <3> QED
      BY <3>1, FS_EmptySet DEF Times
  <2>3. Cardinality(WantedRoots(f, 0)) = 0
    BY WantedRootsGrow
  <2> QED
    BY <1>2, <2>1, <2>2, <2>3 DEF Balanced
<1> QED
  BY <1>2, <1>3, <1>4 DEF WalkInv

LEMMA OpenDirWalks ==
    ASSUME BayanTypeOK, WalkInv, open_dir
    PROVE  WalkInv'
<1> SUFFICES ASSUME phase' = "scan" PROVE WalkInv'
  BY DEF WalkInv
<1> DEFINE r == Head(dirs)
           n == Opened
<1>1. /\ phase = "scan" /\ phase' = phase /\ it = <<>> /\ dirs # <<>>
      /\ dirs' = Tail(dirs) /\ root' = r /\ listing' = listing
      /\ settings' = settings /\ content' = content /\ denied' = denied
      /\ it' = IF r \in Dirs \ denied THEN Settle(<<Entries(r)>>) ELSE <<>>
  BY DEF open_dir, env
<1>2. /\ dirs \in Seq(Roots) /\ listing \in Seq(Found) /\ settings \in Settings
  BY DEF BayanTypeOK, WalkTypeOK
<1>3. /\ RootsLeft /\ \A f \in Files : Balanced(listing, it, root, Opened, f)
  BY <1>1 DEF WalkInv
<1>4. Len(settings.include_dirs) \in Nat
  BY <1>2, SettingsTyped
<1>5. n \in Nat /\ Opened' = n + 1 /\ settings.include_dirs[n + 1] = r /\ RootsLeft'
  <2>1. /\ Len(dirs) \in Nat /\ Len(dirs) >= 1 /\ r = dirs[1] /\ Len(dirs') = Len(dirs) - 1
        /\ \A i \in 1..Len(dirs') : dirs'[i] = dirs[i + 1]
    BY <1>1, <1>2
  <2>2. n \in Nat /\ \A i \in 1..Len(dirs) : dirs[i] = settings.include_dirs[n + i]
    BY <1>3 DEF RootsLeft
  <2>3. Opened' = n + 1
    BY <1>1, <1>4, <2>1 DEF Opened
  <2>4. ASSUME NEW i \in 1..Len(dirs')
        PROVE  dirs'[i] = settings.include_dirs[(n + 1) + i]
    <3>1. i + 1 \in 1..Len(dirs) /\ n + (i + 1) = (n + 1) + i
      BY <2>1, <2>2
    <3> QED
      BY <2>1, <2>2, <3>1
  <2>5. settings.include_dirs[n + 1] = r
    BY <2>1, <2>2
  <2> HIDE DEF n
  <2>6. \A i \in 1..Len(dirs') : dirs'[i] = settings'.include_dirs[Opened' + i]
    BY <1>1, <2>3, <2>4
  <2>7. Opened' \in Nat
    BY <2>2, <2>3
  <2> QED
    BY <2>2, <2>3, <2>5, <2>6, <2>7 DEF RootsLeft
<1> HIDE DEF r, n
<1>6. CASE r \in Dirs \ denied
  <2> DEFINE levels == <<Entries(r)>>
  <2>1. levels \in Seq(SUBSET Entry) /\ Len(levels) = 1 /\ levels[1] = Entries(r)
    BY DEF Entries, Entry
  <2> HIDE DEF levels
  <2>2. Chain(<<r>>, levels, r)
    <3> DEFINE D == <<r>>
    <3>1. D \in Seq(Dirs) /\ Len(D) = 1 /\ D[1] = r
      BY <1>6
    <3> HIDE DEF D
    <3>2. ASSUME NEW k \in 1..1
          PROVE  Link(D, levels, k) /\ Walked(D, r, k)
      <4>1. k = 1 /\ ~(k > 1) /\ 1..(k - 1) = {}
        OBVIOUS
      <4> QED
        BY <2>1, <3>1, <4>1 DEF Link, Walked
    <3>3. Chain(D, levels, r)
      BY <2>1, <3>1, <3>2 DEF Chain
    <3> QED
      BY <3>3 DEF D
  <2>3. it' = Settle(levels)
    BY <1>1, <1>6 DEF levels
  <2>4. \E D : Chain(D, it', r)
    BY <2>1, <2>2, <2>3, SettledChain
  <2>5. ASSUME NEW f \in Files
        PROVE  Pending(it', f) <=> Below(f, r)
    <3>1. Pending(it', f) <=> Pending(levels, f)
      BY <2>1, <2>3, SettlePending
    <3>2. Pending(levels, f) <=> \E x \in Entries(r) : x = f \/ Below(f, x)
      <4>1. 1..1 = {1}
        OBVIOUS
      <4> QED
        BY <2>1, <4>1 DEF Pending
    <3> QED
      BY <1>6, <3>1, <3>2, PendingEntries
  <2>6. ASSUME NEW f \in Files
        PROVE  Balanced(listing, it', r, n + 1, f)
    <3> DEFINE t == Times(f, Paths(listing))
               w == Cardinality(WantedRoots(f, n))
               v == Cardinality(WantedRoots(f, n + 1))
               due == Due(it', r, f)
    <3>1. ~Due(it, root, f)
      BY <1>1 DEF Due, Pending
    <3>2. /\ t + 0 <= w
          /\ denied = {} => t + 0 = w
      BY <1>3, <3>1 DEF Balanced, n
    <3>3. due <=> Wanted(r, f) /\ Len(content[f]) >= settings.min_size
      BY <2>5 DEF Due, Wanted
    <3>4. w \in Nat /\ v = w + (IF due THEN 1 ELSE 0)
      BY <1>5, <1>6, <3>3, WantedRootsGrow
    <3>5. t \in Nat
      <4>1. \A y \in Found : y.path \in Files
        BY DEF Found
      <4>2. Paths(listing) \in Seq(Files)
        BY <1>2, <4>1, PathsTyped
      <4> QED
        BY <4>2, TimesIs
    <3> HIDE DEF t, w, v, due
    <3>6. /\ t + (IF due THEN 1 ELSE 0) <= v
          /\ denied = {} => t + (IF due THEN 1 ELSE 0) = v
      BY <3>2, <3>4, <3>5
    <3> QED
      BY <3>6 DEF Balanced, t, v, due
  <2> QED
    BY <1>1, <1>5, <2>4, <2>6, SameSettings DEF WalkInv
<1>7. CASE ~(r \in Dirs \ denied)
  <2>1. it' = <<>>
    BY <1>1, <1>7
  <2>2. Chain(<<>>, it', r)
    BY <2>1 DEF Chain
  <2>3. ASSUME NEW f \in Files
        PROVE  Balanced(listing, it', r, n + 1, f)
    <3> DEFINE t == Times(f, Paths(listing))
               w == Cardinality(WantedRoots(f, n))
               v == Cardinality(WantedRoots(f, n + 1))
    <3>1. ~Due(it, root, f) /\ ~Due(it', r, f)
      BY <1>1, <2>1 DEF Due, Pending
    <3>2. /\ t + 0 <= w
          /\ denied = {} => t + 0 = w
      BY <1>3, <3>1 DEF Balanced, n
    <3>3. w \in Nat /\ v \in Nat /\ w <= v /\ (denied = {} => v = w)
      <4>1. denied = {} => r \notin Dirs
        BY <1>7
      <4>2. w \in Nat
        BY <1>5, WantedRootsGrow
      <4> DEFINE one == /\ settings.include_dirs[n + 1] \in Dirs
                        /\ Wanted(settings.include_dirs[n + 1], f)
                        /\ Len(content[f]) >= settings.min_size
      <4>a. v = w + (IF one THEN 1 ELSE 0)
        BY <1>5, WantedRootsGrow
      <4>b. one => r \in Dirs
        BY <1>5
      <4> HIDE DEF w, v, one
      <4>3. /\ v = w \/ v = w + 1
            /\ r \notin Dirs => v = w + 0
        BY <4>2, <4>a, <4>b
      <4> QED
        BY <4>1, <4>2, <4>3
    <3>4. t \in Nat
      <4>1. \A y \in Found : y.path \in Files
        BY DEF Found
      <4>2. Paths(listing) \in Seq(Files)
        BY <1>2, <4>1, PathsTyped
      <4> QED
        BY <4>2, TimesIs
    <3> HIDE DEF t, w, v
    <3>5. t + 0 <= v /\ (denied = {} => t + 0 = v)
      BY <3>2, <3>3, <3>4
    <3> QED
      BY <3>1, <3>5 DEF Balanced, t, v
  <2> QED
    BY <1>1, <1>5, <2>2, <2>3, SameSettings DEF WalkInv
<1> QED
  BY <1>6, <1>7

\* If nothing is found and what is lost was not wanted, all stays balanced.
LEMMA VisitBalanced ==
    ASSUME NEW list \in Seq(Found), NEW levels, NEW r, NEW n \in Nat, NEW new, NEW f,
           Balanced(list, levels, r, n, f),
           Pending(new, f) => Pending(levels, f),
           Pending(levels, f) => Pending(new, f) \/ ~Wanted(r, f)
    PROVE  Balanced(list, new, r, n, f)
<1>1. Due(new, r, f) <=> Due(levels, r, f)
  BY DEF Due
<1> QED
  BY <1>1, NothingFound

LEMMA VisitWalks ==
    ASSUME BayanTypeOK, WalkInv, visit
    PROVE  WalkInv'
<1> DEFINE n == Opened
           m == Len(it)
<1>1. /\ phase = "scan" /\ phase' = phase /\ it # <<>>
      /\ dirs' = dirs /\ root' = root
      /\ settings' = settings /\ content' = content /\ denied' = denied
  BY DEF visit, env
<1>2. /\ it \in Seq(SUBSET Entry) /\ listing \in Seq(Found) /\ settings \in Settings
      /\ root \in Roots /\ content \in [Files -> Contents]
  BY DEF BayanTypeOK, WalkTypeOK, FilesTypeOK, Entry
<1>3. /\ RootsLeft /\ n \in Nat
      /\ \A f \in Files : Balanced(listing, it, root, n, f)
  BY <1>1 DEF WalkInv, RootsLeft
<1>4. PICK D : Chain(D, it, root)
  BY <1>1 DEF WalkInv
<1>5. Opened' = n /\ RootsLeft'
  BY <1>1, <1>3 DEF Opened, RootsLeft
<1> HIDE DEF n
<1>6. PICK e \in Last(it) :
          \/ /\ TooDeep
             /\ it' = Settle(Front(it))
             /\ UNCHANGED listing
          \/ /\ ~TooDeep
             /\ e \in Dirs
             /\ it' = IF is_path_excluded(e) THEN Settle(Without(e))
                      ELSE IF e \in denied THEN <<>>
                      ELSE Settle(Append(Without(e), Entries(e)))
             /\ UNCHANGED listing
          \/ /\ ~TooDeep
             /\ e \in Files
             /\ it' = Settle(Without(e))
             /\ listing' = IF ~Allowed(e) THEN listing
                           ELSE Append(listing, [path |-> e, via |-> root,
                                                 size |-> Len(content[e])])
  BY DEF visit
<1>7. /\ m \in Nat /\ m >= 1 /\ e \in it[m]
      /\ Front(it) \in Seq(SUBSET Entry) /\ Len(Front(it)) = m - 1
      /\ \A k \in 1..(m - 1) : Front(it)[k] = it[k]
      /\ Without(e) \in Seq(SUBSET Entry) /\ Len(Without(e)) = m
      /\ Without(e)[m] = it[m] \ {e}
      /\ \A k \in 1..(m - 1) : Without(e)[k] = it[k]
  BY <1>1, <1>2, <1>6, WithoutIs
<1>8. /\ D # <<>> /\ Len(D) = m /\ D[Len(D)] \in Dirs /\ Parent[e] = D[Len(D)]
  BY <1>1, <1>2, <1>4, <1>7, EntryIs
<1> HIDE DEF m
<1>9. \E C : Chain(C, Settle(Front(it)), root)
  <2>1. Len(Front(it)) <= Len(it) /\ \A k \in 1..Len(Front(it)) : Front(it)[k] \subseteq it[k]
    BY <1>7 DEF m
  <2>2. Chain(SubSeq(D, 1, Len(Front(it))), Front(it), root)
    BY <1>2, <1>4, <1>7, <2>1, ChainShorter
  <2> QED
    BY <1>7, <2>2, SettledChain
<1>10. Chain(D, Without(e), root)
  <2>1. D \in Seq(Dirs) /\ Len(D) = Len(it) /\ Len(Without(e)) = Len(it)
    BY <1>4, <1>7 DEF Chain, m
  <2>2. \A k \in 1..Len(D) : Without(e)[k] \subseteq it[k]
    <3>1. \A k \in 1..m : k = m \/ k \in 1..(m - 1)
      BY <1>7
    <3> QED
      BY <1>7, <1>8, <3>1
  <2>3. ASSUME NEW k \in 1..Len(D)
        PROVE  Link(D, Without(e), k) /\ Walked(D, root, k)
    <3>1. k > 1 => k - 1 \in 1..Len(D)
      BY <2>1
    <3>2. Link(D, it, k) /\ Walked(D, root, k)
      BY <1>4 DEF Chain
    <3> QED
      BY <2>2, <3>1, <3>2 DEF Link
  <2> QED
    BY <1>4, <2>1, <2>3 DEF Chain
<1>11. \E C : Chain(C, Settle(Without(e)), root)
  BY <1>7, <1>10, SettledChain
<1>12. SUFFICES /\ \E C : Chain(C, it', root)
                /\ \A f \in Files : Balanced(listing', it', root, n, f)
  BY <1>1, <1>5, SameSettings DEF WalkInv
<1>13. ASSUME TooDeep, it' = Settle(Front(it)), listing' = listing, NEW f \in Files
       PROVE  Balanced(listing', it', root, n, f)
  <2>1. Pending(it', f) <=> Pending(Front(it), f)
    BY <1>7, <1>13, SettlePending
  <2>2. \A x \in it[Len(it)] : x = f \/ Below(f, x) => ~Wanted(root, f)
    BY <1>1, <1>2, <1>4, <1>13, TooDeepUnwanted
  <2>3. /\ Pending(Front(it), f) => Pending(it, f)
        /\ Pending(it, f) => Pending(Front(it), f) \/ ~Wanted(root, f)
    BY <1>1, <1>2, <2>2, PendingWithout
  <2> QED
    BY <1>2, <1>3, <1>13, <2>1, <2>3, VisitBalanced
<1>14. ASSUME NEW f \in Files
       PROVE  /\ Pending(Settle(Without(e)), f) <=> Pending(Without(e), f)
              /\ Pending(Without(e), f) => Pending(it, f)
              /\ Pending(it, f) => Pending(Without(e), f) \/ e = f \/ Below(f, e)
  BY <1>1, <1>2, <1>7, SettlePending, PendingWithout
<1>15. ASSUME ~TooDeep, e \in Dirs, is_path_excluded(e), it' = Settle(Without(e)),
              listing' = listing, NEW f \in Files
       PROVE  Balanced(listing', it', root, n, f)
  <2>1. e # f
    BY <1>15, FileAssumption
  <2>2. Below(f, e) => ~Wanted(root, f)
    BY <1>1, <1>2, <1>4, <1>7, <1>15, ExcludedUnwanted DEF m
  <2>3. /\ Pending(it', f) => Pending(it, f)
        /\ Pending(it, f) => Pending(it', f) \/ ~Wanted(root, f)
    BY <1>14, <1>15, <2>1, <2>2
  <2> QED
    BY <1>2, <1>3, <1>15, <2>3, VisitBalanced
<1>16. ASSUME ~TooDeep, e \in Dirs, ~is_path_excluded(e), e \in denied, it' = <<>>,
              listing' = listing
       PROVE  /\ Chain(<<>>, it', root)
              /\ \A f \in Files : Balanced(listing', it', root, n, f)
  <2>1. Chain(<<>>, it', root) /\ denied # {} /\ \A f : ~Due(it', root, f)
    BY <1>16 DEF Chain, Due, Pending
  <2> QED
    BY <1>2, <1>3, <1>16, <2>1, NothingFound
<1>17. ASSUME ~TooDeep, e \in Dirs, ~is_path_excluded(e),
              it' = Settle(Append(Without(e), Entries(e))), listing' = listing
       PROVE  /\ \E C : Chain(C, it', root)
              /\ \A f \in Files : Balanced(listing', it', root, n, f)
  <2> DEFINE L == Append(Without(e), Entries(e))
  <2>1. L \in Seq(SUBSET Entry) /\ Entries(e) \in SUBSET Entry
    BY <1>7 DEF Entries, Entry
  <2>2. e \notin Excluding(root)
    BY <1>17 DEF is_path_excluded, SameSpelling, Excluding
  <2>3. e \notin Without(e)[Len(D)]
    BY <1>7, <1>8
  <2>4. Chain(Append(D, e), L, root)
    BY <1>7, <1>8, <1>10, <1>17, <2>1, <2>2, <2>3, ChainLonger
  <2> HIDE DEF L
  <2>5. \E C : Chain(C, it', root)
    BY <1>17, <2>1, <2>4, SettledChain DEF L
  <2>6. ASSUME NEW f \in Files
        PROVE  Balanced(listing', it', root, n, f)
    <3>1. Pending(it', f) <=> Pending(L, f)
      BY <1>17, <2>1, SettlePending DEF L
    <3>2. Pending(L, f) <=> Pending(Without(e), f) \/ \E x \in Entries(e) : x = f \/ Below(f, x)
      BY <1>7, <2>1, PendingAppend DEF L
    <3>3. Pending(L, f) <=> Pending(Without(e), f) \/ Below(f, e)
      BY <1>17, <3>2, PendingEntries
    <3>4. e # f
      BY <1>17, FileAssumption
    <3>5. Below(f, e) => Pending(it, f)
      <4>1. m \in 1..Len(it)
        BY <1>7 DEF m
      <4> QED
        BY <1>7, <4>1 DEF Pending
    <3>6. Pending(it', f) <=> Pending(it, f)
      BY <1>14, <3>1, <3>3, <3>4, <3>5
    <3> QED
      BY <1>2, <1>3, <1>17, <3>6, VisitBalanced
  <2> QED
    BY <2>5, <2>6
<1>18. ASSUME ~TooDeep, e \in Files, it' = Settle(Without(e)),
              listing' = IF ~Allowed(e) THEN listing
                         ELSE Append(listing, [path |-> e, via |-> root,
                                               size |-> Len(content[e])]),
              NEW f \in Files
       PROVE  Balanced(listing', it', root, n, f)
  <2> DEFINE x == [path |-> e, via |-> root, size |-> Len(content[e])]
  <2>1. x \in Found /\ x.path = e
    <3>1. Len(content[e]) \in Nat
      BY <1>2, <1>18, FileAssumption
    <3> QED
      BY <1>2, <1>18, <3>1 DEF Found
  <2>2. listing' = IF Allowed(e) THEN Append(listing, x) ELSE listing
    BY <1>18
  <2> HIDE DEF x
  <2>3. ~Below(f, e)
    <3>1. e \notin Dirs
      BY <1>18, FileAssumption
    <3> QED
      BY <3>1, AncestorsClimb DEF Below
  <2>4. CASE f # e
    <3>1. Pending(it', f) <=> Pending(it, f)
      BY <1>14, <1>18, <2>3, <2>4
    <3>2. Balanced(listing, it', root, n, f)
      BY <1>2, <1>3, <3>1, VisitBalanced
    <3>3. Balanced(Append(listing, x), it', root, n, f)
      BY <1>2, <2>1, <2>4, <3>2, OtherFound
    <3> QED
      BY <2>2, <3>2, <3>3
  <2>5. CASE f = e
    <3>1. ~Pending(it', f)
      BY <1>1, <1>2, <1>4, <1>7, <1>14, <1>18, <2>5, NotTwice DEF m
    <3>2. Pending(it, f)
      <4>1. m \in 1..Len(it)
        BY <1>7 DEF m
      <4> QED
        BY <1>7, <2>5, <4>1 DEF Pending
    <3>3. Wanted(root, f) <=> f \in settings.masked
      BY <1>1, <1>2, <1>4, <1>7, <1>18, <2>5, EntryWanted DEF m
    <3>4. Due(it, root, f) <=> Allowed(f)
      BY <3>2, <3>3 DEF Due, Allowed
    <3>5. ~Due(it', root, f)
      BY <3>1 DEF Due
    <3>6. CASE Allowed(f)
      <4>1. Balanced(Append(listing, x), it', root, n, f)
        BY <1>2, <1>3, <2>1, <2>5, <3>4, <3>5, <3>6, DueFound
      <4> QED
        BY <2>2, <2>5, <3>6, <4>1
    <3>7. CASE ~Allowed(f)
      <4>1. Balanced(listing, it', root, n, f)
        BY <1>2, <1>3, <3>4, <3>5, <3>7, NothingFound
      <4> QED
        BY <2>2, <2>5, <3>7, <4>1
    <3> QED
      BY <3>6, <3>7
  <2> QED
    BY <2>4, <2>5
<1> QED
  BY <1>6, <1>9, <1>11, <1>13, <1>15, <1>16, <1>17, <1>18

-----------------------------------------------------------------------------
(* The listing is complete when the comparison begins *)

\* ListingComplete, once nothing is left to walk
LEMMA WalkEnds ==
    ASSUME WalkInv, BayanTypeOK, phase = "scan", it = <<>>, dirs = <<>>, NEW f \in Files
    PROVE  /\ Times(f, Paths(listing)) <= Cardinality(WantedRoots(f, Len(settings.include_dirs)))
           /\ denied = {} =>
                 Times(f, Paths(listing)) = Cardinality(WantedRoots(f, Len(settings.include_dirs)))
<1> DEFINE t == Times(f, Paths(listing))
           l == Len(settings.include_dirs)
           w == Cardinality(WantedRoots(f, l))
<1>1. settings \in Settings /\ listing \in Seq(Found)
  BY DEF BayanTypeOK, WalkTypeOK
<1>2. l \in Nat
  BY <1>1, SettingsTyped
<1>3. Opened = l
  BY <1>2 DEF Opened
<1>4. Balanced(listing, it, root, l, f)
  BY <1>3 DEF WalkInv
<1>5. ~Due(it, root, f)
  BY DEF Due, Pending
<1>6. t + 0 <= w /\ (denied = {} => t + 0 = w)
  BY <1>4, <1>5 DEF Balanced
<1>7. t \in Nat
  <2>1. \A y \in Found : y.path \in Files
    BY DEF Found
  <2>2. Paths(listing) \in Seq(Files)
    BY <1>1, <2>1, PathsTyped
  <2> QED
    BY <2>2, TimesIs
<1> HIDE DEF t, w
<1>8. t <= w /\ (denied = {} => t = w)
  BY <1>6, <1>7
<1> QED
  BY <1>8 DEF t, w

LEMMA ListingStays ==
    ASSUME BayanTypeOK, ListingComplete, phase = "compare", phase' # "scan",
           UNCHANGED <<settings, denied, listing>>,
           (changes' = changes /\ content' = content) \/ changes' = changes + 1
    PROVE  ListingComplete' /\ WalkInv'
<1>1. changes \in Nat
  BY FileAssumption DEF BayanTypeOK, FilesTypeOK
<1>2. changes' = 0 => changes = 0 /\ content' = content
  BY <1>1
<1>3. \A r : Excluding(r)' = Excluding(r)
  BY DEF Excluding
<1>4. \A r, f : Wanted(r, f)' <=> Wanted(r, f)
  BY <1>3 DEF Wanted
<1>5. ListingComplete'
  BY <1>2, <1>4 DEF ListingComplete
<1> QED
  BY <1>5 DEF WalkInv

LEMMA WalkNext ==
    ASSUME BayanTypeOK, WalkInv, ListingComplete, [BayanNext]_bayanVars
    PROVE  (WalkInv /\ ListingComplete)'
<1>1. CASE open_dir
  <2>1. phase' # "compare"
    BY <1>1 DEF open_dir
  <2> QED
    BY <1>1, <2>1, OpenDirWalks DEF ListingComplete
<1>2. CASE visit
  <2>1. phase' # "compare"
    BY <1>2 DEF visit
  <2> QED
    BY <1>2, <2>1, VisitWalks DEF ListingComplete
<1>3. CASE run
  <2>1. /\ phase = "scan" /\ it = <<>> /\ dirs = <<>> /\ phase' = "compare"
        /\ settings' = settings /\ content' = content /\ denied' = denied /\ listing' = listing
    BY <1>3 DEF run, env, scanVars
  <2>2. settings \in Settings
    BY DEF BayanTypeOK, WalkTypeOK
  <2>3. ~(phase' = "scan")
    BY <2>1
  <2>4. \A r : Excluding(r)' = Excluding(r)
    BY <2>1 DEF Excluding
  <2>5. \A r, f : Wanted(r, f)' <=> Wanted(r, f)
    BY <2>1, <2>4 DEF Wanted
  <2>6. \A f \in Files :
            /\ Times(f, Paths(listing))
                  <= Cardinality(WantedRoots(f, Len(settings.include_dirs)))
            /\ denied = {} => Times(f, Paths(listing))
                  = Cardinality(WantedRoots(f, Len(settings.include_dirs)))
    BY <2>1, WalkEnds
  <2>7. DOMAIN settings.include_dirs = 1..Len(settings.include_dirs)
    BY <2>2, SettingsTyped
  <2>8. ListingComplete'
    BY <2>1, <2>5, <2>6, <2>7 DEF ListingComplete, WantedRoots
  <2> QED
    BY <2>3, <2>8 DEF WalkInv
<1>4. CASE check_blocks \/ read_block \/ file_size \/ compare \/ main_ends \/ change
  <2>1. phase = "compare" /\ phase' # "scan" /\ UNCHANGED <<settings, denied, listing>>
    BY <1>4 DEF check_blocks, read_block, file_size, compare, main_ends, change, env, scanVars
  <2>2. (changes' = changes /\ content' = content) \/ changes' = changes + 1
    BY <1>4 DEF check_blocks, read_block, file_size, compare, main_ends, change, env
  <2> QED
    BY <2>1, <2>2, ListingStays
<1>5. CASE UNCHANGED bayanVars
  <2>1. /\ UNCHANGED <<settings, content, denied, listing, it, dirs, root, phase, changes>>
    BY <1>5 DEF bayanVars, env, scanVars
  <2>2. \A r : Excluding(r)' = Excluding(r)
    BY <2>1 DEF Excluding
  <2>3. \A r, f : Wanted(r, f)' <=> Wanted(r, f)
    BY <2>1, <2>2 DEF Wanted
  <2>4. ListingComplete'
    BY <2>1, <2>3 DEF ListingComplete
  <2>5. Opened' = Opened /\ (RootsLeft' <=> RootsLeft)
    BY <2>1 DEF Opened, RootsLeft
  <2>6. WalkInv'
    BY <2>1, <2>5, SameSettings DEF WalkInv
  <2> QED
    BY <2>4, <2>6
<1> QED
  BY <1>1, <1>2, <1>3, <1>4, <1>5 DEF BayanNext, Step

(***************************************************************************)
(* However the directories lie in one another, the walk finds a file once  *)
(* for every include directory above it that should find it, and no more   *)
(* often if directories cannot be opened.                                  *)
(***************************************************************************)
THEOREM ListingCorrect == BayanSpec => []ListingComplete
<1>1. BayanInit => WalkInv /\ ListingComplete
  <2>1. BayanInit => ListingComplete
    BY DEF BayanInit, ListingComplete
  <2> QED
    BY <2>1, WalkStart
<1>2. BayanTypeOK /\ (WalkInv /\ ListingComplete) /\ [BayanNext]_bayanVars
        => (WalkInv /\ ListingComplete)'
  BY WalkNext
<1> QED
  BY <1>1, <1>2, BayanTypeCorrect, PTL DEF BayanSpec
=============================================================================
