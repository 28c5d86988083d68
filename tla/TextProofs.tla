----------------------------- MODULE TextProofs -----------------------------
(***************************************************************************)
(* Theorems about the programs that read text.  ip_filter of hw-2, for     *)
(* any size of an octet (256 in the code): addresses compare like their    *)
(* numbers, and the lists printed are right.  bulk of hw-7, for any input  *)
(* and block size: the bulks shown and the files left are those that       *)
(* counting braces and commands finds in the lines.  connect, receive and  *)
(* disconnect of hw-9 and hw-10, for any text in any pieces: the blocks    *)
(* are those of the whole text.  The mean and the variance of hw-12, for   *)
(* any rows and in any order of the lines between mapper and reducer.      *)
(*                                                                         *)
(* The model's sums, counts and scans are recursive functions on 0..n: the *)
(* lemmas on Iterates show each to have exactly one solution, which is     *)
(* what makes two such functions comparable step by step.                  *)
(***************************************************************************)
EXTENDS IpFilter, CommandParser, LineSplitter, MapReduce,
        FiniteSetTheorems, WellFoundedInduction, TLAPS

LEMMA LeastNumber ==
    ASSUME NEW S, S \subseteq Nat, S # {}
    PROVE  \E n \in S : \A m \in S : ~(m < n)
<1>1. \E n \in S : \A m \in S : <<m, n>> \notin OpToRel(<, Nat)
  BY NatLessThanWellFounded, WFMin, Zenon
<1> QED
  BY <1>1 DEF OpToRel

-----------------------------------------------------------------------------
LEMMA Multiples ==
    ASSUME NEW x \in Nat, NEW y \in Nat, NEW b \in Nat, x <= y
    PROVE  x * b <= y * b
<1>1. PICK z \in Nat : y = x + z
  <2>1. y - x \in Nat /\ y = x + (y - x)
    OBVIOUS
  <2> QED
    BY <2>1
<1>2. y * b = x * b + z * b
  BY <1>1
<1>3. z * b \in Nat /\ x * b \in Nat
  OBVIOUS
<1> QED
  BY <1>2, <1>3

(***************************************************************************)
(* One shift and or: the number grows by a digit, and the order is that of *)
(* the digits before, then that of the new one.                            *)
(***************************************************************************)
Shifted(x, a) == x * Byte + a

LEMMA ShiftedNumber ==
    ASSUME NEW x \in Nat, NEW a \in Octets
    PROVE  Shifted(x, a) \in Nat
  BY FilterAssumption DEF Shifted, Octets

LEMMA ShiftedOrder ==
    ASSUME NEW x \in Nat, NEW y \in Nat, NEW a \in Octets, NEW b \in Octets
    PROVE  /\ Shifted(x, a) < Shifted(y, b) <=> x < y \/ (x = y /\ a < b)
           /\ Shifted(x, a) = Shifted(y, b) <=> x = y /\ a = b
<1>1. a \in Nat /\ b \in Nat /\ a < Byte /\ b < Byte /\ Byte \in Nat
  BY FilterAssumption DEF Octets
<1>2. x * Byte \in Nat /\ y * Byte \in Nat
  BY <1>1
<1>3. ASSUME NEW u \in Nat, NEW v \in Nat, u < v
      PROVE  u * Byte + Byte <= v * Byte
  <2>1. (u + 1) * Byte <= v * Byte
    BY <1>1, <1>3, Multiples
  <2>2. (u + 1) * Byte = u * Byte + Byte
    BY <1>1
  <2> QED
    BY <2>1, <2>2
<1>4. CASE x < y
  <2>1. x * Byte + Byte <= y * Byte
    BY <1>3, <1>4
  <2> QED
    BY <2>1, <1>1, <1>2, <1>4 DEF Shifted
<1>5. CASE y < x
  <2>1. y * Byte + Byte <= x * Byte
    BY <1>3, <1>5
  <2> QED
    BY <2>1, <1>1, <1>2, <1>5 DEF Shifted
<1>6. CASE x = y
  BY <1>1, <1>2, <1>6 DEF Shifted
<1> QED
  BY <1>4, <1>5, <1>6

LEMMA ShiftedLess ==
    ASSUME NEW x \in Nat, NEW y \in Nat, NEW a \in Octets, NEW b \in Octets
    PROVE  Shifted(x, a) < Shifted(y, b) <=> x < y \/ (x = y /\ a < b)
  BY ShiftedOrder

LEMMA ShiftedEqual ==
    ASSUME NEW x \in Nat, NEW y \in Nat, NEW a \in Octets, NEW b \in Octets
    PROVE  Shifted(x, a) = Shifted(y, b) <=> x = y /\ a = b
  BY ShiftedOrder

LEMMA CollapsedByShifts ==
    ASSUME NEW ip
    PROVE  collapsed_ip(ip) = Shifted(Shifted(Shifted(ip[1], ip[2]), ip[3]), ip[4])
  BY DEF collapsed_ip, Shifted

(***************************************************************************)
(* sort_reverse_lex compares collapsed_ip_: for valid octets that order is *)
(* the one from the left, octet by octet, and addresses that differ have   *)
(* different numbers.                                                      *)
(***************************************************************************)
THEOREM CollapsedOrder ==
    ASSUME NEW a \in IPs, NEW b \in IPs
    PROVE  /\ collapsed_ip(a) < collapsed_ip(b) <=> LexLess(a, b)
           /\ collapsed_ip(a) = collapsed_ip(b) <=> a = b
<1>1. /\ a[1] \in Octets /\ a[2] \in Octets /\ a[3] \in Octets /\ a[4] \in Octets
      /\ b[1] \in Octets /\ b[2] \in Octets /\ b[3] \in Octets /\ b[4] \in Octets
      /\ a[1] \in Nat /\ b[1] \in Nat
  BY FilterAssumption DEF IPs, Octets
<1>2. PICK x1 \in Nat, x2 \in Octets, x3 \in Octets, x4 \in Octets :
          x1 = a[1] /\ x2 = a[2] /\ x3 = a[3] /\ x4 = a[4]
  BY <1>1
<1>3. PICK y1 \in Nat, y2 \in Octets, y3 \in Octets, y4 \in Octets :
          y1 = b[1] /\ y2 = b[2] /\ y3 = b[3] /\ y4 = b[4]
  BY <1>1
<1>4. PICK x12 \in Nat, y12 \in Nat : x12 = Shifted(x1, x2) /\ y12 = Shifted(y1, y2)
  BY ShiftedNumber
<1>5. PICK x123 \in Nat, y123 \in Nat : x123 = Shifted(x12, x3) /\ y123 = Shifted(y12, y3)
  BY ShiftedNumber
<1>6. /\ collapsed_ip(a) = Shifted(x123, x4)
      /\ collapsed_ip(b) = Shifted(y123, y4)
  BY <1>2, <1>3, <1>4, <1>5, CollapsedByShifts
<1>7. /\ x12 < y12 <=> x1 < y1 \/ (x1 = y1 /\ x2 < y2)
      /\ x12 = y12 <=> x1 = y1 /\ x2 = y2
  BY <1>4, ShiftedLess, ShiftedEqual
<1>8. /\ x123 < y123 <=> x12 < y12 \/ (x12 = y12 /\ x3 < y3)
      /\ x123 = y123 <=> x12 = y12 /\ x3 = y3
  BY <1>5, ShiftedLess, ShiftedEqual
<1>9. /\ collapsed_ip(a) < collapsed_ip(b) <=> x123 < y123 \/ (x123 = y123 /\ x4 < y4)
      /\ collapsed_ip(a) = collapsed_ip(b) <=> x123 = y123 /\ x4 = y4
  BY <1>6, ShiftedLess, ShiftedEqual
<1>10. LexLess(a, b) <=>
         \/ a[1] < b[1]
         \/ a[1] = b[1] /\ a[2] < b[2]
         \/ a[1] = b[1] /\ a[2] = b[2] /\ a[3] < b[3]
         \/ a[1] = b[1] /\ a[2] = b[2] /\ a[3] = b[3] /\ a[4] < b[4]
  <2>1. 1..4 = {1, 2, 3, 4}
    OBVIOUS
  <2>2. /\ 1..(1 - 1) = {} /\ 1..(2 - 1) = {1}
        /\ 1..(3 - 1) = {1, 2} /\ 1..(4 - 1) = {1, 2, 3}
    OBVIOUS
  <2> QED
    BY <2>1, <2>2 DEF LexLess
<1>11. a = b <=> \A k \in 1..4 : a[k] = b[k]
  BY DEF IPs
<1>12. (\A k \in 1..4 : a[k] = b[k]) <=>
         a[1] = b[1] /\ a[2] = b[2] /\ a[3] = b[3] /\ a[4] = b[4]
  OBVIOUS
<1> QED
  BY <1>2, <1>3, <1>7, <1>8, <1>9, <1>10, <1>11, <1>12

LEMMA OneMoreByte ==
    ASSUME NEW x \in Nat, NEW b \in 0..255
    PROVE  /\ x * 256 + b \in Nat
           /\ x <= 255 => x * 256 + b <= 65535
           /\ x <= 65535 => x * 256 + b <= 16777215
           /\ x <= 16777215 => x * 256 + b <= 4294967295
  BY SMT

(***************************************************************************)
(* The number of an address fits four bytes: no shift in IP::IP loses a    *)
(* bit of a uint32_t.                                                      *)
(***************************************************************************)
THEOREM CollapsedFits ==
    ASSUME NEW ip \in IPs, Byte = 256
    PROVE  collapsed_ip(ip) \in Nat /\ collapsed_ip(ip) <= 4294967295
<1>1. PICK p \in 0..255, q \in 0..255, r \in 0..255, s \in 0..255 :
          p = ip[1] /\ q = ip[2] /\ r = ip[3] /\ s = ip[4]
  <2>1. Octets = 0..255
    BY SMT DEF Octets
  <2>2. ip[1] \in Octets /\ ip[2] \in Octets /\ ip[3] \in Octets /\ ip[4] \in Octets
    BY SMT DEF IPs
  <2> QED
    BY <2>1, <2>2, Zenon
<1>2. collapsed_ip(ip) = ((p * 256 + q) * 256 + r) * 256 + s
  BY <1>1, SMT DEF collapsed_ip
<1>3. PICK x \in Nat : x = p * 256 + q /\ x <= 65535
  BY OneMoreByte
<1>4. PICK y \in Nat : y = x * 256 + r /\ y <= 16777215
  BY <1>3, OneMoreByte
<1> QED
  BY <1>2, <1>3, <1>4, OneMoreByte

-----------------------------------------------------------------------------
(***************************************************************************)
(* What the lists of ip_filter are compared by: the places of a sequence,  *)
(* all of them or the first n, that hold an element of X.                  *)
(***************************************************************************)
Upto(s, n, X) == {m \in 1..n : s[m] \in X}

Occurrences(s, X) == {m \in DOMAIN s : s[m] \in X}

LEMMA UptoNext ==
    ASSUME NEW s, NEW n \in Nat, NEW X
    PROVE  /\ IsFiniteSet(Upto(s, n, X))
           /\ Cardinality(Upto(s, n, X)) \in Nat
           /\ Cardinality(Upto(s, n + 1, X)) =
                 IF s[n + 1] \in X THEN Cardinality(Upto(s, n, X)) + 1
                                   ELSE Cardinality(Upto(s, n, X))
<1>1. IsFiniteSet(1..n)
  BY FS_Interval
<1>2. Upto(s, n, X) \in SUBSET (1..n)
  BY DEF Upto
<1>3. IsFiniteSet(Upto(s, n, X)) /\ Cardinality(Upto(s, n, X)) \in Nat
  BY <1>1, <1>2, FS_Subset, FS_CardinalityType
<1>4. n + 1 \notin Upto(s, n, X)
  BY DEF Upto
<1>5. Upto(s, n + 1, X) =
        IF s[n + 1] \in X THEN Upto(s, n, X) \cup {n + 1} ELSE Upto(s, n, X)
  BY DEF Upto
<1>6. Cardinality(Upto(s, n, X) \cup {n + 1}) = Cardinality(Upto(s, n, X)) + 1
  BY <1>3, <1>4, FS_AddElement
<1> QED
  BY <1>3, <1>5, <1>6

LEMMA OccurrencesUpto ==
    ASSUME NEW S, NEW s \in Seq(S), NEW X
    PROVE  /\ Occurrences(s, X) = Upto(s, Len(s), X)
           /\ IsFiniteSet(Occurrences(s, X))
           /\ Cardinality(Occurrences(s, X)) \in Nat
<1>1. Len(s) \in Nat /\ Occurrences(s, X) = Upto(s, Len(s), X)
  BY DEF Occurrences, Upto
<1> QED
  BY <1>1, UptoNext

LEMMA OccurrencesAppend ==
    ASSUME NEW S, NEW s \in Seq(S), NEW y \in S, NEW X
    PROVE  Cardinality(Occurrences(Append(s, y), X)) =
              IF y \in X THEN Cardinality(Occurrences(s, X)) + 1
                         ELSE Cardinality(Occurrences(s, X))
<1> DEFINE t == Append(s, y)
<1>1. /\ t \in Seq(S) /\ Len(s) \in Nat /\ Len(t) = Len(s) + 1 /\ t[Len(s) + 1] = y
      /\ \A m \in 1..Len(s) : t[m] = s[m]
  OBVIOUS
<1> HIDE DEF t
<1>2. Occurrences(t, X) = Upto(t, Len(s) + 1, X)
  BY <1>1, OccurrencesUpto
<1>3. Upto(t, Len(s), X) = Upto(s, Len(s), X)
  BY <1>1 DEF Upto
<1>4. Occurrences(s, X) = Upto(s, Len(s), X)
  BY OccurrencesUpto
<1>5. Cardinality(Upto(t, Len(s) + 1, X)) =
        IF t[Len(s) + 1] \in X THEN Cardinality(Upto(t, Len(s), X)) + 1
                               ELSE Cardinality(Upto(t, Len(s), X))
  BY <1>1, UptoNext
<1>6. Cardinality(Occurrences(t, X)) =
        IF y \in X THEN Cardinality(Occurrences(s, X)) + 1
                   ELSE Cardinality(Occurrences(s, X))
  BY <1>1, <1>2, <1>3, <1>4, <1>5
<1> QED
  BY <1>6 DEF t

(***************************************************************************)
(* Sorting permutes the pool: no address is lost, none is there twice.     *)
(***************************************************************************)
LEMMA SortKeeps ==
    ASSUME NEW s \in Seq(IPs), NEW t \in sort_reverse_lex(s), NEW X
    PROVE  /\ t \in Seq(IPs)
           /\ Descending(t)
           /\ Cardinality(Occurrences(t, X)) = Cardinality(Occurrences(s, X))
<1>1. PICK p \in Bijection(DOMAIN s, DOMAIN s) : t = [n \in DOMAIN s |-> s[p[n]]]
  BY DEF sort_reverse_lex
<1>2. Descending(t)
  BY DEF sort_reverse_lex
<1>3. /\ p \in [DOMAIN s -> DOMAIN s]
      /\ \A m, n \in DOMAIN s : p[m] = p[n] => m = n
      /\ \A n \in DOMAIN s : \E m \in DOMAIN s : p[m] = n
  BY DEF Bijection, Injection, Surjection, IsInjective
<1>4. t \in Seq(IPs) /\ DOMAIN t = DOMAIN s
  <2>1. DOMAIN s = 1..Len(s) /\ Len(s) \in Nat
    OBVIOUS
  <2>2. \A n \in 1..Len(s) : t[n] \in IPs
    BY <1>1, <1>3, <2>1
  <2>3. t = [n \in 1..Len(s) |-> t[n]]
    BY <1>1, <2>1
  <2> QED
    BY <2>1, <2>2, <2>3
<1> DEFINE A == Occurrences(t, X)
           B == Occurrences(s, X)
           q == [n \in A |-> p[n]]
<1>5. \A n \in A : n \in DOMAIN s /\ p[n] \in B
  BY <1>1, <1>3, <1>4 DEF Occurrences
<1>6. \A n \in B : \E m \in A : p[m] = n
  BY <1>1, <1>3, <1>4 DEF Occurrences
<1>7. IsFiniteSet(A)
  BY <1>4, OccurrencesUpto
<1> HIDE DEF A, B
<1>8. q \in Bijection(A, B)
  BY <1>3, <1>5, <1>6 DEF Bijection, Injection, Surjection, IsInjective
<1>9. ExistsBijection(A, B)
  BY <1>8 DEF ExistsBijection
<1>10. Cardinality(B) = Cardinality(A)
  BY <1>7, <1>9, FS_Bijection
<1> QED
  BY <1>2, <1>4, <1>10 DEF A, B

(***************************************************************************)
(* The loop of print_filtered.  Its recursion has a solution, which is     *)
(* built a place at a time, so that the list after n addresses is the one  *)
(* after n - 1, with or without the n-th.                                  *)
(***************************************************************************)
Filtering(k, ips, n) ==
    {g \in [0..n -> Seq(IPs)] :
        \A m \in 0..n :
            g[m] = IF m = 0 THEN <<>>
                   ELSE IF is_filtered(k, ips[m]) THEN Append(g[m - 1], ips[m]) ELSE g[m - 1]}

LEMMA FilteringExists ==
    ASSUME NEW k, NEW ips \in Seq(IPs), NEW n \in 0..Len(ips)
    PROVE  Filtering(k, ips, n) # {}
<1> DEFINE T == {m \in 0..Len(ips) : Filtering(k, ips, m) = {}}
<1> SUFFICES ASSUME T # {} PROVE FALSE
  OBVIOUS
<1>1. Len(ips) \in Nat /\ T \subseteq Nat
  OBVIOUS
<1>2. PICK l \in T : \A m \in T : ~(m < l)
  BY <1>1, LeastNumber
<1>3. CASE l = 0
  <2>1. [m \in 0..0 |-> <<>>] \in Filtering(k, ips, 0)
    BY DEF Filtering
  <2> QED
    BY <1>2, <1>3, <2>1
<1>4. CASE l # 0
  <2>1. /\ l \in Nat /\ l - 1 \in Nat /\ l - 1 \in 0..Len(ips) /\ l - 1 < l
        /\ l \in 1..Len(ips)
    BY <1>1, <1>2, <1>4
  <2>2. PICK g : g \in Filtering(k, ips, l - 1)
    BY <1>2, <2>1
  <2>3. /\ g \in [0..(l - 1) -> Seq(IPs)]
        /\ \A m \in 0..(l - 1) :
              g[m] = IF m = 0 THEN <<>>
                     ELSE IF is_filtered(k, ips[m]) THEN Append(g[m - 1], ips[m])
                                                    ELSE g[m - 1]
    BY <2>2 DEF Filtering
  <2> DEFINE new == IF is_filtered(k, ips[l]) THEN Append(g[l - 1], ips[l]) ELSE g[l - 1]
             h == [m \in 0..l |-> IF m = l THEN new ELSE g[m]]
  <2>4. new \in Seq(IPs)
    <3>1. g[l - 1] \in Seq(IPs) /\ ips[l] \in IPs
      BY <2>1, <2>3
    <3>2. Append(g[l - 1], ips[l]) \in Seq(IPs)
      BY <3>1
    <3> QED
      BY <3>1, <3>2
  <2>5. h \in [0..l -> Seq(IPs)]
    BY <2>1, <2>3, <2>4
  <2>6. \A m \in 0..l :
            h[m] = IF m = 0 THEN <<>>
                   ELSE IF is_filtered(k, ips[m]) THEN Append(h[m - 1], ips[m]) ELSE h[m - 1]
    <3> SUFFICES ASSUME NEW m \in 0..l
                 PROVE  h[m] = IF m = 0 THEN <<>>
                          ELSE IF is_filtered(k, ips[m]) THEN Append(h[m - 1], ips[m])
                                                         ELSE h[m - 1]
      OBVIOUS
    <3>1. CASE m = l
      <4>1. h[l] = new /\ h[l - 1] = g[l - 1]
        BY <2>1
      <4> QED
        BY <3>1, <4>1, <2>1
    <3>2. CASE m # l
      <4>1. m \in 0..(l - 1) /\ h[m] = g[m]
        BY <3>2, <2>1
      <4>2. m # 0 => h[m - 1] = g[m - 1]
        BY <4>1, <2>1
      <4> HIDE DEF h
      <4> QED
        BY <4>1, <4>2, <2>3
    <3> QED
      BY <3>1, <3>2
  <2> HIDE DEF h
  <2>7. h \in Filtering(k, ips, l)
    BY <2>5, <2>6 DEF Filtering
  <2> QED
    BY <2>7, <1>2
<1> QED
  BY <1>3, <1>4

LEMMA FilteringIs ==
    ASSUME NEW k, NEW ips \in Seq(IPs)
    PROVE  \E g \in Filtering(k, ips, Len(ips)) : print_filtered(k, ips) = g[Len(ips)]
<1> DEFINE Follows(g) ==
               g = [n \in 0..Len(ips) |->
                       IF n = 0 THEN <<>>
                       ELSE IF is_filtered(k, ips[n]) THEN Append(g[n - 1], ips[n])
                                                      ELSE g[n - 1]]
           at == CHOOSE g : Follows(g)
<1>1. Len(ips) \in Nat /\ Len(ips) \in 0..Len(ips)
  OBVIOUS
<1>2. PICK f : f \in Filtering(k, ips, Len(ips))
  BY <1>1, FilteringExists
<1>3. Follows(f)
  BY <1>2 DEF Filtering
<1>4. Follows(at)
  BY <1>3
<1>5. print_filtered(k, ips) = at[Len(ips)]
  BY DEF print_filtered
<1> HIDE DEF at
<1>6. /\ DOMAIN at = 0..Len(ips)
      /\ at = [n \in 0..Len(ips) |-> at[n]]
      /\ \A n \in 0..Len(ips) :
             at[n] = IF n = 0 THEN <<>>
                     ELSE IF is_filtered(k, ips[n]) THEN Append(at[n - 1], ips[n])
                                                    ELSE at[n - 1]
  BY <1>4
<1>7. \A n \in 0..Len(ips) : at[n] = f[n]
  <2> DEFINE T == {n \in 0..Len(ips) : at[n] # f[n]}
  <2> SUFFICES ASSUME T # {} PROVE FALSE
    OBVIOUS
  <2>1. T \subseteq Nat
    BY <1>1
  <2>2. PICK n \in T : \A m \in T : ~(m < n)
    BY <2>1, LeastNumber
  <2>3. f[n] = IF n = 0 THEN <<>>
               ELSE IF is_filtered(k, ips[n]) THEN Append(f[n - 1], ips[n]) ELSE f[n - 1]
    BY <1>2, <2>2 DEF Filtering
  <2>4. n # 0 => n - 1 \in 0..Len(ips) /\ n - 1 < n
    BY <1>1, <2>2
  <2>5. n # 0 => at[n - 1] = f[n - 1]
    BY <2>2, <2>4
  <2>6. at[n] = IF n = 0 THEN <<>>
                ELSE IF is_filtered(k, ips[n]) THEN Append(at[n - 1], ips[n]) ELSE at[n - 1]
    BY <1>6, <2>2
  <2>7. at[n] # f[n]
    BY <2>2
  <2> HIDE DEF T
  <2> QED
    BY <2>3, <2>5, <2>6, <2>7
<1>8. at[Len(ips)] = f[Len(ips)]
  BY <1>1, <1>7
<1> QED
  BY <1>2, <1>5, <1>8

(***************************************************************************)
(* What is printed of the first n addresses: they are in order if the      *)
(* addresses are, and the addresses of the filter, as often as they come.  *)
(***************************************************************************)
FilteredOK(k, ips, n, out) ==
    /\ out \in Seq(IPs)
    /\ \A j \in DOMAIN out : \E m \in 1..n : out[j] = ips[m]
    /\ Descending(ips) => Descending(out)
    /\ \A ip \in IPs :
          Cardinality(Occurrences(out, {ip})) =
              IF is_filtered(k, ip) THEN Cardinality(Upto(ips, n, {ip})) ELSE 0

LEMMA FilteredNone ==
    ASSUME NEW k, NEW ips \in Seq(IPs)
    PROVE  FilteredOK(k, ips, 0, <<>>)
<1>1. <<>> \in Seq(IPs) /\ DOMAIN <<>> = {}
  OBVIOUS
<1>2. ASSUME NEW ip \in IPs
      PROVE  Occurrences(<<>>, {ip}) = {} /\ Upto(ips, 0, {ip}) = {}
  BY <1>1 DEF Occurrences, Upto
<1>3. Descending(<<>>)
  BY <1>1 DEF Descending
<1> QED
  BY <1>1, <1>2, <1>3, FS_EmptySet DEF FilteredOK

LEMMA FilteredNext ==
    ASSUME NEW k, NEW ips \in Seq(IPs), NEW n \in Nat, n + 1 <= Len(ips),
           NEW out, FilteredOK(k, ips, n, out)
    PROVE  FilteredOK(k, ips, n + 1,
                      IF is_filtered(k, ips[n + 1]) THEN Append(out, ips[n + 1]) ELSE out)
<1> DEFINE y == ips[n + 1]
<1>1. /\ y \in IPs /\ DOMAIN ips = 1..Len(ips)
      /\ n + 1 \in DOMAIN ips
      /\ n + 1 \in 1..(n + 1)
      /\ \A m \in 1..n : m \in 1..(n + 1) /\ m \in DOMAIN ips /\ m < n + 1
  OBVIOUS
<1>2. out \in Seq(IPs) /\ \A j \in DOMAIN out : \E m \in 1..n : out[j] = ips[m]
  BY DEF FilteredOK
<1>3. ASSUME NEW ip \in IPs
      PROVE  Cardinality(Upto(ips, n + 1, {ip})) =
                IF y = ip THEN Cardinality(Upto(ips, n, {ip})) + 1
                          ELSE Cardinality(Upto(ips, n, {ip}))
  BY UptoNext
<1>4. CASE is_filtered(k, y)
  <2> DEFINE t == Append(out, y)
  <2>1. /\ t \in Seq(IPs) /\ Len(out) \in Nat
        /\ DOMAIN out = 1..Len(out)
        /\ DOMAIN t = DOMAIN out \cup {Len(out) + 1}
        /\ t[Len(out) + 1] = y
        /\ \A j \in DOMAIN out : t[j] = out[j] /\ j < Len(out) + 1 /\ j \in Nat
    BY <1>1, <1>2
  <2>2. ASSUME NEW ip \in IPs
        PROVE  Cardinality(Occurrences(t, {ip})) =
                  IF y = ip THEN Cardinality(Occurrences(out, {ip})) + 1
                            ELSE Cardinality(Occurrences(out, {ip}))
    BY <1>1, <1>2, OccurrencesAppend
  <2> HIDE DEF t, y
  <2>3. \A j \in DOMAIN t : \E m \in 1..(n + 1) : t[j] = ips[m]
    <3> SUFFICES ASSUME NEW j \in DOMAIN t
                 PROVE  \E m \in 1..(n + 1) : t[j] = ips[m]
      OBVIOUS
    <3>1. CASE j \in DOMAIN out
      BY <1>1, <1>2, <2>1, <3>1
    <3>2. CASE j = Len(out) + 1
      BY <1>1, <2>1, <3>2 DEF y
    <3> QED
      BY <2>1, <3>1, <3>2
  <2>4. Descending(ips) => Descending(t)
    <3> SUFFICES ASSUME Descending(ips), NEW i \in DOMAIN t, NEW j \in DOMAIN t, i < j
                 PROVE  ~(collapsed_ip(t[i]) < collapsed_ip(t[j]))
      BY DEF Descending
    <3>1. i \in DOMAIN out
      BY <2>1
    <3>2. CASE j \in DOMAIN out
      BY <2>1, <3>1, <3>2 DEF FilteredOK, Descending
    <3>3. CASE j = Len(out) + 1
      <4>1. PICK m \in 1..n : out[i] = ips[m]
        BY <1>2, <3>1
      <4>2. ~(collapsed_ip(ips[m]) < collapsed_ip(ips[n + 1]))
        BY <1>1, <4>1 DEF Descending
      <4>3. t[i] = ips[m] /\ t[j] = ips[n + 1]
        BY <2>1, <3>1, <3>3, <4>1 DEF y
      <4> QED
        BY <4>2, <4>3
    <3> QED
      BY <2>1, <3>2, <3>3
  <2>5. ASSUME NEW ip \in IPs
        PROVE  Cardinality(Occurrences(t, {ip})) =
                  IF is_filtered(k, ip) THEN Cardinality(Upto(ips, n + 1, {ip})) ELSE 0
    <3>1. Cardinality(Occurrences(out, {ip})) =
              IF is_filtered(k, ip) THEN Cardinality(Upto(ips, n, {ip})) ELSE 0
      BY DEF FilteredOK
    <3>2. CASE y = ip
      <4>1. is_filtered(k, ip)
        BY <1>4, <3>2
      <4> QED
        BY <1>3, <2>2, <3>1, <3>2, <4>1
    <3>3. CASE y # ip
      BY <1>3, <2>2, <3>1, <3>3
    <3> QED
      BY <3>2, <3>3
  <2>6. FilteredOK(k, ips, n + 1, t)
    BY <2>1, <2>3, <2>4, <2>5 DEF FilteredOK
  <2> QED
    BY <1>4, <2>6 DEF t, y
<1>5. CASE ~is_filtered(k, y)
  <2>1. \A j \in DOMAIN out : \E m \in 1..(n + 1) : out[j] = ips[m]
    BY <1>1, <1>2
  <2> HIDE DEF y
  <2>2. ASSUME NEW ip \in IPs
        PROVE  Cardinality(Occurrences(out, {ip})) =
                  IF is_filtered(k, ip) THEN Cardinality(Upto(ips, n + 1, {ip})) ELSE 0
    <3>1. Cardinality(Occurrences(out, {ip})) =
              IF is_filtered(k, ip) THEN Cardinality(Upto(ips, n, {ip})) ELSE 0
      BY DEF FilteredOK
    <3>2. CASE y = ip
      <4>1. ~is_filtered(k, ip)
        BY <1>5, <3>2
      <4> QED
        BY <3>1, <4>1
    <3>3. CASE y # ip
      BY <1>3, <3>1, <3>3
    <3> QED
      BY <3>2, <3>3
  <2>3. FilteredOK(k, ips, n + 1, out)
    BY <2>1, <2>2 DEF FilteredOK
  <2> QED
    BY <1>5, <2>3 DEF y
<1> QED
  BY <1>4, <1>5

LEMMA Filtered ==
    ASSUME NEW k, NEW ips \in Seq(IPs)
    PROVE  FilteredOK(k, ips, Len(ips), print_filtered(k, ips))
<1>1. PICK g \in Filtering(k, ips, Len(ips)) : print_filtered(k, ips) = g[Len(ips)]
  BY FilteringIs
<1>2. \A n \in 0..Len(ips) :
          g[n] = IF n = 0 THEN <<>>
                 ELSE IF is_filtered(k, ips[n]) THEN Append(g[n - 1], ips[n]) ELSE g[n - 1]
  BY DEF Filtering
<1> DEFINE T == {n \in 0..Len(ips) : ~FilteredOK(k, ips, n, g[n])}
<1>3. T = {}
  <2> SUFFICES ASSUME T # {} PROVE FALSE
    OBVIOUS
  <2>1. Len(ips) \in Nat /\ T \subseteq Nat
    OBVIOUS
  <2>2. PICK n \in T : \A m \in T : ~(m < n)
    BY <2>1, LeastNumber
  <2>3. n \in 0..Len(ips) /\ ~FilteredOK(k, ips, n, g[n])
    OBVIOUS
  <2>4. CASE n = 0
    <3>1. g[0] = <<>>
      BY <1>2, <2>1
    <3> QED
      BY <2>3, <2>4, <3>1, FilteredNone
  <2>5. CASE n # 0
    <3>1. /\ n - 1 \in Nat /\ n - 1 \in 0..Len(ips) /\ n - 1 < n
          /\ (n - 1) + 1 = n /\ n <= Len(ips)
      BY <2>1, <2>3, <2>5
    <3>2. FilteredOK(k, ips, n - 1, g[n - 1])
      BY <2>2, <3>1
    <3> HIDE DEF T
    <3> DEFINE l == n - 1
    <3>3. l \in Nat /\ l + 1 = n /\ l + 1 <= Len(ips) /\ FilteredOK(k, ips, l, g[l])
      BY <3>1, <3>2
    <3> HIDE DEF l
    <3>4. FilteredOK(k, ips, l + 1,
                 IF is_filtered(k, ips[l + 1]) THEN Append(g[l], ips[l + 1]) ELSE g[l])
      BY <3>3, FilteredNext
    <3>5. g[n] = IF is_filtered(k, ips[n]) THEN Append(g[n - 1], ips[n]) ELSE g[n - 1]
      BY <1>2, <2>3, <2>5
    <3>6. l = n - 1
      BY DEF l
    <3>7. g[n] = IF is_filtered(k, ips[l + 1]) THEN Append(g[l], ips[l + 1]) ELSE g[l]
      BY <3>3, <3>5, <3>6
    <3> QED
      BY <2>3, <3>3, <3>4, <3>7
  <2> QED
    BY <2>4, <2>5
<1>4. Len(ips) \in 0..Len(ips)
  OBVIOUS
<1>5. FilteredOK(k, ips, Len(ips), g[Len(ips)])
  BY <1>3, <1>4
<1> QED
  BY <1>1, <1>5

(***************************************************************************)
(* The pool against the lines: what a valid line spells is the address     *)
(* make_ip takes from it.                                                  *)
(***************************************************************************)
LEMMA SpelledIs ==
    ASSUME NEW line \in Lines, NEW ip \in IPs
    PROVE  Spelled(line, ip) <=> make_ip_succeeds(line) /\ IP(line) = ip
<1>1. line \in Seq(Pieces) /\ DOMAIN line = 1..Len(line)
  BY FilterAssumption
<1>2. /\ \A k \in 1..4 : ip[k] \in Octets /\ ip[k] \in Int
      /\ NoNumber \notin Int
      /\ \A n \in Octets : n # -1
      /\ ip = [k \in 1..4 |-> ip[k]]
  BY FilterAssumption DEF IPs, Octets
<1>3. ASSUME Len(line) = 4, NEW k \in 1..4
      PROVE  line[k] = [number |-> ip[k], left |-> FALSE]
                <=> parse_int(line[k]) \in Octets /\ parse_int(line[k]) = ip[k]
  <2>1. line[k] \in Pieces
    BY <1>1, <1>3
  <2>2. PICK x \in Int \cup {NoNumber}, b \in BOOLEAN : line[k] = [number |-> x, left |-> b]
    BY <2>1 DEF Pieces
  <2>3. ip[k] \in Octets /\ ip[k] # NoNumber /\ ip[k] # -1
    BY <1>2
  <2>4. line[k] = [number |-> ip[k], left |-> FALSE] <=> x = ip[k] /\ b = FALSE
    <3> DEFINE y == ip[k]
    <3>1. [number |-> x, left |-> b] = [number |-> y, left |-> FALSE] <=> x = y /\ b = FALSE
      <4> HIDE DEF y
      <4>1. /\ [number |-> x, left |-> b].number = x
            /\ [number |-> y, left |-> FALSE].number = y
            /\ [number |-> x, left |-> b].left = b
            /\ [number |-> y, left |-> FALSE].left = FALSE
        OBVIOUS
      <4> QED
        BY <4>1
    <3> QED
      BY <2>2, <3>1
  <2>5. parse_int(line[k]) = IF x = NoNumber \/ b THEN -1 ELSE x
    BY <2>2 DEF parse_int
  <2> QED
    BY <2>3, <2>4, <2>5
<1>4. IP(line) = ip <=> \A k \in 1..4 : parse_int(line[k]) = ip[k]
  BY <1>2 DEF IP
<1> QED
  BY <1>3, <1>4 DEF Spelled, make_ip_succeeds

Spellings(ip) == {line \in Lines : Spelled(line, ip)}

PoolIsRead ==
    /\ lines \in Seq(Lines)
    /\ ip_pool \in Seq(IPs)
    /\ \A ip \in IPs :
          Cardinality(Occurrences(ip_pool, {ip})) = Cardinality(Occurrences(lines, Spellings(ip)))

PoolIsPrinted ==
    printed # <<>> =>
        /\ Descending(ip_pool)
        /\ printed = [k \in 1..4 |-> print_filtered(k, ip_pool)]

LEMMA PoolStarts ==
    ASSUME FilterInit
    PROVE  PoolIsRead /\ PoolIsPrinted
<1>1. lines = <<>> /\ ip_pool = <<>> /\ printed = <<>> /\ DOMAIN <<>> = {}
  BY DEF FilterInit
<1>2. \A X : Occurrences(lines, X) = {} /\ Occurrences(ip_pool, X) = {}
  BY <1>1 DEF Occurrences
<1> QED
  BY <1>1, <1>2 DEF PoolIsRead, PoolIsPrinted

LEMMA PoolOfLine ==
    ASSUME PoolIsRead, NEW line \in Lines, parse_line(line)
    PROVE  PoolIsRead'
<1>1. /\ lines' = Append(lines, line)
      /\ ip_pool' = IF make_ip_succeeds(line) THEN Append(ip_pool, IP(line)) ELSE ip_pool
      /\ lines \in Seq(Lines) /\ ip_pool \in Seq(IPs)
  BY DEF parse_line, PoolIsRead
<1>2. make_ip_succeeds(line) => IP(line) \in IPs
  BY DEF make_ip_succeeds, IP, IPs
<1>3. lines' \in Seq(Lines) /\ ip_pool' \in Seq(IPs)
  BY <1>1, <1>2
<1>4. ASSUME NEW ip \in IPs
      PROVE  Cardinality(Occurrences(ip_pool', {ip})) =
                Cardinality(Occurrences(lines', Spellings(ip)))
  <2>1. Cardinality(Occurrences(ip_pool, {ip})) = Cardinality(Occurrences(lines, Spellings(ip)))
    BY DEF PoolIsRead
  <2>2. line \in Spellings(ip) <=> make_ip_succeeds(line) /\ IP(line) = ip
    BY SpelledIs DEF Spellings
  <2>3. Cardinality(Occurrences(lines', Spellings(ip))) =
            IF line \in Spellings(ip) THEN Cardinality(Occurrences(lines, Spellings(ip))) + 1
                                      ELSE Cardinality(Occurrences(lines, Spellings(ip)))
    BY <1>1, OccurrencesAppend
  <2>4. CASE make_ip_succeeds(line)
    <3>1. Cardinality(Occurrences(ip_pool', {ip})) =
              IF IP(line) \in {ip} THEN Cardinality(Occurrences(ip_pool, {ip})) + 1
                                   ELSE Cardinality(Occurrences(ip_pool, {ip}))
      BY <1>1, <1>2, <2>4, OccurrencesAppend
    <3> QED
      BY <2>1, <2>2, <2>3, <2>4, <3>1
  <2>5. CASE ~make_ip_succeeds(line)
    BY <1>1, <2>1, <2>2, <2>3, <2>5
  <2> QED
    BY <2>4, <2>5
<1> QED
  BY <1>3, <1>4 DEF PoolIsRead

LEMMA PoolSorted ==
    ASSUME PoolIsRead, print
    PROVE  PoolIsRead' /\ Descending(ip_pool')
<1>1. ip_pool' \in sort_reverse_lex(ip_pool) /\ lines' = lines
  BY DEF print
<1>2. ip_pool \in Seq(IPs)
  BY DEF PoolIsRead
<1>3. ip_pool' \in Seq(IPs) /\ Descending(ip_pool')
  BY <1>1, <1>2, SortKeeps
<1>4. \A ip \in IPs :
          Cardinality(Occurrences(ip_pool', {ip})) = Cardinality(Occurrences(ip_pool, {ip}))
  BY <1>1, <1>2, SortKeeps
<1> QED
  BY <1>1, <1>3, <1>4 DEF PoolIsRead

LEMMA FilterBelongs ==
    ASSUME NEW k \in 1..4, NEW ip
    PROVE  is_filtered(k, ip) <=> k \in Belongs(ip)
<1>1. 1..4 = {1, 2, 3, 4}
  OBVIOUS
<1>2. 46 \in {ip[1], ip[2], ip[3], ip[4]} <=> \E n \in 1..4 : ip[n] = 46
  BY <1>1
<1>3. <<ip[1], ip[2]>> = <<46, 70>> <=> ip[1] = 46 /\ ip[2] = 70
  OBVIOUS
<1>4. CASE k = 1
  BY <1>4 DEF is_filtered, Belongs
<1>5. CASE k = 2
  BY <1>5 DEF is_filtered, Belongs
<1>6. CASE k = 3
  BY <1>3, <1>6 DEF is_filtered, Belongs
<1>7. CASE k = 4
  BY <1>2, <1>7 DEF is_filtered, Belongs
<1> QED
  BY <1>1, <1>4, <1>5, <1>6, <1>7

LEMMA PrintedLists ==
    ASSUME PoolIsRead, PoolIsPrinted, printed # <<>>
    PROVE  PrintsSortedLists
<1> DEFINE pool == ip_pool
<1>1. /\ pool \in Seq(IPs) /\ Descending(pool) /\ lines \in Seq(Lines)
      /\ \A ip \in IPs : Cardinality(Occurrences(pool, {ip})) =
                            Cardinality(Occurrences(lines, Spellings(ip)))
  BY DEF PoolIsRead, PoolIsPrinted
<1>2. printed = [k \in 1..4 |-> print_filtered(k, pool)]
  BY DEF PoolIsPrinted
<1>3. ASSUME NEW k \in 1..4
      PROVE  FilteredOK(k, pool, Len(pool), printed[k])
  <2>1. pool \in Seq(IPs) /\ printed[k] = print_filtered(k, pool)
    BY <1>1, <1>2
  <2> HIDE DEF pool
  <2> QED
    BY <2>1, Filtered
<1> HIDE DEF pool
<1>4. \A k \in 1..4 : \A m, n \in DOMAIN printed[k] :
          m < n => ~LexLess(printed[k][m], printed[k][n])
  <2> SUFFICES ASSUME NEW k \in 1..4, NEW m \in DOMAIN printed[k],
                      NEW n \in DOMAIN printed[k], m < n
               PROVE  ~LexLess(printed[k][m], printed[k][n])
    OBVIOUS
  <2>1. Descending(printed[k]) /\ printed[k] \in Seq(IPs)
    BY <1>1, <1>3 DEF FilteredOK
  <2>2. printed[k][m] \in IPs /\ printed[k][n] \in IPs
    BY <2>1
  <2>3. ~(collapsed_ip(printed[k][m]) < collapsed_ip(printed[k][n]))
    BY <2>1 DEF Descending
  <2> QED
    BY <2>2, <2>3, CollapsedOrder
<1>5. ASSUME NEW k \in 1..4, NEW ip
      PROVE  Cardinality({n \in DOMAIN printed[k] : printed[k][n] = ip}) =
                IF k \in Belongs(ip)
                THEN Cardinality({n \in DOMAIN lines : ip \in IPs /\ Spelled(lines[n], ip)})
                ELSE 0
  <2> DEFINE out == printed[k]
  <2>1. FilteredOK(k, pool, Len(pool), out)
    BY <1>3
  <2>2. {n \in DOMAIN out : out[n] = ip} = Occurrences(out, {ip})
    BY DEF Occurrences
  <2>3. CASE ip \in IPs
    <3>1. Cardinality(Occurrences(out, {ip})) =
              IF is_filtered(k, ip) THEN Cardinality(Upto(pool, Len(pool), {ip})) ELSE 0
      BY <2>1, <2>3 DEF FilteredOK
    <3>2. Occurrences(pool, {ip}) = Upto(pool, Len(pool), {ip})
      BY <1>1, OccurrencesUpto
    <3>3. {n \in DOMAIN lines : ip \in IPs /\ Spelled(lines[n], ip)} =
              Occurrences(lines, Spellings(ip))
      <4>1. \A n \in DOMAIN lines : lines[n] \in Lines
        BY <1>1
      <4> QED
        BY <2>3, <4>1 DEF Occurrences, Spellings
    <3>4. is_filtered(k, ip) <=> k \in Belongs(ip)
      BY FilterBelongs
    <3> HIDE DEF out
    <3>5. Cardinality(Occurrences(pool, {ip})) = Cardinality(Occurrences(lines, Spellings(ip)))
      BY <1>1, <2>3
    <3> QED
      BY <2>2, <3>1, <3>2, <3>3, <3>4, <3>5 DEF out
  <2>4. CASE ip \notin IPs
    <3>1. out \in Seq(IPs)
      BY <2>1 DEF FilteredOK
    <3>2. {n \in DOMAIN out : out[n] = ip} = {}
      BY <2>4, <3>1
    <3>3. {n \in DOMAIN lines : ip \in IPs /\ Spelled(lines[n], ip)} = {}
      BY <2>4
    <3> QED
      BY <3>2, <3>3, FS_EmptySet
  <2> QED
    BY <2>3, <2>4
<1> QED
  BY <1>4, <1>5 DEF PrintsSortedLists

LEMMA FilterStep ==
    ASSUME PoolIsRead, PoolIsPrinted, [FilterNext]_filterVars
    PROVE  PoolIsRead' /\ PoolIsPrinted'
<1>1. CASE UNCHANGED filterVars
  <2>1. lines' = lines /\ ip_pool' = ip_pool /\ printed' = printed
    BY <1>1 DEF filterVars
  <2> QED
    BY <2>1, Zenon DEF PoolIsRead, Occurrences, PoolIsPrinted
<1>2. ASSUME NEW line \in Lines, parse_line(line)
      PROVE  PoolIsRead' /\ PoolIsPrinted'
  <2>1. printed' = <<>>
    BY <1>2 DEF parse_line
  <2> QED
    BY <1>2, <2>1, PoolOfLine DEF PoolIsPrinted
<1>3. CASE print
  <2>1. printed' = [k \in 1..4 |-> print_filtered(k, ip_pool')]
    BY <1>3 DEF print
  <2> QED
    BY <1>3, <2>1, PoolSorted DEF PoolIsPrinted
<1> QED
  BY <1>1, <1>2, <1>3 DEF FilterNext

(***************************************************************************)
(* Whatever lines come in, valid or not, and in whatever order the sort    *)
(* leaves equal addresses: main prints each valid address in the lists it  *)
(* belongs to, as often as it was read, the greatest first.                *)
(***************************************************************************)
THEOREM ListsCorrect == FilterSpec => []PrintsSortedLists
<1>1. FilterInit => PoolIsRead /\ PoolIsPrinted
  BY PoolStarts
<1>2. PoolIsRead /\ PoolIsPrinted /\ [FilterNext]_filterVars
        => PoolIsRead' /\ PoolIsPrinted'
  BY FilterStep
<1>3. PoolIsRead /\ PoolIsPrinted => PrintsSortedLists
  BY PrintedLists DEF PrintsSortedLists
<1> QED
  BY <1>1, <1>2, <1>3, PTL DEF FilterSpec

-----------------------------------------------------------------------------
(***************************************************************************)
(* For the bulks of hw-7: the elements of a finite set of numbers in       *)
(* order, as Nth enumerates them.                                          *)
(***************************************************************************)
LEMMA NthExists ==
    ASSUME NEW S, S \subseteq Nat, IsFiniteSet(S), NEW k \in 1..Cardinality(S)
    PROVE  /\ Nth(S, k) \in S
           /\ Cardinality({j \in S : j <= Nth(S, k)}) = k
<1> DEFINE Reached(A, n) == \E i \in A : Cardinality({j \in A : j <= i}) = n
           Wrong(c) == \E A \in SUBSET Nat :
                          /\ IsFiniteSet(A) /\ Cardinality(A) = c
                          /\ \E n \in 1..c : ~Reached(A, n)
           T == {c \in Nat : Wrong(c)}
<1>1. T = {}
  <2> SUFFICES ASSUME T # {} PROVE FALSE
    OBVIOUS
  <2>1. PICK c \in T : \A d \in T : ~(d < c)
    BY LeastNumber
  <2>2. PICK A \in SUBSET Nat : /\ IsFiniteSet(A) /\ Cardinality(A) = c
                                /\ \E n \in 1..c : ~Reached(A, n)
    BY <2>1
  <2>3. PICK n \in 1..c : ~Reached(A, n)
    BY <2>2
  <2>4. c \in Nat /\ c > 0 /\ n \in Nat /\ n <= c /\ n > 0
    BY <2>1, <2>3
  <2>5. A # {}
    BY <2>2, <2>4, FS_EmptySet
  <2>6. PICK x \in A : \A y \in A : ~(y < x)
    BY <2>5, LeastNumber
  <2> DEFINE B == A \ {x}
  <2>7. B \in SUBSET Nat /\ IsFiniteSet(B) /\ Cardinality(B) = c - 1
    BY <2>2, <2>6, FS_RemoveElement
  <2>8. \A y \in B : x < y
    BY <2>2, <2>6
  <2>9. CASE n = 1
    <3>1. {j \in A : j <= x} = {x}
      <4>1. x \in Nat /\ x <= x
        BY <2>2, <2>6
      <4>2. ASSUME NEW j \in A, j <= x
            PROVE  j = x
        BY <2>2, <2>6, <4>1, <4>2
      <4> QED
        BY <2>6, <4>1, <4>2
    <3>2. Cardinality({x}) = 1
      BY FS_Singleton
    <3> QED
      BY <2>3, <2>6, <2>9, <3>1, <3>2
  <2>10. CASE n # 1
    <3>1. c - 1 \in Nat /\ c - 1 < c /\ n - 1 \in 1..(c - 1)
      BY <2>4, <2>10
    <3>2. ~Wrong(c - 1)
      BY <2>1, <3>1
    <3>3. Reached(B, n - 1)
      BY <2>7, <3>1, <3>2
    <3>4. PICK i \in B : Cardinality({j \in B : j <= i}) = n - 1
      BY <3>3
    <3>5. {j \in A : j <= i} = {j \in B : j <= i} \cup {x}
      BY <2>2, <2>6, <2>8, <3>4
    <3>6. IsFiniteSet({j \in B : j <= i}) /\ x \notin {j \in B : j <= i}
      BY <2>7, FS_Subset
    <3>7. Cardinality({j \in B : j <= i} \cup {x}) = Cardinality({j \in B : j <= i}) + 1
      BY <3>6, FS_AddElement
    <3>8. i \in A
      BY <3>4
    <3>9. Cardinality({j \in A : j <= i}) = (n - 1) + 1
      BY <3>4, <3>5, <3>7, Zenon
    <3>10. Cardinality({j \in A : j <= i}) = n
      BY <2>4, <3>9
    <3> QED
      BY <2>3, <3>8, <3>10
  <2> QED
    BY <2>9, <2>10
<1>2. Cardinality(S) \in Nat
  BY FS_CardinalityType
<1>3. Reached(S, k)
  <2>1. Cardinality(S) \notin T
    BY <1>1
  <2> QED
    BY <1>2, <2>1
<1> QED
  BY <1>3 DEF Nth

LEMMA NthIs ==
    ASSUME NEW S, S \subseteq Nat, IsFiniteSet(S), NEW i \in S
    PROVE  Nth(S, Cardinality({j \in S : j <= i})) = i
<1> DEFINE upTo(n) == {j \in S : j <= n}
           x == Nth(S, Cardinality(upTo(i)))
<1>1. x \in S /\ Cardinality(upTo(x)) = Cardinality(upTo(i))
  BY DEF Nth
<1>2. ASSUME NEW m \in S, NEW n \in S, m < n, Cardinality(upTo(m)) = Cardinality(upTo(n))
      PROVE  FALSE
  <2>1. IsFiniteSet(upTo(n))
    BY FS_Subset
  <2>2. upTo(m) \in SUBSET upTo(n)
    <3>1. \A j \in S : j <= m => j <= n
      BY <1>2
    <3> QED
      BY <3>1
  <2>3. upTo(m) = upTo(n)
    BY <1>2, <2>1, <2>2, FS_Subset
  <2>4. n \in upTo(n) /\ n \notin upTo(m)
    BY <1>2
  <2> QED
    BY <2>3, <2>4
<1>3. x \in Nat /\ i \in Nat
  BY <1>1
<1> HIDE DEF x, upTo
<1>4. x = i
  BY <1>1, <1>2, <1>3
<1> QED
  BY <1>4 DEF x, upTo

(***************************************************************************)
(* A greater element comes last.                                           *)
(***************************************************************************)
LEMMA NthMore ==
    ASSUME NEW S, S \subseteq Nat, IsFiniteSet(S),
           NEW m \in Nat, \A j \in S : j < m
    PROVE  /\ S \cup {m} \subseteq Nat
           /\ IsFiniteSet(S \cup {m})
           /\ Cardinality(S) \in Nat
           /\ Cardinality(S \cup {m}) = Cardinality(S) + 1
           /\ \A k \in 1..Cardinality(S) : Nth(S, k) \in S /\ Nth(S \cup {m}, k) = Nth(S, k)
           /\ Nth(S \cup {m}, Cardinality(S) + 1) = m
<1> DEFINE T == S \cup {m}
<1>1. m \notin S /\ T \subseteq Nat
  OBVIOUS
<1>2. IsFiniteSet(T) /\ Cardinality(T) = Cardinality(S) + 1 /\ Cardinality(S) \in Nat
  BY <1>1, FS_AddElement, FS_CardinalityType
<1>3. ASSUME NEW k \in 1..Cardinality(S)
      PROVE  Nth(S, k) \in S /\ Nth(T, k) = Nth(S, k)
  <2> DEFINE x == Nth(S, k)
  <2>1. x \in S /\ Cardinality({j \in S : j <= x}) = k
    BY NthExists
  <2> HIDE DEF x
  <2>2. {j \in T : j <= x} = {j \in S : j <= x}
    BY <2>1
  <2>3. Nth(T, k) = x
    BY <1>1, <1>2, <2>1, <2>2, NthIs
  <2> QED
    BY <2>1, <2>3 DEF x
<1>4. Nth(T, Cardinality(S) + 1) = m
  <2>1. {j \in T : j <= m} = T
    <3>1. \A j \in T : j <= m
      OBVIOUS
    <3> QED
      BY <3>1
  <2>2. m \in T
    OBVIOUS
  <2> HIDE DEF T
  <2>3. Nth(T, Cardinality({j \in T : j <= m})) = m
    BY <1>1, <1>2, <2>2, NthIs
  <2> QED
    BY <1>2, <2>1, <2>3
<1> QED
  BY <1>1, <1>2, <1>3, <1>4

\* (Append by another name, which keeps the provers from expanding it)
Further(b, e) == Append(b, e)

\* m comes after the numbers in S, on which g has f's values
Continues(S, f, m, g) ==
    /\ S \subseteq Nat /\ IsFiniteSet(S)
    /\ m \in Nat /\ \A j \in S : j < m
    /\ \A j \in S : g[j] = f[j]

LEMMA InOrderMore ==
    ASSUME NEW S, NEW f, NEW m, NEW g, Continues(S, f, m, g)
    PROVE  InOrder(S \cup {m}, g) = Further(InOrder(S, f), g[m])
<1> USE DEF Continues
<1> DEFINE T == S \cup {m}
           n == Cardinality(S)
<1>1. /\ n \in Nat /\ Cardinality(T) = n + 1
      /\ \A k \in 1..n : Nth(S, k) \in S /\ Nth(T, k) = Nth(S, k)
      /\ Nth(T, n + 1) = m
  BY NthMore
<1> HIDE DEF T, n
<1>2. InOrder(T, g) = [k \in 1..(n + 1) |-> IF k = n + 1 THEN g[m] ELSE f[Nth(S, k)]]
  <2>1. ASSUME NEW k \in 1..(n + 1)
        PROVE  g[Nth(T, k)] = IF k = n + 1 THEN g[m] ELSE f[Nth(S, k)]
    <3>1. CASE k = n + 1
      BY <1>1, <3>1
    <3>2. CASE k # n + 1
      <4>1. k \in 1..n
        BY <1>1, <3>2
      <4> QED
        BY <1>1, <3>2, <4>1
    <3> QED
      BY <3>1, <3>2
  <2>2. InOrder(T, g) = [k \in 1..(n + 1) |-> g[Nth(T, k)]]
    BY <1>1 DEF InOrder
  <2> QED
    BY <2>1, <2>2
<1>3. InOrder(S, f) = [k \in 1..n |-> f[Nth(S, k)]]
  BY DEF InOrder, n
<1>4. Append(InOrder(S, f), g[m]) =
          [k \in 1..(n + 1) |-> IF k = n + 1 THEN g[m] ELSE f[Nth(S, k)]]
  <2> DEFINE h == [k \in 1..n |-> f[Nth(S, k)]]
             V == {f[Nth(S, k)] : k \in 1..n} \cup {g[m]}
  <2>1. h \in Seq(V) /\ Len(h) = n /\ g[m] \in V
    BY <1>1
  <2>2. /\ Append(h, g[m]) \in Seq(V) /\ Len(Append(h, g[m])) = n + 1
        /\ Append(h, g[m])[n + 1] = g[m]
        /\ \A k \in 1..n : Append(h, g[m])[k] = h[k]
    <3> HIDE DEF h, V
    <3> QED
      BY <2>1
  <2>3. \A k \in 1..n : h[k] = f[Nth(S, k)] /\ k # n + 1
    BY <1>1
  <2> HIDE DEF h, V
  <2>4. \A k \in 1..(n + 1) :
            Append(h, g[m])[k] = IF k = n + 1 THEN g[m] ELSE f[Nth(S, k)]
    <3>1. \A k \in 1..(n + 1) : k = n + 1 \/ k \in 1..n
      BY <1>1
    <3> QED
      BY <2>2, <2>3, <3>1
  <2>5. Append(h, g[m]) = [k \in 1..(n + 1) |-> Append(h, g[m])[k]]
    BY <2>2
  <2>6. Append(h, g[m]) =
            [k \in 1..(n + 1) |-> IF k = n + 1 THEN g[m] ELSE f[Nth(S, k)]]
    BY <2>4, <2>5
  <2> QED
    BY <1>3, <2>6 DEF h
<1> QED
  BY <1>2, <1>4 DEF T, Further

LEMMA MinIs ==
    ASSUME NEW S, S \subseteq Int, NEW x \in S, \A y \in S : x <= y
    PROVE  Min(S) = x
<1>1. Min(S) \in S /\ \A y \in S : Min(S) <= y
  BY DEF Min
<1>2. Min(S) <= x /\ x <= Min(S) /\ Min(S) \in Int /\ x \in Int
  BY <1>1
<1> QED
  BY <1>2

LEMMA MinOfNumbers ==
    ASSUME NEW S, S \subseteq Nat, S # {}
    PROVE  Min(S) \in S /\ \A y \in S : Min(S) <= y
<1>1. PICK x \in S : \A y \in S : ~(y < x)
  BY LeastNumber
<1>2. \A y \in S : x <= y
  BY <1>1
<1> QED
  BY <1>2 DEF Min

(***************************************************************************)
(* What Bulks is made of, for any lines s read, block size N and whether   *)
(* the input has ended: so it can be said how each part grows with a line. *)
(***************************************************************************)
Reads == [line : Commands \cup Brace, at : Seconds]

LEMMA BracesDiffer == Opening # Closing
  BY Zenon DEF Opening, Closing

CountOf(s, i, l) == Cardinality({j \in 1..i : s[j].line = l})

Balance(s, i) == CountOf(s, i, Opening) - CountOf(s, i, Closing)

Level(s, i) == Balance(s, i) - Min({Balance(s, j) : j \in 0..i})

Boundaries(s) == {i \in DOMAIN s : {Level(s, i - 1), Level(s, i)} = {0, 1}}

Positions(s) == {i \in DOMAIN s : s[i].line \in Commands}

Segment(s, i) == Cardinality({b \in Boundaries(s) : b < i})

Rank(s, i) == Cardinality({j \in Positions(s) : j < i /\ Segment(s, j) = Segment(s, i)})

Room(N) == Max({1, N})

Group(s, N, i) == IF Level(s, i) > 0 THEN 0 ELSE Rank(s, i) \div Room(N)

BulkAt(s, N, i) ==
    {j \in Positions(s) : Segment(s, j) = Segment(s, i) /\ Group(s, N, j) = Group(s, N, i)}

IsComplete(s, N, e, i) ==
    \/ \E b \in Boundaries(s) : b > i
    \/ Level(s, i) = 0 /\ (e \/ Cardinality(BulkAt(s, N, i)) >= N)

Firsts(s, N, e) == {i \in Positions(s) : IsComplete(s, N, e, i) /\ i = Min(BulkAt(s, N, i))}

AllBulks(s, N, e) == InOrder(Firsts(s, N, e), [i \in Positions(s) |-> BulkAt(s, N, i)])

LEMMA CountNext ==
    ASSUME NEW s, NEW i \in Nat, NEW l
    PROVE  /\ CountOf(s, i, l) \in Nat
           /\ CountOf(s, 0, l) = 0
           /\ CountOf(s, i + 1, l) =
                 IF s[i + 1].line = l THEN CountOf(s, i, l) + 1 ELSE CountOf(s, i, l)
<1> DEFINE f == [j \in Nat |-> s[j].line]
<1>1. ASSUME NEW n \in Nat
      PROVE  CountOf(s, n, l) = Cardinality(Upto(f, n, {l}))
  <2>1. {j \in 1..n : s[j].line = l} = Upto(f, n, {l})
    BY DEF Upto
  <2> QED
    BY <2>1 DEF CountOf
<1>2. f[i + 1] = s[i + 1].line
  OBVIOUS
<1> HIDE DEF f
<1>3. /\ Cardinality(Upto(f, i, {l})) \in Nat
      /\ Cardinality(Upto(f, i + 1, {l})) =
            IF f[i + 1] \in {l} THEN Cardinality(Upto(f, i, {l})) + 1
                                ELSE Cardinality(Upto(f, i, {l}))
  BY UptoNext
<1>4. CountOf(s, 0, l) = 0
  <2>1. {j \in 1..0 : s[j].line = l} = {}
    OBVIOUS
  <2> QED
    BY <2>1, FS_EmptySet DEF CountOf
<1>5. i + 1 \in Nat
  OBVIOUS
<1>6. CountOf(s, i + 1, l) = Cardinality(Upto(f, i + 1, {l}))
  BY <1>1, <1>5
<1>7. CountOf(s, i, l) = Cardinality(Upto(f, i, {l}))
  BY <1>1
<1> QED
  BY <1>2, <1>3, <1>4, <1>6, <1>7

LEMMA BalanceIsInt ==
    ASSUME NEW s, NEW i \in Nat
    PROVE  Balance(s, i) \in Int
<1>1. \A l : CountOf(s, i, l) \in Nat
  BY CountNext
<1> QED
  BY <1>1 DEF Balance

\* The least balance so far exists, and is compared with the next one only.
Low(s, i) == Min({Balance(s, j) : j \in 0..i})

LEMMA LowExists ==
    ASSUME NEW s, NEW i \in Nat
    PROVE  /\ Low(s, i) \in {Balance(s, j) : j \in 0..i}
           /\ \A j \in 0..i : Low(s, i) <= Balance(s, j)
<1> DEFINE Least(n) == \E x \in 0..n : \A j \in 0..n : Balance(s, x) <= Balance(s, j)
           T == {n \in Nat : ~Least(n)}
<1>1. T = {}
  <2> SUFFICES ASSUME T # {} PROVE FALSE
    OBVIOUS
  <2>1. PICK n \in T : \A m \in T : ~(m < n)
    BY LeastNumber
  <2>2. n \in Nat /\ ~Least(n) /\ \A j \in 0..n : Balance(s, j) \in Int
    BY <2>1, BalanceIsInt
  <2>3. CASE n = 0
    <3>1. \A j \in 0..0 : j = 0
      OBVIOUS
    <3> QED
      BY <2>2, <2>3, <3>1
  <2>4. CASE n # 0
    <3>1. n - 1 \in Nat /\ n - 1 < n
      BY <2>2, <2>4
    <3>2. Least(n - 1)
      BY <2>1, <3>1
    <3>3. PICK x \in 0..(n - 1) : \A j \in 0..(n - 1) : Balance(s, x) <= Balance(s, j)
      BY <3>2
    <3>4. \A j \in 0..n : j = n \/ j \in 0..(n - 1)
      BY <2>2
    <3>5. x \in 0..n /\ n \in 0..n
      BY <2>2, <3>3
    <3>6. CASE Balance(s, x) <= Balance(s, n)
      BY <2>2, <3>3, <3>4, <3>5, <3>6
    <3>7. CASE Balance(s, n) < Balance(s, x)
      BY <2>2, <3>3, <3>4, <3>5, <3>7
    <3> QED
      BY <2>2, <3>5, <3>6, <3>7
  <2> QED
    BY <2>3, <2>4
<1>2. PICK x \in 0..i : \A j \in 0..i : Balance(s, x) <= Balance(s, j)
  BY <1>1
<1> DEFINE B == {Balance(s, j) : j \in 0..i}
<1>3. B \subseteq Int /\ Balance(s, x) \in B /\ \A y \in B : Balance(s, x) <= y
  BY <1>2, BalanceIsInt
<1>4. Min(B) = Balance(s, x)
  <2> HIDE DEF B
  <2> QED
    BY <1>3, MinIs
<1> QED
  BY <1>2, <1>4 DEF Low

(***************************************************************************)
(* The level is what a count of open braces that stays at zero has.        *)
(***************************************************************************)
LEMMA LevelNext ==
    ASSUME NEW s, NEW i \in Nat
    PROVE  /\ Level(s, i) \in Nat
           /\ Level(s, 0) = 0
           /\ Level(s, i + 1) = IF s[i + 1].line = Opening THEN Level(s, i) + 1
                                ELSE IF s[i + 1].line = Closing /\ Level(s, i) > 0
                                     THEN Level(s, i) - 1
                                ELSE Level(s, i)
<1> DEFINE b == Balance(s, i)
           c == Balance(s, i + 1)
<1>1. b \in Int /\ c \in Int /\ Balance(s, 0) \in Int
  BY BalanceIsInt
<1>2. c = IF s[i + 1].line = Opening THEN b + 1 ELSE IF s[i + 1].line = Closing THEN b - 1 ELSE b
  <2>1. \A l : /\ CountOf(s, i, l) \in Nat
               /\ CountOf(s, i + 1, l) =
                     IF s[i + 1].line = l THEN CountOf(s, i, l) + 1 ELSE CountOf(s, i, l)
    BY CountNext
  <2>2. CASE s[i + 1].line = Opening
    <3>1. CountOf(s, i + 1, Opening) = CountOf(s, i, Opening) + 1
      BY <2>1, <2>2
    <3>2. CountOf(s, i + 1, Closing) = CountOf(s, i, Closing)
      BY <2>1, <2>2, BracesDiffer
    <3> QED
      BY <2>1, <2>2, <3>1, <3>2 DEF Balance
  <2>3. CASE s[i + 1].line = Closing
    <3>1. CountOf(s, i + 1, Closing) = CountOf(s, i, Closing) + 1
      BY <2>1, <2>3
    <3>2. CountOf(s, i + 1, Opening) = CountOf(s, i, Opening)
      BY <2>1, <2>3, BracesDiffer
    <3> QED
      BY <2>1, <2>3, <3>1, <3>2 DEF Balance
  <2>4. CASE s[i + 1].line # Opening /\ s[i + 1].line # Closing
    <3>1. CountOf(s, i + 1, Closing) = CountOf(s, i, Closing)
      BY <2>1, <2>4
    <3>2. CountOf(s, i + 1, Opening) = CountOf(s, i, Opening)
      BY <2>1, <2>4
    <3> QED
      BY <2>1, <2>4, <3>1, <3>2 DEF Balance
  <2> QED
    BY <2>2, <2>3, <2>4
<1>3. /\ Low(s, i) \in {Balance(s, j) : j \in 0..i}
      /\ \A j \in 0..i : Low(s, i) <= Balance(s, j)
  BY LowExists
<1>4. /\ Low(s, i + 1) \in {Balance(s, j) : j \in 0..(i + 1)}
      /\ \A j \in 0..(i + 1) : Low(s, i + 1) <= Balance(s, j)
  BY LowExists
<1>5. /\ Low(s, i) \in Int /\ Low(s, i + 1) \in Int
      /\ \A j \in 0..(i + 1) : j \in 0..i \/ j = i + 1
      /\ \A j \in 0..i : j \in 0..(i + 1)
      /\ i \in 0..i /\ i + 1 \in 0..(i + 1)
  BY <1>3, <1>4, BalanceIsInt
<1>6. Low(s, i + 1) = IF c < Low(s, i) THEN c ELSE Low(s, i)
  <2> HIDE DEF b
  <2>1. PICK x \in 0..i : Low(s, i) = Balance(s, x)
    BY <1>3
  <2>2. PICK y \in 0..(i + 1) : Low(s, i + 1) = Balance(s, y)
    BY <1>4
  <2>3. Low(s, i + 1) <= Low(s, i) /\ Low(s, i + 1) <= c
    BY <1>4, <1>5, <2>1
  <2>4. Low(s, i + 1) = c \/ Low(s, i) <= Low(s, i + 1)
    BY <1>3, <1>5, <2>2
  <2> HIDE DEF c
  <2> QED
    BY <1>1, <1>3, <1>5, <2>3, <2>4
<1>7. Low(s, i) <= b /\ Level(s, i) = b - Low(s, i) /\ Level(s, i + 1) = c - Low(s, i + 1)
  BY <1>3, <1>5 DEF Level, Low
<1>8. Level(s, 0) = 0
  <2>1. {Balance(s, j) : j \in 0..0} = {Balance(s, 0)}
    OBVIOUS
  <2>2. Min({Balance(s, 0)}) = Balance(s, 0)
    BY <1>1, MinIs
  <2> QED
    BY <1>1, <2>1, <2>2 DEF Level
<1> HIDE DEF b, c
<1>9. Level(s, i) \in Nat
  BY <1>1, <1>5, <1>7
<1>10. Level(s, i + 1) = IF s[i + 1].line = Opening THEN Level(s, i) + 1
                         ELSE IF s[i + 1].line = Closing /\ Level(s, i) > 0
                              THEN Level(s, i) - 1
                         ELSE Level(s, i)
  <2>1. CASE s[i + 1].line = Opening
    <3>1. c = b + 1
      BY <1>2, <2>1
    <3> QED
      BY <1>1, <1>5, <1>6, <1>7, <2>1, <3>1
  <2>2. CASE s[i + 1].line = Closing
    <3>1. c = b - 1
      BY <1>2, <2>2, BracesDiffer
    <3> QED
      BY <1>1, <1>5, <1>6, <1>7, <2>2, <3>1, BracesDiffer
  <2>3. CASE s[i + 1].line # Opening /\ s[i + 1].line # Closing
    <3>1. c = b
      BY <1>2, <2>3
    <3> QED
      BY <1>1, <1>5, <1>6, <1>7, <2>3, <3>1
  <2> QED
    BY <2>1, <2>2, <2>3
<1> QED
  BY <1>8, <1>9, <1>10

(***************************************************************************)
(* One line x more: what was said of the lines before stays, and the new   *)
(* one comes after the boundaries passed and the commands held since.      *)
(***************************************************************************)
Now(s) == Level(s, Len(s))
Passed(s) == Cardinality(Boundaries(s))
Here(s) == {j \in Positions(s) : Segment(s, j) = Passed(s)}
Held(s) == Cardinality(Here(s))

Crosses(s, x) == {Level(s, Len(s)), Level(Append(s, x), Len(s) + 1)} = {0, 1}

LEMMA Appended ==
    ASSUME NEW s \in Seq(Reads), NEW x \in Reads, NEW t, t = Append(s, x)
    PROVE  /\ t \in Seq(Reads)
           /\ Len(s) \in Nat /\ Len(t) = Len(s) + 1
           /\ DOMAIN s = 1..Len(s)
           /\ DOMAIN t = DOMAIN s \cup {Len(s) + 1}
           /\ t[Len(s) + 1] = x
           /\ Len(s) + 1 \notin DOMAIN s
           /\ \A i \in DOMAIN s : t[i] = s[i] /\ i \in Nat /\ i < Len(s) + 1
  OBVIOUS

LEMMA LevelKept ==
    ASSUME NEW s \in Seq(Reads), NEW x \in Reads, NEW t, t = Append(s, x), NEW i \in 0..Len(s)
    PROVE  Level(t, i) = Level(s, i)
<1>1. /\ Len(s) \in Nat /\ DOMAIN s = 1..Len(s)
      /\ \A j \in DOMAIN s : t[j] = s[j]
  BY Appended
<1>2. ASSUME NEW j \in 0..i, NEW l
      PROVE  CountOf(t, j, l) = CountOf(s, j, l)
  <2>1. \A m \in 1..j : t[m].line = s[m].line
    BY <1>1
  <2>2. {m \in 1..j : t[m].line = l} = {m \in 1..j : s[m].line = l}
    BY <2>1
  <2> QED
    BY <2>2 DEF CountOf
<1>3. \A j \in 0..i : Balance(t, j) = Balance(s, j)
  BY <1>2 DEF Balance
<1>4. {Balance(t, j) : j \in 0..i} = {Balance(s, j) : j \in 0..i}
  BY <1>3
<1>5. i \in 0..i
  BY <1>1
<1> QED
  BY <1>3, <1>4, <1>5 DEF Level

LEMMA LevelAfter ==
    ASSUME NEW s \in Seq(Reads), NEW x \in Reads, NEW t, t = Append(s, x)
    PROVE  /\ Now(s) \in Nat /\ Now(t) \in Nat
           /\ Now(t) = Level(t, Len(s) + 1)
           /\ Now(t) = IF x.line = Opening THEN Now(s) + 1
                       ELSE IF x.line = Closing /\ Now(s) > 0 THEN Now(s) - 1
                       ELSE Now(s)
<1>1. /\ Len(s) \in Nat /\ Len(s) \in 0..Len(s) /\ Len(t) = Len(s) + 1
      /\ t[Len(s) + 1] = x /\ t \in Seq(Reads)
  BY Appended
<1>2. Level(t, Len(s)) = Now(s)
  BY <1>1, LevelKept DEF Now
<1>3. Now(t) = Level(t, Len(s) + 1)
  BY <1>1 DEF Now
<1>4. Level(t, Len(s) + 1) = IF t[Len(s) + 1].line = Opening THEN Level(t, Len(s)) + 1
                             ELSE IF t[Len(s) + 1].line = Closing /\ Level(t, Len(s)) > 0
                                  THEN Level(t, Len(s)) - 1
                             ELSE Level(t, Len(s))
  <2>1. \A i \in Nat : Level(t, i + 1) = IF t[i + 1].line = Opening THEN Level(t, i) + 1
                                         ELSE IF t[i + 1].line = Closing /\ Level(t, i) > 0
                                              THEN Level(t, i) - 1
                                         ELSE Level(t, i)
    BY LevelNext
  <2> QED
    BY <1>1, <2>1
<1>5. Level(s, Len(s)) \in Nat /\ Level(t, Len(t)) \in Nat
  <2>1. \A u : \A i \in Nat : Level(u, i) \in Nat
    BY LevelNext
  <2> QED
    BY <1>1, <2>1
<1> QED
  BY <1>1, <1>2, <1>3, <1>4, <1>5 DEF Now

LEMMA PartsAreFinite ==
    ASSUME NEW s \in Seq(Reads)
    PROVE  /\ Boundaries(s) \subseteq DOMAIN s /\ IsFiniteSet(Boundaries(s))
           /\ Positions(s) \subseteq DOMAIN s /\ IsFiniteSet(Positions(s))
           /\ DOMAIN s \subseteq Nat /\ DOMAIN s = 1..Len(s) /\ Len(s) \in Nat
           /\ Passed(s) \in Nat /\ Held(s) \in Nat
           /\ \A i : Segment(s, i) \in Nat /\ Segment(s, i) <= Passed(s)
           /\ \A i : Rank(s, i) \in Nat
<1>1. DOMAIN s \subseteq Nat /\ DOMAIN s = 1..Len(s) /\ Len(s) \in Nat
  OBVIOUS
<1>2. IsFiniteSet(DOMAIN s)
  BY <1>1, FS_Interval
<1>3. Boundaries(s) \in SUBSET (DOMAIN s) /\ Positions(s) \in SUBSET (DOMAIN s)
  BY DEF Boundaries, Positions
<1>4. IsFiniteSet(Boundaries(s)) /\ IsFiniteSet(Positions(s))
  BY <1>2, <1>3, FS_Subset
<1>5. ASSUME NEW i
      PROVE  Segment(s, i) \in Nat /\ Segment(s, i) <= Passed(s) /\ Rank(s, i) \in Nat
  <2>1. {b \in Boundaries(s) : b < i} \in SUBSET Boundaries(s)
    OBVIOUS
  <2>2. /\ IsFiniteSet({b \in Boundaries(s) : b < i})
        /\ Cardinality({b \in Boundaries(s) : b < i}) <= Cardinality(Boundaries(s))
    BY <1>4, <2>1, FS_Subset
  <2>3. Segment(s, i) \in Nat
    BY <2>2, FS_CardinalityType DEF Segment
  <2> DEFINE R == {j \in Positions(s) : j < i /\ Segment(s, j) = Segment(s, i)}
  <2>4. R \in SUBSET Positions(s)
    OBVIOUS
  <2>5. Cardinality(R) \in Nat
    BY <1>4, <2>4, FS_Subset, FS_CardinalityType
  <2> QED
    BY <2>2, <2>3, <2>5 DEF Segment, Passed, Rank
<1>6. Passed(s) \in Nat
  BY <1>4, FS_CardinalityType DEF Passed
<1>7. Held(s) \in Nat
  <2>1. Here(s) \in SUBSET Positions(s)
    BY DEF Here
  <2> QED
    BY <1>4, <2>1, FS_Subset, FS_CardinalityType DEF Held
<1> QED
  BY <1>1, <1>3, <1>4, <1>5, <1>6, <1>7

LEMMA PartsNext ==
    ASSUME NEW s \in Seq(Reads), NEW x \in Reads, NEW t, t = Append(s, x)
    PROVE  /\ Boundaries(t) = IF Crosses(s, x) THEN Boundaries(s) \cup {Len(s) + 1}
                              ELSE Boundaries(s)
           /\ Positions(t) = IF x.line \in Commands THEN Positions(s) \cup {Len(s) + 1}
                             ELSE Positions(s)
           /\ \A i \in DOMAIN s : Segment(t, i) = Segment(s, i)
           /\ Segment(t, Len(s) + 1) = Passed(s)
           /\ Passed(t) = IF Crosses(s, x) THEN Passed(s) + 1 ELSE Passed(s)
<1> DEFINE n == Len(s)
<1>1. /\ n \in Nat /\ DOMAIN s = 1..n /\ DOMAIN t = DOMAIN s \cup {n + 1}
      /\ t[n + 1] = x /\ n + 1 \notin DOMAIN s
      /\ \A i \in DOMAIN s : t[i] = s[i] /\ i \in Nat /\ i < n + 1
  BY Appended
<1>2. \A i \in 0..n : Level(t, i) = Level(s, i)
  BY LevelKept
<1>3. \A i \in DOMAIN s : i \in 0..n /\ i - 1 \in 0..n
  BY <1>1
<1>4. n \in 0..n /\ (n + 1) - 1 = n
  BY <1>1
<1>5. Boundaries(t) = IF Crosses(s, x) THEN Boundaries(s) \cup {n + 1} ELSE Boundaries(s)
  <2>1. \A i \in DOMAIN s : i \in Boundaries(t) <=> i \in Boundaries(s)
    BY <1>1, <1>2, <1>3 DEF Boundaries
  <2>2. n + 1 \in Boundaries(t) <=> Crosses(s, x)
    BY <1>1, <1>2, <1>4 DEF Boundaries, Crosses
  <2>3. Boundaries(t) \subseteq DOMAIN t /\ Boundaries(s) \subseteq DOMAIN s
    BY DEF Boundaries
  <2>4. CASE Crosses(s, x)
    <3>1. n + 1 \in Boundaries(t)
      BY <2>2, <2>4
    <3> HIDE DEF n
    <3> QED
      BY <1>1, <2>1, <2>3, <2>4, <3>1
  <2>5. CASE ~Crosses(s, x)
    <3>1. n + 1 \notin Boundaries(t)
      BY <2>2, <2>5
    <3> HIDE DEF n
    <3>2. Boundaries(t) \subseteq DOMAIN s
      BY <1>1, <2>3, <3>1
    <3>3. Boundaries(t) = Boundaries(s)
      BY <2>1, <2>3, <3>2
    <3> QED
      BY <2>5, <3>3
  <2> QED
    BY <2>4, <2>5
<1>6. Positions(t) = IF x.line \in Commands THEN Positions(s) \cup {n + 1} ELSE Positions(s)
  BY <1>1 DEF Positions
<1>7. /\ Boundaries(s) \subseteq DOMAIN s /\ IsFiniteSet(Boundaries(s))
      /\ n + 1 \notin Boundaries(s)
  BY <1>1, PartsAreFinite
<1>8. ASSUME NEW i \in DOMAIN s \cup {n + 1}
      PROVE  {b \in Boundaries(t) : b < i} = {b \in Boundaries(s) : b < i}
  <2>1. i \in Nat /\ ~(n + 1 < i)
    BY <1>1
  <2> HIDE DEF n
  <2> QED
    BY <1>5, <2>1
<1>9. \A i \in DOMAIN s : Segment(t, i) = Segment(s, i)
  BY <1>8 DEF Segment
<1>10. Segment(t, n + 1) = Passed(s)
  <2>1. {b \in Boundaries(s) : b < n + 1} = Boundaries(s)
    BY <1>1, <1>7
  <2>2. {b \in Boundaries(t) : b < n + 1} = Boundaries(s)
    BY <1>8, <2>1
  <2> QED
    BY <2>2 DEF Segment, Passed
<1>11. Passed(t) = IF Crosses(s, x) THEN Passed(s) + 1 ELSE Passed(s)
  <2>1. Cardinality(Boundaries(s) \cup {n + 1}) = Cardinality(Boundaries(s)) + 1
    BY <1>7, FS_AddElement
  <2> QED
    BY <1>5, <2>1 DEF Passed
<1> QED
  BY <1>5, <1>6, <1>9, <1>10, <1>11

LEMMA RoomIs ==
    ASSUME NEW N \in Nat
    PROVE  Room(N) = (IF N = 0 THEN 1 ELSE N) /\ Room(N) \in Nat \ {0}
<1> DEFINE r == IF N = 0 THEN 1 ELSE N
<1>1. r \in {1, N} /\ \A y \in {1, N} : r >= y
  OBVIOUS
<1>2. \A x \in {1, N} : (\A y \in {1, N} : x >= y) => x = r
  OBVIOUS
<1>3. Max({1, N}) = r
  BY <1>1, <1>2 DEF Max
<1> QED
  BY <1>3 DEF Room

LEMMA RanksNext ==
    ASSUME NEW s \in Seq(Reads), NEW x \in Reads, NEW t, t = Append(s, x), NEW N \in Nat
    PROVE  /\ \A i \in DOMAIN s : Group(t, N, i) = Group(s, N, i) /\ Level(t, i) = Level(s, i)
           /\ Group(t, N, Len(s) + 1) = IF Now(t) > 0 THEN 0 ELSE Held(s) \div Room(N)
<1> DEFINE n == Len(s)
<1>1. /\ n \in Nat /\ DOMAIN s = 1..n /\ n + 1 \notin DOMAIN s
      /\ \A i \in DOMAIN s : i \in Nat /\ i < n + 1
  BY Appended
<1>2. Positions(t) \subseteq Positions(s) \cup {n + 1} /\ Positions(s) \subseteq Positions(t)
  <2>1. Positions(t) = IF x.line \in Commands THEN Positions(s) \cup {n + 1} ELSE Positions(s)
    BY PartsNext
  <2> HIDE DEF n
  <2> QED
    BY <2>1
<1>3. /\ \A i \in DOMAIN s : Segment(t, i) = Segment(s, i)
      /\ Segment(t, n + 1) = Passed(s)
  BY PartsNext
<1>4. Positions(s) \subseteq DOMAIN s
  BY DEF Positions
<1>5. ASSUME NEW i \in DOMAIN s
      PROVE  Rank(t, i) = Rank(s, i)
  <2>1. \A j \in Positions(t) : j < i => j \in Positions(s)
    BY <1>1, <1>2
  <2>2. {j \in Positions(t) : j < i /\ Segment(t, j) = Segment(t, i)} =
        {j \in Positions(s) : j < i /\ Segment(s, j) = Segment(s, i)}
    BY <1>2, <1>3, <1>4, <2>1
  <2> QED
    BY <2>2 DEF Rank
<1>6. Rank(t, n + 1) = Held(s)
  <2>1. \A j \in Positions(t) : j < n + 1 <=> j \in Positions(s)
    BY <1>1, <1>2, <1>4
  <2>2. {j \in Positions(t) : j < n + 1 /\ Segment(t, j) = Segment(t, n + 1)} = Here(s)
    BY <1>2, <1>3, <1>4, <2>1 DEF Here
  <2> QED
    BY <2>2 DEF Rank, Held
<1>7. \A i \in DOMAIN s : i \in 0..n
  BY <1>1
<1>8. \A i \in DOMAIN s : Level(t, i) = Level(s, i)
  BY <1>7, LevelKept
<1>9. Level(t, n + 1) = Now(t)
  BY LevelAfter
<1> QED
  BY <1>5, <1>6, <1>8, <1>9 DEF Group

LEMMA NotBoth == \A a : {a, a} # {0, 1}
<1> SUFFICES ASSUME NEW a, {a, a} = {0, 1} PROVE FALSE
  OBVIOUS
<1>1. 0 \in {a, a} /\ 1 \in {a, a}
  OBVIOUS
<1> QED
  BY <1>1

LEMMA NoCommandCrosses ==
    ASSUME NEW s \in Seq(Reads), NEW x \in Reads, NEW t, t = Append(s, x)
    PROVE  /\ x.line \in Commands => Now(t) = Now(s) /\ ~Crosses(s, x)
           /\ ~Crosses(s, x) => (Now(t) > 0 <=> Now(s) > 0)
<1>1. /\ Now(s) \in Nat /\ Now(t) \in Nat
      /\ Now(t) = Level(t, Len(s) + 1)
      /\ Now(t) = IF x.line = Opening THEN Now(s) + 1
                  ELSE IF x.line = Closing /\ Now(s) > 0 THEN Now(s) - 1
                  ELSE Now(s)
  BY LevelAfter
<1>2. Crosses(s, x) <=> {Now(s), Now(t)} = {0, 1}
  BY <1>1 DEF Crosses, Now
<1>3. x.line \in Commands => x.line # Opening /\ x.line # Closing
  BY ParserAssumption DEF Brace
<1>4. x.line \in Commands => Now(t) = Now(s)
  BY <1>1, <1>3
<1>5. Now(t) = Now(s) => ~Crosses(s, x)
  BY <1>2, NotBoth
<1>6. Now(t) = Now(s) + 1 \/ Now(t) = Now(s) - 1 \/ Now(t) = Now(s)
  BY <1>1
<1>7. /\ Now(s) = 0 /\ Now(t) = 1 => Crosses(s, x)
      /\ Now(s) = 1 /\ Now(t) = 0 => Crosses(s, x)
  BY <1>2
<1> QED
  BY <1>1, <1>4, <1>5, <1>6, <1>7

LEMMA NoBoundary ==
    ASSUME NEW s \in Seq(Reads), NEW i \in Positions(s)
    PROVE  i \notin Boundaries(s)
<1>1. i \in DOMAIN s /\ s[i].line \in Commands /\ i - 1 \in Nat /\ (i - 1) + 1 = i
  BY DEF Positions
<1>2. s[i].line # Opening /\ s[i].line # Closing
  BY <1>1, ParserAssumption DEF Brace
<1>3. \A k \in Nat : Level(s, k + 1) = IF s[k + 1].line = Opening THEN Level(s, k) + 1
                                       ELSE IF s[k + 1].line = Closing /\ Level(s, k) > 0
                                            THEN Level(s, k) - 1
                                       ELSE Level(s, k)
  BY LevelNext
<1>4. Level(s, i) = Level(s, i - 1)
  BY <1>1, <1>2, <1>3
<1>5. {Level(s, i - 1), Level(s, i)} # {0, 1}
  BY <1>4, NotBoth
<1> QED
  BY <1>5 DEF Boundaries

LEMMA PassedBy ==
    ASSUME NEW s \in Seq(Reads), NEW i \in Positions(s)
    PROVE  (\E b \in Boundaries(s) : b > i) <=> i \notin Here(s)
<1> DEFINE before == {b \in Boundaries(s) : b < i}
<1>1. IsFiniteSet(Boundaries(s)) /\ Boundaries(s) \subseteq Nat /\ i \in Nat
  BY PartsAreFinite
<1>2. before \in SUBSET Boundaries(s)
  OBVIOUS
<1>3. Cardinality(before) = Cardinality(Boundaries(s)) => before = Boundaries(s)
  BY <1>1, <1>2, FS_Subset
<1>4. before = Boundaries(s) <=> ~\E b \in Boundaries(s) : b > i
  BY <1>1, NoBoundary
<1>5. i \in Here(s) <=> Cardinality(before) = Cardinality(Boundaries(s))
  BY DEF Here, Segment, Passed
<1> QED
  BY <1>3, <1>4, <1>5

(***************************************************************************)
(* The bulk being filled: the commands since the last boundary, or outside *)
(* braces those of the last group.  All in one segment are on one side of  *)
(* the braces, the groups before the last are full, and the commands of    *)
(* earlier bulks come before.                                              *)
(***************************************************************************)
LastGroup(s, N) == Held(s) \div Room(N)
Open(s, N) == {j \in Here(s) : Now(s) > 0 \/ Group(s, N, j) = LastGroup(s, N)}
InGroup(s, N, g) == {j \in Here(s) : Group(s, N, j) = g}

ParseOK(s, N) ==
    /\ \A i \in Here(s) : Level(s, i) > 0 <=> Now(s) > 0
    /\ Now(s) = 0 => \A g \in Nat : Cardinality(InGroup(s, N, g)) =
                         IF g < LastGroup(s, N) THEN Room(N)
                         ELSE IF g = LastGroup(s, N) THEN Held(s) % Room(N) ELSE 0
    /\ \A i \in Positions(s) \ Open(s, N), j \in Open(s, N) : i < j

LEMMA HereNext ==
    ASSUME NEW s \in Seq(Reads), NEW x \in Reads, NEW t, t = Append(s, x)
    PROVE  /\ Crosses(s, x) => Here(t) = {} /\ Held(t) = 0
           /\ ~Crosses(s, x) /\ x.line \notin Commands => Here(t) = Here(s) /\ Held(t) = Held(s)
           /\ x.line \in Commands => /\ Here(t) = Here(s) \cup {Len(s) + 1}
                                     /\ Held(t) = Held(s) + 1
<1> DEFINE n == Len(s)
<1>1. /\ Positions(t) = IF x.line \in Commands THEN Positions(s) \cup {n + 1} ELSE Positions(s)
      /\ \A i \in DOMAIN s : Segment(t, i) = Segment(s, i)
      /\ Segment(t, n + 1) = Passed(s)
      /\ Passed(t) = IF Crosses(s, x) THEN Passed(s) + 1 ELSE Passed(s)
  BY PartsNext
<1>2. /\ Positions(s) \subseteq DOMAIN s /\ Passed(s) \in Nat /\ n + 1 \notin DOMAIN s
      /\ \A i : Segment(s, i) \in Nat /\ Segment(s, i) <= Passed(s)
      /\ IsFiniteSet(Positions(s))
  BY PartsAreFinite, Appended
<1> HIDE DEF n
<1>3. CASE Crosses(s, x)
  <2>1. x.line \notin Commands
    BY <1>3, NoCommandCrosses
  <2>2. \A j \in Positions(t) : Segment(t, j) # Passed(t)
    BY <1>1, <1>2, <1>3, <2>1
  <2>3. Here(t) = {}
    BY <2>2 DEF Here
  <2> QED
    BY <2>1, <2>3, <1>3, FS_EmptySet DEF Held
<1>4. CASE ~Crosses(s, x) /\ x.line \notin Commands
  <2>1. Here(t) = Here(s)
    BY <1>1, <1>2, <1>4 DEF Here
  <2> QED
    BY <2>1, <1>4 DEF Held
<1>5. CASE x.line \in Commands
  <2>1. ~Crosses(s, x)
    BY <1>5, NoCommandCrosses
  <2>2. Here(t) = Here(s) \cup {n + 1}
    BY <1>1, <1>2, <1>5, <2>1 DEF Here
  <2>3. IsFiniteSet(Here(s)) /\ n + 1 \notin Here(s)
    <3>1. Here(s) \in SUBSET Positions(s)
      BY DEF Here
    <3> QED
      BY <3>1, <1>2, FS_Subset
  <2>4. Cardinality(Here(s) \cup {n + 1}) = Cardinality(Here(s)) + 1
    BY <2>3, FS_AddElement
  <2> QED
    BY <1>5, <2>1, <2>2, <2>4 DEF Held, n
<1> QED
  BY <1>3, <1>4, <1>5

LEMMA DivisionNext ==
    ASSUME NEW a \in Nat, NEW M \in Nat \ {0}
    PROVE  /\ a \div M \in Nat /\ a % M \in 0..(M - 1)
           /\ 0 \div M = 0 /\ 0 % M = 0
           /\ (a % M) + 1 < M => (a + 1) \div M = a \div M /\ (a + 1) % M = (a % M) + 1
           /\ ~((a % M) + 1 < M) => /\ (a % M) + 1 = M
                                  /\ (a + 1) \div M = a \div M + 1 /\ (a + 1) % M = 0
<1>1. a \div M \in Nat /\ a % M \in 0..(M - 1)
  OBVIOUS
<1>2. 0 \div M = 0 /\ 0 % M = 0
  OBVIOUS
<1>3. PICK q \in Nat, r \in 0..(M - 1) : q = a \div M /\ r = a % M
  BY <1>1
<1>4. a = q * M + r
  BY <1>3
<1>5. ASSUME NEW p \in Nat, NEW u \in 0..(M - 1)
      PROVE  (p * M + u) \div M = p /\ (p * M + u) % M = u
  OBVIOUS
<1>6. CASE r + 1 < M
  <2>1. r + 1 \in 0..(M - 1)
    BY <1>6
  <2>2. (q * M + (r + 1)) \div M = q /\ (q * M + (r + 1)) % M = r + 1
    BY <1>5, <2>1
  <2>3. a + 1 = q * M + (r + 1)
    BY <1>4
  <2> QED
    BY <1>1, <1>2, <1>3, <1>6, <2>2, <2>3
<1>7. CASE ~(r + 1 < M)
  <2>1. r + 1 = M
    BY <1>7
  <2>2. ((q + 1) * M + 0) \div M = q + 1 /\ ((q + 1) * M + 0) % M = 0
    BY <1>5
  <2>3. a + 1 = (q + 1) * M + 0
    BY <1>4, <2>1
  <2> QED
    BY <1>1, <1>2, <1>3, <1>7, <2>1, <2>2, <2>3
<1> QED
  BY <1>6, <1>7

LEMMA GroupIsNat ==
    ASSUME NEW s \in Seq(Reads), NEW N \in Nat, NEW i
    PROVE  Group(s, N, i) \in Nat
<1>1. Rank(s, i) \in Nat /\ Room(N) \in Nat \ {0}
  BY PartsAreFinite, RoomIs
<1>2. Rank(s, i) \div Room(N) \in Nat
  BY <1>1, DivisionNext
<1> QED
  BY <1>2 DEF Group

LEMMA OpenIs ==
    ASSUME NEW s \in Seq(Reads), NEW N \in Nat, ParseOK(s, N)
    PROVE  /\ Open(s, N) \subseteq Here(s) /\ Here(s) \subseteq Positions(s)
           /\ \A g : IsFiniteSet(InGroup(s, N, g))
           /\ IsFiniteSet(Open(s, N)) /\ Cardinality(Open(s, N)) \in Nat
           /\ LastGroup(s, N) \in Nat
           /\ Now(s) \in Nat
           /\ Now(s) = 0 => /\ Open(s, N) = InGroup(s, N, LastGroup(s, N))
                            /\ Cardinality(Open(s, N)) = Held(s) % Room(N)
           /\ Now(s) > 0 => Open(s, N) = Here(s)
<1>1. Open(s, N) \in SUBSET Positions(s) /\ \A g : InGroup(s, N, g) \in SUBSET Positions(s)
  BY DEF Open, InGroup, Here
<1>2. /\ IsFiniteSet(Open(s, N)) /\ Cardinality(Open(s, N)) \in Nat
      /\ \A g : IsFiniteSet(InGroup(s, N, g))
  BY <1>1, PartsAreFinite, FS_Subset, FS_CardinalityType
<1>3. LastGroup(s, N) \in Nat
  <2>1. Held(s) \in Nat /\ Room(N) \in Nat \ {0}
    BY PartsAreFinite, RoomIs
  <2> QED
    BY <2>1, DivisionNext DEF LastGroup
<1>4. Now(s) \in Nat
  <2>1. Len(s) \in Nat
    OBVIOUS
  <2> QED
    BY <2>1, LevelNext DEF Now
<1>5. Now(s) = 0 => Open(s, N) = InGroup(s, N, LastGroup(s, N))
  BY <1>4 DEF Open, InGroup
<1>6. Now(s) = 0 => Cardinality(InGroup(s, N, LastGroup(s, N))) = Held(s) % Room(N)
  BY <1>3 DEF ParseOK
<1> QED
  BY <1>2, <1>3, <1>4, <1>5, <1>6 DEF Open, Here

Grown(s, N, x) == IF x.line \in Commands THEN Open(s, N) \cup {Len(s) + 1} ELSE Open(s, N)

Flushes(s, N, x) ==
    \/ Crosses(s, x)
    \/ x.line \in Commands /\ Now(s) = 0 /\ Cardinality(Open(s, N)) + 1 >= N

LEMMA ParseNext ==
    ASSUME NEW s \in Seq(Reads), NEW x \in Reads, NEW t, t = Append(s, x), NEW N \in Nat,
           ParseOK(s, N)
    PROVE  /\ ParseOK(t, N)
           /\ Open(t, N) = IF Flushes(s, N, x) THEN {} ELSE Grown(s, N, x)
<1> DEFINE n == Len(s)
           q == LastGroup(s, N)
           r == Held(s) % Room(N)
<1>1. /\ n \in Nat /\ t \in Seq(Reads) /\ n + 1 \notin DOMAIN s
      /\ \A i \in DOMAIN s : i \in Nat /\ i < n + 1
  BY Appended
<1>2. /\ Positions(s) \subseteq DOMAIN s /\ Here(s) \subseteq Positions(s)
      /\ Open(s, N) \subseteq Here(s)
      /\ Now(s) \in Nat /\ q \in Nat
  BY OpenIs, PartsAreFinite
<1>3. /\ Crosses(s, x) => Here(t) = {} /\ Held(t) = 0
      /\ ~Crosses(s, x) /\ x.line \notin Commands => Here(t) = Here(s) /\ Held(t) = Held(s)
      /\ x.line \in Commands => Here(t) = Here(s) \cup {n + 1} /\ Held(t) = Held(s) + 1
  BY HereNext
<1>4. Positions(t) = IF x.line \in Commands THEN Positions(s) \cup {n + 1} ELSE Positions(s)
  BY PartsNext
<1>5. /\ x.line \in Commands => Now(t) = Now(s) /\ ~Crosses(s, x)
      /\ ~Crosses(s, x) => (Now(t) > 0 <=> Now(s) > 0)
  BY NoCommandCrosses
<1>6. /\ \A i \in DOMAIN s : Group(t, N, i) = Group(s, N, i) /\ Level(t, i) = Level(s, i)
      /\ Group(t, N, n + 1) = IF Now(t) > 0 THEN 0 ELSE q
      /\ Level(t, n + 1) = Now(t)
      /\ Now(t) \in Nat
  <2>1. /\ \A i \in DOMAIN s : Group(t, N, i) = Group(s, N, i) /\ Level(t, i) = Level(s, i)
        /\ Group(t, N, n + 1) = IF Now(t) > 0 THEN 0 ELSE Held(s) \div Room(N)
    BY RanksNext
  <2>2. Level(t, n + 1) = Now(t) /\ Now(t) \in Nat
    BY LevelAfter
  <2> QED
    BY <2>1, <2>2 DEF LastGroup
<1>7. Room(N) \in Nat \ {0} /\ Room(N) = IF N = 0 THEN 1 ELSE N
  BY RoomIs
<1>8. Held(s) \in Nat
  BY PartsAreFinite
<1> HIDE DEF n
<1>9. CASE Crosses(s, x)
  <2>1. Open(t, N) = {} /\ \A g : InGroup(t, N, g) = {}
    BY <1>3, <1>9 DEF Open, InGroup
  <2>2. LastGroup(t, N) = 0 /\ Held(t) % Room(N) = 0
    BY <1>3, <1>7, <1>9, DivisionNext DEF LastGroup
  <2>3. \A g \in Nat : Cardinality(InGroup(t, N, g)) = 0
    BY <2>1, FS_EmptySet
  <2>4. \A g \in Nat : Cardinality(InGroup(t, N, g)) =
            IF g < LastGroup(t, N) THEN Room(N)
            ELSE IF g = LastGroup(t, N) THEN Held(t) % Room(N) ELSE 0
    BY <2>2, <2>3
  <2>5. ParseOK(t, N)
    BY <1>3, <1>9, <2>1, <2>4 DEF ParseOK
  <2> QED
    BY <1>9, <2>1, <2>5 DEF Flushes
<1>10. CASE ~Crosses(s, x) /\ x.line \notin Commands
  <2>1. /\ Here(t) = Here(s) /\ Held(t) = Held(s) /\ Positions(t) = Positions(s)
        /\ Now(t) > 0 <=> Now(s) > 0
        /\ LastGroup(t, N) = LastGroup(s, N)
    BY <1>3, <1>4, <1>5, <1>10 DEF LastGroup
  <2>2. \A i \in Here(t) : Group(t, N, i) = Group(s, N, i) /\ Level(t, i) = Level(s, i)
    BY <1>2, <1>6, <2>1
  <2>3. Open(t, N) = Open(s, N) /\ \A g : InGroup(t, N, g) = InGroup(s, N, g)
    BY <2>1, <2>2 DEF Open, InGroup
  <2>4. Now(t) = 0 <=> Now(s) = 0
    BY <1>2, <1>6, <2>1
  <2>5. ParseOK(t, N)
    BY <2>1, <2>2, <2>3, <2>4 DEF ParseOK
  <2> QED
    BY <1>10, <2>3, <2>5 DEF Flushes, Grown
<1>11. ASSUME x.line \in Commands, Open(t, N) = Open(s, N) \cup {n + 1}
       PROVE  \A i \in Positions(t) \ Open(t, N), j \in Open(t, N) : i < j
  <2>1. \A i \in Positions(t) \ Open(t, N) : i \in Positions(s) \ Open(s, N)
    BY <1>4, <1>11
  <2>2. \A i \in Positions(s) : i < n + 1
    BY <1>1, <1>2
  <2>3. \A i \in Positions(s) \ Open(s, N), j \in Open(s, N) : i < j
    BY DEF ParseOK
  <2> QED
    BY <1>11, <2>1, <2>2, <2>3
<1>12. CASE x.line \in Commands /\ Now(s) > 0
  <2>1. Now(t) > 0 /\ Here(t) = Here(s) \cup {n + 1} /\ Now(t) # 0 /\ Now(s) # 0
    BY <1>2, <1>3, <1>5, <1>12
  <2>2. Open(t, N) = Here(t) /\ Open(s, N) = Here(s)
    BY <1>12, <2>1 DEF Open
  <2>3. \A i \in Here(t) : Level(t, i) > 0
    <3>1. \A i \in Here(s) : Level(t, i) > 0
      BY <1>2, <1>6, <1>12 DEF ParseOK
    <3> QED
      BY <1>6, <2>1, <3>1
  <2>4. ParseOK(t, N)
    BY <1>11, <1>12, <2>1, <2>2, <2>3 DEF ParseOK
  <2> QED
    BY <1>5, <1>12, <2>1, <2>2, <2>4 DEF Flushes, Grown, n
<1>13. CASE x.line \in Commands /\ Now(s) = 0
  <2>1. /\ Now(t) = 0 /\ Here(t) = Here(s) \cup {n + 1} /\ Held(t) = Held(s) + 1
        /\ ~Crosses(s, x) /\ Group(t, N, n + 1) = q
    BY <1>3, <1>5, <1>6, <1>13
  <2>2. Open(s, N) = InGroup(s, N, q) /\ Cardinality(Open(s, N)) = r
    BY <1>13, OpenIs
  <2>3. \A g : InGroup(t, N, g) = IF g = q THEN Open(s, N) \cup {n + 1} ELSE InGroup(s, N, g)
    <3>1. \A i \in Here(s) : Group(t, N, i) = Group(s, N, i)
      BY <1>2, <1>6
    <3> SUFFICES ASSUME NEW g
                 PROVE  InGroup(t, N, g) = IF g = q THEN Open(s, N) \cup {n + 1}
                                           ELSE InGroup(s, N, g)
      OBVIOUS
    <3> HIDE DEF q
    <3>2. CASE g = q
      BY <2>1, <2>2, <3>1, <3>2 DEF InGroup
    <3>3. CASE g # q
      BY <2>1, <2>2, <3>1, <3>3 DEF InGroup
    <3> QED
      BY <3>2, <3>3
  <2>4. Cardinality(Open(s, N) \cup {n + 1}) = r + 1
    <3>1. n + 1 \notin Open(s, N) /\ IsFiniteSet(Open(s, N))
      BY <1>1, <1>2, OpenIs
    <3> QED
      BY <2>2, <3>1, FS_AddElement
  <2>5. \A g \in Nat : Cardinality(InGroup(s, N, g)) =
                         IF g < q THEN Room(N) ELSE IF g = q THEN r ELSE 0
    BY <1>13 DEF ParseOK
  <2>6. \A g \in Nat : Cardinality(InGroup(t, N, g)) =
                         IF g < q THEN Room(N) ELSE IF g = q THEN r + 1 ELSE 0
    <3> SUFFICES ASSUME NEW g \in Nat
                 PROVE  Cardinality(InGroup(t, N, g)) =
                            IF g < q THEN Room(N) ELSE IF g = q THEN r + 1 ELSE 0
      OBVIOUS
    <3> HIDE DEF q, r
    <3>1. CASE g = q
      <4>1. Cardinality(InGroup(t, N, g)) = r + 1
        BY <2>3, <2>4, <3>1
      <4> QED
        BY <3>1, <4>1, <1>2
    <3>2. CASE g # q
      <4>1. InGroup(t, N, g) = InGroup(s, N, g)
        BY <2>3, <3>2
      <4>2. Cardinality(InGroup(s, N, g)) =
                IF g < q THEN Room(N) ELSE IF g = q THEN r ELSE 0
        BY <2>5
      <4> QED
        BY <3>2, <4>1, <4>2
    <3> QED
      BY <3>1, <3>2
  <2>7. \A i \in Here(t) : Level(t, i) > 0 <=> Now(t) > 0
    <3>1. \A i \in Here(s) : Level(t, i) > 0 <=> Now(s) > 0
      BY <1>2, <1>6 DEF ParseOK
    <3> QED
      BY <1>6, <1>13, <2>1, <3>1
  <2>8. Open(t, N) = InGroup(t, N, LastGroup(t, N))
    BY <2>1 DEF Open, InGroup
  <2>9. /\ r \in 0..(Room(N) - 1) /\ q = Held(s) \div Room(N)
        /\ r + 1 < Room(N) => LastGroup(t, N) = q /\ Held(t) % Room(N) = r + 1
        /\ ~(r + 1 < Room(N)) => /\ r + 1 = Room(N)
                                 /\ LastGroup(t, N) = q + 1 /\ Held(t) % Room(N) = 0
    <3> DEFINE a == Held(s)
               M == Room(N)
    <3>1. a \in Nat /\ M \in Nat \ {0}
      BY <1>7, <1>8
    <3>2. /\ LastGroup(t, N) = (a + 1) \div M /\ Held(t) % M = (a + 1) % M
          /\ q = a \div M /\ r = a % M
      BY <2>1 DEF LastGroup
    <3> HIDE DEF a, M, q, r
    <3>3. /\ a \div M \in Nat /\ a % M \in 0..(M - 1)
          /\ (a % M) + 1 < M => (a + 1) \div M = a \div M /\ (a + 1) % M = (a % M) + 1
          /\ ~((a % M) + 1 < M) => /\ (a % M) + 1 = M
                                 /\ (a + 1) \div M = a \div M + 1 /\ (a + 1) % M = 0
      BY <3>1, DivisionNext
    <3>4. /\ r \in 0..(M - 1)
          /\ r + 1 < M => LastGroup(t, N) = q /\ Held(t) % M = r + 1
          /\ ~(r + 1 < M) => r + 1 = M /\ LastGroup(t, N) = q + 1 /\ Held(t) % M = 0
      BY <3>2, <3>3
    <3> QED
      BY <3>2, <3>4 DEF a, M
  <2>10. Flushes(s, N, x) <=> ~(r + 1 < Room(N))
    <3>1. Flushes(s, N, x) <=> r + 1 >= N
      BY <1>13, <2>1, <2>2 DEF Flushes
    <3> HIDE DEF r
    <3> QED
      BY <1>7, <2>9, <3>1
  <2> HIDE DEF q, r
  <2>11. CASE r + 1 < Room(N)
    <3>1. LastGroup(t, N) = q /\ Held(t) % Room(N) = r + 1
      BY <2>9, <2>11
    <3>2. Open(t, N) = Open(s, N) \cup {n + 1}
      BY <2>3, <2>8, <3>1
    <3>3. \A g \in Nat : Cardinality(InGroup(t, N, g)) =
              IF g < LastGroup(t, N) THEN Room(N)
              ELSE IF g = LastGroup(t, N) THEN Held(t) % Room(N) ELSE 0
      BY <2>6, <3>1
    <3>4. ParseOK(t, N)
      BY <1>11, <1>13, <2>7, <3>2, <3>3 DEF ParseOK
    <3> QED
      BY <1>13, <2>10, <2>11, <3>2, <3>4 DEF Grown, n
  <2>12. CASE ~(r + 1 < Room(N))
    <3>1. LastGroup(t, N) = q + 1 /\ Held(t) % Room(N) = 0 /\ r + 1 = Room(N)
      BY <2>9, <2>12
    <3>2. \A g \in Nat : Cardinality(InGroup(t, N, g)) =
              IF g < LastGroup(t, N) THEN Room(N)
              ELSE IF g = LastGroup(t, N) THEN Held(t) % Room(N) ELSE 0
      BY <1>2, <2>6, <3>1
    <3>3. Cardinality(InGroup(t, N, q + 1)) = 0
      BY <1>2, <2>6
    <3>4. IsFiniteSet(Open(t, N))
      <4>1. Open(t, N) \in SUBSET Positions(t)
        BY DEF Open, Here
      <4> QED
        BY <1>1, <4>1, PartsAreFinite, FS_Subset
    <3>5. Open(t, N) = {}
      BY <2>8, <3>1, <3>3, <3>4, FS_EmptySet
    <3>6. ParseOK(t, N)
      BY <2>7, <3>2, <3>5 DEF ParseOK
    <3> QED
      BY <2>10, <2>12, <3>5, <3>6
  <2> QED
    BY <2>11, <2>12
<1> QED
  BY <1>2, <1>9, <1>10, <1>12, <1>13

(***************************************************************************)
(* The commands of the bulk being filled are those that are in no complete *)
(* bulk; at the end of the input they are a bulk too, outside braces.      *)
(***************************************************************************)
LEMMA BulkOfOpen ==
    ASSUME NEW s \in Seq(Reads), NEW N \in Nat, ParseOK(s, N)
    PROVE  /\ \A i \in Here(s) : BulkAt(s, N, i) = InGroup(s, N, Group(s, N, i))
           /\ \A i \in Here(s) : Now(s) > 0 => Group(s, N, i) = 0
           /\ \A i \in Open(s, N) : BulkAt(s, N, i) = Open(s, N)
<1>1. ASSUME NEW i \in Here(s)
      PROVE  BulkAt(s, N, i) = InGroup(s, N, Group(s, N, i))
  BY DEF BulkAt, InGroup, Here
<1>2. ASSUME NEW i \in Here(s), Now(s) > 0
      PROVE  Group(s, N, i) = 0
  BY <1>2 DEF ParseOK, Group
<1>3. ASSUME NEW i \in Open(s, N)
      PROVE  BulkAt(s, N, i) = Open(s, N)
  <2>1. i \in Here(s) /\ BulkAt(s, N, i) = InGroup(s, N, Group(s, N, i))
    BY <1>1 DEF Open
  <2>2. Now(s) \in Nat
    BY OpenIs
  <2>3. CASE Now(s) > 0
    <3>1. Open(s, N) = Here(s) /\ Group(s, N, i) = 0
      BY <1>2, <2>1, <2>3 DEF Open
    <3>2. InGroup(s, N, 0) = Here(s)
      BY <1>2, <2>3 DEF InGroup
    <3> QED
      BY <2>1, <3>1, <3>2
  <2>4. CASE Now(s) = 0
    <3>1. Group(s, N, i) = LastGroup(s, N)
      BY <2>4 DEF Open
    <3>2. Open(s, N) = InGroup(s, N, LastGroup(s, N))
      BY <2>4, OpenIs
    <3> QED
      BY <2>1, <3>1, <3>2
  <2> QED
    BY <2>2, <2>3, <2>4
<1> QED
  BY <1>1, <1>2, <1>3

LEMMA CompleteIs ==
    ASSUME NEW s \in Seq(Reads), NEW N \in Nat, ParseOK(s, N), NEW i \in Positions(s)
    PROVE  /\ IsComplete(s, N, FALSE, i) <=> i \notin Open(s, N)
           /\ IsComplete(s, N, TRUE, i) <=> i \notin Open(s, N) \/ Now(s) = 0
<1>1. (\E b \in Boundaries(s) : b > i) <=> i \notin Here(s)
  BY PassedBy
<1>2. Now(s) \in Nat /\ LastGroup(s, N) \in Nat /\ Open(s, N) \subseteq Here(s)
  BY OpenIs
<1>3. CASE i \notin Here(s)
  BY <1>1, <1>2, <1>3 DEF IsComplete
<1>4. CASE i \in Here(s) /\ Now(s) > 0
  <2>1. Level(s, i) > 0 /\ i \in Open(s, N)
    BY <1>4 DEF ParseOK, Open
  <2>2. Level(s, i) # 0 /\ Now(s) # 0
    BY <1>2, <1>4, <2>1
  <2> QED
    BY <1>1, <1>4, <2>1, <2>2 DEF IsComplete
<1>5. CASE i \in Here(s) /\ Now(s) = 0
  <2>1. Level(s, i) = 0
    <3>1. Level(s, i) \in Nat
      <4>1. i \in Nat
        BY PartsAreFinite
      <4> QED
        BY <4>1, LevelNext
    <3>2. ~(Level(s, i) > 0)
      BY <1>5 DEF ParseOK
    <3> QED
      BY <3>1, <3>2
  <2> DEFINE g == Group(s, N, i)
             c == Cardinality(InGroup(s, N, g))
             last == LastGroup(s, N)
             r == Held(s) % Room(N)
  <2>2. BulkAt(s, N, i) = InGroup(s, N, g) /\ g \in Nat
    BY <1>5, BulkOfOpen, GroupIsNat
  <2>3. c = IF g < last THEN Room(N) ELSE IF g = last THEN r ELSE 0
    BY <1>5, <2>2 DEF ParseOK
  <2>4. c # 0 /\ c \in Nat
    <3>1. i \in InGroup(s, N, g)
      BY <1>5 DEF InGroup
    <3>2. IsFiniteSet(InGroup(s, N, g))
      BY OpenIs
    <3> QED
      BY <3>1, <3>2, FS_EmptySet, FS_CardinalityType
  <2>5. /\ Room(N) = (IF N = 0 THEN 1 ELSE N)
        /\ r \in 0..(Room(N) - 1)
    <3>1. Held(s) \in Nat /\ Room(N) \in Nat \ {0}
      BY PartsAreFinite, RoomIs
    <3>2. r \in 0..(Room(N) - 1)
      BY <3>1, DivisionNext
    <3> QED
      BY <3>2, RoomIs
  <2>6. i \in Open(s, N) <=> g = last
    BY <1>5 DEF Open
  <2>7. /\ IsComplete(s, N, TRUE, i)
        /\ IsComplete(s, N, FALSE, i) <=> c >= N
    BY <1>1, <1>5, <2>1, <2>2 DEF IsComplete
  <2> HIDE DEF g, c, last, r
  <2>8. c >= N <=> g # last
    BY <1>2, <2>2, <2>3, <2>4, <2>5 DEF last
  <2> QED
    BY <1>5, <2>6, <2>7, <2>8
<1>6. Now(s) > 0 \/ Now(s) = 0
  BY <1>2
<1> QED
  BY <1>3, <1>4, <1>5, <1>6, Zenon

\* The bulks after a line more: the open one has grown, the others are as before.
BulksGrow(s, t, N, x) ==
    \A i \in Positions(t) :
        BulkAt(t, N, i) = IF i \in Grown(s, N, x) THEN Grown(s, N, x) ELSE BulkAt(s, N, i)

LEMMA BulkNext ==
    ASSUME NEW s \in Seq(Reads), NEW x \in Reads, NEW t, t = Append(s, x), NEW N \in Nat,
           ParseOK(s, N)
    PROVE  BulksGrow(s, t, N, x)
<1> SUFFICES ASSUME NEW i \in Positions(t)
             PROVE  BulkAt(t, N, i) = IF i \in Grown(s, N, x) THEN Grown(s, N, x)
                                      ELSE BulkAt(s, N, i)
  BY DEF BulksGrow
<1> DEFINE n == Len(s)
           h == Group(t, N, n + 1)
<1>1. /\ Positions(t) = IF x.line \in Commands THEN Positions(s) \cup {n + 1} ELSE Positions(s)
      /\ \A j \in DOMAIN s : Segment(t, j) = Segment(s, j)
      /\ Segment(t, n + 1) = Passed(s)
  BY PartsNext
<1>2. /\ \A j \in DOMAIN s : Group(t, N, j) = Group(s, N, j)
      /\ h = IF Now(t) > 0 THEN 0 ELSE LastGroup(s, N)
  BY RanksNext DEF LastGroup
<1>3. /\ n + 1 \notin DOMAIN s /\ Positions(s) \subseteq DOMAIN s
      /\ Open(s, N) \subseteq Here(s) /\ Here(s) \subseteq Positions(s)
      /\ Now(s) \in Nat
  BY Appended, PartsAreFinite, OpenIs
<1>4. \A j \in Open(s, N) : BulkAt(s, N, j) = Open(s, N)
  BY BulkOfOpen
<1> HIDE DEF h, n
<1>5. CASE x.line \notin Commands
  <2>1. BulkAt(t, N, i) = BulkAt(s, N, i)
    BY <1>1, <1>2, <1>3, <1>5 DEF BulkAt
  <2> QED
    BY <1>4, <1>5, <2>1 DEF Grown
<1>6. CASE x.line \in Commands
  <2>1. Now(t) = Now(s) /\ Positions(t) = Positions(s) \cup {n + 1}
    BY <1>1, <1>6, NoCommandCrosses
  <2>2. Grown(s, N, x) = Open(s, N) \cup {n + 1}
    BY <1>6 DEF Grown, n
  <2>3. ASSUME NEW j \in Positions(s)
        PROVE  Segment(s, j) = Passed(s) /\ Group(s, N, j) = h <=> j \in Open(s, N)
    <3>1. Segment(s, j) = Passed(s) <=> j \in Here(s)
      BY DEF Here
    <3>2. CASE Now(s) > 0
      <4>1. h = 0 /\ Open(s, N) = Here(s)
        BY <1>2, <2>1, <3>2 DEF Open
      <4>2. \A k \in Here(s) : Group(s, N, k) = 0
        BY <3>2, BulkOfOpen
      <4> QED
        BY <3>1, <4>1, <4>2
    <3>3. CASE Now(s) = 0
      <4>1. h = LastGroup(s, N) /\ ~(Now(s) > 0)
        BY <1>2, <2>1, <3>3
      <4> QED
        BY <3>1, <4>1 DEF Open
    <3> QED
      BY <1>3, <3>2, <3>3
  <2>4. CASE i = n + 1
    <3>1. \A j \in Positions(s) : j \in BulkAt(t, N, i) <=> j \in Open(s, N)
      BY <1>1, <1>2, <1>3, <2>1, <2>3, <2>4 DEF BulkAt, h
    <3>2. n + 1 \in BulkAt(t, N, i)
      BY <2>1, <2>4 DEF BulkAt
    <3>3. BulkAt(t, N, i) \subseteq Positions(t)
      BY DEF BulkAt
    <3>4. BulkAt(t, N, i) = Open(s, N) \cup {n + 1}
      BY <1>3, <2>1, <3>1, <3>2, <3>3
    <3> QED
      BY <2>2, <2>4, <3>4
  <2>5. CASE i # n + 1
    <3>1. i \in Positions(s)
      BY <2>1, <2>5
    <3>2. \A j \in Positions(s) : j \in BulkAt(t, N, i) <=> j \in BulkAt(s, N, i)
      BY <1>1, <1>2, <1>3, <2>1, <3>1 DEF BulkAt
    <3>3. n + 1 \in BulkAt(t, N, i) <=> i \in Open(s, N)
      <4>1. n + 1 \in BulkAt(t, N, i) <=> Segment(s, i) = Passed(s) /\ Group(s, N, i) = h
        BY <1>1, <1>2, <1>3, <2>1, <3>1 DEF BulkAt, h
      <4> QED
        BY <2>3, <3>1, <4>1
    <3>4. BulkAt(t, N, i) \subseteq Positions(s) \cup {n + 1} /\ BulkAt(s, N, i) \subseteq Positions(s)
      BY <2>1 DEF BulkAt
    <3>5. CASE i \in Open(s, N)
      <4>1. BulkAt(s, N, i) = Open(s, N)
        BY <1>4, <3>5
      <4>2. BulkAt(t, N, i) = Open(s, N) \cup {n + 1}
        BY <1>3, <3>2, <3>3, <3>4, <3>5, <4>1
      <4> QED
        BY <2>2, <3>5, <4>2
    <3>6. CASE i \notin Open(s, N)
      <4>1. BulkAt(t, N, i) = BulkAt(s, N, i)
        BY <3>2, <3>3, <3>4, <3>6
      <4> QED
        BY <2>2, <2>5, <3>6, <4>1
    <3> QED
      BY <3>5, <3>6
  <2> QED
    BY <2>4, <2>5
<1> QED
  BY <1>5, <1>6

LEMMA InOrderSame ==
    ASSUME NEW S, S \subseteq Nat, IsFiniteSet(S), NEW f, NEW g, \A j \in S : g[j] = f[j]
    PROVE  InOrder(S, g) = InOrder(S, f)
<1>1. \A k \in 1..Cardinality(S) : Nth(S, k) \in S
  BY NthExists
<1>2. \A k \in 1..Cardinality(S) : g[Nth(S, k)] = f[Nth(S, k)]
  BY <1>1
<1> QED
  BY <1>2 DEF InOrder

LEMMA FirstsAre ==
    ASSUME NEW s \in Seq(Reads), NEW N \in Nat, ParseOK(s, N)
    PROVE  /\ Firsts(s, N, FALSE) =
                 {i \in Positions(s) \ Open(s, N) : i = Min(BulkAt(s, N, i))}
           /\ Firsts(s, N, TRUE) =
                 {i \in Positions(s) : /\ i \notin Open(s, N) \/ Now(s) = 0
                                       /\ i = Min(BulkAt(s, N, i))}
           /\ \A e : /\ Firsts(s, N, e) \subseteq Positions(s)
                     /\ Firsts(s, N, e) \subseteq Nat /\ IsFiniteSet(Firsts(s, N, e))
<1>1. \A i \in Positions(s) : /\ IsComplete(s, N, FALSE, i) <=> i \notin Open(s, N)
                              /\ IsComplete(s, N, TRUE, i) <=> i \notin Open(s, N) \/ Now(s) = 0
  BY CompleteIs
<1>2. \A e : Firsts(s, N, e) \in SUBSET Positions(s)
  BY DEF Firsts
<1>3. \A e : Firsts(s, N, e) \subseteq Nat /\ IsFiniteSet(Firsts(s, N, e))
  BY <1>2, PartsAreFinite, FS_Subset
<1>4. Firsts(s, N, FALSE) = {i \in Positions(s) \ Open(s, N) : i = Min(BulkAt(s, N, i))}
  BY <1>1 DEF Firsts
<1>5. Firsts(s, N, TRUE) = {i \in Positions(s) : /\ i \notin Open(s, N) \/ Now(s) = 0
                                                 /\ i = Min(BulkAt(s, N, i))}
  BY <1>1 DEF Firsts
<1> QED
  BY <1>2, <1>3, <1>4, <1>5

\* g has f's values on F, and the whole of G at the first number of G, which
\* comes after those of F.
Extends(F, f, G, g) ==
    /\ F \subseteq Nat /\ IsFiniteSet(F)
    /\ G \subseteq Nat /\ G # {} /\ \A i \in F, j \in G : i < j
    /\ \A i \in F : g[i] = f[i]
    /\ g[Min(G)] = G

\* Bulks with a further one, of commands that come after their first ones.
LEMMA OneBulkMore ==
    ASSUME NEW F, NEW f, NEW G, NEW g, Extends(F, f, G, g)
    PROVE  InOrder(F \cup {Min(G)}, g) = Further(InOrder(F, f), G)
<1> DEFINE m == Min(G)
<1>1. /\ F \subseteq Nat /\ IsFiniteSet(F)
      /\ m \in Nat /\ \A i \in F : i < m
      /\ \A i \in F : g[i] = f[i]
      /\ g[m] = G
  BY MinOfNumbers DEF Extends
<1> HIDE DEF m
<1>2. InOrder(F \cup {m}, g) = Further(InOrder(F, f), g[m])
  <2>1. Continues(F, f, m, g)
    BY <1>1 DEF Continues
  <2> QED
    BY <2>1, InOrderMore
<1> QED
  BY <1>1, <1>2 DEF m

(***************************************************************************)
(* A line more makes one complete bulk more, or none.                      *)
(***************************************************************************)
NextBulks(s, N, x) ==
    IF Flushes(s, N, x) /\ Grown(s, N, x) # {}
    THEN Append(AllBulks(s, N, FALSE), Grown(s, N, x))
    ELSE AllBulks(s, N, FALSE)

LEMMA BulksNext ==
    ASSUME NEW s \in Seq(Reads), NEW x \in Reads, NEW t, t = Append(s, x), NEW N \in Nat,
           ParseOK(s, N)
    PROVE  AllBulks(t, N, FALSE) = NextBulks(s, N, x)
<1> DEFINE n == Len(s)
           O == Open(s, N)
           G == Grown(s, N, x)
           F == Firsts(s, N, FALSE)
           f == [i \in Positions(s) |-> BulkAt(s, N, i)]
           g == [i \in Positions(t) |-> BulkAt(t, N, i)]
<1>1. ParseOK(t, N) /\ Open(t, N) = IF Flushes(s, N, x) THEN {} ELSE G
  BY ParseNext
<1>2. /\ n \in Nat /\ t \in Seq(Reads) /\ n + 1 \notin DOMAIN s
      /\ \A i \in DOMAIN s : i \in Nat /\ i < n + 1
  BY Appended
<1>3. Positions(s) \subseteq DOMAIN s /\ O \subseteq Positions(s)
  BY PartsAreFinite, OpenIs
<1>4. /\ G = IF x.line \in Commands THEN O \cup {n + 1} ELSE O
      /\ Positions(t) = IF x.line \in Commands THEN Positions(s) \cup {n + 1} ELSE Positions(s)
  BY PartsNext DEF Grown
<1>5. /\ F = {i \in Positions(s) \ O : i = Min(BulkAt(s, N, i))}
      /\ F \subseteq Nat /\ IsFiniteSet(F)
  BY FirstsAre
<1>6. Firsts(t, N, FALSE) = {i \in Positions(t) \ Open(t, N) : i = Min(BulkAt(t, N, i))}
  BY <1>1, <1>2, FirstsAre
<1>7. \A i \in Positions(t) : BulkAt(t, N, i) = IF i \in G THEN G ELSE BulkAt(s, N, i)
  <2> HIDE DEF f, g, F, O, n, G
  <2>1. BulksGrow(s, t, N, x)
    BY BulkNext
  <2> QED
    BY <2>1 DEF G, BulksGrow
<1>8. Positions(t) \ G = Positions(s) \ O /\ G \subseteq Positions(t) /\ G \subseteq Nat
  <2> HIDE DEF n, O, G
  <2>1. n + 1 \in Nat /\ n + 1 \notin Positions(s) /\ Positions(s) \subseteq Nat
    BY <1>2, <1>3
  <2>2. CASE x.line \in Commands
    BY <1>3, <1>4, <2>1, <2>2
  <2>3. CASE x.line \notin Commands
    BY <1>3, <1>4, <2>1, <2>3
  <2> QED
    BY <2>2, <2>3
<1>9. AllBulks(s, N, FALSE) = InOrder(F, f) /\ AllBulks(t, N, FALSE) = InOrder(Firsts(t, N, FALSE), g)
  BY DEF AllBulks
<1> HIDE DEF n, O, G, F
<1>10. \A i \in F : i \in Positions(s) /\ i \in Positions(t) /\ i \notin G
  BY <1>5, <1>8
<1>11. \A i \in F : g[i] = f[i]
  BY <1>7, <1>10
<1>12. \A i \in Positions(t) : g[i] = BulkAt(t, N, i)
  OBVIOUS
<1> HIDE DEF f, g
<1>13. CASE ~Flushes(s, N, x) \/ G = {}
  <2>1. Open(t, N) = G
    BY <1>1, <1>13
  <2>2. Firsts(t, N, FALSE) = F
    BY <1>5, <1>6, <1>7, <1>8, <2>1
  <2>3. InOrder(F, g) = InOrder(F, f)
    BY <1>5, <1>11, InOrderSame
  <2>4. AllBulks(t, N, FALSE) = AllBulks(s, N, FALSE)
    BY <1>9, <2>2, <2>3
  <2> QED
    BY <1>13, <2>4 DEF G, NextBulks
<1>14. CASE Flushes(s, N, x) /\ G # {}
  <2>1. Open(t, N) = {}
    BY <1>1, <1>14
  <2>2. Min(G) \in G
    BY <1>8, <1>14, MinOfNumbers
  <2>3. ASSUME NEW i \in Positions(t)
        PROVE  i = Min(BulkAt(t, N, i)) <=> i \in F \cup {Min(G)}
    <3>1. CASE i \in G
      <4>1. BulkAt(t, N, i) = G /\ i \notin F
        BY <1>7, <1>10, <3>1
      <4> QED
        BY <4>1
    <3>2. CASE i \notin G
      <4>1. BulkAt(t, N, i) = BulkAt(s, N, i) /\ i \in Positions(s) \ O /\ i # Min(G)
        BY <1>7, <1>8, <2>2, <3>2
      <4> QED
        BY <1>5, <4>1
    <3> QED
      BY <3>1, <3>2
  <2>4. F \cup {Min(G)} \subseteq Positions(t)
    BY <1>8, <1>10, <2>2
  <2>5. Firsts(t, N, FALSE) = F \cup {Min(G)}
    BY <1>6, <2>1, <2>3, <2>4
  <2>6. \A i \in F, j \in G : i < j
    <3>1. \A i \in Positions(s) \ O, j \in O : i < j
      BY DEF ParseOK, O
    <3>2. \A i \in Positions(s) : i < n + 1
      BY <1>2, <1>3 DEF n
    <3>3. \A i \in F : i \in Positions(s) \ O
      BY <1>5
    <3>4. \A j \in G : j \in O \/ j = n + 1
      BY <1>4
    <3> QED
      BY <3>1, <3>2, <3>3, <3>4
  <2>7. g[Min(G)] = G
    BY <1>7, <1>8, <1>12, <2>2
  <2>8. InOrder(F \cup {Min(G)}, g) = Further(InOrder(F, f), G)
    <3>1. Extends(F, f, G, g)
      BY <1>5, <1>8, <1>11, <1>14, <2>6, <2>7 DEF Extends
    <3> QED
      BY <3>1, OneBulkMore
  <2>9. AllBulks(t, N, FALSE) = Append(AllBulks(s, N, FALSE), G)
    BY <1>9, <2>5, <2>8 DEF Further
  <2> QED
    BY <1>14, <2>9 DEF G, NextBulks
<1> QED
  BY <1>13, <1>14

(***************************************************************************)
(* The end of the input completes a bulk outside braces, and no other.     *)
(***************************************************************************)
LEMMA BulksAtEnd ==
    ASSUME NEW s \in Seq(Reads), NEW N \in Nat, ParseOK(s, N)
    PROVE  AllBulks(s, N, TRUE) =
              IF Now(s) = 0 /\ Open(s, N) # {}
              THEN Append(AllBulks(s, N, FALSE), Open(s, N))
              ELSE AllBulks(s, N, FALSE)
<1> DEFINE O == Open(s, N)
           F == Firsts(s, N, FALSE)
           f == [i \in Positions(s) |-> BulkAt(s, N, i)]
<1>1. /\ F = {i \in Positions(s) \ O : i = Min(BulkAt(s, N, i))}
      /\ F \subseteq Nat /\ IsFiniteSet(F)
      /\ Firsts(s, N, TRUE) = {i \in Positions(s) : /\ i \notin O \/ Now(s) = 0
                                                    /\ i = Min(BulkAt(s, N, i))}
  BY FirstsAre
<1>2. O \subseteq Positions(s) /\ Positions(s) \subseteq Nat
  BY OpenIs, PartsAreFinite
<1>3. \A i \in O : BulkAt(s, N, i) = O
  BY BulkOfOpen
<1>4. AllBulks(s, N, FALSE) = InOrder(F, f) /\ AllBulks(s, N, TRUE) = InOrder(Firsts(s, N, TRUE), f)
  BY DEF AllBulks
<1>5. \A i \in F, j \in O : i < j
  BY <1>1 DEF ParseOK
<1>6. \A i \in Positions(s) : f[i] = BulkAt(s, N, i)
  OBVIOUS
<1> HIDE DEF O, F, f
<1>7. CASE ~(Now(s) = 0 /\ O # {})
  <2>1. Firsts(s, N, TRUE) = F
    BY <1>1, <1>7
  <2> QED
    BY <1>4, <1>7, <2>1 DEF O
<1>8. CASE Now(s) = 0 /\ O # {}
  <2>1. O \subseteq Nat /\ Min(O) \in O
    BY <1>2, <1>8, MinOfNumbers
  <2>2. Firsts(s, N, TRUE) = F \cup {Min(O)}
    <3>1. ASSUME NEW i \in Positions(s)
          PROVE  i = Min(BulkAt(s, N, i)) <=> i \in F \cup {Min(O)}
      <4>1. CASE i \in O
        BY <1>1, <1>3, <4>1
      <4>2. CASE i \notin O
        BY <1>1, <2>1, <4>2
      <4> QED
        BY <4>1, <4>2
    <3>2. F \cup {Min(O)} \subseteq Positions(s)
      BY <1>1, <1>2, <2>1
    <3> QED
      BY <1>1, <1>8, <3>1, <3>2
  <2>3. f[Min(O)] = O
    BY <1>2, <1>3, <1>6, <2>1
  <2>4. InOrder(F \cup {Min(O)}, f) = Further(InOrder(F, f), O)
    <3>1. Extends(F, f, O, f)
      BY <1>1, <1>5, <1>8, <2>1, <2>3 DEF Extends
    <3> QED
      BY <3>1, OneBulkMore
  <2> QED
    BY <1>4, <1>8, <2>2, <2>4 DEF O, Further
<1> QED
  BY <1>7, <1>8

(***************************************************************************)
(* The reference of the run is AllBulks of the lines read so far.          *)
(***************************************************************************)
LEMMA BulksAre ==
    ASSUME input \in Seq(Reads)
    PROVE  Bulks = AllBulks(input, static_block_size_, eof)
<1> DEFINE s == input
           N == static_block_size_
           upTo(i, l) == Cardinality({j \in 1..i : input[j].line = l})
           balance == [i \in 0..Len(input) |-> upTo(i, Opening) - upTo(i, Closing)]
           level == [i \in 0..Len(input) |->
                        balance[i] - Min({balance[j] : j \in 0..i})]
           boundaries == {i \in DOMAIN input : {level[i - 1], level[i]} = {0, 1}}
           positions == {i \in DOMAIN input : input[i].line \in Commands}
           segment == [i \in positions |-> Cardinality({b \in boundaries : b < i})]
           rank == [i \in positions |->
                       Cardinality({j \in positions : j < i /\ segment[j] = segment[i]})]
           group == [i \in positions |->
                        IF level[i] > 0 THEN 0
                        ELSE rank[i] \div Max({1, static_block_size_})]
           bulk == [i \in positions |->
                       {j \in positions : segment[j] = segment[i] /\ group[j] = group[i]}]
           complete == {i \in positions :
                           \/ \E b \in boundaries : b > i
                           \/ /\ level[i] = 0
                              /\ eof \/ Cardinality(bulk[i]) >= static_block_size_}
           firsts == {i \in complete : i = Min(bulk[i])}
<1>1. Bulks = [k \in 1..Cardinality(firsts) |-> bulk[Nth(firsts, k)]]
  BY DEF Bulks
<1>2. Len(s) \in Nat /\ DOMAIN s = 1..Len(s)
  BY PartsAreFinite
<1>3. \A i \in 0..Len(s) : balance[i] = Balance(s, i)
  BY DEF Balance, CountOf
<1>4. \A i \in 0..Len(s) : level[i] = Level(s, i)
  <2> SUFFICES ASSUME NEW i \in 0..Len(s)
               PROVE  level[i] = Level(s, i)
    OBVIOUS
  <2> HIDE DEF balance
  <2>1. \A j \in 0..i : j \in 0..Len(s)
    BY <1>2
  <2>2. {balance[j] : j \in 0..i} = {Balance(s, j) : j \in 0..i}
    BY <1>3, <2>1
  <2>3. level[i] = balance[i] - Min({balance[j] : j \in 0..i})
    OBVIOUS
  <2> QED
    BY <1>3, <2>2, <2>3 DEF Level
<1> HIDE DEF balance, level
<1>5. boundaries = Boundaries(s)
  <2>1. \A i \in DOMAIN s : i \in 0..Len(s) /\ i - 1 \in 0..Len(s)
    BY <1>2
  <2> QED
    BY <1>4, <2>1 DEF Boundaries
<1>6. positions = Positions(s)
  BY DEF Positions
<1>7. positions \subseteq 0..Len(s)
  BY <1>2
<1> HIDE DEF boundaries, positions
<1>8. \A i \in positions : segment[i] = Segment(s, i)
  BY <1>5 DEF Segment
<1> HIDE DEF segment
<1>9. \A i \in positions : rank[i] = Rank(s, i)
  <2> SUFFICES ASSUME NEW i \in positions
               PROVE  rank[i] = Rank(s, i)
    OBVIOUS
  <2>1. {j \in positions : j < i /\ segment[j] = segment[i]} =
            {j \in Positions(s) : j < i /\ Segment(s, j) = Segment(s, i)}
    BY <1>6, <1>8
  <2> QED
    BY <2>1 DEF Rank
<1> HIDE DEF rank
<1>10. \A i \in positions : group[i] = Group(s, N, i)
  BY <1>4, <1>7, <1>9 DEF Group, Room
<1> HIDE DEF group
<1>11. \A i \in positions : bulk[i] = BulkAt(s, N, i)
  BY <1>6, <1>8, <1>10 DEF BulkAt
<1>12. bulk = [i \in Positions(s) |-> BulkAt(s, N, i)]
  BY <1>6, <1>8, <1>10 DEF BulkAt
<1> HIDE DEF bulk
<1>13. firsts = Firsts(s, N, eof)
  BY <1>4, <1>5, <1>6, <1>7, <1>11 DEF Firsts, IsComplete
<1> HIDE DEF firsts
<1> QED
  BY <1>1, <1>12, <1>13 DEF AllBulks, InOrder

(***************************************************************************)
(* The lines at some positions, as Text has them: those of the first lines *)
(* stay as they are, and the next line comes last.                         *)
(***************************************************************************)
LineOf(s) == [i \in DOMAIN s |-> s[i].line]

LinesAt(s, S) == InOrder(S, LineOf(s))

LEMMA TextIs ==
    ASSUME input \in Seq(Reads), NEW S \in SUBSET DOMAIN input
    PROVE  Text(S) = LinesAt(input, S)
<1>1. DOMAIN input \subseteq Nat /\ IsFiniteSet(DOMAIN input)
  <2>1. DOMAIN input = 1..Len(input) /\ Len(input) \in Nat
    OBVIOUS
  <2> QED
    BY <2>1, FS_Interval
<1>2. S \subseteq Nat /\ IsFiniteSet(S)
  BY <1>1, FS_Subset
<1>3. \A k \in 1..Cardinality(S) : Nth(S, k) \in S
  BY <1>2, NthExists
<1>4. \A k \in 1..Cardinality(S) : LineOf(input)[Nth(S, k)] = input[Nth(S, k)].line
  BY <1>3 DEF LineOf
<1> QED
  BY <1>4 DEF Text, LinesAt, InOrder

LinesGrow(s, t, x) ==
    \A S \in SUBSET DOMAIN s :
        /\ LinesAt(t, S) = LinesAt(s, S)
        /\ LinesAt(t, S \cup {Len(s) + 1}) = Further(LinesAt(s, S), x.line)

LEMMA LinesKept ==
    ASSUME NEW s \in Seq(Reads), NEW x \in Reads, NEW t, t = Append(s, x)
    PROVE  LinesGrow(s, t, x)
<1> SUFFICES ASSUME NEW S \in SUBSET DOMAIN s
             PROVE  /\ LinesAt(t, S) = LinesAt(s, S)
                    /\ LinesAt(t, S \cup {Len(s) + 1}) = Further(LinesAt(s, S), x.line)
  BY DEF LinesGrow
<1> DEFINE n == Len(s)
<1>1. /\ n \in Nat /\ DOMAIN s = 1..n /\ DOMAIN t = DOMAIN s \cup {n + 1} /\ t[n + 1] = x
      /\ \A i \in DOMAIN s : t[i] = s[i] /\ i \in Nat /\ i < n + 1
  BY Appended
<1>2. S \subseteq Nat /\ IsFiniteSet(S) /\ n + 1 \in Nat /\ \A j \in S : j < n + 1
  <2>1. IsFiniteSet(DOMAIN s)
    BY <1>1, FS_Interval
  <2>2. IsFiniteSet(S)
    BY <2>1, FS_Subset
  <2> QED
    BY <1>1, <2>2
<1>3. /\ \A j \in S : LineOf(t)[j] = LineOf(s)[j]
      /\ LineOf(t)[n + 1] = x.line
  BY <1>1 DEF LineOf
<1> HIDE DEF n
<1>4. InOrder(S, LineOf(t)) = InOrder(S, LineOf(s))
  BY <1>2, <1>3, InOrderSame
<1>5. InOrder(S \cup {n + 1}, LineOf(t)) = Further(InOrder(S, LineOf(s)), LineOf(t)[n + 1])
  <2>1. Continues(S, LineOf(s), n + 1, LineOf(t))
    BY <1>2, <1>3 DEF Continues
  <2> QED
    BY <2>1, InOrderMore
<1> QED
  BY <1>3, <1>4, <1>5 DEF LinesAt, n

\* As many lines as positions.
LEMMA LinesCounted ==
    ASSUME NEW s \in Seq(Reads), NEW S \in SUBSET DOMAIN s
    PROVE  /\ Len(LinesAt(s, S)) = Cardinality(S) /\ Cardinality(S) \in Nat
           /\ LinesAt(s, S) = <<>> <=> S = {}
           /\ LinesAt(s, S) \in Seq({s[i].line : i \in DOMAIN s})
<1>1. DOMAIN s \subseteq Nat /\ IsFiniteSet(DOMAIN s)
  <2>1. DOMAIN s = 1..Len(s) /\ Len(s) \in Nat
    OBVIOUS
  <2> QED
    BY <2>1, FS_Interval
<1>2. S \subseteq Nat /\ IsFiniteSet(S)
  BY <1>1, FS_Subset
<1>3. Cardinality(S) \in Nat /\ (Cardinality(S) = 0 <=> S = {})
  BY <1>2, FS_CardinalityType, FS_EmptySet
<1>4. \A k \in 1..Cardinality(S) : Nth(S, k) \in S
  BY <1>2, NthExists
<1>5. LinesAt(s, S) = [k \in 1..Cardinality(S) |-> s[Nth(S, k)].line]
  BY <1>4 DEF LinesAt, InOrder, LineOf
<1>6. \A k \in 1..Cardinality(S) : s[Nth(S, k)].line \in {s[i].line : i \in DOMAIN s}
  BY <1>4
<1> QED
  BY SMTT(30), <1>3, <1>5, <1>6

(***************************************************************************)
(* What the console shows and what the files keep of some bulks.           *)
(***************************************************************************)
Shown(s, b) == [k \in DOMAIN b |-> LinesAt(s, b[k])]

WrittenIn(s, b, u, sec) == {k \in DOMAIN b \ u : s[Min(b[k])].at = sec}

Kept(s, b, u, f) ==
    \A sec \in Seconds :
        f[sec] = IF WrittenIn(s, b, u, sec) = {} THEN NoFile
                 ELSE LinesAt(s, b[Max(WrittenIn(s, b, u, sec))])

Output(s, b, c, u, f) ==
    /\ c = Shown(s, b)
    /\ u \subseteq DOMAIN b
    /\ f = [sec \in Seconds |-> f[sec]]
    /\ Kept(s, b, u, f)

\* Bulks of lines of s, as the reference has them.
SomeLines(s) == (SUBSET DOMAIN s) \ {{}}
SomeBulks(s) == Seq(SomeLines(s))

LEMMA BulksBelong ==
    ASSUME NEW s \in Seq(Reads), NEW N \in Nat, ParseOK(s, N), NEW e
    PROVE  AllBulks(s, N, e) \in SomeBulks(s)
<1> DEFINE F == Firsts(s, N, e)
           f == [i \in Positions(s) |-> BulkAt(s, N, i)]
<1>1. F \subseteq Positions(s) /\ F \subseteq Nat /\ IsFiniteSet(F)
  BY FirstsAre
<1>2. Cardinality(F) \in Nat /\ \A k \in 1..Cardinality(F) : Nth(F, k) \in F
  BY <1>1, NthExists, FS_CardinalityType
<1>3. Positions(s) \subseteq DOMAIN s
  BY PartsAreFinite
<1>4. \A i \in Positions(s) : f[i] \in (SUBSET DOMAIN s) \ {{}}
  <2>1. \A i \in Positions(s) : i \in BulkAt(s, N, i) /\ BulkAt(s, N, i) \subseteq Positions(s)
    BY DEF BulkAt
  <2> QED
    BY <1>3, <2>1
<1>5. AllBulks(s, N, e) = [k \in 1..Cardinality(F) |-> f[Nth(F, k)]]
  BY DEF AllBulks, InOrder
<1> HIDE DEF F, f
<1>6. \A k \in 1..Cardinality(F) : f[Nth(F, k)] \in (SUBSET DOMAIN s) \ {{}}
  BY <1>1, <1>2, <1>4
<1> QED
  BY <1>2, <1>5, <1>6 DEF SomeBulks, SomeLines

LEMMA FiniteWritten ==
    ASSUME NEW s, NEW b \in SomeBulks(s), NEW u, NEW sec
    PROVE  /\ WrittenIn(s, b, u, sec) \subseteq DOMAIN b
           /\ WrittenIn(s, b, u, sec) \subseteq Nat
           /\ IsFiniteSet(WrittenIn(s, b, u, sec))
<1>1. DOMAIN b = 1..Len(b) /\ Len(b) \in Nat
  BY DEF SomeBulks, SomeLines
<1>2. WrittenIn(s, b, u, sec) \in SUBSET DOMAIN b
  BY DEF WrittenIn
<1>3. IsFiniteSet(DOMAIN b)
  BY <1>1, FS_Interval
<1> QED
  BY <1>1, <1>2, <1>3, FS_Subset

LEMMA MaxIs ==
    ASSUME NEW S, S \subseteq Nat, NEW x \in S, \A y \in S : y <= x
    PROVE  Max(S) = x
<1>1. \E y \in S : \A z \in S : z <= y
  OBVIOUS
<1>2. \A y \in S : (\A z \in S : z <= y) => y = x
  OBVIOUS
<1> QED
  BY <1>1, <1>2 DEF Max

\* The greatest of finitely many numbers.
LEMMA MaxOfNumbers ==
    ASSUME NEW S, S \subseteq Nat, IsFiniteSet(S), S # {}
    PROVE  Max(S) \in S /\ \A y \in S : y <= Max(S)
<1> DEFINE x == Nth(S, Cardinality(S))
<1>1. Cardinality(S) \in Nat /\ Cardinality(S) # 0
  BY FS_CardinalityType, FS_EmptySet
<1>2. x \in S /\ Cardinality({j \in S : j <= x}) = Cardinality(S)
  <2>1. Cardinality(S) \in 1..Cardinality(S)
    BY <1>1
  <2> QED
    BY <2>1, NthExists
<1> HIDE DEF x
<1>3. {j \in S : j <= x} = S
  <2>1. {j \in S : j <= x} \in SUBSET S
    OBVIOUS
  <2> QED
    BY <1>2, <2>1, FS_Subset
<1>4. \A y \in S : y <= x
  BY <1>3
<1> QED
  BY <1>2, <1>4, MaxIs

\* A line more changes nothing about bulks of earlier ones.
LEMMA OutputKept ==
    ASSUME NEW s \in Seq(Reads), NEW x \in Reads, NEW t, t = Append(s, x),
           NEW b \in SomeBulks(s), NEW c, NEW u, NEW f, Output(s, b, c, u, f)
    PROVE  Output(t, b, c, u, f) /\ b \in SomeBulks(t)
<1>1. /\ DOMAIN t = DOMAIN s \cup {Len(s) + 1} /\ DOMAIN s \subseteq Nat
      /\ \A i \in DOMAIN s : t[i] = s[i]
  BY Appended
<1>2. \A k \in DOMAIN b : b[k] \in SUBSET (DOMAIN s) /\ b[k] # {}
  BY DEF SomeBulks, SomeLines
<1>3. \A k \in DOMAIN b : LinesAt(t, b[k]) = LinesAt(s, b[k])
  <2>1. LinesGrow(s, t, x)
    BY LinesKept
  <2> QED
    BY <1>2, <2>1 DEF LinesGrow
<1>4. \A k \in DOMAIN b : t[Min(b[k])] = s[Min(b[k])]
  <2> SUFFICES ASSUME NEW k \in DOMAIN b PROVE t[Min(b[k])] = s[Min(b[k])]
    OBVIOUS
  <2>1. b[k] \subseteq Nat /\ b[k] # {} /\ b[k] \subseteq DOMAIN s
    BY <1>1, <1>2
  <2>2. Min(b[k]) \in b[k]
    BY <2>1, MinOfNumbers
  <2> QED
    BY <1>1, <2>1, <2>2
<1>5. Shown(t, b) = Shown(s, b)
  BY <1>3 DEF Shown
<1>6. \A sec : WrittenIn(t, b, u, sec) = WrittenIn(s, b, u, sec)
  BY <1>4 DEF WrittenIn
<1>7. Kept(t, b, u, f)
  <2> SUFFICES ASSUME NEW sec \in Seconds
               PROVE  f[sec] = IF WrittenIn(t, b, u, sec) = {} THEN NoFile
                               ELSE LinesAt(t, b[Max(WrittenIn(t, b, u, sec))])
    BY DEF Kept
  <2> DEFINE W == WrittenIn(s, b, u, sec)
  <2>1. f[sec] = IF W = {} THEN NoFile ELSE LinesAt(s, b[Max(W)])
    BY DEF Output, Kept
  <2>2. W # {} => Max(W) \in DOMAIN b
    <3>1. W \subseteq DOMAIN b /\ W \subseteq Nat /\ IsFiniteSet(W)
      BY FiniteWritten
    <3> QED
      BY <3>1, MaxOfNumbers
  <2>3. WrittenIn(t, b, u, sec) = W
    BY <1>6
  <2> HIDE DEF W
  <2> QED
    BY <1>3, <2>1, <2>2, <2>3
<1>8. b \in SomeBulks(t)
  BY <1>1 DEF SomeBulks, SomeLines
<1> QED
  BY <1>5, <1>7, <1>8 DEF Output

(***************************************************************************)
(* A bulk more, G, of lines of s: the console shows it last, and the file  *)
(* of its first line's second holds it, or stays as it was if it did not   *)
(* open.                                                                   *)
(***************************************************************************)
OneMore(b, G) == IF G = {} THEN b ELSE Append(b, G)

ComesLast(b, G, d) ==
    /\ DOMAIN b = 1..Len(b) /\ Len(b) \in Nat
    /\ DOMAIN d = DOMAIN b \cup {Len(b) + 1} /\ Len(b) + 1 \notin DOMAIN b
    /\ d[Len(b) + 1] = G
    /\ \A k \in DOMAIN b : d[k] = b[k] /\ k < Len(b) + 1

LEMMA BulkAppended ==
    ASSUME NEW s, NEW b \in SomeBulks(s), NEW G \in SomeLines(s)
    PROVE  OneMore(b, G) \in SomeBulks(s) /\ ComesLast(b, G, OneMore(b, G))
<1> DEFINE V == SomeLines(s)
<1>1. b \in Seq(V) /\ G \in V /\ G # {}
  BY DEF SomeBulks, SomeLines
<1> HIDE DEF V
<1>2. /\ Append(b, G) \in Seq(V)
      /\ DOMAIN b = 1..Len(b) /\ Len(b) \in Nat
      /\ DOMAIN Append(b, G) = DOMAIN b \cup {Len(b) + 1}
      /\ Len(b) + 1 \notin DOMAIN b
      /\ Append(b, G)[Len(b) + 1] = G
      /\ \A k \in DOMAIN b : Append(b, G)[k] = b[k] /\ k < Len(b) + 1
  BY <1>1
<1> QED
  BY <1>1, <1>2 DEF OneMore, SomeBulks, V, ComesLast

LEMMA ShownMore ==
    ASSUME NEW s, NEW b \in SomeBulks(s), NEW G \in SomeLines(s)
    PROVE  Shown(s, OneMore(b, G)) = Append(Shown(s, b), LinesAt(s, G))
<1> DEFINE d == OneMore(b, G)
           n == Len(b)
<1>1. /\ DOMAIN b = 1..n /\ n \in Nat
      /\ DOMAIN d = DOMAIN b \cup {n + 1} /\ n + 1 \notin DOMAIN b
      /\ d[n + 1] = G
      /\ \A k \in DOMAIN b : d[k] = b[k]
  <2>1. ComesLast(b, G, OneMore(b, G)) /\ OneMore(b, G) \in SomeBulks(s)
    BY BulkAppended
  <2> QED
    BY <2>1 DEF ComesLast
<1> DEFINE c == Shown(s, b)
           V == {LinesAt(s, b[k]) : k \in DOMAIN b} \cup {LinesAt(s, G)}
<1>2. c = [k \in 1..n |-> LinesAt(s, b[k])]
  BY <1>1 DEF Shown
<1> HIDE DEF d, n, c
<1>3. c \in Seq(V) /\ Len(c) = n /\ LinesAt(s, G) \in V
  <2>1. \A k \in 1..n : LinesAt(s, b[k]) \in V
    BY <1>1
  <2>2. LinesAt(s, G) \in V
    OBVIOUS
  <2> HIDE DEF V
  <2> QED
    BY <1>1, <1>2, <2>1, <2>2
<1> HIDE DEF V
<1>4. LET e == Append(c, LinesAt(s, G)) IN
          /\ e[n + 1] = LinesAt(s, G) /\ \A k \in 1..n : e[k] = c[k]
          /\ e = [k \in 1..(n + 1) |-> e[k]]
  <2> DEFINE y == LinesAt(s, G)
             e == Append(c, y)
  <2>1. y \in V
    BY <1>3
  <2> HIDE DEF y
  <2>2. /\ e \in Seq(V) /\ Len(e) = n + 1
        /\ e[n + 1] = y /\ \A k \in 1..n : e[k] = c[k]
    BY <1>1, <1>3, <2>1
  <2> HIDE DEF e
  <2>3. e = [k \in 1..(n + 1) |-> e[k]]
    BY <2>2
  <2> QED
    BY <2>2, <2>3 DEF e, y
<1>5. DOMAIN d = 1..(n + 1)
  BY <1>1
<1>6. \A k \in 1..(n + 1) : LinesAt(s, d[k]) = Append(c, LinesAt(s, G))[k]
  <2>1. \A k \in 1..(n + 1) : k = n + 1 \/ k \in 1..n
    BY <1>1
  <2> QED
    BY <1>1, <1>2, <1>4, <2>1
<1>7. Shown(s, d) = [k \in 1..(n + 1) |-> LinesAt(s, d[k])]
  BY <1>5 DEF Shown
<1> QED
  BY <1>4, <1>6, <1>7 DEF d, c

LEMMA OutputMore ==
    ASSUME NEW s, NEW b \in SomeBulks(s), NEW G \in SomeLines(s),
           NEW c, NEW u, NEW f, Output(s, b, c, u, f),
           NEW sec0 \in Seconds, s[Min(G)].at = sec0
    PROVE  /\ Output(s, OneMore(b, G), Append(c, LinesAt(s, G)), u,
                     [f EXCEPT ![sec0] = LinesAt(s, G)])
           /\ Output(s, OneMore(b, G), Append(c, LinesAt(s, G)), u \cup {Len(c) + 1}, f)
<1> DEFINE d == OneMore(b, G)
           n == Len(b)
           W(sec) == WrittenIn(s, b, u, sec)
           f1 == [f EXCEPT ![sec0] = LinesAt(s, G)]
<1>1. /\ DOMAIN b = 1..n /\ n \in Nat
      /\ DOMAIN d = DOMAIN b \cup {n + 1} /\ n + 1 \notin DOMAIN b
      /\ d[n + 1] = G /\ d \in SomeBulks(s)
      /\ \A k \in DOMAIN b : d[k] = b[k] /\ k < n + 1
  <2>1. ComesLast(b, G, OneMore(b, G)) /\ OneMore(b, G) \in SomeBulks(s)
    BY BulkAppended
  <2> QED
    BY <2>1 DEF ComesLast
<1>2. Shown(s, d) = Append(c, LinesAt(s, G))
  BY ShownMore DEF Output
<1>3. /\ c = Shown(s, b) /\ u \subseteq DOMAIN b /\ f = [sec \in Seconds |-> f[sec]]
      /\ \A sec \in Seconds : f[sec] = IF W(sec) = {} THEN NoFile ELSE LinesAt(s, b[Max(W(sec))])
  BY DEF Output, Kept
<1>4. Len(c) = n
  BY <1>1, <1>3 DEF Shown
<1>5. \A sec \in Seconds : /\ W(sec) \subseteq DOMAIN b /\ W(sec) \subseteq Nat
                           /\ IsFiniteSet(W(sec))
  BY FiniteWritten
<1>6. \A sec \in Seconds : WrittenIn(s, d, u, sec) =
          IF sec = sec0 THEN W(sec) \cup {n + 1} ELSE W(sec)
  <2> SUFFICES ASSUME NEW sec \in Seconds
               PROVE  WrittenIn(s, d, u, sec) = IF sec = sec0 THEN W(sec) \cup {n + 1} ELSE W(sec)
    OBVIOUS
  <2> HIDE DEF d, n
  <2>1. WrittenIn(s, d, u, sec) = {k \in DOMAIN d \ u : s[Min(d[k])].at = sec}
    BY DEF WrittenIn
  <2>2. W(sec) = {k \in DOMAIN b \ u : s[Min(b[k])].at = sec}
    BY DEF WrittenIn
  <2>3. n + 1 \notin u /\ s[Min(d[n + 1])].at = sec0
    BY <1>1, <1>3
  <2> QED
    BY <1>1, <2>1, <2>2, <2>3
<1>7. \A sec \in Seconds : WrittenIn(s, d, u \cup {n + 1}, sec) = W(sec)
  <2> HIDE DEF d, n
  <2>1. DOMAIN d \ (u \cup {n + 1}) = DOMAIN b \ u
    BY <1>1
  <2> QED
    BY <1>1, <2>1 DEF WrittenIn
<1>8. \A sec \in Seconds : W(sec) # {} => Max(W(sec)) \in DOMAIN b /\ d[Max(W(sec))] = b[Max(W(sec))]
  BY <1>1, <1>5, MaxOfNumbers
<1>9. Max(W(sec0) \cup {n + 1}) = n + 1
  <2>1. W(sec0) \cup {n + 1} \subseteq Nat /\ \A k \in W(sec0) \cup {n + 1} : k <= n + 1
    BY <1>1, <1>5
  <2> QED
    BY <2>1, MaxIs
<1> HIDE DEF d, n, W
<1>10. /\ \A sec \in Seconds : f1[sec] = IF sec = sec0 THEN LinesAt(s, G) ELSE f[sec]
       /\ f1 = [sec \in Seconds |-> f1[sec]]
  BY <1>3
<1> HIDE DEF f1
<1>11. Kept(s, d, u, f1)
  <2> SUFFICES ASSUME NEW sec \in Seconds
               PROVE  f1[sec] = IF WrittenIn(s, d, u, sec) = {} THEN NoFile
                                ELSE LinesAt(s, d[Max(WrittenIn(s, d, u, sec))])
    BY DEF Kept
  <2>1. CASE sec = sec0
    <3>1. WrittenIn(s, d, u, sec) # {} /\ Max(WrittenIn(s, d, u, sec)) = n + 1
      BY <1>6, <1>9, <2>1
    <3> QED
      BY <1>1, <1>10, <2>1, <3>1
  <2>2. CASE sec # sec0
    BY <1>3, <1>6, <1>8, <1>10, <2>2
  <2> QED
    BY <2>1, <2>2
<1>12. Kept(s, d, u \cup {n + 1}, f)
  BY <1>3, <1>7, <1>8 DEF Kept
<1>13. Output(s, d, Append(c, LinesAt(s, G)), u, f1)
  BY <1>1, <1>2, <1>3, <1>10, <1>11 DEF Output
<1>14. Output(s, d, Append(c, LinesAt(s, G)), u \cup {Len(c) + 1}, f)
  BY <1>1, <1>2, <1>3, <1>4, <1>12 DEF Output
<1> QED
  BY <1>13, <1>14 DEF d, f1

(***************************************************************************)
(* current_block_ is a block of the lines G of s: it has their commands,   *)
(* and the second of the first.                                            *)
(***************************************************************************)
Block(s, G, bulk) ==
    /\ bulk = [commands |-> LinesAt(s, G), created_at |-> bulk.created_at]
    /\ bulk.created_at \in Seconds
    /\ G # {} => bulk.created_at = s[Min(G)].at

LEMMA BlockKept ==
    ASSUME NEW s \in Seq(Reads), NEW x \in Reads, NEW t, t = Append(s, x),
           NEW G \in SUBSET DOMAIN s, NEW bulk, Block(s, G, bulk)
    PROVE  Block(t, G, bulk)
<1>1. /\ DOMAIN s \subseteq Nat /\ \A i \in DOMAIN s : t[i] = s[i]
  BY Appended
<1>2. LinesAt(t, G) = LinesAt(s, G)
  <2>1. LinesGrow(s, t, x)
    BY LinesKept
  <2> QED
    BY <2>1 DEF LinesGrow
<1>3. G # {} => Min(G) \in DOMAIN s
  BY <1>1, MinOfNumbers
<1> QED
  BY <1>1, <1>2, <1>3 DEF Block

\* add of the line x to a block of the lines G
Added(bulk, x) ==
    [commands |-> Append(bulk.commands, x.line),
     created_at |-> IF bulk.commands = <<>> THEN x.at ELSE bulk.created_at]

BlockGrows(s, t, G, bulk, x) ==
    /\ Block(t, G \cup {Len(s) + 1}, Added(bulk, x))
    /\ Len(Added(bulk, x).commands) = Cardinality(G) + 1

LEMMA BlockGrown ==
    ASSUME NEW s \in Seq(Reads), NEW x \in Reads, NEW t, t = Append(s, x),
           NEW G \in SUBSET DOMAIN s, NEW bulk, Block(s, G, bulk)
    PROVE  BlockGrows(s, t, G, bulk, x)
<1> DEFINE n == Len(s)
           H == G \cup {n + 1}
<1>1. /\ n \in Nat /\ DOMAIN s \subseteq Nat /\ t[n + 1] = x
      /\ \A i \in DOMAIN s : t[i] = s[i] /\ i < n + 1
      /\ x.at \in Seconds
  BY Appended DEF Reads
<1>2. LinesAt(t, H) = Append(LinesAt(s, G), x.line)
  <2>1. LinesGrow(s, t, x)
    BY LinesKept
  <2> QED
    BY <2>1 DEF LinesGrow, Further
<1>3. /\ Len(LinesAt(s, G)) = Cardinality(G) /\ Cardinality(G) \in Nat
      /\ LinesAt(s, G) = <<>> <=> G = {}
      /\ LinesAt(s, G) \in Seq({s[i].line : i \in DOMAIN s})
  BY LinesCounted
<1>4. Len(Append(LinesAt(s, G), x.line)) = Cardinality(G) + 1
  BY <1>3
<1>5. bulk.commands = LinesAt(s, G) /\ bulk.created_at \in Seconds
  BY DEF Block
<1> HIDE DEF n
<1>6. G = {} => Min(H) = n + 1
  <2> DEFINE m == n + 1
             S == {m}
  <2>1. m \in S /\ S \subseteq Int /\ \A y \in S : m <= y
    BY <1>1
  <2> HIDE DEF S
  <2>2. Min(S) = m
    BY <2>1, MinIs
  <2> QED
    BY <2>2 DEF S
<1>7. G # {} => Min(H) = Min(G) /\ Min(G) \in DOMAIN s
  <2> SUFFICES ASSUME G # {}
               PROVE  Min(H) = Min(G) /\ Min(G) \in DOMAIN s
    OBVIOUS
  <2> DEFINE m == Min(G)
  <2>1. m \in G /\ \A y \in G : m <= y
    BY <1>1, MinOfNumbers
  <2> HIDE DEF m
  <2>2. m \in H /\ H \subseteq Int /\ \A y \in H : m <= y
    BY <1>1, <2>1
  <2>3. Min(H) = m
    BY <2>2, MinIs
  <2> QED
    BY <2>1, <2>3 DEF m
<1>8. Added(bulk, x).created_at = t[Min(H)].at /\ Added(bulk, x).created_at \in Seconds
  BY <1>1, <1>3, <1>5, <1>6, <1>7 DEF Added, Block
<1>9. Added(bulk, x) = [commands |-> LinesAt(t, H), created_at |-> Added(bulk, x).created_at]
  BY <1>2, <1>5 DEF Added
<1>10. Len(Added(bulk, x).commands) = Cardinality(G) + 1
  BY <1>4, <1>5 DEF Added
<1> QED
  BY <1>8, <1>9, <1>10 DEF Block, BlockGrows, n

LEMMA BlockCleared ==
    ASSUME NEW s \in Seq(Reads), NEW G, NEW bulk, Block(s, G, bulk)
    PROVE  Block(s, {}, clear(bulk))
<1>1. LinesAt(s, {}) = <<>>
  BY LinesCounted
<1>2. clear(bulk) = [commands |-> <<>>, created_at |-> bulk.created_at]
  BY DEF clear, Block
<1> QED
  BY <1>1, <1>2 DEF Block

(***************************************************************************)
(* When the braces begin or end an outermost pair.                         *)
(***************************************************************************)
LEMMA CrossesIs ==
    ASSUME NEW s \in Seq(Reads), NEW x \in Reads
    PROVE  Crosses(s, x) <=> \/ x.line = Opening /\ Now(s) = 0
                             \/ x.line = Closing /\ Now(s) = 1
<1> DEFINE t == Append(s, x)
<1>1. t = Append(s, x)
  OBVIOUS
<1> HIDE DEF t
<1>2. /\ Now(s) \in Nat /\ Now(t) \in Nat
      /\ Now(t) = Level(t, Len(s) + 1)
      /\ Now(t) = IF x.line = Opening THEN Now(s) + 1
                  ELSE IF x.line = Closing /\ Now(s) > 0 THEN Now(s) - 1
                  ELSE Now(s)
  BY <1>1, LevelAfter
<1>3. Crosses(s, x) <=> {Now(s), Now(t)} = {0, 1}
  BY <1>1, <1>2 DEF Crosses, Now
<1>4. \A i, j \in Nat : {i, j} = {0, 1} <=> (i = 0 /\ j = 1) \/ (i = 1 /\ j = 0)
  <2> SUFFICES ASSUME NEW i \in Nat, NEW j \in Nat
               PROVE  {i, j} = {0, 1} <=> (i = 0 /\ j = 1) \/ (i = 1 /\ j = 0)
    OBVIOUS
  <2>1. {i, j} = {0, 1} => 0 \in {i, j} /\ 1 \in {i, j}
    OBVIOUS
  <2>2. (i = 0 /\ j = 1) \/ (i = 1 /\ j = 0) => {i, j} = {0, 1}
    OBVIOUS
  <2> QED
    BY <2>1, <2>2
<1>5. Crosses(s, x) <=> (Now(s) = 0 /\ Now(t) = 1) \/ (Now(s) = 1 /\ Now(t) = 0)
  BY <1>2, <1>3, <1>4
<1>6. CASE x.line = Opening
  BY <1>2, <1>5, <1>6, BracesDiffer
<1>7. CASE x.line # Opening
  BY <1>2, <1>5, <1>7
<1> QED
  BY <1>6, <1>7

\* flush_block of the block of the lines G: one bulk more, or none.
LEMMA FlushIs ==
    ASSUME NEW s \in Seq(Reads), NEW b \in SomeBulks(s), NEW G \in SUBSET DOMAIN s,
           NEW bulk, Block(s, G, bulk),
           Output(s, b, console, unwritten, file), flush_block(bulk)
    PROVE  /\ current_block_' = clear(bulk)
           /\ Output(s, OneMore(b, G), console', unwritten', file')
<1>1. bulk.commands = LinesAt(s, G) /\ (bulk.commands = <<>> <=> G = {})
  <2>1. bulk.commands = LinesAt(s, G)
    BY DEF Block
  <2>2. LinesAt(s, G) = <<>> <=> G = {}
    BY LinesCounted
  <2> QED
    BY <2>1, <2>2
<1>2. CASE G = {}
  BY <1>1, <1>2 DEF flush_block, NoBulk, OneMore
<1>3. CASE G # {}
  <2>1. console' = Append(console, LinesAt(s, G)) /\ update(bulk)
    BY <1>1, <1>3 DEF flush_block
  <2>2. G \in SomeLines(s) /\ bulk.created_at \in Seconds /\ s[Min(G)].at = bulk.created_at
    BY <1>3 DEF SomeLines, Block
  <2>3. /\ Output(s, OneMore(b, G), Append(console, LinesAt(s, G)), unwritten,
                  [file EXCEPT ![bulk.created_at] = LinesAt(s, G)])
        /\ Output(s, OneMore(b, G), Append(console, LinesAt(s, G)),
                  unwritten \cup {Len(console) + 1}, file)
    BY <2>2, OutputMore
  <2> QED
    BY <1>1, <2>1, <2>3 DEF update, flush_block
<1> QED
  BY <1>2, <1>3 DEF flush_block

(***************************************************************************)
(* The parser's invariant: the braces open are those of the lines read,    *)
(* the block at hand has the commands of the bulk that is still open, and  *)
(* the loggers have put out the bulks that are complete.                   *)
(***************************************************************************)
Complete == AllBulks(input, static_block_size_, eof)

ParserInv ==
    /\ input \in Seq(Reads) /\ static_block_size_ \in Nat
    /\ time \in Seconds /\ eof \in BOOLEAN
    /\ ParseOK(input, static_block_size_)
    /\ Output(input, Complete, console, unwritten, file)
    /\ ~eof => /\ nesting_level_ = Now(input)
               /\ Block(input, Open(input, static_block_size_), current_block_)

LEMMA ParserStarts == Init => ParserInv
<1> SUFFICES ASSUME Init PROVE ParserInv
  OBVIOUS
<1> DEFINE M == static_block_size_
<1>1. /\ input = <<>> /\ M \in Nat /\ time = 0 /\ time \in Seconds /\ eof = FALSE
      /\ console = <<>> /\ unwritten = {} /\ file = [sec \in Seconds |-> NoFile]
      /\ nesting_level_ = 0 /\ current_block_ = [commands |-> <<>>, created_at |-> 0]
  BY ParserAssumption DEF Init, Seconds
<1>2. input \in Seq(Reads) /\ Len(input) = 0 /\ DOMAIN input = {}
  BY <1>1
<1>3. /\ Positions(input) = {} /\ Here(input) = {} /\ Open(input, M) = {}
      /\ Boundaries(input) = {}
  BY <1>2 DEF Positions, Here, Open, Boundaries
<1>4. Now(input) = 0
  BY <1>2, LevelNext DEF Now
<1>5. Held(input) = 0 /\ Room(M) \in Nat \ {0} /\ Cardinality({}) = 0
  BY <1>1, <1>3, FS_EmptySet, RoomIs DEF Held
<1>6. LastGroup(input, M) = 0 /\ Held(input) % Room(M) = 0
  BY <1>5 DEF LastGroup
<1>7. \A g : InGroup(input, M, g) = {}
  BY <1>3 DEF InGroup
<1>8. ParseOK(input, M)
  BY <1>3, <1>5, <1>6, <1>7 DEF ParseOK
<1>9. Complete = <<>>
  <2>1. Firsts(input, M, eof) = {}
    BY <1>3 DEF Firsts
  <2> QED
    BY <1>5, <2>1 DEF Complete, AllBulks, InOrder
<1>10. Output(input, <<>>, console, unwritten, file)
  <2>1. \A sec : WrittenIn(input, <<>>, unwritten, sec) = {}
    BY DEF WrittenIn
  <2>2. Kept(input, <<>>, unwritten, file)
    BY <1>1, <2>1 DEF Kept
  <2>3. Shown(input, <<>>) = <<>>
    BY DEF Shown
  <2> QED
    BY <1>1, <2>2, <2>3 DEF Output
<1>11. Block(input, {}, current_block_)
  <2>1. LinesAt(input, {}) = <<>>
    BY <1>2, LinesCounted
  <2> QED
    BY <1>1, <2>1 DEF Block
<1> QED
  BY <1>1, <1>2, <1>3, <1>4, <1>8, <1>9, <1>10, <1>11 DEF ParserInv

\* What process_line does with the line x and the block it has then.
Processed(s, M, x, bulk) ==
    IF Flushes(s, M, x) THEN flush_block(bulk) ELSE NoBulk /\ current_block_' = bulk

LEMMA LineStep ==
    ASSUME ParserInv, ~eof, NEW x \in Reads, input' = Append(input, x),
           UNCHANGED <<static_block_size_, time, eof>>,
           nesting_level_' = Now(input'),
           NEW bulk, Block(input', Grown(input, static_block_size_, x), bulk),
           Processed(input, static_block_size_, x, bulk)
    PROVE  ParserInv'
<1> DEFINE s == input
           t == input'
           M == static_block_size_
           G == Grown(s, M, x)
           b == AllBulks(s, M, FALSE)
           d == AllBulks(t, M, FALSE)
<1>1. /\ s \in Seq(Reads) /\ M \in Nat /\ time \in Seconds /\ eof = FALSE
      /\ ParseOK(s, M) /\ t = Append(s, x)
      /\ Output(s, b, console, unwritten, file)
  BY DEF ParserInv, Complete
<1>2. t \in Seq(Reads) /\ DOMAIN t = DOMAIN s \cup {Len(s) + 1}
  BY <1>1, Appended
<1>3. ParseOK(t, M) /\ Open(t, M) = IF Flushes(s, M, x) THEN {} ELSE G
  BY <1>1, ParseNext
<1>4. d = IF Flushes(s, M, x) /\ G # {} THEN Append(b, G) ELSE b
  <2>1. AllBulks(t, M, FALSE) = NextBulks(s, M, x)
    BY <1>1, BulksNext
  <2> QED
    BY <2>1 DEF NextBulks
<1>5. G \in SUBSET DOMAIN t
  <2>1. Open(s, M) \subseteq Here(s) /\ Here(s) \subseteq Positions(s) /\ Positions(s) \subseteq DOMAIN s
    BY <1>1, OpenIs, PartsAreFinite
  <2> QED
    BY <1>2, <2>1 DEF Grown
<1>6. b \in SomeBulks(s)
  BY <1>1, BulksBelong
<1>7. Output(t, b, console, unwritten, file) /\ b \in SomeBulks(t)
  BY <1>1, <1>6, OutputKept
<1>8. Complete' = d
  BY <1>1 DEF Complete
<1>9. Block(t, G, bulk)
  OBVIOUS
<1>10. /\ Block(t, Open(t, M), current_block_')
       /\ Output(t, d, console', unwritten', file')
  <2>1. CASE Flushes(s, M, x)
    <3>1. flush_block(bulk)
      BY <2>1 DEF Processed
    <3> HIDE DEF b, d, G, t
    <3>2. /\ current_block_' = clear(bulk)
          /\ Output(t, OneMore(b, G), console', unwritten', file')
      BY <1>2, <1>5, <1>7, <1>9, <3>1, FlushIs
    <3>3. Block(t, {}, clear(bulk))
      BY <1>2, <1>9, BlockCleared
    <3>4. OneMore(b, G) = d
      BY <1>4, <2>1 DEF OneMore
    <3> QED
      BY <1>3, <2>1, <3>2, <3>3, <3>4
  <2>2. CASE ~Flushes(s, M, x)
    BY <1>3, <1>4, <1>7, <1>9, <2>2 DEF Processed, NoBulk
  <2> QED
    BY <2>1, <2>2
<1> HIDE DEF d
<1> QED
  BY <1>1, <1>2, <1>3, <1>8, <1>10 DEF ParserInv

LEMMA FinishStep == ParserInv /\ finish => ParserInv'
<1> SUFFICES ASSUME ParserInv, finish PROVE ParserInv'
  OBVIOUS
<1> DEFINE s == input
           M == static_block_size_
           O == Open(s, M)
           b == AllBulks(s, M, FALSE)
           d == AllBulks(s, M, TRUE)
<1>1. /\ s \in Seq(Reads) /\ M \in Nat /\ time \in Seconds /\ eof = FALSE /\ eof' = TRUE
      /\ ParseOK(s, M) /\ Now(s) = nesting_level_
      /\ Output(s, b, console, unwritten, file) /\ Block(s, O, current_block_)
      /\ UNCHANGED <<static_block_size_, time, input>>
  BY DEF ParserInv, Complete, finish
<1>2. d = IF Now(s) = 0 /\ O # {} THEN Append(b, O) ELSE b
  BY <1>1, BulksAtEnd
<1>3. O \in SUBSET DOMAIN s /\ Now(s) \in Nat
  BY <1>1, OpenIs, PartsAreFinite
<1>4. b \in SomeBulks(s)
  BY <1>1, BulksBelong
<1>5. Complete' = d
  BY <1>1 DEF Complete
<1>6. Output(s, d, console', unwritten', file')
  <2> HIDE DEF b, d, O
  <2>1. CASE Now(s) = 0
    <3>1. flush_block(current_block_)
      BY <1>1, <2>1 DEF finish
    <3>2. Output(s, OneMore(b, O), console', unwritten', file')
      BY <1>1, <1>3, <1>4, <3>1, FlushIs
    <3> QED
      BY <1>2, <2>1, <3>2 DEF OneMore
  <2>2. CASE Now(s) # 0
    <3>1. NoBulk
      BY <1>1, <2>2 DEF finish
    <3> QED
      BY <1>1, <1>2, <2>2, <3>1 DEF NoBulk
  <2> QED
    BY <2>1, <2>2
<1> HIDE DEF d
<1> QED
  BY <1>1, <1>5, <1>6 DEF ParserInv

LEMMA ProcessLineStep == ParserInv /\ process_line => ParserInv'
<1> SUFFICES ASSUME ParserInv, process_line PROVE ParserInv'
  OBVIOUS
<1> DEFINE s == input
           t == input'
           M == static_block_size_
           O == Open(s, M)
<1>1. PICK line \in Commands \cup Brace :
          /\ input' = Append(input, [line |-> line, at |-> time])
          /\ \/ line = Opening /\ open_brace
             \/ line = Closing /\ close_brace
             \/ line \in Commands /\ command(line)
  BY DEF process_line
<1>2. /\ s \in Seq(Reads) /\ M \in Nat /\ time \in Seconds /\ eof = FALSE
      /\ ParseOK(s, M) /\ nesting_level_ = Now(s) /\ Block(s, O, current_block_)
      /\ UNCHANGED <<static_block_size_, time, eof>>
  BY DEF ParserInv, process_line
<1> DEFINE x == [line |-> line, at |-> time]
<1>3. x \in Reads /\ t = Append(s, x) /\ x.line = line /\ x.at = time
  BY <1>1, <1>2 DEF Reads
<1> HIDE DEF x
<1>4. /\ Now(s) \in Nat
      /\ Now(t) = IF x.line = Opening THEN Now(s) + 1
                  ELSE IF x.line = Closing /\ Now(s) > 0 THEN Now(s) - 1
                  ELSE Now(s)
  BY <1>2, <1>3, LevelAfter
<1>5. Crosses(s, x) <=> \/ x.line = Opening /\ Now(s) = 0
                        \/ x.line = Closing /\ Now(s) = 1
  BY <1>2, <1>3, CrossesIs
<1>6. line \in Commands => line # Opening /\ line # Closing
  BY ParserAssumption DEF Brace
<1>7. O \in SUBSET DOMAIN s
  BY <1>2, OpenIs, PartsAreFinite
<1> HIDE DEF O, t
<1>8. Block(t, O, current_block_)
  BY <1>2, <1>3, <1>7, BlockKept
<1>9. /\ Block(t, O \cup {Len(s) + 1}, Added(current_block_, x))
      /\ Len(Added(current_block_, x).commands) = Cardinality(O) + 1
  <2>1. BlockGrows(s, t, O, current_block_, x)
    BY <1>2, <1>3, <1>7, <1>8, BlockGrown
  <2> QED
    BY <2>1 DEF BlockGrows
<1>10. CASE line \notin Commands
  <2>1. Grown(s, M, x) = O /\ (Flushes(s, M, x) <=> Crosses(s, x))
    BY <1>3, <1>10 DEF Grown, Flushes, O
  <2>2. nesting_level_' = Now(t) /\ Processed(s, M, x, current_block_)
    <3>1. CASE line = Opening /\ open_brace
      BY <1>2, <1>3, <1>4, <1>5, <2>1, <3>1, BracesDiffer DEF open_brace, Processed
    <3>2. CASE line = Closing /\ close_brace
      BY <1>2, <1>3, <1>4, <1>5, <2>1, <3>2, BracesDiffer
         DEF close_brace, Processed, LevelAfterClose
    <3> QED
      BY <1>1, <1>10, <3>1, <3>2
  <2>3. Block(t, Grown(s, M, x), current_block_)
    BY <1>8, <2>1
  <2> QED
    BY <1>2, <1>3, <2>2, <2>3, LineStep DEF t
<1>11. CASE line \in Commands
  <2> DEFINE bulk == Added(current_block_, x)
  <2>1. command(line)
    BY <1>1, <1>6, <1>11
  <2>2. add(current_block_, line) = bulk
    BY <1>3 DEF add, Added
  <2>3. /\ Grown(s, M, x) = O \cup {Len(s) + 1}
        /\ Flushes(s, M, x) <=> Now(s) = 0 /\ Cardinality(O) + 1 >= M
    BY <1>3, <1>5, <1>6, <1>11 DEF Grown, Flushes, O
  <2>4. Full(bulk) <=> Cardinality(O) + 1 >= M
    BY <1>9 DEF Full
  <2> HIDE DEF bulk
  <2>5. nesting_level_' = Now(t) /\ Processed(s, M, x, bulk)
    BY <1>2, <1>3, <1>4, <1>6, <1>11, <2>1, <2>2, <2>3, <2>4 DEF command, Processed
  <2>6. Block(t, Grown(s, M, x), bulk)
    BY <1>9, <2>3 DEF bulk
  <2> QED
    BY <1>2, <1>3, <2>5, <2>6, LineStep DEF t
<1> QED
  BY <1>10, <1>11

LEMMA ParserStays ==
    ASSUME ParserInv,
           UNCHANGED <<static_block_size_, current_block_, nesting_level_, console, file,
                       input, unwritten, eof>>,
           time' \in Seconds
    PROVE  ParserInv'
<1>1. Complete' = Complete
  BY DEF Complete
<1> QED
  BY <1>1 DEF ParserInv

LEMMA ParserStep == ParserInv /\ [Next]_vars => ParserInv'
<1> SUFFICES ASSUME ParserInv, [Next]_vars PROVE ParserInv'
  OBVIOUS
<1>1. CASE process_line
  BY <1>1, ProcessLineStep
<1>2. CASE finish
  BY <1>2, FinishStep
<1>3. CASE second
  <2>1. time' \in Seconds
    BY <1>3, ParserAssumption DEF second, ParserInv, Seconds
  <2> QED
    BY <1>3, <2>1, ParserStays DEF second
<1>4. CASE UNCHANGED vars
  BY <1>4, ParserStays DEF vars, ParserInv
<1> QED
  BY <1>1, <1>2, <1>3, <1>4 DEF Next

(***************************************************************************)
(* In terms of the reference: its bulks are the complete ones, and their   *)
(* text is that of their lines.                                            *)
(***************************************************************************)
LEMMA BulksKnown ==
    ASSUME ParserInv
    PROVE  /\ Bulks = Complete /\ Bulks \in SomeBulks(input)
           /\ \A k \in DOMAIN Bulks : Text(Bulks[k]) = LinesAt(input, Bulks[k])
<1>1. /\ input \in Seq(Reads) /\ static_block_size_ \in Nat
      /\ ParseOK(input, static_block_size_)
  BY DEF ParserInv
<1>2. Bulks = Complete
  BY <1>1, BulksAre DEF Complete
<1>3. Complete \in SomeBulks(input)
  BY <1>1, BulksBelong DEF Complete
<1>4. \A k \in DOMAIN Bulks : Bulks[k] \in SUBSET DOMAIN input
  <2> HIDE DEF Bulks
  <2>1. Bulks \in Seq(SomeLines(input))
    BY <1>2, <1>3 DEF SomeBulks
  <2>2. \A k \in DOMAIN Bulks : Bulks[k] \in SomeLines(input)
    BY <2>1
  <2> QED
    BY <2>2 DEF SomeLines
<1> QED
  BY <1>1, <1>2, <1>3, <1>4, TextIs

(***************************************************************************)
(* The console shows the bulks that the braces and the block size make of  *)
(* the lines read, in order, for every input, every block size (0 as well) *)
(* and whenever the input ends.                                            *)
(***************************************************************************)
THEOREM BulksCorrect == Spec => []ConsoleShowsBulks
<1>1. Init => ParserInv
  BY ParserStarts
<1>2. ParserInv /\ [Next]_vars => ParserInv'
  BY ParserStep
<1>3. ParserInv => ConsoleShowsBulks
  <2> SUFFICES ASSUME ParserInv PROVE ConsoleShowsBulks
    OBVIOUS
  <2>1. console = Shown(input, Bulks)
    BY BulksKnown DEF ParserInv, Output
  <2> QED
    BY <2>1, BulksKnown DEF ConsoleShowsBulks, Shown
<1> QED
  BY <1>1, <1>2, <1>3, PTL DEF Spec

(***************************************************************************)
(* The file of every second holds the last bulk of that second whose file  *)
(* could be opened, however many bulks and seconds there are.              *)
(***************************************************************************)
THEOREM BulkFilesCorrect == Spec => []FilesKeepLatest
<1>1. Init => ParserInv
  BY ParserStarts
<1>2. ParserInv /\ [Next]_vars => ParserInv'
  BY ParserStep
<1>3. ParserInv => FilesKeepLatest
  <2> SUFFICES ASSUME ParserInv, NEW sec \in Seconds
               PROVE  file[sec] = IF WrittenIn(input, Bulks, unwritten, sec) = {} THEN NoFile
                                  ELSE Text(Bulks[Max(WrittenIn(input, Bulks, unwritten, sec))])
    BY DEF FilesKeepLatest, WrittenIn
  <2> DEFINE W == WrittenIn(input, Bulks, unwritten, sec)
  <2>1. file[sec] = IF W = {} THEN NoFile ELSE LinesAt(input, Bulks[Max(W)])
    BY BulksKnown DEF ParserInv, Output, Kept
  <2>2. W # {} => Max(W) \in DOMAIN Bulks
    <3>1. W \subseteq DOMAIN Bulks /\ W \subseteq Nat /\ IsFiniteSet(W)
      BY BulksKnown, FiniteWritten
    <3> QED
      BY <3>1, MaxOfNumbers
  <2> HIDE DEF W
  <2>3. W # {} => Text(Bulks[Max(W)]) = LinesAt(input, Bulks[Max(W)])
    BY <2>2, BulksKnown
  <2> QED
    BY <2>1, <2>3 DEF W
<1> QED
  BY <1>1, <1>2, <1>3, PTL DEF Spec

-----------------------------------------------------------------------------
(***************************************************************************)
(* Recursion along a sequence: from base, step[m] makes the m-th value of  *)
(* the one before.  There is one solution, and what has the values of one  *)
(* is one.                                                                 *)
(***************************************************************************)
Iterates(S, base, step, n) ==
    {g \in [0..n -> S] : g[0] = base /\ \A m \in 1..n : g[m] = step[m][g[m - 1]]}

LEMMA IteratesExist ==
    ASSUME NEW S, NEW base \in S, NEW n \in Nat, NEW step \in [1..n -> [S -> S]]
    PROVE  Iterates(S, base, step, n) # {}
<1> DEFINE T == {m \in 0..n : Iterates(S, base, step, m) = {}}
<1> SUFFICES ASSUME T # {} PROVE FALSE
  OBVIOUS
<1>1. PICK l \in T : \A m \in T : ~(m < l)
  <2>1. T \subseteq Nat
    OBVIOUS
  <2> QED
    BY <2>1, LeastNumber
<1>2. CASE l = 0
  <2>1. [m \in 0..0 |-> base] \in Iterates(S, base, step, 0)
    BY DEF Iterates
  <2> QED
    BY <1>1, <1>2, <2>1
<1>3. CASE l # 0
  <2>1. l \in 1..n /\ l - 1 \in 0..n /\ l - 1 < l
    BY <1>1, <1>3
  <2>2. PICK g : g \in Iterates(S, base, step, l - 1)
    BY <1>1, <2>1
  <2>3. /\ g \in [0..(l - 1) -> S] /\ g[0] = base
        /\ \A m \in 1..(l - 1) : g[m] = step[m][g[m - 1]]
    BY <2>2 DEF Iterates
  <2> DEFINE h == [m \in 0..l |-> IF m = l THEN step[l][g[l - 1]] ELSE g[m]]
  <2>4. step[l][g[l - 1]] \in S
    <3>1. g[l - 1] \in S /\ step[l] \in [S -> S]
      BY <2>1, <2>3
    <3> QED
      BY <3>1
  <2>5. h \in [0..l -> S] /\ h[0] = base
    BY <2>1, <2>3, <2>4
  <2>6. ASSUME NEW m \in 1..l
        PROVE  h[m] = step[m][h[m - 1]]
    <3>1. h[m - 1] = g[m - 1]
      BY <2>1
    <3>2. m # l => m \in 1..(l - 1) /\ h[m] = g[m]
      BY <2>1
    <3>3. m = l => h[m] = step[l][g[l - 1]]
      BY <2>1
    <3> HIDE DEF h
    <3> QED
      BY <2>3, <3>1, <3>2, <3>3
  <2> HIDE DEF h
  <2>7. h \in Iterates(S, base, step, l)
    BY <2>5, <2>6 DEF Iterates
  <2> QED
    BY <1>1, <2>7
<1> QED
  BY <1>2, <1>3

\* f has the values of an iteration, as long as they are in S
Solves(f, S, base, step, n) ==
    /\ DOMAIN f = 0..n
    /\ f = [m \in 0..n |-> f[m]]
    /\ f[0] = base
    /\ \A m \in 1..n : f[m - 1] \in S => f[m] = step[m][f[m - 1]]

LEMMA IteratesIs ==
    ASSUME NEW S, NEW base \in S, NEW n \in Nat, NEW step \in [1..n -> [S -> S]],
           NEW f, Solves(f, S, base, step, n)
    PROVE  f \in Iterates(S, base, step, n)
<1> USE DEF Solves
<1> DEFINE T == {m \in 0..n : f[m] \notin S}
<1>1. T = {}
  <2> SUFFICES ASSUME T # {} PROVE FALSE
    OBVIOUS
  <2>1. PICK l \in T : \A m \in T : ~(m < l)
    <3>1. T \subseteq Nat
      OBVIOUS
    <3> QED
      BY <3>1, LeastNumber
  <2>2. l # 0
    BY <2>1
  <2>3. l \in 1..n /\ l - 1 \in 0..n /\ l - 1 < l
    BY <2>1, <2>2
  <2>4. f[l - 1] \in S
    BY <2>1, <2>3
  <2>5. step[l] \in [S -> S] /\ f[l] = step[l][f[l - 1]]
    BY <2>3, <2>4
  <2>6. f[l] \in S
    BY <2>4, <2>5
  <2> QED
    BY <2>1, <2>6
<1>2. \A m \in 0..n : f[m] \in S
  BY <1>1
<1>3. f \in [0..n -> S]
  BY <1>2
<1>4. \A m \in 1..n : m - 1 \in 0..n
  OBVIOUS
<1> QED
  BY <1>2, <1>3, <1>4 DEF Iterates

\* two iterations whose first l steps are the same
Agree(step, more, l) == \A m \in 1..l : step[m] = more[m]
Alike(S, base, f, step, n, g, more, k, l) ==
    /\ base \in S /\ n \in Nat /\ k \in Nat /\ l \in Nat /\ l <= n /\ l <= k
    /\ Agree(step, more, l)
    /\ f \in Iterates(S, base, step, n) /\ g \in Iterates(S, base, more, k)

LEMMA IteratesAgree ==
    ASSUME NEW S, NEW base, NEW f, NEW step, NEW n, NEW g, NEW more, NEW k, NEW l,
           Alike(S, base, f, step, n, g, more, k, l)
    PROVE  f[l] = g[l]
<1> USE DEF Alike
<1> DEFINE T == {m \in 0..l : f[m] # g[m]}
<1>1. T = {}
  <2> SUFFICES ASSUME T # {} PROVE FALSE
    OBVIOUS
  <2>1. PICK m \in T : \A i \in T : ~(i < m)
    <3>1. T \subseteq Nat
      OBVIOUS
    <3> QED
      BY <3>1, LeastNumber
  <2>2. f[0] = g[0]
    BY DEF Iterates
  <2>3. m # 0
    BY <2>1, <2>2
  <2>4. m \in 1..l /\ m \in 1..n /\ m \in 1..k /\ m - 1 \in 0..l /\ m - 1 < m
    BY <2>1, <2>3
  <2>5. f[m - 1] = g[m - 1]
    BY <2>1, <2>4
  <2>6. f[m] = step[m][f[m - 1]] /\ g[m] = more[m][g[m - 1]]
    BY <2>4 DEF Iterates
  <2> QED
    BY <2>1, <2>4, <2>5, <2>6 DEF Agree
<1> QED
  BY <1>1

-----------------------------------------------------------------------------
(***************************************************************************)
(* What the recursions of the model return.  NonEmpty drops the empty      *)
(* pieces.                                                                 *)
(***************************************************************************)
Keeping(P, s) ==
    [m \in 1..Len(s) |-> [x \in Seq(P) |-> IF s[m] = <<>> THEN x ELSE Append(x, s[m])]]

LEMMA KeepingSteps ==
    ASSUME NEW P, NEW s \in Seq(P)
    PROVE  Keeping(P, s) \in [1..Len(s) -> [Seq(P) -> Seq(P)]]
<1>1. ASSUME NEW m \in 1..Len(s), NEW x \in Seq(P)
      PROVE  Append(x, s[m]) \in Seq(P)
  OBVIOUS
<1> QED
  BY <1>1 DEF Keeping

LEMMA NonEmptyIs ==
    ASSUME NEW P, NEW s \in Seq(P)
    PROVE  \E f \in Iterates(Seq(P), <<>>, Keeping(P, s), Len(s)) : NonEmpty(s) = f[Len(s)]
<1> DEFINE Follows(g) ==
               g = [n \in 0..Len(s) |-> IF n = 0 THEN <<>>
                                        ELSE IF s[n] = <<>> THEN g[n - 1]
                                        ELSE Append(g[n - 1], s[n])]
           at == CHOOSE g : Follows(g)
<1>1. Len(s) \in Nat /\ <<>> \in Seq(P)
  OBVIOUS
<1>2. PICK f : f \in Iterates(Seq(P), <<>>, Keeping(P, s), Len(s))
  <2>1. Iterates(Seq(P), <<>>, Keeping(P, s), Len(s)) # {}
    BY <1>1, KeepingSteps, IteratesExist
  <2> QED
    BY <2>1
<1>3. Follows(f)
  <2>1. f \in [0..Len(s) -> Seq(P)] /\ f[0] = <<>>
    BY <1>2 DEF Iterates
  <2>2. ASSUME NEW n \in 1..Len(s)
        PROVE  f[n] = IF s[n] = <<>> THEN f[n - 1] ELSE Append(f[n - 1], s[n])
    <3>1. f[n - 1] \in Seq(P) /\ f[n] = Keeping(P, s)[n][f[n - 1]]
      BY <1>1, <1>2, <2>1 DEF Iterates
    <3> QED
      BY <3>1 DEF Keeping
  <2>3. \A n \in 0..Len(s) : n # 0 => n \in 1..Len(s)
    BY <1>1
  <2> QED
    BY <2>1, <2>2, <2>3
<1>4. Follows(at)
  BY <1>3
<1>5. NonEmpty(s) = at[Len(s)]
  BY DEF NonEmpty
<1> HIDE DEF at
<1>6. Solves(at, Seq(P), <<>>, Keeping(P, s), Len(s))
  <2>0. \A n \in 0..Len(s) : at[n] = IF n = 0 THEN <<>>
                                    ELSE IF s[n] = <<>> THEN at[n - 1]
                                    ELSE Append(at[n - 1], s[n])
    BY <1>4
  <2>1. ASSUME NEW n \in 1..Len(s), at[n - 1] \in Seq(P)
        PROVE  at[n] = Keeping(P, s)[n][at[n - 1]]
    <3>1. at[n] = IF s[n] = <<>> THEN at[n - 1] ELSE Append(at[n - 1], s[n])
      BY <1>1, <2>0
    <3> QED
      BY <2>1, <3>1 DEF Keeping
  <2>2. DOMAIN at = 0..Len(s) /\ at = [n \in 0..Len(s) |-> at[n]] /\ at[0] = <<>>
    BY <1>1, <1>4
  <2> QED
    BY <2>1, <2>2 DEF Solves
<1>7. at \in Iterates(Seq(P), <<>>, Keeping(P, s), Len(s))
  BY <1>1, <1>6, KeepingSteps, IteratesIs
<1> QED
  BY <1>5, <1>7

LEMMA NonEmptyNone == NonEmpty(<<>>) = <<>>
<1>1. <<>> \in Seq({}) /\ Len(<<>>) = 0
  OBVIOUS
<1>2. PICK f \in Iterates(Seq({}), <<>>, Keeping({}, <<>>), 0) : NonEmpty(<<>>) = f[0]
  BY <1>1, NonEmptyIs
<1> QED
  BY <1>2 DEF Iterates

LEMMA NonEmptyTyped ==
    ASSUME NEW P, NEW s \in Seq(P)
    PROVE  NonEmpty(s) \in Seq(P)
<1>1. PICK f \in Iterates(Seq(P), <<>>, Keeping(P, s), Len(s)) : NonEmpty(s) = f[Len(s)]
  BY NonEmptyIs
<1>2. f \in [0..Len(s) -> Seq(P)] /\ Len(s) \in 0..Len(s)
  BY DEF Iterates
<1> QED
  BY <1>1, <1>2

LEMMA NonEmptyNext ==
    ASSUME NEW P, NEW s \in Seq(P), NEW e \in P
    PROVE  NonEmpty(Append(s, e)) = IF e = <<>> THEN NonEmpty(s) ELSE Further(NonEmpty(s), e)
<1> DEFINE t == Append(s, e)
           n == Len(s)
<1>1. /\ t \in Seq(P) /\ Len(t) = n + 1 /\ n \in Nat
      /\ t[n + 1] = e /\ \A m \in 1..n : t[m] = s[m]
  OBVIOUS
<1> HIDE DEF t, n
<1>2. PICK f \in Iterates(Seq(P), <<>>, Keeping(P, s), n) : NonEmpty(s) = f[n]
  BY NonEmptyIs DEF n
<1>3. PICK g \in Iterates(Seq(P), <<>>, Keeping(P, t), n + 1) : NonEmpty(t) = g[n + 1]
  BY <1>1, NonEmptyIs
<1>4. Agree(Keeping(P, s), Keeping(P, t), n)
  <2>1. ASSUME NEW m \in 1..n
        PROVE  Keeping(P, s)[m] = Keeping(P, t)[m]
    <3>1. m \in 1..Len(s) /\ m \in 1..Len(t) /\ t[m] = s[m]
      BY <1>1 DEF n
    <3> QED
      BY <3>1 DEF Keeping
  <2> QED
    BY <2>1 DEF Agree
<1>5. n \in Nat /\ n + 1 \in Nat /\ n <= n /\ n <= n + 1 /\ <<>> \in Seq(P)
  BY <1>1
<1>6. f[n] = g[n]
  <2>1. Alike(Seq(P), <<>>, f, Keeping(P, s), n, g, Keeping(P, t), n + 1, n)
    BY <1>4, <1>5 DEF Alike
  <2> QED
    BY <2>1, IteratesAgree
<1>7. g[n] \in Seq(P) /\ g[n + 1] = Keeping(P, t)[n + 1][g[n]]
  <2>1. /\ g \in [0..(n + 1) -> Seq(P)]
        /\ \A m \in 1..(n + 1) : g[m] = Keeping(P, t)[m][g[m - 1]]
    BY <1>3 DEF Iterates
  <2>2. n \in 0..(n + 1) /\ n + 1 \in 1..(n + 1) /\ (n + 1) - 1 = n
    BY <1>1
  <2>3. g[n + 1] = Keeping(P, t)[n + 1][g[(n + 1) - 1]]
    BY <2>1, <2>2
  <2> QED
    BY <2>1, <2>2, <2>3
<1>8. g[n + 1] = IF e = <<>> THEN g[n] ELSE Append(g[n], e)
  BY <1>1, <1>7 DEF Keeping
<1> QED
  BY <1>2, <1>3, <1>6, <1>8 DEF t, Further

(***************************************************************************)
(* FlattenSeq joins the elements.                                          *)
(***************************************************************************)
Joining(E, s) == [m \in 1..Len(s) |-> [x \in Seq(E) |-> x \o s[m]]]

LEMMA JoiningSteps ==
    ASSUME NEW E, NEW s \in Seq(Seq(E))
    PROVE  Joining(E, s) \in [1..Len(s) -> [Seq(E) -> Seq(E)]]
<1>1. ASSUME NEW m \in 1..Len(s), NEW x \in Seq(E)
      PROVE  x \o s[m] \in Seq(E)
  <2>1. s[m] \in Seq(E)
    OBVIOUS
  <2> QED
    BY <2>1
<1> QED
  BY <1>1 DEF Joining

LEMMA FlattenIs ==
    ASSUME NEW E, NEW s \in Seq(Seq(E))
    PROVE  \E f \in Iterates(Seq(E), <<>>, Joining(E, s), Len(s)) : FlattenSeq(s) = f[Len(s)]
<1> DEFINE n == Len(s)
           Follows(g) ==
               g = [i \in 1..n |-> IF i = 1 THEN s[i] ELSE g[i - 1] \o s[i]]
           at == CHOOSE g : Follows(g)
<1>1. n \in Nat /\ <<>> \in Seq(E) /\ \A m \in 1..n : s[m] \in Seq(E)
  OBVIOUS
<1>2. PICK f : f \in Iterates(Seq(E), <<>>, Joining(E, s), n)
  <2>1. Iterates(Seq(E), <<>>, Joining(E, s), Len(s)) # {}
    BY <1>1, JoiningSteps, IteratesExist
  <2> QED
    BY <2>1
<1>3. CASE n = 0
  <2>1. s = <<>> /\ FlattenSeq(s) = s
    BY <1>3 DEF FlattenSeq
  <2> QED
    BY <1>2, <1>3, <2>1 DEF Iterates
<1>4. CASE n # 0
  <2>1. FlattenSeq(s) = at[n]
    BY <1>4 DEF FlattenSeq
  <2> DEFINE h == [i \in 1..n |-> f[i]]
  <2>2. Follows(h)
    <3>1. ASSUME NEW i \in 1..n
          PROVE  h[i] = IF i = 1 THEN s[i] ELSE h[i - 1] \o s[i]
      <4>0. i - 1 \in 0..n
        BY <1>1
      <4>1. f[i - 1] \in Seq(E) /\ f[i] = Joining(E, s)[i][f[i - 1]] /\ f[0] = <<>>
        BY <1>2, <4>0, Zenon DEF Iterates
      <4>2. f[i] = f[i - 1] \o s[i]
        BY <4>1 DEF Joining
      <4>3. i = 1 => f[i - 1] \o s[i] = s[i]
        <5>1. \A x \in Seq(E) : <<>> \o x = x
          OBVIOUS
        <5>2. i = 1 => f[i - 1] = <<>>
          BY <4>1
        <5> QED
          BY <1>1, <5>1, <5>2
      <4>4. i # 1 => i - 1 \in 1..n
        BY <1>1
      <4> QED
        BY <4>2, <4>3, <4>4
    <3>2. h = [i \in 1..n |-> h[i]]
      OBVIOUS
    <3> HIDE DEF h
    <3> QED
      BY <3>1, <3>2
  <2>3. Follows(at)
    BY <2>2
  <2> HIDE DEF at
  <2>4. \A i \in 1..n : at[i] = IF i = 1 THEN s[i] ELSE at[i - 1] \o s[i]
    BY <2>3
  <2> DEFINE k == [i \in 0..n |-> IF i = 0 THEN <<>> ELSE at[i]]
  <2>5. Solves(k, Seq(E), <<>>, Joining(E, s), n)
    <3>1. ASSUME NEW i \in 1..n, k[i - 1] \in Seq(E)
          PROVE  k[i] = Joining(E, s)[i][k[i - 1]]
      <4>1. Joining(E, s)[i][k[i - 1]] = k[i - 1] \o s[i]
        BY <3>1 DEF Joining
      <4>2. k[i] = at[i]
        BY <1>1
      <4>3. CASE i = 1
        <5>1. k[i - 1] = <<>>
          BY <1>1, <4>3
        <5> QED
          BY <1>1, <2>4, <4>1, <4>2, <4>3, <5>1
      <4>4. CASE i # 1
        <5>1. k[i - 1] = at[i - 1]
          BY <1>1, <4>4
        <5> QED
          BY <2>4, <4>1, <4>2, <4>4, <5>1
      <4> QED
        BY <4>3, <4>4
    <3>2. DOMAIN k = 0..n /\ k = [m \in 0..n |-> k[m]] /\ k[0] = <<>>
      BY <1>1
    <3> HIDE DEF k
    <3> QED
      BY <3>1, <3>2 DEF Solves
  <2>6. k[n] = at[n]
    BY <1>1, <1>4
  <2> HIDE DEF k
  <2>7. k \in Iterates(Seq(E), <<>>, Joining(E, s), n)
    BY <1>1, <2>5, JoiningSteps, IteratesIs
  <2> QED
    BY <2>1, <2>6, <2>7
<1> QED
  BY <1>3, <1>4

LEMMA FlattenNone == FlattenSeq(<<>>) = <<>>
  BY DEF FlattenSeq

LEMMA FlattenTyped ==
    ASSUME NEW E, NEW s \in Seq(Seq(E))
    PROVE  FlattenSeq(s) \in Seq(E)
<1>1. PICK f \in Iterates(Seq(E), <<>>, Joining(E, s), Len(s)) : FlattenSeq(s) = f[Len(s)]
  BY FlattenIs
<1>2. f \in [0..Len(s) -> Seq(E)] /\ Len(s) \in 0..Len(s)
  BY DEF Iterates
<1> QED
  BY <1>1, <1>2

\* (\o by another name, for the same reason as Further)
Joined(s, t) == s \o t

LEMMA FlattenNext ==
    ASSUME NEW E, NEW s \in Seq(Seq(E)), NEW e \in Seq(E)
    PROVE  FlattenSeq(Append(s, e)) = Joined(FlattenSeq(s), e)
<1> DEFINE t == Append(s, e)
           n == Len(s)
<1>1. /\ t \in Seq(Seq(E)) /\ Len(t) = n + 1 /\ n \in Nat
      /\ t[n + 1] = e /\ \A m \in 1..n : t[m] = s[m]
  OBVIOUS
<1> HIDE DEF t, n
<1>2. PICK f \in Iterates(Seq(E), <<>>, Joining(E, s), n) : FlattenSeq(s) = f[n]
  BY FlattenIs DEF n
<1>3. PICK g \in Iterates(Seq(E), <<>>, Joining(E, t), n + 1) : FlattenSeq(t) = g[n + 1]
  BY <1>1, FlattenIs
<1>4. Agree(Joining(E, s), Joining(E, t), n)
  <2>1. ASSUME NEW m \in 1..n
        PROVE  Joining(E, s)[m] = Joining(E, t)[m]
    <3>1. m \in 1..Len(s) /\ m \in 1..Len(t) /\ t[m] = s[m]
      BY <1>1 DEF n
    <3> QED
      BY <3>1 DEF Joining
  <2> QED
    BY <2>1 DEF Agree
<1>5. n \in Nat /\ n + 1 \in Nat /\ n <= n /\ n <= n + 1 /\ <<>> \in Seq(E)
  BY <1>1
<1>6. f[n] = g[n]
  <2>1. Alike(Seq(E), <<>>, f, Joining(E, s), n, g, Joining(E, t), n + 1, n)
    BY <1>4, <1>5 DEF Alike
  <2> QED
    BY <2>1, IteratesAgree
<1>7. g[n] \in Seq(E) /\ g[n + 1] = Joining(E, t)[n + 1][g[n]]
  <2>1. /\ g \in [0..(n + 1) -> Seq(E)]
        /\ \A m \in 1..(n + 1) : g[m] = Joining(E, t)[m][g[m - 1]]
    BY <1>3 DEF Iterates
  <2>2. n \in 0..(n + 1) /\ n + 1 \in 1..(n + 1) /\ (n + 1) - 1 = n
    BY <1>1
  <2>3. g[n + 1] = Joining(E, t)[n + 1][g[(n + 1) - 1]]
    BY <2>1, <2>2
  <2> QED
    BY <2>1, <2>2, <2>3
<1>8. g[n + 1] = g[n] \o e
  <2>1. n + 1 \in 1..Len(t)
    BY <1>1
  <2>2. Joining(E, t)[n + 1][g[n]] = g[n] \o t[n + 1]
    BY <1>7, <2>1 DEF Joining
  <2> QED
    BY <1>1, <1>7, <2>2
<1> QED
  BY <1>2, <1>3, <1>6, <1>8 DEF t, Joined

-----------------------------------------------------------------------------
(***************************************************************************)
(* A context takes commands: a block is pushed when it is full, and the    *)
(* commands, in and out of blocks, are those it had and the new ones.      *)
(***************************************************************************)
Words == Seq(Bytes)
Contexts == [bulk_size : Nat, tail : Words, current_commands : Seq(Words),
             blocks : Seq(Seq(Words))]

LEMMA ContextParts ==
    ASSUME NEW ctx \in Contexts
    PROVE  /\ ctx.bulk_size \in Nat /\ ctx.tail \in Words
           /\ ctx.current_commands \in Seq(Words) /\ ctx.blocks \in Seq(Seq(Words))
  BY DEF Contexts

Filled(ctx) ==
    /\ ctx.bulk_size > 0 => Len(ctx.current_commands) < ctx.bulk_size
    /\ \A i \in DOMAIN ctx.blocks : Len(ctx.blocks[i]) = ctx.bulk_size

\* the context new is ctx with the commands cmds
Took(ctx, cmds, new) ==
    /\ new \in Contexts
    /\ new.bulk_size = ctx.bulk_size /\ new.tail = ctx.tail
    /\ Filled(ctx) => Filled(new)
    /\ CommandsOf(new) = Joined(CommandsOf(ctx), cmds)

LEMMA Appending ==
    ASSUME NEW E, NEW s \in Seq(E), NEW t \in Seq(E), NEW e \in E
    PROVE  /\ s \o Append(t, e) = Append(s \o t, e) /\ s \o <<e>> = Append(s, e)
           /\ Append(s, e) \in Seq(E) /\ Append(s, e) \o <<>> = Append(s, e)
           /\ s \o t \in Seq(E) /\ s \o <<>> = s /\ <<>> \o s = s
  OBVIOUS

LEMMA TakesOne ==
    ASSUME NEW ctx \in Contexts, NEW cmd \in Words
    PROVE  Took(ctx, <<cmd>>, AddCommand(ctx, cmd))
<1> DEFINE cmds == Append(ctx.current_commands, cmd)
           more == [ctx EXCEPT !.blocks = Append(@, cmds), !.current_commands = <<>>]
           same == [ctx EXCEPT !.current_commands = cmds]
           old == ctx.current_commands
           flat == FlattenSeq(ctx.blocks)
<1>1. /\ ctx.bulk_size \in Nat /\ ctx.tail \in Words
      /\ ctx.current_commands \in Seq(Words) /\ ctx.blocks \in Seq(Seq(Words))
  BY ContextParts
<1>2. cmds \in Seq(Words) /\ Len(cmds) = Len(old) + 1 /\ Len(old) \in Nat
  BY <1>1
<1>3. flat \in Seq(Words)
  BY <1>1, FlattenTyped
<1>4. AddCommand(ctx, cmd) = IF Len(cmds) = ctx.bulk_size THEN more ELSE same
  BY DEF AddCommand
<1>5. /\ flat \o cmds = Append(flat \o old, cmd)
      /\ (flat \o old) \o <<cmd>> = Append(flat \o old, cmd)
      /\ (flat \o cmds) \o <<>> = flat \o cmds
  <2>1. flat \o old \in Seq(Words) /\ flat \o cmds \in Seq(Words)
    BY <1>1, <1>2, <1>3, Appending
  <2> HIDE DEF flat
  <2>2. flat \o Append(old, cmd) = Append(flat \o old, cmd)
    BY <1>1, <1>3, Appending
  <2> QED
    BY <2>1, <2>2, Appending
<1>6. Joined(CommandsOf(ctx), <<cmd>>) = flat \o cmds
  BY <1>5 DEF Joined, CommandsOf
<1>7. CASE Len(cmds) = ctx.bulk_size
  <2>1. Append(ctx.blocks, cmds) \in Seq(Seq(Words)) /\ <<>> \in Seq(Words)
    BY <1>1, <1>2
  <2>2. more \in Contexts
    BY <2>1 DEF Contexts
  <2>3. /\ more.bulk_size = ctx.bulk_size /\ more.tail = ctx.tail
        /\ more.current_commands = <<>> /\ more.blocks = Append(ctx.blocks, cmds)
    BY DEF Contexts
  <2> HIDE DEF more, cmds
  <2>4. Filled(ctx) => Filled(more)
    <3>1. Len(<<>>) = 0
      OBVIOUS
    <3>2. ASSUME Filled(ctx), NEW i \in DOMAIN Append(ctx.blocks, cmds)
          PROVE  Len(Append(ctx.blocks, cmds)[i]) = ctx.bulk_size
      <4>1. i \in 1..(Len(ctx.blocks) + 1)
        BY <1>1, <1>2, <3>2
      <4>2. CASE i \in 1..Len(ctx.blocks)
        <5>1. Append(ctx.blocks, cmds)[i] = ctx.blocks[i] /\ i \in DOMAIN ctx.blocks
          BY <1>1, <1>2, <4>2
        <5> QED
          BY <3>2, <5>1 DEF Filled
      <4>3. CASE i = Len(ctx.blocks) + 1
        <5>1. Append(ctx.blocks, cmds)[i] = cmds
          BY <1>1, <1>2, <4>3
        <5> QED
          BY <1>7, <5>1
      <4> QED
        BY <1>1, <4>1, <4>2, <4>3
    <3> QED
      BY <1>1, <2>3, <3>1, <3>2 DEF Filled
  <2>5. CommandsOf(more) = flat \o cmds
    <3>1. FlattenSeq(Append(ctx.blocks, cmds)) = Joined(flat, cmds)
      BY <1>1, <1>2, FlattenNext
    <3> QED
      BY <1>5, <2>3, <3>1 DEF CommandsOf, Joined
  <2> QED
    BY <1>4, <1>6, <1>7, <2>2, <2>3, <2>4, <2>5 DEF Took
<1>8. CASE Len(cmds) # ctx.bulk_size
  <2>1. same \in Contexts
    BY <1>2 DEF Contexts
  <2>2. /\ same.bulk_size = ctx.bulk_size /\ same.tail = ctx.tail
        /\ same.current_commands = cmds /\ same.blocks = ctx.blocks
    BY DEF Contexts
  <2> HIDE DEF same, cmds
  <2>3. Filled(ctx) => Filled(same)
    BY <1>1, <1>2, <1>8, <2>2 DEF Filled
  <2>4. CommandsOf(same) = flat \o cmds
    BY <2>2 DEF CommandsOf
  <2> QED
    BY <1>4, <1>6, <1>8, <2>1, <2>2, <2>3, <2>4 DEF Took
<1> QED
  BY <1>7, <1>8

Adding(ctx, cmds) ==
    [m \in 1..Len(cmds) |-> [c \in Contexts |-> AddCommand(c, cmds[m])]]

LEMMA AddingSteps ==
    ASSUME NEW ctx, NEW cmds \in Seq(Words)
    PROVE  Adding(ctx, cmds) \in [1..Len(cmds) -> [Contexts -> Contexts]]
<1>1. ASSUME NEW m \in 1..Len(cmds), NEW c \in Contexts
      PROVE  AddCommand(c, cmds[m]) \in Contexts
  <2>1. cmds[m] \in Words
    OBVIOUS
  <2>2. Took(c, <<cmds[m]>>, AddCommand(c, cmds[m]))
    BY <2>1, TakesOne
  <2> QED
    BY <2>2 DEF Took
<1> QED
  BY <1>1 DEF Adding

LEMMA AddCommandsIs ==
    ASSUME NEW ctx \in Contexts, NEW pieces, NEW cmds \in Seq(Words), cmds = NonEmpty(pieces)
    PROVE  \E f \in Iterates(Contexts, ctx, Adding(ctx, cmds), Len(cmds)) :
               AddCommands(ctx, pieces) = f[Len(cmds)]
<1> DEFINE n == Len(cmds)
           Follows(g) == g = [m \in 0..n |-> IF m = 0 THEN ctx ELSE AddCommand(g[m - 1], cmds[m])]
           at == CHOOSE g : Follows(g)
<1>1. n \in Nat
  OBVIOUS
<1>2. PICK f : f \in Iterates(Contexts, ctx, Adding(ctx, cmds), n)
  <2>1. Iterates(Contexts, ctx, Adding(ctx, cmds), Len(cmds)) # {}
    BY <1>1, AddingSteps, IteratesExist
  <2> QED
    BY <2>1
<1>3. Follows(f)
  <2>1. f \in [0..n -> Contexts] /\ f[0] = ctx
    BY <1>2 DEF Iterates
  <2>2. ASSUME NEW m \in 1..n
        PROVE  f[m] = AddCommand(f[m - 1], cmds[m])
    <3>0. m - 1 \in 0..n
      BY <1>1
    <3>1. f[m - 1] \in Contexts /\ f[m] = Adding(ctx, cmds)[m][f[m - 1]]
      BY <1>2, <2>1, <3>0, Zenon DEF Iterates
    <3> QED
      BY <3>1 DEF Adding
  <2>3. \A m \in 0..n : m # 0 => m \in 1..n
    BY <1>1
  <2> HIDE DEF n
  <2> QED
    BY <2>1, <2>2, <2>3
<1>4. Follows(at)
  BY <1>3
<1>5. AddCommands(ctx, pieces) = at[n]
  BY DEF AddCommands
<1> HIDE DEF at
<1>6. Solves(at, Contexts, ctx, Adding(ctx, cmds), n)
  <2>0. \A m \in 0..n : at[m] = IF m = 0 THEN ctx ELSE AddCommand(at[m - 1], cmds[m])
    BY <1>4
  <2>1. ASSUME NEW m \in 1..n, at[m - 1] \in Contexts
        PROVE  at[m] = Adding(ctx, cmds)[m][at[m - 1]]
    <3>1. at[m] = AddCommand(at[m - 1], cmds[m])
      BY <1>1, <2>0
    <3> QED
      BY <2>1, <3>1 DEF Adding
  <2>2. DOMAIN at = 0..n /\ at = [m \in 0..n |-> at[m]] /\ at[0] = ctx
    BY <1>1, <1>4
  <2> QED
    BY <2>1, <2>2 DEF Solves
<1>7. at \in Iterates(Contexts, ctx, Adding(ctx, cmds), n)
  BY <1>1, <1>6, AddingSteps, IteratesIs
<1> QED
  BY <1>5, <1>7

LEMMA TookMore ==
    ASSUME NEW ctx \in Contexts, NEW s \in Seq(Words), NEW mid, Took(ctx, s, mid),
           NEW cmd \in Words, NEW new, Took(mid, <<cmd>>, new)
    PROVE  Took(ctx, Append(s, cmd), new)
<1>1. mid \in Contexts /\ CommandsOf(mid) = CommandsOf(ctx) \o s
  BY DEF Took, Joined
<1>2. CommandsOf(new) = CommandsOf(mid) \o <<cmd>>
  BY DEF Took, Joined
<1>3. CommandsOf(ctx) \in Seq(Words)
  <2>1. ctx.current_commands \in Seq(Words) /\ ctx.blocks \in Seq(Seq(Words))
    BY ContextParts
  <2>2. FlattenSeq(ctx.blocks) \in Seq(Words)
    BY <2>1, FlattenTyped
  <2> QED
    BY <2>1, <2>2, Appending DEF CommandsOf
<1>4. (CommandsOf(ctx) \o s) \o <<cmd>> = CommandsOf(ctx) \o Append(s, cmd)
  <2>1. CommandsOf(ctx) \o s \in Seq(Words)
    BY <1>3, Appending
  <2> QED
    BY <1>3, <2>1, Appending
<1> QED
  BY <1>1, <1>2, <1>4 DEF Took, Joined

(***************************************************************************)
(* A context takes the pieces that are not empty.                          *)
(***************************************************************************)
LEMMA TakesAll ==
    ASSUME NEW ctx \in Contexts, NEW pieces \in Seq(Words)
    PROVE  Took(ctx, NonEmpty(pieces), AddCommands(ctx, pieces))
<1> DEFINE cmds == NonEmpty(pieces)
           n == Len(cmds)
<1>1. cmds \in Seq(Words) /\ n \in Nat
  <2>1. cmds \in Seq(Words)
    BY NonEmptyTyped
  <2> QED
    BY <2>1
<1> HIDE DEF cmds
<1>2. PICK f \in Iterates(Contexts, ctx, Adding(ctx, cmds), n) : AddCommands(ctx, pieces) = f[n]
  BY <1>1, AddCommandsIs DEF cmds
<1> DEFINE OK(m) == Took(ctx, SubSeq(cmds, 1, m), f[m])
           T == {m \in 0..n : ~OK(m)}
<1>3. T = {}
  <2> SUFFICES ASSUME T # {} PROVE FALSE
    OBVIOUS
  <2>1. PICK l \in T : \A m \in T : ~(m < l)
    <3>1. T \subseteq Nat
      BY <1>1
    <3> QED
      BY <3>1, LeastNumber
  <2>2. CASE l = 0
    <3>1. f[0] = ctx /\ SubSeq(cmds, 1, 0) = <<>>
      BY <1>1, <1>2 DEF Iterates
    <3>2. CommandsOf(ctx) \in Seq(Words)
      <4>1. ctx.current_commands \in Seq(Words) /\ ctx.blocks \in Seq(Seq(Words))
        BY ContextParts
      <4>2. FlattenSeq(ctx.blocks) \in Seq(Words)
        BY <4>1, FlattenTyped
      <4> QED
        BY <4>1, <4>2, Appending DEF CommandsOf
    <3>3. CommandsOf(ctx) \o <<>> = CommandsOf(ctx)
      BY <3>2
    <3> QED
      BY <2>1, <2>2, <3>1, <3>3 DEF Took, Joined
  <2>3. CASE l # 0
    <3>1. l \in 1..n /\ l - 1 \in 0..n /\ l - 1 < l
      BY <1>1, <2>1, <2>3
    <3>2. OK(l - 1)
      BY <2>1, <3>1
    <3>3. f[l] = Adding(ctx, cmds)[l][f[l - 1]]
      BY <1>2, <3>1 DEF Iterates
    <3>4. f[l - 1] \in Contexts
      BY <3>2 DEF Took
    <3>5. f[l] = AddCommand(f[l - 1], cmds[l]) /\ cmds[l] \in Words
      BY <1>1, <3>1, <3>3, <3>4 DEF Adding
    <3>6. Took(f[l - 1], <<cmds[l]>>, f[l])
      BY <3>4, <3>5, TakesOne
    <3>7. /\ SubSeq(cmds, 1, l - 1) \in Seq(Words)
          /\ SubSeq(cmds, 1, l) = Append(SubSeq(cmds, 1, l - 1), cmds[l])
      BY <1>1, <3>1
    <3>8. Took(ctx, Append(SubSeq(cmds, 1, l - 1), cmds[l]), f[l])
      BY <3>2, <3>5, <3>6, <3>7, TookMore
    <3> QED
      BY <2>1, <3>7, <3>8
  <2> QED
    BY <2>2, <2>3
<1>4. OK(n)
  BY <1>1, <1>3
<1>5. SubSeq(cmds, 1, n) = cmds
  BY <1>1
<1> QED
  BY <1>2, <1>4, <1>5 DEF cmds

-----------------------------------------------------------------------------
(***************************************************************************)
(* The reference, a byte at a time: a newline finishes the line before it, *)
(* another byte belongs to the unfinished line.                            *)
(***************************************************************************)
Unfinished(s) == SubSeq(s, Before(s, Len(s)) + 1, Len(s))
EndsBefore(s) == {j \in Ends(s) : j < Len(s)}

\* Finished, with a word more unless it is empty
And(words, w) == IF w = <<>> THEN words ELSE Further(words, w)

LEMMA PartOf ==
    ASSUME NEW E, NEW s \in Seq(E), NEW i \in Nat, NEW j \in 0..Len(s), i <= j
    PROVE  /\ SubSeq(s, i + 1, j) \in Seq(E)
           /\ Len(SubSeq(s, i + 1, j)) = j - i
           /\ \A k \in 1..(j - i) : SubSeq(s, i + 1, j)[k] = s[i + k]
  OBVIOUS

LEMMA SameSequence ==
    ASSUME NEW E, NEW s \in Seq(E), NEW t \in Seq(E), Len(s) = Len(t),
           \A k \in 1..Len(s) : s[k] = t[k]
    PROVE  s = t
  OBVIOUS

LEMMA BeforeIs ==
    ASSUME NEW s \in Words, NEW j \in 0..Len(s)
    PROVE  /\ Before(s, j) \in 0..j
           /\ \A i \in 1..j : s[i] = NL => i <= Before(s, j)
           /\ Before(s, j) > 0 => s[Before(s, j)] = NL
<1> DEFINE S == {0} \cup {i \in 1..j : s[i] = NL}
<1>1. j \in Nat /\ S \subseteq 0..j /\ S # {} /\ S \subseteq Nat
  BY DEF Words
<1>2. IsFiniteSet(S)
  <2>1. IsFiniteSet(0..j)
    BY <1>1, FS_Interval
  <2> QED
    BY <1>1, <2>1, FS_Subset
<1> DEFINE x == Max(S)
<1>3. x \in S /\ \A y \in S : y <= x
  BY <1>1, <1>2, MaxOfNumbers
<1>4. Before(s, j) = x
  BY DEF Before
<1> HIDE DEF x
<1>5. x \in 0..j /\ (x # 0 => s[x] = NL) /\ \A i \in 1..j : s[i] = NL => i <= x
  BY <1>1, <1>3
<1> QED
  BY <1>1, <1>4, <1>5

LEMMA BeforeOnly ==
    ASSUME NEW s \in Words, NEW j \in 0..Len(s), NEW x \in 0..j,
           \A i \in 1..j : s[i] = NL => i <= x, x > 0 => s[x] = NL
    PROVE  Before(s, j) = x
<1>1. /\ Before(s, j) \in 0..j
      /\ \A i \in 1..j : s[i] = NL => i <= Before(s, j)
      /\ Before(s, j) > 0 => s[Before(s, j)] = NL
  BY BeforeIs
<1>2. j \in Nat
  BY DEF Words
<1> DEFINE y == Before(s, j)
<1> HIDE DEF y
<1>3. x > 0 => x <= y
  BY <1>1, <1>2 DEF y
<1>4. y > 0 => y <= x
  BY <1>1, <1>2 DEF y
<1> QED
  BY <1>1, <1>2, <1>3, <1>4 DEF y

LEMMA UnfinishedTyped ==
    ASSUME NEW s \in Words
    PROVE  /\ Unfinished(s) \in Words
           /\ Unfinished(s) = <<>> <=> Len(s) = 0 \/ s[Len(s)] = NL
           /\ Len(s) # 0 => RunTo(s)[Len(s)] = Unfinished(s)
<1> DEFINE n == Len(s)
           x == Before(s, n)
<1>1. n \in Nat /\ n \in 0..n
  BY DEF Words
<1>2. /\ x \in 0..n
      /\ x > 0 => s[x] = NL
      /\ \A i \in 1..n : s[i] = NL => i <= x
  BY <1>1, BeforeIs
<1> HIDE DEF x
<1>3. SubSeq(s, x + 1, n) \in Words /\ Len(SubSeq(s, x + 1, n)) = n - x
  BY <1>1, <1>2 DEF Words
<1>4. SubSeq(s, x + 1, n) = <<>> <=> n = x
  BY <1>1, <1>2, <1>3 DEF Words
<1>5. n = x <=> n = 0 \/ s[n] = NL
  BY <1>1, <1>2
<1>6. n # 0 => RunTo(s)[n] = SubSeq(s, x + 1, n)
  <2>1. n # 0 => n \in 1..Len(s)
    BY <1>1
  <2> QED
    BY <2>1, Zenon DEF RunTo, x
<1> QED
  BY <1>3, <1>4, <1>5, <1>6 DEF Unfinished, x

LEMMA RunsKept ==
    ASSUME NEW s \in Words, NEW b \in Bytes, NEW t, t = Append(s, b), NEW j \in 1..Len(s)
    PROVE  RunTo(t)[j] = RunTo(s)[j]
<1>1. /\ t \in Words /\ Len(t) = Len(s) + 1 /\ Len(s) \in Nat /\ j \in 1..Len(t)
      /\ \A i \in 1..Len(s) : t[i] = s[i]
  BY DEF Words
<1>2. {i \in 1..j : t[i] = NL} = {i \in 1..j : s[i] = NL}
  BY <1>1
<1>3. Before(t, j) = Before(s, j)
  BY <1>2 DEF Before
<1>4. Before(s, j) \in 0..j
  <2>1. j \in 0..Len(s)
    BY <1>1
  <2> QED
    BY <2>1, BeforeIs
<1>5. SubSeq(t, Before(s, j) + 1, j) = SubSeq(s, Before(s, j) + 1, j)
  <2> DEFINE x == Before(s, j)
             u == SubSeq(t, x + 1, j)
             v == SubSeq(s, x + 1, j)
  <2>1. x \in Nat /\ x <= j /\ j \in 0..Len(s) /\ j \in 0..Len(t)
    BY <1>1, <1>4
  <2> HIDE DEF x
  <2>2. u \in Seq(Bytes) /\ Len(u) = j - x /\ \A k \in 1..(j - x) : u[k] = t[x + k]
    BY <1>1, <2>1, PartOf DEF Words
  <2>3. v \in Seq(Bytes) /\ Len(v) = j - x /\ \A k \in 1..(j - x) : v[k] = s[x + k]
    BY <1>1, <2>1, PartOf DEF Words
  <2>4. \A k \in 1..(j - x) : t[x + k] = s[x + k]
    BY <1>1, <2>1
  <2> HIDE DEF u, v
  <2>5. u = v
    BY <2>2, <2>3, <2>4, SameSequence
  <2> QED
    BY <2>5 DEF u, v, x
<1> QED
  BY <1>1, <1>3, <1>5 DEF RunTo

LEMMA UnfinishedNext ==
    ASSUME NEW s \in Words, NEW b \in Bytes
    PROVE  Unfinished(Append(s, b)) =
               IF b = NL THEN <<>> ELSE Further(Unfinished(s), b)
<1> DEFINE t == Append(s, b)
           n == Len(s)
<1>1. /\ t \in Words /\ Len(t) = n + 1 /\ n \in Nat /\ t[n + 1] = b
      /\ \A i \in 1..n : t[i] = s[i]
  BY DEF Words
<1>2. CASE b = NL
  <2>1. Unfinished(t) = <<>>
    <3> HIDE DEF t, n
    <3> QED
      BY <1>1, <1>2, UnfinishedTyped
  <2> QED
    BY <1>2, <2>1
<1>3. CASE b # NL
  <2> DEFINE x == Before(s, n)
  <2>1. /\ x \in 0..n
        /\ x > 0 => s[x] = NL
        /\ \A i \in 1..n : s[i] = NL => i <= x
    <3>1. n \in 0..n
      BY <1>1
    <3> QED
      BY <3>1, BeforeIs
  <2> HIDE DEF x
  <2>2. Before(t, n + 1) = x
    <3>1. /\ n + 1 \in 0..Len(t) /\ x \in 0..(n + 1)
          /\ x > 0 => t[x] = NL
          /\ \A i \in 1..(n + 1) : t[i] = NL => i <= x
      <4>1. \A i \in 1..(n + 1) : i = n + 1 \/ i \in 1..n
        BY <1>1
      <4> HIDE DEF t, n
      <4> QED
        BY <1>1, <1>3, <2>1, <4>1
    <3> HIDE DEF t, n
    <3> QED
      BY <1>1, <3>1, BeforeOnly
  <2>3. SubSeq(t, x + 1, n + 1) = Append(SubSeq(s, x + 1, n), b)
    <3> DEFINE u == SubSeq(t, x + 1, n + 1)
               v == SubSeq(s, x + 1, n)
    <3>1. /\ x \in Nat /\ x <= n /\ x <= n + 1 /\ n \in 0..Len(s) /\ n + 1 \in 0..Len(t)
          /\ (n + 1) - x = (n - x) + 1 /\ n - x \in Nat
      BY <1>1, <2>1
    <3> HIDE DEF t, n
    <3>2. /\ u \in Seq(Bytes) /\ Len(u) = (n - x) + 1
          /\ \A k \in 1..((n - x) + 1) : u[k] = t[x + k]
      BY <1>1, <3>1, PartOf DEF Words
    <3>3. v \in Seq(Bytes) /\ Len(v) = n - x /\ \A k \in 1..(n - x) : v[k] = s[x + k]
      BY <1>1, <3>1, PartOf DEF Words
    <3> HIDE DEF u, v
    <3>4. /\ Append(v, b) \in Seq(Bytes) /\ Len(Append(v, b)) = (n - x) + 1
          /\ Append(v, b)[(n - x) + 1] = b
          /\ \A k \in 1..(n - x) : Append(v, b)[k] = v[k]
      BY <3>3
    <3>5. \A k \in 1..((n - x) + 1) : u[k] = Append(v, b)[k]
      <4>1. ASSUME NEW k \in 1..(n - x)
            PROVE  u[k] = Append(v, b)[k]
        <5>1. k \in 1..((n - x) + 1) /\ x + k \in 1..n
          BY <3>1
        <5> QED
          BY <1>1, <3>2, <3>3, <3>4, <5>1
      <4>2. u[(n - x) + 1] = b
        <5>1. (n - x) + 1 \in 1..((n - x) + 1) /\ x + ((n - x) + 1) = n + 1
          BY <1>1, <3>1
        <5> QED
          BY <1>1, <3>2, <5>1
      <4>3. \A k \in 1..((n - x) + 1) : k = (n - x) + 1 \/ k \in 1..(n - x)
        BY <3>1
      <4> QED
        BY <3>4, <4>1, <4>2, <4>3
    <3> HIDE DEF t
    <3>6. u = Append(v, b)
      BY <3>2, <3>4, <3>5, SameSequence
    <3> QED
      BY <3>6 DEF u, v
  <2> QED
    BY <1>1, <1>3, <2>2, <2>3 DEF Unfinished, Further, x
<1> QED
  BY <1>2, <1>3

LEMMA AllIsFinishedAnd ==
    ASSUME NEW s \in Words
    PROVE  AllCommands(s) = And(Finished(s), Unfinished(s))
<1> DEFINE n == Len(s)
           S == EndsBefore(s)
<1>1. n \in Nat
  BY DEF Words
<1>2. S \subseteq 1..n /\ S \subseteq Nat /\ IsFiniteSet(S) /\ \A j \in S : j < n
  <2>1. S \subseteq 1..n
    BY DEF EndsBefore, Ends
  <2>2. IsFiniteSet(1..n)
    BY <1>1, FS_Interval
  <2>3. IsFiniteSet(S)
    BY <2>1, <2>2, FS_Subset
  <2> QED
    BY <1>1, <2>1, <2>3 DEF EndsBefore
<1>3. Ends(s) = IF n = 0 \/ s[n] = NL THEN S ELSE S \cup {n}
  BY <1>1 DEF EndsBefore, Ends
<1>4. CASE n = 0 \/ s[n] = NL
  <2>1. Ends(s) = S
    BY <1>3, <1>4
  <2>2. Unfinished(s) = <<>>
    BY <1>4, UnfinishedTyped
  <2> QED
    BY <2>1, <2>2 DEF AllCommands, Finished, EndsBefore, And
<1>5. CASE ~(n = 0 \/ s[n] = NL)
  <2>1. Ends(s) = S \cup {n}
    BY <1>3, <1>5
  <2>2. Unfinished(s) # <<>> /\ RunTo(s)[n] = Unfinished(s)
    BY <1>5, UnfinishedTyped
  <2>3. Continues(S, RunTo(s), n, RunTo(s))
    <3> HIDE DEF S, n
    <3> QED
      BY <1>1, <1>2 DEF Continues
  <2>4. InOrder(S \cup {n}, RunTo(s)) = Further(InOrder(S, RunTo(s)), RunTo(s)[n])
    BY <2>3, InOrderMore
  <2> QED
    BY <2>1, <2>2, <2>4 DEF AllCommands, Finished, EndsBefore, And
<1> QED
  BY <1>4, <1>5

LEMMA FinishedNext ==
    ASSUME NEW s \in Words, NEW b \in Bytes
    PROVE  Finished(Append(s, b)) =
               IF b = NL THEN And(Finished(s), Unfinished(s)) ELSE Finished(s)
<1> DEFINE t == Append(s, b)
           n == Len(s)
           S == EndsBefore(t)
<1>1. /\ t \in Words /\ Len(t) = n + 1 /\ n \in Nat /\ t[n + 1] = b
      /\ \A i \in 1..n : t[i] = s[i]
  BY DEF Words
<1> HIDE DEF t
<1>2. S = IF b = NL THEN Ends(s) ELSE EndsBefore(s)
  <2>1. S = {j \in 1..n : s[j] # NL /\ t[j + 1] = NL}
    <3>1. \A j \in 1..Len(t) : j < Len(t) <=> j \in 1..n
      BY <1>1
    <3>2. \A j \in 1..n : j # Len(t) /\ j \in 1..Len(t)
      BY <1>1
    <3> QED
      BY <1>1, <3>1, <3>2 DEF EndsBefore, Ends
  <2>2. \A j \in 1..n : t[j + 1] = IF j = n THEN b ELSE s[j + 1]
    BY <1>1
  <2>3. EndsBefore(s) = {j \in 1..n : s[j] # NL /\ j # n /\ s[j + 1] = NL}
    BY <1>1 DEF EndsBefore, Ends
  <2>4. Ends(s) = {j \in 1..n : s[j] # NL /\ (j = n \/ s[j + 1] = NL)}
    BY DEF Ends
  <2> HIDE DEF S, n
  <2>5. CASE b = NL
    BY <2>1, <2>2, <2>4, <2>5
  <2>6. CASE b # NL
    BY <2>1, <2>2, <2>3, <2>6
  <2> QED
    BY <2>5, <2>6
<1>3. S \subseteq 1..n /\ S \subseteq Nat /\ IsFiniteSet(S)
  <2>1. S \subseteq 1..n
    BY <1>1 DEF EndsBefore, Ends
  <2>2. IsFiniteSet(1..n)
    BY <1>1, FS_Interval
  <2>3. IsFiniteSet(S)
    BY <2>1, <2>2, FS_Subset
  <2> QED
    BY <2>1, <2>3
<1>4. \A j \in S : RunTo(t)[j] = RunTo(s)[j]
  BY <1>3, RunsKept DEF t
<1>5. InOrder(S, RunTo(t)) = InOrder(S, RunTo(s))
  <2> HIDE DEF S
  <2> QED
    BY <1>3, <1>4, InOrderSame
<1>6. Finished(t) = InOrder(S, RunTo(s))
  BY <1>5 DEF Finished, EndsBefore
<1>7. b = NL => InOrder(S, RunTo(s)) = And(Finished(s), Unfinished(s))
  BY <1>2, AllIsFinishedAnd DEF AllCommands
<1>8. b # NL => InOrder(S, RunTo(s)) = Finished(s)
  BY <1>2 DEF Finished, EndsBefore
<1> QED
  BY <1>6, <1>7, <1>8 DEF t

LEMMA FinishedTyped ==
    ASSUME NEW s \in Words
    PROVE  Finished(s) \in Seq(Words)
<1> DEFINE S == EndsBefore(s)
           n == Len(s)
<1>1. n \in Nat
  BY DEF Words
<1>2. S \subseteq 1..n /\ S \subseteq Nat
  BY DEF EndsBefore, Ends
<1>3. IsFiniteSet(S) /\ Cardinality(S) \in Nat
  <2>1. IsFiniteSet(1..n)
    BY <1>1, FS_Interval
  <2> QED
    BY <1>2, <2>1, FS_Subset, FS_CardinalityType
<1>4. ASSUME NEW j \in 1..n
      PROVE  RunTo(s)[j] \in Words
  <2>1. Before(s, j) \in 0..j
    <3>1. j \in 0..Len(s)
      BY <1>1
    <3> QED
      BY <3>1, BeforeIs
  <2>2. Before(s, j) \in Nat /\ Before(s, j) <= j /\ j \in 0..Len(s)
    BY <1>1, <2>1
  <2>3. SubSeq(s, Before(s, j) + 1, j) \in Words
    BY <2>2, PartOf DEF Words
  <2> QED
    BY <2>3 DEF RunTo
<1> HIDE DEF S, n
<1>5. \A k \in 1..Cardinality(S) : Nth(S, k) \in S
  BY <1>2, <1>3, NthExists
<1>6. \A k \in 1..Cardinality(S) : RunTo(s)[Nth(S, k)] \in Words
  BY <1>2, <1>4, <1>5
<1>7. Finished(s) = [k \in 1..Cardinality(S) |-> RunTo(s)[Nth(S, k)]]
  BY DEF Finished, InOrder, EndsBefore, S
<1> QED
  BY <1>3, <1>6, <1>7

(***************************************************************************)
(* A line without a newline finishes nothing.                              *)
(***************************************************************************)
LEMMA PlainLine ==
    ASSUME NEW s \in Words, \A i \in 1..Len(s) : s[i] # NL
    PROVE  Finished(s) = <<>> /\ Unfinished(s) = s
<1>1. Len(s) \in Nat
  BY DEF Words
<1>2. EndsBefore(s) = {}
  <2>1. \A j \in 1..Len(s) : j < Len(s) => j + 1 \in 1..Len(s)
    BY <1>1
  <2> QED
    BY <2>1 DEF EndsBefore, Ends
<1>3. Finished(s) = <<>>
  <2>1. 1..Cardinality({}) = {}
    BY FS_EmptySet
  <2>2. InOrder({}, RunTo(s)) = [k \in {} |-> RunTo(s)[Nth({}, k)]]
    BY <2>1, Zenon DEF InOrder
  <2>3. [k \in {} |-> RunTo(s)[Nth({}, k)]] = <<>>
    OBVIOUS
  <2> QED
    BY <1>2, <2>2, <2>3 DEF Finished, EndsBefore
<1>4. Before(s, Len(s)) = 0
  BY <1>1, BeforeOnly
<1>5. SubSeq(s, 0 + 1, Len(s)) = s
  BY DEF Words
<1> QED
  BY <1>3, <1>4, <1>5 DEF Unfinished

LEMMA UnfinishedIsPlain ==
    ASSUME NEW s \in Words
    PROVE  \A i \in 1..Len(Unfinished(s)) : Unfinished(s)[i] # NL
<1> DEFINE n == Len(s)
           x == Before(s, n)
<1>1. n \in Nat /\ n \in 0..n
  BY DEF Words
<1>2. x \in 0..n /\ \A i \in 1..n : s[i] = NL => i <= x
  BY <1>1, BeforeIs
<1> HIDE DEF x, n
<1>3. x \in Nat /\ x <= n /\ n \in 0..Len(s)
  BY <1>1, <1>2 DEF n
<1>4. /\ Len(SubSeq(s, x + 1, n)) = n - x
      /\ \A k \in 1..(n - x) : SubSeq(s, x + 1, n)[k] = s[x + k]
  BY <1>3, PartOf DEF Words
<1>5. \A k \in 1..(n - x) : x + k \in 1..n /\ ~(x + k <= x)
  BY <1>1, <1>3
<1> QED
  BY <1>2, <1>4, <1>5 DEF Unfinished, x, n

LEMMA PrefixNext ==
    ASSUME NEW E, NEW s \in Seq(E), NEW n \in 1..Len(s)
    PROVE  /\ SubSeq(s, 1, n) = Append(SubSeq(s, 1, n - 1), s[n])
           /\ SubSeq(s, 1, n - 1) \in Seq(E)
           /\ s[n] \in E /\ n - 1 \in 0..Len(s) /\ n - 1 < n
  OBVIOUS

LEMMA PrefixEnds ==
    ASSUME NEW E, NEW s \in Seq(E)
    PROVE  SubSeq(s, 1, 0) = <<>> /\ SubSeq(s, 1, Len(s)) = s
  OBVIOUS

LEMMA AndTyped ==
    ASSUME NEW s \in Seq(Words), NEW t \in Seq(Words), NEW w \in Words
    PROVE  And(s, w) \in Seq(Words) /\ s \o And(t, w) = And(s \o t, w)
<1>1. s \o Append(t, w) = Append(s \o t, w) /\ Append(s, w) \in Seq(Words)
  BY Appending
<1> QED
  BY <1>1 DEF And, Further

(***************************************************************************)
(* What comes after a stream continues its unfinished line.                *)
(***************************************************************************)
LEMMA StreamContinues ==
    ASSUME NEW s \in Words, NEW c \in Words
    PROVE  /\ Finished(s \o c) = Joined(Finished(s), Finished(Unfinished(s) \o c))
           /\ Unfinished(s \o c) = Unfinished(Unfinished(s) \o c)
<1> DEFINE w == Unfinished(s)
           upto(m) == SubSeq(c, 1, m)
           OK(m) == /\ Finished(s \o upto(m)) = Joined(Finished(s), Finished(w \o upto(m)))
                    /\ Unfinished(s \o upto(m)) = Unfinished(w \o upto(m))
           T == {m \in 0..Len(c) : ~OK(m)}
<1>1. w \in Words /\ Len(c) \in Nat
  <2>1. w \in Words
    BY UnfinishedTyped
  <2> QED
    BY <2>1 DEF Words
<1>2. T = {}
  <2> SUFFICES ASSUME T # {} PROVE FALSE
    OBVIOUS
  <2>1. PICK m \in T : \A i \in T : ~(i < m)
    <3>1. T \subseteq Nat
      BY <1>1
    <3> QED
      BY <3>1, LeastNumber
  <2>2. CASE m = 0
    <3>1. upto(0) = <<>>
      BY PrefixEnds DEF Words
    <3>2. Finished(w) = <<>> /\ Unfinished(w) = w
      BY <1>1, UnfinishedIsPlain, PlainLine
    <3>3. s \o <<>> = s /\ w \o <<>> = w
      BY <1>1 DEF Words
    <3>4. Finished(s) \o <<>> = Finished(s)
      BY FinishedTyped
    <3> HIDE DEF w, upto
    <3>5. OK(0)
      BY <3>1, <3>2, <3>3, <3>4 DEF Joined, w
    <3> QED
      BY <2>1, <2>2, <3>5
  <2>3. CASE m # 0
    <3> DEFINE u == upto(m - 1)
    <3>1. /\ m \in 1..Len(c) /\ m - 1 \in 0..Len(c) /\ m - 1 < m
          /\ u \in Words /\ c[m] \in Bytes /\ upto(m) = Append(u, c[m])
      <4>1. m \in 1..Len(c)
        BY <1>1, <2>1, <2>3
      <4> QED
        BY <4>1, PrefixNext DEF Words
    <3>2. OK(m - 1)
      BY <2>1, <3>1
    <3> HIDE DEF u, w
    <3>3. /\ s \o u \in Words /\ w \o u \in Words
          /\ s \o Append(u, c[m]) = Append(s \o u, c[m])
          /\ w \o Append(u, c[m]) = Append(w \o u, c[m])
      <4>1. w \in Seq(Bytes) /\ s \in Seq(Bytes) /\ u \in Seq(Bytes) /\ c[m] \in Bytes
        BY <1>1, <3>1 DEF Words
      <4>2. /\ s \o u \in Seq(Bytes)
            /\ s \o Append(u, c[m]) = Append(s \o u, c[m])
        BY <4>1, Appending
      <4>3. /\ w \o u \in Seq(Bytes)
            /\ w \o Append(u, c[m]) = Append(w \o u, c[m])
        BY <4>1, Appending
      <4> QED
        BY <4>2, <4>3 DEF Words
    <3>4. Finished(s \o u) = Joined(Finished(s), Finished(w \o u))
          /\ Unfinished(s \o u) = Unfinished(w \o u)
      BY <3>2 DEF u
    <3>5. Unfinished(Append(s \o u, c[m])) = Unfinished(Append(w \o u, c[m]))
      BY <3>1, <3>3, <3>4, UnfinishedNext
    <3>6. Finished(Append(s \o u, c[m])) = Joined(Finished(s), Finished(Append(w \o u, c[m])))
      <4>1. /\ Finished(Append(s \o u, c[m])) =
                   IF c[m] = NL THEN And(Finished(s \o u), Unfinished(s \o u))
                                ELSE Finished(s \o u)
            /\ Finished(Append(w \o u, c[m])) =
                   IF c[m] = NL THEN And(Finished(w \o u), Unfinished(w \o u))
                                ELSE Finished(w \o u)
        BY <3>1, <3>3, FinishedNext
      <4>2. /\ Finished(s) \in Seq(Words) /\ Finished(w \o u) \in Seq(Words)
            /\ Unfinished(w \o u) \in Words
        BY <3>3, FinishedTyped, UnfinishedTyped
      <4>3. Finished(s) \o And(Finished(w \o u), Unfinished(w \o u)) =
                And(Finished(s) \o Finished(w \o u), Unfinished(w \o u))
        BY <4>2, AndTyped
      <4> QED
        BY <3>4, <4>1, <4>3 DEF Joined
    <3>7. OK(m)
      BY <3>1, <3>3, <3>5, <3>6
    <3> QED
      BY <2>1, <3>7
  <2> QED
    BY <2>2, <2>3
<1>3. OK(Len(c))
  <2>1. Len(c) \in 0..Len(c)
    BY <1>1
  <2> HIDE DEF OK
  <2> QED
    BY <1>2, <2>1
<1>4. upto(Len(c)) = c
  BY PrefixEnds DEF Words
<1> QED
  BY <1>3, <1>4

-----------------------------------------------------------------------------
(***************************************************************************)
(* The pieces of a buffer are its finished lines, with what is empty       *)
(* between two newlines, and at last its unfinished line.                  *)
(***************************************************************************)
SomePieces == {x \in Seq(Words) : x # <<>>}

\* the pieces x, with a byte more
Extended(x, b) ==
    IF b = NL THEN Append(x, <<>>) ELSE Append(Front(x), Append(Last(x), b))

Splitting(s) == [m \in 1..Len(s) |-> [x \in SomePieces |-> Extended(x, s[m])]]

LEMMA PiecesParts ==
    ASSUME NEW x \in SomePieces
    PROVE  /\ Front(x) \in Seq(Words) /\ Last(x) \in Words /\ x \in Seq(Words)
           /\ x = Append(Front(x), Last(x))
<1>1. x \in Seq(Words) /\ Len(x) \in Nat /\ Len(x) # 0
  BY DEF SomePieces
<1>2. Len(x) \in 1..Len(x)
  BY <1>1
<1>3. /\ SubSeq(x, 1, Len(x)) = Append(SubSeq(x, 1, Len(x) - 1), x[Len(x)])
      /\ SubSeq(x, 1, Len(x) - 1) \in Seq(Words) /\ x[Len(x)] \in Words
  BY <1>1, <1>2, PrefixNext
<1>4. SubSeq(x, 1, Len(x)) = x
  BY <1>1, PrefixEnds
<1> QED
  BY <1>1, <1>3, <1>4 DEF Front, Last

LEMMA AppendedParts ==
    ASSUME NEW s \in Seq(Words), NEW e \in Words
    PROVE  /\ Append(s, e) \in SomePieces
           /\ Front(Append(s, e)) = s /\ Last(Append(s, e)) = e
<1>1. Append(s, e) # <<>> /\ Append(s, e) \in Seq(Words) /\ Len(Append(s, e)) = Len(s) + 1
  <2>1. Append(s, e) \in Seq(Words) /\ Len(Append(s, e)) = Len(s) + 1 /\ Len(s) \in Nat
    OBVIOUS
  <2>2. Len(<<>>) = 0
    OBVIOUS
  <2> QED
    BY <2>1, <2>2
<1>2. SubSeq(Append(s, e), 1, Len(s)) = s
  <2> DEFINE t == Append(s, e)
             u == SubSeq(t, 0 + 1, Len(s))
  <2>1. t \in Seq(Words) /\ Len(s) \in 0..Len(t) /\ \A k \in 1..Len(s) : t[k] = s[k]
    OBVIOUS
  <2> HIDE DEF t
  <2>2. /\ u \in Seq(Words) /\ Len(u) = Len(s) - 0
        /\ \A k \in 1..(Len(s) - 0) : u[k] = t[0 + k]
    <3>1. 0 \in Nat /\ 0 <= Len(s)
      OBVIOUS
    <3> QED
      BY <2>1, <3>1, PartOf
  <2> HIDE DEF u
  <2>3. Len(u) = Len(s) /\ \A k \in 1..Len(s) : u[k] = s[k]
    BY <2>1, <2>2
  <2>4. u = s
    BY <2>2, <2>3, SameSequence
  <2> QED
    BY <2>4 DEF t, u
<1>3. Len(s) \in Nat /\ Append(s, e)[Len(s) + 1] = e /\ (Len(s) + 1) - 1 = Len(s)
  OBVIOUS
<1> QED
  BY <1>1, <1>2, <1>3 DEF SomePieces, Front, Last

LEMMA ExtendedTyped ==
    ASSUME NEW x \in SomePieces, NEW b \in Bytes
    PROVE  Extended(x, b) \in SomePieces
<1>1. Front(x) \in Seq(Words) /\ Last(x) \in Words /\ x \in Seq(Words)
  BY PiecesParts
<1>2. Append(Last(x), b) \in Words /\ <<>> \in Words
  BY <1>1 DEF Words
<1>3. Append(x, <<>>) \in SomePieces /\ Append(Front(x), Append(Last(x), b)) \in SomePieces
  BY <1>1, <1>2, AppendedParts
<1> QED
  BY <1>3 DEF Extended

LEMMA SplittingSteps ==
    ASSUME NEW s \in Words
    PROVE  Splitting(s) \in [1..Len(s) -> [SomePieces -> SomePieces]]
<1>1. ASSUME NEW m \in 1..Len(s), NEW x \in SomePieces
      PROVE  Extended(x, s[m]) \in SomePieces
  <2>1. s[m] \in Bytes
    BY DEF Words
  <2> QED
    BY <2>1, ExtendedTyped
<1> QED
  BY <1>1 DEF Splitting

LEMMA SplitIs ==
    ASSUME NEW s \in Words, s # <<>>
    PROVE  \E f \in Iterates(SomePieces, << <<>> >>, Splitting(s), Len(s)) :
               Split(s) = f[Len(s)]
<1> DEFINE n == Len(s)
           Follows(g) ==
               g = [m \in 0..n |->
                       IF m = 0 THEN << <<>> >>
                       ELSE IF s[m] = NL THEN Append(g[m - 1], <<>>)
                       ELSE Append(Front(g[m - 1]), Append(Last(g[m - 1]), s[m]))]
           at == CHOOSE g : Follows(g)
<1>1. n \in Nat
  BY DEF Words
<1>2. << <<>> >> \in SomePieces
  <2>1. <<>> \in Words /\ <<>> \in Seq(Words)
    BY DEF Words
  <2>2. Append(<<>>, <<>>) \in SomePieces
    BY <2>1, AppendedParts
  <2>3. Append(<<>>, <<>>) = << <<>> >>
    OBVIOUS
  <2> QED
    BY <2>2, <2>3
<1>3. PICK f : f \in Iterates(SomePieces, << <<>> >>, Splitting(s), n)
  <2>1. Iterates(SomePieces, << <<>> >>, Splitting(s), Len(s)) # {}
    BY <1>1, <1>2, SplittingSteps, IteratesExist
  <2> QED
    BY <2>1
<1>4. Follows(f)
  <2>1. f \in [0..n -> SomePieces] /\ f[0] = << <<>> >>
    BY <1>3 DEF Iterates
  <2>2. ASSUME NEW m \in 1..n
        PROVE  f[m] = Extended(f[m - 1], s[m])
    <3>0. m - 1 \in 0..n
      BY <1>1
    <3>1. f[m - 1] \in SomePieces /\ f[m] = Splitting(s)[m][f[m - 1]]
      BY <1>3, <2>1, <3>0, Zenon DEF Iterates
    <3> QED
      BY <3>1 DEF Splitting
  <2>3. \A m \in 0..n : m # 0 => m \in 1..n
    BY <1>1
  <2> HIDE DEF n
  <2>4. \A m \in 0..n : f[m] =
            IF m = 0 THEN << <<>> >>
            ELSE IF s[m] = NL THEN Append(f[m - 1], <<>>)
            ELSE Append(Front(f[m - 1]), Append(Last(f[m - 1]), s[m]))
    BY <2>1, <2>2, <2>3 DEF Extended
  <2>5. f = [m \in 0..n |-> f[m]]
    BY <2>1
  <2> QED
    BY <2>4, <2>5
<1>5. Follows(at)
  BY <1>4
<1>6. Split(s) = at[n]
  BY DEF Split
<1> HIDE DEF at
<1>7. Solves(at, SomePieces, << <<>> >>, Splitting(s), n)
  <2>0. \A m \in 0..n : at[m] =
            IF m = 0 THEN << <<>> >>
            ELSE IF s[m] = NL THEN Append(at[m - 1], <<>>)
            ELSE Append(Front(at[m - 1]), Append(Last(at[m - 1]), s[m]))
    BY <1>5
  <2>1. ASSUME NEW m \in 1..n, at[m - 1] \in SomePieces
        PROVE  at[m] = Splitting(s)[m][at[m - 1]]
    <3>1. at[m] = Extended(at[m - 1], s[m])
      BY <1>1, <2>0 DEF Extended
    <3> QED
      BY <2>1, <3>1 DEF Splitting
  <2>2. DOMAIN at = 0..n /\ at = [m \in 0..n |-> at[m]] /\ at[0] = << <<>> >>
    BY <1>1, <1>5
  <2> QED
    BY <2>1, <2>2 DEF Solves
<1>8. at \in Iterates(SomePieces, << <<>> >>, Splitting(s), n)
  BY <1>1, <1>2, <1>7, SplittingSteps, IteratesIs
<1> QED
  BY <1>6, <1>8

\* x are pieces of s
PiecesOf(x, s) ==
    /\ x \in SomePieces
    /\ Last(x) = Unfinished(s)
    /\ NonEmpty(Front(x)) = Finished(s)

LEMMA PiecesExtended ==
    ASSUME NEW s \in Words, NEW b \in Bytes, NEW x, PiecesOf(x, s)
    PROVE  PiecesOf(Extended(x, b), Append(s, b))
<1>1. /\ x \in SomePieces /\ Front(x) \in Seq(Words) /\ Last(x) \in Words /\ x \in Seq(Words)
      /\ x = Append(Front(x), Last(x))
  BY PiecesParts DEF PiecesOf
<1>2. Extended(x, b) \in SomePieces
  BY <1>1, ExtendedTyped
<1>3. CASE b = NL
  <2>1. <<>> \in Words
    BY DEF Words
  <2>2. Extended(x, b) = Append(x, <<>>)
    BY <1>3 DEF Extended
  <2>3. Front(Extended(x, b)) = x /\ Last(Extended(x, b)) = <<>>
    BY <1>1, <2>1, <2>2, AppendedParts
  <2>4. NonEmpty(x) = And(NonEmpty(Front(x)), Last(x))
    <3>1. NonEmpty(Append(Front(x), Last(x))) = And(NonEmpty(Front(x)), Last(x))
      BY <1>1, NonEmptyNext DEF And
    <3> QED
      BY <1>1, <3>1
  <2>5. Unfinished(Append(s, b)) = <<>>
    BY <1>3, UnfinishedNext
  <2>6. Finished(Append(s, b)) = And(Finished(s), Unfinished(s))
    BY <1>3, FinishedNext
  <2> QED
    BY <1>2, <2>3, <2>4, <2>5, <2>6 DEF PiecesOf
<1>4. CASE b # NL
  <2>1. Append(Last(x), b) \in Words
    BY <1>1 DEF Words
  <2>2. Extended(x, b) = Append(Front(x), Append(Last(x), b))
    BY <1>4 DEF Extended
  <2>3. Front(Extended(x, b)) = Front(x) /\ Last(Extended(x, b)) = Append(Last(x), b)
    BY <1>1, <2>1, <2>2, AppendedParts
  <2>4. Unfinished(Append(s, b)) = Append(Unfinished(s), b)
    BY <1>4, UnfinishedNext DEF Further
  <2>5. Finished(Append(s, b)) = Finished(s)
    BY <1>4, FinishedNext
  <2> QED
    BY <1>2, <2>3, <2>4, <2>5 DEF PiecesOf
<1> QED
  BY <1>3, <1>4

LEMMA SplitPieces ==
    ASSUME NEW s \in Words, s # <<>>
    PROVE  /\ PiecesOf(Split(s), s)
           /\ NonEmpty(Split(s)) = AllCommands(s)
<1> DEFINE n == Len(s)
<1>1. n \in Nat
  BY DEF Words
<1>2. PICK f \in Iterates(SomePieces, << <<>> >>, Splitting(s), n) : Split(s) = f[n]
  BY SplitIs
<1> DEFINE OK(m) == PiecesOf(f[m], SubSeq(s, 1, m))
           T == {m \in 0..n : ~OK(m)}
<1>3. T = {}
  <2> SUFFICES ASSUME T # {} PROVE FALSE
    OBVIOUS
  <2>1. PICK l \in T : \A m \in T : ~(m < l)
    <3>1. T \subseteq Nat
      BY <1>1
    <3> QED
      BY <3>1, LeastNumber
  <2>2. CASE l = 0
    <3>1. f[0] = << <<>> >> /\ SubSeq(s, 1, 0) = <<>>
      BY <1>2, PrefixEnds DEF Iterates, Words
    <3>2. <<>> \in Words /\ <<>> \in Seq(Words) /\ Len(<<>>) = 0 /\ Append(<<>>, <<>>) = << <<>> >>
      BY DEF Words
    <3>3. Append(<<>>, <<>>) \in SomePieces /\ Front(Append(<<>>, <<>>)) = <<>>
          /\ Last(Append(<<>>, <<>>)) = <<>>
      BY <3>2, AppendedParts
    <3>4. Finished(<<>>) = <<>> /\ Unfinished(<<>>) = <<>>
      <4>1. \A i \in 1..Len(<<>>) : <<>>[i] # NL
        OBVIOUS
      <4> QED
        BY <3>2, <4>1, PlainLine
    <3>5. PiecesOf(Append(<<>>, <<>>), <<>>)
      BY <3>3, <3>4, NonEmptyNone DEF PiecesOf
    <3> QED
      BY <2>1, <2>2, <3>1, <3>2, <3>5
  <2>3. CASE l # 0
    <3>1. l \in 1..n
      BY <1>1, <2>1, <2>3
    <3>2. /\ SubSeq(s, 1, l) = Append(SubSeq(s, 1, l - 1), s[l])
          /\ SubSeq(s, 1, l - 1) \in Words
          /\ s[l] \in Bytes /\ l - 1 \in 0..n /\ l - 1 < l
      BY <3>1, PrefixNext DEF Words
    <3>3. OK(l - 1)
      BY <2>1, <3>2
    <3>4. f[l - 1] \in SomePieces
      BY <3>3 DEF PiecesOf
    <3>5. f[l] = Splitting(s)[l][f[l - 1]]
      BY <1>2, <3>1 DEF Iterates
    <3>6. f[l] = Extended(f[l - 1], s[l])
      BY <3>1, <3>4, <3>5 DEF Splitting
    <3>7. PiecesOf(Extended(f[l - 1], s[l]), Append(SubSeq(s, 1, l - 1), s[l]))
      BY <3>2, <3>3, PiecesExtended
    <3> QED
      BY <2>1, <3>2, <3>6, <3>7
  <2> QED
    BY <2>2, <2>3
<1>4. OK(n)
  BY <1>1, <1>3
<1>5. SubSeq(s, 1, n) = s
  BY PrefixEnds DEF Words
<1>6. PiecesOf(Split(s), s)
  BY <1>2, <1>4, <1>5
<1>7. NonEmpty(Split(s)) = AllCommands(s)
  <2>1. /\ Front(Split(s)) \in Seq(Words) /\ Last(Split(s)) \in Words
        /\ Split(s) = Append(Front(Split(s)), Last(Split(s)))
    BY <1>6, PiecesParts DEF PiecesOf
  <2>2. NonEmpty(Append(Front(Split(s)), Last(Split(s)))) =
            And(NonEmpty(Front(Split(s))), Last(Split(s)))
    BY <2>1, NonEmptyNext DEF And
  <2> QED
    BY <1>6, <2>1, <2>2, AllIsFinishedAnd DEF PiecesOf
<1> QED
  BY <1>6, <1>7

-----------------------------------------------------------------------------
(***************************************************************************)
(* What receive and disconnect make of a context.                          *)
(***************************************************************************)
LEMMA WithTail ==
    ASSUME NEW ctx \in Contexts, NEW t \in Words
    PROVE  LET new == [ctx EXCEPT !.tail = t] IN
           /\ new \in Contexts /\ new.tail = t /\ new.bulk_size = ctx.bulk_size
           /\ CommandsOf(new) = CommandsOf(ctx)
           /\ Filled(ctx) => Filled(new)
<1> DEFINE new == [ctx EXCEPT !.tail = t]
<1>1. new \in Contexts
  BY DEF Contexts
<1>2. /\ new.tail = t /\ new.bulk_size = ctx.bulk_size
      /\ new.current_commands = ctx.current_commands /\ new.blocks = ctx.blocks
  BY DEF Contexts
<1> HIDE DEF new
<1>3. CommandsOf(new) = CommandsOf(ctx) /\ (Filled(ctx) => Filled(new))
  BY <1>2 DEF CommandsOf, Filled
<1> QED
  BY <1>1, <1>2, <1>3 DEF new

LEMMA CommandsTyped ==
    ASSUME NEW ctx \in Contexts
    PROVE  CommandsOf(ctx) \in Seq(Words)
<1>1. ctx.current_commands \in Seq(Words) /\ ctx.blocks \in Seq(Seq(Words))
  BY ContextParts
<1>2. FlattenSeq(ctx.blocks) \in Seq(Words)
  BY <1>1, FlattenTyped
<1> QED
  BY <1>1, <1>2, Appending DEF CommandsOf

\* new is ctx after a chunk that makes its tail t and finishes cmds
Received(ctx, t, cmds, new) ==
    /\ new \in Contexts
    /\ new.bulk_size = ctx.bulk_size
    /\ new.tail = t
    /\ Filled(ctx) => Filled(new)
    /\ CommandsOf(new) = Joined(CommandsOf(ctx), cmds)

LEMMA ReceivedByTaking ==
    ASSUME NEW ctx \in Contexts, NEW t \in Words, NEW pieces \in Seq(Words)
    PROVE  Received(ctx, t, NonEmpty(pieces), AddCommands([ctx EXCEPT !.tail = t], pieces))
<1> DEFINE mid == [ctx EXCEPT !.tail = t]
           new == AddCommands(mid, pieces)
<1>1. /\ mid \in Contexts /\ mid.tail = t /\ mid.bulk_size = ctx.bulk_size
      /\ CommandsOf(mid) = CommandsOf(ctx)
      /\ Filled(ctx) => Filled(mid)
  BY WithTail
<1> HIDE DEF mid
<1>2. Took(mid, NonEmpty(pieces), new)
  BY <1>1, TakesAll
<1> HIDE DEF new
<1>3. Received(ctx, t, NonEmpty(pieces), new)
  BY <1>1, <1>2 DEF Took, Received
<1> QED
  BY <1>3 DEF new, mid

LEMMA BufferIs ==
    ASSUME NEW t \in Words, NEW c \in Words, c # <<>>
    PROVE  /\ t \o c \in Words /\ t \o c # <<>>
           /\ Len(t \o c) # 0 /\ Last(t \o c) = Last(c)
           /\ Unfinished(t \o c) = <<>> <=> Last(c) = NL
<1>1. /\ t \o c \in Words /\ Len(t \o c) = Len(t) + Len(c)
      /\ Len(c) \in Nat /\ Len(t) \in Nat /\ Len(c) # 0
  BY DEF Words
<1>2. Len(t \o c) # 0 /\ t \o c # <<>>
  <2>1. Len(<<>>) = 0
    OBVIOUS
  <2> QED
    BY <1>1, <2>1
<1>3. (t \o c)[Len(t) + Len(c)] = c[Len(c)]
  BY <1>1 DEF Words
<1> QED
  BY <1>1, <1>2, <1>3, UnfinishedTyped DEF Last

LEMMA Receives9 ==
    ASSUME NEW ctx \in Contexts, NEW chunk \in Words, chunk # <<>>
    PROVE  LET buffer == ctx.tail \o chunk IN
           Received(ctx, Unfinished(buffer), Finished(buffer), receive9(ctx, chunk))
<1> DEFINE buffer == ctx.tail \o chunk
           cmds == Split(buffer)
<1>1. buffer \in Words /\ buffer # <<>>
      /\ (Unfinished(buffer) = <<>> <=> Last(buffer) = NL)
  <2>1. ctx.tail \in Words
    BY ContextParts
  <2> QED
    BY <2>1, BufferIs
<1> HIDE DEF buffer
<1>2. PiecesOf(cmds, buffer) /\ NonEmpty(cmds) = AllCommands(buffer)
  BY <1>1, SplitPieces
<1> HIDE DEF cmds
<1>3. /\ cmds \in Seq(Words) /\ Front(cmds) \in Seq(Words) /\ Last(cmds) \in Words
      /\ Last(cmds) = Unfinished(buffer) /\ NonEmpty(Front(cmds)) = Finished(buffer)
  BY <1>2, PiecesParts DEF PiecesOf
<1>4. CASE Last(buffer) # NL
  <2>1. receive9(ctx, chunk) = AddCommands([ctx EXCEPT !.tail = Last(cmds)], Front(cmds))
    BY <1>1, <1>4 DEF receive9, buffer, cmds
  <2>2. Received(ctx, Last(cmds), NonEmpty(Front(cmds)), receive9(ctx, chunk))
    BY <1>3, <2>1, ReceivedByTaking
  <2> QED
    BY <1>3, <2>2 DEF buffer
<1>5. CASE Last(buffer) = NL
  <2>1. receive9(ctx, chunk) = AddCommands([ctx EXCEPT !.tail = <<>>], cmds)
    BY <1>1, <1>5 DEF receive9, buffer, cmds
  <2>2. <<>> \in Words /\ Unfinished(buffer) = <<>>
    BY <1>1, <1>5 DEF Words
  <2>3. Received(ctx, <<>>, NonEmpty(cmds), receive9(ctx, chunk))
    BY <1>3, <2>1, <2>2, ReceivedByTaking
  <2>4. NonEmpty(cmds) = Finished(buffer)
    BY <1>1, <1>2, <2>2, AllIsFinishedAnd DEF And
  <2> QED
    BY <2>2, <2>3, <2>4 DEF buffer
<1> QED
  BY <1>4, <1>5

\* What is received in whole lines is as in hw-9; for the rest, types only.
LEMMA Receives10 ==
    ASSUME NEW ctx \in Contexts, NEW chunk \in Words, chunk # <<>>
    PROVE  /\ \E t \in Words, cmds \in Seq(Words) :
                  Received(ctx, t, cmds, receive10(ctx, chunk))
           /\ ctx.tail = <<>> /\ Last(chunk) = NL =>
                  Received(ctx, <<>>, Finished(chunk), receive10(ctx, chunk))
<1> DEFINE buffer == ctx.tail \o chunk
           part == SubSeq(buffer, 1, Len(chunk))
           rest == Last(Split(part))
           t == IF rest = <<>> THEN ctx.tail ELSE rest
           cmds == Split(buffer)
<1>1. ctx.tail \in Words
  BY ContextParts
<1>2. buffer \in Words /\ buffer # <<>>
  BY <1>1, BufferIs
<1>3. part \in Words /\ part # <<>>
  <2>1. /\ Len(buffer) = Len(ctx.tail) + Len(chunk) /\ Len(chunk) \in Nat
        /\ Len(ctx.tail) \in Nat /\ Len(chunk) # 0
    BY <1>1 DEF Words
  <2> HIDE DEF buffer
  <2>2. part \in Words /\ Len(part) = Len(chunk) - 0
    <3>1. 0 \in Nat /\ Len(chunk) \in 0..Len(buffer) /\ 0 <= Len(chunk)
      BY <2>1
    <3>2. SubSeq(buffer, 0 + 1, Len(chunk)) \in Words
          /\ Len(SubSeq(buffer, 0 + 1, Len(chunk))) = Len(chunk) - 0
      BY <1>2, <3>1, PartOf DEF Words
    <3> QED
      BY <3>2
  <2> QED
    BY <2>1, <2>2
<1>4. PiecesOf(Split(part), part)
  BY <1>3, SplitPieces
<1>5. PiecesOf(cmds, buffer) /\ NonEmpty(cmds) = AllCommands(buffer)
  BY <1>2, SplitPieces
<1>6. receive10(ctx, chunk) = AddCommands([ctx EXCEPT !.tail = t], cmds)
  BY DEF receive10
<1>7. rest \in Words /\ rest = Unfinished(part)
  BY <1>4, PiecesParts DEF PiecesOf
<1>8. cmds \in Seq(Words)
  BY <1>5, PiecesParts DEF PiecesOf
<1>9. t \in Words
  BY <1>1, <1>7
<1> HIDE DEF t, cmds, rest, part
<1>10. Received(ctx, t, NonEmpty(cmds), receive10(ctx, chunk))
  BY <1>6, <1>8, <1>9, ReceivedByTaking
<1>11. NonEmpty(cmds) \in Seq(Words)
  BY <1>8, NonEmptyTyped
<1>12. ASSUME ctx.tail = <<>>, Last(chunk) = NL
       PROVE  t = <<>> /\ NonEmpty(cmds) = Finished(chunk)
  <2>1. buffer = chunk /\ part = chunk
    <3>1. <<>> \o chunk = chunk /\ SubSeq(chunk, 1, Len(chunk)) = chunk
      BY DEF Words
    <3> QED
      BY <1>12, <3>1 DEF part
  <2>2. Unfinished(chunk) = <<>>
    <3>1. <<>> \in Words /\ <<>> \o chunk = chunk
      BY DEF Words
    <3>2. Unfinished(<<>> \o chunk) = <<>>
      BY <1>12, <3>1, BufferIs
    <3> QED
      BY <3>1, <3>2
  <2>3. AllCommands(chunk) = Finished(chunk)
    BY <2>2, AllIsFinishedAnd DEF And
  <2> QED
    BY <1>5, <1>7, <1>12, <2>1, <2>2, <2>3 DEF t
<1> QED
  BY <1>9, <1>10, <1>11, <1>12

\* the blocks of a context that was disconnected
Closed(ctx) ==
    /\ ctx.bulk_size > 0 => Len(ctx.current_commands) < ctx.bulk_size
    /\ \A i \in DOMAIN ctx.blocks :
          \/ Len(ctx.blocks[i]) = ctx.bulk_size
          \/ /\ i = Len(ctx.blocks)
             /\ ctx.bulk_size = 0 \/ Len(ctx.blocks[i]) \in 1..ctx.bulk_size

LEMMA Disconnects ==
    ASSUME NEW ctx \in Contexts
    PROVE  LET new == disconnect(ctx) IN
           /\ new \in Contexts
           /\ new.tail = ctx.tail
           /\ Filled(ctx) => Closed(new)
           /\ FlattenSeq(new.blocks) = And(CommandsOf(ctx), ctx.tail)
<1> DEFINE old == ctx.current_commands
           cmds == IF ctx.tail = <<>> THEN old ELSE Append(old, ctx.tail)
           more == [ctx EXCEPT !.blocks = Append(@, cmds)]
           flat == FlattenSeq(ctx.blocks)
<1>1. /\ ctx.bulk_size \in Nat /\ ctx.tail \in Words
      /\ ctx.current_commands \in Seq(Words) /\ ctx.blocks \in Seq(Seq(Words))
  BY ContextParts
<1>2. flat \in Seq(Words)
  BY <1>1, FlattenTyped
<1>3. cmds \in Seq(Words) /\ Len(cmds) \in Nat /\ Len(old) \in Nat
      /\ (cmds = old \/ Len(cmds) = Len(old) + 1)
  <2>1. Append(old, ctx.tail) \in Seq(Words) /\ Len(Append(old, ctx.tail)) = Len(old) + 1
    BY <1>1
  <2> QED
    BY <1>1, <2>1
<1>4. flat \o cmds = And(CommandsOf(ctx), ctx.tail)
  <2>1. flat \o Append(old, ctx.tail) = Append(flat \o old, ctx.tail)
    <3> DEFINE w == ctx.tail
    <3>1. w \in Words /\ old \in Seq(Words) /\ flat \in Seq(Words)
      BY <1>1, <1>2
    <3> HIDE DEF w, old, flat
    <3>2. flat \o Append(old, w) = Append(flat \o old, w)
      BY <3>1, Appending
    <3> QED
      BY <3>2 DEF w
  <2> QED
    BY <2>1 DEF And, Further, CommandsOf
<1>5. disconnect(ctx) = IF cmds = <<>> THEN ctx ELSE more
  BY DEF disconnect
<1> HIDE DEF cmds, flat
<1>6. CASE cmds = <<>>
  <2>1. flat \o cmds = flat
    BY <1>2, <1>6, Appending
  <2>2. Filled(ctx) => Closed(ctx)
    BY DEF Filled, Closed
  <2> QED
    BY <1>4, <1>5, <1>6, <2>1, <2>2 DEF flat
<1>7. CASE cmds # <<>>
  <2>1. Append(ctx.blocks, cmds) \in Seq(Seq(Words))
    BY <1>1, <1>3
  <2>2. more \in Contexts
    BY <2>1 DEF Contexts
  <2>3. /\ more.tail = ctx.tail /\ more.bulk_size = ctx.bulk_size
        /\ more.current_commands = old /\ more.blocks = Append(ctx.blocks, cmds)
    BY DEF Contexts
  <2> HIDE DEF more
  <2>4. FlattenSeq(more.blocks) = flat \o cmds
    BY <1>1, <1>3, <2>3, FlattenNext DEF Joined, flat
  <2>5. ASSUME Filled(ctx)
        PROVE  Closed(more)
    <3>1. Len(cmds) # 0
      BY <1>3, <1>7
    <3>2. ctx.bulk_size = 0 \/ Len(cmds) \in 1..ctx.bulk_size
      BY <1>1, <1>3, <2>5, <3>1 DEF Filled
    <3>3. Len(Append(ctx.blocks, cmds)) = Len(ctx.blocks) + 1 /\ Len(ctx.blocks) \in Nat
      BY <1>1, <1>3
    <3>4. ASSUME NEW i \in DOMAIN Append(ctx.blocks, cmds)
          PROVE  LET n == Len(Append(ctx.blocks, cmds)[i]) IN
                 \/ n = ctx.bulk_size
                 \/ /\ i = Len(Append(ctx.blocks, cmds))
                    /\ ctx.bulk_size = 0 \/ n \in 1..ctx.bulk_size
      <4>1. i \in 1..(Len(ctx.blocks) + 1)
        BY <1>1, <1>3, <3>4
      <4>2. CASE i \in 1..Len(ctx.blocks)
        <5>1. Append(ctx.blocks, cmds)[i] = ctx.blocks[i] /\ i \in DOMAIN ctx.blocks
          BY <1>1, <1>3, <4>2
        <5> QED
          BY <2>5, <5>1 DEF Filled
      <4>3. CASE i = Len(ctx.blocks) + 1
        <5>1. Append(ctx.blocks, cmds)[i] = cmds
          BY <1>1, <1>3, <4>3
        <5> QED
          BY <3>2, <3>3, <4>3, <5>1
      <4> QED
        BY <3>3, <4>1, <4>2, <4>3
    <3> QED
      BY <2>3, <2>5, <3>4 DEF Closed, Filled
  <2> QED
    BY <1>4, <1>5, <1>7, <2>2, <2>3, <2>4, <2>5
<1> QED
  BY <1>6, <1>7

-----------------------------------------------------------------------------
(***************************************************************************)
(* The invariant: the tail of hw-9 is the unfinished line of the stream,   *)
(* full_cmd of hw-11 that of what it appended, and what hw-10 keeps is     *)
(* typed, whatever it repeats.                                             *)
(***************************************************************************)
StreamTypeOK ==
    /\ received \in Words /\ appended \in Words
    /\ aligned \in BOOLEAN /\ open \in BOOLEAN
    /\ ctx9 \in Contexts /\ ctx10 \in Contexts
    /\ client11.processed \in Seq(Words)

LinesKnown ==
    /\ client11.full_cmd = Unfinished(appended)
    /\ client11.processed = Finished(appended)
    /\ NUL \notin Range(received) => appended = received
    /\ open => /\ ctx9.tail = Unfinished(received)
               /\ CommandsOf(ctx9) = Finished(received)
    /\ ~open => FlattenSeq(ctx9.blocks) = AllCommands(received)

BlocksKnown ==
    IF open THEN Filled(ctx9) /\ Filled(ctx10) ELSE Closed(ctx9) /\ Closed(ctx10)

WholeLinesKnown ==
    aligned => /\ Unfinished(received) = <<>>
               /\ ctx10.tail = <<>>
               /\ open => CommandsOf(ctx10) = Finished(received)
               /\ ~open => FlattenSeq(ctx10.blocks) = Finished(received)

StreamInv == StreamTypeOK /\ LinesKnown /\ BlocksKnown /\ WholeLinesKnown

LEMMA NewContextIs ==
    ASSUME NEW size \in Nat
    PROVE  LET ctx == NewContext(size) IN
           /\ ctx \in Contexts /\ ctx.tail = <<>>
           /\ CommandsOf(ctx) = <<>> /\ Filled(ctx)
<1> DEFINE ctx == NewContext(size)
<1>1. <<>> \in Words /\ <<>> \in Seq(Words) /\ <<>> \in Seq(Seq(Words))
  BY DEF Words
<1>2. ctx \in Contexts
  BY <1>1 DEF NewContext, Contexts
<1>3. /\ ctx.tail = <<>> /\ ctx.bulk_size = size
      /\ ctx.current_commands = <<>> /\ ctx.blocks = <<>>
  BY DEF NewContext
<1> HIDE DEF ctx
<1>4. Len(<<>>) = 0 /\ DOMAIN <<>> = {}
  OBVIOUS
<1>5. <<>> \o <<>> = <<>>
  BY <1>1, Appending
<1>6. CommandsOf(ctx) = <<>>
  BY <1>3, <1>5, FlattenNone DEF CommandsOf
<1>7. Filled(ctx)
  BY <1>3, <1>4 DEF Filled
<1> QED
  BY <1>2, <1>3, <1>6, <1>7 DEF ctx

LEMMA NothingReceived == <<>> \in Words /\ Finished(<<>>) = <<>> /\ Unfinished(<<>>) = <<>>
<1>1. <<>> \in Words /\ Len(<<>>) = 0
  BY DEF Words
<1>2. \A i \in 1..Len(<<>>) : <<>>[i] # NL
  OBVIOUS
<1> QED
  BY <1>1, <1>2, PlainLine

LEMMA StreamStarts == SplitInit => StreamInv
<1> SUFFICES ASSUME SplitInit PROVE StreamInv
  OBVIOUS
<1>1. /\ received = <<>> /\ appended = <<>> /\ aligned = TRUE /\ open = TRUE
      /\ client11 = [full_cmd |-> <<>>, processed |-> <<>>]
  BY DEF SplitInit
<1>2. PICK size \in BulkSizes : ctx9 = NewContext(size) /\ ctx10 = NewContext(size)
  BY DEF SplitInit
<1>3. size \in Nat
  BY <1>2, SplitterAssumption
<1> DEFINE ctx == NewContext(size)
<1>4. /\ ctx \in Contexts /\ ctx.tail = <<>>
      /\ CommandsOf(ctx) = <<>> /\ Filled(ctx)
  BY <1>3, NewContextIs
<1> HIDE DEF ctx
<1>5. ctx9 = ctx /\ ctx10 = ctx
  BY <1>2 DEF ctx
<1>6. client11.full_cmd = <<>> /\ client11.processed = <<>> /\ <<>> \in Seq(Words)
  BY <1>1
<1> QED
  BY <1>1, <1>4, <1>5, <1>6, NothingReceived
  DEF StreamInv, StreamTypeOK, LinesKnown, BlocksKnown, WholeLinesKnown

LEMMA ChunksAreWords ==
    ASSUME NEW n \in Int, NEW chunk \in BoundedSeq(Bytes, n)
    PROVE  chunk \in Words
  BY DEF BoundedSeq, SeqOf, Words

\* a stream of whole lines, continued by one that ends with a newline
LEMMA WholeLines ==
    ASSUME NEW s \in Words, NEW c \in Words, c # <<>>
    PROVE  /\ s \o c \in Words
           /\ Last(c) = NL => Unfinished(s \o c) = <<>>
           /\ Unfinished(s) = <<>> => Finished(s \o c) = Joined(Finished(s), Finished(c))
<1>1. <<>> \o c = c /\ s \o c \in Words
  BY DEF Words
<1>2. Unfinished(s \o c) = <<>> <=> Last(c) = NL
  BY BufferIs
<1>3. Finished(s \o c) = Joined(Finished(s), Finished(Unfinished(s) \o c))
  BY StreamContinues
<1> QED
  BY <1>1, <1>2, <1>3

LEMMA CStringIs ==
    ASSUME NEW chunk \in Words
    PROVE  /\ CString(chunk) \in Words
           /\ (\A i \in 1..Len(chunk) : chunk[i] # NUL) => CString(chunk) = chunk
<1> DEFINE S == {i \in 1..Len(chunk) : chunk[i] = NUL} \cup {Len(chunk) + 1}
           end == Min(S)
<1>1. Len(chunk) \in Nat
  BY DEF Words
<1>2. end \in S
  <2>1. S \subseteq Nat /\ S # {}
    BY <1>1
  <2> QED
    BY <2>1, MinOfNumbers
<1>3. end \in 1..(Len(chunk) + 1)
  BY <1>1, <1>2
<1>4. CString(chunk) = SubSeq(chunk, 1, end - 1)
  BY DEF CString
<1>5. (\A i \in 1..Len(chunk) : chunk[i] # NUL) => end = Len(chunk) + 1
  BY <1>2
<1> HIDE DEF end
<1>6. SubSeq(chunk, 1, end - 1) \in Words
  BY <1>1, <1>3 DEF Words
<1>7. end = Len(chunk) + 1 => SubSeq(chunk, 1, end - 1) = chunk
  <2>1. Len(chunk) + 1 - 1 = Len(chunk)
    BY <1>1
  <2> QED
    BY <2>1, PrefixEnds DEF Words
<1> QED
  BY <1>4, <1>5, <1>6, <1>7

LEMMA BytesOfBoth ==
    ASSUME NEW s \in Words, NEW c \in Words, NUL \notin Range(s \o c)
    PROVE  NUL \notin Range(s) /\ \A i \in 1..Len(c) : c[i] # NUL
<1>1. /\ DOMAIN (s \o c) = 1..(Len(s) + Len(c)) /\ DOMAIN s = 1..Len(s)
      /\ Len(s) \in Nat /\ Len(c) \in Nat
  BY DEF Words
<1>2. \A i \in 1..(Len(s) + Len(c)) : (s \o c)[i] # NUL
  BY <1>1 DEF Range
<1>3. \A i \in 1..Len(s) : s[i] # NUL
  <2> SUFFICES ASSUME NEW i \in 1..Len(s) PROVE s[i] # NUL
    OBVIOUS
  <2>1. (s \o c)[i] = s[i] /\ i \in 1..(Len(s) + Len(c))
    BY <1>1 DEF Words
  <2> QED
    BY <1>2, <2>1
<1>4. \A i \in 1..Len(c) : c[i] # NUL
  <2> SUFFICES ASSUME NEW i \in 1..Len(c) PROVE c[i] # NUL
    OBVIOUS
  <2>1. (s \o c)[Len(s) + i] = c[i] /\ Len(s) + i \in 1..(Len(s) + Len(c))
    BY <1>1 DEF Words
  <2> QED
    BY <1>2, <2>1
<1> QED
  BY <1>1, <1>3, <1>4 DEF Range

LEMMA ReceiveStep == StreamInv /\ Receive => StreamInv'
<1> SUFFICES ASSUME StreamInv, Receive PROVE StreamInv'
  OBVIOUS
<1> USE DEF StreamInv
<1>1. /\ received \in Words /\ appended \in Words /\ aligned \in BOOLEAN /\ open = TRUE
      /\ ctx9 \in Contexts /\ ctx10 \in Contexts
      /\ client11.processed \in Seq(Words)
  BY DEF StreamTypeOK, Receive
<1>2. PICK chunk \in BoundedSeq(Bytes, MaxBytes - Len(received)) :
          /\ chunk # <<>>
          /\ received' = received \o chunk
          /\ appended' = appended \o CString(chunk)
          /\ aligned' = (aligned /\ Last(chunk) = NL)
          /\ ctx9' = receive9(ctx9, chunk)
          /\ ctx10' = receive10(ctx10, chunk)
          /\ client11' = handle_client(client11, chunk)
  BY DEF Receive
<1>3. chunk \in Words /\ chunk # <<>>
  <2>1. Len(received) \in Nat
    BY <1>1 DEF Words
  <2>2. MaxBytes - Len(received) \in Int
    BY <2>1, SplitterAssumption
  <2> QED
    BY <1>2, <2>2, ChunksAreWords
<1>4. open' = TRUE /\ aligned' \in BOOLEAN
  BY <1>1, <1>2 DEF Receive
<1> DEFINE w == Unfinished(received)
           done == Finished(received)
           buffer == w \o chunk
<1>5. /\ received' \in Words /\ Unfinished(received') = Unfinished(buffer)
      /\ Finished(received') = Joined(done, Finished(buffer))
      /\ Last(chunk) = NL => Unfinished(received') = <<>>
      /\ w = <<>> => Finished(received') = Joined(done, Finished(chunk))
  BY <1>1, <1>2, <1>3, StreamContinues, WholeLines
<1>6. buffer \in Words /\ buffer # <<>> /\ Finished(buffer) \in Seq(Words)
  <2>1. w \in Words
    BY <1>1, UnfinishedTyped
  <2>2. buffer \in Words /\ buffer # <<>>
    BY <1>3, <2>1, BufferIs
  <2> QED
    BY <2>2, FinishedTyped
<1>7. ctx9.tail = w /\ CommandsOf(ctx9) = done
  BY <1>1 DEF LinesKnown
<1>8. Received(ctx9, Unfinished(buffer), Finished(buffer), ctx9')
  <2>1. Received(ctx9, Unfinished(ctx9.tail \o chunk), Finished(ctx9.tail \o chunk),
                 receive9(ctx9, chunk))
    BY <1>1, <1>3, Receives9
  <2> QED
    BY <1>2, <1>7, <2>1
<1>9. /\ \E t \in Words, cmds \in Seq(Words) : Received(ctx10, t, cmds, ctx10')
      /\ ctx10.tail = <<>> /\ Last(chunk) = NL =>
             Received(ctx10, <<>>, Finished(chunk), ctx10')
  BY <1>1, <1>2, <1>3, Receives10
<1> DEFINE c == CString(chunk)
           w11 == Unfinished(appended)
           done11 == Finished(appended)
<1>10. /\ c \in Words /\ appended' = appended \o c /\ appended' \in Words
       /\ NUL \notin Range(received') => appended' = received'
  <2>1. /\ c \in Words
        /\ (\A i \in 1..Len(chunk) : chunk[i] # NUL) => c = chunk
    BY <1>3, CStringIs
  <2>2. appended' = appended \o c /\ received' = received \o chunk
    BY <1>2
  <2> HIDE DEF c
  <2>3. appended \o c \in Words
    BY <1>1, <2>1 DEF Words
  <2>4. ASSUME NUL \notin Range(received') PROVE appended' = received'
    <3>1. NUL \notin Range(received) /\ c = chunk
      BY <1>1, <1>3, <2>1, <2>2, <2>4, BytesOfBoth
    <3>2. appended = received
      BY <3>1 DEF LinesKnown
    <3> QED
      BY <2>2, <3>1, <3>2
  <2> QED
    BY <2>1, <2>2, <2>3, <2>4
<1>11. /\ client11'.full_cmd = Unfinished(appended')
       /\ client11'.processed = Finished(appended')
       /\ client11'.processed \in Seq(Words)
  <2>1. client11.full_cmd = w11 /\ client11.processed = done11
    BY DEF LinesKnown
  <2>2. CASE c = <<>>
    <3>1. client11' = client11
      BY <1>2, <2>2 DEF handle_client
    <3>2. appended' = appended
      BY <1>1, <1>10, <2>2, Appending DEF Words
    <3> QED
      BY <1>1, <2>1, <3>1, <3>2
  <2>3. CASE c # <<>>
    <3> DEFINE buffer11 == w11 \o c
               pieces == Split(buffer11)
    <3>1. /\ buffer11 \in Words /\ buffer11 # <<>>
          /\ Finished(buffer11) \in Seq(Words) /\ done11 \in Seq(Words)
      <4>1. w11 \in Words /\ done11 \in Seq(Words)
        BY <1>1, UnfinishedTyped, FinishedTyped
      <4>2. buffer11 \in Words /\ buffer11 # <<>>
        BY <1>10, <2>3, <4>1, BufferIs
      <4> QED
        BY <4>1, <4>2, FinishedTyped
    <3>2. /\ Unfinished(appended') = Unfinished(buffer11)
          /\ Finished(appended') = Joined(done11, Finished(buffer11))
      BY <1>1, <1>10, StreamContinues
    <3>3. client11' = [full_cmd |-> Last(pieces),
                       processed |-> done11 \o NonEmpty(Front(pieces))]
      BY <1>2, <2>1, <2>3 DEF handle_client
    <3>4. PiecesOf(pieces, buffer11)
      BY <3>1, SplitPieces
    <3> HIDE DEF pieces, buffer11, done11, w11
    <3>5. Joined(done11, Finished(buffer11)) \in Seq(Words)
      BY <3>1, Appending DEF Joined
    <3> QED
      BY <3>2, <3>3, <3>4, <3>5 DEF PiecesOf, Joined
  <2> QED
    BY <2>2, <2>3
<1> HIDE DEF c, w11, done11
<1> HIDE DEF w, done, buffer
<1>12. StreamTypeOK'
  <2>1. ctx9' \in Contexts
    BY <1>8 DEF Received
  <2>2. ctx10' \in Contexts
    BY <1>9 DEF Received
  <2> QED
    BY <1>4, <1>5, <1>10, <1>11, <2>1, <2>2 DEF StreamTypeOK
<1>13. LinesKnown'
  BY <1>4, <1>5, <1>7, <1>8, <1>10, <1>11 DEF LinesKnown, Received
<1>14. BlocksKnown'
  BY <1>1, <1>4, <1>8, <1>9 DEF BlocksKnown, Received
<1>15. WholeLinesKnown'
  <2> SUFFICES ASSUME aligned' = TRUE
               PROVE  /\ Unfinished(received') = <<>> /\ ctx10'.tail = <<>>
                      /\ CommandsOf(ctx10') = Finished(received')
    BY <1>4 DEF WholeLinesKnown
  <2>1. aligned = TRUE /\ Last(chunk) = NL
    BY <1>1, <1>2
  <2>2. w = <<>> /\ ctx10.tail = <<>> /\ CommandsOf(ctx10) = done
    BY <1>1, <2>1 DEF WholeLinesKnown, w, done
  <2>3. Received(ctx10, <<>>, Finished(chunk), ctx10')
    BY <1>9, <2>1, <2>2
  <2> QED
    BY <1>5, <2>1, <2>2, <2>3 DEF Received
<1> QED
  BY <1>12, <1>13, <1>14, <1>15

LEMMA DisconnectStep == StreamInv /\ Disconnect => StreamInv'
<1> SUFFICES ASSUME StreamInv, Disconnect PROVE StreamInv'
  OBVIOUS
<1> USE DEF StreamInv
<1>1. /\ received' = received /\ appended' = appended /\ aligned' = aligned /\ client11' = client11
      /\ open = TRUE /\ open' = FALSE
      /\ ctx9' = disconnect(ctx9) /\ ctx10' = disconnect(ctx10)
  BY DEF Disconnect, StreamTypeOK
<1>2. /\ received \in Words /\ appended \in Words /\ ctx9 \in Contexts /\ ctx10 \in Contexts
      /\ client11.processed \in Seq(Words) /\ aligned \in BOOLEAN
  BY DEF StreamTypeOK
<1>3. /\ ctx9' \in Contexts /\ ctx9'.tail = ctx9.tail
      /\ Filled(ctx9) => Closed(ctx9')
      /\ FlattenSeq(ctx9'.blocks) = And(CommandsOf(ctx9), ctx9.tail)
  BY <1>1, <1>2, Disconnects
<1>4. /\ ctx10' \in Contexts /\ ctx10'.tail = ctx10.tail
      /\ Filled(ctx10) => Closed(ctx10')
      /\ FlattenSeq(ctx10'.blocks) = And(CommandsOf(ctx10), ctx10.tail)
  BY <1>1, <1>2, Disconnects
<1>5. AllCommands(received) = And(Finished(received), Unfinished(received))
  BY <1>2, AllIsFinishedAnd
<1>6. StreamTypeOK'
  BY <1>1, <1>2, <1>3, <1>4 DEF StreamTypeOK
<1>7. LinesKnown'
  BY <1>1, <1>3, <1>5 DEF LinesKnown
<1>8. BlocksKnown'
  BY <1>1, <1>3, <1>4 DEF BlocksKnown
<1>9. WholeLinesKnown'
  BY <1>1, <1>4 DEF WholeLinesKnown, And
<1> QED
  BY <1>6, <1>7, <1>8, <1>9

LEMMA StreamStep == StreamInv /\ [SplitNext]_splitVars => StreamInv'
<1>1. StreamInv /\ UNCHANGED splitVars => StreamInv'
  BY DEF splitVars, StreamInv, StreamTypeOK, LinesKnown, BlocksKnown, WholeLinesKnown
<1> QED
  BY <1>1, ReceiveStep, DisconnectStep DEF SplitNext

LEMMA StreamInvariant == SplitSpec => []StreamInv
  BY StreamStarts, StreamStep, PTL DEF SplitSpec

(***************************************************************************)
(* For streams of any length over any bytes, cut into any chunks, and any  *)
(* bulk size: hw-9's blocks are those of the whole stream, and hw-11's     *)
(* commands those of what it appends, which is the whole stream wherever   *)
(* receive and recv cut it, if no byte of it is zero.                      *)
(***************************************************************************)
THEOREM ChunkingCorrect == SplitSpec => []ChunkingIsIgnored
<1>1. StreamInv => ChunkingIsIgnored
  BY DEF StreamInv, LinesKnown, ChunkingIsIgnored
<1> QED
  BY <1>1, StreamInvariant, PTL

(***************************************************************************)
(* ... the blocks that receive and disconnect push are full, but for the   *)
(* last one, in hw-9 and in hw-10.                                         *)
(***************************************************************************)
THEOREM BlocksCorrect == SplitSpec => []BlocksAreFull
<1>1. StreamInv => BlocksAreFull
  <2> SUFFICES ASSUME StreamInv, NEW ctx \in {ctx9, ctx10}
               PROVE  /\ ctx.bulk_size > 0 => Len(ctx.current_commands) < ctx.bulk_size
                      /\ \A i \in DOMAIN ctx.blocks :
                            LET n == Len(ctx.blocks[i]) IN
                            \/ n = ctx.bulk_size
                            \/ /\ ~open /\ i = Len(ctx.blocks)
                               /\ ctx.bulk_size = 0 \/ n \in 1..ctx.bulk_size
    BY DEF BlocksAreFull
  <2>1. IF open THEN Filled(ctx) ELSE Closed(ctx)
    BY DEF StreamInv, BlocksKnown
  <2> QED
    BY <2>1 DEF Filled, Closed
<1> QED
  BY <1>1, StreamInvariant, PTL

(***************************************************************************)
(* ... and hw-10's receive yields the commands of a stream whose chunks    *)
(* all end with a newline.                                                 *)
(***************************************************************************)
THEOREM WholeLinesCorrect == SplitSpec => []Hw10NeedsWholeLines
<1>1. StreamInv => Hw10NeedsWholeLines
  <2> SUFFICES ASSUME StreamInv PROVE Hw10NeedsWholeLines
    OBVIOUS
  <2>1. AllCommands(received) = And(Finished(received), Unfinished(received))
    BY AllIsFinishedAnd DEF StreamInv, StreamTypeOK
  <2> QED
    BY <2>1 DEF StreamInv, WholeLinesKnown, Hw10NeedsWholeLines, And
<1> QED
  BY <1>1, StreamInvariant, PTL

-----------------------------------------------------------------------------
(***************************************************************************)
(* Sums of sequences of integers.                                          *)
(***************************************************************************)
Summing(s) == [m \in 1..Len(s) |-> [x \in Int |-> x + s[m]]]

LEMMA SummingSteps ==
    ASSUME NEW s \in Seq(Int)
    PROVE  Summing(s) \in [1..Len(s) -> [Int -> Int]]
<1>1. \A m \in 1..Len(s) : s[m] \in Int
  OBVIOUS
<1>2. \A m \in 1..Len(s) : \A x \in Int : x + s[m] \in Int
  BY <1>1
<1> QED
  BY <1>2 DEF Summing

LEMMA SumIs ==
    ASSUME NEW s \in Seq(Int)
    PROVE  \E f \in Iterates(Int, 0, Summing(s), Len(s)) : Sum(s) = f[Len(s)]
<1> DEFINE Follows(g) ==
               g = [n \in 0..Len(s) |-> IF n = 0 THEN 0 ELSE g[n - 1] + s[n]]
           at == CHOOSE g : Follows(g)
<1>1. Len(s) \in Nat /\ 0 \in Int
  OBVIOUS
<1>2. PICK f : f \in Iterates(Int, 0, Summing(s), Len(s))
  <2>1. Iterates(Int, 0, Summing(s), Len(s)) # {}
    BY <1>1, SummingSteps, IteratesExist
  <2> QED
    BY <2>1
<1>3. Follows(f)
  <2>1. f \in [0..Len(s) -> Int] /\ f[0] = 0
    BY <1>2 DEF Iterates
  <2>2. ASSUME NEW n \in 1..Len(s) PROVE f[n] = f[n - 1] + s[n]
    <3>1. f[n - 1] \in Int /\ f[n] = Summing(s)[n][f[n - 1]]
      BY <1>1, <1>2, <2>1 DEF Iterates
    <3> QED
      BY <3>1 DEF Summing
  <2>3. \A n \in 0..Len(s) : n # 0 => n \in 1..Len(s)
    BY <1>1
  <2> QED
    BY <2>1, <2>2, <2>3
<1>4. Follows(at)
  BY <1>3
<1>5. Sum(s) = at[Len(s)]
  BY DEF Sum
<1> HIDE DEF at
<1>6. Solves(at, Int, 0, Summing(s), Len(s))
  <2>0. \A n \in 0..Len(s) : at[n] = IF n = 0 THEN 0 ELSE at[n - 1] + s[n]
    BY <1>4
  <2>1. ASSUME NEW n \in 1..Len(s), at[n - 1] \in Int
        PROVE  at[n] = Summing(s)[n][at[n - 1]]
    <3>1. at[n] = at[n - 1] + s[n]
      BY <1>1, <2>0
    <3> QED
      BY <2>1, <3>1 DEF Summing
  <2>2. DOMAIN at = 0..Len(s) /\ at = [n \in 0..Len(s) |-> at[n]] /\ at[0] = 0
    BY <1>1, <1>4
  <2> QED
    BY <2>1, <2>2 DEF Solves
<1>7. at \in Iterates(Int, 0, Summing(s), Len(s))
  BY <1>1, <1>6, SummingSteps, IteratesIs
<1> QED
  BY <1>5, <1>7

LEMMA SumTyped ==
    ASSUME NEW s \in Seq(Int)
    PROVE  Sum(s) \in Int
<1>1. PICK f \in Iterates(Int, 0, Summing(s), Len(s)) : Sum(s) = f[Len(s)]
  BY SumIs
<1>2. f \in [0..Len(s) -> Int] /\ Len(s) \in 0..Len(s)
  BY DEF Iterates
<1> QED
  BY <1>1, <1>2

LEMMA SumNone == Sum(<<>>) = 0
<1>1. <<>> \in Seq(Int) /\ Len(<<>>) = 0
  OBVIOUS
<1>2. PICK f \in Iterates(Int, 0, Summing(<<>>), 0) : Sum(<<>>) = f[0]
  BY <1>1, SumIs
<1> QED
  BY <1>2 DEF Iterates

\* The first k elements; with one more, the sum grows by it.
Part(s, k) == [m \in 1..k |-> s[m]]

LEMMA PartIs ==
    ASSUME NEW s \in Seq(Int), NEW k \in 0..Len(s)
    PROVE  /\ Part(s, k) \in Seq(Int) /\ Len(Part(s, k)) = k
           /\ \A m \in 1..k : Part(s, k)[m] = s[m]
<1>1. \A m \in 1..k : s[m] \in Int
  OBVIOUS
<1> QED
  BY <1>1 DEF Part

LEMMA SumMore ==
    ASSUME NEW s \in Seq(Int), NEW t \in Seq(Int), Len(t) = Len(s) + 1,
           \A m \in 1..Len(s) : t[m] = s[m]
    PROVE  Sum(t) = Sum(s) + t[Len(t)]
<1> DEFINE n == Len(s)
<1>1. n \in Nat /\ Len(t) = n + 1 /\ \A m \in 1..n : t[m] = s[m]
  OBVIOUS
<1> HIDE DEF n
<1>2. PICK f \in Iterates(Int, 0, Summing(s), n) : Sum(s) = f[n]
  BY SumIs DEF n
<1>3. PICK g \in Iterates(Int, 0, Summing(t), n + 1) : Sum(t) = g[n + 1]
  BY <1>1, SumIs
<1>4. Agree(Summing(s), Summing(t), n)
  <2>1. ASSUME NEW m \in 1..n
        PROVE  Summing(s)[m] = Summing(t)[m]
    <3>1. m \in 1..Len(s) /\ m \in 1..Len(t) /\ t[m] = s[m]
      BY <1>1 DEF n
    <3> QED
      BY <3>1 DEF Summing
  <2> QED
    BY <2>1 DEF Agree
<1>5. n \in Nat /\ n + 1 \in Nat /\ n <= n /\ n <= n + 1 /\ 0 \in Int
  BY <1>1
<1>6. f[n] = g[n]
  <2>1. Alike(Int, 0, f, Summing(s), n, g, Summing(t), n + 1, n)
    BY <1>4, <1>5 DEF Alike
  <2> QED
    BY <2>1, IteratesAgree
<1>7. g[n] \in Int /\ g[n + 1] = Summing(t)[n + 1][g[n]]
  BY <1>1, <1>3 DEF Iterates
<1>8. g[n + 1] = g[n] + t[n + 1]
  BY <1>1, <1>7 DEF Summing
<1> QED
  BY <1>1, <1>2, <1>3, <1>6, <1>8

LEMMA SumPart ==
    ASSUME NEW s \in Seq(Int)
    PROVE  /\ Sum(Part(s, 0)) = 0
           /\ Sum(Part(s, Len(s))) = Sum(s)
           /\ \A k \in 0..Len(s) : Sum(Part(s, k)) \in Int
           /\ \A k \in 1..Len(s) : Sum(Part(s, k)) = Sum(Part(s, k - 1)) + s[k]
<1>1. Part(s, 0) = <<>>
  BY DEF Part
<1>2. Part(s, Len(s)) = s
  BY DEF Part
<1>3. ASSUME NEW k \in 1..Len(s)
      PROVE  Sum(Part(s, k)) = Sum(Part(s, k - 1)) + s[k]
  <2>1. k \in 0..Len(s) /\ k - 1 \in 0..Len(s) /\ k = (k - 1) + 1
    OBVIOUS
  <2>2. /\ Part(s, k) \in Seq(Int) /\ Len(Part(s, k)) = k
        /\ \A m \in 1..k : Part(s, k)[m] = s[m]
    BY <2>1, PartIs
  <2>3. /\ Part(s, k - 1) \in Seq(Int) /\ Len(Part(s, k - 1)) = k - 1
        /\ \A m \in 1..(k - 1) : Part(s, k - 1)[m] = s[m]
    BY <2>1, PartIs
  <2>4. \A m \in 1..(k - 1) : Part(s, k)[m] = Part(s, k - 1)[m]
    BY DEF Part
  <2> DEFINE a == Part(s, k - 1)
             b == Part(s, k)
  <2>5. a \in Seq(Int) /\ b \in Seq(Int) /\ Len(b) = Len(a) + 1 /\ \A m \in 1..Len(a) : b[m] = a[m]
    BY <2>1, <2>2, <2>3, <2>4
  <2> HIDE DEF a, b
  <2>6. Sum(b) = Sum(a) + b[Len(b)]
    BY <2>5, SumMore
  <2> QED
    BY <2>2, <2>6 DEF a, b
<1>4. ASSUME NEW k \in 0..Len(s) PROVE Sum(Part(s, k)) \in Int
  BY PartIs, SumTyped
<1> QED
  BY <1>1, <1>2, <1>3, <1>4, SumNone

LEMMA SumNonnegative ==
    ASSUME NEW s \in Seq(Int), \A k \in 1..Len(s) : s[k] >= 0
    PROVE  Sum(s) >= 0
<1> DEFINE T == {k \in 0..Len(s) : ~(Sum(Part(s, k)) >= 0)}
<1>1. /\ Sum(Part(s, 0)) = 0 /\ Sum(Part(s, Len(s))) = Sum(s) /\ Len(s) \in Nat
      /\ \A k \in 0..Len(s) : Sum(Part(s, k)) \in Int
      /\ \A k \in 1..Len(s) : Sum(Part(s, k)) = Sum(Part(s, k - 1)) + s[k]
  BY SumPart
<1>2. T = {}
  <2> SUFFICES ASSUME T # {} PROVE FALSE
    OBVIOUS
  <2>1. PICK k \in T : \A m \in T : ~(m < k)
    <3>1. T \subseteq Nat
      OBVIOUS
    <3> QED
      BY <3>1, LeastNumber
  <2>2. k # 0
    BY <1>1, <2>1
  <2>3. k \in 1..Len(s) /\ k - 1 \in 0..Len(s) /\ k - 1 < k
    BY <2>1, <2>2
  <2>4. Sum(Part(s, k - 1)) >= 0
    BY <2>1, <2>3
  <2>5. s[k] \in Int /\ s[k] >= 0
    BY <2>3
  <2>6. Sum(Part(s, k)) = Sum(Part(s, k - 1)) + s[k] /\ Sum(Part(s, k - 1)) \in Int
    BY <1>1, <2>3
  <2>7. Sum(Part(s, k)) >= 0
    BY <2>4, <2>5, <2>6
  <2> QED
    BY <2>1, <2>7
<1>3. Len(s) \in 0..Len(s)
  BY <1>1
<1> QED
  BY <1>1, <1>2, <1>3

LEMMA Distributes ==
    ASSUME NEW a \in Int, NEW x \in Int, NEW y \in Int
    PROVE  a * (x + y) = a * x + a * y /\ a * x \in Int /\ a * y \in Int
  OBVIOUS

\* w is a x + b y + c z, element by element
Linear(w, a, x, b, y, c, z) ==
    /\ a \in Int /\ b \in Int /\ c \in Int
    /\ w \in Seq(Int) /\ x \in Seq(Int) /\ y \in Seq(Int) /\ z \in Seq(Int)
    /\ Len(x) = Len(w) /\ Len(y) = Len(w) /\ Len(z) = Len(w)
    /\ \A k \in 1..Len(w) : w[k] = a * x[k] + b * y[k] + c * z[k]

LEMMA SumLinear ==
    ASSUME NEW w, NEW a, NEW x, NEW b, NEW y, NEW c, NEW z, Linear(w, a, x, b, y, c, z)
    PROVE  Sum(w) = a * Sum(x) + b * Sum(y) + c * Sum(z)
<1> DEFINE n == Len(w)
           P(s, k) == Sum(Part(s, k))
           T == {k \in 0..n : P(w, k) # a * P(x, k) + b * P(y, k) + c * P(z, k)}
<1>0. /\ a \in Int /\ b \in Int /\ c \in Int /\ n \in Nat
      /\ w \in Seq(Int) /\ x \in Seq(Int) /\ y \in Seq(Int) /\ z \in Seq(Int)
      /\ Len(x) = n /\ Len(y) = n /\ Len(z) = n
      /\ \A k \in 1..n : w[k] = a * x[k] + b * y[k] + c * z[k]
  BY DEF Linear
<1>1. ASSUME NEW s \in {w, x, y, z}
      PROVE  /\ P(s, 0) = 0 /\ P(s, n) = Sum(s)
             /\ \A k \in 0..n : P(s, k) \in Int
             /\ \A k \in 1..n : P(s, k) = P(s, k - 1) + s[k] /\ s[k] \in Int
  <2>1. s \in Seq(Int) /\ Len(s) = n
    BY <1>0
  <2> HIDE DEF n
  <2>2. \A k \in 1..n : s[k] \in Int
    BY <2>1
  <2> QED
    BY <2>1, <2>2, SumPart
<1> HIDE DEF n, P
<1>2. T = {}
  <2> SUFFICES ASSUME T # {} PROVE FALSE
    OBVIOUS
  <2>1. PICK k \in T : \A m \in T : ~(m < k)
    <3>1. T \subseteq Nat
      BY <1>0
    <3> QED
      BY <3>1, LeastNumber
  <2>2. k # 0
    <3>1. P(w, 0) = 0 /\ P(x, 0) = 0 /\ P(y, 0) = 0 /\ P(z, 0) = 0
      BY <1>1
    <3>2. a * 0 + b * 0 + c * 0 = 0
      BY <1>0
    <3> QED
      BY <2>1, <3>1, <3>2
  <2>3. k \in 1..n /\ k - 1 \in 0..n /\ k - 1 < k
    BY <1>0, <2>1, <2>2
  <2>4. P(w, k - 1) = a * P(x, k - 1) + b * P(y, k - 1) + c * P(z, k - 1)
    BY <2>1, <2>3
  <2>5. /\ P(x, k - 1) \in Int /\ x[k] \in Int /\ P(x, k) = P(x, k - 1) + x[k]
        /\ P(y, k - 1) \in Int /\ y[k] \in Int /\ P(y, k) = P(y, k - 1) + y[k]
        /\ P(z, k - 1) \in Int /\ z[k] \in Int /\ P(z, k) = P(z, k - 1) + z[k]
        /\ P(w, k) = P(w, k - 1) + w[k]
    BY <1>1, <2>3
  <2>6. /\ a * P(x, k) = a * P(x, k - 1) + a * x[k] /\ a * P(x, k - 1) \in Int /\ a * x[k] \in Int
        /\ b * P(y, k) = b * P(y, k - 1) + b * y[k] /\ b * P(y, k - 1) \in Int /\ b * y[k] \in Int
        /\ c * P(z, k) = c * P(z, k - 1) + c * z[k] /\ c * P(z, k - 1) \in Int /\ c * z[k] \in Int
    <3>1. ASSUME NEW d \in Int, NEW s \in {x, y, z}
          PROVE  /\ d * P(s, k) = d * P(s, k - 1) + d * s[k]
                 /\ d * P(s, k - 1) \in Int /\ d * s[k] \in Int
      <4> DEFINE t == P(s, k)
                 u == P(s, k - 1)
                 v == s[k]
      <4>1. t = u + v /\ u \in Int /\ v \in Int
        BY <2>5
      <4> HIDE DEF t, u, v
      <4>2. d * t = d * u + d * v /\ d * u \in Int /\ d * v \in Int
        BY <4>1, Distributes
      <4> QED
        BY <4>2 DEF t, u, v
    <3> QED
      BY <1>0, <3>1
  <2>7. w[k] = a * x[k] + b * y[k] + c * z[k]
    BY <1>0, <2>3
  <2> DEFINE ax == a * P(x, k - 1)
             by == b * P(y, k - 1)
             cz == c * P(z, k - 1)
             ak == a * x[k]
             bk == b * y[k]
             ck == c * z[k]
  <2>8. /\ P(w, k) = (ax + by + cz) + (ak + bk + ck)
        /\ a * P(x, k) = ax + ak /\ b * P(y, k) = by + bk /\ c * P(z, k) = cz + ck
        /\ ax \in Int /\ by \in Int /\ cz \in Int /\ ak \in Int /\ bk \in Int /\ ck \in Int
    BY <2>4, <2>5, <2>6, <2>7
  <2> HIDE DEF ax, by, cz, ak, bk, ck
  <2>9. P(w, k) = a * P(x, k) + b * P(y, k) + c * P(z, k)
    BY <2>8
  <2> QED
    BY <2>1, <2>9
<1>3. P(w, n) = a * P(x, n) + b * P(y, n) + c * P(z, n)
  <2>1. \A k \in 0..n : P(w, k) = a * P(x, k) + b * P(y, k) + c * P(z, k)
    BY <1>2
  <2>2. n \in 0..n
    BY <1>0
  <2> QED
    BY <2>1, <2>2
<1> QED
  BY <1>1, <1>3

\* A sequence without its n-th element.
LEMMA RemoveAtIs ==
    ASSUME NEW E, NEW s \in Seq(E), NEW n \in 1..Len(s)
    PROVE  /\ RemoveAt(s, n) \in Seq(E) /\ Len(RemoveAt(s, n)) = Len(s) - 1
           /\ \A m \in 1..(Len(s) - 1) : RemoveAt(s, n)[m] = IF m < n THEN s[m] ELSE s[m + 1]
<1> DEFINE a == SubSeq(s, 1, n - 1)
           b == SubSeq(s, n + 1, Len(s))
<1>1. a \in Seq(E) /\ Len(a) = n - 1 /\ \A m \in 1..(n - 1) : a[m] = s[m]
  OBVIOUS
<1>2. /\ b \in Seq(E) /\ Len(b) = Len(s) - n
      /\ \A m \in 1..(Len(s) - n) : b[m] = s[n + m]
  OBVIOUS
<1>3. RemoveAt(s, n) = a \o b
  BY DEF RemoveAt
<1>4. Len(s) \in Nat /\ n \in Nat
  OBVIOUS
<1> HIDE DEF a, b
<1>5. a \o b \in Seq(E) /\ Len(a \o b) = Len(s) - 1
  <2>1. a \in Seq(E) /\ b \in Seq(E)
    BY <1>1, <1>2
  <2>2. a \o b \in Seq(E)
    BY <2>1
  <2>3. Len(a \o b) = Len(a) + Len(b)
    BY <2>1
  <2>4. Len(a \o b) = (n - 1) + (Len(s) - n)
    BY <1>1, <1>2, <2>3
  <2> QED
    BY <1>4, <2>2, <2>4
<1>6. ASSUME NEW m \in 1..(Len(s) - 1)
      PROVE  (a \o b)[m] = IF m < n THEN s[m] ELSE s[m + 1]
  <2>1. CASE m < n
    <3>1. m \in 1..(n - 1)
      BY <1>4, <2>1
    <3> QED
      BY <1>1, <1>2, <2>1, <3>1
  <2>2. CASE ~(m < n)
    <3>1. m - (n - 1) \in 1..(Len(s) - n) /\ n + (m - (n - 1)) = m + 1
      BY <1>4, <2>2
    <3>2. (a \o b)[m] = b[m - (n - 1)]
      BY <1>1, <1>2, <1>4, <2>2, <3>1
    <3> QED
      BY <1>2, <2>2, <3>1, <3>2
  <2> QED
    BY <2>1, <2>2
<1> QED
  BY <1>3, <1>5, <1>6

LEMMA SumRemove ==
    ASSUME NEW s \in Seq(Int), NEW n \in 1..Len(s), NEW t \in Seq(Int), Len(t) = Len(s) - 1,
           \A m \in 1..(Len(s) - 1) : t[m] = IF m < n THEN s[m] ELSE s[m + 1]
    PROVE  Sum(t) = Sum(s) - s[n]
<1> DEFINE l == Len(s) - 1
           P(k) == Sum(Part(s, k))
           Q(k) == Sum(Part(t, k))
           T == {k \in 0..l : Q(k) # IF k < n THEN P(k) ELSE P(k + 1) - s[n]}
<1>1. /\ P(0) = 0 /\ P(l + 1) = Sum(s) /\ l \in Nat /\ n \in 1..(l + 1) /\ s[n] \in Int
      /\ \A k \in 0..(l + 1) : P(k) \in Int
      /\ \A k \in 1..(l + 1) : P(k) = P(k - 1) + s[k] /\ s[k] \in Int
  <2>1. /\ P(0) = 0 /\ P(Len(s)) = Sum(s)
        /\ \A k \in 0..Len(s) : P(k) \in Int
        /\ \A k \in 1..Len(s) : P(k) = P(k - 1) + s[k]
    BY SumPart
  <2>2. l \in Nat /\ l + 1 = Len(s) /\ \A k \in 1..Len(s) : s[k] \in Int
    OBVIOUS
  <2> QED
    BY <2>1, <2>2
<1>2. /\ Q(0) = 0 /\ Q(l) = Sum(t)
      /\ \A k \in 0..l : Q(k) \in Int
      /\ \A k \in 1..l : Q(k) = Q(k - 1) + t[k] /\ t[k] = IF k < n THEN s[k] ELSE s[k + 1]
  BY SumPart
<1> HIDE DEF l, P, Q
<1>3. T = {}
  <2> SUFFICES ASSUME T # {} PROVE FALSE
    OBVIOUS
  <2>1. PICK k \in T : \A m \in T : ~(m < k)
    <3>1. T \subseteq Nat
      BY <1>1
    <3> QED
      BY <3>1, LeastNumber
  <2>2. k # 0
    BY <1>1, <1>2, <2>1
  <2>3. k \in 1..l /\ k - 1 \in 0..l /\ k - 1 < k
    BY <1>1, <2>1, <2>2
  <2>4. Q(k - 1) = IF k - 1 < n THEN P(k - 1) ELSE P(k) - s[n]
    <3>1. k - 1 \notin T /\ (k - 1) + 1 = k
      BY <2>1, <2>3
    <3> QED
      BY <2>3, <3>1
  <2>5. Q(k) = Q(k - 1) + IF k < n THEN s[k] ELSE s[k + 1]
    BY <1>2, <2>3
  <2>6. /\ k \in 1..(l + 1) /\ k + 1 \in 1..(l + 1) /\ (k + 1) - 1 = k
        /\ k - 1 \in 0..(l + 1) /\ k \in 0..(l + 1)
    BY <1>1, <2>3
  <2>7. /\ P(k) = P(k - 1) + s[k] /\ P(k + 1) = P(k) + s[k + 1]
        /\ s[k] \in Int /\ s[k + 1] \in Int /\ P(k - 1) \in Int /\ P(k) \in Int
    BY <1>1, <2>6
  <2>8. CASE k < n
    BY <1>1, <2>1, <2>3, <2>4, <2>5, <2>7, <2>8
  <2>9. CASE k = n
    <3>1. Q(k - 1) = P(k - 1) /\ Q(k) = Q(k - 1) + s[k + 1] /\ s[n] = s[k]
      BY <1>1, <2>3, <2>4, <2>5, <2>9
    <3>2. Q(k) = P(k + 1) - s[n]
      <4> DEFINE u == P(k - 1)
                 v == s[k]
                 x == s[k + 1]
      <4>1. /\ u \in Int /\ v \in Int /\ x \in Int
            /\ P(k + 1) = (u + v) + x /\ Q(k) = u + x /\ s[n] = v
        BY <2>7, <3>1
      <4> HIDE DEF u, v, x
      <4> QED
        BY <4>1
    <3>3. ~(k < n)
      BY <1>1, <2>9
    <3> QED
      BY <2>1, <3>2, <3>3
  <2>10. CASE k > n
    <3>1. ~(k - 1 < n) /\ ~(k < n)
      BY <1>1, <2>3, <2>10
    <3>2. Q(k - 1) = P(k) - s[n] /\ Q(k) = Q(k - 1) + s[k + 1]
      BY <2>4, <2>5, <3>1
    <3>3. s[n] \in Int
      BY <1>1
    <3>4. Q(k) = P(k + 1) - s[n]
      BY SMTT(30), <2>7, <3>2, <3>3
    <3> QED
      BY <2>1, <3>1, <3>4
  <2> QED
    BY <1>1, <2>3, <2>8, <2>9, <2>10
<1>4. Q(l) = IF l < n THEN P(l) ELSE P(l + 1) - s[n]
  <2>1. l \in 0..l
    BY <1>1
  <2> QED
    BY <1>3, <2>1
<1>5. /\ l < n => n = l + 1 /\ P(l + 1) = P(l) + s[n] /\ P(l) \in Int
      /\ s[n] \in Int
  <2>1. l < n => n = l + 1
    BY <1>1
  <2>2. l + 1 \in 1..(l + 1) /\ (l + 1) - 1 = l /\ l \in 0..(l + 1)
    BY <1>1
  <2> QED
    BY <1>1, <2>1, <2>2
<1>6. CASE l < n
  <2>1. Sum(t) = P(l) /\ Sum(s) = P(l) + s[n] /\ P(l) \in Int /\ s[n] \in Int
    BY <1>1, <1>2, <1>4, <1>5, <1>6
  <2> QED
    BY <2>1
<1>7. CASE ~(l < n)
  BY <1>1, <1>2, <1>4, <1>7
<1> QED
  BY <1>6, <1>7

\* Ones at the places in P, and zeros elsewhere, add up to how many those are.
LEMMA SumOnes ==
    ASSUME NEW s \in Seq(Int), NEW P,
           \A k \in 1..Len(s) : s[k] = IF k \in P THEN 1 ELSE 0
    PROVE  Sum(s) = Cardinality(P \cap 1..Len(s))
<1> DEFINE C(k) == Cardinality(P \cap 1..k)
           S(k) == Sum(Part(s, k))
           T == {k \in 0..Len(s) : S(k) # C(k)}
<1>1. /\ S(0) = 0 /\ S(Len(s)) = Sum(s) /\ Len(s) \in Nat
      /\ \A k \in 1..Len(s) : S(k) = S(k - 1) + s[k]
  BY SumPart
<1>2. C(0) = 0
  <2>1. P \cap 1..0 = {}
    OBVIOUS
  <2> QED
    BY <2>1, FS_EmptySet
<1>3. ASSUME NEW k \in 1..Len(s)
      PROVE  C(k - 1) \in Nat /\ C(k) = C(k - 1) + s[k]
  <2> DEFINE A == P \cap 1..(k - 1)
  <2>1. IsFiniteSet(1..(k - 1)) /\ A \in SUBSET (1..(k - 1))
    BY FS_Interval
  <2>2. IsFiniteSet(A)
    BY <2>1, FS_Subset
  <2>3. Cardinality(A) \in Nat
    BY <2>2, FS_CardinalityType
  <2>4. k \notin A
    OBVIOUS
  <2>5. P \cap 1..k = IF k \in P THEN A \cup {k} ELSE A
    OBVIOUS
  <2> HIDE DEF A
  <2>6. Cardinality(A \cup {k}) = Cardinality(A) + 1
    BY <2>2, <2>4, FS_AddElement
  <2>7. C(k - 1) = Cardinality(A)
    BY DEF A
  <2>8. CASE k \in P
    <3>1. C(k) = Cardinality(A \cup {k}) /\ s[k] = 1
      BY <2>5, <2>8
    <3> QED
      BY <2>3, <2>6, <2>7, <3>1
  <2>9. CASE k \notin P
    <3>1. C(k) = Cardinality(A) /\ s[k] = 0
      BY <2>5, <2>9
    <3> QED
      BY <2>3, <2>7, <3>1
  <2> QED
    BY <2>8, <2>9
<1> HIDE DEF C, S
<1>4. T = {}
  <2> SUFFICES ASSUME T # {} PROVE FALSE
    OBVIOUS
  <2>1. PICK k \in T : \A m \in T : ~(m < k)
    <3>1. T \subseteq Nat
      OBVIOUS
    <3> QED
      BY <3>1, LeastNumber
  <2>2. k # 0
    BY <1>1, <1>2, <2>1
  <2>3. k \in 1..Len(s) /\ k - 1 \in 0..Len(s) /\ k - 1 < k
    BY <2>1, <2>2
  <2>4. S(k - 1) = C(k - 1)
    BY <2>1, <2>3
  <2> QED
    BY <1>1, <1>3, <2>1, <2>3, <2>4
<1>5. Len(s) \in 0..Len(s)
  BY <1>1
<1>6. S(Len(s)) = C(Len(s))
  BY <1>4, <1>5
<1> QED
  BY <1>1, <1>6 DEF C

-----------------------------------------------------------------------------
(***************************************************************************)
(* What the lines printed by a mapper add to what its reducer computes.    *)
(***************************************************************************)
Line == [key : Keys \cup {"price"}, value : Int]
Weight == [Line -> Int]
Weighed(w, s) == [m \in 1..Len(s) |-> w[s[m]]]

LEMMA WeighedIs ==
    ASSUME NEW w \in Weight, NEW s \in Seq(Line)
    PROVE  /\ Weighed(w, s) \in Seq(Int) /\ Len(Weighed(w, s)) = Len(s)
           /\ \A m \in 1..Len(s) : Weighed(w, s)[m] = w[s[m]]
           /\ Sum(Weighed(w, s)) \in Int
<1>1. \A m \in 1..Len(s) : w[s[m]] \in Int
  <2>1. \A m \in 1..Len(s) : s[m] \in Line
    OBVIOUS
  <2> QED
    BY <2>1 DEF Weight
<1>2. /\ Weighed(w, s) \in Seq(Int) /\ Len(Weighed(w, s)) = Len(s)
      /\ \A m \in 1..Len(s) : Weighed(w, s)[m] = w[s[m]]
  BY <1>1 DEF Weighed
<1> QED
  BY <1>2, SumTyped

LEMMA WeighedNone ==
    ASSUME NEW w \in Weight
    PROVE  Sum(Weighed(w, <<>>)) = 0
<1>1. Weighed(w, <<>>) = <<>>
  BY DEF Weighed
<1> QED
  BY <1>1, SumNone

LEMMA WeighedAppend ==
    ASSUME NEW w \in Weight, NEW s \in Seq(Line), NEW a \in Line
    PROVE  /\ s \o <<a>> \in Seq(Line)
           /\ Sum(Weighed(w, s \o <<a>>)) = Sum(Weighed(w, s)) + w[a]
<1> DEFINE t == s \o <<a>>
           u == Weighed(w, s)
           v == Weighed(w, t)
<1>1. t \in Seq(Line) /\ Len(t) = Len(s) + 1 /\ t[Len(s) + 1] = a
  OBVIOUS
<1>2. \A m \in 1..Len(s) : t[m] = s[m]
  OBVIOUS
<1> HIDE DEF t
<1>3. Len(s) \in Nat
  OBVIOUS
<1>4. u \in Seq(Int) /\ Len(u) = Len(s) /\ \A m \in 1..Len(s) : u[m] = w[s[m]]
  BY WeighedIs
<1>5. v \in Seq(Int) /\ Len(v) = Len(t) /\ \A m \in 1..Len(t) : v[m] = w[t[m]]
  BY <1>1, WeighedIs
<1> HIDE DEF u, v
<1>6. Len(v) = Len(u) + 1 /\ v[Len(v)] = w[a]
  BY <1>1, <1>3, <1>4, <1>5
<1>7. \A m \in 1..Len(u) : v[m] = u[m]
  <2> TAKE m \in 1..Len(u)
  <2>1. m \in 1..Len(s) /\ m \in 1..Len(t)
    BY <1>1, <1>3, <1>4
  <2>2. v[m] = w[t[m]] /\ u[m] = w[s[m]] /\ t[m] = s[m]
    BY <1>2, <1>4, <1>5, <2>1
  <2> QED
    BY <2>2
<1>8. Sum(v) = Sum(u) + v[Len(v)]
  BY <1>4, <1>5, <1>6, <1>7, SumMore
<1> QED
  BY <1>1, <1>6, <1>8 DEF t, u, v

LEMMA WeighedRemove ==
    ASSUME NEW w \in Weight, NEW s \in Seq(Line), NEW n \in 1..Len(s)
    PROVE  Sum(Weighed(w, RemoveAt(s, n))) = Sum(Weighed(w, s)) - w[s[n]]
<1> DEFINE t == RemoveAt(s, n)
           u == Weighed(w, s)
           v == Weighed(w, t)
<1>1. /\ t \in Seq(Line) /\ Len(t) = Len(s) - 1
      /\ \A m \in 1..(Len(s) - 1) : t[m] = IF m < n THEN s[m] ELSE s[m + 1]
  BY RemoveAtIs
<1> HIDE DEF t
<1>3. Len(s) \in Nat /\ n \in Nat
  OBVIOUS
<1>4. u \in Seq(Int) /\ Len(u) = Len(s) /\ \A m \in 1..Len(s) : u[m] = w[s[m]]
  BY WeighedIs
<1>5. v \in Seq(Int) /\ Len(v) = Len(t) /\ \A m \in 1..Len(t) : v[m] = w[t[m]]
  BY <1>1, WeighedIs
<1> HIDE DEF u, v
<1>6. n \in 1..Len(u) /\ Len(v) = Len(u) - 1 /\ u[n] = w[s[n]]
  <2>1. n \in 1..Len(u) /\ u[n] = w[s[n]]
    BY <1>4
  <2>2. Len(v) = Len(s) - 1
    <3>1. Len(v) = Len(t) /\ Len(t) = Len(s) - 1
      BY <1>1, <1>5
    <3> QED
      BY <3>1
  <2>3. Len(v) = Len(u) - 1
    BY <1>4, <2>2
  <2> QED
    BY <2>1, <2>3
<1>7. \A m \in 1..(Len(u) - 1) : v[m] = IF m < n THEN u[m] ELSE u[m + 1]
  <2> TAKE m \in 1..(Len(u) - 1)
  <2>1. m \in 1..Len(s) /\ m + 1 \in 1..Len(s) /\ m \in 1..Len(t)
    BY <1>1, <1>3, <1>4
  <2>2. v[m] = w[t[m]] /\ u[m] = w[s[m]] /\ u[m + 1] = w[s[m + 1]]
    BY <1>4, <1>5, <2>1
  <2>3. t[m] = IF m < n THEN s[m] ELSE s[m + 1]
    BY <1>1, <1>4
  <2> QED
    BY <2>2, <2>3
<1>8. Sum(v) = Sum(u) - u[n]
  BY <1>4, <1>5, <1>6, <1>7, SumRemove
<1> QED
  BY <1>6, <1>8 DEF t, u, v

\* What was computed, acc, and what waits in s make up the first k of g.
Tallied(acc, w, s, g, k) ==
    acc \in Int /\ acc + Sum(Weighed(w, s)) = Sum(Part(g, k))

LEMMA TalliedAtFirst ==
    ASSUME NEW w \in Weight, NEW g \in Seq(Int)
    PROVE  Tallied(0, w, <<>>, g, 0)
<1>1. Sum(Weighed(w, <<>>)) = 0 /\ Sum(Part(g, 0)) = 0
  BY WeighedNone, SumPart
<1> QED
  BY <1>1 DEF Tallied

LEMMA TalliedAtLast ==
    ASSUME NEW w \in Weight, NEW g \in Seq(Int), NEW acc, Tallied(acc, w, <<>>, g, Len(g))
    PROVE  acc = Sum(g)
<1>1. Sum(Weighed(w, <<>>)) = 0 /\ Sum(Part(g, Len(g))) = Sum(g)
  BY WeighedNone, SumPart
<1> QED
  BY <1>1 DEF Tallied

LEMMA TalliedMore ==
    ASSUME NEW w \in Weight, NEW s \in Seq(Line), NEW t, NEW g \in Seq(Int), NEW acc,
           NEW n \in 1..Len(g), Tallied(acc, w, s, g, n - 1),
           Sum(Weighed(w, t)) = Sum(Weighed(w, s)) + g[n]
    PROVE  Tallied(acc, w, t, g, n)
<1>1. Sum(Part(g, n)) = Sum(Part(g, n - 1)) + g[n]
  BY SumPart
<1>2. Sum(Weighed(w, s)) \in Int
  BY WeighedIs
<1>3. g[n] \in Int
  OBVIOUS
<1> QED
  BY <1>1, <1>2, <1>3 DEF Tallied

LEMMA TalliedLess ==
    ASSUME NEW w \in Weight, NEW s \in Seq(Line), NEW g, NEW k, NEW acc, NEW new,
           NEW n \in 1..Len(s), Tallied(acc, w, s, g, k), new = acc + w[s[n]]
    PROVE  Tallied(new, w, RemoveAt(s, n), g, k)
<1>1. Sum(Weighed(w, RemoveAt(s, n))) = Sum(Weighed(w, s)) - w[s[n]]
  BY WeighedRemove
<1>2. Sum(Weighed(w, s)) \in Int
  BY WeighedIs
<1>3. w[s[n]] \in Int
  <2>1. s[n] \in Line
    OBVIOUS
  <2> QED
    BY <2>1 DEF Weight
<1> QED
  BY <1>1, <1>2, <1>3 DEF Tallied

-----------------------------------------------------------------------------
(***************************************************************************)
(* Printing a price: at most half a unit of the last digit is lost.        *)
(***************************************************************************)
LEMMA Powers ==
    /\ \A d \in Shifts : 10^d \in Nat /\ 10^d > 0
    /\ 10^Digits \in Nat
    /\ 10^(Digits - 1) \in Nat /\ 10^(Digits - 1) > 0
    /\ 10^Digits = 10 * 10^(Digits - 1) /\ 10^(Digits - 1) <= 10^8
<1>1. /\ 10^0 = 1 /\ 10^1 = 10 /\ 10^2 = 100 /\ 10^3 = 1000 /\ 10^4 = 10000
      /\ 10^5 = 100000 /\ 10^6 = 1000000 /\ 10^7 = 10000000
      /\ 10^8 = 100000000 /\ 10^9 = 1000000000 /\ 10^10 = 10000000000
  BY SMT
<1>2. ASSUME NEW d \in 0..10 PROVE 10^d \in Nat /\ 10^d > 0
  <2>0. CASE d = 0
    BY SMT, <1>1, <2>0
  <2>1. CASE d = 1
    BY SMT, <1>1, <2>1
  <2>2. CASE d = 2
    BY SMT, <1>1, <2>2
  <2>3. CASE d = 3
    BY SMT, <1>1, <2>3
  <2>4. CASE d = 4
    BY SMT, <1>1, <2>4
  <2>5. CASE d = 5
    BY SMT, <1>1, <2>5
  <2>6. CASE d = 6
    BY SMT, <1>1, <2>6
  <2>7. CASE d = 7
    BY SMT, <1>1, <2>7
  <2>8. CASE d = 8
    BY SMT, <1>1, <2>8
  <2>9. CASE d = 9
    BY SMT, <1>1, <2>9
  <2>10. CASE d = 10
    BY SMT, <1>1, <2>10
  <2> QED
    BY <2>0, <2>1, <2>2, <2>3, <2>4, <2>5, <2>6, <2>7, <2>8, <2>9, <2>10
<1>3. Digits \in 1..9 /\ Digits \in 0..10 /\ Digits - 1 \in 0..10
  BY MapReduceAssumption
<1>4. 10^Digits = 10 * 10^(Digits - 1) /\ 10^(Digits - 1) <= 10^8
  <2> DEFINE k == Digits - 1
  <2>0. k \in 0..8 /\ Digits = k + 1
    BY <1>3
  <2> HIDE DEF k
  <2>1. CASE k = 0
    BY SMT, <1>1, <2>0, <2>1 DEF k
  <2>2. CASE k = 1
    BY SMT, <1>1, <2>0, <2>2 DEF k
  <2>3. CASE k = 2
    BY SMT, <1>1, <2>0, <2>3 DEF k
  <2>4. CASE k = 3
    BY SMT, <1>1, <2>0, <2>4 DEF k
  <2>5. CASE k = 4
    BY SMT, <1>1, <2>0, <2>5 DEF k
  <2>6. CASE k = 5
    BY SMT, <1>1, <2>0, <2>6 DEF k
  <2>7. CASE k = 6
    BY SMT, <1>1, <2>0, <2>7 DEF k
  <2>8. CASE k = 7
    BY SMT, <1>1, <2>0, <2>8 DEF k
  <2>9. CASE k = 8
    BY SMT, <1>1, <2>0, <2>9 DEF k
  <2> QED
    BY <2>0, <2>1, <2>2, <2>3, <2>4, <2>5, <2>6, <2>7, <2>8, <2>9
<1>5. /\ 10^Digits \in Nat
      /\ 10^(Digits - 1) \in Nat /\ 10^(Digits - 1) > 0
  BY <1>2, <1>3
<1> QED
  BY <1>2, <1>4, <1>5 DEF Shifts

LEMMA Monotone ==
    ASSUME NEW x \in Int, NEW y \in Int, NEW k \in Nat, x <= y
    PROVE  x * k <= y * k /\ x * k \in Int /\ y * k \in Int
  OBVIOUS

LEMMA QuotientBetween ==
    ASSUME NEW n \in Nat, NEW d \in Nat, d > 0, NEW a \in Nat, NEW b \in Nat,
           a * d <= n, n < b * d
    PROVE  n \div d \in a..(b - 1)
<1> DEFINE q == n \div d
           m == n % d
<1>1. q \in Nat /\ m \in 0..(d - 1) /\ n = d * q + m
  OBVIOUS
<1> HIDE DEF q, m
<1>2. d * q = q * d /\ q * d \in Nat
  BY <1>1
<1>3. a <= q
  <2> SUFFICES ASSUME q + 1 <= a PROVE FALSE
    BY <1>1
  <2>1. (q + 1) * d <= a * d
    BY <1>1, Multiples
  <2>2. (q + 1) * d = q * d + d /\ a * d \in Nat
    BY <1>1
  <2> QED
    BY <1>1, <1>2, <2>1, <2>2
<1>4. q < b
  <2> SUFFICES ASSUME b <= q PROVE FALSE
    BY <1>1
  <2>1. b * d <= q * d /\ b * d \in Nat
    BY <1>1, Multiples
  <2> QED
    BY <1>1, <1>2, <2>1
<1> QED
  BY <1>1, <1>3, <1>4 DEF q

\* Nearest is off by half a d, of which n holds K.
LEMMA NearestNear ==
    ASSUME NEW n \in Nat, NEW d \in Nat, d > 0, NEW K \in Nat, K * d <= n
    PROVE  /\ Nearest(n, d) \in Nat
           /\ 2 * (Nearest(n, d) * d - n) * K <= n
           /\ 2 * (n - Nearest(n, d) * d) * K <= n
<1> DEFINE q == n \div d
           m == n % d
           r == 2 * m
           up == r > d \/ (r = d /\ q % 2 = 1)
           z == Nearest(n, d)
           zd == z * d
           qd == q * d
<1>1. q \in Nat /\ m \in 0..(d - 1) /\ n = d * q + m
  OBVIOUS
<1>2. z = IF up THEN q + 1 ELSE q
  BY DEF Nearest
<1>3. (up => 2 * m >= d) /\ (~up => 2 * m <= d)
  BY <1>1
<1> HIDE DEF q, m, up, z
<1>4. z \in Nat /\ d * q = qd /\ qd \in Nat /\ zd \in Nat
  BY <1>1, <1>2
<1>5. zd = IF up THEN qd + d ELSE qd
  <2>1. (q + 1) * d = q * d + d
    BY <1>1
  <2> QED
    BY <1>2, <2>1
<1> HIDE DEF zd, qd
<1> DEFINE e == 2 * (zd - n)
           f == 2 * (n - zd)
<1>6. e \in Int /\ f \in Int /\ e <= d /\ f <= d
  BY <1>1, <1>3, <1>4, <1>5
<1> HIDE DEF e, f
<1>7. e * K <= d * K /\ f * K <= d * K /\ e * K \in Int /\ f * K \in Int /\ d * K \in Int
  BY <1>6, Monotone
<1>8. d * K = K * d
  OBVIOUS
<1> DEFINE ek == e * K
           fk == f * K
           dk == d * K
<1>9. ek \in Int /\ fk \in Int /\ dk \in Int /\ ek <= dk /\ fk <= dk /\ dk <= n
  BY <1>7, <1>8
<1> HIDE DEF ek, fk, dk
<1>10. ek <= n /\ fk <= n
  BY <1>9
<1> QED
  BY <1>4, <1>10 DEF ek, fk, e, f, zd, z

\* Where d fits into 10^e * n, or n over 10^e * d, Digits digits before the point.
LEMMA ShiftUp ==
    ASSUME NEW n \in Nat, NEW d \in Nat, d > 0,
           10^(Digits - 1) * d <= n, n < 10^(Digits - 1) * d * 10^11
    PROVE  \E e \in Shifts : n \div (d * 10^e) \in Mantissas
<1> DEFINE P == 10^(Digits - 1)
           C == P * d
<1>1. P \in Nat /\ 10^Digits = 10 * P /\ C \in Nat
  BY Powers
<1>2. C <= n /\ n < C * 100000000000
  <2>1. 10^11 = 100000000000
    BY SMT
  <2>2. C <= n /\ n < C * 10^11
    OBVIOUS
  <2> QED
    BY SMT, <2>1, <2>2
<1>3. /\ 10^0 = 1 /\ 10^1 = 10 /\ 10^2 = 100 /\ 10^3 = 1000 /\ 10^4 = 10000
      /\ 10^5 = 100000 /\ 10^6 = 1000000 /\ 10^7 = 10000000
      /\ 10^8 = 100000000 /\ 10^9 = 1000000000 /\ 10^10 = 10000000000
  BY SMT
<1> HIDE DEF C
<1>4. \E e \in 0..10 : C * 10^e <= n /\ n < 10 * (C * 10^e)
  <2>0. CASE n < C * 10
    BY SMT, <1>1, <1>2, <1>3, <2>0
  <2>1. CASE C * 10 <= n /\ n < C * 100
    BY SMT, <1>1, <1>2, <1>3, <2>1
  <2>2. CASE C * 100 <= n /\ n < C * 1000
    BY SMT, <1>1, <1>2, <1>3, <2>2
  <2>3. CASE C * 1000 <= n /\ n < C * 10000
    BY SMT, <1>1, <1>2, <1>3, <2>3
  <2>4. CASE C * 10000 <= n /\ n < C * 100000
    BY SMT, <1>1, <1>2, <1>3, <2>4
  <2>5. CASE C * 100000 <= n /\ n < C * 1000000
    BY SMT, <1>1, <1>2, <1>3, <2>5
  <2>6. CASE C * 1000000 <= n /\ n < C * 10000000
    BY SMT, <1>1, <1>2, <1>3, <2>6
  <2>7. CASE C * 10000000 <= n /\ n < C * 100000000
    BY SMT, <1>1, <1>2, <1>3, <2>7
  <2>8. CASE C * 100000000 <= n /\ n < C * 1000000000
    BY SMT, <1>1, <1>2, <1>3, <2>8
  <2>9. CASE C * 1000000000 <= n /\ n < C * 10000000000
    BY SMT, <1>1, <1>2, <1>3, <2>9
  <2>10. CASE C * 10000000000 <= n
    BY SMT, <1>1, <1>2, <1>3, <2>10
  <2> QED
    BY SMT, <1>1, <2>0, <2>1, <2>2, <2>3, <2>4, <2>5, <2>6, <2>7, <2>8, <2>9, <2>10
<1>5. PICK e \in 0..10 : C * 10^e <= n /\ n < 10 * (C * 10^e)
  BY <1>4
<1> DEFINE t == 10^e
           D == d * t
<1>6. t \in Nat /\ t > 0
  BY <1>5, Powers DEF Shifts
<1> HIDE DEF t, P
<1>7. D \in Nat /\ D > 0 /\ C * t = P * D /\ 10 * (C * t) = (10 * P) * D
  BY <1>1, <1>6 DEF C
<1>8. C * t <= n /\ n < 10 * (C * t)
  BY <1>5 DEF t
<1> HIDE DEF D
<1>9. n \div D \in P..(10 * P - 1)
  <2>1. P * D <= n /\ n < (10 * P) * D /\ 10 * P \in Nat
    BY <1>1, <1>7, <1>8
  <2> QED
    BY <1>1, <1>7, <2>1, QuotientBetween
<1> QED
  BY <1>1, <1>5, <1>9 DEF D, t, P, Mantissas, Shifts

LEMMA ShiftDown ==
    ASSUME NEW n \in Nat, NEW d \in Nat, d > 0, d <= 2 * n, n < 10^(Digits - 1) * d
    PROVE  \E e \in Shifts : (n * 10^e) \div d \in Mantissas
<1> DEFINE P == 10^(Digits - 1)
           C == P * d
<1>1. P \in Nat /\ 10^Digits = 10 * P /\ C \in Nat /\ P <= 10^8
  BY Powers
<1> HIDE DEF P
<1>2. n < C /\ C <= n * 200000000
  <2>1. n < C
    BY DEF P
  <2>2. d * P <= (2 * n) * P
    BY <1>1, Multiples
  <2> DEFINE big == 10^8
  <2>0. big \in Nat /\ big = 100000000
    BY SMT
  <2>3. P * (2 * n) <= big * (2 * n)
    <3>1. P <= big
      BY <1>1
    <3> HIDE DEF big
    <3> QED
      BY <1>1, <2>0, <3>1, Multiples
  <2> HIDE DEF big
  <2>4. d * P = C /\ (2 * n) * P = P * (2 * n) /\ big * (2 * n) = n * 200000000
    BY SMT, <1>1, <2>0
  <2> DEFINE x == d * P
             y == (2 * n) * P
             w == P * (2 * n)
  <2>5. x \in Nat /\ y \in Nat /\ w \in Nat /\ x <= y /\ y = w /\ w <= n * 200000000 /\ x = C
    BY SMT, <1>1, <2>2, <2>3, <2>4
  <2> HIDE DEF x, y, w, C
  <2>6. C <= n * 200000000
    BY SMT, <2>5
  <2> QED
    BY <2>1, <2>6
<1>3. /\ 10^1 = 10 /\ 10^2 = 100 /\ 10^3 = 1000 /\ 10^4 = 10000
      /\ 10^5 = 100000 /\ 10^6 = 1000000 /\ 10^7 = 10000000
      /\ 10^8 = 100000000 /\ 10^9 = 1000000000
  BY SMT
<1> HIDE DEF C
<1>4. \E e \in 0..10 : C <= n * 10^e /\ n * 10^e < 10 * C
  <2>1. CASE C <= n * 10
    BY SMT, <1>1, <1>2, <1>3, <2>1
  <2>2. CASE n * 10 < C /\ C <= n * 100
    BY SMT, <1>1, <1>2, <1>3, <2>2
  <2>3. CASE n * 100 < C /\ C <= n * 1000
    BY SMT, <1>1, <1>2, <1>3, <2>3
  <2>4. CASE n * 1000 < C /\ C <= n * 10000
    BY SMT, <1>1, <1>2, <1>3, <2>4
  <2>5. CASE n * 10000 < C /\ C <= n * 100000
    BY SMT, <1>1, <1>2, <1>3, <2>5
  <2>6. CASE n * 100000 < C /\ C <= n * 1000000
    BY SMT, <1>1, <1>2, <1>3, <2>6
  <2>7. CASE n * 1000000 < C /\ C <= n * 10000000
    BY SMT, <1>1, <1>2, <1>3, <2>7
  <2>8. CASE n * 10000000 < C /\ C <= n * 100000000
    BY SMT, <1>1, <1>2, <1>3, <2>8
  <2>9. CASE n * 100000000 < C
    BY SMT, <1>1, <1>2, <1>3, <2>9
  <2> QED
    BY SMT, <1>1, <2>1, <2>2, <2>3, <2>4, <2>5, <2>6, <2>7, <2>8, <2>9
<1>5. PICK e \in 0..10 : C <= n * 10^e /\ n * 10^e < 10 * C
  BY <1>4
<1> DEFINE t == 10^e
           M == n * t
<1>6. t \in Nat
  BY <1>5, Powers DEF Shifts
<1> HIDE DEF t
<1>7. M \in Nat /\ P * d = C /\ (10 * P) * d = 10 * C /\ 10 * P \in Nat
  BY <1>1, <1>6 DEF C
<1>8. C <= M /\ M < 10 * C
  BY <1>5 DEF t
<1> HIDE DEF M
<1>9. P * d <= M /\ M < (10 * P) * d
  BY <1>7, <1>8
<1>10. M \div d \in P..(10 * P - 1)
  BY <1>1, <1>7, <1>9, QuotientBetween
<1> QED
  BY <1>1, <1>5, <1>10 DEF M, t, P, Mantissas, Shifts

\* What is printed of n / d.
Near(x, n, d) ==
    /\ x.num \in Nat /\ x.den \in Nat /\ x.den > 0
    /\ 2 * (x.num * d - n * x.den) * 10^(Digits - 1) <= n * x.den
    /\ 2 * (n * x.den - x.num * d) * 10^(Digits - 1) <= n * x.den

LEMMA PrintedNear ==
    ASSUME NEW n \in Nat, NEW d \in Nat, d > 0, n > 0, d <= 2 * n,
           n < 10^(Digits - 1) * d * 10^11
    PROVE  Near(Streamed(n, d), n, d)
<1> DEFINE P == 10^(Digits - 1)
<1>1. P \in Nat /\ P > 0 /\ P * d \in Nat /\ 10^Digits \in Nat
  BY Powers
<1>2. CASE n >= P * d
  <2> DEFINE e == CHOOSE e \in Shifts : n \div (d * 10^e) \in Mantissas
             t == 10^e
             D == d * t
             z == Nearest(n, D)
  <2>1. Streamed(n, d) = [num |-> z * t, den |-> 1]
    BY <1>2 DEF Streamed
  <2>2. \E k \in Shifts : n \div (d * 10^k) \in Mantissas
    BY <1>2, ShiftUp
  <2>3. e \in Shifts /\ n \div (d * 10^e) \in Mantissas
    BY <2>2
  <2> HIDE DEF e
  <2>4. t \in Nat /\ t > 0
    BY <2>3, Powers
  <2>5. n \div D >= P /\ n \div D \in Nat
    BY <1>1, <2>3 DEF Mantissas
  <2> HIDE DEF t
  <2>6. D \in Nat /\ D > 0
    BY <2>4
  <2> HIDE DEF D
  <2>7. P * D <= n
    <3> DEFINE q == n \div D
    <3>1. q \in Nat /\ D * q <= n /\ P <= q
      BY <2>5, <2>6
    <3> HIDE DEF q, P
    <3>2. P * D <= q * D /\ q * D = D * q /\ P * D \in Nat /\ q * D \in Nat
      BY <1>1, <2>6, <3>1, Multiples
    <3> QED
      BY <3>1, <3>2
  <2> HIDE DEF P
  <2>8. z \in Nat /\ 2 * (z * D - n) * P <= n /\ 2 * (n - z * D) * P <= n
    BY <1>1, <2>6, <2>7, NearestNear
  <2> HIDE DEF z
  <2>9. (z * t) * d = z * D /\ z * t \in Nat /\ n * 1 = n
    BY <2>4, <2>8 DEF D
  <2>10. 2 * ((z * t) * d - n * 1) * P <= n * 1 /\ 2 * (n * 1 - (z * t) * d) * P <= n * 1
    BY <2>8, <2>9
  <2> QED
    BY <2>1, <2>9, <2>10 DEF Near, P
<1>3. CASE ~(n >= P * d)
  <2> DEFINE e == CHOOSE e \in Shifts : (n * 10^e) \div d \in Mantissas
             t == 10^e
             M == n * t
             z == Nearest(M, d)
  <2>1. Streamed(n, d) = [num |-> z, den |-> t]
    BY <1>3 DEF Streamed
  <2>2. \E k \in Shifts : (n * 10^k) \div d \in Mantissas
    BY <1>1, <1>3, ShiftDown
  <2>3. e \in Shifts /\ (n * 10^e) \div d \in Mantissas
    BY <2>2
  <2> HIDE DEF e
  <2>4. t \in Nat /\ t > 0
    BY <2>3, Powers
  <2>5. M \div d >= P /\ M \div d \in Nat
    BY <1>1, <2>3 DEF Mantissas
  <2> HIDE DEF t
  <2>6. M \in Nat
    BY <2>4
  <2> HIDE DEF M
  <2>7. P * d <= M
    <3> DEFINE q == M \div d
    <3>1. q \in Nat /\ d * q <= M /\ P <= q
      BY <2>5, <2>6
    <3> HIDE DEF q, P
    <3>2. P * d <= q * d /\ q * d = d * q /\ P * d \in Nat /\ q * d \in Nat
      BY <1>1, <3>1, Multiples
    <3> QED
      BY <2>6, <3>1, <3>2
  <2> HIDE DEF P
  <2>8. z \in Nat /\ 2 * (z * d - M) * P <= M /\ 2 * (M - z * d) * P <= M
    BY <1>1, <2>6, <2>7, NearestNear
  <2> QED
    BY <2>1, <2>4, <2>8 DEF Near, P, M
<1> QED
  BY <1>2, <1>3

\* The price of a row that is not NoPrice.
IsPrice(p) == p \in Int /\ \E row \in Rows : row.price = p /\ p # NoPrice

LEMMA PriceBelow ==
    ASSUME NEW p, IsPrice(p), p > 0
    PROVE  p < 10^(Digits - 1) * 10^10
<1> DEFINE P == 10^(Digits - 1)
<1>1. p \in Nat /\ P \in Nat /\ P > 0 /\ 10^Digits = 10 * P
  BY Powers DEF IsPrice
<1> DEFINE big == 10^10
<1>0. big \in Nat /\ big = 10000000000
  BY SMT
<1> HIDE DEF big
<1>2. CASE p < 10^Digits
  <2>1. p < 10 * P
    BY <1>1, <1>2
  <2> HIDE DEF P
  <2>2. p < P * big
    BY SMT, <1>0, <1>1, <2>1
  <2> QED
    BY <2>2 DEF P, big
<1>3. CASE p >= 10^Digits
  <2>1. PICK d \in 1..9 : p \div 10^d \in Mantissas
    BY <1>3, MapReduceAssumption DEF IsPrice
  <2> DEFINE t == 10^d
             q == p \div t
  <2>2. t \in Nat /\ t > 0 /\ t <= 1000000000
    <3>1. /\ 10^1 = 10 /\ 10^2 = 100 /\ 10^3 = 1000 /\ 10^4 = 10000
          /\ 10^5 = 100000 /\ 10^6 = 1000000 /\ 10^7 = 10000000
          /\ 10^8 = 100000000 /\ 10^9 = 1000000000
      BY SMT
    <3>2. d = 1 \/ d = 2 \/ d = 3 \/ d = 4 \/ d = 5 \/ d = 6 \/ d = 7 \/ d = 8 \/ d = 9
      BY <2>1
    <3>3. t = 10^1 \/ t = 10^2 \/ t = 10^3 \/ t = 10^4 \/ t = 10^5 \/ t = 10^6
          \/ t = 10^7 \/ t = 10^8 \/ t = 10^9
      BY <3>2
    <3> HIDE DEF t
    <3> QED
      BY SMT, <3>1, <3>3
  <2>3. q \in Int /\ q <= 10 * P - 1
    BY <1>1, <2>1 DEF Mantissas
  <2> HIDE DEF t
  <2>4. p = t * q + (p % t) /\ p % t < t /\ p % t \in Nat /\ q \in Nat
    BY <1>1, <2>2, <2>3
  <2> HIDE DEF q, P
  <2>5. q * t <= (10 * P - 1) * t /\ (10 * P - 1) * t = (10 * P) * t - t
    BY <1>1, <2>2, <2>3, <2>4, Monotone
  <2>6. t * (10 * P) <= 1000000000 * (10 * P)
    BY SMT, <1>1, <2>2, Multiples
  <2> DEFINE a == q * t
             b == (10 * P) * t
  <2>7. a \in Nat /\ b \in Nat /\ t * q = a /\ a <= b - t /\ b <= 1000000000 * (10 * P)
    BY SMT, <1>1, <2>2, <2>4, <2>5, <2>6
  <2> HIDE DEF a, b
  <2>8. p < P * big
    BY SMT, <1>0, <1>1, <2>2, <2>4, <2>7
  <2> QED
    BY <2>8 DEF P, big
<1> QED
  BY <1>1, <1>2, <1>3

LEMMA RoundedNear ==
    ASSUME NEW p, IsPrice(p), p > 0
    PROVE  /\ Rounded(p) \in Int
           /\ 2 * (Rounded(p) - p) * 10^(Digits - 1) <= p
           /\ 2 * (p - Rounded(p)) * 10^(Digits - 1) <= p
<1> DEFINE P == 10^(Digits - 1)
<1>1. p \in Nat /\ P \in Nat /\ P > 0 /\ 10^Digits = 10 * P
  BY Powers DEF IsPrice
<1>2. CASE p < 10^Digits
  <2>1. Rounded(p) = p
    BY <1>2 DEF Rounded
  <2>2. (p - p) * P = 0 /\ 2 * (p - p) = 0 /\ 0 * P = 0
    BY <1>1
  <2> HIDE DEF P
  <2>3. 2 * (p - p) * P = 0
    BY <2>2
  <2> QED
    BY <1>1, <2>1, <2>3 DEF P
<1>3. CASE ~(p < 10^Digits)
  <2> DEFINE x == Streamed(p, 1)
  <2>1. Rounded(p) = x.num
    BY <1>3 DEF Rounded
  <2>2. p >= P * 1
    BY <1>1, <1>3
  <2>3. x.den = 1
    BY <1>1, <2>2 DEF Streamed
  <2>4. p < P * 1 * 10^11 /\ 1 <= 2 * p
    <3> DEFINE ten == 10^10
               eleven == 10^11
    <3>1. ten \in Nat /\ eleven = 10 * ten
      BY SMT
    <3>2. p < P * ten
      BY PriceBelow
    <3> HIDE DEF P, ten, eleven
    <3>3. P * 1 * eleven = 10 * (P * ten) /\ P * ten \in Nat
      BY <1>1, <3>1
    <3>4. p < P * 1 * eleven
      BY <1>1, <3>2, <3>3
    <3> QED
      BY <1>1, <3>4 DEF P, eleven
  <2>5. Near(x, p, 1)
    BY <1>1, <2>4, PrintedNear
  <2> HIDE DEF x
  <2>6. x.num \in Nat /\ x.num * 1 = x.num /\ p * x.den = p
    BY <1>1, <2>3, <2>5 DEF Near
  <2> QED
    BY <2>1, <2>5, <2>6 DEF Near
<1> QED
  BY <1>2, <1>3

-----------------------------------------------------------------------------
\* Two ways to the sum of the squares of deviations.
LEMMA SquaresIs ==
    ASSUME NEW s \in Seq(Int)
    PROVE  /\ Squares(s) \in Seq(Int) /\ Len(Squares(s)) = Len(s)
           /\ \A m \in 1..Len(s) : Squares(s)[m] = s[m] * s[m]
<1>1. DOMAIN s = 1..Len(s) /\ \A m \in 1..Len(s) : s[m] \in Int
  OBVIOUS
<1>2. \A m \in 1..Len(s) : s[m] * s[m] \in Int
  BY <1>1
<1> QED
  BY <1>1, <1>2 DEF Squares

LEMMA Binomial ==
    ASSUME NEW n \in Int, NEW x \in Int, NEW y \in Int
    PROVE  (n * x - y) * (n * x - y) = (n * n) * (x * x) + (-2 * n * y) * x + (y * y)
  OBVIOUS

LEMMA SumSquaredDeviations ==
    ASSUME NEW s \in Seq(Int)
    PROVE  SquaredDeviations(s) = Len(s) * (Len(s) * Sum(Squares(s)) - Sum(s) * Sum(s))
<1> DEFINE n == Len(s)
           S == Sum(s)
           v == [k \in DOMAIN s |-> Len(s) * s[k] - Sum(s)]
           w == Squares(v)
           ones == [k \in 1..n |-> 1]
           Q == Sum(Squares(s))
<1>1. n \in Nat /\ S \in Int /\ DOMAIN s = 1..n /\ \A k \in 1..n : s[k] \in Int
  BY SumTyped
<1>2. v \in Seq(Int) /\ Len(v) = n /\ \A k \in 1..n : v[k] = n * s[k] - S
  <2>1. v = [k \in 1..n |-> n * s[k] - S]
    BY <1>1
  <2> HIDE DEF n, S, v
  <2>2. \A k \in 1..n : n * s[k] - S \in Int
    BY <1>1
  <2> QED
    BY <1>1, <2>1, <2>2
<1>3. /\ Squares(s) \in Seq(Int) /\ Len(Squares(s)) = n
      /\ \A k \in 1..n : Squares(s)[k] = s[k] * s[k]
  BY SquaresIs
<1>4. SquaredDeviations(s) = Sum(w)
  BY DEF SquaredDeviations
<1> HIDE DEF v
<1>5. w \in Seq(Int) /\ Len(w) = n /\ \A k \in 1..n : w[k] = v[k] * v[k]
  BY <1>2, SquaresIs
<1>6. ones \in Seq(Int) /\ Len(ones) = n /\ \A k \in 1..n : ones[k] = 1
  BY <1>1
<1>7. Sum(ones) = n
  <2>1. Sum(ones) = Cardinality(1..n \cap 1..Len(ones))
    <3>1. \A k \in 1..Len(ones) : ones[k] = IF k \in 1..n THEN 1 ELSE 0
      BY <1>6
    <3> HIDE DEF ones
    <3> QED
      BY <1>6, <3>1, SumOnes
  <2>2. 1..n \cap 1..Len(ones) = 1..n
    BY <1>6
  <2>3. Cardinality(1..n) = n
    <3>1. Cardinality(1..n) = IF 1 > n THEN 0 ELSE n - 1 + 1
      BY <1>1, FS_Interval
    <3> HIDE DEF n
    <3> QED
      BY <1>1, <3>1
  <2> QED
    BY <2>1, <2>2, <2>3
<1> DEFINE sq == Squares(s)
           a == n * n
           b == -2 * n * S
           c == S * S
<1>8. \A k \in 1..n : w[k] = a * sq[k] + b * s[k] + c * ones[k]
  <2> TAKE k \in 1..n
  <2>1. w[k] = (n * s[k] - S) * (n * s[k] - S)
    BY <1>2, <1>5
  <2>2. sq[k] = s[k] * s[k] /\ ones[k] = 1 /\ s[k] \in Int
    BY <1>1, <1>3, <1>6
  <2> HIDE DEF n, S, w, ones, sq
  <2>3. (n * s[k] - S) * (n * s[k] - S) = a * (s[k] * s[k]) + b * s[k] + c
    BY <1>1, <2>2, Binomial
  <2>4. c \in Int /\ c * 1 = c
    BY <1>1
  <2> QED
    BY <2>1, <2>2, <2>3, <2>4
<1>9. a \in Int /\ b \in Int /\ c \in Int
  <2> HIDE DEF n, S
  <2> QED
    BY <1>1
<1> HIDE DEF n, S, w, ones, sq, a, b, c
<1>10. Linear(w, a, sq, b, s, c, ones)
  BY <1>3, <1>5, <1>6, <1>8, <1>9 DEF Linear, sq, n
<1>11. Sum(w) = a * Sum(sq) + b * Sum(s) + c * Sum(ones)
  BY <1>10, SumLinear
<1>12. Q \in Int /\ Sum(sq) = Q /\ Sum(s) = S
  BY <1>3, SumTyped DEF sq, S
<1> HIDE DEF Q
<1>13. Sum(w) = (n * n) * Q + (-2 * n * S) * S + (S * S) * n
  BY <1>7, <1>11, <1>12 DEF a, b, c
<1>14. (n * n) * Q + (-2 * n * S) * S + (S * S) * n = n * (n * Q - S * S)
  BY <1>1, <1>12
<1> QED
  BY <1>4, <1>13, <1>14 DEF n, S, Q

-----------------------------------------------------------------------------
\* The rows of an input.
Counted == [n \in DOMAIN csv |-> IF n \in Priced THEN 1 ELSE 0]

LEMMA PricedIs ==
    ASSUME csv \in Seq(Rows), NEW n \in DOMAIN csv
    PROVE  /\ csv[n] \in Rows /\ csv[n].fields \in Nat
           /\ Valid(csv[n].price) => IsPrice(csv[n].price) /\ csv[n].price > 0
           /\ n \in Priced <=> csv[n].fields > 8 /\ Valid(csv[n].price)
<1>1. csv[n] \in Rows
  OBVIOUS
<1>2. csv[n].fields \in Nat /\ csv[n].price \in Int \cup {NoPrice}
  BY <1>1, MapReduceAssumption
<1> QED
  BY <1>1, <1>2 DEF Valid, IsPrice, Priced

LEMMA ColumnsAre ==
    ASSUME csv \in Seq(Rows)
    PROVE  /\ AsPrinted \in Seq(Int) /\ Len(AsPrinted) = Len(csv)
           /\ Exactly \in Seq(Int) /\ Len(Exactly) = Len(csv)
           /\ Counted \in Seq(Int) /\ Len(Counted) = Len(csv)
           /\ Sum(Counted) = Cardinality(Priced)
<1>1. DOMAIN csv = 1..Len(csv) /\ Len(csv) \in Nat
  OBVIOUS
<1>2. \A n \in 1..Len(csv) :
          n \in Priced => csv[n].price \in Int /\ Rounded(csv[n].price) \in Int
  <2>1. ASSUME NEW n \in 1..Len(csv), n \in Priced
        PROVE  IsPrice(csv[n].price) /\ csv[n].price > 0
    BY <1>1, <2>1, PricedIs
  <2>2. ASSUME NEW n \in 1..Len(csv), n \in Priced
        PROVE  csv[n].price \in Int /\ Rounded(csv[n].price) \in Int
    BY <2>1, <2>2, RoundedNear DEF IsPrice
  <2> QED
    BY <2>2
<1>3. AsPrinted \in Seq(Int) /\ Len(AsPrinted) = Len(csv)
  BY <1>1, <1>2 DEF AsPrinted
<1>4. Exactly \in Seq(Int) /\ Len(Exactly) = Len(csv)
  BY <1>1, <1>2 DEF Exactly
<1>5. /\ Counted \in Seq(Int) /\ Len(Counted) = Len(csv)
      /\ \A k \in 1..Len(Counted) : Counted[k] = IF k \in Priced THEN 1 ELSE 0
  BY <1>1 DEF Counted
<1>6. Sum(Counted) = Cardinality(Priced \cap 1..Len(Counted))
  BY <1>5, SumOnes
<1>7. Priced \cap 1..Len(Counted) = Priced
  BY <1>1, <1>5 DEF Priced
<1> QED
  BY <1>3, <1>4, <1>5, <1>6, <1>7

\* What is printed of the prices, all together, is near what they are.
LEMMA Precision ==
    ASSUME csv \in Seq(Rows), NEW error, error = Sum(AsPrinted) - Sum(Exactly)
    PROVE  /\ 2 * error * 10^(Digits - 1) <= Sum(Exactly)
           /\ -2 * error * 10^(Digits - 1) <= Sum(Exactly)
<1> DEFINE K == 10^(Digits - 1)
           A == AsPrinted
           E == Exactly
           n == Len(csv)
           k2 == 2 * K
           SA == Sum(A)
           SE == Sum(E)
<1>1. /\ A \in Seq(Int) /\ Len(A) = n /\ E \in Seq(Int) /\ Len(E) = n
      /\ n \in Nat /\ K \in Nat /\ SA \in Int /\ SE \in Int
  BY ColumnsAre, SumTyped, Powers
<1>2. ASSUME NEW i \in 1..n
      PROVE  /\ A[i] \in Int /\ E[i] \in Int
             /\ 2 * (A[i] - E[i]) * K <= E[i]
             /\ 2 * (E[i] - A[i]) * K <= E[i]
  <2>1. i \in DOMAIN csv
    OBVIOUS
  <2>2. A[i] = IF i \in Priced THEN Rounded(csv[i].price) ELSE 0
    BY <2>1 DEF AsPrinted
  <2>3. E[i] = IF i \in Priced THEN csv[i].price ELSE 0
    BY <2>1 DEF Exactly
  <2>4. CASE i \in Priced
    <3>1. IsPrice(csv[i].price) /\ csv[i].price > 0
      BY <2>1, <2>4, PricedIs
    <3>2. csv[i].price \in Int
      BY <3>1 DEF IsPrice
    <3>3. /\ Rounded(csv[i].price) \in Int
          /\ 2 * (Rounded(csv[i].price) - csv[i].price) * K <= csv[i].price
          /\ 2 * (csv[i].price - Rounded(csv[i].price)) * K <= csv[i].price
      BY <3>1, RoundedNear
    <3> QED
      BY <2>2, <2>3, <2>4, <3>2, <3>3
  <2>5. CASE i \notin Priced
    <3>1. A[i] = 0 /\ E[i] = 0
      BY <2>2, <2>3, <2>5
    <3> HIDE DEF K
    <3>2. 2 * (0 - 0) * K <= 0
      BY <1>1
    <3> QED
      BY <3>1, <3>2
  <2> QED
    BY <2>4, <2>5
<1> HIDE DEF K, A, E, n, SA, SE
\* both come from a sum of what is never negative
<1>3. ASSUME NEW X, NEW Y, X \in Seq(Int), Y \in Seq(Int), Len(X) = n, Len(Y) = n,
             \A i \in 1..n : 2 * (X[i] - Y[i]) * K <= E[i]
      PROVE  k2 * Sum(X) - k2 * Sum(Y) <= SE
  <2> DEFINE w == [i \in 1..n |-> 1 * E[i] + (-k2) * X[i] + k2 * Y[i]]
  <2>1. ASSUME NEW i \in 1..n
        PROVE  w[i] \in Int /\ w[i] >= 0
    <3> DEFINE x == X[i]
               y == Y[i]
               z == E[i]
    <3>1. x \in Int /\ y \in Int /\ z \in Int /\ 2 * (x - y) * K <= z
      BY <1>1, <1>3
    <3>2. w[i] = 1 * z + (-k2) * x + k2 * y
      OBVIOUS
    <3> HIDE DEF x, y, z, w
    <3>3. 2 * (x - y) * K = k2 * x - k2 * y /\ k2 * x \in Int /\ k2 * y \in Int
      BY <1>1, <3>1
    <3>4. (-k2) * x = -(k2 * x) /\ 1 * z = z
      BY <1>1, <3>1
    <3> HIDE DEF k2
    <3> QED
      BY <3>1, <3>2, <3>3, <3>4
  <2>2. w \in Seq(Int) /\ Len(w) = n
    BY <1>1, <2>1
  <2>3. 1 \in Int /\ -k2 \in Int /\ k2 \in Int
    BY <1>1
  <2>4. \A i \in 1..n : w[i] = 1 * E[i] + (-k2) * X[i] + k2 * Y[i]
    OBVIOUS
  <2>5. \A i \in 1..Len(w) : w[i] >= 0
    BY <2>1, <2>2
  <2> HIDE DEF w
  <2>6. Linear(w, 1, E, -k2, X, k2, Y)
    BY <1>1, <1>3, <2>2, <2>3, <2>4 DEF Linear
  <2>7. Sum(w) = 1 * SE + (-k2) * Sum(X) + k2 * Sum(Y)
    BY <2>6, SumLinear DEF SE
  <2>8. Sum(w) >= 0 /\ Sum(X) \in Int /\ Sum(Y) \in Int
    BY <1>3, <2>2, <2>5, SumNonnegative, SumTyped
  <2>9. (-k2) * Sum(X) = -(k2 * Sum(X)) /\ k2 * Sum(X) \in Int /\ k2 * Sum(Y) \in Int /\ 1 * SE = SE
    BY <1>1, <2>3, <2>8
  <2> HIDE DEF k2
  <2> QED
    BY <1>1, <2>7, <2>8, <2>9
<1>4. k2 * SA - k2 * SE <= SE
  BY <1>1, <1>2, <1>3 DEF SA, SE
<1>5. k2 * SE - k2 * SA <= SE
  BY <1>1, <1>2, <1>3 DEF SA, SE
<1>6. error = SA - SE
  BY DEF SA, SE, A, E
<1>7. 2 * error * K = k2 * SA - k2 * SE /\ -2 * error * K = k2 * SE - k2 * SA
  BY <1>1, <1>6
<1>8. 2 * error * K <= SE /\ -2 * error * K <= SE
  BY <1>4, <1>5, <1>7
<1> QED
  BY <1>8 DEF K, SE, E

\* A price is at least 1 and has at most Digits + 9 digits.
LEMMA CostBetween ==
    ASSUME csv \in Seq(Rows)
    PROVE  /\ Cardinality(Priced) \in Nat /\ Sum(Exactly) \in Nat
           /\ Cardinality(Priced) <= Sum(Exactly)
           /\ Sum(Exactly) <= Cardinality(Priced) * (10^(Digits - 1) * 10^10)
<1> DEFINE E == Exactly
           C == Counted
           n == Len(csv)
           N == Cardinality(Priced)
           B == 10^(Digits - 1) * 10^10
<1>1. /\ E \in Seq(Int) /\ Len(E) = n /\ C \in Seq(Int) /\ Len(C) = n /\ n \in Nat
      /\ Sum(C) = N /\ Sum(E) \in Int /\ Sum(C) \in Int
  BY ColumnsAre, SumTyped
<1>2. B \in Nat
  <2>1. 10^10 \in Nat
    BY SMT
  <2> QED
    BY <2>1, Powers
<1> HIDE DEF B
<1>3. ASSUME NEW i \in 1..n
      PROVE  /\ E[i] \in Int /\ C[i] \in Int /\ C[i] * B \in Int
             /\ 0 <= C[i] /\ C[i] <= E[i] /\ E[i] <= B * C[i]
  <2>1. i \in DOMAIN csv
    OBVIOUS
  <2>2. E[i] = IF i \in Priced THEN csv[i].price ELSE 0
    BY <2>1 DEF Exactly
  <2>3. C[i] = IF i \in Priced THEN 1 ELSE 0
    BY <2>1 DEF Counted
  <2>4. CASE i \in Priced
    <3>1. IsPrice(csv[i].price) /\ csv[i].price > 0
      BY <2>1, <2>4, PricedIs
    <3>2. csv[i].price \in Int /\ csv[i].price < B
      BY <3>1, PriceBelow DEF B, IsPrice
    <3> HIDE DEF E, C
    <3> QED
      BY <1>2, <2>2, <2>3, <2>4, <3>1, <3>2
  <2>5. CASE i \notin Priced
    <3> HIDE DEF E, C
    <3> QED
      BY <1>2, <2>2, <2>3, <2>5
  <2> QED
    BY <2>4, <2>5
<1> HIDE DEF E, C, n, N
<1>4. ASSUME NEW a \in Int, NEW b \in Int, \A i \in 1..n : a * E[i] + b * C[i] + 0 * C[i] >= 0
      PROVE  a * Sum(E) + b * Sum(C) >= 0
  <2> DEFINE w == [i \in 1..n |-> a * E[i] + b * C[i] + 0 * C[i]]
  <2>1. \A i \in 1..n : w[i] \in Int /\ w[i] >= 0
    BY <1>3, <1>4
  <2>2. w \in Seq(Int) /\ Len(w) = n
    BY <1>1, <2>1
  <2>3. \A i \in 1..n : w[i] = a * E[i] + b * C[i] + 0 * C[i]
    OBVIOUS
  <2> HIDE DEF w
  <2>4. Linear(w, a, E, b, C, 0, C)
    BY <1>1, <2>2, <2>3 DEF Linear
  <2>5. Sum(w) = a * Sum(E) + b * Sum(C) + 0 * Sum(C)
    BY <2>4, SumLinear
  <2>6. Sum(w) >= 0
    BY <2>1, <2>2, SumNonnegative
  <2>7. 0 * Sum(C) = 0 /\ a * Sum(E) \in Int /\ b * Sum(C) \in Int
    BY <1>1
  <2> QED
    BY <2>5, <2>6, <2>7
<1>5. 1 * Sum(E) + (-1) * Sum(C) >= 0
  <2>1. \A i \in 1..n : 1 * E[i] + (-1) * C[i] + 0 * C[i] >= 0
    BY <1>3
  <2> QED
    BY <1>4, <2>1
<1>6. (-1) * Sum(E) + B * Sum(C) >= 0
  <2>1. ASSUME NEW i \in 1..n
        PROVE  (-1) * E[i] + B * C[i] + 0 * C[i] >= 0
    <3>1. E[i] \in Int /\ C[i] \in Int /\ E[i] <= B * C[i] /\ B * C[i] \in Int
      BY <1>2, <1>3
    <3> QED
      BY <3>1
  <2> QED
    BY <1>2, <1>4, <2>1
<1>7. 0 * Sum(E) + 1 * Sum(C) >= 0
  <2>1. \A i \in 1..n : 0 * E[i] + 1 * C[i] + 0 * C[i] >= 0
    BY <1>3
  <2> QED
    BY <1>4, <2>1
<1>8. N \in Nat /\ Sum(E) \in Nat /\ N <= Sum(E) /\ Sum(E) <= N * B
  <2> DEFINE SE == Sum(E)
             BN == B * N
  <2>1. BN \in Int /\ N * B = BN /\ SE \in Int
    BY <1>1, <1>2
  <2>2. 1 * SE + (-1) * N >= 0 /\ (-1) * SE + BN >= 0 /\ 0 * SE + 1 * N >= 0 /\ N \in Int
    BY <1>1, <1>5, <1>6, <1>7
  <2> HIDE DEF SE, BN
  <2>3. N \in Nat /\ SE \in Nat /\ N <= SE /\ SE <= N * B
    BY <2>1, <2>2
  <2> QED
    BY <2>3 DEF SE
<1> QED
  BY <1>8 DEF N, E, B

\* 2P times either half of the bound, and what they make up together.
Half(x, c, P) == 2 * x * P <= c
Whole(x, c, P) == 4 * P * P * x <= (4 * P + 1) * c

LEMMA TwoParts ==
    ASSUME NEW x \in Int, NEW y \in Int, NEW b \in Int, NEW c \in Int, NEW P \in Nat,
           Half(x, c + b, P), Half(y, c, P), Half(b, c, P)
    PROVE  Whole(x + y, c, P)
<1> DEFINE X == 2 * x * P
           Y == 2 * y * P
           Z == 2 * b * P
           k == 2 * P
           cb == c + b
<1>1. X \in Int /\ Y \in Int /\ Z \in Int
  OBVIOUS
<1>2. k \in Nat /\ cb \in Int
  OBVIOUS
<1>3. X <= cb /\ Y <= c /\ Z <= c
  BY DEF Half
<1>4. 4 * P * P * (x + y) = X * k + Y * k
  OBVIOUS
<1>5. cb * k = k * c + Z
  <2>1. (c + b) * (2 * P) = (2 * P) * c + 2 * b * P
    OBVIOUS
  <2> QED
    BY <2>1
<1>6. (4 * P + 1) * c = k * c + c * k + c
  <2>1. (4 * P + 1) * c = (2 * P) * c + c * (2 * P) + c
    OBVIOUS
  <2> QED
    BY <2>1
<1> HIDE DEF X, Y, Z, k, cb
<1>7. X * k <= cb * k /\ Y * k <= c * k /\ X * k \in Int /\ Y * k \in Int /\ cb * k \in Int /\ c * k \in Int
  BY <1>1, <1>2, <1>3, Monotone
<1>8. k * c \in Int
  BY <1>2
<1> DEFINE Xk == X * k
           Yk == Y * k
           ck == c * k
           kc == k * c
<1>9. Xk \in Int /\ Yk \in Int /\ ck \in Int /\ kc \in Int /\ Xk <= kc + Z /\ Yk <= ck
  BY <1>5, <1>7, <1>8
<1>10. 4 * P * P * (x + y) = Xk + Yk /\ (4 * P + 1) * c = kc + ck + c
  BY <1>4, <1>6
<1> HIDE DEF Xk, Yk, ck, kc
<1>11. Xk + Yk <= kc + ck + c
  BY <1>1, <1>3, <1>9
<1> QED
  BY <1>10, <1>11 DEF Whole

LEMMA OtherSide ==
    ASSUME NEW x \in Int, NEW y \in Int, NEW c \in Nat, NEW P \in Nat,
           Whole((-x) + (-y), c, P)
    PROVE  -4 * P * P * (x + y) <= (4 * P + 1) * c
<1>1. -4 * P * P * (x + y) = 4 * P * P * ((-x) + (-y))
  OBVIOUS
<1> QED
  BY <1>1 DEF Whole

\* The mean printed is near that of the prices printed, and so near the mean.
LEMMA MeanNear ==
    ASSUME csv \in Seq(Rows), Priced # {},
           NEW mean, mean = Streamed(Sum(AsPrinted), Cardinality(Priced)),
           NEW P, P = 10^(Digits - 1),
           NEW cost, cost = Sum(Exactly) * mean.den,
           NEW error, error = mean.num * Cardinality(Priced) - cost
    PROVE  /\ 4 * P * P * error <= (4 * P + 1) * cost
           /\ -4 * P * P * error <= (4 * P + 1) * cost
<1> DEFINE S == Sum(AsPrinted)
           E == Sum(Exactly)
           N == Cardinality(Priced)
           off == S - E
<1>1. /\ P \in Nat /\ P > 0 /\ S \in Int /\ E \in Nat /\ N \in Nat
      /\ N <= E /\ E <= N * (P * 10^10)
  BY Powers, ColumnsAre, SumTyped, CostBetween
<1>2. N > 0
  <2>1. IsFiniteSet(Priced)
    <3>1. Priced \subseteq 1..Len(csv) /\ Len(csv) \in Nat
      BY DEF Priced
    <3>2. IsFiniteSet(1..Len(csv))
      BY <3>1, FS_Interval
    <3> QED
      BY <3>1, <3>2, FS_Subset
  <2>2. N # 0
    BY <2>1, FS_EmptySet
  <2> HIDE DEF N
  <2> QED
    BY <1>1, <2>2
<1>3. 2 * off * P <= E /\ -2 * off * P <= E
  BY Precision
<1> HIDE DEF S, E, N
<1>4. off \in Int /\ S = E + off
  BY <1>1
<1> HIDE DEF off
<1>5. 2 * off <= E /\ -(2 * off) <= E
  <2> DEFINE x == 2 * off
  <2>1. ASSUME NEW y \in Int, y * P <= E PROVE y <= E
    <3>1. CASE y <= 0
      BY <1>1, <3>1
    <3>2. CASE y > 0
      <4>1. 1 * y <= P * y /\ P * y = y * P /\ 1 * y = y /\ y * P \in Int
        BY <1>1, <3>2, Multiples
      <4> QED
        BY <1>1, <2>1, <4>1
    <3> QED
      BY <3>1, <3>2
  <2>2. x \in Int /\ x * P <= E /\ (-x) * P <= E
    BY <1>1, <1>3, <1>4
  <2>3. x <= E
    BY <2>1, <2>2
  <2>4. -x <= E
    BY <2>1, <2>2
  <2> QED
    BY <2>3, <2>4
<1>6. S \in Nat /\ S > 0 /\ N <= 2 * S /\ S <= 2 * E
  BY <1>1, <1>2, <1>4, <1>5
<1>7. S < P * N * 10^11
  <2> DEFINE ten == 10^10
             eleven == 10^11
             PN == P * N
  <2>1. ten \in Nat /\ ten > 0 /\ eleven = 10 * ten
    BY SMT
  <2>2. E <= N * (P * ten)
    BY <1>1
  <2> HIDE DEF ten, eleven
  <2>3. PN \in Nat /\ PN > 0 /\ N * (P * ten) = PN * ten
    <3>1. 1 * N <= P * N /\ P * N \in Nat /\ 1 * N = N
      BY <1>1, Multiples
    <3>2. N * (P * ten) = PN * ten
      BY <1>1, <2>1
    <3> QED
      BY <1>1, <1>2, <3>1, <3>2
  <2> HIDE DEF PN
  <2> DEFINE y == PN * ten
  <2>4. y \in Nat /\ y > 0 /\ PN * eleven = 10 * y /\ E <= y
    <3>1. 1 * ten <= PN * ten /\ PN * ten \in Nat /\ 1 * ten = ten
      BY <2>1, <2>3, Multiples
    <3>2. PN * (10 * ten) = 10 * (PN * ten)
      BY <2>1, <2>3
    <3> QED
      BY <2>1, <2>2, <2>3, <3>1, <3>2
  <2> HIDE DEF y
  <2>5. S < PN * eleven
    BY <1>1, <1>6, <2>4
  <2> QED
    BY <2>5 DEF PN, eleven
<1>8. Near(mean, S, N)
  <2>1. mean = Streamed(S, N)
    BY DEF S, N
  <2>2. S < 10^(Digits - 1) * N * 10^11
    BY <1>7
  <2> QED
    BY <1>1, <1>2, <1>6, <2>1, <2>2, PrintedNear
<1> DEFINE u == mean.num
           v == mean.den
           a == u * N - S * v
           b == off * v
           c == E * v
<1>9. /\ u \in Nat /\ v \in Nat /\ v > 0
      /\ 2 * (u * N - S * v) * P <= S * v /\ 2 * (S * v - u * N) * P <= S * v
  BY <1>8 DEF Near
<1> HIDE DEF u, v
<1>10. /\ a \in Int /\ b \in Int /\ c \in Nat /\ S * v = c + b /\ S * v \in Int
       /\ S * v - u * N = -a
  <2>1. (E + off) * v = E * v + off * v
    BY <1>1, <1>4, <1>9
  <2>2. S * v \in Int /\ u * N \in Int /\ E * v \in Nat /\ off * v \in Int
    BY <1>1, <1>4, <1>6, <1>9
  <2> QED
    BY <1>4, <2>1, <2>2
<1>11. 2 * a * P <= c + b /\ 2 * (-a) * P <= c + b
  BY <1>9, <1>10
<1>12. 2 * b * P <= c /\ 2 * (-b) * P <= c
  <2>1. ASSUME NEW y \in Int, 2 * y * P <= E PROVE 2 * (y * v) * P <= c
    <3>1. (2 * y * P) * v <= E * v
      BY <1>1, <1>9, <2>1, Monotone
    <3>2. (2 * y * P) * v = 2 * (y * v) * P
      BY <1>1, <1>9
    <3> QED
      BY <3>1, <3>2
  <2>2. -2 * off * P = 2 * (-off) * P /\ (-off) * v = -(off * v) /\ -off \in Int
    BY <1>1, <1>4, <1>9
  <2>3. 2 * (off * v) * P <= c
    BY <1>3, <1>4, <2>1
  <2>4. 2 * ((-off) * v) * P <= c
    BY <1>3, <2>1, <2>2
  <2> QED
    BY <2>2, <2>3, <2>4
<1>13. cost = c
  BY DEF c, E, v
<1>14. error = a + b
  <2>1. error = u * N - cost
    BY DEF u, N
  <2>2. u * N \in Int /\ a = u * N - S * v
    BY <1>1, <1>9
  <2> DEFINE uN == u * N
             Sv == S * v
  <2>3. uN \in Int /\ Sv \in Int /\ error = uN - c /\ a = uN - Sv /\ Sv = c + b
    BY <1>10, <1>13, <2>1, <2>2
  <2> HIDE DEF a, b, c, uN, Sv
  <2> QED
    BY <1>10, <2>3
<1> HIDE DEF a, b, c
<1>15. Half(a, c + b, P) /\ Half(-a, c + b, P) /\ Half(b, c, P) /\ Half(-b, c, P)
  BY <1>11, <1>12 DEF Half
<1>16. -a \in Int /\ -b \in Int
  BY <1>10
<1>17. Whole(a + b, c, P) /\ Whole((-a) + (-b), c, P)
  BY <1>1, <1>10, <1>15, <1>16, TwoParts
<1>18. -4 * P * P * (a + b) <= (4 * P + 1) * c
  BY Zenon, <1>1, <1>10, <1>17, OtherSide
<1> QED
  BY <1>13, <1>14, <1>17, <1>18 DEF Whole

-----------------------------------------------------------------------------
(***************************************************************************)
(* The inductive invariant.  At every moment what the reducer has computed *)
(* and what the lines it has not read will add come from the rows the      *)
(* mapper has read.                                                        *)
(***************************************************************************)
MeanWeight == [l \in Line |-> IF l.key = "mean" THEN l.value ELSE 0]
CountWeight == [l \in Line |-> IF l.key = "count" THEN 1 ELSE 0]
PriceWeight == [l \in Line |-> l.value]
SquareWeight == [l \in Line |-> l.value * l.value]
OneWeight == [l \in Line |-> 1]

ReduceTypeOK ==
    /\ mode \in Modes \cup {"end"}
    /\ csv \in Seq(Rows) /\ unread \in Seq(Rows)
    /\ shuffled \in Seq(Line)
    /\ sums \in [Keys -> Int] /\ counts \in [Keys -> Int]
    /\ prices \in Seq(Int)
    /\ report = [m \in Modes |-> report[m]]

RowsRead == Len(csv) - Len(unread)
Aligned ==
    /\ RowsRead \in Nat
    /\ \A i \in 1..Len(unread) : unread[i] = csv[RowsRead + i]

MeanSoFar ==
    mode = "mean" =>
        /\ report["mean"] = <<>> /\ prices = <<>>
        /\ Tallied(sums["mean"], MeanWeight, shuffled, AsPrinted, RowsRead)
        /\ Tallied(counts["count"], CountWeight, shuffled, Counted, RowsRead)
MeanDone ==
    mode # "mean" =>
        report["mean"] = <<IF Cardinality(Priced) = 0 THEN NaN
                           ELSE Streamed(Sum(AsPrinted), Cardinality(Priced))>>
VarianceSoFar ==
    mode = "variance" =>
        /\ Tallied(Sum(prices), PriceWeight, shuffled, AsPrinted, RowsRead)
        /\ Tallied(Sum(Squares(prices)), SquareWeight, shuffled, Squares(AsPrinted), RowsRead)
        /\ Tallied(Len(prices), OneWeight, shuffled, Counted, RowsRead)
VarianceDone ==
    mode = "end" =>
        LET N == Cardinality(Priced) IN
        report["variance"] =
            IF N = 0 THEN <<Zero>>
            ELSE <<Streamed(N * (N * Sum(Squares(AsPrinted)) - Sum(AsPrinted) * Sum(AsPrinted)),
                            N * N * N),
                   Streamed(Sum(AsPrinted), N)>>

ReduceInv ==
    /\ ReduceTypeOK
    /\ Regular => Aligned /\ MeanSoFar /\ MeanDone /\ VarianceSoFar /\ VarianceDone

LEMMA WeightsAre ==
    /\ MeanWeight \in Weight /\ CountWeight \in Weight /\ PriceWeight \in Weight
    /\ SquareWeight \in Weight /\ OneWeight \in Weight
<1>1. \A l \in Line : l.value \in Int
  BY DEF Line
<1>2. \A l \in Line : l.value * l.value \in Int
  BY <1>1
<1> QED
  BY <1>1, <1>2 DEF MeanWeight, CountWeight, PriceWeight, SquareWeight, OneWeight, Weight

LEMMA NothingComputed == Sum(Squares(<<>>)) = 0 /\ Sum(<<>>) = 0
<1>1. Squares(<<>>) = <<>>
  BY DEF Squares
<1> QED
  BY <1>1, SumNone

\* The columns of the input, and the squares of one.
LEMMA Columns ==
    ASSUME csv \in Seq(Rows)
    PROVE  /\ AsPrinted \in Seq(Int) /\ Len(AsPrinted) = Len(csv)
           /\ Squares(AsPrinted) \in Seq(Int) /\ Len(Squares(AsPrinted)) = Len(csv)
           /\ Counted \in Seq(Int) /\ Len(Counted) = Len(csv)
           /\ Sum(Counted) = Cardinality(Priced)
  BY ColumnsAre, SquaresIs

LEMMA ReduceStart == ReduceInit => ReduceInv
<1> SUFFICES ASSUME ReduceInit PROVE ReduceInv
  OBVIOUS
<1>1. csv \in Seq(Rows)
  BY DEF ReduceInit, SeqOf
<1>2. unread = csv /\ shuffled = <<>> /\ mode = "mean" /\ prices = <<>> /\ report["mean"] = <<>>
  BY DEF ReduceInit, Modes
<1>3. sums["mean"] = 0 /\ counts["count"] = 0
  BY DEF ReduceInit, Keys
<1>4. RowsRead = 0 /\ Aligned
  <2>1. Len(csv) \in Nat
    BY <1>1
  <2>2. RowsRead = 0
    BY <1>2, <2>1 DEF RowsRead
  <2>3. \A i \in 1..Len(unread) : 0 + i = i
    BY <2>1, <1>2
  <2> QED
    BY <1>2, <2>2, <2>3 DEF Aligned
<1>5. ReduceTypeOK
  <2>1. sums \in [Keys -> Int] /\ counts \in [Keys -> Int]
    BY DEF ReduceInit
  <2>2. report = [m \in Modes |-> report[m]]
    BY DEF ReduceInit
  <2>3. mode \in Modes \cup {"end"}
    BY <1>2 DEF Modes
  <2> QED
    BY <1>1, <1>2, <2>1, <2>2, <2>3 DEF ReduceTypeOK
<1>6. /\ Tallied(0, MeanWeight, <<>>, AsPrinted, 0)
      /\ Tallied(0, CountWeight, <<>>, Counted, 0)
  BY <1>1, Columns, WeightsAre, TalliedAtFirst
<1>7. MeanSoFar
  BY <1>2, <1>3, <1>4, <1>6 DEF MeanSoFar
<1>8. MeanDone /\ VarianceSoFar /\ VarianceDone
  BY <1>2 DEF MeanDone, VarianceSoFar, VarianceDone
<1> QED
  BY <1>4, <1>5, <1>7, <1>8 DEF ReduceInv

\* The lines printed for a row.
LEMMA MappedIs ==
    ASSUME NEW price, Valid(price) => IsPrice(price) /\ price > 0, NEW s \in Seq(Line)
    PROVE  /\ s \o Mapped(price) \in Seq(Line)
           /\ ~Valid(price) => s \o Mapped(price) = s
           /\ Valid(price) /\ mode = "mean" =>
                 /\ Sum(Weighed(MeanWeight, s \o Mapped(price))) = Sum(Weighed(MeanWeight, s)) + Rounded(price)
                 /\ Sum(Weighed(CountWeight, s \o Mapped(price))) = Sum(Weighed(CountWeight, s)) + 1
           /\ Valid(price) /\ mode # "mean" =>
                 /\ Sum(Weighed(PriceWeight, s \o Mapped(price))) = Sum(Weighed(PriceWeight, s)) + Rounded(price)
                 /\ Sum(Weighed(SquareWeight, s \o Mapped(price))) = Sum(Weighed(SquareWeight, s)) + Rounded(price) * Rounded(price)
                 /\ Sum(Weighed(OneWeight, s \o Mapped(price))) = Sum(Weighed(OneWeight, s)) + 1
<1> DEFINE r == Rounded(price)
           a == [key |-> "mean", value |-> r]
           b == [key |-> "count", value |-> 1]
           c == [key |-> "price", value |-> r]
<1>1. CASE ~Valid(price)
  <2>1. Mapped(price) = <<>>
    BY <1>1 DEF Mapped
  <2>2. s \o <<>> = s
    OBVIOUS
  <2> QED
    BY <1>1, <2>1, <2>2
<1>2. CASE Valid(price) /\ mode = "mean"
  <2>1. r \in Int
    BY <1>2, RoundedNear
  <2>2. a \in Line /\ b \in Line
    BY <2>1 DEF Line, Keys
  <2>3. Mapped(price) = <<a, b>>
    BY <1>2 DEF Mapped
  <2>4. /\ MeanWeight[a] = r /\ MeanWeight[b] = 0
        /\ CountWeight[a] = 0 /\ CountWeight[b] = 1
    BY <2>2 DEF MeanWeight, CountWeight
  <2> HIDE DEF a, b, r
  <2>5. s \o <<a, b>> = (s \o <<a>>) \o <<b>>
    <3> DEFINE t == s \o <<a, b>>
               u == (s \o <<a>>) \o <<b>>
    <3>1. t \in Seq(Line) /\ u \in Seq(Line)
      BY <2>2
    <3>2. Len(t) = Len(s) + 2 /\ Len(u) = Len(s) + 2
      BY <2>2
    <3>3. \A k \in 1..Len(t) : t[k] = u[k]
      BY <2>2
    <3> HIDE DEF t, u
    <3>4. t = u
      BY <3>1, <3>2, <3>3, SameSequence
    <3> QED
      BY <3>4 DEF t, u
  <2>6. s \o <<a>> \in Seq(Line) /\ (s \o <<a>>) \o <<b>> \in Seq(Line)
    BY <2>2
  <2>7. ASSUME NEW w \in Weight
        PROVE  /\ Sum(Weighed(w, s \o <<a, b>>)) = (Sum(Weighed(w, s)) + w[a]) + w[b]
               /\ Sum(Weighed(w, s)) \in Int
    <3>1. Sum(Weighed(w, s \o <<a>>)) = Sum(Weighed(w, s)) + w[a]
      BY <2>2, WeighedAppend
    <3>2. Sum(Weighed(w, (s \o <<a>>) \o <<b>>)) = Sum(Weighed(w, s \o <<a>>)) + w[b]
      BY <2>2, <2>6, WeighedAppend
    <3> QED
      BY <2>5, <3>1, <3>2, WeighedIs
  <2>8. /\ Sum(Weighed(MeanWeight, s \o <<a, b>>)) = Sum(Weighed(MeanWeight, s)) + r
        /\ Sum(Weighed(CountWeight, s \o <<a, b>>)) = Sum(Weighed(CountWeight, s)) + 1
    BY <2>1, <2>4, <2>7, WeightsAre
  <2> QED
    BY <1>2, <2>3, <2>5, <2>6, <2>8 DEF r
<1>3. CASE Valid(price) /\ mode # "mean"
  <2>1. r \in Int
    BY <1>3, RoundedNear
  <2>2. c \in Line
    BY <2>1 DEF Line
  <2>3. Mapped(price) = <<c>>
    BY <1>3 DEF Mapped
  <2>4. PriceWeight[c] = r /\ SquareWeight[c] = r * r /\ OneWeight[c] = 1
    BY <2>2 DEF PriceWeight, SquareWeight, OneWeight
  <2> HIDE DEF c, r
  <2>5. s \o <<c>> \in Seq(Line)
    BY <2>2
  <2>6. \A w \in Weight : Sum(Weighed(w, s \o <<c>>)) = Sum(Weighed(w, s)) + w[c]
    BY <2>2, WeighedAppend
  <2>7. /\ Sum(Weighed(PriceWeight, s \o <<c>>)) = Sum(Weighed(PriceWeight, s)) + r
        /\ Sum(Weighed(SquareWeight, s \o <<c>>)) = Sum(Weighed(SquareWeight, s)) + r * r
        /\ Sum(Weighed(OneWeight, s \o <<c>>)) = Sum(Weighed(OneWeight, s)) + 1
    BY <2>4, <2>6, WeightsAre
  <2> QED
    BY <1>3, <2>3, <2>5, <2>7 DEF r
<1> QED
  BY <1>1, <1>2, <1>3

LEMMA MapRowKeeps == ReduceInv /\ map_row => ReduceInv'
<1> SUFFICES ASSUME ReduceInv, map_row PROVE ReduceInv'
  OBVIOUS
<1> DEFINE row == Head(unread)
           n == RowsRead + 1
<1>1. ReduceTypeOK
  BY DEF ReduceInv
<1>2. /\ unread # <<>> /\ unread' = Tail(unread)
      /\ mode' = mode /\ csv' = csv /\ sums' = sums /\ counts' = counts /\ prices' = prices
      /\ report' = report
  BY DEF map_row, reducerVars
<1>3. /\ unread \in Seq(Rows) /\ unread' \in Seq(Rows) /\ Len(unread') = Len(unread) - 1
      /\ row = unread[1] /\ row \in Rows /\ Len(unread) \in Nat /\ Len(unread) >= 1
      /\ \A i \in 1..Len(unread') : unread'[i] = unread[i + 1]
  BY <1>1, <1>2 DEF ReduceTypeOK
<1>4. csv \in Seq(Rows) /\ shuffled \in Seq(Line) /\ Len(csv) \in Nat
  BY <1>1 DEF ReduceTypeOK
<1>5. \/ row.fields < 8 /\ shuffled' = shuffled
      \/ row.fields >= 8 /\ \E price \in Ninth(row) : shuffled' = shuffled \o Mapped(price)
  BY DEF map_row
<1>6. row.fields \in Nat /\ \A other \in Rows : other.price \in Int \cup {NoPrice}
  BY <1>3, MapReduceAssumption
<1>7. ASSUME NEW price \in Ninth(row), Valid(price)
      PROVE  IsPrice(price) /\ price > 0
  <2>1. \E other \in Rows : price = other.price
    BY <1>3, <1>7 DEF Ninth
  <2> QED
    BY <1>6, <1>7, <2>1 DEF IsPrice, Valid
<1>8. ReduceTypeOK'
  <2>1. shuffled' \in Seq(Line)
    <3>1. \A price \in Ninth(row) : shuffled \o Mapped(price) \in Seq(Line)
      BY <1>4, <1>7, MappedIs
    <3> QED
      BY <1>4, <1>5, <3>1
  <2> QED
    BY <1>1, <1>2, <1>3, <2>1 DEF ReduceTypeOK
<1>9. ASSUME Regular'
      PROVE  (Aligned /\ MeanSoFar /\ MeanDone /\ VarianceSoFar /\ VarianceDone)'
  <2>1. Regular
    BY <1>2, <1>9 DEF Regular
  <2>2. Aligned /\ MeanSoFar /\ MeanDone /\ VarianceSoFar /\ VarianceDone
    BY <2>1 DEF ReduceInv
  <2>3. RowsRead \in Nat /\ RowsRead' = n /\ n \in 1..Len(csv) /\ n - 1 = RowsRead
    BY <1>2, <1>3, <1>4, <2>2 DEF RowsRead, Aligned
  <2>4. csv[n] = row
    BY <1>3, <2>2 DEF Aligned
  <2>5. Aligned'
    <3>1. ASSUME NEW i \in 1..Len(unread')
          PROVE  unread'[i] = csv[n + i]
      <4>1. i + 1 \in 1..Len(unread) /\ RowsRead + (i + 1) = n + i
        BY <1>3, <2>3
      <4> QED
        BY <1>3, <2>2, <4>1 DEF Aligned
    <3> HIDE DEF n
    <3> QED
      BY <1>2, <2>3, <3>1 DEF Aligned
  <2>6. AsPrinted' = AsPrinted /\ Counted' = Counted /\ Priced' = Priced
    BY <1>2 DEF AsPrinted, Counted, Priced
  <2>7. n \in DOMAIN csv
    BY <1>4, <2>3
  <2>8. /\ AsPrinted[n] = IF n \in Priced THEN Rounded(row.price) ELSE 0
        /\ Counted[n] = IF n \in Priced THEN 1 ELSE 0
    BY <2>4, <2>7 DEF AsPrinted, Counted
  <2>9. n \in Priced <=> row.fields > 8 /\ Valid(row.price)
    BY <1>4, <2>4, <2>7, PricedIs
  <2>10. Squares(AsPrinted)[n] = AsPrinted[n] * AsPrinted[n]
    BY <1>4, <2>3, Columns, SquaresIs
  <2>11. row.fields # 8
    BY <2>1, <2>4, <2>7 DEF Regular
  <2>12. \/ n \notin Priced /\ shuffled' = shuffled
         \/ n \in Priced /\ shuffled' = shuffled \o Mapped(row.price)
    <3>1. CASE row.fields < 8
      BY <1>5, <1>6, <2>9, <3>1
    <3>2. CASE ~(row.fields < 8)
      <4>1. row.fields > 8
        BY <1>6, <2>11, <3>2
      <4>2. Ninth(row) = {row.price}
        BY <4>1 DEF Ninth
      <4>3. shuffled' = shuffled \o Mapped(row.price)
        BY <1>5, <3>2, <4>2
      <4>4. ~Valid(row.price) => shuffled \o Mapped(row.price) = shuffled
        BY <1>4, MappedIs
      <4> QED
        BY <2>9, <4>1, <4>3, <4>4
    <3> QED
      BY <3>1, <3>2
  <2>13. n \in Priced => row.price \in Ninth(row) /\ Valid(row.price)
    BY <2>9 DEF Ninth
  <2>14. /\ AsPrinted \in Seq(Int) /\ Len(AsPrinted) = Len(csv)
         /\ Squares(AsPrinted) \in Seq(Int) /\ Len(Squares(AsPrinted)) = Len(csv)
         /\ Counted \in Seq(Int) /\ Len(Counted) = Len(csv)
    BY <1>4, Columns
  <2>15. \A w \in Weight : Sum(Weighed(w, shuffled)) \in Int
    BY <1>4, WeighedIs
  <2> HIDE DEF n, row
  <2>16. mode = "mean" =>
           /\ Sum(Weighed(MeanWeight, shuffled')) = Sum(Weighed(MeanWeight, shuffled)) + AsPrinted[n]
           /\ Sum(Weighed(CountWeight, shuffled')) = Sum(Weighed(CountWeight, shuffled)) + Counted[n]
    <3>1. CASE n \notin Priced
      BY <2>8, <2>12, <2>15, <3>1, WeightsAre
    <3>2. CASE n \in Priced
      <4>1. /\ row.price \in Ninth(row) /\ Valid(row.price) /\ IsPrice(row.price) /\ row.price > 0
        BY <1>7, <2>13, <3>2
      <4>2. mode = "mean" =>
              /\ Sum(Weighed(MeanWeight, shuffled \o Mapped(row.price)))
                   = Sum(Weighed(MeanWeight, shuffled)) + Rounded(row.price)
              /\ Sum(Weighed(CountWeight, shuffled \o Mapped(row.price)))
                   = Sum(Weighed(CountWeight, shuffled)) + 1
        BY <1>4, <4>1, MappedIs
      <4> QED
        BY <2>8, <2>12, <3>2, <4>2
    <3> QED
      BY <3>1, <3>2
  <2>17. mode # "mean" =>
           /\ Sum(Weighed(PriceWeight, shuffled')) = Sum(Weighed(PriceWeight, shuffled)) + AsPrinted[n]
           /\ Sum(Weighed(SquareWeight, shuffled')) = Sum(Weighed(SquareWeight, shuffled)) + Squares(AsPrinted)[n]
           /\ Sum(Weighed(OneWeight, shuffled')) = Sum(Weighed(OneWeight, shuffled)) + Counted[n]
    <3>1. CASE n \notin Priced
      <4>1. AsPrinted[n] = 0 /\ Squares(AsPrinted)[n] = 0 /\ Counted[n] = 0 /\ shuffled' = shuffled
        BY <2>8, <2>10, <2>12, <3>1
      <4> QED
        BY <2>15, <4>1, WeightsAre
    <3>2. CASE n \in Priced
      <4>1. /\ row.price \in Ninth(row) /\ Valid(row.price) /\ IsPrice(row.price) /\ row.price > 0
        BY <1>7, <2>13, <3>2
      <4>2. mode # "mean" =>
              /\ Sum(Weighed(PriceWeight, shuffled \o Mapped(row.price)))
                   = Sum(Weighed(PriceWeight, shuffled)) + Rounded(row.price)
              /\ Sum(Weighed(SquareWeight, shuffled \o Mapped(row.price)))
                   = Sum(Weighed(SquareWeight, shuffled)) + Rounded(row.price) * Rounded(row.price)
              /\ Sum(Weighed(OneWeight, shuffled \o Mapped(row.price)))
                   = Sum(Weighed(OneWeight, shuffled)) + 1
        BY <1>4, <4>1, MappedIs
      <4>3. shuffled' = shuffled \o Mapped(row.price)
        BY <2>12, <3>2
      <4>4. AsPrinted[n] = Rounded(row.price) /\ Counted[n] = 1
        BY <2>8, <3>2
      <4>5. Squares(AsPrinted)[n] = Rounded(row.price) * Rounded(row.price)
        BY <2>10, <4>4
      <4> QED
        BY <4>2, <4>3, <4>4, <4>5
    <3> QED
      BY <3>1, <3>2
  <2>18. ASSUME NEW w \in Weight, NEW g \in Seq(Int), NEW acc, Len(g) = Len(csv),
                Tallied(acc, w, shuffled, g, RowsRead),
                Sum(Weighed(w, shuffled')) = Sum(Weighed(w, shuffled)) + g[n]
         PROVE  Tallied(acc, w, shuffled', g, n)
    <3>1. n \in 1..Len(g) /\ Tallied(acc, w, shuffled, g, n - 1)
      BY <2>3, <2>18
    <3> QED
      BY <1>4, <2>18, <3>1, TalliedMore
  <2>19. MeanSoFar'
    <3> SUFFICES ASSUME mode = "mean"
                 PROVE  /\ report["mean"] = <<>> /\ prices = <<>>
                        /\ Tallied(sums["mean"], MeanWeight, shuffled', AsPrinted, n)
                        /\ Tallied(counts["count"], CountWeight, shuffled', Counted, n)
      BY <1>2, <2>3, <2>6 DEF MeanSoFar
    <3>1. /\ report["mean"] = <<>> /\ prices = <<>>
          /\ Tallied(sums["mean"], MeanWeight, shuffled, AsPrinted, RowsRead)
          /\ Tallied(counts["count"], CountWeight, shuffled, Counted, RowsRead)
      BY <2>2 DEF MeanSoFar
    <3>2. Tallied(sums["mean"], MeanWeight, shuffled', AsPrinted, n)
      BY <2>14, <2>16, <2>18, <3>1, WeightsAre
    <3>3. Tallied(counts["count"], CountWeight, shuffled', Counted, n)
      BY <2>14, <2>16, <2>18, <3>1, WeightsAre
    <3> QED
      BY <3>1, <3>2, <3>3
  <2>20. MeanDone'
    BY <1>2, <2>2, <2>6 DEF MeanDone
  <2>21. VarianceSoFar'
    <3> SUFFICES ASSUME mode = "variance"
                 PROVE  /\ Tallied(Sum(prices), PriceWeight, shuffled', AsPrinted, n)
                        /\ Tallied(Sum(Squares(prices)), SquareWeight, shuffled', Squares(AsPrinted), n)
                        /\ Tallied(Len(prices), OneWeight, shuffled', Counted, n)
      BY <1>2, <2>3, <2>6 DEF VarianceSoFar
    <3>1. /\ Tallied(Sum(prices), PriceWeight, shuffled, AsPrinted, RowsRead)
          /\ Tallied(Sum(Squares(prices)), SquareWeight, shuffled, Squares(AsPrinted), RowsRead)
          /\ Tallied(Len(prices), OneWeight, shuffled, Counted, RowsRead)
      BY <2>2 DEF VarianceSoFar
    <3>2. Tallied(Sum(prices), PriceWeight, shuffled', AsPrinted, n)
      BY <2>14, <2>17, <2>18, <3>1, WeightsAre
    <3>3. Tallied(Sum(Squares(prices)), SquareWeight, shuffled', Squares(AsPrinted), n)
      BY <2>14, <2>17, <2>18, <3>1, WeightsAre
    <3>4. Tallied(Len(prices), OneWeight, shuffled', Counted, n)
      BY <2>14, <2>17, <2>18, <3>1, WeightsAre
    <3> QED
      BY <3>2, <3>3, <3>4
  <2>22. VarianceDone'
    BY <1>2, <2>2, <2>6 DEF VarianceDone
  <2> QED
    BY <2>5, <2>19, <2>20, <2>21, <2>22
<1> QED
  BY <1>8, <1>9 DEF ReduceInv

LEMMA MapCrashKeeps == ReduceInv /\ map_crash => ReduceInv'
<1> SUFFICES ASSUME ReduceInv, map_crash PROVE ReduceInv'
  OBVIOUS
<1>1. ReduceTypeOK
  BY DEF ReduceInv
<1>2. /\ unread # <<>> /\ Head(unread).fields = 8 /\ unread' = <<>> /\ csv' = csv
      /\ UNCHANGED <<mode, shuffled, reducerVars, report>>
  BY DEF map_crash
<1>3. ReduceTypeOK'
  BY <1>1, <1>2 DEF ReduceTypeOK, reducerVars
<1>4. ~Regular'
  <2> SUFFICES ASSUME Regular' PROVE FALSE
    OBVIOUS
  <2>1. Regular
    BY <1>2 DEF Regular
  <2>2. Aligned
    BY <2>1 DEF ReduceInv
  <2>3. unread \in Seq(Rows) /\ csv \in Seq(Rows)
    BY <1>1 DEF ReduceTypeOK
  <2>4. 1 \in 1..Len(unread) /\ Head(unread) = unread[1] /\ Len(unread) \in Nat /\ Len(csv) \in Nat
    BY <1>2, <2>3
  <2>5. Head(unread) = csv[RowsRead + 1]
    BY <2>2, <2>4 DEF Aligned
  <2>6. RowsRead + 1 \in DOMAIN csv
    BY <2>2, <2>3, <2>4 DEF Aligned, RowsRead
  <2> QED
    BY <1>2, <2>1, <2>5, <2>6 DEF Regular
<1> QED
  BY <1>3, <1>4 DEF ReduceInv

LEMMA AppendedPrice ==
    ASSUME NEW s \in Seq(Int), NEW x \in Int
    PROVE  /\ Append(s, x) \in Seq(Int) /\ Len(Append(s, x)) = Len(s) + 1
           /\ Sum(Append(s, x)) = Sum(s) + x
           /\ Sum(Squares(Append(s, x))) = Sum(Squares(s)) + x * x
<1> DEFINE t == Append(s, x)
<1>1. t \in Seq(Int) /\ Len(t) = Len(s) + 1 /\ t[Len(s) + 1] = x /\ Len(s) \in Nat
  OBVIOUS
<1>2. \A m \in 1..Len(s) : t[m] = s[m]
  OBVIOUS
<1> HIDE DEF t
<1>3. Sum(t) = Sum(s) + x
  BY <1>1, <1>2, SumMore
<1> DEFINE u == Squares(s)
           v == Squares(t)
<1>4. u \in Seq(Int) /\ Len(u) = Len(s) /\ \A m \in 1..Len(s) : u[m] = s[m] * s[m]
  BY SquaresIs
<1>5. v \in Seq(Int) /\ Len(v) = Len(t) /\ \A m \in 1..Len(t) : v[m] = t[m] * t[m]
  BY <1>1, SquaresIs
<1> HIDE DEF u, v
<1>6. Len(v) = Len(u) + 1 /\ v[Len(v)] = x * x
  <2>1. Len(v) = Len(s) + 1 /\ Len(v) \in 1..Len(t)
    BY <1>1, <1>5
  <2> QED
    BY <1>1, <1>4, <1>5, <2>1
<1>7. \A m \in 1..Len(u) : v[m] = u[m]
  <2> TAKE m \in 1..Len(u)
  <2>1. m \in 1..Len(s) /\ m \in 1..Len(t)
    BY <1>1, <1>4
  <2>2. v[m] = t[m] * t[m] /\ u[m] = s[m] * s[m] /\ t[m] = s[m]
    BY <1>2, <1>4, <1>5, <2>1
  <2> QED
    BY <2>2
<1>8. Sum(v) = Sum(u) + v[Len(v)]
  BY <1>4, <1>5, <1>6, <1>7, SumMore
<1> QED
  BY <1>1, <1>3, <1>6, <1>8 DEF t, u, v

LEMMA ReduceLineKeeps == ReduceInv /\ reduce_line => ReduceInv'
<1> SUFFICES ASSUME ReduceInv, reduce_line PROVE ReduceInv'
  OBVIOUS
<1>1. ReduceTypeOK
  BY DEF ReduceInv
<1>2. mode' = mode /\ csv' = csv /\ unread' = unread /\ report' = report
  BY DEF reduce_line
<1>3. PICK n \in DOMAIN shuffled :
          /\ shuffled' = RemoveAt(shuffled, n)
          /\ mode = "mean" =>
                /\ sums' = [sums EXCEPT ![shuffled[n].key] = @ + shuffled[n].value]
                /\ counts' = [counts EXCEPT ![shuffled[n].key] = @ + 1]
                /\ prices' = prices
          /\ mode # "mean" =>
                prices' = Append(prices, shuffled[n].value) /\ sums' = sums /\ counts' = counts
  BY DEF reduce_line
<1> DEFINE line == shuffled[n]
<1>4. shuffled \in Seq(Line) /\ prices \in Seq(Int) /\ csv \in Seq(Rows)
  BY <1>1 DEF ReduceTypeOK
<1>5. n \in 1..Len(shuffled) /\ line \in Line
  BY <1>4
<1>6. line.value \in Int
  BY <1>5 DEF Line
<1>7. shuffled' \in Seq(Line)
  BY <1>3, <1>4, <1>5, RemoveAtIs
<1> HIDE DEF line
<1>8. mode = "mean" =>
        /\ sums' = [sums EXCEPT ![line.key] = @ + line.value]
        /\ counts' = [counts EXCEPT ![line.key] = @ + 1] /\ prices' = prices
  BY <1>3 DEF line
<1>9. mode # "mean" => prices' = Append(prices, line.value) /\ sums' = sums /\ counts' = counts
  BY <1>3 DEF line
<1>10. ReduceTypeOK'
  <2>1. sums \in [Keys -> Int] /\ counts \in [Keys -> Int]
    BY <1>1 DEF ReduceTypeOK
  <2>2. prices' \in Seq(Int)
    BY <1>4, <1>6, <1>8, <1>9, AppendedPrice
  <2>3. sums' \in [Keys -> Int]
    BY <1>6, <1>8, <1>9, <2>1
  <2>4. counts' \in [Keys -> Int]
    BY <1>8, <1>9, <2>1
  <2> QED
    BY <1>1, <1>2, <1>7, <2>2, <2>3, <2>4 DEF ReduceTypeOK
<1>11. ASSUME Regular'
       PROVE  (Aligned /\ MeanSoFar /\ MeanDone /\ VarianceSoFar /\ VarianceDone)'
  <2>1. Regular
    BY <1>2, <1>11 DEF Regular
  <2>2. Aligned /\ MeanSoFar /\ MeanDone /\ VarianceSoFar /\ VarianceDone
    BY <2>1 DEF ReduceInv
  <2>3. RowsRead' = RowsRead /\ Aligned'
    BY <1>2, <2>2 DEF RowsRead, Aligned
  <2>4. AsPrinted' = AsPrinted /\ Counted' = Counted /\ Priced' = Priced
    BY <1>2 DEF AsPrinted, Counted, Priced
  <2>5. ASSUME NEW w \in Weight, NEW g, NEW acc, NEW new,
               Tallied(acc, w, shuffled, g, RowsRead), new = acc + w[line]
        PROVE  Tallied(new, w, shuffled', g, RowsRead)
    BY <1>3, <1>4, <1>5, <2>5, TalliedLess DEF line
  <2>6. MeanSoFar'
    <3> SUFFICES ASSUME mode = "mean"
                 PROVE  /\ report["mean"] = <<>> /\ prices' = <<>>
                        /\ Tallied(sums'["mean"], MeanWeight, shuffled', AsPrinted, RowsRead)
                        /\ Tallied(counts'["count"], CountWeight, shuffled', Counted, RowsRead)
      BY <1>2, <2>3, <2>4 DEF MeanSoFar
    <3>1. /\ report["mean"] = <<>> /\ prices = <<>>
          /\ Tallied(sums["mean"], MeanWeight, shuffled, AsPrinted, RowsRead)
          /\ Tallied(counts["count"], CountWeight, shuffled, Counted, RowsRead)
      BY <2>2 DEF MeanSoFar
    <3>2. /\ sums \in [Keys -> Int] /\ counts \in [Keys -> Int]
          /\ "mean" \in Keys /\ "count" \in Keys
      BY <1>1 DEF ReduceTypeOK, Keys
    <3>3. sums'["mean"] = sums["mean"] + MeanWeight[line]
      <4>1. MeanWeight[line] = IF line.key = "mean" THEN line.value ELSE 0
        BY <1>5 DEF MeanWeight, line
      <4>2. sums["mean"] \in Int
        BY <3>2
      <4> QED
        BY <1>8, <3>2, <4>1, <4>2
    <3>4. counts'["count"] = counts["count"] + CountWeight[line]
      <4>1. CountWeight[line] = IF line.key = "count" THEN 1 ELSE 0
        BY <1>5 DEF CountWeight, line
      <4>2. counts["count"] \in Int
        BY <3>2
      <4> QED
        BY <1>8, <3>2, <4>1, <4>2
    <3>5. Tallied(sums'["mean"], MeanWeight, shuffled', AsPrinted, RowsRead)
      BY <2>5, <3>1, <3>3, WeightsAre
    <3>6. Tallied(counts'["count"], CountWeight, shuffled', Counted, RowsRead)
      BY <2>5, <3>1, <3>4, WeightsAre
    <3> QED
      BY <1>8, <3>1, <3>5, <3>6
  <2>7. MeanDone'
    BY <1>2, <2>2, <2>4 DEF MeanDone
  <2>8. VarianceSoFar'
    <3> SUFFICES ASSUME mode = "variance"
                 PROVE  /\ Tallied(Sum(prices'), PriceWeight, shuffled', AsPrinted, RowsRead)
                        /\ Tallied(Sum(Squares(prices')), SquareWeight, shuffled', Squares(AsPrinted), RowsRead)
                        /\ Tallied(Len(prices'), OneWeight, shuffled', Counted, RowsRead)
      BY <1>2, <2>3, <2>4 DEF VarianceSoFar
    <3>1. /\ Tallied(Sum(prices), PriceWeight, shuffled, AsPrinted, RowsRead)
          /\ Tallied(Sum(Squares(prices)), SquareWeight, shuffled, Squares(AsPrinted), RowsRead)
          /\ Tallied(Len(prices), OneWeight, shuffled, Counted, RowsRead)
      BY <2>2 DEF VarianceSoFar
    <3>2. prices' = Append(prices, line.value)
      BY <1>9
    <3>3. /\ PriceWeight[line] = line.value /\ SquareWeight[line] = line.value * line.value
          /\ OneWeight[line] = 1
      BY <1>5 DEF PriceWeight, SquareWeight, OneWeight, line
    <3>4. /\ Sum(prices') = Sum(prices) + PriceWeight[line]
          /\ Sum(Squares(prices')) = Sum(Squares(prices)) + SquareWeight[line]
          /\ Len(prices') = Len(prices) + OneWeight[line]
      BY ZenonT(30), <1>4, <1>6, <3>2, <3>3, AppendedPrice
    <3>5. Tallied(Sum(prices'), PriceWeight, shuffled', AsPrinted, RowsRead)
      BY <2>5, <3>1, <3>4, WeightsAre
    <3>6. Tallied(Sum(Squares(prices')), SquareWeight, shuffled', Squares(AsPrinted), RowsRead)
      BY <2>5, <3>1, <3>4, WeightsAre
    <3>7. Tallied(Len(prices'), OneWeight, shuffled', Counted, RowsRead)
      BY <2>5, <3>1, <3>4, WeightsAre
    <3> QED
      BY <3>5, <3>6, <3>7
  <2>9. VarianceDone'
    BY <1>2, <2>2, <2>4 DEF VarianceDone
  <2> QED
    BY <2>3, <2>6, <2>7, <2>8, <2>9
<1> QED
  BY <1>10, <1>11 DEF ReduceInv

LEMMA PrintReportKeeps == ReduceInv /\ print_report => ReduceInv'
<1> SUFFICES ASSUME ReduceInv, print_report PROVE ReduceInv'
  OBVIOUS
<1> DEFINE N == Cardinality(Priced)
           SA == Sum(AsPrinted)
           SD == N * (N * Sum(Squares(AsPrinted)) - SA * SA)
           said == IF mode = "mean"
                   THEN <<IF counts["count"] = 0 THEN NaN
                          ELSE Streamed(sums["mean"], counts["count"])>>
                   ELSE IF prices = <<>> THEN <<Zero>>
                   ELSE <<Streamed(SquaredDeviations(prices),
                                   Len(prices) * Len(prices) * Len(prices)),
                          Streamed(Sum(prices), Len(prices))>>
<1>1. ReduceTypeOK
  BY DEF ReduceInv
<1>2. /\ mode # "end" /\ unread = <<>> /\ shuffled = <<>>
      /\ report' = [report EXCEPT ![mode] = said]
      /\ mode' = IF mode = "mean" THEN "variance" ELSE "end"
      /\ unread' = IF mode = "mean" THEN csv ELSE <<>>
      /\ csv' = csv /\ shuffled' = shuffled /\ sums' = sums /\ counts' = counts /\ prices' = prices
  BY DEF print_report, reducerVars
<1>3. mode = "mean" \/ mode = "variance"
  BY <1>1, <1>2 DEF ReduceTypeOK, Modes
<1>4. csv \in Seq(Rows) /\ Len(csv) \in Nat /\ prices \in Seq(Int)
  BY <1>1 DEF ReduceTypeOK
<1> HIDE DEF said
<1>5. report' = [m \in Modes |-> IF m = mode THEN said ELSE report[m]]
  BY <1>1, <1>2 DEF ReduceTypeOK
<1>6. ReduceTypeOK'
  <2>1. report' = [m \in Modes |-> report'[m]]
    BY <1>5
  <2>2. unread' \in Seq(Rows) /\ mode' \in Modes \cup {"end"}
    BY <1>2, <1>4 DEF Modes
  <2>3. shuffled' \in Seq(Line)
    BY <1>1, <1>2 DEF ReduceTypeOK
  <2>4. /\ csv' \in Seq(Rows) /\ prices' \in Seq(Int)
        /\ sums' \in [Keys -> Int] /\ counts' \in [Keys -> Int]
    BY <1>1, <1>2 DEF ReduceTypeOK
  <2> QED
    BY <2>1, <2>2, <2>3, <2>4 DEF ReduceTypeOK
<1>7. ASSUME Regular'
      PROVE  (Aligned /\ MeanSoFar /\ MeanDone /\ VarianceSoFar /\ VarianceDone)'
  <2>1. Regular
    BY <1>2, <1>7 DEF Regular
  <2>2. Aligned /\ MeanSoFar /\ MeanDone /\ VarianceSoFar /\ VarianceDone
    BY <2>1 DEF ReduceInv
  <2>3. AsPrinted' = AsPrinted /\ Counted' = Counted /\ Priced' = Priced
    BY <1>2 DEF AsPrinted, Counted, Priced
  <2>4. RowsRead = Len(csv)
    BY <1>2, <1>4 DEF RowsRead
  <2>5. /\ AsPrinted \in Seq(Int) /\ Len(AsPrinted) = Len(csv)
        /\ Squares(AsPrinted) \in Seq(Int) /\ Len(Squares(AsPrinted)) = Len(csv)
        /\ Counted \in Seq(Int) /\ Len(Counted) = Len(csv)
        /\ Sum(Counted) = N
    BY <1>4, Columns
  <2>6. ASSUME NEW w \in Weight, NEW g \in Seq(Int), NEW acc, Len(g) = Len(csv),
               Tallied(acc, w, shuffled, g, RowsRead)
        PROVE  acc = Sum(g)
    <3>1. Tallied(acc, w, <<>>, g, Len(g))
      BY <1>2, <2>4, <2>6
    <3> QED
      BY <3>1, TalliedAtLast
  <2>7. CASE mode = "mean"
    <3>1. mode' = "variance" /\ unread' = csv /\ shuffled' = <<>> /\ prices' = <<>>
      BY <1>2, <2>2, <2>7 DEF MeanSoFar
    <3>2. RowsRead' = 0
      BY <1>2, <1>4, <3>1 DEF RowsRead
    <3>3. Aligned'
      <4>1. \A i \in 1..Len(csv) : 0 + i = i
        BY <1>4
      <4> QED
        BY <1>2, <3>1, <3>2, <4>1 DEF Aligned
    <3>4. sums["mean"] = SA /\ counts["count"] = N
      BY <2>2, <2>5, <2>6, <2>7, WeightsAre DEF MeanSoFar
    <3>5. report'["mean"] = <<IF N = 0 THEN NaN ELSE Streamed(SA, N)>>
      <4>1. said = <<IF counts["count"] = 0 THEN NaN
                     ELSE Streamed(sums["mean"], counts["count"])>>
        BY <2>7 DEF said
      <4>2. report'["mean"] = said
        BY <1>5, <2>7 DEF Modes
      <4> QED
        BY <3>4, <4>1, <4>2
    <3>6. MeanDone'
      BY <2>3, <3>5 DEF MeanDone
    <3>7. /\ Tallied(0, PriceWeight, <<>>, AsPrinted, 0)
          /\ Tallied(0, SquareWeight, <<>>, Squares(AsPrinted), 0)
          /\ Tallied(0, OneWeight, <<>>, Counted, 0)
      BY <2>5, WeightsAre, TalliedAtFirst
    <3>8. Sum(prices') = 0 /\ Sum(Squares(prices')) = 0 /\ Len(prices') = 0
      BY <3>1, NothingComputed
    <3>9. VarianceSoFar'
      BY <2>3, <3>1, <3>2, <3>7, <3>8 DEF VarianceSoFar
    <3>10. MeanSoFar' /\ VarianceDone'
      BY <3>1 DEF MeanSoFar, VarianceDone
    <3> QED
      BY <3>3, <3>6, <3>9, <3>10
  <2>8. CASE mode = "variance"
    <3>1. mode' = "end" /\ unread' = <<>>
      BY <1>2, <2>8
    <3>2. Aligned'
      <4>1. RowsRead' = Len(csv) /\ Len(unread') = 0
        BY <1>2, <1>4, <3>1 DEF RowsRead
      <4> QED
        BY <1>2, <1>4, <3>1, <4>1 DEF Aligned
    <3>3. Sum(prices) = SA /\ Sum(Squares(prices)) = Sum(Squares(AsPrinted)) /\ Len(prices) = N
      BY <2>2, <2>5, <2>6, <2>8, WeightsAre DEF VarianceSoFar
    <3>4. SquaredDeviations(prices) = SD
      <4>1. SquaredDeviations(prices)
              = Len(prices) * (Len(prices) * Sum(Squares(prices)) - Sum(prices) * Sum(prices))
        BY <1>4, SumSquaredDeviations
      <4> QED
        BY <3>3, <4>1
    <3>5. prices = <<>> <=> N = 0
      BY <1>4, <3>3
    <3>6. report'["variance"] = IF N = 0 THEN <<Zero>>
                                ELSE <<Streamed(SD, N * N * N), Streamed(SA, N)>>
      <4> HIDE DEF N, SA, SD
      <4>1. report'["variance"] = said
        BY <1>5, <2>8 DEF Modes
      <4>2. CASE N = 0
        BY <2>8, <3>5, <4>1, <4>2 DEF said
      <4>3. CASE N # 0
        <5>1. said = <<Streamed(SquaredDeviations(prices),
                               Len(prices) * Len(prices) * Len(prices)),
                       Streamed(Sum(prices), Len(prices))>>
          BY <2>8, <3>5, <4>3 DEF said
        <5> QED
          BY <3>3, <3>4, <4>1, <4>3, <5>1
      <4> QED
        BY <4>2, <4>3
    <3>7. VarianceDone'
      BY <2>3, <3>6 DEF VarianceDone
    <3>8. MeanDone'
      <4>1. report'["mean"] = report["mean"]
        BY <1>5, <2>8 DEF Modes
      <4> QED
        BY <2>2, <2>3, <2>8, <4>1 DEF MeanDone
    <3>9. MeanSoFar' /\ VarianceSoFar'
      BY <3>1 DEF MeanSoFar, VarianceSoFar
    <3> QED
      BY <3>2, <3>7, <3>8, <3>9
  <2> QED
    BY <1>3, <2>7, <2>8
<1> QED
  BY <1>6, <1>7 DEF ReduceInv

LEMMA ReduceStutters == ReduceInv /\ UNCHANGED reduceVars => ReduceInv'
  BY DEF ReduceInv, reduceVars, reducerVars, ReduceTypeOK, Regular, Aligned, RowsRead,
         MeanSoFar, MeanDone, VarianceSoFar, VarianceDone, AsPrinted, Counted, Priced

LEMMA ReduceInvCorrect == ReduceSpec => []ReduceInv
<1>1. ReduceInv /\ [ReduceNext]_reduceVars => ReduceInv'
  BY MapRowKeeps, MapCrashKeeps, ReduceLineKeeps, PrintReportKeeps, ReduceStutters DEF ReduceNext
<1> QED
  BY <1>1, ReduceStart, PTL DEF ReduceSpec

LEMMA SomePriced ==
    ASSUME csv \in Seq(Rows)
    PROVE  Cardinality(Priced) = 0 <=> Priced = {}
<1>1. Priced \subseteq 1..Len(csv) /\ Len(csv) \in Nat
  BY DEF Priced
<1>2. IsFiniteSet(1..Len(csv))
  BY <1>1, FS_Interval
<1>3. IsFiniteSet(Priced)
  BY <1>1, <1>2, FS_Subset
<1> QED
  BY <1>3, FS_EmptySet

(***************************************************************************)
(* Whatever the rows and in whatever order sort leaves the lines, the      *)
(* reducer of the variance prints the mean that the reducer of the mean    *)
(* has printed.                                                            *)
(***************************************************************************)
THEOREM MeansAgreeCorrect == ReduceSpec => []MeansAgree
<1>1. ReduceInv => MeansAgree
  <2> SUFFICES ASSUME ReduceInv, Regular, mode = "end"
               PROVE  IF Priced = {}
                      THEN report["mean"] = <<NaN>> /\ report["variance"] = <<Zero>>
                      ELSE report["variance"][2] = report["mean"][1]
    BY DEF MeansAgree
  <2> DEFINE N == Cardinality(Priced)
             S == Sum(AsPrinted)
             D == N * (N * Sum(Squares(AsPrinted)) - S * S)
  <2>1. report["mean"] = <<IF N = 0 THEN NaN ELSE Streamed(S, N)>>
    BY DEF ReduceInv, MeanDone
  <2>2. report["variance"] = IF N = 0 THEN <<Zero>>
                             ELSE <<Streamed(D, N * N * N), Streamed(S, N)>>
    BY DEF ReduceInv, VarianceDone
  <2>3. N = 0 <=> Priced = {}
    BY SomePriced DEF ReduceInv, ReduceTypeOK
  <2> HIDE DEF N, S, D
  <2>4. CASE Priced = {}
    BY <2>1, <2>2, <2>3, <2>4
  <2>5. CASE Priced # {}
    BY <2>1, <2>2, <2>3, <2>5
  <2> QED
    BY <2>4, <2>5
<1> QED
  BY <1>1, ReduceInvCorrect, PTL

(***************************************************************************)
(* The mean printed differs from that of the prices by at most the two     *)
(* roundings, of the prices to text and of the mean itself.                *)
(***************************************************************************)
THEOREM PrecisionCorrect == ReduceSpec => []MeanWithinPrecision
<1>1. ReduceInv => MeanWithinPrecision
  <2> SUFFICES ASSUME ReduceInv, Regular, Reported("mean"), Priced # {},
                      NEW mean, mean = report["mean"][1],
                      NEW P, P = 10^(Digits - 1),
                      NEW cost, cost = Sum(Exactly) * mean.den,
                      NEW error, error = mean.num * Cardinality(Priced) - cost
               PROVE  /\ 4 * P * P * error <= (4 * P + 1) * cost
                      /\ -4 * P * P * error <= (4 * P + 1) * cost
    BY DEF MeanWithinPrecision
  <2>1. mode # "mean"
    BY DEF ReduceInv, MeanSoFar, Reported
  <2>2. csv \in Seq(Rows)
    BY DEF ReduceInv, ReduceTypeOK
  <2>3. mean = Streamed(Sum(AsPrinted), Cardinality(Priced))
    <3>1. report["mean"] = <<IF Cardinality(Priced) = 0 THEN NaN
                             ELSE Streamed(Sum(AsPrinted), Cardinality(Priced))>>
      BY <2>1 DEF ReduceInv, MeanDone
    <3>2. Cardinality(Priced) # 0
      BY <2>2, SomePriced
    <3> QED
      BY <3>1, <3>2
  <2> QED
    BY <2>2, <2>3, MeanNear
<1> QED
  BY <1>1, ReduceInvCorrect, PTL

(***************************************************************************)
(* The variance found by going over the prices twice is that of the        *)
(* textbook, of the prices as the mapper printed them.                     *)
(***************************************************************************)
THEOREM VarianceCorrect == ReduceSpec => []VarianceExact
<1>1. ReduceInv => VarianceExact
  <2> SUFFICES ASSUME ReduceInv, Regular, mode = "end", Priced # {},
                      NEW N, N = Cardinality(Priced),
                      NEW S, S = Sum(AsPrinted)
               PROVE  report["variance"][1] =
                          Streamed(N * (N * Sum(Squares(AsPrinted)) - S * S), N * N * N)
    BY DEF VarianceExact
  <2>1. report["variance"] = IF N = 0 THEN <<Zero>>
                             ELSE <<Streamed(N * (N * Sum(Squares(AsPrinted)) - S * S),
                                            N * N * N),
                                    Streamed(S, N)>>
    BY DEF ReduceInv, VarianceDone
  <2>2. N # 0
    BY SomePriced DEF ReduceInv, ReduceTypeOK
  <2> QED
    BY <2>1, <2>2
<1> QED
  BY <1>1, ReduceInvCorrect, PTL
=============================================================================
