------------------------------ MODULE IpFilter ------------------------------
(***************************************************************************)
(* ip_filter of hw-2: reads lines, keeps the first field of those that     *)
(* begin with an IPv4 address, and prints the addresses from the greatest  *)
(* to the least, all of them and then through three filters.               *)
(*                                                                         *)
(* A line is the sequence of pieces its first field falls into at the      *)
(* dots: none for an empty field.  A piece is what stringstream makes of   *)
(* it: the number it begins with (sign and leading blanks included, absent *)
(* if there is none or it overflows an int) and whether text is left.      *)
(***************************************************************************)
EXTENDS Integers, Sequences, FiniteSets, Functions

CONSTANTS
    Lines,      \* the lines that may come in
    Byte,       \* 256: the values of an octet
    NoNumber,
    MaxRead    \* bound: lines of input

Pieces == [number : Int \cup {NoNumber}, left : BOOLEAN]

ASSUME FilterAssumption ==
    /\ Lines \subseteq Seq(Pieces)
    /\ Byte \in Nat \ {0}
    /\ NoNumber \notin Int
    /\ MaxRead \in Nat

Octets == 0..(Byte - 1)
IPs == [1..4 -> Octets]

VARIABLES
    lines,      \* history: the lines read
    ip_pool,    \* the addresses found in them
    printed     \* the lists printed

filterVars == <<lines, ip_pool, printed>>

FilterInit ==
    /\ lines = <<>>
    /\ ip_pool = <<>>
    /\ printed = <<>>

\* parse_int, with the -1 that parse_octet makes of its error
parse_int(piece) == IF piece.number = NoNumber \/ piece.left THEN -1 ELSE piece.number

make_ip_succeeds(line) ==
    /\ Len(line) = 4
    /\ \A k \in 1..4 : parse_int(line[k]) \in Octets

IP(line) == [k \in 1..4 |-> parse_int(line[k])]

\* (mutant of collapsed_ip: the middle octets change places)
collapsed_ip_Swapped(ip) == ((ip[1] * Byte + ip[3]) * Byte + ip[2]) * Byte + ip[4]
\* the shifts and ors of IP::IP
collapsed_ip(ip) == ((ip[1] * Byte + ip[2]) * Byte + ip[3]) * Byte + ip[4]

-----------------------------------------------------------------------------
parse_line(line) ==
    /\ printed = <<>>
    /\ Len(lines) < MaxRead
    /\ lines' = Append(lines, line)
    /\ ip_pool' = IF make_ip_succeeds(line) THEN Append(ip_pool, IP(line)) ELSE ip_pool
    /\ UNCHANGED printed

\* std::ranges::sort: any order of the same addresses that the comparison allows
Descending(ips) ==
    \A m, n \in DOMAIN ips : m < n => ~(collapsed_ip(ips[m]) < collapsed_ip(ips[n]))

sort_reverse_lex(ips) ==
    {s \in {[n \in DOMAIN ips |-> ips[p[n]]] : p \in Bijection(DOMAIN ips, DOMAIN ips)} :
        Descending(s)}

\* the predicates of print_all and of the three calls of print_filtered
is_filtered(k, ip) ==
    CASE k = 1 -> TRUE
      [] k = 2 -> ip[1] = 1
      [] k = 3 -> ip[1] = 46 /\ ip[2] = 70
      [] k = 4 -> \E n \in 1..4 : ip[n] = 46

\* the loop over the pool
print_filtered(k, ips) ==
    LET out[n \in 0..Len(ips)] ==
            IF n = 0 THEN <<>>
            ELSE IF is_filtered(k, ips[n]) THEN Append(out[n - 1], ips[n]) ELSE out[n - 1]
    IN  out[Len(ips)]

\* the end of the input: main sorts the pool and prints it four times
print ==
    /\ printed = <<>>
    /\ ip_pool' \in sort_reverse_lex(ip_pool)
    /\ printed' = [k \in 1..4 |-> print_filtered(k, ip_pool')]
    /\ UNCHANGED lines

FilterNext == print \/ \E line \in Lines : parse_line(line)

FilterSpec == FilterInit /\ [][FilterNext]_filterVars

-----------------------------------------------------------------------------
(***************************************************************************)
(* The lists printed, against a definition by the text of the lines: each  *)
(* valid address is in every list it belongs to as often as it was read,   *)
(* and before those that are less octet by octet, from the left.           *)
(***************************************************************************)
LexLess(a, b) == \E k \in 1..4 : a[k] < b[k] /\ \A j \in 1..(k - 1) : a[j] = b[j]

Spelled(line, ip) ==
    /\ Len(line) = 4
    /\ \A k \in 1..4 : line[k] = [number |-> ip[k], left |-> FALSE]

Belongs(ip) ==
    {1} \cup (IF ip[1] = 1 THEN {2} ELSE {})
        \cup (IF <<ip[1], ip[2]>> = <<46, 70>> THEN {3} ELSE {})
        \cup (IF 46 \in {ip[1], ip[2], ip[3], ip[4]} THEN {4} ELSE {})

PrintsSortedLists ==
    printed # <<>> =>
        /\ \A k \in 1..4 : \A m, n \in DOMAIN printed[k] :
              m < n => ~LexLess(printed[k][m], printed[k][n])
        /\ \A k \in 1..4 :
              \A ip \in {IP(lines[n]) : n \in {m \in DOMAIN lines : Len(lines[m]) = 4}}
                        \cup {printed[k][n] : n \in DOMAIN printed[k]} :
                  Cardinality({n \in DOMAIN printed[k] : printed[k][n] = ip}) =
                      IF k \in Belongs(ip)
                      THEN Cardinality({n \in DOMAIN lines :
                              ip \in IPs /\ Spelled(lines[n], ip)})
                      ELSE 0
=============================================================================
