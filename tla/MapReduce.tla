----------------------------- MODULE MapReduce -----------------------------
(***************************************************************************)
(* The pipelines of hw-12, as run_locally.sh runs them one after the       *)
(* other on one input: a mapper, a shuffle of the lines it prints, and a   *)
(* reducer, for the mean of the prices and for their variance.             *)
(*                                                                         *)
(* A row is its number of fields and what std::stod makes of the ninth:    *)
(* a price, in a unit in which all are whole, or NoPrice when it throws.   *)
(* A number printed keeps Digits significant digits (6, the default        *)
(* precision of a stream), the price on its way to the reducer and the     *)
(* reducer's result alike.  What the text says is kept as a numerator and  *)
(* a denominator; the error of the double itself is left out.              *)
(***************************************************************************)
EXTENDS Integers, Sequences, FiniteSets, SequencesExt

CONSTANTS
    Rows,       \* the rows an input is made of: [fields, price]
    NoPrice,
    NaN,        \* what 0 / 0 is printed as
    Digits,     \* significant digits of a printed number
    MaxRows     \* bound: rows of an input

\* bound: by how many powers of ten a number can be off the digits printed
Shifts == 0..10
Mantissas == 10^(Digits - 1)..(10^Digits - 1)

ASSUME MapReduceAssumption ==
    /\ Digits \in 1..9
    /\ \A row \in Rows :
          /\ row.fields \in Nat /\ row.price \in Int \cup {NoPrice}
          /\ row.price # NoPrice /\ row.price >= 10^Digits =>
                \E d \in 1..9 : row.price \div 10^d \in Mantissas
    /\ MaxRows \in Nat

VARIABLES
    mode,       \* the script's argument, "end" when both have been run
    csv,        \* input/*.csv
    unread,     \* the rows the mapper has not read
    shuffled,   \* the lines printed by the mapper, not yet read by the reducer
    sums,       \* key -> sum of the values
    counts,     \* key -> how many
    prices,     \* what reducer_variance collects
    report      \* mode -> the numbers its reducer printed, <<>> before

reducerVars == <<sums, counts, prices>>
reduceVars == <<mode, csv, unread, shuffled, reducerVars, report>>

Keys == {"mean", "count"}
Modes == {"mean", "variance"}

ReduceInit ==
    /\ mode = "mean"
    /\ csv \in SeqOf(Rows, MaxRows)
    /\ unread = csv
    /\ shuffled = <<>>
    /\ sums = [k \in Keys |-> 0]
    /\ counts = [k \in Keys |-> 0]
    /\ prices = <<>>
    /\ report = [m \in Modes |-> <<>>]

\* (mutant of Nearest: the digits behind are cut off)
Nearest_Down(n, d) == n \div d
\* the whole number next to n / d, of two the even one
Nearest(n, d) ==
    LET q == n \div d
        r == 2 * (n % d)
    IN  IF r > d \/ (r = d /\ q % 2 = 1) THEN q + 1 ELSE q

Zero == [num |-> 0, den |-> 1]

\* operator<< for the double n / d
Streamed(n, d) ==
    IF n = 0 THEN Zero
    ELSE IF n >= 10^(Digits - 1) * d
    THEN LET e == CHOOSE e \in Shifts : n \div (d * 10^e) \in Mantissas
         IN  [num |-> Nearest(n, d * 10^e) * 10^e, den |-> 1]
    ELSE LET e == CHOOSE e \in Shifts : (n * 10^e) \div d \in Mantissas
         IN  [num |-> Nearest(n * 10^e, d), den |-> 10^e]

\* a whole number; below 10^Digits all of it is printed
Rounded(n) == IF n < 10^Digits THEN n ELSE Streamed(n, 1).num

\* (mutant of Valid: one mapper lets a price of zero through)
Valid_Zero(price) == price # NoPrice /\ (IF mode = "mean" THEN price > 0 ELSE price >= 0)
Valid(price) == price # NoPrice /\ price > 0

Mapped(price) ==
    IF ~Valid(price) THEN <<>>
    ELSE IF mode = "mean"
         THEN <<[key |-> "mean", value |-> Rounded(price)], [key |-> "count", value |-> 1]>>
         ELSE <<[key |-> "price", value |-> Rounded(price)]>>

\* What fields[8] may hold.  With eight fields it lies past the end of the
\* vector: whatever is there is taken for a string.
Ninth(row) ==
    IF row.fields > 8 THEN {row.price} ELSE {other.price : other \in Rows}

-----------------------------------------------------------------------------
\* mapper_mean, mapper_variance: one line of their input
map_row ==
    /\ unread # <<>>
    /\ LET row == Head(unread) IN
       \/ /\ row.fields < 8
          /\ unread' = Tail(unread)
          /\ UNCHANGED shuffled
       \/ /\ row.fields >= 8
          /\ unread' = Tail(unread)
          /\ \E price \in Ninth(row) : shuffled' = shuffled \o Mapped(price)
    /\ UNCHANGED <<mode, csv, reducerVars, report>>

\* reading past the end may also kill the mapper: the rest is not read
map_crash ==
    /\ unread # <<>>
    /\ Head(unread).fields = 8
    /\ unread' = <<>>
    /\ UNCHANGED <<mode, csv, shuffled, reducerVars, report>>

\* reducer_mean, reducer_variance: one line, in the order sort gave them
reduce_line ==
    /\ unread = <<>>
    /\ \E n \in DOMAIN shuffled :
          LET line == shuffled[n] IN
          /\ shuffled' = RemoveAt(shuffled, n)
          /\ IF mode = "mean"
             THEN /\ sums' = [sums EXCEPT ![line.key] = @ + line.value]
                  /\ counts' = [counts EXCEPT ![line.key] = @ + 1]
                  /\ UNCHANGED prices
             ELSE /\ prices' = Append(prices, line.value)
                  /\ UNCHANGED <<sums, counts>>
    /\ UNCHANGED <<mode, csv, unread, report>>

Sum(s) ==
    LET upTo[n \in 0..Len(s)] == IF n = 0 THEN 0 ELSE upTo[n - 1] + s[n]
    IN  upTo[Len(s)]
Squares(s) == [n \in DOMAIN s |-> s[n] * s[n]]

\* (mutant of SquaredDeviations: from the first price instead of the mean)
SquaredDeviations_First(s) ==
    Sum(Squares([n \in DOMAIN s |-> Len(s) * (s[n] - s[1])]))
\* of s from its mean, times Len(s)^2
SquaredDeviations(s) == Sum(Squares([n \in DOMAIN s |-> Len(s) * s[n] - Sum(s)]))

\* the end of the reducer's input
print_report ==
    /\ mode # "end"
    /\ unread = <<>>
    /\ shuffled = <<>>
    /\ report' = [report EXCEPT ![mode] =
          IF mode = "mean"
          THEN <<IF counts["count"] = 0 THEN NaN
                 ELSE Streamed(sums["mean"], counts["count"])>>
          ELSE IF prices = <<>> THEN <<Zero>>
          ELSE <<Streamed(SquaredDeviations(prices), Len(prices) * Len(prices) * Len(prices)),
                 Streamed(Sum(prices), Len(prices))>>]
    /\ mode' = IF mode = "mean" THEN "variance" ELSE "end"
    /\ unread' = IF mode = "mean" THEN csv ELSE <<>>
    /\ UNCHANGED <<csv, shuffled, reducerVars>>

ReduceNext == map_row \/ map_crash \/ reduce_line \/ print_report

ReduceSpec == ReduceInit /\ [][ReduceNext]_reduceVars

-----------------------------------------------------------------------------
Reported(m) == report[m] # <<>>

\* a row with exactly eight fields leaves everything open
Regular == \A n \in DOMAIN csv : csv[n].fields # 8

\* the rows whose price counts, what they cost and what is printed of that
Priced == {n \in DOMAIN csv :
              csv[n].fields > 8 /\ csv[n].price # NoPrice /\ csv[n].price > 0}
Exactly == [n \in DOMAIN csv |-> IF n \in Priced THEN csv[n].price ELSE 0]
AsPrinted == [n \in DOMAIN csv |-> IF n \in Priced THEN Rounded(csv[n].price) ELSE 0]

(***************************************************************************)
(* The two programs agree on what the prices are: the mean that            *)
(* reducer_variance prints "for check" is that of reducer_mean, in         *)
(* whatever order the lines were shuffled.  Without prices the first       *)
(* prints 0 and no mean, the other a nan.                                  *)
(***************************************************************************)
MeansAgree ==
    Regular /\ mode = "end" =>
        IF Priced = {} THEN report["mean"] = <<NaN>> /\ report["variance"] = <<Zero>>
        ELSE report["variance"][2] = report["mean"][1]

(***************************************************************************)
(* Prices pass through text, and so does their mean: what is printed is    *)
(* off by at most half a unit of the last of Digits significant digits     *)
(* twice, which for P = 10^(Digits - 1) is a part 1/P + 1/(4P^2) of it.    *)
(***************************************************************************)
MeanWithinPrecision ==
    Regular /\ Reported("mean") /\ Priced # {} =>
        LET mean == report["mean"][1]
            P == 10^(Digits - 1)
            cost == Sum(Exactly) * mean.den
            error == mean.num * Cardinality(Priced) - cost
        IN  /\ 4 * P * P * error <= (4 * P + 1) * cost
            /\ -4 * P * P * error <= (4 * P + 1) * cost

(***************************************************************************)
(* The variance in two passes is the mean of the squares less the square   *)
(* of the mean, of the prices as the mapper printed them.                  *)
(***************************************************************************)
VarianceExact ==
    Regular /\ mode = "end" /\ Priced # {} =>
        LET N == Cardinality(Priced)
            S == Sum(AsPrinted)
        IN  report["variance"][1] =
                Streamed(N * (N * Sum(Squares(AsPrinted)) - S * S), N * N * N)
=============================================================================
