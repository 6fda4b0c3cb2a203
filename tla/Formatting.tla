----------------------------- MODULE Formatting -----------------------------
(***************************************************************************)
(* Numbers and averages as decimal text.  The contest asks for what        *)
(* printf("%.2f", (double)total / count) prints; src/26-out.c,             *)
(* src/27-robust.c, tools/reference.zig and several entries under          *)
(* submissions/ have a conversion of their own, each with other arithmetic *)
(* to the same end.  A double is m / 2^s with a mantissa of Precision      *)
(* bits; the ratio of Precision to Largest is what binary64 has to uint32. *)
(***************************************************************************)
EXTENDS Integers, Sequences

CONSTANTS
  Precision,   (* bits of a double's mantissa                               *)
  Largest,     (* bound: totals and counts                                  *)
  Numbers      (* integers to print                                         *)

(* Shifts, and the table of powers of ten                                  *)
Two[n \in Nat] == IF n = 0 THEN 1 ELSE 2 * Two[n - 1]
Ten[n \in Nat] == IF n = 0 THEN 1 ELSE 10 * Ten[n - 1]

(* 53 bits against 32 leave room for two decimals of every quotient.  What *)
(* is printed fits in 32 bits.                                             *)
ASSUME PrecisionAssumption ==
  /\ Precision \in 1..64 /\ Largest \in Nat \ {0} /\ Largest \div 65536 < 65536
  /\ 200 * Largest < Two[Precision]
ASSUME NumbersAssumption ==
  Numbers \subseteq Nat /\ \A n \in Numbers : n \div 65536 < 65536

---------------------------------------------------------------------------
(* Rounding                                                                *)

(* The integer nearest to n / d, the even one of two.                      *)
NearestEven(n, d) ==
  LET q == n \div d
      r == n % d
  IN  IF 2 * r > d \/ (2 * r = d /\ q % 2 = 1) THEN q + 1 ELSE q

(* n / d, below 2^bits, rounded to a mantissa of so many bits              *)
RoundTo(n, d, bits) ==
  LET s == CHOOSE s \in 0..(2 * bits) : Two[bits - 1] * d <= n * Two[s] /\ n * Two[s] < Two[bits] * d
      m == NearestEven(n * Two[s], d)
  IN  IF m = Two[bits] THEN [m |-> Two[bits - 1], s |-> s - 1] ELSE [m |-> m, s |-> s]

(* Mutant: the quotient is a float.                                        *)
DivideFloat(total, count) ==
  LET f == RoundTo(total, count, Precision - 8) IN [m |-> f.m * Two[8], s |-> f.s + 8]

(* (double)total / count                                                   *)
Divide(total, count) == RoundTo(total, count, Precision)

(* printf's %.2f in hundredths: the value of the double, rounded once.     *)
Printf(f) == NearestEven(100 * f.m, Two[f.s])

---------------------------------------------------------------------------
(* The hundredths of the average, program by program                       *)

(* reference.zig writeAvg: twice the remainder against the divisor         *)
WriteAvg(f) ==
  LET scaled    == 100 * f.m
      divisor   == Two[f.s]
      quotient  == scaled \div divisor
      remainder == scaled % divisor
  IN  IF f.s <= 0 THEN scaled * Two[-f.s]
      ELSE IF f.s > 126 THEN 0
      ELSE IF remainder * 2 > divisor \/ (remainder * 2 = divisor /\ quotient % 2 = 1)
             THEN quotient + 1 ELSE quotient

(* 27-robust, and its copy among the entries                               *)
PutAvg(f) == WriteAvg(f)

(* 26-out                                                                  *)
PutAvg26(f) == WriteAvg(f)

(* Mutant: a tie is always rounded up.                                     *)
BiasHalfUp(f) == (100 * f.m + Two[f.s - 1]) \div Two[f.s]

(* 00-GPT append_average: a bias below half, or of half for an odd         *)
(* quotient, and one shift                                                 *)
AppendAverage(f) ==
  LET product  == 100 * f.m
      quotient == product \div Two[f.s]
      bias     == Two[f.s - 1] - 1 + (quotient % 2)
  IN  IF f.s < 64 THEN (product + bias) \div Two[f.s] ELSE 0

(* 06-kyomu rounded_hundredths: the remainder against half                 *)
RoundedHundredths(f) ==
  LET numerator == 100 * f.m
      integer   == numerator \div Two[f.s]
      remainder == numerator - integer * Two[f.s]
      halfway   == Two[f.s - 1]
  IN  IF f.s <= 0 THEN numerator * Two[-f.s]
      ELSE IF f.s >= 128 THEN 0
      ELSE IF remainder > halfway \/ (remainder = halfway /\ integer % 2 # 0)
             THEN integer + 1 ELSE integer

(* 01-zoi_dayo write_average_2dp, shift from the unbiased exponent         *)
WriteAverage2dp(f) ==
  LET exponent  == (Precision - 1) - f.s
      shift     == (Precision - 1) - exponent
      scaled    == (100 * f.m) \div Two[shift]
      remainder == (100 * f.m) % Two[shift]
      halfway   == Two[shift - 1]
  IN  IF remainder > halfway \/ (remainder = halfway /\ scaled % 2 # 0)
        THEN scaled + 1 ELSE scaled

(* Mutant: the product is a double.                                        *)
RintDouble(f) ==
  LET g == RoundTo(100 * f.m, Two[f.s], Precision)
  IN  NearestEven(g.m, Two[g.s])

(* 99-anko: rintl of a product of 11 more bits, which hold it              *)
RintLong(f) ==
  LET product == 100 * f.m
      g == IF product < Two[Precision + 11] THEN [m |-> product, s |-> f.s]
           ELSE RoundTo(product, Two[f.s], Precision + 11)
  IN  NearestEven(g.m, Two[g.s])

(* 99-zer0-star: the product rounded to a double and cut, then corrected   *)
(* by the fused difference, a multiple of 2^-s below one and so exact.     *)
FusedFraction(f) ==
  LET product == RoundTo(100 * f.m, Two[f.s], Precision)
      rounded == product.m \div Two[product.s]
      twice   == 2 * (100 * f.m - rounded * Two[f.s])
      up      == IF twice >= Two[f.s] THEN rounded + 1 ELSE rounded
  IN  IF twice = Two[f.s] THEN up - (up % 2) ELSE up

(* 13-uni_kakurenbo write_avg: no double, unless the quotient is a tie     *)
ExactUnlessTie(total, count) ==
  LET scaled    == 100 * total
      remainder == scaled % count
  IN  IF remainder * 2 = count THEN Printf(Divide(total, count))
      ELSE scaled \div count + (IF remainder * 2 > count THEN 1 ELSE 0)

Hundredths(writer, total, count) ==
  LET f == Divide(total, count) IN
  CASE writer = "reference" -> WriteAvg(f)
    [] writer = "26-out"    -> PutAvg26(f)
    [] writer = "27-robust" -> PutAvg(f)
    [] writer = "GPT"       -> AppendAverage(f)
    [] writer = "zoi_dayo"  -> WriteAverage2dp(f)
    [] writer = "kyomu"     -> RoundedHundredths(f)
    [] writer = "anko"      -> RintLong(f)
    [] writer = "zer0-star" -> FusedFraction(f)
    [] writer = "uni_kakurenbo" -> ExactUnlessTie(total, count)

---------------------------------------------------------------------------
(* The digits of a number, program by program: text is a sequence, the     *)
(* scratch buffer of those that write backwards is its tail.               *)

(* 27-robust put_u64: the digits, last one first, then reversed            *)
PutU64(v) ==
  LET tmp[x \in Nat] == IF x < 10 THEN <<x>> ELSE <<x % 10>> \o tmp[x \div 10]
      t == tmp[v]
  IN  [i \in 1..Len(t) |-> t[Len(t) + 1 - i]]

(* 26-out                                                                  *)
PutU64Of26(v) == PutU64(v)

(* 01-zoi_dayo write_u64: backwards from the end of the buffer             *)
WriteU64(v) ==
  LET back[x \in Nat] == IF x \div 10 = 0 THEN <<x % 10>> ELSE back[x \div 10] \o <<x % 10>>
  IN  back[v]

(* Two digits of digit_pairs                                               *)
Pair(x) == <<x \div 10, x % 10>>

(* Mutant: what is left is taken for two digits.                           *)
PairsPadded(v) ==
  LET back[x \in Nat] == IF x >= 100 THEN back[x \div 100] \o Pair(x % 100) ELSE Pair(x)
  IN  back[v]

(* append_unsigned_pairs of 06-kyomu, built with ONEBRC_PAIR_OUTPUT: two   *)
(* digits at a time from the end                                           *)
AppendPairs(v) ==
  LET back[x \in Nat] ==
        IF x >= 100 THEN back[x \div 100] \o Pair(x % 100)
        ELSE IF x >= 10 THEN Pair(x) ELSE <<x>>
  IN  back[v]

(* write_uint of 13-uni_kakurenbo                                          *)
WriteUint(v) == AppendPairs(v)

(* wu32 of 99-anko                                                         *)
Wu32(v) ==
  LET f[x \in Nat] == IF x >= 10 THEN f[x \div 10] \o <<x % 10>> ELSE <<x>>
  IN  f[v]

(* The bits of x | 1                                                       *)
BitWidth(x) == CHOOSE b \in 1..32 : x \div Two[b - 1] = 1 \/ (x = 0 /\ b = 1)

(* 00-GPT: 1233 / 4096 for the logarithm of 2, corrected by powers10       *)
EstimateDigits(x) ==
  LET estimate == (BitWidth(x) * 1233) \div 4096
      digits   == estimate + (IF x >= Ten[estimate] THEN 1 ELSE 0)
  IN  IF digits = 0 THEN 1 ELSE digits

(* 99-zer0-star fast_digit_count: the entries of table are d * 2^32 less   *)
(* 10^(d-1), or nothing when every number of the width has d digits        *)
TableDigits ==
  <<1, 2, 2, 2, 3, 3, 3, 4, 4, 4, 5, 5, 5, 5, 6, 6, 6, 7, 7, 7, 8, 8, 8, 8,
    9, 9, 9, 10, 10, 10, 10, 10>>
FastDigitCount(x) ==
  LET d == TableDigits[BitWidth(x)] IN IF d = 1 \/ x >= Ten[d - 1] THEN d ELSE d - 1

(* The room for the number is measured first and then filled from its end; *)
(* a digit that has no place is written in front of it.                    *)
FillFromEnd(v, room) ==
  LET t == AppendPairs(v) IN
  IF Len(t) = room THEN t ELSE <<-1>>

AppendUint(v) == FillFromEnd(v, EstimateDigits(v))

WriteNum(v) == IF v = 0 THEN <<0>> ELSE FillFromEnd(v, FastDigitCount(v))

Digits(writer, v) ==
  CASE writer = "26-out"    -> PutU64Of26(v)
    [] writer = "GPT"       -> AppendUint(v)
    [] writer = "zoi_dayo"  -> WriteU64(v)
    [] writer = "kyomu"     -> AppendPairs(v)
    [] writer = "anko"      -> Wu32(v)
    [] writer = "zer0-star" -> WriteNum(v)
    [] writer = "uni_kakurenbo" -> WriteUint(v)
    [] OTHER                 -> PutU64(v)
---------------------------------------------------------------------------
VARIABLES
  writer,     (* whose conversion: a program                                *)
  total,      (* what is printed: total / count, or total alone             *)
  count,      (* 0: a number                                                *)
  text        (* digits, and "." in an average                              *)

formatVars == <<writer, total, count, text>>

Programs == {"reference", "26-out", "27-robust", "GPT", "zoi_dayo", "kyomu",
             "anko", "zer0-star", "uni_kakurenbo"}

(* Every length is at least 1: no average is below 1.                      *)
FormatInit ==
  /\ writer \in Programs
  /\ \/ total \in Numbers /\ count = 0
     \/ total \in 1..Largest /\ count \in 1..total
  /\ text = <<>>

PrintNumber ==
  /\ text = <<>> /\ count = 0
  /\ text' = Digits(writer, total)
  /\ UNCHANGED <<writer, total, count>>

PrintAverage ==
  LET h == Hundredths(writer, total, count) IN
  /\ text = <<>> /\ count > 0
  /\ text' = Digits(writer, h \div 100) \o <<".">> \o Pair(h % 100)
  /\ UNCHANGED <<writer, total, count>>

FormatNext == PrintNumber \/ PrintAverage

FormatSpec == FormatInit /\ [][FormatNext]_formatVars

---------------------------------------------------------------------------
(* The value of a text of digits.                                          *)
Value(t) ==
  LET v[i \in 0..Len(t)] == IF i = 0 THEN 0 ELSE 10 * v[i - 1] + t[i]
  IN  v[Len(t)]

Printed == Value(SubSeq(text, 1, Len(text) - 3) \o SubSeq(text, Len(text) - 1, Len(text)))

(* Whatever arithmetic it uses, a program's average is the one printf      *)
(* prints for the quotient of two doubles: ties of the quotient that are   *)
(* no ties of the double, and products that a double cannot hold, included.*)
PrintsAsPrintf ==
  text # <<>> /\ count > 0 => Printed = Printf(Divide(total, count))

(* The two roundings, to a double and to hundredths, never add up: the     *)
(* printed average is within half a hundredth of the exact quotient.       *)
WithinHalf ==
  text # <<>> /\ count > 0 =>
    LET error == 2 * (Printed * count - 100 * total) IN -count <= error /\ error <= count

(* A number's text has its value and no leading zero: the room measured    *)
(* before the digits are known is the room they take.                      *)
WritesDecimal ==
  text # <<>> /\ count = 0 =>
    /\ \A i \in 1..Len(text) : text[i] \in 0..9
    /\ Value(text) = total
    /\ text[1] = 0 => text = <<0>>
=============================================================================
