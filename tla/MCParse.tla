------------------------------ MODULE MCParse ------------------------------
(* All pairs of numbers of up to ten digits that have an interesting shape *)
(* behind a short name; some of them behind a long one; every name length  *)
(* with a few numbers; the first and the last second of every day of 2027. *)
(* Names contain '-', the byte one above the comma, and the byte behind    *)
(* the row is a digit of the next row or the zero of a buffer.             *)
EXTENDS Parse

RECURSIVE DigitsOf(_)
DigitsOf(n) == IF n < 10 THEN <<n>> ELSE DigitsOf(n \div 10) \o <<n % 10>>

Numbers == {1, 7, 10, 19, 90, 101, 120, 999, 1000, 4096, 10000, 65535, 100000, 999999,
            1000001, 9999999, 10000000, 12345678, 99999999, 100000000, 987654321,
            1000000000, 2000000009}

NameOf(n) == [i \in 1..n |-> IF i % 3 = 0 THEN 45 ELSE 97]

After(byte) == [i \in 1..160 |-> byte]

LineOf(ts, n, len, stamps, byte) ==
  [ts |-> DigitsOf(ts), name |-> NameOf(n), len |-> DigitsOf(len),
   stamps |-> DigitsOf(stamps), after |-> After(byte)]

MCLines ==
  {LineOf(YearStart, 3, len, st, b) :
     <<len, st, b>> \in Numbers \X (Numbers \cup {0}) \X {0, 49}}
  \cup {LineOf(YearStart, 40, len, st, 49) : <<len, st>> \in Numbers \X {0, 101, 12345678}}
  \cup {LineOf(YearStart, n, 9, st, 49) : <<n, st>> \in (1..104) \X {0, 12345678}}
  \cup {LineOf(YearStart + d * DaySeconds + s, 1, 1, 0, 0) :
          <<d, s>> \in (0..(YearDays - 1)) \X {0, 86399}}
=============================================================================
