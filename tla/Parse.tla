------------------------------- MODULE Parse -------------------------------
(***************************************************************************)
(* parse_row of src/27-robust.c and of the programs before it, byte by     *)
(* byte: from the text of a row and of what follows it in memory to its    *)
(* month, the length of its channel name, its two numbers and the start of *)
(* the next row.  A 64-bit word is a function from its eight lanes, the    *)
(* first byte in lane 0, to bytes; sums and differences of words carry and *)
(* borrow from lane to lane.                                               *)
(***************************************************************************)
EXTENDS Calendar, RowParsers, Bitwise, FiniteSetsExt, SequencesExt

CONSTANTS
  Lines,     (* rows: ts, len, stamps are sequences of digits, name of bytes,*)
             (* after is what follows the row                              *)
  Scans      (* the values of SCAN: with and without AVX-512               *)

Comma   == 44
Newline == 10
Zero    == 48

Lanes == 0..7

Ascii(ds) == [i \in DOMAIN ds |-> Zero + ds[i]]

Text(l) ==
  Ascii(l.ts) \o <<Comma>> \o l.name \o <<Comma>> \o Ascii(l.len) \o <<Comma>>
    \o Ascii(l.stamps) \o <<Newline>>

Decimal(ds) == FoldLeft(LAMBDA v, d : 10 * v + d, 0, ds)

MaxChannelLen == 104

VARIABLES
  line,       (* the row                                                    *)
  parser,     (* whose parser reads it: a member of Parsers                 *)
  scan,       (* SCAN, how many bytes the vector comparison looks at        *)
  pc,         (* "timestamp", "name", "numbers", "second", "done"           *)
  q,          (* the offset from the row's start                            *)
  r           (* Row: ts, channel_len, len, stamps                          *)

vars == <<line, parser, scan, pc, q, r>>

Memory == Text(line) \o line.after

Byte(at)  == Memory[at + 1]
Load8(at) == LET m == Memory IN [i \in Lanes |-> m[at + i + 1]]

---------------------------------------------------------------------------
(* Lane i of w - (c in every lane), and whether it borrows from lane i+1.  *)
LaneMinus(w, c) ==
  LET diff[i \in Lanes] == w[i] - c - (IF i > 0 /\ diff[i - 1] < 0 THEN 1 ELSE 0)
  IN  diff

(* ctz(mask) >> 3                                                          *)
FirstLane(mask) == Min(mask)

(* (v - 0x01..) & ~v & 0x80..: also marks a 1 that a zero below borrows    *)
(* from.                                                                   *)
ZeroBytes(v) == {i \in Lanes : LaneMinus(v, 1)[i] % 256 >= 128 /\ v[i] < 128}

CommaMask(w)   == ZeroBytes([i \in Lanes |-> w[i] ^^ Comma])
NewlineMask(w) == ZeroBytes([i \in Lanes |-> w[i] ^^ Newline])

(* w << 8k, and w & 0x0F..                                                 *)
ShiftUp(w, k) == [i \in Lanes |-> IF i < k THEN 0 ELSE w[i - k]]
Nibbles(w)    == [i \in Lanes |-> w[i] % 16]

(* Eight digits, pairwise into two, then four, then eight decimal places;  *)
(* each mask drops what is above the lane's width.                         *)
Swar10(x) ==
  LET two(i)  == (10 * x[2 * i] + x[2 * i + 1]) % 256
      four(i) == (100 * two(2 * i) + two(2 * i + 1)) % 65536
  IN  10000 * four(0) + four(1)

(* The k bytes below lane k, as a number                                   *)
Leading(w, k) == Swar10(Nibbles(ShiftUp(w, 8 - k)))

(* The digits bytes below lane k2                                          *)
Trailing(w, k2, digits) ==
  LET s == Nibbles(ShiftUp(w, 8 - k2)) IN
  Swar10([i \in Lanes |-> IF i < 8 - digits THEN 0 ELSE s[i]])

(* The comma by strchr or memchr; -1 stands for a difference to null.      *)
Memchr(at, n) ==
  LET found == {i \in 0..(n - 1) : Byte(at + i) = Comma}
  IN  IF found = {} THEN -1 ELSE Min(found)

(* From offset done on, eight bytes at a time                              *)
CommaFrom(at, done) ==
  LET word(k) == at + done + 8 * k
      k == CHOOSE k \in 0..13 :
             /\ CommaMask(Load8(word(k))) # {}
             /\ \A j \in 0..(k - 1) : CommaMask(Load8(word(j))) = {}
  IN  word(k) - at + FirstLane(CommaMask(Load8(word(k))))

(* name_len: the vector compare first                                      *)
NameLen(at) ==
  LET inScan == {i \in 0..(scan - 1) : Byte(at + i) = Comma}
  IN  IF inScan # {} THEN Min(inScan) ELSE CommaFrom(at, scan)

(* 07: the marks of two words gathered into one of 16 bits                 *)
NameLenByMarks(at) ==
  LET mask16 == CommaMask(Load8(at)) \cup {8 + i : i \in CommaMask(Load8(at + 8))}
  IN  IF mask16 # {} THEN Min(mask16) ELSE CommaFrom(at, 16)

(* 08 to 10: the word that has it chosen first                             *)
NameLenByWords(at) ==
  LET m0 == CommaMask(Load8(at))
      m1 == CommaMask(Load8(at + 8))
  IN  IF m0 # {} THEN FirstLane(m0)
      ELSE IF m1 # {} THEN 8 + FirstLane(m1) ELSE CommaFrom(at, 16)

ChannelLen(at) ==
  CASE parser.name = "line"    -> Memchr(at, Len(Text(line)) - at)
    [] parser.name = "file"    -> Memchr(at, Len(Memory) - at)
    [] parser.name = "bounded" -> Memchr(at, MaxChannelLen + 1)
    [] parser.name = "marks"   -> NameLenByMarks(at)
    [] parser.name = "words"   -> NameLenByWords(at)
    [] parser.name = "vector"  -> NameLen(at)

(* strtoll, or a loop: the value of the digits and the offset behind them  *)
(* and the separator                                                       *)
DigitLoop(at) ==
  LET k == Min({i \in 0..10 : Byte(at + i) \notin Zero..(Zero + 9)})
  IN  [value |-> Decimal([i \in 1..k |-> Byte(at + i - 1) - Zero]), next |-> at + k + 1]

(* parse_uint: the digits as a word, or in a loop when there are eight     *)
ParseUint(at) ==
  LET w  == Load8(at)
      nd == {i \in Lanes : LaneMinus(w, Zero)[i] % 256 >= 128}
  IN  IF nd = {} THEN DigitLoop(at)
      ELSE [value |-> Leading(w, FirstLane(nd)), next |-> at + FirstLane(nd) + 1]

Uint(at) == IF parser.uint = "word" THEN ParseUint(at) ELSE DigitLoop(at)

(* What is kept of the timestamp at the row's start                        *)
Stamp ==
  CASE parser.digits = "all"          -> DigitLoop(0).value
    [] parser.digits = "middle seven" -> Decimal([i \in 1..7 |-> Byte(i) - Zero])
    [] parser.digits = "first eight"  -> Swar10(Nibbles(Load8(0)))

(* The month, from 0, of what is kept                                      *)
Month(ts) ==
  CASE parser.month = "civil" -> YearMonth(ts) - 2027 * 12
    [] parser.month = "ends" /\ parser.digits = "all" -> MonthByChain(ts)
    [] parser.month = "ends" /\ parser.digits = "middle seven" -> MonthByChain7(ts)
    [] parser.month = "days" /\ parser.digits = "middle seven" -> MonthOf7(ts)
    [] parser.month = "days" /\ parser.digits = "first eight" -> MonthOf(ts)

---------------------------------------------------------------------------
Init ==
  /\ line \in Lines
  /\ parser \in Range(Parsers)
  /\ scan \in (IF parser.name = "vector" THEN Scans ELSE {Min(Scans)})
  /\ pc = "timestamp" /\ q = 0
  /\ r = [ts |-> 0, name |-> 0, len |-> 0, stamps |-> 0]

Timestamp ==
  /\ pc = "timestamp"
  /\ r' = [r EXCEPT !.ts = Stamp]
  /\ q' = 11 /\ pc' = "name"
  /\ UNCHANGED <<line, parser, scan>>

Name ==
  /\ pc = "name"
  /\ r' = [r EXCEPT !.name = ChannelLen(q)]
  /\ q' = q + ChannelLen(q) + 1 /\ pc' = "numbers"
  /\ UNCHANGED <<line, parser, scan>>

(* The newline is in the word: both numbers are.                           *)
InOneWord == parser.numbers # "apart" /\ NewlineMask(Load8(q)) # {}

(* The k1 digits below the comma: at once, or added up when they are few   *)
FirstOfWord(w, k1) ==
  LET v2 == 10 * (w[0] % 16) + (w[1] % 16) IN
  CASE parser.numbers = "together" \/ k1 > 3 -> Leading(w, k1)
    [] parser.numbers = "three" /\ k1 = 1 -> w[0] % 16
    [] parser.numbers = "three" /\ k1 = 2 -> v2
    [] parser.numbers = "three" /\ k1 = 3 -> 10 * v2 + (w[2] % 16)

(* Mutant: three digits and more are taken for two.                        *)
BothNumbersShort ==
  LET w  == Load8(q)
      k1 == FirstLane(CommaMask(w))
      k2 == FirstLane(NewlineMask(w))
      lo == w[k2 - 1] % 16
      hi == IF k2 - k1 - 1 >= 2 THEN w[k2 - 2] % 16 ELSE 0
  IN  /\ pc = "numbers" /\ InOneWord
      /\ r' = [r EXCEPT !.len = FirstOfWord(w, k1), !.stamps = 10 * hi + lo]
      /\ q' = q + k2 + 1 /\ pc' = "done"
      /\ UNCHANGED <<line, parser, scan>>

BothNumbers ==
  LET w  == Load8(q)
      k1 == FirstLane(CommaMask(w))
      k2 == FirstLane(NewlineMask(w))
      digits == k2 - k1 - 1
      lo == w[k2 - 1] % 16
      hi == IF digits >= 2 THEN w[k2 - 2] % 16 ELSE 0
  IN  /\ pc = "numbers" /\ InOneWord
      /\ r' = [r EXCEPT !.len = FirstOfWord(w, k1),
                        !.stamps = IF digits > 2 THEN Trailing(w, k2, digits) ELSE 10 * hi + lo]
      /\ q' = q + k2 + 1 /\ pc' = "done"
      /\ UNCHANGED <<line, parser, scan>>

FirstNumber ==
  /\ pc = "numbers" /\ ~InOneWord
  /\ r' = [r EXCEPT !.len = Uint(q).value]
  /\ q' = Uint(q).next /\ pc' = "second"
  /\ UNCHANGED <<line, parser, scan>>

SecondNumber ==
  /\ pc = "second"
  /\ r' = [r EXCEPT !.stamps = Uint(q).value]
  /\ q' = Uint(q).next /\ pc' = "done"
  /\ UNCHANGED <<line, parser, scan>>

Next == Timestamp \/ Name \/ BothNumbers \/ FirstNumber \/ SecondNumber

Spec == Init /\ [][Next]_vars

---------------------------------------------------------------------------
(* The row is read as it is written, whichever of the paths is taken and   *)
(* whatever follows it: every word holds bytes of other fields, or of the  *)
(* next row, beside those it is loaded for.                                *)
ReadsRow ==
  pc = "done" =>
    /\ r.name = Len(line.name)
    /\ r.len = Decimal(line.len) /\ r.stamps = Decimal(line.stamps)
    /\ q = Len(Text(line))

(* The month a program finds from the digits it keeps is the month of the  *)
(* whole timestamp, by every calendar of the repository, and its index     *)
(* into the table of days, if it has one, is in it.                        *)
MonthsAgree ==
  LET ts == Decimal(line.ts)
      month == MonthByChain(ts)
  IN  pc # "timestamp" =>
        /\ parser.month = "days" =>
             (IF parser.digits = "first eight" THEN DayIndex(r.ts) ELSE DayIndex7(r.ts))
               \in DOMAIN DayMonth
        /\ Month(r.ts) = month
        /\ Civil(ts) = [year |-> 2027, month |-> month + 1]
=============================================================================
