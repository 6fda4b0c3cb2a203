--------------------------- MODULE Shared_proofs ---------------------------
(***************************************************************************)
(* Lemmas on the operators that the state machines share, for the proofs   *)
(* about several of them: the bytes of an input (Layout, for Partition and *)
(* Cuts), and what the operations on a context do to it, for every set of  *)
(* channels that fits the table and every hash function (Ctx, for Worker and *)
(* Main).  Two theorems are about the day of a timestamp (Calendar).       *)
(***************************************************************************)
EXTENDS SequencesExt, Layout, Calendar, Ctx, FiniteSetTheorems, WellFoundedInduction, TLAPS

(* The arithmetic of a row: it has 17 to 138 bytes.                        *)
LEMMA RowSize ==
  ASSUME NEW r \in Shape
  PROVE  /\ r.name \in 1..104 /\ r.len \in 1..10 /\ r.stamps \in 1..10
         /\ RowLength(r) \in Nat /\ 17 <= RowLength(r) /\ RowLength(r) <= 138
<1>1. r.name \in 1..104 /\ r.len \in 1..10 /\ r.stamps \in 1..10
  BY DEF Shape
<1>2. QED  BY <1>1, SMTT(30) DEF RowLength

(* The end of a row is again the start of a row, or the end of the file.   *)
LEMMA NextRow ==
  ASSUME NEW f, FileOK(f), NEW s \in DOMAIN f.rows
  PROVE  /\ s \in Nat /\ f.body <= s
         /\ RowEnd(f, s) \in Nat
         /\ s < RowEnd(f, s)
         /\ RowEnd(f, s) <= f.size
         /\ LineStart(f, RowEnd(f, s))
<1>1. /\ f.size \in Nat /\ f.body \in Nat /\ f.body <= s
      /\ s \in Nat /\ f.rows[s] \in Shape /\ RowEnd(f, s) <= f.size
  BY DEF FileOK
<1>2. RowEnd(f, s) \in Nat /\ s < RowEnd(f, s)
  BY <1>1, RowSize DEF RowEnd
<1>3. CASE RowEnd(f, s) = f.size
  BY <1>1, <1>2, <1>3 DEF LineStart
<1>4. CASE RowEnd(f, s) < f.size
  <2> DEFINE p == RowEnd(f, s)
  <2>1. p \in f.body..(f.size - 1)
    BY <1>1, <1>2, <1>4
  <2>2. PICK s1 \in DOMAIN f.rows : s1 <= p /\ p < RowEnd(f, s1)
    BY <2>1 DEF FileOK
  <2>3. s1 \in Nat
    BY <1>1 DEF FileOK
  <2>4. ~ (s1 < s)
    <3>1. SUFFICES ASSUME s1 < s PROVE FALSE
      OBVIOUS
    <3>2. RowEnd(f, s1) <= s
      BY <3>1 DEF FileOK
    <3>3. RowEnd(f, s1) \in Int
      BY <2>3, RowSize DEF FileOK, RowEnd
    <3>4. QED  BY <3>2, <3>3, <2>2, <1>1, <1>2
  <2>5. s1 # s
    BY <2>2, <1>2
  <2>6. p <= s1
    BY <2>3, <2>4, <2>5, <1>1 DEF FileOK
  <2>7. p = s1
    BY <2>2, <2>3, <2>6, <1>2
  <2>8. QED  BY <2>7, <1>1, <1>2 DEF LineStart
<1>5. QED  BY <1>1, <1>2, <1>3, <1>4

(* memchr from inside the body finds the end of the row it starts in.      *)
LEMMA LineAfterIs ==
  ASSUME NEW f, FileOK(f), NEW from \in Nat, NEW to \in Nat, NEW other,
         f.body <= from, from < to, to <= f.size, LineStart(f, to)
  PROVE  \E s \in DOMAIN f.rows :
            /\ s <= from /\ from < RowEnd(f, s)
            /\ RowEnd(f, s) <= to
            /\ LineAfter(f, from, to, other) = RowEnd(f, s)
<1>1. f.size \in Nat /\ f.body \in Nat
  BY DEF FileOK
<1>2. PICK s \in DOMAIN f.rows : s <= from /\ from < RowEnd(f, s)
  BY <1>1 DEF FileOK
<1>3. s \in Nat /\ RowEnd(f, s) \in Nat /\ RowEnd(f, s) <= f.size
  BY NextRow
<1>4. RowEnd(f, s) <= to
  <2>1. CASE to = f.size
    BY <2>1, <1>3
  <2>2. CASE to \in DOMAIN f.rows
    BY <2>2, <1>2, <1>3 DEF FileOK
  <2>3. QED  BY <2>1, <2>2 DEF LineStart
<1> DEFINE n == RowEnd(f, s) - 1
           hits == {m \in Newlines(f) : from <= m /\ m < to}
<1>5. n \in hits
  BY <1>2, <1>3, <1>4 DEF Newlines
<1>6. ASSUME NEW m \in hits
      PROVE  m \in Int /\ n <= m
  <2>1. CASE m = f.body - 1
    BY <2>1, <1>1, <1>6
  <2>2. CASE \E s1 \in DOMAIN f.rows : m = RowEnd(f, s1) - 1
    <3>1. PICK s1 \in DOMAIN f.rows : m = RowEnd(f, s1) - 1
      BY <2>2
    <3>2. s1 \in Nat /\ RowEnd(f, s1) \in Nat /\ s1 < RowEnd(f, s1)
      BY NextRow
    <3>3. ~ (s1 < s)
      <4>1. SUFFICES ASSUME s1 < s PROVE FALSE
        OBVIOUS
      <4>2. RowEnd(f, s1) <= s
        BY <4>1 DEF FileOK
      <4>3. QED  BY <4>2, <3>1, <3>2, <1>2, <1>3
    <3>4. CASE s1 = s
      BY <3>4, <3>1, <1>3
    <3>5. CASE s < s1
      <4>1. RowEnd(f, s) <= s1
        BY <3>5 DEF FileOK
      <4>2. QED  BY <4>1, <3>1, <3>2, <1>3
    <3>6. QED  BY <3>2, <3>3, <3>4, <3>5, <1>3
  <2>3. QED  BY <2>1, <2>2 DEF Newlines
<1>7. n = CHOOSE x \in hits : \A m \in hits : x <= m
  <2>1. \A x \in hits : (\A m \in hits : x <= m) => x = n
    BY <1>3, <1>5, <1>6
  <2>2. \A m \in hits : n <= m
    BY <1>6
  <2> HIDE DEF hits, n
  <2>3. QED  BY <2>1, <2>2, <1>5
<1>8. LineAfter(f, from, to, other) = 1 + n
  <2> HIDE DEF n
  <2>1. QED  BY <1>5, <1>7 DEF LineAfter
<1>9. QED  BY <1>2, <1>3, <1>4, <1>8

(* memchr on an empty range finds nothing.                                 *)
LEMMA LineAfterNone ==
  ASSUME NEW f, FileOK(f), NEW from \in Nat, NEW to \in Nat, NEW other, to <= from
  PROVE  LineAfter(f, from, to, other) = other
<1>1. ASSUME NEW n \in Newlines(f), from <= n, n < to
      PROVE  FALSE
  <2>1. n \in Int
    BY NextRow DEF Newlines, FileOK
  <2>2. QED  BY <1>1, <2>1
<1>2. {n \in Newlines(f) : from <= n /\ n < to} = {}
  BY <1>1
<1>3. QED  BY <1>2 DEF LineAfter

(* A later position is in the same row or in a later one.                  *)
LEMMA LineAfterMonotone ==
  ASSUME NEW f, FileOK(f), NEW p \in Nat, NEW q \in Nat, NEW to \in Nat,
         f.body <= p, p <= q, to <= f.size, LineStart(f, to)
  PROVE  LineAfter(f, p, to, to) <= LineAfter(f, q, to, to)
<1>1. f.body \in Nat
  BY DEF FileOK
<1>2. CASE to <= p
  BY <1>2, LineAfterNone
<1>3. CASE p < to /\ to <= q
  <2>1. LineAfter(f, q, to, to) = to
    BY <1>3, LineAfterNone
  <2>2. PICK s \in DOMAIN f.rows : RowEnd(f, s) <= to /\ LineAfter(f, p, to, to) = RowEnd(f, s)
    BY <1>3, LineAfterIs
  <2>3. QED  BY <2>1, <2>2
<1>4. CASE q < to
  <2>1. PICK s1 \in DOMAIN f.rows : /\ s1 <= p /\ p < RowEnd(f, s1)
                                    /\ LineAfter(f, p, to, to) = RowEnd(f, s1)
    BY <1>4, LineAfterIs
  <2>2. PICK s2 \in DOMAIN f.rows : /\ s2 <= q /\ q < RowEnd(f, s2)
                                    /\ LineAfter(f, q, to, to) = RowEnd(f, s2)
    BY <1>1, <1>4, LineAfterIs
  <2>3. /\ s1 \in Nat /\ RowEnd(f, s1) \in Nat /\ s1 < RowEnd(f, s1)
        /\ s2 \in Nat /\ RowEnd(f, s2) \in Nat /\ s2 < RowEnd(f, s2)
    BY NextRow
  <2>4. CASE s1 = s2
    BY <2>1, <2>2, <2>3, <2>4
  <2>5. CASE s1 < s2
    <3>1. RowEnd(f, s1) <= s2
      BY <2>5 DEF FileOK
    <3>2. QED  BY <3>1, <2>1, <2>2, <2>3
  <2>6. CASE s2 < s1
    <3>1. RowEnd(f, s2) <= s1
      BY <2>6 DEF FileOK
    <3>2. QED  BY <3>1, <2>1, <2>2, <2>3
  <2>7. QED  BY <2>3, <2>4, <2>5, <2>6
<1>5. QED  BY <1>2, <1>3, <1>4

(* The end of a share: a row starts there, and it is between the position  *)
(* that was asked for and the last one allowed.                            *)
LEMMA LineAfterFacts ==
  ASSUME NEW f, FileOK(f), NEW from \in Nat, NEW to \in Nat,
         f.body <= from, from <= to, to <= f.size, LineStart(f, to)
  PROVE  /\ LineAfter(f, from, to, to) \in Nat
         /\ from <= LineAfter(f, from, to, to) /\ LineAfter(f, from, to, to) <= to
         /\ LineStart(f, LineAfter(f, from, to, to))
<1>1. CASE from = to
  BY <1>1, LineAfterNone
<1>2. CASE from < to
  <2>1. PICK s \in DOMAIN f.rows :
          /\ from < RowEnd(f, s) /\ RowEnd(f, s) <= to
          /\ LineAfter(f, from, to, to) = RowEnd(f, s)
    BY <1>2, LineAfterIs
  <2>2. RowEnd(f, s) \in Nat /\ LineStart(f, RowEnd(f, s))
    BY NextRow
  <2>3. QED  BY <2>1, <2>2
<1>3. QED  BY <1>1, <1>2

(* The body starts a row, or ends the file.                                 *)
LEMMA BodyStartsRow ==
  ASSUME NEW f, FileOK(f)
  PROVE  f.body \in Nat /\ f.size \in Nat /\ f.body <= f.size /\ LineStart(f, f.body)
<1>1. f.body \in Nat /\ f.size \in Nat /\ f.body <= f.size
  BY DEF FileOK
<1>2. CASE f.body = f.size
  BY <1>1, <1>2 DEF LineStart
<1>3. CASE f.body < f.size
  <2>1. PICK s \in DOMAIN f.rows : s <= f.body
    BY <1>1, <1>3 DEF FileOK
  <2>2. s = f.body
    BY <2>1, <1>1, NextRow
  <2>3. QED  BY <2>2, <1>1 DEF LineStart
<1>4. QED  BY <1>1, <1>2, <1>3

(* From a row start below a row start, the row ends no later.              *)
LEMMA RowBelow ==
  ASSUME NEW f, FileOK(f), NEW p \in Nat, NEW q \in Nat,
         LineStart(f, p), LineStart(f, q), p < q, q <= f.size
  PROVE  /\ p \in DOMAIN f.rows
         /\ RowEnd(f, p) \in Nat /\ p < RowEnd(f, p) /\ RowEnd(f, p) <= q
         /\ LineStart(f, RowEnd(f, p))
         /\ \A s \in DOMAIN f.rows : s < RowEnd(f, p) => s <= p
<1>1. f.size \in Nat
  BY DEF FileOK
<1>2. p \in DOMAIN f.rows
  BY <1>1 DEF LineStart
<1>3. /\ RowEnd(f, p) \in Nat /\ p < RowEnd(f, p) /\ RowEnd(f, p) <= f.size
      /\ LineStart(f, RowEnd(f, p))
  BY <1>2, NextRow
<1>4. RowEnd(f, p) <= q
  BY <1>2, <1>3 DEF LineStart, FileOK
<1>5. ASSUME NEW s \in DOMAIN f.rows, s < RowEnd(f, p)
      PROVE  s <= p
  <2>1. s \in Nat
    BY NextRow
  <2>2. ~ (p < s)
    BY <1>2, <1>3, <1>5, <2>1 DEF FileOK
  <2>3. QED  BY <2>1, <2>2
<1>6. QED  BY <1>2, <1>3, <1>4, <1>5

(* Where the rows start that may be less than TailSlack bytes long.        *)
SlackStart(f) ==
  IF f.size - f.body > TailSlack THEN LineAfter(f, f.size - TailSlack, f.size, 0) ELSE f.body

(* The tail: it starts a row, it fits the slack, and every row before it   *)
(* starts at least TailSlack bytes before the end of the mapping.          *)
LEMMA SlackFacts ==
  ASSUME NEW f, FileOK(f)
  PROVE  /\ SlackStart(f) \in Nat
         /\ f.body <= SlackStart(f) /\ SlackStart(f) <= f.size
         /\ LineStart(f, SlackStart(f))
         /\ f.size - SlackStart(f) <= TailSlack
         /\ \A s \in DOMAIN f.rows : s < SlackStart(f) => s + TailSlack <= f.size
<1>1. /\ f.size \in Nat /\ f.body \in Nat /\ f.body <= f.size
      /\ \A s \in DOMAIN f.rows : s \in Nat /\ f.body <= s
  BY NextRow DEF FileOK
<1>2. CASE f.size - f.body > TailSlack
  <2> DEFINE cand == f.size - TailSlack
  <2>1. cand \in Nat /\ f.body <= cand /\ cand < f.size
    BY <1>1, <1>2 DEF TailSlack
  <2>2. LineStart(f, f.size)
    BY DEF LineStart
  <2>3. PICK s0 \in DOMAIN f.rows :
           /\ s0 <= cand /\ cand < RowEnd(f, s0)
           /\ LineAfter(f, cand, f.size, 0) = RowEnd(f, s0)
    <3> HIDE DEF cand
    <3>1. QED  BY <2>1, <2>2, <1>1, LineAfterIs
  <2>4. SlackStart(f) = RowEnd(f, s0)
    BY <1>2, <2>3 DEF SlackStart
  <2>5. /\ RowEnd(f, s0) \in Nat /\ s0 < RowEnd(f, s0) /\ RowEnd(f, s0) <= f.size
        /\ LineStart(f, RowEnd(f, s0))
    BY NextRow
  <2>6. ASSUME NEW s \in DOMAIN f.rows, s < RowEnd(f, s0)
        PROVE  s <= s0
    <3>1. ~ (s0 < s)
      BY <2>5, <2>6, <1>1 DEF FileOK
    <3>2. QED  BY <3>1, <1>1
  <2>7. \A s \in DOMAIN f.rows : s < RowEnd(f, s0) => s + TailSlack <= f.size
    BY <1>1, <2>1, <2>3, <2>6 DEF TailSlack
  <2>8. QED  BY <1>1, <2>1, <2>3, <2>4, <2>5, <2>7 DEF TailSlack
<1>3. CASE ~ (f.size - f.body > TailSlack)
  <2>1. SlackStart(f) = f.body
    BY <1>3 DEF SlackStart
  <2>2. LineStart(f, f.body)
    BY BodyStartsRow
  <2>3. QED  BY <1>1, <1>3, <2>1, <2>2 DEF TailSlack
<1>4. QED  BY <1>2, <1>3

---------------------------------------------------------------------------
(* A quotient is the largest number of whole parts.                       *)
LEMMA QuotientBounds ==
  ASSUME NEW a \in Nat, NEW n \in Nat, n > 0
  PROVE  /\ a \div n \in Nat
         /\ n * (a \div n) <= a
         /\ a < n * (a \div n) + n
  BY Z3

(* More bytes have no fewer whole parts.                                  *)
LEMMA QuotientMonotone ==
  ASSUME NEW a \in Nat, NEW b \in Nat, NEW n \in Nat, n > 0, a <= b
  PROVE  a \div n <= b \div n
<1> DEFINE qa == a \div n
           qb == b \div n
<1>1. /\ qa \in Nat /\ qb \in Nat /\ n * qa <= a /\ b < n * qb + n
  BY QuotientBounds
<1> HIDE DEF qa, qb
<1>2. ASSUME qb + 1 <= qa
      PROVE  FALSE
  <2>1. n * (qb + 1) <= n * qa
    BY <1>1, <1>2, Z3
  <2>2. n * (qb + 1) = n * qb + n
    BY <1>1, Z3
  <2>3. n * qa \in Nat /\ n * qb \in Nat
    BY <1>1, Z3
  <2>4. QED  BY <2>1, <2>2, <2>3, <1>1
<1>3. qa <= qb
  BY <1>1, <1>2
<1>4. QED  BY <1>3 DEF qa, qb

(* The end of the i-th of n equal parts of [from, to): within them, and    *)
(* not before that of the part before.                                     *)
Portion(from, to, i, n) == from + ((to - from) * (i + 1)) \div n

LEMMA PortionFacts ==
  ASSUME NEW from \in Nat, NEW to \in Nat, NEW n \in Nat, NEW i \in Nat, from <= to, i < n
  PROVE  /\ Portion(from, to, i, n) \in Nat
         /\ from <= Portion(from, to, i, n)
         /\ Portion(from, to, i, n) <= to
         /\ Portion(from, to, i, n) <= Portion(from, to, i + 1, n)
         /\ Portion(from, to, i + 1, n) \in Nat
<1> DEFINE d == to - from
           x == d * (i + 1)
           y == d * ((i + 1) + 1)
<1>1. d \in Nat /\ n > 0
  OBVIOUS
<1>2. x \in Nat /\ y \in Nat /\ x <= y /\ x <= n * d
  <2> HIDE DEF d
  <2>1. x \in Nat /\ y \in Nat
    BY <1>1
  <2>2. y = x + d
    BY <1>1, Z3
  <2>3. d * (i + 1) <= d * n
    BY <1>1, Z3
  <2>4. d * n = n * d
    BY <1>1
  <2>5. QED  BY <2>1, <2>2, <2>3, <2>4, <1>1
<1>3. /\ x \div n \in Nat /\ y \div n \in Nat
      /\ x \div n <= y \div n
      /\ n * (x \div n) <= x
  <2> HIDE DEF x, y, d
  <2>1. QED  BY <1>1, <1>2, QuotientBounds, QuotientMonotone
<1>4. x \div n <= d
  <2> DEFINE q == x \div n
  <2> HIDE DEF x, d, q
  <2>1. q \in Nat /\ n * q <= n * d
    <3>1. n * q \in Nat /\ n * d \in Nat
      BY <1>1, <1>3 DEF q
    <3>2. QED  BY <1>1, <1>2, <1>3, <3>1 DEF q
  <2>2. q <= d
    BY <2>1, <1>1, Z3
  <2>3. QED  BY <2>2 DEF q
<1>5. Portion(from, to, i, n) = from + x \div n /\ Portion(from, to, i + 1, n) = from + y \div n
  BY Zenon DEF Portion
<1>6. QED
  <2> HIDE DEF x, y
  <2>1. QED  BY <1>3, <1>4, <1>5

---------------------------------------------------------------------------
(* The calendar, for every second of 2027, not only those of the runs.  The *)
(* numbers are too large for Zenon, so that every leaf asks for the SMT    *)
(* solver.                                                                 *)
LEMMA YearSizes ==
  /\ YearStart \in Int /\ YearStart = 100 * 17987616
  /\ DaySeconds = 86400 /\ UnitsPerDay = 864
  /\ \A ts \in InYear : ts \in Int /\ YearStart <= ts /\ ts - YearStart < 365 * 86400
<1>1. DaySeconds = 86400 /\ YearDays = 365 /\ YearStart = 1798761600
  BY SMT DEF DaySeconds, YearDays, YearStart
<1>2. UnitsPerDay = 864
  BY <1>1, SMT DEF UnitsPerDay
<1>3. PICK end \in Int : end = YearStart + YearDays * DaySeconds - 1
  BY <1>1, SMT
<1>4. YearStart \in Int /\ InYear = YearStart..end
  <2>1. YearStart \in Int
    BY <1>1, SMT
  <2>2. QED  BY <2>1, <1>3, SMT DEF InYear
<1>5. end - YearStart < 365 * 86400
  BY <1>1, <1>3, SMT
<1>6. \A ts \in InYear : ts \in Int /\ YearStart <= ts /\ ts - YearStart < 365 * 86400
  BY <1>4, <1>5, SMT
<1>7. YearStart = 100 * 17987616
  BY <1>1, SMT
<1>8. QED  BY <1>1, <1>2, <1>4, <1>6, <1>7, SMT

(* Dropping the last two digits of the timestamp does not change the day:  *)
(* a day is a whole number of hundreds of seconds, and so is the start of  *)
(* the year.                                                               *)
THEOREM TruncationKeepsDay ==
  \A ts \in InYear : DayIndex(ts \div 100) = (ts - YearStart) \div DaySeconds
<1> SUFFICES ASSUME NEW ts \in InYear
             PROVE  DayIndex(ts \div 100) = (ts - YearStart) \div DaySeconds
  BY SMT
<1>1. ts \in Int /\ YearStart \in Int
  BY YearSizes, SMT
<1>2. PICK n \in Int : n = ts - YearStart
  BY <1>1, SMT
<1>3. (ts \div 100) - YearStart8 = n \div 100
  BY <1>1, <1>2, YearSizes, SMT DEF YearStart8
<1>4. (n \div 100) \div 864 = n \div 86400
  BY <1>2, SMT
<1>5. DayIndex(ts \div 100) = (n \div 100) \div 864
  BY <1>3, YearSizes, SMT DEF DayIndex
<1>6. QED  BY <1>2, <1>4, <1>5, YearSizes, SMT

(* The table of days is never read outside its 365 entries.                *)
THEOREM DayInTable ==
  \A ts \in InYear : DayIndex(ts \div 100) \in DOMAIN DayMonth
<1> SUFFICES ASSUME NEW ts \in InYear
             PROVE  DayIndex(ts \div 100) \in 0..(YearDays - 1)
  BY SMT DEF DayMonth
<1>1. PICK n \in Int : n = ts - YearStart /\ 0 <= n /\ n < 365 * 86400
  BY YearSizes, SMT
<1>2. 0 <= n \div 86400 /\ n \div 86400 < 365 /\ n \div 86400 \in Int
  BY <1>1, SMT
<1>3. DayIndex(ts \div 100) = n \div 86400
  BY <1>1, YearSizes, TruncationKeepsDay, SMT
<1>4. QED  BY <1>2, <1>3, SMT DEF YearDays

---------------------------------------------------------------------------
(* The inductive part of the context: besides TableOK, the statistics of   *)
(* the ids not given out yet are still those of init_ctx.                  *)
CtxOK(c, hash) ==
  /\ c.count \in 0..MaxChannels
  /\ DOMAIN c.table = Slots /\ DOMAIN c.names = Ids /\ DOMAIN c.stats = Ids
  /\ TableOK(c, hash)
  /\ \A i \in Ids : i \notin Known(c) => c.stats[i] = FreshStats

(* Probing from a slot for fewer than TableSize steps stays in the table.  *)
LEMMA ProbeInTable ==
  ASSUME NEW start \in Slots, NEW k \in Slots
  PROVE  Probe(start, k) \in Slots
BY SizesAssumption DEF Probe, Slots

(* What TableOK says of one known id.                                      *)
LEMMA SlotOfId ==
  ASSUME NEW hash \in [Channels -> Slots], NEW c, TableOK(c, hash), NEW i \in Known(c)
  PROVE  /\ c.names[i] \in Channels
         /\ \E k \in Slots :
              /\ Probe(hash[c.names[i]], k) \in Slots
              /\ c.table[Probe(hash[c.names[i]], k)].id = i
              /\ c.table[Probe(hash[c.names[i]], k)].print = Fprint[c.names[i]]
              /\ \A j \in 0..(k - 1) : ~ Empty(c.table[Probe(hash[c.names[i]], j)])
<1>1. c.names[i] \in Channels
  BY DEF TableOK
<1>2. PICK k \in Slots :
         /\ c.table[Probe(hash[c.names[i]], k)] = [id |-> i, print |-> Fprint[c.names[i]]]
         /\ \A j \in 0..(k - 1) : ~ Empty(c.table[Probe(hash[c.names[i]], j)])
  BY DEF TableOK
<1>3. Probe(hash[c.names[i]], k) \in Slots
  BY <1>1, ProbeInTable
<1>4. /\ c.table[Probe(hash[c.names[i]], k)].id = i
      /\ c.table[Probe(hash[c.names[i]], k)].print = Fprint[c.names[i]]
  BY <1>2
<1>5. QED  BY <1>1, <1>2, <1>3, <1>4, Zenon

(* The fingerprint kept in an occupied slot is that of the stored name.    *)
LEMMA PrintOfSlot ==
  ASSUME NEW hash \in [Channels -> Slots], NEW c, TableOK(c, hash), c.count \in Nat,
         NEW s \in Slots, ~ Empty(c.table[s])
  PROVE  /\ c.table[s].id \in Known(c)
         /\ c.names[c.table[s].id] \in Channels
         /\ c.table[s].print = Fprint[c.names[c.table[s].id]]
<1>1. PICK i \in Known(c) : c.table[s].id = i
  BY DEF TableOK
<1>2. PICK k \in Slots :
         /\ Probe(hash[c.names[i]], k) \in Slots
         /\ c.table[Probe(hash[c.names[i]], k)].id = i
         /\ c.table[Probe(hash[c.names[i]], k)].print = Fprint[c.names[i]]
  BY SlotOfId
<1>3. s = Probe(hash[c.names[i]], k)
  BY <1>1, <1>2 DEF TableOK
<1>4. c.names[i] \in Channels
  BY SlotOfId
<1>5. QED  BY <1>1, <1>2, <1>3, <1>4

(* A slot matches a name exactly when the name is stored under its id.     *)
LEMMA MatchIsName ==
  ASSUME NEW hash \in [Channels -> Slots], NEW c, TableOK(c, hash), c.count \in Nat,
         NEW s \in Slots, ~ Empty(c.table[s]), NEW n \in Channels
  PROVE  Match(c, c.table[s], n) <=> c.names[c.table[s].id] = n
<1>1. /\ c.names[c.table[s].id] \in Channels
      /\ c.table[s].print = Fprint[c.names[c.table[s].id]]
  BY PrintOfSlot
<1>2. ASSUME Match(c, c.table[s], n)
      PROVE  c.names[c.table[s].id] = n
  BY <1>1, <1>2, PrintAssumption DEF Match
<1>3. ASSUME c.names[c.table[s].id] = n
      PROVE  Match(c, c.table[s], n)
  BY <1>1, <1>3 DEF Match
<1>4. QED  BY <1>2, <1>3

(* The pigeonhole behind names[MAX_CHANNELS]: a name that is not stored    *)
(* yet leaves room for itself.                                             *)
LEMMA RoomForNew ==
  ASSUME NEW hash, NEW c, CtxOK(c, hash), NEW n \in Channels, \A i \in Known(c) : c.names[i] # n
  PROVE  c.count < MaxChannels
<1> DEFINE f == [i \in 0..c.count |-> IF i = c.count THEN n ELSE c.names[i]]
<1>1. c.count \in Nat
  BY SizesAssumption DEF CtxOK
<1>2. \A i \in Known(c) : c.names[i] \in Channels
  BY DEF CtxOK, TableOK
<1>3. f \in [0..c.count -> Channels]
  BY <1>1, <1>2 DEF Known
<1>4. ASSUME NEW i \in 0..c.count, NEW j \in 0..c.count, f[i] = f[j]
      PROVE  i = j
  <2>1. CASE i = c.count /\ j # c.count
    BY <2>1, <1>1, <1>4 DEF Known
  <2>2. CASE j = c.count /\ i # c.count
    BY <2>2, <1>1, <1>4 DEF Known
  <2>3. CASE i # c.count /\ j # c.count
    BY <2>3, <1>1, <1>4 DEF Known, CtxOK, TableOK
  <2>4. QED  BY <2>1, <2>2, <2>3
<1>5. f \in Injection(0..c.count, Channels)
  BY <1>3, <1>4 DEF Injection, IsInjective
<1>6. Cardinality(0..c.count) <= Cardinality(Channels)
  BY <1>5, SizesAssumption, FS_Injection
<1>7. Cardinality(0..c.count) = c.count + 1
  BY <1>1, FS_Interval
<1>8. Cardinality(Channels) \in Nat
  BY SizesAssumption, FS_CardinalityType
<1>9. QED  BY <1>1, <1>6, <1>7, <1>8, SizesAssumption

---------------------------------------------------------------------------
(* channel_id: the name is stored under the id it returns, what was stored *)
(* stays where it is, no statistic changes, and the table stays an index.  *)
LEMMA ChannelIdFacts ==
  ASSUME NEW hash \in [Channels -> Slots], NEW c, CtxOK(c, hash), NEW n \in Channels,
         ProbeEnds(c, hash, n)
  PROVE  LET r == ChannelId(c, hash, n) IN
         /\ CtxOK(r.ctx, hash)
         /\ r.id \in Known(r.ctx) /\ r.ctx.names[r.id] = n
         /\ r.ctx.count \in Nat /\ c.count <= r.ctx.count
         /\ \A i \in Known(c) : r.ctx.names[i] = c.names[i]
         /\ \A i \in Known(r.ctx) : i \in Known(c) \/ c.stats[i] = FreshStats
         /\ r.ctx.stats = c.stats
<1> DEFINE kk == CHOOSE k \in Slots : FirstStop(c, hash, n, k)
<1>1. kk \in Slots /\ FirstStop(c, hash, n, kk)
  BY DEF ProbeEnds
<1>2. PICK k \in Slots, s \in Slots :
         /\ FirstStop(c, hash, n, k)
         /\ s = Probe(hash[n], k) /\ s = StopSlot(c, hash, n)
  <2>1. Probe(hash[n], kk) \in Slots
    BY <1>1, ProbeInTable
  <2>2. QED  BY <1>1, <2>1 DEF StopSlot
<1> HIDE DEF kk
<1>3. c.count \in Nat /\ TableOK(c, hash) /\ c.count <= MaxChannels
  BY SizesAssumption DEF CtxOK
<1>4. CASE ~ Empty(c.table[s])
  <2>1. ChannelId(c, hash, n) = [id |-> c.table[s].id, ctx |-> c]
    BY <1>2, <1>4 DEF ChannelId
  <2>2. c.table[s].id \in Known(c)
    BY <1>3, <1>4, PrintOfSlot
  <2>3. c.names[c.table[s].id] = n
    BY <1>2, <1>3, <1>4, MatchIsName DEF FirstStop, Stops
  <2>4. QED  BY <2>1, <2>2, <2>3, <1>3
<1>5. CASE Empty(c.table[s])
  <2>1. ASSUME NEW i \in Known(c), c.names[i] = n
        PROVE  FALSE
    <3>1. PICK k0 \in Slots :
             /\ Probe(hash[n], k0) \in Slots
             /\ c.table[Probe(hash[n], k0)].id = i
             /\ \A j \in 0..(k0 - 1) : ~ Empty(c.table[Probe(hash[n], j)])
      BY <2>1, <1>3, SlotOfId
    <3>2. ~ Empty(c.table[Probe(hash[n], k0)])
      BY <3>1, <1>3 DEF Empty, Known
    <3>3. Stops(c, hash, n, k0)
      BY <3>1, <3>2, <2>1, <1>3, MatchIsName DEF Stops
    <3>4. ~ (k0 < k)
      BY <3>3, <1>2 DEF FirstStop, Slots
    <3>5. ~ (k < k0)
      <4>1. SUFFICES ASSUME k < k0 PROVE FALSE
        OBVIOUS
      <4>2. k \in 0..(k0 - 1)
        BY <4>1 DEF Slots
      <4>3. QED  BY <4>2, <3>1, <1>2, <1>5
    <3>6. k = k0
      BY <3>4, <3>5 DEF Slots
    <3>7. QED  BY <3>2, <3>6, <1>2, <1>5
  <2>2. c.count < MaxChannels
    BY <2>1, RoomForNew
  <2> DEFINE d == Insert(c, s, n)
  <2>3. /\ d.table = [c.table EXCEPT ![s] = [id |-> c.count, print |-> Fprint[n]]]
        /\ d.names = [c.names EXCEPT ![c.count] = n]
        /\ d.stats = c.stats
        /\ d.count = c.count + 1
    BY DEF Insert
  <2>4. ChannelId(c, hash, n) = [id |-> c.count, ctx |-> d]
    BY <1>2, <1>5 DEF ChannelId
  <2> HIDE DEF d
  <2>5. /\ DOMAIN d.table = Slots /\ DOMAIN d.names = Ids /\ DOMAIN d.stats = Ids
        /\ d.count \in 0..MaxChannels
    BY <2>2, <2>3, <1>3, SizesAssumption DEF CtxOK
  <2>6. /\ \A i \in Known(d) : i \in Known(c) \/ i = c.count
        /\ \A i \in Known(c) : i \in Known(d) /\ i # c.count /\ d.names[i] = c.names[i]
        /\ c.count \in Known(d) /\ c.count \in Ids /\ d.names[c.count] = n
        /\ Known(c) \subseteq Ids
    <3>1. /\ \A i \in Known(d) : i \in Known(c) \/ i = c.count
          /\ \A i \in Known(c) : i \in Known(d) /\ i # c.count
          /\ c.count \in Known(d) /\ c.count \in Ids
          /\ Known(c) \subseteq Ids
      BY <2>2, <2>3, <1>3, SizesAssumption DEF Known, Ids
    <3>2. \A i \in Ids : d.names[i] = IF i = c.count THEN n ELSE c.names[i]
      BY <2>3 DEF CtxOK
    <3>3. QED  BY <3>1, <3>2
  <2>7. /\ d.table[s] = [id |-> c.count, print |-> Fprint[n]]
        /\ \A s1 \in Slots : s1 # s => d.table[s1] = c.table[s1]
        /\ ~ Empty(d.table[s])
    BY <2>3, <1>3 DEF CtxOK, Empty
  <2>8. \A s1 \in Slots : ~ Empty(c.table[s1]) => ~ Empty(d.table[s1]) /\ d.table[s1] = c.table[s1]
    BY <2>7, <1>5
  <2>9. \A i, j \in Known(d) : d.names[i] = d.names[j] => i = j
    BY <2>1, <2>6, <1>3 DEF TableOK
  <2>10. ASSUME NEW i \in Known(d)
         PROVE  /\ d.names[i] \in Channels
                /\ \E q \in Slots :
                     /\ d.table[Probe(hash[d.names[i]], q)] = [id |-> i, print |-> Fprint[d.names[i]]]
                     /\ \A j \in 0..(q - 1) : ~ Empty(d.table[Probe(hash[d.names[i]], j)])
    <3>1. CASE i = c.count
      <4>1. \A j \in 0..(k - 1) : Probe(hash[n], j) \in Slots /\ ~ Empty(c.table[Probe(hash[n], j)])
        <5>1. SUFFICES ASSUME NEW j \in 0..(k - 1)
                       PROVE  Probe(hash[n], j) \in Slots /\ ~ Empty(c.table[Probe(hash[n], j)])
          OBVIOUS
        <5>2. j \in Slots
          BY SizesAssumption DEF Slots
        <5>3. QED  BY <5>2, <1>2, ProbeInTable DEF FirstStop, Stops
      <4>2. QED  BY <3>1, <4>1, <2>6, <2>7, <2>8, <1>2
    <3>2. CASE i \in Known(c)
      <4>1. c.names[i] \in Channels /\ d.names[i] = c.names[i]
        BY <3>2, <2>6, <1>3, SlotOfId
      <4>2. PICK q \in Slots :
               /\ c.table[Probe(hash[c.names[i]], q)] = [id |-> i, print |-> Fprint[c.names[i]]]
               /\ \A j \in 0..(q - 1) : ~ Empty(c.table[Probe(hash[c.names[i]], j)])
        BY <3>2, <1>3 DEF TableOK
      <4>3. \A j \in 0..q : Probe(hash[c.names[i]], j) \in Slots
        <5>1. SUFFICES ASSUME NEW j \in 0..q
                       PROVE  Probe(hash[c.names[i]], j) \in Slots
          OBVIOUS
        <5>2. j \in Slots
          BY SizesAssumption DEF Slots
        <5>3. QED  BY <5>2, <4>1, ProbeInTable
      <4>4. ~ Empty(c.table[Probe(hash[c.names[i]], q)])
        BY <4>2, <3>2, <1>3 DEF Empty, Known
      <4>5. q \in 0..q /\ \A j \in 0..(q - 1) : j \in 0..q
        BY DEF Slots
      <4>6. QED  BY <4>1, <4>2, <4>3, <4>4, <4>5, <2>8
    <3>3. QED  BY <3>1, <3>2, <2>6
  <2>11. \A s1 \in Slots : ~ Empty(d.table[s1]) => d.table[s1].id \in Known(d)
    BY <2>6, <2>7, <1>3 DEF TableOK
  <2>12. \A s1, s2 \in Slots :
            ~ Empty(d.table[s1]) /\ d.table[s1].id = d.table[s2].id => s1 = s2
    <3>1. SUFFICES ASSUME NEW s1 \in Slots, NEW s2 \in Slots,
                          ~ Empty(d.table[s1]), d.table[s1].id = d.table[s2].id
                   PROVE  s1 = s2
      OBVIOUS
    <3>2. \A x \in Slots : ~ Empty(c.table[x]) => c.table[x].id # c.count
      BY <1>3, <2>6 DEF TableOK
    <3>3. ~ Empty(d.table[s2])
      BY <3>1 DEF Empty
    <3>4. CASE s1 = s
      BY <3>1, <3>2, <3>3, <3>4, <2>7
    <3>5. CASE s2 = s
      BY <3>1, <3>2, <3>5, <2>7
    <3>6. CASE s1 # s /\ s2 # s
      BY <3>1, <3>6, <2>7, <1>3 DEF TableOK
    <3>7. QED  BY <3>4, <3>5, <3>6
  <2>13. TableOK(d, hash)
    BY <2>9, <2>10, <2>11, <2>12 DEF TableOK
  <2>14. CtxOK(d, hash)
    BY <2>3, <2>5, <2>6, <2>13 DEF CtxOK
  <2>15. c.stats[c.count] = FreshStats
    BY <2>6, <1>3 DEF CtxOK, Known
  <2>16. QED  BY <2>3, <2>4, <2>5, <2>6, <2>14, <2>15, <1>3, SizesAssumption
<1>6. QED  BY <1>4, <1>5

(* A bijection of the ids moves each row of an array to its new place.     *)
LEMMA MovedTo ==
  ASSUME NEW c, NEW perm \in Bijection(Known(c), Known(c)), NEW f,
         Known(c) \subseteq Ids, NEW old \in Known(c)
  PROVE  perm[old] \in Known(c) /\ MoveBy(c, perm, f)[perm[old]] = f[old]
<1>1. /\ perm \in [Known(c) -> Known(c)]
      /\ \A x, y \in Known(c) : perm[x] = perm[y] => x = y
  BY DEF Bijection, Injection, IsInjective
<1>2. perm[old] \in Known(c)
  BY <1>1
<1>3. (CHOOSE x \in Known(c) : perm[x] = perm[old]) = old
  BY <1>1
<1>4. QED  BY <1>2, <1>3 DEF MoveBy

(* Renumbering keeps the index and moves names and statistics together.    *)
LEMMA RenumberedFacts ==
  ASSUME NEW hash \in [Channels -> Slots], NEW c, CtxOK(c, hash),
         NEW perm \in Bijection(Known(c), Known(c))
  PROVE  LET d == Renumbered(c, perm) IN
         /\ CtxOK(d, hash)
         /\ d.count = c.count
         /\ \A i \in Known(c) : /\ perm[i] \in Known(c)
                                /\ d.names[perm[i]] = c.names[i]
                                /\ d.stats[perm[i]] = c.stats[i]
         /\ \A i \in Known(c) : \E old \in Known(c) : i = perm[old]
<1> DEFINE d == Renumbered(c, perm)
<1>1. /\ c.count \in Nat /\ c.count <= MaxChannels /\ Known(c) \subseteq Ids /\ TableOK(c, hash)
  BY SizesAssumption DEF CtxOK, Known, Ids
<1>2. /\ perm \in [Known(c) -> Known(c)]
      /\ \A x, y \in Known(c) : perm[x] = perm[y] => x = y
      /\ \A i \in Known(c) : \E old \in Known(c) : i = perm[old]
  BY DEF Bijection, Injection, Surjection, IsInjective
<1>3. /\ d.table = Reslot(c, perm)
      /\ d.names = MoveBy(c, perm, c.names)
      /\ d.stats = MoveBy(c, perm, c.stats)
      /\ d.count = c.count
      /\ Known(d) = Known(c)
  BY DEF Renumbered, Known
<1> HIDE DEF d
<1>4. \A i \in Known(c) : /\ perm[i] \in Known(c)
                          /\ d.names[perm[i]] = c.names[i]
                          /\ d.stats[perm[i]] = c.stats[i]
  BY <1>1, <1>3, MovedTo
<1>5. \A s \in Slots :
         /\ Empty(c.table[s]) => d.table[s] = c.table[s]
         /\ ~ Empty(c.table[s]) =>
              /\ c.table[s].id \in Known(c)
              /\ d.table[s] = [id |-> perm[c.table[s].id], print |-> c.table[s].print]
              /\ d.table[s].id = perm[c.table[s].id]
              /\ ~ Empty(d.table[s])
  <2>1. SUFFICES ASSUME NEW s \in Slots
                 PROVE  /\ Empty(c.table[s]) => d.table[s] = c.table[s]
                        /\ ~ Empty(c.table[s]) =>
                             /\ c.table[s].id \in Known(c)
                             /\ d.table[s] = [id |-> perm[c.table[s].id], print |-> c.table[s].print]
                             /\ d.table[s].id = perm[c.table[s].id]
                             /\ ~ Empty(d.table[s])
    OBVIOUS
  <2>2. Empty(c.table[s]) => d.table[s] = c.table[s]
    BY <1>3 DEF Reslot
  <2>3. ASSUME ~ Empty(c.table[s])
        PROVE  /\ c.table[s].id \in Known(c)
               /\ d.table[s] = [id |-> perm[c.table[s].id], print |-> c.table[s].print]
               /\ d.table[s].id = perm[c.table[s].id]
               /\ ~ Empty(d.table[s])
    <3>1. c.table[s].id \in Known(c)
      BY <2>3, <1>1, PrintOfSlot
    <3>2. d.table[s] = [id |-> perm[c.table[s].id], print |-> c.table[s].print]
      BY <2>3, <1>3 DEF Reslot
    <3>3. perm[c.table[s].id] \in Nat
      BY <3>1, <1>2 DEF Known
    <3>4. QED  BY <3>1, <3>2, <3>3 DEF Empty
  <2>4. QED  BY <2>2, <2>3
<1>6. DOMAIN d.table = Slots /\ DOMAIN d.names = Ids /\ DOMAIN d.stats = Ids
  BY <1>3 DEF Reslot, MoveBy
<1>7. TableOK(d, hash)
  <2>1. \A i, j \in Known(d) : d.names[i] = d.names[j] => i = j
    <3>1. SUFFICES ASSUME NEW x \in Known(c), NEW y \in Known(c),
                          d.names[perm[x]] = d.names[perm[y]]
                   PROVE  perm[x] = perm[y]
      BY <1>2, <1>3
    <3>2. QED  BY <3>1, <1>1, <1>4 DEF TableOK
  <2>2. ASSUME NEW i \in Known(d)
        PROVE  /\ d.names[i] \in Channels
               /\ \E k \in Slots :
                    /\ d.table[Probe(hash[d.names[i]], k)] = [id |-> i, print |-> Fprint[d.names[i]]]
                    /\ \A j \in 0..(k - 1) : ~ Empty(d.table[Probe(hash[d.names[i]], j)])
    <3>1. PICK old \in Known(c) : i = perm[old]
      BY <1>2, <1>3
    <3>2. d.names[i] = c.names[old] /\ c.names[old] \in Channels
      BY <3>1, <1>1, <1>4, SlotOfId
    <3>3. PICK k \in Slots :
             /\ Probe(hash[c.names[old]], k) \in Slots
             /\ c.table[Probe(hash[c.names[old]], k)].id = old
             /\ c.table[Probe(hash[c.names[old]], k)].print = Fprint[c.names[old]]
             /\ \A j \in 0..(k - 1) : ~ Empty(c.table[Probe(hash[c.names[old]], j)])
      BY <1>1, SlotOfId
    <3>4. ~ Empty(c.table[Probe(hash[c.names[old]], k)])
      <4>1. old \in Int /\ old >= 0
        BY <1>1 DEF Known
      <4> QED
        BY <3>3, <4>1 DEF Empty
    <3>5. d.table[Probe(hash[c.names[old]], k)] = [id |-> i, print |-> Fprint[c.names[old]]]
      BY <3>1, <3>3, <3>4, <1>5
    <3>6. \A j \in 0..(k - 1) : Probe(hash[c.names[old]], j) \in Slots
      <4>1. SUFFICES ASSUME NEW j \in 0..(k - 1)
                     PROVE  Probe(hash[c.names[old]], j) \in Slots
        OBVIOUS
      <4>2. j \in Slots
        BY SizesAssumption DEF Slots
      <4>3. QED  BY <4>2, <3>2, ProbeInTable
    <3>7. \A j \in 0..(k - 1) : ~ Empty(d.table[Probe(hash[c.names[old]], j)])
      BY <3>3, <3>6, <1>5
    <3>8. QED  BY <3>2, <3>5, <3>7
  <2>3. \A s \in Slots : ~ Empty(d.table[s]) => d.table[s].id \in Known(d)
    <3>1. SUFFICES ASSUME NEW s \in Slots, ~ Empty(d.table[s])
                   PROVE  d.table[s].id \in Known(c)
      BY <1>3
    <3>2. ~ Empty(c.table[s])
      BY <3>1, <1>5
    <3>3. d.table[s].id = perm[c.table[s].id] /\ c.table[s].id \in Known(c)
      BY <3>2, <1>5
    <3>4. QED  BY <3>3, <1>2
  <2>4. \A s1, s2 \in Slots :
           ~ Empty(d.table[s1]) /\ d.table[s1].id = d.table[s2].id => s1 = s2
    <3>1. SUFFICES ASSUME NEW s1 \in Slots, NEW s2 \in Slots,
                          ~ Empty(d.table[s1]), d.table[s1].id = d.table[s2].id
                   PROVE  s1 = s2
      OBVIOUS
    <3>2. ~ Empty(d.table[s2])
      BY <3>1 DEF Empty
    <3>3. ~ Empty(c.table[s1]) /\ ~ Empty(c.table[s2])
      BY <3>1, <3>2, <1>5
    <3>4. /\ c.table[s1].id \in Known(c) /\ c.table[s2].id \in Known(c)
          /\ perm[c.table[s1].id] = perm[c.table[s2].id]
      BY <3>1, <3>3, <1>5
    <3>5. c.table[s1].id = c.table[s2].id
      BY <3>4, <1>2
    <3>6. QED  BY <3>3, <3>5, <1>1 DEF TableOK
  <2>5. QED  BY <2>1, <2>2, <2>3, <2>4 DEF TableOK
<1>8. \A i \in Ids : i \notin Known(d) => d.stats[i] = FreshStats
  BY <1>3 DEF MoveBy, CtxOK
<1>9. CtxOK(d, hash)
  BY <1>3, <1>6, <1>7, <1>8 DEF CtxOK
<1>10. QED  BY <1>2, <1>3, <1>4, <1>9 DEF d

---------------------------------------------------------------------------
(* Reading the context as a tally.                                         *)
LEMMA TallyOfKnown ==
  ASSUME NEW hash, NEW c, TableOK(c, hash), NEW i \in Known(c), c.names[i] \in Channels
  PROVE  TallyOf(c)[c.names[i]] = c.stats[i]
<1>1. (CHOOSE j \in Known(c) : c.names[j] = c.names[i]) = i
  BY DEF TableOK
<1>2. QED  BY <1>1 DEF TallyOf

LEMMA TallyOfUnknown ==
  ASSUME NEW c, NEW n \in Channels, \A i \in Known(c) : c.names[i] # n
  PROVE  TallyOf(c)[n] = FreshStats
BY DEF TallyOf

(* Storing a new name, whose statistics are fresh, counts nothing.         *)
LEMMA TallyAfterInsert ==
  ASSUME NEW hash, NEW c, CtxOK(c, hash), NEW d, CtxOK(d, hash), Known(c) \subseteq Known(d),
         \A i \in Known(c) : d.names[i] = c.names[i],
         \A i \in Known(d) : i \in Known(c) \/ c.stats[i] = FreshStats,
         d.stats = c.stats
  PROVE  TallyOf(d) = TallyOf(c)
<1>1. TableOK(c, hash) /\ TableOK(d, hash)
  BY DEF CtxOK
<1>2. ASSUME NEW n \in Channels
      PROVE  TallyOf(d)[n] = TallyOf(c)[n]
  <2>1. CASE \E i \in Known(c) : c.names[i] = n
    <3>1. PICK i \in Known(c) : c.names[i] = n
      BY <2>1
    <3>2. TallyOf(c)[n] = c.stats[i]
      BY <1>1, <3>1, TallyOfKnown
    <3>3. i \in Known(d) /\ d.names[i] = n
      BY <3>1
    <3>4. TallyOf(d)[n] = d.stats[i]
      BY <1>1, <3>3, TallyOfKnown
    <3>5. QED  BY <3>2, <3>4
  <2>2. CASE ~ \E i \in Known(c) : c.names[i] = n
    <3>1. TallyOf(c)[n] = FreshStats
      BY <2>2, TallyOfUnknown
    <3>2. CASE \E i \in Known(d) : d.names[i] = n
      <4>1. PICK i \in Known(d) : d.names[i] = n
        BY <3>2
      <4>2. TallyOf(d)[n] = d.stats[i]
        BY <1>1, <4>1, TallyOfKnown
      <4>3. c.stats[i] = FreshStats
        BY <4>1, <2>2
      <4>4. QED  BY <3>1, <4>2, <4>3
    <3>3. CASE ~ \E i \in Known(d) : d.names[i] = n
      BY <3>1, <3>3, TallyOfUnknown
    <3>4. QED  BY <3>2, <3>3
  <2>3. QED  BY <2>1, <2>2
<1>3. QED  BY <1>2 DEF TallyOf

(* Renumbering counts nothing either.                                      *)
LEMMA TallyAfterRenumber ==
  ASSUME NEW hash \in [Channels -> Slots], NEW c, CtxOK(c, hash),
         NEW perm \in Bijection(Known(c), Known(c))
  PROVE  TallyOf(Renumbered(c, perm)) = TallyOf(c)
<1> DEFINE d == Renumbered(c, perm)
<1>1. /\ CtxOK(d, hash) /\ d.count = c.count
      /\ \A i \in Known(c) : /\ perm[i] \in Known(c)
                             /\ d.names[perm[i]] = c.names[i]
                             /\ d.stats[perm[i]] = c.stats[i]
      /\ \A i \in Known(c) : \E old \in Known(c) : i = perm[old]
  BY RenumberedFacts
<1> HIDE DEF d
<1>2. TableOK(c, hash) /\ TableOK(d, hash) /\ Known(d) = Known(c)
  BY <1>1 DEF CtxOK, Known
<1>3. ASSUME NEW n \in Channels
      PROVE  TallyOf(d)[n] = TallyOf(c)[n]
  <2>1. CASE \E i \in Known(c) : c.names[i] = n
    <3>1. PICK i \in Known(c) : c.names[i] = n
      BY <2>1
    <3>2. TallyOf(c)[n] = c.stats[i]
      BY <1>2, <3>1, TallyOfKnown
    <3>3. perm[i] \in Known(d) /\ d.names[perm[i]] = n
      BY <1>1, <1>2, <3>1
    <3>4. TallyOf(d)[n] = d.stats[perm[i]]
      BY <1>2, <3>3, TallyOfKnown
    <3>5. QED  BY <1>1, <3>1, <3>2, <3>4
  <2>2. CASE ~ \E i \in Known(c) : c.names[i] = n
    <3>1. \A i \in Known(d) : d.names[i] # n
      BY <2>2, <1>1, <1>2
    <3>2. QED  BY <2>2, <3>1, TallyOfUnknown
  <2>3. QED  BY <2>1, <2>2
<1>4. QED  BY <1>3 DEF TallyOf, d

(* A write to the statistics of an id changes what is counted for the      *)
(* channel stored under it, and nothing else.                              *)
LEMMA WithStatsFacts ==
  ASSUME NEW hash, NEW c, CtxOK(c, hash), NEW id \in Known(c), NEW row
  PROVE  LET d == WithStats(c, id, row) IN
         /\ CtxOK(d, hash)
         /\ d.names = c.names /\ d.count = c.count
         /\ c.names[id] \in Channels /\ TallyOf(c)[c.names[id]] = c.stats[id]
         /\ TallyOf(d) = [TallyOf(c) EXCEPT ![c.names[id]] = row]
<1> DEFINE d == WithStats(c, id, row)
<1>1. /\ d.table = c.table /\ d.names = c.names /\ d.count = c.count
      /\ d.stats = [c.stats EXCEPT ![id] = row]
      /\ Known(d) = Known(c)
  BY DEF WithStats, Known
<1> HIDE DEF d
<1>2. id \in Ids /\ Known(c) \subseteq Ids
  BY SizesAssumption DEF CtxOK, Known, Ids
<1>3. /\ d.stats[id] = row
      /\ \A i \in Ids : i # id => d.stats[i] = c.stats[i]
      /\ DOMAIN d.stats = Ids
  BY <1>1, <1>2 DEF CtxOK
<1>4. TableOK(c, hash) /\ TableOK(d, hash)
  BY <1>1 DEF CtxOK, TableOK
<1>5. CtxOK(d, hash)
  BY <1>1, <1>2, <1>3, <1>4 DEF CtxOK
<1>6. c.names[id] \in Channels /\ TallyOf(c)[c.names[id]] = c.stats[id]
  <2>1. c.names[id] \in Channels
    BY <1>4 DEF TableOK
  <2>2. QED  BY <2>1, <1>4, TallyOfKnown
<1>7. TallyOf(d)[c.names[id]] = row
  <2>1. id \in Known(d) /\ d.names[id] = c.names[id] /\ d.names[id] \in Channels
    BY <1>1, <1>6
  <2>2. TallyOf(d)[d.names[id]] = d.stats[id]
    BY <2>1, <1>4, TallyOfKnown
  <2>3. QED  BY <2>1, <2>2, <1>3
<1>8. ASSUME NEW n \in Channels, n # c.names[id]
      PROVE  TallyOf(d)[n] = TallyOf(c)[n]
  <2>1. CASE \E i \in Known(c) : c.names[i] = n
    <3>1. PICK i \in Known(c) : c.names[i] = n
      BY <2>1
    <3>2. TallyOf(c)[n] = c.stats[i]
      BY <1>4, <3>1, TallyOfKnown
    <3>3. i \in Known(d) /\ d.names[i] = n
      BY <3>1, <1>1
    <3>4. TallyOf(d)[n] = d.stats[i]
      BY <1>4, <3>3, TallyOfKnown
    <3>5. i # id
      BY <3>1, <1>8
    <3>6. QED  BY <3>2, <3>4, <3>5, <1>2, <1>3
  <2>2. CASE ~ \E i \in Known(c) : c.names[i] = n
    BY <2>2, <1>1, TallyOfUnknown
  <2>3. QED  BY <2>1, <2>2
<1>9. TallyOf(d) = [TallyOf(c) EXCEPT ![c.names[id]] = row]
  <2> DEFINE tc == TallyOf(c)
             td == TallyOf(d)
  <2>1. tc = [n \in Channels |-> tc[n]] /\ td = [n \in Channels |-> td[n]]
    BY DEF TallyOf
  <2>2. /\ td[c.names[id]] = row
        /\ \A n \in Channels : n # c.names[id] => td[n] = tc[n]
    BY <1>7, <1>8
  <2> HIDE DEF tc, td
  <2>3. td = [tc EXCEPT ![c.names[id]] = row]
    BY <2>1, <2>2
  <2>4. QED  BY <2>3 DEF tc, td
<1>10. QED  BY <1>1, <1>5, <1>6, <1>9 DEF d

(* One row counted in a table from channels to statistics.                 *)
CountInto(t, n, m, r) == [t EXCEPT ![n][m] = UpdateStats(@, r)]

(* A write through a pointer is one count, in the pointed channel.         *)
LEMMA UpdateAtFacts ==
  ASSUME NEW hash, NEW c, CtxOK(c, hash), NEW id \in Known(c), NEW m, NEW r
  PROVE  /\ CtxOK(UpdateAt(c, id, m, r), hash)
         /\ UpdateAt(c, id, m, r).names = c.names
         /\ UpdateAt(c, id, m, r).count = c.count
         /\ TallyOf(UpdateAt(c, id, m, r)) = CountInto(TallyOf(c), c.names[id], m, r)
<1> DEFINE row == [c.stats[id] EXCEPT ![m] = UpdateStats(c.stats[id][m], r)]
<1>1. UpdateAt(c, id, m, r) = WithStats(c, id, row)
  BY DEF UpdateAt
<1> HIDE DEF row
<1>2. /\ CtxOK(WithStats(c, id, row), hash)
      /\ WithStats(c, id, row).names = c.names /\ WithStats(c, id, row).count = c.count
      /\ TallyOf(c)[c.names[id]] = c.stats[id]
      /\ TallyOf(WithStats(c, id, row)) = [TallyOf(c) EXCEPT ![c.names[id]] = row]
  BY WithStatsFacts
<1>3. CountInto(TallyOf(c), c.names[id], m, r) = [TallyOf(c) EXCEPT ![c.names[id]] = row]
  BY <1>2 DEF row, CountInto
<1>4. QED  BY <1>1, <1>2, <1>3

(* process_row counts one row, in its channel and month.                   *)
LEMMA ProcessRowFacts ==
  ASSUME NEW hash \in [Channels -> Slots], NEW c, CtxOK(c, hash), NEW r, r.channel \in Channels,
         ProbeEnds(c, hash, r.channel)
  PROVE  /\ CtxOK(ProcessRow(c, hash, r), hash)
         /\ TallyOf(ProcessRow(c, hash, r)) = CountInto(TallyOf(c), r.channel, r.month, r)
<1> DEFINE ch == ChannelId(c, hash, r.channel)
<1>1. /\ CtxOK(ch.ctx, hash)
      /\ ch.id \in Known(ch.ctx) /\ ch.ctx.names[ch.id] = r.channel
      /\ ch.ctx.count \in Nat /\ c.count <= ch.ctx.count
      /\ \A i \in Known(c) : ch.ctx.names[i] = c.names[i]
      /\ \A i \in Known(ch.ctx) : i \in Known(c) \/ c.stats[i] = FreshStats
      /\ ch.ctx.stats = c.stats
  BY ChannelIdFacts
<1>2. ProcessRow(c, hash, r) = UpdateAt(ch.ctx, ch.id, r.month, r)
  BY DEF ProcessRow
<1> HIDE DEF ch
<1>3. Known(c) \subseteq Known(ch.ctx)
  BY <1>1, SizesAssumption DEF Known, CtxOK
<1>4. TallyOf(ch.ctx) = TallyOf(c)
  BY <1>1, <1>3, TallyAfterInsert
<1>5. QED  BY <1>1, <1>2, <1>4, UpdateAtFacts

(* merge_into_first adds what src counts for one channel, and src leaves   *)
(* that channel's statistics in the destination's row of the same name.    *)
LEMMA MergeChannelFacts ==
  ASSUME NEW hash \in [Channels -> Slots], NEW dst, CtxOK(dst, hash), NEW src, CtxOK(src, hash),
         NEW i \in Known(src), ProbeEnds(dst, hash, src.names[i])
  PROVE  LET n == src.names[i] IN
         /\ n \in Channels
         /\ CtxOK(MergeChannel(dst, hash, src, i), hash)
         /\ TallyOf(MergeChannel(dst, hash, src, i)) =
              [TallyOf(dst) EXCEPT ![n] =
                 [m \in Months |-> MergeStats(TallyOf(dst)[n][m], TallyOf(src)[n][m])]]
<1> DEFINE n == src.names[i]
           ch == ChannelId(dst, hash, n)
           row == [m \in Months |-> MergeStats(ch.ctx.stats[ch.id][m], src.stats[i][m])]
<1>1. n \in Channels /\ TallyOf(src)[n] = src.stats[i]
  <2>1. TableOK(src, hash) /\ n \in Channels
    BY DEF CtxOK, TableOK
  <2>2. QED  BY <2>1, TallyOfKnown
<1>2. MergeChannel(dst, hash, src, i) = WithStats(ch.ctx, ch.id, row)
  BY DEF MergeChannel
<1> HIDE DEF n
<1>3. ProbeEnds(dst, hash, n)
  BY DEF n
<1>4. /\ CtxOK(ch.ctx, hash)
      /\ ch.id \in Known(ch.ctx) /\ ch.ctx.names[ch.id] = n
      /\ ch.ctx.count \in Nat /\ dst.count <= ch.ctx.count
      /\ \A k \in Known(dst) : ch.ctx.names[k] = dst.names[k]
      /\ \A k \in Known(ch.ctx) : k \in Known(dst) \/ dst.stats[k] = FreshStats
      /\ ch.ctx.stats = dst.stats
  BY <1>1, <1>3, ChannelIdFacts
<1> HIDE DEF ch
<1>5. Known(dst) \subseteq Known(ch.ctx)
  BY <1>4, SizesAssumption DEF Known, CtxOK
<1>6. TallyOf(ch.ctx) = TallyOf(dst)
  BY <1>4, <1>5, TallyAfterInsert
<1> HIDE DEF row
<1>7. /\ CtxOK(WithStats(ch.ctx, ch.id, row), hash)
      /\ TallyOf(ch.ctx)[n] = ch.ctx.stats[ch.id]
      /\ TallyOf(WithStats(ch.ctx, ch.id, row)) = [TallyOf(ch.ctx) EXCEPT ![n] = row]
  BY <1>4, WithStatsFacts
<1>8. row = [m \in Months |-> MergeStats(TallyOf(dst)[n][m], TallyOf(src)[n][m])]
  BY <1>1, <1>6, <1>7 DEF row
<1>9. QED  BY <1>1, <1>2, <1>6, <1>7, <1>8 DEF n

LEMMA InitCtxOK ==
  ASSUME NEW hash \in [Channels -> Slots]
  PROVE  CtxOK(InitCtx, hash)
<1>1. Known(InitCtx) = {}
  BY DEF Known, InitCtx
<1>2. \A s \in Slots : Empty(InitCtx.table[s])
  BY DEF InitCtx, Empty, EmptySlot
<1>3. TableOK(InitCtx, hash)
  BY <1>1, <1>2 DEF TableOK
<1>4. QED  BY <1>3, SizesAssumption DEF CtxOK, InitCtx

---------------------------------------------------------------------------
(* Induction over the naturals, for a set in place of a predicate.         *)
LEMMA LeastNat ==
  ASSUME NEW T, T \subseteq Nat, T # {}
  PROVE  \E n \in T : \A k \in T : n <= k
<1>1. IsWellFoundedOn(OpToRel(<, Nat), Nat)
  BY NatLessThanWellFounded, Zenon
<1>2. PICK n \in T : \A k \in T : ~ (<<k, n>> \in OpToRel(<, Nat))
  BY <1>1, WFMin, Zenon
<1>3. \A k \in T : ~ (k < n)
  <2>1. \A k \in T : <<k, n>> \in Nat \X Nat
    OBVIOUS
  <2> QED
    BY <1>2, <2>1, Zenon DEF OpToRel
<1> QED
  BY <1>3

LEMMA NatInduct ==
  ASSUME NEW T, 0 \in T, \A n \in Nat : n \in T => n + 1 \in T
  PROVE  \A n \in Nat : n \in T
<1> SUFFICES ASSUME Nat \ T # {} PROVE FALSE
  OBVIOUS
<1>1. PICK n \in Nat \ T : \A k \in Nat \ T : n <= k
  <2>1. Nat \ T \subseteq Nat
    OBVIOUS
  <2> QED
    BY <2>1, LeastNat
<1>2. n # 0 /\ n \in Nat
  BY <1>1
<1>3. n - 1 \in Nat /\ n - 1 \in T
  BY <1>1, <1>2
<1> QED
  BY <1>1, <1>3

---------------------------------------------------------------------------
(* Sums over a finite set: the recursion of SumFunctionOnSet has one       *)
(* solution, and it does not matter which element is added first.          *)
Pick(s) == CHOOSE x \in s : TRUE

Rest(g, f, s) == IF s = {} THEN 0 ELSE f[Pick(s)] + g[s \ {Pick(s)}]

Adds(g, f, S) == g = [s \in SUBSET S |-> Rest(g, f, s)]

UpTo(S, n) == {s \in SUBSET S : Cardinality(s) <= n}

LEMMA Unfold ==
  ASSUME NEW f, NEW S
  PROVE  SumFunctionOnSet(f, S) = (CHOOSE g : Adds(g, f, S))[S]
BY Zenon DEF SumFunctionOnSet, FoldFunctionOnSet, MapThenFoldSet, Adds, Rest, Pick

LEMMA PickOne ==
  ASSUME NEW S, IsFiniteSet(S), NEW s \in SUBSET S, s # {}
  PROVE  /\ Pick(s) \in s /\ s \ {Pick(s)} \in SUBSET S
         /\ Cardinality(s) \in Nat /\ Cardinality(s) > 0
         /\ Cardinality(s \ {Pick(s)}) = Cardinality(s) - 1
<1>1. Pick(s) \in s
  BY DEF Pick
<1>2. IsFiniteSet(s)
  BY FS_Subset
<1>3. Cardinality(s) \in Nat /\ Cardinality(s) # 0
  BY <1>2, FS_CardinalityType, FS_EmptySet
<1>4. Cardinality(s \ {Pick(s)}) = Cardinality(s) - 1
  BY <1>1, <1>2, FS_RemoveElement
<1> QED
  BY <1>1, <1>3, <1>4

LEMMA SumExists ==
  ASSUME NEW f, NEW S, IsFiniteSet(S), \A x \in S : f[x] \in Int
  PROVE  \E g \in [SUBSET S -> Int] : Adds(g, f, S)
<1> DEFINE T == {n \in Nat : \E g \in [UpTo(S, n) -> Int] :
                               \A s \in UpTo(S, n) : g[s] = Rest(g, f, s)}
<1>1. \A s \in SUBSET S : Cardinality(s) \in Nat /\ (Cardinality(s) = 0 <=> s = {})
  BY FS_Subset, FS_CardinalityType, FS_EmptySet
<1>2. 0 \in T
  <2> DEFINE g == [s \in UpTo(S, 0) |-> 0]
  <2>1. \A s \in UpTo(S, 0) : s = {}
    BY <1>1 DEF UpTo
  <2>2. g \in [UpTo(S, 0) -> Int] /\ \A s \in UpTo(S, 0) : g[s] = Rest(g, f, s)
    BY <2>1 DEF Rest
  <2> QED
    BY <2>2
<1>3. ASSUME NEW n \in Nat, n \in T
      PROVE  n + 1 \in T
  <2>1. PICK g \in [UpTo(S, n) -> Int] : \A s \in UpTo(S, n) : g[s] = Rest(g, f, s)
    BY <1>3
  <2> DEFINE h == [s \in UpTo(S, n + 1) |-> Rest(g, f, s)]
  <2>2. UpTo(S, n) \subseteq UpTo(S, n + 1)
    BY <1>1 DEF UpTo
  <2>3. \A s \in UpTo(S, n + 1) :
           s # {} => Pick(s) \in S /\ s \ {Pick(s)} \in UpTo(S, n)
    <3> SUFFICES ASSUME NEW s \in UpTo(S, n + 1), s # {}
                 PROVE  Pick(s) \in S /\ s \ {Pick(s)} \in UpTo(S, n)
      OBVIOUS
    <3>1. s \in SUBSET S /\ Cardinality(s) <= n + 1
      BY DEF UpTo
    <3>2. /\ Pick(s) \in s /\ s \ {Pick(s)} \in SUBSET S
          /\ Cardinality(s) \in Nat
          /\ Cardinality(s \ {Pick(s)}) = Cardinality(s) - 1
      BY <3>1, PickOne
    <3> QED
      BY <3>1, <3>2 DEF UpTo
  <2>4. \A s \in UpTo(S, n + 1) : Rest(g, f, s) \in Int
    <3> SUFFICES ASSUME NEW s \in UpTo(S, n + 1), s # {}
                 PROVE  f[Pick(s)] + g[s \ {Pick(s)}] \in Int
      BY DEF Rest
    <3>1. f[Pick(s)] \in Int /\ g[s \ {Pick(s)}] \in Int
      BY <2>1, <2>3
    <3> QED
      BY <3>1
  <2>5. \A s \in UpTo(S, n) : h[s] = g[s]
    BY <2>1, <2>2
  <2>6. \A s \in UpTo(S, n + 1) : h[s] = Rest(h, f, s)
    BY <2>3, <2>5 DEF Rest
  <2>7. h \in [UpTo(S, n + 1) -> Int]
    BY <2>4
  <2> HIDE DEF h
  <2>8. \E k \in [UpTo(S, n + 1) -> Int] : \A s \in UpTo(S, n + 1) : k[s] = Rest(k, f, s)
    BY <2>6, <2>7, Zenon
  <2> QED
    BY <2>8
<1> HIDE DEF T
<1>4. Cardinality(S) \in Nat
  BY FS_CardinalityType
<1>5. Cardinality(S) \in T
  BY <1>2, <1>3, <1>4, NatInduct
<1>6. UpTo(S, Cardinality(S)) = SUBSET S
  BY FS_Subset DEF UpTo
<1>7. PICK g \in [SUBSET S -> Int] : \A s \in SUBSET S : g[s] = Rest(g, f, s)
  BY <1>5, <1>6 DEF T
<1> QED
  BY <1>7 DEF Adds

(* Two sums agree on the sets on which what they add agrees.               *)
LEMMA SumAgree ==
  ASSUME NEW f, NEW S, NEW g, Adds(g, f, S), NEW h, NEW R, NEW k, Adds(k, h, R),
         IsFiniteSet(S), \A x \in S \cap R : f[x] = h[x],
         NEW s \in SUBSET (S \cap R)
  PROVE  g[s] = k[s]
<1> DEFINE T == {n \in Nat : \A r \in SUBSET (S \cap R) : Cardinality(r) = n => g[r] = k[r]}
<1>0. /\ \A r \in SUBSET S : g[r] = Rest(g, f, r)
      /\ \A r \in SUBSET R : k[r] = Rest(k, h, r)
  BY DEF Adds
<1>1. 0 \in T
  <2> SUFFICES ASSUME NEW r \in SUBSET (S \cap R), Cardinality(r) = 0 PROVE g[r] = k[r]
    OBVIOUS
  <2>1. r = {}
    BY FS_Subset, FS_EmptySet
  <2> QED
    BY <1>0, <2>1 DEF Rest
<1>2. ASSUME NEW n \in Nat, n \in T
      PROVE  n + 1 \in T
  <2> SUFFICES ASSUME NEW r \in SUBSET (S \cap R), Cardinality(r) = n + 1 PROVE g[r] = k[r]
    OBVIOUS
  <2>1. r # {}
    BY FS_EmptySet
  <2>2. Pick(r) \in r /\ Cardinality(r \ {Pick(r)}) = n /\ r \in SUBSET S
    BY <2>1, PickOne
  <2>3. g[r \ {Pick(r)}] = k[r \ {Pick(r)}]
    BY <1>2, <2>2
  <2>4. f[Pick(r)] = h[Pick(r)]
    BY <2>2
  <2> QED
    BY <1>0, <2>1, <2>3, <2>4 DEF Rest
<1> HIDE DEF T
<1>3. Cardinality(s) \in Nat
  BY FS_Subset, FS_CardinalityType
<1>4. Cardinality(s) \in T
  BY <1>1, <1>2, <1>3, NatInduct
<1> QED
  BY <1>4 DEF T

(* Any element may be added first.                                         *)
InAnyOrder(g, f, S) ==
  \A s \in SUBSET S : \A y \in s : g[s] = f[y] + g[s \ {y}]

LEMMA AnyFirst ==
  ASSUME NEW f, NEW S, NEW g, IsFiniteSet(S), \A x \in S : f[x] \in Int,
         g \in [SUBSET S -> Int], Adds(g, f, S)
  PROVE  InAnyOrder(g, f, S)
<1> SUFFICES ASSUME NEW s \in SUBSET S, NEW y \in s
             PROVE  g[s] = f[y] + g[s \ {y}]
  BY DEF InAnyOrder
<1> DEFINE T == {n \in Nat : \A r \in SUBSET S : Cardinality(r) = n =>
                               \A z \in r : g[r] = f[z] + g[r \ {z}]}
<1>0. \A r \in SUBSET S : g[r] = Rest(g, f, r)
  BY DEF Adds
<1>1. 0 \in T
  BY FS_Subset, FS_EmptySet
<1>2. ASSUME NEW n \in Nat, n \in T
      PROVE  n + 1 \in T
  <2> SUFFICES ASSUME NEW r \in SUBSET S, Cardinality(r) = n + 1, NEW z \in r
               PROVE  g[r] = f[z] + g[r \ {z}]
    OBVIOUS
  <2> DEFINE x == Pick(r)
  <2>1. /\ x \in r /\ x \in S /\ z \in S
        /\ r \ {x} \in SUBSET S /\ r \ {z} \in SUBSET S
        /\ g[r] = f[x] + g[r \ {x}]
    BY <1>0, PickOne DEF Rest
  <2>2. IsFiniteSet(r) /\ Cardinality(r \ {x}) = n /\ Cardinality(r \ {z}) = n
    <3>1. IsFiniteSet(r)
      BY FS_Subset
    <3>2. \A w \in r : Cardinality(r \ {w}) = Cardinality(r) - 1
      BY <3>1, FS_RemoveElement
    <3>3. n + 1 - 1 = n
      OBVIOUS
    <3> QED
      BY <2>1, <3>1, <3>2, <3>3
  <2> HIDE DEF x
  <2>3. CASE x = z
    BY <2>1, <2>3
  <2>4. CASE x # z
    <3>1. g[r \ {x}] = f[z] + g[(r \ {x}) \ {z}]
      BY <1>2, <2>1, <2>2, <2>4
    <3>2. g[r \ {z}] = f[x] + g[(r \ {z}) \ {x}]
      BY <1>2, <2>1, <2>2, <2>4
    <3>3. (r \ {x}) \ {z} = (r \ {z}) \ {x}
      OBVIOUS
    <3> DEFINE w == g[(r \ {x}) \ {z}]
    <3>4. f[x] \in Int /\ f[z] \in Int /\ w \in Int
      <4>1. (r \ {x}) \ {z} \in SUBSET S
        BY <2>1
      <4> QED
        BY <4>1, <2>1
    <3>5. g[r] = f[x] + (f[z] + w) /\ g[r \ {z}] = f[x] + w
      BY <2>1, <3>1, <3>2, <3>3
    <3> HIDE DEF w
    <3> QED
      BY <3>4, <3>5
  <2> QED
    BY <2>3, <2>4
<1> HIDE DEF T
<1>3. Cardinality(s) \in Nat
  BY FS_Subset, FS_CardinalityType
<1>4. Cardinality(s) \in T
  BY <1>1, <1>2, <1>3, NatInduct
<1> QED
  BY <1>4 DEF T

---------------------------------------------------------------------------
(* What the proofs use of sums.                                            *)
LEMMA SumSolution ==
  ASSUME NEW f, NEW S, IsFiniteSet(S), \A x \in S : f[x] \in Int
  PROVE  \E g \in [SUBSET S -> Int] : Adds(g, f, S) /\ SumFunctionOnSet(f, S) = g[S]
<1> DEFINE c == CHOOSE g : Adds(g, f, S)
<1>1. PICK g \in [SUBSET S -> Int] : Adds(g, f, S)
  BY SumExists
<1>2. Adds(c, f, S)
  BY <1>1, Zenon
<1>3. SumFunctionOnSet(f, S) = c[S]
  BY Unfold
<1> HIDE DEF c
<1>4. c[S] = g[S]
  BY <1>1, <1>2, SumAgree
<1> QED
  BY <1>1, <1>3, <1>4

LEMMA SumType ==
  ASSUME NEW f, NEW S, IsFiniteSet(S), \A x \in S : f[x] \in Int
  PROVE  SumFunctionOnSet(f, S) \in Int
<1>1. PICK g \in [SUBSET S -> Int] : SumFunctionOnSet(f, S) = g[S]
  BY SumSolution
<1> QED
  BY <1>1

LEMMA SumEmpty ==
  ASSUME NEW f
  PROVE  SumFunctionOnSet(f, {}) = 0
<1>1. IsFiniteSet({}) /\ \A x \in {} : f[x] \in Int
  BY FS_EmptySet
<1>2. PICK g \in [SUBSET {} -> Int] : Adds(g, f, {}) /\ SumFunctionOnSet(f, {}) = g[{}]
  BY <1>1, SumSolution
<1> QED
  BY <1>2 DEF Adds, Rest

(* Sums are equal if what they add is.                                     *)
LEMMA SumEqual ==
  ASSUME NEW f, NEW h, NEW S, IsFiniteSet(S),
         \A x \in S : f[x] \in Int /\ f[x] = h[x]
  PROVE  SumFunctionOnSet(f, S) = SumFunctionOnSet(h, S)
<1>1. PICK g \in [SUBSET S -> Int] : Adds(g, f, S) /\ SumFunctionOnSet(f, S) = g[S]
  BY SumSolution
<1>2. PICK k \in [SUBSET S -> Int] : Adds(k, h, S) /\ SumFunctionOnSet(h, S) = k[S]
  BY SumSolution
<1>3. g[S] = k[S]
  BY <1>1, <1>2, SumAgree
<1> QED
  BY <1>1, <1>2, <1>3

(* One element taken out of a sum.                                         *)
LEMMA SumRemove ==
  ASSUME NEW f, NEW S, IsFiniteSet(S), \A x \in S : f[x] \in Int, NEW y \in S
  PROVE  SumFunctionOnSet(f, S) = f[y] + SumFunctionOnSet(f, S \ {y})
<1>1. PICK g \in [SUBSET S -> Int] : Adds(g, f, S) /\ SumFunctionOnSet(f, S) = g[S]
  BY SumSolution
<1>2. IsFiniteSet(S \ {y}) /\ \A x \in S \ {y} : f[x] \in Int
  BY FS_Subset
<1>3. PICK k \in [SUBSET (S \ {y}) -> Int] :
        Adds(k, f, S \ {y}) /\ SumFunctionOnSet(f, S \ {y}) = k[S \ {y}]
  BY <1>2, SumSolution
<1>4. S \ {y} \in SUBSET (S \cap (S \ {y}))
  OBVIOUS
<1>5. g[S \ {y}] = k[S \ {y}]
  BY <1>1, <1>3, <1>4, SumAgree
<1>6. InAnyOrder(g, f, S)
  BY <1>1, AnyFirst
<1>7. g[S] = f[y] + g[S \ {y}]
  BY <1>6 DEF InAnyOrder
<1> QED
  BY <1>1, <1>3, <1>5, <1>7

(* Sums that change in one element.                                        *)
LEMMA SumPut ==
  ASSUME NEW f, NEW S, IsFiniteSet(S), NEW y, y \notin S, \A x \in S \cup {y} : f[x] \in Int
  PROVE  SumFunctionOnSet(f, S \cup {y}) = f[y] + SumFunctionOnSet(f, S)
<1> DEFINE R == S \cup {y}
<1>1. IsFiniteSet(R) /\ y \in R /\ R \ {y} = S
  BY FS_AddElement
<1>2. \A x \in R : f[x] \in Int
  OBVIOUS
<1> HIDE DEF R
<1>3. SumFunctionOnSet(f, R) = f[y] + SumFunctionOnSet(f, R \ {y})
  BY <1>1, <1>2, SumRemove
<1> QED
  BY <1>1, <1>3 DEF R

(* A sum in which one element differs.                                     *)
LEMMA SumChange ==
  ASSUME NEW f, NEW g, NEW S, IsFiniteSet(S), NEW y \in S, NEW d \in Int,
         \A x \in S : f[x] \in Int, \A x \in S : x # y => g[x] = f[x], g[y] = f[y] + d
  PROVE  SumFunctionOnSet(g, S) = SumFunctionOnSet(f, S) + d
<1>1. \A x \in S : g[x] \in Int
  OBVIOUS
<1>2. SumFunctionOnSet(g, S) = g[y] + SumFunctionOnSet(g, S \ {y})
  BY <1>1, SumRemove
<1>3. SumFunctionOnSet(f, S) = f[y] + SumFunctionOnSet(f, S \ {y})
  BY SumRemove
<1>4. IsFiniteSet(S \ {y}) /\ \A x \in S \ {y} : f[x] \in Int /\ f[x] = g[x]
  BY FS_Subset
<1>5. SumFunctionOnSet(f, S \ {y}) = SumFunctionOnSet(g, S \ {y})
  BY <1>4, SumEqual
<1>6. SumFunctionOnSet(f, S \ {y}) \in Int
  BY <1>4, SumType
<1> QED
  BY <1>2, <1>3, <1>5, <1>6

(* What is taken from one sum is added to another, up to a difference d.   *)
LEMMA SumMove ==
  ASSUME NEW f, NEW g, NEW S, IsFiniteSet(S), NEW i \in S, NEW d \in Int,
         NEW w, NEW v, NEW R, IsFiniteSet(R), NEW j \in R,
         \A x \in S : f[x] \in Int, \A x \in R : w[x] \in Int,
         \A x \in S : x # i => g[x] = f[x], g[i] = f[i] + w[j] + d,
         \A x \in R : x # j => v[x] = w[x]
  PROVE  SumFunctionOnSet(g, S) + SumFunctionOnSet(v, R \ {j})
           = SumFunctionOnSet(f, S) + SumFunctionOnSet(w, R) + d
<1>1. SumFunctionOnSet(g, S) = SumFunctionOnSet(f, S) + (w[j] + d)
  <2>1. g[i] = f[i] + (w[j] + d) /\ w[j] + d \in Int
    OBVIOUS
  <2> QED
    BY <2>1, SumChange
<1>2. SumFunctionOnSet(w, R) = w[j] + SumFunctionOnSet(w, R \ {j})
  BY SumRemove
<1>3. IsFiniteSet(R \ {j}) /\ \A x \in R \ {j} : w[x] \in Int /\ w[x] = v[x]
  BY FS_Subset
<1>4. SumFunctionOnSet(w, R \ {j}) = SumFunctionOnSet(v, R \ {j})
  BY <1>3, SumEqual
<1>5. SumFunctionOnSet(w, R \ {j}) \in Int /\ SumFunctionOnSet(f, S) \in Int
  BY <1>3, SumType
<1>6. w[j] \in Int
  OBVIOUS
<1> QED
  BY <1>1, <1>2, <1>4, <1>5, <1>6

(* One element of a sum is added to another, up to a difference d.         *)
LEMMA SumMerge ==
  ASSUME NEW f, NEW g, NEW S, IsFiniteSet(S), NEW i \in S, NEW k \in S, i # k, NEW d \in Int,
         \A x \in S : f[x] \in Int,
         \A x \in S : x # i /\ x # k => g[x] = f[x], g[i] = f[i] + f[k] + d
  PROVE  SumFunctionOnSet(g, S \ {k}) = SumFunctionOnSet(f, S) + d
<1>1. SumFunctionOnSet(f, S) = f[k] + SumFunctionOnSet(f, S \ {k})
  BY SumRemove
<1>2. IsFiniteSet(S \ {k}) /\ i \in S \ {k} /\ \A x \in S \ {k} : f[x] \in Int
  BY FS_Subset
<1>3. SumFunctionOnSet(g, S \ {k}) = SumFunctionOnSet(f, S \ {k}) + (f[k] + d)
  <2>1. g[i] = f[i] + (f[k] + d) /\ f[k] + d \in Int
    OBVIOUS
  <2>2. \A x \in S \ {k} : x # i => g[x] = f[x]
    OBVIOUS
  <2> QED
    BY <1>2, <2>1, <2>2, SumChange
<1>4. SumFunctionOnSet(f, S \ {k}) \in Int /\ f[k] \in Int
  BY <1>2, SumType
<1> QED
  BY <1>1, <1>3, <1>4

(* A sum of natural numbers is one, and at least each of them.             *)
LEMMA SumNat ==
  ASSUME NEW f, NEW S, IsFiniteSet(S), \A x \in S : f[x] \in Nat
  PROVE  /\ SumFunctionOnSet(f, S) \in Nat
         /\ \A y \in S : f[y] <= SumFunctionOnSet(f, S)
<1> DEFINE T == {k \in Nat : \A s \in SUBSET S : Cardinality(s) = k => SumFunctionOnSet(f, s) \in Nat}
<1>1. \A s \in SUBSET S : IsFiniteSet(s) /\ Cardinality(s) \in Nat
  BY FS_Subset, FS_CardinalityType
<1>2. 0 \in T
  <2>1. \A s \in SUBSET S : Cardinality(s) = 0 => s = {}
    BY <1>1, FS_EmptySet
  <2> QED
    BY <2>1, SumEmpty
<1>3. ASSUME NEW k \in Nat, k \in T
      PROVE  k + 1 \in T
  <2> SUFFICES ASSUME NEW s \in SUBSET S, Cardinality(s) = k + 1
               PROVE  SumFunctionOnSet(f, s) \in Nat
    OBVIOUS
  <2>1. s # {}
    BY FS_EmptySet
  <2>2. Pick(s) \in s /\ s \ {Pick(s)} \in SUBSET S /\ Cardinality(s \ {Pick(s)}) = Cardinality(s) - 1
    BY <2>1, PickOne
  <2>3. Cardinality(s \ {Pick(s)}) = k
    BY <2>2
  <2>4. SumFunctionOnSet(f, s \ {Pick(s)}) \in Nat
    BY <1>3, <2>2, <2>3
  <2>5. SumFunctionOnSet(f, s) = f[Pick(s)] + SumFunctionOnSet(f, s \ {Pick(s)})
    BY <1>1, <2>2, SumRemove
  <2>6. f[Pick(s)] \in Nat
    BY <2>2
  <2> QED
    BY <2>4, <2>5, <2>6
<1> HIDE DEF T
<1>4. \A k \in Nat : k \in T
  BY <1>2, <1>3, NatInduct
<1>5. \A s \in SUBSET S : SumFunctionOnSet(f, s) \in Nat
  BY <1>1, <1>4 DEF T
<1>6. ASSUME NEW y \in S
      PROVE  f[y] <= SumFunctionOnSet(f, S)
  <2>1. SumFunctionOnSet(f, S) = f[y] + SumFunctionOnSet(f, S \ {y})
    BY SumRemove
  <2>2. f[y] \in Nat /\ SumFunctionOnSet(f, S \ {y}) \in Nat
    BY <1>5
  <2> QED
    BY <2>1, <2>2
<1> QED
  BY <1>5, <1>6

(* The same c added to every term is added once for every element.         *)
LEMMA SumShift ==
  ASSUME NEW f, NEW g, NEW S, IsFiniteSet(S), NEW c \in Int,
         \A x \in S : f[x] \in Int, \A x \in S : g[x] = c + f[x]
  PROVE  SumFunctionOnSet(g, S) = Cardinality(S) * c + SumFunctionOnSet(f, S)
<1> DEFINE Shifted(s) == SumFunctionOnSet(g, s) = Cardinality(s) * c + SumFunctionOnSet(f, s)
           T == {k \in Nat : \A s \in SUBSET S : Cardinality(s) = k => Shifted(s)}
<1>1. \A s \in SUBSET S : IsFiniteSet(s) /\ Cardinality(s) \in Nat
  BY FS_Subset, FS_CardinalityType
<1>2. 0 \in T
  <2>1. ASSUME NEW s \in SUBSET S, Cardinality(s) = 0
        PROVE  Shifted(s)
    <3>1. s = {}
      BY <1>1, <2>1, FS_EmptySet
    <3>2. SumFunctionOnSet(g, s) = 0 /\ SumFunctionOnSet(f, s) = 0
      BY <3>1, SumEmpty
    <3> QED
      BY <2>1, <3>2
  <2> QED
    BY <2>1
<1>3. ASSUME NEW k \in Nat, k \in T
      PROVE  k + 1 \in T
  <2>1. ASSUME NEW s \in SUBSET S, Cardinality(s) = k + 1
        PROVE  Shifted(s)
    <3>1. s # {}
      BY <2>1, FS_EmptySet
    <3> DEFINE r == s \ {Pick(s)}
    <3>2. Pick(s) \in s /\ r \in SUBSET S /\ Cardinality(r) = Cardinality(s) - 1
      BY <3>1, PickOne
    <3>3. Cardinality(r) = k
      BY <2>1, <3>2
    <3>4. Shifted(r)
      BY <1>3, <3>2, <3>3
    <3>5. \A x \in s : f[x] \in Int /\ g[x] \in Int
      OBVIOUS
    <3>6. SumFunctionOnSet(f, s) = f[Pick(s)] + SumFunctionOnSet(f, r)
      BY <1>1, <3>2, <3>5, SumRemove
    <3>7. SumFunctionOnSet(g, s) = g[Pick(s)] + SumFunctionOnSet(g, r)
      BY <1>1, <3>2, <3>5, SumRemove
    <3>8. SumFunctionOnSet(f, r) \in Int
      BY <1>1, <3>2, SumType
    <3>9. g[Pick(s)] = c + f[Pick(s)] /\ f[Pick(s)] \in Int
      BY <3>2
    <3>10. (k + 1) * c = k * c + c /\ k * c \in Int
      OBVIOUS
    <3> HIDE DEF r
    <3> QED
      BY <2>1, <3>3, <3>4, <3>6, <3>7, <3>8, <3>9, <3>10
  <2> QED
    BY <2>1
<1> HIDE DEF T
<1>4. \A k \in Nat : k \in T
  BY <1>2, <1>3, NatInduct
<1> QED
  BY <1>1, <1>4 DEF T

---------------------------------------------------------------------------
(* Joining sequences end to end gives a sequence.                          *)
JoinedUp(g, seqs, n) ==
  \A i \in 1..n : g[i] = IF i = 1 THEN seqs[i] ELSE g[i - 1] \o seqs[i]

LEMMA JoinExists ==
  ASSUME NEW X, NEW seqs \in Seq(Seq(X))
  PROVE  \E g \in [1..Len(seqs) -> Seq(X)] : JoinedUp(g, seqs, Len(seqs))
<1>1. Len(seqs) \in Nat /\ \A i \in 1..Len(seqs) : seqs[i] \in Seq(X)
  OBVIOUS
<1> DEFINE T == {n \in Nat : n <= Len(seqs) =>
                               \E g \in [1..n -> Seq(X)] : JoinedUp(g, seqs, n)}
<1>2. 0 \in T
  <2> DEFINE g == [i \in 1..0 |-> seqs[i]]
  <2>1. g \in [1..0 -> Seq(X)] /\ JoinedUp(g, seqs, 0)
    BY DEF JoinedUp
  <2> QED
    BY <2>1
<1>3. ASSUME NEW n \in Nat, n \in T
      PROVE  n + 1 \in T
  <2> SUFFICES ASSUME n + 1 <= Len(seqs)
               PROVE  \E h \in [1..(n + 1) -> Seq(X)] : JoinedUp(h, seqs, n + 1)
    OBVIOUS
  <2>1. PICK g \in [1..n -> Seq(X)] : JoinedUp(g, seqs, n)
    BY <1>1, <1>3
  <2> DEFINE h == [i \in 1..(n + 1) |->
                     IF i <= n THEN g[i] ELSE IF i = 1 THEN seqs[i] ELSE g[n] \o seqs[i]]
  <2>2. \A i \in 1..(n + 1) : i <= n => h[i] = g[i] /\ i \in 1..n
    OBVIOUS
  <2>3. seqs[n + 1] \in Seq(X)
    BY <1>1
  <2>4. n + 1 # 1 => n \in 1..n /\ h[n] = g[n] /\ g[n] \in Seq(X)
    OBVIOUS
  <2>5. n + 1 # 1 => h[n + 1] = h[n] \o seqs[n + 1] /\ h[n + 1] \in Seq(X)
    <3>1. PICK k \in Nat : k = n + 1
      OBVIOUS
    <3>2. k \in 1..(n + 1) /\ ~ (k <= n)
      BY <3>1
    <3>3. k # 1 => h[k] = g[n] \o seqs[k]
      BY <3>2
    <3> HIDE DEF h
    <3>4. k # 1 => h[k] = h[n] \o seqs[k] /\ h[k] \in Seq(X)
      <4> SUFFICES ASSUME k # 1 PROVE h[k] = h[n] \o seqs[k] /\ h[k] \in Seq(X)
        OBVIOUS
      <4>1. h[n] = g[n] /\ g[n] \in Seq(X) /\ seqs[k] \in Seq(X)
        BY <2>3, <2>4, <3>1, Zenon
      <4>2. g[n] \o seqs[k] \in Seq(X)
        BY <4>1
      <4> QED
        BY <3>3, <4>1, <4>2, Zenon
    <3> QED
      BY <3>1, <3>4, Zenon
  <2>6. n + 1 = 1 => h[n + 1] = seqs[n + 1] /\ h[n + 1] \in Seq(X)
    BY <2>3
  <2>7. \A i \in 1..(n + 1) : i <= n \/ i = n + 1
    OBVIOUS
  <2>8. h \in [1..(n + 1) -> Seq(X)]
    BY <2>2, <2>5, <2>6, <2>7
  <2>9. JoinedUp(h, seqs, n + 1)
    <3> SUFFICES ASSUME NEW i \in 1..(n + 1)
                 PROVE  h[i] = IF i = 1 THEN seqs[i] ELSE h[i - 1] \o seqs[i]
      BY DEF JoinedUp
    <3>1. CASE i <= n
      <4>1. h[i] = g[i] /\ (i # 1 => h[i - 1] = g[i - 1])
        BY <2>2, <3>1
      <4>2. g[i] = IF i = 1 THEN seqs[i] ELSE g[i - 1] \o seqs[i]
        BY <2>1, <2>2, <3>1 DEF JoinedUp
      <4> QED
        BY <4>1, <4>2
    <3>2. CASE i = n + 1
      <4>1. i # 1 => h[i] = h[i - 1] \o seqs[i]
        <5>1. i - 1 = n
          BY <3>2
        <5> HIDE DEF h
        <5> QED
          BY <2>5, <3>2, <5>1
      <4> QED
        BY <2>6, <3>2, <4>1
    <3> QED
      BY <2>7, <3>1, <3>2
  <2> HIDE DEF h
  <2> QED
    BY <2>8, <2>9
<1> HIDE DEF T
<1>4. Len(seqs) \in T
  BY <1>1, <1>2, <1>3, NatInduct
<1> QED
  BY <1>1, <1>4 DEF T

(* FlattenSeq is the last of those joins.                                  *)
LEMMA FlattenSteps ==
  ASSUME NEW X, NEW seqs \in Seq(Seq(X)), Len(seqs) # 0
  PROVE  \E g \in [1..Len(seqs) -> Seq(X)] :
            JoinedUp(g, seqs, Len(seqs)) /\ FlattenSeq(seqs) = g[Len(seqs)]
<1> DEFINE L == Len(seqs)
           F(g) == g = [i \in 1..L |-> IF i = 1 THEN seqs[i] ELSE g[i - 1] \o seqs[i]]
           c == CHOOSE g : F(g)
<1>1. L \in Nat /\ L \in 1..L
  OBVIOUS
<1>2. FlattenSeq(seqs) = c[L]
  BY Zenon DEF FlattenSeq
<1>3. PICK g \in [1..L -> Seq(X)] : JoinedUp(g, seqs, L)
  BY JoinExists
<1>4. \A i \in 1..L : g[i] = IF i = 1 THEN seqs[i] ELSE g[i - 1] \o seqs[i]
  BY <1>3, Zenon DEF JoinedUp
<1>5. F(g)
  <2> HIDE DEF L
  <2>1. DOMAIN g = 1..L /\ g = [i \in DOMAIN g |-> g[i]]
    BY <1>3
  <2> QED
    BY <1>4, <2>1
<1>6. F(c)
  BY <1>5, Zenon
<1> HIDE DEF c
<1>7. \A i \in 1..L : c[i] = IF i = 1 THEN seqs[i] ELSE c[i - 1] \o seqs[i]
  BY <1>6, Zenon
<1> HIDE DEF F
<1> DEFINE T == {n \in Nat : n \in 1..L => c[n] = g[n]}
<1>8. 0 \in T
  OBVIOUS
<1>9. ASSUME NEW n \in Nat, n \in T
      PROVE  n + 1 \in T
  <2> SUFFICES ASSUME n + 1 \in 1..L PROVE c[n + 1] = g[n + 1]
    OBVIOUS
  <2>1. PICK k \in 1..L : k = n + 1
    OBVIOUS
  <2>2. CASE n = 0
    <3>1. k = 1
      BY <2>1, <2>2
    <3>2. c[k] = seqs[k] /\ g[k] = seqs[k]
      BY <1>4, <1>7, <3>1, Zenon
    <3> QED
      BY <2>1, <3>2, Zenon
  <2>3. CASE n # 0
    <3>1. n \in 1..L /\ k # 1 /\ k - 1 = n
      BY <2>1, <2>3
    <3>2. c[n] = g[n]
      BY <1>9, <3>1
    <3>3. c[k] = c[n] \o seqs[k] /\ g[k] = g[n] \o seqs[k]
      BY <1>4, <1>7, <3>1, Zenon
    <3> QED
      BY <2>1, <3>2, <3>3, Zenon
  <2> QED
    BY <2>2, <2>3
<1> HIDE DEF T
<1>10. L \in T
  BY <1>1, <1>8, <1>9, NatInduct
<1>11. c[L] = g[L]
  BY <1>1, <1>10 DEF T
<1> QED
  BY <1>2, <1>3, <1>11

LEMMA FlattenType ==
  ASSUME NEW X, NEW seqs \in Seq(Seq(X))
  PROVE  FlattenSeq(seqs) \in Seq(X)
<1>1. CASE Len(seqs) = 0
  <2>1. FlattenSeq(seqs) = seqs /\ seqs = <<>>
    BY <1>1 DEF FlattenSeq
  <2> QED
    BY <2>1
<1>2. CASE Len(seqs) # 0
  <2>1. PICK g \in [1..Len(seqs) -> Seq(X)] : FlattenSeq(seqs) = g[Len(seqs)]
    BY <1>2, FlattenSteps
  <2>2. Len(seqs) \in 1..Len(seqs)
    BY <1>2
  <2> QED
    BY <2>1, <2>2
<1> QED
  BY <1>1, <1>2

(* Joining sequences without repetition and without a common element gives *)
(* one, with the elements of all of them.                                  *)
LEMMA AppendOnce ==
  ASSUME NEW X, NEW r \in Seq(X), NEW s \in Seq(X)
  PROVE  /\ Range(r \o s) = Range(r) \cup Range(s)
         /\ IsInjective(r) /\ IsInjective(s) /\ Range(r) \cap Range(s) = {}
              => IsInjective(r \o s)
<1> DEFINE q == r \o s
<1>1. Len(r) \in Nat /\ Len(s) \in Nat /\ q \in Seq(X) /\ Len(q) = Len(r) + Len(s)
  OBVIOUS
<1>2. /\ \A i \in 1..Len(r) : q[i] = r[i] /\ i \in 1..Len(q)
      /\ \A i \in 1..Len(s) : q[Len(r) + i] = s[i] /\ Len(r) + i \in 1..Len(q)
  OBVIOUS
<1>3. \A i \in 1..Len(q) : i \in 1..Len(r) \/ (i - Len(r) \in 1..Len(s) /\ i = Len(r) + (i - Len(r)))
  BY <1>1
<1>4. DOMAIN q = 1..Len(q) /\ DOMAIN r = 1..Len(r) /\ DOMAIN s = 1..Len(s)
  BY <1>1
<1> HIDE DEF q
<1>5. Range(q) = Range(r) \cup Range(s)
  <2>1. \A i \in DOMAIN q : q[i] \in Range(r) \cup Range(s)
    <3> SUFFICES ASSUME NEW i \in 1..Len(q) PROVE q[i] \in Range(r) \cup Range(s)
      BY <1>4
    <3>1. CASE i \in 1..Len(r)
      BY <1>2, <1>4, <3>1 DEF Range
    <3>2. CASE i - Len(r) \in 1..Len(s) /\ i = Len(r) + (i - Len(r))
      <4>1. PICK k \in 1..Len(s) : i = Len(r) + k
        BY <3>2
      <4>2. q[i] = s[k]
        BY <1>2, <4>1, Zenon
      <4> QED
        BY <1>4, <4>2 DEF Range
    <3> QED
      BY <1>3, <3>1, <3>2
  <2>2. \A i \in DOMAIN r : r[i] \in Range(q)
    BY <1>2, <1>4, Zenon DEF Range
  <2>3. \A i \in DOMAIN s : s[i] \in Range(q)
    BY <1>2, <1>4, Zenon DEF Range
  <2> QED
    BY <2>1, <2>2, <2>3, Zenon DEF Range
<1>6. ASSUME IsInjective(r), IsInjective(s), Range(r) \cap Range(s) = {}
      PROVE  IsInjective(q)
  <2> SUFFICES ASSUME NEW i \in 1..Len(q), NEW j \in 1..Len(q), q[i] = q[j]
               PROVE  i = j
    BY <1>4 DEF IsInjective
  <2>1. \A k \in 1..Len(r), l \in 1..Len(s) : r[k] # s[l]
    BY <1>4, <1>6 DEF Range
  <2>2. \A k \in 1..Len(q) :
          \/ k \in 1..Len(r) /\ q[k] = r[k]
          \/ \E l \in 1..Len(s) : k = Len(r) + l /\ q[k] = s[l]
    BY <1>2, <1>3, Zenon
  <2>3. CASE i \in 1..Len(r) /\ q[i] = r[i]
    <3>1. j \in 1..Len(r) /\ q[j] = r[j]
      BY <2>1, <2>2, <2>3, Zenon
    <3> QED
      BY <1>4, <1>6, <2>3, <3>1 DEF IsInjective
  <2>4. CASE \E l \in 1..Len(s) : i = Len(r) + l /\ q[i] = s[l]
    <3>1. PICK l \in 1..Len(s) : i = Len(r) + l /\ q[i] = s[l]
      BY <2>4
    <3>2. PICK k \in 1..Len(s) : j = Len(r) + k /\ q[j] = s[k]
      BY <2>1, <2>2, <3>1, Zenon
    <3>3. s[l] = s[k]
      BY <3>1, <3>2
    <3>4. l = k
      BY <1>4, <1>6, <3>3 DEF IsInjective
    <3> QED
      BY <3>1, <3>2, <3>4
  <2> QED
    BY <2>2, <2>3, <2>4, Zenon
<1> QED
  BY <1>5, <1>6 DEF q

LEMMA FlattenOnce ==
  ASSUME NEW X, NEW seqs \in Seq(Seq(X)),
         \A i \in 1..Len(seqs) : IsInjective(seqs[i]),
         \A i, j \in 1..Len(seqs) : i # j => Range(seqs[i]) \cap Range(seqs[j]) = {}
  PROVE  /\ Range(FlattenSeq(seqs)) = UNION {Range(seqs[i]) : i \in 1..Len(seqs)}
         /\ IsInjective(FlattenSeq(seqs))
<1> DEFINE U(n) == UNION {Range(seqs[i]) : i \in 1..n}
<1>1. CASE Len(seqs) = 0
  <2>1. FlattenSeq(seqs) = seqs /\ seqs = <<>> /\ DOMAIN seqs = {}
    BY <1>1 DEF FlattenSeq
  <2>2. Range(seqs) = {} /\ IsInjective(seqs)
    BY <2>1 DEF Range, IsInjective
  <2>3. U(0) = {}
    OBVIOUS
  <2> QED
    BY <1>1, <2>1, <2>2, <2>3
<1>2. CASE Len(seqs) # 0
  <2> DEFINE L == Len(seqs)
  <2>1. L \in Nat /\ L \in 1..L /\ \A i \in 1..L : seqs[i] \in Seq(X)
    BY <1>2
  <2>2. PICK g \in [1..L -> Seq(X)] : JoinedUp(g, seqs, L) /\ FlattenSeq(seqs) = g[L]
    BY <1>2, FlattenSteps
  <2>3. \A i \in 1..L : g[i] = IF i = 1 THEN seqs[i] ELSE g[i - 1] \o seqs[i]
    BY <2>2 DEF JoinedUp
  <2> DEFINE T == {n \in Nat : n \in 1..L => Range(g[n]) = U(n) /\ IsInjective(g[n])}
  <2> HIDE DEF U
  <2>4. 0 \in T
    OBVIOUS
  <2>5. ASSUME NEW n \in Nat, n \in T
        PROVE  n + 1 \in T
    <3> SUFFICES ASSUME n + 1 \in 1..L PROVE Range(g[n + 1]) = U(n + 1) /\ IsInjective(g[n + 1])
      OBVIOUS
    <3>1. PICK k \in 1..L : k = n + 1
      OBVIOUS
    <3>2. CASE n = 0
      <4>1. k = 1
        BY <3>1, <3>2
      <4>2. g[k] = seqs[k]
        BY <2>3, <4>1, Zenon
      <4>3. U(1) = Range(seqs[1])
        <5>1. 1..1 = {1}
          OBVIOUS
        <5> QED
          BY <5>1, Zenon DEF U
      <4> QED
        BY <3>1, <4>1, <4>2, <4>3, Zenon
    <3>3. CASE n # 0
      <4>1. n \in 1..L /\ k # 1 /\ k - 1 = n
        BY <3>1, <3>3
      <4>2. Range(g[n]) = U(n) /\ IsInjective(g[n])
        BY <2>5, <4>1
      <4>3. g[k] = g[n] \o seqs[k]
        BY <2>3, <4>1, Zenon
      <4>4. g[n] \in Seq(X) /\ seqs[k] \in Seq(X)
        BY <2>1, <4>1
      <4>5. U(k) = U(n) \cup Range(seqs[k])
        <5>1. 1..k = 1..n \cup {k}
          BY <3>1
        <5> QED
          BY <5>1, Zenon DEF U
      <4>6. U(n) \cap Range(seqs[k]) = {}
        <5>1. \A i \in 1..n : i \in 1..L /\ i # k
          BY <3>1, <4>1
        <5>2. \A i \in 1..n : Range(seqs[i]) \cap Range(seqs[k]) = {}
          BY <5>1
        <5> QED
          BY <5>2, Zenon DEF U
      <4>7. IsInjective(seqs[k])
        OBVIOUS
      <4>8. Range(g[k]) = U(k) /\ IsInjective(g[k])
        BY <4>2, <4>3, <4>4, <4>5, <4>6, <4>7, AppendOnce
      <4> QED
        BY <3>1, <4>8, Zenon
    <3> QED
      BY <3>2, <3>3
  <2> HIDE DEF T
  <2>6. L \in T
    BY <2>1, <2>4, <2>5, NatInduct
  <2>7. Range(g[L]) = U(L) /\ IsInjective(g[L])
    BY <2>1, <2>6 DEF T
  <2> QED
    BY <2>2, <2>7 DEF U
<1> QED
  BY <1>1, <1>2

---------------------------------------------------------------------------
(* Reducing one summand by whole words does not change a sum's remainder.  *)
LEMMA WordRest ==
  ASSUME NEW x \in Int
  PROVE  \E q \in Int : x % Word = x + q * Word /\ 0 <= x % Word /\ x % Word < Word
<1>1. Word \in Int /\ Word > 0
  BY SizesAssumption
<1>2. x \div Word \in Int /\ x % Word \in Int
  BY <1>1
<1>3. PICK w \in Int, k \in Int, r \in Int : w = Word /\ k = x \div w /\ r = x % w
  BY <1>1, <1>2
<1>4. x = w * k + r /\ 0 <= r /\ r < w
  BY <1>1, <1>3
<1>5. r = x + (0 - k) * w
  BY <1>4
<1>6. 0 - k \in Int
  OBVIOUS
<1> QED
  BY <1>3, <1>4, <1>5, <1>6

LEMMA WordShift ==
  ASSUME NEW x \in Int, NEW q \in Int
  PROVE  (x + q * Word) % Word = x % Word
<1>1. Word \in Int /\ Word > 0
  BY SizesAssumption
<1>2. PICK y \in Int : y = x + q * Word
  BY <1>1
<1>3. PICK u \in Int : u = x % Word
  BY <1>1
<1>4. PICK v \in Int : v = y % Word
  BY <1>1
<1>5. PICK a \in Int : u = x + a * Word /\ 0 <= u /\ u < Word
  BY <1>3, WordRest, Zenon
<1>6. PICK b \in Int : v = y + b * Word /\ 0 <= v /\ v < Word
  BY <1>4, WordRest, Zenon
<1>7. PICK d \in Int : d = q + b - a
  OBVIOUS
<1>8. PICK w \in Int : w = Word
  BY <1>1
<1>9. v - u = d * w
  BY <1>2, <1>5, <1>6, <1>7, <1>8
<1>10. v - u < w /\ v - u > 0 - w /\ w > 0
  BY <1>1, <1>5, <1>6, <1>8
<1>11. ~ (d >= 1) /\ ~ (d <= -1)
  <2>1. d >= 1 => d * w >= w
    BY <1>10
  <2>2. d <= -1 => d * w <= 0 - w
    BY <1>10
  <2> QED
    BY <1>9, <1>10, <2>1, <2>2
<1>12. v = u
  BY <1>9, <1>10, <1>11
<1> QED
  BY <1>2, <1>3, <1>4, <1>12, Zenon

---------------------------------------------------------------------------
(* What the statistics of one channel and month can be.                    *)
StatsSet ==
  {s \in [min : 0..(Word - 1), max : Nat, total : 0..(Word - 1), countStamps : Nat] :
     s.countStamps = 0 => s = NewStats}

RowOK(r) == r.len \in Nat /\ r.stamps \in Nat

LEMMA NewStatsOK == NewStats \in StatsSet
BY SizesAssumption DEF NewStats, StatsSet

LEMMA UpdateStatsFacts ==
  ASSUME NEW s \in StatsSet, NEW r, RowOK(r)
  PROVE  LET u == UpdateStats(s, r) IN
         /\ u \in StatsSet
         /\ u.min <= s.min /\ u.min <= r.len /\ u.max >= s.max /\ u.max >= r.len
         /\ u.countStamps = s.countStamps + (Word + r.stamps)
         /\ \E q \in Int : u.total = s.total + r.len + q * Word
<1> DEFINE u == UpdateStats(s, r)
<1>1. Word \in Nat /\ Word > 0 /\ r.len \in Nat /\ r.stamps \in Nat
  BY SizesAssumption DEF RowOK
<1>2. s.min \in 0..(Word - 1) /\ s.max \in Nat /\ s.total \in 0..(Word - 1) /\ s.countStamps \in Nat
  BY DEF StatsSet
<1>3. PICK q \in Int : /\ (s.total + r.len) % Word = s.total + r.len + q * Word
                       /\ 0 <= (s.total + r.len) % Word /\ (s.total + r.len) % Word < Word
  <2>1. s.total + r.len \in Int
    BY <1>1, <1>2
  <2> QED
    BY <2>1, WordRest
<1>4. /\ u = [min |-> u.min, max |-> u.max, total |-> u.total, countStamps |-> u.countStamps]
      /\ u.min = IF r.len < s.min THEN r.len ELSE s.min
      /\ u.max = IF r.len > s.max THEN r.len ELSE s.max
      /\ u.total = (s.total + r.len) % Word
      /\ u.countStamps = s.countStamps + Word + r.stamps
  BY DEF UpdateStats
<1> HIDE DEF u
<1>5. u.min \in 0..(Word - 1) /\ u.min <= s.min /\ u.min <= r.len
  BY <1>1, <1>2, <1>4
<1>6. u.max \in Nat /\ u.max >= s.max /\ u.max >= r.len
  BY <1>1, <1>2, <1>4
<1>7. u.total \in 0..(Word - 1)
  BY <1>1, <1>2, <1>3, <1>4
<1>8. u.countStamps \in Nat /\ u.countStamps # 0 /\ u.countStamps = s.countStamps + (Word + r.stamps)
  BY <1>1, <1>2, <1>4
<1>9. u \in StatsSet
  BY <1>4, <1>5, <1>6, <1>7, <1>8 DEF StatsSet
<1> QED
  BY <1>3, <1>4, <1>5, <1>6, <1>8, <1>9 DEF u

LEMMA MergeStatsFacts ==
  ASSUME NEW d \in StatsSet, NEW s \in StatsSet
  PROVE  LET u == MergeStats(d, s) IN
         /\ u \in StatsSet
         /\ u.min <= d.min /\ u.min <= s.min /\ u.max >= d.max /\ u.max >= s.max
         /\ u.countStamps = d.countStamps + s.countStamps
         /\ \E q \in Int : u.total = d.total + s.total + q * Word
<1> DEFINE u == MergeStats(d, s)
<1>1. Word \in Nat /\ Word > 0
  BY SizesAssumption
<1>2. /\ d.min \in 0..(Word - 1) /\ d.max \in Nat /\ d.total \in 0..(Word - 1) /\ d.countStamps \in Nat
      /\ s.min \in 0..(Word - 1) /\ s.max \in Nat /\ s.total \in 0..(Word - 1) /\ s.countStamps \in Nat
  BY DEF StatsSet
<1>3. CASE s.countStamps = 0
  <2>1. s.min = Word - 1 /\ s.max = 0 /\ s.total = 0 /\ u = d
    BY <1>3 DEF StatsSet, NewStats, MergeStats
  <2>2. u.total = d.total + s.total + 0 * Word /\ u.countStamps = d.countStamps + s.countStamps
    BY <1>1, <1>2, <1>3, <2>1
  <2>3. u.min <= d.min /\ u.min <= s.min /\ u.max >= d.max /\ u.max >= s.max
    BY <1>1, <1>2, <2>1
  <2>4. u \in StatsSet
    BY <2>1
  <2> HIDE DEF u
  <2>5. \E q \in Int : u.total = d.total + s.total + q * Word
    BY <2>2
  <2> QED
    BY <2>2, <2>3, <2>4, <2>5 DEF u
<1>4. CASE s.countStamps # 0
  <2>1. /\ u = [min |-> u.min, max |-> u.max, total |-> u.total, countStamps |-> u.countStamps]
        /\ u.min = IF s.min < d.min THEN s.min ELSE d.min
        /\ u.max = IF s.max > d.max THEN s.max ELSE d.max
        /\ u.total = (d.total + s.total) % Word
        /\ u.countStamps = d.countStamps + s.countStamps
    BY <1>4 DEF MergeStats
  <2> HIDE DEF u
  <2>2. PICK q \in Int : /\ (d.total + s.total) % Word = d.total + s.total + q * Word
                         /\ 0 <= (d.total + s.total) % Word /\ (d.total + s.total) % Word < Word
    <3>1. d.total + s.total \in Int
      BY <1>2
    <3> QED
      BY <3>1, WordRest
  <2>3. u.min \in 0..(Word - 1) /\ u.min <= s.min /\ u.min <= d.min
    BY <1>1, <1>2, <2>1
  <2>4. u.max \in Nat /\ u.max >= s.max /\ u.max >= d.max
    BY <1>2, <2>1
  <2>5. u.total \in 0..(Word - 1)
    BY <1>1, <1>2, <2>1, <2>2
  <2>6. u.countStamps \in Nat /\ u.countStamps # 0
    BY <1>2, <1>4, <2>1
  <2>7. u \in StatsSet
    BY <2>1, <2>3, <2>4, <2>5, <2>6 DEF StatsSet
  <2> QED
    BY <2>1, <2>2, <2>3, <2>4, <2>7 DEF u
<1> QED
  BY <1>3, <1>4
=============================================================================
