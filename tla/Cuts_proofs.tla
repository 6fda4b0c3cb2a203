---------------------------- MODULE Cuts_proofs ----------------------------
(***************************************************************************)
(* Proofs about Cuts, for every well-formed input, any number of threads   *)
(* and every program that keeps to CutsAssumption.                         *)
(***************************************************************************)
EXTENDS Cuts, Shared_proofs, FiniteSetTheorems, SequenceTheorems

(* What CutsAssumption says of one program.                                *)
LEMMA ProgramFacts ==
  ASSUME NEW p \in Programs
  PROVE  /\ p.cap \in Nat /\ p.cap > 0 /\ p.unknown \in Nat /\ p.unknown > 0
         /\ p.sample \in Nat /\ p.batch \in Nat /\ p.buffer \in Nat
         /\ p.streams \in {1, 2, 4} /\ p.tail \in {"none", "last line", "slack"}
         /\ p.tail = "none" => /\ p.digits # "first eight" /\ p.uint = "digits" /\ p.print = "bytes"
                               /\ p.name \notin {"marks", "words", "vector"}
         /\ p.tail = "last line" => p.name # "vector" /\ MaxLineLen <= p.buffer
         /\ p.tail = "slack" => TailSlack + MaxLineLen <= p.buffer
<1>1. /\ {p.cap, p.unknown} \subseteq Nat \ {0} /\ {p.sample, p.batch, p.buffer} \subseteq Nat
      /\ p.streams \in {1, 2, 4} /\ p.tail \in {"none", "last line", "slack"}
      /\ p.tail = "none" => /\ p.digits # "first eight" /\ p.uint = "digits" /\ p.print = "bytes"
                            /\ p.name \notin {"marks", "words", "vector"}
      /\ p.tail = "last line" => p.name # "vector" /\ MaxLineLen <= p.buffer
      /\ p.tail = "slack" => TailSlack + MaxLineLen <= p.buffer
  BY CutsAssumption, Zenon
<1>2. /\ p.cap \in Nat /\ p.cap > 0 /\ p.unknown \in Nat /\ p.unknown > 0
      /\ p.sample \in Nat /\ p.batch \in Nat /\ p.buffer \in Nat
  <2>1. /\ p.cap \in Nat \ {0} /\ p.unknown \in Nat \ {0}
        /\ p.sample \in Nat /\ p.batch \in Nat /\ p.buffer \in Nat
    BY <1>1, Zenon
  <2>2. \A n \in Nat \ {0} : n \in Nat /\ n > 0
    OBVIOUS
  <2>3. QED  BY <2>1, <2>2, Zenon
<1>3. QED  BY <1>1, <1>2, Zenon

(* How far the parsers load: never farther than the longest row, except    *)
(* for the vector; and without it at most 17 bytes behind the row.         *)
LEMMA LoadFacts ==
  ASSUME NEW p \in Programs, NEW r \in Shape, NEW e \in Loads(p, r)
  PROVE  /\ e \in Nat
         /\ e <= 138
         /\ p.tail = "none" => e = RowLength(r)
         /\ p.tail = "last line" => e <= RowLength(r) + 17
<1>1. /\ r.name \in 1..104 /\ r.len \in 1..10 /\ r.stamps \in 1..10
      /\ RowLength(r) = 14 + r.name + r.len + r.stamps
      /\ RowLength(r) \in Nat /\ 17 <= RowLength(r) /\ RowLength(r) <= 138
  BY RowSize DEF RowLength
<1>2. /\ Scan \in {32, 64}
      /\ p.tail = "none" => /\ p.digits # "first eight" /\ p.uint = "digits" /\ p.print = "bytes"
                            /\ p.name \notin {"marks", "words", "vector"}
      /\ p.tail = "last line" => p.name # "vector"
  BY CutsAssumption, ProgramFacts, Zenon
<1>3. ASSUME e \in {8 : x \in {x \in {0} : p.digits = "first eight"}}
      PROVE  e = 8 /\ p.tail # "none"
  BY <1>2, <1>3
<1>4. ASSUME e \in NameLoads(p, r)
      PROVE  /\ e \in Nat /\ e <= 123
             /\ e <= r.name + 27 \/ p.tail # "last line"
             /\ p.tail # "none"
  <2> DEFINE first == CASE p.name \in {"marks", "words"} -> 16
                        [] p.name = "vector"             -> Scan
                        [] OTHER                         -> 0
  <2>1. /\ first # 0
        /\ e \in {11 + first} \cup {11 + first + 8 * k + 8 : k \in {k \in 0..13 : first + 8 * k <= r.name}}
    BY <1>4 DEF NameLoads
  <2>2. /\ first \in {0, 16, 32, 64}
        /\ p.name \notin {"marks", "words", "vector"} => first = 0
        /\ p.name # "vector" => first \in {0, 16}
    BY <1>2
  <2> HIDE DEF first
  <2>3. \/ e = 11 + first
        \/ \E k \in 0..13 : e = 11 + first + 8 * k + 8 /\ first + 8 * k <= r.name
    BY <2>1
  <2>4. e \in Nat /\ e <= 123
    BY <2>2, <2>3, <1>1
  <2>5. first = 16 => e <= r.name + 27
    BY <2>3, <1>1
  <2>6. p.tail # "none"
    BY <2>1, <2>2, <1>2
  <2>7. p.tail = "last line" => first = 16
    BY <2>1, <2>2, <1>2
  <2>8. QED  BY <2>4, <2>5, <2>6, <2>7, Zenon
<1>5. ASSUME e \in NumberLoads(p, r)
      PROVE  e \in Nat /\ e <= 135 /\ e <= r.name + r.len + 21 /\ p.tail # "none"
  <2> DEFINE q == 11 + r.name + 1
             x == IF p.numbers # "apart" /\ r.len + r.stamps + 2 <= 8 THEN {} ELSE {q + r.len + 1 + 8}
  <2>1. e \in (IF p.uint = "digits" THEN {} ELSE {q + 8} \cup x)
    BY <1>5, Zenon DEF NumberLoads
  <2>2. x \subseteq {q + r.len + 1 + 8}
    BY Zenon
  <2>3. p.uint # "digits" /\ e \in {q + 8} \cup x
    <3> HIDE DEF x, q
    <3>1. QED  BY <2>1, Zenon
  <2>4. e = q + 8 \/ e = q + r.len + 1 + 8
    <3> HIDE DEF x, q
    <3>1. QED  BY <2>2, <2>3, Zenon
  <2>5. p.tail # "none"
    <3> HIDE DEF x, q
    <3>1. QED  BY <2>3, <1>2, Zenon
  <2>6. e \in Nat /\ e <= 135 /\ e <= r.name + r.len + 21
    BY <2>4, <1>1
  <2>7. QED  BY <2>5, <2>6, Zenon
<1>6. ASSUME e \in PrintLoads(p, r)
      PROVE  e \in {19, 27} /\ p.tail # "none"
  <2>1. CASE p.print = "bytes"
    BY <2>1, <1>6 DEF PrintLoads
  <2>2. CASE p.print = "masked ends, mid"
    BY <2>2, <1>6, <1>2 DEF PrintLoads
  <2>3. CASE p.print \notin {"bytes", "masked ends, mid"}
    BY <2>3, <1>6, <1>2 DEF PrintLoads
  <2>4. QED  BY <2>1, <2>2, <2>3
<1> DEFINE Far == e \in Nat /\ e <= 138
           Near == e <= RowLength(r) + 17
<1>7. /\ e = RowLength(r) => Far /\ Near
      /\ e = 8 => Far /\ Near
      /\ e \in {19, 27} => Far /\ Near
  BY <1>1
<1>8. /\ e \in Nat /\ e <= 135 /\ e <= r.name + r.len + 21 => Far /\ Near
      /\ e \in Nat /\ e <= 123 => Far
      /\ e \in Nat /\ e <= r.name + 27 => Near
  <2> PICK n \in 1..104, l \in 1..10, k \in 1..10, w \in Nat :
        n = r.name /\ l = r.len /\ k = r.stamps /\ w = RowLength(r) /\ w = 14 + n + l + k
    BY <1>1
  <2>1. ASSUME e \in Nat, e <= 135, e <= n + l + 21
        PROVE  Far /\ e <= w + 17
    BY <2>1
  <2>2. ASSUME e \in Nat, e <= n + 27
        PROVE  e <= w + 17
    BY <2>2
  <2>3. ASSUME e \in Nat, e <= 123
        PROVE  Far
    BY <2>3
  <2> HIDE DEF Far
  <2>4. QED  BY <2>1, <2>2, <2>3, Zenon
<1>9. \/ e = RowLength(r)
      \/ e \in {8 : x \in {x \in {0} : p.digits = "first eight"}}
      \/ e \in NameLoads(p, r) \/ e \in NumberLoads(p, r) \/ e \in PrintLoads(p, r)
  BY DEF Loads
<1>10. /\ Far
       /\ Near \/ p.tail # "last line"
       /\ e = RowLength(r) \/ p.tail # "none"
  <2> HIDE DEF Far, Near
  <2>1. QED  BY <1>3, <1>4, <1>5, <1>6, <1>7, <1>8, <1>9, Zenon
<1>11. QED  BY <1>10, Zenon

(* last_line: the start of the last row.                                   *)
LEMMA LastLineFacts ==
  ASSUME NEW f, FileOK(f)
  PROVE  /\ LastLine(f) \in Nat /\ f.body <= LastLine(f) /\ LastLine(f) <= f.size
         /\ LineStart(f, LastLine(f))
         /\ LastLine(f) < f.size =>
              LastLine(f) \in DOMAIN f.rows /\ RowEnd(f, LastLine(f)) = f.size
         /\ LastLine(f) = f.size => f.body = f.size
<1>1. f.size \in Nat /\ f.body \in Nat /\ f.body <= f.size /\ LineStart(f, f.body)
  BY BodyStartsRow
<1> DEFINE hits == {n \in Newlines(f) : n < f.size - 1}
<1>2. \A n \in Newlines(f) :
        /\ n \in Int /\ f.body - 1 <= n /\ n <= f.size - 1 /\ n + 1 \in Nat /\ LineStart(f, n + 1)
  <2>1. \A s \in DOMAIN f.rows :
          /\ RowEnd(f, s) \in Nat /\ f.body <= s /\ s \in Nat /\ s < RowEnd(f, s)
          /\ RowEnd(f, s) <= f.size /\ LineStart(f, RowEnd(f, s))
    BY NextRow
  <2>2. \A n \in Newlines(f) : n = f.body - 1 \/ \E s \in DOMAIN f.rows : n = RowEnd(f, s) - 1
    BY DEF Newlines
  <2>3. TAKE n \in Newlines(f)
  <2>4. CASE n = f.body - 1
    BY <2>4, <1>1
  <2>5. CASE \E s \in DOMAIN f.rows : n = RowEnd(f, s) - 1
    <3>1. PICK s \in DOMAIN f.rows : n = RowEnd(f, s) - 1
      BY <2>5
    <3>2. n + 1 = RowEnd(f, s)
      BY <3>1, <2>1
    <3>3. LineStart(f, n + 1)
      BY <3>2, <2>1, Zenon
    <3>4. QED  BY <3>1, <3>2, <3>3, <2>1, <1>1
  <2>6. QED  BY <2>2, <2>4, <2>5
<1>3. CASE hits = {}
  <2>1. LastLine(f) = f.body
    BY <1>3 DEF LastLine
  <2>2. f.body - 1 \in Newlines(f)
    BY DEF Newlines
  <2>3. f.body = f.size
    BY <2>2, <1>1, <1>3
  <2>4. QED  BY <2>1, <2>3, <1>1
<1>4. CASE hits # {}
  <2>1. \E m \in hits : \A n \in hits : m >= n
    <3>1. f.body < f.size
      <4>1. PICK n \in Newlines(f) : n < f.size - 1
        BY <1>4
      <4>2. QED  BY <4>1, <1>1, <1>2
    <3>2. f.size - 1 \in f.body..(f.size - 1)
      BY <3>1, <1>1
    <3>3. PICK s \in DOMAIN f.rows : s <= f.size - 1 /\ f.size - 1 < RowEnd(f, s)
      BY <3>2 DEF FileOK
    <3>4. s \in Nat /\ f.body <= s /\ RowEnd(f, s) = f.size /\ s < f.size
      BY <3>3, <1>1, NextRow
    <3>5. s - 1 \in Newlines(f)
      <4>1. CASE s = f.body
        BY <4>1 DEF Newlines
      <4>2. CASE s # f.body
        <5>1. s - 1 \in f.body..(f.size - 1)
          BY <4>2, <3>4, <1>1
        <5>2. PICK q \in DOMAIN f.rows : q <= s - 1 /\ s - 1 < RowEnd(f, q)
          BY <5>1 DEF FileOK
        <5>3. q \in Nat /\ RowEnd(f, q) \in Nat
          BY NextRow
        <5>4. RowEnd(f, q) <= s
          BY <5>2, <5>3, <3>4 DEF FileOK
        <5>5. RowEnd(f, q) - 1 = s - 1
          BY <5>2, <5>3, <5>4, <3>4
        <5>6. QED  BY <5>5 DEF Newlines
      <4>3. QED  BY <4>1, <4>2
    <3>6. s - 1 \in hits
      BY <3>4, <3>5, <1>1
    <3>7. ASSUME NEW n \in hits
          PROVE  s - 1 >= n
      <4>1. n \in Int /\ n < f.size - 1 /\ LineStart(f, n + 1)
        BY <1>2
      <4>2. PICK k \in Int : k = n + 1
        BY <4>1
      <4>3. k \in DOMAIN f.rows
        BY <4>1, <4>2, <1>1 DEF LineStart
      <4>4. ~ (s < k)
        <5>1. ASSUME s < k PROVE FALSE
          <6>1. RowEnd(f, s) <= k
            BY <5>1, <4>3 DEF FileOK
          <6>2. QED  BY <6>1, <3>4, <4>1, <4>2, <1>1
        <5>2. QED  BY <5>1
      <4>5. QED  BY <4>1, <4>2, <4>4, <3>4
    <3>8. QED  BY <3>6, <3>7
  <2>2. Max(hits) \in hits /\ \A n \in hits : Max(hits) >= n
    <3> HIDE DEF hits
    <3>1. QED  BY <2>1 DEF Max
  <2>3. PICK x \in Newlines(f) : x = Max(hits) /\ x < f.size - 1 /\ \A n \in hits : x >= n
    BY <2>2
  <2>4. LastLine(f) = 1 + x
    <3>1. LastLine(f) = 1 + Max(hits)
      BY <1>4 DEF LastLine
    <3>2. QED  BY <3>1, <2>3
  <2>5. x \in Int /\ x + 1 \in Nat /\ f.body - 1 <= x /\ LineStart(f, x + 1)
    BY <1>2
  <2>6. x + 1 \in DOMAIN f.rows
    BY <2>3, <2>5, <1>1 DEF LineStart
  <2>7. RowEnd(f, x + 1) \in Nat /\ x + 1 < RowEnd(f, x + 1) /\ RowEnd(f, x + 1) <= f.size
    BY <2>6, NextRow
  <2>8. RowEnd(f, x + 1) - 1 \in Newlines(f)
    BY <2>6 DEF Newlines
  <2>9. ~ (RowEnd(f, x + 1) - 1 < f.size - 1)
    <3>1. ASSUME RowEnd(f, x + 1) - 1 < f.size - 1
          PROVE  FALSE
      <4>1. x >= RowEnd(f, x + 1) - 1
        BY <3>1, <2>3, <2>8
      <4>2. QED  BY <4>1, <2>5, <2>7
    <3>2. QED  BY <3>1
  <2>10. 1 + x = x + 1 /\ RowEnd(f, x + 1) = f.size /\ x + 1 < f.size
    BY <2>9, <2>7, <2>5, <1>1
  <2>11. LastLine(f) = x + 1
    BY <2>4, <2>10
  <2>12. QED  BY <2>11, <2>5, <2>6, <2>10, <1>1
<1>5. QED  BY <1>3, <1>4

(* The tail starts a row, whichever way a program chooses it; the rows     *)
(* before it have enough behind them for what the program's parser loads,  *)
(* and those behind it fit the buffer.                                     *)
TailRight(p, f, tl) ==
  /\ tl \in Nat /\ f.body <= tl /\ tl <= f.size /\ LineStart(f, tl)
  /\ p.tail = "none" => tl = f.size
  /\ p.tail = "last line" /\ tl < f.size => tl \in DOMAIN f.rows /\ RowEnd(f, tl) = f.size
  /\ p.tail = "last line" /\ tl = f.size => f.body = f.size
  /\ p.tail = "slack" =>
       /\ f.size - tl <= TailSlack
       /\ \A s \in DOMAIN f.rows : s < tl => s + TailSlack <= f.size

LEMMA TailIsRight ==
  ASSUME NEW p \in Programs, NEW f, FileOK(f)
  PROVE  TailRight(p, f, TailOf(p, f))
<1>1. f.size \in Nat /\ f.body \in Nat /\ f.body <= f.size /\ LineStart(f, f.size)
  BY BodyStartsRow DEF LineStart
<1>2. p.tail \in {"none", "last line", "slack"}
  BY ProgramFacts, Zenon
<1>3. CASE p.tail = "none"
  <2>1. TailOf(p, f) = f.size
    BY <1>3 DEF TailOf
  <2>2. QED  BY <1>1, <1>3, <2>1 DEF TailRight
<1>4. CASE p.tail = "last line"
  <2>1. TailOf(p, f) = LastLine(f)
    BY <1>4 DEF TailOf
  <2>2. QED  BY <1>4, <2>1, LastLineFacts DEF TailRight
<1>5. CASE p.tail = "slack"
  <2>1. TailOf(p, f) = SlackStart(f)
    BY <1>5 DEF TailOf, SlackStart
  <2>2. QED  BY <1>5, <2>1, SlackFacts DEF TailRight
<1>6. QED  BY <1>2, <1>3, <1>4, <1>5

(* PartEnd: it starts a row, within the part that is divided, and not      *)
(* before the end of the part before.                                      *)
LEMMA PartEndFacts ==
  ASSUME NEW f, FileOK(f), NEW from \in Nat, NEW to \in Nat, NEW i \in Nat, NEW n \in Nat,
         f.body <= from, from <= to, to <= f.size, LineStart(f, to), i < n
  PROVE  /\ PartEnd(f, from, to, i, n) \in Nat
         /\ from <= PartEnd(f, from, to, i, n) /\ PartEnd(f, from, to, i, n) <= to
         /\ LineStart(f, PartEnd(f, from, to, i, n))
         /\ i = n - 1 => PartEnd(f, from, to, i, n) = to
         /\ i + 1 < n => PartEnd(f, from, to, i, n) <= PartEnd(f, from, to, i + 1, n)
<1> DEFINE g == Portion(from, to, i, n)
           h == Portion(from, to, i + 1, n)
<1>1. f.body \in Nat /\ f.size \in Nat
  BY DEF FileOK
<1>2. g \in Nat /\ h \in Nat /\ from <= g /\ g <= to /\ g <= h
  BY PortionFacts
<1>3. i + 1 < n => h <= to
  <2>1. ASSUME i + 1 < n PROVE h <= to
    <3>1. i + 1 \in Nat
      OBVIOUS
    <3>2. QED  BY <2>1, <3>1, PortionFacts
  <2>2. QED  BY <2>1
<1>4. i # n - 1 => PartEnd(f, from, to, i, n) = LineAfter(f, g, to, to)
  BY Zenon DEF PartEnd, Portion
<1>5. i = n - 1 => PartEnd(f, from, to, i, n) = to
  BY Zenon DEF PartEnd
<1>6. i + 1 # n - 1 => PartEnd(f, from, to, i + 1, n) = LineAfter(f, h, to, to)
  BY Zenon DEF PartEnd, Portion
<1>7. i + 1 = n - 1 => PartEnd(f, from, to, i + 1, n) = to
  BY Zenon DEF PartEnd
<1> HIDE DEF g, h
<1>8. f.body <= g
  BY <1>1, <1>2
<1>9. /\ LineAfter(f, g, to, to) \in Nat
      /\ g <= LineAfter(f, g, to, to) /\ LineAfter(f, g, to, to) <= to
      /\ LineStart(f, LineAfter(f, g, to, to))
  BY <1>2, <1>8, LineAfterFacts
<1>10. LineAfter(f, g, to, to) <= LineAfter(f, h, to, to)
  BY <1>2, <1>8, LineAfterMonotone
<1>11. /\ PartEnd(f, from, to, i, n) \in Nat
       /\ from <= PartEnd(f, from, to, i, n) /\ PartEnd(f, from, to, i, n) <= to
       /\ LineStart(f, PartEnd(f, from, to, i, n))
  <2>1. CASE i = n - 1
    BY <2>1, <1>5
  <2>2. CASE i # n - 1
    <3>1. from <= LineAfter(f, g, to, to)
      BY <1>2, <1>9
    <3>2. QED  BY <2>2, <3>1, <1>4, <1>9, Zenon
  <2>3. QED  BY <2>1, <2>2
<1>12. i + 1 < n => PartEnd(f, from, to, i, n) <= PartEnd(f, from, to, i + 1, n)
  <2>1. ASSUME i + 1 < n
        PROVE  PartEnd(f, from, to, i, n) <= PartEnd(f, from, to, i + 1, n)
    <3>1. i # n - 1
      BY <2>1
    <3>2. CASE i + 1 = n - 1
      BY <3>2, <1>7, <1>11, Zenon
    <3>3. CASE i + 1 # n - 1
      BY <3>1, <3>3, <1>4, <1>6, <1>10, Zenon
    <3>4. QED  BY <3>2, <3>3
  <2>2. QED  BY <2>1
<1>13. QED  BY <1>5, <1>11, <1>12

---------------------------------------------------------------------------
(* What a worker has to do: positions at row starts, no row before two of  *)
(* them.                                                                   *)
Span == [at : Nat, end : Nat]
Work == [streams : Seq(Span), batch : Nat]

Earlier(x, s) == x.at <= s /\ s < x.end

(* A range of [b, e): every byte of it is before exactly one position.     *)
Covers(f, x, b, e) ==
  /\ x \in Work
  /\ \A i \in DOMAIN x.streams :
       LET y == x.streams[i] IN
       LineStart(f, y.at) /\ LineStart(f, y.end) /\ b <= y.at /\ y.at <= y.end /\ y.end <= e
  /\ \A s \in Nat : b <= s /\ s < e => \E i \in DOMAIN x.streams : Earlier(x.streams[i], s)
  /\ \A i, j \in DOMAIN x.streams, s \in Nat :
       Earlier(x.streams[i], s) /\ Earlier(x.streams[j], s) => i = j

LEMMA OneCovers ==
  ASSUME NEW p \in Programs, NEW f, NEW b \in Nat, NEW e \in Nat,
         b <= e, LineStart(f, b), LineStart(f, e)
  PROVE  Covers(f, One(b, e, p), b, e)
<1> DEFINE x == One(b, e, p)
<1>1. p.batch \in Nat
  BY ProgramFacts, Zenon
<1>2. x.streams = <<[at |-> b, end |-> e]>> /\ x.batch = p.batch /\ x = [streams |-> <<[at |-> b, end |-> e]>>, batch |-> p.batch]
  BY DEF One, Stretch
<1>3. [at |-> b, end |-> e] \in Span
  BY DEF Span
<1>4. x \in Work
  BY <1>1, <1>2, <1>3 DEF Work
<1>5. DOMAIN x.streams = {1} /\ x.streams[1].at = b /\ x.streams[1].end = e
  BY <1>2
<1> HIDE DEF x
<1>6. \A i, j \in DOMAIN x.streams : i = j
  BY <1>5
<1>7. \A s \in Nat : b <= s /\ s < e => Earlier(x.streams[1], s)
  BY <1>5 DEF Earlier
<1>8. \A i \in DOMAIN x.streams : x.streams[i].at = b /\ x.streams[i].end = e
  BY <1>5
<1>9. Covers(f, x, b, e)
  BY <1>4, <1>5, <1>6, <1>7, <1>8 DEF Covers
<1>10. QED  BY <1>9 DEF x

(* Both halves: wherever the newline is that ends the first.               *)
LEMMA TwoCover ==
  ASSUME NEW p \in Programs, NEW f, FileOK(f), NEW b \in Nat, NEW e \in Nat,
         f.body <= b, b <= e, e <= f.size, LineStart(f, b), LineStart(f, e)
  PROVE  Covers(f, TwoStreams(p, f, b, e), b, e)
<1> DEFINE x == TwoStreams(p, f, b, e)
<1>1. p.batch \in Nat /\ f.size \in Nat /\ f.body \in Nat
  <2>1. p.batch \in Nat
    BY ProgramFacts, Zenon
  <2>2. QED  BY <2>1 DEF FileOK
<1>2. PICK m \in Nat : m = Mid(f, b, e) /\ b <= m /\ m <= e /\ LineStart(f, m)
  <2> DEFINE mid == b + (e - b) \div 2
  <2>1. mid \in Nat
    OBVIOUS
  <2>2. Mid(f, b, e) = IF mid > b /\ mid < e THEN LineAfter(f, mid, e, e) ELSE e
    BY Zenon DEF Mid
  <2> HIDE DEF mid
  <2>3. CASE mid > b /\ mid < e
    <3>1. f.body <= mid /\ mid <= e /\ b <= mid
      BY <1>1, <2>1, <2>3
    <3>2. /\ LineAfter(f, mid, e, e) \in Nat
          /\ mid <= LineAfter(f, mid, e, e) /\ LineAfter(f, mid, e, e) <= e
          /\ LineStart(f, LineAfter(f, mid, e, e))
      BY <2>1, <3>1, LineAfterFacts
    <3>3. b <= LineAfter(f, mid, e, e)
      BY <3>1, <3>2, <2>1
    <3>4. Mid(f, b, e) = LineAfter(f, mid, e, e)
      BY <2>2, <2>3, Zenon
    <3>5. QED  BY <3>2, <3>3, <3>4, Zenon
  <2>4. CASE ~ (mid > b /\ mid < e)
    BY <2>2, <2>4
  <2>5. QED  BY <2>3, <2>4
<1>3. x = [streams |-> <<[at |-> b, end |-> m], [at |-> m, end |-> e]>>, batch |-> p.batch]
  BY <1>2, Zenon DEF TwoStreams, Stretch
<1>4. [at |-> b, end |-> m] \in Span /\ [at |-> m, end |-> e] \in Span
  BY DEF Span
<1>5. x \in Work
  BY <1>1, <1>3, <1>4 DEF Work
<1>6. /\ DOMAIN x.streams = {1, 2}
      /\ x.streams[1].at = b /\ x.streams[1].end = m
      /\ x.streams[2].at = m /\ x.streams[2].end = e
  BY <1>3
<1> HIDE DEF x
<1>7. \A i \in DOMAIN x.streams :
        LET y == x.streams[i] IN
        LineStart(f, y.at) /\ LineStart(f, y.end) /\ b <= y.at /\ y.at <= y.end /\ y.end <= e
  BY <1>2, <1>6
<1>8. \A s \in Nat : b <= s /\ s < e => Earlier(x.streams[1], s) \/ Earlier(x.streams[2], s)
  BY <1>2, <1>6 DEF Earlier
<1>9. \A s \in Nat : ~ (Earlier(x.streams[1], s) /\ Earlier(x.streams[2], s))
  BY <1>2, <1>6 DEF Earlier
<1>10. \A i, j \in DOMAIN x.streams, s \in Nat :
         Earlier(x.streams[i], s) /\ Earlier(x.streams[j], s) => i = j
  BY <1>6, <1>9
<1>11. Covers(f, x, b, e)
  BY <1>5, <1>6, <1>7, <1>8, <1>10 DEF Covers
<1>12. QED  BY <1>11 DEF x

(* Four equal parts, in their order.                                       *)
LEMMA FourCover ==
  ASSUME NEW p \in Programs, NEW f, FileOK(f), NEW b \in Nat, NEW e \in Nat,
         f.body <= b, b <= e, e <= f.size, LineStart(f, b), LineStart(f, e)
  PROVE  Covers(f, FourStreams(p, f, b, e), b, e)
<1> DEFINE x == FourStreams(p, f, b, e)
           cut == [i \in 0..3 |-> PartEnd(f, b, e, i, 4)]
<1>1. \A i \in 0..3 : /\ PartEnd(f, b, e, i, 4) \in Nat
                      /\ b <= PartEnd(f, b, e, i, 4) /\ PartEnd(f, b, e, i, 4) <= e
                      /\ LineStart(f, PartEnd(f, b, e, i, 4))
                      /\ i = 4 - 1 => PartEnd(f, b, e, i, 4) = e
                      /\ i + 1 < 4 => PartEnd(f, b, e, i, 4) <= PartEnd(f, b, e, i + 1, 4)
  <2> TAKE i \in 0..3
  <2>1. i \in Nat /\ 4 \in Nat /\ i < 4
    OBVIOUS
  <2>2. QED  BY <2>1, PartEndFacts
<1>2. PICK c0 \in Nat, c1 \in Nat, c2 \in Nat, c3 \in Nat :
        c0 = cut[0] /\ c1 = cut[1] /\ c2 = cut[2] /\ c3 = cut[3]
  BY <1>1
<1>3. /\ b <= c0 /\ c0 <= c1 /\ c1 <= c2 /\ c2 <= c3 /\ c3 = e
      /\ LineStart(f, c0) /\ LineStart(f, c1) /\ LineStart(f, c2) /\ LineStart(f, c3)
  BY <1>1, <1>2
<1>4. x = [streams |-> [i \in 1..4 |-> [at |-> IF i = 1 THEN b ELSE cut[i - 2], end |-> cut[i - 1]]],
           batch |-> 4]
  BY Zenon DEF FourStreams, Stretch
<1> DEFINE ss == [i \in 1..4 |-> [at |-> IF i = 1 THEN b ELSE cut[i - 2], end |-> cut[i - 1]]]
<1>5. /\ ss[1] = [at |-> b, end |-> c0] /\ ss[2] = [at |-> c0, end |-> c1]
      /\ ss[3] = [at |-> c1, end |-> c2] /\ ss[4] = [at |-> c2, end |-> c3]
  <2> HIDE DEF cut
  <2>1. QED  BY <1>2
<1>6. ss \in Seq(Span) /\ DOMAIN ss = 1..4
  <2>1. DOMAIN ss = 1..4
    BY Zenon
  <2> HIDE DEF ss
  <2>2. \A i \in 1..4 : ss[i] \in Span
    BY <1>5 DEF Span
  <2>3. ss = [i \in 1..4 |-> ss[i]]
    BY Zenon DEF ss
  <2>4. ss \in [1..4 -> Span]
    BY <2>1, <2>2, <2>3
  <2>5. ss \in Seq(Span)
    BY <2>4, SeqDef, 4 \in Nat, Zenon
  <2>6. QED  BY <2>1, <2>5
<1>7. x.streams = ss /\ x \in Work
  <2>1. x = [streams |-> ss, batch |-> 4]
    BY <1>4, Zenon
  <2> HIDE DEF x, ss
  <2>2. QED  BY <2>1, <1>6 DEF Work
<1>8. /\ DOMAIN x.streams = {1, 2, 3, 4}
      /\ x.streams[1].at = b /\ x.streams[1].end = c0
      /\ x.streams[2].at = c0 /\ x.streams[2].end = c1
      /\ x.streams[3].at = c1 /\ x.streams[3].end = c2
      /\ x.streams[4].at = c2 /\ x.streams[4].end = e
  <2> HIDE DEF x, ss
  <2>1. QED  BY <1>3, <1>5, <1>6, <1>7
<1> HIDE DEF x, ss, cut
<1>9. \A i \in DOMAIN x.streams :
        LET y == x.streams[i] IN
        LineStart(f, y.at) /\ LineStart(f, y.end) /\ b <= y.at /\ y.at <= y.end /\ y.end <= e
  <2> TAKE i \in DOMAIN x.streams
  <2>1. i = 1 \/ i = 2 \/ i = 3 \/ i = 4
    BY <1>8
  <2>2. CASE i = 1
    BY <2>2, <1>3, <1>8
  <2>3. CASE i = 2
    BY <2>3, <1>3, <1>8
  <2>4. CASE i = 3
    BY <2>4, <1>3, <1>8
  <2>5. CASE i = 4
    BY <2>5, <1>3, <1>8
  <2>6. QED  BY <2>1, <2>2, <2>3, <2>4, <2>5
<1>10. \A s \in Nat : /\ Earlier(x.streams[1], s) <=> b <= s /\ s < c0
                      /\ Earlier(x.streams[2], s) <=> c0 <= s /\ s < c1
                      /\ Earlier(x.streams[3], s) <=> c1 <= s /\ s < c2
                      /\ Earlier(x.streams[4], s) <=> c2 <= s /\ s < e
  BY <1>8, Zenon DEF Earlier
<1>11. \A s \in Nat : b <= s /\ s < e =>
         \/ Earlier(x.streams[1], s) \/ Earlier(x.streams[2], s)
         \/ Earlier(x.streams[3], s) \/ Earlier(x.streams[4], s)
  BY <1>3, <1>10
<1>12. \A i, j \in DOMAIN x.streams, s \in Nat :
         Earlier(x.streams[i], s) /\ Earlier(x.streams[j], s) => i = j
  <2>1. \A s \in Nat : /\ ~ (b <= s /\ s < c0 /\ c0 <= s) /\ ~ (b <= s /\ s < c0 /\ c1 <= s)
                       /\ ~ (b <= s /\ s < c0 /\ c2 <= s) /\ ~ (c0 <= s /\ s < c1 /\ c1 <= s)
                       /\ ~ (c0 <= s /\ s < c1 /\ c2 <= s) /\ ~ (c1 <= s /\ s < c2 /\ c2 <= s)
    BY <1>3
  <2>2. QED  BY <2>1, <1>8, <1>10, Zenon
<1>13. \A s \in Nat : b <= s /\ s < e => \E i \in DOMAIN x.streams : Earlier(x.streams[i], s)
  BY <1>8, <1>11, Zenon
<1>14. Covers(f, x, b, e)
  BY <1>7, <1>9, <1>12, <1>13, Zenon DEF Covers
<1>15. QED  BY <1>14 DEF x

LEMMA StreamsCover ==
  ASSUME NEW p \in Programs, NEW f, FileOK(f), NEW b \in Nat, NEW e \in Nat,
         f.body <= b, b <= e, e <= f.size, LineStart(f, b), LineStart(f, e)
  PROVE  Covers(f, Streams(p, f, b, e), b, e)
<1>1. p.streams \in {1, 2, 4}
  BY ProgramFacts, Zenon
<1>2. CASE p.streams = 1
  <2>1. Streams(p, f, b, e) = One(b, e, p)
    BY <1>2 DEF Streams
  <2>2. QED  BY <2>1, OneCovers
<1>3. CASE p.streams = 2
  <2>1. Streams(p, f, b, e) = TwoStreams(p, f, b, e)
    BY <1>3 DEF Streams
  <2>2. QED  BY <2>1, TwoCover
<1>4. CASE p.streams = 4
  <2>1. Streams(p, f, b, e) = FourStreams(p, f, b, e)
    BY <1>4 DEF Streams
  <2>2. QED  BY <2>1, FourCover
<1>5. QED  BY <1>1, <1>2, <1>3, <1>4

(* The same of the ranges of a worker, together.                           *)
Sound(f, r, b, e) ==
  \A k \in DOMAIN r : \A i \in DOMAIN r[k].streams :
    LET y == r[k].streams[i] IN
    LineStart(f, y.at) /\ LineStart(f, y.end) /\ b <= y.at /\ y.at <= y.end /\ y.end <= e

Waits(r, s) == \E k \in DOMAIN r : \E i \in DOMAIN r[k].streams : Earlier(r[k].streams[i], s)

Apart(r) ==
  \A k, l \in DOMAIN r : \A i \in DOMAIN r[k].streams, j \in DOMAIN r[l].streams, s \in Nat :
    Earlier(r[k].streams[i], s) /\ Earlier(r[l].streams[j], s) => k = l /\ i = j

(* RangesOf: the ranges of a share are all of it, without an overlap.      *)
LEMMA RangesFacts ==
  ASSUME NEW p \in Programs, NEW f, FileOK(f), NEW b \in Nat, NEW e \in Nat,
         f.body <= b, b <= e, e <= f.size, LineStart(f, b), LineStart(f, e)
  PROVE  /\ RangesOf(p, f, b, e) \in Seq(Work) /\ RangesOf(p, f, b, e) # <<>>
         /\ Sound(f, RangesOf(p, f, b, e), b, e) /\ Apart(RangesOf(p, f, b, e))
         /\ \A s \in Nat : b <= s /\ s < e => Waits(RangesOf(p, f, b, e), s)
<1> DEFINE r == RangesOf(p, f, b, e)
           cut == b + (e - b) \div p.sample
<1>1. CASE p.sample # 0 /\ cut > b /\ cut < e
  <2>1. p.sample \in Nat /\ p.sample > 0 /\ f.body \in Nat /\ f.size \in Nat
    <3>1. p.sample \in Nat
      BY ProgramFacts, Zenon
    <3>2. QED  BY <3>1, <1>1 DEF FileOK
  <2>2. cut \in Nat
    <3>1. e - b \in Nat
      OBVIOUS
    <3> PICK d \in Nat : d = e - b
      BY <3>1
    <3> PICK n \in Nat : n = p.sample /\ n > 0
      BY <2>1
    <3>2. d \div n \in Nat
      BY QuotientBounds
    <3>3. b + d \div n \in Nat
      BY <3>2
    <3>4. QED  BY <3>3, Zenon
  <2>3. r = <<One(b, LineAfter(f, cut, e, e), p), Streams(p, f, LineAfter(f, cut, e, e), e)>>
    <3>1. r = IF p.sample # 0 /\ cut > b /\ cut < e
                THEN <<One(b, LineAfter(f, cut, e, e), p), Streams(p, f, LineAfter(f, cut, e, e), e)>>
                ELSE <<Streams(p, f, b, e)>>
      BY Zenon DEF RangesOf
    <3> HIDE DEF r, cut
    <3>2. QED  BY <3>1, <1>1, Zenon
  <2>4. PICK m \in Nat : m = LineAfter(f, cut, e, e) /\ cut <= m /\ m <= e /\ LineStart(f, m)
    <3> HIDE DEF cut
    <3>1. f.body <= cut /\ cut <= e
      BY <2>1, <2>2, <1>1
    <3>2. QED  BY <2>2, <3>1, LineAfterFacts
  <2>5. b <= m /\ f.body <= m
    <3> HIDE DEF cut
    <3>1. QED  BY <2>1, <2>2, <2>4, <1>1
  <2>6. PICK y : y = One(b, m, p) /\ Covers(f, y, b, m)
    BY <2>4, <2>5, OneCovers
  <2>7. PICK z : z = Streams(p, f, m, e) /\ Covers(f, z, m, e)
    BY <2>4, <2>5, StreamsCover
  <2>8. r = <<y, z>>
    BY <2>3, <2>4, <2>6, <2>7, Zenon
  <2>9. y \in Work /\ z \in Work
    BY <2>6, <2>7 DEF Covers
  <2> HIDE DEF r
  <2>10. DOMAIN r = {1, 2} /\ r[1] = y /\ r[2] = z /\ r \in Seq(Work) /\ r # <<>>
    BY <2>8, <2>9
  <2>11. \A i \in DOMAIN y.streams :
           /\ y.streams[i].at \in Nat /\ y.streams[i].end \in Nat
           /\ LineStart(f, y.streams[i].at) /\ LineStart(f, y.streams[i].end)
           /\ b <= y.streams[i].at /\ y.streams[i].at <= y.streams[i].end /\ y.streams[i].end <= m
    <3>1. y.streams \in Seq(Span)
      BY <2>9 DEF Work
    <3>2. \A i \in DOMAIN y.streams : y.streams[i] \in Span
      BY <3>1
    <3>3. QED  BY <3>2, <2>6 DEF Covers, Span
  <2>12. \A i \in DOMAIN z.streams :
           /\ z.streams[i].at \in Nat /\ z.streams[i].end \in Nat
           /\ LineStart(f, z.streams[i].at) /\ LineStart(f, z.streams[i].end)
           /\ m <= z.streams[i].at /\ z.streams[i].at <= z.streams[i].end /\ z.streams[i].end <= e
    <3>1. z.streams \in Seq(Span)
      BY <2>9 DEF Work
    <3>2. \A i \in DOMAIN z.streams : z.streams[i] \in Span
      BY <3>1
    <3>3. QED  BY <3>2, <2>7 DEF Covers, Span
  <2>13. \A i \in DOMAIN y.streams : y.streams[i].end <= e
    BY <2>4, <2>11
  <2>14. \A i \in DOMAIN z.streams : b <= z.streams[i].at
    BY <2>5, <2>12
  <2>15. Sound(f, r, b, e)
    <3>1. ASSUME NEW k \in DOMAIN r, NEW i \in DOMAIN r[k].streams
          PROVE  LET x == r[k].streams[i] IN
                 LineStart(f, x.at) /\ LineStart(f, x.end) /\ b <= x.at /\ x.at <= x.end /\ x.end <= e
      <4>1. CASE k = 1
        BY <4>1, <2>10, <2>11, <2>13, Zenon
      <4>2. CASE k = 2
        BY <4>2, <2>10, <2>12, <2>14, Zenon
      <4>3. QED  BY <4>1, <4>2, <2>10
    <3>2. QED  BY <3>1, Zenon DEF Sound
  <2>16. \A i \in DOMAIN y.streams, j \in DOMAIN z.streams, s \in Nat :
           ~ (Earlier(y.streams[i], s) /\ Earlier(z.streams[j], s))
    BY <2>11, <2>12 DEF Earlier
  <2>17. Apart(r)
    <3>1. ASSUME NEW k \in DOMAIN r, NEW l \in DOMAIN r,
                 NEW i \in DOMAIN r[k].streams, NEW j \in DOMAIN r[l].streams, NEW s \in Nat,
                 Earlier(r[k].streams[i], s), Earlier(r[l].streams[j], s)
          PROVE  k = l /\ i = j
      <4>1. CASE k = 1 /\ l = 1
        BY <3>1, <4>1, <2>6, <2>10, Zenon DEF Covers
      <4>2. CASE k = 2 /\ l = 2
        BY <3>1, <4>2, <2>7, <2>10, Zenon DEF Covers
      <4>3. CASE k = 1 /\ l = 2
        BY <3>1, <4>3, <2>16, <2>10, Zenon
      <4>4. CASE k = 2 /\ l = 1
        BY <3>1, <4>4, <2>16, <2>10, Zenon
      <4>5. QED  BY <4>1, <4>2, <4>3, <4>4, <2>10
    <3>2. QED  BY <3>1, Zenon DEF Apart
  <2>18. ASSUME NEW s \in Nat, b <= s, s < e
         PROVE  Waits(r, s)
    <3>1. CASE s < m
      <4>1. \E i \in DOMAIN y.streams : Earlier(y.streams[i], s)
        BY <3>1, <2>18, <2>6, Zenon DEF Covers
      <4>2. QED  BY <4>1, <2>10, Zenon DEF Waits
    <3>2. CASE m <= s
      <4>1. \E i \in DOMAIN z.streams : Earlier(z.streams[i], s)
        BY <3>2, <2>18, <2>7, Zenon DEF Covers
      <4>2. QED  BY <4>1, <2>10, Zenon DEF Waits
    <3>3. s < m \/ m <= s
      BY <2>18
    <3>4. QED  BY <3>1, <3>2, <3>3
  <2>19. QED  BY <2>10, <2>15, <2>17, <2>18 DEF r
<1>2. CASE ~ (p.sample # 0 /\ cut > b /\ cut < e)
  <2>1. PICK z : z = Streams(p, f, b, e) /\ Covers(f, z, b, e)
    BY StreamsCover
  <2>2. r = <<z>>
    <3>1. r = IF p.sample # 0 /\ cut > b /\ cut < e
                THEN <<One(b, LineAfter(f, cut, e, e), p), Streams(p, f, LineAfter(f, cut, e, e), e)>>
                ELSE <<Streams(p, f, b, e)>>
      BY Zenon DEF RangesOf
    <3> HIDE DEF r, cut
    <3>2. QED  BY <3>1, <1>2, <2>1, Zenon
  <2> HIDE DEF r
  <2>3. z \in Work
    BY <2>1 DEF Covers
  <2>4. DOMAIN r = {1} /\ r[1] = z /\ r \in Seq(Work) /\ r # <<>>
    BY <2>2, <2>3
  <2>5. Sound(f, r, b, e)
    BY <2>1, <2>4, Zenon DEF Sound, Covers
  <2>6. Apart(r)
    BY <2>1, <2>4, Zenon DEF Apart, Covers
  <2>7. \A s \in Nat : b <= s /\ s < e => Waits(r, s)
    BY <2>1, <2>4, Zenon DEF Waits, Covers
  <2>8. QED  BY <2>4, <2>5, <2>6, <2>7 DEF r
<1>3. QED  BY <1>1, <1>2

---------------------------------------------------------------------------
(* The steps of a worker, on what it has to do (r), the rows it has read   *)
(* (b) and the counts (k) of a share that ends at c.                       *)
Listed(b, s) == \E n \in DOMAIN b : b[n] = s

Reading(f, r, b, c) ==
  /\ r \in Seq(Work) /\ Sound(f, r, f.body, c) /\ Apart(r)
  /\ b \in Seq(Nat)
  /\ \A n \in DOMAIN b : b[n] \in DOMAIN f.rows /\ b[n] < c /\ ~ Waits(r, b[n])
  /\ \A m, n \in DOMAIN b : b[m] = b[n] => m = n
  /\ r = <<>> => b = <<>>

Counted(f, r, b, reach, k) ==
  /\ k \in [DOMAIN f.rows -> Nat]
  /\ \A s \in DOMAIN f.rows :
       k[s] = IF s < reach /\ ~ Waits(r, s) /\ ~ Listed(b, s) THEN 1 ELSE 0

LEMMA OverPrefix ==
  ASSUME NEW S, NEW n \in Nat, NEW g \in [1..n -> S]
  PROVE  g \in Seq(S) /\ Len(g) = n /\ DOMAIN g = 1..n
OBVIOUS

LEMMA WorkTypes ==
  ASSUME NEW r \in Seq(Work)
  PROVE  \A k \in DOMAIN r :
           /\ r[k] \in Work /\ r[k].streams \in Seq(Span) /\ r[k].batch \in Nat
           /\ r[k] = [streams |-> r[k].streams, batch |-> r[k].batch]
           /\ \A i \in DOMAIN r[k].streams :
                /\ r[k].streams[i] \in Span
                /\ r[k].streams[i].at \in Nat /\ r[k].streams[i].end \in Nat
                /\ r[k].streams[i] = [at |-> r[k].streams[i].at, end |-> r[k].streams[i].end]
<1> TAKE k \in DOMAIN r
<1>1. r[k] \in Work
  OBVIOUS
<1>2. r[k].streams \in Seq(Span) /\ r[k].batch \in Nat
      /\ r[k] = [streams |-> r[k].streams, batch |-> r[k].batch]
  BY <1>1 DEF Work
<1>3. ASSUME NEW i \in DOMAIN r[k].streams
      PROVE  /\ r[k].streams[i] \in Span
             /\ r[k].streams[i].at \in Nat /\ r[k].streams[i].end \in Nat
             /\ r[k].streams[i] = [at |-> r[k].streams[i].at, end |-> r[k].streams[i].end]
  <2>1. r[k].streams[i] \in Span
    BY <1>2
  <2>2. QED  BY <2>1 DEF Span
<1>4. QED  BY <1>1, <1>2, <1>3

LEMMA WaitsInside ==
  ASSUME NEW f, NEW r \in Seq(Work), NEW b \in Nat, NEW c \in Nat, Sound(f, r, b, c),
         NEW s \in Nat, Waits(r, s)
  PROVE  b <= s /\ s < c
<1> PICK k \in DOMAIN r : \E i \in DOMAIN r[k].streams : Earlier(r[k].streams[i], s)
  BY DEF Waits
<1>1. PICK i \in DOMAIN r[k].streams : Earlier(r[k].streams[i], s)
  OBVIOUS
<1>2. PICK x \in Nat, y \in Nat : x = r[k].streams[i].at /\ y = r[k].streams[i].end
  BY WorkTypes
<1>3. b <= x /\ y <= c
  BY <1>2, Zenon DEF Sound
<1>4. x <= s /\ s < y
  BY <1>1, <1>2, Zenon DEF Earlier
<1>5. QED  BY <1>3, <1>4

(* Nothing is counted twice or forgotten as long as a row that stops       *)
(* waiting is listed, and the other way round.                             *)
LEMMA SameCounts ==
  ASSUME NEW f, NEW r, NEW b, NEW c, NEW k, NEW r2, NEW b2, Counted(f, r, b, c, k),
         \A s \in DOMAIN f.rows : Waits(r2, s) \/ Listed(b2, s) <=> Waits(r, s) \/ Listed(b, s)
  PROVE  Counted(f, r2, b2, c, k)
BY Zenon DEF Counted

LEMMA OnlyOne ==
  ASSUME NEW r, Apart(r), NEW k \in DOMAIN r, NEW l \in DOMAIN r,
         NEW i \in DOMAIN r[k].streams, NEW j \in DOMAIN r[l].streams, NEW s \in Nat,
         Earlier(r[k].streams[i], s), Earlier(r[l].streams[j], s)
  PROVE  k = l /\ i = j
BY DEF Apart

LEMMA NotApart ==
  ASSUME NEW r, ~ Apart(r)
  PROVE  \E k, l \in DOMAIN r : \E i \in DOMAIN r[k].streams, j \in DOMAIN r[l].streams : \E s \in Nat :
           Earlier(r[k].streams[i], s) /\ Earlier(r[l].streams[j], s) /\ ~ (k = l /\ i = j)
BY Zenon DEF Apart

LEMMA ShrunkApart ==
  ASSUME NEW r, NEW r2, Apart(r),
         \A k \in DOMAIN r2 : k \in DOMAIN r /\
           \A i \in DOMAIN r2[k].streams : i \in DOMAIN r[k].streams /\
             \A s \in Nat : Earlier(r2[k].streams[i], s) => Earlier(r[k].streams[i], s)
  PROVE  Apart(r2)
<1>1. ASSUME NEW k \in DOMAIN r2, NEW l \in DOMAIN r2,
             NEW i \in DOMAIN r2[k].streams, NEW j \in DOMAIN r2[l].streams, NEW s \in Nat,
             Earlier(r2[k].streams[i], s), Earlier(r2[l].streams[j], s)
      PROVE  k = l /\ i = j
  <2>1. k \in DOMAIN r /\ i \in DOMAIN r[k].streams /\ Earlier(r[k].streams[i], s)
    BY <1>1, Zenon
  <2>2. l \in DOMAIN r /\ j \in DOMAIN r[l].streams /\ Earlier(r[l].streams[j], s)
    BY <1>1, Zenon
  <2>3. QED  BY <1>1, <2>1, <2>2, Zenon DEF Apart
<1>2. QED  BY <1>1, Zenon DEF Apart

(* NextShare: a new share, all of which waits.                             *)
LEMMA ShareStep ==
  ASSUME NEW p \in Programs, NEW f, FileOK(f), NEW c \in Nat, NEW c2 \in Nat, NEW k,
         f.body <= c, c <= c2, c2 <= f.size, LineStart(f, c), LineStart(f, c2),
         Counted(f, <<>>, <<>>, c, k)
  PROVE  /\ Reading(f, RangesOf(p, f, c, c2), <<>>, c2)
         /\ Counted(f, RangesOf(p, f, c, c2), <<>>, c2, k)
         /\ RangesOf(p, f, c, c2) # <<>>
<1>1. PICK r : /\ r = RangesOf(p, f, c, c2) /\ r \in Seq(Work) /\ r # <<>>
               /\ Sound(f, r, c, c2) /\ Apart(r)
               /\ \A s \in Nat : c <= s /\ s < c2 => Waits(r, s)
  BY RangesFacts
<1>2. Sound(f, r, f.body, c2)
  <2>1. ASSUME NEW m \in DOMAIN r, NEW i \in DOMAIN r[m].streams
        PROVE  f.body <= r[m].streams[i].at
    <3>1. PICK x \in Nat : x = r[m].streams[i].at
      BY <1>1, WorkTypes
    <3>2. c <= x
      BY <1>1, <3>1, Zenon DEF Sound
    <3>3. f.body \in Nat
      BY DEF FileOK
    <3>4. f.body <= x
      BY <3>2, <3>3
    <3>5. QED  BY <3>1, <3>4
  <2>2. QED  BY <1>1, <2>1, Zenon DEF Sound
<1>3. Reading(f, r, <<>>, c2)
  <2>1. <<>> \in Seq(Nat) /\ DOMAIN <<>> = {}
    OBVIOUS
  <2>2. QED  BY <1>1, <1>2, <2>1, Zenon DEF Reading
<1>4. Counted(f, r, <<>>, c2, k)
  <2>1. k \in [DOMAIN f.rows -> Nat]
    BY DEF Counted
  <2>2. \A s : ~ Listed(<<>>, s) /\ ~ Waits(<<>>, s)
    BY DEF Listed, Waits
  <2>3. ASSUME NEW s \in DOMAIN f.rows
        PROVE  k[s] = IF s < c2 /\ ~ Waits(r, s) /\ ~ Listed(<<>>, s) THEN 1 ELSE 0
    <3>1. s \in Nat
      BY NextRow
    <3>2. k[s] = IF s < c THEN 1 ELSE 0
      BY <2>2, Zenon DEF Counted
    <3>3. CASE s < c
      <4>1. ~ Waits(r, s)
        <5>1. ASSUME Waits(r, s) PROVE c <= s
          BY <5>1, <1>1, <3>1, WaitsInside
        <5>2. QED  BY <5>1, <3>1, <3>3
      <4>2. s < c2
        BY <3>1, <3>3
      <4>3. QED  BY <3>2, <3>3, <4>1, <4>2, <2>2, Zenon
    <3>4. CASE ~ (s < c)
      <4>1. s < c2 => Waits(r, s)
        BY <3>1, <3>4, <1>1
      <4>2. QED  BY <3>2, <3>4, <4>1, Zenon
    <3>5. QED  BY <3>3, <3>4
  <2>4. QED  BY <2>1, <2>3, Zenon DEF Counted
<1>5. QED  BY <1>1, <1>3, <1>4, Zenon

(* CountBatch: the rows of a batch are different, so each counts once.     *)
LEMMA CountStep ==
  ASSUME NEW f, FileOK(f), NEW r, NEW b, NEW c \in Nat, NEW k, NEW k2,
         Reading(f, r, b, c), Counted(f, r, b, c, k),
         k2 = [s \in DOMAIN k |-> k[s] + Cardinality({n \in DOMAIN b : b[n] = s})]
  PROVE  Reading(f, r, <<>>, c) /\ Counted(f, r, <<>>, c, k2)
<1>1. /\ b \in Seq(Nat) /\ k \in [DOMAIN f.rows -> Nat] /\ DOMAIN k = DOMAIN f.rows
      /\ \A n \in DOMAIN b : b[n] \in DOMAIN f.rows /\ b[n] < c /\ ~ Waits(r, b[n])
      /\ \A m, n \in DOMAIN b : b[m] = b[n] => m = n
  BY DEF Reading, Counted
<1>2. <<>> \in Seq(Nat) /\ DOMAIN <<>> = {}
  OBVIOUS
<1>3. Reading(f, r, <<>>, c)
  BY <1>2, Zenon DEF Reading
<1>4. ASSUME NEW s \in DOMAIN f.rows
      PROVE  /\ k2[s] \in Nat
             /\ k2[s] = IF s < c /\ ~ Waits(r, s) /\ ~ Listed(<<>>, s) THEN 1 ELSE 0
  <2> DEFINE hits == {n \in DOMAIN b : b[n] = s}
  <2>1. k2[s] = k[s] + Cardinality(hits)
    BY <1>1, Zenon
  <2>2. k[s] = IF s < c /\ ~ Waits(r, s) /\ ~ Listed(b, s) THEN 1 ELSE 0
    BY Zenon DEF Counted
  <2>3. ~ Listed(<<>>, s)
    BY <1>2, Zenon DEF Listed
  <2>4. CASE Listed(b, s)
    <3>1. PICK n \in DOMAIN b : b[n] = s
      BY <2>4 DEF Listed
    <3>2. hits = {n}
      BY <3>1, <1>1, Zenon
    <3>3. Cardinality(hits) = 1
      <4> HIDE DEF hits
      <4>1. QED  BY <3>2, FS_Singleton
    <3>4. s < c /\ ~ Waits(r, s)
      BY <3>1, <1>1, Zenon
    <3>5. k[s] = 0
      BY <2>2, <2>4, Zenon
    <3>6. k2[s] = 1
      <4> HIDE DEF hits
      <4>1. QED  BY <2>1, <3>3, <3>5
    <3>7. QED  BY <2>3, <3>4, <3>6
  <2>5. CASE ~ Listed(b, s)
    <3>1. hits = {}
      BY <2>5, Zenon DEF Listed
    <3>2. Cardinality(hits) = 0
      <4> HIDE DEF hits
      <4>1. QED  BY <3>1, FS_EmptySet
    <3>3. k2[s] = k[s]
      <4> HIDE DEF hits
      <4>1. k[s] \in Nat
        BY <1>1
      <4>2. QED  BY <2>1, <3>2, <4>1
    <3>4. k2[s] = IF s < c /\ ~ Waits(r, s) /\ ~ Listed(<<>>, s) THEN 1 ELSE 0
      BY <2>2, <2>3, <2>5, <3>3, Zenon
    <3>5. k[s] \in Nat
      BY <1>1
    <3>6. QED  BY <3>3, <3>4, <3>5
  <2>6. QED  BY <2>4, <2>5
<1>5. k2 \in [DOMAIN f.rows -> Nat]
  BY <1>1, <1>4
<1>6. QED  BY <1>3, <1>4, <1>5, Zenon DEF Counted

Reads(f, r, b, r2, b2) ==
  /\ b2 = b \o [i \in DOMAIN r[1].streams |-> r[1].streams[i].at]
  /\ r2 = [r EXCEPT ![1].streams =
             [i \in DOMAIN r[1].streams |->
                [r[1].streams[i] EXCEPT !.at = RowEnd(f, @)]]]

(* ReadRows: on every position a row is read, and the position moves to    *)
(* the next.                                                               *)
LEMMA ReadStep ==
  ASSUME NEW f, FileOK(f), NEW r, NEW b, NEW c \in Nat, c <= f.size,
         Reading(f, r, b, c), r # <<>>,
         \A i \in DOMAIN r[1].streams : r[1].streams[i].at < r[1].streams[i].end,
         NEW b2, NEW r2, Reads(f, r, b, r2, b2)
  PROVE  /\ Reading(f, r2, b2, c) /\ r2 # <<>>
         /\ \A s \in DOMAIN f.rows : Waits(r2, s) \/ Listed(b2, s) <=> Waits(r, s) \/ Listed(b, s)
<1>0. /\ b2 = b \o [i \in DOMAIN r[1].streams |-> r[1].streams[i].at]
    /\ r2 = [r EXCEPT ![1].streams =
               [i \in DOMAIN r[1].streams |->
                  [r[1].streams[i] EXCEPT !.at = RowEnd(f, @)]]]
  BY DEF Reads
<1> PICK ss : ss = r[1].streams
  OBVIOUS
<1>1. /\ r \in Seq(Work) /\ Sound(f, r, f.body, c) /\ Apart(r) /\ b \in Seq(Nat)
      /\ \A n \in DOMAIN b : b[n] \in DOMAIN f.rows /\ b[n] < c /\ ~ Waits(r, b[n])
      /\ \A m, n \in DOMAIN b : b[m] = b[n] => m = n
      /\ f.size \in Nat /\ f.body \in Nat
  <2>1. f.size \in Nat /\ f.body \in Nat
    BY DEF FileOK
  <2>2. QED  BY <2>1, Zenon DEF Reading
<1>2. /\ 1 \in DOMAIN r /\ r[1] \in Work /\ ss \in Seq(Span)
      /\ r[1] = [streams |-> ss, batch |-> r[1].batch] /\ r[1].batch \in Nat
      /\ \A i \in DOMAIN ss : /\ ss[i].at \in Nat /\ ss[i].end \in Nat /\ ss[i].at < ss[i].end
                              /\ ss[i] = [at |-> ss[i].at, end |-> ss[i].end]
  <2>1. 1 \in DOMAIN r
    BY <1>1
  <2>2. /\ r[1] \in Work /\ r[1].streams \in Seq(Span) /\ r[1].batch \in Nat
        /\ r[1] = [streams |-> r[1].streams, batch |-> r[1].batch]
        /\ \A i \in DOMAIN r[1].streams :
             /\ r[1].streams[i].at \in Nat /\ r[1].streams[i].end \in Nat
             /\ r[1].streams[i] = [at |-> r[1].streams[i].at, end |-> r[1].streams[i].end]
    BY <2>1, <1>1, WorkTypes
  <2>3. \A i \in DOMAIN ss : /\ ss[i].at \in Nat /\ ss[i].end \in Nat
                             /\ ss[i] = [at |-> ss[i].at, end |-> ss[i].end]
    BY <2>2, Zenon
  <2>4. \A i \in DOMAIN ss : ss[i].at < ss[i].end
    BY Zenon
  <2>5. ss \in Seq(Span) /\ r[1] = [streams |-> ss, batch |-> r[1].batch]
    BY <2>2, Zenon
  <2>6. QED  BY <2>1, <2>2, <2>3, <2>4, <2>5, Zenon
<1>3. \A i \in DOMAIN ss :
        /\ LineStart(f, ss[i].at) /\ LineStart(f, ss[i].end) /\ f.body <= ss[i].at /\ ss[i].end <= c
  BY <1>1, <1>2, Zenon DEF Sound
<1>4. \A i \in DOMAIN ss :
        /\ ss[i].at \in DOMAIN f.rows /\ ss[i].at < c
        /\ RowEnd(f, ss[i].at) \in Nat /\ ss[i].at < RowEnd(f, ss[i].at)
        /\ RowEnd(f, ss[i].at) <= ss[i].end /\ LineStart(f, RowEnd(f, ss[i].at))
        /\ \A s \in DOMAIN f.rows : s < RowEnd(f, ss[i].at) => s <= ss[i].at
  <2> TAKE i \in DOMAIN ss
  <2>1. PICK x \in Nat, y \in Nat : x = ss[i].at /\ y = ss[i].end
    BY <1>2
  <2>2. LineStart(f, x) /\ LineStart(f, y) /\ x < y /\ y <= c
    BY <1>2, <1>3, <2>1, Zenon
  <2>3. y <= f.size /\ x < c
    BY <2>2, <1>1
  <2>4. /\ x \in DOMAIN f.rows
        /\ RowEnd(f, x) \in Nat /\ x < RowEnd(f, x) /\ RowEnd(f, x) <= y
        /\ LineStart(f, RowEnd(f, x))
        /\ \A s \in DOMAIN f.rows : s < RowEnd(f, x) => s <= x
    BY <2>2, <2>3, RowBelow
  <2>5. QED  BY <2>1, <2>3, <2>4, Zenon
<1> PICK tt : tt = [i \in DOMAIN ss |-> [ss[i] EXCEPT !.at = RowEnd(f, @)]]
  OBVIOUS
<1>5. /\ DOMAIN tt = DOMAIN ss
      /\ \A i \in DOMAIN ss : tt[i] = [at |-> RowEnd(f, ss[i].at), end |-> ss[i].end]
  <2>1. ASSUME NEW i \in DOMAIN ss
        PROVE  tt[i] = [at |-> RowEnd(f, ss[i].at), end |-> ss[i].end]
    <3>1. tt[i] = [ss[i] EXCEPT !.at = RowEnd(f, ss[i].at)]
      BY Zenon
    <3>2. PICK x \in Nat, y \in Nat : x = ss[i].at /\ y = ss[i].end /\ ss[i] = [at |-> x, end |-> y]
      BY <1>2
    <3>3. tt[i] = [[at |-> x, end |-> y] EXCEPT !.at = RowEnd(f, x)]
      BY <3>1, <3>2, Zenon
    <3>4. tt[i] = [at |-> RowEnd(f, x), end |-> y]
      BY <3>3
    <3>5. QED  BY <3>2, <3>4, Zenon
  <2>2. QED  BY <2>1
<1>6. \A i \in DOMAIN ss :
        /\ tt[i] \in Span /\ tt[i].at = RowEnd(f, ss[i].at) /\ tt[i].end = ss[i].end
  <2> TAKE i \in DOMAIN ss
  <2>1. PICK x \in Nat, y \in Nat : x = RowEnd(f, ss[i].at) /\ y = ss[i].end
    BY <1>2, <1>4
  <2>2. tt[i] = [at |-> x, end |-> y]
    BY <1>5, <2>1, Zenon
  <2>3. tt[i] \in Span /\ tt[i].at = x /\ tt[i].end = y
    BY <2>2 DEF Span
  <2>4. QED  BY <2>1, <2>3, Zenon
<1>7. tt \in Seq(Span)
  <2>1. PICK n \in Nat : n = Len(ss) /\ DOMAIN ss = 1..n
    BY <1>2
  <2>2. tt \in [1..n -> Span]
    BY <2>1, <1>5, <1>6
  <2>3. QED  BY <2>2, SeqDef, Zenon
<1>8. /\ r2 \in Seq(Work) /\ DOMAIN r2 = DOMAIN r
      /\ r2[1].streams = tt /\ \A k \in DOMAIN r : k # 1 => r2[k] = r[k]
  <2> PICK w : w = [r[1] EXCEPT !.streams = tt]
    OBVIOUS
  <2>1. r2 = [r EXCEPT ![1] = w]
    BY <1>0, Zenon
  <2>2. w = [streams |-> tt, batch |-> r[1].batch]
    BY <1>2
  <2>3. w \in Work /\ w.streams = tt
    BY <2>2, <1>2, <1>7 DEF Work
  <2>4. r2 \in Seq(Work)
    BY <2>1, <2>3, <1>1, <1>2, ExceptSeq
  <2>5. QED  BY <2>1, <2>3, <2>4, <1>1, <1>2
<1>9. /\ r2 # <<>>
      /\ \A k \in DOMAIN r2 : DOMAIN r2[k].streams = DOMAIN r[k].streams
  <2>1. r2 # <<>>
    BY <1>2, <1>8
  <2>2. QED  BY <2>1, <1>5, <1>8, Zenon
<1>10. \A i \in DOMAIN ss, s \in Nat : Earlier(tt[i], s) <=> RowEnd(f, ss[i].at) <= s /\ s < ss[i].end
  BY <1>6, Zenon DEF Earlier
<1>11. \A i \in DOMAIN ss, s \in Nat : Earlier(ss[i], s) <=> ss[i].at <= s /\ s < ss[i].end
  BY Zenon DEF Earlier
<1>12. \A i \in DOMAIN ss : \A s \in Nat : Earlier(tt[i], s) => Earlier(ss[i], s)
  <2> TAKE i \in DOMAIN ss
  <2> PICK x \in Nat, z \in Nat : x = ss[i].at /\ z = RowEnd(f, ss[i].at) /\ x < z
    BY <1>2, <1>4
  <2> TAKE s \in Nat
  <2>1. z <= s => x <= s
    OBVIOUS
  <2>2. QED  BY <2>1, <1>10, <1>11, Zenon
<1>13. \A i \in DOMAIN ss : Earlier(ss[i], ss[i].at) /\ ~ Earlier(tt[i], ss[i].at)
  <2> TAKE i \in DOMAIN ss
  <2> PICK x \in Nat, z \in Nat : x = ss[i].at /\ z = RowEnd(f, ss[i].at) /\ x < z
    BY <1>2, <1>4
  <2>1. x <= x /\ ~ (z <= x)
    OBVIOUS
  <2>2. x < ss[i].end
    BY <1>2
  <2>3. QED  BY <2>1, <2>2, <1>10, <1>11, Zenon
<1>14. \A i \in DOMAIN ss : \A s \in DOMAIN f.rows : Earlier(ss[i], s) => Earlier(tt[i], s) \/ s = ss[i].at
  <2> TAKE i \in DOMAIN ss
  <2> PICK x \in Nat, z \in Nat : x = ss[i].at /\ z = RowEnd(f, ss[i].at) /\ x < z
    BY <1>2, <1>4
  <2> TAKE s \in DOMAIN f.rows
  <2>1. s \in Nat
    BY NextRow
  <2>2. s < z => s <= x
    BY <1>4, Zenon
  <2>3. x <= s => z <= s \/ s = x
    BY <2>1, <2>2
  <2>4. QED  BY <2>1, <2>3, <1>10, <1>11, Zenon
<1>15. \A k \in DOMAIN r, s \in Nat : \A i \in DOMAIN r[k].streams :
         Earlier(r2[k].streams[i], s) => Earlier(r[k].streams[i], s)
  BY <1>8, <1>12, Zenon
<1>16. \A s \in Nat : Waits(r2, s) => Waits(r, s)
  <2>1. ASSUME NEW s \in Nat, NEW k \in DOMAIN r2, NEW i \in DOMAIN r2[k].streams,
               Earlier(r2[k].streams[i], s)
        PROVE  Waits(r, s)
    <3>1. k \in DOMAIN r /\ i \in DOMAIN r[k].streams
      BY <1>8, <1>9, Zenon
    <3>2. Earlier(r[k].streams[i], s)
      BY <2>1, <3>1, <1>15, Zenon
    <3>3. QED  BY <3>1, <3>2, Zenon DEF Waits
  <2>2. QED  BY <2>1, Zenon DEF Waits
<1>17. Apart(r2)
  <2>1. /\ Apart(r) /\ DOMAIN r2 = DOMAIN r
        /\ \A k \in DOMAIN r2 : k \in DOMAIN r /\
             \A i \in DOMAIN r2[k].streams : i \in DOMAIN r[k].streams /\
               \A s \in Nat : Earlier(r2[k].streams[i], s) => Earlier(r[k].streams[i], s)
    BY <1>1, <1>8, <1>9, <1>15, Zenon
  <2>2. QED  BY <2>1, ShrunkApart
<1>18. Sound(f, r2, f.body, c)
  <2>1. ASSUME NEW i \in DOMAIN ss
        PROVE  /\ LineStart(f, tt[i].at) /\ LineStart(f, tt[i].end)
               /\ f.body <= tt[i].at /\ tt[i].at <= tt[i].end /\ tt[i].end <= c
    <3> PICK x \in Nat, z \in Nat : x = ss[i].at /\ z = RowEnd(f, ss[i].at) /\ x < z
      BY <1>2, <1>4
    <3>1. f.body <= x
      BY <1>3, Zenon
    <3>2. f.body <= z
      BY <3>1, <1>1
    <3>3. QED  BY <3>2, <1>3, <1>4, <1>6, Zenon
  <2>2. ASSUME NEW k \in DOMAIN r2, NEW i \in DOMAIN r2[k].streams
        PROVE  LET y == r2[k].streams[i] IN
               LineStart(f, y.at) /\ LineStart(f, y.end) /\ f.body <= y.at /\ y.at <= y.end /\ y.end <= c
    <3>1. CASE k = 1
      BY <3>1, <2>1, <1>5, <1>8, Zenon
    <3>2. CASE k # 1
      <4>1. r2[k] = r[k] /\ k \in DOMAIN r
        BY <3>2, <1>8, Zenon
      <4>2. QED  BY <4>1, <1>1, Zenon DEF Sound
    <3>3. QED  BY <3>1, <3>2
  <2>3. QED  BY <2>2, Zenon DEF Sound
<1> PICK uu : uu = [i \in DOMAIN ss |-> ss[i].at]
  OBVIOUS
<1>19. /\ uu \in Seq(Nat) /\ Len(uu) = Len(ss) /\ DOMAIN uu = 1..Len(ss) /\ DOMAIN ss = 1..Len(ss)
       /\ Len(ss) \in Nat /\ \A i \in DOMAIN ss : uu[i] = ss[i].at
  <2>1. Len(ss) \in Nat /\ DOMAIN ss = 1..Len(ss)
    BY <1>2
  <2>2. DOMAIN uu = DOMAIN ss /\ \A i \in DOMAIN ss : uu[i] = ss[i].at
    BY Zenon
  <2>3. PICK n \in Nat : n = Len(ss) /\ DOMAIN uu = 1..n /\ uu \in [1..n -> Nat]
    BY <2>1, <2>2, <1>2
  <2>4. uu \in Seq(Nat)
    <3>1. uu \in [1..n -> Nat] /\ n \in Nat
      BY <2>3
    <3>2. QED  BY <3>1, OverPrefix
  <2>5. Len(uu) = n
    BY <2>3, <2>4
  <2>6. QED  BY <2>1, <2>2, <2>3, <2>4, <2>5, Zenon
<1>20. /\ b2 \in Seq(Nat) /\ Len(b) \in Nat /\ DOMAIN b = 1..Len(b)
       /\ DOMAIN b2 = 1..(Len(b) + Len(ss))
       /\ \A n \in 1..Len(b) : b2[n] = b[n]
       /\ \A n \in DOMAIN b2 : n \notin DOMAIN b => n - Len(b) \in DOMAIN ss /\ b2[n] = ss[n - Len(b)].at
       /\ \A i \in DOMAIN ss : Len(b) + i \in DOMAIN b2 /\ b2[Len(b) + i] = ss[i].at
  <2>1. b2 = b \o uu
    BY <1>0, Zenon
  <2>2. /\ Len(b) \in Nat /\ DOMAIN b = 1..Len(b) /\ b2 \in Seq(Nat) /\ Len(b2) = Len(b) + Len(uu)
        /\ DOMAIN b2 = 1..Len(b2)
        /\ \A n \in 1..(Len(b) + Len(uu)) : b2[n] = IF n <= Len(b) THEN b[n] ELSE uu[n - Len(b)]
    BY <2>1, <1>1, <1>19, ConcatProperties
  <2>3. DOMAIN b2 = 1..(Len(b) + Len(ss))
    BY <2>2, <1>19
  <2>4. \A n \in 1..Len(b) : b2[n] = b[n]
    <3>1. Len(b) \in Nat /\ Len(uu) \in Nat
      BY <2>2, <1>19
    <3>2. \A n \in 1..Len(b) : n \in 1..(Len(b) + Len(uu)) /\ n <= Len(b)
      BY <3>1
    <3>3. QED  BY <3>2, <2>2, Zenon
  <2>5. \A n \in DOMAIN b2 : n \notin DOMAIN b => n - Len(b) \in DOMAIN ss /\ b2[n] = ss[n - Len(b)].at
    <3>1. ASSUME NEW n \in DOMAIN b2, n \notin DOMAIN b
          PROVE  n - Len(b) \in DOMAIN ss /\ b2[n] = ss[n - Len(b)].at
      <4>1. n \in 1..(Len(b) + Len(uu)) /\ ~ (n <= Len(b)) /\ n - Len(b) \in DOMAIN ss
        BY <3>1, <2>2, <2>3, <1>19
      <4>2. b2[n] = uu[n - Len(b)]
        BY <4>1, <2>2, Zenon
      <4>3. QED  BY <4>1, <4>2, <1>19, Zenon
    <3>2. QED  BY <3>1
  <2>6. \A i \in DOMAIN ss : Len(b) + i \in DOMAIN b2 /\ b2[Len(b) + i] = ss[i].at
    <3>1. ASSUME NEW i \in DOMAIN ss
          PROVE  Len(b) + i \in DOMAIN b2 /\ b2[Len(b) + i] = ss[i].at
      <4>1. PICK n \in Int : n = Len(b) + i /\ n \in DOMAIN b2 /\ n \notin DOMAIN b /\ n - Len(b) = i
        BY <2>2, <2>3, <1>19
      <4>2. QED  BY <4>1, <2>5, Zenon
    <3>2. QED  BY <3>1
  <2>7. QED  BY <2>2, <2>3, <2>4, <2>5, <2>6, Zenon
<1>21. \A s : Listed(b2, s) <=> Listed(b, s) \/ \E i \in DOMAIN ss : s = ss[i].at
  <2>1. \A n \in DOMAIN b : n \in DOMAIN b2 /\ b2[n] = b[n]
    BY <1>19, <1>20
  <2>2. ASSUME NEW s, Listed(b, s)
        PROVE  Listed(b2, s)
    <3>1. PICK n \in DOMAIN b : b[n] = s
      BY <2>2, Zenon DEF Listed
    <3>2. QED  BY <3>1, <2>1, Zenon DEF Listed
  <2>3. ASSUME NEW s, NEW i \in DOMAIN ss, s = ss[i].at
        PROVE  Listed(b2, s)
    BY <2>3, <1>20, Zenon DEF Listed
  <2>4. ASSUME NEW s, Listed(b2, s)
        PROVE  Listed(b, s) \/ \E i \in DOMAIN ss : s = ss[i].at
    <3>1. PICK n \in DOMAIN b2 : b2[n] = s
      BY <2>4, Zenon DEF Listed
    <3>2. CASE n \in DOMAIN b
      BY <3>1, <3>2, <2>1, Zenon DEF Listed
    <3>3. CASE n \notin DOMAIN b
      BY <3>1, <3>3, <1>20, Zenon
    <3>4. QED  BY <3>2, <3>3
  <2>5. QED  BY <2>2, <2>3, <2>4, Zenon
<1>22. \A i \in DOMAIN ss : Waits(r, ss[i].at) /\ ~ Waits(r2, ss[i].at)
  <2> TAKE i \in DOMAIN ss
  <2>1. Waits(r, ss[i].at)
    BY <1>2, <1>13, Zenon DEF Waits
  <2>2. ASSUME NEW k \in DOMAIN r2, NEW j \in DOMAIN r2[k].streams, Earlier(r2[k].streams[j], ss[i].at)
        PROVE  FALSE
    <3>1. ss[i].at \in Nat
      BY <1>2
    <3>2. k \in DOMAIN r /\ j \in DOMAIN r[k].streams /\ Earlier(r[k].streams[j], ss[i].at)
      BY <2>2, <3>1, <1>8, <1>9, <1>15, Zenon
    <3>3. Apart(r) /\ 1 \in DOMAIN r /\ i \in DOMAIN r[1].streams /\ Earlier(r[1].streams[i], ss[i].at)
      BY <1>1, <1>2, <1>13, Zenon
    <3>5. k = 1 /\ j = i
      BY <3>1, <3>2, <3>3, OnlyOne
    <3>6. QED  BY <2>2, <3>5, <1>8, <1>13, Zenon
  <2>3. QED  BY <2>1, <2>2, Zenon DEF Waits
<1>23. \A s \in DOMAIN f.rows : Waits(r2, s) \/ Listed(b2, s) <=> Waits(r, s) \/ Listed(b, s)
  <2> TAKE s \in DOMAIN f.rows
  <2>1. s \in Nat
    BY NextRow
  <2>2. ASSUME Waits(r, s)
        PROVE  Waits(r2, s) \/ \E i \in DOMAIN ss : s = ss[i].at
    <3>1. PICK k \in DOMAIN r : \E i \in DOMAIN r[k].streams : Earlier(r[k].streams[i], s)
      BY <2>2, Zenon DEF Waits
    <3>2. PICK i \in DOMAIN r[k].streams : Earlier(r[k].streams[i], s)
      BY <3>1
    <3>3. CASE k = 1
      <4>1. i \in DOMAIN ss /\ Earlier(ss[i], s)
        BY <3>2, <3>3, Zenon
      <4>2. Earlier(tt[i], s) \/ s = ss[i].at
        BY <4>1, <1>14
      <4>3. QED  BY <4>1, <4>2, <1>2, <1>5, <1>8, Zenon DEF Waits
    <3>4. CASE k # 1
      <4>1. r2[k] = r[k] /\ k \in DOMAIN r2
        BY <3>4, <1>8
      <4>2. QED  BY <4>1, <3>2, Zenon DEF Waits
    <3>5. QED  BY <3>3, <3>4
  <2>3. (\E i \in DOMAIN ss : s = ss[i].at) => Waits(r, s)
    BY <1>22, Zenon
  <2>4. Listed(b2, s) <=> Listed(b, s) \/ \E i \in DOMAIN ss : s = ss[i].at
    BY <1>21, Zenon
  <2>5. Waits(r2, s) => Waits(r, s)
    BY <2>1, <1>16, Zenon
  <2>6. QED  BY <2>2, <2>3, <2>4, <2>5
<1>24. \A n \in DOMAIN b2 : b2[n] \in DOMAIN f.rows /\ b2[n] < c /\ ~ Waits(r2, b2[n])
  <2> TAKE n \in DOMAIN b2
  <2>1. CASE n \in DOMAIN b
    <3>1. b2[n] = b[n] /\ b[n] \in Nat
      BY <2>1, <1>1, <1>20
    <3>2. QED  BY <2>1, <3>1, <1>1, <1>16, Zenon
  <2>2. CASE n \notin DOMAIN b
    BY <2>2, <1>20, <1>4, <1>22, Zenon
  <2>3. QED  BY <2>1, <2>2
<1>25. \A m, n \in DOMAIN b2 : b2[m] = b2[n] => m = n
  <2>1. \A m, n \in DOMAIN b2 : m \in DOMAIN b /\ n \notin DOMAIN b => b2[m] # b2[n]
    <3>1. ASSUME NEW m \in DOMAIN b2, NEW n \in DOMAIN b2, m \in DOMAIN b, n \notin DOMAIN b,
                 b2[m] = b2[n]
          PROVE  FALSE
      <4>1. b2[m] = b[m]
        BY <3>1, <1>20, Zenon
      <4>2. ~ Waits(r, b2[m])
        BY <3>1, <4>1, <1>1, Zenon
      <4>3. Waits(r, b2[n])
        BY <3>1, <1>20, <1>22, Zenon
      <4>4. QED  BY <3>1, <4>2, <4>3, Zenon
    <3>2. QED  BY <3>1
  <2>2. ASSUME NEW i \in DOMAIN ss, NEW j \in DOMAIN ss, ss[i].at = ss[j].at
        PROVE  i = j
    <3>1. /\ Apart(r) /\ 1 \in DOMAIN r /\ ss[i].at \in Nat
          /\ i \in DOMAIN r[1].streams /\ Earlier(r[1].streams[i], ss[i].at)
          /\ j \in DOMAIN r[1].streams /\ Earlier(r[1].streams[j], ss[i].at)
      BY <2>2, <1>1, <1>2, <1>13, Zenon
    <3>2. QED  BY <3>1, OnlyOne
  <2>3. ASSUME NEW m \in DOMAIN b2, NEW n \in DOMAIN b2, b2[m] = b2[n]
        PROVE  m = n
    <3>1. CASE m \in DOMAIN b /\ n \in DOMAIN b
      BY <3>1, <2>3, <1>1, <1>20, Zenon
    <3>2. CASE m \notin DOMAIN b /\ n \notin DOMAIN b
      <4>3. PICK i \in DOMAIN ss : i = m - Len(b) /\ b2[m] = ss[i].at
        BY <3>2, <1>20, Zenon
      <4>4. PICK j \in DOMAIN ss : j = n - Len(b) /\ b2[n] = ss[j].at
        BY <3>2, <1>20, Zenon
      <4>5. i = j
        <5>1. ss[i].at = ss[j].at
          BY <2>3, <4>3, <4>4, Zenon
        <5>2. QED  BY <5>1, <2>2
      <4>6. m - Len(b) = n - Len(b)
        BY <4>3, <4>4, <4>5, Zenon
      <4>7. m \in Int /\ n \in Int /\ Len(b) \in Int
        BY <1>19, <1>20
      <4>8. QED  BY <4>6, <4>7
    <3>3. QED  BY <3>1, <3>2, <2>1, <2>3, Zenon
  <2>4. QED  BY <2>3
<1>26. Reading(f, r2, b2, c)
  BY <1>8, <1>9, <1>17, <1>18, <1>20, <1>24, <1>25, Zenon DEF Reading
<1>27. QED  BY <1>9, <1>23, <1>26

LEMMA OneIsWork ==
  ASSUME NEW p \in Programs, NEW b \in Nat, NEW e \in Nat
  PROVE  /\ One(b, e, p) \in Work /\ DOMAIN One(b, e, p).streams = {1}
         /\ One(b, e, p).streams[1] = [at |-> b, end |-> e]
<1>1. p.batch \in Nat
  BY ProgramFacts, Zenon
<1>2. PICK x : x = One(b, e, p) /\ x = [streams |-> <<[at |-> b, end |-> e]>>, batch |-> p.batch]
  BY DEF One, Stretch
<1>3. [at |-> b, end |-> e] \in Span
  BY DEF Span
<1>4. x \in Work /\ DOMAIN x.streams = {1} /\ x.streams[1] = [at |-> b, end |-> e]
  BY <1>1, <1>2, <1>3 DEF Work
<1>5. QED  BY <1>2, <1>4, Zenon

(* LeftOver: nothing of a single stream that has ended, and every stream   *)
(* of several, as a range of its own.                                      *)
Remains(p, x) ==
  IF Len(x.streams) = 1 THEN <<>>
  ELSE [i \in DOMAIN x.streams |-> One(x.streams[i].at, x.streams[i].end, p)]

LEMMA RemainsFacts ==
  ASSUME NEW p \in Programs, NEW x \in Work
  PROVE  /\ Remains(p, x) \in Seq(Work)
         /\ \A k \in DOMAIN Remains(p, x) :
              /\ k \in DOMAIN x.streams /\ DOMAIN Remains(p, x)[k].streams = {1}
              /\ Remains(p, x)[k].streams[1] = x.streams[k]
         /\ Len(x.streams) # 1 => DOMAIN Remains(p, x) = DOMAIN x.streams
<1> PICK ss : ss = x.streams
  OBVIOUS
<1>1. ss \in Seq(Span)
  BY DEF Work
<1>2. PICK n \in Nat : n = Len(ss) /\ DOMAIN ss = 1..n
  BY <1>1
<1>3. CASE n = 1
  <2>1. Remains(p, x) = <<>>
    BY <1>2, <1>3, Zenon DEF Remains
  <2>2. <<>> \in Seq(Work) /\ DOMAIN <<>> = {}
    OBVIOUS
  <2>3. QED  BY <2>1, <2>2, <1>2, <1>3, Zenon
<1>4. CASE n # 1
  <2>1. Remains(p, x) = [i \in DOMAIN ss |-> One(ss[i].at, ss[i].end, p)]
    BY <1>2, <1>4, Zenon DEF Remains
  <2>2. ASSUME NEW i \in DOMAIN ss
        PROVE  /\ Remains(p, x)[i] \in Work /\ DOMAIN Remains(p, x)[i].streams = {1}
               /\ Remains(p, x)[i].streams[1] = ss[i]
    <3>1. ss[i] \in Span
      BY <1>1
    <3>2. PICK b \in Nat, e \in Nat : b = ss[i].at /\ e = ss[i].end /\ ss[i] = [at |-> b, end |-> e]
      BY <3>1 DEF Span
    <3>3. Remains(p, x)[i] = One(b, e, p)
      BY <2>1, <3>2, Zenon
    <3>4. /\ One(b, e, p) \in Work /\ DOMAIN One(b, e, p).streams = {1}
          /\ One(b, e, p).streams[1] = [at |-> b, end |-> e]
      BY OneIsWork
    <3>5. QED  BY <3>2, <3>3, <3>4, Zenon
  <2>3. DOMAIN Remains(p, x) = DOMAIN ss
    BY <2>1, Zenon
  <2>4. PICK g : g = Remains(p, x)
    OBVIOUS
  <2>5. g = [i \in DOMAIN ss |-> g[i]]
    BY <2>1, <2>4, Zenon
  <2>6. g \in [1..n -> Work]
    BY <2>2, <2>4, <2>5, <1>2, Zenon
  <2>7. g \in Seq(Work)
    BY <2>6, OverPrefix
  <2>8. QED  BY <2>2, <2>3, <2>4, <2>7, Zenon
<1>5. QED  BY <1>3, <1>4

(* Ranges of which the first few (ll) go on with a position each of the    *)
(* first that was there, and the others are those that followed it.        *)
GoesOn(r, r2, ll, n) ==
  /\ 1 \in DOMAIN r
  /\ \A k \in DOMAIN ll : /\ k \in DOMAIN r[1].streams /\ DOMAIN ll[k].streams = {1}
                          /\ ll[k].streams[1] = r[1].streams[k]
  /\ \A k \in DOMAIN r2 : k \in DOMAIN ll => r2[k] = ll[k]
  /\ \A k \in DOMAIN r2 : k \notin DOMAIN ll =>
       /\ k - n + 1 \in DOMAIN r /\ k - n + 1 > 1 /\ k \in Int
       /\ r2[k] = r[k - n + 1]

LEMMA Rearranged ==
  ASSUME NEW f, NEW r, NEW r2, NEW ll, NEW c, NEW n \in Nat,
         Apart(r), Sound(f, r, f.body, c), GoesOn(r, r2, ll, n)
  PROVE  /\ Sound(f, r2, f.body, c) /\ Apart(r2)
         /\ \A s \in Nat : Waits(r2, s) => Waits(r, s)
<1>1. \A k \in DOMAIN ll : /\ k \in DOMAIN r[1].streams /\ DOMAIN ll[k].streams = {1}
                           /\ ll[k].streams[1] = r[1].streams[k]
  BY Zenon DEF GoesOn
<1>2. 1 \in DOMAIN r /\ \A k \in DOMAIN r2 : k \in DOMAIN ll => r2[k] = ll[k]
  BY Zenon DEF GoesOn
<1>3. \A k \in DOMAIN r2 : k \notin DOMAIN ll =>
        /\ k - n + 1 \in DOMAIN r /\ k - n + 1 > 1 /\ k \in Int
        /\ r2[k] = r[k - n + 1]
  BY Zenon DEF GoesOn
(* Where a position was before.                                            *)
<1> DEFINE Range0(k) == IF k \in DOMAIN ll THEN 1 ELSE k - n + 1
           Stream0(k, i) == IF k \in DOMAIN ll THEN k ELSE i
<1>8. \A k \in DOMAIN r2 : \A i \in DOMAIN r2[k].streams :
        /\ Range0(k) \in DOMAIN r /\ Stream0(k, i) \in DOMAIN r[Range0(k)].streams
        /\ r2[k].streams[i] = r[Range0(k)].streams[Stream0(k, i)]
        /\ k \in DOMAIN ll => i = 1
        /\ Range0(k) = 1 <=> k \in DOMAIN ll
  <2> TAKE k \in DOMAIN r2
  <2>1. CASE k \in DOMAIN ll
    <3>1. r2[k] = ll[k] /\ Range0(k) = 1
      BY <2>1, <1>2, Zenon
    <3>2. ASSUME NEW i \in DOMAIN r2[k].streams
          PROVE  /\ i = 1 /\ Stream0(k, i) = k /\ k \in DOMAIN r[1].streams
                 /\ r2[k].streams[i] = r[1].streams[k]
      <4>1. k \in DOMAIN r[1].streams /\ DOMAIN ll[k].streams = {1} /\ ll[k].streams[1] = r[1].streams[k]
        BY <2>1, <1>1, Zenon
      <4>2. i = 1
        BY <3>1, <3>2, <4>1, Zenon
      <4>3. Stream0(k, i) = k
        BY <2>1, Zenon
      <4>4. r2[k].streams[i] = r[1].streams[k]
        BY <3>1, <4>1, <4>2, Zenon
      <4>5. QED  BY <4>1, <4>2, <4>3, <4>4, Zenon
    <3> HIDE DEF Range0, Stream0
    <3>3. QED  BY <2>1, <3>1, <3>2, <1>2, Zenon
  <2>2. CASE k \notin DOMAIN ll
    <3>1. /\ Range0(k) = k - n + 1 /\ Range0(k) \in DOMAIN r /\ r2[k] = r[Range0(k)]
          /\ \A i : Stream0(k, i) = i
      BY <2>2, <1>3, Zenon
    <3>2. Range0(k) # 1
      <4>1. k - n + 1 # 1
        BY <2>2, <1>3
      <4>2. QED  BY <3>1, <4>1, Zenon
    <3> HIDE DEF Range0, Stream0
    <3>3. QED  BY <2>2, <3>1, <3>2, Zenon
  <2>3. QED  BY <2>1, <2>2
<1>9. \A k, l \in DOMAIN r2 : k \notin DOMAIN ll /\ l \notin DOMAIN ll /\ Range0(k) = Range0(l) => k = l
  <2> TAKE k, l \in DOMAIN r2
  <2>1. CASE k \notin DOMAIN ll /\ l \notin DOMAIN ll /\ Range0(k) = Range0(l)
    <3>1. k - n + 1 = l - n + 1
      BY <2>1, Zenon
    <3>2. k \in Int /\ l \in Int
      BY <2>1, <1>3
    <3>3. QED  BY <3>1, <3>2
  <2>2. QED  BY <2>1
<1> HIDE DEF Range0, Stream0
<1>10. \A k \in DOMAIN ll : \A i : Stream0(k, i) = k
  BY Zenon DEF Stream0
<1>11. \A k, i : k \notin DOMAIN ll => Stream0(k, i) = i
  BY Zenon DEF Stream0
<1>12. Sound(f, r2, f.body, c)
  <2>1. ASSUME NEW k \in DOMAIN r2, NEW i \in DOMAIN r2[k].streams
        PROVE  LET y == r2[k].streams[i] IN
               LineStart(f, y.at) /\ LineStart(f, y.end) /\ f.body <= y.at /\ y.at <= y.end /\ y.end <= c
    <3>1. /\ Range0(k) \in DOMAIN r /\ Stream0(k, i) \in DOMAIN r[Range0(k)].streams
          /\ r2[k].streams[i] = r[Range0(k)].streams[Stream0(k, i)]
      BY <2>1, <1>8, Zenon
    <3>2. LET y == r[Range0(k)].streams[Stream0(k, i)] IN
          LineStart(f, y.at) /\ LineStart(f, y.end) /\ f.body <= y.at /\ y.at <= y.end /\ y.end <= c
      BY <3>1, Zenon DEF Sound
    <3>3. QED  BY <3>1, <3>2, Zenon
  <2>2. QED  BY <2>1, Zenon DEF Sound
<1>13. Apart(r2)
  <2> SUFFICES ASSUME ~ Apart(r2) PROVE FALSE
    OBVIOUS
  <2> PICK k \in DOMAIN r2, l \in DOMAIN r2 :
        \E i \in DOMAIN r2[k].streams, j \in DOMAIN r2[l].streams : \E s \in Nat :
           Earlier(r2[k].streams[i], s) /\ Earlier(r2[l].streams[j], s) /\ ~ (k = l /\ i = j)
    BY NotApart
  <2> PICK i \in DOMAIN r2[k].streams, j \in DOMAIN r2[l].streams : \E s \in Nat :
           Earlier(r2[k].streams[i], s) /\ Earlier(r2[l].streams[j], s) /\ ~ (k = l /\ i = j)
    OBVIOUS
  <2> PICK s \in Nat :
           Earlier(r2[k].streams[i], s) /\ Earlier(r2[l].streams[j], s) /\ ~ (k = l /\ i = j)
    OBVIOUS
  <2>1. /\ Range0(k) \in DOMAIN r /\ Stream0(k, i) \in DOMAIN r[Range0(k)].streams
        /\ Earlier(r[Range0(k)].streams[Stream0(k, i)], s)
    BY <1>8, Zenon
  <2>2. /\ Range0(l) \in DOMAIN r /\ Stream0(l, j) \in DOMAIN r[Range0(l)].streams
        /\ Earlier(r[Range0(l)].streams[Stream0(l, j)], s)
    BY <1>8, Zenon
  <2>3. Range0(k) = Range0(l) /\ Stream0(k, i) = Stream0(l, j)
    <3>1. Apart(r) /\ s \in Nat
      BY <1>1
    <3>2. PICK k1 : k1 = Range0(k)
      OBVIOUS
    <3>3. PICK l1 : l1 = Range0(l)
      OBVIOUS
    <3>4. PICK i1 : i1 = Stream0(k, i)
      OBVIOUS
    <3>5. PICK j1 : j1 = Stream0(l, j)
      OBVIOUS
    <3>6. k1 \in DOMAIN r /\ i1 \in DOMAIN r[k1].streams /\ Earlier(r[k1].streams[i1], s)
      BY <2>1, <3>2, <3>4, Zenon
    <3>7. l1 \in DOMAIN r /\ j1 \in DOMAIN r[l1].streams /\ Earlier(r[l1].streams[j1], s)
      BY <2>2, <3>3, <3>5, Zenon
    <3>8. k1 = l1 /\ i1 = j1
      BY <3>1, <3>6, <3>7, OnlyOne
    <3>9. QED  BY <3>2, <3>3, <3>4, <3>5, <3>8, Zenon
  <2>4. CASE k \in DOMAIN ll
    <3>1. l \in DOMAIN ll /\ i = 1 /\ j = 1
      BY <2>3, <2>4, <1>8, Zenon
    <3>2. QED  BY <2>3, <2>4, <3>1, <1>10, Zenon
  <2>5. CASE k \notin DOMAIN ll
    <3>1. l \notin DOMAIN ll
      BY <2>3, <2>5, <1>8, Zenon
    <3>2. k = l
      <4>1. k \in DOMAIN r2 /\ l \in DOMAIN r2 /\ Range0(k) = Range0(l)
        BY <2>3, Zenon
      <4>2. QED  BY <4>1, <2>5, <3>1, <1>9
    <3>3. Stream0(k, i) = i /\ Stream0(l, j) = j
      BY <2>5, <3>1, <1>11, Zenon
    <3>4. i = j
      BY <2>3, <3>3, Zenon
    <3>5. QED  BY <3>2, <3>4
  <2>6. QED  BY <2>4, <2>5
<1>14. ASSUME NEW s \in Nat, Waits(r2, s)
       PROVE  Waits(r, s)
  <2>1. PICK k \in DOMAIN r2 : \E i \in DOMAIN r2[k].streams : Earlier(r2[k].streams[i], s)
    BY <1>14, Zenon DEF Waits
  <2>2. PICK i \in DOMAIN r2[k].streams : Earlier(r2[k].streams[i], s)
    BY <2>1
  <2>3. /\ Range0(k) \in DOMAIN r /\ Stream0(k, i) \in DOMAIN r[Range0(k)].streams
        /\ Earlier(r[Range0(k)].streams[Stream0(k, i)], s)
    BY <2>2, <1>8, Zenon
  <2>4. QED  BY <2>3, Zenon DEF Waits
<1>15. QED  BY <1>12, <1>13, <1>14, Zenon

(* EndRange: the same rows are left.                                       *)
HasEnded(x) == ~ \A i \in DOMAIN x.streams : x.streams[i].at < x.streams[i].end

Ends(p, r, r2) == r2 = Remains(p, Head(r)) \o Tail(r)

LEMMA EndStep ==
  ASSUME NEW p \in Programs, NEW f, FileOK(f), NEW r, NEW c \in Nat,
         Reading(f, r, <<>>, c), r # <<>>,
         HasEnded(r[1]), NEW r2, Ends(p, r, r2)
  PROVE  /\ Reading(f, r2, <<>>, c)
         /\ \A s \in DOMAIN f.rows : Waits(r2, s) <=> Waits(r, s)
<1>a. PICK x : x = r[1]
  OBVIOUS
<1>b. PICK ll : ll = Remains(p, x)
  OBVIOUS
<1>1. r \in Seq(Work) /\ Sound(f, r, f.body, c) /\ Apart(r)
  BY Zenon DEF Reading
<1>2. /\ 1 \in DOMAIN r /\ x \in Work /\ x.streams \in Seq(Span)
      /\ DOMAIN r = 1..Len(r) /\ Len(r) \in Nat /\ Len(r) > 0
  <2>1. 1 \in DOMAIN r /\ DOMAIN r = 1..Len(r) /\ Len(r) \in Nat /\ Len(r) > 0
    BY <1>1
  <2>2. r[1] \in Work /\ r[1].streams \in Seq(Span)
    BY <2>1, <1>1, WorkTypes
  <2>3. QED  BY <2>1, <2>2, <1>a, Zenon
<1>3. /\ ll \in Seq(Work)
      /\ \A k \in DOMAIN ll : /\ k \in DOMAIN x.streams /\ DOMAIN ll[k].streams = {1}
                              /\ ll[k].streams[1] = x.streams[k]
      /\ Len(x.streams) # 1 => DOMAIN ll = DOMAIN x.streams
  <2>1. /\ Remains(p, x) \in Seq(Work)
        /\ \A k \in DOMAIN Remains(p, x) :
              /\ k \in DOMAIN x.streams /\ DOMAIN Remains(p, x)[k].streams = {1}
              /\ Remains(p, x)[k].streams[1] = x.streams[k]
        /\ Len(x.streams) # 1 => DOMAIN Remains(p, x) = DOMAIN x.streams
    BY <1>2, RemainsFacts
  <2>2. QED  BY <2>1, <1>b, Zenon
<1>4. PICK n \in Nat : n = Len(ll) /\ DOMAIN ll = 1..n
  BY <1>3
<1>c. PICK tl : tl = Tail(r)
  OBVIOUS
<1>5. /\ Head(r) = x /\ tl \in Seq(Work) /\ Len(tl) = Len(r) - 1
      /\ \A i \in 1..(Len(r) - 1) : tl[i] = r[i + 1]
  <2>1. /\ Tail(r) \in Seq(Work) /\ Len(Tail(r)) = Len(r) - 1
        /\ \A i \in 1..Len(Tail(r)) : Tail(r)[i] = r[i + 1]
    BY <1>1, HeadTailProperties
  <2>2. Head(r) = r[1]
    BY <1>1
  <2>3. QED  BY <2>1, <2>2, <1>a, <1>c, Zenon
<1>6. /\ r2 \in Seq(Work) /\ DOMAIN r2 = 1..(n + Len(r) - 1)
      /\ \A k \in DOMAIN ll : k \in DOMAIN r2 /\ r2[k] = ll[k]
      /\ \A k \in DOMAIN r2 : k \notin DOMAIN ll =>
           /\ k - n + 1 \in DOMAIN r /\ k - n + 1 > 1 /\ k \in Int
           /\ r2[k] = r[k - n + 1]
  <2>1. r2 = ll \o tl
    BY <1>5, <1>b, <1>c, Zenon DEF Ends
  <2>2. /\ r2 \in Seq(Work) /\ Len(r2) = n + (Len(r) - 1)
        /\ \A i \in 1..(n + (Len(r) - 1)) : r2[i] = IF i <= n THEN ll[i] ELSE tl[i - n]
    <3>1. /\ ll \o tl \in Seq(Work) /\ Len(ll \o tl) = Len(ll) + Len(tl)
          /\ \A i \in 1..(Len(ll) + Len(tl)) : (ll \o tl)[i] = IF i <= Len(ll) THEN ll[i] ELSE tl[i - Len(ll)]
      <4>1. ll \in Seq(Work) /\ tl \in Seq(Work)
        BY <1>3, <1>5, Zenon
      <4>2. QED  BY <4>1, ConcatProperties
    <3>2. QED  BY <3>1, <2>1, <1>4, <1>5, Zenon
  <2>3. DOMAIN r2 = 1..(n + Len(r) - 1)
    BY <2>2, <1>2
  <2>4. ASSUME NEW k \in DOMAIN ll
        PROVE  k \in DOMAIN r2 /\ r2[k] = ll[k]
    <3>1. k \in 1..(n + (Len(r) - 1)) /\ k <= n /\ k \in DOMAIN r2
      BY <2>3, <1>2, <1>4
    <3>2. QED  BY <3>1, <2>2, Zenon
  <2>5. ASSUME NEW k \in DOMAIN r2, k \notin DOMAIN ll
        PROVE  k - n + 1 \in DOMAIN r /\ k - n + 1 > 1 /\ k \in Int /\ r2[k] = r[k - n + 1]
    <3>1. /\ k \in 1..(n + (Len(r) - 1)) /\ ~ (k <= n) /\ k \in Int
          /\ k - n \in 1..(Len(r) - 1) /\ (k - n) + 1 = k - n + 1
          /\ k - n + 1 > 1 /\ k - n + 1 \in DOMAIN r
      BY <2>3, <2>5, <1>2, <1>4
    <3>2. r2[k] = tl[k - n]
      BY <3>1, <2>2, Zenon
    <3>3. tl[k - n] = r[k - n + 1]
      BY <3>1, <1>5, Zenon
    <3>4. QED  BY <3>1, <3>2, <3>3, Zenon
  <2>6. QED  BY <2>2, <2>3, <2>4, <2>5, Zenon
<1>7. \A k \in DOMAIN r : k # 1 => \E m \in DOMAIN r2 : r2[m] = r[k]
  <2> TAKE k \in DOMAIN r
  <2>1. CASE k # 1
    <3>1. PICK m \in Int : m = k + n - 1 /\ m \in DOMAIN r2 /\ m \notin DOMAIN ll /\ m - n + 1 = k
      <4> PICK w \in Nat : w = Len(r)
        BY <1>2
      <4>1. k \in Int /\ 2 <= k /\ k <= w
        BY <2>1, <1>2
      <4>2. PICK m \in Int : m = k + n - 1
        BY <4>1
      <4>6. m - n + 1 = k /\ m \in 1..(n + w - 1) /\ m \notin 1..n
        BY <4>1, <4>2
      <4>3. m - n + 1 = k /\ m \in 1..(n + Len(r) - 1) /\ m \notin 1..n
        BY <4>6, Zenon
      <4>4. m \in DOMAIN r2 /\ m \notin DOMAIN ll
        BY <4>3, <1>4, <1>6, Zenon
      <4>5. QED  BY <4>2, <4>3, <4>4
    <3>2. QED  BY <3>1, <1>6, Zenon
  <2>2. QED  BY <2>1
<1>8. /\ Sound(f, r2, f.body, c) /\ Apart(r2)
      /\ \A s \in Nat : Waits(r2, s) => Waits(r, s)
  <2>1. /\ 1 \in DOMAIN r
        /\ \A k \in DOMAIN ll : /\ k \in DOMAIN r[1].streams /\ DOMAIN ll[k].streams = {1}
                                /\ ll[k].streams[1] = r[1].streams[k]
    BY <1>2, <1>3, <1>a, Zenon
  <2>2. \A k \in DOMAIN r2 : k \in DOMAIN ll => r2[k] = ll[k]
    BY <1>6, Zenon
  <2>3. \A k \in DOMAIN r2 : k \notin DOMAIN ll =>
          /\ k - n + 1 \in DOMAIN r /\ k - n + 1 > 1 /\ k \in Int
          /\ r2[k] = r[k - n + 1]
    BY <1>6, Zenon
  <2>4. GoesOn(r, r2, ll, n)
    BY <2>1, <2>2, <2>3, Zenon DEF GoesOn
  <2>5. Apart(r) /\ Sound(f, r, f.body, c) /\ n \in Nat
    BY <1>1
  <2>6. Sound(f, r2, f.body, c) /\ Apart(r2)
    BY <2>4, <2>5, Rearranged
  <2>7. \A s \in Nat : Waits(r2, s) => Waits(r, s)
    BY <2>4, <2>5, Rearranged
  <2>8. QED  BY <2>6, <2>7
<1>14. Reading(f, r2, <<>>, c)
  <2>1. <<>> \in Seq(Nat) /\ DOMAIN <<>> = {}
    OBVIOUS
  <2>2. QED  BY <1>6, <1>8, <2>1, Zenon DEF Reading
<1>16. ASSUME NEW s \in Nat, Waits(r, s)
       PROVE  Waits(r2, s)
  <2>1. PICK k \in DOMAIN r : \E i \in DOMAIN r[k].streams : Earlier(r[k].streams[i], s)
    BY <1>16, Zenon DEF Waits
  <2>2. PICK i \in DOMAIN r[k].streams : Earlier(r[k].streams[i], s)
    BY <2>1
  <2>3. CASE k # 1
    <3>1. PICK m \in DOMAIN r2 : r2[m] = r[k]
      BY <2>3, <1>7
    <3>2. QED  BY <3>1, <2>2, Zenon DEF Waits
  <2>4. CASE k = 1
    <3>1. i \in DOMAIN x.streams /\ Earlier(x.streams[i], s)
      BY <2>2, <2>4, <1>a, Zenon
    <3>2. Len(x.streams) # 1
      <4>1. ASSUME Len(x.streams) = 1
            PROVE  FALSE
        <5>1. DOMAIN x.streams = {1}
          BY <4>1, <1>2
        <5>2. ~ (x.streams[1].at < x.streams[1].end)
          BY <5>1, <1>a, Zenon DEF HasEnded
        <5>3. x.streams[1] \in Span
          BY <5>1, <1>2
        <5>4. x.streams[1].at \in Nat /\ x.streams[1].end \in Nat
          BY <5>3 DEF Span
        <5>5. x.streams[1].at <= s /\ s < x.streams[1].end
          BY <3>1, <5>1, Zenon DEF Earlier
        <5>6. s \in Nat
          BY <1>16
        <5>7. QED  BY <5>2, <5>4, <5>5, <5>6
      <4>2. QED  BY <4>1
    <3>3. i \in DOMAIN ll /\ ll[i].streams[1] = x.streams[i] /\ DOMAIN ll[i].streams = {1}
      BY <3>1, <3>2, <1>3, Zenon
    <3>4. i \in DOMAIN r2 /\ r2[i].streams[1] = x.streams[i] /\ 1 \in DOMAIN r2[i].streams
      BY <3>3, <1>6, Zenon
    <3>5. QED  BY <3>1, <3>4, Zenon DEF Waits
  <2>5. QED  BY <2>3, <2>4
<1>17. \A s \in DOMAIN f.rows : s \in Nat
  BY NextRow
<1>18. QED  BY <1>8, <1>14, <1>16, <1>17, Zenon
---------------------------------------------------------------------------
(* Where the shares of the first i of n threads end.                       *)
ShareStart(f, tl, i, n) == IF i = 0 THEN f.body ELSE PartEnd(f, f.body, tl, i - 1, n)

(* How far the file is given out: the rows before it are counted, or wait. *)
Reach(q, c, at) == IF q \in {"buffer", "done"} THEN at ELSE c

(* The inductive invariant.  StateInv says where the program is, and the   *)
(* other parts what that means for the shares, the tail and the counts.    *)
StateInv ==
  /\ program \in Programs /\ FileOK(file)
  /\ threads \in Nat /\ threads > 0 /\ t \in Nat /\ t <= threads
  /\ pc \in {"tail", "share", "work", "buffer", "done"}
  /\ cursor \in Nat /\ bp \in Nat
  /\ pc = "tail" => t = 0 /\ cursor = 0
  /\ pc # "work" => ranges = <<>>

ShareInv ==
  pc # "tail" => TailRight(program, file, tail) /\ cursor = ShareStart(file, tail, t, threads)

BufferInv ==
  /\ pc \in {"buffer", "done"} => tail <= bp /\ bp <= file.size /\ LineStart(file, bp)
  /\ pc = "buffer" /\ program.tail = "last line" => bp = tail
  /\ pc = "done" => bp = file.size

RowsInv ==
  /\ Reading(file, ranges, batch, cursor)
  /\ Counted(file, ranges, batch, Reach(pc, cursor, bp), taken)

CutsInv == StateInv /\ ShareInv /\ BufferInv /\ RowsInv

LEMMA ShareStartFacts ==
  ASSUME NEW f, FileOK(f), NEW tl \in Nat, f.body <= tl, tl <= f.size, LineStart(f, tl),
         NEW n \in Nat, NEW i \in Nat, n > 0, i <= n
  PROVE  /\ ShareStart(f, tl, i, n) \in Nat
         /\ f.body <= ShareStart(f, tl, i, n) /\ ShareStart(f, tl, i, n) <= tl
         /\ LineStart(f, ShareStart(f, tl, i, n))
         /\ i = n => ShareStart(f, tl, i, n) = tl
         /\ i < n => /\ ShareStart(f, tl, i + 1, n) = PartEnd(f, f.body, tl, i, n)
                     /\ ShareStart(f, tl, i, n) <= ShareStart(f, tl, i + 1, n)
<1>1. f.body \in Nat /\ f.size \in Nat /\ f.body <= f.size /\ LineStart(f, f.body)
  BY BodyStartsRow
<1>2. i < n => ShareStart(f, tl, i + 1, n) = PartEnd(f, f.body, tl, i, n)
  <2>1. i + 1 # 0 /\ (i + 1) - 1 = i
    OBVIOUS
  <2>2. QED  BY <2>1, Zenon DEF ShareStart
<1>3. CASE i = 0
  <2>1. ShareStart(f, tl, i, n) = f.body
    BY <1>3, Zenon DEF ShareStart
  <2>2. f.body <= PartEnd(f, f.body, tl, i, n)
    BY <1>1, <1>3, PartEndFacts
  <2>3. i # n /\ i < n
    BY <1>3
  <2>4. QED  BY <1>1, <1>2, <2>1, <2>2, <2>3
<1>4. CASE i # 0
  <2>1. PICK j \in Nat : j = i - 1 /\ i = j + 1 /\ j < n
    BY <1>4
  <2>2. ShareStart(f, tl, i, n) = PartEnd(f, f.body, tl, j, n)
    BY <1>4, <2>1, Zenon DEF ShareStart
  <2>3. /\ PartEnd(f, f.body, tl, j, n) \in Nat
        /\ f.body <= PartEnd(f, f.body, tl, j, n) /\ PartEnd(f, f.body, tl, j, n) <= tl
        /\ LineStart(f, PartEnd(f, f.body, tl, j, n))
        /\ j = n - 1 => PartEnd(f, f.body, tl, j, n) = tl
        /\ j + 1 < n => PartEnd(f, f.body, tl, j, n) <= PartEnd(f, f.body, tl, j + 1, n)
    BY <1>1, <2>1, PartEndFacts
  <2>4. i < n => PartEnd(f, f.body, tl, j, n) <= PartEnd(f, f.body, tl, i, n)
    BY <2>1, <2>3, Zenon
  <2>5. i = n => j = n - 1
    BY <2>1
  <2>6. QED  BY <1>2, <2>2, <2>3, <2>4, <2>5, Zenon
<1>5. QED  BY <1>3, <1>4

(* Nothing is read, whatever has been given out.                           *)
LEMMA NothingRead ==
  ASSUME NEW f, NEW c
  PROVE  Reading(f, <<>>, <<>>, c) /\ \A s : ~ Waits(<<>>, s) /\ ~ Listed(<<>>, s)
<1>1. <<>> \in Seq(Work) /\ <<>> \in Seq(Nat) /\ DOMAIN <<>> = {}
  OBVIOUS
<1>2. Sound(f, <<>>, f.body, c) /\ Apart(<<>>)
  BY <1>1, Zenon DEF Sound, Apart
<1>3. \A s : ~ Waits(<<>>, s) /\ ~ Listed(<<>>, s)
  BY <1>1, Zenon DEF Waits, Listed
<1>4. QED  BY <1>1, <1>2, <1>3, Zenon DEF Reading

(* Nothing is counted before the first share is given out.                 *)
LEMMA NothingCounted ==
  ASSUME NEW f, FileOK(f), NEW c \in Nat, c <= f.body, NEW k
  PROVE  Counted(f, <<>>, <<>>, c, k) <=> k = [s \in DOMAIN f.rows |-> 0]
<1>1. \A s \in DOMAIN f.rows : ~ (s < c)
  <2>1. f.body \in Nat
    BY DEF FileOK
  <2>2. \A s \in DOMAIN f.rows : s \in Nat /\ f.body <= s
    BY NextRow
  <2>3. QED  BY <2>1, <2>2
<1>2. ASSUME Counted(f, <<>>, <<>>, c, k)
      PROVE  k = [s \in DOMAIN f.rows |-> 0]
  <2>1. k \in [DOMAIN f.rows -> Nat] /\ \A s \in DOMAIN f.rows : k[s] = 0
    BY <1>1, <1>2, Zenon DEF Counted
  <2>2. QED  BY <2>1
<1>3. ASSUME k = [s \in DOMAIN f.rows |-> 0]
      PROVE  Counted(f, <<>>, <<>>, c, k)
  <2>1. k \in [DOMAIN f.rows -> Nat] /\ \A s \in DOMAIN f.rows : k[s] = 0
    BY <1>3
  <2>2. QED  BY <1>1, <2>1, Zenon DEF Counted
<1>4. QED  BY <1>2, <1>3

---------------------------------------------------------------------------
LEMMA InitCuts == Init => CutsInv
<1> SUFFICES ASSUME Init PROVE CutsInv
  OBVIOUS
<1>1. /\ program \in Programs /\ file \in Files /\ pc = "tail" /\ t = 0 /\ cursor = 0 /\ bp = 0
      /\ ranges = <<>> /\ batch = <<>> /\ taken = [s \in DOMAIN file.rows |-> 0]
  BY DEF Init
<1>2. FileOK(file)
  BY <1>1, CutsAssumption, Zenon
<1>3. threads \in Nat /\ threads > 0
  <2>1. PICK n \in Processors : threads = ThreadCount(program, n)
    BY DEF Init
  <2>2. n \in Nat
    BY <2>1, CutsAssumption, Zenon
  <2>3. PICK cap \in Nat, unknown \in Nat : /\ cap = program.cap /\ unknown = program.unknown
                                            /\ cap > 0 /\ unknown > 0
    BY <1>1, ProgramFacts, Zenon
  <2>4. threads = IF n = 0 THEN unknown ELSE IF n > cap THEN cap ELSE n
    BY <2>1, <2>3, Zenon DEF ThreadCount
  <2>5. QED  BY <2>2, <2>3, <2>4
<1>4. StateInv
  <2>1. 0 \in Nat /\ 0 <= threads
    BY <1>3
  <2>2. QED  BY <1>1, <1>2, <1>3, <2>1, Zenon DEF StateInv
<1>5. ShareInv /\ BufferInv
  BY <1>1 DEF ShareInv, BufferInv
<1>6. RowsInv
  <2>1. Reach(pc, cursor, bp) = 0
    BY <1>1, Zenon DEF Reach
  <2>2. 0 \in Nat /\ 0 <= file.body
    BY <1>2 DEF FileOK
  <2>3. Counted(file, <<>>, <<>>, 0, taken)
    BY <1>1, <1>2, <2>2, NothingCounted
  <2>4. Reading(file, <<>>, <<>>, cursor)
    BY NothingRead
  <2>5. QED  BY <1>1, <2>1, <2>3, <2>4, Zenon DEF RowsInv
<1>7. QED  BY <1>4, <1>5, <1>6 DEF CutsInv

(* main: the tail is chosen.                                               *)
LEMMA ChooseTailCuts ==
  ASSUME CutsInv, ChooseTail
  PROVE  CutsInv'
<1>1. /\ program' = program /\ file' = file /\ threads' = threads /\ t' = t
      /\ ranges' = ranges /\ batch' = batch /\ bp' = bp /\ taken' = taken
      /\ pc = "tail" /\ pc' = "share" /\ cursor' = file.body /\ tail' = TailOf(program, file)
  BY DEF ChooseTail, fixed
<1>2. /\ program \in Programs /\ FileOK(file) /\ threads \in Nat /\ threads > 0
      /\ t = 0 /\ cursor = 0 /\ bp \in Nat /\ ranges = <<>>
  BY <1>1, Zenon DEF CutsInv, StateInv
<1>3. file.body \in Nat
  BY <1>2 DEF FileOK
<1>4. StateInv'
  <2>1. 0 \in Nat /\ 0 <= threads
    BY <1>2
  <2>2. pc' # "tail" /\ pc' \in {"tail", "share", "work", "buffer", "done"}
    BY <1>1
  <2>3. QED  BY <1>1, <1>2, <1>3, <2>1, <2>2, Zenon DEF StateInv
<1>5. ShareInv'
  <2>1. TailRight(program, file, TailOf(program, file))
    BY <1>2, TailIsRight
  <2>2. cursor' = ShareStart(file', tail', t', threads')
    BY <1>1, <1>2, Zenon DEF ShareStart
  <2>3. TailRight(program', file', tail')
    BY <1>1, <2>1, Zenon
  <2>4. QED  BY <2>2, <2>3, Zenon DEF ShareInv
<1>6. BufferInv'
  BY <1>1 DEF BufferInv
<1>7. RowsInv'
  <2>1. batch = <<>> /\ Counted(file, <<>>, <<>>, 0, taken)
    <3>1. Reading(file, <<>>, batch, cursor) /\ Counted(file, <<>>, batch, Reach(pc, cursor, bp), taken)
      BY <1>2, Zenon DEF CutsInv, RowsInv
    <3>2. Reach(pc, cursor, bp) = 0
      BY <1>1, <1>2 DEF Reach
    <3>3. batch = <<>>
      BY <3>1, Zenon DEF Reading
    <3>4. QED  BY <3>1, <3>2, <3>3, Zenon
  <2>2. taken = [s \in DOMAIN file.rows |-> 0]
    BY <2>1, <1>2, <1>3, NothingCounted
  <2>3. Counted(file, <<>>, <<>>, file.body, taken)
    BY <2>2, <1>2, <1>3, NothingCounted
  <2>4. Reach(pc', cursor', bp') = file.body
    BY <1>1 DEF Reach
  <2>5. Reading(file, <<>>, <<>>, cursor')
    BY NothingRead
  <2>6. QED  BY <1>1, <1>2, <2>1, <2>3, <2>4, <2>5, Zenon DEF RowsInv
<1>8. QED  BY <1>4, <1>5, <1>6, <1>7, Zenon DEF CutsInv

(* main: the next thread gets its share, which starts where the last ends. *)
LEMMA NextShareCuts ==
  ASSUME CutsInv, NextShare
  PROVE  CutsInv'
<1>1. /\ program' = program /\ file' = file /\ threads' = threads /\ tail' = tail
      /\ batch' = batch /\ bp' = bp /\ taken' = taken
      /\ pc = "share" /\ pc' = "work" /\ t < threads /\ t' = t + 1
      /\ cursor' = PartEnd(file, file.body, tail, t, threads)
      /\ ranges' = RangesOf(program, file, cursor, cursor')
  BY DEF NextShare, fixed
<1>2. /\ program \in Programs /\ FileOK(file) /\ threads \in Nat /\ threads > 0 /\ t \in Nat
      /\ bp \in Nat /\ ranges = <<>>
      /\ TailRight(program, file, tail) /\ cursor = ShareStart(file, tail, t, threads)
  BY <1>1 DEF CutsInv, StateInv, ShareInv
<1>3. /\ tail \in Nat /\ file.body <= tail /\ tail <= file.size /\ LineStart(file, tail)
      /\ file.body \in Nat /\ file.size \in Nat
  <2>1. tail \in Nat /\ file.body <= tail /\ tail <= file.size /\ LineStart(file, tail)
    BY <1>2, Zenon DEF TailRight
  <2>2. QED  BY <1>2, <2>1, BodyStartsRow, Zenon
<1>4. PICK c, c2 : c = cursor /\ c2 = cursor'
  OBVIOUS
<1>5. PICK m : m = t + 1 /\ m \in Nat /\ m <= threads /\ m # 0
  BY <1>1, <1>2
<1>6. c2 = ShareStart(file, tail, m, threads)
  <2>1. ShareStart(file, tail, t + 1, threads) = PartEnd(file, file.body, tail, t, threads)
    BY <1>1, <1>2, <1>3, ShareStartFacts
  <2>2. QED  BY <2>1, <1>1, <1>4, <1>5, Zenon
<1>7. /\ c \in Nat /\ file.body <= c /\ LineStart(file, c) /\ c <= c2
  <2>1. /\ ShareStart(file, tail, t, threads) \in Nat
        /\ file.body <= ShareStart(file, tail, t, threads)
        /\ LineStart(file, ShareStart(file, tail, t, threads))
        /\ ShareStart(file, tail, t, threads) <= ShareStart(file, tail, t + 1, threads)
    BY <1>1, <1>2, <1>3, ShareStartFacts
  <2>2. QED  BY <2>1, <1>2, <1>4, <1>5, <1>6, Zenon
<1>8. c2 \in Nat /\ c2 <= tail /\ LineStart(file, c2)
  BY <1>2, <1>3, <1>5, <1>6, ShareStartFacts
<1>9. c2 <= file.size
  BY <1>3, <1>8
<1>10. StateInv'
  <2>1. pc' # "tail" /\ pc' = "work" /\ pc' \in {"tail", "share", "work", "buffer", "done"}
    BY <1>1
  <2>2. QED  BY <1>1, <1>2, <1>4, <1>5, <1>8, <2>1, Zenon DEF StateInv
<1>11. ShareInv'
  <2>1. cursor' = ShareStart(file', tail', t', threads')
    BY <1>1, <1>4, <1>5, <1>6, Zenon
  <2>2. TailRight(program', file', tail')
    BY <1>1, <1>2, Zenon
  <2>3. QED  BY <2>1, <2>2, Zenon DEF ShareInv
<1>12. BufferInv'
  BY <1>1 DEF BufferInv
<1>13. RowsInv'
  <2>1. batch = <<>> /\ Counted(file, <<>>, <<>>, c, taken)
    <3>1. Reading(file, <<>>, batch, cursor) /\ Counted(file, <<>>, batch, Reach(pc, cursor, bp), taken)
      BY <1>2, Zenon DEF CutsInv, RowsInv
    <3>2. Reach(pc, cursor, bp) = c
      BY <1>1, <1>4 DEF Reach
    <3>3. batch = <<>>
      BY <3>1, Zenon DEF Reading
    <3>4. QED  BY <3>1, <3>2, <3>3, Zenon
  <2>2. /\ Reading(file, RangesOf(program, file, c, c2), <<>>, c2)
        /\ Counted(file, RangesOf(program, file, c, c2), <<>>, c2, taken)
    BY <1>2, <1>7, <1>8, <1>9, <2>1, ShareStep
  <2>3. Reach(pc', cursor', bp') = c2
    BY <1>1, <1>4 DEF Reach
  <2>4. QED  BY <1>1, <1>4, <2>1, <2>2, <2>3, Zenon DEF RowsInv
<1>14. QED  BY <1>10, <1>11, <1>12, <1>13, Zenon DEF CutsInv

(* What holds of the shares once the tail is chosen.                       *)
LEMMA SharesFacts ==
  ASSUME CutsInv, pc # "tail"
  PROVE  /\ program \in Programs /\ FileOK(file) /\ TailRight(program, file, tail)
         /\ file.size \in Nat /\ tail \in Nat /\ tail <= file.size /\ LineStart(file, tail)
         /\ cursor \in Nat /\ cursor <= tail
         /\ t = threads => cursor = tail
<1>1. /\ program \in Programs /\ FileOK(file) /\ threads \in Nat /\ threads > 0
      /\ t \in Nat /\ t <= threads
  BY Zenon DEF CutsInv, StateInv
<1>2. TailRight(program, file, tail) /\ cursor = ShareStart(file, tail, t, threads)
  BY Zenon DEF CutsInv, ShareInv
<1>3. tail \in Nat /\ file.body <= tail /\ tail <= file.size /\ LineStart(file, tail)
  BY <1>2, Zenon DEF TailRight
<1>4. file.size \in Nat
  BY <1>1, BodyStartsRow, Zenon
<1>5. /\ ShareStart(file, tail, t, threads) \in Nat /\ ShareStart(file, tail, t, threads) <= tail
      /\ t = threads => ShareStart(file, tail, t, threads) = tail
  BY <1>1, <1>3, ShareStartFacts
<1>6. QED  BY <1>1, <1>2, <1>3, <1>4, <1>5, Zenon

(* What holds while a worker runs, and what its steps must keep.           *)
LEMMA WorkFacts ==
  ASSUME CutsInv, pc = "work"
  PROVE  /\ program \in Programs /\ FileOK(file) /\ cursor \in Nat /\ cursor <= file.size
         /\ Reading(file, ranges, batch, cursor)
         /\ Counted(file, ranges, batch, cursor, taken)
<1>1. pc # "tail" /\ Reach(pc, cursor, bp) = cursor
  BY DEF Reach
<1>2. /\ program \in Programs /\ FileOK(file) /\ cursor \in Nat /\ tail \in Nat /\ file.size \in Nat
      /\ cursor <= tail /\ tail <= file.size
  BY <1>1, SharesFacts
<1>3. cursor <= file.size
  BY <1>2
<1>4. Reading(file, ranges, batch, cursor) /\ Counted(file, ranges, batch, Reach(pc, cursor, bp), taken)
  BY Zenon DEF CutsInv, RowsInv
<1>5. QED  BY <1>1, <1>2, <1>3, <1>4, Zenon

LEMMA WorkKeeps ==
  ASSUME CutsInv, pc = "work", program' = program, file' = file, threads' = threads, pc' = pc,
         tail' = tail, t' = t, cursor' = cursor, bp' = bp,
         Reading(file, ranges', batch', cursor), Counted(file, ranges', batch', cursor, taken')
  PROVE  CutsInv'
<1>1. pc' = "work"
  OBVIOUS
<1>2. pc' # "tail" /\ pc' \in {"tail", "share", "work", "buffer", "done"}
  BY <1>1
<1>3. StateInv'
  <2>1. /\ program \in Programs /\ FileOK(file) /\ threads \in Nat /\ threads > 0
        /\ t \in Nat /\ t <= threads /\ cursor \in Nat /\ bp \in Nat
    BY Zenon DEF CutsInv, StateInv
  <2>2. /\ program' \in Programs /\ FileOK(file') /\ threads' \in Nat /\ threads' > 0
        /\ t' \in Nat /\ t' <= threads' /\ cursor' \in Nat /\ bp' \in Nat
    BY <2>1, Zenon
  <2>3. QED  BY <1>1, <1>2, <2>2, Zenon DEF StateInv
<1>4. ShareInv'
  <2>1. pc # "tail"
    BY <1>2
  <2>2. TailRight(program, file, tail) /\ cursor = ShareStart(file, tail, t, threads)
    BY <2>1, Zenon DEF CutsInv, ShareInv
  <2>3. TailRight(program', file', tail') /\ cursor' = ShareStart(file', tail', t', threads')
    BY <2>2, Zenon
  <2>4. QED  BY <2>3, Zenon DEF ShareInv
<1>5. BufferInv'
  BY <1>1 DEF BufferInv
<1>6. RowsInv'
  <2>1. Reach(pc', cursor', bp') = cursor
    BY <1>1 DEF Reach
  <2>2. QED  BY <2>1, Zenon DEF RowsInv
<1>7. QED  BY <1>3, <1>4, <1>5, <1>6, Zenon DEF CutsInv

(* A worker reads a row from every position.                               *)
LEMMA ReadRowsCuts ==
  ASSUME CutsInv, ReadRows
  PROVE  CutsInv'
<1>1. /\ pc = "work" /\ ranges # <<>>
      /\ program' = program /\ file' = file /\ threads' = threads /\ pc' = pc /\ tail' = tail
      /\ t' = t /\ cursor' = cursor /\ taken' = taken /\ bp' = bp
  BY DEF ReadRows, fixed
<1>2. \A i \in DOMAIN ranges[1].streams : ranges[1].streams[i].at < ranges[1].streams[i].end
  BY DEF ReadRows, Streaming
<1>3. PICK r, b, r2, b2, c, f : r = ranges /\ b = batch /\ r2 = ranges' /\ b2 = batch' /\ c = cursor /\ f = file
  OBVIOUS
<1>4. Reads(f, r, b, r2, b2)
  BY <1>3 DEF ReadRows, Reads
<1>5. /\ FileOK(f) /\ c \in Nat /\ c <= f.size
      /\ Reading(f, r, b, c) /\ Counted(f, r, b, c, taken)
  BY <1>1, <1>3, WorkFacts, Zenon
<1>6. r # <<>> /\ \A i \in DOMAIN r[1].streams : r[1].streams[i].at < r[1].streams[i].end
  BY <1>1, <1>2, <1>3, Zenon
<1>7. /\ Reading(f, r2, b2, c)
      /\ \A s \in DOMAIN f.rows : Waits(r2, s) \/ Listed(b2, s) <=> Waits(r, s) \/ Listed(b, s)
  BY <1>4, <1>5, <1>6, ReadStep, Zenon
<1>8. Counted(f, r2, b2, c, taken)
  BY <1>5, <1>7, SameCounts, Zenon
<1>9. /\ Reading(file, ranges', batch', cursor)
      /\ Counted(file, ranges', batch', cursor, taken')
  BY <1>1, <1>3, <1>7, <1>8, Zenon
<1>10. QED  BY <1>1, <1>9, WorkKeeps, Zenon

(* A worker counts its batch.                                              *)
LEMMA CountBatchCuts ==
  ASSUME CutsInv, CountBatch
  PROVE  CutsInv'
<1>1. /\ pc = "work"
      /\ program' = program /\ file' = file /\ threads' = threads /\ pc' = pc /\ tail' = tail
      /\ t' = t /\ cursor' = cursor /\ ranges' = ranges /\ batch' = <<>> /\ bp' = bp
  BY DEF CountBatch, fixed
<1>2. PICK r, b, k, k2, c, f : r = ranges /\ b = batch /\ k = taken /\ k2 = taken' /\ c = cursor /\ f = file
  OBVIOUS
<1>3. k2 = [s \in DOMAIN k |-> k[s] + Cardinality({n \in DOMAIN b : b[n] = s})]
  BY <1>2 DEF CountBatch
<1>4. FileOK(f) /\ c \in Nat /\ Reading(f, r, b, c) /\ Counted(f, r, b, c, k)
  BY <1>1, <1>2, WorkFacts, Zenon
<1>5. Reading(f, r, <<>>, c) /\ Counted(f, r, <<>>, c, k2)
  BY <1>3, <1>4, CountStep, Zenon
<1>6. /\ Reading(file, ranges', batch', cursor)
      /\ Counted(file, ranges', batch', cursor, taken')
  BY <1>1, <1>2, <1>5, Zenon
<1>7. QED  BY <1>1, <1>6, WorkKeeps, Zenon

(* A worker leaves a range when one of its positions is at its end.        *)
LEMMA EndRangeCuts ==
  ASSUME CutsInv, EndRange
  PROVE  CutsInv'
<1>1. /\ pc = "work" /\ ranges # <<>> /\ batch = <<>>
      /\ program' = program /\ file' = file /\ threads' = threads /\ pc' = pc /\ tail' = tail
      /\ t' = t /\ cursor' = cursor /\ batch' = <<>> /\ bp' = bp /\ taken' = taken
  BY DEF EndRange, fixed
<1>2. HasEnded(ranges[1])
  BY DEF EndRange, Streaming, HasEnded
<1>3. PICK p, r, r2, c, f : p = program /\ r = ranges /\ r2 = ranges' /\ c = cursor /\ f = file
  OBVIOUS
<1>4. Ends(p, r, r2)
  <2>1. ranges' = LeftOver(Head(ranges)) \o Tail(ranges)
    BY DEF EndRange
  <2>2. LeftOver(Head(ranges)) = Remains(program, Head(ranges))
    BY Zenon DEF LeftOver, Remains
  <2>3. QED  BY <1>3, <2>1, <2>2, Zenon DEF Ends
<1>5. /\ p \in Programs /\ FileOK(f) /\ c \in Nat
      /\ Reading(f, r, <<>>, c) /\ Counted(f, r, <<>>, c, taken)
  BY <1>1, <1>3, WorkFacts, Zenon
<1>6. r # <<>> /\ HasEnded(r[1])
  BY <1>1, <1>2, <1>3, Zenon
<1>7. /\ Reading(f, r2, <<>>, c)
      /\ \A s \in DOMAIN f.rows : Waits(r2, s) <=> Waits(r, s)
  BY <1>4, <1>5, <1>6, EndStep, Zenon
<1>8. Counted(f, r2, <<>>, c, taken)
  BY <1>5, <1>7, SameCounts, Zenon
<1>9. /\ Reading(file, ranges', batch', cursor)
      /\ Counted(file, ranges', batch', cursor, taken')
  BY <1>1, <1>3, <1>7, <1>8, Zenon
<1>10. QED  BY <1>1, <1>9, WorkKeeps, Zenon

(* A step that leaves the shares, what is read of them and the counts.     *)
LEMMA MoveKeeps ==
  ASSUME CutsInv, pc # "tail", ranges = <<>>,
         program' = program, file' = file, threads' = threads, tail' = tail, t' = t,
         cursor' = cursor, ranges' = ranges, batch' = batch, taken' = taken,
         pc' \in {"share", "buffer", "done"}, bp' \in Nat,
         BufferInv', Reach(pc', cursor', bp') = Reach(pc, cursor, bp)
  PROVE  CutsInv'
<1>1. pc' # "tail" /\ pc' \in {"tail", "share", "work", "buffer", "done"}
  OBVIOUS
<1>2. StateInv'
  <2>1. /\ program \in Programs /\ FileOK(file) /\ threads \in Nat /\ threads > 0
        /\ t \in Nat /\ t <= threads /\ cursor \in Nat
    BY Zenon DEF CutsInv, StateInv
  <2>2. /\ program' \in Programs /\ FileOK(file') /\ threads' \in Nat /\ threads' > 0
        /\ t' \in Nat /\ t' <= threads' /\ cursor' \in Nat /\ ranges' = <<>>
    BY <2>1, Zenon
  <2>3. QED  BY <1>1, <2>2, Zenon DEF StateInv
<1>3. ShareInv'
  <2>1. TailRight(program, file, tail) /\ cursor = ShareStart(file, tail, t, threads)
    BY Zenon DEF CutsInv, ShareInv
  <2>2. TailRight(program', file', tail') /\ cursor' = ShareStart(file', tail', t', threads')
    BY <2>1, Zenon
  <2>3. QED  BY <2>2, Zenon DEF ShareInv
<1>4. RowsInv'
  <2>1. Reading(file, ranges, batch, cursor) /\ Counted(file, ranges, batch, Reach(pc, cursor, bp), taken)
    BY Zenon DEF CutsInv, RowsInv
  <2>2. /\ Reading(file', ranges', batch', cursor')
        /\ Counted(file', ranges', batch', Reach(pc', cursor', bp'), taken')
    BY <2>1, Zenon
  <2>3. QED  BY <2>2, Zenon DEF RowsInv
<1>5. QED  BY <1>2, <1>3, <1>4, Zenon DEF CutsInv

LEMMA EndWorkerCuts ==
  ASSUME CutsInv, EndWorker
  PROVE  CutsInv'
<1>1. /\ program' = program /\ file' = file /\ threads' = threads /\ tail' = tail /\ t' = t
      /\ cursor' = cursor /\ ranges' = ranges /\ batch' = batch /\ bp' = bp /\ taken' = taken
      /\ pc = "work" /\ ranges = <<>> /\ pc' = "share"
  BY DEF EndWorker, fixed
<1>2. BufferInv'
  BY <1>1 DEF BufferInv
<1>3. pc # "tail" /\ pc' \in {"share", "buffer", "done"}
  BY <1>1
<1>4. Reach(pc', cursor', bp') = Reach(pc, cursor, bp)
  BY <1>1 DEF Reach
<1>5. bp' \in Nat
  BY <1>1, Zenon DEF CutsInv, StateInv
<1>6. QED  BY <1>1, <1>2, <1>3, <1>4, <1>5, MoveKeeps, Zenon

(* main has joined every thread: the shares end where the tail starts.     *)
LEMMA JoinedCuts ==
  ASSUME CutsInv, Joined
  PROVE  CutsInv'
<1>1. /\ program' = program /\ file' = file /\ threads' = threads /\ tail' = tail /\ t' = t
      /\ cursor' = cursor /\ ranges' = ranges /\ batch' = batch /\ bp' = tail /\ taken' = taken
      /\ pc = "share" /\ t = threads /\ pc' = "buffer"
  BY DEF Joined, fixed
<1>2. pc # "tail" /\ pc # "work" /\ pc' \in {"share", "buffer", "done"} /\ pc' # "done"
  BY <1>1
<1>3. ranges = <<>>
  BY <1>2, Zenon DEF CutsInv, StateInv
<1>4. /\ tail \in Nat /\ tail <= file.size /\ LineStart(file, tail) /\ cursor = tail
  BY <1>1, <1>2, SharesFacts, Zenon
<1>5. tail <= tail
  BY <1>4
<1>6. BufferInv'
  BY <1>1, <1>2, <1>4, <1>5, Zenon DEF BufferInv
<1>7. Reach(pc', cursor', bp') = Reach(pc, cursor, bp)
  <2>1. pc' \in {"buffer", "done"} /\ pc \notin {"buffer", "done"}
    BY <1>1
  <2>2. QED  BY <1>1, <1>4, <2>1, Zenon DEF Reach
<1>8. QED  BY <1>1, <1>2, <1>3, <1>4, <1>6, <1>7, MoveKeeps, Zenon

(* main has no row left in the buffer: the file is counted.                *)
LEMMA BufferDoneCuts ==
  ASSUME CutsInv, BufferDone
  PROVE  CutsInv'
<1>1. /\ program' = program /\ file' = file /\ threads' = threads /\ tail' = tail /\ t' = t
      /\ cursor' = cursor /\ ranges' = ranges /\ batch' = batch /\ bp' = bp /\ taken' = taken
      /\ pc = "buffer" /\ ~ (bp < file.size) /\ pc' = "done"
  BY DEF BufferDone, fixed
<1>2. /\ pc # "tail" /\ pc # "work" /\ pc' \in {"share", "buffer", "done"} /\ pc' # "buffer"
      /\ pc \in {"buffer", "done"} /\ pc' \in {"buffer", "done"}
  BY <1>1
<1>3. ranges = <<>> /\ bp \in Nat
  BY <1>2, Zenon DEF CutsInv, StateInv
<1>4. file.size \in Nat
  BY <1>2, SharesFacts, Zenon
<1>5. tail <= bp /\ bp <= file.size /\ LineStart(file, bp)
  BY <1>2, Zenon DEF CutsInv, BufferInv
<1>6. bp = file.size
  BY <1>1, <1>3, <1>4, <1>5
<1>7. BufferInv'
  BY <1>1, <1>2, <1>5, <1>6, Zenon DEF BufferInv
<1>8. Reach(pc', cursor', bp') = Reach(pc, cursor, bp)
  BY <1>1, <1>2, Zenon DEF Reach
<1>9. QED  BY <1>1, <1>2, <1>3, <1>7, <1>8, MoveKeeps, Zenon

(* main counts a row of the buffer: the row at bp is the only one that is  *)
(* counted from there on.                                                  *)
LEMMA BufferCount ==
  ASSUME NEW f, FileOK(f), NEW at \in DOMAIN f.rows, NEW k, NEW k2,
         Counted(f, <<>>, <<>>, at, k), k2 = [k EXCEPT ![at] = @ + 1]
  PROVE  Counted(f, <<>>, <<>>, RowEnd(f, at), k2)
<1>1. k \in [DOMAIN f.rows -> Nat]
  BY DEF Counted
<1>2. \A s \in DOMAIN f.rows : k[s] = IF s < at THEN 1 ELSE 0
  BY NothingRead, Zenon DEF Counted
<1>3. /\ at \in Nat /\ RowEnd(f, at) \in Nat /\ at < RowEnd(f, at) /\ RowEnd(f, at) <= f.size
      /\ LineStart(f, RowEnd(f, at)) /\ f.size \in Nat
  BY NextRow, BodyStartsRow
<1>4. \A s \in DOMAIN f.rows : s \in Nat /\ (s < RowEnd(f, at) => s <= at)
  <2>1. LineStart(f, at)
    BY DEF LineStart
  <2>2. \A s \in DOMAIN f.rows : s < RowEnd(f, at) => s <= at
    BY <1>3, <2>1, RowBelow
  <2>3. \A s \in DOMAIN f.rows : s \in Nat
    BY NextRow
  <2>4. QED  BY <2>2, <2>3
<1>5. k2 \in [DOMAIN f.rows -> Nat]
  <2>1. k[at] + 1 \in Nat
    BY <1>1
  <2>2. QED  BY <1>1, <2>1
<1>6. \A s \in DOMAIN f.rows : k2[s] = IF s < RowEnd(f, at) THEN 1 ELSE 0
  <2> TAKE s \in DOMAIN f.rows
  <2>1. PICK e \in Nat : e = RowEnd(f, at)
    BY <1>3
  <2>2. s \in Nat /\ at \in Nat /\ at < e /\ (s < e => s <= at)
    BY <1>3, <1>4, <2>1, Zenon
  <2>3. k2[s] = IF s = at THEN k[s] + 1 ELSE k[s]
    BY <1>1
  <2>4. k[s] = IF s < at THEN 1 ELSE 0
    BY <1>2
  <2>5. k2[s] = IF s < e THEN 1 ELSE 0
    <3>1. CASE s = at
      <4>1. k[s] = 0 /\ s < e
        BY <2>2, <2>4, <3>1
      <4>2. QED  BY <2>3, <3>1, <4>1
    <3>2. CASE s # at
      <4>1. s < e <=> s < at
        BY <2>2, <3>2
      <4>2. QED  BY <2>3, <2>4, <3>2, <4>1, Zenon
    <3>3. QED  BY <3>1, <3>2
  <2>6. QED  BY <2>1, <2>5, Zenon
<1>7. QED  BY <1>5, <1>6, NothingRead, Zenon DEF Counted

LEMMA BufferRowCuts ==
  ASSUME CutsInv, BufferRow
  PROVE  CutsInv'
<1>1. /\ program' = program /\ file' = file /\ threads' = threads /\ tail' = tail /\ t' = t
      /\ cursor' = cursor /\ ranges' = ranges /\ batch' = batch
      /\ pc = "buffer" /\ bp < file.size /\ bp' = RowEnd(file, bp)
      /\ taken' = [taken EXCEPT ![bp] = @ + 1]
      /\ pc' = (IF program.tail = "last line" THEN "done" ELSE "buffer")
  BY Zenon DEF BufferRow, fixed
<1>2. /\ pc # "tail" /\ pc # "work" /\ pc' # "tail" /\ pc' # "work"
      /\ pc' \in {"tail", "share", "work", "buffer", "done"}
      /\ pc \in {"buffer", "done"} /\ pc' \in {"buffer", "done"}
  <2>1. pc = "buffer" /\ (pc' = "done" \/ pc' = "buffer")
    BY <1>1, Zenon
  <2>2. QED  BY <2>1
<1>3. /\ program \in Programs /\ FileOK(file) /\ threads \in Nat /\ threads > 0
      /\ t \in Nat /\ t <= threads /\ cursor \in Nat /\ ranges = <<>> /\ bp \in Nat
  BY <1>2, Zenon DEF CutsInv, StateInv
<1>4. /\ file.size \in Nat /\ tail \in Nat /\ TailRight(program, file, tail)
  BY <1>2, SharesFacts, Zenon
<1>5. /\ tail <= bp /\ LineStart(file, bp) /\ (program.tail = "last line" => bp = tail)
  BY <1>1, <1>2, Zenon DEF CutsInv, BufferInv
<1>6. PICK at \in Nat : at = bp
  BY <1>3
<1>7. /\ at \in DOMAIN file.rows /\ RowEnd(file, at) \in Nat /\ at < RowEnd(file, at)
      /\ RowEnd(file, at) <= file.size /\ LineStart(file, RowEnd(file, at))
  <2>1. at < file.size /\ LineStart(file, at)
    BY <1>1, <1>5, <1>6, Zenon
  <2>2. at \in DOMAIN file.rows
    BY <1>4, <2>1 DEF LineStart
  <2>3. QED  BY <1>3, <2>2, NextRow
<1>8. program.tail = "last line" => RowEnd(file, at) = file.size
  BY <1>1, <1>4, <1>5, <1>6, Zenon DEF TailRight
<1>9. StateInv'
  <2>1. /\ program' \in Programs /\ FileOK(file') /\ threads' \in Nat /\ threads' > 0
        /\ t' \in Nat /\ t' <= threads' /\ cursor' \in Nat /\ ranges' = <<>> /\ bp' \in Nat
    BY <1>1, <1>3, <1>6, <1>7, Zenon
  <2>2. QED  BY <1>2, <2>1, Zenon DEF StateInv
<1>10. ShareInv'
  <2>1. TailRight(program, file, tail) /\ cursor = ShareStart(file, tail, t, threads)
    BY <1>2, Zenon DEF CutsInv, ShareInv
  <2>2. TailRight(program', file', tail') /\ cursor' = ShareStart(file', tail', t', threads')
    BY <1>1, <2>1, Zenon
  <2>3. QED  BY <2>2, Zenon DEF ShareInv
<1>11. BufferInv'
  <2>1. tail <= RowEnd(file, at)
    <3>1. PICK e \in Nat : e = RowEnd(file, at) /\ at < e
      BY <1>7
    <3>2. tail <= at
      BY <1>5, <1>6, Zenon
    <3>3. tail <= e
      BY <1>4, <3>1, <3>2
    <3>4. QED  BY <3>1, <3>3
  <2>2. pc' = "buffer" => program.tail # "last line"
    BY <1>1, Zenon
  <2>3. pc' = "done" => program.tail = "last line"
    BY <1>1, Zenon
  <2>4. QED  BY <1>1, <1>6, <1>7, <1>8, <2>1, <2>2, <2>3, Zenon DEF BufferInv
<1>12. RowsInv'
  <2>1. batch = <<>> /\ Counted(file, <<>>, <<>>, at, taken)
    <3>1. Reading(file, <<>>, batch, cursor) /\ Counted(file, <<>>, batch, Reach(pc, cursor, bp), taken)
      BY <1>3, Zenon DEF CutsInv, RowsInv
    <3>2. Reach(pc, cursor, bp) = at
      BY <1>2, <1>6, Zenon DEF Reach
    <3>3. batch = <<>>
      BY <3>1, Zenon DEF Reading
    <3>4. QED  BY <3>1, <3>2, <3>3, Zenon
  <2>2. PICK k, k2 : k = taken /\ k2 = taken'
    OBVIOUS
  <2>3. k2 = [k EXCEPT ![at] = @ + 1]
    BY <1>1, <1>6, <2>2, Zenon
  <2>4. Counted(file, <<>>, <<>>, RowEnd(file, at), k2)
    <3>1. Counted(file, <<>>, <<>>, at, k)
      BY <2>1, <2>2, Zenon
    <3>2. QED  BY <1>3, <1>7, <2>3, <3>1, BufferCount, Zenon
  <2>5. Reach(pc', cursor', bp') = RowEnd(file, at)
    BY <1>1, <1>2, <1>6, Zenon DEF Reach
  <2>6. Reading(file, <<>>, <<>>, cursor)
    BY NothingRead
  <2>7. /\ Reading(file', ranges', batch', cursor')
        /\ Counted(file', ranges', batch', Reach(pc', cursor', bp'), taken')
    BY <1>1, <1>3, <2>1, <2>2, <2>4, <2>5, <2>6, Zenon
  <2>8. QED  BY <2>7, Zenon DEF RowsInv
<1>13. QED  BY <1>9, <1>10, <1>11, <1>12, Zenon DEF CutsInv

LEMMA NextCuts == CutsInv /\ [Next]_vars => CutsInv'
<1>1. ASSUME CutsInv, UNCHANGED vars
      PROVE  CutsInv'
  <2>1. /\ program' = program /\ file' = file /\ threads' = threads /\ pc' = pc
        /\ tail' = tail /\ t' = t /\ cursor' = cursor /\ ranges' = ranges /\ batch' = batch
        /\ bp' = bp /\ taken' = taken
    BY <1>1 DEF vars, fixed
  <2>2. StateInv' /\ ShareInv'
    BY <1>1, <2>1, Zenon DEF CutsInv, StateInv, ShareInv
  <2>3. BufferInv'
    BY <1>1, <2>1, Zenon DEF CutsInv, BufferInv
  <2>4. RowsInv'
    BY <1>1, <2>1, Zenon DEF CutsInv, RowsInv, Reach
  <2>5. QED  BY <2>2, <2>3, <2>4 DEF CutsInv
<1>2. QED
  BY <1>1, ChooseTailCuts, NextShareCuts, ReadRowsCuts, CountBatchCuts, EndRangeCuts,
     EndWorkerCuts, JoinedCuts, BufferRowCuts, BufferDoneCuts, Zenon DEF Next

LEMMA CutsInvHolds == Spec => []CutsInv
BY InitCuts, NextCuts, PTL DEF Spec

---------------------------------------------------------------------------
(* Every row is counted at most once, from whichever position it is read,  *)
(* and exactly once when main goes on to the output.                       *)
THEOREM OnceEachTheorem == Spec => []OnceEach
<1>1. CutsInv => OnceEach
  <2> SUFFICES ASSUME CutsInv PROVE OnceEach
    OBVIOUS
  <2>1. /\ FileOK(file) /\ (pc # "work" => ranges = <<>>)
        /\ Reading(file, ranges, batch, cursor)
        /\ Counted(file, ranges, batch, Reach(pc, cursor, bp), taken)
        /\ (pc = "done" => bp = file.size)
    BY Zenon DEF CutsInv, StateInv, BufferInv, RowsInv
  <2>2. ASSUME NEW s \in DOMAIN file.rows
        PROVE  taken[s] <= 1
    <3>1. taken[s] = 1 \/ taken[s] = 0
      BY <2>1, Zenon DEF Counted
    <3>2. QED  BY <3>1
  <2>3. ASSUME pc = "done", NEW s \in DOMAIN file.rows
        PROVE  taken[s] = 1
    <3>1. pc # "work" /\ Reach(pc, cursor, bp) = bp
      BY <2>3 DEF Reach
    <3>2. ranges = <<>> /\ batch = <<>> /\ bp = file.size
      BY <2>1, <2>3, <3>1, Zenon DEF Reading
    <3>3. Counted(file, <<>>, <<>>, file.size, taken)
      BY <2>1, <3>1, <3>2, Zenon
    <3>4. s < file.size
      <4>1. s \in Nat /\ RowEnd(file, s) \in Nat /\ s < RowEnd(file, s) /\ RowEnd(file, s) <= file.size
        BY <2>1, <2>3, NextRow
      <4>2. file.size \in Nat
        BY <2>1, BodyStartsRow, Zenon
      <4>3. QED  BY <4>1, <4>2
    <3>5. ~ Waits(<<>>, s) /\ ~ Listed(<<>>, s)
      BY NothingRead, Zenon
    <3>6. QED  BY <2>3, <3>3, <3>4, <3>5, Zenon DEF Counted
  <2>4. QED  BY <2>2, <2>3, Zenon DEF OnceEach
<1>2. QED  BY <1>1, CutsInvHolds, PTL

(* No worker reads from within a row, nor does main in the buffer.         *)
THEOREM StartsAlignedTheorem == Spec => []StartsAligned
<1>1. CutsInv => StartsAligned
  <2> SUFFICES ASSUME CutsInv PROVE StartsAligned
    OBVIOUS
  <2>1. Sound(file, ranges, file.body, cursor)
    BY Zenon DEF CutsInv, RowsInv, Reading
  <2>2. \A k \in DOMAIN ranges : \A i \in DOMAIN ranges[k].streams :
          LineStart(file, ranges[k].streams[i].at)
    BY <2>1, Zenon DEF Sound
  <2>3. pc = "buffer" => LineStart(file, bp)
    <3>1. pc = "buffer" => pc \in {"buffer", "done"}
      OBVIOUS
    <3>2. QED  BY <3>1, Zenon DEF CutsInv, BufferInv
  <2>4. QED  BY <2>2, <2>3, Zenon DEF StartsAligned
<1>2. QED  BY <1>1, CutsInvHolds, PTL

(* A row read in place ends before the tail: its loads stay in the file.   *)
LEMMA InPlace ==
  ASSUME NEW p \in Programs, NEW f, FileOK(f), NEW tl, TailRight(p, f, tl),
         NEW at \in DOMAIN f.rows, RowEnd(f, at) <= tl, NEW e \in Loads(p, f.rows[at])
  PROVE  at + e <= f.size
<1>1. /\ f.size \in Nat /\ f.body \in Nat /\ at \in Nat /\ f.body <= at
      /\ RowEnd(f, at) \in Nat /\ at < RowEnd(f, at) /\ RowEnd(f, at) <= f.size
  BY NextRow, BodyStartsRow
<1>2. /\ tl \in Nat /\ tl <= f.size
      /\ p.tail = "last line" /\ tl < f.size => tl \in DOMAIN f.rows /\ RowEnd(f, tl) = f.size
      /\ p.tail = "last line" /\ tl = f.size => f.body = f.size
      /\ p.tail = "slack" => \A s \in DOMAIN f.rows : s < tl => s + TailSlack <= f.size
  BY Zenon DEF TailRight
<1>3. tl \in Nat /\ tl <= f.size /\ e \in Nat /\ e <= 138
  <2>1. f.rows[at] \in Shape
    BY Zenon DEF FileOK
  <2>2. QED  BY <2>1, <1>2, LoadFacts, Zenon
<1>4. f.rows[at] \in Shape
  BY Zenon DEF FileOK
<1>5. PICK len \in Nat : len = RowLength(f.rows[at])
  BY <1>4, RowSize
<1>6. RowEnd(f, at) = at + len
  BY <1>5, Zenon DEF RowEnd
<1>7. /\ e \in Nat /\ e <= 138
      /\ p.tail = "none" => e = len
      /\ p.tail = "last line" => e <= len + 17
  BY <1>4, <1>5, LoadFacts, Zenon
<1>8. CASE p.tail = "none"
  BY <1>1, <1>6, <1>7, <1>8
<1>9. CASE p.tail = "last line"
  <2>1. e <= len + 17
    BY <1>7, <1>9
  <2>2. tl + 17 <= f.size
    <3>1. tl # f.size
      <4>1. f.body # f.size
        BY <1>1
      <4>2. QED  BY <4>1, <1>2, <1>9, Zenon
    <3>2. tl < f.size
      BY <1>1, <1>3, <3>1
    <3>3. tl \in DOMAIN f.rows /\ RowEnd(f, tl) = f.size
      BY <1>2, <1>9, <3>2, Zenon
    <3>4. f.rows[tl] \in Shape
      BY <3>3, Zenon DEF FileOK
    <3>5. PICK n \in Nat : n = RowLength(f.rows[tl]) /\ 17 <= n
      BY <3>4, RowSize
    <3>6. f.size = tl + n
      BY <3>3, <3>5, Zenon DEF RowEnd
    <3>7. QED  BY <1>3, <3>5, <3>6
  <2>3. at + len <= tl
    BY <1>6, Zenon
  <2>4. QED  BY <2>1, <2>2, <2>3, <1>1, <1>3, <1>5
<1>10. CASE p.tail = "slack"
  <2>1. at < tl
    BY <1>1, <1>3
  <2>2. at + TailSlack <= f.size
    BY <1>2, <1>10, <2>1, Zenon
  <2>3. QED  BY <1>1, <1>3, <2>2 DEF TailSlack
<1>11. p.tail \in {"none", "last line", "slack"}
  BY ProgramFacts, Zenon
<1>12. QED  BY <1>8, <1>9, <1>10, <1>11

(* A program that copies its last line only reads no other row from there. *)
Copied(p, tl, at) == tl <= at /\ (p.tail = "last line" => at = tl)

(* A row read in the buffer has the buffer's padding behind it.            *)
LEMMA InBuffer ==
  ASSUME NEW p \in Programs, NEW f, FileOK(f), NEW tl, TailRight(p, f, tl),
         NEW at \in DOMAIN f.rows, Copied(p, tl, at),
         NEW e \in Loads(p, f.rows[at])
  PROVE  f.size - tl <= p.buffer /\ (at - tl) + e <= p.buffer
<1>1. /\ f.size \in Nat /\ at \in Nat
      /\ RowEnd(f, at) \in Nat /\ at < RowEnd(f, at) /\ RowEnd(f, at) <= f.size
  BY NextRow, BodyStartsRow
<1>2. /\ tl \in Nat /\ tl <= f.size
      /\ p.tail = "none" => tl = f.size
      /\ p.tail = "last line" /\ tl < f.size => tl \in DOMAIN f.rows /\ RowEnd(f, tl) = f.size
      /\ p.tail = "slack" => f.size - tl <= TailSlack
  BY Zenon DEF TailRight
<1>3. f.rows[at] \in Shape
  BY Zenon DEF FileOK
<1>4. PICK len \in Nat : len = RowLength(f.rows[at]) /\ len <= 138
  BY <1>3, RowSize
<1>5. RowEnd(f, at) = at + len
  BY <1>4, Zenon DEF RowEnd
<1>6. e \in Nat /\ e <= 138
  BY <1>3, LoadFacts, Zenon
<1>7. PICK buffer \in Nat : /\ buffer = p.buffer
                            /\ p.tail = "last line" => MaxLineLen <= buffer
                            /\ p.tail = "slack" => TailSlack + MaxLineLen <= buffer
  BY ProgramFacts, Zenon
<1>8. CASE p.tail = "none"
  <2>1. tl = f.size
    BY <1>2, <1>8, Zenon
  <2>2. tl <= at
    BY Zenon DEF Copied
  <2>3. QED  BY <1>1, <2>1, <2>2
<1>9. CASE p.tail = "last line"
  <2>1. at = tl /\ MaxLineLen <= buffer
    BY <1>7, <1>9, Zenon DEF Copied
  <2>2. tl < f.size
    BY <1>1, <2>1
  <2>3. f.size = at + len
    BY <1>2, <1>5, <1>9, <2>1, <2>2, Zenon
  <2>4. f.size - tl <= buffer /\ (at - tl) + e <= buffer
    BY <1>1, <1>4, <1>6, <2>1, <2>3 DEF MaxLineLen
  <2>5. QED  BY <1>7, <2>4, Zenon
<1>10. CASE p.tail = "slack"
  <2>1. f.size - tl <= TailSlack /\ TailSlack + MaxLineLen <= buffer
    BY <1>2, <1>7, <1>10, Zenon
  <2>2. f.size - tl <= buffer /\ (at - tl) + e <= buffer
    <3>1. tl \in Nat /\ tl <= at /\ buffer \in Nat
      BY <1>2, Zenon DEF Copied
    <3>2. at - tl <= f.size - tl
      BY <1>1, <3>1
    <3>3. QED  BY <1>1, <1>6, <2>1, <3>1, <3>2 DEF MaxLineLen, TailSlack
  <2>3. QED  BY <1>7, <2>2, Zenon
<1>11. p.tail \in {"none", "last line", "slack"}
  BY ProgramFacts, Zenon
<1>12. QED  BY <1>8, <1>9, <1>10, <1>11

(* No load of a program's own parser leaves the mapping, for a row read in *)
(* place, or the buffer, for a row copied there: what each program leaves  *)
(* to the buffer is enough for what its parser loads.                      *)
THEOREM LoadsInsideTheorem == Spec => []LoadsInside
<1>1. CutsInv => LoadsInside
  <2> SUFFICES ASSUME CutsInv PROVE LoadsInside
    OBVIOUS
  <2>1. ASSUME pc = "work", ranges # <<>>, Streaming, NEW i \in DOMAIN ranges[1].streams,
               NEW e \in Loads(program, file.rows[ranges[1].streams[i].at])
        PROVE  ranges[1].streams[i].at + e <= file.size
    <3>1. /\ program \in Programs /\ FileOK(file) /\ TailRight(program, file, tail)
          /\ tail \in Nat /\ tail <= file.size /\ file.size \in Nat
          /\ cursor \in Nat /\ cursor <= tail
      <4>1. pc # "tail"
        BY <2>1
      <4>2. QED  BY <4>1, SharesFacts, Zenon
    <3>2. ranges \in Seq(Work) /\ Sound(file, ranges, file.body, cursor)
      BY Zenon DEF CutsInv, RowsInv, Reading
    <3>3. 1 \in DOMAIN ranges
      BY <2>1, <3>2
    <3>4. PICK at \in Nat, end \in Nat : at = ranges[1].streams[i].at /\ end = ranges[1].streams[i].end
      BY <2>1, <3>2, <3>3, WorkTypes
    <3>5. at < end
      BY <2>1, <3>4, Zenon DEF Streaming
    <3>6. LineStart(file, at) /\ LineStart(file, end) /\ end <= cursor
      BY <2>1, <3>2, <3>3, <3>4, Zenon DEF Sound
    <3>7. end <= file.size
      BY <3>1, <3>6
    <3>8. at \in DOMAIN file.rows /\ RowEnd(file, at) \in Nat /\ RowEnd(file, at) <= end
      BY <3>1, <3>5, <3>6, <3>7, RowBelow
    <3>9. RowEnd(file, at) <= tail
      BY <3>1, <3>6, <3>8
    <3>10. e \in Loads(program, file.rows[at])
      BY <2>1, <3>4, Zenon
    <3>11. at + e <= file.size
      BY <3>1, <3>8, <3>9, <3>10, InPlace, Zenon
    <3>12. QED  BY <3>4, <3>11, Zenon
  <2>2. ASSUME pc = "buffer", bp < file.size
        PROVE  /\ file.size - tail <= program.buffer
               /\ \A e \in Loads(program, file.rows[bp]) : (bp - tail) + e <= program.buffer
    <3>1. /\ program \in Programs /\ FileOK(file) /\ TailRight(program, file, tail)
          /\ file.size \in Nat /\ tail \in Nat
      <4>1. pc # "tail"
        BY <2>2
      <4>2. QED  BY <4>1, SharesFacts, Zenon
    <3>2. pc \in {"buffer", "done"}
      BY <2>2
    <3>3. tail <= bp /\ LineStart(file, bp) /\ (program.tail = "last line" => bp = tail) /\ bp \in Nat
      BY <2>2, <3>2, Zenon DEF CutsInv, StateInv, BufferInv
    <3>4. bp \in DOMAIN file.rows
      <4>1. bp # file.size
        <5>1. bp \in Nat /\ file.size \in Nat /\ bp < file.size
          BY <2>2, <3>1, <3>3, Zenon
        <5>2. QED  BY <5>1
      <4>2. QED  BY <3>3, <4>1, Zenon DEF LineStart
    <3>5. \A e \in Loads(program, file.rows[bp]) :
            file.size - tail <= program.buffer /\ (bp - tail) + e <= program.buffer
      <4>1. Copied(program, tail, bp)
        BY <3>3, Zenon DEF Copied
      <4>2. QED  BY <3>1, <3>4, <4>1, InBuffer, Zenon
    <3>6. RowLength(file.rows[bp]) \in Loads(program, file.rows[bp])
      BY Zenon DEF Loads
    <3>7. QED  BY <3>5, <3>6, Zenon
  <2>3. QED  BY <2>1, <2>2, Zenon DEF LoadsInside
<1>2. QED  BY <1>1, CutsInvHolds, PTL
=============================================================================
