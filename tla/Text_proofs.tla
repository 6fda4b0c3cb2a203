----------------------------- MODULE Text_proofs -----------------------------
(***************************************************************************)
(* Proofs about the text that is read and the text that is written: which  *)
(* thread parses which bytes (Partition), for every well-formed input,     *)
(* every number of threads and every sampling ratio; how channel names are *)
(* told apart (NameMatch); and how numbers and averages are written        *)
(* (Formatting), for every precision that leaves room for two decimals.    *)
(***************************************************************************)
EXTENDS Partition, NameMatch, Formatting, Shared_proofs, SequenceTheorems

(* The arithmetic of a row: it has at least one byte, and no load of       *)
(* parse_row ends more than 149 bytes after the row's start.               *)
LEMMA RowFacts ==
  ASSUME NEW r \in Shape
  PROVE  /\ RowLength(r) \in Nat
         /\ RowLength(r) > 0
         /\ \A e \in Loads(r) : e \in Nat /\ e <= 149
<1>1. /\ r.name \in 1..104
      /\ r.len \in 1..10
      /\ r.stamps \in 1..10
  BY DEF Shape
<1>2. RowLength(r) \in Nat /\ RowLength(r) > 0
  BY RowSize
<1>3. ASSUME NEW e \in Loads(r)
      PROVE  e \in Nat /\ e <= 149
  <2>1. CASE e \in {8, 19, 11 + Scan, 27,
                    IF r.name < 8 THEN 19 ELSE 11 + r.name, 11 + r.name + 9}
    BY <1>1, <2>1, ScanAssumption
  <2>2. CASE e \in {11 + Scan + 8*k + 8 : k \in {k \in 0..13 : Scan + 8*k <= r.name}}
    BY <1>1, <2>2, ScanAssumption
  <2>3. CASE e \in {11 + r.name + 10 + r.len : x \in {x \in {0} : r.len + r.stamps + 2 > 8}}
    BY <1>1, <2>3
  <2>4. QED  BY <2>1, <2>2, <2>3 DEF Loads
<1>4. QED  BY <1>2, <1>3

(* The proportional targets are inside [body, tail] and do not go back.    *)
LEMMA TargetFacts ==
  ASSUME NEW f, NEW tl \in Nat, NEW n \in Nat, NEW i \in Nat,
         f.body \in Nat, f.body <= tl, i < n
  PROVE  /\ Target(f, i, n, tl) \in Nat
         /\ f.body <= Target(f, i, n, tl)
         /\ Target(f, i, n, tl) <= tl
         /\ Target(f, i, n, tl) <= Target(f, i + 1, n, tl)
         /\ Target(f, i + 1, n, tl) \in Nat
<1>1. PICK b \in Nat : b = f.body
  OBVIOUS
<1>2. /\ Portion(b, tl, i, n) \in Nat /\ b <= Portion(b, tl, i, n) /\ Portion(b, tl, i, n) <= tl
      /\ Portion(b, tl, i, n) <= Portion(b, tl, i + 1, n)
      /\ Portion(b, tl, i + 1, n) \in Nat
  BY <1>1, PortionFacts
<1>3. /\ Target(f, i, n, tl) = Portion(b, tl, i, n)
      /\ Target(f, i + 1, n, tl) = Portion(b, tl, i + 1, n)
  BY <1>1, Zenon DEF Target, Portion
<1>4. QED  BY <1>1, <1>2, <1>3

(* The tail: it starts a row, it fits the slack, and every row before it   *)
(* starts at least TailSlack bytes before the end of the mapping.          *)
LEMMA TailFacts ==
  ASSUME NEW f, FileOK(f)
  PROVE  /\ TailOf(f) \in Nat
         /\ f.body <= TailOf(f) /\ TailOf(f) <= f.size
         /\ LineStart(f, TailOf(f))
         /\ f.size - TailOf(f) <= TailSlack
         /\ \A s \in DOMAIN f.rows : s < TailOf(f) => s + TailSlack <= f.size
<1>1. TailOf(f) = SlackStart(f)
  BY Zenon DEF TailOf, SlackStart
<1>2. QED  BY <1>1, SlackFacts

(* The share of thread i ends on a row start, inside [body, tail], and the *)
(* shares' ends do not go back.                                            *)
LEMMA ShareFacts ==
  ASSUME NEW f, FileOK(f), NEW tl \in Nat, NEW n \in Nat, NEW i \in Nat, i < n,
         f.body <= tl, tl <= f.size, LineStart(f, tl)
  PROVE  /\ ShareEnd(f, i, n, tl) \in Nat
         /\ f.body <= ShareEnd(f, i, n, tl) /\ ShareEnd(f, i, n, tl) <= tl
         /\ LineStart(f, ShareEnd(f, i, n, tl))
         /\ i + 1 < n => ShareEnd(f, i, n, tl) <= ShareEnd(f, i + 1, n, tl)
<1>1. f.body \in Nat /\ f.size \in Nat
  BY DEF FileOK
<1> DEFINE g  == Target(f, i, n, tl)
           g2 == Target(f, i + 1, n, tl)
<1>2. g \in Nat /\ g2 \in Nat /\ f.body <= g /\ g <= tl /\ g <= g2
  BY <1>1, TargetFacts
<1> HIDE DEF g, g2
<1>3. CASE i = n - 1
  BY <1>1, <1>3 DEF ShareEnd
<1>4. CASE i # n - 1
  <2>1. ShareEnd(f, i, n, tl) = LineAfter(f, g, tl, tl)
    BY <1>4 DEF ShareEnd, g
  <2>2. CASE g < tl
    <3>1. PICK s \in DOMAIN f.rows :
             /\ s <= g /\ g < RowEnd(f, s) /\ RowEnd(f, s) <= tl
             /\ LineAfter(f, g, tl, tl) = RowEnd(f, s)
      BY <1>2, <2>2, LineAfterIs
    <3>2. RowEnd(f, s) \in Nat /\ LineStart(f, RowEnd(f, s))
      BY NextRow
    <3>3. /\ ShareEnd(f, i, n, tl) \in Nat
          /\ f.body <= ShareEnd(f, i, n, tl) /\ ShareEnd(f, i, n, tl) <= tl
          /\ LineStart(f, ShareEnd(f, i, n, tl))
      BY <3>1, <3>2, <2>1, <1>1, <1>2
    <3>4. ASSUME i + 1 < n
          PROVE  ShareEnd(f, i, n, tl) <= ShareEnd(f, i + 1, n, tl)
      <4>1. CASE i + 1 = n - 1
        BY <4>1, <3>3 DEF ShareEnd
      <4>2. CASE i + 1 # n - 1
        <5>1. ShareEnd(f, i + 1, n, tl) = LineAfter(f, g2, tl, tl)
          BY <4>2 DEF ShareEnd, g2
        <5>2. LineAfter(f, g, tl, tl) <= LineAfter(f, g2, tl, tl)
          BY <1>2, LineAfterMonotone
        <5>3. QED  BY <5>1, <5>2, <2>1
      <4>3. QED  BY <4>1, <4>2
    <3>5. QED  BY <3>3, <3>4
  <2>3. CASE g = tl
    <3>1. ShareEnd(f, i, n, tl) = tl
      BY <2>1, <2>3, LineAfterNone
    <3>2. ASSUME i + 1 < n
          PROVE  ShareEnd(f, i + 1, n, tl) = tl
      <4>1. CASE i + 1 = n - 1
        BY <4>1 DEF ShareEnd
      <4>2. CASE i + 1 # n - 1
        <5>1. ShareEnd(f, i + 1, n, tl) = LineAfter(f, g2, tl, tl)
          BY <4>2 DEF ShareEnd, g2
        <5>2. QED  BY <5>1, <1>2, <2>3, LineAfterNone
      <4>3. QED  BY <4>1, <4>2
    <3>3. QED  BY <3>1, <3>2, <1>1
  <2>4. QED  BY <1>2, <2>2, <2>3
<1>5. QED  BY <1>3, <1>4

(* The sample of a share ends on a row start of the share.                 *)
LEMMA SampleFacts ==
  ASSUME NEW f, FileOK(f), NEW b \in Nat, NEW e \in Nat,
         f.body <= b, b <= e, e <= f.size, LineStart(f, e)
  PROVE  /\ SampleEnd(f, b, e) \in Nat
         /\ b <= SampleEnd(f, b, e) /\ SampleEnd(f, b, e) <= e
         /\ LineStart(f, SampleEnd(f, b, e))
<1> DEFINE cut == b + (e - b) \div SampleRatio
<1>1. cut \in Nat /\ b <= cut /\ f.body \in Nat
  <2> DEFINE d == e - b
  <2>1. d \in Nat
    OBVIOUS
  <2> HIDE DEF d
  <2>2. d \div SampleRatio \in Nat
    BY <2>1, SampleAssumption, QuotientBounds
  <2>3. QED  BY <2>2 DEF d, FileOK
<1> HIDE DEF cut
<1>2. CASE cut > b /\ cut < e
  <2>1. PICK s \in DOMAIN f.rows :
           /\ cut < RowEnd(f, s) /\ RowEnd(f, s) <= e
           /\ LineAfter(f, cut, e, e) = RowEnd(f, s)
    <3>1. f.body <= cut /\ cut < e
      BY <1>1, <1>2
    <3>2. QED  BY <3>1, <1>1, LineAfterIs
  <2>2. RowEnd(f, s) \in Nat /\ LineStart(f, RowEnd(f, s))
    BY NextRow
  <2>3. SampleEnd(f, b, e) = RowEnd(f, s)
    BY <1>2, <2>1 DEF SampleEnd, cut
  <2>4. QED  BY <1>1, <1>2, <2>1, <2>2, <2>3
<1>3. CASE ~ (cut > b /\ cut < e)
  BY <1>3 DEF SampleEnd, cut
<1>4. QED  BY <1>2, <1>3

---------------------------------------------------------------------------
(* The inductive invariant.  MainInv: the shares handed out so far are     *)
(* row-aligned, ordered, disjoint, and cover every row below the cursor.   *)
MainInv ==
  /\ pc = "tail" => t = 0
  /\ pc # "tail" =>
        /\ tail = TailOf(file)
        /\ file.body <= cursor /\ cursor <= tail /\ LineStart(file, cursor)
        /\ \A s \in DOMAIN file.rows : s < cursor =>
              \E w \in 0..(t - 1) : begin[w] <= s /\ s < end[w]
  /\ pc = "assign" =>
        cursor = IF t = 0 THEN file.body ELSE ShareEnd(file, t - 1, threads, tail)
  /\ pc \in {"work", "buffer", "done"} => t = threads /\ cursor = tail
  /\ \A w \in 0..(t - 1) :
        /\ file.body <= begin[w] /\ begin[w] <= end[w] /\ end[w] <= cursor
        /\ LineStart(file, begin[w]) /\ LineStart(file, end[w])
  /\ \A v, w \in 0..(t - 1) : v < w => end[v] <= begin[w]

WorkerInv ==
  /\ pc \in {"tail", "assign"} => \A w \in Threads : wpc[w] = "idle"
  /\ pc \in {"buffer", "done"} => \A w \in Active : wpc[w] = "done"
  /\ \A w \in Active :
        /\ wpc[w] # "idle" => begin[w] <= pos[w] /\ pos[w] <= end[w]
        /\ wpc[w] \in {"sample", "rest"} =>
              /\ pos[w] <= stop[w] /\ stop[w] <= end[w]
              /\ LineStart(file, pos[w]) /\ LineStart(file, stop[w])
        /\ wpc[w] = "rest" => stop[w] = end[w]
        /\ wpc[w] = "done" => pos[w] = end[w]

BufferInv ==
  /\ pc \in {"buffer", "done"} =>
        tail <= bp /\ bp <= file.size /\ LineStart(file, bp)
  /\ pc = "done" => bp = file.size

PassedBy(w, s) == wpc[w] # "idle" /\ begin[w] <= s /\ s < pos[w]
Buffered(s)    == pc \in {"buffer", "done"} /\ tail <= s /\ s < bp

TakenInv ==
  \A s \in DOMAIN file.rows :
     taken[s] = IF (\E w \in Active : PassedBy(w, s)) \/ Buffered(s) THEN 1 ELSE 0

IInv == TypeOK /\ file \in Files /\ MainInv /\ WorkerInv /\ BufferInv /\ TakenInv

LEMMA InitIInv == Init => IInv
<1> SUFFICES ASSUME Init PROVE IInv
  OBVIOUS
<1>1. TypeOK
  BY MaxThreadsAssumption DEF Init, TypeOK, Zero, Threads
<1>2. MainInv
  BY <1>1 DEF Init, MainInv, TypeOK
<1>3. WorkerInv
  BY <1>1, MaxThreadsAssumption DEF Init, WorkerInv, Active, Threads, TypeOK
<1>4. BufferInv
  BY DEF Init, BufferInv
<1>5. TakenInv
  BY <1>1, MaxThreadsAssumption DEF Init, TakenInv, PassedBy, Buffered, Active, Threads, TypeOK
<1>6. QED  BY <1>1, <1>2, <1>3, <1>4, <1>5 DEF IInv, Init

(* What the invariant says of the workers and the file, in the form the    *)
(* steps use it.                                                           *)
LEMMA IInvFacts ==
  ASSUME IInv
  PROVE  /\ FileOK(file)
         /\ file.body \in Nat /\ file.size \in Nat
         /\ threads \in Nat /\ threads > 0 /\ threads <= MaxThreads
         /\ Active \subseteq Threads
         /\ tail \in Nat /\ (pc # "tail" => tail <= file.size /\ LineStart(file, tail))
         /\ \A w \in Threads : /\ begin[w] \in Nat /\ end[w] \in Nat
                                /\ pos[w] \in Nat /\ stop[w] \in Nat
<1>1. FileOK(file)
  BY FilesAssumption DEF IInv
<1>2. file.body \in Nat /\ file.size \in Nat
  BY <1>1, BodyStartsRow
<1>3. threads \in Nat /\ threads > 0 /\ threads <= MaxThreads /\ Active \subseteq Threads
  BY MaxThreadsAssumption DEF IInv, TypeOK, Active, Threads
<1>4. tail \in Nat /\ (pc # "tail" => tail <= file.size /\ LineStart(file, tail))
  BY <1>1, TailFacts DEF IInv, TypeOK, MainInv
<1>5. QED  BY <1>1, <1>2, <1>3, <1>4 DEF IInv, TypeOK

LEMMA ChooseTailStep ==
  ASSUME IInv, ChooseTail
  PROVE  IInv'
<1>1. pc = "tail" /\ t = 0 /\ FileOK(file) /\ file.body \in Nat
  BY IInvFacts DEF IInv, MainInv, ChooseTail
<1>2. /\ TailOf(file) \in Nat /\ file.body <= TailOf(file)
      /\ LineStart(file, file.body)
  BY <1>1, TailFacts, BodyStartsRow
<1>3. TypeOK'
  BY <1>1, <1>2 DEF IInv, TypeOK, ChooseTail, workerVars
<1>4. MainInv'
  <2>1. /\ pc' = "assign" /\ t' = 0 /\ cursor' = file.body /\ tail' = TailOf(file)
        /\ file' = file
    BY <1>1 DEF ChooseTail
  <2>2. \A s \in DOMAIN file.rows : ~ (s < file.body)
    BY <1>1, NextRow
  <2>3. 0..(0 - 1) = {}
    OBVIOUS
  <2>4. QED  BY <1>1, <1>2, <2>1, <2>2, <2>3 DEF MainInv, LineStart
<1>5. WorkerInv'
  BY <1>1 DEF IInv, WorkerInv, ChooseTail, workerVars, Active, LineStart
<1>6. BufferInv' /\ TakenInv'
  BY <1>1 DEF IInv, BufferInv, TakenInv, PassedBy, Buffered, ChooseTail, workerVars, Active
<1>7. QED  BY <1>3, <1>4, <1>5, <1>6 DEF IInv, ChooseTail

LEMMA AssignStep ==
  ASSUME IInv, Assign
  PROVE  IInv'
<1> DEFINE e == ShareEnd(file, t, threads, tail)
<1>1. /\ pc = "assign" /\ t < threads /\ t \in Nat
      /\ FileOK(file) /\ file.body \in Nat /\ file.size \in Nat
      /\ threads \in Nat /\ threads <= MaxThreads /\ t \in Threads
      /\ tail \in Nat /\ tail <= file.size /\ LineStart(file, tail)
      /\ file.body <= tail
      /\ cursor \in Nat
  <2>1. pc = "assign" /\ t < threads /\ t \in Nat /\ cursor \in Nat
    BY DEF IInv, TypeOK, Assign
  <2>2. /\ FileOK(file) /\ file.body \in Nat /\ file.size \in Nat
        /\ threads \in Nat /\ threads <= MaxThreads
        /\ tail \in Nat /\ tail <= file.size /\ LineStart(file, tail)
    BY <2>1, IInvFacts
  <2>3. t \in Threads
    BY <2>1, <2>2, MaxThreadsAssumption DEF Threads
  <2>4. file.body <= tail
    BY <2>1, <2>2, TailFacts DEF IInv, MainInv
  <2>5. QED  BY <2>1, <2>2, <2>3, <2>4
<1>2. e \in Nat /\ file.body <= e /\ e <= tail /\ LineStart(file, e)
  BY <1>1, ShareFacts
<1>3. cursor <= e
  <2>1. CASE t = 0
    BY <2>1, <1>1, <1>2 DEF IInv, MainInv
  <2>2. CASE t # 0
    <3>1. cursor = ShareEnd(file, t - 1, threads, tail)
      BY <2>2, <1>1 DEF IInv, MainInv
    <3> DEFINE i == t - 1
    <3>2. i \in Nat /\ i + 1 = t
      BY <2>2, <1>1
    <3> HIDE DEF i
    <3>3. ShareEnd(file, i, threads, tail) <= ShareEnd(file, i + 1, threads, tail)
      BY <3>2, <1>1, ShareFacts
    <3>4. QED  BY <3>1, <3>2, <3>3 DEF i
  <2>3. QED  BY <2>1, <2>2
<1> HIDE DEF e
<1>4. /\ begin' = [begin EXCEPT ![t] = cursor]
      /\ end' = [end EXCEPT ![t] = e]
      /\ cursor' = e /\ t' = t + 1
      /\ UNCHANGED <<file, threads, pc, tail, wpc, pos, stop, bp, taken>>
  BY DEF Assign, AssignTo, e, workerVars
<1>5. TypeOK'
  BY <1>1, <1>2, <1>4 DEF IInv, TypeOK
<1>6. /\ begin'[t] = cursor /\ end'[t] = e
      /\ \A w \in 0..(t - 1) : begin'[w] = begin[w] /\ end'[w] = end[w]
  BY <1>1, <1>4 DEF IInv, TypeOK, Threads
<1>7. MainInv'
  <2>1. \A s \in DOMAIN file.rows : s < e =>
           \E w \in 0..t : begin'[w] <= s /\ s < end'[w]
    <3>1. SUFFICES ASSUME NEW s \in DOMAIN file.rows, s < e
                   PROVE  \E w \in 0..t : begin'[w] <= s /\ s < end'[w]
      OBVIOUS
    <3>2. s \in Nat
      BY <1>1, NextRow
    <3>3. CASE s < cursor
      <4>1. PICK w \in 0..(t - 1) : begin[w] <= s /\ s < end[w]
        BY <3>3, <1>1 DEF IInv, MainInv
      <4>2. w \in 0..t
        BY <4>1, <1>1
      <4>3. QED  BY <4>1, <4>2, <1>6
    <3>4. CASE cursor <= s
      BY <3>1, <3>4, <1>1, <1>6
    <3>5. QED  BY <3>2, <3>3, <3>4, <1>1
  <2>2. \A w \in 0..t :
           /\ file.body <= begin'[w] /\ begin'[w] <= end'[w] /\ end'[w] <= e
           /\ LineStart(file, begin'[w]) /\ LineStart(file, end'[w])
    <3>1. ASSUME NEW w \in 0..(t - 1)
          PROVE  /\ file.body <= begin'[w] /\ begin'[w] <= end'[w] /\ end'[w] <= e
                 /\ LineStart(file, begin'[w]) /\ LineStart(file, end'[w])
      <4>1. w \in Threads /\ end[w] \in Nat
        BY <1>1, MaxThreadsAssumption, IInvFacts DEF Threads
      <4>2. QED  BY <4>1, <1>1, <1>2, <1>3, <1>6 DEF IInv, MainInv
    <3>2. /\ file.body <= begin'[t] /\ begin'[t] <= end'[t] /\ end'[t] <= e
          /\ LineStart(file, begin'[t]) /\ LineStart(file, end'[t])
      BY <1>1, <1>2, <1>3, <1>6 DEF IInv, MainInv
    <3>3. QED  BY <3>1, <3>2, <1>1
  <2>3. \A v, w \in 0..t : v < w => end'[v] <= begin'[w]
    BY <1>1, <1>6 DEF IInv, MainInv
  <2>4. QED  BY <2>1, <2>2, <2>3, <1>1, <1>2, <1>4 DEF IInv, MainInv, e, LineStart
<1>8. WorkerInv'
  BY <1>1, <1>4, IInvFacts DEF IInv, WorkerInv, Active, LineStart
<1>9. BufferInv' /\ TakenInv'
  <2>1. \A w \in Active : wpc[w] = "idle"
    BY <1>1, IInvFacts DEF IInv, WorkerInv
  <2>2. QED  BY <2>1, <1>1, <1>4 DEF IInv, BufferInv, TakenInv, PassedBy, Buffered, Active
<1>10. QED  BY <1>4, <1>5, <1>7, <1>8, <1>9 DEF IInv

LEMMA AssignedStep ==
  ASSUME IInv, Assigned
  PROVE  IInv'
<1>1. /\ pc = "assign" /\ t = threads /\ FileOK(file)
      /\ threads \in Nat /\ threads > 0
  BY IInvFacts DEF Assigned
<1>2. cursor = tail
  BY <1>1 DEF IInv, MainInv, ShareEnd
<1>3. TypeOK' /\ MainInv'
  BY <1>1, <1>2 DEF IInv, TypeOK, MainInv, Assigned, workerVars, LineStart
<1>4. WorkerInv' /\ BufferInv' /\ TakenInv'
  BY <1>1, IInvFacts DEF IInv, WorkerInv, BufferInv, TakenInv, PassedBy, Buffered,
                         Assigned, workerVars, Active, LineStart
<1>5. QED  BY <1>3, <1>4 DEF IInv, Assigned

(* The steps of worker w leave main's part alone.                          *)
LEMMA WorkerLeavesMain ==
  ASSUME IInv, UNCHANGED <<file, threads, mainVars, bp>>
  PROVE  MainInv' /\ BufferInv'
BY DEF IInv, MainInv, BufferInv, mainVars, LineStart

(* While a worker has not ended, main waits in the join, and the worker's  *)
(* share is a row-aligned range of the rows before the tail.               *)
LEMMA WorkerFacts ==
  ASSUME IInv, NEW w \in Active, pc = "work"
  PROVE  /\ w \in Threads /\ w \in 0..(t - 1)
         /\ FileOK(file) /\ file.body \in Nat /\ file.size \in Nat
         /\ begin[w] \in Nat /\ end[w] \in Nat
         /\ file.body <= begin[w] /\ begin[w] <= end[w] /\ end[w] <= tail
         /\ tail \in Nat /\ tail <= file.size
         /\ LineStart(file, begin[w]) /\ LineStart(file, end[w])
<1>1. w \in Threads /\ w \in 0..(t - 1) /\ cursor = tail
  BY IInvFacts DEF IInv, MainInv, Active
<1>2. QED  BY <1>1, IInvFacts DEF IInv, MainInv

LEMMA StartWorkerStep ==
  ASSUME IInv, NEW w \in Active, StartWorker(w)
  PROVE  IInv'
<1> DEFINE sample == SampleEnd(file, begin[w], end[w])
<1>1. pc = "work" /\ wpc[w] = "idle"
  BY DEF StartWorker
<1>2. /\ w \in Threads /\ FileOK(file) /\ file.size \in Nat
      /\ begin[w] \in Nat /\ end[w] \in Nat
      /\ file.body <= begin[w] /\ begin[w] <= end[w] /\ end[w] <= file.size
      /\ LineStart(file, begin[w]) /\ LineStart(file, end[w])
  BY <1>1, WorkerFacts
<1>3. /\ sample \in Nat /\ begin[w] <= sample /\ sample <= end[w]
      /\ LineStart(file, sample)
  BY <1>2, SampleFacts
<1> HIDE DEF sample
<1>4. /\ wpc' = [wpc EXCEPT ![w] = "sample"]
      /\ pos' = [pos EXCEPT ![w] = begin[w]]
      /\ stop' = [stop EXCEPT ![w] = sample]
      /\ UNCHANGED <<file, threads, mainVars, bp, taken>>
  BY DEF StartWorker, sample
<1>5. TypeOK'
  BY <1>2, <1>3, <1>4 DEF IInv, TypeOK, mainVars
<1>6. WorkerInv'
  BY <1>1, <1>2, <1>3, <1>4, IInvFacts DEF IInv, TypeOK, WorkerInv, Active, LineStart, mainVars
<1>7. TakenInv'
  <2>1. SUFFICES ASSUME NEW s \in DOMAIN file.rows, NEW v \in Active
                 PROVE  PassedBy(v, s)' <=> PassedBy(v, s)
    BY <1>4 DEF IInv, TakenInv, Buffered, mainVars, Active
  <2>2. CASE v = w
    <3>1. s \in Nat
      BY <1>2, NextRow
    <3>2. QED  BY <2>2, <3>1, <1>1, <1>2, <1>4 DEF PassedBy, IInv, TypeOK, mainVars
  <2>3. CASE v # w
    BY <2>3, <1>4, IInvFacts DEF PassedBy, IInv, TypeOK, mainVars
  <2>4. QED  BY <2>2, <2>3
<1>8. QED  BY <1>4, <1>5, <1>6, <1>7, WorkerLeavesMain DEF IInv

LEMMA ParseRowStep ==
  ASSUME IInv, NEW w \in Active, ParseRow(w)
  PROVE  IInv'
<1>0. PICK p, q : p = pos[w] /\ q = RowEnd(file, pos[w])
  OBVIOUS
<1>1. pc = "work"
  <2>1. w \in Threads /\ wpc[w] \in {"sample", "rest"}
    BY IInvFacts DEF ParseRow
  <2>2. wpc[w] # "idle" /\ wpc[w] # "done"
    BY <2>1
  <2>3. QED  BY <2>1, <2>2 DEF IInv, TypeOK, WorkerInv
<1>2. /\ w \in Threads /\ w \in 0..(t - 1)
      /\ FileOK(file) /\ file.size \in Nat
      /\ begin[w] \in Nat /\ end[w] \in Nat /\ tail \in Nat
      /\ end[w] <= tail /\ tail <= file.size
  BY <1>1, WorkerFacts
<1>3. /\ p \in Nat /\ stop[w] \in Nat
      /\ begin[w] <= p /\ p < stop[w] /\ stop[w] <= end[w]
      /\ LineStart(file, p) /\ LineStart(file, stop[w])
      /\ wpc[w] \in {"sample", "rest"}
  BY <1>0, <1>2 DEF IInv, TypeOK, WorkerInv, ParseRow
<1>4. /\ p \in DOMAIN file.rows
      /\ q \in Nat /\ p < q /\ q <= stop[w] /\ LineStart(file, q)
      /\ \A s \in DOMAIN file.rows : s < q => s <= p
  <2>1. stop[w] <= file.size
    BY <1>2, <1>3
  <2>2. QED  BY <2>1, <1>0, <1>2, <1>3, RowBelow
<1>5. /\ pos' = [pos EXCEPT ![w] = q]
      /\ taken' = [taken EXCEPT ![p] = @ + 1]
      /\ UNCHANGED <<file, threads, mainVars, wpc, stop, bp>>
  BY <1>0 DEF ParseRow
<1>6. TypeOK'
  BY <1>2, <1>4, <1>5 DEF IInv, TypeOK, mainVars
<1>7. WorkerInv'
  BY <1>0, <1>1, <1>2, <1>3, <1>4, <1>5, IInvFacts DEF IInv, TypeOK, WorkerInv, Active, LineStart, mainVars
<1>8. TakenInv'
  <2>1. \A v \in Active : v # w => ~ PassedBy(v, p)
    <3>1. SUFFICES ASSUME NEW v \in Active, v # w, PassedBy(v, p)
                   PROVE  FALSE
      OBVIOUS
    <3>2. /\ v \in 0..(t - 1) /\ begin[v] \in Nat /\ end[v] \in Nat /\ pos[v] \in Nat
          /\ pos[v] <= end[v] /\ begin[v] <= p /\ p < pos[v]
      BY <1>1, <3>1, WorkerFacts, IInvFacts DEF PassedBy, IInv, WorkerInv
    <3>3. v < w \/ w < v
      BY <3>1, <3>2, <1>2
    <3>4. end[v] <= begin[w] \/ end[w] <= begin[v]
      BY <3>2, <3>3, <1>2 DEF IInv, MainInv
    <3>5. QED  BY <3>2, <3>4, <1>2, <1>3
  <2>2. ~ PassedBy(w, p) /\ ~ Buffered(p)
    BY <1>0, <1>1, <1>3 DEF PassedBy, Buffered
  <2>3. taken[p] = 0
    BY <2>1, <2>2, <1>4 DEF IInv, TakenInv
  <2>4. PassedBy(w, p)'
    BY <1>2, <1>3, <1>4, <1>5 DEF PassedBy, IInv, TypeOK, mainVars
  <2>5. taken'[p] = 1
    BY <2>3, <1>4, <1>5 DEF IInv, TypeOK
  <2>6. ASSUME NEW s \in DOMAIN file.rows, s # p, NEW v \in Active
        PROVE  PassedBy(v, s)' <=> PassedBy(v, s)
    <3>1. s \in Nat
      BY <1>2, NextRow
    <3>2. CASE v = w
      <4>1. s < q <=> s < p
        BY <3>1, <2>6, <1>3, <1>4
      <4>2. QED  BY <3>2, <4>1, <1>0, <1>2, <1>5 DEF PassedBy, IInv, TypeOK, mainVars
    <3>3. CASE v # w
      BY <3>3, <1>5, IInvFacts DEF PassedBy, IInv, TypeOK, mainVars
    <3>4. QED  BY <3>2, <3>3
  <2>7. \A s \in DOMAIN file.rows : s # p => taken'[s] = taken[s]
    BY <1>5 DEF IInv, TypeOK
  <2>8. ASSUME NEW s \in DOMAIN file.rows
        PROVE  taken'[s] = IF (\E v \in Active : PassedBy(v, s)') \/ Buffered(s) THEN 1 ELSE 0
    <3>1. CASE s = p
      BY <3>1, <2>4, <2>5
    <3>2. CASE s # p
      BY <3>2, <2>6, <2>7 DEF IInv, TakenInv
    <3>3. QED  BY <3>1, <3>2
  <2>9. Active' = Active /\ file' = file /\ (\A s : Buffered(s)' <=> Buffered(s))
    BY <1>5 DEF Active, Buffered, mainVars
  <2>10. QED  BY <2>8, <2>9 DEF TakenInv
<1>9. QED  BY <1>5, <1>6, <1>7, <1>8, WorkerLeavesMain DEF IInv

LEMMA EndRangeStep ==
  ASSUME IInv, NEW w \in Active, EndRange(w)
  PROVE  IInv'
<1>1. pc = "work"
  <2>1. w \in Threads /\ wpc[w] \in {"sample", "rest"}
    BY IInvFacts DEF EndRange
  <2>2. wpc[w] # "idle" /\ wpc[w] # "done"
    BY <2>1
  <2>3. QED  BY <2>1, <2>2 DEF IInv, TypeOK, WorkerInv
<1>2. /\ w \in Threads /\ FileOK(file) /\ begin[w] \in Nat /\ end[w] \in Nat
      /\ LineStart(file, end[w])
  BY <1>1, WorkerFacts
<1>3. /\ pos[w] \in Nat /\ stop[w] \in Nat
      /\ wpc[w] \in {"sample", "rest"} /\ pos[w] = stop[w] /\ stop[w] <= end[w]
      /\ begin[w] <= pos[w] /\ LineStart(file, pos[w])
      /\ wpc[w] = "rest" => stop[w] = end[w]
  BY <1>2 DEF IInv, TypeOK, WorkerInv, EndRange
<1>4. /\ wpc' = [wpc EXCEPT ![w] = IF wpc[w] = "sample" THEN "rest" ELSE "done"]
      /\ pos' = pos
      /\ stop' = [stop EXCEPT ![w] = end[w]]
      /\ UNCHANGED <<file, threads, mainVars, bp, taken>>
  BY <1>2, <1>3 DEF EndRange, IInv, TypeOK
<1>5. TypeOK'
  BY <1>2, <1>3, <1>4 DEF IInv, TypeOK, mainVars
<1>6. WorkerInv'
  BY <1>1, <1>2, <1>3, <1>4, IInvFacts DEF IInv, TypeOK, WorkerInv, Active, LineStart, mainVars
<1>7. TakenInv'
  <2>1. \A v \in Active, s \in DOMAIN file.rows : PassedBy(v, s)' <=> PassedBy(v, s)
    BY <1>2, <1>3, <1>4, IInvFacts DEF PassedBy, IInv, TypeOK, mainVars
  <2>2. QED  BY <2>1, <1>4 DEF IInv, TakenInv, Buffered, mainVars, Active
<1>8. QED  BY <1>4, <1>5, <1>6, <1>7, WorkerLeavesMain DEF IInv

LEMMA JoinStep ==
  ASSUME IInv, Join
  PROVE  IInv'
<1>1. /\ pc = "work" /\ FileOK(file) /\ tail \in Nat
      /\ tail <= file.size /\ LineStart(file, tail)
  BY IInvFacts DEF Join
<1>2. TypeOK' /\ MainInv'
  BY <1>1 DEF IInv, TypeOK, MainInv, Join, workerVars, LineStart
<1>3. WorkerInv'
  BY <1>1 DEF IInv, WorkerInv, Join, workerVars, Active, LineStart
<1>4. BufferInv'
  BY <1>1 DEF BufferInv, Join, LineStart
<1>5. TakenInv'
  <2>1. \A s \in DOMAIN file.rows : ~ Buffered(s)' /\ ~ Buffered(s)
    BY <1>1, NextRow DEF Join, Buffered
  <2>2. \A v \in Active, s \in DOMAIN file.rows : PassedBy(v, s)' <=> PassedBy(v, s)
    BY DEF PassedBy, Join, workerVars
  <2>3. QED  BY <2>1, <2>2 DEF IInv, TakenInv, Join, Active
<1>6. QED  BY <1>2, <1>3, <1>4, <1>5 DEF IInv, Join

LEMMA BufferRowStep ==
  ASSUME IInv, BufferRow
  PROVE  IInv'
<1>0. PICK p, q : p = bp /\ q = RowEnd(file, bp)
  OBVIOUS
<1>1. /\ pc = "buffer" /\ p \in Nat /\ p < file.size
      /\ FileOK(file) /\ file.size \in Nat
      /\ tail \in Nat /\ tail <= p /\ LineStart(file, p)
  BY <1>0, IInvFacts DEF IInv, TypeOK, BufferInv, BufferRow
<1>2. /\ p \in DOMAIN file.rows
      /\ q \in Nat /\ p < q /\ q <= file.size /\ LineStart(file, q)
      /\ \A s \in DOMAIN file.rows : s < q => s <= p
  <2>1. LineStart(file, file.size)
    BY DEF LineStart
  <2>2. QED  BY <2>1, <1>0, <1>1, RowBelow
<1>3. /\ bp' = q
      /\ taken' = [taken EXCEPT ![p] = @ + 1]
      /\ UNCHANGED <<file, threads, mainVars, workerVars>>
  BY <1>0 DEF BufferRow
<1>4. TypeOK' /\ MainInv' /\ WorkerInv'
  <2>1. TypeOK'
    BY <1>2, <1>3 DEF IInv, TypeOK, mainVars, workerVars
  <2>2. MainInv' /\ WorkerInv'
    BY <1>3 DEF IInv, MainInv, WorkerInv, mainVars, workerVars, Active, LineStart
  <2>3. QED  BY <2>1, <2>2
<1>5. BufferInv'
  BY <1>1, <1>2, <1>3 DEF BufferInv, mainVars, LineStart
<1>6. TakenInv'
  <2>1. \A v \in Active : ~ PassedBy(v, p)
    <3>1. SUFFICES ASSUME NEW v \in Active, PassedBy(v, p)
                   PROVE  FALSE
      OBVIOUS
    <3>2. /\ v \in 0..(t - 1) /\ begin[v] \in Nat /\ end[v] \in Nat /\ pos[v] \in Nat
          /\ pos[v] <= end[v] /\ p < pos[v]
      BY <1>1, <3>1, IInvFacts DEF PassedBy, IInv, MainInv, WorkerInv, Active
    <3>3. end[v] <= tail
      BY <1>1, <3>2 DEF IInv, MainInv
    <3>4. QED  BY <1>1, <3>2, <3>3
  <2>2. taken[p] = 0
    BY <2>1, <1>0, <1>1, <1>2 DEF IInv, TakenInv, Buffered
  <2>3. taken'[p] = 1
    BY <2>2, <1>2, <1>3 DEF IInv, TypeOK
  <2>4. Buffered(p)'
    BY <1>1, <1>2, <1>3 DEF Buffered, mainVars
  <2>5. ASSUME NEW s \in DOMAIN file.rows, s # p
        PROVE  (Buffered(s)' <=> Buffered(s)) /\ taken'[s] = taken[s]
    <3>1. s \in Nat
      BY <1>1, NextRow
    <3>2. s < q <=> s < p
      BY <3>1, <2>5, <1>1, <1>2
    <3>3. QED  BY <3>2, <1>0, <1>3, <2>5 DEF Buffered, IInv, TypeOK, mainVars
  <2>6. \A v \in Active, s \in DOMAIN file.rows : PassedBy(v, s)' <=> PassedBy(v, s)
    BY <1>3 DEF PassedBy, mainVars, workerVars
  <2>7. ASSUME NEW s \in DOMAIN file.rows
        PROVE  taken'[s] = IF (\E v \in Active : PassedBy(v, s)') \/ Buffered(s)' THEN 1 ELSE 0
    <3>1. CASE s = p
      BY <3>1, <2>3, <2>4
    <3>2. CASE s # p
      BY <3>2, <2>5, <2>6 DEF IInv, TakenInv
    <3>3. QED  BY <3>1, <3>2
  <2>8. Active' = Active /\ file' = file
    BY <1>3 DEF Active
  <2>9. QED  BY <2>7, <2>8 DEF TakenInv
<1>7. QED  BY <1>3, <1>4, <1>5, <1>6 DEF IInv

LEMMA BufferDoneStep ==
  ASSUME IInv, BufferDone
  PROVE  IInv'
<1>1. /\ pc = "buffer" /\ bp = file.size /\ LineStart(file, bp) /\ tail <= bp
  BY IInvFacts DEF IInv, TypeOK, BufferInv, BufferDone
<1>2. TypeOK' /\ MainInv'
  BY <1>1 DEF IInv, TypeOK, MainInv, BufferDone, workerVars, LineStart
<1>3. WorkerInv' /\ BufferInv'
  BY <1>1 DEF IInv, WorkerInv, BufferInv, BufferDone, workerVars, Active, LineStart
<1>4. TakenInv'
  BY <1>1 DEF IInv, TakenInv, PassedBy, Buffered, BufferDone, workerVars, Active
<1>5. QED  BY <1>2, <1>3, <1>4 DEF IInv, BufferDone

LEMMA NextIInv == IInv /\ [Next]_vars => IInv'
<1> SUFFICES ASSUME IInv, [Next]_vars
             PROVE  IInv'
  OBVIOUS
<1>1. CASE MainStep
  BY <1>1, ChooseTailStep, AssignStep, AssignedStep, JoinStep, BufferRowStep, BufferDoneStep
     DEF MainStep
<1>2. CASE \E w \in Active : WorkerStep(w)
  BY <1>2, StartWorkerStep, ParseRowStep, EndRangeStep DEF WorkerStep
<1>3. CASE UNCHANGED vars
  BY <1>3 DEF vars, mainVars, workerVars, IInv, TypeOK, MainInv, WorkerInv, BufferInv, TakenInv,
              PassedBy, Buffered, Active, LineStart
<1>4. QED  BY <1>1, <1>2, <1>3 DEF Next

---------------------------------------------------------------------------
LEMMA IInvHolds == Spec => []IInv
<1>1. QED  BY InitIInv, NextIInv, PTL DEF Spec

(* The ranges of the variables of main's split loop and of the workers.    *)
THEOREM TypeCorrect == Spec => []TypeOK
<1>1. IInv => TypeOK
  BY DEF IInv
<1>2. QED  BY <1>1, IInvHolds, PTL

(* No row is parsed twice and none is left out, for any input, any number  *)
(* of threads and any sampling ratio.                                      *)
THEOREM ExactlyOnce == Spec => []OnceEach
<1>1. ASSUME IInv
      PROVE  OnceEach
  <2>1. \A s \in DOMAIN file.rows : taken[s] <= 1
    BY <1>1 DEF IInv, TakenInv
  <2>2. ASSUME pc = "done", NEW s \in DOMAIN file.rows
        PROVE  taken[s] = 1
    <3>1. /\ s \in Nat /\ s < file.size /\ bp = file.size /\ tail \in Nat /\ cursor = tail
          /\ t = threads
      BY <1>1, <2>2, IInvFacts, NextRow DEF IInv, BufferInv, MainInv, FileOK
    <3>2. CASE tail <= s
      BY <3>1, <3>2, <1>1, <2>2 DEF IInv, TakenInv, Buffered
    <3>3. CASE s < tail
      <4>1. PICK w \in 0..(t - 1) : begin[w] <= s /\ s < end[w]
        BY <3>1, <3>3, <1>1, <2>2 DEF IInv, MainInv
      <4>2. w \in Active
        BY <4>1, <3>1 DEF Active
      <4>3. wpc[w] = "done" /\ pos[w] = end[w]
        BY <4>2, <1>1, <2>2 DEF IInv, WorkerInv
      <4>4. PassedBy(w, s)
        BY <4>1, <4>3 DEF PassedBy
      <4>5. QED  BY <4>2, <4>4, <1>1 DEF IInv, TakenInv
    <3>4. QED  BY <3>1, <3>2, <3>3
  <2>3. QED  BY <2>1, <2>2 DEF OnceEach
<1>2. QED  BY <1>1, IInvHolds, PTL

(* Workers and the tail loop always stand at the start of a row.           *)
THEOREM Aligned == Spec => []StartsAligned
<1>1. IInv => StartsAligned
  BY DEF IInv, WorkerInv, BufferInv, StartsAligned
<1>2. QED  BY <1>1, IInvHolds, PTL

(* No load of the parser leaves the mapping or the padded buffer.          *)
THEOREM NoLoadOutside == Spec => []LoadsInside
<1>1. ASSUME IInv
      PROVE  LoadsInside
  <2>1. ASSUME NEW w \in Active, wpc[w] \in {"sample", "rest"}, pos[w] < stop[w],
               NEW e \in Loads(file.rows[pos[w]])
        PROVE  pos[w] + e <= file.size
    <3>1. pc = "work" /\ w \in Threads
      <4>1. w \in Threads /\ wpc[w] # "idle" /\ wpc[w] # "done"
        BY <1>1, <2>1, IInvFacts
      <4>2. QED  BY <4>1, <1>1 DEF IInv, TypeOK, WorkerInv
    <3>2. /\ pos[w] \in Nat /\ stop[w] \in Nat /\ end[w] \in Nat /\ tail \in Nat
          /\ stop[w] <= end[w] /\ end[w] <= tail /\ tail <= file.size /\ file.size \in Nat
          /\ LineStart(file, pos[w]) /\ FileOK(file)
      BY <1>1, <2>1, <3>1, WorkerFacts DEF IInv, WorkerInv, TypeOK
    <3>3. pos[w] \in DOMAIN file.rows /\ file.rows[pos[w]] \in Shape
      BY <2>1, <3>2 DEF LineStart, FileOK
    <3>4. pos[w] + TailSlack <= file.size
      BY <1>1, <2>1, <3>1, <3>2, <3>3, TailFacts DEF IInv, MainInv
    <3>5. e \in Nat /\ e <= 149
      BY <3>3, RowFacts
    <3>6. QED  BY <3>2, <3>4, <3>5 DEF TailSlack
  <2>2. ASSUME pc = "buffer"
        PROVE  /\ file.size - tail <= BufferSize
               /\ bp < file.size =>
                    \A e \in Loads(file.rows[bp]) : (bp - tail) + e <= BufferSize
    <3>1. /\ FileOK(file) /\ file.size \in Nat /\ tail \in Nat /\ bp \in Nat
          /\ file.size - tail <= TailSlack
          /\ tail <= bp /\ LineStart(file, bp)
      BY <1>1, <2>2, IInvFacts, TailFacts DEF IInv, TypeOK, MainInv, BufferInv
    <3>2. ASSUME bp < file.size, NEW e \in Loads(file.rows[bp])
          PROVE  (bp - tail) + e <= BufferSize
      <4>1. file.rows[bp] \in Shape
        BY <3>1, <3>2 DEF LineStart, FileOK
      <4>2. e \in Nat /\ e <= 149
        BY <4>1, <3>2, RowFacts
      <4>3. QED  BY <3>1, <3>2, <4>2 DEF BufferSize, TailSlack, MaxLineLen
    <3>3. QED  BY <3>1, <3>2 DEF BufferSize, TailSlack, MaxLineLen
  <2>3. QED  BY <2>1, <2>2 DEF LoadsInside
<1>2. QED  BY <1>1, IInvHolds, PTL

---------------------------------------------------------------------------
(* NameMatch: each program's test decides name equality, for every name    *)
(* length, every byte and whatever follows a name in memory.               *)
IsView(v) ==
  /\ v.len \in Lengths /\ v.at \in [Reach -> Bytes]
  /\ \A i \in 0..(v.len - 1) : v.at[i] # 0

LEMMA Sizes ==
  ASSUME NEW v, IsView(v)
  PROVE  /\ MaxLen \in Nat /\ v.len \in Nat /\ 1 <= v.len /\ v.len <= MaxLen
         /\ HeadLen(v) \in 1..8 /\ HeadLen(v) <= v.len /\ (v.len >= 8 => HeadLen(v) = 8)
         /\ \A i \in 0..(v.len + 15) : i \in Reach
<1>1. MaxLen \in Nat /\ v.len \in 1..MaxLen
  BY NameAssumption DEF IsView, Lengths
<1>2. /\ HeadLen(v) \in 1..8 /\ HeadLen(v) <= v.len /\ (v.len >= 8 => HeadLen(v) = 8)
  BY <1>1 DEF HeadLen
<1>3. \A i \in 0..(v.len + 15) : i \in Reach
  BY <1>1 DEF Reach
<1>4. QED  BY <1>1, <1>2, <1>3

LEMMA ViewsAreViews == \A v \in Views : IsView(v)
<1> SUFFICES ASSUME NEW n \in Names, NEW j \in Junk
             PROVE  IsView(View(n, j))
  BY DEF Views
<1>1. /\ n.len \in Lengths /\ n.at \in [Reach -> Bytes] /\ j \in [Reach -> Bytes]
      /\ \A i \in 0..(n.len - 1) : n.at[i] # 0
  BY NameAssumption
<1>2. n.len \in Nat /\ MaxLen \in Nat /\ n.len <= MaxLen
  BY <1>1, NameAssumption DEF Lengths
<1>3. \A i \in 0..(n.len - 1) : i \in Reach /\ i < n.len
  BY <1>2 DEF Reach
<1>4. View(n, j).len = n.len /\ View(n, j).at = [i \in Reach |-> IF i < n.len THEN n.at[i] ELSE j[i]]
  BY DEF View
<1>5. View(n, j).at \in [Reach -> Bytes]
  BY <1>1, <1>4
<1>6. \A i \in 0..(n.len - 1) : View(n, j).at[i] # 0
  BY <1>1, <1>3, <1>4
<1>7. QED  BY <1>1, <1>4, <1>5, <1>6 DEF IsView

(* The copy in ctx.names is the same name, with a zero behind it.          *)
LEMMA StoredView ==
  ASSUME NEW v, IsView(v), NEW j \in Junk
  PROVE  LET s == Terminated(View(v, j)) IN
         IsView(s) /\ Same(v, s) /\ s.at[s.len] = 0
<1> DEFINE w == View(v, j)
           s == Terminated(w)
<1>1. /\ v.len \in Lengths /\ v.len \in Nat /\ v.len <= MaxLen /\ MaxLen \in Nat
      /\ v.at \in [Reach -> Bytes] /\ j \in [Reach -> Bytes] /\ 0 \in Bytes
      /\ \A i \in 0..(v.len - 1) : v.at[i] # 0
  BY Sizes, NameAssumption DEF IsView
<1>2. w.len = v.len /\ w.at = [i \in Reach |-> IF i < v.len THEN v.at[i] ELSE j[i]]
  BY DEF View
<1>3. s.len = v.len /\ s.at = [i \in Reach |-> IF i = v.len THEN 0 ELSE w.at[i]]
  BY <1>2 DEF Terminated
<1>4. \A i \in 0..(v.len - 1) : i \in Reach /\ i < v.len /\ i # v.len
  BY <1>1 DEF Reach
<1>5. v.len \in Reach
  BY <1>1 DEF Reach
<1>6. s.at \in [Reach -> Bytes]
  BY <1>1, <1>2, <1>3
<1>7. \A i \in 0..(v.len - 1) : s.at[i] = v.at[i]
  BY <1>2, <1>3, <1>4
<1>8. QED  BY <1>1, <1>3, <1>5, <1>6, <1>7 DEF IsView, Same

---------------------------------------------------------------------------
(* The fingerprint lane by lane; it is the same whichever way the last     *)
(* word is taken.                                                          *)
FrontBytes(v) == [i \in Lanes |-> IF i < HeadLen(v) THEN v.at[i] ELSE 0]
Back(v)  == [i \in Lanes |-> IF i < HeadLen(v) THEN v.at[v.len - HeadLen(v) + i] ELSE 0]
Ends(v)  == [first8 |-> FrontBytes(v), last8 |-> Back(v), len |-> v.len]
Kept(v)  ==
  [len |-> v.len, first8 |-> FrontBytes(v), last8 |-> Back(v), mid8 |-> Load8(v, 8),
   bits |-> IF HashBits(Ends(v)) = 0 THEN 1 ELSE HashBits(Ends(v))]

LEMMA FingerprintIsKept ==
  ASSUME NEW v, IsView(v)
  PROVE  /\ First8(v) = FrontBytes(v) /\ Last8(v) = Back(v)
         /\ Fingerprint(v) = Kept(v) /\ Bits(v) = Kept(v).bits
<1>1. First8(v) = FrontBytes(v)
  BY DEF First8, Keep, Load8, FrontBytes, Lanes
<1>2. Keep(v, Load8(v, v.len - HeadLen(v))) = Back(v)
  BY DEF Keep, Load8, Back
<1>3. LastOrFirst(v) = Back(v)
  <2>1. CASE v.len >= 8
    <3>1. HeadLen(v) = 8 /\ LastOrFirst(v) = Load8(v, v.len - 8)
      BY <2>1, Sizes DEF LastOrFirst
    <3>2. \A i \in Lanes : i < 8
      BY DEF Lanes
    <3>3. QED  BY <3>1, <3>2 DEF Load8, Back
  <2>2. CASE ~(v.len >= 8)
    <3>1. HeadLen(v) = v.len /\ LastOrFirst(v) = FrontBytes(v)
      BY <2>2, <1>1, Sizes DEF LastOrFirst, HeadLen
    <3>2. \A i \in Lanes : v.len - v.len + i = i
      BY Sizes DEF Lanes
    <3>3. QED  BY <3>1, <3>2 DEF FrontBytes, Back
  <2>3. QED  BY <2>1, <2>2
<1>4. Last8(v) = Back(v)
  BY <1>2, <1>3 DEF Last8
<1>5. Bits(v) = Kept(v).bits
  BY <1>1, <1>4 DEF Bits, Kept, Ends
<1>6. QED  BY <1>1, <1>4, <1>5 DEF Fingerprint, Kept

(* Equal names have equal first and last words, wherever they are.         *)
LEMMA SameKept ==
  ASSUME NEW v1, NEW v2, IsView(v1), IsView(v2), Same(v1, v2)
  PROVE  /\ SameEnds(Kept(v1), Kept(v2)) /\ Kept(v1).bits = Kept(v2).bits
         /\ v1.len > 16 => Kept(v1).mid8 = Kept(v2).mid8
<1>1. /\ v1.len = v2.len /\ v1.len \in Nat /\ HeadLen(v1) = HeadLen(v2)
      /\ HeadLen(v1) \in 1..8 /\ HeadLen(v1) <= v1.len
      /\ \A i \in 0..(v1.len - 1) : v1.at[i] = v2.at[i]
  BY Sizes DEF Same, HeadLen
<1>2. \A i \in Lanes : i < HeadLen(v1) => v1.at[i] = v2.at[i]
  BY <1>1 DEF Lanes
<1>3. \A i \in Lanes : i < HeadLen(v1) => v1.at[v1.len - HeadLen(v1) + i] = v2.at[v2.len - HeadLen(v2) + i]
  BY <1>1 DEF Lanes
<1>4. v1.len > 16 => \A i \in Lanes : v1.at[8 + i] = v2.at[8 + i]
  BY <1>1 DEF Lanes
<1>5. FrontBytes(v1) = FrontBytes(v2)
  BY <1>1, <1>2 DEF FrontBytes
<1>6. Back(v1) = Back(v2)
  BY <1>1, <1>3 DEF Back
<1>7. v1.len > 16 => Load8(v1, 8) = Load8(v2, 8)
  BY <1>4 DEF Load8
<1>8. Ends(v1) = Ends(v2)
  BY <1>1, <1>5, <1>6 DEF Ends
<1>9. QED  BY <1>1, <1>5, <1>6, <1>7, <1>8 DEF Kept, SameEnds

LEMMA SameMiddle ==
  ASSUME NEW v1, NEW v2, IsView(v1), IsView(v2), Same(v1, v2), NEW from \in {8, 16}
  PROVE  MiddleEqual(from, v1, v2, v1.len)
<1> SUFFICES ASSUME NEW k \in MiddleWords(from, v1.len)
             PROVE  Load8(v1, 8 * k) = Load8(v2, 8 * k)
  BY DEF MiddleEqual
<1>1. k \in Nat /\ 8 * k < v1.len - 8 /\ v1.len \in Nat
  BY Sizes DEF MiddleWords
<1>2. \A i \in Lanes : 8 * k + i \in 0..(v1.len - 1)
  BY <1>1 DEF Lanes
<1>3. \A i \in Lanes : v1.at[8 * k + i] = v2.at[8 * k + i]
  BY <1>2 DEF Same
<1>4. QED  BY <1>3 DEF Load8

---------------------------------------------------------------------------
(* What each test decides: v0 is where the slot's fingerprint was taken,   *)
(* v1 the copy in ctx.names, v2 the row.                                   *)
Triple(v0, v1, v2) ==
  IsView(v0) /\ IsView(v1) /\ IsView(v2) /\ Same(v0, v1) /\ v1.at[v1.len] = 0

LEMMA TripleSame ==
  ASSUME NEW v0, NEW v1, NEW v2, Triple(v0, v1, v2)
  PROVE  /\ v0.len = v1.len /\ \A i \in 0..(v1.len - 1) : v0.at[i] = v1.at[i]
         /\ Same(v1, v2) => /\ SameEnds(Kept(v0), Fingerprint(v2)) /\ Kept(v0).bits = Bits(v2)
                            /\ v2.len > 16 => Kept(v0).mid8 = Fingerprint(v2).mid8
                            /\ v1.len = v2.len
<1>1. IsView(v0) /\ IsView(v1) /\ IsView(v2) /\ Same(v0, v1)
  BY DEF Triple
<1>2. v0.len = v1.len /\ \A i \in 0..(v1.len - 1) : v0.at[i] = v1.at[i]
  BY <1>1 DEF Same
<1>3. ASSUME Same(v1, v2)
      PROVE  /\ SameEnds(Kept(v0), Fingerprint(v2)) /\ Kept(v0).bits = Bits(v2)
             /\ v2.len > 16 => Kept(v0).mid8 = Fingerprint(v2).mid8
             /\ v1.len = v2.len
  <2>1. Same(v0, v2) /\ v0.len = v2.len /\ v1.len = v2.len
    BY <1>2, <1>3 DEF Same
  <2>2. QED  BY <1>1, <2>1, SameKept, FingerprintIsKept
<1>4. QED  BY <1>2, <1>3

(* The ends decide the first and the last eight bytes.                     *)
LEMMA EndsDecide ==
  ASSUME NEW v0, NEW v1, NEW v2, Triple(v0, v1, v2), SameEnds(Kept(v0), Fingerprint(v2))
  PROVE  /\ v1.len = v2.len /\ v0.len = v2.len
         /\ \A i \in 0..(v1.len - 1) : i < 8 \/ i >= v1.len - 8 => v1.at[i] = v2.at[i]
<1>1. IsView(v0) /\ IsView(v1) /\ IsView(v2)
  BY DEF Triple
<1>2. Kept(v0).len = Kept(v2).len /\ FrontBytes(v0) = FrontBytes(v2) /\ Back(v0) = Back(v2)
  BY <1>1, FingerprintIsKept DEF SameEnds, Kept
<1>3. v0.len = v2.len /\ v0.len = v1.len /\ HeadLen(v0) = HeadLen(v2)
  BY <1>2, TripleSame DEF Kept, HeadLen
<1>4. /\ v0.len \in Nat /\ HeadLen(v0) \in 1..8 /\ HeadLen(v0) <= v0.len
      /\ v0.len >= 8 => HeadLen(v0) = 8
      /\ v0.len < 8 => HeadLen(v0) = v0.len
  BY <1>1, Sizes DEF HeadLen
<1>5. ASSUME NEW i \in 0..(v1.len - 1), i < 8 \/ i >= v1.len - 8
      PROVE  v1.at[i] = v2.at[i]
  <2>1. i \in Nat /\ i < v0.len /\ v0.at[i] = v1.at[i]
    BY <1>3, <1>4, TripleSame
  <2>2. CASE i < 8
    <3>1. i \in Lanes /\ i < HeadLen(v0)
      BY <2>1, <2>2, <1>4 DEF Lanes
    <3>2. FrontBytes(v0)[i] = v0.at[i] /\ FrontBytes(v2)[i] = v2.at[i]
      BY <3>1, <1>3 DEF FrontBytes
    <3>3. QED  BY <3>2, <1>2, <2>1
  <2>3. CASE i >= 8 /\ i >= v1.len - 8
    <3> DEFINE k == i - (v0.len - 8)
    <3>1. k \in Lanes /\ HeadLen(v0) = 8 /\ k < HeadLen(v0) /\ i = v0.len - HeadLen(v0) + k
      BY <2>1, <2>3, <1>3, <1>4 DEF Lanes
    <3>2. Back(v0)[k] = v0.at[i] /\ Back(v2)[k] = v2.at[i]
      BY <3>1, <1>3 DEF Back
    <3>3. QED  BY <3>2, <1>2, <2>1
  <2>4. QED  BY <1>5, <2>2, <2>3, <2>1, <1>3, <1>4
<1>6. QED  BY <1>3, <1>5

(* middle_equal decides from its first word to the last eight bytes.       *)
LEMMA MiddleDecides ==
  ASSUME NEW v1, NEW v2, NEW from \in {8, 16}, IsView(v1), v1.len = v2.len,
         MiddleEqual(from, v1, v2, v2.len)
  PROVE  \A i \in 0..(v1.len - 1) : from <= i /\ i < v1.len - 8 => v1.at[i] = v2.at[i]
<1> SUFFICES ASSUME NEW i \in 0..(v1.len - 1), from <= i, i < v1.len - 8
             PROVE  v1.at[i] = v2.at[i]
  OBVIOUS
<1>1. v1.len \in Nat /\ v1.len <= MaxLen /\ MaxLen \in Nat
  BY Sizes
<1>2. PICK k \in Nat, l \in Lanes : i = 8 * k + l
  <2>1. (i \div 8) \in Nat /\ (i % 8) \in Lanes /\ i = 8 * (i \div 8) + (i % 8)
    BY DEF Lanes
  <2>2. QED  BY <2>1
<1>3. k \in MiddleWords(from, v2.len)
  <2>1. CASE from = 8
    BY <2>1, <1>1, <1>2 DEF MiddleWords, Lanes
  <2>2. CASE from = 16
    BY <2>2, <1>1, <1>2 DEF MiddleWords, Lanes
  <2>3. QED  BY <2>1, <2>2
<1>4. Load8(v1, 8 * k) = Load8(v2, 8 * k)
  BY <1>3 DEF MiddleEqual
<1>5. Load8(v1, 8 * k)[l] = v1.at[8 * k + l] /\ Load8(v2, 8 * k)[l] = v2.at[8 * k + l]
  BY DEF Load8
<1>6. QED  BY <1>2, <1>4, <1>5

LEMMA MidDecides ==
  ASSUME NEW v0, NEW v1, NEW v2, Triple(v0, v1, v2)
  PROVE  MatchesMid(Kept(v0), v1, v2) <=> Same(v1, v2)
<1>1. IsView(v0) /\ IsView(v1) /\ IsView(v2) /\ v1.len \in Nat
  BY Sizes DEF Triple
<1>2. ASSUME Same(v1, v2)
      PROVE  MatchesMid(Kept(v0), v1, v2)
  <2>1. MiddleEqual(16, v1, v2, v2.len)
    BY <1>1, <1>2, SameMiddle, TripleSame
  <2>2. QED  BY <1>2, <2>1, TripleSame DEF MatchesMid
<1>3. ASSUME MatchesMid(Kept(v0), v1, v2)
      PROVE  Same(v1, v2)
  <2>1. /\ SameEnds(Kept(v0), Fingerprint(v2))
        /\ v2.len > 16 => Kept(v0).mid8 = Fingerprint(v2).mid8
        /\ v2.len > 24 => MiddleEqual(16, v1, v2, v2.len)
    <3>1. v2.len \in Nat
      BY <1>1, Sizes
    <3>2. QED  BY <3>1, <1>3 DEF MatchesMid
  <2>2. /\ v1.len = v2.len /\ v0.len = v2.len
        /\ \A i \in 0..(v1.len - 1) : i < 8 \/ i >= v1.len - 8 => v1.at[i] = v2.at[i]
    BY <2>1, EndsDecide
  <2>3. v2.len > 16 => \A i \in Lanes : v0.at[8 + i] = v2.at[8 + i]
    <3>1. Kept(v0).mid8 = [i \in Lanes |-> v0.at[8 + i]]
      BY DEF Kept, Load8
    <3>2. Fingerprint(v2).mid8 = [i \in Lanes |-> v2.at[8 + i]]
      BY DEF Fingerprint, Load8
    <3>3. QED  BY <3>1, <3>2, <2>1
  <2>4. ASSUME NEW i \in 0..(v1.len - 1), i >= 8, i < v1.len - 8
        PROVE  v1.at[i] = v2.at[i]
    <3>1. CASE i < 16
      <4>1. i - 8 \in Lanes /\ 8 + (i - 8) = i /\ v2.len > 16
        BY <3>1, <2>4, <2>2, <1>1 DEF Lanes
      <4>2. v0.at[i] = v2.at[i]
        BY <4>1, <2>3
      <4>3. QED  BY <4>2, TripleSame
    <3>2. CASE i >= 16
      <4>1. v2.len > 24
        BY <3>2, <2>4, <2>2, <1>1
      <4>2. QED  BY <4>1, <3>2, <2>1, <2>2, <2>4, <1>1, MiddleDecides
    <3>3. QED  BY <3>1, <3>2
  <2>5. QED  BY <2>2, <2>4, <1>1 DEF Same
<1>4. QED  BY <1>2, <1>3

LEMMA WordsDecides ==
  ASSUME NEW v0, NEW v1, NEW v2, Triple(v0, v1, v2)
  PROVE  MatchesWords(Kept(v0), v1, v2) <=> Same(v1, v2)
<1>1. IsView(v0) /\ IsView(v1) /\ IsView(v2) /\ v1.len \in Nat
  BY Sizes DEF Triple
<1>2. ASSUME Same(v1, v2)
      PROVE  MatchesWords(Kept(v0), v1, v2)
  <2>1. MiddleEqual(8, v1, v2, v2.len)
    BY <1>1, <1>2, SameMiddle, TripleSame
  <2>2. QED  BY <1>2, <2>1, TripleSame DEF MatchesWords
<1>3. ASSUME MatchesWords(Kept(v0), v1, v2)
      PROVE  Same(v1, v2)
  <2>1. /\ SameEnds(Kept(v0), Fingerprint(v2))
        /\ v2.len > 16 => MiddleEqual(8, v1, v2, v2.len)
    BY <1>3 DEF MatchesWords
  <2>2. /\ v1.len = v2.len /\ v0.len = v2.len
        /\ \A i \in 0..(v1.len - 1) : i < 8 \/ i >= v1.len - 8 => v1.at[i] = v2.at[i]
    BY <2>1, EndsDecide
  <2>3. ASSUME NEW i \in 0..(v1.len - 1), i >= 8, i < v1.len - 8
        PROVE  v1.at[i] = v2.at[i]
    <3>1. v2.len > 16
      BY <2>3, <2>2, <1>1
    <3>2. QED  BY <3>1, <2>1, <2>2, <2>3, <1>1, MiddleDecides
  <2>4. QED  BY <2>2, <2>3, <1>1 DEF Same
<1>4. QED  BY <1>2, <1>3

LEMMA MemcmpDecides ==
  ASSUME NEW v0, NEW v1, NEW v2, Triple(v0, v1, v2)
  PROVE  MatchesMemcmp(Kept(v0), v1, v2) <=> Same(v1, v2)
<1>1. IsView(v0) /\ IsView(v1) /\ IsView(v2) /\ v1.len \in Nat /\ v2.len \in Nat
  BY Sizes DEF Triple
<1>2. ASSUME Same(v1, v2)
      PROVE  MatchesMemcmp(Kept(v0), v1, v2)
  <2>1. v2.len > 16 => MemcmpFrom8(v1, v2, v2.len - 16)
    BY <1>1, <1>2 DEF MemcmpFrom8, Same
  <2>2. QED  BY <1>2, <2>1, TripleSame DEF MatchesMemcmp
<1>3. ASSUME MatchesMemcmp(Kept(v0), v1, v2)
      PROVE  Same(v1, v2)
  <2>1. /\ SameEnds(Kept(v0), Fingerprint(v2))
        /\ v2.len > 16 => MemcmpFrom8(v1, v2, v2.len - 16)
    BY <1>3 DEF MatchesMemcmp
  <2>2. /\ v1.len = v2.len /\ v0.len = v2.len
        /\ \A i \in 0..(v1.len - 1) : i < 8 \/ i >= v1.len - 8 => v1.at[i] = v2.at[i]
    BY <2>1, EndsDecide
  <2>3. ASSUME NEW i \in 0..(v1.len - 1), i >= 8, i < v1.len - 8
        PROVE  v1.at[i] = v2.at[i]
    <3>1. v2.len > 16 /\ i \in 8..(v2.len - 16 + 7)
      BY <2>3, <2>2, <1>1
    <3>2. QED  BY <3>1, <2>1 DEF MemcmpFrom8
  <2>4. QED  BY <2>2, <2>3, <1>1 DEF Same
<1>4. QED  BY <1>2, <1>3

LEMMA StrncmpDecides ==
  ASSUME NEW v0, NEW v1, NEW v2, Triple(v0, v1, v2)
  PROVE  MatchesStrncmp(v1, v2) <=> Same(v1, v2)
<1>1. /\ v1.len \in Nat /\ v2.len \in Nat /\ v1.at[v1.len] = 0
      /\ \A i \in 0..(v1.len - 1) : v1.at[i] # 0
      /\ \A i \in 0..(v2.len - 1) : v2.at[i] # 0
  BY Sizes DEF Triple, IsView
<1>2. ASSUME Same(v1, v2)
      PROVE  MatchesStrncmp(v1, v2)
  BY <1>1, <1>2 DEF Same, MatchesStrncmp, Strncmp
<1>3. ASSUME MatchesStrncmp(v1, v2)
      PROVE  Same(v1, v2)
  <2>1. ASSUME NEW i \in 0..(v2.len - 1)
        PROVE  v1.at[i] = v2.at[i]
    <3>1. \A j \in 0..(i - 1) : v2.at[j] # 0
      BY <1>1
    <3>2. QED  BY <3>1, <1>3 DEF MatchesStrncmp, Strncmp
  <2>2. v1.at[v2.len] = 0
    BY <1>3 DEF MatchesStrncmp
  <2>3. ~(v2.len < v1.len)
    BY <1>1, <2>2
  <2>4. ~(v1.len < v2.len)
    BY <1>1, <2>1
  <2>5. QED  BY <2>1, <2>3, <2>4, <1>1 DEF Same
<1>4. QED  BY <1>2, <1>3

LEMMA StrcmpDecides ==
  ASSUME NEW v0, NEW v1, NEW v2, Triple(v0, v1, v2)
  PROVE  MatchesStrcmp(v1, v2) <=> Same(v1, v2)
<1> SUFFICES ASSUME NEW z, z = Terminated(v2), NEW n, n = MaxLen + 1
             PROVE  Strncmp(v1, z, n) <=> Same(v1, v2)
  BY DEF MatchesStrcmp
<1>1. /\ v1.len \in Nat /\ v2.len \in Nat /\ v1.at[v1.len] = 0
      /\ v1.len <= MaxLen /\ v2.len <= MaxLen /\ MaxLen \in Nat
      /\ \A i \in 0..(v1.len - 1) : v1.at[i] # 0
      /\ \A i \in 0..(v2.len - 1) : v2.at[i] # 0
  BY Sizes DEF Triple, IsView
<1>2. z.at[v2.len] = 0 /\ \A i \in 0..(v2.len - 1) : z.at[i] = v2.at[i]
  <2>1. z.at = [i \in Reach |-> IF i = v2.len THEN 0 ELSE v2.at[i]]
    BY DEF Terminated
  <2>2. v2.len \in Reach /\ \A i \in 0..(v2.len - 1) : i \in Reach /\ i # v2.len
    BY <1>1 DEF Reach
  <2>3. QED  BY <2>1, <2>2
<1>3. ASSUME Same(v1, v2)
      PROVE  Strncmp(v1, z, n)
  <2>1. v1.len = v2.len /\ \A i \in 0..(v1.len - 1) : v1.at[i] = z.at[i]
    BY <1>2, <1>3 DEF Same
  <2>2. ASSUME NEW i \in 0..(n - 1)
        PROVE  v1.at[i] = z.at[i] \/ \E j \in 0..(i - 1) : v1.at[j] = 0 /\ z.at[j] = 0
    <3>1. CASE i < v1.len
      BY <3>1, <2>1, <1>1
    <3>2. CASE i = v1.len
      BY <3>2, <2>1, <1>1, <1>2
    <3>3. CASE i > v1.len
      <4>1. v1.len \in 0..(i - 1) /\ v1.at[v1.len] = 0 /\ z.at[v1.len] = 0
        BY <3>3, <2>1, <1>1, <1>2
      <4>2. QED  BY <4>1
    <3>4. QED  BY <3>1, <3>2, <3>3, <1>1
  <2>3. QED  BY <2>2 DEF Strncmp
<1>4. ASSUME Strncmp(v1, z, n)
      PROVE  Same(v1, v2)
  <2>1. \A i \in 0..(n - 1) :
          v1.at[i] = z.at[i] \/ \E j \in 0..(i - 1) : v1.at[j] = 0 /\ z.at[j] = 0
    BY <1>4 DEF Strncmp
  <2>2. ASSUME NEW i \in 0..v2.len
        PROVE  v1.at[i] = z.at[i]
    <3>1. \A j \in 0..(i - 1) : z.at[j] # 0
      BY <1>1, <1>2
    <3>2. i \in 0..(n - 1)
      BY <1>1
    <3>3. QED  BY <3>1, <3>2, <2>1
  <2>3. v1.at[v2.len] = 0
    BY <2>2, <1>1, <1>2
  <2>4. ~(v2.len < v1.len)
    BY <1>1, <2>3
  <2>5. ~(v1.len < v2.len)
    <3>1. ASSUME v1.len < v2.len
          PROVE  FALSE
      <4>1. v1.len \in 0..v2.len /\ v1.len \in 0..(v2.len - 1)
        BY <3>1, <1>1
      <4>2. z.at[v1.len] = 0
        BY <4>1, <2>2, <1>1
      <4>3. QED  BY <4>1, <4>2, <1>1, <1>2
    <3>2. QED  BY <3>1
  <2>6. v1.len = v2.len
    BY <2>4, <2>5, <1>1
  <2>7. \A i \in 0..(v1.len - 1) : v1.at[i] = v2.at[i]
    BY <2>2, <2>6, <1>1, <1>2
  <2>8. QED  BY <2>6, <2>7 DEF Same
<1>5. QED  BY <1>3, <1>4

LEMMA Tests ==
  \A p \in NameTests : p.test \in {"strcmp", "strncmp", "memcmp", "bits", "words", "mid"}
BY DEF NameTests,
  Names00, Names01, Names02, Names03, Names04, Names05, Names06,
  Names07, Names08, Names09, Names10, Names11, Names12, Names13,
  Names14, Names15, Names16, Names17, Names18, Names19, Names20,
  Names21, Names22, Names23, Names24, Names25, Names26, Names27

LEMMA MatchDecides ==
  ASSUME NEW v0, NEW v1, NEW v2, Triple(v0, v1, v2), program \in NameTests
  PROVE  Matches(Kept(v0), v1, v2) <=> Same(v1, v2)
<1>1. MatchesBits(Kept(v0), v1, v2) <=> Same(v1, v2)
  BY MemcmpDecides, TripleSame DEF MatchesBits
<1>2. program.test \in {"strcmp", "strncmp", "memcmp", "bits", "words", "mid"}
  BY Tests
<1>3. QED
  BY <1>1, <1>2, MidDecides, WordsDecides, MemcmpDecides, StrncmpDecides, StrcmpDecides
  DEF Matches

---------------------------------------------------------------------------
(* The slot holds the fingerprint of a view of the name kept beside it.    *)
SlotInv ==
  /\ program \in NameTests
  /\ row \in Views /\ IsView(row)
  /\ slot = NoSlot => verdict = "none"
  /\ slot # NoSlot =>
       /\ IsView(stored) /\ stored.at[stored.len] = 0
       /\ \E v \in Views : IsView(v) /\ slot = Kept(v) /\ Same(v, stored)
  /\ MatchIsEquality

LEMMA SlotInvHolds == MatchSpec => []SlotInv
<1>1. MatchInit => SlotInv
  BY ViewsAreViews DEF MatchInit, SlotInv, MatchIsEquality
<1>2. ASSUME SlotInv, [MatchNext]_matchVars
      PROVE  SlotInv'
  <2>1. CASE InsertName
    <3>1. /\ slot = NoSlot /\ slot' = Fingerprint(row) /\ row' \in Views
          /\ verdict' = verdict /\ program' = program
      BY <2>1 DEF InsertName
    <3>2. PICK j \in Junk : stored' = Terminated(View(row, j))
      BY <2>1 DEF InsertName
    <3>3. IsView(row) /\ row \in Views /\ verdict = "none" /\ program \in NameTests
      BY <1>2, <3>1 DEF SlotInv
    <3>4. IsView(stored') /\ Same(row, stored') /\ stored'.at[stored'.len] = 0
      BY <3>2, <3>3, StoredView
    <3>5. slot' = Kept(row)
      BY <3>1, <3>3, FingerprintIsKept
    <3>6. IsView(row')
      BY <3>1, ViewsAreViews
    <3>7. \E v \in Views : IsView(v) /\ slot' = Kept(v) /\ Same(v, stored')
      BY <3>3, <3>4, <3>5
    <3>8. QED  BY <3>1, <3>3, <3>4, <3>6, <3>7 DEF SlotInv, MatchIsEquality, IsView
  <2>2. CASE Lookup
    <3>1. /\ slot # NoSlot /\ UNCHANGED <<program, slot, stored, row>>
          /\ verdict' = (IF Matches(slot, stored, row) THEN "found" ELSE "other")
      BY <2>2 DEF Lookup
    <3>2. IsView(stored) /\ IsView(row) /\ stored.at[stored.len] = 0 /\ program \in NameTests
      BY <1>2, <3>1 DEF SlotInv
    <3>3. PICK v \in Views : IsView(v) /\ slot = Kept(v) /\ Same(v, stored)
      BY <1>2, <3>1 DEF SlotInv
    <3>4. Matches(slot, stored, row) <=> Same(stored, row)
      BY <3>2, <3>3, MatchDecides DEF Triple
    <3>5. MatchIsEquality'
      BY <3>1, <3>4 DEF MatchIsEquality, Same
    <3>6. QED  BY <1>2, <3>1, <3>5 DEF SlotInv, IsView, Same
  <2>3. CASE UNCHANGED matchVars
    BY <1>2, <2>3 DEF matchVars, SlotInv, MatchIsEquality, IsView, Same
  <2>4. QED  BY <1>2, <2>1, <2>2, <2>3 DEF MatchNext
<1>3. QED  BY <1>1, <1>2, PTL DEF MatchSpec

(* The test on a slot, of every program, finds it exactly when it holds    *)
(* the same name.                                                          *)
THEOREM MatchCorrect == MatchSpec => []MatchIsEquality
<1>1. SlotInv => MatchIsEquality
  BY DEF SlotInv
<1>2. QED  BY <1>1, SlotInvHolds, PTL

(* A name is looked up from the slot it was inserted from, although the    *)
(* two are hashed from different places.                                   *)
THEOREM HashCorrect == MatchSpec => []SameNameSameSlot
<1>1. ASSUME SlotInv
      PROVE  SameNameSameSlot
  <2>1. ASSUME slot # NoSlot, Same(stored, row)
        PROVE  HashInput(stored) = HashInput(row)
    <3>1. IsView(stored) /\ IsView(row)
      BY <1>1, <2>1 DEF SlotInv
    <3>2. /\ stored.len = row.len
          /\ \A i \in 0..(stored.len - 1) : stored.at[i] = row.at[i]
      BY <2>1 DEF Same
    <3>3. First8(stored) = First8(row) /\ Last8(stored) = Last8(row)
      BY <3>1, <2>1, SameKept, FingerprintIsKept DEF Kept, SameEnds
    <3>4. [i \in 0..(stored.len - 1) |-> stored.at[i]] = [i \in 0..(row.len - 1) |-> row.at[i]]
      BY <3>2
    <3>5. QED  BY <3>2, <3>3, <3>4 DEF HashInput
  <2>2. QED  BY <2>1 DEF SameNameSameSlot
<1>2. QED  BY <1>1, SlotInvHolds, PTL

---------------------------------------------------------------------------
(* A function whose value at n is given, or follows from its value at a    *)
(* smaller number, exists: powers, digits and the value of digits are such.*)
Downwards(T, base, D, pre, G) ==
  /\ base \in [Nat -> T] /\ D \in SUBSET Nat /\ pre \in [Nat -> Nat]
  /\ G \in [Nat -> [T -> T]] /\ \A n \in D : pre[n] < n

Computes(f, T, base, D, pre, G) ==
  /\ f \in [Nat -> T]
  /\ \A n \in Nat : f[n] = IF n \in D THEN G[n][f[pre[n]]] ELSE base[n]

LEMMA Recursion ==
  ASSUME NEW T, NEW base, NEW D, NEW pre, NEW G, Downwards(T, base, D, pre, G)
  PROVE  \E f : Computes(f, T, base, D, pre, G)
<1> base \in [Nat -> T] /\ D \in SUBSET Nat /\ pre \in [Nat -> Nat]
  BY DEF Downwards
<1> G \in [Nat -> [T -> T]] /\ \A n \in D : pre[n] < n
  BY DEF Downwards
<1> DEFINE Body(g, n) == IF n \in D THEN G[n][g[pre[n]]] ELSE base[n]
           Solves(g, n) == g \in [Nat -> T] /\ \A k \in Nat : k < n => g[k] = Body(g, k)
           S == {n \in Nat : \E g : Solves(g, n)}
<1>1. \A g \in [Nat -> T], n \in Nat : Body(g, n) \in T
  OBVIOUS
<1>2. \A n \in Nat : pre[n] \in Nat /\ (n \in D => pre[n] < n)
  OBVIOUS
<1>3. \A g, h, n : g[pre[n]] = h[pre[n]] \/ n \notin D => Body(g, n) = Body(h, n)
  BY Zenon
<1> HIDE DEF Body
<1>4. 0 \in S
  <2>1. \A k \in Nat : ~ (k < 0)
    OBVIOUS
  <2>2. Solves(base, 0)
    BY <2>1, Zenon
  <2> QED
    BY <2>2
<1>5. ASSUME NEW n \in Nat, n \in S
      PROVE  n + 1 \in S
  <2>1. PICK g : Solves(g, n)
    BY <1>5
  <2> DEFINE h == [g EXCEPT ![n] = Body(g, n)]
  <2>2. h \in [Nat -> T] /\ h[n] = Body(g, n) /\ \A k \in Nat : k # n => h[k] = g[k]
    BY <1>1, <2>1
  <2> HIDE DEF h
  <2>3. ASSUME NEW k \in Nat, k < n + 1
        PROVE  h[k] = Body(h, k)
    <3>1. pre[k] # n \/ k \notin D
      BY <1>2, <2>3
    <3>2. h[pre[k]] = g[pre[k]] \/ k \notin D
      BY <1>2, <2>2, <3>1
    <3>3. Body(g, k) = Body(h, k)
      BY <1>3, <3>2, Zenon
    <3>4. CASE k = n
      BY <2>2, <3>3, <3>4, Zenon
    <3>5. CASE k < n
      <4>1. k # n /\ g[k] = Body(g, k)
        BY <2>1, <3>5
      <4> QED
        BY <2>2, <3>3, <4>1, Zenon
    <3> QED
      BY <2>3, <3>4, <3>5
  <2>4. Solves(h, n + 1)
    BY <2>2, <2>3
  <2>5. n + 1 \in Nat
    OBVIOUS
  <2> HIDE DEF Solves
  <2> QED
    BY <2>4, <2>5
<1>6. ASSUME NEW g, NEW m \in Nat, Solves(g, m), NEW h, NEW n \in Nat, Solves(h, n),
             NEW k \in Nat, k < m, k < n
      PROVE  g[k] = h[k]
  <2> DEFINE A == {j \in Nat : j < m /\ j < n /\ g[j] # h[j]}
  <2>1. A = {}
    <3> SUFFICES ASSUME A # {} PROVE FALSE
      OBVIOUS
    <3>1. A \subseteq Nat
      OBVIOUS
    <3>2. PICK j \in A : \A l \in A : j <= l
      <4> HIDE DEF A
      <4> QED
        BY <3>1, LeastNat
    <3>3. j \in Nat /\ j < m /\ j < n /\ g[j] # h[j]
      OBVIOUS
    <3>4. j \in D => g[pre[j]] = h[pre[j]]
      <4> SUFFICES ASSUME j \in D PROVE g[pre[j]] = h[pre[j]]
        OBVIOUS
      <4>1. pre[j] \in Nat /\ pre[j] < j
        BY <1>2, <3>3
      <4>2. pre[j] \notin A
        BY <3>2, <3>3, <4>1
      <4>3. pre[j] < m /\ pre[j] < n
        BY <3>3, <4>1
      <4> QED
        BY <4>1, <4>2, <4>3
    <3>5. Body(g, j) = Body(h, j)
      BY <1>3, <3>4, Zenon
    <3>6. g[j] = Body(g, j) /\ h[j] = Body(h, j)
      BY <1>6, <3>3
    <3> QED
      BY <3>3, <3>5, <3>6, Zenon
  <2> QED
    BY <1>6, <2>1
<1>7. \A n \in Nat : \E g : Solves(g, n)
  <2>1. \A n \in Nat : n \in S
    <3> HIDE DEF S
    <3> QED
      BY <1>4, <1>5, NatInduct
  <2> QED
    BY <2>1
<1> DEFINE Upto(n) == CHOOSE g : Solves(g, n + 1)
           f == [n \in Nat |-> Upto(n)[n]]
<1>8. \A n \in Nat : Solves(Upto(n), n + 1)
  <2> SUFFICES ASSUME NEW n \in Nat PROVE Solves(Upto(n), n + 1)
    OBVIOUS
  <2>1. PICK m \in Nat : m = n + 1
    OBVIOUS
  <2>2. \E g : Solves(g, m)
    BY <1>7
  <2> HIDE DEF Solves
  <2> QED
    BY <2>1, <2>2, Zenon
<1>9. \A n \in Nat : f[n] = Upto(n)[n]
  OBVIOUS
<1> HIDE DEF Upto
<1>10. \A n \in Nat : Upto(n) \in [Nat -> T] /\ Upto(n)[n] = Body(Upto(n), n)
  BY <1>8
<1>11. f \in [Nat -> T]
  BY <1>10
<1> HIDE DEF f, Solves
<1>12. ASSUME NEW n \in Nat
       PROVE  f[n] = Body(f, n)
  <2>1. n \in D => Upto(n)[pre[n]] = f[pre[n]]
    <3> SUFFICES ASSUME n \in D PROVE Upto(n)[pre[n]] = f[pre[n]]
      OBVIOUS
    <3>1. PICK k \in Nat : k = pre[n] /\ k < n
      BY <1>2
    <3>2. k < n + 1 /\ k < k + 1 /\ n + 1 \in Nat /\ k + 1 \in Nat
      BY <3>1
    <3>3. Solves(Upto(n), n + 1) /\ Solves(Upto(k), k + 1)
      BY <1>8
    <3>4. Upto(n)[k] = Upto(k)[k]
      BY <1>6, <3>2, <3>3
    <3> QED
      BY <1>9, <3>1, <3>4, Zenon
  <2>2. Body(Upto(n), n) = Body(f, n)
    BY <1>3, <2>1, Zenon
  <2> QED
    BY <1>9, <1>10, <2>2, Zenon
<1> QED
  BY <1>11, <1>12 DEF Body, Computes

(* The powers of k.                                                        *)
IsPower(f, k) == f = [n \in Nat |-> IF n = 0 THEN 1 ELSE k * f[n - 1]]

LEMMA PowerExists ==
  ASSUME NEW k \in Nat
  PROVE  \E f : IsPower(f, k)
<1> DEFINE base == [n \in Nat |-> 1]
           D == Nat \ {0}
           pre == [n \in Nat |-> IF n = 0 THEN 0 ELSE n - 1]
           G == [n \in Nat |-> [x \in Nat |-> k * x]]
<1>1. base \in [Nat -> Nat] /\ D \in SUBSET Nat /\ pre \in [Nat -> Nat]
  OBVIOUS
<1>2. G \in [Nat -> [Nat -> Nat]]
  <2>1. \A x \in Nat : k * x \in Nat
    OBVIOUS
  <2> QED
    BY <2>1, Zenon
<1>3. \A n \in D : pre[n] < n
  OBVIOUS
<1>4. PICK f \in [Nat -> Nat] : \A n \in Nat : f[n] = IF n \in D THEN G[n][f[pre[n]]] ELSE base[n]
  <2> HIDE DEF base, D, pre, G
  <2>1. Downwards(Nat, base, D, pre, G)
    BY <1>1, <1>2, <1>3 DEF Downwards
  <2>2. PICK f : Computes(f, Nat, base, D, pre, G)
    BY <2>1, Recursion
  <2> QED
    BY <2>2 DEF Computes
<1>5. ASSUME NEW n \in Nat
      PROVE  f[n] = IF n = 0 THEN 1 ELSE k * f[n - 1]
  <2>1. CASE n = 0
    BY <1>4, <2>1
  <2>2. CASE n # 0
    <3>1. n - 1 \in Nat /\ pre[n] = n - 1 /\ n \in D
      BY <2>2
    <3>2. PICK x \in Nat : x = f[n - 1]
      BY <3>1
    <3>3. G[n][x] = k * x
      OBVIOUS
    <3> HIDE DEF pre, D, G
    <3>4. f[n] = G[n][x]
      BY <1>4, <3>1, <3>2
    <3> QED
      BY <2>2, <3>2, <3>3, <3>4
  <2> QED
    BY <2>1, <2>2
<1>6. f = [n \in Nat |-> IF n = 0 THEN 1 ELSE k * f[n - 1]]
  BY <1>5
<1> QED
  BY <1>6 DEF IsPower

LEMMA PowerFacts ==
  ASSUME NEW k \in Nat, NEW f, IsPower(f, k), k > 0
  PROVE  /\ f[0] = 1
         /\ \A n \in Nat : f[n] \in Nat /\ f[n] > 0 /\ f[n + 1] = k * f[n]
<1>1. f[0] = 1 /\ \A n \in Nat : f[n + 1] = k * f[n]
  <2> DEFINE B(n) == IF n = 0 THEN 1 ELSE k * f[n - 1]
  <2>1. f = [n \in Nat |-> B(n)]
    BY DEF IsPower
  <2>2. \A n \in Nat : f[n] = B(n)
    <3> HIDE DEF B
    <3> QED
      BY <2>1, Zenon
  <2>3. f[0] = 1
    BY <2>2
  <2>4. ASSUME NEW n \in Nat
        PROVE  f[n + 1] = k * f[n]
    <3>1. n + 1 \in Nat /\ n + 1 # 0 /\ (n + 1) - 1 = n
      OBVIOUS
    <3>2. B(n + 1) = k * f[n]
      BY <3>1
    <3> HIDE DEF B
    <3> QED
      BY <2>2, <3>1, <3>2, Zenon
  <2> QED
    BY <2>3, <2>4
<1> DEFINE S == {n \in Nat : f[n] \in Nat /\ f[n] > 0}
<1>2. 0 \in S
  BY <1>1
<1>3. ASSUME NEW n \in Nat, n \in S
      PROVE  n + 1 \in S
  <2>1. PICK x \in Nat : x = f[n] /\ x > 0
    BY <1>3
  <2>2. k * x \in Nat /\ k * x > 0
    BY <2>1
  <2>3. f[n + 1] = k * x
    BY <1>1, <2>1
  <2> QED
    BY <2>2, <2>3
<1>4. \A n \in Nat : n \in S
  <2> HIDE DEF S
  <2> QED
    BY <1>2, <1>3, NatInduct
<1> QED
  BY <1>1, <1>4

LEMMA TwoFacts ==
  /\ Two[0] = 1
  /\ \A n \in Nat : Two[n] \in Nat /\ Two[n] > 0 /\ Two[n + 1] = 2 * Two[n]
<1>1. Two = CHOOSE f : IsPower(f, 2)
  BY Zenon DEF Two, IsPower
<1>2. IsPower(Two, 2)
  BY <1>1, PowerExists, Zenon, 2 \in Nat
<1> QED
  BY <1>2, PowerFacts

LEMMA TenFacts ==
  /\ Ten[0] = 1
  /\ \A n \in Nat : Ten[n] \in Nat /\ Ten[n] > 0 /\ Ten[n + 1] = 10 * Ten[n]
<1>1. Ten = CHOOSE f : IsPower(f, 10)
  BY Zenon DEF Ten, IsPower
<1>2. IsPower(Ten, 10)
  BY <1>1, PowerExists, Zenon, 10 \in Nat
<1> QED
  BY <1>2, PowerFacts

LEMMA TwoValues ==
  /\ Two[0] = 1 /\ Two[1] = 2 /\ Two[2] = 4 /\ Two[3] = 8
  /\ Two[4] = 16 /\ Two[5] = 32 /\ Two[6] = 64 /\ Two[7] = 128
  /\ Two[8] = 256 /\ Two[9] = 512 /\ Two[10] = 1024 /\ Two[11] = 2048
  /\ Two[12] = 4096 /\ Two[13] = 8192 /\ Two[14] = 16384 /\ Two[15] = 32768
  /\ Two[16] = 65536 /\ Two[17] = 131072 /\ Two[18] = 262144 /\ Two[19] = 524288
  /\ Two[20] = 1048576 /\ Two[21] = 2097152 /\ Two[22] = 4194304 /\ Two[23] = 8388608
  /\ Two[24] = 16777216 /\ Two[25] = 33554432 /\ Two[26] = 67108864 /\ Two[27] = 134217728
  /\ Two[28] = 268435456 /\ Two[29] = 536870912 /\ Two[30] = 1073741824 /\ Two[31] = 2147483648
  /\ Two[32] = 4294967296
<1>0. Two[0] = 1 /\ \A n \in Nat : Two[n + 1] = 2 * Two[n]
  BY TwoFacts
<1> HIDE DEF Two
<1>1. /\ Two[1] = 2 /\ Two[2] = 4 /\ Two[3] = 8 /\ Two[4] = 16
     /\ Two[5] = 32 /\ Two[6] = 64 /\ Two[7] = 128 /\ Two[8] = 256
  BY <1>0, 0 + 1 = 1, 1 + 1 = 2, 2 + 1 = 3, 3 + 1 = 4,
     4 + 1 = 5, 5 + 1 = 6, 6 + 1 = 7, 7 + 1 = 8
<1>2. /\ Two[9] = 512 /\ Two[10] = 1024 /\ Two[11] = 2048 /\ Two[12] = 4096
     /\ Two[13] = 8192 /\ Two[14] = 16384 /\ Two[15] = 32768 /\ Two[16] = 65536
  BY <1>0, <1>1, 8 + 1 = 9, 9 + 1 = 10, 10 + 1 = 11, 11 + 1 = 12,
     12 + 1 = 13, 13 + 1 = 14, 14 + 1 = 15, 15 + 1 = 16
<1>3. /\ Two[17] = 131072 /\ Two[18] = 262144 /\ Two[19] = 524288 /\ Two[20] = 1048576
     /\ Two[21] = 2097152 /\ Two[22] = 4194304 /\ Two[23] = 8388608 /\ Two[24] = 16777216
  BY <1>0, <1>2, 16 + 1 = 17, 17 + 1 = 18, 18 + 1 = 19, 19 + 1 = 20,
     20 + 1 = 21, 21 + 1 = 22, 22 + 1 = 23, 23 + 1 = 24
<1>4. /\ Two[25] = 33554432 /\ Two[26] = 67108864 /\ Two[27] = 134217728 /\ Two[28] = 268435456
     /\ Two[29] = 536870912 /\ Two[30] = 1073741824 /\ Two[31] = 2147483648 /\ Two[32] = 4294967296
  BY <1>0, <1>3, 24 + 1 = 25, 25 + 1 = 26, 26 + 1 = 27, 27 + 1 = 28,
     28 + 1 = 29, 29 + 1 = 30, 30 + 1 = 31, 31 + 1 = 32
<1> QED
  BY <1>0, <1>1, <1>2, <1>3, <1>4

LEMMA TenValues ==
  /\ Ten[0] = 1 /\ Ten[1] = 10 /\ Ten[2] = 100 /\ Ten[3] = 1000
  /\ Ten[4] = 10000 /\ Ten[5] = 100000 /\ Ten[6] = 1000000 /\ Ten[7] = 10000000
  /\ Ten[8] = 100000000 /\ Ten[9] = 1000000000 /\ Ten[10] = 10000000000
<1>0. Ten[0] = 1 /\ \A n \in Nat : Ten[n + 1] = 10 * Ten[n]
  BY TenFacts
<1>1. /\ Ten[1] = 10 /\ Ten[2] = 100 /\ Ten[3] = 1000
     /\ Ten[4] = 10000 /\ Ten[5] = 100000 /\ Ten[6] = 1000000
  BY <1>0, 0 + 1 = 1, 1 + 1 = 2, 2 + 1 = 3, 3 + 1 = 4,
     4 + 1 = 5, 5 + 1 = 6
<1>2. Ten[7] = 10000000 /\ Ten[8] = 100000000 /\ Ten[9] = 1000000000 /\ Ten[10] = 10000000000
  BY <1>0, <1>1, 6 + 1 = 7, 7 + 1 = 8, 8 + 1 = 9, 9 + 1 = 10
<1> QED
  BY <1>0, <1>1, <1>2

(* Powers of two grow: what comes before another is at most half of it.    *)
LEMMA TwoGrows ==
  ASSUME NEW a \in Nat, NEW b \in Nat, a < b
  PROVE  2 * Two[a] <= Two[b]
<1> DEFINE S == {n \in Nat : 2 * Two[a] <= Two[a + 1 + n]}
<1>1. 0 \in S
  BY TwoFacts, a + 1 + 0 = a + 1
<1>2. ASSUME NEW n \in Nat, n \in S
      PROVE  n + 1 \in S
  <2>1. PICK m \in Nat : m = a + 1 + n
    OBVIOUS
  <2>2. PICK x \in Nat, y \in Nat : x = Two[a] /\ y = Two[m] /\ 2 * x <= y /\ Two[m + 1] = 2 * y
    BY <1>2, <2>1, TwoFacts
  <2>3. 2 * x <= Two[m + 1]
    BY <2>2
  <2>4. a + 1 + (n + 1) = m + 1
    BY <2>1
  <2> QED
    BY <2>2, <2>3, <2>4
<1>3. \A n \in Nat : n \in S
  <2> HIDE DEF S
  <2> QED
    BY <1>1, <1>2, NatInduct
<1>4. PICK n \in Nat : b = a + 1 + n
  <2>1. b - a - 1 \in Nat /\ b = a + 1 + (b - a - 1)
    OBVIOUS
  <2> QED
    BY <2>1
<1> QED
  BY <1>3, <1>4

LEMMA TwoMonotone ==
  ASSUME NEW a \in Nat, NEW b \in Nat, a <= b
  PROVE  Two[a] <= Two[b]
<1>1. CASE a = b
  BY <1>1, TwoFacts
<1>2. CASE a < b
  BY <1>2, TwoGrows, TwoFacts
<1> QED
  BY <1>1, <1>2

(* A product of powers.                                                    *)
LEMMA TwoSum ==
  ASSUME NEW a \in Nat, NEW b \in Nat
  PROVE  Two[a + b] = Two[a] * Two[b]
<1> DEFINE S == {n \in Nat : Two[a + n] = Two[a] * Two[n]}
<1>1. 0 \in S
  <2>1. PICK x \in Nat : x = Two[a]
    BY TwoFacts
  <2> QED
    BY <2>1, TwoFacts, a + 0 = a, x * 1 = x
<1>2. ASSUME NEW n \in Nat, n \in S
      PROVE  n + 1 \in S
  <2>1. PICK m \in Nat : m = a + n
    OBVIOUS
  <2>2. PICK x \in Nat, y \in Nat : x = Two[a] /\ y = Two[n] /\ Two[m] = x * y /\ Two[m + 1] = 2 * Two[m]
                                    /\ Two[n + 1] = 2 * y
    BY <1>2, <2>1, TwoFacts
  <2>3. 2 * (x * y) = x * (2 * y)
    BY SMT
  <2>4. a + (n + 1) = m + 1
    BY <2>1
  <2>5. Two[a + (n + 1)] = Two[a] * Two[n + 1]
    BY <2>2, <2>3, <2>4, Zenon
  <2> QED
    BY <2>5
<1>3. \A n \in Nat : n \in S
  <2> HIDE DEF S
  <2> QED
    BY <1>1, <1>2, NatInduct
<1> QED
  BY <1>3

---------------------------------------------------------------------------
(* Quotients and remainders, and the integer nearest to a quotient.        *)
LEMMA DivMod ==
  ASSUME NEW n \in Nat, NEW d \in Nat, d > 0
  PROVE  /\ n \div d \in Nat /\ n % d \in Nat /\ n % d < d
         /\ n = d * (n \div d) + (n % d)
<1>1. n % d \in Nat /\ n % d < d
  BY Z3
<1>2. n = d * (n \div d) + (n % d)
  BY SMTT(60)
<1> QED
  BY <1>1, <1>2, QuotientBounds

(* Multiples of d that differ are d apart.                                 *)
LEMMA Apart ==
  ASSUME NEW d \in Nat, NEW a \in Int, NEW b \in Int, a < b
  PROVE  d * a \in Int /\ d * b \in Int /\ d * a + d <= d * b
<1>1. PICK k \in Nat : b = a + 1 + k
  <2>1. b - a - 1 \in Nat /\ b = a + 1 + (b - a - 1)
    OBVIOUS
  <2> QED
    BY <2>1
<1>2. d * (a + 1 + k) = d * a + d + d * k
  BY SMT
<1>3. d * k \in Nat /\ d * a \in Int
  BY SMT
<1> QED
  BY <1>1, <1>2, <1>3

LEMMA DivUnique ==
  ASSUME NEW n \in Nat, NEW d \in Nat, d > 0, NEW q \in Int, NEW r \in Int,
         n = d * q + r, 0 <= r, r < d
  PROVE  n \div d = q /\ n % d = r
<1>1. PICK p \in Nat, s \in Nat : p = n \div d /\ s = n % d /\ s < d /\ n = d * p + s
  BY DivMod
<1>2. p = q
  <2>1. CASE p < q
    BY <1>1, <2>1, Apart
  <2>2. CASE q < p
    BY <1>1, <2>2, Apart
  <2> QED
    BY <2>1, <2>2
<1>3. d * p = d * q /\ d * p \in Int
  BY <1>2
<1>4. s = r
  BY <1>1, <1>3
<1> QED
  BY <1>1, <1>2, <1>4

LEMMA NearestFacts ==
  ASSUME NEW n \in Nat, NEW d \in Nat, d > 0
  PROVE  /\ NearestEven(n, d) \in Nat
         /\ -d <= 2 * (d * NearestEven(n, d) - n)
         /\ 2 * (d * NearestEven(n, d) - n) <= d
<1>1. PICK q \in Nat, r \in Nat : q = n \div d /\ r = n % d /\ r < d /\ n = d * q + r
  BY DivMod
<1>2. PICK p \in Nat : p = d * q
  BY SMT
<1>3. d * (q + 1) = p + d
  BY <1>2, SMT
<1>4. CASE 2 * r > d \/ (2 * r = d /\ q % 2 = 1)
  <2>1. NearestEven(n, d) = q + 1
    BY <1>1, <1>4, Zenon DEF NearestEven
  <2>2. -d <= 2 * (p + d - n) /\ 2 * (p + d - n) <= d
    BY <1>1, <1>2, <1>4
  <2> QED
    BY <1>3, <2>1, <2>2
<1>5. CASE ~ (2 * r > d \/ (2 * r = d /\ q % 2 = 1))
  <2>1. NearestEven(n, d) = q
    BY <1>1, <1>5, Zenon DEF NearestEven
  <2>2. -d <= 2 * (p - n) /\ 2 * (p - n) <= d
    BY <1>1, <1>2, <1>5
  <2> QED
    BY <1>2, <2>1, <2>2
<1> QED
  BY <1>4, <1>5

(* Nearer to one integer than half: that is the one.                       *)
LEMMA NearestIs ==
  ASSUME NEW n \in Nat, NEW d \in Nat, d > 0, NEW k \in Nat,
         -d < 2 * (d * k - n), 2 * (d * k - n) < d
  PROVE  NearestEven(n, d) = k
<1>1. PICK a \in Nat : a = NearestEven(n, d) /\ -d <= 2 * (d * a - n) /\ 2 * (d * a - n) <= d
  BY NearestFacts
<1>2. ~ (a < k)
  BY <1>1, Apart
<1>3. ~ (k < a)
  BY <1>1, Apart
<1>4. a = k
  BY <1>2, <1>3
<1> QED
  BY <1>1, <1>4, Zenon

---------------------------------------------------------------------------
(* A quotient from 1 to less than half of 2^bits has a fraction: the       *)
(* rounded one is m / 2^s with s > 0, a mantissa of bits bits, and an      *)
(* error of at most half a unit.                                           *)
IsRounded(f, n, d, bits) ==
  /\ f.m \in Nat /\ Two[bits - 1] <= f.m /\ f.m < Two[bits]
  /\ f.s \in 1..(bits - 1)
  /\ -d <= 2 * (d * f.m - n * Two[f.s]) /\ 2 * (d * f.m - n * Two[f.s]) <= d

Scales(s, n, d, bits) == Two[bits - 1] * d <= n * Two[s] /\ n * Two[s] < Two[bits] * d

LEMMA ScaleExists ==
  ASSUME NEW n \in Nat, NEW d \in Nat, d > 0, NEW bits \in Nat, bits > 0, d <= n,
         NEW K \in Nat, n <= K * d, 2 * K < Two[bits]
  PROVE  /\ \E s \in 0..(2 * bits) : Scales(s, n, d, bits)
         /\ \A s \in Nat : Scales(s, n, d, bits) => s \in 1..(bits - 1)
<1>1. PICK c \in Nat : c = bits - 1
  OBVIOUS
<1>2. PICK B \in Nat : B = Two[c] /\ Two[bits] = 2 * B /\ B > 0
  <2>1. c + 1 = bits
    BY <1>1
  <2> QED
    BY <2>1, TwoFacts
<1>3. ~ Scales(0, n, d, bits)
  <2>1. K < B
    BY <1>2
  <2>2. d * K + d <= d * B
    BY <2>1, Apart
  <2>3. n < B * d /\ n * 1 = n
    BY <2>2, SMT
  <2> QED
    BY <1>1, <1>2, <2>3, TwoFacts, SMT DEF Scales
<1>4. ASSUME NEW s \in Nat, Scales(s, n, d, bits)
      PROVE  s \in 1..(bits - 1)
  <2>1. s # 0
    BY <1>3, <1>4
  <2>2. ~ (bits <= s)
    <3> SUFFICES ASSUME bits <= s PROVE FALSE
      OBVIOUS
    <3>1. PICK x \in Nat, y \in Nat : x = Two[s] /\ y = Two[bits] /\ y <= x
      BY TwoMonotone, TwoFacts
    <3>2. y * d <= n * x
      BY <3>1, SMT
    <3> QED
      BY <1>4, <3>1, <3>2, SMT DEF Scales
  <2> QED
    BY <2>1, <2>2
<1> DEFINE T == {k \in Nat : B * d <= n * Two[k]}
<1>5. c \in T
  <2>1. B * d <= n * B
    BY SMT
  <2> QED
    BY <1>2, <2>1, Zenon
<1>6. PICK k \in T : \A l \in T : k <= l
  <2>1. T \subseteq Nat /\ T # {}
    BY <1>5
  <2> HIDE DEF T
  <2> QED
    BY <2>1, LeastNat
<1>7. k \in Nat /\ B * d <= n * Two[k] /\ k <= c
  BY <1>5, <1>6
<1>8. Scales(k, n, d, bits)
  <2>1. k # 0
    <3>1. K < B
      BY <1>2
    <3>2. d * K + d <= d * B
      BY <3>1, Apart
    <3>3. n < B * d /\ n * 1 = n
      BY <3>2, SMT
    <3> QED
      BY <1>7, <3>3, TwoFacts, SMT
  <2>2. PICK j \in Nat : j + 1 = k
    <3>1. k - 1 \in Nat /\ (k - 1) + 1 = k
      BY <1>7, <2>1
    <3> QED
      BY <3>1
  <2>3. j \notin T
    BY <1>6, <2>2
  <2>4. PICK x \in Nat : x = Two[j] /\ Two[k] = 2 * x
    BY <2>2, TwoFacts
  <2>5. ~ (B * d <= n * x)
    BY <2>2, <2>3, <2>4
  <2>6. n * (2 * x) = 2 * (n * x) /\ (2 * B) * d = 2 * (B * d) /\ n * x \in Nat /\ B * d \in Nat
    BY SMT
  <2>7. n * (2 * x) < (2 * B) * d
    BY <2>5, <2>6
  <2> QED
    BY <1>1, <1>2, <1>7, <2>4, <2>7, Zenon DEF Scales
<1>9. k \in 0..(2 * bits)
  BY <1>1, <1>7
<1> QED
  BY <1>4, <1>8, <1>9

LEMMA RoundToFacts ==
  ASSUME NEW n \in Nat, NEW d \in Nat, d > 0, NEW bits \in Nat, bits > 0, d <= n,
         NEW K \in Nat, n <= K * d, 2 * K < Two[bits]
  PROVE  IsRounded(RoundTo(n, d, bits), n, d, bits)
<1>1. PICK c \in Nat : c = bits - 1
  OBVIOUS
<1>2. PICK B \in Nat : B = Two[c] /\ Two[bits] = 2 * B /\ B > 0
  <2>1. c + 1 = bits
    BY <1>1
  <2> QED
    BY <2>1, TwoFacts
<1> DEFINE sc == CHOOSE s \in 0..(2 * bits) : Scales(s, n, d, bits)
<1>3. sc \in 0..(2 * bits) /\ Scales(sc, n, d, bits)
  BY ScaleExists
<1>4. sc = CHOOSE s \in 0..(2 * bits) : Two[bits - 1] * d <= n * Two[s] /\ n * Two[s] < Two[bits] * d
  BY Zenon DEF Scales
<1>5. PICK s \in 1..c : s = sc
  <2> HIDE DEF sc
  <2>1. \A s \in Nat : Scales(s, n, d, bits) => s \in 1..(bits - 1)
    BY ScaleExists
  <2>2. sc \in 1..(bits - 1)
    BY <1>3, <2>1
  <2> QED
    BY <1>1, <2>2
<1>6. PICK x \in Nat : x = Two[s] /\ x > 0
  <2>1. s \in Nat
    OBVIOUS
  <2> QED
    BY <2>1, TwoFacts
<1>7. PICK N \in Nat : N = n * x
  BY SMT
<1>8. B * d <= N /\ N < (2 * B) * d
  BY <1>1, <1>2, <1>3, <1>5, <1>6, <1>7, Zenon DEF Scales
<1>9. PICK m \in Nat : m = NearestEven(N, d) /\ -d <= 2 * (d * m - N) /\ 2 * (d * m - N) <= d
  BY NearestFacts
<1>10. PICK h \in Nat : h = d * B /\ B * d = h /\ (2 * B) * d = 2 * h /\ d * (2 * B) = 2 * h
  BY SMT
<1>11. PICK p \in Nat : p = d * m
  BY SMT
<1>12. B <= m
  <2> SUFFICES ASSUME m < B PROVE FALSE
    OBVIOUS
  <2>1. p + d <= h
    BY <1>10, <1>11, Apart
  <2> QED
    BY <1>8, <1>9, <1>10, <1>11, <2>1
<1>13. m <= 2 * B
  <2> SUFFICES ASSUME 2 * B < m PROVE FALSE
    OBVIOUS
  <2>1. 2 * h + d <= p
    BY <1>10, <1>11, Apart
  <2> QED
    BY <1>8, <1>9, <1>10, <1>11, <2>1
<1>14. RoundTo(n, d, bits) = IF m = Two[bits] THEN [m |-> Two[bits - 1], s |-> s - 1] ELSE [m |-> m, s |-> s]
  <2> HIDE DEF sc
  <2> QED
    BY <1>4, <1>5, <1>6, <1>7, <1>9, Zenon DEF RoundTo
<1>15. CASE m # 2 * B
  <2>1. RoundTo(n, d, bits) = [m |-> m, s |-> s]
    BY <1>2, <1>14, <1>15
  <2>2. B <= m /\ m < 2 * B /\ s \in 1..(bits - 1)
    BY <1>1, <1>12, <1>13, <1>15
  <2>3. -d <= 2 * (d * m - n * Two[s]) /\ 2 * (d * m - n * Two[s]) <= d
    BY <1>6, <1>7, <1>9, Zenon
  <2>4. [m |-> m, s |-> s].m = m /\ [m |-> m, s |-> s].s = s
    OBVIOUS
  <2> QED
    BY <1>1, <1>2, <2>1, <2>2, <2>3, <2>4, Zenon DEF IsRounded
<1>16. CASE m = 2 * B
  <2>1. s # 1
    <3> SUFFICES ASSUME s = 1 PROVE FALSE
      OBVIOUS
    <3>1. x = 2
      BY <1>6, TwoValues
    <3>2. N = 2 * n
      BY <1>7, <3>1
    <3>3. d * (2 * K) + d <= d * (2 * B)
      BY <1>2, Apart
    <3>4. d * (2 * K) = 2 * (K * d) /\ K * d \in Nat
      BY SMT
    <3>5. p = 2 * h
      BY <1>10, <1>11, <1>16, Zenon
    <3> QED
      BY <1>9, <1>10, <1>11, <3>2, <3>3, <3>4, <3>5
  <2>2. PICK j \in Nat : j + 1 = s /\ j = s - 1 /\ j \in 1..(bits - 1)
    <3>1. s - 1 \in Nat /\ (s - 1) + 1 = s /\ s - 1 \in 1..(bits - 1)
      BY <1>1, <1>5, <2>1
    <3> QED
      BY <3>1
  <2>3. PICK y \in Nat : y = Two[j] /\ x = 2 * y
    BY <1>6, <2>2, TwoFacts
  <2>4. RoundTo(n, d, bits) = [m |-> B, s |-> j]
    BY <1>1, <1>2, <1>14, <1>16, <2>2, Zenon
  <2>5. PICK z \in Nat : z = n * y /\ n * (2 * y) = 2 * z
    BY SMT
  <2>6. N = 2 * z
    BY <1>7, <2>3, <2>5
  <2>7. p = 2 * h
    BY <1>10, <1>11, <1>16, Zenon
  <2>8. -d <= 2 * (h - z) /\ 2 * (h - z) <= d
    BY <1>9, <1>11, <2>6, <2>7
  <2>9. -d <= 2 * (d * B - n * Two[j]) /\ 2 * (d * B - n * Two[j]) <= d
    BY <1>10, <2>3, <2>5, <2>8, Zenon
  <2>10. B <= B /\ B < 2 * B
    BY <1>2
  <2>11. [m |-> B, s |-> j].m = B /\ [m |-> B, s |-> j].s = j
    OBVIOUS
  <2> QED
    BY <1>1, <1>2, <2>2, <2>4, <2>9, <2>10, <2>11, Zenon DEF IsRounded
<1> QED
  BY <1>15, <1>16

---------------------------------------------------------------------------
LEMMA PrecisionFacts ==
  /\ Precision \in 1..64 /\ Largest \in Nat /\ Largest > 0
  /\ 200 * Largest < Two[Precision]
  BY PrecisionAssumption, SMT

(* The quotient of a total and a count: how it lies to its rounded value   *)
(* m / 2^s, and that a hundredth of it is many units of its last place.    *)
LEMMA DivideFacts ==
  ASSUME NEW a \in 1..Largest, NEW c \in 1..a
  PROVE  /\ IsRounded(Divide(a, c), a, c, Precision)
         /\ Divide(a, c).m \in Nat /\ Divide(a, c).m < Two[Precision]
         /\ Divide(a, c).s \in 1..63
         /\ Two[Divide(a, c).s] \in Nat
         /\ Two[Divide(a, c).s] <= Divide(a, c).m
         /\ Divide(a, c).m <= Largest * Two[Divide(a, c).s]
         /\ 100 * c < Two[Divide(a, c).s]
         /\ -c <= 2 * (c * Divide(a, c).m - a * Two[Divide(a, c).s])
         /\ 2 * (c * Divide(a, c).m - a * Two[Divide(a, c).s]) <= c
<1>1. PICK L \in Nat : L = Largest /\ L > 0 /\ a \in Nat /\ a > 0 /\ a <= L /\ c \in Nat /\ c > 0 /\ c <= a
  <2>1. Largest \in Nat /\ Largest > 0
    BY PrecisionFacts, Zenon
  <2> QED
    BY <2>1
<1>2. PICK P \in 1..64 : P = Precision /\ 200 * L < Two[P]
  BY <1>1, PrecisionFacts, Zenon
<1>3. a <= L * c
  <2>1. L * 1 <= L * c
    BY <1>1, SMT
  <2> QED
    BY <1>1, <2>1
<1>4. IsRounded(RoundTo(a, c, P), a, c, P)
  <2>1. 2 * L < Two[P] /\ P \in Nat /\ P > 0
    BY <1>1, <1>2, TwoFacts
  <2> QED
    BY <1>1, <1>3, <2>1, RoundToFacts
<1>5. RoundTo(a, c, P) = Divide(a, c)
  BY <1>2, Zenon DEF Divide
<1>6. PICK B \in Nat : B = Two[P - 1] /\ Two[P] = 2 * B
  <2>1. P - 1 \in Nat /\ (P - 1) + 1 = P
    OBVIOUS
  <2> QED
    BY <2>1, TwoFacts
<1>7. PICK m \in Nat, s \in 1..63 : /\ m = Divide(a, c).m /\ s = Divide(a, c).s
                                    /\ B <= m /\ m < Two[P]
                                    /\ -c <= 2 * (c * m - a * Two[s])
                                    /\ 2 * (c * m - a * Two[s]) <= c
  <2>1. Divide(a, c).s \in 1..63
    BY <1>4, <1>5 DEF IsRounded
  <2> QED
    BY <1>4, <1>5, <1>6, <2>1, Zenon DEF IsRounded
<1>8. PICK D \in Nat : D = Two[s] /\ D > 0
  <2>1. s \in Nat
    OBVIOUS
  <2> QED
    BY <2>1, TwoFacts
<1>9. PICK x \in Nat, y \in Nat : x = c * m /\ y = a * D /\ -c <= 2 * (x - y) /\ 2 * (x - y) <= c
  <2>1. c * m \in Nat /\ a * D \in Nat
    BY <1>1, SMT
  <2> QED
    BY <1>7, <1>8, <2>1
<1>10. D <= m
  <2> SUFFICES ASSUME m < D PROVE FALSE
    OBVIOUS
  <2>1. c * m + c <= c * D
    BY <1>1, Apart
  <2>2. c * D <= a * D /\ c * D \in Nat
    BY <1>1, SMT
  <2> QED
    BY <1>1, <1>9, <2>1, <2>2
<1>11. m <= L * D
  <2>1. PICK z \in Nat : z = L * D
    BY SMT
  <2>2. y <= z
    BY <1>1, <1>9, <2>1, SMT
  <2> SUFFICES ASSUME z < m PROVE FALSE
    BY <2>1
  <2>3. c * z + c <= c * m
    BY <1>1, Apart
  <2>4. z <= c * z /\ c * z \in Nat
    BY <1>1, SMT
  <2> QED
    BY <1>1, <1>9, <2>2, <2>3, <2>4
<1>12. 100 * c < D
  <2> SUFFICES ASSUME D <= 100 * c PROVE FALSE
    BY <1>1
  <2>1. y <= a * (100 * c)
    BY <1>1, <1>9, SMT
  <2>2. a * (100 * c) = c * (100 * a)
    BY <1>1, SMT
  <2>3. 100 * a < m
    BY <1>1, <1>2, <1>6, <1>7
  <2>4. c * (100 * a) + c <= c * m
    BY <1>1, <2>3, Apart
  <2> QED
    BY <1>1, <1>9, <2>1, <2>2, <2>4
<1>13. -c <= 2 * (c * m - a * D) /\ 2 * (c * m - a * D) <= c
  BY <1>7, <1>8, Zenon
<1> QED
  BY <1>1, <1>2, <1>4, <1>5, <1>7, <1>8, <1>10, <1>11, <1>12, <1>13, Zenon

(* A hundredth is so much more than the error of the quotient that the     *)
(* hundredths nearest to the rounded quotient are within half of one of    *)
(* the exact quotient.                                                     *)
LEMMA HundredthsNear ==
  ASSUME NEW a \in 1..Largest, NEW c \in 1..a
  PROVE  /\ Printf(Divide(a, c)) \in Nat
         /\ -c <= 2 * (Printf(Divide(a, c)) * c - 100 * a)
         /\ 2 * (Printf(Divide(a, c)) * c - 100 * a) <= c
<1>1. a \in Nat /\ a > 0 /\ c \in Nat /\ c > 0
  BY PrecisionFacts
<1>2. PICK m \in Nat, D \in Nat : /\ m = Divide(a, c).m /\ D = Two[Divide(a, c).s] /\ 100 * c < D
                                  /\ -c <= 2 * (c * m - a * D) /\ 2 * (c * m - a * D) <= c
  BY DivideFacts, Zenon
<1>3. PICK h \in Nat : /\ h = NearestEven(100 * m, D)
                       /\ -D <= 2 * (D * h - 100 * m) /\ 2 * (D * h - 100 * m) <= D
  <2>1. 100 * m \in Nat /\ D > 0
    BY <1>1, <1>2
  <2> QED
    BY <2>1, NearestFacts
<1>4. h = Printf(Divide(a, c))
  BY <1>2, <1>3, Zenon DEF Printf
<1>5. PICK x \in Nat, y \in Nat : x = c * m /\ y = a * D /\ -c <= 2 * (x - y) /\ 2 * (x - y) <= c
  <2>1. c * m \in Nat /\ a * D \in Nat
    BY <1>1, SMT
  <2> QED
    BY <1>2, <2>1
<1>6. PICK e \in Int : e = h * c - 100 * a
  BY <1>1, SMT
<1>7. PICK w \in Int : w = D * h - 100 * m
  BY SMT
<1>8. D * e = c * w + 100 * (x - y)
  <2>1. D * (h * c - 100 * a) = c * (D * h - 100 * m) + 100 * (c * m - a * D)
    BY <1>1, SMT
  <2> QED
    BY <1>5, <1>6, <1>7, <2>1, Zenon
<1>9. -(c * D) <= 2 * (c * w) /\ 2 * (c * w) <= c * D /\ c * w \in Int /\ c * D \in Nat
  BY <1>1, <1>3, <1>7, SMT
<1>10. D * (2 * e) = 2 * (D * e) /\ D * (c + 1) = c * D + D /\ D * (-(c + 1)) = -(c * D) - D
  BY <1>1, SMT
<1>11. D * e \in Int
  BY <1>1, SMT
<1>12. 2 * e <= c
  <2> SUFFICES ASSUME c + 1 <= 2 * e PROVE FALSE
    BY <1>1, <1>6
  <2>1. D * (c + 1) <= D * (2 * e)
    BY <1>1, SMT
  <2> QED
    BY <1>1, <1>2, <1>5, <1>8, <1>9, <1>10, <1>11, <2>1
<1>13. -c <= 2 * e
  <2> SUFFICES ASSUME 2 * e <= -(c + 1) PROVE FALSE
    BY <1>1, <1>6
  <2>1. D * (2 * e) <= D * (-(c + 1))
    BY <1>1, SMT
  <2> QED
    BY <1>1, <1>2, <1>5, <1>8, <1>9, <1>10, <1>11, <2>1
<1> QED
  BY <1>4, <1>6, <1>12, <1>13, Zenon

---------------------------------------------------------------------------
(* Program by program: the hundredths are printf's.  A quotient is a       *)
(* mantissa and a scale, of which these are the facts that are used.       *)
IsQuotient(f) ==
  /\ f.m \in Nat /\ f.m < Two[Precision] /\ f.s \in 1..63
  /\ Two[f.s] <= f.m /\ f.m <= Largest * Two[f.s]

Numerator(f) == 100 * f.m
Denominator(f) == Two[f.s]
Half(f) == Two[f.s - 1]
Whole(f) == Numerator(f) \div Denominator(f)
Left(f) == Numerator(f) % Denominator(f)

LEMMA QuotientParts ==
  ASSUME NEW f, IsQuotient(f)
  PROVE  /\ Numerator(f) \in Nat /\ Denominator(f) \in Nat /\ Half(f) \in Nat
         /\ Whole(f) \in Nat /\ Left(f) \in Nat
         /\ Denominator(f) = 2 * Half(f) /\ Half(f) > 0
         /\ Left(f) < Denominator(f)
         /\ Numerator(f) = Denominator(f) * Whole(f) + Left(f)
         /\ Printf(f) = IF 2 * Left(f) > Denominator(f) \/ (2 * Left(f) = Denominator(f) /\ Whole(f) % 2 = 1)
                          THEN Whole(f) + 1 ELSE Whole(f)
<1>1. f.s \in 1..63 /\ f.m \in Nat
  BY DEF IsQuotient
<1>2. PICK k \in Nat : k = f.s - 1 /\ k + 1 = f.s
  BY <1>1
<1>3. Half(f) = Two[k] /\ Denominator(f) = Two[k + 1]
  BY <1>2, Zenon DEF Half, Denominator
<1>4. Half(f) \in Nat /\ Denominator(f) \in Nat /\ Denominator(f) = 2 * Half(f) /\ Half(f) > 0
  BY <1>3, TwoFacts
<1>5. Numerator(f) \in Nat
  BY <1>1 DEF Numerator
<1>6. /\ Whole(f) \in Nat /\ Left(f) \in Nat /\ Left(f) < Denominator(f)
      /\ Numerator(f) = Denominator(f) * Whole(f) + Left(f)
  <2>1. Denominator(f) > 0
    BY <1>4
  <2> QED
    BY <1>4, <1>5, <2>1, DivMod, Zenon DEF Whole, Left
<1>7. Printf(f) = NearestEven(Numerator(f), Denominator(f))
  BY Zenon DEF Printf, Numerator, Denominator
<1>8. NearestEven(Numerator(f), Denominator(f)) =
        IF 2 * Left(f) > Denominator(f) \/ (2 * Left(f) = Denominator(f) /\ Whole(f) % 2 = 1)
          THEN Whole(f) + 1 ELSE Whole(f)
  BY Zenon DEF NearestEven, Whole, Left
<1> QED
  BY <1>4, <1>5, <1>6, <1>7, <1>8, Zenon

(* The remainder against half of the divisor decides as its double against *)
(* the divisor.                                                            *)
LEMMA HalfDecides ==
  ASSUME NEW f, IsQuotient(f)
  PROVE  Printf(f) = IF Left(f) > Half(f) \/ (Left(f) = Half(f) /\ Whole(f) % 2 # 0)
                       THEN Whole(f) + 1 ELSE Whole(f)
<1>1. PICK q \in Nat, r \in Nat, h \in Nat : q = Whole(f) /\ r = Left(f) /\ h = Half(f)
  BY QuotientParts, Zenon
<1>2. Printf(f) = IF 2 * r > 2 * h \/ (2 * r = 2 * h /\ q % 2 = 1) THEN q + 1 ELSE q
  BY <1>1, QuotientParts, Zenon
<1>3. Printf(f) = IF r > h \/ (r = h /\ q % 2 # 0) THEN q + 1 ELSE q
  BY <1>2
<1> QED
  BY <1>1, <1>3, Zenon

LEMMA WriteAvgPrints ==
  ASSUME NEW f, IsQuotient(f)
  PROVE  WriteAvg(f) = Printf(f)
<1>1. ~ (f.s <= 0) /\ ~ (f.s > 126)
  <2>1. f.s \in 1..63
    BY DEF IsQuotient
  <2> QED
    BY <2>1
<1>2. WriteAvg(f) = IF Left(f) * 2 > Denominator(f) \/ (Left(f) * 2 = Denominator(f) /\ Whole(f) % 2 = 1)
                      THEN Whole(f) + 1 ELSE Whole(f)
  BY <1>1, Zenon DEF WriteAvg, Whole, Left, Numerator, Denominator
<1>3. Left(f) * 2 = 2 * Left(f)
  BY QuotientParts
<1> QED
  BY <1>2, <1>3, QuotientParts, Zenon

LEMMA AppendAveragePrints ==
  ASSUME NEW f, IsQuotient(f)
  PROVE  AppendAverage(f) = Printf(f)
<1>1. PICK n \in Nat, d \in Nat, h \in Nat : n = Numerator(f) /\ d = Denominator(f) /\ h = Half(f) /\ d = 2 * h /\ h > 0
  BY QuotientParts, Zenon
<1>2. PICK q \in Nat, r \in Nat : q = Whole(f) /\ r = Left(f) /\ r < d /\ n = d * q + r
  BY <1>1, QuotientParts, Zenon
<1>3. PICK odd \in 0..1 : odd = q % 2
  <2>1. q % 2 \in 0..1
    OBVIOUS
  <2> QED
    BY <2>1
<1>4. Printf(f) = IF 2 * r > d \/ (2 * r = d /\ odd = 1) THEN q + 1 ELSE q
  BY <1>1, <1>2, <1>3, QuotientParts, Zenon
<1>5. PICK b \in Nat : b = h - 1 + odd
  <2>1. h - 1 + odd \in Nat
    BY <1>1
  <2> QED
    BY <2>1
<1>6. f.s < 64
  <2>1. f.s \in 1..63
    BY DEF IsQuotient
  <2> QED
    BY <2>1
<1>7. AppendAverage(f) = (Numerator(f) + (Half(f) - 1 + (Whole(f) % 2))) \div Denominator(f)
  BY <1>6, Zenon DEF AppendAverage, Numerator, Half, Whole, Denominator
<1>8. AppendAverage(f) = (n + b) \div d
  BY <1>1, <1>2, <1>3, <1>5, <1>7, Zenon
<1>9. d > 0 /\ n + b \in Nat
  BY <1>1
<1>10. PICK p \in Nat : p = d * q /\ n = p + r
  <2>1. d * q \in Nat
    BY SMT
  <2> QED
    BY <1>2, <2>1
<1>11. CASE r + b < d
  <2>1. n + b = p + (r + b) /\ 0 <= r + b /\ r + b \in Int /\ q \in Int
    BY <1>10
  <2>2. n + b = d * q + (r + b)
    BY <1>10, <2>1, Zenon
  <2>3. AppendAverage(f) = q
    BY <1>8, <1>9, <1>11, <2>1, <2>2, DivUnique, Zenon
  <2>4. ~ (2 * r > d \/ (2 * r = d /\ odd = 1))
    BY <1>1, <1>5, <1>11
  <2> QED
    BY <1>4, <2>3, <2>4, Zenon
<1>12. CASE ~ (r + b < d)
  <2>1. d * (q + 1) = p + d
    BY <1>10, SMT
  <2>2. n + b = (p + d) + (r + b - d) /\ 0 <= r + b - d /\ r + b - d < d /\ r + b - d \in Int /\ q + 1 \in Int
    BY <1>1, <1>2, <1>5, <1>10, <1>12
  <2>3. n + b = d * (q + 1) + (r + b - d)
    BY <2>1, <2>2, Zenon
  <2>4. AppendAverage(f) = q + 1
    BY <1>8, <1>9, <2>2, <2>3, DivUnique, Zenon
  <2>5. 2 * r > d \/ (2 * r = d /\ odd = 1)
    BY <1>1, <1>5, <1>12
  <2> QED
    BY <1>4, <2>4, <2>5, Zenon
<1> QED
  BY <1>11, <1>12

LEMMA RoundedHundredthsPrints ==
  ASSUME NEW f, IsQuotient(f)
  PROVE  RoundedHundredths(f) = Printf(f)
<1>1. ~ (f.s <= 0) /\ ~ (f.s >= 128)
  <2>1. f.s \in 1..63
    BY DEF IsQuotient
  <2> QED
    BY <2>1
<1>2. Numerator(f) - Whole(f) * Denominator(f) = Left(f)
  <2>1. PICK n \in Nat, d \in Nat, q \in Nat, r \in Nat :
          n = Numerator(f) /\ d = Denominator(f) /\ q = Whole(f) /\ r = Left(f) /\ n = d * q + r
    BY QuotientParts, Zenon
  <2>2. n - q * d = r
    BY <2>1, SMT
  <2> QED
    BY <2>1, <2>2, Zenon
<1>3. RoundedHundredths(f) = IF Left(f) > Half(f) \/ (Left(f) = Half(f) /\ Whole(f) % 2 # 0)
                               THEN Whole(f) + 1 ELSE Whole(f)
  <2>1. RoundedHundredths(f) =
          LET rest == Numerator(f) - Whole(f) * Denominator(f)
          IN  IF rest > Half(f) \/ (rest = Half(f) /\ Whole(f) % 2 # 0) THEN Whole(f) + 1 ELSE Whole(f)
    BY <1>1, Zenon DEF RoundedHundredths, Half, Whole, Numerator, Denominator
  <2> QED
    BY <1>2, <2>1, Zenon
<1> QED
  BY <1>3, HalfDecides, Zenon

LEMMA WriteAverage2dpPrints ==
  ASSUME NEW f, IsQuotient(f)
  PROVE  WriteAverage2dp(f) = Printf(f)
<1>1. (Precision - 1) - ((Precision - 1) - f.s) = f.s
  <2>1. PICK p \in Nat, s \in Nat : p = Precision /\ s = f.s
    <3>1. f.s \in Nat
      BY DEF IsQuotient
    <3>2. Precision \in Nat
      BY PrecisionFacts
    <3> QED
      BY <3>1, <3>2
  <2>2. (p - 1) - ((p - 1) - s) = s
    OBVIOUS
  <2> QED
    BY <2>1, <2>2, Zenon
<1>2. WriteAverage2dp(f) = IF Left(f) > Half(f) \/ (Left(f) = Half(f) /\ Whole(f) % 2 # 0)
                             THEN Whole(f) + 1 ELSE Whole(f)
  BY <1>1, Zenon DEF WriteAverage2dp, Left, Half, Whole, Numerator, Denominator
<1> QED
  BY <1>2, HalfDecides, Zenon

LEMMA RintLongPrints ==
  ASSUME NEW f, IsQuotient(f)
  PROVE  RintLong(f) = Printf(f)
<1>1. PICK m \in Nat, p \in Nat : m = f.m /\ p = Precision /\ m < Two[p]
  <2>1. Precision \in Nat
    BY PrecisionFacts
  <2>2. f.m \in Nat /\ f.m < Two[Precision]
    BY Zenon DEF IsQuotient
  <2> QED
    BY <2>1, <2>2
<1>2. PICK x \in Nat, y \in Nat : x = Two[p] /\ y = Two[p + 11] /\ y = x * 2048
  <2>1. p + 11 \in Nat
    OBVIOUS
  <2>2. Two[p + 11] = Two[p] * Two[11]
    BY TwoSum, 11 \in Nat
  <2>3. Two[11] = 2048
    BY TwoValues
  <2>4. Two[p] \in Nat /\ Two[p + 11] \in Nat
    BY <2>1, TwoFacts
  <2> QED
    BY <2>2, <2>3, <2>4
<1>3. 100 * m < Two[p + 11]
  BY <1>1, <1>2
<1>4. RintLong(f) = NearestEven(Numerator(f), Denominator(f))
  <2> DEFINE g == [m |-> 100 * f.m, s |-> f.s]
  <2>1. g.m = Numerator(f) /\ Two[g.s] = Denominator(f)
    BY DEF Numerator, Denominator
  <2>2. 100 * f.m < Two[Precision + 11]
    BY <1>1, <1>3, Zenon
  <2>3. RintLong(f) = NearestEven(g.m, Two[g.s])
    BY <2>2, Zenon DEF RintLong
  <2> QED
    BY <2>1, <2>3, Zenon
<1> QED
  BY <1>4, Zenon DEF Printf, Numerator, Denominator

(* The product rounded to a double, m / 2^s again: cut to an integer, it   *)
(* is the quotient or, when the product lies less than half a unit of the  *)
(* last place below it, the next integer.                                  *)
LEMMA FusedFractionPrints ==
  ASSUME NEW f, IsQuotient(f)
  PROVE  FusedFraction(f) = Printf(f)
<1>1. PICK n \in Nat, d \in Nat, h \in Nat : n = Numerator(f) /\ d = Denominator(f) /\ h = Half(f) /\ d = 2 * h /\ h > 0
  BY QuotientParts, Zenon
<1>2. PICK q \in Nat, r \in Nat : q = Whole(f) /\ r = Left(f) /\ r < d /\ n = d * q + r
  BY <1>1, QuotientParts, Zenon
<1>3. PICK odd \in 0..1 : odd = q % 2
  <2>1. q % 2 \in 0..1
    OBVIOUS
  <2> QED
    BY <2>1
<1>4. Printf(f) = IF 2 * r > d \/ (2 * r = d /\ odd = 1) THEN q + 1 ELSE q
  BY <1>1, <1>2, <1>3, QuotientParts, Zenon
<1>5. PICK p \in 1..64 : p = Precision
  BY PrecisionFacts, Zenon
<1> DEFINE product == RoundTo(100 * f.m, Two[f.s], Precision)
<1>6. IsRounded(product, n, d, p)
  <2>1. product = RoundTo(n, d, p)
    BY <1>1, <1>5, Zenon DEF Numerator, Denominator
  <2>2. PICK L \in Nat : L = Largest /\ 200 * L < Two[p]
    BY <1>5, PrecisionFacts, Zenon
  <2>3. PICK m \in Nat : m = f.m /\ d <= m /\ m <= L * d
    BY <1>1, <2>2, Zenon DEF IsQuotient, Denominator
  <2>4. n = 100 * m
    BY <1>1, <2>3, Zenon DEF Numerator
  <2>5. L * d \in Nat
    BY SMT
  <2>6. (100 * L) * d = 100 * (L * d)
    BY SMT
  <2>7. d <= n /\ n <= (100 * L) * d
    BY <2>3, <2>4, <2>5, <2>6
  <2>8. 100 * L \in Nat /\ 2 * (100 * L) = 200 * L
    OBVIOUS
  <2>9. 2 * (100 * L) < Two[p]
    BY <2>2, <2>8, Zenon
  <2>10. p \in Nat /\ p > 0 /\ d > 0
    BY <1>1
  <2> HIDE DEF product
  <2> QED
    BY <2>1, <2>7, <2>8, <2>9, <2>10, RoundToFacts
<1>7. PICK g \in Nat, e \in Nat : /\ g = product.m /\ e = Two[product.s] /\ 2 <= e
                                  /\ -d <= 2 * (d * g - n * e) /\ 2 * (d * g - n * e) <= d
  <2> HIDE DEF product
  <2>1. product.s \in 1..(p - 1) /\ product.m \in Nat
    BY <1>6 DEF IsRounded
  <2>2. PICK s \in Nat : s = product.s /\ 1 <= s
    BY <2>1
  <2>3. PICK e \in Nat : e = Two[s] /\ 2 <= e
    <3>1. Two[1] = 2
      BY TwoValues
    <3>2. Two[s] \in Nat /\ Two[1] <= Two[s]
      BY <2>2, TwoFacts, TwoMonotone, 1 \in Nat
    <3> QED
      BY <3>1, <3>2
  <2>4. -d <= 2 * (d * product.m - n * Two[product.s]) /\ 2 * (d * product.m - n * Two[product.s]) <= d
    BY <1>6, Zenon DEF IsRounded
  <2> QED
    BY <2>1, <2>2, <2>3, <2>4, Zenon
<1>8. PICK x \in Nat, y \in Nat : x = d * (q * e) /\ y = r * e /\ n * e = x + y
  <2>1. n * e = d * (q * e) + r * e
    BY <1>2, SMT
  <2>2. d * (q * e) \in Nat /\ r * e \in Nat
    BY SMT
  <2> QED
    BY <2>1, <2>2
<1>9. y + e <= d * e /\ d * e \in Nat /\ d * (q * e + e) = x + d * e
  <2>1. e * r + e <= e * d
    BY <1>2, Apart
  <2>2. e * r = r * e /\ e * d = d * e /\ d * e \in Nat
    BY SMT
  <2>3. d * (q * e + e) = d * (q * e) + d * e
    BY SMT
  <2> QED
    BY <1>8, <2>1, <2>2, <2>3
<1>10. PICK z \in Nat : z = q * e /\ q * e + e = z + e /\ z + e \in Nat
  <2>1. q * e \in Nat
    BY SMT
  <2> QED
    BY <2>1
<1>11. PICK w \in Nat : w = d * g /\ -d <= 2 * (w - (x + y)) /\ 2 * (w - (x + y)) <= d
  <2>1. d * g \in Nat
    BY SMT
  <2> QED
    BY <1>7, <1>8, <2>1
<1>12. z <= g
  <2> SUFFICES ASSUME g < z PROVE FALSE
    OBVIOUS
  <2>1. d * g + d <= d * z
    BY <1>10, Apart
  <2>2. w + d <= x
    BY <1>8, <1>10, <1>11, <2>1, Zenon
  <2> QED
    BY <1>1, <1>11, <2>2
<1>13. g <= z + e
  <2> SUFFICES ASSUME z + e < g PROVE FALSE
    BY <1>10
  <2>1. d * (z + e) + d <= d * g
    BY <1>10, Apart
  <2>2. x + d * e + d <= w
    BY <1>9, <1>10, <1>11, <2>1
  <2> QED
    BY <1>1, <1>7, <1>9, <1>11, <2>2
<1> DEFINE rounded == product.m \div Two[product.s]
           twice == 2 * (100 * f.m - rounded * Two[f.s])
           up == IF twice >= Two[f.s] THEN rounded + 1 ELSE rounded
<1>14. FusedFraction(f) = IF twice = Two[f.s] THEN up - (up % 2) ELSE up
  BY Zenon DEF FusedFraction
<1>15. rounded = g \div e
  BY <1>7, Zenon
<1>16. twice = 2 * (n - rounded * d) /\ Two[f.s] = d
  BY <1>1, Zenon DEF Numerator, Denominator
<1> HIDE DEF product, rounded, twice, up
<1>17. CASE g < z + e
  <2>1. g = e * q + (g - z) /\ 0 <= g - z /\ g - z < e /\ g - z \in Int /\ q \in Int /\ e > 0
    <3>1. e * q = z
      BY <1>10, SMT
    <3> QED
      BY <1>7, <1>12, <1>17, <3>1
  <2>2. rounded = q
    BY <1>15, <2>1, DivUnique
  <2>3. n - q * d = r
    <3>1. q * d = d * q /\ d * q \in Nat
      BY SMT
    <3> QED
      BY <1>2, <3>1
  <2>4. twice = 2 * r
    BY <1>16, <2>2, <2>3, Zenon
  <2>5. up = IF 2 * r >= d THEN q + 1 ELSE q
    BY <1>16, <2>2, <2>4, Zenon DEF up
  <2>6. FusedFraction(f) = IF 2 * r = d THEN up - (up % 2) ELSE up
    BY <1>14, <1>16, <2>4, Zenon
  <2>7. CASE 2 * r = d
    <3>1. FusedFraction(f) = (q + 1) - ((q + 1) % 2)
      BY <2>5, <2>6, <2>7
    <3>2. (q + 1) - ((q + 1) % 2) = IF odd = 1 THEN q + 1 ELSE q
      BY <1>3
    <3>3. Printf(f) = IF odd = 1 THEN q + 1 ELSE q
      BY <1>4, <2>7
    <3> QED
      BY <3>1, <3>2, <3>3, Zenon
  <2>8. CASE 2 * r # d
    <3>1. FusedFraction(f) = IF 2 * r >= d THEN q + 1 ELSE q
      BY <2>5, <2>6, <2>8, Zenon
    <3>2. (2 * r >= d) <=> (2 * r > d \/ (2 * r = d /\ odd = 1))
      BY <1>1, <2>8
    <3> QED
      BY <1>4, <3>1, <3>2, Zenon
  <2> QED
    BY <2>7, <2>8
<1>18. CASE g = z + e
  <2>1. 2 * (d * e - y) <= d
    <3>1. w = x + d * e
      BY <1>9, <1>10, <1>11, <1>18, Zenon
    <3> QED
      BY <1>1, <1>9, <1>11, <3>1
  <2>2. 2 * r > d
    <3>1. PICK k \in Nat : k = d - r /\ k > 0
      <4>1. d - r \in Nat /\ d - r > 0
        BY <1>1, <1>2
      <4> QED
        BY <4>1
    <3>2. k * e = d * e - y
      <4>1. (d - r) * e = d * e - r * e
        BY SMT
      <4> QED
        BY <1>8, <3>1, <4>1, Zenon
    <3>3. 2 * k <= k * e /\ k * e \in Nat
      BY <1>7, SMT
    <3>4. 4 * k <= d
      BY <1>1, <1>9, <2>1, <3>2, <3>3
    <3> QED
      BY <1>1, <1>2, <3>1, <3>4
  <2>3. rounded = q + 1
    <3>1. e * (q + 1) = z + e
      BY <1>10, SMT
    <3>2. g = e * (q + 1) + 0 /\ e > 0 /\ q + 1 \in Int
      BY <1>7, <1>18, <3>1
    <3> QED
      BY <1>7, <1>15, <3>2, DivUnique, 0 \in Int
  <2>4. n - (q + 1) * d = r - d
    <3>1. (q + 1) * d = d * q + d /\ d * q \in Nat
      BY SMT
    <3> QED
      BY <1>2, <3>1
  <2>5. twice = 2 * (r - d)
    BY <1>16, <2>3, <2>4, Zenon
  <2>6. ~ (2 * (r - d) >= d) /\ 2 * (r - d) # d
    BY <1>1, <1>2
  <2>7. up = q + 1
    BY <1>16, <2>3, <2>5, <2>6, Zenon DEF up
  <2>8. FusedFraction(f) = q + 1
    BY <1>14, <1>16, <2>5, <2>6, <2>7, Zenon
  <2> QED
    BY <1>4, <2>2, <2>8, Zenon
<1> QED
  BY <1>12, <1>13, <1>17, <1>18

(* Without a tie the integer nearest to the exact quotient is nearest to   *)
(* the rounded one as well.                                                *)
LEMMA ExactUnlessTiePrints ==
  ASSUME NEW a \in 1..Largest, NEW c \in 1..a
  PROVE  ExactUnlessTie(a, c) = Printf(Divide(a, c))
<1>1. a \in Nat /\ a > 0 /\ c \in Nat /\ c > 0
  BY PrecisionFacts
<1>2. PICK m \in Nat, d \in Nat : /\ m = Divide(a, c).m /\ d = Two[Divide(a, c).s] /\ 100 * c < d
                                  /\ -c <= 2 * (c * m - a * d) /\ 2 * (c * m - a * d) <= c
  BY DivideFacts, Zenon
<1>3. PICK q \in Nat, r \in Nat : q = (100 * a) \div c /\ r = (100 * a) % c /\ r < c /\ 100 * a = c * q + r
  <2>1. 100 * a \in Nat
    BY <1>1
  <2> QED
    BY <1>1, <2>1, DivMod
<1>4. ExactUnlessTie(a, c) = IF r * 2 = c THEN Printf(Divide(a, c)) ELSE q + (IF r * 2 > c THEN 1 ELSE 0)
  BY <1>3, Zenon DEF ExactUnlessTie
<1>5. CASE r * 2 = c
  BY <1>4, <1>5, Zenon
<1>6. CASE r * 2 # c
  <2>1. PICK k \in Nat : k = q + (IF r * 2 > c THEN 1 ELSE 0)
    OBVIOUS
  <2>2. PICK e \in Int : e = k * c - 100 * a /\ -c < 2 * e /\ 2 * e < c
    <3>1. PICK p \in Nat : p = c * q
      BY <1>1, SMT
    <3>2. k * c - 100 * a = IF r * 2 > c THEN c - r ELSE -r
      <4>1. CASE r * 2 > c
        <5>1. k = q + 1
          BY <2>1, <4>1
        <5>2. (q + 1) * c = p + c
          BY <1>1, <3>1, SMT
        <5>3. k * c = p + c
          BY <5>1, <5>2
        <5> QED
          BY <1>1, <1>3, <3>1, <4>1, <5>3
      <4>2. CASE ~ (r * 2 > c)
        <5>1. k = q
          BY <2>1, <4>2
        <5>2. k * c = p
          BY <1>1, <3>1, <5>1, SMT
        <5> QED
          BY <1>1, <1>3, <3>1, <4>2, <5>2
      <4> QED
        BY <4>1, <4>2
    <3>3. PICK e \in Int : e = k * c - 100 * a
      BY <1>1, SMT
    <3>4. e = IF r * 2 > c THEN c - r ELSE -r
      BY <3>2, <3>3, Zenon
    <3>5. -c < 2 * e /\ 2 * e < c
      BY <1>1, <1>3, <1>6, <3>4
    <3> QED
      BY <3>3, <3>5
  <2>3. PICK x \in Nat, y \in Nat : x = c * m /\ y = a * d /\ -c <= 2 * (x - y) /\ 2 * (x - y) <= c
    <3>1. c * m \in Nat /\ a * d \in Nat
      BY <1>1, SMT
    <3> QED
      BY <1>2, <3>1
  <2>4. PICK w \in Int : w = d * k - 100 * m
    BY SMT
  <2>5. d * e = c * w + 100 * (x - y)
    <3>1. d * (k * c - 100 * a) = c * (d * k - 100 * m) + 100 * (c * m - a * d)
      BY <1>1, SMT
    <3> QED
      BY <2>2, <2>3, <2>4, <3>1, Zenon
  <2>6. d * (2 * e) = 2 * (d * e) /\ d * (c - 1) = c * d - d /\ d * (-(c - 1)) = -(c * d) + d
        /\ d * e \in Int /\ c * d \in Nat /\ c * w \in Int
    BY <1>1, SMT
  <2>7. d * (2 * e) <= d * (c - 1) /\ d * (-(c - 1)) <= d * (2 * e)
    <3>1. 2 * e <= c - 1 /\ -(c - 1) <= 2 * e
      BY <1>1, <2>2
    <3> QED
      BY <1>1, <3>1, SMT
  <2>8. -(c * d) < 2 * (c * w) /\ 2 * (c * w) < c * d
    BY <1>1, <1>2, <2>3, <2>5, <2>6, <2>7
  <2>9. 2 * w < d
    <3> SUFFICES ASSUME d <= 2 * w PROVE FALSE
      OBVIOUS
    <3>1. c * d <= c * (2 * w) /\ c * (2 * w) = 2 * (c * w)
      BY <1>1, SMT
    <3> QED
      BY <2>6, <2>8, <3>1
  <2>10. -d < 2 * w
    <3> SUFFICES ASSUME 2 * w <= -d PROVE FALSE
      OBVIOUS
    <3>1. c * (2 * w) <= c * (-d) /\ c * (2 * w) = 2 * (c * w) /\ c * (-d) = -(c * d)
      BY <1>1, SMT
    <3> QED
      BY <2>6, <2>8, <3>1
  <2>11. NearestEven(100 * m, d) = k
    <3>1. 100 * m \in Nat /\ d > 0
      BY <1>1, <1>2
    <3>2. -d < 2 * (d * k - 100 * m) /\ 2 * (d * k - 100 * m) < d
      BY <2>4, <2>9, <2>10, Zenon
    <3> QED
      BY <3>1, <3>2, NearestIs
  <2>12. ExactUnlessTie(a, c) = k
    BY <1>4, <1>6, <2>1, Zenon
  <2>13. Printf(Divide(a, c)) = NearestEven(100 * m, d)
    BY <1>2, Zenon DEF Printf
  <2> QED
    BY <2>11, <2>12, <2>13, Zenon
<1> QED
  BY <1>5, <1>6

(* Every program computes printf's hundredths.                             *)
LEMMA HundredthsPrint ==
  ASSUME NEW a \in 1..Largest, NEW c \in 1..a, NEW p \in Programs
  PROVE  Hundredths(p, a, c) = Printf(Divide(a, c))
<1> DEFINE f == Divide(a, c)
<1>1. IsQuotient(f)
  BY DivideFacts, Zenon DEF IsQuotient
<1> HIDE DEF f
<1>2. WriteAvg(f) = Printf(f) /\ PutAvg26(f) = Printf(f) /\ PutAvg(f) = Printf(f)
  BY <1>1, WriteAvgPrints, Zenon DEF PutAvg26, PutAvg
<1>3. AppendAverage(f) = Printf(f) /\ WriteAverage2dp(f) = Printf(f) /\ RoundedHundredths(f) = Printf(f)
  BY <1>1, AppendAveragePrints, WriteAverage2dpPrints, RoundedHundredthsPrints
<1>4. RintLong(f) = Printf(f) /\ FusedFraction(f) = Printf(f)
  BY <1>1, RintLongPrints, FusedFractionPrints
<1>5. ExactUnlessTie(a, c) = Printf(f)
  BY ExactUnlessTiePrints, Zenon DEF f
<1>6. Hundredths(p, a, c) =
        CASE p = "reference" -> WriteAvg(f)
          [] p = "26-out"    -> PutAvg26(f)
          [] p = "27-robust" -> PutAvg(f)
          [] p = "GPT"       -> AppendAverage(f)
          [] p = "zoi_dayo"  -> WriteAverage2dp(f)
          [] p = "kyomu"     -> RoundedHundredths(f)
          [] p = "anko"      -> RintLong(f)
          [] p = "zer0-star" -> FusedFraction(f)
          [] p = "uni_kakurenbo" -> ExactUnlessTie(a, c)
  BY Zenon DEF Hundredths, f
<1>7. PICK h : h = Printf(f)
  OBVIOUS
<1>8. Hundredths(p, a, c) = h
  BY <1>2, <1>3, <1>4, <1>5, <1>6, <1>7 DEF Programs
<1> QED
  BY <1>7, <1>8, Zenon DEF f

---------------------------------------------------------------------------
(* The value of digits: one more digit is ten times the value and itself.  *)
IsValue(v, ds) == v = [i \in 0..Len(ds) |-> IF i = 0 THEN 0 ELSE 10 * v[i - 1] + ds[i]]

LEMMA ValueExists ==
  ASSUME NEW ds \in Seq(Nat)
  PROVE  \E v : IsValue(v, ds)
<1> DEFINE base == [n \in Nat |-> 0]
           D == 1..Len(ds)
           pre == [n \in Nat |-> IF n = 0 THEN 0 ELSE n - 1]
           G == [n \in Nat |-> [x \in Nat |-> IF n \in D THEN 10 * x + ds[n] ELSE 0]]
<1>1. base \in [Nat -> Nat] /\ D \in SUBSET Nat /\ pre \in [Nat -> Nat]
  OBVIOUS
<1>2. G \in [Nat -> [Nat -> Nat]]
  <2>1. \A n \in D : ds[n] \in Nat
    OBVIOUS
  <2> HIDE DEF D
  <2>2. \A n \in Nat, x \in Nat : (IF n \in D THEN 10 * x + ds[n] ELSE 0) \in Nat
    BY <2>1
  <2> QED
    BY <2>2, Zenon
<1>3. \A n \in D : pre[n] < n
  OBVIOUS
<1>4. PICK f : f \in [Nat -> Nat] /\ \A n \in Nat : f[n] = IF n \in D THEN G[n][f[pre[n]]] ELSE base[n]
  <2> HIDE DEF base, D, pre, G
  <2>1. Downwards(Nat, base, D, pre, G)
    BY <1>1, <1>2, <1>3 DEF Downwards
  <2>2. PICK f : Computes(f, Nat, base, D, pre, G)
    BY <2>1, Recursion
  <2> QED
    BY <2>2 DEF Computes
<1> DEFINE v == [i \in 0..Len(ds) |-> f[i]]
<1>5. ASSUME NEW i \in 0..Len(ds)
      PROVE  v[i] = IF i = 0 THEN 0 ELSE 10 * v[i - 1] + ds[i]
  <2>1. CASE i = 0
    <3>1. i \in Nat /\ i \notin D /\ base[i] = 0 /\ v[i] = f[i]
      BY <2>1
    <3> HIDE DEF base, D, pre, G, v
    <3>2. v[i] = 0
      BY <1>4, <3>1, Zenon
    <3> QED
      BY <2>1, <3>2, Zenon
  <2>2. CASE i # 0
    <3>1. i \in Nat /\ i - 1 \in Nat /\ i - 1 \in 0..Len(ds) /\ pre[i] = i - 1 /\ i \in D
          /\ v[i] = f[i] /\ v[i - 1] = f[i - 1]
      BY <2>2
    <3>2. PICK x \in Nat : x = f[i - 1]
      BY <1>4, <3>1
    <3>3. G[i][x] = 10 * x + ds[i]
      BY <3>1
    <3> HIDE DEF base, D, pre, G, v
    <3>4. f[i] = G[i][x]
      BY <1>4, <3>1, <3>2, Zenon
    <3> QED
      BY <2>2, <3>1, <3>2, <3>3, <3>4, Zenon
  <2> QED
    BY <2>1, <2>2
<1>6. IsValue(v, ds)
  <2> DEFINE B(i) == IF i = 0 THEN 0 ELSE 10 * v[i - 1] + ds[i]
  <2>1. \A i \in 0..Len(ds) : v[i] = B(i)
    BY <1>5, Zenon
  <2>2. v = [i \in 0..Len(ds) |-> v[i]]
    BY Zenon
  <2> HIDE DEF B, v
  <2>3. v = [i \in 0..Len(ds) |-> B(i)]
    BY <2>1, <2>2, Zenon
  <2> QED
    BY <2>3, Zenon DEF B, IsValue
<1> QED
  BY <1>6

LEMMA ValueOfPrefix ==
  ASSUME NEW ds \in Seq(Nat), NEW u \in Seq(Nat), NEW v, IsValue(v, ds), NEW w, IsValue(w, u),
         Len(ds) <= Len(u), \A i \in 1..Len(ds) : ds[i] = u[i]
  PROVE  \A i \in 0..Len(ds) : v[i] = w[i] /\ v[i] \in Nat
<1>1. PICK n \in Nat, m \in Nat : n = Len(ds) /\ m = Len(u) /\ n <= m
  OBVIOUS
<1>2. /\ \A i \in 0..n : v[i] = IF i = 0 THEN 0 ELSE 10 * v[i - 1] + ds[i]
      /\ \A i \in 0..m : w[i] = IF i = 0 THEN 0 ELSE 10 * w[i - 1] + u[i]
  <2> DEFINE B(i) == IF i = 0 THEN 0 ELSE 10 * v[i - 1] + ds[i]
             C(i) == IF i = 0 THEN 0 ELSE 10 * w[i - 1] + u[i]
  <2>1. v = [i \in 0..n |-> B(i)] /\ w = [i \in 0..m |-> C(i)]
    BY <1>1, Zenon DEF IsValue
  <2> HIDE DEF B, C
  <2>2. (\A i \in 0..n : v[i] = B(i)) /\ (\A i \in 0..m : w[i] = C(i))
    BY <2>1, Zenon
  <2> QED
    BY <2>2, Zenon DEF B, C
<1> DEFINE S == {i \in Nat : i <= n => v[i] = w[i] /\ v[i] \in Nat}
<1>3. 0 \in S
  <2>1. 0 \in 0..n /\ 0 \in 0..m
    OBVIOUS
  <2>2. v[0] = 0 /\ w[0] = 0
    BY <1>2, <2>1, Zenon
  <2> QED
    BY <2>2
<1>4. ASSUME NEW k \in Nat, k \in S
      PROVE  k + 1 \in S
  <2> SUFFICES ASSUME k + 1 <= n PROVE v[k + 1] = w[k + 1] /\ v[k + 1] \in Nat
    OBVIOUS
  <2>1. PICK x \in Nat : x = v[k] /\ x = w[k]
    BY <1>4
  <2>2. k + 1 \in 0..n /\ k + 1 \in 0..m /\ k + 1 # 0 /\ (k + 1) - 1 = k /\ k + 1 \in 1..n
    BY <1>1
  <2>3. PICK d \in Nat : d = ds[k + 1] /\ d = u[k + 1]
    <3>1. ds[k + 1] = u[k + 1]
      BY <1>1, <2>2, Zenon
    <3>2. ds[k + 1] \in Nat
      BY <1>1, <2>2
    <3> QED
      BY <3>1, <3>2
  <2>4. v[k + 1] = 10 * x + d /\ w[k + 1] = 10 * x + d
    BY <1>2, <2>1, <2>2, <2>3, Zenon
  <2> QED
    BY <2>4
<1>5. \A i \in Nat : i \in S
  <2> HIDE DEF S
  <2> QED
    BY <1>3, <1>4, NatInduct
<1> QED
  BY <1>1, <1>5

LEMMA ValueSteps ==
  /\ Value(<<>>) = 0
  /\ \A ds \in Seq(Nat), d \in Nat : /\ Value(ds) \in Nat
                                    /\ Value(Append(ds, d)) = 10 * Value(ds) + d
<1>1. \A ds : Value(ds) = (CHOOSE v : IsValue(v, ds))[Len(ds)]
  BY Zenon DEF Value, IsValue
<1> DEFINE of(ds) == CHOOSE v : IsValue(v, ds)
<1>2. \A ds \in Seq(Nat) : Value(ds) = of(ds)[Len(ds)] /\ IsValue(of(ds), ds)
  BY <1>1, ValueExists, Zenon
<1> HIDE DEF of
<1>3. \A ds \in Seq(Nat) : \A i \in 0..Len(ds) : of(ds)[i] = IF i = 0 THEN 0 ELSE 10 * of(ds)[i - 1] + ds[i]
  <2> TAKE ds \in Seq(Nat)
  <2> DEFINE B(i) == IF i = 0 THEN 0 ELSE 10 * of(ds)[i - 1] + ds[i]
  <2>1. of(ds) = [i \in 0..Len(ds) |-> B(i)]
    BY <1>2, Zenon DEF IsValue
  <2> HIDE DEF B
  <2>2. \A i \in 0..Len(ds) : of(ds)[i] = B(i)
    BY <2>1, Zenon
  <2> QED
    BY <2>2, Zenon DEF B
<1>4. Value(<<>>) = 0
  <2>1. PICK e \in Seq(Nat) : e = <<>> /\ Len(e) = 0
    <3>1. <<>> \in Seq(Nat) /\ Len(<<>>) = 0
      OBVIOUS
    <3> QED
      BY <3>1, Zenon
  <2>2. 0 \in 0..Len(e)
    BY <2>1
  <2>3. of(e)[0] = 0
    BY <1>3, <2>2
  <2>4. Value(e) = 0
    BY <1>2, <2>1, <2>3, Zenon
  <2> QED
    BY <2>1, <2>4, Zenon
<1>5. ASSUME NEW ds \in Seq(Nat), NEW d \in Nat
      PROVE  Value(ds) \in Nat /\ Value(Append(ds, d)) = 10 * Value(ds) + d
  <2>1. PICK u \in Seq(Nat) : u = Append(ds, d) /\ Len(u) = Len(ds) + 1 /\ u[Len(ds) + 1] = d
                              /\ \A i \in 1..Len(ds) : ds[i] = u[i]
    <3>1. Append(ds, d) \in Seq(Nat) /\ Len(Append(ds, d)) = Len(ds) + 1
      OBVIOUS
    <3>2. Append(ds, d)[Len(ds) + 1] = d
      OBVIOUS
    <3>3. \A i \in 1..Len(ds) : ds[i] = Append(ds, d)[i]
      OBVIOUS
    <3> QED
      BY <3>1, <3>2, <3>3, Zenon
  <2>2. PICK n \in Nat : n = Len(ds) /\ n + 1 = Len(u) /\ n \in 0..Len(ds)
    BY <2>1
  <2>3. n + 1 \in 0..Len(u) /\ n + 1 # 0 /\ (n + 1) - 1 = n /\ Len(ds) <= Len(u)
    BY <2>2
  <2>4. of(ds)[n] = of(u)[n] /\ of(ds)[n] \in Nat
    <3>1. IsValue(of(ds), ds) /\ IsValue(of(u), u)
      BY <1>2, Zenon
    <3>2. \A i \in 0..Len(ds) : of(ds)[i] = of(u)[i] /\ of(ds)[i] \in Nat
      BY <2>1, <2>3, <3>1, ValueOfPrefix, Zenon
    <3> QED
      BY <2>2, <3>2, Zenon
  <2>5. of(u)[n + 1] = 10 * of(u)[n] + u[n + 1]
    BY <1>3, <2>3, Zenon
  <2>6. Value(u) = 10 * Value(ds) + d
    BY <1>2, <2>1, <2>2, <2>4, <2>5, Zenon
  <2> QED
    BY <1>2, <2>1, <2>2, <2>4, <2>6, Zenon
<1> QED
  BY <1>4, <1>5

(* The decimal digits of a number: as many as it takes, and none too many. *)
IsDecimal(ds, x) ==
  /\ ds \in Seq(0..9) /\ Len(ds) >= 1
  /\ Value(ds) = x
  /\ x < Ten[Len(ds)] /\ (Len(ds) = 1 \/ Ten[Len(ds) - 1] <= x)
  /\ ds[1] = 0 => ds = <<0>>

LEMMA DecimalDigit ==
  ASSUME NEW d \in 0..9
  PROVE  IsDecimal(<<d>>, d)
<1>1. <<d>> \in Seq(0..9) /\ Len(<<d>>) = 1 /\ <<d>>[1] = d /\ <<>> \in Seq(Nat) /\ d \in Nat
  OBVIOUS
<1>2. Append(<<>>, d) = <<d>>
  OBVIOUS
<1>3. Value(<<d>>) = d
  <2>1. Value(Append(<<>>, d)) = 10 * Value(<<>>) + d /\ Value(<<>>) = 0
    BY <1>1, ValueSteps, Zenon
  <2>2. Value(Append(<<>>, d)) = d
    BY <2>1
  <2> QED
    BY <1>2, <2>2, Zenon
<1>4. d < Ten[Len(<<d>>)]
  <2>1. d < Ten[1]
    BY TenValues
  <2> QED
    BY <1>1, <2>1, Zenon
<1>5. <<d>>[1] = 0 => <<d>> = <<0>>
  BY <1>1, Zenon
<1>6. Len(<<d>>) >= 1
  BY <1>1
<1> QED
  BY <1>1, <1>3, <1>4, <1>5, <1>6, Zenon DEF IsDecimal

LEMMA TwoDigits ==
  \A i \in 0..9, j \in 0..9 : <<i>> \o <<j>> = <<i, j>>
<1> TAKE i \in 0..9, j \in 0..9
<1>1. PICK s \in Seq(0..9), u \in Seq(0..9) : s = <<i>> /\ u = <<j>> /\ Len(s) = 1 /\ Len(u) = 1
                                              /\ s[1] = i /\ u[1] = j
  <2>1. <<i>> \in Seq(0..9) /\ <<j>> \in Seq(0..9) /\ Len(<<i>>) = 1 /\ Len(<<j>>) = 1
        /\ <<i>>[1] = i /\ <<j>>[1] = j
    OBVIOUS
  <2> QED
    BY <2>1, Zenon
<1>2. PICK w \in Seq(0..9) : w = <<i, j>> /\ Len(w) = 2 /\ w[1] = i /\ w[2] = j
  <2>1. <<i, j>> \in Seq(0..9) /\ Len(<<i, j>>) = 2 /\ <<i, j>>[1] = i /\ <<i, j>>[2] = j
    OBVIOUS
  <2> QED
    BY <2>1, Zenon
<1>3. s \o u \in Seq(0..9) /\ Len(s \o u) = Len(w) /\ \A k \in 1..Len(s \o u) : (s \o u)[k] = w[k]
  BY <1>1, <1>2, ConcatProperties
<1>4. s \o u = w
  BY <1>3, SeqEqual, Zenon
<1> QED
  BY <1>1, <1>2, <1>4, Zenon

LEMMA DecimalStep ==
  ASSUME NEW x \in Nat, x >= 10, NEW ds, IsDecimal(ds, x \div 10)
  PROVE  IsDecimal(ds \o <<x % 10>>, x)
<1>1. PICK y \in Nat, d \in 0..9 : y = x \div 10 /\ d = x % 10 /\ x = 10 * y + d /\ y >= 1
  <2>1. x \div 10 \in Nat /\ x % 10 \in 0..9 /\ x = 10 * (x \div 10) + (x % 10) /\ x \div 10 >= 1
    OBVIOUS
  <2> QED
    BY <2>1, Zenon
<1>2. ds \in Seq(0..9) /\ Len(ds) >= 1 /\ Value(ds) = y /\ (ds[1] = 0 => ds = <<0>>)
  BY <1>1, Zenon DEF IsDecimal
<1>3. y < Ten[Len(ds)] /\ (Len(ds) = 1 \/ Ten[Len(ds) - 1] <= y)
  BY <1>1, Zenon DEF IsDecimal
<1>4. PICK n \in Nat : n = Len(ds) /\ n >= 1
  BY <1>2
<1>5. PICK u : u = Append(ds, d)
  OBVIOUS
<1>6. u \in Seq(0..9) /\ Len(u) = n + 1 /\ u[1] = ds[1]
  BY <1>2, <1>4, <1>5
<1>7. ds \o <<d>> = u
  <2>1. d \in 0..9
    OBVIOUS
  <2> QED
    BY <1>2, <1>5, <2>1, AppendIsConcat, Zenon
<1>8. Value(u) = x
  <2>1. ds \in Seq(Nat) /\ d \in Nat
    BY <1>2
  <2>2. Value(Append(ds, d)) = 10 * Value(ds) + d
    BY <2>1, ValueSteps, Zenon
  <2> QED
    BY <1>1, <1>2, <1>5, <2>2, Zenon
<1>9. x < Ten[n + 1] /\ Ten[n] <= x
  <2>1. PICK k \in Nat : k + 1 = n /\ k = n - 1
    BY <1>4
  <2>2. PICK a \in Nat, b \in Nat : a = Ten[k] /\ b = Ten[n] /\ b = 10 * a /\ Ten[n + 1] = 10 * b
    <3>1. Ten[k] \in Nat /\ Ten[k + 1] \in Nat /\ Ten[k + 1] = 10 * Ten[k] /\ Ten[n + 1] = 10 * Ten[n]
      BY TenFacts
    <3> QED
      BY <2>1, <3>1, Zenon
  <2>3. y < b
    BY <1>3, <1>4, <2>2
  <2>4. a <= y
    <3>1. CASE n = 1
      <4>1. k = 0
        BY <2>1, <3>1
      <4>2. a = 1
        BY <2>2, <4>1, TenFacts
      <4> QED
        BY <1>1, <4>2
    <3>2. CASE n # 1
      BY <1>3, <1>4, <2>1, <2>2, <3>2, Zenon
    <3> QED
      BY <3>1, <3>2
  <2> QED
    BY <1>1, <2>2, <2>3, <2>4
<1>10. u[1] # 0
  <2> SUFFICES ASSUME u[1] = 0 PROVE FALSE
    OBVIOUS
  <2>1. ds = <<0>>
    BY <1>2, <1>6, Zenon
  <2>2. Value(<<0>>) = 0
    <3>1. 0 \in 0..9
      OBVIOUS
    <3> QED
      BY <3>1, DecimalDigit, Zenon DEF IsDecimal
  <2>3. y = 0
    BY <1>2, <2>1, <2>2, Zenon
  <2> QED
    BY <1>1, <2>3
<1>11. n + 1 >= 1 /\ (n + 1) - 1 = n
  OBVIOUS
<1>12. IsDecimal(u, x)
  BY <1>6, <1>8, <1>9, <1>10, <1>11, Zenon DEF IsDecimal
<1> QED
  BY <1>1, <1>7, <1>12, Zenon

(* Two digits at a time.                                                   *)
LEMMA Reassociate ==
  \A S : \A s \in Seq(S), u \in Seq(S), w \in Seq(S) : (s \o u) \o w = s \o (u \o w)
<1> TAKE S
<1> TAKE s \in Seq(S), u \in Seq(S), w \in Seq(S)
<1> QED
  BY ConcatAssociative, SMTT(30)

LEMMA TwoAppends ==
  \A ds \in Seq(0..9), i \in 0..9, j \in 0..9 : (ds \o <<i>>) \o <<j>> = ds \o <<i, j>>
<1> TAKE ds \in Seq(0..9), i \in 0..9, j \in 0..9
<1>1. PICK u \in Seq(0..9), w \in Seq(0..9) : u = <<i>> /\ w = <<j>>
  <2>1. <<i>> \in Seq(0..9) /\ <<j>> \in Seq(0..9)
    OBVIOUS
  <2> QED
    BY <2>1, Zenon
<1>2. u \o w = <<i, j>>
  <2>1. <<i>> \o <<j>> = <<i, j>>
    BY TwoDigits, Zenon
  <2>2. u \o w = <<i>> \o <<j>>
    BY <1>1, Zenon
  <2> QED
    BY <2>1, <2>2, Zenon
<1>3. (ds \o u) \o w = ds \o (u \o w)
  BY Reassociate, SMTT(30)
<1>4. (ds \o u) \o w = ds \o <<i, j>>
  BY <1>2, <1>3, Zenon
<1> QED
  BY <1>1, <1>4, Zenon

LEMMA PairIsTwo ==
  ASSUME NEW x \in Nat, x >= 100, NEW ds \in Seq(0..9)
  PROVE  /\ x \div 10 \in Nat /\ x \div 10 >= 10 /\ (x \div 10) \div 10 = x \div 100 /\ x \div 100 \in Nat
         /\ (ds \o <<(x \div 10) % 10>>) \o <<x % 10>> = ds \o Pair(x % 100)
<1>1. PICK y \in Nat, e \in 0..9, d \in 0..9 :
        /\ y = x \div 10 /\ e = y % 10 /\ d = x % 10 /\ y >= 10
        /\ x \div 100 = y \div 10 /\ (x % 100) \div 10 = e /\ (x % 100) % 10 = d
  <2>1. PICK y \in Nat : y = x \div 10 /\ y >= 10
    <3>1. x \div 10 \in Nat /\ x \div 10 >= 10
      OBVIOUS
    <3> QED
      BY <3>1
  <2>2. x \div 100 = y \div 10
    BY <2>1
  <2>3. (x % 100) \div 10 = y % 10 /\ (x % 100) % 10 = x % 10
    BY <2>1
  <2>4. y % 10 \in 0..9 /\ x % 10 \in 0..9
    BY <2>1
  <2> QED
    BY <2>1, <2>2, <2>3, <2>4, Zenon
<1>2. Pair(x % 100) = <<e, d>>
  BY <1>1, Zenon DEF Pair
<1>3. (ds \o <<e>>) \o <<d>> = ds \o <<e, d>>
  BY TwoAppends, Zenon
<1>4. y \div 10 \in Nat
  OBVIOUS
<1>5. y >= 10
  BY <1>1
<1> QED
  BY <1>1, <1>2, <1>3, <1>4, <1>5, Zenon

LEMMA DecimalPair ==
  ASSUME NEW x \in Nat, x >= 100, NEW ds, IsDecimal(ds, x \div 100)
  PROVE  IsDecimal(ds \o Pair(x % 100), x)
<1>1. ds \in Seq(0..9)
  BY Zenon DEF IsDecimal
<1>2. /\ x \div 10 \in Nat /\ x \div 10 >= 10 /\ (x \div 10) \div 10 = x \div 100
      /\ (ds \o <<(x \div 10) % 10>>) \o <<x % 10>> = ds \o Pair(x % 100)
  BY <1>1, PairIsTwo, Zenon
<1>3. IsDecimal(ds, (x \div 10) \div 10)
  BY <1>2, Zenon
<1>4. IsDecimal(ds \o <<(x \div 10) % 10>>, x \div 10)
  BY <1>2, <1>3, DecimalStep, Zenon
<1>5. x >= 10
  OBVIOUS
<1>6. IsDecimal((ds \o <<(x \div 10) % 10>>) \o <<x % 10>>, x)
  BY <1>4, <1>5, DecimalStep, Zenon
<1> QED
  BY <1>2, <1>6, Zenon

LEMMA DecimalOfPair ==
  ASSUME NEW x \in 10..99
  PROVE  IsDecimal(Pair(x), x)
<1>1. x \in Nat /\ x >= 10 /\ x \div 10 \in 0..9
  OBVIOUS
<1>2. IsDecimal(<<x \div 10>>, x \div 10)
  BY <1>1, DecimalDigit, Zenon
<1>3. IsDecimal(<<x \div 10>> \o <<x % 10>>, x)
  BY <1>1, <1>2, DecimalStep, Zenon
<1>4. <<x \div 10>> \o <<x % 10>> = <<x \div 10, x % 10>>
  <2>1. x \div 10 \in 0..9 /\ x % 10 \in 0..9
    OBVIOUS
  <2> QED
    BY <2>1, TwoDigits, Zenon
<1> QED
  BY <1>3, <1>4, Zenon DEF Pair

---------------------------------------------------------------------------
(* The conversions: each recursion has a solution, and whichever it is     *)
(* writes the decimal digits of every number.                              *)
LEMMA StrongInduct ==
  ASSUME NEW T, \A n \in Nat : (\A k \in Nat : k < n => k \in T) => n \in T
  PROVE  \A n \in Nat : n \in T
<1> SUFFICES ASSUME Nat \ T # {} PROVE FALSE
  OBVIOUS
<1>1. PICK n \in Nat \ T : \A k \in Nat \ T : n <= k
  <2>1. Nat \ T \subseteq Nat
    OBVIOUS
  <2> QED
    BY <2>1, LeastNat
<1>2. \A k \in Nat : k < n => k \in T
  BY <1>1
<1> QED
  BY <1>1, <1>2

DigitByDigit(f) == f = [x \in Nat |-> IF x >= 10 THEN f[x \div 10] \o <<x % 10>> ELSE <<x>>]

LEMMA DigitsExist ==
  \E f \in [Nat -> Seq(0..9)] : DigitByDigit(f)
<1> DEFINE Texts == Seq(0..9)
           base == [x \in Nat |-> <<x % 10>>]
           D == {x \in Nat : x >= 10}
           pre == [x \in Nat |-> x \div 10]
           G == [x \in Nat |-> [ds \in Texts |-> ds \o <<x % 10>>]]
<1>1. base \in [Nat -> Texts]
  <2>1. \A d \in 0..9 : <<d>> \in Seq(0..9)
    OBVIOUS
  <2>2. \A x \in Nat : x % 10 \in 0..9
    OBVIOUS
  <2>3. \A x \in Nat : <<x % 10>> \in Texts
    BY <2>1, <2>2, Zenon
  <2> HIDE DEF Texts
  <2> QED
    BY <2>3, Zenon
<1>2. D \in SUBSET Nat /\ pre \in [Nat -> Nat]
  OBVIOUS
<1>3. G \in [Nat -> [Texts -> Texts]]
  <2>1. \A x \in Nat : x % 10 \in 0..9
    OBVIOUS
  <2>2. \A x \in Nat, ds \in Texts : ds \o <<x % 10>> \in Texts
    <3>1. \A d \in 0..9 : <<d>> \in Seq(0..9)
      OBVIOUS
    <3>2. \A s \in Seq(0..9), ds \in Seq(0..9) : ds \o s \in Seq(0..9)
      OBVIOUS
    <3> QED
      BY <2>1, <3>1, <3>2, Zenon
  <2> HIDE DEF Texts
  <2> QED
    BY <2>2, Zenon
<1>4. \A n \in D : pre[n] < n
  OBVIOUS
<1>5. PICK f : f \in [Nat -> Texts] /\ \A n \in Nat : f[n] = IF n \in D THEN G[n][f[pre[n]]] ELSE base[n]
  <2> HIDE DEF Texts, base, D, pre, G
  <2>1. Downwards(Texts, base, D, pre, G)
    BY <1>1, <1>2, <1>3, <1>4, Zenon DEF Downwards
  <2>2. PICK f : Computes(f, Texts, base, D, pre, G)
    BY <2>1, Recursion
  <2> QED
    BY <2>2, Zenon DEF Computes
<1> DEFINE B(x) == IF x >= 10 THEN f[x \div 10] \o <<x % 10>> ELSE <<x>>
<1>6. ASSUME NEW x \in Nat
      PROVE  f[x] = B(x)
  <2>1. CASE x >= 10
    <3>1. x \in D /\ pre[x] = x \div 10 /\ x \div 10 \in Nat
      BY <2>1
    <3>2. f[x \div 10] \in Texts
      BY <1>5, <3>1, Zenon
    <3>3. G[x][f[x \div 10]] = f[x \div 10] \o <<x % 10>>
      BY <3>2, Zenon
    <3> HIDE DEF Texts, base, D, pre, G
    <3>4. f[x] = f[x \div 10] \o <<x % 10>>
      BY <1>5, <3>1, <3>3, Zenon
    <3> QED
      BY <2>1, <3>4, Zenon
  <2>2. CASE ~ (x >= 10)
    <3>1. x \notin D /\ x % 10 = x
      BY <2>2
    <3>2. base[x] = <<x % 10>>
      BY Zenon
    <3> HIDE DEF Texts, base, D, pre, G
    <3>3. f[x] = <<x>>
      BY <1>5, <3>1, <3>2, Zenon
    <3> QED
      BY <2>2, <3>3, Zenon
  <2> QED
    BY <2>1, <2>2, Zenon
<1>7. DigitByDigit(f)
  <2>1. f = [x \in Nat |-> f[x]]
    BY <1>5, Zenon
  <2> HIDE DEF B
  <2>2. f = [x \in Nat |-> B(x)]
    BY <1>6, <2>1, Zenon
  <2> QED
    BY <2>2, Zenon DEF B, DigitByDigit
<1> QED
  BY <1>5, <1>7, Zenon

LEMMA DigitByDigitIs ==
  ASSUME NEW f, DigitByDigit(f), NEW x \in Nat
  PROVE  f[x] = IF x >= 10 THEN f[x \div 10] \o <<x % 10>> ELSE <<x>>
<1> DEFINE B(n) == IF n >= 10 THEN f[n \div 10] \o <<n % 10>> ELSE <<n>>
<1>1. f = [n \in Nat |-> B(n)]
  BY Zenon DEF DigitByDigit
<1> HIDE DEF B
<1>2. f[x] = B(x)
  BY <1>1, Zenon
<1> QED
  BY <1>2, Zenon DEF B

LEMMA DigitByDigitWrites ==
  ASSUME NEW f, DigitByDigit(f)
  PROVE  \A x \in Nat : IsDecimal(f[x], x)
<1> DEFINE T == {x \in Nat : IsDecimal(f[x], x)}
<1>1. ASSUME NEW n \in Nat, \A k \in Nat : k < n => k \in T
      PROVE  n \in T
  <2>1. CASE n >= 10
    <3>1. n \div 10 \in Nat /\ n \div 10 < n
      BY <2>1
    <3>2. IsDecimal(f[n \div 10], n \div 10)
      BY <1>1, <3>1, Zenon
    <3>3. IsDecimal(f[n \div 10] \o <<n % 10>>, n)
      BY <2>1, <3>2, DecimalStep, Zenon
    <3>4. f[n] = f[n \div 10] \o <<n % 10>>
      BY <2>1, DigitByDigitIs, Zenon
    <3> QED
      BY <3>3, <3>4, Zenon
  <2>2. CASE ~ (n >= 10)
    <3>1. n \in 0..9
      BY <2>2
    <3>2. f[n] = <<n>>
      BY <2>2, DigitByDigitIs, Zenon
    <3>3. IsDecimal(f[n], n)
      BY <3>1, <3>2, DecimalDigit, Zenon
    <3> QED
      BY <3>3, Zenon
  <2> QED
    BY <2>1, <2>2
<1>2. \A n \in Nat : n \in T
  <2> HIDE DEF T
  <2> QED
    BY <1>1, StrongInduct, Zenon
<1> QED
  BY <1>2, Zenon

LEMMA Wu32Writes ==
  ASSUME NEW v \in Nat
  PROVE  IsDecimal(Wu32(v), v)
<1> DEFINE f == CHOOSE f : DigitByDigit(f)
<1>1. Wu32(v) = f[v]
  BY Zenon DEF Wu32, DigitByDigit
<1>2. DigitByDigit(f)
  BY DigitsExist, Zenon
<1> HIDE DEF f
<1> QED
  BY <1>1, <1>2, DigitByDigitWrites, Zenon

LEMMA WriteU64Writes ==
  ASSUME NEW v \in Nat
  PROVE  IsDecimal(WriteU64(v), v)
<1> DEFINE FromEnd(f) == f = [x \in Nat |-> IF x \div 10 = 0 THEN <<x % 10>> ELSE f[x \div 10] \o <<x % 10>>]
<1>1. ASSUME NEW f
      PROVE  FromEnd(f) <=> DigitByDigit(f)
  <2> DEFINE A(x) == IF x \div 10 = 0 THEN <<x % 10>> ELSE f[x \div 10] \o <<x % 10>>
             B(x) == IF x >= 10 THEN f[x \div 10] \o <<x % 10>> ELSE <<x>>
  <2>1. \A x \in Nat : (x \div 10 = 0 /\ x % 10 = x /\ ~ (x >= 10)) \/ (x \div 10 # 0 /\ x >= 10)
    OBVIOUS
  <2>2. \A x \in Nat : A(x) = B(x)
    BY <2>1, Zenon
  <2>3. (FromEnd(f) <=> f = [x \in Nat |-> A(x)]) /\ (DigitByDigit(f) <=> f = [x \in Nat |-> B(x)])
    BY Zenon DEF DigitByDigit
  <2> HIDE DEF A, B
  <2>4. [x \in Nat |-> A(x)] = [x \in Nat |-> B(x)]
    BY <2>2, Zenon
  <2> QED
    BY <2>3, <2>4, Zenon
<1> DEFINE f == CHOOSE f : FromEnd(f)
<1>2. WriteU64(v) = f[v]
  BY Zenon DEF WriteU64
<1> HIDE DEF FromEnd
<1>3. DigitByDigit(f)
  BY <1>1, DigitsExist, Zenon
<1> HIDE DEF f
<1> QED
  BY <1>2, <1>3, DigitByDigitWrites, Zenon

PairByPair(f) ==
  f = [x \in Nat |-> IF x >= 100 THEN f[x \div 100] \o Pair(x % 100)
                     ELSE IF x >= 10 THEN Pair(x) ELSE <<x>>]

LEMMA PairsExist ==
  \E f : PairByPair(f)
<1>1. PICK f : f \in [Nat -> Seq(0..9)] /\ DigitByDigit(f)
  BY DigitsExist, Zenon
<1> DEFINE B(x) == IF x >= 100 THEN f[x \div 100] \o Pair(x % 100)
                   ELSE IF x >= 10 THEN Pair(x) ELSE <<x>>
<1>2. ASSUME NEW x \in Nat
      PROVE  f[x] = B(x)
  <2>1. CASE x >= 100
    <3>1. x >= 10 /\ x \div 10 \in Nat /\ x \div 10 >= 10 /\ (x \div 10) \div 10 = x \div 100 /\ x \div 100 \in Nat
      BY <2>1, PairIsTwo, <<>> \in Seq(0..9)
    <3>2. f[x] = f[x \div 10] \o <<x % 10>>
      BY <1>1, <3>1, DigitByDigitIs, Zenon
    <3>3. f[x \div 10] = f[x \div 100] \o <<(x \div 10) % 10>>
      <4>1. f[x \div 10] = f[(x \div 10) \div 10] \o <<(x \div 10) % 10>>
        BY <1>1, <3>1, DigitByDigitIs, Zenon
      <4> QED
        BY <3>1, <4>1, Zenon
    <3>4. f[x \div 100] \in Seq(0..9)
      BY <1>1, <3>1, Zenon
    <3>5. (f[x \div 100] \o <<(x \div 10) % 10>>) \o <<x % 10>> = f[x \div 100] \o Pair(x % 100)
      BY <2>1, <3>4, PairIsTwo, Zenon
    <3> QED
      BY <2>1, <3>2, <3>3, <3>5, Zenon
  <2>2. CASE ~ (x >= 100) /\ x >= 10
    <3>1. x \div 10 \in Nat /\ ~ (x \div 10 >= 10) /\ x \div 10 \in 0..9 /\ x % 10 \in 0..9
      BY <2>2
    <3>2. f[x] = f[x \div 10] \o <<x % 10>>
      BY <1>1, <2>2, DigitByDigitIs, Zenon
    <3>3. f[x \div 10] = <<x \div 10>>
      BY <1>1, <3>1, DigitByDigitIs, Zenon
    <3>4. <<x \div 10>> \o <<x % 10>> = <<x \div 10, x % 10>>
      BY <3>1, TwoDigits, Zenon
    <3>5. f[x] = Pair(x)
      BY <3>2, <3>3, <3>4, Zenon DEF Pair
    <3> QED
      BY <2>2, <3>5, Zenon
  <2>3. CASE ~ (x >= 100) /\ ~ (x >= 10)
    <3>1. f[x] = <<x>>
      BY <1>1, <2>3, DigitByDigitIs, Zenon
    <3> QED
      BY <2>3, <3>1, Zenon
  <2> QED
    BY <2>1, <2>2, <2>3, Zenon
<1>3. f = [x \in Nat |-> f[x]]
  BY <1>1, Zenon
<1> HIDE DEF B
<1>4. f = [x \in Nat |-> B(x)]
  BY <1>2, <1>3, Zenon
<1>5. PairByPair(f)
  BY <1>4, Zenon DEF B, PairByPair
<1> QED
  BY <1>5, Zenon

LEMMA PairByPairWrites ==
  ASSUME NEW f, PairByPair(f)
  PROVE  \A x \in Nat : IsDecimal(f[x], x)
<1>0. ASSUME NEW x \in Nat
      PROVE  f[x] = IF x >= 100 THEN f[x \div 100] \o Pair(x % 100)
                    ELSE IF x >= 10 THEN Pair(x) ELSE <<x>>
  <2> DEFINE B(n) == IF n >= 100 THEN f[n \div 100] \o Pair(n % 100)
                     ELSE IF n >= 10 THEN Pair(n) ELSE <<n>>
  <2>1. f = [n \in Nat |-> B(n)]
    BY Zenon DEF PairByPair
  <2> HIDE DEF B
  <2>2. f[x] = B(x)
    BY <2>1, Zenon
  <2> QED
    BY <2>2, Zenon DEF B
<1> DEFINE T == {x \in Nat : IsDecimal(f[x], x)}
<1>1. ASSUME NEW n \in Nat, \A k \in Nat : k < n => k \in T
      PROVE  n \in T
  <2>1. CASE n >= 100
    <3>1. n \div 100 \in Nat /\ n \div 100 < n
      BY <2>1
    <3>2. IsDecimal(f[n \div 100], n \div 100)
      BY <1>1, <3>1, Zenon
    <3>3. IsDecimal(f[n \div 100] \o Pair(n % 100), n)
      BY <2>1, <3>2, DecimalPair, Zenon
    <3>4. f[n] = f[n \div 100] \o Pair(n % 100)
      BY <1>0, <2>1, Zenon
    <3> QED
      BY <3>3, <3>4, Zenon
  <2>2. CASE ~ (n >= 100) /\ n >= 10
    <3>1. n \in 10..99
      BY <2>2
    <3>2. f[n] = Pair(n)
      BY <1>0, <2>2, Zenon
    <3>3. IsDecimal(f[n], n)
      BY <3>1, <3>2, DecimalOfPair, Zenon
    <3> QED
      BY <3>3, Zenon
  <2>3. CASE ~ (n >= 100) /\ ~ (n >= 10)
    <3>1. n \in 0..9
      BY <2>3
    <3>2. f[n] = <<n>>
      BY <1>0, <2>3, Zenon
    <3>3. IsDecimal(f[n], n)
      BY <3>1, <3>2, DecimalDigit, Zenon
    <3> QED
      BY <3>3, Zenon
  <2> QED
    BY <2>1, <2>2, <2>3
<1>2. \A n \in Nat : n \in T
  <2> HIDE DEF T
  <2> QED
    BY <1>1, StrongInduct, Zenon
<1> QED
  BY <1>2, Zenon

LEMMA AppendPairsWrites ==
  ASSUME NEW v \in Nat
  PROVE  IsDecimal(AppendPairs(v), v)
<1> DEFINE f == CHOOSE f : PairByPair(f)
<1>1. AppendPairs(v) = f[v]
  BY Zenon DEF AppendPairs, PairByPair
<1>2. PairByPair(f)
  BY PairsExist, Zenon
<1> HIDE DEF f
<1> QED
  BY <1>1, <1>2, PairByPairWrites, Zenon

(* The last digit first, and then the other way round.                     *)
Backwards(f) == f = [x \in Nat |-> IF x < 10 THEN <<x>> ELSE <<x % 10>> \o f[x \div 10]]

Turned(ds) == [i \in 1..Len(ds) |-> ds[Len(ds) + 1 - i]]

LEMMA TurnedFacts ==
  ASSUME NEW ds \in Seq(0..9)
  PROVE  /\ Turned(ds) \in Seq(0..9) /\ Len(Turned(ds)) = Len(ds)
         /\ \A i \in 1..Len(ds) : Turned(ds)[i] = ds[Len(ds) + 1 - i]
<1>1. \A i \in 1..Len(ds) : ds[Len(ds) + 1 - i] \in 0..9
  OBVIOUS
<1>2. Turned(ds) \in [1..Len(ds) -> 0..9]
  BY <1>1, Zenon DEF Turned
<1>3. Turned(ds) \in Seq(0..9) /\ Len(Turned(ds)) = Len(ds)
  BY <1>2
<1>4. \A i \in 1..Len(ds) : Turned(ds)[i] = ds[Len(ds) + 1 - i]
  BY Zenon DEF Turned
<1> QED
  BY <1>3, <1>4, Zenon

LEMMA TurnedStep ==
  ASSUME NEW ds \in Seq(0..9), NEW d \in 0..9
  PROVE  /\ <<d>> \o ds \in Seq(0..9)
         /\ Turned(<<d>> \o ds) = Turned(ds) \o <<d>>
         /\ Turned(<<d>>) = <<d>>
<1>1. PICK u \in Seq(0..9) : u = <<d>> /\ Len(u) = 1 /\ u[1] = d
  <2>1. <<d>> \in Seq(0..9) /\ Len(<<d>>) = 1 /\ <<d>>[1] = d
    OBVIOUS
  <2> QED
    BY <2>1, Zenon
<1>2. PICK s \in Seq(0..9) : /\ s = u \o ds /\ Len(s) = 1 + Len(ds)
                             /\ \A i \in 1..(1 + Len(ds)) : s[i] = IF i <= 1 THEN u[i] ELSE ds[i - 1]
  <2>1. u \o ds \in Seq(0..9) /\ Len(u \o ds) = Len(u) + Len(ds)
        /\ \A i \in 1..(Len(u) + Len(ds)) : (u \o ds)[i] = IF i <= Len(u) THEN u[i] ELSE ds[i - Len(u)]
    BY ConcatProperties, Zenon
  <2> QED
    BY <1>1, <2>1, Zenon
<1>3. PICK n \in Nat : n = Len(ds)
  OBVIOUS
<1>4. PICK r \in Seq(0..9) : r = Turned(ds) /\ Len(r) = n /\ \A i \in 1..n : r[i] = ds[n + 1 - i]
  BY <1>3, TurnedFacts, Zenon
<1>5. PICK w \in Seq(0..9) : w = Turned(s) /\ Len(w) = n + 1 /\ \A i \in 1..(n + 1) : w[i] = s[n + 2 - i]
  <2>1. Turned(s) \in Seq(0..9) /\ Len(Turned(s)) = Len(s) /\ \A i \in 1..Len(s) : Turned(s)[i] = s[Len(s) + 1 - i]
    BY TurnedFacts, Zenon
  <2>2. Len(s) = n + 1
    BY <1>2, <1>3
  <2>3. \A i \in 1..(n + 1) : Turned(s)[i] = s[(n + 1) + 1 - i]
    BY <2>1, <2>2, Zenon
  <2>4. ASSUME NEW i \in 1..(n + 1)
        PROVE  Turned(s)[i] = s[n + 2 - i]
    <3>1. (n + 1) + 1 - i = n + 2 - i
      OBVIOUS
    <3> QED
      BY <2>3, <3>1, Zenon
  <2>5. Len(Turned(s)) = n + 1
    BY <2>1, <2>2, Zenon
  <2> QED
    BY <2>1, <2>4, <2>5, Zenon
<1>6. PICK z \in Seq(0..9) : z = r \o u /\ Len(z) = n + 1 /\ \A i \in 1..(n + 1) : z[i] = IF i <= n THEN r[i] ELSE d
  <2>1. r \o u \in Seq(0..9) /\ Len(r \o u) = Len(r) + Len(u)
        /\ \A i \in 1..(Len(r) + Len(u)) : (r \o u)[i] = IF i <= Len(r) THEN r[i] ELSE u[i - Len(r)]
    BY ConcatProperties, Zenon
  <2>2. Len(r) + Len(u) = n + 1
    BY <1>1, <1>4
  <2>3. \A i \in 1..(n + 1) : (r \o u)[i] = IF i <= n THEN r[i] ELSE u[i - n]
    BY <1>4, <2>1, <2>2, Zenon
  <2>4. ASSUME NEW i \in 1..(n + 1)
        PROVE  (r \o u)[i] = IF i <= n THEN r[i] ELSE d
    <3>1. CASE i <= n
      BY <2>3, <3>1, Zenon
    <3>2. CASE ~ (i <= n)
      <4>1. i - n = 1
        BY <3>2
      <4> QED
        BY <1>1, <2>3, <3>2, <4>1, Zenon
    <3> QED
      BY <3>1, <3>2
  <2> QED
    BY <2>1, <2>2, <2>4, Zenon
<1>7. ASSUME NEW i \in 1..(n + 1)
      PROVE  w[i] = z[i]
  <2>1. CASE i <= n
    <3>1. n + 2 - i \in 1..(1 + n) /\ ~ (n + 2 - i <= 1) /\ (n + 2 - i) - 1 = n + 1 - i /\ i \in 1..n
      BY <2>1
    <3>2. w[i] = ds[n + 1 - i]
      BY <1>2, <1>3, <1>5, <3>1, Zenon
    <3> QED
      BY <1>4, <1>6, <2>1, <3>1, <3>2, Zenon
  <2>2. CASE ~ (i <= n)
    <3>1. n + 2 - i = 1 /\ 1 \in 1..(1 + n) /\ 1 <= 1
      BY <2>2
    <3>2. w[i] = d
      BY <1>1, <1>2, <1>3, <1>5, <3>1, Zenon
    <3> QED
      BY <1>6, <2>2, <3>2, Zenon
  <2> QED
    BY <2>1, <2>2
<1>8. w = z
  BY <1>5, <1>6, <1>7, SeqEqual, Zenon
<1>9. Turned(u) = u
  <2>1. Turned(u) \in Seq(0..9) /\ Len(Turned(u)) = Len(u) /\ \A i \in 1..Len(u) : Turned(u)[i] = u[Len(u) + 1 - i]
    BY TurnedFacts, Zenon
  <2>2. \A i \in 1..Len(u) : Len(u) + 1 - i = i
    BY <1>1
  <2>3. \A i \in 1..Len(u) : u[i] = Turned(u)[i]
    BY <2>1, <2>2, Zenon
  <2>4. u = Turned(u)
    BY <2>1, <2>3, SeqEqual, Zenon
  <2> QED
    BY <2>4, Zenon
<1> QED
  BY <1>1, <1>2, <1>4, <1>5, <1>6, <1>8, <1>9, Zenon

LEMMA BackwardsExist ==
  \E f : Backwards(f)
<1>1. PICK g : g \in [Nat -> Seq(0..9)] /\ DigitByDigit(g)
  BY DigitsExist, Zenon
<1> DEFINE f == [x \in Nat |-> Turned(g[x])]
           B(x) == IF x < 10 THEN <<x>> ELSE <<x % 10>> \o f[x \div 10]
<1>2. ASSUME NEW ds \in Seq(0..9), NEW d \in 0..9
      PROVE  Turned(ds \o <<d>>) = <<d>> \o Turned(ds)
  <2>1. Turned(ds) \in Seq(0..9)
    BY TurnedFacts, Zenon
  <2>2. PICK s \in Seq(0..9) : s = Turned(ds)
    BY <2>1
  <2>3. ASSUME NEW a \in Seq(0..9)
        PROVE  Turned(Turned(a)) = a
    <3>0. PICK n \in Nat : n = Len(a)
      OBVIOUS
    <3>1. PICK b \in Seq(0..9) : n = Len(a) /\ b = Turned(a) /\ Len(b) = n /\ \A i \in 1..n : b[i] = a[n + 1 - i]
      BY <3>0, TurnedFacts, Zenon
    <3>2. Turned(b) \in Seq(0..9) /\ Len(Turned(b)) = n /\ \A i \in 1..n : Turned(b)[i] = b[n + 1 - i]
      <4>1. /\ Turned(b) \in Seq(0..9) /\ Len(Turned(b)) = Len(b)
            /\ \A i \in 1..Len(b) : Turned(b)[i] = b[Len(b) + 1 - i]
        BY TurnedFacts, Zenon
      <4>2. Len(b) = n
        BY <3>1, Zenon
      <4> QED
        BY <4>1, <4>2, Zenon
    <3>3. \A i \in 1..n : n + 1 - i \in 1..n /\ n + 1 - (n + 1 - i) = i
      OBVIOUS
    <3>4. \A i \in 1..n : Turned(b)[i] = a[i]
      BY <3>1, <3>2, <3>3, Zenon
    <3>5. Turned(b) = a
      BY <3>1, <3>2, <3>4, SeqEqual, Zenon
    <3> QED
      BY <3>1, <3>5, Zenon
  <2>4. Turned(<<d>> \o s) = Turned(s) \o <<d>> /\ <<d>> \o s \in Seq(0..9)
    BY TurnedStep, Zenon
  <2>5. Turned(s) = ds
    BY <2>2, <2>3, Zenon
  <2>6. Turned(Turned(<<d>> \o s)) = <<d>> \o s
    BY <2>3, <2>4, Zenon
  <2> QED
    BY <2>2, <2>4, <2>5, <2>6, Zenon
<1>3. ASSUME NEW x \in Nat
      PROVE  f[x] = B(x)
  <2>1. CASE x < 10
    <3>1. ~ (x >= 10) /\ x \in 0..9
      BY <2>1
    <3>2. g[x] = <<x>>
      BY <1>1, <3>1, DigitByDigitIs, Zenon
    <3>3. Turned(<<x>>) = <<x>>
      <4>1. <<>> \in Seq(0..9)
        OBVIOUS
      <4> QED
        BY <3>1, <4>1, TurnedStep, Zenon
    <3> QED
      BY <2>1, <3>2, <3>3, Zenon
  <2>2. CASE ~ (x < 10)
    <3>1. x >= 10 /\ x \div 10 \in Nat /\ x % 10 \in 0..9
      BY <2>2
    <3>2. g[x] = g[x \div 10] \o <<x % 10>>
      BY <1>1, <3>1, DigitByDigitIs, Zenon
    <3>3. g[x \div 10] \in Seq(0..9)
      BY <1>1, <3>1, Zenon
    <3>4. Turned(g[x]) = <<x % 10>> \o Turned(g[x \div 10])
      BY <1>2, <3>1, <3>2, <3>3, Zenon
    <3> QED
      BY <2>2, <3>1, <3>4, Zenon
  <2> QED
    BY <2>1, <2>2, Zenon
<1>4. f = [x \in Nat |-> f[x]]
  BY Zenon
<1> HIDE DEF f, B
<1>5. f = [x \in Nat |-> B(x)]
  BY <1>3, <1>4, Zenon
<1>6. Backwards(f)
  BY <1>5, Zenon DEF B, Backwards
<1> QED
  BY <1>6, Zenon

LEMMA BackwardsWrites ==
  ASSUME NEW f, Backwards(f)
  PROVE  \A x \in Nat : f[x] \in Seq(0..9) /\ IsDecimal(Turned(f[x]), x)
<1>0. ASSUME NEW x \in Nat
      PROVE  f[x] = IF x < 10 THEN <<x>> ELSE <<x % 10>> \o f[x \div 10]
  <2> DEFINE B(n) == IF n < 10 THEN <<n>> ELSE <<n % 10>> \o f[n \div 10]
  <2>1. f = [n \in Nat |-> B(n)]
    BY Zenon DEF Backwards
  <2> HIDE DEF B
  <2>2. f[x] = B(x)
    BY <2>1, Zenon
  <2> QED
    BY <2>2, Zenon DEF B
<1> DEFINE T == {x \in Nat : f[x] \in Seq(0..9) /\ IsDecimal(Turned(f[x]), x)}
<1>1. ASSUME NEW n \in Nat, \A k \in Nat : k < n => k \in T
      PROVE  n \in T
  <2>1. CASE ~ (n < 10)
    <3>1. n \div 10 \in Nat /\ n \div 10 < n /\ n >= 10 /\ n % 10 \in 0..9
      BY <2>1
    <3>2. f[n \div 10] \in Seq(0..9) /\ IsDecimal(Turned(f[n \div 10]), n \div 10)
      BY <1>1, <3>1, Zenon
    <3>3. f[n] = <<n % 10>> \o f[n \div 10]
      BY <1>0, <2>1, Zenon
    <3>4. f[n] \in Seq(0..9) /\ Turned(f[n]) = Turned(f[n \div 10]) \o <<n % 10>>
      BY <3>1, <3>2, <3>3, TurnedStep, Zenon
    <3>5. IsDecimal(Turned(f[n \div 10]) \o <<n % 10>>, n)
      BY <3>1, <3>2, DecimalStep, Zenon
    <3> QED
      BY <3>4, <3>5, Zenon
  <2>2. CASE n < 10
    <3>1. n \in 0..9 /\ <<>> \in Seq(0..9)
      BY <2>2
    <3>2. f[n] = <<n>>
      BY <1>0, <2>2, Zenon
    <3>3. IsDecimal(<<n>>, n) /\ Turned(<<n>>) = <<n>>
      BY <3>1, DecimalDigit, TurnedStep, Zenon
    <3>4. <<n>> \in Seq(0..9)
      BY <3>1
    <3> QED
      BY <3>2, <3>3, <3>4, Zenon
  <2> QED
    BY <2>1, <2>2
<1>2. \A n \in Nat : n \in T
  <2> HIDE DEF T
  <2> QED
    BY <1>1, StrongInduct, Zenon
<1> QED
  BY <1>2, Zenon

LEMMA PutU64Writes ==
  ASSUME NEW v \in Nat
  PROVE  IsDecimal(PutU64(v), v)
<1> DEFINE f == CHOOSE f : Backwards(f)
<1>1. PutU64(v) = Turned(f[v])
  BY Zenon DEF PutU64, Backwards, Turned
<1>2. Backwards(f)
  BY BackwardsExist, Zenon
<1> HIDE DEF f
<1> QED
  BY <1>1, <1>2, BackwardsWrites, Zenon


---------------------------------------------------------------------------
(* The digits measured beforehand, from the bits of the number.            *)
LEMMA TenMonotone ==
  ASSUME NEW a \in Nat, NEW b \in Nat, a <= b
  PROVE  Ten[a] <= Ten[b]
<1> DEFINE S == {n \in Nat : Ten[a] <= Ten[a + n]}
<1>1. 0 \in S
  BY TenFacts, a + 0 = a
<1>2. ASSUME NEW n \in Nat, n \in S
      PROVE  n + 1 \in S
  <2>1. PICK m \in Nat : m = a + n /\ a + (n + 1) = m + 1
    OBVIOUS
  <2>2. PICK x \in Nat, y \in Nat : x = Ten[a] /\ y = Ten[m] /\ x <= y /\ Ten[m + 1] = 10 * y
    BY <1>2, <2>1, TenFacts
  <2>3. x <= Ten[m + 1]
    BY <2>2
  <2>4. Ten[a] <= Ten[a + (n + 1)]
    BY <2>1, <2>2, <2>3, Zenon
  <2> QED
    BY <2>4
<1>3. \A n \in Nat : n \in S
  <2> HIDE DEF S
  <2> QED
    BY <1>1, <1>2, NatInduct
<1>4. b - a \in Nat /\ a + (b - a) = b
  OBVIOUS
<1> QED
  BY <1>3, <1>4

(* x has k digits.                                                         *)
HasDigits(x, k) == k \in Nat /\ k >= 1 /\ x < Ten[k] /\ (k = 1 \/ Ten[k - 1] <= x)

LEMMA DecimalLength ==
  ASSUME NEW x \in Nat, NEW ds, IsDecimal(ds, x), NEW k, HasDigits(x, k)
  PROVE  Len(ds) = k
<1>1. PICK l \in Nat : l = Len(ds) /\ l >= 1
  BY DEF IsDecimal
<1>2. x < Ten[l] /\ (l = 1 \/ Ten[l - 1] <= x)
  BY <1>1, Zenon DEF IsDecimal
<1>3. k \in Nat /\ k >= 1 /\ x < Ten[k] /\ (k = 1 \/ Ten[k - 1] <= x)
  BY Zenon DEF HasDigits
<1>4. ASSUME NEW i \in Nat, NEW j \in Nat, 1 <= i, i < j, x < Ten[i], j = 1 \/ Ten[j - 1] <= x
      PROVE  FALSE
  <2>1. PICK h \in Nat : h = j - 1 /\ i <= h /\ j # 1
    <3>1. j - 1 \in Nat /\ i <= j - 1 /\ j # 1
      BY <1>4
    <3> QED
      BY <3>1
  <2>2. PICK y \in Nat, z \in Nat : y = Ten[i] /\ z = Ten[h] /\ y <= z
    BY <2>1, TenFacts, TenMonotone
  <2> QED
    BY <1>4, <2>1, <2>2
<1>5. ~ (l < k)
  BY <1>1, <1>2, <1>3, <1>4
<1>6. ~ (k < l)
  BY <1>1, <1>2, <1>3, <1>4
<1>7. l = k
  BY <1>3, <1>5, <1>6
<1> QED
  BY <1>1, <1>7

LEMMA BitWidthIs ==
  ASSUME NEW x \in Nat, x >= 1, x < Two[32]
  PROVE  BitWidth(x) \in 1..32 /\ Two[BitWidth(x) - 1] <= x /\ x < Two[BitWidth(x)]
<1>1. ASSUME NEW j \in Nat
      PROVE  x \div Two[j] = 1 <=> (Two[j] <= x /\ x < Two[j + 1])
  <2>1. PICK y \in Nat : y = Two[j] /\ y > 0 /\ Two[j + 1] = 2 * y
    BY TwoFacts
  <2>0. x \div y \in Nat /\ x % y \in Nat /\ x % y < y /\ x = y * (x \div y) + (x % y)
    BY <2>1, DivMod, Zenon
  <2>2. ASSUME x \div y = 1
        PROVE  y <= x /\ x < 2 * y
    <3>1. PICK r \in Nat : r = x % y /\ r < y
      BY <2>0, Zenon
    <3>2. x = y * 1 + r
      BY <2>0, <2>2, <3>1, Zenon
    <3> QED
      BY <3>1, <3>2
  <2>3. ASSUME y <= x, x < 2 * y
        PROVE  x \div y = 1
    <3>1. x = y * 1 + (x - y) /\ 0 <= x - y /\ x - y < y /\ x - y \in Int /\ 1 \in Int
      BY <2>3
    <3> QED
      BY <2>1, <3>1, DivUnique
  <2> QED
    BY <2>1, <2>2, <2>3, Zenon
<1> DEFINE T == {k \in Nat : x < Two[k]}
<1>2. PICK k \in T : \A l \in T : k <= l
  <2>1. T \subseteq Nat /\ T # {}
    <3>1. 32 \in T
      OBVIOUS
    <3> QED
      BY <3>1
  <2> HIDE DEF T
  <2> QED
    BY <2>1, LeastNat
<1>3. PICK j \in Nat : j + 1 = k /\ j = k - 1
  <2>1. k # 0 /\ k \in Nat
    BY <1>2, TwoFacts
  <2>2. k - 1 \in Nat /\ (k - 1) + 1 = k
    BY <2>1
  <2> QED
    BY <2>2
<1>4. k <= 32 /\ x < Two[k] /\ ~ (x < Two[j])
  <2>1. 32 \in T /\ (x < Two[j] => j \in T)
    OBVIOUS
  <2> QED
    BY <1>2, <1>3, <2>1
<1>5. k \in 1..32 /\ Two[j] <= x
  <2>1. Two[j] \in Nat
    BY TwoFacts
  <2> QED
    BY <1>2, <1>3, <1>4, <2>1
<1>6. x \div Two[k - 1] = 1
  BY <1>1, <1>3, <1>4, <1>5
<1> DEFINE b == CHOOSE b \in 1..32 : x \div Two[b - 1] = 1 \/ (x = 0 /\ b = 1)
<1>7. BitWidth(x) = b
  BY Zenon DEF BitWidth
<1>8. b \in 1..32 /\ (x \div Two[b - 1] = 1 \/ (x = 0 /\ b = 1))
  BY <1>5, <1>6, Zenon
<1> HIDE DEF b
<1>9. PICK i \in Nat : i = b - 1 /\ i + 1 = b
  <2>1. b - 1 \in Nat /\ (b - 1) + 1 = b
    BY <1>8
  <2> QED
    BY <2>1
<1>10. x # 0
  OBVIOUS
<1>11. x \div Two[i] = 1
  BY <1>8, <1>9, <1>10, Zenon
<1>12. Two[b - 1] <= x /\ x < Two[b]
  BY <1>1, <1>9, <1>11, Zenon
<1> QED
  BY <1>7, <1>8, <1>12, Zenon

(* A number whose width is from lo to hi lies between their powers.        *)
LEMMA WidthBetween ==
  ASSUME NEW lo \in 1..32, NEW hi \in 1..32, NEW b \in lo..hi, NEW x \in Nat, Two[b - 1] <= x, x < Two[b]
  PROVE  Two[lo - 1] <= x /\ x < Two[hi]
<1>1. b \in Nat /\ b - 1 \in Nat /\ lo - 1 \in Nat /\ lo - 1 <= b - 1 /\ b <= hi /\ hi \in Nat
  OBVIOUS
<1>2. Two[lo - 1] <= Two[b - 1] /\ Two[b] <= Two[hi]
  BY <1>1, TwoMonotone
<1>3. Two[lo - 1] \in Nat /\ Two[b - 1] \in Nat /\ Two[b] \in Nat /\ Two[hi] \in Nat
  BY <1>1, TwoFacts
<1> QED
  BY <1>2, <1>3

(* The estimate is the number of digits, or one less.                      *)
LEMMA EstimateRange ==
  ASSUME NEW b \in 1..32, NEW x \in Nat, x >= 1, Two[b - 1] <= x, x < Two[b]
  PROVE  \E e \in 0..9 : /\ (b * 1233) \div 4096 = e
                         /\ x < Ten[e + 1] /\ (e = 0 \/ Ten[e - 1] <= x)
<1>1. CASE b \in 1..3
  <2>1. Two[0] <= x /\ x < Two[3]
    <3>1. 1 - 1 = 0
      OBVIOUS
    <3>2. 1 \in 1..32 /\ 3 \in 1..32
      OBVIOUS
    <3>3. Two[1 - 1] <= x /\ x < Two[3]
      BY <1>1, <3>2, WidthBetween, Zenon
    <3> QED
      BY <3>1, <3>3
  <2>2. x < 10
    BY <2>1, TwoValues
  <2>3. x < Ten[0 + 1]
    BY <2>2, TenValues, 0 + 1 = 1
  <2>4. (b * 1233) \div 4096 = 0 /\ 0 \in 0..9
    BY <1>1
  <2> QED
    BY <2>3, <2>4
<1>2. CASE b \in 4..6
  <2>1. Two[3] <= x /\ x < Two[6]
    <3>1. 4 - 1 = 3
      OBVIOUS
    <3>2. 4 \in 1..32 /\ 6 \in 1..32
      OBVIOUS
    <3>3. Two[4 - 1] <= x /\ x < Two[6]
      BY <1>2, <3>2, WidthBetween, Zenon
    <3> QED
      BY <3>1, <3>3
  <2>2. x < 100 /\ 1 <= x
    BY <2>1, TwoValues
  <2>3. x < Ten[1 + 1] /\ Ten[1 - 1] <= x
    BY <2>2, TenValues, 1 + 1 = 2, 1 - 1 = 0
  <2>4. (b * 1233) \div 4096 = 1 /\ 1 \in 0..9
    BY <1>2
  <2> QED
    BY <2>3, <2>4
<1>3. CASE b \in 7..9
  <2>1. Two[6] <= x /\ x < Two[9]
    <3>1. 7 - 1 = 6
      OBVIOUS
    <3>2. 7 \in 1..32 /\ 9 \in 1..32
      OBVIOUS
    <3>3. Two[7 - 1] <= x /\ x < Two[9]
      BY <1>3, <3>2, WidthBetween, Zenon
    <3> QED
      BY <3>1, <3>3
  <2>2. x < 1000 /\ 10 <= x
    BY <2>1, TwoValues
  <2>3. x < Ten[2 + 1] /\ Ten[2 - 1] <= x
    BY <2>2, TenValues, 2 + 1 = 3, 2 - 1 = 1
  <2>4. (b * 1233) \div 4096 = 2 /\ 2 \in 0..9
    BY <1>3
  <2> QED
    BY <2>3, <2>4
<1>4. CASE b \in 10..13
  <2>1. Two[9] <= x /\ x < Two[13]
    <3>1. 10 - 1 = 9
      OBVIOUS
    <3>2. 10 \in 1..32 /\ 13 \in 1..32
      OBVIOUS
    <3>3. Two[10 - 1] <= x /\ x < Two[13]
      BY <1>4, <3>2, WidthBetween, Zenon
    <3> QED
      BY <3>1, <3>3
  <2>2. x < 10000 /\ 100 <= x
    BY <2>1, TwoValues
  <2>3. x < Ten[3 + 1] /\ Ten[3 - 1] <= x
    BY <2>2, TenValues, 3 + 1 = 4, 3 - 1 = 2
  <2>4. (b * 1233) \div 4096 = 3 /\ 3 \in 0..9
    BY <1>4
  <2> QED
    BY <2>3, <2>4
<1>5. CASE b \in 14..16
  <2>1. Two[13] <= x /\ x < Two[16]
    <3>1. 14 - 1 = 13
      OBVIOUS
    <3>2. 14 \in 1..32 /\ 16 \in 1..32
      OBVIOUS
    <3>3. Two[14 - 1] <= x /\ x < Two[16]
      BY <1>5, <3>2, WidthBetween, Zenon
    <3> QED
      BY <3>1, <3>3
  <2>2. x < 100000 /\ 1000 <= x
    BY <2>1, TwoValues
  <2>3. x < Ten[4 + 1] /\ Ten[4 - 1] <= x
    BY <2>2, TenValues, 4 + 1 = 5, 4 - 1 = 3
  <2>4. (b * 1233) \div 4096 = 4 /\ 4 \in 0..9
    BY <1>5
  <2> QED
    BY <2>3, <2>4
<1>6. CASE b \in 17..19
  <2>1. Two[16] <= x /\ x < Two[19]
    <3>1. 17 - 1 = 16
      OBVIOUS
    <3>2. 17 \in 1..32 /\ 19 \in 1..32
      OBVIOUS
    <3>3. Two[17 - 1] <= x /\ x < Two[19]
      BY <1>6, <3>2, WidthBetween, Zenon
    <3> QED
      BY <3>1, <3>3
  <2>2. x < 1000000 /\ 10000 <= x
    BY <2>1, TwoValues
  <2>3. x < Ten[5 + 1] /\ Ten[5 - 1] <= x
    BY <2>2, TenValues, 5 + 1 = 6, 5 - 1 = 4
  <2>4. (b * 1233) \div 4096 = 5 /\ 5 \in 0..9
    BY <1>6
  <2> QED
    BY <2>3, <2>4
<1>7. CASE b \in 20..23
  <2>1. Two[19] <= x /\ x < Two[23]
    <3>1. 20 - 1 = 19
      OBVIOUS
    <3>2. 20 \in 1..32 /\ 23 \in 1..32
      OBVIOUS
    <3>3. Two[20 - 1] <= x /\ x < Two[23]
      BY <1>7, <3>2, WidthBetween, Zenon
    <3> QED
      BY <3>1, <3>3
  <2>2. x < 10000000 /\ 100000 <= x
    BY <2>1, TwoValues
  <2>3. x < Ten[6 + 1] /\ Ten[6 - 1] <= x
    BY <2>2, TenValues, 6 + 1 = 7, 6 - 1 = 5
  <2>4. (b * 1233) \div 4096 = 6 /\ 6 \in 0..9
    BY <1>7
  <2> QED
    BY <2>3, <2>4
<1>8. CASE b \in 24..26
  <2>1. Two[23] <= x /\ x < Two[26]
    <3>1. 24 - 1 = 23
      OBVIOUS
    <3>2. 24 \in 1..32 /\ 26 \in 1..32
      OBVIOUS
    <3>3. Two[24 - 1] <= x /\ x < Two[26]
      BY <1>8, <3>2, WidthBetween, Zenon
    <3> QED
      BY <3>1, <3>3
  <2>2. x < 100000000 /\ 1000000 <= x
    BY <2>1, TwoValues
  <2>3. x < Ten[7 + 1] /\ Ten[7 - 1] <= x
    BY <2>2, TenValues, 7 + 1 = 8, 7 - 1 = 6
  <2>4. (b * 1233) \div 4096 = 7 /\ 7 \in 0..9
    BY <1>8
  <2> QED
    BY <2>3, <2>4
<1>9. CASE b \in 27..29
  <2>1. Two[26] <= x /\ x < Two[29]
    <3>1. 27 - 1 = 26
      OBVIOUS
    <3>2. 27 \in 1..32 /\ 29 \in 1..32
      OBVIOUS
    <3>3. Two[27 - 1] <= x /\ x < Two[29]
      BY <1>9, <3>2, WidthBetween, Zenon
    <3> QED
      BY <3>1, <3>3
  <2>2. x < 1000000000 /\ 10000000 <= x
    BY <2>1, TwoValues
  <2>3. x < Ten[8 + 1] /\ Ten[8 - 1] <= x
    BY <2>2, TenValues, 8 + 1 = 9, 8 - 1 = 7
  <2>4. (b * 1233) \div 4096 = 8 /\ 8 \in 0..9
    BY <1>9
  <2> QED
    BY <2>3, <2>4
<1>10. CASE b \in 30..32
  <2>1. Two[29] <= x /\ x < Two[32]
    <3>1. 30 - 1 = 29
      OBVIOUS
    <3>2. 30 \in 1..32 /\ 32 \in 1..32
      OBVIOUS
    <3>3. Two[30 - 1] <= x /\ x < Two[32]
      BY <1>10, <3>2, WidthBetween, Zenon
    <3> QED
      BY <3>1, <3>3
  <2>2. x < 10000000000 /\ 100000000 <= x
    BY <2>1, TwoValues
  <2>3. x < Ten[9 + 1] /\ Ten[9 - 1] <= x
    BY <2>2, TenValues, 9 + 1 = 10, 9 - 1 = 8
  <2>4. (b * 1233) \div 4096 = 9 /\ 9 \in 0..9
    BY <1>10
  <2> QED
    BY <2>3, <2>4
<1>11. b \in 1..3 \/ b \in 4..6 \/ b \in 7..9 \/ b \in 10..13 \/ b \in 14..16
        \/ b \in 17..19 \/ b \in 20..23 \/ b \in 24..26 \/ b \in 27..29 \/ b \in 30..32
  OBVIOUS
<1> QED
  BY <1>1, <1>2, <1>3, <1>4, <1>5, <1>6, <1>7, <1>8, <1>9, <1>10, <1>11

(* An entry of the table is the number of digits, or one more.             *)
LEMMA TableRange ==
  ASSUME NEW b \in 1..32, NEW x \in Nat, x >= 1, Two[b - 1] <= x, x < Two[b]
  PROVE  \E d \in 1..10 : /\ TableDigits[b] = d
                          /\ x < Ten[d] /\ (d \in 1..2 \/ Ten[d - 2] <= x)
<1>1. CASE b \in 1..1
  <2>1. Two[0] <= x /\ x < Two[1]
    <3>1. 1 - 1 = 0
      OBVIOUS
    <3>2. 1 \in 1..32 /\ 1 \in 1..32
      OBVIOUS
    <3>3. Two[1 - 1] <= x /\ x < Two[1]
      BY <1>1, <3>2, WidthBetween, Zenon
    <3> QED
      BY <3>1, <3>3
  <2>2. x < 10
    BY <2>1, TwoValues
  <2>3. x < Ten[1]
    BY <2>2, TenValues
  <2>4. TableDigits[1] = 1
    BY DEF TableDigits
  <2>5. TableDigits[b] = 1 /\ 1 \in 1..10 /\ 1 \in 1..2
    BY <1>1, <2>4
  <2> QED
    BY <2>3, <2>5
<1>2. CASE b \in 2..4
  <2>1. Two[1] <= x /\ x < Two[4]
    <3>1. 2 - 1 = 1
      OBVIOUS
    <3>2. 2 \in 1..32 /\ 4 \in 1..32
      OBVIOUS
    <3>3. Two[2 - 1] <= x /\ x < Two[4]
      BY <1>2, <3>2, WidthBetween, Zenon
    <3> QED
      BY <3>1, <3>3
  <2>2. x < 100
    BY <2>1, TwoValues
  <2>3. x < Ten[2]
    BY <2>2, TenValues
  <2>4. TableDigits[2] = 2 /\ TableDigits[3] = 2 /\ TableDigits[4] = 2
    BY DEF TableDigits
  <2>5. TableDigits[b] = 2 /\ 2 \in 1..10 /\ 2 \in 1..2
    BY <1>2, <2>4
  <2> QED
    BY <2>3, <2>5
<1>3. CASE b \in 5..7
  <2>1. Two[4] <= x /\ x < Two[7]
    <3>1. 5 - 1 = 4
      OBVIOUS
    <3>2. 5 \in 1..32 /\ 7 \in 1..32
      OBVIOUS
    <3>3. Two[5 - 1] <= x /\ x < Two[7]
      BY <1>3, <3>2, WidthBetween, Zenon
    <3> QED
      BY <3>1, <3>3
  <2>2. x < 1000 /\ 10 <= x
    BY <2>1, TwoValues
  <2>3. x < Ten[3] /\ Ten[3 - 2] <= x
    BY <2>2, TenValues, 3 - 2 = 1
  <2>4. TableDigits[5] = 3 /\ TableDigits[6] = 3 /\ TableDigits[7] = 3
    BY DEF TableDigits
  <2>5. TableDigits[b] = 3 /\ 3 \in 1..10
    BY <1>3, <2>4
  <2> QED
    BY <2>3, <2>5
<1>4. CASE b \in 8..10
  <2>1. Two[7] <= x /\ x < Two[10]
    <3>1. 8 - 1 = 7
      OBVIOUS
    <3>2. 8 \in 1..32 /\ 10 \in 1..32
      OBVIOUS
    <3>3. Two[8 - 1] <= x /\ x < Two[10]
      BY <1>4, <3>2, WidthBetween, Zenon
    <3> QED
      BY <3>1, <3>3
  <2>2. x < 10000 /\ 100 <= x
    BY <2>1, TwoValues
  <2>3. x < Ten[4] /\ Ten[4 - 2] <= x
    BY <2>2, TenValues, 4 - 2 = 2
  <2>4. TableDigits[8] = 4 /\ TableDigits[9] = 4 /\ TableDigits[10] = 4
    BY DEF TableDigits
  <2>5. TableDigits[b] = 4 /\ 4 \in 1..10
    BY <1>4, <2>4
  <2> QED
    BY <2>3, <2>5
<1>5. CASE b \in 11..14
  <2>1. Two[10] <= x /\ x < Two[14]
    <3>1. 11 - 1 = 10
      OBVIOUS
    <3>2. 11 \in 1..32 /\ 14 \in 1..32
      OBVIOUS
    <3>3. Two[11 - 1] <= x /\ x < Two[14]
      BY <1>5, <3>2, WidthBetween, Zenon
    <3> QED
      BY <3>1, <3>3
  <2>2. x < 100000 /\ 1000 <= x
    BY <2>1, TwoValues
  <2>3. x < Ten[5] /\ Ten[5 - 2] <= x
    BY <2>2, TenValues, 5 - 2 = 3
  <2>4. TableDigits[11] = 5 /\ TableDigits[12] = 5 /\ TableDigits[13] = 5 /\ TableDigits[14] = 5
    BY DEF TableDigits
  <2>5. TableDigits[b] = 5 /\ 5 \in 1..10
    BY <1>5, <2>4
  <2> QED
    BY <2>3, <2>5
<1>6. CASE b \in 15..17
  <2>1. Two[14] <= x /\ x < Two[17]
    <3>1. 15 - 1 = 14
      OBVIOUS
    <3>2. 15 \in 1..32 /\ 17 \in 1..32
      OBVIOUS
    <3>3. Two[15 - 1] <= x /\ x < Two[17]
      BY <1>6, <3>2, WidthBetween, Zenon
    <3> QED
      BY <3>1, <3>3
  <2>2. x < 1000000 /\ 10000 <= x
    BY <2>1, TwoValues
  <2>3. x < Ten[6] /\ Ten[6 - 2] <= x
    BY <2>2, TenValues, 6 - 2 = 4
  <2>4. TableDigits[15] = 6 /\ TableDigits[16] = 6 /\ TableDigits[17] = 6
    BY DEF TableDigits
  <2>5. TableDigits[b] = 6 /\ 6 \in 1..10
    BY <1>6, <2>4
  <2> QED
    BY <2>3, <2>5
<1>7. CASE b \in 18..20
  <2>1. Two[17] <= x /\ x < Two[20]
    <3>1. 18 - 1 = 17
      OBVIOUS
    <3>2. 18 \in 1..32 /\ 20 \in 1..32
      OBVIOUS
    <3>3. Two[18 - 1] <= x /\ x < Two[20]
      BY <1>7, <3>2, WidthBetween, Zenon
    <3> QED
      BY <3>1, <3>3
  <2>2. x < 10000000 /\ 100000 <= x
    BY <2>1, TwoValues
  <2>3. x < Ten[7] /\ Ten[7 - 2] <= x
    BY <2>2, TenValues, 7 - 2 = 5
  <2>4. TableDigits[18] = 7 /\ TableDigits[19] = 7 /\ TableDigits[20] = 7
    BY DEF TableDigits
  <2>5. TableDigits[b] = 7 /\ 7 \in 1..10
    BY <1>7, <2>4
  <2> QED
    BY <2>3, <2>5
<1>8. CASE b \in 21..24
  <2>1. Two[20] <= x /\ x < Two[24]
    <3>1. 21 - 1 = 20
      OBVIOUS
    <3>2. 21 \in 1..32 /\ 24 \in 1..32
      OBVIOUS
    <3>3. Two[21 - 1] <= x /\ x < Two[24]
      BY <1>8, <3>2, WidthBetween, Zenon
    <3> QED
      BY <3>1, <3>3
  <2>2. x < 100000000 /\ 1000000 <= x
    BY <2>1, TwoValues
  <2>3. x < Ten[8] /\ Ten[8 - 2] <= x
    BY <2>2, TenValues, 8 - 2 = 6
  <2>4. TableDigits[21] = 8 /\ TableDigits[22] = 8 /\ TableDigits[23] = 8 /\ TableDigits[24] = 8
    BY DEF TableDigits
  <2>5. TableDigits[b] = 8 /\ 8 \in 1..10
    BY <1>8, <2>4
  <2> QED
    BY <2>3, <2>5
<1>9. CASE b \in 25..27
  <2>1. Two[24] <= x /\ x < Two[27]
    <3>1. 25 - 1 = 24
      OBVIOUS
    <3>2. 25 \in 1..32 /\ 27 \in 1..32
      OBVIOUS
    <3>3. Two[25 - 1] <= x /\ x < Two[27]
      BY <1>9, <3>2, WidthBetween, Zenon
    <3> QED
      BY <3>1, <3>3
  <2>2. x < 1000000000 /\ 10000000 <= x
    BY <2>1, TwoValues
  <2>3. x < Ten[9] /\ Ten[9 - 2] <= x
    BY <2>2, TenValues, 9 - 2 = 7
  <2>4. TableDigits[25] = 9 /\ TableDigits[26] = 9 /\ TableDigits[27] = 9
    BY DEF TableDigits
  <2>5. TableDigits[b] = 9 /\ 9 \in 1..10
    BY <1>9, <2>4
  <2> QED
    BY <2>3, <2>5
<1>10. CASE b \in 28..32
  <2>1. Two[27] <= x /\ x < Two[32]
    <3>1. 28 - 1 = 27
      OBVIOUS
    <3>2. 28 \in 1..32 /\ 32 \in 1..32
      OBVIOUS
    <3>3. Two[28 - 1] <= x /\ x < Two[32]
      BY <1>10, <3>2, WidthBetween, Zenon
    <3> QED
      BY <3>1, <3>3
  <2>2. x < 10000000000 /\ 100000000 <= x
    BY <2>1, TwoValues
  <2>3. x < Ten[10] /\ Ten[10 - 2] <= x
    BY <2>2, TenValues, 10 - 2 = 8
  <2>4. TableDigits[28] = 10 /\ TableDigits[29] = 10 /\ TableDigits[30] = 10 /\ TableDigits[31] = 10 /\ TableDigits[32] = 10
    BY DEF TableDigits
  <2>5. TableDigits[b] = 10 /\ 10 \in 1..10
    BY <1>10, <2>4
  <2> QED
    BY <2>3, <2>5
<1>11. b \in 1..1 \/ b \in 2..4 \/ b \in 5..7 \/ b \in 8..10 \/ b \in 11..14
        \/ b \in 15..17 \/ b \in 18..20 \/ b \in 21..24 \/ b \in 25..27 \/ b \in 28..32
  OBVIOUS
<1> QED
  BY <1>1, <1>2, <1>3, <1>4, <1>5, <1>6, <1>7, <1>8, <1>9, <1>10, <1>11

(* What fits in 32 bits.                                                   *)
Fits(x) == x \div 65536 < 65536

LEMMA FitsFacts ==
  ASSUME NEW x \in Nat, Fits(x)
  PROVE  x < Two[32]
<1>1. x < 4294967296
  BY SMT DEF Fits
<1> QED
  BY <1>1, TwoValues

LEMMA EstimateDigitsIs ==
  ASSUME NEW x \in Nat, x < Two[32]
  PROVE  HasDigits(x, EstimateDigits(x))
<1>1. CASE x = 0
  <2>1. BitWidth(x) = 1
    <3>1. \A j \in Nat : x \div Two[j] = 0
      <4> TAKE j \in Nat
      <4>1. PICK y \in Nat : y = Two[j] /\ y > 0
        BY TwoFacts
      <4>2. x = y * 0 + 0 /\ 0 < y /\ 0 \in Int /\ 0 <= 0
        BY <1>1, <4>1
      <4>3. x \div y = 0
        BY <4>1, <4>2, DivUnique
      <4> QED
        BY <4>1, <4>3
    <3>2. \A b \in 1..32 : x \div Two[b - 1] # 1
      <4> TAKE b \in 1..32
      <4>1. b - 1 \in Nat
        OBVIOUS
      <4>2. x \div Two[b - 1] = 0
        BY <3>1, <4>1, Zenon
      <4> QED
        BY <4>2
    <3> DEFINE w == CHOOSE b \in 1..32 : x \div Two[b - 1] = 1 \/ (x = 0 /\ b = 1)
    <3>3. 1 \in 1..32
      OBVIOUS
    <3>4. w \in 1..32 /\ (x \div Two[w - 1] = 1 \/ (x = 0 /\ w = 1))
      BY <1>1, <3>3, Zenon
    <3>5. w = 1
      BY <3>2, <3>4, Zenon
    <3> QED
      BY <3>5, Zenon DEF BitWidth
  <2>2. (1 * 1233) \div 4096 = 0
    OBVIOUS
  <2>3. ~ (x >= Ten[0])
    BY <1>1, TenFacts
  <2>4. EstimateDigits(x) = 1
    <3>1. EstimateDigits(x) = LET digits == 0 + (IF x >= Ten[0] THEN 1 ELSE 0)
                              IN  IF digits = 0 THEN 1 ELSE digits
      BY <2>1, <2>2 DEF EstimateDigits
    <3> QED
      BY <2>3, <3>1
  <2>5. x < Ten[1]
    BY <1>1, TenValues
  <2> QED
    BY <2>4, <2>5 DEF HasDigits
<1>2. CASE x # 0
  <2>1. x >= 1
    BY <1>2
  <2>2. PICK b \in 1..32 : b = BitWidth(x) /\ Two[b - 1] <= x /\ x < Two[b]
    BY <2>1, BitWidthIs, Zenon
  <2>3. PICK e \in 0..9 : (b * 1233) \div 4096 = e /\ x < Ten[e + 1] /\ (e = 0 \/ Ten[e - 1] <= x)
    BY <2>1, <2>2, EstimateRange
  <2>4. EstimateDigits(x) = LET digits == e + (IF x >= Ten[e] THEN 1 ELSE 0)
                            IN  IF digits = 0 THEN 1 ELSE digits
    <3>1. (BitWidth(x) * 1233) \div 4096 = e
      BY <2>2, <2>3
    <3> QED
      BY <3>1 DEF EstimateDigits
  <2>5. Ten[e] \in Nat /\ e \in Nat
    BY TenFacts
  <2>6. CASE x >= Ten[e]
    <3>1. EstimateDigits(x) = e + 1
      BY <2>4, <2>6
    <3>2. e + 1 \in Nat /\ e + 1 >= 1 /\ (e + 1) - 1 = e
      OBVIOUS
    <3>3. x < Ten[e + 1] /\ Ten[(e + 1) - 1] <= x
      BY <2>3, <2>5, <2>6, <3>2
    <3> QED
      BY <3>1, <3>2, <3>3, Zenon DEF HasDigits
  <2>7. CASE ~ (x >= Ten[e])
    <3>1. e # 0
      BY <2>1, <2>7, TenFacts
    <3>2. EstimateDigits(x) = e
      BY <2>4, <2>7, <3>1
    <3>3. e \in Nat /\ e >= 1 /\ x < Ten[e] /\ Ten[e - 1] <= x
      BY <2>3, <2>5, <2>7, <3>1
    <3> QED
      BY <3>2, <3>3, Zenon DEF HasDigits
  <2> QED
    BY <2>6, <2>7
<1> QED
  BY <1>1, <1>2

LEMMA FastDigitCountIs ==
  ASSUME NEW x \in Nat, x >= 1, x < Two[32]
  PROVE  HasDigits(x, FastDigitCount(x))
<1>1. PICK b \in 1..32 : b = BitWidth(x) /\ Two[b - 1] <= x /\ x < Two[b]
  BY BitWidthIs, Zenon
<1>2. PICK d \in 1..10 : TableDigits[b] = d /\ x < Ten[d] /\ (d \in 1..2 \/ Ten[d - 2] <= x)
  BY <1>1, TableRange
<1>3. FastDigitCount(x) = IF d = 1 \/ x >= Ten[d - 1] THEN d ELSE d - 1
  BY <1>1, <1>2, Zenon DEF FastDigitCount
<1>4. d \in Nat /\ d - 1 \in Nat /\ d >= 1
  OBVIOUS
<1>5. Ten[d] \in Nat /\ Ten[d - 1] \in Nat
  BY <1>4, TenFacts
<1>6. CASE d = 1 \/ x >= Ten[d - 1]
  <2>1. FastDigitCount(x) = d
    BY <1>3, <1>6, Zenon
  <2>2. d = 1 \/ Ten[d - 1] <= x
    BY <1>5, <1>6
  <2> QED
    BY <1>2, <1>4, <2>1, <2>2, Zenon DEF HasDigits
<1>7. CASE ~ (d = 1 \/ x >= Ten[d - 1])
  <2>1. FastDigitCount(x) = d - 1
    BY <1>3, <1>7, Zenon
  <2>2. d - 1 >= 1 /\ (d - 1) - 1 = d - 2 /\ (d \in 1..2 => d - 1 = 1)
    BY <1>4, <1>7
  <2>3. x < Ten[d - 1]
    BY <1>5, <1>7
  <2>4. d - 1 = 1 \/ Ten[(d - 1) - 1] <= x
    BY <1>2, <2>2, Zenon
  <2> QED
    BY <1>4, <2>1, <2>2, <2>3, <2>4, Zenon DEF HasDigits
<1> QED
  BY <1>6, <1>7

(* Every program writes the decimal digits of every number of 32 bits.     *)
LEMMA DigitsWrite ==
  ASSUME NEW p \in Programs, NEW v \in Nat, Fits(v)
  PROVE  IsDecimal(Digits(p, v), v)
<1>1. v < Two[32]
  BY FitsFacts
<1>2. ASSUME NEW room, HasDigits(v, room)
      PROVE  IsDecimal(FillFromEnd(v, room), v)
  <2>1. IsDecimal(AppendPairs(v), v)
    BY AppendPairsWrites
  <2>2. Len(AppendPairs(v)) = room
    BY <1>2, <2>1, DecimalLength, Zenon
  <2>3. FillFromEnd(v, room) = AppendPairs(v)
    BY <2>2, Zenon DEF FillFromEnd
  <2> QED
    BY <2>1, <2>3, Zenon
<1>3. IsDecimal(AppendUint(v), v)
  BY <1>1, <1>2, EstimateDigitsIs, Zenon DEF AppendUint
<1>4. IsDecimal(WriteNum(v), v)
  <2>1. CASE v = 0
    <3>1. 0 \in 0..9
      OBVIOUS
    <3> QED
      BY <2>1, <3>1, DecimalDigit, Zenon DEF WriteNum
  <2>2. CASE v # 0
    <3>1. v >= 1
      BY <2>2
    <3>2. IsDecimal(FillFromEnd(v, FastDigitCount(v)), v)
      BY <1>1, <1>2, <3>1, FastDigitCountIs, Zenon
    <3> QED
      BY <2>2, <3>2, Zenon DEF WriteNum
  <2> QED
    BY <2>1, <2>2
<1>5. IsDecimal(PutU64(v), v) /\ IsDecimal(PutU64Of26(v), v)
  BY PutU64Writes, Zenon DEF PutU64Of26
<1>6. IsDecimal(WriteU64(v), v) /\ IsDecimal(AppendPairs(v), v)
  BY WriteU64Writes, AppendPairsWrites
<1>7. IsDecimal(Wu32(v), v) /\ IsDecimal(WriteUint(v), v)
  BY Wu32Writes, AppendPairsWrites, Zenon DEF WriteUint
<1> QED
  BY <1>3, <1>4, <1>5, <1>6, <1>7 DEF Digits

---------------------------------------------------------------------------
(* The state: what is printed is a number that fits or an average of a     *)
(* total and a count, and the text, once there, is what the program's own  *)
(* conversions make of it.                                                 *)
Output(p, a, c) ==
  LET h == Hundredths(p, a, c) IN
  IF c = 0 THEN Digits(p, a) ELSE Digits(p, h \div 100) \o <<".">> \o Pair(h % 100)

FormatInv ==
  /\ writer \in Programs
  /\ \/ count = 0 /\ total \in Numbers
     \/ total \in 1..Largest /\ count \in 1..total
  /\ text # <<>> => text = Output(writer, total, count)

LEMMA FormatInvariant == FormatSpec => []FormatInv
<1>1. FormatInit => FormatInv
  BY Zenon DEF FormatInit, FormatInv
<1>2. FormatInv /\ [FormatNext]_formatVars => FormatInv'
  <2> SUFFICES ASSUME FormatInv, [FormatNext]_formatVars PROVE FormatInv'
    OBVIOUS
  <2>1. CASE PrintNumber
    <3>1. text' = Output(writer, total, count) /\ writer' = writer /\ total' = total /\ count' = count
      BY <2>1, Zenon DEF PrintNumber, Output
    <3>2. Output(writer', total', count') = Output(writer, total, count)
      BY <3>1, Zenon
    <3> QED
      BY <3>1, <3>2, Zenon DEF FormatInv
  <2>2. CASE PrintAverage
    <3>1. writer' = writer /\ total' = total /\ count' = count /\ count > 0
          /\ text' = Digits(writer, Hundredths(writer, total, count) \div 100) \o <<".">>
                       \o Pair(Hundredths(writer, total, count) % 100)
      BY <2>2, Zenon DEF PrintAverage
    <3>2. count # 0
      <4>1. count \in Int
        BY PrecisionFacts DEF FormatInv
      <4> QED
        BY <3>1, <4>1
    <3>3. text' = Output(writer, total, count)
      BY <3>1, <3>2, Zenon DEF Output
    <3>4. Output(writer', total', count') = Output(writer, total, count)
      BY <3>1, Zenon
    <3> QED
      BY <3>1, <3>3, <3>4, Zenon DEF FormatInv
  <2>3. CASE UNCHANGED formatVars
    <3>1. writer' = writer /\ total' = total /\ count' = count /\ text' = text
      BY <2>3, Zenon DEF formatVars
    <3>2. Output(writer', total', count') = Output(writer, total, count)
      BY <3>1, Zenon
    <3> QED
      BY <3>1, <3>2, Zenon DEF FormatInv
  <2> QED
    BY <2>1, <2>2, <2>3, Zenon DEF FormatNext
<1> QED
  BY <1>1, <1>2, PTL DEF FormatSpec

(* The digits around the point are found again.                            *)
IsPart(p, S, u, m, n) ==
  /\ p \in Seq(S) /\ Len(p) = n + 1 - m
  /\ \A k \in 1..(n + 1 - m) : p[k] = u[k + m - 1]

LEMMA PartOf ==
  ASSUME NEW S, NEW u \in Seq(S), NEW m \in Nat, NEW n \in Nat, 1 <= m, m <= n + 1, n <= Len(u)
  PROVE  IsPart(SubSeq(u, m, n), S, u, m, n)
<1>1. \A k \in 1..(n + 1 - m) : k + m - 1 \in 1..Len(u) /\ u[k + m - 1] \in S
  OBVIOUS
<1>2. SubSeq(u, m, n) = [k \in 1..(1 + n - m) |-> u[k + m - 1]]
  BY SMT
<1>3. 1 + n - m = n + 1 - m /\ n + 1 - m \in Nat
  OBVIOUS
<1>4. PICK j \in Nat : j = n + 1 - m
  BY <1>3
<1>5. SubSeq(u, m, n) = [k \in 1..j |-> u[k + m - 1]]
  BY <1>2, <1>3, <1>4, Zenon
<1>6. \A k \in 1..j : SubSeq(u, m, n)[k] = u[k + m - 1]
  BY <1>5, Zenon
<1>7. SubSeq(u, m, n) \in [1..j -> S]
  BY <1>1, <1>4, <1>5, Zenon
<1>8. SubSeq(u, m, n) \in Seq(S) /\ Len(SubSeq(u, m, n)) = j
  BY <1>7
<1> QED
  BY <1>4, <1>6, <1>8, Zenon DEF IsPart

Joined(u, ds, x, w) == u = (ds \o x) \o w

AroundIt(u, ds, w) == SubSeq(u, 1, Len(u) - 3) = ds /\ SubSeq(u, Len(u) - 1, Len(u)) = w

LEMMA AroundPoint ==
  ASSUME NEW S, NEW ds \in Seq(S), NEW x \in Seq(S), Len(x) = 1, NEW w \in Seq(S), Len(w) = 2,
         NEW u, Joined(u, ds, x, w)
  PROVE  AroundIt(u, ds, w)
<1>1. PICK n \in Nat : n = Len(ds)
  OBVIOUS
<1>2. ds \o x \in Seq(S) /\ Len(ds \o x) = n + 1 /\ \A k \in 1..n : (ds \o x)[k] = ds[k]
  <2>1. /\ ds \o x \in Seq(S) /\ Len(ds \o x) = Len(ds) + Len(x)
        /\ \A k \in 1..(Len(ds) + Len(x)) : (ds \o x)[k] = IF k <= Len(ds) THEN ds[k] ELSE x[k - Len(ds)]
    BY ConcatProperties, Zenon
  <2>2. Len(ds) + Len(x) = n + 1 /\ \A k \in 1..n : k \in 1..(n + 1) /\ k <= n
    BY <1>1
  <2> QED
    BY <1>1, <2>1, <2>2, Zenon
<1>3. PICK s \in Seq(S) : s = ds \o x /\ Len(s) = n + 1 /\ \A k \in 1..n : s[k] = ds[k]
  BY <1>2, Zenon
<1>4. /\ u \in Seq(S) /\ Len(u) = n + 3
      /\ \A k \in 1..(n + 3) : u[k] = IF k <= n + 1 THEN s[k] ELSE w[k - (n + 1)]
  <2>1. /\ s \o w \in Seq(S) /\ Len(s \o w) = Len(s) + Len(w)
        /\ \A k \in 1..(Len(s) + Len(w)) : (s \o w)[k] = IF k <= Len(s) THEN s[k] ELSE w[k - Len(s)]
    BY ConcatProperties, Zenon
  <2>2. Len(s) + Len(w) = n + 3
    BY <1>3
  <2> QED
    BY <1>3, <2>1, <2>2, Zenon DEF Joined
<1>5. SubSeq(u, 1, n) = ds
  <2>1. SubSeq(u, 1, n) \in Seq(S) /\ Len(SubSeq(u, 1, n)) = n /\ \A k \in 1..n : SubSeq(u, 1, n)[k] = u[k]
    <3>1. u \in Seq(S) /\ n <= Len(u) /\ 1 <= 1 /\ 1 <= n + 1 /\ 1 \in Nat
      BY <1>4
    <3>2. /\ SubSeq(u, 1, n) \in Seq(S) /\ Len(SubSeq(u, 1, n)) = n + 1 - 1
          /\ \A k \in 1..(n + 1 - 1) : SubSeq(u, 1, n)[k] = u[k + 1 - 1]
      <4>1. IsPart(SubSeq(u, 1, n), S, u, 1, n)
        BY <3>1, PartOf, Zenon
      <4> QED
        BY <4>1, Zenon DEF IsPart
    <3>3. n + 1 - 1 = n /\ \A k \in 1..n : k + 1 - 1 = k
      OBVIOUS
    <3>4. \A k \in 1..n : SubSeq(u, 1, n)[k] = u[k + 1 - 1]
      BY <3>2, <3>3, Zenon
    <3>5. ASSUME NEW k \in 1..n
          PROVE  SubSeq(u, 1, n)[k] = u[k]
      <4>1. k + 1 - 1 = k
        OBVIOUS
      <4> QED
        BY <3>4, <4>1, Zenon
    <3> QED
      BY <3>2, <3>3, <3>5, Zenon
  <2>2. ASSUME NEW k \in 1..n
        PROVE  SubSeq(u, 1, n)[k] = ds[k]
    <3>1. k \in 1..(n + 3) /\ k <= n + 1
      OBVIOUS
    <3> QED
      BY <1>3, <1>4, <2>1, <3>1, Zenon
  <2> QED
    BY <1>1, <2>1, <2>2, SeqEqual, Zenon
<1>6. SubSeq(u, n + 2, n + 3) = w
  <2>1. /\ SubSeq(u, n + 2, n + 3) \in Seq(S) /\ Len(SubSeq(u, n + 2, n + 3)) = 2
        /\ \A k \in 1..2 : SubSeq(u, n + 2, n + 3)[k] = u[k + (n + 1)]
    <3>1. u \in Seq(S) /\ n + 3 <= Len(u) /\ 1 <= n + 2 /\ n + 2 <= n + 3 + 1 /\ n + 2 \in Nat /\ n + 3 \in Nat
      BY <1>4
    <3>2. /\ SubSeq(u, n + 2, n + 3) \in Seq(S) /\ Len(SubSeq(u, n + 2, n + 3)) = n + 3 + 1 - (n + 2)
          /\ \A k \in 1..(n + 3 + 1 - (n + 2)) : SubSeq(u, n + 2, n + 3)[k] = u[k + (n + 2) - 1]
      <4>1. IsPart(SubSeq(u, n + 2, n + 3), S, u, n + 2, n + 3)
        BY <3>1, PartOf, Zenon
      <4> QED
        BY <4>1, Zenon DEF IsPart
    <3>3. n + 3 + 1 - (n + 2) = 2
      OBVIOUS
    <3>4. \A k \in 1..2 : SubSeq(u, n + 2, n + 3)[k] = u[k + (n + 2) - 1]
      BY <3>2, <3>3, Zenon
    <3>5. ASSUME NEW k \in 1..2
          PROVE  SubSeq(u, n + 2, n + 3)[k] = u[k + (n + 1)]
      <4>1. k + (n + 2) - 1 = k + (n + 1)
        OBVIOUS
      <4> QED
        BY <3>4, <4>1, Zenon
    <3> QED
      BY <3>2, <3>3, <3>5, Zenon
  <2>2. ASSUME NEW k \in 1..2
        PROVE  SubSeq(u, n + 2, n + 3)[k] = w[k]
    <3>1. k + (n + 1) \in 1..(n + 3) /\ ~ (k + (n + 1) <= n + 1) /\ (k + (n + 1)) - (n + 1) = k
      OBVIOUS
    <3> QED
      BY <1>4, <2>1, <3>1, Zenon
  <2> QED
    BY <2>1, <2>2, SeqEqual, Zenon
<1>7. Len(u) - 3 = n /\ Len(u) - 1 = n + 2 /\ Len(u) = n + 3
  BY <1>4
<1> QED
  BY <1>5, <1>6, <1>7, Zenon DEF AroundIt

LEMMA PrintedIs ==
  ASSUME FormatInv, text # <<>>, count > 0
  PROVE  Printed = Printf(Divide(total, count))
<1>1. total \in 1..Largest /\ count \in 1..total /\ count # 0 /\ writer \in Programs
  <2>1. count # 0
    <3>1. count \in Int
      BY PrecisionFacts DEF FormatInv
    <3> QED
      BY <3>1
  <2> QED
    BY <2>1, Zenon DEF FormatInv
<1>2. PICK h : h = Printf(Divide(total, count))
  OBVIOUS
<1>3. Hundredths(writer, total, count) = h
  BY <1>1, <1>2, HundredthsPrint, Zenon
<1>4. h \in Nat /\ h <= 100 * Largest
  <2>1. /\ h \in Nat /\ 2 * (h * count - 100 * total) <= count
    BY <1>1, <1>2, HundredthsNear, Zenon
  <2>2. PICK L \in Nat : L = Largest
    BY PrecisionFacts, Zenon
  <2>3. PICK a \in Nat, c \in Nat : a = total /\ c = count /\ c > 0 /\ a <= L
    <3>1. total \in Nat /\ count \in Nat /\ count > 0 /\ total <= L
      BY <1>1, <2>2
    <3> QED
      BY <3>1, Zenon
  <2>4. 2 * (h * c - 100 * a) <= c
    BY <2>1, <2>3, Zenon
  <2> SUFFICES ASSUME 100 * L < h PROVE FALSE
    BY <2>1, <2>2
  <2>5. PICK g \in Nat : g = h
    BY <2>1
  <2>6. c * (100 * L) + c <= c * g
    BY <2>5, Apart
  <2>7. h * c = c * g /\ c * g \in Nat
    BY <2>5, SMT
  <2>8. 100 * L <= c * (100 * L) /\ c * (100 * L) \in Nat
    BY <2>3, SMT
  <2> QED
    BY <2>3, <2>4, <2>6, <2>7, <2>8
<1>5. PICK i \in Nat, p \in 0..99 : i = h \div 100 /\ p = h % 100 /\ h = 100 * i + p /\ i <= Largest
  <2>1. PICK L \in Nat : L = Largest
    BY PrecisionFacts, Zenon
  <2>2. PICK g \in Nat : g = h /\ g <= 100 * L
    BY <1>4, <2>1
  <2>3. g \div 100 \in Nat /\ g % 100 \in 0..99 /\ g = 100 * (g \div 100) + (g % 100) /\ g \div 100 <= L
    BY <2>2
  <2> QED
    BY <2>1, <2>2, <2>3, Zenon
<1>6. Fits(i)
  <2>1. PICK L \in Nat : L = Largest /\ L \div 65536 < 65536
    BY PrecisionAssumption, SMT
  <2>2. i <= L
    BY <1>5, <2>1
  <2>3. i \div 65536 <= L \div 65536
    BY <2>2, QuotientMonotone
  <2> QED
    BY <2>1, <2>3 DEF Fits
<1>7. PICK ds \in Seq(0..9) : ds = Digits(writer, i) /\ Value(ds) = i
  <2>1. IsDecimal(Digits(writer, i), i)
    BY <1>1, <1>6, DigitsWrite, Zenon
  <2> QED
    BY <2>1, Zenon DEF IsDecimal
<1>8. PICK z : z = "."
  OBVIOUS
<1>9. PICK d \in 0..9, e \in 0..9 : d = p \div 10 /\ e = p % 10 /\ p = 10 * d + e
  <2>1. p \div 10 \in 0..9 /\ p % 10 \in 0..9 /\ p = 10 * (p \div 10) + (p % 10)
    OBVIOUS
  <2> QED
    BY <2>1, Zenon
<1>10. text = (ds \o <<z>>) \o <<d, e>>
  <2>1. text = Digits(writer, h \div 100) \o <<".">> \o Pair(h % 100)
    BY <1>1, <1>3, Zenon DEF FormatInv, Output
  <2>2. Pair(h % 100) = <<d, e>>
    BY <1>5, <1>9, Zenon DEF Pair
  <2> QED
    BY <1>5, <1>7, <1>8, <2>1, <2>2, Zenon
<1> DEFINE S == (0..9) \cup {z}
<1>11. ds \in Seq(S) /\ z \in S
  <2>1. 0..9 \subseteq S
    OBVIOUS
  <2> HIDE DEF S
  <2>2. ds \in Seq(S)
    BY <2>1, SeqMonotonic, Zenon
  <2> QED
    BY <2>2 DEF S
<1>12. PICK w \in Seq(0..9) : w = <<d, e>> /\ Len(w) = 2 /\ w \in Seq(S)
  <2>1. <<d, e>> \in Seq(0..9) /\ Len(<<d, e>>) = 2
    OBVIOUS
  <2>2. 0..9 \subseteq S
    OBVIOUS
  <2> HIDE DEF S
  <2>3. PICK w \in Seq(0..9) : w = <<d, e>> /\ Len(w) = 2
    BY <2>1, Zenon
  <2>4. w \in Seq(S)
    BY <2>2, SeqMonotonic, Zenon
  <2> QED
    BY <2>3, <2>4, Zenon
<1> HIDE DEF S
<1>13. PICK x \in Seq(S) : x = <<z>> /\ Len(x) = 1
  <2>1. <<z>> \in Seq(S) /\ Len(<<z>>) = 1
    BY <1>11
  <2> QED
    BY <2>1, Zenon
<1>14. SubSeq(text, 1, Len(text) - 3) = ds /\ SubSeq(text, Len(text) - 1, Len(text)) = w
  <2>1. PICK u : u = text
    OBVIOUS
  <2>2. Joined(u, ds, x, w)
    BY <1>10, <1>12, <1>13, <2>1, Zenon DEF Joined
  <2>3. AroundIt(u, ds, w)
    BY <1>11, <1>12, <1>13, <2>2, AroundPoint, Zenon
  <2> QED
    BY <2>1, <2>3, Zenon DEF AroundIt
<1>15. Printed = Value(ds \o w)
  BY <1>14, Zenon DEF Printed
<1>16. Value(ds \o w) = h
  <2>1. ds \o w = (ds \o <<d>>) \o <<e>>
    BY <1>12, TwoAppends, Zenon
  <2>2. ds \o <<d>> = Append(ds, d) /\ Append(ds, d) \in Seq(0..9)
    <3>1. ds \o <<d>> = Append(ds, d)
      BY AppendIsConcat
    <3>2. Append(ds, d) \in Seq(0..9)
      OBVIOUS
    <3> QED
      BY <3>1, <3>2, Zenon
  <2>3. PICK s \in Seq(0..9) : s = Append(ds, d)
    BY <2>2
  <2>4. s \o <<e>> = Append(s, e)
    BY AppendIsConcat
  <2>5. ds \in Seq(Nat) /\ s \in Seq(Nat) /\ d \in Nat /\ e \in Nat
    <3>1. 0..9 \subseteq Nat /\ d \in Nat /\ e \in Nat
      OBVIOUS
    <3> QED
      BY <3>1, SeqMonotonic, Zenon
  <2>6. Value(s) = 10 * Value(ds) + d /\ Value(Append(s, e)) = 10 * Value(s) + e
    BY <2>3, <2>5, ValueSteps, Zenon
  <2>7. Value(ds \o w) = 10 * Value(s) + e
    BY <2>1, <2>2, <2>3, <2>4, <2>6, Zenon
  <2>8. Value(s) = 10 * i + d
    BY <1>7, <2>6, Zenon
  <2>9. PICK y \in Nat : y = 10 * i + d /\ 10 * y + e = h
    <3>1. 10 * i + d \in Nat /\ 10 * (10 * i + d) + e = h
      BY <1>5, <1>9
    <3> QED
      BY <3>1
  <2> QED
    BY <2>7, <2>8, <2>9, Zenon
<1> QED
  BY <1>2, <1>15, <1>16, Zenon

(* Whatever arithmetic a program uses, the text of its average has the     *)
(* value that printf's two decimals of the quotient of the two doubles     *)
(* have, for every precision that leaves room for them.                    *)
THEOREM PrintsAsPrintfTheorem == FormatSpec => []PrintsAsPrintf
<1>1. FormatInv => PrintsAsPrintf
  BY PrintedIs, Zenon DEF PrintsAsPrintf
<1> QED
  BY <1>1, FormatInvariant, PTL

(* The printed average is within half a hundredth of total / count.        *)
THEOREM WithinHalfTheorem == FormatSpec => []WithinHalf
<1>1. FormatInv => WithinHalf
  <2> SUFFICES ASSUME FormatInv, text # <<>>, count > 0
               PROVE  LET error == 2 * (Printed * count - 100 * total) IN -count <= error /\ error <= count
    BY Zenon DEF WithinHalf
  <2>1. total \in 1..Largest /\ count \in 1..total
    <3>1. count # 0
      <4>1. count \in Int
        BY PrecisionFacts DEF FormatInv
      <4> QED
        BY <4>1
    <3> QED
      BY <3>1, Zenon DEF FormatInv
  <2>2. Printed = Printf(Divide(total, count))
    BY PrintedIs
  <2> QED
    BY <2>1, <2>2, HundredthsNear, Zenon
<1> QED
  BY <1>1, FormatInvariant, PTL

(* A number's text is its decimal digits, by each of the conversions.      *)
THEOREM WritesDecimalTheorem == FormatSpec => []WritesDecimal
<1>1. FormatInv => WritesDecimal
  <2> SUFFICES ASSUME FormatInv, text # <<>>, count = 0
               PROVE  /\ \A i \in 1..Len(text) : text[i] \in 0..9
                      /\ Value(text) = total
                      /\ text[1] = 0 => text = <<0>>
    BY Zenon DEF WritesDecimal
  <2>1. total \in Numbers /\ writer \in Programs /\ text = Digits(writer, total)
    <3>1. ~ (count \in 1..total /\ total \in 1..Largest)
      BY PrecisionFacts
    <3> QED
      BY <3>1, Zenon DEF FormatInv, Output
  <2>2. total \in Nat /\ Fits(total)
    BY <2>1, NumbersAssumption, SMT DEF Fits
  <2>3. IsDecimal(text, total)
    BY <2>1, <2>2, DigitsWrite, Zenon
  <2>4. text \in Seq(0..9) /\ Value(text) = total /\ (text[1] = 0 => text = <<0>>)
    BY <2>3, Zenon DEF IsDecimal
  <2>5. \A i \in 1..Len(text) : text[i] \in 0..9
    BY <2>4
  <2> QED
    BY <2>4, <2>5, Zenon
<1> QED
  BY <1>1, FormatInvariant, PTL
=============================================================================
