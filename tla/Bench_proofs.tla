---------------------------- MODULE Bench_proofs ----------------------------
(***************************************************************************)
(* The benchmark tool keeps its log as BenchLog does, and whatever fails   *)
(* or dies, the log has the measured lines in order; and it has all of     *)
(* them as long as nothing does.  The verifier's verdict and the           *)
(* differences it shows are right for files of any length, so that only    *)
(* right outputs are behind a line of the log.                             *)
(***************************************************************************)
EXTENDS Bench, FiniteSetTheorems, SequenceTheorems, WellFoundedInduction, TLAPS

Lines == Nat \ {0}

Pieces == Lines \X (1 .. Width)

InSequence(s) ==
  /\ \A i \in 1 .. Len(s) : i > 1 => Follows(s[i - 1], s[i])
  /\ Len(s) > 0 => s[1][2] = 1

Below(s, n) == \A a \in 1 .. Len(s) : s[a][1] <= n

TypeLog ==
  /\ log \in Seq(Pieces) /\ old \in Seq(Pieces) /\ recorded \in Seq(Pieces)
  /\ line \in Nat /\ w \in Nat
  /\ pc \in {"measure", "create", "write"}
  /\ pc # "measure" => line \in Lines

(* What the log and the copy of it in memory have, at each place of        *)
(* appendLog.                                                              *)
InOrder ==
  /\ InSequence(log) /\ Below(log, line)
  /\ pc # "measure" => InSequence(old) /\ Below(old, line - 1)
  /\ pc = "create" => w = 0
  /\ pc = "write" => /\ w = Len(log) /\ w <= Len(Contents)
                     /\ \A i \in 1 .. w : log[i] = Contents[i]

(* Unless something failed, the history is in the file or in memory.       *)
Kept ==
  ~ hurt => IF pc = "measure" THEN log = recorded ELSE old = recorded

LogInv == TypeLog /\ InOrder /\ Kept

---------------------------------------------------------------------------
(* The text of a line is a sequence of Width pieces.                       *)
LEMMA TextIsPieces ==
  ASSUME NEW n \in Lines
  PROVE  /\ Text(n) \in Seq(Pieces) /\ Len(Text(n)) = Width
         /\ \A k \in 1 .. Width : Text(n)[k] = <<n, k>>
<1>1. Width \in Nat
  BY BenchLogAssumption
<1>2. \A k \in 1 .. Width : <<n, k>> \in Pieces
  BY DEF Pieces
<1>3. Text(n) \in [1 .. Width -> Pieces]
  BY <1>2 DEF Text
<1>4. Text(n) \in Seq(Pieces)
  BY <1>1, <1>3, IsASeq
<1>5. Len(Text(n)) = Width
  BY <1>1, <1>4, LenProperties DEF Text
<1> QED
  BY <1>4, <1>5 DEF Text

(* A newer line at the end leaves a sequence in order.                     *)
LEMMA AppendInOrder ==
  ASSUME NEW s \in Seq(Pieces), NEW n \in Lines, InSequence(s), Below(s, n - 1)
  PROVE  /\ s \o Text(n) \in Seq(Pieces)
         /\ Len(s \o Text(n)) = Len(s) + Width
         /\ InSequence(s \o Text(n)) /\ Below(s \o Text(n), n)
<1> DEFINE m == s \o Text(n)
           l == Len(s)
<1>0. Width \in Nat \ {0} /\ l \in Nat /\ n \in Nat
  BY BenchLogAssumption DEF Lines
<1>1. /\ m \in Seq(Pieces) /\ Len(m) = l + Width
      /\ \A i \in 1 .. l : m[i] = s[i]
      /\ \A i \in l + 1 .. l + Width : m[i] = Text(n)[i - l]
  <2>1. Text(n) \in Seq(Pieces) /\ Len(Text(n)) = Width
    BY TextIsPieces
  <2> HIDE DEF m
  <2>2. m \in Seq(Pieces) /\ Len(m) = l + Width
    BY <2>1, ConcatProperties DEF m
  <2>3. ASSUME NEW i \in 1 .. l + Width
        PROVE  m[i] = IF i <= l THEN s[i] ELSE Text(n)[i - l]
    BY <2>1, ConcatProperties DEF m
  <2>4. \A i \in 1 .. l : i \in 1 .. l + Width /\ i <= l
    BY <1>0
  <2>5. \A i \in l + 1 .. l + Width : i \in 1 .. l + Width /\ ~ (i <= l)
    BY <1>0
  <2> QED
    BY <2>2, <2>3, <2>4, <2>5
<1>2. ASSUME NEW i \in l + 1 .. l + Width
      PROVE  m[i][1] = n /\ m[i][2] = i - l
  <2>1. i - l \in 1 .. Width
    BY <1>0
  <2>2. m[i] = <<n, i - l>>
    BY <1>1, <2>1, TextIsPieces
  <2> QED
    BY <2>2
<1>3. \A i \in 1 .. l : m[i][1] <= n - 1 /\ m[i][1] \in Nat
  <2>1. \A i \in 1 .. l : s[i] \in Pieces
    OBVIOUS
  <2> QED
    BY <1>1, <2>1 DEF Below, Pieces, Lines
<1> HIDE DEF m
<1>4. ASSUME NEW i \in 1 .. Len(m), i > 1
      PROVE  Follows(m[i - 1], m[i])
  <2>1. CASE i <= l
    <3>1. i \in 1 .. l /\ i - 1 \in 1 .. l
      BY <1>0, <1>4, <2>1
    <3> QED
      BY <1>1, <1>4, <3>1 DEF InSequence
  <2>2. CASE i = l + 1
    <3>1. i \in l + 1 .. l + Width /\ i - 1 \in 1 .. l
      BY <1>0, <1>4, <2>2
    <3>2. m[i][1] = n /\ m[i][2] = i - l
      BY <1>2, <3>1
    <3>3. m[i - 1][1] <= n - 1 /\ m[i - 1][1] \in Nat
      BY <1>3, <3>1
    <3>4. m[i][2] = 1 /\ m[i][1] > m[i - 1][1]
      BY <1>0, <2>2, <3>2, <3>3
    <3> QED
      BY <3>4 DEF Follows
  <2>3. CASE i > l + 1
    <3>1. i \in l + 1 .. l + Width /\ i - 1 \in l + 1 .. l + Width
      BY <1>0, <1>1, <1>4, <2>3
    <3>2. m[i][1] = m[i - 1][1]
      BY <1>2, <3>1
    <3>3. m[i][2] = i - l /\ m[i - 1][2] = i - 1 - l
      BY <1>2, <3>1
    <3>4. m[i][2] = m[i - 1][2] + 1
      BY <3>3, <1>0
    <3> QED
      BY <3>2, <3>4 DEF Follows
  <2> QED
    BY <1>0, <1>1, <2>1, <2>2, <2>3
<1>5. m[1][2] = 1
  <2>1. CASE l = 0
    <3>1. 1 \in l + 1 .. l + Width
      BY <1>0, <2>1
    <3> QED
      BY <1>2, <3>1, <2>1
  <2>2. CASE l # 0
    <3>1. 1 \in 1 .. l
      BY <1>0, <2>2
    <3> QED
      BY <1>1, <3>1 DEF InSequence
  <2> QED
    BY <2>1, <2>2
<1>6. ASSUME NEW i \in 1 .. Len(m)
      PROVE  m[i][1] <= n
  <2>1. CASE i \in 1 .. l
    BY <1>0, <1>3, <2>1
  <2>2. CASE i \in l + 1 .. l + Width
    BY <1>0, <1>2, <2>2
  <2> QED
    BY <1>0, <1>1, <2>1, <2>2
<1>7. InSequence(m)
  BY <1>4, <1>5 DEF InSequence
<1>8. Below(m, n)
  BY <1>6 DEF Below
<1> QED
  BY <1>1, <1>7, <1>8 DEF m

(* Cutting leaves it in order too.                                         *)
LEMMA PrefixInOrder ==
  ASSUME NEW s, NEW c, NEW n, Len(s) \in Nat, Len(c) \in Nat, Len(s) <= Len(c),
         \A i \in 1 .. Len(s) : s[i] = c[i], InSequence(c), Below(c, n)
  PROVE  InSequence(s) /\ Below(s, n)
<1>1. \A i \in 1 .. Len(s) : i \in 1 .. Len(c)
  OBVIOUS
<1>2. ASSUME NEW i \in 1 .. Len(s), i > 1
      PROVE  Follows(s[i - 1], s[i])
  <2>1. i - 1 \in 1 .. Len(s)
    BY <1>2
  <2> QED
    BY <1>1, <1>2, <2>1 DEF InSequence
<1>3. Len(s) > 0 => s[1][2] = 1
  <2> SUFFICES ASSUME Len(s) > 0 PROVE s[1][2] = 1
    OBVIOUS
  <2>1. 1 \in 1 .. Len(s) /\ Len(c) > 0
    OBVIOUS
  <2> QED
    BY <2>1 DEF InSequence
<1>4. Below(s, n)
  BY <1>1 DEF Below
<1> QED
  BY <1>2, <1>3, <1>4 DEF InSequence

(* The contents in memory are in order too.                                *)
LEMMA ContentsInOrder ==
  ASSUME TypeLog, InOrder, pc # "measure"
  PROVE  /\ Contents \in Seq(Pieces) /\ Len(Contents) = Len(old) + Width
         /\ InSequence(Contents) /\ Below(Contents, line)
<1>1. InSequence(old) /\ Below(old, line - 1) /\ old \in Seq(Pieces) /\ line \in Lines
  BY DEF TypeLog, InOrder
<1> QED
  BY <1>1, AppendInOrder DEF Contents

LEMMA EmptyInOrder ==
  ASSUME NEW n
  PROVE  InSequence(<<>>) /\ Below(<<>>, n)
BY DEF InSequence, Below

LEMMA LogInit == Init => LogInv
<1> SUFFICES ASSUME Init PROVE LogInv
  OBVIOUS
<1>1. TypeLog
  BY DEF Init, TypeLog
<1>2. InOrder
  BY EmptyInOrder DEF Init, InOrder
<1>3. Kept
  BY DEF Init, Kept
<1> QED
  BY <1>1, <1>2, <1>3 DEF LogInv

(* Read takes the old lines or nothing, and numbers a new one.             *)
LEMMA ReadKeeps ==
  ASSUME LogInv, Read
  PROVE  LogInv'
<1>1. /\ pc = "measure" /\ pc' = "create" /\ line' = line + 1 /\ w' = 0
      /\ log' = log /\ recorded' = recorded
  BY DEF Read
<1>2. old' = log \/ old' = <<>>
  BY DEF Read
<1>3. TypeLog'
  <2>1. log \in Seq(Pieces) /\ <<>> \in Seq(Pieces)
    BY DEF LogInv, TypeLog, Lines
  <2>2. old' \in Seq(Pieces)
    BY <1>2, <2>1, Zenon
  <2> QED
    BY <1>1, <2>2 DEF LogInv, TypeLog, Lines
<1>4. InSequence(log) /\ Below(log, line) /\ line \in Nat /\ log \in Seq(Pieces)
  BY DEF LogInv, TypeLog, InOrder
<1>5. Below(log, line + 1)
  <2>1. \A a \in 1 .. Len(log) : log[a][1] <= line /\ log[a][1] \in Nat
    BY <1>4 DEF Below, Pieces, Lines
  <2>2. \A a \in 1 .. Len(log) : log[a][1] <= line + 1
    BY <1>4, <2>1
  <2> QED
    BY <2>2 DEF Below
<1>6. InOrder'
  BY <1>1, <1>2, <1>4, <1>5, EmptyInOrder DEF InOrder
<1>7. ASSUME ~ hurt'
      PROVE  old' = recorded
  <2>1. CASE old' = log /\ hurt' = hurt
    BY <1>1, <1>7, <2>1 DEF LogInv, Kept
  <2>2. CASE old' = <<>> /\ hurt' = (hurt \/ log # <<>>)
    <3>1. ~ hurt /\ log = <<>>
      BY <1>7, <2>2, Zenon
    <3> QED
      BY <1>1, <2>2, <3>1 DEF LogInv, Kept
  <2> QED
    BY <2>1, <2>2 DEF Read
<1>8. Kept'
  BY <1>1, <1>7 DEF Kept
<1> QED
  BY <1>3, <1>6, <1>8 DEF LogInv

(* createFile empties the file; the old lines are in memory.               *)
LEMMA CreateKeeps ==
  ASSUME LogInv, Create
  PROVE  LogInv'
<1>1. /\ pc = "create" /\ pc' = "write" /\ log' = <<>> /\ line' = line
      /\ old' = old /\ recorded' = recorded /\ hurt' = hurt /\ w' = w /\ w = 0
  BY DEF Create, LogInv, InOrder
<1>2. TypeLog'
  BY <1>1 DEF LogInv, TypeLog, Lines
<1>3. InOrder'
  <2>1. InSequence(old) /\ Below(old, line - 1) /\ old \in Seq(Pieces)
    BY <1>1 DEF LogInv, InOrder, TypeLog
  <2>2. InSequence(log') /\ Below(log', line')
    BY <1>1, EmptyInOrder
  <2>3. w' = Len(log') /\ w' <= Len(Contents')
    <3>1. Len(Contents') = Len(Contents) /\ Len(Contents) \in Nat
      BY <1>1, ContentsInOrder DEF LogInv, Contents
    <3> QED
      BY <1>1, <3>1
  <2>4. \A i \in 1 .. w' : log'[i] = Contents'[i]
    BY <1>1
  <2> QED
    BY <1>1, <2>1, <2>2, <2>3, <2>4 DEF InOrder
<1>4. Kept'
  BY <1>1 DEF LogInv, Kept
<1> QED
  BY <1>2, <1>3, <1>4 DEF LogInv

(* Write makes the log one longer as a prefix of the contents.             *)
LEMMA WriteKeeps ==
  ASSUME LogInv, Write
  PROVE  LogInv'
<1>1. /\ Contents \in Seq(Pieces)
      /\ InSequence(Contents) /\ Below(Contents, line)
  BY ContentsInOrder DEF LogInv, Write
<1>2. /\ pc = "write" /\ pc' = "write" /\ line' = line /\ old' = old
      /\ recorded' = recorded /\ hurt' = hurt /\ w' = w + 1
      /\ log' = Append(log, Contents[w + 1])
  BY DEF Write
<1>3. /\ Len(Contents) \in Nat /\ w \in Nat /\ w < Len(Contents) /\ w = Len(log)
      /\ log \in Seq(Pieces) /\ \A i \in 1 .. w : log[i] = Contents[i]
  BY <1>1 DEF LogInv, TypeLog, InOrder, Write
<1>4. Contents[w + 1] \in Pieces
  BY <1>1, <1>3
<1>5. log' \in Seq(Pieces) /\ Len(log') = w + 1
  BY <1>2, <1>3, <1>4
<1>6. ASSUME NEW i \in 1 .. w + 1
      PROVE  log'[i] = Contents[i]
  <2>1. CASE i \in 1 .. w
    BY <1>2, <1>3, <1>4, <2>1
  <2>2. CASE i = w + 1
    BY <1>2, <1>3, <1>4, <2>2
  <2> QED
    BY <1>3, <2>1, <2>2
<1>7. InSequence(log') /\ Below(log', line)
  <2>1. Len(log') <= Len(Contents) /\ Len(log') \in Nat /\ Len(Contents) \in Nat
    BY <1>1, <1>3, <1>5
  <2> QED
    BY <1>1, <1>5, <1>6, <2>1, PrefixInOrder
<1>8. TypeLog'
  BY <1>2, <1>3, <1>5 DEF LogInv, TypeLog, Lines
<1>9. Contents' = Contents
  BY <1>2 DEF Contents
<1>10. InOrder'
  <2>1. InSequence(old) /\ Below(old, line - 1)
    BY <1>2 DEF LogInv, InOrder
  <2>2. w' = Len(log') /\ w' <= Len(Contents')
    BY <1>2, <1>3, <1>5, <1>9
  <2> QED
    BY <1>2, <1>6, <1>7, <1>9, <2>1, <2>2 DEF InOrder
<1>11. Kept'
  BY <1>2 DEF LogInv, Kept
<1> QED
  BY <1>8, <1>10, <1>11 DEF LogInv

(* When appendLog returns the log is the contents.                         *)
LEMMA ReturnKeeps ==
  ASSUME LogInv, Return
  PROVE  LogInv'
<1>1. Contents \in Seq(Pieces)
  BY ContentsInOrder DEF LogInv, Return
<1>2. log = Contents
  BY <1>1 DEF LogInv, TypeLog, InOrder, Return
<1>3. recorded' \in Seq(Pieces)
  BY TextIsPieces, ConcatProperties DEF LogInv, TypeLog, Return
<1>4. TypeLog' /\ InOrder'
  BY <1>3 DEF LogInv, TypeLog, InOrder, Return, InSequence, Below
<1>5. Kept'
  BY <1>2 DEF LogInv, TypeLog, Kept, Return, Contents
<1> QED
  BY <1>4, <1>5 DEF LogInv

LEMMA DiesKeeps ==
  ASSUME LogInv, Dies
  PROVE  LogInv'
BY DEF LogInv, TypeLog, InOrder, Kept, Dies, InSequence, Below

LEMMA LogStep ==
  ASSUME LogInv, [Next]_vars
  PROVE  LogInv'
<1>1. CASE Read    BY <1>1, ReadKeeps
<1>2. CASE Create  BY <1>2, CreateKeeps
<1>3. CASE Write   BY <1>3, WriteKeeps
<1>4. CASE Return  BY <1>4, ReturnKeeps
<1>5. CASE Dies    BY <1>5, DiesKeeps
<1>6. CASE UNCHANGED vars
  BY <1>6 DEF vars, LogInv, TypeLog, InOrder, Kept, InSequence, Below, Contents
<1> QED
  BY <1>1, <1>2, <1>3, <1>4, <1>5, <1>6 DEF Next

LEMMA LogCorrect == Spec => []LogInv
<1>1. Init => LogInv
  BY LogInit
<1>2. LogInv /\ [Next]_vars => LogInv'
  BY LogStep
<1> QED
  BY <1>1, <1>2, PTL DEF Spec

---------------------------------------------------------------------------
(* Every step of the tool is one of appendLog (tools/bench.zig 112-134) or *)
(* leaves the log alone: the tool implements BenchLog.                     *)
THEOREM Refines == BenchSpec => Spec
<1>1. BenchInit => Init
  BY DEF BenchInit
<1>2. ASSUME [BenchNext]_benchVars
      PROVE  [Next]_vars
  <2>1. CASE Start         BY <2>1 DEF Start, vars
  <2>2. CASE Delete        BY <2>2 DEF Delete, vars
  <2>3. CASE RunSucceeds   BY <2>3 DEF RunSucceeds, vars
  <2>4. CASE RunFails      BY <2>4 DEF RunFails, vars
  <2>5. CASE RunVerified   BY <2>5 DEF RunVerified, vars
  <2>6. CASE RunRejected   BY <2>6 DEF RunRejected, vars
  <2>7. CASE AppendRead    BY <2>7 DEF AppendRead, Next
  <2>8. CASE AppendWrites  BY <2>8 DEF AppendWrites, Next
  <2>9. CASE AppendReturns BY <2>9 DEF AppendReturns, Next
  <2>10. CASE AppendDies   BY <2>10 DEF AppendDies, Next
  <2>11. CASE Stops        BY <2>11 DEF Stops, vars
  <2>12. CASE UNCHANGED benchVars
    BY <2>12 DEF benchVars, vars
  <2> QED
    BY <1>2, <2>1, <2>2, <2>3, <2>4, <2>5, <2>6, <2>7, <2>8, <2>9, <2>10, <2>11, <2>12
    DEF BenchNext
<1> QED
  BY <1>1, <1>2, PTL DEF BenchSpec, Spec

(* As long as every appendLog gets through, the log is exactly the history *)
(* of the lines that were appended.                                        *)
THEOREM HistoryCorrect == BenchSpec => []LogIsHistory
<1>1. LogInv => LogIsHistory
  BY DEF LogInv, Kept, LogIsHistory
<1> QED
  BY <1>1, LogCorrect, Refines, PTL

(* Whatever failed or died, no line of the log is doubled or out of order, *)
(* and what it has of a line is the line's beginning.                      *)
THEOREM OrderCorrect == BenchSpec => []LogInOrder
<1>1. LogInv => LogInOrder
  <2> SUFFICES ASSUME LogInv
               PROVE  LogInOrder
    OBVIOUS
  <2>1. DOMAIN log = 1 .. Len(log) /\ Len(log) \in Nat
    BY DEF LogInv, TypeLog
  <2>2. ASSUME NEW i \in DOMAIN log \ {1}
        PROVE  Follows(log[i - 1], log[i])
    <3>1. i \in 1 .. Len(log) /\ i > 1
      BY <2>1, <2>2
    <3> QED
      BY <3>1 DEF LogInv, InOrder, InSequence
  <2>3. log # <<>> => Len(log) > 0
    BY <2>1, EmptySeq DEF LogInv, TypeLog
  <2> QED
    BY <2>2, <2>3 DEF LogInv, InOrder, InSequence, LogInOrder
<1> QED
  BY <1>1, LogCorrect, Refines, PTL

---------------------------------------------------------------------------
(* Induction over the naturals, for a set in place of a predicate.         *)
LEMMA LeastNat ==
  ASSUME NEW T, T \subseteq Nat, T # {}
  PROVE  \E n \in T : \A k \in T : n <= k
<1>1. IsWellFoundedOn(OpToRel(<, Nat), Nat)
  BY NatLessThanWellFounded, Zenon
<1>2. PICK n \in T : \A k \in T : ~ (<<k, n>> \in OpToRel(<, Nat))
  BY <1>1, WFMin, Zenon
<1>3. \A k \in T : ~ (k < n)
  <2>1. \A k \in T : <<k, n>> \in Nat \X Nat
    OBVIOUS
  <2> QED
    BY <1>2, <2>1, Zenon DEF OpToRel
<1> QED
  BY <1>3

LEMMA NatInduct ==
  ASSUME NEW T, 0 \in T, \A n \in Nat : n \in T => n + 1 \in T
  PROVE  \A n \in Nat : n \in T
<1> SUFFICES ASSUME Nat \ T # {} PROVE FALSE
  OBVIOUS
<1>1. PICK n \in Nat \ T : \A k \in Nat \ T : n <= k
  <2>1. Nat \ T \subseteq Nat
    OBVIOUS
  <2> QED
    BY <2>1, LeastNat
<1>2. n # 0 /\ n \in Nat
  BY <1>1
<1>3. n - 1 \in Nat /\ n - 1 \in T
  BY <1>1, <1>2
<1> QED
  BY <1>1, <1>3

---------------------------------------------------------------------------
(* A finite set can be put in the order of a key.                          *)
Sorting(o, D, key) ==
  /\ o \in Bijection(1 .. Cardinality(D), D)
  /\ \A j, k \in 1 .. Cardinality(D) : j < k => key[o[j]] <= key[o[k]]

(* The element of the least key goes before the others.                    *)
LEMMA Prepended ==
  ASSUME NEW E, IsFiniteSet(E), NEW key \in [E -> Nat], NEW d \in E,
         \A e \in E : key[d] <= key[e],
         NEW o, Sorting(o, E \ {d}, key)
  PROVE  \E q : Sorting(q, E, key)
<1> DEFINE R == E \ {d}
           n == Cardinality(R)
<1>1. Cardinality(E) = n + 1 /\ n \in Nat
  <2>1. IsFiniteSet(R) /\ n = Cardinality(E) - 1
    BY FS_RemoveElement, Zenon
  <2>2. Cardinality(E) \in Nat /\ n \in Nat
    BY <2>1, FS_CardinalityType, Zenon
  <2> QED
    BY <2>1, <2>2
<1>2. /\ o \in [1 .. n -> R]
      /\ \A a, b \in 1 .. n : o[a] = o[b] => a = b
      /\ \A r \in R : \E k \in 1 .. n : o[k] = r
      /\ \A j, k \in 1 .. n : j < k => key[o[j]] <= key[o[k]]
  BY Zenon DEF Sorting, Bijection, Injection, Surjection, IsInjective
<1>3. \A r : r \in R <=> r \in E /\ r # d
  OBVIOUS
<1>4. Sorting(o, E \ {d}, key) <=> Sorting(o, R, key)
  OBVIOUS
<1> HIDE DEF R, n
<1> DEFINE q == [k \in 1 .. n + 1 |-> IF k = 1 THEN d ELSE o[k - 1]]
<1>5. /\ q[1] = d
      /\ \A k \in 1 .. n + 1 : k # 1 => k - 1 \in 1 .. n /\ q[k] = o[k - 1] /\ q[k] \in R
  BY <1>1, <1>2
<1>6. q \in [1 .. n + 1 -> E]
  BY <1>1, <1>2, <1>3
<1> HIDE DEF q
<1>7. ASSUME NEW a \in 1 .. n + 1, NEW b \in 1 .. n + 1, q[a] = q[b]
      PROVE  a = b
  <2>1. CASE a = 1 \/ b = 1
    BY <1>3, <1>5, <1>7, <2>1
  <2>2. CASE a # 1 /\ b # 1
    <3>1. a - 1 \in 1 .. n /\ b - 1 \in 1 .. n /\ o[a - 1] = o[b - 1]
      BY <1>5, <1>7, <2>2
    <3>2. a - 1 = b - 1
      BY <1>2, <3>1
    <3> QED
      BY <1>1, <3>2
  <2> QED
    BY <2>1, <2>2
<1>8. ASSUME NEW e \in E
      PROVE  \E k \in 1 .. n + 1 : q[k] = e
  <2>1. CASE e = d
    BY <1>1, <1>5, <2>1
  <2>2. CASE e # d
    <3>1. PICK k \in 1 .. n : o[k] = e
      BY <1>2, <1>3, <2>2
    <3>2. k + 1 \in 1 .. n + 1 /\ k + 1 # 1 /\ (k + 1) - 1 = k
      BY <1>1
    <3> QED
      BY <1>5, <3>1, <3>2
  <2> QED
    BY <2>1, <2>2
<1>9. ASSUME NEW j \in 1 .. n + 1, NEW k \in 1 .. n + 1, j < k
      PROVE  key[q[j]] <= key[q[k]]
  <2>1. k # 1 /\ q[k] \in E
    BY <1>1, <1>6, <1>9
  <2>2. CASE j = 1
    BY <1>5, <2>1, <2>2
  <2>3. CASE j # 1
    <3>1. j - 1 \in 1 .. n /\ k - 1 \in 1 .. n /\ j - 1 < k - 1
          /\ q[j] = o[j - 1] /\ q[k] = o[k - 1]
      BY <1>1, <1>5, <1>9, <2>1, <2>3
    <3> QED
      BY <1>2, <3>1
  <2> QED
    BY <2>2, <2>3
<1>10. q \in Bijection(1 .. n + 1, E)
  BY <1>6, <1>7, <1>8, Zenon DEF Bijection, Injection, Surjection, IsInjective
<1> QED
  BY <1>1, <1>9, <1>10, Zenon DEF Sorting

LEMMA Sortable ==
  ASSUME NEW D, IsFiniteSet(D), NEW key \in [D -> Nat]
  PROVE  \E o : Sorting(o, D, key)
<1> DEFINE All(n) == \A E \in SUBSET D : Cardinality(E) = n => \E o : Sorting(o, E, key)
           T == {n \in Nat : All(n)}
<1>1. 0 \in T
  <2> SUFFICES ASSUME NEW E \in SUBSET D, Cardinality(E) = 0
               PROVE  \E o : Sorting(o, E, key)
    OBVIOUS
  <2>1. E = {}
    BY FS_EmptySet, FS_Subset, Zenon
  <2>2. [k \in 1 .. 0 |-> k] \in [1 .. 0 -> E] /\ 1 .. 0 = {}
    OBVIOUS
  <2>3. Sorting([k \in 1 .. 0 |-> k], E, key)
    BY <2>1, <2>2 DEF Sorting, Bijection, Injection, Surjection, IsInjective
  <2> QED
    BY <2>3
<1>2. ASSUME NEW n \in Nat, n \in T
      PROVE  n + 1 \in T
  <2> SUFFICES ASSUME NEW E \in SUBSET D, Cardinality(E) = n + 1
               PROVE  \E o : Sorting(o, E, key)
    OBVIOUS
  <2>1. IsFiniteSet(E) /\ E # {}
    <3>1. IsFiniteSet(E)
      BY FS_Subset, Zenon
    <3>2. n + 1 # 0
      OBVIOUS
    <3> QED
      BY <3>1, <3>2, FS_EmptySet, Zenon
  <2>2. PICK d \in E : \A e \in E : key[d] <= key[e]
    <3> DEFINE K == {key[e] : e \in E}
    <3>1. K \subseteq Nat /\ K # {}
      BY <2>1
    <3> HIDE DEF K
    <3>2. PICK v \in K : \A u \in K : v <= u
      BY <3>1, LeastNat, Zenon
    <3> QED
      BY <3>2, Zenon DEF K
  <2>3. E \ {d} \in SUBSET D /\ Cardinality(E \ {d}) = n
    <3>1. Cardinality(E \ {d}) = Cardinality(E) - 1
      BY <2>1, FS_RemoveElement, Zenon
    <3> QED
      BY <3>1
  <2>4. PICK o : Sorting(o, E \ {d}, key)
    BY <1>2, <2>3
  <2> DEFINE low == [e \in E |-> key[e]]
  <2>5. low \in [E -> Nat] /\ \A e \in E : low[e] = key[e]
    OBVIOUS
  <2>6. \A q : Sorting(q, E, low) <=> Sorting(q, E, key)
    <3>1. ASSUME NEW q, q \in Bijection(1 .. Cardinality(E), E)
          PROVE  \A j \in 1 .. Cardinality(E) : q[j] \in E
      BY <3>1 DEF Bijection, Injection
    <3> QED
      BY <2>5, <3>1, Zenon DEF Sorting
  <2>7. Sorting(o, E \ {d}, low)
    <3>1. \A j \in 1 .. Cardinality(E \ {d}) : o[j] \in E \ {d}
      BY <2>4, Zenon DEF Sorting, Bijection, Injection
    <3>2. \A j \in 1 .. Cardinality(E \ {d}) : low[o[j]] = key[o[j]]
      BY <2>5, <3>1
    <3> QED
      BY <2>4, <3>2, Zenon DEF Sorting
  <2> HIDE DEF low
  <2>8. \E q : Sorting(q, E, low)
    <3>1. \A e \in E : low[d] <= low[e]
      BY <2>2, <2>5
    <3> QED
      BY <2>1, <2>5, <2>7, <3>1, Prepended, Zenon
  <2> QED
    BY <2>6, <2>8
<1> HIDE DEF T
<1>3. \A n \in Nat : n \in T
  BY <1>1, <1>2, NatInduct, Zenon
<1>4. Cardinality(D) \in T
  BY <1>3, FS_CardinalityType, Zenon
<1> QED
  BY <1>4 DEF T

---------------------------------------------------------------------------
(* The lines of a file that count, and the normalized ones: the same texts,*)
(* each as often, in order, without \r.                                    *)
KeptLines(file) == {i \in DOMAIN file : file[i].text # 0}

NormalLines == [text : Nat \ {0}, returns : {0}]

InTextOrder(lines) ==
  \A j, k \in 1 .. Len(lines) : j < k => lines[j].text <= lines[k].text

Arranged(kept, file) ==
  LET order == CHOOSE o \in Bijection(1 .. Cardinality(kept), kept) :
                 \A j, k \in DOMAIN o : j < k => file[o[j]].text <= file[o[k]].text
  IN  [k \in DOMAIN order |-> Trimmed(file[order[k]])]

LEMMA TrimmedLine ==
  ASSUME NEW raw \in RawLines
  PROVE  Trimmed(raw) = [text |-> raw.text, returns |-> 0] /\ raw.text \in Nat
BY DEF Trimmed, RawLines

LEMMA Order ==
  ASSUME NEW file \in Seq(RawLines)
  PROVE  LET n == Cardinality(KeptLines(file)) IN
         /\ n \in Nat
         /\ \E o \in Bijection(1 .. n, KeptLines(file)) :
              /\ NormalizedLines(file) = [k \in 1 .. n |-> Trimmed(file[o[k]])]
              /\ \A j, k \in 1 .. n : j < k => file[o[j]].text <= file[o[k]].text
<1> DEFINE K == KeptLines(file)
           n == Cardinality(K)
           key == [i \in K |-> file[i].text]
<1>1. \A i \in DOMAIN file : file[i] \in RawLines
  OBVIOUS
<1>2. \A i \in DOMAIN file : Trimmed(file[i]).text = file[i].text /\ file[i].text \in Nat
  BY <1>1, TrimmedLine
<1>3. K = {i \in DOMAIN file : Trimmed(file[i]).text # 0}
  BY <1>2 DEF KeptLines
<1>4. IsFiniteSet(K)
  <2>1. IsFiniteSet(1 .. Len(file)) /\ DOMAIN file = 1 .. Len(file)
    BY FS_Interval
  <2>2. K \in SUBSET (1 .. Len(file))
    BY <2>1 DEF KeptLines
  <2> QED
    BY <2>1, <2>2, FS_Subset, Zenon
<1>5. n \in Nat
  BY <1>4, FS_CardinalityType, Zenon
<1>6. key \in [K -> Nat] /\ \A i \in K : key[i] = file[i].text
  BY <1>2 DEF KeptLines
<1> DEFINE Ordered(o) == \A j, k \in DOMAIN o : j < k => file[o[j]].text <= file[o[k]].text
<1>7. \E o \in Bijection(1 .. n, K) : Ordered(o)
  <2> HIDE DEF key
  <2>1. PICK o : Sorting(o, K, key)
    BY <1>4, <1>6, Sortable, Zenon
  <2>2. o \in Bijection(1 .. n, K)
    BY <2>1, Zenon DEF Sorting
  <2>3. DOMAIN o = 1 .. n /\ \A j \in 1 .. n : o[j] \in K
    BY <2>2 DEF Bijection, Injection
  <2>4. \A j \in 1 .. n : key[o[j]] = file[o[j]].text
    BY <1>6, <2>3
  <2>5. Ordered(o)
    BY <2>1, <2>3, <2>4, Zenon DEF Sorting
  <2> QED
    BY <2>2, <2>5
<1> HIDE DEF K, n
<1> DEFINE order == CHOOSE o \in Bijection(1 .. n, K) : Ordered(o)
<1>8. order \in Bijection(1 .. n, K) /\ Ordered(order)
  <2> HIDE DEF Ordered
  <2> QED
    BY <1>7, Zenon
<1>9. NormalizedLines(file) = [k \in DOMAIN order |-> Trimmed(file[order[k]])]
  <2>1. NormalizedLines(file) = Arranged({i \in DOMAIN file : Trimmed(file[i]).text # 0}, file)
    BY Zenon DEF NormalizedLines, Arranged
  <2>2. NormalizedLines(file) = Arranged(K, file)
    BY <1>3, <2>1, Zenon
  <2> QED
    BY <2>2, Zenon DEF Arranged, n
<1> HIDE DEF order
<1>10. DOMAIN order = 1 .. n
  BY <1>8 DEF Bijection, Injection
<1> QED
  BY <1>5, <1>8, <1>9, <1>10, Zenon DEF K, n

(* Sizes of sets that a bijection carries into each other.                 *)
LEMMA Carried ==
  ASSUME NEW n \in Nat, NEW K, NEW o \in Bijection(1 .. n, K), NEW A, NEW B,
         A \subseteq 1 .. n, B \subseteq K, \A k \in 1 .. n : k \in A <=> o[k] \in B
  PROVE  IsFiniteSet(A) /\ ExistsBijection(A, B)
<1>1. IsFiniteSet(A)
  <2>1. IsFiniteSet(1 .. n)
    BY FS_Interval
  <2> QED
    BY <2>1, FS_Subset, Zenon
<1> DEFINE r == [k \in A |-> o[k]]
<1>2. /\ \A a, b \in 1 .. n : o[a] = o[b] => a = b
      /\ \A t \in K : \E k \in 1 .. n : o[k] = t
  BY Zenon DEF Bijection, Injection, Surjection, IsInjective
<1>3. r \in [A -> B] /\ \A k \in A : r[k] = o[k]
  OBVIOUS
<1> HIDE DEF r
<1>4. \A a, b \in A : r[a] = r[b] => a = b
  BY <1>2, <1>3
<1>5. \A t \in B : \E k \in A : r[k] = t
  BY <1>2, <1>3
<1>6. r \in Bijection(A, B)
  BY <1>3, <1>4, <1>5, Zenon DEF Bijection, Injection, Surjection, IsInjective
<1> QED
  BY <1>1, <1>6 DEF ExistsBijection

LEMMA Normalized ==
  ASSUME NEW file \in Seq(RawLines)
  PROVE  /\ NormalizedLines(file) \in Seq(NormalLines)
         /\ InTextOrder(NormalizedLines(file))
         /\ \A text : text # 0 => Times(NormalizedLines(file), text) = Times(file, text)
<1> DEFINE K == KeptLines(file)
           n == Cardinality(K)
           N == NormalizedLines(file)
<1>1. n \in Nat
  BY Order
<1>2. PICK o \in Bijection(1 .. n, K) :
        /\ N = [k \in 1 .. n |-> Trimmed(file[o[k]])]
        /\ \A j, k \in 1 .. n : j < k => file[o[j]].text <= file[o[k]].text
  BY Order
<1> HIDE DEF n, N
<1>3. \A k \in 1 .. n : o[k] \in K
  BY Zenon DEF Bijection, Injection
<1>4. \A i \in K : i \in DOMAIN file /\ file[i] \in RawLines /\ file[i].text # 0
  BY DEF KeptLines
<1>5. ASSUME NEW k \in 1 .. n
      PROVE  /\ N[k] = [text |-> file[o[k]].text, returns |-> 0]
             /\ file[o[k]].text \in Nat \ {0}
  <2>1. file[o[k]] \in RawLines /\ file[o[k]].text # 0
    BY <1>3, <1>4
  <2>2. N[k] = Trimmed(file[o[k]])
    BY <1>2
  <2> QED
    BY <2>1, <2>2, TrimmedLine
<1>6. ASSUME NEW k \in 1 .. n
      PROVE  N[k] \in NormalLines /\ N[k].text = file[o[k]].text
  <2> DEFINE x == file[o[k]].text
  <2>1. N[k] = [text |-> x, returns |-> 0] /\ x \in Nat \ {0}
    BY <1>5
  <2> HIDE DEF x
  <2>2. N[k] \in NormalLines /\ N[k].text = x
    BY <2>1 DEF NormalLines
  <2> QED
    BY <2>2 DEF x
<1>7. N \in Seq(NormalLines) /\ Len(N) = n /\ DOMAIN N = 1 .. n
  <2>1. DOMAIN N = 1 .. n /\ N = [k \in 1 .. n |-> N[k]]
    BY <1>2, Zenon
  <2>2. N \in [1 .. n -> NormalLines]
    BY <1>6, <2>1, Zenon
  <2> QED
    BY <1>1, <2>1, <2>2
<1>8. InTextOrder(N)
  <2> SUFFICES ASSUME NEW j \in 1 .. n, NEW k \in 1 .. n, j < k
               PROVE  N[j].text <= N[k].text
    BY <1>7, Zenon DEF InTextOrder
  <2>1. file[o[j]].text <= file[o[k]].text
    BY <1>2
  <2>2. N[j].text = file[o[j]].text /\ N[k].text = file[o[k]].text
    BY <1>6
  <2> QED
    BY <2>1, <2>2, Zenon
<1>9. ASSUME NEW text, text # 0
      PROVE  Times(N, text) = Times(file, text)
  <2> DEFINE A == {i \in DOMAIN N : N[i].text = text}
             B == {i \in DOMAIN file : file[i].text = text}
  <2>1. A \subseteq 1 .. n /\ B \subseteq K
    BY <1>7, <1>9 DEF KeptLines
  <2>2. \A k \in 1 .. n : k \in A <=> o[k] \in B
    BY <1>3, <1>4, <1>6, <1>7
  <2>3. o \in Bijection(1 .. n, K)
    OBVIOUS
  <2> HIDE DEF A, B, K
  <2>4. Cardinality(A) = Cardinality(B)
    <3>1. \A k \in 1 .. n : k \in A <=> o[k] \in B
      BY <2>2
    <3>2. A \subseteq 1 .. n
      BY <2>1
    <3>3. B \subseteq K
      BY <2>1
    <3>4. IsFiniteSet(A) /\ ExistsBijection(A, B)
      BY <1>1, <2>3, <3>1, <3>2, <3>3, Carried
    <3> QED
      BY <3>4, FS_Bijection
  <2> QED
    BY <2>4, Zenon DEF Times, A, B
<1> QED
  BY <1>7, <1>8, <1>9 DEF N

---------------------------------------------------------------------------
(* How often a text occurs from place i on in normalized lines.            *)
From(lines, i, text) == {k \in i .. Len(lines) : lines[k].text = text}

TimesFrom(lines, i, text) == Cardinality(From(lines, i, text))

Here(lines, i, text) == IF lines[i].text = text THEN 1 ELSE 0

Normal(lines) == lines \in Seq(NormalLines) /\ InTextOrder(lines)

LEMMA NormalLine ==
  ASSUME NEW lines, Normal(lines)
  PROVE  /\ Len(lines) \in Nat /\ DOMAIN lines = 1 .. Len(lines)
         /\ \A k \in 1 .. Len(lines) : /\ lines[k].text \in Nat /\ lines[k].text # 0
                                       /\ lines[k] = [text |-> lines[k].text, returns |-> 0]
<1>1. lines \in Seq(NormalLines)
  BY DEF Normal
<1>2. Len(lines) \in Nat /\ DOMAIN lines = 1 .. Len(lines)
  BY <1>1
<1>3. ASSUME NEW k \in 1 .. Len(lines)
      PROVE  /\ lines[k].text \in Nat /\ lines[k].text # 0
             /\ lines[k] = [text |-> lines[k].text, returns |-> 0]
  <2>1. lines[k] \in NormalLines
    BY <1>1
  <2> QED
    BY <2>1 DEF NormalLines
<1> QED
  BY <1>2, <1>3

LEMMA FromFinite ==
  ASSUME NEW lines, Normal(lines), NEW i \in Nat \ {0}, NEW text
  PROVE  IsFiniteSet(From(lines, i, text)) /\ TimesFrom(lines, i, text) \in Nat
<1>1. Len(lines) \in Nat
  BY NormalLine
<1>2. IsFiniteSet(i .. Len(lines))
  BY <1>1, FS_Interval
<1>3. From(lines, i, text) \in SUBSET (i .. Len(lines))
  BY DEF From
<1>4. IsFiniteSet(From(lines, i, text))
  BY <1>2, <1>3, FS_Subset, Zenon
<1> QED
  BY <1>4, FS_CardinalityType, Zenon DEF TimesFrom

(* The line at i is one more than those after it.                          *)
LEMMA FromNext ==
  ASSUME NEW lines, Normal(lines), NEW i \in 1 .. Len(lines), NEW text
  PROVE  TimesFrom(lines, i, text) = TimesFrom(lines, i + 1, text) + Here(lines, i, text)
<1> DEFINE S == From(lines, i + 1, text)
<1>1. Len(lines) \in Nat /\ i \in Nat \ {0} /\ i + 1 \in Nat \ {0}
  BY NormalLine
<1>2. IsFiniteSet(S) /\ Cardinality(S) \in Nat
  BY <1>1, FromFinite DEF TimesFrom
<1>3. \A k : k \in i .. Len(lines) <=> k = i \/ k \in (i + 1) .. Len(lines)
  BY <1>1
<1>4. i \notin S
  BY <1>1 DEF From
<1>5. CASE lines[i].text = text
  <2>1. From(lines, i, text) = S \cup {i}
    BY <1>3, <1>5 DEF From
  <2>2. Cardinality(S \cup {i}) = Cardinality(S) + 1
    BY <1>2, <1>4, FS_AddElement, Zenon
  <2> QED
    BY <1>5, <2>1, <2>2 DEF TimesFrom, Here
<1>6. CASE lines[i].text # text
  <2>1. From(lines, i, text) = S
    BY <1>3, <1>6 DEF From
  <2> QED
    BY <1>2, <1>6, <2>1 DEF TimesFrom, Here
<1> QED
  BY <1>5, <1>6

(* Nothing is left at the end, and no text that is before the line at i.   *)
LEMMA FromNone ==
  ASSUME NEW lines, Normal(lines), NEW i \in 1 .. Len(lines) + 1, NEW text \in Nat,
         i <= Len(lines) => text < lines[i].text
  PROVE  TimesFrom(lines, i, text) = 0
<1>1. /\ Len(lines) \in Nat
      /\ \A k \in 1 .. Len(lines) : lines[k].text \in Nat
      /\ \A j, k \in 1 .. Len(lines) : j < k => lines[j].text <= lines[k].text
  BY NormalLine DEF Normal, InTextOrder
<1>2. ASSUME NEW k \in i .. Len(lines)
      PROVE  lines[k].text # text
  <2>1. i \in 1 .. Len(lines) /\ k \in 1 .. Len(lines) /\ (k = i \/ i < k)
    BY <1>1
  <2>2. lines[i].text <= lines[k].text
    BY <1>1, <2>1
  <2>3. lines[i].text \in Nat /\ lines[k].text \in Nat /\ text < lines[i].text
    BY <1>1, <2>1
  <2> QED
    BY <2>2, <2>3
<1>3. From(lines, i, text) = {}
  BY <1>2 DEF From
<1> QED
  BY <1>3, FS_EmptySet DEF TimesFrom

LEMMA FromFirst ==
  ASSUME NEW lines, Normal(lines), NEW text
  PROVE  Times(lines, text) = TimesFrom(lines, 1, text)
BY NormalLine, Zenon DEF Times, TimesFrom, From

---------------------------------------------------------------------------
(* Normalized lines with each text as often are the same lines.            *)
SameFrom(P, Q, i, j) == \A text \in Nat : TimesFrom(P, i, text) = TimesFrom(Q, j, text)

EqualFrom(P, Q, i, j) ==
  /\ Len(P) - i = Len(Q) - j
  /\ \A k \in Nat : i + k <= Len(P) => P[i + k] = Q[j + k]

LEMMA OnePresent ==
  ASSUME NEW P, NEW Q, Normal(P), Normal(Q), NEW i \in 1 .. Len(P), NEW j \in 1 .. Len(Q) + 1,
         SameFrom(P, Q, i, j)
  PROVE  j <= Len(Q) /\ Q[j].text <= P[i].text
<1>1. Len(P) \in Nat /\ Len(Q) \in Nat /\ P[i].text \in Nat
  BY NormalLine
<1>2. j <= Len(Q) => Q[j].text \in Nat
  <2>1. \A k \in 1 .. Len(Q) : Q[k].text \in Nat
    BY NormalLine
  <2> QED
    BY <1>1, <2>1
<1>3. TimesFrom(P, i, P[i].text) >= 1
  <2>1. TimesFrom(P, i, P[i].text) = TimesFrom(P, i + 1, P[i].text) + 1
    BY FromNext DEF Here
  <2>2. TimesFrom(P, i + 1, P[i].text) \in Nat
    BY <1>1, FromFinite
  <2> QED
    BY <2>1, <2>2
<1>4. TimesFrom(Q, j, P[i].text) # 0
  BY <1>1, <1>3 DEF SameFrom
<1> QED
  BY <1>1, <1>2, <1>4, FromNone

LEMMA SameIsEqual ==
  ASSUME NEW P, NEW Q, Normal(P), Normal(Q), SameFrom(P, Q, 1, 1)
  PROVE  Equal(P, Q)
<1>1. Len(P) \in Nat /\ Len(Q) \in Nat
  BY NormalLine
<1> DEFINE T == {n \in Nat : \A i \in 1 .. Len(P) + 1, j \in 1 .. Len(Q) + 1 :
                   Len(P) + 1 - i = n /\ SameFrom(P, Q, i, j) => EqualFrom(P, Q, i, j)}
<1>2. 0 \in T
  <2> SUFFICES ASSUME NEW i \in 1 .. Len(P) + 1, NEW j \in 1 .. Len(Q) + 1,
                      Len(P) + 1 - i = 0, SameFrom(P, Q, i, j)
               PROVE  EqualFrom(P, Q, i, j)
    OBVIOUS
  <2>1. ~ (i \in 1 .. Len(P)) /\ i = Len(P) + 1
    BY <1>1
  <2>2. SameFrom(Q, P, j, i)
    BY DEF SameFrom
  <2>3. ~ (j \in 1 .. Len(Q))
    BY <1>1, <2>1, <2>2, OnePresent
  <2>4. j = Len(Q) + 1
    BY <1>1, <2>3
  <2> QED
    BY <1>1, <2>1, <2>4 DEF EqualFrom
<1>3. ASSUME NEW n \in Nat, n \in T
      PROVE  n + 1 \in T
  <2> SUFFICES ASSUME NEW i \in 1 .. Len(P) + 1, NEW j \in 1 .. Len(Q) + 1,
                      Len(P) + 1 - i = n + 1, SameFrom(P, Q, i, j)
               PROVE  EqualFrom(P, Q, i, j)
    OBVIOUS
  <2>1. i \in 1 .. Len(P) /\ i + 1 \in 1 .. Len(P) + 1 /\ Len(P) + 1 - (i + 1) = n
    BY <1>1
  <2>2. j <= Len(Q) /\ Q[j].text <= P[i].text
    BY <2>1, OnePresent
  <2>3. j \in 1 .. Len(Q) /\ j + 1 \in 1 .. Len(Q) + 1
    BY <1>1, <2>2
  <2>4. SameFrom(Q, P, j, i)
    BY DEF SameFrom
  <2>5. P[i].text <= Q[j].text
    BY <2>1, <2>3, <2>4, OnePresent
  <2>6. P[i] = Q[j] /\ P[i].text = Q[j].text
    <3>1. P[i].text \in Nat /\ P[i] = [text |-> P[i].text, returns |-> 0]
      BY <2>1, NormalLine
    <3>2. Q[j].text \in Nat /\ Q[j] = [text |-> Q[j].text, returns |-> 0]
      BY <2>3, NormalLine
    <3>3. P[i].text = Q[j].text
      BY <2>2, <2>5, <3>1, <3>2
    <3> QED
      BY <3>1, <3>2, <3>3, Zenon
  <2>7. SameFrom(P, Q, i + 1, j + 1)
    <3> SUFFICES ASSUME NEW text \in Nat
                 PROVE  TimesFrom(P, i + 1, text) = TimesFrom(Q, j + 1, text)
      BY DEF SameFrom
    <3>1. TimesFrom(P, i, text) = TimesFrom(P, i + 1, text) + Here(P, i, text)
      BY <2>1, FromNext
    <3>2. TimesFrom(Q, j, text) = TimesFrom(Q, j + 1, text) + Here(Q, j, text)
      BY <2>3, FromNext
    <3>3. Here(P, i, text) = Here(Q, j, text) /\ Here(P, i, text) \in Nat
      BY <2>6 DEF Here
    <3>4. TimesFrom(P, i, text) = TimesFrom(Q, j, text)
      BY DEF SameFrom
    <3>5. TimesFrom(P, i + 1, text) \in Nat /\ TimesFrom(Q, j + 1, text) \in Nat
      BY <2>1, <2>3, FromFinite
    <3> QED
      BY <3>1, <3>2, <3>3, <3>4, <3>5
  <2>8. EqualFrom(P, Q, i + 1, j + 1)
    BY <1>3, <2>1, <2>3, <2>7
  <2>9. Len(P) - i = Len(Q) - j
    BY <1>1, <2>1, <2>3, <2>8 DEF EqualFrom
  <2>10. ASSUME NEW k \in Nat, i + k <= Len(P)
         PROVE  P[i + k] = Q[j + k]
    <3>1. CASE k = 0
      BY <2>6, <3>1
    <3>2. CASE k # 0
      <4>1. k - 1 \in Nat /\ (i + 1) + (k - 1) = i + k /\ (j + 1) + (k - 1) = j + k
        BY <3>2
      <4>2. P[(i + 1) + (k - 1)] = Q[(j + 1) + (k - 1)]
        BY <2>8, <2>10, <4>1, Zenon DEF EqualFrom
      <4> QED
        BY <4>1, <4>2
    <3> QED
      BY <3>1, <3>2
  <2> QED
    BY <2>9, <2>10 DEF EqualFrom
<1>4. Len(P) \in T
  <2> HIDE DEF T
  <2> QED
    BY <1>1, <1>2, <1>3, NatInduct
<1>5. EqualFrom(P, Q, 1, 1)
  BY <1>1, <1>4
<1>6. Len(P) = Len(Q)
  BY <1>1, <1>5 DEF EqualFrom
<1>7. ASSUME NEW k \in DOMAIN P
      PROVE  P[k] = Q[k]
  <2>1. k \in 1 .. Len(P)
    BY NormalLine
  <2>2. k - 1 \in Nat /\ 1 + (k - 1) = k /\ k <= Len(P)
    BY <1>1, <2>1
  <2> QED
    BY <1>5, <2>2 DEF EqualFrom
<1> QED
  BY <1>6, <1>7, Zenon DEF Equal

(* The verifier accepts exactly the outputs with the expected lines.       *)
LEMMA AcceptsExactly ==
  ASSUME NEW actual \in Seq(RawLines), NEW exp \in Seq(RawLines)
  PROVE  Accepts(actual, exp) <=> SameLines(actual, exp)
<1> DEFINE P == NormalizedLines(actual)
           Q == NormalizedLines(exp)
<1>1. /\ Normal(P) /\ Normal(Q)
      /\ \A text : text # 0 => Times(P, text) = Times(actual, text)
      /\ \A text : text # 0 => Times(Q, text) = Times(exp, text)
  BY Normalized DEF Normal
<1>2. Accepts(actual, exp) <=> Equal(P, Q)
  BY Zenon DEF Accepts
<1> HIDE DEF P, Q
<1>3. ASSUME Equal(P, Q)
      PROVE  SameLines(actual, exp)
  <2>1. P = Q
    BY <1>1, <1>3, NormalLine DEF Equal, Normal
  <2> SUFFICES ASSUME NEW text \in Texts(actual) \cup Texts(exp)
               PROVE  Times(actual, text) = Times(exp, text)
    BY DEF SameLines
  <2>2. text # 0
    BY DEF Texts
  <2> QED
    BY <1>1, <2>1, <2>2
<1>4. ASSUME SameLines(actual, exp)
      PROVE  Equal(P, Q)
  <2>1. ASSUME NEW text, text # 0
        PROVE  Times(actual, text) = Times(exp, text)
    <3>1. CASE text \in Texts(actual) \cup Texts(exp)
      BY <1>4, <3>1 DEF SameLines
    <3>2. CASE text \notin Texts(actual) \cup Texts(exp)
      <4>1. /\ {i \in DOMAIN actual : actual[i].text = text} = {}
            /\ {i \in DOMAIN exp : exp[i].text = text} = {}
        BY <2>1, <3>2 DEF Texts
      <4> QED
        BY <4>1, Zenon DEF Times
    <3> QED
      BY <3>1, <3>2
  <2>2. ASSUME NEW text \in Nat
        PROVE  TimesFrom(P, 1, text) = TimesFrom(Q, 1, text)
    <3>1. CASE text # 0
      <4>1. Times(P, text) = Times(Q, text)
        BY <1>1, <2>1, <3>1
      <4> QED
        BY <1>1, <4>1, FromFirst, Zenon
    <3>2. CASE text = 0
      <4>1. Len(P) \in Nat /\ Len(Q) \in Nat /\ 1 \in 1 .. Len(P) + 1 /\ 1 \in 1 .. Len(Q) + 1
        BY <1>1, NormalLine
      <4>2. 1 <= Len(P) => 0 < P[1].text
        <5>1. \A k \in 1 .. Len(P) : P[k].text \in Nat /\ P[k].text # 0
          BY <1>1, NormalLine, Zenon
        <5> QED
          BY <4>1, <5>1
      <4>3. 1 <= Len(Q) => 0 < Q[1].text
        <5>1. \A k \in 1 .. Len(Q) : Q[k].text \in Nat /\ Q[k].text # 0
          BY <1>1, NormalLine, Zenon
        <5> QED
          BY <4>1, <5>1
      <4>4. TimesFrom(P, 1, 0) = 0 /\ TimesFrom(Q, 1, 0) = 0
        BY <1>1, <4>1, <4>2, <4>3, FromNone
      <4> QED
        BY <3>2, <4>4
    <3> QED
      BY <3>1, <3>2
  <2>3. SameFrom(P, Q, 1, 1)
    BY <2>2 DEF SameFrom
  <2> QED
    BY <1>1, <2>3, SameIsEqual
<1> QED
  BY <1>2, <1>3, <1>4

---------------------------------------------------------------------------
(* The loop that shows the differences has one solution.                   *)
Body(P, Q, g, at) ==
  LET i     == at[1]
      j     == at[2]
      shown == at[3]
      a     == i <= Len(P)
      e     == j <= Len(Q)
  IN  IF ~ (a \/ e) \/ shown = MaxShown THEN <<>>
      ELSE IF ~ e \/ (a /\ P[i].text < Q[j].text)
        THEN <<[only |-> "actual", line |-> P[i]]>> \o g[<<i + 1, j, shown + 1>>]
      ELSE IF ~ a \/ Q[j].text < P[i].text
        THEN <<[only |-> "expected", line |-> Q[j]]>> \o g[<<i, j + 1, shown + 1>>]
      ELSE g[<<i + 1, j + 1, shown>>]

Places(P, Q) == (1 .. Len(P) + 1) \X (1 .. Len(Q) + 1) \X (0 .. MaxShown)

Loop(P, Q, g) == g = [at \in Places(P, Q) |-> Body(P, Q, g, at)]

LEMMA DifferencesLoop ==
  ASSUME NEW P, NEW Q
  PROVE  Differences(P, Q) = (CHOOSE g : Loop(P, Q, g))[<<1, 1, 0>>]
BY Zenon DEF Differences, Body, Places, Loop

(* The cases of a round at i and j.                                        *)
ShowsActual(P, Q, i, j) == i <= Len(P) /\ (j <= Len(Q) => P[i].text < Q[j].text)

ShowsExpected(P, Q, i, j) == j <= Len(Q) /\ (i <= Len(P) => Q[j].text < P[i].text)

Ends(P, Q, i, j, s) == (i > Len(P) /\ j > Len(Q)) \/ s = MaxShown

Outcome(P, Q, g, i, j, s, R) ==
  \/ Ends(P, Q, i, j, s) /\ R = <<>>
  \/ /\ ~ Ends(P, Q, i, j, s) /\ ShowsActual(P, Q, i, j)
     /\ R = <<[only |-> "actual", line |-> P[i]]>> \o g[<<i + 1, j, s + 1>>]
  \/ /\ ~ Ends(P, Q, i, j, s) /\ ShowsExpected(P, Q, i, j)
     /\ R = <<[only |-> "expected", line |-> Q[j]]>> \o g[<<i, j + 1, s + 1>>]
  \/ /\ ~ Ends(P, Q, i, j, s) /\ i <= Len(P) /\ j <= Len(Q)
     /\ P[i].text = Q[j].text
     /\ R = g[<<i + 1, j + 1, s>>]

LEMMA Round ==
  ASSUME NEW P, NEW Q, Normal(P), Normal(Q), NEW g,
         NEW i \in 1 .. Len(P) + 1, NEW j \in 1 .. Len(Q) + 1, NEW s \in 0 .. MaxShown
  PROVE  Outcome(P, Q, g, i, j, s, Body(P, Q, g, <<i, j, s>>))
<1> DEFINE R == Body(P, Q, g, <<i, j, s>>)
           a == i <= Len(P)
           e == j <= Len(Q)
           X == <<[only |-> "actual", line |-> P[i]]>> \o g[<<i + 1, j, s + 1>>]
           Y == <<[only |-> "expected", line |-> Q[j]]>> \o g[<<i, j + 1, s + 1>>]
           Z == g[<<i + 1, j + 1, s>>]
<1>1. R = IF ~ (a \/ e) \/ s = MaxShown THEN <<>>
          ELSE IF ~ e \/ (a /\ P[i].text < Q[j].text) THEN X
          ELSE IF ~ a \/ Q[j].text < P[i].text THEN Y
          ELSE Z
  BY Zenon DEF Body
<1>2. /\ Len(P) \in Nat /\ Len(Q) \in Nat
      /\ a => P[i].text \in Nat
      /\ e => Q[j].text \in Nat
  <2>1. /\ Len(P) \in Nat /\ Len(Q) \in Nat
        /\ \A k \in 1 .. Len(P) : P[k].text \in Nat
        /\ \A k \in 1 .. Len(Q) : Q[k].text \in Nat
    BY NormalLine
  <2> QED
    BY <2>1
<1> HIDE DEF R, X, Y, Z
<1>3. \/ Ends(P, Q, i, j, s) /\ R = <<>>
      \/ ~ Ends(P, Q, i, j, s) /\ ShowsActual(P, Q, i, j) /\ R = X
      \/ ~ Ends(P, Q, i, j, s) /\ ShowsExpected(P, Q, i, j) /\ R = Y
      \/ ~ Ends(P, Q, i, j, s) /\ a /\ e /\ P[i].text = Q[j].text /\ R = Z
  BY <1>1, <1>2 DEF Ends, ShowsActual, ShowsExpected
<1> QED
  BY <1>3, Zenon DEF R, X, Y, Z, Outcome

(* The lines that are left.                                                *)
Left(P, Q, at) == (Len(P) + 1 - at[1]) + (Len(Q) + 1 - at[2])

LEMMA PlaceParts ==
  ASSUME NEW P, NEW Q, Normal(P), Normal(Q), NEW at \in Places(P, Q)
  PROVE  /\ at = <<at[1], at[2], at[3]>> /\ Left(P, Q, at) \in Nat
         /\ at[1] \in 1 .. Len(P) + 1 /\ at[2] \in 1 .. Len(Q) + 1 /\ at[3] \in 0 .. MaxShown
<1>1. Len(P) \in Nat /\ Len(Q) \in Nat
  BY NormalLine
<1>2. /\ at = <<at[1], at[2], at[3]>>
      /\ at[1] \in 1 .. Len(P) + 1 /\ at[2] \in 1 .. Len(Q) + 1 /\ at[3] \in 0 .. MaxShown
  BY DEF Places
<1> QED
  BY <1>1, <1>2 DEF Left

(* A round asks only for places with less left.                            *)
LEMMA RoundAgrees ==
  ASSUME NEW P, NEW Q, Normal(P), Normal(Q), NEW at \in Places(P, Q), NEW g, NEW h,
         \A b \in Places(P, Q) : Left(P, Q, b) < Left(P, Q, at) => g[b] = h[b]
  PROVE  Body(P, Q, g, at) = Body(P, Q, h, at)
<1>1. PICK i \in 1 .. Len(P) + 1, j \in 1 .. Len(Q) + 1, s \in 0 .. MaxShown : at = <<i, j, s>>
  BY PlaceParts
<1>2. Len(P) \in Nat /\ Len(Q) \in Nat /\ MaxShown \in Nat
  BY NormalLine, VerifyAssumption
<1>3. ASSUME ~ Ends(P, Q, i, j, s)
      PROVE  /\ i <= Len(P) => g[<<i + 1, j, s + 1>>] = h[<<i + 1, j, s + 1>>]
             /\ j <= Len(Q) => g[<<i, j + 1, s + 1>>] = h[<<i, j + 1, s + 1>>]
             /\ i <= Len(P) /\ j <= Len(Q) => g[<<i + 1, j + 1, s>>] = h[<<i + 1, j + 1, s>>]
  <2>1. s + 1 \in 0 .. MaxShown
    BY <1>2, <1>3 DEF Ends
  <2>2. ASSUME i <= Len(P)
        PROVE  g[<<i + 1, j, s + 1>>] = h[<<i + 1, j, s + 1>>]
    <3>1. <<i + 1, j, s + 1>> \in Places(P, Q)
      BY <1>2, <2>1, <2>2 DEF Places
    <3>2. Left(P, Q, <<i + 1, j, s + 1>>) < Left(P, Q, at)
      BY <1>1, <1>2, <2>2 DEF Left
    <3> QED
      BY <3>1, <3>2
  <2>3. ASSUME j <= Len(Q)
        PROVE  g[<<i, j + 1, s + 1>>] = h[<<i, j + 1, s + 1>>]
    <3>1. <<i, j + 1, s + 1>> \in Places(P, Q)
      BY <1>2, <2>1, <2>3 DEF Places
    <3>2. Left(P, Q, <<i, j + 1, s + 1>>) < Left(P, Q, at)
      BY <1>1, <1>2, <2>3 DEF Left
    <3> QED
      BY <3>1, <3>2
  <2>4. ASSUME i <= Len(P), j <= Len(Q)
        PROVE  g[<<i + 1, j + 1, s>>] = h[<<i + 1, j + 1, s>>]
    <3>1. <<i + 1, j + 1, s>> \in Places(P, Q)
      BY <1>2, <2>4 DEF Places
    <3>2. Left(P, Q, <<i + 1, j + 1, s>>) < Left(P, Q, at)
      BY <1>1, <1>2, <2>4 DEF Left
    <3> QED
      BY <3>1, <3>2
  <2> QED
    BY <2>2, <2>3, <2>4
<1>4. /\ i <= Len(P) => P[i].text \in Nat
      /\ j <= Len(Q) => Q[j].text \in Nat
  <2>1. /\ \A k \in 1 .. Len(P) : P[k].text \in Nat
        /\ \A k \in 1 .. Len(Q) : Q[k].text \in Nat
    BY NormalLine
  <2> QED
    BY <1>2, <2>1
<1> DEFINE Rg == Body(P, Q, g, <<i, j, s>>)
           Rh == Body(P, Q, h, <<i, j, s>>)
           X(f) == <<[only |-> "actual", line |-> P[i]]>> \o f[<<i + 1, j, s + 1>>]
           Y(f) == <<[only |-> "expected", line |-> Q[j]]>> \o f[<<i, j + 1, s + 1>>]
           Z(f) == f[<<i + 1, j + 1, s>>]
<1>5. \/ Ends(P, Q, i, j, s) /\ Rg = <<>>
      \/ ~ Ends(P, Q, i, j, s) /\ ShowsActual(P, Q, i, j) /\ Rg = X(g)
      \/ ~ Ends(P, Q, i, j, s) /\ ShowsExpected(P, Q, i, j) /\ Rg = Y(g)
      \/ ~ Ends(P, Q, i, j, s) /\ i <= Len(P) /\ j <= Len(Q) /\ P[i].text = Q[j].text /\ Rg = Z(g)
  <2>1. Outcome(P, Q, g, i, j, s, Body(P, Q, g, <<i, j, s>>))
    BY Round
  <2> QED
    BY <2>1, Zenon DEF Outcome
<1>6. \/ Ends(P, Q, i, j, s) /\ Rh = <<>>
      \/ ~ Ends(P, Q, i, j, s) /\ ShowsActual(P, Q, i, j) /\ Rh = X(h)
      \/ ~ Ends(P, Q, i, j, s) /\ ShowsExpected(P, Q, i, j) /\ Rh = Y(h)
      \/ ~ Ends(P, Q, i, j, s) /\ i <= Len(P) /\ j <= Len(Q) /\ P[i].text = Q[j].text /\ Rh = Z(h)
  <2>1. Outcome(P, Q, h, i, j, s, Body(P, Q, h, <<i, j, s>>))
    BY Round
  <2> QED
    BY <2>1, Zenon DEF Outcome
<1>7. ASSUME ~ Ends(P, Q, i, j, s)
      PROVE  /\ i <= Len(P) => X(g) = X(h)
             /\ j <= Len(Q) => Y(g) = Y(h)
             /\ i <= Len(P) /\ j <= Len(Q) => Z(g) = Z(h)
  BY <1>3, <1>7, Zenon
<1>8. /\ ~ (ShowsActual(P, Q, i, j) /\ ShowsExpected(P, Q, i, j))
      /\ i <= Len(P) /\ j <= Len(Q) /\ P[i].text = Q[j].text =>
           ~ ShowsActual(P, Q, i, j) /\ ~ ShowsExpected(P, Q, i, j)
      /\ ShowsActual(P, Q, i, j) => i <= Len(P)
      /\ ShowsExpected(P, Q, i, j) => j <= Len(Q)
  BY <1>4 DEF ShowsActual, ShowsExpected
<1> HIDE DEF Rg, Rh, X, Y, Z
<1>9. Rg = Rh
  <2>1. CASE Ends(P, Q, i, j, s)
    BY <1>5, <1>6, <2>1, Zenon
  <2>2. CASE ~ Ends(P, Q, i, j, s)
    BY <1>5, <1>6, <1>7, <1>8, <2>2
  <2> QED
    BY <2>1, <2>2
<1> QED
  BY <1>1, <1>9, Zenon DEF Rg, Rh

LEMMA LoopExists ==
  ASSUME NEW P, NEW Q, Normal(P), Normal(Q)
  PROVE  \E g : Loop(P, Q, g)
<1> DEFINE L(at) == Left(P, Q, at)
           Solves(g, n) == \A at \in Places(P, Q) : L(at) <= n => g[at] = Body(P, Q, g, at)
           T == {n \in Nat : \E g : Solves(g, n)}
<1>1. \A at \in Places(P, Q) : L(at) \in Nat
  BY PlaceParts
<1>2. \A n \in Nat : \A g : (\A at \in Places(P, Q) : L(at) < n => g[at] = Body(P, Q, g, at)) =>
        \E h : Solves(h, n)
  <2> SUFFICES ASSUME NEW n \in Nat, NEW g,
                      \A at \in Places(P, Q) : L(at) < n => g[at] = Body(P, Q, g, at)
               PROVE  \E h : Solves(h, n)
    OBVIOUS
  <2> DEFINE h == [at \in Places(P, Q) |-> Body(P, Q, g, at)]
  <2>1. \A at \in Places(P, Q) : h[at] = Body(P, Q, g, at)
    BY Zenon
  <2> HIDE DEF h, L
  <2>2. \A at \in Places(P, Q) : L(at) < n => h[at] = g[at]
    BY <2>1, Zenon
  <2>3. ASSUME NEW at \in Places(P, Q), L(at) <= n
        PROVE  h[at] = Body(P, Q, h, at)
    <3>1. \A b \in Places(P, Q) : L(b) < L(at) => g[b] = h[b]
      BY <1>1, <2>2, <2>3
    <3>2. Body(P, Q, g, at) = Body(P, Q, h, at)
      BY <3>1, RoundAgrees, Zenon DEF L
    <3> QED
      BY <2>1, <3>2, Zenon
  <2> QED
    BY <2>3
<1>3. 0 \in T
  <2> HIDE DEF L
  <2>1. \A at \in Places(P, Q) : ~ (L(at) < 0)
    BY <1>1
  <2>2. \E h : Solves(h, 0)
    <3> HIDE DEF Solves
    <3> QED
      BY <1>2, <2>1
  <2> QED
    BY <2>2
<1>4. ASSUME NEW n \in Nat, n \in T
      PROVE  n + 1 \in T
  <2> HIDE DEF L
  <2>1. PICK g : Solves(g, n)
    BY <1>4
  <2>2. \A at \in Places(P, Q) : L(at) < n + 1 => g[at] = Body(P, Q, g, at)
    BY <1>1, <2>1
  <2>3. n + 1 \in Nat
    OBVIOUS
  <2>4. \E h : Solves(h, n + 1)
    <3> HIDE DEF Solves
    <3> QED
      BY <1>2, <2>2, <2>3, Zenon
  <2> QED
    BY <2>3, <2>4
<1>5. Len(P) \in Nat /\ Len(Q) \in Nat
  BY NormalLine
<1> DEFINE n == Len(P) + Len(Q)
<1>6. n \in T
  <2> HIDE DEF T
  <2>1. \A k \in Nat : k \in T
    BY <1>3, <1>4, NatInduct
  <2> QED
    BY <1>5, <2>1
<1>7. \A at \in Places(P, Q) : L(at) <= n
  BY <1>5, PlaceParts DEF Left
<1>8. PICK g : Solves(g, n)
  BY <1>6
<1>9. \A at \in Places(P, Q) : g[at] = Body(P, Q, g, at)
  <2> HIDE DEF n, L
  <2> QED
    BY <1>7, <1>8
<1> DEFINE h == [at \in Places(P, Q) |-> g[at]]
<1>10. ASSUME NEW at \in Places(P, Q)
       PROVE  h[at] = Body(P, Q, h, at)
  <2>1. \A b \in Places(P, Q) : g[b] = h[b]
    BY Zenon
  <2> HIDE DEF h
  <2>2. Body(P, Q, g, at) = Body(P, Q, h, at)
    BY <2>1, RoundAgrees, Zenon
  <2> QED
    BY <1>9, <2>1, <2>2, Zenon
<1>11. h = [at \in Places(P, Q) |-> h[at]]
  BY Zenon
<1>12. h = [at \in Places(P, Q) |-> Body(P, Q, h, at)]
  <2> HIDE DEF h
  <2> QED
    BY <1>10, <1>11
<1> QED
  BY <1>12, Zenon DEF Loop

---------------------------------------------------------------------------
(* How often a text is among the shown differences.                        *)
Shows == [only : {"actual", "expected"}, line : NormalLines]

ShownIn(R, side, text) == {k \in DOMAIN R : R[k].only = side /\ R[k].line.text = text}

LEMMA NothingShown ==
  ASSUME NEW side, NEW text
  PROVE  TimesShown(<<>>, side, text) = 0
<1>1. {k \in DOMAIN <<>> : <<>>[k].only = side /\ <<>>[k].line.text = text} = {}
  OBVIOUS
<1> QED
  BY <1>1, FS_EmptySet DEF TimesShown

LEMMA ShownNat ==
  ASSUME NEW R \in Seq(Shows), NEW side, NEW text
  PROVE  TimesShown(R, side, text) \in Nat
<1>1. IsFiniteSet(1 .. Len(R)) /\ DOMAIN R = 1 .. Len(R)
  BY FS_Interval
<1>2. ShownIn(R, side, text) \in SUBSET (1 .. Len(R))
  BY <1>1 DEF ShownIn
<1>3. IsFiniteSet(ShownIn(R, side, text))
  BY <1>1, <1>2, FS_Subset, Zenon
<1> QED
  BY <1>3, FS_CardinalityType, Zenon DEF TimesShown, ShownIn

One(d, side, text) == IF d.only = side /\ d.line.text = text THEN 1 ELSE 0

LEMMA ShownFirst ==
  ASSUME NEW d \in Shows, NEW R \in Seq(Shows)
  PROVE  /\ <<d>> \o R \in Seq(Shows) /\ Len(<<d>> \o R) = Len(R) + 1
         /\ \A side, text :
              TimesShown(<<d>> \o R, side, text) = TimesShown(R, side, text) + One(d, side, text)
<1> DEFINE M == <<d>> \o R
           n == Len(R)
<1>1. /\ M \in Seq(Shows) /\ n \in Nat /\ Len(M) = n + 1 /\ DOMAIN M = 1 .. n + 1
      /\ M[1] = d /\ \A k \in 1 .. n : M[k + 1] = R[k]
  <2>1. <<d>> \in Seq(Shows) /\ Len(<<d>>) = 1 /\ <<d>>[1] = d
    OBVIOUS
  <2>2. /\ M \in Seq(Shows) /\ Len(M) = 1 + n /\ n \in Nat
        /\ \A k \in 1 .. Len(M) : M[k] = IF k <= 1 THEN <<d>>[k] ELSE R[k - 1]
    BY <2>1, ConcatProperties
  <2> HIDE DEF M
  <2>3. DOMAIN M = 1 .. n + 1
    BY <2>2
  <2>4. M[1] = d
    BY <2>1, <2>2
  <2>5. ASSUME NEW k \in 1 .. n
        PROVE  M[k + 1] = R[k]
    <3>1. k + 1 \in 1 .. Len(M) /\ ~ (k + 1 <= 1) /\ (k + 1) - 1 = k
      BY <2>2
    <3> QED
      BY <2>2, <3>1
  <2> QED
    BY <2>2, <2>3, <2>4, <2>5
<1> HIDE DEF M
<1>2. ASSUME NEW side, NEW text
      PROVE  TimesShown(M, side, text) = TimesShown(R, side, text) + One(d, side, text)
  <2> DEFINE A == ShownIn(R, side, text)
             C == ShownIn(M, side, text)
             B == C \ {1}
             K == 2 .. n + 1
             o == [k \in 1 .. n |-> k + 1]
  <2>1. o \in Bijection(1 .. n, K)
    <3>1. o \in [1 .. n -> K] /\ \A k \in 1 .. n : o[k] = k + 1
      BY <1>1
    <3>2. \A t \in K : t - 1 \in 1 .. n /\ (t - 1) + 1 = t
      BY <1>1
    <3> HIDE DEF o, K
    <3>3. \A a, b \in 1 .. n : o[a] = o[b] => a = b
      BY <3>1
    <3>4. \A t \in K : \E k \in 1 .. n : o[k] = t
      BY <3>1, <3>2
    <3> QED
      BY <3>1, <3>3, <3>4, Zenon DEF Bijection, Injection, Surjection, IsInjective
  <2>2. A \subseteq 1 .. n /\ B \subseteq K
    BY <1>1 DEF ShownIn
  <2>3. \A k \in 1 .. n : k \in A <=> o[k] \in B
    <3> SUFFICES ASSUME NEW k \in 1 .. n
                 PROVE  k \in A <=> o[k] \in B
      OBVIOUS
    <3>1. o[k] = k + 1 /\ k + 1 # 1 /\ k + 1 \in DOMAIN M /\ k \in DOMAIN R /\ M[k + 1] = R[k]
      BY <1>1
    <3> QED
      BY <3>1 DEF ShownIn
  <2> HIDE DEF o, B, K
  <2>4. IsFiniteSet(A) /\ ExistsBijection(A, B)
    BY <1>1, <2>1, <2>2, <2>3, Carried
  <2>5. IsFiniteSet(B) /\ Cardinality(B) = Cardinality(A)
    BY <2>4, FS_Bijection
  <2>6. Cardinality(A) \in Nat
    BY <2>4, FS_CardinalityType, Zenon
  <2>7. 1 \notin B
    BY DEF B
  <2>8. 1 \in C <=> d.only = side /\ d.line.text = text
    BY <1>1 DEF ShownIn
  <2>9. Cardinality(C) = Cardinality(A) + One(d, side, text)
    <3>1. CASE 1 \in C
      <4>1. C = B \cup {1}
        BY <3>1 DEF B
      <4>2. Cardinality(B \cup {1}) = Cardinality(B) + 1
        BY <2>5, <2>7, FS_AddElement, Zenon
      <4> QED
        BY <2>5, <2>8, <3>1, <4>1, <4>2 DEF One
    <3>2. CASE 1 \notin C
      <4>1. C = B
        BY <3>2 DEF B
      <4> QED
        BY <2>5, <2>6, <2>8, <3>2, <4>1 DEF One
    <3> QED
      BY <3>1, <3>2
  <2> QED
    BY <2>9, Zenon DEF TimesShown, ShownIn
<1> QED
  BY <1>1, <1>2 DEF M

---------------------------------------------------------------------------
(* What the loop shows from i and j on, s differences shown so far.        *)
Over(m, n) == IF m > n THEN m - n ELSE 0

ShowsMore(P, Q, R, i, j, text) ==
  /\ TimesShown(R, "actual", text) <= Over(TimesFrom(P, i, text), TimesFrom(Q, j, text))
  /\ TimesShown(R, "expected", text) <= Over(TimesFrom(Q, j, text), TimesFrom(P, i, text))

ShowsAll(P, Q, R, i, j, text) ==
  /\ TimesShown(R, "actual", text) = Over(TimesFrom(P, i, text), TimesFrom(Q, j, text))
  /\ TimesShown(R, "expected", text) = Over(TimesFrom(Q, j, text), TimesFrom(P, i, text))

Right(P, Q, R, i, j, s) ==
  /\ R \in Seq(Shows)
  /\ Len(R) <= MaxShown - s
  /\ \A text \in Nat : ShowsMore(P, Q, R, i, j, text)
  /\ Len(R) = MaxShown - s \/ \A text \in Nat : ShowsAll(P, Q, R, i, j, text)

(* A line of actual that is not in expected any more.                      *)
LEMMA ActualShown ==
  ASSUME NEW P, NEW Q, Normal(P), Normal(Q), NEW i \in 1 .. Len(P), NEW j \in 1 .. Len(Q) + 1,
         NEW s \in Nat, NEW R, s < MaxShown, ShowsActual(P, Q, i, j),
         Right(P, Q, R, i + 1, j, s + 1)
  PROVE  Right(P, Q, <<[only |-> "actual", line |-> P[i]]>> \o R, i, j, s)
<1> DEFINE d == [only |-> "actual", line |-> P[i]]
           M == <<d>> \o R
<1>1. /\ Len(P) \in Nat /\ Len(Q) \in Nat /\ MaxShown \in Nat
      /\ P[i].text \in Nat /\ P[i] \in NormalLines
  <2>1. /\ Len(P) \in Nat /\ Len(Q) \in Nat /\ MaxShown \in Nat
        /\ P[i].text \in Nat
    BY NormalLine, VerifyAssumption
  <2>2. P \in Seq(NormalLines)
    BY DEF Normal
  <2>3. P[i] \in NormalLines
    BY <2>2
  <2> QED
    BY <2>1, <2>3
<1>2. d \in Shows /\ d.only = "actual" /\ d.line = P[i]
  BY <1>1 DEF Shows
<1> HIDE DEF d
<1>3. /\ R \in Seq(Shows) /\ Len(R) \in Nat /\ Len(R) <= MaxShown - (s + 1)
      /\ \A text \in Nat : ShowsMore(P, Q, R, i + 1, j, text)
      /\ Len(R) = MaxShown - (s + 1) \/ \A text \in Nat : ShowsAll(P, Q, R, i + 1, j, text)
  BY DEF Right
<1>4. M \in Seq(Shows) /\ Len(M) = Len(R) + 1
  BY <1>2, <1>3, ShownFirst
<1>5. ASSUME NEW text \in Nat
      PROVE  /\ ShowsMore(P, Q, M, i, j, text)
             /\ ShowsAll(P, Q, R, i + 1, j, text) => ShowsAll(P, Q, M, i, j, text)
  <2> DEFINE a == TimesShown(R, "actual", text)
             e == TimesShown(R, "expected", text)
             p == TimesFrom(P, i + 1, text)
             q == TimesFrom(Q, j, text)
             h == Here(P, i, text)
  <2>1. a \in Nat /\ e \in Nat /\ p \in Nat /\ q \in Nat /\ h \in Nat
    BY <1>1, <1>3, ShownNat, FromFinite DEF Here
  <2>2. TimesShown(M, "actual", text) = a + h /\ TimesShown(M, "expected", text) = e
    <3>1. TimesShown(M, "actual", text) = a + One(d, "actual", text)
      BY <1>2, <1>3, ShownFirst
    <3>2. TimesShown(M, "expected", text) = e + One(d, "expected", text)
      BY <1>2, <1>3, ShownFirst
    <3>3. One(d, "actual", text) = h /\ One(d, "expected", text) = 0
      BY <1>2 DEF One, Here
    <3> HIDE DEF a, e, h
    <3> QED
      BY <2>1, <3>1, <3>2, <3>3
  <2>3. TimesFrom(P, i, text) = p + h
    BY FromNext
  <2>4. h # 0 => q = 0
    <3> SUFFICES ASSUME P[i].text = text
                 PROVE  q = 0
      BY DEF Here
    <3>1. j <= Len(Q) => text < Q[j].text
      BY DEF ShowsActual
    <3> QED
      BY <3>1, FromNone
  <2>5. a <= Over(p, q) /\ e <= Over(q, p)
    BY <1>3 DEF ShowsMore
  <2>6. ShowsAll(P, Q, R, i + 1, j, text) => a = Over(p, q) /\ e = Over(q, p)
    BY DEF ShowsAll
  <2> HIDE DEF a, e, p, q, h
  <2>7. a + h <= Over(p + h, q) /\ e <= Over(q, p + h)
    BY <2>1, <2>4, <2>5 DEF Over
  <2>8. a = Over(p, q) /\ e = Over(q, p) => a + h = Over(p + h, q) /\ e = Over(q, p + h)
    BY <2>1, <2>4 DEF Over
  <2>9. ShowsMore(P, Q, M, i, j, text)
    BY <2>2, <2>3, <2>7, Zenon DEF ShowsMore, q
  <2>10. a = Over(p, q) /\ e = Over(q, p) => ShowsAll(P, Q, M, i, j, text)
    BY <2>2, <2>3, <2>8, Zenon DEF ShowsAll, q
  <2> QED
    BY <2>6, <2>9, <2>10
<1> HIDE DEF M
<1>6. Right(P, Q, M, i, j, s)
  <2>1. Len(M) <= MaxShown - s /\ (Len(R) = MaxShown - (s + 1) => Len(M) = MaxShown - s)
    BY <1>1, <1>3, <1>4
  <2> QED
    BY <1>3, <1>4, <1>5, <2>1, Zenon DEF Right
<1> QED
  BY <1>6, Zenon DEF M, d

(* A line of expected that is not in actual any more.                      *)
LEMMA ExpectedShown ==
  ASSUME NEW P, NEW Q, Normal(P), Normal(Q), NEW i \in 1 .. Len(P) + 1, NEW j \in 1 .. Len(Q),
         NEW s \in Nat, NEW R, s < MaxShown, ShowsExpected(P, Q, i, j),
         Right(P, Q, R, i, j + 1, s + 1)
  PROVE  Right(P, Q, <<[only |-> "expected", line |-> Q[j]]>> \o R, i, j, s)
<1> DEFINE d == [only |-> "expected", line |-> Q[j]]
           M == <<d>> \o R
<1>1. /\ Len(P) \in Nat /\ Len(Q) \in Nat /\ MaxShown \in Nat
      /\ Q[j].text \in Nat /\ Q[j] \in NormalLines
  <2>1. /\ Len(P) \in Nat /\ Len(Q) \in Nat /\ MaxShown \in Nat
        /\ Q[j].text \in Nat
    BY NormalLine, VerifyAssumption
  <2>2. Q \in Seq(NormalLines)
    BY DEF Normal
  <2>3. Q[j] \in NormalLines
    BY <2>2
  <2> QED
    BY <2>1, <2>3
<1>2. d \in Shows /\ d.only = "expected" /\ d.line = Q[j]
  BY <1>1 DEF Shows
<1> HIDE DEF d
<1>3. /\ R \in Seq(Shows) /\ Len(R) \in Nat /\ Len(R) <= MaxShown - (s + 1)
      /\ \A text \in Nat : ShowsMore(P, Q, R, i, j + 1, text)
      /\ Len(R) = MaxShown - (s + 1) \/ \A text \in Nat : ShowsAll(P, Q, R, i, j + 1, text)
  BY DEF Right
<1>4. M \in Seq(Shows) /\ Len(M) = Len(R) + 1
  BY <1>2, <1>3, ShownFirst
<1>5. ASSUME NEW text \in Nat
      PROVE  /\ ShowsMore(P, Q, M, i, j, text)
             /\ ShowsAll(P, Q, R, i, j + 1, text) => ShowsAll(P, Q, M, i, j, text)
  <2> DEFINE a == TimesShown(R, "actual", text)
             e == TimesShown(R, "expected", text)
             p == TimesFrom(P, i, text)
             q == TimesFrom(Q, j + 1, text)
             h == Here(Q, j, text)
  <2>1. a \in Nat /\ e \in Nat /\ p \in Nat /\ q \in Nat /\ h \in Nat
    BY <1>1, <1>3, ShownNat, FromFinite DEF Here
  <2>2. TimesShown(M, "actual", text) = a /\ TimesShown(M, "expected", text) = e + h
    <3>1. TimesShown(M, "actual", text) = a + One(d, "actual", text)
      BY <1>2, <1>3, ShownFirst
    <3>2. TimesShown(M, "expected", text) = e + One(d, "expected", text)
      BY <1>2, <1>3, ShownFirst
    <3>3. One(d, "actual", text) = 0 /\ One(d, "expected", text) = h
      BY <1>2 DEF One, Here
    <3> HIDE DEF a, e, h
    <3> QED
      BY <2>1, <3>1, <3>2, <3>3
  <2>3. TimesFrom(Q, j, text) = q + h
    BY FromNext
  <2>4. h # 0 => p = 0
    <3> SUFFICES ASSUME Q[j].text = text
                 PROVE  p = 0
      BY DEF Here
    <3>1. i <= Len(P) => text < P[i].text
      BY DEF ShowsExpected
    <3> QED
      BY <3>1, FromNone
  <2>5. a <= Over(p, q) /\ e <= Over(q, p)
    BY <1>3 DEF ShowsMore
  <2>6. ShowsAll(P, Q, R, i, j + 1, text) => a = Over(p, q) /\ e = Over(q, p)
    BY DEF ShowsAll
  <2> HIDE DEF a, e, p, q, h
  <2>7. a <= Over(p, q + h) /\ e + h <= Over(q + h, p)
    BY <2>1, <2>4, <2>5 DEF Over
  <2>8. a = Over(p, q) /\ e = Over(q, p) => a = Over(p, q + h) /\ e + h = Over(q + h, p)
    BY <2>1, <2>4 DEF Over
  <2>9. ShowsMore(P, Q, M, i, j, text)
    BY <2>2, <2>3, <2>7, Zenon DEF ShowsMore, p
  <2>10. a = Over(p, q) /\ e = Over(q, p) => ShowsAll(P, Q, M, i, j, text)
    BY <2>2, <2>3, <2>8, Zenon DEF ShowsAll, p
  <2> QED
    BY <2>6, <2>9, <2>10
<1> HIDE DEF M
<1>6. Right(P, Q, M, i, j, s)
  <2>1. Len(M) <= MaxShown - s /\ (Len(R) = MaxShown - (s + 1) => Len(M) = MaxShown - s)
    BY <1>1, <1>3, <1>4
  <2> QED
    BY <1>3, <1>4, <1>5, <2>1, Zenon DEF Right
<1> QED
  BY <1>6, Zenon DEF M, d

(* A line both have.                                                       *)
LEMMA BothPassed ==
  ASSUME NEW P, NEW Q, Normal(P), Normal(Q), NEW i \in 1 .. Len(P), NEW j \in 1 .. Len(Q),
         NEW s, NEW R, P[i].text = Q[j].text, Right(P, Q, R, i + 1, j + 1, s)
  PROVE  Right(P, Q, R, i, j, s)
<1>1. Len(P) \in Nat /\ Len(Q) \in Nat
  BY NormalLine
<1>2. ASSUME NEW text \in Nat
      PROVE  /\ ShowsMore(P, Q, R, i + 1, j + 1, text) => ShowsMore(P, Q, R, i, j, text)
             /\ ShowsAll(P, Q, R, i + 1, j + 1, text) => ShowsAll(P, Q, R, i, j, text)
  <2> DEFINE p == TimesFrom(P, i + 1, text)
             q == TimesFrom(Q, j + 1, text)
             h == Here(P, i, text)
  <2>1. p \in Nat /\ q \in Nat /\ h \in Nat
    BY <1>1, FromFinite DEF Here
  <2>2. TimesFrom(P, i, text) = p + h
    BY FromNext
  <2>3. TimesFrom(Q, j, text) = q + h
    <3>1. Here(Q, j, text) = h
      BY DEF Here
    <3> QED
      BY <3>1, FromNext
  <2> HIDE DEF p, q, h
  <2>4. Over(p + h, q + h) = Over(p, q) /\ Over(q + h, p + h) = Over(q, p)
    BY <2>1 DEF Over
  <2> QED
    BY <2>2, <2>3, <2>4, Zenon DEF ShowsMore, ShowsAll, p, q
<1> QED
  BY <1>2, Zenon DEF Right

LEMMA EndShown ==
  ASSUME NEW P, NEW Q, Normal(P), Normal(Q), NEW i \in 1 .. Len(P) + 1, NEW j \in 1 .. Len(Q) + 1,
         NEW s \in 0 .. MaxShown, Ends(P, Q, i, j, s)
  PROVE  Right(P, Q, <<>>, i, j, s)
<1>1. /\ Len(P) \in Nat /\ Len(Q) \in Nat /\ MaxShown \in Nat
      /\ <<>> \in Seq(Shows) /\ Len(<<>>) = 0
  BY NormalLine, VerifyAssumption
<1>2. ASSUME NEW text \in Nat
      PROVE  ShowsMore(P, Q, <<>>, i, j, text)
  <2>1. TimesFrom(P, i, text) \in Nat /\ TimesFrom(Q, j, text) \in Nat
    BY FromFinite
  <2> QED
    BY <2>1, NothingShown DEF ShowsMore, Over
<1>3. CASE s = MaxShown
  BY <1>1, <1>2, <1>3 DEF Right
<1>4. CASE i > Len(P) /\ j > Len(Q)
  <2>1. ASSUME NEW text \in Nat
        PROVE  ShowsAll(P, Q, <<>>, i, j, text)
    <3>1. ~ (i <= Len(P)) /\ ~ (j <= Len(Q))
      BY <1>1, <1>4
    <3>2. TimesFrom(P, i, text) = 0 /\ TimesFrom(Q, j, text) = 0
      BY <3>1, FromNone
    <3> QED
      BY <3>2, NothingShown DEF ShowsAll, Over
  <2>2. Len(<<>>) <= MaxShown - s
    BY <1>1
  <2> QED
    BY <1>1, <1>2, <2>1, <2>2, Zenon DEF Right
<1> QED
  BY <1>3, <1>4 DEF Ends

RightAt(P, Q, g, at) == Right(P, Q, g[at], at[1], at[2], at[3])

LEMMA RoundShows ==
  ASSUME NEW P, NEW Q, Normal(P), Normal(Q), NEW at \in Places(P, Q),
         NEW g, g[at] = Body(P, Q, g, at),
         \A b \in Places(P, Q) : Left(P, Q, b) < Left(P, Q, at) => RightAt(P, Q, g, b)
  PROVE  RightAt(P, Q, g, at)
<1>1. PICK i \in 1 .. Len(P) + 1, j \in 1 .. Len(Q) + 1, s \in 0 .. MaxShown : at = <<i, j, s>>
  BY PlaceParts
<1>2. /\ Len(P) \in Nat /\ Len(Q) \in Nat /\ MaxShown \in Nat
  BY NormalLine, VerifyAssumption
<1> DEFINE R == g[<<i, j, s>>]
<1>3. Outcome(P, Q, g, i, j, s, R)
  <2>1. Outcome(P, Q, g, i, j, s, Body(P, Q, g, <<i, j, s>>))
    BY Round
  <2> QED
    BY <1>1, <2>1
<1>4. ASSUME NEW k \in 1 .. Len(P) + 1, NEW l \in 1 .. Len(Q) + 1, NEW r \in 0 .. MaxShown,
             k + l > i + j
      PROVE  Right(P, Q, g[<<k, l, r>>], k, l, r)
  <2>1. <<k, l, r>> \in Places(P, Q)
    BY DEF Places
  <2>2. Left(P, Q, <<k, l, r>>) < Left(P, Q, at)
    BY <1>1, <1>2, <1>4 DEF Left
  <2>3. RightAt(P, Q, g, <<k, l, r>>)
    BY <2>1, <2>2, Zenon
  <2> QED
    BY <2>3 DEF RightAt
<1>5. Right(P, Q, R, i, j, s)
  <2>1. CASE Ends(P, Q, i, j, s) /\ R = <<>>
    BY <2>1, EndShown
  <2>2. CASE /\ ~ Ends(P, Q, i, j, s) /\ ShowsActual(P, Q, i, j)
             /\ R = <<[only |-> "actual", line |-> P[i]]>> \o g[<<i + 1, j, s + 1>>]
    <3>1. /\ s \in Nat /\ s < MaxShown /\ i \in 1 .. Len(P) /\ i + 1 \in 1 .. Len(P) + 1
          /\ s + 1 \in 0 .. MaxShown /\ (i + 1) + j > i + j
      <4>1. s # MaxShown /\ i <= Len(P)
        BY <2>2, Zenon DEF Ends, ShowsActual
      <4> QED
        BY <1>2, <4>1
    <3>2. Right(P, Q, g[<<i + 1, j, s + 1>>], i + 1, j, s + 1)
      BY <1>4, <3>1
    <3> HIDE DEF R
    <3> QED
      BY <2>2, <3>1, <3>2, ActualShown
  <2>3. CASE /\ ~ Ends(P, Q, i, j, s) /\ ShowsExpected(P, Q, i, j)
             /\ R = <<[only |-> "expected", line |-> Q[j]]>> \o g[<<i, j + 1, s + 1>>]
    <3>1. /\ s \in Nat /\ s < MaxShown /\ j \in 1 .. Len(Q) /\ j + 1 \in 1 .. Len(Q) + 1
          /\ s + 1 \in 0 .. MaxShown /\ i + (j + 1) > i + j
      <4>1. s # MaxShown /\ j <= Len(Q)
        BY <2>3, Zenon DEF Ends, ShowsExpected
      <4> QED
        BY <1>2, <4>1
    <3>2. Right(P, Q, g[<<i, j + 1, s + 1>>], i, j + 1, s + 1)
      BY <1>4, <3>1
    <3> HIDE DEF R
    <3> QED
      BY <2>3, <3>1, <3>2, ExpectedShown
  <2>4. CASE /\ ~ Ends(P, Q, i, j, s) /\ i <= Len(P) /\ j <= Len(Q)
             /\ P[i].text = Q[j].text
             /\ R = g[<<i + 1, j + 1, s>>]
    <3>1. /\ i \in 1 .. Len(P) /\ i + 1 \in 1 .. Len(P) + 1
          /\ j \in 1 .. Len(Q) /\ j + 1 \in 1 .. Len(Q) + 1 /\ (i + 1) + (j + 1) > i + j
      BY <1>2, <2>4
    <3>2. Right(P, Q, g[<<i + 1, j + 1, s>>], i + 1, j + 1, s)
      BY <1>4, <3>1
    <3> HIDE DEF R
    <3> QED
      BY <2>4, <3>1, <3>2, BothPassed
  <2> HIDE DEF R
  <2> QED
    BY <1>3, <2>1, <2>2, <2>3, <2>4, Zenon DEF Outcome
<1> QED
  BY <1>1, <1>5 DEF RightAt

LEMMA DifferencesRight ==
  ASSUME NEW P, NEW Q, Normal(P), Normal(Q)
  PROVE  Right(P, Q, Differences(P, Q), 1, 1, 0)
<1> DEFINE g == CHOOSE f : Loop(P, Q, f)
<1>1. Loop(P, Q, g)
  BY LoopExists, Zenon
<1>2. Differences(P, Q) = g[<<1, 1, 0>>]
  BY DifferencesLoop
<1> HIDE DEF g
<1>3. \A at \in Places(P, Q) : g[at] = Body(P, Q, g, at)
  BY <1>1, Zenon DEF Loop
<1> DEFINE T == {n \in Nat : \A at \in Places(P, Q) : Left(P, Q, at) < n => RightAt(P, Q, g, at)}
<1>4. \A at \in Places(P, Q) : Left(P, Q, at) \in Nat
  BY PlaceParts
<1>5. 0 \in T
  BY <1>4
<1>6. ASSUME NEW n \in Nat, n \in T
      PROVE  n + 1 \in T
  <2> SUFFICES ASSUME NEW at \in Places(P, Q), Left(P, Q, at) < n + 1
               PROVE  RightAt(P, Q, g, at)
    OBVIOUS
  <2>1. \A b \in Places(P, Q) : Left(P, Q, b) < Left(P, Q, at) => Left(P, Q, b) < n
    BY <1>4
  <2>2. \A b \in Places(P, Q) : Left(P, Q, b) < Left(P, Q, at) => RightAt(P, Q, g, b)
    BY <1>6, <2>1
  <2> QED
    BY <1>3, <2>2, RoundShows
<1>7. Len(P) \in Nat /\ Len(Q) \in Nat /\ MaxShown \in Nat
  BY NormalLine, VerifyAssumption
<1>8. /\ <<1, 1, 0>> \in Places(P, Q)
      /\ Left(P, Q, <<1, 1, 0>>) < Len(P) + Len(Q) + 1
      /\ Len(P) + Len(Q) + 1 \in Nat
  BY <1>7 DEF Places, Left
<1>9. Len(P) + Len(Q) + 1 \in T
  <2> HIDE DEF T
  <2>1. \A n \in Nat : n \in T
    BY <1>5, <1>6, NatInduct
  <2> QED
    BY <1>8, <2>1
<1>10. RightAt(P, Q, g, <<1, 1, 0>>)
  BY <1>8, <1>9
<1> QED
  BY <1>2, <1>10 DEF RightAt

(* What is shown is what one file has more often than the other, and all   *)
(* of it where there is room.                                              *)
LEMMA DifferencesShown ==
  ASSUME NEW actual \in Seq(RawLines), NEW exp \in Seq(RawLines)
  PROVE  ShowsDifference(actual, exp)
<1> DEFINE P == NormalizedLines(actual)
           Q == NormalizedLines(exp)
           R == Shown(actual, exp)
<1>1. /\ Normal(P) /\ Normal(Q)
      /\ \A text : text # 0 => Times(P, text) = Times(actual, text)
      /\ \A text : text # 0 => Times(Q, text) = Times(exp, text)
  BY Normalized DEF Normal
<1>2. R = Differences(P, Q)
  BY DEF Shown
<1> HIDE DEF P, Q, R
<1>3. Right(P, Q, R, 1, 1, 0)
  BY <1>1, <1>2, DifferencesRight
<1>4. MaxShown \in Nat /\ MaxShown - 0 = MaxShown
  BY VerifyAssumption
<1> DEFINE All == Texts(actual) \cup Texts(exp) \cup {R[k].line.text : k \in DOMAIN R}
<1>5. \A text \in All : text \in Nat /\ text # 0
  <2>1. ASSUME NEW file \in Seq(RawLines), NEW i \in DOMAIN file
        PROVE  file[i].text \in Nat
    <3>1. file[i] \in RawLines
      OBVIOUS
    <3> QED
      BY <3>1 DEF RawLines
  <2>2. \A file \in Seq(RawLines) : Texts(file) \subseteq Nat \ {0}
    BY <2>1 DEF Texts
  <2>3. \A k \in DOMAIN R : R[k].line.text \in Nat \ {0}
    <3>1. \A k \in DOMAIN R : R[k] \in Shows
      BY <1>3 DEF Right
    <3>2. \A x \in Shows : x.line \in NormalLines
      BY DEF Shows
    <3>3. \A x \in NormalLines : x.text \in Nat \ {0}
      BY DEF NormalLines
    <3> QED
      BY <3>1, <3>2, <3>3
  <2> QED
    BY <2>2, <2>3
<1>6. ASSUME NEW text \in All
      PROVE  LET a == TimesShown(R, "actual", text)
                 e == TimesShown(R, "expected", text)
             IN  /\ a <= Surplus(actual, exp, text) /\ e <= Surplus(exp, actual, text)
                 /\ \/ Len(R) = MaxShown
                    \/ a = Surplus(actual, exp, text) /\ e = Surplus(exp, actual, text)
  <2>1. text \in Nat /\ text # 0
    BY <1>5
  <2>2. TimesFrom(P, 1, text) = Times(actual, text) /\ TimesFrom(Q, 1, text) = Times(exp, text)
    BY <1>1, <2>1, FromFirst, Zenon
  <2>3. /\ Over(TimesFrom(P, 1, text), TimesFrom(Q, 1, text)) = Surplus(actual, exp, text)
        /\ Over(TimesFrom(Q, 1, text), TimesFrom(P, 1, text)) = Surplus(exp, actual, text)
    BY <2>2, Zenon DEF Over, Surplus
  <2>4. /\ ShowsMore(P, Q, R, 1, 1, text)
        /\ Len(R) = MaxShown \/ ShowsAll(P, Q, R, 1, 1, text)
    BY <1>3, <1>4, <2>1, Zenon DEF Right
  <2> QED
    BY <2>3, <2>4, Zenon DEF ShowsMore, ShowsAll
<1> QED
  BY <1>6, Zenon DEF ShowsDifference, R

---------------------------------------------------------------------------
(* A measurement that counts: the program wrote the output, and it is      *)
(* right.                                                                  *)
Good == [own |-> TRUE, right |-> TRUE]

TypeTool ==
  /\ stage \in {"idle", "delete", "run", "verify", "append"}
  /\ programs \in 1 .. 2 /\ turn \in 1 .. 2
  /\ expected \in Expecteds /\ output \in Outputs \cup {Absent}
  /\ stage = "verify" => own = TRUE

(* The programs are measured in turn, all as often as was asked for.       *)
InTurn ==
  /\ times \in [1 .. 2 -> Seq({Good})]
  /\ stage # "idle" => turn <= programs
  /\ stage \in {"delete", "run", "verify"} =>
       /\ Len(times[programs]) < Runs
       /\ Len(times[1]) = Len(times[programs]) + (turn - 1)
  /\ stage = "append" => \A p \in 1 .. programs : Len(times[p]) = Runs

Founded ==
  /\ evidence \in Seq([program : 1 .. 2, times : Seq({Good})])
  /\ Len(evidence) = line
  /\ \A n \in 1 .. line : Len(evidence[n].times) = Runs

ToolInv == TypeTool /\ InTurn /\ Founded

LEMMA ToolInit == BenchInit => ToolInv
<1> SUFFICES ASSUME BenchInit
             PROVE  ToolInv
  OBVIOUS
<1>1. TypeTool
  BY DEF BenchInit, TypeTool
<1>2. InTurn
  BY DEF BenchInit, InTurn
<1>3. Founded
  BY DEF BenchInit, Init, Founded
<1> QED
  BY <1>1, <1>2, <1>3 DEF ToolInv

(* The one step that adds a measurement.                                   *)
LEMMA VerifiedKeeps ==
  ASSUME ToolInv, RunVerified
  PROVE  ToolInv'
<1> USE BenchAssumption
<1>1. /\ stage = "verify" /\ output # Absent /\ Accepts(output, expected)
      /\ times' = [times EXCEPT ![turn] =
           Append(@, [own |-> own, right |-> SameLines(output, expected)])]
      /\ stage' = IF Measured THEN "append" ELSE "delete"
      /\ turn' = NextTurn
      /\ UNCHANGED <<line, programs, expected, output, own, evidence>>
  BY DEF RunVerified, vars
<1>2. [own |-> own, right |-> SameLines(output, expected)] = Good
  <2>1. own = TRUE /\ output \in Outputs /\ expected \in Expecteds
    BY <1>1 DEF ToolInv, TypeTool
  <2>2. output \in Seq(RawLines) /\ expected \in Seq(RawLines)
    BY <2>1
  <2>3. SameLines(output, expected)
    BY <1>1, <2>2, AcceptsExactly
  <2>4. SameLines(output, expected) = TRUE
    BY <2>3 DEF SameLines
  <2> QED
    BY <2>1, <2>4, Zenon DEF Good
<1>3. /\ turn \in 1 .. 2 /\ programs \in 1 .. 2 /\ turn <= programs
      /\ times \in [1 .. 2 -> Seq({Good})]
      /\ Len(times[programs]) < Runs
      /\ Len(times[1]) = Len(times[programs]) + (turn - 1)
  BY <1>1 DEF ToolInv, TypeTool, InTurn
<1> HIDE DEF Good
<1>4. times' = [times EXCEPT ![turn] = Append(times[turn], Good)]
  BY <1>1, <1>2, <1>3, Zenon
<1>5. times' \in [1 .. 2 -> Seq({Good})]
  BY <1>3, <1>4
<1>6. /\ Len(times'[turn]) = Len(times[turn]) + 1
      /\ \A p \in 1 .. 2 : p # turn => times'[p] = times[p]
      /\ \A p \in 1 .. 2 : Len(times[p]) \in Nat
  BY <1>3, <1>4
<1>7. TypeTool'
  BY <1>1, <1>3 DEF ToolInv, TypeTool, NextTurn
<1>8. ASSUME Measured
      PROVE  InTurn'
  <2>1. turn = programs /\ Len(times[turn]) + 1 = Runs /\ turn' = 1 /\ stage' = "append"
    BY <1>1, <1>3, <1>8 DEF Measured, NextTurn
  <2>2. \A p \in 1 .. programs : Len(times'[p]) = Runs
    BY <1>3, <1>6, <2>1
  <2> QED
    BY <1>1, <1>3, <1>5, <2>1, <2>2 DEF InTurn
<1>9. ASSUME ~ Measured
      PROVE  InTurn'
  <2>1. stage' = "delete"
    BY <1>1, <1>9
  <2>2. CASE turn < programs
    <3>1. turn = 1 /\ programs = 2 /\ turn' = 2
      BY <1>1, <1>3, <2>2 DEF NextTurn
    <3>2. times'[2] = times[2] /\ Len(times'[1]) = Len(times[1]) + 1
      BY <1>6, <3>1
    <3> QED
      BY <1>1, <1>3, <1>5, <2>1, <3>1, <3>2 DEF InTurn
  <2>3. CASE turn = programs
    <3>1. Len(times[turn]) + 1 # Runs /\ turn' = 1
      BY <1>1, <1>3, <1>9, <2>3 DEF Measured, NextTurn
    <3> QED
      BY <1>1, <1>3, <1>5, <1>6, <2>1, <2>3, <3>1 DEF InTurn
  <2> QED
    BY <1>3, <2>2, <2>3
<1>10. Founded'
  BY <1>1 DEF ToolInv, Founded
<1> QED
  BY <1>7, <1>8, <1>9, <1>10 DEF ToolInv

(* The one step that adds a line's evidence.                               *)
LEMMA AppendReadKeeps ==
  ASSUME ToolInv, LogInv, AppendRead
  PROVE  ToolInv'
<1>1. /\ stage = "append" /\ line' = line + 1
      /\ evidence' = Append(evidence, [program |-> turn, times |-> times[turn]])
      /\ UNCHANGED <<stage, programs, turn, expected, output, own, times>>
  BY DEF AppendRead, Read
<1>2. TypeTool' /\ InTurn'
  BY <1>1 DEF ToolInv, TypeTool, InTurn
<1> DEFINE e == [program |-> turn, times |-> times[turn]]
<1>3. e \in [program : 1 .. 2, times : Seq({Good})] /\ Len(e.times) = Runs
  BY <1>1 DEF ToolInv, TypeTool, InTurn
<1>4. /\ line \in Nat /\ Len(evidence) = line
      /\ evidence \in Seq([program : 1 .. 2, times : Seq({Good})])
      /\ \A n \in 1 .. line : Len(evidence[n].times) = Runs
  BY DEF ToolInv, Founded, LogInv, TypeLog
<1> HIDE DEF e
<1>5. evidence' = Append(evidence, e)
  BY <1>1 DEF e
<1>6. \A n \in 1 .. line + 1 : IF n = line + 1 THEN evidence'[n] = e
                                               ELSE evidence'[n] = evidence[n]
  BY <1>3, <1>4, <1>5
<1>7. \A n \in 1 .. line + 1 : Len(evidence'[n].times) = Runs
  BY <1>3, <1>4, <1>6
<1>8. Founded'
  BY <1>1, <1>3, <1>4, <1>5, <1>7 DEF Founded
<1> QED
  BY <1>2, <1>8 DEF ToolInv

LEMMA ToolStep ==
  ASSUME ToolInv, LogInv, [BenchNext]_benchVars
  PROVE  ToolInv'
<1> USE BenchAssumption DEF ToolInv, TypeTool, InTurn, Founded
<1>1. CASE Start
  BY <1>1 DEF Start, vars
<1>2. CASE Delete
  BY <1>2 DEF Delete, vars
<1>3. CASE RunSucceeds
  BY <1>3 DEF RunSucceeds, vars
<1>4. CASE RunFails
  BY <1>4 DEF RunFails, vars
<1>5. CASE RunVerified
  BY <1>5, VerifiedKeeps
<1>6. CASE RunRejected
  BY <1>6 DEF RunRejected, vars
<1>7. CASE AppendRead
  BY <1>7, AppendReadKeeps
<1>8. CASE AppendWrites
  BY <1>8 DEF AppendWrites, Create, Write, toolVars
<1>9. CASE AppendReturns
  BY <1>9 DEF AppendReturns, Return, NextTurn
<1>10. CASE AppendDies
  BY <1>10 DEF AppendDies, Dies
<1>11. CASE Stops
  BY <1>11 DEF Stops, vars
<1>12. CASE UNCHANGED benchVars
  BY <1>12 DEF benchVars, toolVars, vars
<1> QED
  BY <1>1, <1>2, <1>3, <1>4, <1>5, <1>6, <1>7, <1>8, <1>9, <1>10, <1>11, <1>12
  DEF BenchNext

LEMMA ToolCorrect == BenchSpec => []ToolInv
<1>1. BenchInit => ToolInv
  BY ToolInit
<1>2. ToolInv /\ LogInv /\ [BenchNext]_benchVars => ToolInv'
  BY ToolStep
<1> QED
  BY <1>1, <1>2, LogCorrect, Refines, PTL DEF BenchSpec

(* No line reaches the log but on measurements of outputs that the program *)
(* itself wrote and that were right (tools/bench.zig 146-161, 198-215).    *)
THEOREM VerifiedCorrect == BenchSpec => []OnlyVerified
<1>1. ToolInv /\ LogInv => OnlyVerified
  <2> SUFFICES ASSUME ToolInv, LogInv, NEW n \in {piece[1] : piece \in ToSet(log)}
               PROVE  /\ Len(evidence[n].times) = Runs
                      /\ \A i \in 1 .. Runs :
                           evidence[n].times[i].own /\ evidence[n].times[i].right
    BY DEF OnlyVerified
  <2>1. n \in 1 .. line
    <3>1. PICK i \in 1 .. Len(log) : n = log[i][1]
      BY DEF ToSet, LogInv, TypeLog
    <3>2. log[i] \in Pieces /\ log[i][1] <= line /\ line \in Nat
      BY DEF LogInv, TypeLog, InOrder, Below
    <3> QED
      BY <3>1, <3>2 DEF Pieces, Lines
  <2>2. Len(evidence[n].times) = Runs /\ evidence[n].times \in Seq({Good})
    <3>1. n \in 1 .. Len(evidence) /\ Len(evidence[n].times) = Runs
      BY <2>1 DEF ToolInv, Founded
    <3> DEFINE R == [program : 1 .. 2, times : Seq({Good})]
    <3>2. evidence \in Seq(R)
      BY DEF ToolInv, Founded
    <3> HIDE DEF R
    <3>3. evidence[n] \in R
      BY <3>1, <3>2
    <3> QED
      BY <3>1, <3>3 DEF R
  <2>3. \A i \in 1 .. Runs : evidence[n].times[i] = Good
    BY <2>2
  <2>4. Good.own = TRUE /\ Good.right = TRUE
    BY DEF Good
  <2> QED
    BY <2>2, <2>3, <2>4, Zenon
<1> QED
  BY <1>1, ToolCorrect, LogCorrect, Refines, PTL

(* The verifier accepts exactly the outputs that have each line as often   *)
(* as expected, and shows of any other only differences there are: all of  *)
(* them where there is room (tools/verify.zig 11-24, 38-69).                     *)
THEOREM VerdictCorrect == BenchSpec => []VerdictRight
<1>1. ToolInv => VerdictRight
  <2> SUFFICES ASSUME ToolInv, output # Absent
               PROVE  /\ Accepts(output, expected) <=> SameLines(output, expected)
                      /\ ShowsDifference(output, expected)
    BY DEF VerdictRight
  <2>1. output \in Outputs /\ expected \in Expecteds
    BY DEF ToolInv, TypeTool
  <2>2. output \in Seq(RawLines) /\ expected \in Seq(RawLines)
    BY <2>1, BenchAssumption
  <2> QED
    BY <2>2, AcceptsExactly, DifferencesShown
<1> QED
  BY <1>1, ToolCorrect, PTL
=============================================================================
