-------------------------- MODULE Versions_proofs --------------------------
(***************************************************************************)
(* Proofs about whole runs of the programs 00 to 26 (Versions), for every  *)
(* input the contest allows, every number of threads, and every way to     *)
(* split the rows, to keep the sums and to order the channels.             *)
(*                                                                         *)
(* Every context is, at every step, the summary of a set of rows of the    *)
(* input: a worker's call adds the rows of its share, a merge unites two   *)
(* disjoint sets.  A call that failed unnoticed leaves rows out of the     *)
(* set, and never counts one twice.                                        *)
(***************************************************************************)
EXTENDS Versions, FiniteSetTheorems, TLAPS

(* The lemmas on sums, folds and joins need nothing of Ctx, whose tables   *)
(* may be any.                                                             *)
Lib == INSTANCE Shared_proofs WITH Channels <- {}, Months <- {}, Word <- 1,
         TableSize <- 1, MaxChannels <- 1, Fprint <- <<>>, Long <- {}

LEMMA LibHolds == Lib!SizesAssumption /\ Lib!PrintAssumption
<1>1. IsFiniteSet({}) /\ Cardinality({}) = 0
  BY FS_EmptySet
<1>2. Lib!IsFiniteSet({}) /\ Lib!Cardinality({}) = 0
  BY <1>1, Zenon DEF Cardinality, Lib!Cardinality, IsFiniteSet, Lib!IsFiniteSet
<1> QED
  BY <1>2 DEF Lib!SizesAssumption, Lib!PrintAssumption

LEMMA LibSame ==
  /\ \A S : IsFiniteSet(S) <=> Lib!IsFiniteSet(S)
  /\ \A f, S : SumFunctionOnSet(f, S) = Lib!SumFunctionOnSet(f, S)
  /\ \A s : FlattenSeq(s) = Lib!FlattenSeq(s)
  /\ \A f : Range(f) = Lib!Range(f) /\ (IsInjective(f) <=> Lib!IsInjective(f))
<1>1. \A S : IsFiniteSet(S) <=> Lib!IsFiniteSet(S)
  BY Zenon DEF IsFiniteSet, Lib!IsFiniteSet
<1>2. \A f, S : SumFunctionOnSet(f, S) = Lib!SumFunctionOnSet(f, S)
  BY Zenon DEF SumFunctionOnSet, Lib!SumFunctionOnSet, FoldFunctionOnSet, Lib!FoldFunctionOnSet,
     MapThenFoldSet, Lib!MapThenFoldSet
<1>3. \A s : FlattenSeq(s) = Lib!FlattenSeq(s)
  BY Zenon DEF FlattenSeq, Lib!FlattenSeq
<1>4. \A f : Range(f) = Lib!Range(f) /\ (IsInjective(f) <=> Lib!IsInjective(f))
  BY Zenon DEF Range, Lib!Range, IsInjective, Lib!IsInjective
<1> QED
  BY <1>1, <1>2, <1>3, <1>4

LEMMA LeastNat ==
  ASSUME NEW T, T \subseteq Nat, T # {}
  PROVE  \E n \in T : \A k \in T : n <= k
BY LibHolds, Lib!LeastNat

LEMMA NatInduct ==
  ASSUME NEW T, 0 \in T, \A n \in Nat : n \in T => n + 1 \in T
  PROVE  \A n \in Nat : n \in T
BY LibHolds, Lib!NatInduct, Zenon

LEMMA SumEmpty ==
  ASSUME NEW f
  PROVE  SumFunctionOnSet(f, {}) = 0
BY LibHolds, LibSame, Lib!SumEmpty, Zenon

LEMMA SumNat ==
  ASSUME NEW f, NEW S, IsFiniteSet(S), \A x \in S : f[x] \in Nat
  PROVE  /\ SumFunctionOnSet(f, S) \in Nat
         /\ \A y \in S : f[y] <= SumFunctionOnSet(f, S)
<1>1. Lib!IsFiniteSet(S)
  BY LibSame, Zenon
<1>2. Lib!SumFunctionOnSet(f, S) \in Nat /\ \A y \in S : f[y] <= Lib!SumFunctionOnSet(f, S)
  BY <1>1, LibHolds, Lib!SumNat
<1> QED
  BY <1>2, LibSame, Zenon

LEMMA SumPut ==
  ASSUME NEW f, NEW S, IsFiniteSet(S), NEW y, y \notin S, \A x \in S \cup {y} : f[x] \in Nat
  PROVE  SumFunctionOnSet(f, S \cup {y}) = f[y] + SumFunctionOnSet(f, S)
<1>1. Lib!IsFiniteSet(S)
  BY LibSame, Zenon
<1>2. Lib!SumFunctionOnSet(f, S \cup {y}) = f[y] + Lib!SumFunctionOnSet(f, S)
  BY <1>1, LibHolds, Lib!SumPut
<1> QED
  BY <1>2, LibSame, Zenon

LEMMA SumEqual ==
  ASSUME NEW f, NEW h, NEW S, IsFiniteSet(S),
         \A x \in S : f[x] \in Nat /\ f[x] = h[x]
  PROVE  SumFunctionOnSet(f, S) = SumFunctionOnSet(h, S)
<1>1. Lib!IsFiniteSet(S)
  BY LibSame, Zenon
<1>2. Lib!SumFunctionOnSet(f, S) = Lib!SumFunctionOnSet(h, S)
  BY <1>1, LibHolds, Lib!SumEqual
<1> QED
  BY <1>2, LibSame, Zenon

LEMMA FlattenOnce ==
  ASSUME NEW X, NEW seqs \in Seq(Seq(X)),
         \A i \in 1..Len(seqs) : IsInjective(seqs[i]),
         \A i, j \in 1..Len(seqs) : i # j => Range(seqs[i]) \cap Range(seqs[j]) = {}
  PROVE  /\ FlattenSeq(seqs) \in Seq(X)
         /\ Range(FlattenSeq(seqs)) = UNION {Range(seqs[i]) : i \in 1..Len(seqs)}
         /\ IsInjective(FlattenSeq(seqs))
<1>1. /\ \A i \in 1..Len(seqs) : Lib!IsInjective(seqs[i])
      /\ \A i, j \in 1..Len(seqs) : i # j => Lib!Range(seqs[i]) \cap Lib!Range(seqs[j]) = {}
  BY LibSame, Zenon
<1>2. /\ Lib!FlattenSeq(seqs) \in Seq(X)
      /\ Lib!Range(Lib!FlattenSeq(seqs)) = UNION {Lib!Range(seqs[i]) : i \in 1..Len(seqs)}
      /\ Lib!IsInjective(Lib!FlattenSeq(seqs))
  BY <1>1, LibHolds, Lib!FlattenType, Lib!FlattenOnce, Zenon
<1>3. UNION {Lib!Range(seqs[i]) : i \in 1..Len(seqs)} = UNION {Range(seqs[i]) : i \in 1..Len(seqs)}
  BY LibSame, Zenon
<1> QED
  BY <1>2, <1>3, LibSame, Zenon

---------------------------------------------------------------------------
(* The rows of the input, and what a set of them sums up to.               *)
RowsFor(in, n, m) == {j \in DOMAIN in : in[j].channel = n /\ in[j].month = m}

Lens(in) == [j \in DOMAIN in |-> in[j].len]

Stamps(in) == [j \in DOMAIN in |-> in[j].stamps]

LengthsOf(in, R) == {in[j].len : j \in R}

(* The statistics of the rows R, all of one channel and month.             *)
StatsFor(p, in, R) ==
  [min |-> IF R = {} THEN NewStats(p).min ELSE Min(LengthsOf(in, R)),
   max |-> IF R = {} THEN 0 ELSE Max(LengthsOf(in, R)),
   total |-> SumFunctionOnSet(Lens(in), R), count |-> Cardinality(R),
   stamps |-> SumFunctionOnSet(Stamps(in), R)]

LEMMA InputFacts ==
  ASSUME NEW in \in Inputs
  PROVE  /\ Len(in) \in Nat /\ DOMAIN in = 1..Len(in) /\ IsFiniteSet(DOMAIN in)
         /\ in \in Seq(Rows)
         /\ \A j \in DOMAIN in :
              /\ in[j].channel \in Channels /\ in[j].month \in Months
              /\ in[j].len \in 1..(Word - 1) /\ in[j].stamps \in Nat
              /\ Lens(in)[j] = in[j].len /\ Stamps(in)[j] = in[j].stamps
              /\ Lens(in)[j] \in Nat /\ Stamps(in)[j] \in Nat
<1>1. in \in Seq(Rows) /\ Len(in) \in Nat /\ DOMAIN in = 1..Len(in)
  BY VersionsAssumption
<1>2. IsFiniteSet(DOMAIN in)
  BY <1>1, FS_Interval
<1>3. \A j \in DOMAIN in : in[j] \in Rows
  BY <1>1
<1>4. \A j \in DOMAIN in :
              /\ in[j].channel \in Channels /\ in[j].month \in Months
              /\ in[j].len \in 1..(Word - 1) /\ in[j].stamps \in Nat
  BY <1>3, VersionsAssumption
<1>5. \A j \in DOMAIN in : Lens(in)[j] = in[j].len /\ Stamps(in)[j] = in[j].stamps
  BY DEF Lens, Stamps
<1>6. \A k \in 1..(Word - 1) : k \in Nat
  BY VersionsAssumption
<1>7. \A j \in DOMAIN in : Lens(in)[j] \in Nat /\ Stamps(in)[j] \in Nat
  BY <1>4, <1>5, <1>6, Zenon
<1> QED
  BY <1>1, <1>2, <1>4, <1>5, <1>7, Zenon

LEMMA SumUnion ==
  ASSUME NEW f, NEW S, NEW T, IsFiniteSet(S), IsFiniteSet(T), S \cap T = {},
         \A x \in S \cup T : f[x] \in Nat
  PROVE  SumFunctionOnSet(f, S \cup T) = SumFunctionOnSet(f, S) + SumFunctionOnSet(f, T)
<1> DEFINE Adds(U) == SumFunctionOnSet(f, S \cup U) = SumFunctionOnSet(f, S) + SumFunctionOnSet(f, U)
           N == {n \in Nat : \A U \in SUBSET T : Cardinality(U) = n => Adds(U)}
<1>1. SumFunctionOnSet(f, S) \in Nat
  BY SumNat
<1>2. 0 \in N
  <2> SUFFICES ASSUME NEW U \in SUBSET T, Cardinality(U) = 0 PROVE Adds(U)
    OBVIOUS
  <2>1. U = {}
    BY FS_Subset, FS_EmptySet
  <2>2. S \cup U = S /\ SumFunctionOnSet(f, U) = 0
    BY <2>1, SumEmpty
  <2> QED
    BY <1>1, <2>2
<1>3. ASSUME NEW n \in Nat, n \in N
      PROVE  n + 1 \in N
  <2> SUFFICES ASSUME NEW U \in SUBSET T, Cardinality(U) = n + 1 PROVE Adds(U)
    OBVIOUS
  <2>0. IsFiniteSet(U) /\ U # {}
    BY FS_Subset, FS_EmptySet
  <2>1. PICK y : y \in U
    BY <2>0
  <2> DEFINE V == U \ {y}
  <2>2. IsFiniteSet(U) /\ IsFiniteSet(V) /\ Cardinality(V) = n
    <3>1. IsFiniteSet(U \ {y}) /\ Cardinality(U \ {y}) = Cardinality(U) - 1
      BY <2>0, <2>1, FS_RemoveElement
    <3> QED
      BY <2>0, <3>1
  <2>3. Adds(V)
    BY <1>3, <2>2
  <2>4. IsFiniteSet(S \cup V) /\ y \notin S \cup V /\ y \notin V
    BY <2>1, <2>2, FS_Union
  <2>5. S \cup U = (S \cup V) \cup {y} /\ U = V \cup {y}
    BY <2>1
  <2>6. \A x \in (S \cup V) \cup {y} : f[x] \in Nat
    BY <2>1
  <2> HIDE DEF V
  <2>7. SumFunctionOnSet(f, (S \cup V) \cup {y}) = f[y] + SumFunctionOnSet(f, S \cup V)
    BY <2>4, <2>6, SumPut
  <2>8. SumFunctionOnSet(f, V \cup {y}) = f[y] + SumFunctionOnSet(f, V)
    BY <2>2, <2>4, <2>6, SumPut
  <2>9. SumFunctionOnSet(f, V) \in Nat /\ f[y] \in Nat
    BY <2>2, <2>6, SumNat
  <2> HIDE DEF Adds
  <2>10. PICK x, y1, z \in Nat : /\ x = SumFunctionOnSet(f, S) /\ y1 = f[y]
                                 /\ z = SumFunctionOnSet(f, V)
    BY <1>1, <2>9
  <2>11. SumFunctionOnSet(f, S \cup V) = x + z
    BY <2>3, <2>10 DEF Adds
  <2>12. SumFunctionOnSet(f, S \cup U) = y1 + (x + z) /\ SumFunctionOnSet(f, U) = y1 + z
    BY <2>5, <2>7, <2>8, <2>10, <2>11, Zenon
  <2>13. y1 + (x + z) = x + (y1 + z)
    OBVIOUS
  <2> QED
    BY <2>10, <2>12, <2>13, Zenon DEF Adds
<1> HIDE DEF N
<1>4. Cardinality(T) \in Nat
  BY FS_CardinalityType
<1>5. Cardinality(T) \in N
  BY <1>2, <1>3, <1>4, NatInduct
<1> QED
  BY <1>5 DEF N

(* A part of some rows is not longer than all of them.                     *)
LEMMA SumPart ==
  ASSUME NEW f, NEW S, NEW R, IsFiniteSet(S), R \subseteq S, \A x \in S : f[x] \in Nat
  PROVE  /\ IsFiniteSet(R)
         /\ SumFunctionOnSet(f, R) \in Nat /\ SumFunctionOnSet(f, S) \in Nat
         /\ SumFunctionOnSet(f, R) <= SumFunctionOnSet(f, S)
<1> DEFINE T == S \ R
<1>1. IsFiniteSet(R) /\ IsFiniteSet(T) /\ R \cup T = S /\ R \cap T = {}
  BY FS_Subset
<1> HIDE DEF T
<1>2. SumFunctionOnSet(f, R \cup T) = SumFunctionOnSet(f, R) + SumFunctionOnSet(f, T)
  BY <1>1, SumUnion
<1>3. PICK x, y \in Nat : x = SumFunctionOnSet(f, R) /\ y = SumFunctionOnSet(f, T)
  BY <1>1, SumNat
<1>4. SumFunctionOnSet(f, S) = x + y
  BY <1>1, <1>2, <1>3, Zenon
<1>5. x + y \in Nat /\ x <= x + y
  OBVIOUS
<1> QED
  BY <1>1, <1>3, <1>4, <1>5, Zenon

LEMMA WordFits ==
  ASSUME NEW x \in Nat, x < Word
  PROVE  x % Word = x /\ x \div Word = 0
<1>1. PICK v \in Nat : v = Word /\ v > 0 /\ x < v
  BY VersionsAssumption
<1>2. PICK q \in Int : q = x \div v
  BY <1>1
<1>3. PICK r \in Int : r = x % v
  BY <1>1
<1>4. x = q * v + r /\ 0 <= r /\ r < v
  BY <1>1, <1>2, <1>3
<1>5. q * v < v /\ q * v > 0 - v
  BY <1>1, <1>4
<1>6. q = 0
  <2>1. q >= 1 => q * v >= v
    BY <1>1
  <2>2. q <= -1 => q * v <= 0 - v
    BY <1>1
  <2> QED
    BY <1>5, <2>1, <2>2
<1>7. q = 0 /\ r = x
  BY <1>4, <1>6
<1> QED
  BY <1>1, <1>2, <1>3, <1>7, Zenon

(* The least and the largest of some lengths.                              *)
LEMMA MinIs ==
  ASSUME NEW T, T \subseteq Nat, NEW x \in T, \A y \in T : x <= y
  PROVE  Min(T) = x
<1>1. \E z \in T : \A y \in T : z <= y
  OBVIOUS
<1>2. Min(T) \in T /\ \A y \in T : Min(T) <= y
  BY <1>1, Zenon DEF Min
<1>3. Min(T) <= x /\ x <= Min(T) /\ Min(T) \in Nat /\ x \in Nat
  BY <1>2
<1> QED
  BY <1>3

LEMMA MaxIs ==
  ASSUME NEW T, T \subseteq Nat, NEW x \in T, \A y \in T : y <= x
  PROVE  Max(T) = x
<1>1. \E z \in T : \A y \in T : z >= y
  OBVIOUS
<1>2. Max(T) \in T /\ \A y \in T : Max(T) >= y
  BY <1>1, Zenon DEF Max
<1>3. Max(T) <= x /\ x <= Max(T) /\ Max(T) \in Nat /\ x \in Nat
  BY <1>2
<1> QED
  BY <1>3

LEMMA Extremes ==
  ASSUME NEW B \in Nat, NEW T, T \subseteq 0..B, T # {}
  PROVE  /\ Min(T) \in T /\ Max(T) \in T
         /\ \A y \in T : Min(T) <= y /\ y <= Max(T)
<1>1. T \subseteq Nat
  OBVIOUS
<1>2. PICK x \in T : \A y \in T : x <= y
  BY <1>1, LeastNat
<1>3. Min(T) = x
  BY <1>1, <1>2, MinIs
<1> DEFINE D == {B - y : y \in T}
<1>4. D \subseteq Nat /\ D # {}
  OBVIOUS
<1>5. PICK d \in D : \A e \in D : d <= e
  BY <1>4, LeastNat
<1>6. PICK z \in T : d = B - z
  BY <1>5
<1>7. \A y \in T : y <= z
  <2> SUFFICES ASSUME NEW y \in T PROVE y <= z
    OBVIOUS
  <2>1. B - z <= B - y
    BY <1>5, <1>6
  <2> QED
    BY <2>1
<1>8. Max(T) = z
  BY <1>1, <1>7, MaxIs
<1> QED
  BY <1>2, <1>3, <1>7, <1>8, Zenon

(* Some rows of one channel and month.                                     *)
LEMMA PartFits ==
  ASSUME NEW in \in Inputs, NEW n \in Channels, NEW m \in Months,
         NEW R, R \subseteq RowsFor(in, n, m)
  PROVE  /\ IsFiniteSet(R) /\ R \subseteq DOMAIN in /\ LengthsOf(in, R) \subseteq 1..(Word - 1)
         /\ (R # {} => LengthsOf(in, R) # {})
         /\ \A x \in R : Lens(in)[x] \in Nat /\ Stamps(in)[x] \in Nat
         /\ Cardinality(R) \in Nat /\ Cardinality(R) < Word
         /\ (Cardinality(R) = 0 <=> R = {})
         /\ SumFunctionOnSet(Lens(in), R) \in Nat /\ SumFunctionOnSet(Lens(in), R) < Word
         /\ SumFunctionOnSet(Stamps(in), R) \in Nat /\ SumFunctionOnSet(Stamps(in), R) < Word
<1> DEFINE all == RowsFor(in, n, m)
           f == [j \in all |-> in[j].len]
           g == [j \in all |-> in[j].stamps]
<1>1. /\ IsFiniteSet(DOMAIN in)
      /\ \A j \in DOMAIN in :
              /\ in[j].len \in 1..(Word - 1)
              /\ Lens(in)[j] = in[j].len /\ Stamps(in)[j] = in[j].stamps
              /\ Lens(in)[j] \in Nat /\ Stamps(in)[j] \in Nat
  BY InputFacts
<1>2. all \subseteq DOMAIN in
  BY DEF RowsFor
<1>3. IsFiniteSet(all) /\ R \subseteq DOMAIN in
  BY <1>1, <1>2, FS_Subset
<1>4. /\ Cardinality(all) < Word /\ SumFunction(f) < Word /\ SumFunction(g) < Word
  <2>1. \A h : Promise!SumFunction(h) = SumFunction(h)
    BY Zenon DEF Promise!SumFunction, SumFunction, Promise!SumFunctionOnSet, SumFunctionOnSet,
       Promise!FoldFunctionOnSet, FoldFunctionOnSet, Promise!MapThenFoldSet, MapThenFoldSet
  <2>2. Promise!RowsFor(in, n, m) = RowsFor(in, n, m)
    BY Zenon DEF Promise!RowsFor, RowsFor
  <2> QED
    BY <2>1, <2>2, SumsAssumption, Zenon
<1>5. \A x \in all : /\ f[x] \in Nat /\ f[x] = Lens(in)[x] /\ Lens(in)[x] \in Nat
                     /\ g[x] \in Nat /\ g[x] = Stamps(in)[x] /\ Stamps(in)[x] \in Nat
  BY <1>1, <1>2
<1>6. DOMAIN f = all /\ DOMAIN g = all
  OBVIOUS
<1>7. R \subseteq all
  OBVIOUS
<1>8. LengthsOf(in, R) \subseteq 1..(Word - 1) /\ (R # {} => LengthsOf(in, R) # {})
  BY <1>1, <1>3 DEF LengthsOf
<1>9. \A x \in R : Lens(in)[x] \in Nat /\ Stamps(in)[x] \in Nat
  BY <1>1, <1>3
<1> HIDE DEF f, g, all
<1>10. SumFunctionOnSet(Lens(in), all) < Word /\ SumFunctionOnSet(Stamps(in), all) < Word
  <2>1. /\ SumFunctionOnSet(f, all) = SumFunctionOnSet(Lens(in), all)
        /\ SumFunctionOnSet(g, all) = SumFunctionOnSet(Stamps(in), all)
    BY <1>3, <1>5, SumEqual
  <2> QED
    BY <1>4, <1>6, <2>1, Zenon DEF SumFunction
<1>11. /\ SumFunctionOnSet(Lens(in), R) \in Nat /\ SumFunctionOnSet(Lens(in), all) \in Nat
       /\ SumFunctionOnSet(Lens(in), R) <= SumFunctionOnSet(Lens(in), all)
  BY <1>3, <1>5, <1>7, SumPart
<1>12. /\ SumFunctionOnSet(Stamps(in), R) \in Nat /\ SumFunctionOnSet(Stamps(in), all) \in Nat
       /\ SumFunctionOnSet(Stamps(in), R) <= SumFunctionOnSet(Stamps(in), all)
  BY <1>3, <1>5, <1>7, SumPart
<1>13. /\ IsFiniteSet(R) /\ Cardinality(R) \in Nat /\ Cardinality(all) \in Nat
       /\ Cardinality(R) <= Cardinality(all) /\ (Cardinality(R) = 0 <=> R = {})
  BY <1>3, <1>7, FS_Subset, FS_CardinalityType, FS_EmptySet
<1>14. Word \in Nat
  BY VersionsAssumption
<1>15. Cardinality(R) < Word
  BY <1>4, <1>13, <1>14
<1>16. SumFunctionOnSet(Lens(in), R) < Word /\ SumFunctionOnSet(Stamps(in), R) < Word
  BY <1>10, <1>11, <1>12, <1>14
<1> QED
  BY <1>3, <1>8, <1>9, <1>11, <1>12, <1>13, <1>15, <1>16

---------------------------------------------------------------------------
(* Sums that fit are kept, whichever way the program keeps them.           *)
LEMMA AddFits ==
  ASSUME NEW p \in Programs, NEW s, NEW n \in Nat, NEW k \in Nat,
         NEW x \in Nat, NEW y \in Nat, s.count = x, s.stamps = y,
         x + n < Word, y + k < Word
  PROVE  Add(p, s, n, k) = [count |-> x + n, stamps |-> y + k]
<1>1. x + n \in Nat /\ y + k \in Nat
  OBVIOUS
<1>2. (x + n) % Word = x + n
  BY <1>1, WordFits
<1>3. (y + k) % Word = y + k /\ (y + k) \div Word = 0
  BY <1>1, WordFits
<1>4. x + n + 0 = x + n
  OBVIOUS
<1>5. p.sums \in {"wide", "narrow", "packed"}
  BY ProgramsAssumption
<1>6. CASE p.sums = "wide"
  BY <1>6, Zenon DEF Add
<1>7. CASE p.sums = "narrow"
  <2>1. p.sums # "wide"
    BY <1>7
  <2> QED
    BY <1>2, <1>3, <1>7, <2>1, Zenon DEF Add
<1>8. CASE p.sums = "packed"
  <2>1. p.sums # "wide" /\ p.sums # "narrow"
    BY <1>8
  <2>2. (x + n + (y + k) \div Word) % Word = x + n
    BY <1>2, <1>3, <1>4, Zenon
  <2> QED
    BY <1>3, <1>8, <2>1, <2>2, Zenon DEF Add
<1> QED
  BY <1>5, <1>6, <1>7, <1>8, Zenon

LEMMA TotalFits ==
  ASSUME NEW p, NEW x \in Nat, x < Word
  PROVE  Total(p, x) = x
BY WordFits, Zenon DEF Total

LEMMA PairFields ==
  ASSUME NEW e, NEW x, NEW y, e = [count |-> x, stamps |-> y]
  PROVE  e.count = x /\ e.stamps = y
OBVIOUS

(* One row more.                                                           *)
LEMMA UpdateFacts ==
  ASSUME NEW p \in Programs, NEW in \in Inputs, NEW n \in Channels, NEW m \in Months,
         NEW R, NEW j, j \notin R, R \cup {j} \subseteq RowsFor(in, n, m)
  PROVE  Update(p, StatsFor(p, in, R), in[j]) = StatsFor(p, in, R \cup {j})
<1> DEFINE L == LengthsOf(in, R)
           s == StatsFor(p, in, R)
           r == in[j]
<1>1. /\ IsFiniteSet(R) /\ R \subseteq DOMAIN in /\ LengthsOf(in, R) \subseteq 1..(Word - 1)
      /\ (R # {} => LengthsOf(in, R) # {})
      /\ Cardinality(R) \in Nat
      /\ (Cardinality(R) = 0 <=> R = {})
      /\ SumFunctionOnSet(Lens(in), R) \in Nat
      /\ SumFunctionOnSet(Stamps(in), R) \in Nat
  <2>1. R \subseteq RowsFor(in, n, m)
    OBVIOUS
  <2> QED
    BY <2>1, PartFits
<1>2. /\ \A x \in R \cup {j} : Lens(in)[x] \in Nat /\ Stamps(in)[x] \in Nat
      /\ Cardinality(R \cup {j}) < Word
      /\ SumFunctionOnSet(Lens(in), R \cup {j}) < Word
      /\ SumFunctionOnSet(Stamps(in), R \cup {j}) < Word
      /\ LengthsOf(in, R \cup {j}) \subseteq 1..(Word - 1)
      /\ j \in DOMAIN in
  BY PartFits, Zenon
<1>3. r.len \in 1..(Word - 1) /\ Lens(in)[j] = r.len /\ Stamps(in)[j] = r.stamps
      /\ r.len \in Nat /\ r.stamps \in Nat
  BY <1>2, InputFacts
<1>4. SumFunctionOnSet(Lens(in), R \cup {j}) = r.len + SumFunctionOnSet(Lens(in), R)
  <2>1. SumFunctionOnSet(Lens(in), R \cup {j}) = Lens(in)[j] + SumFunctionOnSet(Lens(in), R)
    BY <1>1, <1>2, SumPut
  <2> QED
    BY <1>3, <2>1, Zenon
<1>5. SumFunctionOnSet(Stamps(in), R \cup {j}) = r.stamps + SumFunctionOnSet(Stamps(in), R)
  <2>1. SumFunctionOnSet(Stamps(in), R \cup {j}) = Stamps(in)[j] + SumFunctionOnSet(Stamps(in), R)
    BY <1>1, <1>2, SumPut
  <2> QED
    BY <1>3, <2>1, Zenon
<1>6. Cardinality(R \cup {j}) = Cardinality(R) + 1
  BY <1>1, FS_AddElement
<1>7. PICK x, y, z \in Nat : /\ x = Cardinality(R) /\ y = SumFunctionOnSet(Stamps(in), R)
                             /\ z = SumFunctionOnSet(Lens(in), R)
  BY <1>1
<1>8. PICK l, k \in Nat : l = r.len /\ k = r.stamps
  BY <1>3
<1>9. s.count = x /\ s.stamps = y /\ s.total = z
  BY <1>7 DEF StatsFor
<1>10. x + 1 < Word /\ y + k < Word /\ z + l < Word
  BY <1>2, <1>4, <1>5, <1>6, <1>7, <1>8
<1> DEFINE e == Add(p, s, 1, r.stamps)
<1>11. e.count = x + 1 /\ e.stamps = y + k
  <2>1. Add(p, s, 1, k) = [count |-> x + 1, stamps |-> y + k]
    BY <1>9, <1>10, AddFits
  <2> QED
    BY <1>8, <2>1, PairFields, Zenon
<1>12. Total(p, s.total + r.len) = z + l
  <2>1. z + l \in Nat
    OBVIOUS
  <2> QED
    BY <1>8, <1>9, <1>10, <2>1, TotalFits, Zenon
<1> DEFINE first == p.least = "first row" /\ s.count = 0
<1>13. s.count = 0 <=> R = {}
  BY <1>1, <1>7, <1>9, Zenon
<1>14. LengthsOf(in, R \cup {j}) = L \cup {l}
  BY <1>8 DEF LengthsOf
<1>15. L \cup {l} \subseteq Nat /\ Word \in Nat \ {0} /\ l <= Word - 1 /\ l > 0
  <2>1. Word \in Nat \ {0}
    BY VersionsAssumption
  <2>2. \A i \in 1..(Word - 1) : i \in Nat /\ i > 0 /\ i <= Word - 1
    BY <2>1
  <2>3. L \cup {l} \subseteq 1..(Word - 1) /\ l \in 1..(Word - 1)
    BY <1>2, <1>3, <1>8, <1>14, Zenon
  <2> HIDE DEF L
  <2>4. L \cup {l} \subseteq Nat
    BY <2>2, <2>3, Zenon
  <2> QED
    BY <2>1, <2>2, <2>3, <2>4, Zenon
<1>16. /\ (IF first \/ r.len < s.min THEN r.len ELSE s.min) = Min(L \cup {l})
       /\ (IF first \/ r.len > s.max THEN r.len ELSE s.max) = Max(L \cup {l})
  <2>1. CASE R = {}
    <3>1. L \cup {l} = {l}
      BY <2>1 DEF LengthsOf
    <3>2. Min(L \cup {l}) = l /\ Max(L \cup {l}) = l
      <4>1. {l} \subseteq Nat /\ \A i \in {l} : l <= i /\ i <= l
        OBVIOUS
      <4> QED
        BY <3>1, <4>1, MinIs, MaxIs
    <3>3. s.min = NewStats(p).min /\ s.max = 0
      BY <2>1 DEF StatsFor
    <3>4. CASE p.least = "top"
      <4>1. s.min = Word - 1
        BY <3>3, <3>4 DEF NewStats
      <4>2. PICK u \in Nat : u = Word - 1
        BY <1>15
      <4>3. s.min = u /\ l <= u
        BY <1>15, <4>1, <4>2, Zenon
      <4>4. ~ first
        BY <3>4
      <4>5. (l < u \/ l = u) /\ l > 0
        BY <1>15, <4>3
      <4> HIDE DEF first, s
      <4> QED
        BY <1>8, <3>2, <3>3, <4>3, <4>4, <4>5, Zenon
    <3>5. CASE p.least = "first row"
      BY <1>8, <1>13, <2>1, <3>2, <3>5, Zenon
    <3> QED
      BY <3>4, <3>5, ProgramsAssumption
  <2>2. CASE R # {}
    <3>1. ~ first
      BY <1>13, <2>2, Zenon
    <3>2. s.min = Min(L) /\ s.max = Max(L)
      BY <2>2 DEF StatsFor
    <3>3. L \subseteq 0..(Word - 1) /\ L # {} /\ Word - 1 \in Nat
      BY <1>1, <1>15, <2>2
    <3>4. /\ Min(L) \in L /\ Max(L) \in L
          /\ \A i \in L : Min(L) <= i /\ i <= Max(L)
      BY <3>3, Extremes
    <3>5. PICK u \in L, v \in L : u = Min(L) /\ v = Max(L)
      BY <3>4
    <3>6. u \in Nat /\ v \in Nat /\ \A i \in L : i \in Nat /\ u <= i /\ i <= v
      BY <1>15, <3>4, <3>5
    <3>7. Min(L \cup {l}) = IF l < u THEN l ELSE u
      <4>1. CASE l < u
        <5>1. \A i \in L \cup {l} : l <= i
          BY <3>6, <4>1
        <5> QED
          BY <1>15, <4>1, <5>1, MinIs
      <4>2. CASE ~ (l < u)
        <5>1. \A i \in L \cup {l} : u <= i
          BY <3>6, <4>2
        <5> QED
          BY <1>15, <4>2, <5>1, MinIs
      <4> QED
        BY <4>1, <4>2
    <3>8. Max(L \cup {l}) = IF l > v THEN l ELSE v
      <4>1. CASE l > v
        <5>1. \A i \in L \cup {l} : i <= l
          BY <3>6, <4>1
        <5> QED
          BY <1>15, <4>1, <5>1, MaxIs
      <4>2. CASE ~ (l > v)
        <5>1. \A i \in L \cup {l} : i <= v
          BY <3>6, <4>2
        <5> QED
          BY <1>15, <4>2, <5>1, MaxIs
      <4> QED
        BY <4>1, <4>2
    <3> HIDE DEF first, s, L
    <3> QED
      BY <1>8, <3>1, <3>2, <3>5, <3>7, <3>8, Zenon
  <2> QED
    BY <2>1, <2>2
<1>17. StatsFor(p, in, R \cup {j}) =
         [min |-> Min(L \cup {l}), max |-> Max(L \cup {l}), total |-> z + l,
          count |-> x + 1, stamps |-> y + k]
  <2>1. R \cup {j} # {}
    OBVIOUS
  <2>2. /\ SumFunctionOnSet(Lens(in), R \cup {j}) = z + l
        /\ SumFunctionOnSet(Stamps(in), R \cup {j}) = y + k
        /\ Cardinality(R \cup {j}) = x + 1
    BY <1>4, <1>5, <1>6, <1>7, <1>8
  <2> QED
    BY <1>14, <2>1, <2>2, Zenon DEF StatsFor
<1>18. Update(p, s, r) =
         [min |-> IF first \/ r.len < s.min THEN r.len ELSE s.min,
          max |-> IF first \/ r.len > s.max THEN r.len ELSE s.max,
          total |-> Total(p, s.total + r.len), count |-> e.count, stamps |-> e.stamps]
  BY Zenon DEF Update
<1> HIDE DEF e, first, s, r, L
<1>19. Update(p, s, r) = StatsFor(p, in, R \cup {j})
  BY <1>11, <1>12, <1>16, <1>17, <1>18, Zenon
<1> QED
  BY <1>19 DEF s, r

(* The rows of another thread.                                             *)
LEMMA MergeFacts ==
  ASSUME NEW p \in Programs, p.least = "top", NEW in \in Inputs,
         NEW n \in Channels, NEW m \in Months,
         NEW R, NEW S, R \cap S = {}, R \cup S \subseteq RowsFor(in, n, m)
  PROVE  Merge(p, StatsFor(p, in, R), StatsFor(p, in, S)) = StatsFor(p, in, R \cup S)
<1> DEFINE L == LengthsOf(in, R)
           K == LengthsOf(in, S)
           d == StatsFor(p, in, R)
           s == StatsFor(p, in, S)
           e == Add(p, d, s.count, s.stamps)
<1>1. /\ IsFiniteSet(R) /\ L \subseteq 1..(Word - 1) /\ (R # {} => L # {})
      /\ Cardinality(R) \in Nat /\ (Cardinality(R) = 0 <=> R = {})
      /\ SumFunctionOnSet(Lens(in), R) \in Nat
      /\ SumFunctionOnSet(Stamps(in), R) \in Nat
  <2>1. R \subseteq RowsFor(in, n, m)
    OBVIOUS
  <2> QED
    BY <2>1, PartFits
<1>2. /\ IsFiniteSet(S) /\ K \subseteq 1..(Word - 1) /\ (S # {} => K # {})
      /\ Cardinality(S) \in Nat /\ (Cardinality(S) = 0 <=> S = {})
      /\ SumFunctionOnSet(Lens(in), S) \in Nat
      /\ SumFunctionOnSet(Stamps(in), S) \in Nat
  <2>1. S \subseteq RowsFor(in, n, m)
    OBVIOUS
  <2> QED
    BY <2>1, PartFits
<1>3. /\ \A x \in R \cup S : Lens(in)[x] \in Nat /\ Stamps(in)[x] \in Nat
      /\ Cardinality(R \cup S) < Word
      /\ SumFunctionOnSet(Lens(in), R \cup S) < Word
      /\ SumFunctionOnSet(Stamps(in), R \cup S) < Word
  BY PartFits, Zenon
<1>4. SumFunctionOnSet(Lens(in), R \cup S) = SumFunctionOnSet(Lens(in), R) + SumFunctionOnSet(Lens(in), S)
  BY <1>1, <1>2, <1>3, SumUnion
<1>5. SumFunctionOnSet(Stamps(in), R \cup S)
        = SumFunctionOnSet(Stamps(in), R) + SumFunctionOnSet(Stamps(in), S)
  BY <1>1, <1>2, <1>3, SumUnion
<1>6. Cardinality(R \cup S) = Cardinality(R) + Cardinality(S)
  <2>1. Cardinality(R \cup S) = Cardinality(R) + Cardinality(S) - Cardinality(R \cap S)
    BY <1>1, <1>2, FS_Union
  <2>2. Cardinality(R \cap S) = 0
    BY FS_EmptySet
  <2> QED
    BY <1>1, <1>2, <2>1, <2>2
<1>7. PICK x, y, z \in Nat : /\ x = Cardinality(R) /\ y = SumFunctionOnSet(Stamps(in), R)
                             /\ z = SumFunctionOnSet(Lens(in), R)
  BY <1>1
<1>8. PICK f, g, h \in Nat : /\ f = Cardinality(S) /\ g = SumFunctionOnSet(Stamps(in), S)
                             /\ h = SumFunctionOnSet(Lens(in), S)
  BY <1>2
<1>9. /\ d.count = x /\ d.stamps = y /\ d.total = z
      /\ s.count = f /\ s.stamps = g /\ s.total = h
  BY <1>7, <1>8 DEF StatsFor
<1>10. x + f < Word /\ y + g < Word /\ z + h < Word
  BY <1>3, <1>4, <1>5, <1>6, <1>7, <1>8
<1>11. e.count = x + f /\ e.stamps = y + g
  <2>1. Add(p, d, f, g) = [count |-> x + f, stamps |-> y + g]
    BY <1>9, <1>10, AddFits
  <2> HIDE DEF d, s
  <2>2. e = [count |-> x + f, stamps |-> y + g]
    BY <1>9, <2>1, Zenon
  <2> HIDE DEF e
  <2> QED
    BY <2>2, PairFields, Zenon
<1>12. Total(p, d.total + s.total) = z + h
  <2>1. z + h \in Nat
    OBVIOUS
  <2> QED
    BY <1>9, <1>10, <2>1, TotalFits, Zenon
<1>13. LengthsOf(in, R \cup S) = L \cup K
  BY DEF LengthsOf
<1>14. Word \in Nat \ {0} /\ (L \cup K) \subseteq Nat
       /\ \A i \in L \cup K : i > 0 /\ i <= Word - 1
  <2>1. Word \in Nat \ {0}
    BY VersionsAssumption
  <2>2. \A i \in 1..(Word - 1) : i \in Nat /\ i > 0 /\ i <= Word - 1
    BY <2>1
  <2> HIDE DEF L, K
  <2>3. \A i \in L \cup K : i \in Nat /\ i > 0 /\ i <= Word - 1
    BY <1>1, <1>2, <2>2, Zenon
  <2> QED
    BY <2>1, <2>3
<1>15. CASE S = {}
  <2>1. s.count = 0 /\ R \cup S = R
    BY <1>2, <1>8, <1>9, <1>15
  <2> HIDE DEF d, s
  <2>2. Merge(p, d, s) = d
    BY <2>1, Zenon DEF Merge
  <2> QED
    BY <2>1, <2>2 DEF d, s
<1>16. CASE S # {}
  <2>1. s.count # 0 /\ R \cup S # {}
    BY <1>2, <1>8, <1>9, <1>16
  <2>2. PICK u \in K, v \in K : /\ u = Min(K) /\ v = Max(K)
                                /\ \A i \in K : u <= i /\ i <= v
    <3>1. K \subseteq 0..(Word - 1) /\ K # {} /\ Word - 1 \in Nat
      BY <1>2, <1>14, <1>16
    <3> QED
      BY <3>1, Extremes
  <2>3. s.min = u /\ s.max = v
    BY <1>16, <2>2 DEF StatsFor
  <2>4. /\ (IF s.min < d.min THEN s.min ELSE d.min) = Min(L \cup K)
        /\ (IF s.max > d.max THEN s.max ELSE d.max) = Max(L \cup K)
    <3>1. CASE R = {}
      <4>1. L \cup K = K
        BY <3>1 DEF LengthsOf
      <4>2. d.min = Word - 1 /\ d.max = 0
        BY <3>1 DEF StatsFor, NewStats
      <4>3. PICK top \in Nat : top = Word - 1
        BY <1>14
      <4>4. (u < top \/ u = top) /\ v > 0
        BY <1>14, <4>1, <4>3
      <4> HIDE DEF d, s, L, K
      <4> QED
        BY <2>2, <2>3, <4>1, <4>2, <4>3, <4>4, Zenon
    <3>2. CASE R # {}
      <4>1. PICK a \in L, b \in L : /\ a = Min(L) /\ b = Max(L)
                                    /\ \A i \in L : a <= i /\ i <= b
        <5>1. L \subseteq 0..(Word - 1) /\ L # {} /\ Word - 1 \in Nat
          BY <1>1, <1>14, <3>2
        <5> QED
          BY <5>1, Extremes
      <4>2. d.min = a /\ d.max = b
        BY <3>2, <4>1 DEF StatsFor
      <4>3. /\ a \in Nat /\ b \in Nat /\ u \in Nat /\ v \in Nat
            /\ \A i \in L \cup K : i \in Nat
        BY <1>14, <2>2, <4>1
      <4>4. Min(L \cup K) = IF u < a THEN u ELSE a
        <5>1. CASE u < a
          <6>1. \A i \in L \cup K : u <= i
            BY <2>2, <4>1, <4>3, <5>1
          <6> QED
            BY <1>14, <5>1, <6>1, MinIs
        <5>2. CASE ~ (u < a)
          <6>1. \A i \in L \cup K : a <= i
            BY <2>2, <4>1, <4>3, <5>2
          <6> QED
            BY <1>14, <5>2, <6>1, MinIs
        <5> QED
          BY <5>1, <5>2
      <4>5. Max(L \cup K) = IF v > b THEN v ELSE b
        <5>1. CASE v > b
          <6>1. \A i \in L \cup K : i <= v
            BY <2>2, <4>1, <4>3, <5>1
          <6> QED
            BY <1>14, <5>1, <6>1, MaxIs
        <5>2. CASE ~ (v > b)
          <6>1. \A i \in L \cup K : i <= b
            BY <2>2, <4>1, <4>3, <5>2
          <6> QED
            BY <1>14, <5>2, <6>1, MaxIs
        <5> QED
          BY <5>1, <5>2
      <4> HIDE DEF d, s, L, K
      <4> QED
        BY <2>3, <4>2, <4>4, <4>5, Zenon
    <3> QED
      BY <3>1, <3>2
  <2>5. StatsFor(p, in, R \cup S) =
          [min |-> Min(L \cup K), max |-> Max(L \cup K), total |-> z + h,
           count |-> x + f, stamps |-> y + g]
    <3>1. /\ SumFunctionOnSet(Lens(in), R \cup S) = z + h
          /\ SumFunctionOnSet(Stamps(in), R \cup S) = y + g
          /\ Cardinality(R \cup S) = x + f
      BY <1>4, <1>5, <1>6, <1>7, <1>8
    <3> QED
      BY <1>13, <2>1, <3>1, Zenon DEF StatsFor
  <2>6. Merge(p, d, s) =
          [min |-> IF s.min < d.min THEN s.min ELSE d.min,
           max |-> IF s.max > d.max THEN s.max ELSE d.max,
           total |-> Total(p, d.total + s.total), count |-> e.count, stamps |-> e.stamps]
    BY <2>1, Zenon DEF Merge
  <2> HIDE DEF e, d, s, L, K
  <2>7. Merge(p, d, s) = StatsFor(p, in, R \cup S)
    BY <1>11, <1>12, <2>4, <2>5, <2>6, Zenon
  <2> QED
    BY <2>7 DEF d, s
<1> QED
  BY <1>15, <1>16

---------------------------------------------------------------------------
(* A context that is the summary of the rows J.                            *)
ChannelsOf(in, J) == {in[j].channel : j \in J}

RowsIn(in, nm, J) == RowsFor(in, nm[1], nm[2]) \cap J

StatsOf(p, in, J) == [nm \in Channels \X Months |-> StatsFor(p, in, RowsIn(in, nm, J))]

Summarises(p, in, c, J) ==
  /\ c.names \in Seq(Channels) /\ IsInjective(c.names)
  /\ Range(c.names) = ChannelsOf(in, J)
  /\ c = [names |-> c.names, stats |-> StatsOf(p, in, J)]

LEMMA EmptySummary ==
  ASSUME NEW p, NEW in
  PROVE  Summarises(p, in, EmptyCtx(p), {})
<1>1. EmptyCtx(p).names = <<>> /\ EmptyCtx(p) = [names |-> <<>>, stats |-> EmptyCtx(p).stats]
  BY DEF EmptyCtx
<1>2. <<>> \in Seq(Channels) /\ IsInjective(<<>>) /\ Range(<<>>) = {}
  BY DEF IsInjective, Range
<1>3. ChannelsOf(in, {}) = {}
  BY DEF ChannelsOf
<1>4. SumFunctionOnSet(Lens(in), {}) = 0 /\ SumFunctionOnSet(Stamps(in), {}) = 0 /\ Cardinality({}) = 0
  BY SumEmpty, FS_EmptySet
<1>5. StatsFor(p, in, {}) = NewStats(p)
  BY <1>4 DEF StatsFor, NewStats
<1>6. \A nm : RowsIn(in, nm, {}) = {}
  BY DEF RowsIn
<1>7. StatsOf(p, in, {}) = EmptyCtx(p).stats
  BY <1>5, <1>6, Zenon DEF StatsOf, EmptyCtx
<1> QED
  BY <1>1, <1>2, <1>3, <1>7, Zenon DEF Summarises

LEMMA WithChannelFacts ==
  ASSUME NEW c, c.names \in Seq(Channels), IsInjective(c.names), NEW n \in Channels,
         NEW st, c = [names |-> c.names, stats |-> st]
  PROVE  /\ WithChannel(c, n).names \in Seq(Channels) /\ IsInjective(WithChannel(c, n).names)
         /\ Range(WithChannel(c, n).names) = Range(c.names) \cup {n}
         /\ WithChannel(c, n) = [names |-> WithChannel(c, n).names, stats |-> st]
<1> DEFINE ns == c.names
<1>1. CASE n \in Range(c.names)
  <2>1. WithChannel(c, n) = c
    BY <1>1, Zenon DEF WithChannel
  <2>2. Range(c.names) \cup {n} = Range(c.names)
    BY <1>1
  <2> QED
    BY <2>1, <2>2, Zenon
<1>2. CASE n \notin Range(c.names)
  <2>1. WithChannel(c, n) = [c EXCEPT !.names = Append(ns, n)]
    BY <1>2, Zenon DEF WithChannel
  <2>2. WithChannel(c, n) = [names |-> Append(ns, n), stats |-> st]
    <3>1. \A x, y, z : [[names |-> x, stats |-> y] EXCEPT !.names = z] = [names |-> z, stats |-> y]
      OBVIOUS
    <3>2. [c EXCEPT !.names = Append(ns, n)]
            = [[names |-> ns, stats |-> st] EXCEPT !.names = Append(ns, n)]
      BY Zenon
    <3> HIDE DEF ns
    <3> QED
      BY <2>1, <3>1, <3>2, Zenon
  <2>3. WithChannel(c, n).names = Append(ns, n)
    BY <2>2
  <2>4. Append(ns, n) \in Seq(Channels)
    OBVIOUS
  <2>5. PICK seq \in Seq(Channels) : seq = ns
    OBVIOUS
  <2>6. Len(seq) \in Nat /\ DOMAIN seq = 1..Len(seq) /\ DOMAIN Append(seq, n) = 1..(Len(seq) + 1)
        /\ Append(seq, n)[Len(seq) + 1] = n
        /\ \A i \in 1..Len(seq) : Append(seq, n)[i] = seq[i]
    OBVIOUS
  <2>7. /\ \A i \in DOMAIN seq : seq[i] # n
        /\ \A i, j \in DOMAIN seq : seq[i] = seq[j] => i = j
    BY <1>2, <2>5, Zenon DEF Range, IsInjective
  <2>8. \A i \in 1..(Len(seq) + 1) : i \in 1..Len(seq) \/ i = Len(seq) + 1
    BY <2>6
  <2>9. IsInjective(Append(seq, n))
    BY <2>6, <2>7, <2>8, Zenon DEF IsInjective
  <2>10. Range(Append(seq, n)) = Range(seq) \cup {n}
    <3>1. \A i \in 1..Len(seq) : i \in 1..(Len(seq) + 1)
      BY <2>6
    <3>2. Len(seq) + 1 \in 1..(Len(seq) + 1)
      BY <2>6
    <3> QED
      BY <2>6, <2>8, <3>1, <3>2, Zenon DEF Range
  <2> QED
    BY <2>2, <2>3, <2>4, <2>5, <2>9, <2>10, Zenon
<1> QED
  BY <1>1, <1>2

LEMMA CountRowFacts ==
  ASSUME NEW p \in Programs, NEW in \in Inputs, NEW c, NEW J, Summarises(p, in, c, J),
         J \subseteq DOMAIN in, NEW j \in DOMAIN in, j \notin J
  PROVE  Summarises(p, in, CountRow(p, c, in[j]), J \cup {j})
<1> DEFINE r == in[j]
           nj == <<r.channel, r.month>>
           e == WithChannel(c, r.channel)
           st == StatsOf(p, in, J)
           K == J \cup {j}
<1>1. r.channel \in Channels /\ r.month \in Months
  BY InputFacts
<1>2. /\ e.names \in Seq(Channels) /\ IsInjective(e.names)
      /\ Range(e.names) = Range(c.names) \cup {r.channel}
      /\ e = [names |-> e.names, stats |-> st]
  BY <1>1, WithChannelFacts DEF Summarises
<1>3. Range(e.names) = ChannelsOf(in, K)
  BY <1>2 DEF Summarises, ChannelsOf
<1>4. CountRow(p, c, r) = [names |-> e.names, stats |-> [st EXCEPT ![nj] = Update(p, @, r)]]
  <2> HIDE DEF e, st, nj, r
  <2>1. CountRow(p, c, r) = [e EXCEPT !.stats[nj] = Update(p, @, r)]
    BY Zenon DEF CountRow, e, nj
  <2>2. e.stats = st
    BY <1>2
  <2>3. [e EXCEPT !.stats[nj] = Update(p, @, r)]
          = [names |-> e.names, stats |-> [st EXCEPT ![nj] = Update(p, @, r)]]
    BY <1>2
  <2> QED
    BY <2>1, <2>3, Zenon
<1>5. [st EXCEPT ![nj] = Update(p, @, r)] = StatsOf(p, in, K)
  <2>1. nj \in Channels \X Months /\ nj[1] = r.channel /\ nj[2] = r.month
    BY <1>1
  <2>2. \A nm \in Channels \X Months : nm # nj => RowsIn(in, nm, K) = RowsIn(in, nm, J)
    <3> SUFFICES ASSUME NEW nm \in Channels \X Months, nm # nj
                 PROVE  j \notin RowsFor(in, nm[1], nm[2])
      BY DEF RowsIn
    <3>1. nm = <<nm[1], nm[2]>>
      OBVIOUS
    <3>2. ~ (r.channel = nm[1] /\ r.month = nm[2])
      BY <3>1, Zenon
    <3> QED
      BY <3>2 DEF RowsFor
  <2>3. /\ RowsIn(in, nj, K) = RowsIn(in, nj, J) \cup {j}
        /\ j \notin RowsIn(in, nj, J)
        /\ RowsIn(in, nj, J) \cup {j} \subseteq RowsFor(in, r.channel, r.month)
    BY <2>1 DEF RowsIn, RowsFor
  <2>4. Update(p, StatsFor(p, in, RowsIn(in, nj, J)), r) = StatsFor(p, in, RowsIn(in, nj, K))
    <3>1. PICK n \in Channels, m \in Months : n = r.channel /\ m = r.month
      BY <1>1
    <3>2. PICK R : R = RowsIn(in, nj, J)
      OBVIOUS
    <3>3. j \notin R /\ R \cup {j} \subseteq RowsFor(in, n, m)
      BY <2>3, <3>1, <3>2, Zenon
    <3>4. Update(p, StatsFor(p, in, R), in[j]) = StatsFor(p, in, R \cup {j})
      BY <3>3, UpdateFacts
    <3> QED
      BY <2>3, <3>2, <3>4, Zenon
  <2>5. \A nm \in Channels \X Months : st[nm] = StatsFor(p, in, RowsIn(in, nm, J))
    BY DEF StatsOf
  <2>6. DOMAIN st = Channels \X Months
    BY DEF StatsOf
  <2>7. /\ \A nm \in Channels \X Months : nm # nj => st[nm] = StatsFor(p, in, RowsIn(in, nm, K))
        /\ Update(p, st[nj], r) = StatsFor(p, in, RowsIn(in, nj, K))
    BY <2>1, <2>2, <2>4, <2>5, Zenon
  <2> HIDE DEF st, nj, K, r
  <2>8. [st EXCEPT ![nj] = Update(p, @, r)]
          = [nm \in Channels \X Months |-> StatsFor(p, in, RowsIn(in, nm, K))]
    BY <2>1, <2>6, <2>7
  <2> QED
    BY <2>8, Zenon DEF StatsOf
<1>6. PICK d : d = CountRow(p, c, r)
  OBVIOUS
<1>7. d.names = e.names
  BY <1>4, <1>6
<1> HIDE DEF e, st, nj, K, r
<1>8. Summarises(p, in, d, K)
  BY <1>2, <1>3, <1>4, <1>5, <1>6, <1>7, Zenon DEF Summarises
<1> QED
  BY <1>6, <1>8 DEF K, r

(* The rows of a channel, and of some channels.                            *)
RowsAmong(in, K, D) == {j \in K : in[j].channel \in D}

LEMMA MergeChannelFacts ==
  ASSUME NEW p \in Programs, p.least = "top", NEW in \in Inputs,
         NEW d, NEW J, Summarises(p, in, d, J), J \subseteq DOMAIN in,
         NEW s, NEW K, Summarises(p, in, s, K), K \subseteq DOMAIN in,
         NEW n \in ChannelsOf(in, K), J \cap RowsAmong(in, K, {n}) = {}
  PROVE  Summarises(p, in, MergeChannel(p, d, s, n), J \cup RowsAmong(in, K, {n}))
<1> DEFINE A == RowsAmong(in, K, {n})
           e == WithChannel(d, n)
           st == [nm \in Channels \X Months |->
                    IF nm[1] = n THEN Merge(p, e.stats[nm], s.stats[nm]) ELSE e.stats[nm]]
<1>1. n \in Channels /\ \A j \in DOMAIN in : in[j].channel \in Channels
  BY InputFacts DEF ChannelsOf
<1>2. /\ e.names \in Seq(Channels) /\ IsInjective(e.names)
      /\ Range(e.names) = Range(d.names) \cup {n}
      /\ e = [names |-> e.names, stats |-> StatsOf(p, in, J)]
  <2>1. /\ d.names \in Seq(Channels) /\ IsInjective(d.names)
        /\ d = [names |-> d.names, stats |-> StatsOf(p, in, J)]
    BY Zenon DEF Summarises
  <2> QED
    BY <1>1, <2>1, WithChannelFacts, Zenon
<1>3. Range(e.names) = ChannelsOf(in, J \cup A)
  <2>1. ChannelsOf(in, J \cup A) = ChannelsOf(in, J) \cup {n}
    BY DEF ChannelsOf, RowsAmong
  <2> QED
    BY <1>2, <2>1, Zenon DEF Summarises
<1>4. MergeChannel(p, d, s, n) = [names |-> e.names, stats |-> st]
  <2>1. MergeChannel(p, d, s, n) = [e EXCEPT !.stats = st]
    BY Zenon DEF MergeChannel
  <2>2. \A x, y, z : [[names |-> x, stats |-> y] EXCEPT !.stats = z] = [names |-> x, stats |-> z]
    OBVIOUS
  <2> HIDE DEF e, st
  <2>3. [e EXCEPT !.stats = st] = [[names |-> e.names, stats |-> StatsOf(p, in, J)] EXCEPT !.stats = st]
    BY <1>2, Zenon
  <2> QED
    BY <2>1, <2>2, <2>3, Zenon
<1>5. e.stats = StatsOf(p, in, J) /\ s.stats = StatsOf(p, in, K)
  <2>1. \A x, y : [names |-> x, stats |-> y].stats = y
    OBVIOUS
  <2>2. s = [names |-> s.names, stats |-> StatsOf(p, in, K)]
    BY Zenon DEF Summarises
  <2> HIDE DEF e
  <2> QED
    BY <1>2, <2>1, <2>2, Zenon
<1>6. \A nm \in Channels \X Months : st[nm] = StatsFor(p, in, RowsIn(in, nm, J \cup A))
  <2> SUFFICES ASSUME NEW nm \in Channels \X Months
               PROVE  st[nm] = StatsFor(p, in, RowsIn(in, nm, J \cup A))
    OBVIOUS
  <2>1. e.stats[nm] = StatsFor(p, in, RowsIn(in, nm, J)) /\ s.stats[nm] = StatsFor(p, in, RowsIn(in, nm, K))
    <3>1. /\ StatsOf(p, in, J)[nm] = StatsFor(p, in, RowsIn(in, nm, J))
          /\ StatsOf(p, in, K)[nm] = StatsFor(p, in, RowsIn(in, nm, K))
      BY DEF StatsOf
    <3> HIDE DEF e
    <3> QED
      BY <1>5, <3>1, Zenon
  <2>2. CASE nm[1] = n
    <3>1. /\ RowsIn(in, nm, J) \cup RowsIn(in, nm, K) = RowsIn(in, nm, J \cup A)
          /\ RowsIn(in, nm, J) \cap RowsIn(in, nm, K) = {}
          /\ RowsIn(in, nm, J) \cup RowsIn(in, nm, K) \subseteq RowsFor(in, nm[1], nm[2])
      BY <2>2 DEF RowsIn, RowsFor, RowsAmong
    <3>2. nm[1] \in Channels /\ nm[2] \in Months
      OBVIOUS
    <3>3. Merge(p, StatsFor(p, in, RowsIn(in, nm, J)), StatsFor(p, in, RowsIn(in, nm, K)))
            = StatsFor(p, in, RowsIn(in, nm, J \cup A))
      <4>0. PICK R, S : R = RowsIn(in, nm, J) /\ S = RowsIn(in, nm, K)
        OBVIOUS
      <4>1. PICK a \in Channels, b \in Months :
              R = RowsIn(in, nm, J) /\ S = RowsIn(in, nm, K) /\ a = nm[1] /\ b = nm[2]
        BY <3>2, <4>0
      <4>2. R \cap S = {} /\ R \cup S \subseteq RowsFor(in, a, b)
        BY <3>1, <4>1, Zenon
      <4>3. Merge(p, StatsFor(p, in, R), StatsFor(p, in, S)) = StatsFor(p, in, R \cup S)
        BY <4>2, MergeFacts
      <4> QED
        BY <3>1, <4>1, <4>3, Zenon
    <3>4. st[nm] = Merge(p, e.stats[nm], s.stats[nm])
      BY <2>2
    <3> QED
      BY <2>1, <3>3, <3>4, Zenon
  <2>3. CASE nm[1] # n
    <3>1. RowsIn(in, nm, J) = RowsIn(in, nm, J \cup A)
      BY <2>3 DEF RowsIn, RowsFor, RowsAmong
    <3>2. st[nm] = e.stats[nm]
      BY <2>3
    <3> QED
      BY <2>1, <3>1, <3>2, Zenon
  <2> QED
    BY <2>2, <2>3
<1>7. st = StatsOf(p, in, J \cup A)
  BY <1>6 DEF StatsOf
<1>8. PICK f : f = MergeChannel(p, d, s, n)
  OBVIOUS
<1>9. f.names = e.names
  BY <1>4, <1>8
<1> HIDE DEF e, st, A
<1>10. Summarises(p, in, f, J \cup A)
  BY <1>2, <1>3, <1>4, <1>7, <1>8, <1>9, Zenon DEF Summarises
<1> QED
  BY <1>8, <1>10 DEF A

---------------------------------------------------------------------------
(* The two folds over contexts: over the rows of a share, and over the     *)
(* channels of another thread (a says which).  FoldLeft recurs on the set  *)
(* of the indices it has still to visit.                                   *)
Step(a, c, x) ==
  IF a.merging THEN MergeChannel(a.p, c, a.from, x) ELSE CountRow(a.p, c, x)

Folded(g, a, c, seq, s) == IF s = {} THEN c ELSE Step(a, g[s \ {Max(s)}], seq[Max(s)])

Folds(g, a, c, seq) == g = [s \in SUBSET DOMAIN seq |-> Folded(g, a, c, seq, s)]

LEMMA LastOut ==
  ASSUME NEW n \in Nat, NEW s \in SUBSET (1..n), s # {}
  PROVE  /\ Max(s) \in s /\ s \ {Max(s)} \in SUBSET (1..n)
         /\ Cardinality(s) \in Nat /\ Cardinality(s \ {Max(s)}) = Cardinality(s) - 1
<1>1. s \subseteq 0..n
  OBVIOUS
<1>2. Max(s) \in s
  BY <1>1, Extremes
<1>3. IsFiniteSet(1..n)
  BY FS_Interval
<1>4. IsFiniteSet(s)
  BY <1>3, FS_Subset
<1>5. Cardinality(s \ {Max(s)}) = Cardinality(s) - 1
  BY <1>2, <1>4, FS_RemoveElement
<1> QED
  BY <1>2, <1>4, <1>5, FS_CardinalityType

LEMMA FoldExists ==
  ASSUME NEW a, NEW c, NEW seq, Len(seq) \in Nat, DOMAIN seq = 1..Len(seq)
  PROVE  \E g : Folds(g, a, c, seq)
<1> DEFINE D == 1..Len(seq)
           Below(n) == {s \in SUBSET D : Cardinality(s) <= n}
           T == {n \in Nat : \E g : \A s \in Below(n) : g[s] = Folded(g, a, c, seq, s)}
<1>1. /\ IsFiniteSet(D)
      /\ \A s \in SUBSET D : Cardinality(s) \in Nat /\ (Cardinality(s) = 0 <=> s = {})
  <2>1. IsFiniteSet(D)
    BY FS_Interval
  <2>2. \A s \in SUBSET D : IsFiniteSet(s)
    BY <2>1, FS_Subset
  <2> QED
    BY <2>1, <2>2, FS_CardinalityType, FS_EmptySet
<1>2. 0 \in T
  <2> DEFINE g == [s \in Below(0) |-> c]
  <2>1. \A s \in Below(0) : s = {}
    BY <1>1
  <2>2. \A s \in Below(0) : g[s] = Folded(g, a, c, seq, s)
    BY <2>1 DEF Folded
  <2> HIDE DEF g
  <2> QED
    BY <2>2
<1>3. ASSUME NEW n \in Nat, n \in T
      PROVE  n + 1 \in T
  <2>1. PICK g : \A s \in Below(n) : g[s] = Folded(g, a, c, seq, s)
    BY <1>3
  <2> DEFINE h == [s \in Below(n + 1) |-> Folded(g, a, c, seq, s)]
  <2>2. Below(n) \subseteq Below(n + 1)
    BY <1>1
  <2>3. \A s \in Below(n + 1) : s # {} => s \ {Max(s)} \in Below(n)
    <3> SUFFICES ASSUME NEW s \in Below(n + 1), s # {}
                 PROVE  s \ {Max(s)} \in Below(n)
      OBVIOUS
    <3>1. s \in SUBSET D /\ Cardinality(s) <= n + 1
      OBVIOUS
    <3>2. /\ s \ {Max(s)} \in SUBSET D
          /\ Cardinality(s) \in Nat /\ Cardinality(s \ {Max(s)}) = Cardinality(s) - 1
      BY <3>1, LastOut
    <3> QED
      BY <3>1, <3>2
  <2> HIDE DEF Below
  <2>4. \A s \in Below(n + 1) : h[s] = Folded(g, a, c, seq, s)
    OBVIOUS
  <2>5. \A s \in Below(n) : h[s] = g[s]
    BY <2>1, <2>2, <2>4, Zenon
  <2> HIDE DEF h
  <2>6. \A s \in Below(n + 1) : Folded(g, a, c, seq, s) = Folded(h, a, c, seq, s)
    BY <2>3, <2>5, Zenon DEF Folded
  <2>7. \A s \in Below(n + 1) : h[s] = Folded(h, a, c, seq, s)
    BY <2>4, <2>6, Zenon
  <2> QED
    BY <2>7
<1> HIDE DEF T
<1>4. Cardinality(D) \in Nat
  BY <1>1, FS_CardinalityType
<1>5. Cardinality(D) \in T
  BY <1>2, <1>3, <1>4, NatInduct
<1>6. PICK g : \A s \in Below(Cardinality(D)) : g[s] = Folded(g, a, c, seq, s)
  BY <1>5 DEF T
<1>7. SUBSET D \subseteq Below(Cardinality(D))
  BY <1>1, FS_Subset
<1> DEFINE h == [s \in SUBSET D |-> g[s]]
<1>8. \A s \in SUBSET D : h[s] = g[s] /\ (s # {} => s \ {Max(s)} \in SUBSET D)
  OBVIOUS
<1>9. h = [s \in SUBSET D |-> h[s]]
  OBVIOUS
<1> HIDE DEF h, Below
<1>10. \A s \in SUBSET D : h[s] = Folded(h, a, c, seq, s)
  <2>1. \A s \in SUBSET D : Folded(g, a, c, seq, s) = Folded(h, a, c, seq, s)
    BY <1>8, Zenon DEF Folded
  <2>2. \A s \in SUBSET D : g[s] = Folded(g, a, c, seq, s)
    BY <1>6, <1>7, Zenon
  <2> QED
    BY <1>8, <2>1, <2>2, Zenon
<1>11. h = [s \in SUBSET D |-> Folded(h, a, c, seq, s)]
  BY <1>9, <1>10, Zenon
<1>12. Folds(h, a, c, seq)
  BY <1>11, Zenon DEF Folds
<1> QED
  BY <1>12

LEMMA FoldSteps ==
  ASSUME NEW a, NEW c, NEW seq, Len(seq) \in Nat, DOMAIN seq = 1..Len(seq),
         NEW g, Folds(g, a, c, seq)
  PROVE  \E h : /\ h[0] = c /\ h[Len(seq)] = g[DOMAIN seq]
                /\ \A k \in 1..Len(seq) : h[k] = Step(a, h[k - 1], seq[k])
<1> DEFINE h == [k \in 0..Len(seq) |-> g[1..k]]
<1>1. \A s \in SUBSET (1..Len(seq)) : g[s] = Folded(g, a, c, seq, s)
  BY DEF Folds
<1>2. \A k \in 0..Len(seq) : 1..k \in SUBSET (1..Len(seq)) /\ h[k] = g[1..k]
  OBVIOUS
<1>3. h[0] = c
  <2>1. 1..0 = {} /\ 0 \in 0..Len(seq)
    OBVIOUS
  <2> HIDE DEF h
  <2> QED
    BY <1>1, <1>2, <2>1, Zenon DEF Folded
<1>4. h[Len(seq)] = g[DOMAIN seq]
  OBVIOUS
<1>5. ASSUME NEW k \in 1..Len(seq)
      PROVE  h[k] = Step(a, h[k - 1], seq[k])
  <2>0. k \in Nat /\ k > 0 /\ k <= Len(seq) /\ k - 1 \in Nat
    OBVIOUS
  <2>1. k \in 0..Len(seq) /\ k - 1 \in 0..Len(seq) /\ (1..k) \ {k} = 1..(k - 1) /\ 1..k # {}
    <3>1. k \in 0..Len(seq) /\ k - 1 \in 0..Len(seq) /\ k \in 1..k
      BY <2>0
    <3>2. \A i : i \in (1..k) \ {k} <=> i \in 1..(k - 1)
      BY <2>0
    <3> QED
      BY <3>1, <3>2
  <2>2. Max(1..k) = k
    <3>1. 1..k \subseteq Nat /\ k \in 1..k /\ \A i \in 1..k : i <= k
      OBVIOUS
    <3> QED
      BY <3>1, MaxIs
  <2> HIDE DEF h
  <2>3. g[1..k] = Step(a, g[(1..k) \ {Max(1..k)}], seq[Max(1..k)])
    BY <1>1, <1>2, <2>1, Zenon DEF Folded
  <2> QED
    BY <1>2, <2>1, <2>2, <2>3, Zenon
<1> HIDE DEF h
<1> QED
  BY <1>3, <1>4, <1>5, Zenon

CountSteps(h, p, c, rows) ==
  /\ h[0] = c /\ h[Len(rows)] = CountRows(p, c, rows)
  /\ \A k \in 1..Len(rows) : h[k] = CountRow(p, h[k - 1], rows[k])

LEMMA CountRowsSteps ==
  ASSUME NEW p, NEW c, NEW rows, Len(rows) \in Nat, DOMAIN rows = 1..Len(rows)
  PROVE  \E h : CountSteps(h, p, c, rows)
<1> DEFINE a == [merging |-> FALSE, p |-> p, from |-> p]
           Fold(g) == g = [s \in SUBSET DOMAIN rows |->
                             IF s = {} THEN c ELSE CountRow(p, g[s \ {Max(s)}], rows[Max(s)])]
<1>1. \A d, r : Step(a, d, r) = CountRow(p, d, r)
  BY DEF Step
<1> HIDE DEF a
<1>2. \A g, s : Folded(g, a, c, rows, s)
                  = IF s = {} THEN c ELSE CountRow(p, g[s \ {Max(s)}], rows[Max(s)])
  BY <1>1, Zenon DEF Folded
<1>3. \A g : Folds(g, a, c, rows) <=> Fold(g)
  BY <1>2 DEF Folds
<1>4. CountRows(p, c, rows) = (CHOOSE g : Fold(g))[DOMAIN rows]
  BY Zenon DEF CountRows, FoldLeft, MapThenFoldSet
<1> HIDE DEF Fold
<1>5. \E g : Fold(g)
  BY <1>3, FoldExists, Zenon
<1>6. PICK g : Fold(g) /\ g = CHOOSE f : Fold(f)
  BY <1>5, Zenon
<1>7. Folds(g, a, c, rows) /\ CountRows(p, c, rows) = g[DOMAIN rows]
  BY <1>3, <1>4, <1>6, Zenon
<1>8. PICK h : /\ h[0] = c /\ h[Len(rows)] = g[DOMAIN rows]
               /\ \A k \in 1..Len(rows) : h[k] = Step(a, h[k - 1], rows[k])
  BY <1>7, FoldSteps
<1>9. CountSteps(h, p, c, rows)
  BY <1>1, <1>7, <1>8, Zenon DEF CountSteps
<1> QED
  BY <1>9, Zenon

MergeSteps(h, p, d, from, names) ==
  /\ h[0] = d /\ h[Len(names)] = MergeCtx(p, d, from, names)
  /\ \A k \in 1..Len(names) : h[k] = MergeChannel(p, h[k - 1], from, names[k])

LEMMA MergeCtxSteps ==
  ASSUME NEW p, NEW d, NEW from, NEW names, Len(names) \in Nat, DOMAIN names = 1..Len(names)
  PROVE  \E h : MergeSteps(h, p, d, from, names)
<1> DEFINE a == [merging |-> TRUE, p |-> p, from |-> from]
           Fold(g) == g = [s \in SUBSET DOMAIN names |->
                             IF s = {} THEN d
                             ELSE MergeChannel(p, g[s \ {Max(s)}], from, names[Max(s)])]
<1>1. \A e, n : Step(a, e, n) = MergeChannel(p, e, from, n)
  BY DEF Step
<1> HIDE DEF a
<1>2. \A g, s : Folded(g, a, d, names, s)
                  = IF s = {} THEN d ELSE MergeChannel(p, g[s \ {Max(s)}], from, names[Max(s)])
  BY <1>1, Zenon DEF Folded
<1>3. \A g : Folds(g, a, d, names) <=> Fold(g)
  BY <1>2 DEF Folds
<1>4. MergeCtx(p, d, from, names) = (CHOOSE g : Fold(g))[DOMAIN names]
  BY Zenon DEF MergeCtx, FoldLeft, MapThenFoldSet
<1> HIDE DEF Fold
<1>5. \E g : Fold(g)
  BY <1>3, FoldExists, Zenon
<1>6. PICK g : Fold(g) /\ g = CHOOSE f : Fold(f)
  BY <1>5, Zenon
<1>7. Folds(g, a, d, names) /\ MergeCtx(p, d, from, names) = g[DOMAIN names]
  BY <1>3, <1>4, <1>6, Zenon
<1>8. PICK h : /\ h[0] = d /\ h[Len(names)] = g[DOMAIN names]
               /\ \A k \in 1..Len(names) : h[k] = Step(a, h[k - 1], names[k])
  BY <1>7, FoldSteps
<1>9. MergeSteps(h, p, d, from, names)
  BY <1>1, <1>7, <1>8, Zenon DEF MergeSteps
<1> QED
  BY <1>9, Zenon

LEMMA SubSeqFacts ==
  ASSUME NEW X, NEW in \in Seq(X), NEW u \in 0..Len(in), NEW v \in 0..Len(in), u <= v
  PROVE  /\ SubSeq(in, u + 1, v) \in Seq(X)
         /\ Len(SubSeq(in, u + 1, v)) = v - u /\ v - u \in Nat
         /\ DOMAIN SubSeq(in, u + 1, v) = 1..(v - u)
         /\ \A i \in 1..(v - u) : /\ SubSeq(in, u + 1, v)[i] = in[u + i]
                                  /\ u + i \in 1..Len(in)
<1>1. u \in Nat /\ v \in Nat /\ Len(in) \in Nat /\ v - u \in Nat
  OBVIOUS
<1>2. SubSeq(in, u + 1, v) \in Seq(X) /\ Len(SubSeq(in, u + 1, v)) = v - u
  BY <1>1
<1>3. DOMAIN SubSeq(in, u + 1, v) = 1..(v - u)
  BY <1>2
<1>4. \A i \in 1..(v - u) : SubSeq(in, u + 1, v)[i] = in[u + i] /\ u + i \in 1..Len(in)
  BY <1>1
<1> QED
  BY <1>1, <1>2, <1>3, <1>4

LEMMA CountRowsHolds ==
  ASSUME NEW p \in Programs, NEW in \in Inputs, NEW c, NEW J, Summarises(p, in, c, J),
         J \subseteq DOMAIN in,
         NEW u \in 0..Len(in), NEW v \in 0..Len(in), u <= v, J \cap ((u + 1)..v) = {}
  PROVE  Summarises(p, in, CountRows(p, c, SubSeq(in, u + 1, v)), J \cup ((u + 1)..v))
<1>0. in \in Seq(Rows) /\ Len(in) \in Nat /\ DOMAIN in = 1..Len(in)
  BY InputFacts
<1> DEFINE rows == SubSeq(in, u + 1, v)
<1>1. /\ Len(rows) = v - u /\ v - u \in Nat /\ DOMAIN rows = 1..(v - u)
      /\ \A i \in 1..(v - u) : rows[i] = in[u + i] /\ u + i \in 1..Len(in)
  BY <1>0, SubSeqFacts
<1> HIDE DEF rows
<1>2. PICK n \in Nat : n = v - u /\ v = u + n
  BY <1>0, <1>1
<1>3. PICK h : /\ h[0] = c /\ h[n] = CountRows(p, c, rows)
               /\ \A k \in 1..n : h[k] = CountRow(p, h[k - 1], rows[k])
  <2>0. Len(rows) = n
    BY <1>1, <1>2
  <2>1. Len(rows) \in Nat /\ DOMAIN rows = 1..Len(rows)
    BY <1>1, <1>2
  <2>2. PICK h : CountSteps(h, p, c, rows)
    BY <2>1, CountRowsSteps
  <2> QED
    BY <2>0, <2>2, Zenon DEF CountSteps
<1> DEFINE Until(k) == J \cup ((u + 1)..(u + k))
           T == {k \in Nat : k <= n => Summarises(p, in, h[k], Until(k))}
<1>4. 0 \in T
  <2>1. Until(0) = J
    BY <1>0
  <2> HIDE DEF Until
  <2>2. Summarises(p, in, h[0], Until(0))
    BY <1>3, <2>1, Zenon
  <2> QED
    BY <2>2
<1>5. ASSUME NEW k \in Nat, k \in T
      PROVE  k + 1 \in T
  <2> SUFFICES ASSUME k + 1 <= n PROVE Summarises(p, in, h[k + 1], Until(k + 1))
    OBVIOUS
  <2>1. k <= n /\ k + 1 \in 1..n /\ (k + 1) - 1 = k
    BY <1>2
  <2>2. Summarises(p, in, h[k], Until(k))
    BY <1>5, <2>1
  <2>3. PICK j \in Nat : j = u + (k + 1)
    BY <1>0
  <2>4. j \in DOMAIN in /\ rows[k + 1] = in[j]
    BY <1>0, <1>1, <1>2, <2>1, <2>3
  <2>5. j \notin Until(k) /\ Until(k) \subseteq DOMAIN in /\ Until(k + 1) = Until(k) \cup {j}
    <3>1. j \in (u + 1)..v /\ j \notin (u + 1)..(u + k)
      BY <1>0, <1>2, <2>1, <2>3
    <3>2. (u + 1)..(u + k) \subseteq 1..Len(in)
      BY <1>0, <1>2, <2>1
    <3>3. (u + 1)..(u + (k + 1)) = ((u + 1)..(u + k)) \cup {j}
      BY <1>0, <2>3
    <3> QED
      BY <1>0, <3>1, <3>2, <3>3
  <2> HIDE DEF Until
  <2>6. Summarises(p, in, CountRow(p, h[k], in[j]), Until(k) \cup {j})
    BY <2>2, <2>4, <2>5, CountRowFacts
  <2>7. h[k + 1] = CountRow(p, h[k], in[j])
    BY <1>3, <2>1, <2>4, Zenon
  <2> QED
    BY <2>5, <2>6, <2>7, Zenon
<1> HIDE DEF T
<1>6. n \in T
  BY <1>4, <1>5, NatInduct
<1>7. Summarises(p, in, h[n], Until(n))
  BY <1>6 DEF T
<1>8. Until(n) = J \cup ((u + 1)..v)
  BY <1>2
<1> HIDE DEF Until
<1>9. Summarises(p, in, CountRows(p, c, rows), J \cup ((u + 1)..v))
  BY <1>3, <1>7, <1>8, Zenon
<1> QED
  BY <1>9 DEF rows

---------------------------------------------------------------------------
(* The orders of a set name every element of it once.                      *)
LEMMA SeqsOnto ==
  ASSUME NEW S, IsFiniteSet(S), NEW q \in SetToSeqs(S)
  PROVE  /\ q \in Seq(S) /\ Len(q) \in Nat /\ DOMAIN q = 1..Len(q)
         /\ IsInjective(q) /\ Range(q) = S
<1>1. PICK n \in Nat : n = Cardinality(S)
  BY FS_CardinalityType
<1>2. q \in [1..n -> S] /\ \A i, j \in 1..n : i # j => q[i] # q[j]
  BY <1>1, Zenon DEF SetToSeqs
<1>3. q \in Injection(1..n, S)
  BY <1>2, Zenon DEF Injection, IsInjective
<1>4. Cardinality(1..n) = n /\ IsFiniteSet(1..n)
  BY FS_Interval
<1>5. q \in Surjection(1..n, S)
  BY <1>1, <1>3, <1>4, FS_Injection
<1>6. \A x \in S : \E i \in 1..n : q[i] = x
  BY <1>5 DEF Surjection
<1>7. DOMAIN q = 1..n /\ q \in Seq(S) /\ Len(q) = n
  BY <1>2
<1>8. IsInjective(q)
  BY <1>2, <1>7, Zenon DEF IsInjective
<1>9. Range(q) = S
  BY <1>2, <1>6, <1>7 DEF Range
<1> QED
  BY <1>7, <1>8, <1>9

LEMMA FiniteRange ==
  ASSUME NEW X, NEW s \in Seq(X)
  PROVE  IsFiniteSet(Range(s)) /\ IsFiniteSet(DOMAIN s)
<1>1. Len(s) \in Nat /\ DOMAIN s = 1..Len(s)
  OBVIOUS
<1>2. IsFiniteSet(DOMAIN s)
  BY <1>1, FS_Interval
<1>3. s \in [DOMAIN s -> Range(s)] /\ \A x \in Range(s) : \E i \in DOMAIN s : s[i] = x
  <2>1. s = [i \in DOMAIN s |-> s[i]]
    OBVIOUS
  <2>2. \A i \in DOMAIN s : s[i] \in Range(s)
    BY Zenon DEF Range
  <2>3. \A x \in Range(s) : \E i \in DOMAIN s : s[i] = x
    BY Zenon DEF Range
  <2> QED
    BY <2>1, <2>2, <2>3
<1>4. s \in Surjection(DOMAIN s, Range(s))
  BY <1>3 DEF Surjection
<1> QED
  BY <1>2, <1>4, FS_Surjection

LEMMA OrdersFacts ==
  ASSUME NEW names \in Seq(Channels), IsInjective(names), NEW by, NEW q \in Orders(names, by)
  PROVE  /\ q \in Seq(Channels) /\ IsInjective(q) /\ Range(q) = Range(names)
         /\ Len(q) \in Nat /\ DOMAIN q = 1..Len(q)
<1>1. CASE by = "ids"
  <2>1. q = names
    BY <1>1, Zenon DEF Orders
  <2> QED
    BY <2>1
<1>2. CASE by # "ids"
  <2>1. q \in SetToSeqs(Range(names))
    BY <1>2, Zenon DEF Orders
  <2>2. IsFiniteSet(Range(names)) /\ Range(names) \subseteq Channels
    BY FiniteRange DEF Range
  <2>3. /\ q \in Seq(Range(names)) /\ Len(q) \in Nat /\ DOMAIN q = 1..Len(q)
        /\ IsInjective(q) /\ Range(q) = Range(names)
    BY <2>1, <2>2, SeqsOnto
  <2>4. q \in Seq(Channels)
    BY <2>2, <2>3
  <2> QED
    BY <2>3, <2>4
<1> QED
  BY <1>1, <1>2

LEMMA RenumberHolds ==
  ASSUME NEW p, NEW in, NEW c, NEW J, Summarises(p, in, c, J), NEW d \in Renumberings(c)
  PROVE  Summarises(p, in, d, J)
<1>1. PICK q \in SetToSeqs(DOMAIN c.names) : d = [c EXCEPT !.names = [k \in DOMAIN q |-> @[q[k]]]]
  BY Zenon DEF Renumberings
<1>2. /\ c.names \in Seq(Channels) /\ IsInjective(c.names)
      /\ Range(c.names) = ChannelsOf(in, J)
      /\ c = [names |-> c.names, stats |-> StatsOf(p, in, J)]
  BY Zenon DEF Summarises
<1>3. PICK ns \in Seq(Channels) : ns = c.names
  BY <1>2
<1>4. /\ q \in Seq(DOMAIN ns) /\ Len(q) \in Nat /\ DOMAIN q = 1..Len(q)
      /\ IsInjective(q) /\ Range(q) = DOMAIN ns
  <2>1. IsFiniteSet(DOMAIN ns)
    BY FiniteRange
  <2>2. q \in SetToSeqs(DOMAIN ns)
    BY <1>1, <1>3, Zenon
  <2> QED
    BY <2>1, <2>2, SeqsOnto
<1> DEFINE ms == [k \in DOMAIN q |-> ns[q[k]]]
<1>5. \A k \in DOMAIN q : q[k] \in DOMAIN ns /\ ms[k] = ns[q[k]] /\ ns[q[k]] \in Channels
  BY <1>4
<1>6. DOMAIN ms = DOMAIN q /\ ms \in Seq(Channels)
  BY <1>4, <1>5
<1>7. d = [names |-> ms, stats |-> StatsOf(p, in, J)] /\ d.names = ms
  <2>1. \A x, y, z : [[names |-> x, stats |-> y] EXCEPT !.names = z] = [names |-> z, stats |-> y]
    OBVIOUS
  <2>2. d = [c EXCEPT !.names = [k \in DOMAIN q |-> ns[q[k]]]]
    BY <1>1, <1>3
  <2> HIDE DEF ms
  <2>3. d = [[names |-> ns, stats |-> StatsOf(p, in, J)] EXCEPT !.names = ms]
    BY <1>2, <1>3, <2>2, Zenon DEF ms
  <2>4. d = [names |-> ms, stats |-> StatsOf(p, in, J)]
    BY <2>1, <2>3, Zenon
  <2> QED
    BY <2>4
<1> HIDE DEF ms
<1>8. /\ \A i, j \in DOMAIN ns : ns[i] = ns[j] => i = j
      /\ \A i, j \in DOMAIN q : q[i] = q[j] => i = j
      /\ \A i \in DOMAIN ns : \E k \in DOMAIN q : q[k] = i
  <2>1. IsInjective(ns) /\ IsInjective(q) /\ Range(q) = DOMAIN ns
    BY <1>2, <1>3, <1>4, Zenon
  <2> QED
    BY <2>1, Zenon DEF IsInjective, Range
<1>9. PICK D : D = DOMAIN q /\ D = DOMAIN ms
  BY <1>6
<1>10. \A k \in D : q[k] \in DOMAIN ns /\ ms[k] = ns[q[k]]
  BY <1>5, <1>9, Zenon
<1>11. IsInjective(ms)
  <2>1. \A i, j \in D : q[i] = q[j] => i = j
    BY <1>8, <1>9, Zenon
  <2>2. ASSUME NEW i \in D, NEW j \in D, ms[i] = ms[j]
        PROVE  q[i] = q[j]
    <3>1. q[i] \in DOMAIN ns /\ q[j] \in DOMAIN ns /\ ns[q[i]] = ns[q[j]]
      BY <1>10, <2>2, Zenon
    <3> QED
      BY <1>8, <3>1, Zenon
  <2>3. \A i, j \in D : ms[i] = ms[j] => i = j
    BY <2>1, <2>2, Zenon
  <2> QED
    BY <1>9, <2>3, Zenon DEF IsInjective
<1>12. Range(ms) = Range(ns)
  <2>1. Range(ms) = {ms[k] : k \in D} /\ Range(ns) = {ns[i] : i \in DOMAIN ns}
    BY <1>9, Zenon DEF Range
  <2>2. \A i \in DOMAIN ns : \E k \in D : q[k] = i
    BY <1>8, <1>9, Zenon
  <2> QED
    BY <1>10, <2>1, <2>2
<1> QED
  BY <1>2, <1>3, <1>6, <1>7, <1>11, <1>12, Zenon DEF Summarises

(* A worker counts the rows of its share, renumbered or not.               *)
LEMMA WorkerHolds ==
  ASSUME NEW p \in Programs, NEW in \in Inputs, NEW c, NEW J, Summarises(p, in, c, J),
         J \subseteq DOMAIN in,
         NEW u \in 0..Len(in), NEW v \in 0..Len(in), u <= v, J \cap ((u + 1)..v) = {},
         NEW d \in WorkerResults(p, c, SubSeq(in, u + 1, v))
  PROVE  Summarises(p, in, d, J \cup ((u + 1)..v))
<1>0. in \in Seq(Rows) /\ Len(in) \in Nat /\ DOMAIN in = 1..Len(in)
  BY InputFacts
<1> DEFINE rows == SubSeq(in, u + 1, v)
           Split(k) == \E e \in Renumberings(CountRows(p, c, SubSeq(rows, 1, k))) :
                         d = CountRows(p, e, SubSeq(rows, k + 1, Len(rows)))
<1>1. d = CountRows(p, c, rows) \/ \E k \in 1..Len(rows) : Split(k)
  BY Zenon DEF WorkerResults
<1>2. CASE d = CountRows(p, c, rows)
  <2>1. Summarises(p, in, CountRows(p, c, rows), J \cup ((u + 1)..v))
    BY CountRowsHolds
  <2> QED
    BY <1>2, <2>1, Zenon
<1>3. CASE \E k \in 1..Len(rows) : Split(k)
  <2>1. /\ rows \in Seq(Rows) /\ Len(rows) = v - u /\ v - u \in Nat
        /\ \A i \in 1..(v - u) : rows[i] = in[u + i]
    BY <1>0, SubSeqFacts
  <2>2. PICK k \in 1..(v - u) : Split(k)
    BY <1>3, <2>1
  <2>3. PICK b \in 0..Len(in) : b = u + k /\ u <= b /\ b <= v
    BY <1>0, <2>1
  <2>4. SubSeq(rows, 1, k) = SubSeq(in, u + 1, b)
    <3>1. /\ Len(SubSeq(in, u + 1, b)) = b - u /\ SubSeq(in, u + 1, b) \in Seq(Rows)
          /\ \A i \in 1..(b - u) : SubSeq(in, u + 1, b)[i] = in[u + i]
      BY <1>0, <2>3, SubSeqFacts
    <3>2. b - u = k /\ k \in 0..Len(rows) /\ 0 \in 0..Len(rows) /\ 0 <= k /\ k - 0 = k /\ 0 + 1 = 1
      BY <1>0, <2>1, <2>3
    <3> HIDE DEF rows
    <3>3. /\ SubSeq(rows, 0 + 1, k) \in Seq(Rows) /\ Len(SubSeq(rows, 0 + 1, k)) = k - 0
          /\ \A i \in 1..(k - 0) : SubSeq(rows, 0 + 1, k)[i] = rows[0 + i]
      BY <2>1, <3>2, SubSeqFacts
    <3>4. PICK s1 \in Seq(Rows), s2 \in Seq(Rows) : s1 = SubSeq(rows, 1, k) /\ s2 = SubSeq(in, u + 1, b)
      BY <3>1, <3>2, <3>3
    <3>5. \A i \in 1..k : rows[i] = in[u + i] /\ 0 + i = i
      BY <2>1
    <3>6. Len(s1) = k /\ Len(s2) = k /\ \A i \in 1..k : s1[i] = s2[i]
      <4>1. Len(s2) = k /\ \A i \in 1..k : s2[i] = in[u + i]
        BY <3>1, <3>2, <3>4, Zenon
      <4>2. Len(s1) = k /\ \A i \in 1..k : s1[i] = rows[0 + i]
        BY <3>2, <3>3, <3>4, Zenon
      <4> QED
        BY <3>5, <4>1, <4>2, Zenon
    <3>7. s1 = s2
      BY <3>6
    <3> QED
      BY <3>4, <3>7
  <2>5. SubSeq(rows, k + 1, Len(rows)) = SubSeq(in, b + 1, v)
    <3>1. /\ Len(SubSeq(in, b + 1, v)) = v - b /\ SubSeq(in, b + 1, v) \in Seq(Rows)
          /\ \A i \in 1..(v - b) : SubSeq(in, b + 1, v)[i] = in[b + i]
      BY <1>0, <2>3, SubSeqFacts
    <3>2. Len(rows) - k = v - b /\ k \in 0..Len(rows) /\ Len(rows) \in 0..Len(rows) /\ k <= Len(rows)
      BY <1>0, <2>1, <2>3
    <3> HIDE DEF rows
    <3>3. /\ SubSeq(rows, k + 1, Len(rows)) \in Seq(Rows)
          /\ Len(SubSeq(rows, k + 1, Len(rows))) = Len(rows) - k
          /\ \A i \in 1..(Len(rows) - k) : SubSeq(rows, k + 1, Len(rows))[i] = rows[k + i]
      BY <2>1, <3>2, SubSeqFacts
    <3>4. PICK s1 \in Seq(Rows), s2 \in Seq(Rows) :
            s1 = SubSeq(rows, k + 1, Len(rows)) /\ s2 = SubSeq(in, b + 1, v)
      BY <3>1, <3>3
    <3>5. \A i \in 1..(v - b) : rows[k + i] = in[b + i]
      <4> SUFFICES ASSUME NEW i \in 1..(v - b) PROVE rows[k + i] = in[b + i]
        OBVIOUS
      <4>1. k + i \in 1..(v - u) /\ u + (k + i) = b + i
        BY <1>0, <2>1, <2>3
      <4> QED
        BY <2>1, <4>1, Zenon
    <3>6. Len(s1) = Len(s2) /\ \A i \in 1..Len(s1) : s1[i] = s2[i]
      BY <3>1, <3>2, <3>3, <3>4, <3>5, Zenon
    <3>7. s1 = s2
      BY <3>6
    <3> QED
      BY <3>4, <3>7
  <2>6. PICK e \in Renumberings(CountRows(p, c, SubSeq(in, u + 1, b))) :
          d = CountRows(p, e, SubSeq(in, b + 1, v))
    BY <2>2, <2>4, <2>5, Zenon
  <2>7. J \cap ((u + 1)..b) = {}
    BY <2>3
  <2>8. Summarises(p, in, CountRows(p, c, SubSeq(in, u + 1, b)), J \cup ((u + 1)..b))
    BY <2>3, <2>7, CountRowsHolds
  <2>9. Summarises(p, in, e, J \cup ((u + 1)..b))
    BY <2>6, <2>8, RenumberHolds, Zenon
  <2> DEFINE K == J \cup ((u + 1)..b)
  <2>10. K \subseteq DOMAIN in /\ K \cap ((b + 1)..v) = {} /\ K \cup ((b + 1)..v) = J \cup ((u + 1)..v)
    BY <1>0, <2>3
  <2> HIDE DEF K
  <2>11. Summarises(p, in, CountRows(p, e, SubSeq(in, b + 1, v)), K \cup ((b + 1)..v))
    <3>1. Summarises(p, in, e, K)
      BY <2>9 DEF K
    <3> QED
      BY <2>3, <2>10, <3>1, CountRowsHolds
  <2> QED
    BY <2>6, <2>10, <2>11, Zenon
<1> QED
  BY <1>1, <1>2, <1>3

(* main adds the rows of a thread to its own, in any order of channels.    *)
LEMMA MergeCtxHolds ==
  ASSUME NEW p \in Programs, p.least = "top", NEW in \in Inputs,
         NEW d, NEW J, Summarises(p, in, d, J), J \subseteq DOMAIN in,
         NEW s, NEW K, Summarises(p, in, s, K), K \subseteq DOMAIN in, J \cap K = {},
         NEW names \in Orders(s.names, p.merge)
  PROVE  Summarises(p, in, MergeCtx(p, d, s, names), J \cup K)
<1>1. /\ names \in Seq(Channels) /\ IsInjective(names) /\ Range(names) = ChannelsOf(in, K)
      /\ Len(names) \in Nat /\ DOMAIN names = 1..Len(names)
  <2>1. s.names \in Seq(Channels) /\ IsInjective(s.names) /\ Range(s.names) = ChannelsOf(in, K)
    BY Zenon DEF Summarises
  <2>2. /\ names \in Seq(Channels) /\ IsInjective(names) /\ Range(names) = Range(s.names)
        /\ Len(names) \in Nat /\ DOMAIN names = 1..Len(names)
    BY <2>1, OrdersFacts
  <2> QED
    BY <2>1, <2>2, Zenon
<1>2. PICK n \in Nat : n = Len(names)
  BY <1>1
<1>3. PICK h : /\ h[0] = d /\ h[n] = MergeCtx(p, d, s, names)
               /\ \A k \in 1..n : h[k] = MergeChannel(p, h[k - 1], s, names[k])
  <2>1. Len(names) \in Nat /\ DOMAIN names = 1..Len(names)
    BY <1>1
  <2>2. PICK h : MergeSteps(h, p, d, s, names)
    BY <2>1, MergeCtxSteps
  <2> QED
    BY <1>2, <2>2, Zenon DEF MergeSteps
<1>4. /\ \A i, j \in 1..n : names[i] = names[j] => i = j
      /\ \A i \in 1..n : names[i] \in ChannelsOf(in, K)
      /\ \A x \in ChannelsOf(in, K) : \E i \in 1..n : names[i] = x
  BY <1>1, <1>2, Zenon DEF IsInjective, Range
<1> DEFINE First(k) == {names[i] : i \in 1..k}
           Until(k) == J \cup RowsAmong(in, K, First(k))
           T == {k \in Nat : k <= n => Summarises(p, in, h[k], Until(k))}
<1>5. 0 \in T
  <2>1. Until(0) = J
    BY DEF RowsAmong
  <2> HIDE DEF Until
  <2>2. Summarises(p, in, h[0], Until(0))
    BY <1>3, <2>1, Zenon
  <2> QED
    BY <2>2
<1>6. ASSUME NEW k \in Nat, k \in T
      PROVE  k + 1 \in T
  <2> SUFFICES ASSUME k + 1 <= n PROVE Summarises(p, in, h[k + 1], Until(k + 1))
    OBVIOUS
  <2>1. k <= n /\ k + 1 \in 1..n /\ (k + 1) - 1 = k
    OBVIOUS
  <2>2. Summarises(p, in, h[k], Until(k))
    BY <1>6, <2>1
  <2>3. PICK x \in ChannelsOf(in, K) : x = names[k + 1]
    BY <1>4, <2>1
  <2>4. First(k + 1) = First(k) \cup {x} /\ x \notin First(k)
    <3>1. \A i \in Nat : i \in 1..(k + 1) <=> i \in 1..k \/ i = k + 1
      OBVIOUS
    <3>2. \A i \in 1..k : i \in 1..n /\ i # k + 1
      BY <2>1
    <3>3. x \notin First(k)
      BY <1>4, <2>1, <2>3, <3>2
    <3> QED
      BY <2>3, <3>1, <3>3
  <2>5. /\ Until(k + 1) = Until(k) \cup RowsAmong(in, K, {x})
        /\ Until(k) \cap RowsAmong(in, K, {x}) = {} /\ Until(k) \subseteq DOMAIN in
    <3> HIDE DEF First
    <3> QED
      BY <2>4 DEF RowsAmong
  <2> HIDE DEF Until
  <2>6. Summarises(p, in, MergeChannel(p, h[k], s, x), Until(k) \cup RowsAmong(in, K, {x}))
    BY <2>2, <2>5, MergeChannelFacts
  <2>7. h[k + 1] = MergeChannel(p, h[k], s, x)
    BY <1>3, <2>1, <2>3, Zenon
  <2> QED
    BY <2>5, <2>6, <2>7, Zenon
<1> HIDE DEF T
<1>7. n \in T
  BY <1>5, <1>6, NatInduct
<1>8. Summarises(p, in, h[n], Until(n))
  BY <1>7 DEF T
<1>9. Until(n) = J \cup K
  <2>1. \A j \in K : in[j].channel \in First(n)
    BY <1>4 DEF ChannelsOf
  <2> HIDE DEF First
  <2> QED
    BY <2>1 DEF RowsAmong
<1> HIDE DEF Until
<1> QED
  BY <1>3, <1>8, <1>9, Zenon

---------------------------------------------------------------------------
(* The lines: one for each channel and month that have rows.               *)
LineFor(p, in, J, n, m) ==
  LET s == StatsFor(p, in, RowsIn(in, <<n, m>>, J)) IN
  [channel |-> n, month |-> m, min |-> s.min, max |-> s.max,
   total |-> s.total, count |-> s.count, stamps |-> s.stamps]

HasRows(in, J, n, m) == RowsIn(in, <<n, m>>, J) # {}

LinesFor(p, in, J) ==
  {LineFor(p, in, J, nm[1], nm[2]) :
     nm \in {pair \in Channels \X Months : HasRows(in, J, pair[1], pair[2])}}

LEMMA LineOfIs ==
  ASSUME NEW p \in Programs, NEW in \in Inputs, NEW c, NEW J, Summarises(p, in, c, J),
         NEW n \in Channels, NEW m \in Months
  PROVE  LineOf(c, n, m) = IF HasRows(in, J, n, m) THEN <<LineFor(p, in, J, n, m)>> ELSE <<>>
<1> DEFINE R == RowsIn(in, <<n, m>>, J)
           s == StatsFor(p, in, R)
<1>1. c.stats = StatsOf(p, in, J)
  <2>1. \A x, y : [names |-> x, stats |-> y].stats = y
    OBVIOUS
  <2>2. c = [names |-> c.names, stats |-> StatsOf(p, in, J)]
    BY Zenon DEF Summarises
  <2> QED
    BY <2>1, <2>2, Zenon
<1>2. StatsOf(p, in, J)[<<n, m>>] = s
  BY DEF StatsOf
<1>3. c.stats[<<n, m>>] = s
  BY <1>1, <1>2, Zenon
<1>4. s.count = 0 <=> R = {}
  <2>1. R \subseteq RowsFor(in, n, m)
    BY DEF RowsIn
  <2>2. Cardinality(R) = 0 <=> R = {}
    BY <2>1, PartFits, Zenon
  <2>3. s.count = Cardinality(R)
    BY DEF StatsFor
  <2> QED
    BY <2>2, <2>3, Zenon
<1>5. LineFor(p, in, J, n, m) =
        [channel |-> n, month |-> m, min |-> s.min, max |-> s.max,
         total |-> s.total, count |-> s.count, stamps |-> s.stamps]
  BY Zenon DEF LineFor
<1>6. HasRows(in, J, n, m) <=> R # {}
  BY Zenon DEF HasRows
<1> HIDE DEF R, s
<1>7. LineOf(c, n, m) =
        IF s.count = 0 THEN <<>>
        ELSE << [channel |-> n, month |-> m, min |-> s.min, max |-> s.max,
                 total |-> s.total, count |-> s.count, stamps |-> s.stamps] >>
  BY <1>3, Zenon DEF LineOf
<1> QED
  BY <1>4, <1>5, <1>6, <1>7, Zenon

LEMMA LineForFields ==
  ASSUME NEW p, NEW in, NEW J, NEW n, NEW m
  PROVE  LineFor(p, in, J, n, m).channel = n /\ LineFor(p, in, J, n, m).month = m
BY DEF LineFor

LEMMA OneOrNone ==
  ASSUME NEW x, NEW X, x \in X
  PROVE  /\ <<x>> \in Seq(X) /\ IsInjective(<<x>>) /\ Range(<<x>>) = {x}
         /\ <<>> \in Seq(X) /\ IsInjective(<<>>) /\ Range(<<>>) = {}
BY DEF IsInjective, Range

(* The lines of one channel.                                               *)
LEMMA ChannelLines ==
  ASSUME NEW p \in Programs, NEW in \in Inputs, NEW c, NEW J, Summarises(p, in, c, J),
         NEW n \in Channels, NEW X, \A m \in Months : LineFor(p, in, J, n, m) \in X
  PROVE  LET seq == FlattenSeq([m \in 1..Cardinality(Months) |-> LineOf(c, n, m)])
         IN  /\ seq \in Seq(X) /\ IsInjective(seq)
             /\ Range(seq) = {LineFor(p, in, J, n, m) : m \in {k \in Months : HasRows(in, J, n, k)}}
<1>1. PICK M \in Nat : M = Cardinality(Months) /\ Months = 1..M
  BY VersionsAssumption, FS_CardinalityType
<1> DEFINE line(m) == LineFor(p, in, J, n, m)
           seqs == [m \in 1..M |-> LineOf(c, n, m)]
<1>2. \A m \in 1..M : seqs[m] = IF HasRows(in, J, n, m) THEN <<line(m)>> ELSE <<>>
  <2> SUFFICES ASSUME NEW m \in 1..M
               PROVE  seqs[m] = IF HasRows(in, J, n, m) THEN <<line(m)>> ELSE <<>>
    OBVIOUS
  <2>1. m \in Months /\ seqs[m] = LineOf(c, n, m)
    BY <1>1
  <2> HIDE DEF seqs
  <2>2. PICK k \in Months : k = m
    BY <2>1
  <2>3. LineOf(c, n, k) = IF HasRows(in, J, n, k) THEN <<LineFor(p, in, J, n, k)>> ELSE <<>>
    BY LineOfIs
  <2> QED
    BY <2>1, <2>2, <2>3, Zenon
<1>3. \A m \in 1..M : /\ seqs[m] \in Seq(X) /\ IsInjective(seqs[m])
                      /\ Range(seqs[m]) = {line(k) : k \in {k \in {m} : HasRows(in, J, n, k)}}
  <2> SUFFICES ASSUME NEW m \in 1..M
               PROVE  /\ seqs[m] \in Seq(X) /\ IsInjective(seqs[m])
                      /\ Range(seqs[m]) = {line(k) : k \in {k \in {m} : HasRows(in, J, n, k)}}
    OBVIOUS
  <2> HIDE DEF line, seqs
  <2>1. line(m) \in X
    BY <1>1 DEF line
  <2>2. /\ <<line(m)>> \in Seq(X) /\ IsInjective(<<line(m)>>) /\ Range(<<line(m)>>) = {line(m)}
        /\ <<>> \in Seq(X) /\ IsInjective(<<>>) /\ Range(<<>>) = {}
    BY <2>1, OneOrNone
  <2>3. CASE HasRows(in, J, n, m)
    <3>1. {line(k) : k \in {k \in {m} : HasRows(in, J, n, k)}} = {line(m)}
      BY <2>3
    <3> QED
      BY <1>2, <2>2, <2>3, <3>1, Zenon
  <2>4. CASE ~ HasRows(in, J, n, m)
    <3>1. {line(k) : k \in {k \in {m} : HasRows(in, J, n, k)}} = {}
      BY <2>4
    <3> QED
      BY <1>2, <2>2, <2>4, <3>1, Zenon
  <2> QED
    BY <2>3, <2>4
<1>4. DOMAIN seqs = 1..M /\ Len(seqs) = M /\ seqs \in Seq(Seq(X))
  <2>1. seqs \in [1..M -> Seq(X)]
    BY <1>3
  <2> HIDE DEF seqs
  <2> QED
    BY <2>1
<1>5. \A m, k \in 1..M : m # k => Range(seqs[m]) \cap Range(seqs[k]) = {}
  <2>1. \A m : line(m).month = m
    BY LineForFields
  <2> HIDE DEF line, seqs
  <2>2. \A m \in 1..M : \A l \in Range(seqs[m]) : l.month = m
    <3>1. \A m : \A l \in {line(k) : k \in {k \in {m} : HasRows(in, J, n, k)}} : l.month = m
      BY <2>1
    <3> QED
      BY <1>3, <3>1, Zenon
  <2> QED
    BY <2>2
<1> HIDE DEF line, seqs
<1>6. PICK seq : seq = FlattenSeq(seqs)
  OBVIOUS
<1>7. /\ seq \in Seq(X) /\ IsInjective(seq)
      /\ Range(seq) = UNION {Range(seqs[i]) : i \in 1..M}
  <2>1. /\ \A i \in 1..Len(seqs) : IsInjective(seqs[i])
        /\ \A i, j \in 1..Len(seqs) : i # j => Range(seqs[i]) \cap Range(seqs[j]) = {}
    BY <1>3, <1>4, <1>5, Zenon
  <2>2. /\ FlattenSeq(seqs) \in Seq(X) /\ IsInjective(FlattenSeq(seqs))
        /\ Range(FlattenSeq(seqs)) = UNION {Range(seqs[i]) : i \in 1..Len(seqs)}
    BY <1>4, <2>1, FlattenOnce, Zenon
  <2> QED
    BY <1>4, <1>6, <2>2, Zenon
<1>8. Range(seq) = {line(m) : m \in {k \in Months : HasRows(in, J, n, k)}}
  <2>1. \A i \in 1..M : \A l : l \in Range(seqs[i]) <=> HasRows(in, J, n, i) /\ l = line(i)
    <3>1. \A i, l : l \in {line(k) : k \in {k \in {i} : HasRows(in, J, n, k)}}
                      <=> HasRows(in, J, n, i) /\ l = line(i)
      OBVIOUS
    <3> QED
      BY <1>3, <3>1, Zenon
  <2>2. \A l : l \in UNION {Range(seqs[i]) : i \in 1..M}
                 <=> \E i \in 1..M : HasRows(in, J, n, i) /\ l = line(i)
    BY <2>1
  <2>3. \A l : l \in {line(m) : m \in {k \in Months : HasRows(in, J, n, k)}}
                 <=> \E i \in 1..M : HasRows(in, J, n, i) /\ l = line(i)
    BY <1>1
  <2> QED
    BY <1>7, <2>2, <2>3
<1>9. seq = FlattenSeq([m \in 1..Cardinality(Months) |-> LineOf(c, n, m)])
  BY <1>1, <1>6, Zenon DEF seqs
<1> QED
  BY <1>7, <1>8, <1>9, Zenon DEF line

LEMMA LinesOfFacts ==
  ASSUME NEW p \in Programs, NEW in \in Inputs, NEW c, NEW J, Summarises(p, in, c, J),
         J \subseteq DOMAIN in, NEW by, NEW names \in Orders(c.names, by)
  PROVE  /\ Len(LinesOf(c, names)) \in Nat
         /\ LinesOf(c, names) \in Seq(LinesFor(p, in, J))
         /\ IsInjective(LinesOf(c, names)) /\ Range(LinesOf(c, names)) = LinesFor(p, in, J)
<1>1. /\ names \in Seq(Channels) /\ IsInjective(names) /\ Range(names) = ChannelsOf(in, J)
      /\ Len(names) \in Nat /\ DOMAIN names = 1..Len(names)
  <2>1. c.names \in Seq(Channels) /\ IsInjective(c.names) /\ Range(c.names) = ChannelsOf(in, J)
    BY Zenon DEF Summarises
  <2>2. /\ names \in Seq(Channels) /\ IsInjective(names) /\ Range(names) = Range(c.names)
        /\ Len(names) \in Nat /\ DOMAIN names = 1..Len(names)
    BY <2>1, OrdersFacts
  <2> QED
    BY <2>1, <2>2, Zenon
<1>2. PICK N \in Nat : N = Len(names)
  BY <1>1
<1>3. /\ \A i, j \in 1..N : names[i] = names[j] => i = j
      /\ \A i \in 1..N : names[i] \in ChannelsOf(in, J)
      /\ \A x \in ChannelsOf(in, J) : \E i \in 1..N : names[i] = x
  BY <1>1, <1>2, Zenon DEF IsInjective, Range
<1>4. ChannelsOf(in, J) \subseteq Channels
  BY InputFacts DEF ChannelsOf
<1> DEFINE line(n, m) == LineFor(p, in, J, n, m)
           X == {line(n, m) : n \in Channels, m \in Months}
           part(n) == FlattenSeq([m \in 1..Cardinality(Months) |-> LineOf(c, n, m)])
           linesOf(n) == {line(n, m) : m \in {k \in Months : HasRows(in, J, n, k)}}
           seqs == [i \in 1..N |-> part(names[i])]
<1>5. ASSUME NEW n \in Channels
      PROVE  part(n) \in Seq(X) /\ IsInjective(part(n)) /\ Range(part(n)) = linesOf(n)
  <2>1. \A m \in Months : LineFor(p, in, J, n, m) \in X
    OBVIOUS
  <2> HIDE DEF X
  <2> QED
    BY <2>1, ChannelLines
<1>6. \A n : \A l \in linesOf(n) : l.channel = n
  BY LineForFields
<1>7. LinesFor(p, in, J) = UNION {linesOf(names[i]) : i \in 1..N}
  <2>1. \A n \in Channels, m \in Months : HasRows(in, J, n, m) => \E i \in 1..N : names[i] = n
    <3>1. \A n, m : HasRows(in, J, n, m) => n \in ChannelsOf(in, J)
      BY DEF HasRows, RowsIn, RowsFor, ChannelsOf
    <3> QED
      BY <1>3, <3>1, Zenon
  <2>2. \A l \in LinesFor(p, in, J) :
           \E n \in Channels, m \in Months : HasRows(in, J, n, m) /\ l = line(n, m)
    BY DEF LinesFor
  <2>3. \A n \in Channels, m \in Months : HasRows(in, J, n, m) => line(n, m) \in LinesFor(p, in, J)
    <3> SUFFICES ASSUME NEW n \in Channels, NEW m \in Months, HasRows(in, J, n, m)
                 PROVE  LineFor(p, in, J, n, m) \in LinesFor(p, in, J)
      OBVIOUS
    <3>1. <<n, m>> \in Channels \X Months /\ <<n, m>>[1] = n /\ <<n, m>>[2] = m
      OBVIOUS
    <3> QED
      BY <3>1 DEF LinesFor
  <2> HIDE DEF line
  <2>4. \A l : l \in LinesFor(p, in, J) => l \in UNION {linesOf(names[i]) : i \in 1..N}
    BY <2>1, <2>2
  <2>5. \A l : l \in UNION {linesOf(names[i]) : i \in 1..N} => l \in LinesFor(p, in, J)
    BY <1>3, <1>4, <2>3
  <2> QED
    BY <2>4, <2>5, Zenon
<1> HIDE DEF line, X, part, linesOf
<1>8. \A i \in 1..N : /\ seqs[i] \in Seq(X) /\ IsInjective(seqs[i])
                      /\ Range(seqs[i]) = linesOf(names[i])
  BY <1>3, <1>4, <1>5
<1>9. DOMAIN seqs = 1..N /\ Len(seqs) = N /\ seqs \in Seq(Seq(X))
  <2>1. seqs \in [1..N -> Seq(X)]
    BY <1>8
  <2> HIDE DEF seqs
  <2> QED
    BY <2>1
<1>10. LinesOf(c, names) = FlattenSeq(seqs)
  BY <1>1, <1>2, Zenon DEF LinesOf, part
<1> HIDE DEF seqs
<1>11. \A i, j \in 1..N : i # j => Range(seqs[i]) \cap Range(seqs[j]) = {}
  BY <1>3, <1>6, <1>8
<1>12. /\ FlattenSeq(seqs) \in Seq(X) /\ IsInjective(FlattenSeq(seqs))
       /\ Range(FlattenSeq(seqs)) = UNION {Range(seqs[i]) : i \in 1..N}
  <2>1. /\ \A i \in 1..Len(seqs) : IsInjective(seqs[i])
        /\ \A i, j \in 1..Len(seqs) : i # j => Range(seqs[i]) \cap Range(seqs[j]) = {}
    BY <1>8, <1>9, <1>11, Zenon
  <2>2. /\ FlattenSeq(seqs) \in Seq(X) /\ IsInjective(FlattenSeq(seqs))
        /\ Range(FlattenSeq(seqs)) = UNION {Range(seqs[i]) : i \in 1..Len(seqs)}
    BY <1>9, <2>1, FlattenOnce, Zenon
  <2> QED
    BY <1>9, <2>2, Zenon
<1>13. UNION {Range(seqs[i]) : i \in 1..N} = LinesFor(p, in, J)
  BY <1>7, <1>8
<1>14. PICK all \in Seq(X) : all = LinesOf(c, names)
  BY <1>10, <1>12, Zenon
<1>15. IsInjective(all) /\ Range(all) = LinesFor(p, in, J)
  BY <1>10, <1>12, <1>13, <1>14, Zenon
<1>16. Len(all) \in Nat /\ all \in Seq(LinesFor(p, in, J))
  <2>1. \A i \in 1..Len(all) : all[i] \in Range(all)
    BY DEF Range
  <2> QED
    BY <1>15, <2>1
<1> QED
  BY <1>14, <1>15, <1>16, Zenon

LEMMA LineOrdersFacts ==
  ASSUME NEW p \in Programs, NEW in \in Inputs, NEW c, NEW J, Summarises(p, in, c, J),
         J \subseteq DOMAIN in, NEW ls \in LineOrders(p, c)
  PROVE  /\ ls \in Seq(LinesFor(p, in, J))
         /\ IsInjective(ls) /\ Range(ls) = LinesFor(p, in, J)
<1>1. CASE p.lines # "buckets"
  <2>1. PICK names \in Orders(c.names, p.lines) : ls = LinesOf(c, names)
    BY <1>1, Zenon DEF LineOrders
  <2> QED
    BY <2>1, LinesOfFacts
<1>2. CASE p.lines = "buckets"
  <2>1. PICK X : X = LinesFor(p, in, J)
    OBVIOUS
  <2>2. /\ LinesOf(c, c.names) \in Seq(X)
        /\ Range(LinesOf(c, c.names)) = X
    <3>1. c.names \in Orders(c.names, "ids")
      BY Zenon DEF Orders
    <3> QED
      BY <2>1, <3>1, LinesOfFacts
  <2>3. IsFiniteSet(X)
    <3>1. PICK q \in Seq(X) : Range(q) = X
      BY <2>2
    <3> QED
      BY <3>1, FiniteRange
  <2>4. ls \in SetToSeqs(X)
    BY <1>2, <2>2, Zenon DEF LineOrders
  <2> QED
    BY <2>1, <2>3, <2>4, SeqsOnto, Zenon
<1> QED
  BY <1>1, <1>2

---------------------------------------------------------------------------
(* The reference's lines.                                                  *)
LEMMA PromiseLine ==
  ASSUME NEW in \in Inputs, NEW n \in Channels, NEW m \in Months
  PROVE  LET R == RowsFor(in, n, m) IN
         Promise!Line(in, n, m) =
           [channel |-> n, month |-> m,
            min |-> Min(LengthsOf(in, R)), max |-> Max(LengthsOf(in, R)),
            total |-> SumFunctionOnSet(Lens(in), R), count |-> Cardinality(R),
            stamps |-> SumFunctionOnSet(Stamps(in), R)]
<1> DEFINE R == RowsFor(in, n, m)
           f == [j \in R |-> in[j].len]
           g == [j \in R |-> in[j].stamps]
<1>1. \A h : Promise!SumFunction(h) = SumFunction(h)
  BY Zenon DEF Promise!SumFunction, SumFunction, Promise!SumFunctionOnSet, SumFunctionOnSet,
     Promise!FoldFunctionOnSet, FoldFunctionOnSet, Promise!MapThenFoldSet, MapThenFoldSet
<1>2. \A S : Promise!Cardinality(S) = Cardinality(S)
  BY Zenon DEF Promise!Cardinality, Cardinality
<1>3. \A S : Promise!Min(S) = Min(S) /\ Promise!Max(S) = Max(S)
  BY Zenon DEF Promise!Min, Min, Promise!Max, Max
<1>4. Promise!RowsFor(in, n, m) = R
  BY Zenon DEF Promise!RowsFor, RowsFor
<1>5. Promise!Line(in, n, m) =
        [channel |-> n, month |-> m, min |-> Min(LengthsOf(in, R)), max |-> Max(LengthsOf(in, R)),
         total |-> SumFunction(f), count |-> Cardinality(R), stamps |-> SumFunction(g)]
  BY <1>1, <1>2, <1>3, <1>4, Zenon DEF Promise!Line, LengthsOf
<1>6. R \subseteq DOMAIN in /\ IsFiniteSet(R)
  <2>1. R \subseteq RowsFor(in, n, m)
    OBVIOUS
  <2> QED
    BY <2>1, PartFits
<1>7. \A j \in R : f[j] = Lens(in)[j] /\ f[j] \in Nat /\ g[j] = Stamps(in)[j] /\ g[j] \in Nat
  <2>1. \A j \in DOMAIN in : /\ Lens(in)[j] = in[j].len /\ Stamps(in)[j] = in[j].stamps
                             /\ Lens(in)[j] \in Nat /\ Stamps(in)[j] \in Nat
    BY InputFacts
  <2>2. \A j \in R : f[j] = in[j].len /\ g[j] = in[j].stamps
    OBVIOUS
  <2> HIDE DEF R, f, g
  <2> QED
    BY <1>6, <2>1, <2>2
<1>8. DOMAIN f = R /\ DOMAIN g = R
  OBVIOUS
<1> HIDE DEF R, f, g
<1>9. /\ SumFunctionOnSet(f, R) = SumFunctionOnSet(Lens(in), R)
      /\ SumFunctionOnSet(g, R) = SumFunctionOnSet(Stamps(in), R)
  BY <1>6, <1>7, SumEqual
<1>10. /\ SumFunction(f) = SumFunctionOnSet(Lens(in), R)
       /\ SumFunction(g) = SumFunctionOnSet(Stamps(in), R)
  BY <1>8, <1>9, Zenon DEF SumFunction
<1> QED
  BY <1>5, <1>10, Zenon DEF R

LEMMA WholeSummary ==
  ASSUME NEW p, NEW in \in Inputs
  PROVE  LinesFor(p, in, DOMAIN in) = Promise!Summary(in)
<1>1. \A n, m : RowsIn(in, <<n, m>>, DOMAIN in) = RowsFor(in, n, m)
  BY DEF RowsIn, RowsFor
<1>2. ASSUME NEW n \in Channels, NEW m \in Months, RowsFor(in, n, m) # {}
      PROVE  LineFor(p, in, DOMAIN in, n, m) = Promise!Line(in, n, m)
  <2> DEFINE R == RowsFor(in, n, m)
             s == StatsFor(p, in, R)
  <2>1. LineFor(p, in, DOMAIN in, n, m) =
          [channel |-> n, month |-> m, min |-> s.min, max |-> s.max,
           total |-> s.total, count |-> s.count, stamps |-> s.stamps]
    BY <1>1, Zenon DEF LineFor
  <2>2. /\ s.min = Min(LengthsOf(in, R)) /\ s.max = Max(LengthsOf(in, R))
        /\ s.total = SumFunctionOnSet(Lens(in), R) /\ s.count = Cardinality(R)
        /\ s.stamps = SumFunctionOnSet(Stamps(in), R)
    BY <1>2 DEF StatsFor
  <2>3. Promise!Line(in, n, m) =
          [channel |-> n, month |-> m,
           min |-> Min(LengthsOf(in, R)), max |-> Max(LengthsOf(in, R)),
           total |-> SumFunctionOnSet(Lens(in), R), count |-> Cardinality(R),
           stamps |-> SumFunctionOnSet(Stamps(in), R)]
    BY PromiseLine, Zenon
  <2> HIDE DEF R, s
  <2> QED
    BY <2>1, <2>2, <2>3, Zenon
<1>3. Promise!Summary(in) =
        {Promise!Line(in, nm[1], nm[2]) :
           nm \in {pair \in Channels \X Months : RowsFor(in, pair[1], pair[2]) # {}}}
  <2>1. \A x, y, z : Promise!RowsFor(x, y, z) = RowsFor(x, y, z)
    BY Zenon DEF Promise!RowsFor, RowsFor
  <2> QED
    BY <2>1, Zenon DEF Promise!Summary
<1> DEFINE P == {pair \in Channels \X Months : RowsFor(in, pair[1], pair[2]) # {}}
<1>4. LinesFor(p, in, DOMAIN in) = {LineFor(p, in, DOMAIN in, nm[1], nm[2]) : nm \in P}
  BY <1>1, Zenon DEF LinesFor, HasRows
<1>5. \A nm \in P : /\ nm[1] \in Channels /\ nm[2] \in Months
                    /\ RowsFor(in, nm[1], nm[2]) # {}
  OBVIOUS
<1> HIDE DEF P
<1>6. \A nm \in P : LineFor(p, in, DOMAIN in, nm[1], nm[2]) = Promise!Line(in, nm[1], nm[2])
  BY <1>2, <1>5, Zenon
<1>7. {LineFor(p, in, DOMAIN in, nm[1], nm[2]) : nm \in P}
        = {Promise!Line(in, nm[1], nm[2]) : nm \in P}
  BY <1>6
<1> QED
  BY <1>3, <1>4, <1>7, Zenon DEF P

(* The text is made of pieces of the lines.                                *)
LEMMA DivModOf ==
  ASSUME NEW v \in Nat \ {0}, NEW x \in Nat
  PROVE  \E q \in Nat, k \in 0..(v - 1) : q = x \div v /\ k = x % v /\ x = q * v + k
<1>1. PICK q \in Int : q = x \div v
  OBVIOUS
<1>2. PICK k \in Int : k = x % v
  OBVIOUS
<1>3. x = q * v + k /\ 0 <= k /\ k < v
  BY <1>1, <1>2
<1>4. q >= 0
  <2>1. q <= -1 => q * v <= 0 - v
    OBVIOUS
  <2> QED
    BY <1>3, <2>1
<1> QED
  BY <1>1, <1>2, <1>3, <1>4

LEMMA PieceOf ==
  ASSUME NEW n \in Nat, NEW j \in 1..(Pieces * n)
  PROVE  ((j - 1) \div Pieces) + 1 \in 1..n /\ ((j - 1) % Pieces) + 1 \in 1..Pieces
<1>1. PICK v \in Nat \ {0} : v = Pieces
  BY VersionsAssumption
<1>2. PICK u \in Nat : u = v * n
  OBVIOUS
<1>3. j \in 1..u
  BY <1>1, <1>2
<1>4. PICK x \in Nat : x = j - 1 /\ x < u
  BY <1>3
<1>5. PICK q \in Nat, k \in 0..(v - 1) : q = x \div v /\ k = x % v /\ x = q * v + k
  BY DivModOf
<1>6. q < n
  <2>1. q >= n => q * v >= n * v
    OBVIOUS
  <2>2. q * v < n * v
    <3>1. n * v = u
      BY <1>2
    <3>2. q * v \in Nat /\ k \in Nat
      OBVIOUS
    <3> QED
      BY <1>4, <1>5, <3>1, <3>2
  <2> QED
    BY <2>1, <2>2
<1>7. q + 1 \in 1..n /\ k + 1 \in 1..v
  BY <1>6
<1> QED
  BY <1>1, <1>4, <1>5, <1>7, Zenon

LEMMA TextFacts ==
  ASSUME NEW X, NEW ls \in Seq(X)
  PROVE  TextOf(ls) \in Seq(X \X (1..Pieces)) /\ Len(TextOf(ls)) \in Nat
<1>1. PICK n \in Nat : n = Len(ls)
  OBVIOUS
<1>2. PICK u \in Nat : u = Pieces * n
  BY VersionsAssumption
<1>3. ASSUME NEW j \in 1..u
      PROVE  <<ls[((j - 1) \div Pieces) + 1], ((j - 1) % Pieces) + 1>> \in X \X (1..Pieces)
  <2>1. PICK q, k : q = ((j - 1) \div Pieces) + 1 /\ k = ((j - 1) % Pieces) + 1
    OBVIOUS
  <2>2. j \in 1..(Pieces * n)
    BY <1>2
  <2>3. q \in 1..n /\ k \in 1..Pieces
    BY <2>1, <2>2, PieceOf, Zenon
  <2>4. ls[q] \in X
    BY <1>1, <2>3
  <2>5. <<ls[q], k>> \in X \X (1..Pieces)
    BY <2>3, <2>4
  <2> QED
    BY <2>1, <2>5, Zenon
<1>4. TextOf(ls) = [j \in 1..u |-> <<ls[((j - 1) \div Pieces) + 1], ((j - 1) % Pieces) + 1>>]
  BY <1>1, <1>2, Zenon DEF TextOf
<1>5. TextOf(ls) \in [1..u -> X \X (1..Pieces)]
  BY <1>3, <1>4
<1> QED
  BY <1>5

(* A line over some of the rows is never above the reference's.            *)
Below(l, all) ==
  /\ l.count <= all.count /\ l.stamps <= all.stamps /\ l.total <= all.total
  /\ all.min <= l.min /\ l.min <= l.max /\ l.max <= all.max

LEMMA LineBelow ==
  ASSUME NEW p, NEW in \in Inputs, NEW J, NEW l \in LinesFor(p, in, J)
  PROVE  Below(l, Promise!Line(in, l.channel, l.month))
<1>1. PICK n \in Channels, m \in Months : HasRows(in, J, n, m) /\ l = LineFor(p, in, J, n, m)
  BY DEF LinesFor
<1>2. l.channel = n /\ l.month = m
  BY <1>1, LineForFields
<1>3. PICK R : R = RowsIn(in, <<n, m>>, J)
  OBVIOUS
<1>4. PICK A : A = RowsFor(in, n, m)
  OBVIOUS
<1>5. R \subseteq A /\ R # {} /\ A # {}
  BY <1>1, <1>3, <1>4 DEF RowsIn, HasRows
<1>6. /\ IsFiniteSet(R) /\ LengthsOf(in, R) \subseteq 1..(Word - 1) /\ LengthsOf(in, R) # {}
      /\ Cardinality(R) \in Nat
      /\ SumFunctionOnSet(Lens(in), R) \in Nat /\ SumFunctionOnSet(Stamps(in), R) \in Nat
  <2>1. R \subseteq RowsFor(in, n, m)
    BY <1>4, <1>5
  <2> QED
    BY <1>5, <2>1, PartFits
<1>7. /\ IsFiniteSet(A) /\ LengthsOf(in, A) \subseteq 1..(Word - 1) /\ LengthsOf(in, A) # {}
      /\ \A x \in A : Lens(in)[x] \in Nat /\ Stamps(in)[x] \in Nat
  <2>1. A \subseteq RowsFor(in, n, m)
    BY <1>4
  <2> QED
    BY <1>5, <2>1, PartFits
<1>8. /\ SumFunctionOnSet(Lens(in), R) <= SumFunctionOnSet(Lens(in), A)
      /\ SumFunctionOnSet(Stamps(in), R) <= SumFunctionOnSet(Stamps(in), A)
  BY <1>5, <1>7, SumPart
<1>9. Cardinality(R) <= Cardinality(A)
  BY <1>5, <1>7, FS_Subset
<1> DEFINE L == LengthsOf(in, R)
           B == LengthsOf(in, A)
<1>10. Min(B) <= Min(L) /\ Min(L) <= Max(L) /\ Max(L) <= Max(B)
  <2>1. Word - 1 \in Nat /\ L \subseteq 0..(Word - 1) /\ B \subseteq 0..(Word - 1)
    BY <1>6, <1>7, VersionsAssumption
  <2>2. /\ Min(L) \in L /\ Max(L) \in L /\ \A y \in L : Min(L) <= y /\ y <= Max(L)
    BY <1>6, <2>1, Extremes
  <2>3. \A y \in B : Min(B) <= y /\ y <= Max(B)
    BY <1>7, <2>1, Extremes
  <2>4. L \subseteq B
    BY <1>5 DEF LengthsOf
  <2> HIDE DEF L, B
  <2> QED
    BY <2>2, <2>3, <2>4, Zenon
<1> DEFINE s == StatsFor(p, in, R)
<1>11. /\ s.min = Min(L) /\ s.max = Max(L)
       /\ s.total = SumFunctionOnSet(Lens(in), R) /\ s.count = Cardinality(R)
       /\ s.stamps = SumFunctionOnSet(Stamps(in), R)
  BY <1>5 DEF StatsFor
<1>12. l = [channel |-> n, month |-> m, min |-> s.min, max |-> s.max,
            total |-> s.total, count |-> s.count, stamps |-> s.stamps]
  BY <1>1, <1>3, Zenon DEF LineFor
<1>13. Promise!Line(in, n, m) =
         [channel |-> n, month |-> m, min |-> Min(B), max |-> Max(B),
          total |-> SumFunctionOnSet(Lens(in), A), count |-> Cardinality(A),
          stamps |-> SumFunctionOnSet(Stamps(in), A)]
  BY <1>4, PromiseLine, Zenon
<1> HIDE DEF s, L, B
<1>14. PICK all : all = Promise!Line(in, n, m)
  OBVIOUS
<1>15. /\ l.min = Min(L) /\ l.max = Max(L) /\ l.total = SumFunctionOnSet(Lens(in), R)
       /\ l.count = Cardinality(R) /\ l.stamps = SumFunctionOnSet(Stamps(in), R)
  <2>1. /\ l.min = s.min /\ l.max = s.max /\ l.total = s.total
        /\ l.count = s.count /\ l.stamps = s.stamps
    BY <1>12
  <2> QED
    BY <1>11, <2>1, Zenon
<1>16. /\ all.min = Min(B) /\ all.max = Max(B) /\ all.total = SumFunctionOnSet(Lens(in), A)
       /\ all.count = Cardinality(A) /\ all.stamps = SumFunctionOnSet(Stamps(in), A)
  BY <1>13, <1>14
<1>17. Below(l, all)
  BY <1>8, <1>9, <1>10, <1>15, <1>16, Zenon DEF Below
<1> QED
  BY <1>2, <1>14, <1>17, Zenon

---------------------------------------------------------------------------
(* The invariant.  "ends" are the rows at which the input is cut.          *)
CutAt(ends) ==
  LET n == Len(share.of) IN
  /\ ends \in [0..n -> 0..Len(input)] /\ ends[0] = 0
  /\ \A i \in 1..n : ends[i - 1] <= ends[i]
  /\ share = [of |-> [i \in 1..n |-> SubSeq(input, ends[i - 1] + 1, ends[i])],
              tail |-> SubSeq(input, ends[n] + 1, Len(input))]

ShareRows(ends, i) == (ends[i - 1] + 1)..ends[i]

RestRows(ends, n) == (ends[n] + 1)..Len(input)

(* The threads whose contexts main has merged into its own                 *)
MergedThreads == {k \in ended : 2 <= k /\ k < t}

(* The rows a context holds: of a worker that has returned, its share; of  *)
(* main while it merges, the tail and the shares merged so far.            *)
Held(ends, i) ==
  (IF i \in ended THEN ShareRows(ends, i) ELSE {}) \cup
  (IF i = 1 /\ pc = "merge"
     THEN RestRows(ends, Len(share.of)) \cup UNION {ShareRows(ends, k) : k \in MergedThreads}
     ELSE {})

CallKinds == {"read", "create", "malloc", "output"}

TypeInv ==
  /\ program \in Programs /\ input \in Inputs
  /\ Len(share.of) \in Nat /\ DOMAIN share.of = 1..Len(share.of)
  /\ t \in 2..(Len(share.of) + 2)
  /\ Len(TextOf(lines)) \in Nat /\ w \in 0..Len(TextOf(lines))
  /\ created \subseteq 2..Len(share.of) /\ ended \subseteq 1..Len(share.of)
  /\ ignored \subseteq CallKinds /\ exit \in {"none", "ok", "failed", "killed"}
  /\ pc \in {"start", "create", "tail", "merge", "open", "write", "exit"}
  /\ (exit = "none" <=> pc # "exit")
  /\ \A i \in DOMAIN ctx : IsInjective(ctx[i].names) /\ Range(ctx[i].names) \subseteq Channels

(* Who has been created and who has returned, when no call failed          *)
ThreadInv ==
  /\ pc = "start" => /\ share.of = <<>> /\ created = {} /\ ended = {} /\ ctx = <<>>
                     /\ t = 2 /\ ignored = {}
  /\ pc = "create" /\ ignored = {} => created = {k \in 2..Len(share.of) : k < t}
  /\ pc \in {"tail", "merge"} => 1 \in ended /\ (ignored = {} => ended = 1..Len(share.of))
  /\ pc \notin {"create", "exit"} => created \subseteq ended
  /\ pc = "tail" => t = 2

CountsAt(ends) ==
  /\ CutAt(ends)
  /\ \A i \in 1..Len(share.of) : Summarises(program, input, ctx[i], Held(ends, i))

CountInv ==
  pc \in {"create", "tail", "merge"} =>
    /\ Len(share.of) >= 1 /\ DOMAIN ctx = 1..Len(share.of)
    /\ Len(share.of) >= 2 => program.least = "top"
    /\ \E ends : CountsAt(ends)

OpenAt(J) ==
  /\ 1 \in DOMAIN ctx /\ Summarises(program, input, ctx[1], J)
  /\ ignored = {} => J = DOMAIN input

OpenInv == pc = "open" => \E J \in SUBSET DOMAIN input : OpenAt(J)

(* A file of pieces of the lines in X, some of which the disk lost         *)
FileOf(X) == (X \X (1..Pieces)) \cup {Hole}

WriteAt(J) ==
  /\ lines \in Seq(LinesFor(program, input, J))
  /\ out \in Seq(FileOf(LinesFor(program, input, J)))
  /\ IsInjective(lines) /\ Range(lines) = LinesFor(program, input, J)
  /\ ignored = {} => J = DOMAIN input
  /\ "output" \notin ignored => out = SubSeq(TextOf(lines), 1, w)

(* As long as no byte of the output was lost                               *)
Beginning ==
  "output" \notin ignored =>
    IsPrefix(out, TextOf(lines)) /\ (exit = "ok" => out = TextOf(lines))

WroteAt(J) == out \in Seq(FileOf(LinesFor(program, input, J))) /\ Beginning

WriteInv ==
  /\ pc \notin {"write", "exit"} => out = Old /\ lines = <<>> /\ w = 0
  /\ pc = "write" => \E J \in SUBSET DOMAIN input : WriteAt(J)
  /\ pc = "exit" => out = Old \/ \E J \in SUBSET DOMAIN input : WroteAt(J)
  /\ exit = "ok" /\ ignored = {} =>
       /\ out = TextOf(lines)
       /\ IsInjective(lines) /\ Range(lines) = LinesFor(program, input, DOMAIN input)

VInv == TypeInv /\ ThreadInv /\ CountInv /\ OpenInv /\ WriteInv

---------------------------------------------------------------------------
(* The shares follow each other and leave no row out.                      *)
LEMMA EndsGrow ==
  ASSUME NEW n \in Nat, NEW L \in Nat, NEW ends \in [0..n -> 0..L],
         \A i \in 1..n : ends[i - 1] <= ends[i], NEW i \in 0..n, NEW k \in 0..n, i <= k
  PROVE  ends[i] <= ends[k]
<1> DEFINE T == {d \in Nat : i + d <= n => ends[i] <= ends[i + d]}
<1>1. 0 \in T
  OBVIOUS
<1>2. ASSUME NEW d \in Nat, d \in T
      PROVE  d + 1 \in T
  <2> SUFFICES ASSUME i + (d + 1) <= n PROVE ends[i] <= ends[i + (d + 1)]
    OBVIOUS
  <2>1. PICK a \in 0..n : a = i + d
    OBVIOUS
  <2>2. PICK b \in 1..n : b = i + (d + 1) /\ b - 1 = a
    BY <2>1
  <2>3. ends[i] <= ends[a]
    BY <1>2, <2>1
  <2>4. ends[a] <= ends[b]
    BY <2>2, Zenon
  <2>5. ends[i] \in 0..L /\ ends[a] \in 0..L /\ ends[b] \in 0..L
    BY <2>2
  <2> QED
    BY <2>2, <2>3, <2>4, <2>5
<1> HIDE DEF T
<1>3. PICK d \in Nat : d = k - i
  OBVIOUS
<1>4. d \in T
  BY <1>1, <1>2, NatInduct
<1>5. i + d = k
  BY <1>3
<1> QED
  BY <1>4, <1>5 DEF T

LEMMA SharesApart ==
  ASSUME NEW n \in Nat, NEW L \in Nat, NEW ends \in [0..n -> 0..L], ends[0] = 0,
         \A i \in 1..n : ends[i - 1] <= ends[i]
  PROVE  /\ \A i \in 1..n : ShareRows(ends, i) \subseteq 1..L
         /\ \A i \in 1..n : ShareRows(ends, i) \cap ((ends[n] + 1)..L) = {}
         /\ \A i, k \in 1..n : i # k => ShareRows(ends, i) \cap ShareRows(ends, k) = {}
         /\ (UNION {ShareRows(ends, i) : i \in 1..n}) \cup ((ends[n] + 1)..L) = 1..L
<1>0. \A i \in 0..n : ends[i] \in Nat /\ ends[i] <= L
  OBVIOUS
<1>1. ASSUME NEW i \in 1..n
      PROVE  ShareRows(ends, i) \subseteq 1..L /\ ShareRows(ends, i) \cap ((ends[n] + 1)..L) = {}
  <2>1. i \in 0..n /\ i - 1 \in 0..n /\ n \in 0..n /\ i <= n
    OBVIOUS
  <2>2. ends[i] <= ends[n]
    BY <2>1, EndsGrow
  <2>3. PICK a \in Nat, b \in Nat, c \in Nat : a = ends[i - 1] /\ b = ends[i] /\ c = ends[n]
                                               /\ b <= L /\ b <= c
    BY <1>0, <2>1, <2>2
  <2> QED
    BY <2>3 DEF ShareRows
<1>2. ASSUME NEW i \in 1..n, NEW k \in 1..n, i < k
      PROVE  ShareRows(ends, i) \cap ShareRows(ends, k) = {}
  <2>1. i \in 0..n /\ i - 1 \in 0..n /\ k \in 0..n /\ k - 1 \in 0..n /\ i <= k - 1
    BY <1>2
  <2>2. ends[i] <= ends[k - 1]
    BY <2>1, EndsGrow
  <2>3. PICK b \in Nat, c \in Nat : b = ends[i] /\ c = ends[k - 1] /\ b <= c
    BY <1>0, <2>1, <2>2
  <2>4. PICK a \in Nat, d \in Nat : a = ends[i - 1] /\ d = ends[k]
    BY <1>0, <2>1
  <2>5. ((a + 1)..b) \cap ((c + 1)..d) = {}
    BY <2>3
  <2>6. ShareRows(ends, i) = (a + 1)..b /\ ShareRows(ends, k) = (c + 1)..d
    BY <2>3, <2>4, Zenon DEF ShareRows
  <2> QED
    BY <2>5, <2>6, Zenon
<1>3. \A i, k \in 1..n : i # k => ShareRows(ends, i) \cap ShareRows(ends, k) = {}
  <2> SUFFICES ASSUME NEW i \in 1..n, NEW k \in 1..n, i # k
               PROVE  ShareRows(ends, i) \cap ShareRows(ends, k) = {}
    OBVIOUS
  <2>1. i < k \/ k < i
    OBVIOUS
  <2>2. CASE i < k
    BY <1>2, <2>2
  <2>3. CASE k < i
    <3>1. ShareRows(ends, k) \cap ShareRows(ends, i) = {}
      BY <1>2, <2>3
    <3> QED
      BY <3>1
  <2> QED
    BY <2>1, <2>2, <2>3
<1>4. ASSUME NEW j \in 1..L, ~ (j \in (ends[n] + 1)..L)
      PROVE  \E i \in 1..n : j \in ShareRows(ends, i)
  <2> DEFINE T == {i \in 0..n : j <= ends[i]}
  <2>1. n \in T
    BY <1>0, <1>4
  <2>2. T \subseteq Nat
    OBVIOUS
  <2> HIDE DEF T
  <2>3. PICK i \in T : \A k \in T : i <= k
    BY <2>1, <2>2, LeastNat
  <2>4. i \in 0..n /\ j <= ends[i]
    BY DEF T
  <2>5. i # 0
    BY <2>4
  <2>6. i \in 1..n /\ i - 1 \in 0..n /\ i - 1 < i
    BY <2>4, <2>5
  <2>7. i - 1 \notin T
    BY <2>3, <2>6
  <2>8. ~ (j <= ends[i - 1])
    BY <2>6, <2>7 DEF T
  <2>9. PICK a \in Nat, b \in Nat : a = ends[i - 1] /\ b = ends[i]
    BY <1>0, <2>4, <2>6
  <2>10. j \in (a + 1)..b
    BY <2>4, <2>8, <2>9
  <2> QED
    BY <2>6, <2>9, <2>10 DEF ShareRows
<1>5. (UNION {ShareRows(ends, i) : i \in 1..n}) \cup ((ends[n] + 1)..L) = 1..L
  <2>1. (ends[n] + 1)..L \subseteq 1..L
    <3>1. n \in 0..n
      OBVIOUS
    <3>2. PICK c \in Nat : c = ends[n]
      BY <1>0, <3>1
    <3> QED
      BY <3>2
  <2> QED
    BY <1>1, <1>4, <2>1
<1> QED
  BY <1>1, <1>3, <1>5

---------------------------------------------------------------------------
(* The invariant holds initially and is kept by every step.                *)
LEMMA SummaryNames ==
  ASSUME NEW p, NEW in \in Inputs, NEW c, NEW J, J \subseteq DOMAIN in, Summarises(p, in, c, J)
  PROVE  IsInjective(c.names) /\ Range(c.names) \subseteq Channels
<1>1. ChannelsOf(in, J) \subseteq Channels
  BY InputFacts DEF ChannelsOf
<1>2. IsInjective(c.names) /\ Range(c.names) = ChannelsOf(in, J)
  BY Zenon DEF Summarises
<1> QED
  BY <1>1, <1>2, Zenon

(* Where a cut puts the rows.                                              *)
LEMMA CutFacts ==
  ASSUME TypeInv, NEW ends, CutAt(ends), Len(share.of) >= 1
  PROVE  /\ ends \in [0..Len(share.of) -> 0..Len(input)] /\ ends[0] = 0
         /\ \A i \in 1..Len(share.of) :
              /\ ends[i - 1] \in 0..Len(input) /\ ends[i] \in 0..Len(input)
              /\ ends[i - 1] <= ends[i]
              /\ share.of[i] = SubSeq(input, ends[i - 1] + 1, ends[i])
         /\ ends[Len(share.of)] \in 0..Len(input)
         /\ share.tail = SubSeq(input, ends[Len(share.of)] + 1, Len(input))
         /\ \A i \in 1..Len(share.of) :
              /\ ShareRows(ends, i) \subseteq DOMAIN input
              /\ ShareRows(ends, i) \cap RestRows(ends, Len(share.of)) = {}
         /\ RestRows(ends, Len(share.of)) \subseteq DOMAIN input
         /\ \A i, k \in 1..Len(share.of) : i # k => ShareRows(ends, i) \cap ShareRows(ends, k) = {}
         /\ (UNION {ShareRows(ends, i) : i \in 1..Len(share.of)})
              \cup RestRows(ends, Len(share.of)) = DOMAIN input
<1>1. PICK n \in Nat : n = Len(share.of) /\ n >= 1
  BY DEF TypeInv
<1>2. /\ ends \in [0..n -> 0..Len(input)] /\ ends[0] = 0
      /\ \A i \in 1..n : ends[i - 1] <= ends[i]
      /\ share = [of |-> [i \in 1..n |-> SubSeq(input, ends[i - 1] + 1, ends[i])],
                  tail |-> SubSeq(input, ends[n] + 1, Len(input))]
  BY <1>1, Zenon DEF CutAt
<1>3. Len(input) \in Nat /\ DOMAIN input = 1..Len(input)
  BY InputFacts DEF TypeInv
<1>4. /\ \A i \in 1..n : share.of[i] = SubSeq(input, ends[i - 1] + 1, ends[i])
      /\ share.tail = SubSeq(input, ends[n] + 1, Len(input))
  <2>1. \A x, y : [of |-> x, tail |-> y].of = x /\ [of |-> x, tail |-> y].tail = y
    OBVIOUS
  <2>2. /\ share.of = [i \in 1..n |-> SubSeq(input, ends[i - 1] + 1, ends[i])]
        /\ share.tail = SubSeq(input, ends[n] + 1, Len(input))
    BY <1>2, <2>1, Zenon
  <2> QED
    BY <2>2
<1>5. \A i \in 1..n : i \in 0..n /\ i - 1 \in 0..n
  OBVIOUS
<1>6. \A i \in 1..n : ends[i - 1] \in 0..Len(input) /\ ends[i] \in 0..Len(input)
  BY <1>2, <1>5
<1>7. n \in 0..n /\ ends[n] \in 0..Len(input)
  BY <1>2
<1>8. /\ \A i \in 1..n : ShareRows(ends, i) \subseteq 1..Len(input)
      /\ \A i \in 1..n : ShareRows(ends, i) \cap RestRows(ends, n) = {}
      /\ \A i, k \in 1..n : i # k => ShareRows(ends, i) \cap ShareRows(ends, k) = {}
      /\ (UNION {ShareRows(ends, i) : i \in 1..n}) \cup RestRows(ends, n) = 1..Len(input)
  BY <1>2, <1>3, SharesApart DEF RestRows
<1> QED
  BY <1>1, <1>2, <1>3, <1>4, <1>6, <1>7, <1>8, Zenon

LEMMA HeldFacts ==
  ASSUME TypeInv, NEW ends, CutAt(ends), Len(share.of) >= 1, NEW i \in 1..Len(share.of)
  PROVE  /\ Held(ends, i) \subseteq DOMAIN input
         /\ \A k \in 1..Len(share.of) :
              k # i /\ (k \notin ended \/ i # 1) => Held(ends, i) \cap ShareRows(ends, k) = {}
<1> DEFINE n == Len(share.of)
<1>1. /\ \A k \in 1..n : ShareRows(ends, k) \subseteq DOMAIN input
      /\ \A k \in 1..n : ShareRows(ends, k) \cap RestRows(ends, n) = {}
      /\ RestRows(ends, n) \subseteq DOMAIN input
      /\ \A k, l \in 1..n : k # l => ShareRows(ends, k) \cap ShareRows(ends, l) = {}
  BY CutFacts, Zenon
<1>2. MergedThreads \subseteq 1..n /\ MergedThreads \subseteq ended
  BY DEF TypeInv, MergedThreads
<1> HIDE DEF n
<1>3. Held(ends, i) \subseteq DOMAIN input
  BY <1>1, <1>2 DEF Held, n
<1>4. ASSUME NEW k \in 1..n, k # i, k \notin ended \/ i # 1
      PROVE  Held(ends, i) \cap ShareRows(ends, k) = {}
  <2>1. i # 1 => Held(ends, i) \subseteq ShareRows(ends, i)
    BY DEF Held
  <2>2. \A x \in Held(ends, i) :
           \/ x \in ShareRows(ends, i) \/ x \in RestRows(ends, n)
           \/ \E l \in MergedThreads : x \in ShareRows(ends, l)
    BY DEF Held, n
  <2>3. i \in 1..n
    BY DEF n
  <2>4. CASE i # 1
    BY <1>1, <1>4, <2>1, <2>3, <2>4
  <2>5. CASE k \notin ended /\ k # i
    BY <1>1, <1>2, <1>4, <2>2, <2>3, <2>5
  <2> QED
    BY <1>4, <2>4, <2>5
<1> QED
  BY <1>3, <1>4 DEF n

LEMMA InitVInv == Init => VInv
<1> SUFFICES ASSUME Init PROVE VInv
  OBVIOUS
<1>1. /\ program \in Programs /\ input \in Inputs
      /\ pc = "start" /\ share = [of |-> <<>>, tail |-> <<>>]
      /\ created = {} /\ ended = {} /\ ctx = <<>> /\ t = 2
      /\ lines = <<>> /\ w = 0 /\ out = Old /\ ignored = {} /\ exit = "none"
  BY DEF Init
<1>2. share.of = <<>> /\ Len(share.of) = 0 /\ DOMAIN share.of = 1..0 /\ lines \in Seq({})
      /\ DOMAIN ctx = {}
  BY <1>1
<1>3. TypeInv
  <2>1. /\ program \in Programs /\ input \in Inputs
        /\ ignored \subseteq CallKinds /\ exit \in {"none", "ok", "failed", "killed"}
        /\ pc \in {"start", "create", "tail", "merge", "open", "write", "exit"}
        /\ (exit = "none" <=> pc # "exit")
    BY <1>1
  <2>2. /\ Len(share.of) \in Nat /\ DOMAIN share.of = 1..Len(share.of)
        /\ t \in 2..(Len(share.of) + 2)
        /\ created \subseteq 2..Len(share.of) /\ ended \subseteq 1..Len(share.of)
    BY <1>1, <1>2
  <2>3. Len(TextOf(lines)) \in Nat /\ w \in 0..Len(TextOf(lines))
    <3>1. Len(TextOf(lines)) \in Nat
      BY <1>2, TextFacts
    <3> QED
      BY <1>1, <3>1
  <2> QED
    BY <1>2, <2>1, <2>2, <2>3 DEF TypeInv
<1>4. ThreadInv
  BY <1>1, <1>2, Zenon DEF ThreadInv
<1>5. CountInv /\ OpenInv /\ WriteInv
  BY <1>1 DEF CountInv, OpenInv, WriteInv
<1> QED
  BY <1>3, <1>4, <1>5 DEF VInv

(* A step that ends the run without success.                               *)
LEMMA ExitVInv ==
  ASSUME TypeInv', pc' = "exit", exit' \in {"failed", "killed"},
         out' = Old \/ \E J \in SUBSET DOMAIN input' : WroteAt(J)'
  PROVE  VInv'
<1>1. ThreadInv' /\ CountInv' /\ OpenInv'
  BY DEF ThreadInv, CountInv, OpenInv
<1>2. WriteInv'
  BY DEF WriteInv
<1> QED
  BY <1>1, <1>2 DEF VInv

(* A step that leaves everything alone but these.                          *)
LEMMA TypeKept ==
  ASSUME TypeInv, UNCHANGED <<program, input, share, created, ended, lines, w>>,
         t' \in 2..(Len(share.of) + 2), ignored' \subseteq CallKinds,
         exit' \in {"none", "ok", "failed", "killed"},
         pc' \in {"start", "create", "tail", "merge", "open", "write", "exit"},
         exit' = "none" <=> pc' # "exit",
         \A i \in DOMAIN ctx' : IsInjective(ctx'[i].names) /\ Range(ctx'[i].names) \subseteq Channels
  PROVE  TypeInv'
BY DEF TypeInv

LEMMA SameVInv ==
  ASSUME VInv, UNCHANGED vars
  PROVE  VInv'
<1>1. TypeInv' /\ ThreadInv'
  BY DEF VInv, TypeInv, ThreadInv, vars
<1>2. \A ends : CountsAt(ends) => CountsAt(ends)'
  BY DEF CountsAt, CutAt, Held, RestRows, MergedThreads, vars
<1>3. CountInv'
  BY <1>2 DEF VInv, CountInv, vars
<1>4. OpenInv' /\ WriteInv'
  BY DEF VInv, OpenInv, OpenAt, WriteInv, WriteAt, WroteAt, Beginning, vars
<1> QED
  BY <1>1, <1>3, <1>4 DEF VInv

LEMMA CannotStartVInv ==
  ASSUME VInv, CannotStart
  PROVE  VInv'
<1>1. /\ pc = "start" /\ pc' = "exit" /\ exit' = "failed"
      /\ UNCHANGED <<program, input, share, created, ended, ctx, t, lines, w, out, ignored>>
  BY DEF CannotStart, Return
<1>2. TypeInv'
  BY <1>1 DEF VInv, TypeInv
<1>3. out' = Old
  BY <1>1 DEF VInv, WriteInv
<1> QED
  BY <1>1, <1>2, <1>3, ExitVInv

LEMMA CreateThreadVInv ==
  ASSUME VInv, CreateThread
  PROVE  VInv'
<1>1. /\ pc = "create" /\ t \in Threads /\ t' = t + 1
      /\ \/ created' = created \cup {t} /\ ignored' = ignored
         \/ created' = created /\ ignored' = ignored \cup {"create"}
      /\ UNCHANGED <<program, input, pc, share, ended, ctx, lines, w, out, exit>>
  BY DEF CreateThread
<1>2. /\ Len(share.of) \in Nat /\ DOMAIN share.of = 1..Len(share.of)
      /\ t \in 2..(Len(share.of) + 2) /\ created \subseteq 2..Len(share.of) /\ ignored \subseteq CallKinds
  BY DEF VInv, TypeInv
<1>3. PICK n \in Nat : n = Len(share.of) /\ t \in 2..n
  BY <1>1, <1>2 DEF Threads
<1>4. TypeInv'
  <2>1. t' \in 2..(n + 2) /\ created' \subseteq 2..n /\ ignored' \subseteq CallKinds
    <3>1. ignored' \subseteq CallKinds
      BY <1>1, <1>2 DEF CallKinds
    <3>2. created' \subseteq 2..n
      BY <1>1, <1>2, <1>3
    <3>3. t' = t + 1 /\ t \in 2..n
      BY <1>1, <1>3
    <3>4. t' \in 2..(n + 2)
      BY <3>3
    <3> QED
      BY <3>1, <3>2, <3>4
  <2> QED
    BY <1>1, <1>3, <2>1 DEF VInv, TypeInv
<1>5. ThreadInv'
  <2>1. ignored' = {} => created' = {k \in 2..n : k < t'}
    <3> SUFFICES ASSUME ignored' = {} PROVE created' = {k \in 2..n : k < t'}
      OBVIOUS
    <3>1. created' = created \cup {t} /\ ignored = {}
      BY <1>1
    <3>2. created = {k \in 2..n : k < t}
      BY <1>1, <1>3, <3>1, Zenon DEF VInv, ThreadInv
    <3>3. t' = t + 1 /\ t \in 2..n
      BY <1>1, <1>3
    <3>4. {k \in 2..n : k < t} \cup {t} = {k \in 2..n : k < t + 1}
      BY <1>3
    <3> QED
      BY <3>1, <3>2, <3>3, <3>4, Zenon
  <2>2. share' = share /\ pc' = "create"
    BY <1>1
  <2>3. pc' # "start" /\ pc' # "tail" /\ pc' # "merge"
    BY <2>2
  <2> QED
    BY <1>3, <2>1, <2>2, <2>3 DEF ThreadInv
<1>6. CountInv'
  <2>1. /\ Len(share.of) >= 1 /\ DOMAIN ctx = 1..Len(share.of)
        /\ Len(share.of) >= 2 => program.least = "top"
        /\ \E ends : CountsAt(ends)
    BY <1>1 DEF VInv, CountInv
  <2>2. \A ends : CountsAt(ends) => CountsAt(ends)'
    <3>1. \A ends, i : Held(ends, i)' = Held(ends, i)
      BY <1>1 DEF Held
    <3> QED
      BY <1>1, <3>1 DEF CountsAt, CutAt
  <2> QED
    BY <1>1, <2>1, <2>2 DEF CountInv
<1>7. OpenInv' /\ WriteInv'
  <2>1. pc' = "create" /\ exit' = "none"
    BY <1>1 DEF VInv, TypeInv
  <2>2. out' = Old /\ lines' = <<>> /\ w' = 0
    BY <1>1 DEF VInv, WriteInv
  <2> QED
    BY <2>1, <2>2 DEF OpenInv, WriteInv
<1> QED
  BY <1>4, <1>5, <1>6, <1>7 DEF VInv

LEMMA RunWorkerVInv ==
  ASSUME VInv, NEW i \in Threads, RunWorker(i)
  PROVE  VInv'
<1>1. /\ i \in created \/ (i = 1 /\ pc = "create" /\ t \notin Threads)
      /\ i \notin ended /\ exit = "none"
      /\ \E c \in WorkerResults(program, ctx[i], share.of[i]) : ctx' = [ctx EXCEPT ![i] = c]
      /\ ended' = ended \cup {i}
      /\ UNCHANGED <<program, input, pc, share, created, t, lines, w, out, ignored, exit>>
  BY DEF RunWorker
<1>2. pc = "create"
  BY <1>1, Zenon DEF VInv, TypeInv, ThreadInv
<1>3. TypeInv
  BY DEF VInv
<1>4. PICK n \in Nat : n = Len(share.of) /\ DOMAIN share.of = 1..n /\ i \in 1..n
  BY <1>3 DEF TypeInv, Threads
<1>5. /\ n >= 1 /\ DOMAIN ctx = 1..n /\ (n >= 2 => program.least = "top")
  BY <1>2, <1>4 DEF VInv, CountInv
<1>6. PICK ends : CountsAt(ends)
  BY <1>2 DEF VInv, CountInv
<1>7. PICK c \in WorkerResults(program, ctx[i], share.of[i]) : ctx' = [ctx EXCEPT ![i] = c]
  BY <1>1
<1>8. CutAt(ends) /\ \A k \in 1..n : Summarises(program, input, ctx[k], Held(ends, k))
  BY <1>4, <1>6 DEF CountsAt
<1>9. /\ ends[i - 1] \in 0..Len(input) /\ ends[i] \in 0..Len(input)
      /\ ends[i - 1] <= ends[i]
      /\ share.of[i] = SubSeq(input, ends[i - 1] + 1, ends[i])
      /\ ShareRows(ends, i) \subseteq DOMAIN input
  BY <1>3, <1>4, <1>5, <1>8, CutFacts
<1>10. Held(ends, i) = {} /\ Held(ends, i)' = ShareRows(ends, i)
  <2>1. pc # "merge" /\ pc' # "merge" /\ i \notin ended /\ i \in ended'
    BY <1>1, <1>2
  <2> QED
    BY <2>1, Zenon DEF Held
<1>11. Summarises(program, input, c, ShareRows(ends, i))
  <2>1. PICK u \in 0..Len(input), v \in 0..Len(input) : u = ends[i - 1] /\ v = ends[i] /\ u <= v
    BY <1>9
  <2>2. program \in Programs /\ input \in Inputs
    BY <1>3 DEF TypeInv
  <2>3. c \in WorkerResults(program, ctx[i], SubSeq(input, u + 1, v))
    BY <1>7, <1>9, <2>1, Zenon
  <2>4. Summarises(program, input, ctx[i], {})
    BY <1>4, <1>8, <1>10, Zenon
  <2>5. {} \subseteq DOMAIN input /\ {} \cap ((u + 1)..v) = {}
    OBVIOUS
  <2>6. Summarises(program, input, c, {} \cup ((u + 1)..v))
    BY <2>1, <2>2, <2>3, <2>4, <2>5, WorkerHolds
  <2>7. {} \cup ((u + 1)..v) = (u + 1)..v
    OBVIOUS
  <2> QED
    BY <2>1, <2>6, <2>7, Zenon DEF ShareRows
<1>12. DOMAIN ctx' = 1..n /\ ctx'[i] = c /\ \A k \in 1..n : k # i => ctx'[k] = ctx[k]
  BY <1>4, <1>5, <1>7
<1>13. CountsAt(ends)'
  <2>1. CutAt(ends)'
    BY <1>1, <1>8 DEF CutAt
  <2>2. ASSUME NEW k \in 1..n
        PROVE  Summarises(program, input, ctx'[k], Held(ends, k)')
    <3>1. CASE k = i
      BY <1>10, <1>11, <1>12, <3>1, Zenon
    <3>2. CASE k # i
      <4>1. k \in ended' <=> k \in ended
        BY <1>1, <3>2
      <4>2. pc # "merge" /\ pc' # "merge"
        BY <1>1, <1>2
      <4>3. Held(ends, k)' = Held(ends, k)
        BY <4>1, <4>2, Zenon DEF Held
      <4> QED
        BY <1>8, <1>12, <3>2, <4>3, Zenon
    <3> QED
      BY <3>1, <3>2
  <2>3. program' = program /\ input' = input /\ Len(share.of)' = n
    BY <1>1, <1>4
  <2> QED
    BY <2>1, <2>2, <2>3 DEF CountsAt
<1>14. TypeInv'
  <2>1. ended' \subseteq 1..Len(share.of)
    BY <1>1, <1>3, <1>4 DEF TypeInv
  <2>2. \A k \in DOMAIN ctx' : IsInjective(ctx'[k].names) /\ Range(ctx'[k].names) \subseteq Channels
    <3>1. IsInjective(c.names) /\ Range(c.names) \subseteq Channels
      BY <1>3, <1>9, <1>11, SummaryNames DEF TypeInv
    <3>2. \A k \in 1..n : IsInjective(ctx[k].names) /\ Range(ctx[k].names) \subseteq Channels
      BY <1>3, <1>5, Zenon DEF TypeInv
    <3> QED
      BY <1>12, <3>1, <3>2, Zenon
  <2> QED
    BY <1>1, <1>3, <2>1, <2>2 DEF TypeInv
<1>15. ThreadInv'
  <2>1. pc' = "create" /\ pc' # "start" /\ pc' # "tail" /\ pc' # "merge"
    BY <1>1, <1>2
  <2>2. ignored' = {} => created' = {k \in 2..Len(share'.of) : k < t'}
    BY <1>1, <1>2, Zenon DEF VInv, ThreadInv
  <2> QED
    BY <2>1, <2>2, Zenon DEF ThreadInv
<1>16. CountInv'
  <2>1. pc' = "create" /\ Len(share.of)' = n /\ program' = program
    BY <1>1, <1>2, <1>4
  <2> QED
    BY <1>5, <1>12, <1>13, <2>1 DEF CountInv
<1>17. OpenInv' /\ WriteInv'
  <2>1. pc' = "create" /\ exit' = "none"
    BY <1>1, <1>2
  <2>2. out' = Old /\ lines' = <<>> /\ w' = 0
    BY <1>1, <1>2 DEF VInv, WriteInv
  <2> QED
    BY <2>1, <2>2 DEF OpenInv, WriteInv
<1> QED
  BY <1>14, <1>15, <1>16, <1>17 DEF VInv

LEMMA RenumberFaultsVInv ==
  ASSUME VInv, NEW i \in Threads, RenumberFaults(i)
  PROVE  VInv'
<1>1. /\ i \in created \/ (i = 1 /\ pc = "create" /\ t \notin Threads)
      /\ i \notin ended /\ exit = "none"
      /\ pc' = "exit" /\ exit' = "killed" /\ ignored' = ignored \cup {"malloc"}
      /\ UNCHANGED <<program, input, share, created, ended, ctx, t, lines, w, out>>
  BY DEF RenumberFaults, Return
<1>2. pc = "create"
  BY <1>1, Zenon DEF VInv, TypeInv, ThreadInv
<1>3. TypeInv'
  BY <1>1 DEF VInv, TypeInv, CallKinds
<1>4. out' = Old
  BY <1>1, <1>2 DEF VInv, WriteInv
<1> QED
  BY <1>1, <1>3, <1>4, ExitVInv

LEMMA JoinVInv ==
  ASSUME VInv, Join
  PROVE  VInv'
<1>1. /\ pc = "create" /\ t \notin Threads /\ 1 \in ended /\ created \subseteq ended
      /\ (pc' = "tail" /\ exit' = exit) \/ (pc' = "exit" /\ exit' = "killed")
      /\ t' = 2
      /\ UNCHANGED <<program, input, share, created, ended, ctx, lines, w, out, ignored>>
  BY DEF Join, Return
<1>2. TypeInv
  BY DEF VInv
<1>3. PICK n \in Nat : n = Len(share.of) /\ DOMAIN share.of = 1..n
  BY <1>2 DEF TypeInv
<1>4. TypeInv'
  <2>1. 2 \in 2..(Len(share.of) + 2)
    BY <1>3
  <2> QED
    BY <1>1, <1>2, <2>1 DEF TypeInv
<1>5. CASE pc' = "exit"
  <2>1. out' = Old
    BY <1>1 DEF VInv, WriteInv
  <2> QED
    BY <1>1, <1>4, <1>5, <2>1, ExitVInv
<1>6. CASE pc' = "tail"
  <2>1. ignored = {} => ended = 1..n
    <3> SUFFICES ASSUME ignored = {} PROVE ended = 1..n
      OBVIOUS
    <3>1. created = {k \in 2..n : k < t}
      BY <1>1, <1>3, Zenon DEF VInv, ThreadInv
    <3>2. t \in Nat /\ t >= 2 /\ t \notin 1..n
      BY <1>1, <1>2, <1>3 DEF TypeInv, Threads
    <3>3. t > n
      BY <3>2
    <3>4. \A k \in 2..n : k \in ended
      BY <1>1, <3>1, <3>2, <3>3
    <3>5. ended \subseteq 1..n
      BY <1>2, <1>3 DEF TypeInv
    <3>6. \A k \in 1..n : k = 1 \/ k \in 2..n
      OBVIOUS
    <3> QED
      BY <1>1, <3>4, <3>5, <3>6
  <2>2. ThreadInv'
    <3>1. pc' # "start" /\ pc' # "create"
      BY <1>6
    <3>2. /\ 1 \in ended' /\ (ignored' = {} => ended' = 1..Len(share'.of)) /\ created' \subseteq ended'
          /\ t' = 2
      BY <1>1, <1>3, <2>1, Zenon
    <3> QED
      BY <3>1, <3>2, Zenon DEF ThreadInv
  <2>3. CountInv'
    <3>1. /\ Len(share.of) >= 1 /\ DOMAIN ctx = 1..Len(share.of)
          /\ Len(share.of) >= 2 => program.least = "top"
          /\ \E ends : CountsAt(ends)
      BY <1>1 DEF VInv, CountInv
    <3>2. \A ends : CountsAt(ends) => CountsAt(ends)'
      <4>1. pc # "merge" /\ pc' # "merge"
        BY <1>1, <1>6
      <4>2. \A ends, i : Held(ends, i)' = Held(ends, i)
        BY <1>1, <4>1 DEF Held
      <4> QED
        BY <1>1, <4>2 DEF CountsAt, CutAt
    <3> QED
      BY <1>1, <3>1, <3>2 DEF CountInv
  <2>4. OpenInv' /\ WriteInv'
    <3>1. pc' = "tail" /\ exit' = "none"
      BY <1>1, <1>6, <1>2, <1>4 DEF TypeInv
    <3>2. out' = Old /\ lines' = <<>> /\ w' = 0
      BY <1>1 DEF VInv, WriteInv
    <3> QED
      BY <3>1, <3>2 DEF OpenInv, WriteInv
  <2> QED
    BY <1>4, <2>2, <2>3, <2>4 DEF VInv
<1> QED
  BY <1>1, <1>5, <1>6

LEMMA TailRowsVInv ==
  ASSUME VInv, TailRows
  PROVE  VInv'
<1>1. /\ pc = "tail" /\ pc' = "merge"
      /\ ctx' = [ctx EXCEPT ![1] = CountRows(program, @, share.tail)]
      /\ UNCHANGED <<program, input, share, created, ended, t, lines, w, out, ignored, exit>>
  BY DEF TailRows
<1>2. TypeInv
  BY DEF VInv
<1>3. PICK n \in Nat : n = Len(share.of) /\ DOMAIN share.of = 1..n
  BY <1>2 DEF TypeInv
<1>4. /\ n >= 1 /\ DOMAIN ctx = 1..n /\ (n >= 2 => program.least = "top")
  BY <1>1, <1>3 DEF VInv, CountInv
<1>5. PICK ends : CountsAt(ends)
  BY <1>1 DEF VInv, CountInv
<1>6. CutAt(ends) /\ \A k \in 1..n : Summarises(program, input, ctx[k], Held(ends, k))
  BY <1>3, <1>5 DEF CountsAt
<1>7. 1 \in 1..n
  BY <1>4
<1>8. /\ ends[n] \in 0..Len(input) /\ share.tail = SubSeq(input, ends[n] + 1, Len(input))
      /\ ShareRows(ends, 1) \subseteq DOMAIN input
      /\ ShareRows(ends, 1) \cap RestRows(ends, n) = {}
      /\ RestRows(ends, n) \subseteq DOMAIN input
  BY <1>2, <1>3, <1>4, <1>6, <1>7, CutFacts, Zenon
<1>9. 1 \in ended
  BY <1>1 DEF VInv, ThreadInv
<1>10. Held(ends, 1) = ShareRows(ends, 1)
  <2>1. pc # "merge"
    BY <1>1
  <2> QED
    BY <1>9, <2>1 DEF Held
<1> DEFINE c == CountRows(program, ctx[1], share.tail)
           J == ShareRows(ends, 1) \cup RestRows(ends, n)
<1>11. Summarises(program, input, c, J)
  <2>1. PICK u \in 0..Len(input) : u = ends[n]
    BY <1>8
  <2>2. program \in Programs /\ input \in Inputs
    BY <1>2 DEF TypeInv
  <2>3. Len(input) \in 0..Len(input) /\ u <= Len(input)
    BY <2>2, InputFacts
  <2>4. Summarises(program, input, ctx[1], ShareRows(ends, 1))
    BY <1>6, <1>7, <1>10, Zenon
  <2>5. RestRows(ends, n) = (u + 1)..Len(input)
    BY <2>1, Zenon DEF RestRows
  <2>6. ShareRows(ends, 1) \cap ((u + 1)..Len(input)) = {}
    BY <1>8, <2>5, Zenon
  <2>7. PICK S : S = ShareRows(ends, 1) /\ S \subseteq DOMAIN input
    BY <1>8
  <2>8. PICK d : d = ctx[1]
    OBVIOUS
  <2>9. Summarises(program, input, CountRows(program, d, SubSeq(input, u + 1, Len(input))),
                   S \cup ((u + 1)..Len(input)))
    <3>1. Summarises(program, input, d, S) /\ S \cap ((u + 1)..Len(input)) = {}
      BY <2>4, <2>6, <2>7, <2>8, Zenon
    <3> QED
      BY <2>2, <2>3, <2>7, <3>1, CountRowsHolds
  <2> QED
    BY <1>8, <2>1, <2>5, <2>7, <2>8, <2>9, Zenon
<1>12. DOMAIN ctx' = 1..n /\ ctx'[1] = c /\ \A k \in 1..n : k # 1 => ctx'[k] = ctx[k]
  BY <1>1, <1>4, <1>7
<1>13. t = 2
  BY <1>1 DEF VInv, ThreadInv
<1> HIDE DEF c
<1>14. CountsAt(ends)'
  <2>1. CutAt(ends)'
    BY <1>1, <1>6 DEF CutAt
  <2>2. ASSUME NEW k \in 1..n
        PROVE  Summarises(program, input, ctx'[k], Held(ends, k)')
    <3>1. CASE k = 1
      <4>1. MergedThreads' = {}
        <5>1. ended' = ended /\ t' = 2 /\ ended \subseteq 1..n
          BY <1>1, <1>2, <1>3, <1>13 DEF TypeInv
        <5>2. \A x \in 1..n : ~ (2 <= x /\ x < 2)
          OBVIOUS
        <5> QED
          BY <5>1, <5>2 DEF MergedThreads
      <4>2. Held(ends, 1)' = J
        <5>1. pc' = "merge" /\ 1 \in ended' /\ Len(share'.of) = n /\ UNCHANGED input
          BY <1>1, <1>3, <1>9
        <5>2. RestRows(ends, n)' = RestRows(ends, n)
          BY <1>1 DEF RestRows
        <5> QED
          BY <4>1, <5>1, <5>2 DEF Held
      <4> HIDE DEF J
      <4> QED
        BY <1>11, <1>12, <3>1, <4>2, Zenon
    <3>2. CASE k # 1
      <4>1. Held(ends, k)' = Held(ends, k)
        BY <1>1, <3>2, Zenon DEF Held
      <4> QED
        BY <1>6, <1>12, <3>2, <4>1, Zenon
    <3> QED
      BY <3>1, <3>2
  <2>3. program' = program /\ input' = input /\ Len(share.of)' = n
    BY <1>1, <1>3
  <2> QED
    BY <2>1, <2>2, <2>3 DEF CountsAt
<1>15. TypeInv'
  <2>1. IsInjective(c.names) /\ Range(c.names) \subseteq Channels
    <3>1. J \subseteq DOMAIN input /\ input \in Inputs
      BY <1>2, <1>8 DEF TypeInv
    <3> HIDE DEF J
    <3> QED
      BY <1>11, <3>1, SummaryNames
  <2>2. \A k \in 1..n : IsInjective(ctx[k].names) /\ Range(ctx[k].names) \subseteq Channels
    BY <1>2, <1>4, Zenon DEF TypeInv
  <2>3. \A k \in DOMAIN ctx' : IsInjective(ctx'[k].names) /\ Range(ctx'[k].names) \subseteq Channels
    BY <1>12, <2>1, <2>2, Zenon
  <2> QED
    BY <1>1, <1>2, <2>3 DEF TypeInv
<1>16. ThreadInv'
  <2>1. pc' # "start" /\ pc' # "create" /\ pc' # "tail"
    BY <1>1
  <2>2. /\ 1 \in ended' /\ (ignored' = {} => ended' = 1..Len(share'.of)) /\ created' \subseteq ended'
    BY <1>1, Zenon DEF VInv, ThreadInv
  <2> QED
    BY <2>1, <2>2, Zenon DEF ThreadInv
<1>17. CountInv'
  <2>1. pc' = "merge" /\ Len(share.of)' = n /\ program' = program
    BY <1>1, <1>3
  <2> QED
    BY <1>4, <1>12, <1>14, <2>1 DEF CountInv
<1>18. OpenInv' /\ WriteInv'
  <2>1. pc' = "merge" /\ exit' = "none"
    BY <1>1, <1>2 DEF TypeInv
  <2>2. out' = Old /\ lines' = <<>> /\ w' = 0
    BY <1>1 DEF VInv, WriteInv
  <2> QED
    BY <2>1, <2>2 DEF OpenInv, WriteInv
<1> QED
  BY <1>15, <1>16, <1>17, <1>18 DEF VInv

LEMMA OneMoreShare ==
  ASSUME NEW ends, NEW A, NEW b
  PROVE  UNION {ShareRows(ends, k) : k \in A \cup {b}}
           = (UNION {ShareRows(ends, k) : k \in A}) \cup ShareRows(ends, b)
<1>1. PICK U, V, W : /\ U = UNION {ShareRows(ends, k) : k \in A \cup {b}}
                     /\ V = UNION {ShareRows(ends, k) : k \in A} /\ W = ShareRows(ends, b)
  OBVIOUS
<1>2. ASSUME NEW x \in U
      PROVE  x \in V \/ x \in W
  <2>1. PICK k \in A \cup {b} : x \in ShareRows(ends, k)
    BY <1>1
  <2>2. CASE k \in A
    BY <1>1, <2>1, <2>2
  <2>3. CASE k = b
    BY <1>1, <2>1, <2>3
  <2> QED
    BY <2>2, <2>3
<1>3. ASSUME NEW x \in V
      PROVE  x \in U
  <2>1. PICK k \in A : x \in ShareRows(ends, k)
    BY <1>1
  <2> QED
    BY <1>1, <2>1
<1>4. ASSUME NEW x \in W
      PROVE  x \in U
  <2>1. b \in A \cup {b}
    OBVIOUS
  <2> QED
    BY <1>1, <2>1
<1>5. U = V \cup W
  BY <1>2, <1>3, <1>4
<1> QED
  BY <1>1, <1>5

LEMMA MergeNextVInv ==
  ASSUME VInv, MergeNext
  PROVE  VInv'
<1>1. /\ pc = "merge" /\ t \in Threads /\ t' = t + 1
      /\ \E names \in Orders(ctx[t].names, program.merge) :
           ctx' = [ctx EXCEPT ![1] = MergeCtx(program, @, ctx[t], names)]
      /\ UNCHANGED <<program, input, pc, share, created, ended, lines, w, out, ignored, exit>>
  BY DEF MergeNext
<1>2. TypeInv
  BY DEF VInv
<1>3. PICK n \in Nat : n = Len(share.of) /\ DOMAIN share.of = 1..n
  BY <1>2 DEF TypeInv
<1>4. /\ n >= 1 /\ DOMAIN ctx = 1..n /\ (n >= 2 => program.least = "top")
  BY <1>1, <1>3 DEF VInv, CountInv
<1>5. PICK ends : CountsAt(ends)
  BY <1>1 DEF VInv, CountInv
<1>6. CutAt(ends) /\ \A k \in 1..n : Summarises(program, input, ctx[k], Held(ends, k))
  BY <1>3, <1>5 DEF CountsAt
<1>7. 1 \in 1..n /\ t \in 1..n /\ t \in 2..n /\ t # 1 /\ n >= 2
  BY <1>1, <1>2, <1>3, <1>4 DEF Threads, TypeInv
<1>8. PICK names \in Orders(ctx[t].names, program.merge) :
        ctx' = [ctx EXCEPT ![1] = MergeCtx(program, @, ctx[t], names)]
  BY <1>1
<1> DEFINE c == MergeCtx(program, ctx[1], ctx[t], names)
           J == Held(ends, 1)
           K == Held(ends, t)
<1>9. J \subseteq DOMAIN input /\ K \subseteq DOMAIN input
  BY <1>2, <1>3, <1>4, <1>6, <1>7, HeldFacts
<1>10. K = IF t \in ended THEN ShareRows(ends, t) ELSE {}
  BY <1>7 DEF Held
<1>11. J \cap K = {}
  <2>1. /\ \A k \in 1..n : ShareRows(ends, k) \cap RestRows(ends, n) = {}
        /\ \A k, l \in 1..n : k # l => ShareRows(ends, k) \cap ShareRows(ends, l) = {}
    BY <1>2, <1>3, <1>4, <1>6, CutFacts, Zenon
  <2>2. \A k \in MergedThreads : k \in 1..n /\ k # t
    BY <1>2, <1>3, <1>7 DEF MergedThreads, TypeInv
  <2>3. \A x \in J : \/ x \in ShareRows(ends, 1) \/ x \in RestRows(ends, n)
                     \/ \E k \in MergedThreads : x \in ShareRows(ends, k)
    BY <1>3 DEF Held
  <2>4. K \subseteq ShareRows(ends, t)
    BY <1>10
  <2> HIDE DEF J, K
  <2> QED
    BY <1>7, <2>1, <2>2, <2>3, <2>4
<1>12. Summarises(program, input, c, J \cup K)
  <2>0. PICK d, s : d = ctx[1] /\ s = ctx[t]
    OBVIOUS
  <2>1. PICK p \in Programs, in \in Inputs :
          d = ctx[1] /\ s = ctx[t] /\ p = program /\ in = input
    BY <1>2, <2>0 DEF TypeInv
  <2>2. PICK A, B : A = J /\ B = K
    OBVIOUS
  <2> HIDE DEF J, K
  <2>3. /\ A \subseteq DOMAIN in /\ B \subseteq DOMAIN in /\ A \cap B = {} /\ p.least = "top"
        /\ Summarises(p, in, d, A) /\ Summarises(p, in, s, B)
        /\ names \in Orders(s.names, p.merge)
    <3>1. program.least = "top"
      BY <1>4, <1>7
    <3>2. Summarises(program, input, ctx[1], J) /\ Summarises(program, input, ctx[t], K)
      BY <1>6, <1>7, Zenon DEF J, K
    <3> QED
      BY <1>8, <1>9, <1>11, <2>1, <2>2, <3>1, <3>2, Zenon
  <2>4. Summarises(p, in, MergeCtx(p, d, s, names), A \cup B)
    BY <2>3, MergeCtxHolds
  <2> QED
    BY <2>1, <2>2, <2>4, Zenon
<1>13. DOMAIN ctx' = 1..n /\ ctx'[1] = c /\ \A k \in 1..n : k # 1 => ctx'[k] = ctx[k]
  BY <1>4, <1>7, <1>8
<1>14. Held(ends, 1)' = J \cup K
  <2>1. /\ pc = "merge" /\ pc' = "merge" /\ ended' = ended /\ Len(share'.of) = n /\ input' = input
        /\ Len(share.of) = n
    BY <1>1, <1>3
  <2>2. RestRows(ends, n)' = RestRows(ends, n)
    BY <2>1 DEF RestRows
  <2>3. MergedThreads' = MergedThreads \cup (IF t \in ended THEN {t} ELSE {})
    <3>1. t' = t + 1 /\ t \in 2..n /\ ended \subseteq 1..n
      BY <1>1, <1>2, <1>3, <1>7 DEF TypeInv
    <3>2. \A x \in 1..n : x < t + 1 <=> x < t \/ x = t
      BY <3>1
    <3>3. \A x : x \in MergedThreads' <=> x \in ended /\ 2 <= x /\ x < t + 1
      BY <2>1, <3>1 DEF MergedThreads
    <3>4. \A x : x \in MergedThreads <=> x \in ended /\ 2 <= x /\ x < t
      BY DEF MergedThreads
    <3>5. 2 <= t
      BY <3>1
    <3> QED
      BY <3>1, <3>2, <3>3, <3>4, <3>5
  <2>4. UNION {ShareRows(ends, k) : k \in MergedThreads'}
          = (UNION {ShareRows(ends, k) : k \in MergedThreads}) \cup K
    <3>1. PICK A, B, S : A = MergedThreads /\ B = MergedThreads' /\ S = K
      OBVIOUS
    <3>2. /\ B = A \cup (IF t \in ended THEN {t} ELSE {})
          /\ S = IF t \in ended THEN ShareRows(ends, t) ELSE {}
      BY <1>10, <2>3, <3>1, Zenon
    <3>3. UNION {ShareRows(ends, k) : k \in B} = (UNION {ShareRows(ends, k) : k \in A}) \cup S
      <4>1. CASE t \in ended
        <5>1. B = A \cup {t} /\ S = ShareRows(ends, t)
          BY <3>2, <4>1
        <5>2. UNION {ShareRows(ends, k) : k \in A \cup {t}}
                = (UNION {ShareRows(ends, k) : k \in A}) \cup ShareRows(ends, t)
          BY OneMoreShare, Zenon
        <5> QED
          BY <5>1, <5>2, Zenon
      <4>2. CASE t \notin ended
        <5>1. B = A /\ S = {}
          BY <3>2, <4>2
        <5> QED
          BY <5>1
      <4> QED
        BY <4>1, <4>2
    <3> HIDE DEF K
    <3> QED
      BY <3>1, <3>3, Zenon
  <2> DEFINE own == IF 1 \in ended THEN ShareRows(ends, 1) ELSE {}
  <2>5. J = own \cup (RestRows(ends, n) \cup UNION {ShareRows(ends, k) : k \in MergedThreads})
    BY <2>1, Zenon DEF Held
  <2>6. Held(ends, 1)'
          = own \cup (RestRows(ends, n) \cup UNION {ShareRows(ends, k) : k \in MergedThreads'})
    BY <2>1, <2>2, Zenon DEF Held
  <2> HIDE DEF J, K, own
  <2>7. PICK A, B, C, D, E, F, G :
          /\ A = own /\ B = RestRows(ends, n) /\ C = UNION {ShareRows(ends, k) : k \in MergedThreads}
          /\ D = UNION {ShareRows(ends, k) : k \in MergedThreads'}
          /\ E = K /\ F = J /\ G = Held(ends, 1)' /\ D = C \cup E
    BY <2>4, Zenon
  <2>8. D = C \cup E /\ F = A \cup (B \cup C) /\ G = A \cup (B \cup D)
    <3>1. D = C \cup E
      BY <2>7, Zenon
    <3>2. F = A \cup (B \cup C)
      BY <2>5, <2>7, Zenon
    <3>3. G = A \cup (B \cup D)
      BY <2>6, <2>7, Zenon
    <3> QED
      BY <3>1, <3>2, <3>3, Zenon
  <2>9. G = F \cup E
    BY <2>8
  <2> QED
    BY <2>7, <2>9, Zenon
<1>15. CountsAt(ends)'
  <2>1. CutAt(ends)'
    BY <1>1, <1>6 DEF CutAt
  <2>2. ASSUME NEW k \in 1..n
        PROVE  Summarises(program, input, ctx'[k], Held(ends, k)')
    <3>1. CASE k = 1
      <4> HIDE DEF J, K, c
      <4> QED
        BY <1>12, <1>13, <1>14, <3>1, Zenon
    <3>2. CASE k # 1
      <4>1. Held(ends, k)' = Held(ends, k)
        BY <1>1, <3>2, Zenon DEF Held
      <4> QED
        BY <1>6, <1>13, <3>2, <4>1, Zenon
    <3> QED
      BY <3>1, <3>2
  <2>3. program' = program /\ input' = input /\ Len(share.of)' = n
    BY <1>1, <1>3
  <2> QED
    BY <2>1, <2>2, <2>3 DEF CountsAt
<1> HIDE DEF c
<1>16. TypeInv'
  <2>1. IsInjective(c.names) /\ Range(c.names) \subseteq Channels
    <3>1. (J \cup K) \subseteq DOMAIN input /\ input \in Inputs
      BY <1>2, <1>9 DEF TypeInv
    <3> HIDE DEF J, K
    <3> QED
      BY <1>12, <3>1, SummaryNames
  <2>2. \A k \in 1..n : IsInjective(ctx[k].names) /\ Range(ctx[k].names) \subseteq Channels
    BY <1>2, <1>4, Zenon DEF TypeInv
  <2>3. \A k \in DOMAIN ctx' : IsInjective(ctx'[k].names) /\ Range(ctx'[k].names) \subseteq Channels
    BY <1>13, <2>1, <2>2, Zenon
  <2>4. t' \in 2..(Len(share.of) + 2)
    <3>1. t' = t + 1 /\ t \in 2..n /\ Len(share.of) = n
      BY <1>1, <1>3, <1>7
    <3> QED
      BY <3>1
  <2> QED
    BY <1>1, <1>2, <2>3, <2>4 DEF TypeInv
<1>17. ThreadInv'
  <2>1. pc' # "start" /\ pc' # "create" /\ pc' # "tail"
    BY <1>1
  <2>2. /\ 1 \in ended' /\ (ignored' = {} => ended' = 1..Len(share'.of)) /\ created' \subseteq ended'
    BY <1>1, Zenon DEF VInv, ThreadInv
  <2> QED
    BY <2>1, <2>2, Zenon DEF ThreadInv
<1>18. CountInv'
  <2>1. pc' = "merge" /\ Len(share.of)' = n /\ program' = program
    BY <1>1, <1>3
  <2> QED
    BY <1>4, <1>13, <1>15, <2>1 DEF CountInv
<1>19. OpenInv' /\ WriteInv'
  <2>1. pc' = "merge" /\ exit' = "none"
    BY <1>1, <1>2 DEF TypeInv
  <2>2. out' = Old /\ lines' = <<>> /\ w' = 0
    BY <1>1 DEF VInv, WriteInv
  <2> QED
    BY <2>1, <2>2 DEF OpenInv, WriteInv
<1> QED
  BY <1>16, <1>17, <1>18, <1>19 DEF VInv

LEMMA MergedVInv ==
  ASSUME VInv, Merged
  PROVE  VInv'
<1>1. /\ pc = "merge" /\ t \notin Threads /\ pc' = "open"
      /\ UNCHANGED <<program, input, share, created, ended, ctx, t, lines, w, out, ignored, exit>>
  BY DEF Merged
<1>2. TypeInv
  BY DEF VInv
<1>3. PICK n \in Nat : n = Len(share.of) /\ DOMAIN share.of = 1..n
  BY <1>2 DEF TypeInv
<1>4. n >= 1 /\ DOMAIN ctx = 1..n
  BY <1>1, <1>3 DEF VInv, CountInv
<1>5. PICK ends : CountsAt(ends)
  BY <1>1 DEF VInv, CountInv
<1>6. CutAt(ends) /\ \A k \in 1..n : Summarises(program, input, ctx[k], Held(ends, k))
  BY <1>3, <1>5 DEF CountsAt
<1>7. 1 \in 1..n
  BY <1>4
<1>8. PICK J : J = Held(ends, 1)
  OBVIOUS
<1>9. J \subseteq DOMAIN input
  BY <1>2, <1>3, <1>4, <1>6, <1>7, <1>8, HeldFacts
<1>10. ignored = {} => J = DOMAIN input
  <2> SUFFICES ASSUME ignored = {} PROVE J = DOMAIN input
    OBVIOUS
  <2>1. ended = 1..n
    BY <1>1, <1>3, Zenon DEF VInv, ThreadInv
  <2>2. t \in Nat /\ t >= 2 /\ t > n
    <3>1. t \in Nat /\ t >= 2 /\ t \notin 1..n
      BY <1>1, <1>2, <1>3 DEF TypeInv, Threads
    <3> QED
      BY <3>1
  <2>3. \A k : k \in MergedThreads <=> k \in 2..n
    BY <2>1, <2>2 DEF MergedThreads
  <2>4. \A k : k \in 1..n <=> k = 1 \/ k \in 2..n
    BY <1>4
  <2>5. J = ShareRows(ends, 1)
              \cup (RestRows(ends, n) \cup UNION {ShareRows(ends, k) : k \in MergedThreads})
    BY <1>1, <1>3, <1>7, <1>8, <2>1, Zenon DEF Held
  <2>6. (UNION {ShareRows(ends, i) : i \in 1..n}) \cup RestRows(ends, n) = DOMAIN input
    BY <1>2, <1>3, <1>4, <1>6, CutFacts, Zenon
  <2>7. UNION {ShareRows(ends, i) : i \in 1..n}
          = ShareRows(ends, 1) \cup UNION {ShareRows(ends, k) : k \in MergedThreads}
    BY <2>3, <2>4
  <2> QED
    BY <2>5, <2>6, <2>7
<1>11. TypeInv'
  BY <1>1, <1>2 DEF TypeInv
<1>12. ThreadInv'
  <2>1. pc' # "start" /\ pc' # "create" /\ pc' # "tail" /\ pc' # "merge"
    BY <1>1
  <2>2. created' \subseteq ended'
    BY <1>1 DEF VInv, ThreadInv
  <2> QED
    BY <2>1, <2>2, Zenon DEF ThreadInv
<1>13. CountInv'
  BY <1>1 DEF CountInv
<1>14. OpenInv'
  <2>1. Summarises(program, input, ctx[1], J)
    BY <1>6, <1>7, <1>8, Zenon
  <2>2. OpenAt(J)'
    BY <1>1, <1>4, <1>7, <1>10, <2>1 DEF OpenAt
  <2>3. J \in SUBSET DOMAIN input'
    BY <1>1, <1>9
  <2> QED
    BY <2>2, <2>3 DEF OpenInv
<1>15. WriteInv'
  <2>1. pc' = "open" /\ exit' = "none"
    BY <1>1, <1>2 DEF TypeInv
  <2>2. out' = Old /\ lines' = <<>> /\ w' = 0
    BY <1>1 DEF VInv, WriteInv
  <2> QED
    BY <2>1, <2>2 DEF WriteInv
<1> QED
  BY <1>11, <1>12, <1>13, <1>14, <1>15 DEF VInv

LEMMA ReadLinesVInv ==
  ASSUME VInv, ReadLines
  PROVE  VInv'
<1>1. /\ pc = "start"
      /\ UNCHANGED <<program, input, share, created, ended, t, lines, w, out>>
  BY DEF ReadLines
<1>2. PICK n \in 0..Len(input) :
        /\ ctx' = << CountRows(program, EmptyCtx(program), SubSeq(input, 1, n)) >>
        /\ \/ pc' = "open" /\ ignored' = (IF n < Len(input) THEN {"read"} ELSE {}) /\ exit' = exit
           \/ pc' = "exit" /\ exit' = "failed" /\ ignored' = ignored
  BY DEF ReadLines, Return
<1>3. TypeInv
  BY DEF VInv
<1>4. program \in Programs /\ input \in Inputs /\ ignored \subseteq CallKinds /\ exit = "none"
  BY <1>1, <1>3 DEF TypeInv
<1>5. Len(input) \in Nat /\ DOMAIN input = 1..Len(input)
  BY <1>4, InputFacts
<1>6. share.of = <<>> /\ created = {} /\ ended = {} /\ t = 2 /\ ignored = {}
      /\ out = Old /\ lines = <<>> /\ w = 0
  BY <1>1, Zenon DEF VInv, ThreadInv, WriteInv
<1> DEFINE c == CountRows(program, EmptyCtx(program), SubSeq(input, 1, n))
           J == 1..n
<1>7. J \subseteq DOMAIN input /\ (~ (n < Len(input)) => J = DOMAIN input)
  <2>1. PICK l \in Nat : l = Len(input)
    BY <1>5
  <2>2. n \in 0..l
    BY <1>2, <2>1, Zenon
  <2>3. 1..n \subseteq 1..l /\ (~ (n < l) => 1..n = 1..l)
    BY <2>2
  <2> QED
    BY <1>5, <2>1, <2>3, Zenon
<1>8. Summarises(program, input, c, J)
  <2>1. PICK u \in 0..Len(input), v \in 0..Len(input) : u = 0 /\ v = n /\ u <= v /\ u + 1 = 1
    BY <1>5
  <2>2. Summarises(program, input, EmptyCtx(program), {})
    BY EmptySummary, Zenon
  <2>3. {} \subseteq DOMAIN input /\ {} \cap ((u + 1)..v) = {}
    OBVIOUS
  <2>4. PICK d : d = EmptyCtx(program)
    OBVIOUS
  <2>5. Summarises(program, input, CountRows(program, d, SubSeq(input, u + 1, v)), {} \cup ((u + 1)..v))
    <3>1. Summarises(program, input, d, {})
      BY <2>2, <2>4, Zenon
    <3> QED
      BY <1>4, <2>1, <2>3, <3>1, CountRowsHolds
  <2>6. {} \cup ((u + 1)..v) = (u + 1)..v
    OBVIOUS
  <2> QED
    BY <2>1, <2>4, <2>5, <2>6, Zenon
<1> HIDE DEF c, J
<1>9. DOMAIN ctx' = {1} /\ 1 \in DOMAIN ctx' /\ ctx'[1] = c
  <2>1. ctx' = <<c>>
    BY <1>2, Zenon DEF c
  <2> QED
    BY <2>1
<1>10. IsInjective(c.names) /\ Range(c.names) \subseteq Channels
  BY <1>4, <1>7, <1>8, SummaryNames
<1>11. TypeInv'
  <2>1. \A i \in DOMAIN ctx' : IsInjective(ctx'[i].names) /\ Range(ctx'[i].names) \subseteq Channels
    BY <1>9, <1>10
  <2>2. /\ ignored' \subseteq CallKinds /\ exit' \in {"none", "ok", "failed", "killed"}
        /\ pc' \in {"start", "create", "tail", "merge", "open", "write", "exit"}
        /\ (exit' = "none" <=> pc' # "exit")
    <3>1. ignored' \subseteq CallKinds
      <4>1. (IF n < Len(input) THEN {"read"} ELSE {}) \subseteq CallKinds
        BY DEF CallKinds
      <4> QED
        BY <1>2, <1>4, <4>1, Zenon
    <3>2. (pc' = "open" /\ exit' = "none") \/ (pc' = "exit" /\ exit' = "failed")
      BY <1>2, <1>4, Zenon
    <3> QED
      BY <3>1, <3>2
  <2>3. t' \in 2..(Len(share.of) + 2)
    BY <1>1, <1>3 DEF TypeInv
  <2> QED
    BY <1>1, <1>3, <2>1, <2>2, <2>3, TypeKept
<1>12. CASE pc' = "exit"
  <2>1. exit' = "failed"
    BY <1>2, <1>12
  <2>2. out' = Old
    BY <1>1, <1>6
  <2> QED
    BY <1>11, <1>12, <2>1, <2>2, ExitVInv
<1>13. CASE pc' = "open"
  <2>1. ignored' = (IF n < Len(input) THEN {"read"} ELSE {}) /\ exit' = "none"
    BY <1>2, <1>4, <1>13
  <2>2. ThreadInv'
    <3>1. pc' # "start" /\ pc' # "create" /\ pc' # "tail" /\ pc' # "merge"
      BY <1>13
    <3>2. created' \subseteq ended'
      BY <1>1, <1>6
    <3> QED
      BY <3>1, <3>2, Zenon DEF ThreadInv
  <2>3. CountInv'
    BY <1>13 DEF CountInv
  <2>4. OpenInv'
    <3>1. ignored' = {} => J = DOMAIN input'
      BY <1>1, <1>7, <2>1
    <3>2. Summarises(program', input', ctx'[1], J)
      BY <1>1, <1>8, <1>9, Zenon
    <3>3. OpenAt(J)'
      BY <1>9, <3>1, <3>2 DEF OpenAt
    <3>4. J \in SUBSET DOMAIN input'
      BY <1>1, <1>7
    <3> QED
      BY <3>3, <3>4 DEF OpenInv
  <2>5. WriteInv'
    <3>1. out' = Old /\ lines' = <<>> /\ w' = 0
      BY <1>1, <1>6
    <3> QED
      BY <1>13, <2>1, <3>1 DEF WriteInv
  <2> QED
    BY <1>11, <2>2, <2>3, <2>4, <2>5 DEF VInv
<1> QED
  BY <1>2, <1>12, <1>13

LEMMA PartitionVInv ==
  ASSUME VInv, Partition
  PROVE  VInv'
<1>1. /\ pc = "start" /\ pc' = "create"
      /\ UNCHANGED <<program, input, created, ended, t, lines, w, out, ignored, exit>>
  BY DEF Partition
<1>0. PICK n \in 1..Min({MaxThreads, program.cap}) :
        \E ends \in [0..n -> 0..Len(input)] :
          /\ ends[0] = 0 /\ \A i \in 1..n : ends[i - 1] <= ends[i]
          /\ share' = [of |-> [i \in 1..n |-> SubSeq(input, ends[i - 1] + 1, ends[i])],
                       tail |-> SubSeq(input, ends[n] + 1, Len(input))]
          /\ ctx' = [i \in 1..n |-> EmptyCtx(program)]
  BY DEF Partition
<1>2. PICK ends \in [0..n -> 0..Len(input)] :
        /\ ends[0] = 0 /\ \A i \in 1..n : ends[i - 1] <= ends[i]
        /\ share' = [of |-> [i \in 1..n |-> SubSeq(input, ends[i - 1] + 1, ends[i])],
                     tail |-> SubSeq(input, ends[n] + 1, Len(input))]
        /\ ctx' = [i \in 1..n |-> EmptyCtx(program)]
  BY <1>0, Zenon
<1>3. TypeInv
  BY DEF VInv
<1>4. program \in Programs /\ input \in Inputs /\ ignored \subseteq CallKinds /\ exit = "none"
  BY <1>1, <1>3 DEF TypeInv
<1>5. created = {} /\ ended = {} /\ t = 2 /\ ignored = {}
      /\ out = Old /\ lines = <<>> /\ w = 0
  BY <1>1, Zenon DEF VInv, ThreadInv, WriteInv
<1>6. program.cap \in Nat \ {0} /\ program.least \in {"top", "first row"}
      /\ (program.least = "first row" => program.cap = 1)
  BY <1>4, ProgramsAssumption
<1>7. n \in Nat /\ n >= 1 /\ n <= program.cap
  <2>1. PICK a \in Nat, b \in Nat : a = MaxThreads /\ b = program.cap
    BY <1>6, VersionsAssumption
  <2>2. PICK T : T = {a, b}
    OBVIOUS
  <2>3. T \subseteq 0..(a + b) /\ T # {} /\ T \subseteq Nat /\ b \in T /\ a + b \in Nat
    BY <2>2
  <2>4. Min(T) \in T /\ Min(T) <= b
    BY <2>3, Extremes
  <2>5. n \in 1..Min(T)
    BY <1>0, <2>1, <2>2, Zenon
  <2>6. PICK x \in Nat : x = Min(T) /\ x <= b
    BY <2>3, <2>4
  <2>7. n \in 1..x
    BY <2>5, <2>6
  <2> QED
    BY <2>1, <2>6, <2>7
<1>8. n >= 2 => program.least = "top"
  <2>1. PICK cap \in Nat : cap = program.cap
    BY <1>6
  <2>2. n >= 2 => cap # 1
    BY <1>7, <2>1
  <2> QED
    BY <1>6, <2>1, <2>2
<1>9. share'.of = [i \in 1..n |-> SubSeq(input, ends[i - 1] + 1, ends[i])]
  <2>1. \A x, y : [of |-> x, tail |-> y].of = x
    OBVIOUS
  <2> QED
    BY <1>2, <2>1, Zenon
<1>10. Len(share'.of) = n /\ DOMAIN share'.of = 1..n
  BY <1>7, <1>9
<1>11. DOMAIN ctx' = 1..n /\ \A i \in 1..n : ctx'[i] = EmptyCtx(program)
  BY <1>2
<1>12. \A i \in 1..n : Summarises(program, input, ctx'[i], {})
  <2>1. Summarises(program, input, EmptyCtx(program), {})
    BY EmptySummary, Zenon
  <2> QED
    BY <1>11, <2>1, Zenon
<1>13. TypeInv'
  <2>1. \A i \in DOMAIN ctx' : IsInjective(ctx'[i].names) /\ Range(ctx'[i].names) \subseteq Channels
    <3>1. {} \subseteq DOMAIN input
      OBVIOUS
    <3>2. ASSUME NEW i \in 1..n
          PROVE  IsInjective(ctx'[i].names) /\ Range(ctx'[i].names) \subseteq Channels
      <4>1. PICK c : c = ctx'[i]
        OBVIOUS
      <4>2. Summarises(program, input, c, {})
        BY <1>12, <4>1, Zenon
      <4>3. IsInjective(c.names) /\ Range(c.names) \subseteq Channels
        BY <1>4, <3>1, <4>2, SummaryNames
      <4> QED
        BY <4>1, <4>3, Zenon
    <3> QED
      BY <1>11, <3>2
  <2>2. /\ Len(share'.of) \in Nat /\ DOMAIN share'.of = 1..Len(share'.of)
        /\ t' \in 2..(Len(share'.of) + 2)
        /\ created' \subseteq 2..Len(share'.of) /\ ended' \subseteq 1..Len(share'.of)
    BY <1>1, <1>5, <1>7, <1>10
  <2>3. /\ program' \in Programs /\ input' \in Inputs /\ Len(TextOf(lines')) \in Nat /\ w' \in 0..Len(TextOf(lines'))
        /\ ignored' \subseteq CallKinds /\ exit' \in {"none", "ok", "failed", "killed"}
    BY <1>1, <1>3 DEF TypeInv
  <2>4. /\ pc' \in {"start", "create", "tail", "merge", "open", "write", "exit"}
        /\ (exit' = "none" <=> pc' # "exit")
    BY <1>1, <1>4
  <2> QED
    BY <2>1, <2>2, <2>3, <2>4 DEF TypeInv
<1>14. ThreadInv'
  <2>1. {k \in 2..n : k < 2} = {}
    BY <1>7
  <2>2. created' = {k \in 2..Len(share'.of) : k < t'}
    BY <1>1, <1>5, <1>10, <2>1
  <2>3. pc' # "start" /\ pc' # "tail" /\ pc' # "merge" /\ pc' = "create"
    BY <1>1
  <2> QED
    BY <2>2, <2>3, Zenon DEF ThreadInv
<1>15. CountsAt(ends)'
  <2>1. CutAt(ends)'
    <3>1. ends \in [0..n -> 0..Len(input)]
      BY <1>2
    <3>2. /\ input' = input /\ ends[0] = 0 /\ \A i \in 1..n : ends[i - 1] <= ends[i]
          /\ share' = [of |-> [i \in 1..n |-> SubSeq(input, ends[i - 1] + 1, ends[i])],
                       tail |-> SubSeq(input, ends[n] + 1, Len(input))]
      BY <1>1, <1>2
    <3> QED
      BY <1>10, <3>1, <3>2, Zenon DEF CutAt
  <2>2. ASSUME NEW i \in 1..n
        PROVE  Held(ends, i)' = {}
    <3>1. pc' # "merge" /\ i \notin ended'
      BY <1>1, <1>5
    <3> QED
      BY <3>1, Zenon DEF Held
  <2>3. \A i \in 1..n : Summarises(program', input', ctx'[i], Held(ends, i)')
    BY <1>1, <1>12, <2>2, Zenon
  <2> QED
    BY <1>10, <2>1, <2>3, Zenon DEF CountsAt
<1>16. CountInv'
  <2>1. program' = program /\ Len(share.of)' = n /\ Len(share'.of) >= 1
    BY <1>1, <1>7, <1>10
  <2> QED
    BY <1>8, <1>11, <1>15, <2>1 DEF CountInv
<1>17. OpenInv' /\ WriteInv'
  <2>1. pc' = "create" /\ exit' = "none"
    BY <1>1, <1>4
  <2>2. out' = Old /\ lines' = <<>> /\ w' = 0
    BY <1>1, <1>5
  <2> QED
    BY <2>1, <2>2 DEF OpenInv, WriteInv
<1> QED
  BY <1>13, <1>14, <1>16, <1>17 DEF VInv

LEMMA OpenOutputVInv ==
  ASSUME VInv, OpenOutput
  PROVE  VInv'
<1>1. /\ pc = "open"
      /\ UNCHANGED <<program, input, share, created, ended, ctx, t, w, ignored>>
  BY DEF OpenOutput
<1>2. \/ /\ out' = <<>> /\ pc' = "write" /\ exit' = exit
         /\ lines' \in LineOrders(program, ctx[1])
      \/ /\ out' = out \/ out' = <<>>
         /\ pc' = "exit" /\ exit' = "failed" /\ lines' = lines
  BY DEF OpenOutput, Return
<1>3. TypeInv
  BY DEF VInv
<1>4. program \in Programs /\ input \in Inputs /\ exit = "none"
  BY <1>1, <1>3 DEF TypeInv
<1>5. PICK J \in SUBSET DOMAIN input : OpenAt(J)
  BY <1>1 DEF VInv, OpenInv
<1>6. Summarises(program, input, ctx[1], J) /\ (ignored = {} => J = DOMAIN input)
  BY <1>5 DEF OpenAt
<1>7. out = Old /\ lines = <<>> /\ w = 0 /\ created \subseteq ended
  BY <1>1, Zenon DEF VInv, WriteInv, ThreadInv
<1>8. CASE pc' = "exit"
  <2>1. exit' = "failed" /\ lines' = lines
    BY <1>2, <1>8
  <2>2. TypeInv'
    BY <1>1, <1>3, <1>8, <2>1 DEF TypeInv
  <2>3. CASE out' = Old
    BY <1>8, <2>1, <2>2, <2>3, ExitVInv
  <2>4. CASE out' = <<>>
    <3>1. WroteAt({})'
      <4>1. out' \in Seq(FileOf(LinesFor(program', input', {})))
        BY <2>4
      <4>2. IsPrefix(<<>>, TextOf(lines')) /\ exit' # "ok"
        <5>1. PICK X : X = {} /\ lines' \in Seq(X)
          BY <1>7, <2>1
        <5>2. PICK s \in Seq(X \X (1..Pieces)) : s = TextOf(lines')
          BY <5>1, TextFacts
        <5>3. IsPrefix(<<>>, s)
          BY DEF IsPrefix
        <5> QED
          BY <2>1, <5>2, <5>3
      <4> QED
        BY <2>4, <4>1, <4>2 DEF WroteAt, Beginning
    <3>2. {} \in SUBSET DOMAIN input'
      OBVIOUS
    <3> QED
      BY <1>8, <2>1, <2>2, <3>1, <3>2, ExitVInv
  <2> QED
    BY <1>2, <1>7, <1>8, <2>3, <2>4
<1>9. CASE pc' = "write"
  <2>1. /\ out' = <<>> /\ exit' = "none"
        /\ lines' \in LineOrders(program, ctx[1])
    BY <1>2, <1>4, <1>9
  <2>3. /\ lines' \in Seq(LinesFor(program, input, J))
        /\ IsInjective(lines') /\ Range(lines') = LinesFor(program, input, J)
    <3>0. PICK c : c = ctx[1]
      OBVIOUS
    <3>1. PICK p \in Programs, in \in Inputs : p = program /\ in = input
      BY <1>4
    <3>2. PICK ls \in LineOrders(p, c) : ls = lines'
      BY <2>1, <3>0, <3>1, Zenon
    <3>3. Summarises(p, in, c, J) /\ J \subseteq DOMAIN in
      BY <1>5, <1>6, <3>0, <3>1, Zenon
    <3>4. /\ ls \in Seq(LinesFor(p, in, J))
          /\ IsInjective(ls) /\ Range(ls) = LinesFor(p, in, J)
      BY <3>3, LineOrdersFacts
    <3> QED
      BY <3>1, <3>2, <3>4, Zenon
  <2>4. TypeInv'
    <3>0. PICK X : X = LinesFor(program, input, J)
      OBVIOUS
    <3>1. Len(TextOf(lines')) \in Nat /\ w' \in 0..Len(TextOf(lines'))
      <4>1. lines' \in Seq(X)
        BY <2>3, <3>0, Zenon
      <4>2. Len(TextOf(lines')) \in Nat
        BY <4>1, TextFacts
      <4> QED
        BY <1>1, <1>7, <4>2
    <3> QED
      BY <1>1, <1>3, <1>9, <2>1, <2>3, <3>1 DEF TypeInv
  <2>5. ThreadInv'
    <3>1. pc' # "start" /\ pc' # "create" /\ pc' # "tail" /\ pc' # "merge"
      BY <1>9
    <3>2. created' \subseteq ended'
      BY <1>1, <1>7
    <3> QED
      BY <3>1, <3>2, Zenon DEF ThreadInv
  <2>6. CountInv' /\ OpenInv'
    BY <1>9 DEF CountInv, OpenInv
  <2>7. WriteInv'
    <3>0. PICK X : X = LinesFor(program, input, J)
      OBVIOUS
    <3>1. SubSeq(TextOf(lines'), 1, w') = <<>> /\ <<>> \in Seq(FileOf(X))
      <4>1. lines' \in Seq(X)
        BY <2>3, <3>0, Zenon
      <4>2. PICK s \in Seq(X \X (1..Pieces)) : s = TextOf(lines')
        BY <4>1, TextFacts
      <4>3. w' = 0
        BY <1>1, <1>7
      <4>4. SubSeq(s, 1, 0) = <<>>
        OBVIOUS
      <4> QED
        BY <4>2, <4>3, <4>4
    <3>2. /\ ignored' = {} => J = DOMAIN input'
          /\ out' = SubSeq(TextOf(lines'), 1, w')
      <4>1. out' = SubSeq(TextOf(lines'), 1, w')
        BY <2>1, <3>1, Zenon
      <4>2. ignored' = {} => J = DOMAIN input'
        BY <1>1, <1>6
      <4> QED
        BY <4>1, <4>2
    <3>3. WriteAt(J)'
      <4>1. /\ lines' \in Seq(LinesFor(program', input', J))
            /\ out' \in Seq(FileOf(LinesFor(program', input', J)))
            /\ IsInjective(lines') /\ Range(lines') = LinesFor(program', input', J)
        BY <1>1, <2>1, <2>3, <3>0, <3>1, Zenon
      <4> QED
        BY <3>2, <4>1, Zenon DEF WriteAt
    <3>4. J \in SUBSET DOMAIN input'
      BY <1>1
    <3>5. pc' # "exit" /\ exit' # "ok"
      BY <1>9, <2>1
    <3> QED
      BY <1>9, <3>3, <3>4, <3>5, Zenon DEF WriteInv
  <2> QED
    BY <2>4, <2>5, <2>6, <2>7 DEF VInv
<1> QED
  BY <1>2, <1>8, <1>9

(* A step of the writing that does not end it.                             *)
LEMMA WritingVInv ==
  ASSUME VInv, pc = "write",
         UNCHANGED <<program, input, pc, share, created, ended, ctx, t, lines, exit>>,
         w' \in 0..Len(TextOf(lines)), ignored' \subseteq CallKinds,
         NEW J \in SUBSET DOMAIN input, WriteAt(J)'
  PROVE  VInv'
<1>1. TypeInv /\ exit = "none"
  BY DEF VInv, TypeInv
<1>2. TypeInv'
  BY <1>1 DEF TypeInv
<1>3. ThreadInv'
  <2>1. pc' # "start" /\ pc' # "create" /\ pc' # "tail" /\ pc' # "merge"
    OBVIOUS
  <2>2. created' \subseteq ended'
    BY DEF VInv, ThreadInv
  <2> QED
    BY <2>1, <2>2, Zenon DEF ThreadInv
<1>4. CountInv' /\ OpenInv'
  BY DEF CountInv, OpenInv
<1>5. WriteInv'
  <2>1. pc' = "write" /\ pc' # "exit" /\ exit' # "ok" /\ J \in SUBSET DOMAIN input'
    BY <1>1
  <2> QED
    BY <2>1, Zenon DEF WriteInv
<1> QED
  BY <1>2, <1>3, <1>4, <1>5 DEF VInv

LEMMA PrintBytesVInv ==
  ASSUME VInv, PrintBytes
  PROVE  VInv'
<1>0. PICK T : T = TextOf(lines)
  OBVIOUS
<1>1. /\ pc = "write" /\ w < Len(T) /\ w' = w + 1
      /\ UNCHANGED <<program, input, pc, share, created, ended, ctx, t, lines, exit>>
  BY <1>0 DEF PrintBytes, Text
<1>2. \/ out' = Append(out, T[w + 1]) /\ ignored' = ignored
      \/ out' = out /\ ignored' = ignored \cup {"output"}
  BY <1>0 DEF PrintBytes, Text
<1>3. PICK J \in SUBSET DOMAIN input : WriteAt(J)
  BY <1>1 DEF VInv, WriteInv
<1>4. PICK X : X = LinesFor(program, input, J)
  OBVIOUS
<1>5. /\ lines \in Seq(X) /\ out \in Seq(FileOf(X)) /\ IsInjective(lines) /\ Range(lines) = X
      /\ ignored = {} => J = DOMAIN input
      /\ "output" \notin ignored => out = SubSeq(T, 1, w)
  BY <1>0, <1>3, <1>4, Zenon DEF WriteAt
<1>6. T \in Seq(X \X (1..Pieces)) /\ Len(T) \in Nat
  BY <1>0, <1>5, TextFacts
<1>7. w \in 0..Len(T) /\ ignored \subseteq CallKinds
  BY <1>0 DEF VInv, TypeInv
<1>8. out' \in Seq(FileOf(X))
  <2>1. T[w + 1] \in X \X (1..Pieces)
    BY <1>1, <1>6, <1>7
  <2>2. T[w + 1] \in FileOf(X)
    BY <2>1 DEF FileOf
  <2> QED
    BY <1>2, <1>5, <2>2
<1>9. /\ ignored' = {} => J = DOMAIN input
      /\ "output" \notin ignored' => out' = SubSeq(T, 1, w')
  <2>1. CASE out' = out /\ ignored' = ignored \cup {"output"}
    BY <2>1
  <2>2. CASE out' = Append(out, T[w + 1]) /\ ignored' = ignored
    <3>1. PICK v \in Nat : v = w /\ v < Len(T)
      BY <1>1, <1>6, <1>7
    <3>2. Append(SubSeq(T, 1, v), T[v + 1]) = SubSeq(T, 1, v + 1)
      BY <1>6, <3>1
    <3> QED
      BY <1>1, <1>5, <2>2, <3>1, <3>2, Zenon
  <2> QED
    BY <1>2, <2>1, <2>2
<1>10. WriteAt(J)'
  <2>1. /\ lines' \in Seq(LinesFor(program', input', J))
        /\ out' \in Seq(FileOf(LinesFor(program', input', J)))
        /\ IsInjective(lines') /\ Range(lines') = LinesFor(program', input', J)
        /\ ignored' = {} => J = DOMAIN input'
        /\ "output" \notin ignored' => out' = SubSeq(TextOf(lines'), 1, w')
    BY <1>0, <1>1, <1>4, <1>5, <1>8, <1>9, Zenon
  <2> QED
    BY <2>1, Zenon DEF WriteAt
<1>11. w' \in 0..Len(TextOf(lines))
  BY <1>0, <1>1, <1>6, <1>7
<1>12. ignored' \subseteq CallKinds
  BY <1>2, <1>7 DEF CallKinds
<1> QED
  BY <1>1, <1>3, <1>10, <1>11, <1>12, WritingVInv

LEMMA NextPart ==
  ASSUME NEW X, NEW s \in Seq(X), NEW v \in Nat, NEW n \in Nat, v + n <= Len(s)
  PROVE  /\ SubSeq(s, v + 1, v + n) \in Seq(X)
         /\ SubSeq(s, 1, v) \o SubSeq(s, v + 1, v + n) = SubSeq(s, 1, v + n)
<1>1. Len(s) \in Nat
  OBVIOUS
<1> DEFINE a == SubSeq(s, 1, v)
           b == SubSeq(s, v + 1, v + n)
           c == SubSeq(s, 1, v + n)
<1>2. /\ a \in Seq(X) /\ Len(a) = v /\ DOMAIN a = 1..v
      /\ \A i \in 1..v : a[i] = s[i]
  <2>1. a \in Seq(X) /\ Len(a) = v
    BY <1>1
  <2> QED
    BY <1>1, <2>1
<1>3. /\ b \in Seq(X) /\ Len(b) = n /\ \A i \in 1..n : b[i] = s[v + i]
  <2>1. PICK u \in 0..Len(s), x \in 0..Len(s) : u = v /\ x = v + n /\ u <= x /\ x - u = n
    BY <1>1
  <2>2. /\ SubSeq(s, u + 1, x) \in Seq(X) /\ Len(SubSeq(s, u + 1, x)) = x - u
        /\ \A i \in 1..(x - u) : SubSeq(s, u + 1, x)[i] = s[u + i]
    BY <2>1, SubSeqFacts
  <2> QED
    BY <2>1, <2>2, Zenon
<1>4. c \in Seq(X) /\ Len(c) = v + n /\ \A i \in 1..(v + n) : c[i] = s[i]
  <2>1. c \in Seq(X) /\ Len(c) = v + n
    BY <1>1
  <2> QED
    BY <1>1, <2>1
<1> HIDE DEF a, b, c
<1>5. a \o b \in Seq(X) /\ Len(a \o b) = v + n
  <2>1. \A x, y \in Seq(X) : x \o y \in Seq(X) /\ Len(x \o y) = Len(x) + Len(y)
    OBVIOUS
  <2>2. a \in Seq(X) /\ b \in Seq(X) /\ Len(a) = v /\ Len(b) = n
    BY <1>2, <1>3
  <2>3. a \o b \in Seq(X) /\ Len(a \o b) = Len(a) + Len(b)
    BY <2>1, <2>2, Zenon
  <2> QED
    BY <2>2, <2>3, Zenon
<1>6. ASSUME NEW i \in 1..(v + n)
      PROVE  (a \o b)[i] = c[i]
  <2>1. CASE i <= v
    <3>1. (a \o b)[i] = a[i] /\ i \in 1..v
      BY <1>2, <1>3, <2>1
    <3> QED
      BY <1>2, <1>4, <3>1
  <2>2. CASE ~ (i <= v)
    <3>1. PICK k \in 1..n : i = v + k /\ i - v = k
      BY <2>2
    <3>2. (a \o b)[i] = b[i - v]
      BY <1>2, <1>3, <2>2
    <3> QED
      BY <1>3, <1>4, <3>1, <3>2
  <2> QED
    BY <2>1, <2>2
<1>7. a \o b = c
  BY <1>4, <1>5, <1>6
<1> QED
  BY <1>3, <1>7 DEF a, b, c

LEMMA WholeSeq ==
  ASSUME NEW X, NEW s \in Seq(X)
  PROVE  SubSeq(s, 1, Len(s)) = s
<1>1. Len(s) \in Nat
  OBVIOUS
<1> DEFINE a == SubSeq(s, 1, Len(s))
<1>2. a \in Seq(X) /\ Len(a) = Len(s)
  BY <1>1
<1>3. \A i \in 1..Len(s) : a[i] = s[i]
  BY <1>1
<1> HIDE DEF a
<1>4. a = s
  BY <1>2, <1>3
<1> QED
  BY <1>4 DEF a

(* What was written of a sequence is a beginning of it.                    *)
LEMMA PartIsPrefix ==
  ASSUME NEW X, NEW s \in Seq(X), NEW v \in 0..Len(s)
  PROVE  IsPrefix(SubSeq(s, 1, v), s)
<1>1. PICK l \in Nat : l = Len(s)
  OBVIOUS
<1>2. SubSeq(s, 1, v) \in Seq(X) /\ Len(SubSeq(s, 1, v)) = v /\ v <= l
  BY <1>1
<1>3. PICK a \in Seq(X) : a = SubSeq(s, 1, v) /\ Len(a) = v
  BY <1>2
<1>4. SubSeq(a, 1, Len(a)) = a
  BY WholeSeq
<1> QED
  BY <1>1, <1>2, <1>3, <1>4 DEF IsPrefix

LEMMA WriteSomeVInv ==
  ASSUME VInv, WriteSome
  PROVE  VInv'
<1>0. PICK T : T = TextOf(lines)
  OBVIOUS
<1>1. /\ pc = "write" /\ w < Len(T)
      /\ UNCHANGED <<program, input, share, created, ended, ctx, t, lines, ignored>>
  BY <1>0 DEF WriteSome, Text
<1>2. \/ \E n \in 0..(Len(T) - w) :
            out' = out \o SubSeq(T, w + 1, w + n) /\ w' = w + n /\ UNCHANGED <<pc, exit>>
      \/ pc' = "exit" /\ exit' = "failed" /\ UNCHANGED <<out, w>>
  BY <1>0 DEF WriteSome, Return, Text
<1>3. PICK J \in SUBSET DOMAIN input : WriteAt(J)
  BY <1>1 DEF VInv, WriteInv
<1>4. PICK X : X = LinesFor(program, input, J)
  OBVIOUS
<1>5. /\ lines \in Seq(X) /\ out \in Seq(FileOf(X)) /\ IsInjective(lines) /\ Range(lines) = X
      /\ ignored = {} => J = DOMAIN input
      /\ "output" \notin ignored => out = SubSeq(T, 1, w)
  BY <1>0, <1>3, <1>4, Zenon DEF WriteAt
<1>6. T \in Seq(X \X (1..Pieces)) /\ Len(T) \in Nat
  BY <1>0, <1>5, TextFacts
<1>7. w \in 0..Len(T) /\ ignored \subseteq CallKinds /\ TypeInv
  BY <1>0 DEF VInv, TypeInv
<1>8. CASE pc' = "exit" /\ exit' = "failed" /\ UNCHANGED <<out, w>>
  <2>1. TypeInv'
    BY <1>1, <1>7, <1>8 DEF TypeInv
  <2>2. Beginning'
    <3>1. IsPrefix(SubSeq(T, 1, w), T)
      BY <1>6, <1>7, PartIsPrefix
    <3> QED
      BY <1>0, <1>1, <1>5, <1>8, <3>1 DEF Beginning
  <2>3. WroteAt(J)'
    BY <1>1, <1>4, <1>5, <1>8, <2>2, Zenon DEF WroteAt
  <2>4. J \in SUBSET DOMAIN input'
    BY <1>1
  <2> QED
    BY <1>8, <2>1, <2>3, <2>4, ExitVInv
<1>9. CASE \E n \in 0..(Len(T) - w) :
             out' = out \o SubSeq(T, w + 1, w + n) /\ w' = w + n /\ UNCHANGED <<pc, exit>>
  <2>1. PICK n \in 0..(Len(T) - w) :
          out' = out \o SubSeq(T, w + 1, w + n) /\ w' = w + n /\ UNCHANGED <<pc, exit>>
    BY <1>9
  <2>2. PICK v \in Nat, k \in Nat : v = w /\ k = n /\ v + k <= Len(T)
    BY <1>6, <1>7, <2>1
  <2>3. /\ SubSeq(T, v + 1, v + k) \in Seq(X \X (1..Pieces))
        /\ SubSeq(T, 1, v) \o SubSeq(T, v + 1, v + k) = SubSeq(T, 1, v + k)
    BY <1>6, <2>2, NextPart
  <2>4. PICK part : part = SubSeq(T, v + 1, v + k) /\ part \in Seq(X \X (1..Pieces))
    BY <2>3
  <2>5. out' = out \o part
    BY <2>1, <2>2, <2>4, Zenon
  <2>6. out' \in Seq(FileOf(X))
    <3>1. PICK F : F = FileOf(X) /\ X \X (1..Pieces) \subseteq F
      BY DEF FileOf
    <3>2. part \in Seq(F) /\ out \in Seq(F)
      BY <1>5, <2>4, <3>1
    <3>3. out \o part \in Seq(F)
      BY <3>2
    <3> QED
      BY <2>5, <3>1, <3>3, Zenon
  <2>7. w' = v + k /\ w' \in 0..Len(T)
    <3>1. w' = v + k
      BY <2>1, <2>2, Zenon
    <3> QED
      BY <1>6, <2>2, <3>1
  <2>8. "output" \notin ignored => out' = SubSeq(T, 1, w')
    BY <1>5, <2>2, <2>3, <2>4, <2>5, <2>7, Zenon
  <2>9. WriteAt(J)'
    <3>1. /\ lines' \in Seq(LinesFor(program', input', J))
          /\ out' \in Seq(FileOf(LinesFor(program', input', J)))
          /\ IsInjective(lines') /\ Range(lines') = LinesFor(program', input', J)
          /\ ignored' = {} => J = DOMAIN input'
          /\ "output" \notin ignored' => out' = SubSeq(TextOf(lines'), 1, w')
      BY <1>0, <1>1, <1>4, <1>5, <2>6, <2>8, Zenon
    <3> QED
      BY <3>1, Zenon DEF WriteAt
  <2>10. w' \in 0..Len(TextOf(lines)) /\ ignored' \subseteq CallKinds
    BY <1>0, <1>1, <1>7, <2>7
  <2> QED
    BY <1>1, <1>3, <2>1, <2>9, <2>10, WritingVInv
<1> QED
  BY <1>2, <1>8, <1>9

LEMMA CloseVInv ==
  ASSUME VInv, Close
  PROVE  VInv'
<1>0. PICK T : T = TextOf(lines)
  OBVIOUS
<1>1. /\ pc = "write" /\ w = Len(T) /\ pc' = "exit" /\ exit' = "ok"
      /\ UNCHANGED <<program, input, share, created, ended, ctx, t, lines, w>>
  BY <1>0 DEF Close, Return, Text
<1>2. \/ out' = out /\ ignored' = ignored
      \/ \E gone : out' = Without(gone) /\ ignored' = ignored \cup {"output"}
  BY DEF Close
<1>3. PICK J \in SUBSET DOMAIN input : WriteAt(J)
  BY <1>1 DEF VInv, WriteInv
<1>4. PICK X : X = LinesFor(program, input, J)
  OBVIOUS
<1>5. /\ lines \in Seq(X) /\ out \in Seq(FileOf(X)) /\ IsInjective(lines) /\ Range(lines) = X
      /\ ignored = {} => J = DOMAIN input
      /\ "output" \notin ignored => out = SubSeq(T, 1, w)
  BY <1>0, <1>3, <1>4, Zenon DEF WriteAt
<1>6. T \in Seq(X \X (1..Pieces)) /\ Len(T) \in Nat
  BY <1>0, <1>5, TextFacts
<1>7. TypeInv /\ ignored \subseteq CallKinds
  BY DEF VInv, TypeInv
<1>8. out' \in Seq(FileOf(X))
  <2>1. CASE out' = out
    BY <1>5, <2>1
  <2>2. ASSUME NEW gone, out' = Without(gone)
        PROVE  out' \in Seq(FileOf(X))
    <3>1. PICK F : F = FileOf(X) /\ Hole \in F
      BY DEF FileOf
    <3>2. PICK l \in Nat : l = Len(out) /\ DOMAIN out = 1..l /\ \A i \in 1..l : out[i] \in F
      BY <1>5, <3>1
    <3>3. out' = [i \in 1..l |-> IF i \in gone THEN Hole ELSE out[i]]
      BY <2>2, <3>2, Zenon DEF Without
    <3>4. out' \in [1..l -> F]
      BY <3>1, <3>2, <3>3
    <3>5. out' \in Seq(F)
      BY <3>4
    <3> QED
      BY <3>1, <3>5, Zenon
  <2> QED
    BY <1>2, <2>1, <2>2
<1>9. "output" \notin ignored' => out' = T /\ ignored' = ignored
  <2> SUFFICES ASSUME "output" \notin ignored' PROVE out' = T /\ ignored' = ignored
    OBVIOUS
  <2>1. out' = out /\ ignored' = ignored
    BY <1>2
  <2>2. SubSeq(T, 1, Len(T)) = T
    BY <1>6, WholeSeq
  <2> QED
    BY <1>1, <1>5, <2>1, <2>2, Zenon
<1>10. TypeInv'
  <2>1. ignored' \subseteq CallKinds
    BY <1>2, <1>7 DEF CallKinds
  <2> QED
    BY <1>1, <1>7, <2>1 DEF TypeInv
<1>11. ThreadInv' /\ CountInv' /\ OpenInv'
  BY <1>1 DEF ThreadInv, CountInv, OpenInv
<1>12. Beginning'
  <2>1. IsPrefix(T, T)
    <3>1. Len(T) \in 0..Len(T)
      BY <1>6
    <3>2. SubSeq(T, 1, Len(T)) = T
      BY <1>6, WholeSeq
    <3>3. IsPrefix(SubSeq(T, 1, Len(T)), T)
      BY <1>6, <3>1, PartIsPrefix
    <3> QED
      BY <3>2, <3>3, Zenon
  <2> QED
    BY <1>0, <1>1, <1>9, <2>1, Zenon DEF Beginning
<1>13. WroteAt(J)'
  BY <1>1, <1>4, <1>8, <1>12, Zenon DEF WroteAt
<1>14. ASSUME ignored' = {}
       PROVE  /\ out' = TextOf(lines')
              /\ IsInjective(lines')
              /\ Range(lines') = LinesFor(program', input', DOMAIN input')
  <2>1. out' = T /\ ignored = {}
    BY <1>9, <1>14
  <2>2. J = DOMAIN input
    BY <1>5, <2>1
  <2> QED
    BY <1>0, <1>1, <1>4, <1>5, <2>1, <2>2, Zenon
<1>15. WriteInv'
  <2>1. J \in SUBSET DOMAIN input'
    BY <1>1
  <2> QED
    BY <1>1, <1>13, <1>14, <2>1, Zenon DEF WriteInv
<1> QED
  BY <1>10, <1>11, <1>15 DEF VInv

LEMMA NextVInv ==
  ASSUME VInv, [Next]_vars
  PROVE  VInv'
<1>1. ASSUME NEW i \in Threads, RunWorker(i) \/ RenumberFaults(i)
      PROVE  VInv'
  BY <1>1, RunWorkerVInv, RenumberFaultsVInv
<1> QED
  BY <1>1, SameVInv, CannotStartVInv, ReadLinesVInv, PartitionVInv, CreateThreadVInv, JoinVInv,
     TailRowsVInv, MergeNextVInv, MergedVInv, OpenOutputVInv, PrintBytesVInv, WriteSomeVInv,
     CloseVInv DEF Next

LEMMA VInvHolds == Spec => []VInv
<1> QED
  BY InitVInv, NextVInv, PTL DEF Spec

---------------------------------------------------------------------------
(* Every state of the runs of 00 to 26 is one of TypeOK's: the ids of a    *)
(* context are ids of distinct channels of the input, a thread that was    *)
(* created or has returned is one main has a share for.                    *)
THEOREM TypeCorrect == Spec => []TypeOK
<1>1. VInv => TypeOK
  BY DEF VInv, TypeInv, TypeOK, Threads, Text, CallKinds
<1> QED
  BY <1>1, VInvHolds, PTL

(* A run of any of 00 to 26 that exits 0, and of whose calls none failed   *)
(* unnoticed, has written the text of the reference's summary, each line   *)
(* once: however the rows are split over however many threads, however     *)
(* their calls interleave, wherever a worker renumbers its channels,       *)
(* whichever of the three ways the sums are kept, and in whichever order a *)
(* table gives its channels to the merge and to the output.                *)
THEOREM TrustedTheorem == Spec => []Trusted
<1>1. VInv => Trusted
  <2> SUFFICES ASSUME VInv, exit = "ok", ignored = {}
               PROVE  /\ out = Text
                      /\ IsInjective(lines) /\ Range(lines) = Promise!Summary(input)
    BY DEF Trusted
  <2>1. /\ out = TextOf(lines)
        /\ IsInjective(lines) /\ Range(lines) = LinesFor(program, input, DOMAIN input)
    BY Zenon DEF VInv, WriteInv
  <2>2. input \in Inputs
    BY DEF VInv, TypeInv
  <2>3. LinesFor(program, input, DOMAIN input) = Promise!Summary(input)
    BY <2>2, WholeSummary
  <2> QED
    BY <2>1, <2>3, Zenon DEF Text
<1> QED
  BY <1>1, VInvHolds, PTL

(* Whatever calls fail in a run of 00 to 26, noticed or not, wherever it   *)
(* stops and whichever bytes of the output are lost: every byte in the file*)
(* is of a line that reports no more rows, stamps or characters than the   *)
(* input has and no extreme outside the input's; and unless bytes of the   *)
(* output were lost unnoticed, the file is a beginning of such lines' text,*)
(* all of it when the run exits 0.                                         *)
THEOREM NeverMoreTheorem == Spec => []NeverMore
<1>1. VInv => NeverMore
  <2> SUFFICES ASSUME VInv, out # Old
               PROVE  /\ \A line \in {piece[1] : piece \in Range(out) \ {Hole}} :
                           Below(line, Promise!Line(input, line.channel, line.month))
                      /\ "output" \notin ignored =>
                           IsPrefix(out, Text) /\ (exit = "ok" => out = Text)
    BY Zenon DEF NeverMore, Below
  <2>1. \E J \in SUBSET DOMAIN input : WroteAt(J)
    <3>1. CASE pc = "write"
      <4>1. PICK J \in SUBSET DOMAIN input : WriteAt(J)
        BY <3>1 DEF VInv, WriteInv
      <4>2. PICK X : X = LinesFor(program, input, J)
        OBVIOUS
      <4>3. PICK T : T = TextOf(lines)
        OBVIOUS
      <4>4. T \in Seq(X \X (1..Pieces)) /\ w \in 0..Len(T) /\ exit # "ok"
        <5>1. lines \in Seq(X)
          BY <4>1, <4>2, Zenon DEF WriteAt
        <5>2. T \in Seq(X \X (1..Pieces))
          BY <4>3, <5>1, TextFacts
        <5> QED
          BY <3>1, <4>3, <5>2 DEF VInv, TypeInv
      <4>5. IsPrefix(SubSeq(T, 1, w), T)
        BY <4>4, PartIsPrefix
      <4>6. Beginning
        BY <4>1, <4>3, <4>4, <4>5, Zenon DEF WriteAt, Beginning
      <4> QED
        BY <4>1, <4>6, Zenon DEF WriteAt, WroteAt
    <3>2. CASE pc = "exit"
      BY <3>2 DEF VInv, WriteInv
    <3>3. CASE pc \notin {"write", "exit"}
      BY <3>3 DEF VInv, WriteInv
    <3> QED
      BY <3>1, <3>2, <3>3
  <2>2. PICK J : WroteAt(J)
    BY <2>1
  <2>3. PICK X : X = LinesFor(program, input, J)
    OBVIOUS
  <2>4. ASSUME NEW line \in {piece[1] : piece \in Range(out) \ {Hole}}
        PROVE  Below(line, Promise!Line(input, line.channel, line.month))
    <3>1. out \in Seq(FileOf(X))
      BY <2>2, <2>3, Zenon DEF WroteAt
    <3>2. PICK piece \in Range(out) : piece # Hole /\ line = piece[1]
      OBVIOUS
    <3>3. piece \in FileOf(X)
      <4>1. PICK i \in DOMAIN out : piece = out[i]
        BY <3>2 DEF Range
      <4> QED
        BY <3>1, <4>1
    <3>4. line \in X
      BY <3>2, <3>3 DEF FileOf
    <3>5. input \in Inputs /\ line \in LinesFor(program, input, J)
      BY <2>3, <3>4 DEF VInv, TypeInv
    <3> QED
      BY <3>5, LineBelow
  <2>5. "output" \notin ignored => IsPrefix(out, Text) /\ (exit = "ok" => out = Text)
    BY <2>2, Zenon DEF WroteAt, Beginning, Text
  <2> QED
    BY <2>4, <2>5
<1> QED
  BY <1>1, VInvHolds, PTL
=============================================================================
