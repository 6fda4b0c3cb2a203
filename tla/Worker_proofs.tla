--------------------------- MODULE Worker_proofs ---------------------------
(***************************************************************************)
(* Proofs about Worker, for every set of channels that fits the table,     *)
(* every hash function, every share and every batch size.                  *)
(***************************************************************************)
EXTENDS Worker, Shared_proofs

---------------------------------------------------------------------------
(* The inductive invariant of the worker: where each stage stands in its   *)
(* batch, and what the pointers taken so far point at.                     *)
StageInv ==
  /\ stage = "parse"   => dst = <<>> /\ u = 0
  /\ stage = "resolve" => u = 0 /\ base + Len(dst) < p
  /\ stage = "update"  => base + Len(dst) = p /\ base + u < p
  /\ phase \in {"renumber", "done"} => stage = "parse"
  /\ phase = "sample" => p <= cut

PointerInv ==
  \A i \in 1..Len(dst) :
     /\ dst[i].id \in Known(ctx)
     /\ ctx.names[dst[i].id] = input[base + i].channel
     /\ dst[i].month = input[base + i].month

WInv ==
  /\ hash \in [Channels -> Slots] /\ input \in Seq(Rows) /\ cut \in 0..Len(input)
  /\ phase \in {"sample", "renumber", "rest", "done"}
  /\ stage \in {"parse", "resolve", "update"}
  /\ base \in Nat /\ p \in Nat /\ base <= p /\ p <= Len(input)
  /\ dst \in Seq(Pointers) /\ u \in Nat
  /\ CtxOK(ctx, hash)
  /\ StageInv
  /\ PointerInv

LEMMA InitWInv == Init => WInv
<1> SUFFICES ASSUME Init PROVE WInv
  OBVIOUS
<1>1. /\ hash \in [Channels -> Slots] /\ input \in Seq(Rows) /\ Len(input) \in Nat
      /\ cut \in 0..Len(input)
  BY WorkerAssumption DEF Init
<1>2. CtxOK(ctx, hash)
  BY <1>1, InitCtxOK DEF Init
<1>3. StageInv /\ PointerInv
  BY <1>1 DEF Init, StageInv, PointerInv
<1>4. QED  BY <1>1, <1>2, <1>3 DEF Init, WInv

(* The row a stage works on is a row of the share.                         *)
LEMMA RowAt ==
  ASSUME WInv, NEW i \in Nat, i < p
  PROVE  /\ i < Len(input) /\ Len(input) \in Nat
         /\ input[i + 1] \in Rows
         /\ input[i + 1].channel \in Channels /\ input[i + 1].month \in Months
<1>1. Len(input) \in Nat /\ input \in Seq(Rows) /\ p <= Len(input) /\ p \in Nat
  BY DEF WInv
<1>2. i + 1 \in 1..Len(input)
  BY <1>1
<1>3. input[i + 1] \in Rows
  BY <1>1, <1>2
<1>4. QED  BY <1>1, <1>3, WorkerAssumption

LEMMA ParseRowInv ==
  ASSUME WInv, ParseRow
  PROVE  WInv'
<1>1. /\ base \in Nat /\ p \in Nat /\ base <= p /\ Len(input) \in Nat /\ cut \in 0..Len(input)
      /\ p < Stop /\ Running /\ stage = "parse" /\ dst = <<>> /\ u = 0
  BY DEF WInv, StageInv, ParseRow
<1>2. /\ p' = p + 1 /\ stage' \in {"parse", "resolve"}
      /\ UNCHANGED <<hash, input, cut, phase, base, dst, u, ctx>>
  BY <1>1 DEF ParseRow, fixedVars
<1>3. p + 1 <= Len(input) /\ (phase = "sample" => p + 1 <= cut)
  BY <1>1 DEF Stop
<1>4. StageInv'
  BY <1>1, <1>2, <1>3 DEF StageInv, Running
<1>5. PointerInv' /\ CtxOK(ctx, hash)'
  BY <1>1, <1>2 DEF PointerInv, WInv, CtxOK, TableOK
<1>6. QED  BY <1>1, <1>2, <1>3, <1>4, <1>5 DEF WInv

LEMMA ResolveRowInv ==
  ASSUME WInv, ResolveRow
  PROVE  WInv' /\ TallyOf(ctx') = TallyOf(ctx)
<1> DEFINE r == input[base + Len(dst) + 1]
           c == ChannelId(ctx, hash, r.channel)
<1>1. /\ base \in Nat /\ p \in Nat /\ Len(dst) \in Nat /\ base + Len(dst) < p
      /\ dst \in Seq(Pointers) /\ hash \in [Channels -> Slots] /\ CtxOK(ctx, hash) /\ u = 0
      /\ Running /\ stage = "resolve"
  BY DEF WInv, StageInv, ResolveRow
<1>2. r.channel \in Channels /\ r.month \in Months
  BY <1>1, RowAt
<1>3. ProbeEnds(ctx, hash, r.channel)
  BY DEF ResolveRow
<1>4. /\ CtxOK(c.ctx, hash) /\ c.id \in Known(c.ctx) /\ c.ctx.names[c.id] = r.channel
      /\ ctx.count \in Nat /\ c.ctx.count \in Nat /\ ctx.count <= c.ctx.count
      /\ \A i \in Known(ctx) : c.ctx.names[i] = ctx.names[i]
      /\ \A i \in Known(c.ctx) : i \in Known(ctx) \/ ctx.stats[i] = FreshStats
      /\ c.ctx.stats = ctx.stats
  <2>1. ctx.count \in Nat
    BY <1>1, SizesAssumption DEF CtxOK
  <2>2. QED  BY <2>1, <1>1, <1>2, <1>3, ChannelIdFacts
<1>5. PICK k \in 0..MaxChannels : k = c.ctx.count
  BY <1>4 DEF CtxOK
<1>6. c.id \in Ids /\ Known(ctx) \subseteq Known(c.ctx)
  <2>1. /\ c.id \in 0..(k - 1) /\ ctx.count <= k /\ ctx.count \in Nat
        /\ Known(ctx) = 0..(ctx.count - 1) /\ Known(c.ctx) = 0..(k - 1)
    BY <1>4, <1>5, Zenon DEF Known
  <2> HIDE DEF c, r
  <2>2. c.id \in Ids
    BY <2>1, SizesAssumption DEF Ids
  <2>3. 0..(ctx.count - 1) \subseteq 0..(k - 1)
    BY <2>1
  <2> QED
    BY <2>1, <2>2, <2>3
<1>7. /\ ctx' = c.ctx
      /\ dst' = Append(dst, [id |-> c.id, month |-> r.month])
      /\ stage' = IF base + Len(dst) + 1 = p THEN "update" ELSE stage
      /\ UNCHANGED <<hash, input, cut, phase, base, p, u>>
  BY DEF ResolveRow, fixedVars
<1>8. TallyOf(ctx') = TallyOf(ctx)
  BY <1>1, <1>4, <1>6, <1>7, TallyAfterInsert
<1> HIDE DEF c, r
<1>9. [id |-> c.id, month |-> r.month] \in Pointers
  BY <1>2, <1>6 DEF Pointers
<1>10. /\ dst' \in Seq(Pointers) /\ Len(dst') = Len(dst) + 1
       /\ \A i \in 1..Len(dst) : dst'[i] = dst[i]
       /\ dst'[Len(dst) + 1] = [id |-> c.id, month |-> r.month]
  BY <1>1, <1>7, <1>9
<1>11. CtxOK(ctx, hash)'
  BY <1>4, <1>7 DEF CtxOK, TableOK
<1>12. StageInv'
  <2>1. phase = "sample" => p <= cut
    BY DEF WInv, StageInv
  <2>2. phase # "renumber" /\ phase # "done"
    BY <1>1 DEF Running
  <2>3. QED  BY <2>1, <2>2, <1>1, <1>7, <1>10 DEF StageInv
<1>13. PointerInv'
  <2>1. ASSUME NEW i \in 1..(Len(dst) + 1)
        PROVE  /\ dst'[i].id \in Known(c.ctx)
               /\ c.ctx.names[dst'[i].id] = input[base + i].channel
               /\ dst'[i].month = input[base + i].month
    <3>1. CASE i = Len(dst) + 1
      BY <3>1, <1>1, <1>4, <1>10 DEF r
    <3>2. CASE i # Len(dst) + 1
      <4>1. i \in 1..Len(dst)
        BY <3>2, <1>1
      <4>2. QED  BY <4>1, <1>4, <1>6, <1>10 DEF WInv, PointerInv
    <3>3. QED  BY <3>1, <3>2
  <2>2. QED  BY <2>1, <1>7, <1>10 DEF PointerInv
<1>14. WInv'
  BY <1>7, <1>10, <1>11, <1>12, <1>13 DEF WInv
<1>15. QED  BY <1>8, <1>14

LEMMA UpdateRowInv ==
  ASSUME WInv, UpdateRow
  PROVE  /\ WInv'
         /\ base + u < Len(input)
         /\ base' + u' = base + u + 1 /\ input' = input
         /\ LET r == input[base + u + 1] IN
              TallyOf(ctx') = [TallyOf(ctx) EXCEPT ![r.channel][r.month] = UpdateStats(@, r)]
<1> DEFINE r == input[base + u + 1]
           d == UpdateAt(ctx, dst[u + 1].id, dst[u + 1].month, input[base + u + 1])
<1>1. /\ base \in Nat /\ u \in Nat /\ p \in Nat /\ base + u < p /\ base + Len(dst) = p
      /\ Len(dst) \in Nat /\ Running /\ stage = "update"
  BY DEF WInv, StageInv, UpdateRow
<1>2. base + u < Len(input)
  BY <1>1, RowAt
<1>3. u + 1 \in 1..Len(dst) /\ base + (u + 1) = base + u + 1
  BY <1>1
<1>4. /\ dst[u + 1].id \in Known(ctx)
      /\ ctx.names[dst[u + 1].id] = r.channel
      /\ dst[u + 1].month = r.month
  BY <1>3 DEF WInv, PointerInv
<1>5. /\ CtxOK(d, hash) /\ d.names = ctx.names /\ d.count = ctx.count
      /\ TallyOf(d) = CountInto(TallyOf(ctx), r.channel, r.month, r)
  <2>1. CtxOK(ctx, hash)
    BY DEF WInv
  <2> DEFINE i == dst[u + 1].id
             m == dst[u + 1].month
  <2>2. i \in Known(ctx) /\ m = r.month /\ ctx.names[i] = r.channel
    BY <1>4
  <2> HIDE DEF r, i, m
  <2>3. /\ CtxOK(UpdateAt(ctx, i, m, r), hash)
        /\ UpdateAt(ctx, i, m, r).names = ctx.names
        /\ UpdateAt(ctx, i, m, r).count = ctx.count
        /\ TallyOf(UpdateAt(ctx, i, m, r)) = CountInto(TallyOf(ctx), ctx.names[i], m, r)
    BY <2>1, <2>2, UpdateAtFacts
  <2>4. d = UpdateAt(ctx, i, m, r)
    BY DEF d, i, m, r
  <2> HIDE DEF d
  <2>5. QED  BY <2>2, <2>3, <2>4
<1>6. /\ ctx' = d
      /\ IF base + u + 1 < p THEN u' = u + 1 /\ UNCHANGED <<stage, base, dst>>
                             ELSE u' = 0 /\ stage' = "parse" /\ base' = p /\ dst' = <<>>
      /\ UNCHANGED <<hash, input, cut, phase, p>>
  BY DEF UpdateRow, fixedVars
<1> HIDE DEF d, r
<1>7. base' + u' = base + u + 1
  BY <1>1, <1>6
<1>8. CtxOK(ctx, hash)'
  BY <1>5, <1>6 DEF CtxOK, TableOK
<1>9. StageInv'
  <2>1. phase = "sample" => p <= cut
    BY DEF WInv, StageInv
  <2>2. phase # "renumber" /\ phase # "done"
    BY <1>1 DEF Running
  <2>3. QED  BY <2>1, <2>2, <1>1, <1>6 DEF StageInv
<1>10. Known(ctx') = Known(ctx) /\ ctx'.names = ctx.names
  BY <1>5, <1>6 DEF Known
<1>11. PointerInv'
  <2>1. CASE base + u + 1 < p
    BY <2>1, <1>6, <1>10 DEF WInv, PointerInv
  <2>2. CASE ~ (base + u + 1 < p)
    BY <2>2, <1>6 DEF PointerInv
  <2>3. QED  BY <2>1, <2>2
<1>12. WInv'
  <2>1. base' \in Nat /\ base' <= p /\ u' \in Nat /\ dst' \in Seq(Pointers)
        /\ stage' \in {"parse", "resolve", "update"}
    <3>1. base <= p /\ dst \in Seq(Pointers)
      BY DEF WInv
    <3>2. CASE base + u + 1 < p
      BY <3>1, <3>2, <1>1, <1>6
    <3>3. CASE ~ (base + u + 1 < p)
      <4>1. u' = 0 /\ stage' = "parse" /\ base' = p /\ dst' = <<>>
        BY <3>3, <1>6
      <4>2. QED  BY <4>1, <1>1
    <3>4. QED  BY <3>2, <3>3
  <2>2. QED  BY <2>1, <1>6, <1>8, <1>9, <1>11 DEF WInv
<1>13. QED  BY <1>2, <1>5, <1>6, <1>7, <1>12 DEF r, CountInto

LEMMA EndRangeInv ==
  ASSUME WInv, EndRange
  PROVE  WInv'
<1>1. /\ stage = "parse" /\ phase \in {"sample", "rest"} /\ phase' \in {"renumber", "done"}
      /\ UNCHANGED <<hash, input, cut, stage, base, p, dst, u, ctx>>
  BY DEF EndRange, Running, fixedVars
<1>2. StageInv' /\ PointerInv' /\ CtxOK(ctx, hash)'
  BY <1>1 DEF WInv, StageInv, PointerInv, CtxOK, TableOK
<1>3. QED  BY <1>1, <1>2 DEF WInv

LEMMA RenumberInv ==
  ASSUME WInv, Renumber
  PROVE  WInv' /\ TallyOf(ctx') = TallyOf(ctx)
<1>1. /\ phase = "renumber" /\ phase' = "rest" /\ stage = "parse" /\ dst = <<>> /\ u = 0
      /\ UNCHANGED <<hash, input, cut, stage, base, p, dst, u>>
      /\ CtxOK(ctx, hash) /\ hash \in [Channels -> Slots]
  BY DEF Renumber, WInv, StageInv, fixedVars
<1>2. ctx' = ctx \/ \E perm \in Bijection(Known(ctx), Known(ctx)) : ctx' = Renumbered(ctx, perm)
  BY DEF Renumber, RenumberResults, Ranks
<1>3. CtxOK(ctx', hash) /\ TallyOf(ctx') = TallyOf(ctx)
  BY <1>1, <1>2, RenumberedFacts, TallyAfterRenumber
<1>4. CtxOK(ctx, hash)'
  BY <1>1, <1>3 DEF CtxOK, TableOK
<1>5. StageInv' /\ PointerInv'
  BY <1>1 DEF StageInv, PointerInv
<1>6. QED  BY <1>1, <1>3, <1>4, <1>5 DEF WInv

LEMMA NextWInv == WInv /\ [Next]_vars => WInv'
<1> SUFFICES ASSUME WInv, [Next]_vars PROVE WInv'
  OBVIOUS
<1>1. CASE Next
  BY <1>1, ParseRowInv, ResolveRowInv, UpdateRowInv, EndRangeInv, RenumberInv DEF Next
<1>2. CASE UNCHANGED vars
  BY <1>2 DEF vars, fixedVars, WInv, StageInv, PointerInv, CtxOK, TableOK
<1>3. QED  BY <1>1, <1>2

LEMMA WInvHolds == Spec => []WInv
<1>1. QED  BY InitWInv, NextWInv, PTL DEF Spec

---------------------------------------------------------------------------
(* The ranges of the worker's variables; the count of channels never       *)
(* passes the size of the arrays, although channel_id does not check it.   *)
THEOREM TypeCorrect == Spec => []TypeOK
<1>1. ASSUME WInv
      PROVE  TypeOK
  <2>1. base \in 0..p /\ p \in 0..Len(input)
    BY <1>1 DEF WInv
  <2>2. QED  BY <1>1, <2>1 DEF WInv, CtxOK, TypeOK
<1>2. QED  BY <1>1, WInvHolds, PTL

(* The table stays an index of the names under inserts and renumbering.    *)
THEOREM TableCorrect == Spec => []TableInv
<1>1. WInv => TableInv
  BY DEF WInv, CtxOK, TableInv
<1>2. QED  BY <1>1, WInvHolds, PTL

(* Pointers into the statistics never outlive what they point at.          *)
THEOREM PointersCorrect == Spec => []PointersFresh
<1>1. ASSUME WInv
      PROVE  PointersFresh
  <2>1. Len(dst) <= p - base
    BY <1>1 DEF WInv, StageInv
  <2>2. QED  BY <1>1, <2>1 DEF WInv, StageInv, PointerInv, PointersFresh
<1>2. QED  BY <1>1, WInvHolds, PTL

(* The worker implements the tally: every step counts the next row into    *)
(* its own channel and month, or changes no statistic at all.              *)
THEOREM CountsRowsTheorem == Spec => CountsRows
<1>1. ASSUME Init
      PROVE  Abstract!Init
  <2>1. Known(ctx) = {}
    BY <1>1 DEF Init, InitCtx, Known
  <2>2. TallyOf(ctx) = [n \in Channels |-> FreshStats]
    BY <2>1 DEF TallyOf
  <2>3. QED  BY <1>1, <2>2 DEF Init, Abstract!Init, FreshStats
<1>2. ASSUME WInv, [Next]_vars
      PROVE  [Abstract!Next]_(Abstract!vars)
  <2>1. CASE ParseRow
    <3>1. UNCHANGED <<input, base, u, ctx>>
      BY <2>1 DEF ParseRow, fixedVars
    <3> QED  BY <3>1 DEF Abstract!vars, TallyOf
  <2>2. CASE ResolveRow
    <3>1. TallyOf(ctx)' = TallyOf(ctx)
      BY <1>2, <2>2, ResolveRowInv DEF TallyOf
    <3>2. QED  BY <2>2, <3>1 DEF ResolveRow, fixedVars, Abstract!vars
  <2>3. CASE UpdateRow
    <3>1. /\ base + u < Len(input) /\ base' + u' = base + u + 1 /\ input' = input
          /\ TallyOf(ctx') = [TallyOf(ctx) EXCEPT
               ![input[base + u + 1].channel][input[base + u + 1].month] =
                 UpdateStats(@, input[base + u + 1])]
      BY <1>2, <2>3, UpdateRowInv
    <3>2. TallyOf(ctx)' = TallyOf(ctx')
      BY DEF TallyOf
    <3>3. Abstract!Count
      BY <3>1, <3>2 DEF Abstract!Count
    <3>4. QED  BY <3>3 DEF Abstract!Next
  <2>4. CASE EndRange
    <3>1. UNCHANGED <<input, base, u, ctx>>
      BY <2>4 DEF EndRange, fixedVars
    <3> QED  BY <3>1 DEF Abstract!vars, TallyOf
  <2>5. CASE Renumber
    <3>1. TallyOf(ctx)' = TallyOf(ctx)
      BY <1>2, <2>5, RenumberInv DEF TallyOf
    <3>2. QED  BY <2>5, <3>1 DEF Renumber, fixedVars, Abstract!vars
  <2>6. CASE UNCHANGED vars
    <3>1. UNCHANGED <<input, base, u, ctx>>
      BY <2>6 DEF vars, fixedVars
    <3> QED  BY <3>1 DEF Abstract!vars, TallyOf
  <2>7. QED  BY <1>2, <2>1, <2>2, <2>3, <2>4, <2>5, <2>6 DEF Next
<1>3. QED  BY <1>1, <1>2, WInvHolds, PTL DEF Spec, CountsRows, Abstract!Spec

---------------------------------------------------------------------------
(* What the renumbering sorts by are numbers: counts of rows, which have   *)
(* not been divided out of anything else.                                  *)
Counted(T) ==
  \A n \in Channels, m \in Months : DOMAIN T[n] = Months /\ T[n][m].countStamps \in Nat

LEMMA CountIntoCounted ==
  ASSUME NEW T, T = [n \in Channels |-> T[n]], Counted(T),
         NEW n \in Channels, NEW m \in Months, NEW r \in Rows
  PROVE  Counted([T EXCEPT ![n][m] = UpdateStats(@, r)])
<1> DEFINE U == [T EXCEPT ![n][m] = UpdateStats(@, r)]
<1>1. ASSUME NEW k \in Channels, NEW l \in Months
      PROVE  DOMAIN U[k] = Months /\ U[k][l].countStamps \in Nat
  <2>1. DOMAIN T[k] = Months /\ T[k][l].countStamps \in Nat /\ n \in DOMAIN T /\ k \in DOMAIN T
    BY <1>1 DEF Counted
  <2>2. r.stamps \in Nat /\ Word \in Nat
    BY WorkerAssumption, SizesAssumption
  <2>3. CASE k = n /\ l = m
    <3>1. U[k][l] = UpdateStats(T[k][l], r) /\ DOMAIN U[k] = DOMAIN T[k]
      BY <2>1, <2>3
    <3>2. UpdateStats(T[k][l], r).countStamps = T[k][l].countStamps + Word + r.stamps
      BY DEF UpdateStats
    <3> QED
      BY <2>1, <2>2, <3>1, <3>2
  <2>4. CASE ~ (k = n /\ l = m)
    <3>1. U[k][l] = T[k][l] /\ DOMAIN U[k] = DOMAIN T[k]
      BY <2>1, <2>4
    <3> QED
      BY <2>1, <3>1
  <2> QED
    BY <2>3, <2>4
<1> QED
  BY <1>1 DEF Counted

LEMMA CountedNext ==
  ASSUME WInv, Counted(TallyOf(ctx)), [Next]_vars
  PROVE  Counted(TallyOf(ctx'))
<1>1. CASE TallyOf(ctx') = TallyOf(ctx)
  BY <1>1
<1>2. CASE UpdateRow
  <2>1. /\ base \in Nat /\ u \in Nat /\ base + u < p
    BY <1>2 DEF WInv, StageInv, UpdateRow
  <2>2. input[base + u + 1] \in Rows /\ input[base + u + 1].channel \in Channels
        /\ input[base + u + 1].month \in Months
    BY <2>1, RowAt
  <2>3. TallyOf(ctx') = [TallyOf(ctx) EXCEPT
           ![input[base + u + 1].channel][input[base + u + 1].month] =
              UpdateStats(@, input[base + u + 1])]
    BY <1>2, UpdateRowInv
  <2>4. TallyOf(ctx) = [n \in Channels |-> TallyOf(ctx)[n]]
    BY DEF TallyOf
  <2> QED
    BY <2>2, <2>3, <2>4, CountIntoCounted
<1>3. CASE ParseRow \/ EndRange \/ UNCHANGED vars
  BY <1>1, <1>3 DEF ParseRow, EndRange, vars, fixedVars
<1> QED
  BY <1>1, <1>2, <1>3, ResolveRowInv, RenumberInv DEF Next

(* The number of rows of a known id.                                       *)
LEMMA RowsOfInt ==
  ASSUME NEW c, TableOK(c, hash), Counted(TallyOf(c)), NEW i \in Known(c)
  PROVE  RowsOf(c, i) \in Int
<1>1. c.names[i] \in Channels /\ TallyOf(c)[c.names[i]] = c.stats[i]
  <2>1. c.names[i] \in Channels
    BY DEF TableOK
  <2> QED
    BY <2>1, TallyOfKnown
<1>2. \A m \in Months : c.stats[i][m].countStamps \in Nat
  BY <1>1, Zenon DEF Counted
<1> DEFINE f == [m \in Months |-> CountOf(c.stats[i][m])]
<1>3. ASSUME NEW m \in Months
      PROVE  f[m] \in Int
  <2>1. PICK x \in Nat : x = c.stats[i][m].countStamps
    BY <1>2
  <2>2. f[m] = x \div Word
    BY <2>1 DEF CountOf
  <2>3. x \div Word \in Int
    BY SizesAssumption
  <2> QED
    BY <2>2, <2>3
<1>4. RowsOf(c, i) = SumFunctionOnSet(f, Months)
  BY Zenon DEF RowsOf, SumFunction
<1>5. IsFiniteSet(Months)
  BY WorkerAssumption
<1> HIDE DEF f
<1>6. SumFunctionOnSet(f, Months) \in Int
  BY <1>3, <1>5, SumType
<1> QED
  BY <1>4, <1>6

(* Ids that were sorted are in descending order of their rows.             *)
LEMMA SortedByRows ==
  ASSUME WInv, Counted(TallyOf(ctx)), NEW perm \in Ranks(ctx),
         NEW i \in Known(ctx), NEW j \in Known(ctx), i < j
  PROVE  LET d == Renumbered(ctx, perm) IN RowsOf(d, i) >= RowsOf(d, j)
<1> DEFINE d == Renumbered(ctx, perm)
<1>1. CtxOK(ctx, hash) /\ TableOK(ctx, hash) /\ hash \in [Channels -> Slots]
      /\ perm \in Bijection(Known(ctx), Known(ctx))
  BY DEF WInv, CtxOK, Ranks
<1>2. /\ \A k \in Known(ctx) : d.stats[perm[k]] = ctx.stats[k]
      /\ \A k \in Known(ctx) : \E old \in Known(ctx) : k = perm[old]
  BY <1>1, RenumberedFacts
<1> HIDE DEF d
<1>3. PICK x \in Known(ctx) : i = perm[x]
  BY <1>2
<1>4. PICK y \in Known(ctx) : j = perm[y]
  BY <1>2
<1>5. RowsOf(d, i) = RowsOf(ctx, x) /\ RowsOf(d, j) = RowsOf(ctx, y)
  <2>1. d.stats[i] = ctx.stats[x] /\ d.stats[j] = ctx.stats[y]
    BY <1>2, <1>3, <1>4
  <2> QED
    BY <2>1, Zenon DEF RowsOf
<1>6. RowsOf(ctx, x) \in Int /\ RowsOf(ctx, y) \in Int
  BY <1>1, RowsOfInt
<1>7. i \in Int /\ j \in Int /\ x \in Int /\ y \in Int
  BY <1>1 DEF Known, CtxOK
<1>8. ~ Before(ctx, y, x)
  <2>1. Before(ctx, y, x) => perm[y] < perm[x]
    BY DEF Ranks
  <2> QED
    BY <1>3, <1>4, <1>7, <2>1
<1>9. x # y
  BY <1>3, <1>4, <1>7
<1>10. RowsOf(ctx, x) >= RowsOf(ctx, y)
  BY <1>6, <1>7, <1>8, <1>9 DEF Before
<1> QED
  BY <1>5, <1>10 DEF d

(* Whatever the share and wherever the sample ends, a renumbering that     *)
(* moves anything leaves the ids in descending order of the rows counted   *)
(* so far: no row of the qsort's comparison is lost on the way to the new  *)
(* ids (renumber, 317-375).                                                *)
THEOREM HotFirstTheorem == Spec => HotFirst
<1>1. Init => Counted(TallyOf(ctx))
  <2> SUFFICES ASSUME Init PROVE Counted(TallyOf(ctx))
    OBVIOUS
  <2>1. Known(ctx) = {}
    BY DEF Init, InitCtx, Known
  <2>2. TallyOf(ctx) = [n \in Channels |-> FreshStats]
    BY <2>1 DEF TallyOf
  <2> QED
    BY <2>2 DEF Counted, FreshStats, NewStats
<1>2. WInv /\ Counted(TallyOf(ctx)) /\ [Next]_vars => Counted(TallyOf(ctx))'
  <2> SUFFICES ASSUME WInv, Counted(TallyOf(ctx)), [Next]_vars
               PROVE  Counted(TallyOf(ctx))'
    OBVIOUS
  <2>1. Counted(TallyOf(ctx'))
    BY CountedNext
  <2> QED
    BY <2>1 DEF Counted, TallyOf
<1>3. ASSUME WInv, Counted(TallyOf(ctx)), [Next]_vars
      PROVE  phase = "renumber" /\ ctx' # ctx =>
               \A i, j \in Known(ctx') : i < j => RowsOf(ctx', i) >= RowsOf(ctx', j)
  <2> SUFFICES ASSUME phase = "renumber", ctx' # ctx, NEW i \in Known(ctx'), NEW j \in Known(ctx'),
                      i < j
               PROVE  RowsOf(ctx', i) >= RowsOf(ctx', j)
    OBVIOUS
  <2>1. Renumber
    BY <1>3 DEF Next, ParseRow, ResolveRow, UpdateRow, EndRange, Running, vars
  <2>2. PICK perm \in Ranks(ctx) : ctx' = Renumbered(ctx, perm)
    BY <2>1 DEF Renumber, RenumberResults
  <2>3. Known(ctx') = Known(ctx)
    BY <2>2 DEF Renumbered, Known
  <2>4. RowsOf(Renumbered(ctx, perm), i) >= RowsOf(Renumbered(ctx, perm), j)
    BY <1>3, <2>3, SortedByRows
  <2> QED
    BY <2>2, <2>4
<1> QED
  BY <1>1, <1>2, <1>3, WInvHolds, PTL DEF Spec, HotFirst
=============================================================================
