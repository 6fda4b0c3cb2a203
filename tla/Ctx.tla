-------------------------------- MODULE Ctx --------------------------------
(***************************************************************************)
(* The per-thread aggregation state of src/27-robust.c (struct Ctx) and    *)
(* the operations on it: the open-addressing channel table, the            *)
(* statistics it points into, the renumbering by frequency and the merge.  *)
(*                                                                         *)
(* A channel name is a member of Channels.  Fprint[n] is what a slot keeps  *)
(* of the name (length, first, last and second eight bytes); only for      *)
(* the Long names does the code also compare the stored name.  Hash maps   *)
(* a channel to its first slot and is a parameter of the operators, so     *)
(* that every pattern of collisions can be explored.                       *)
(***************************************************************************)
EXTENDS Integers, FiniteSetsExt, Functions

CONSTANTS
  Channels, Months,
  TableSize,      (* TABLE_SIZE                                             *)
  MaxChannels,    (* MAX_CHANNELS                                           *)
  Fprint, Long,
  Word            (* 2^32                                                   *)

Slots == 0..(TableSize - 1)
Ids   == 0..(MaxChannels - 1)
NoName == "none"

ASSUME SizesAssumption ==
  /\ TableSize \in Nat \ {0} /\ MaxChannels \in Nat \ {0} /\ Word \in Nat \ {0}
  /\ IsFiniteSet(Channels) /\ Cardinality(Channels) <= MaxChannels
  /\ NoName \notin Channels
(* What NameMatch establishes of the fingerprint.                          *)
ASSUME PrintAssumption ==
  \A n1, n2 \in Channels : Fprint[n1] = Fprint[n2] /\ n1 \notin Long => n1 = n2

---------------------------------------------------------------------------
(* Stats: count and stamps share one word pair; every sum wraps.           *)

NewStats == [min |-> Word - 1, max |-> 0, total |-> 0, countStamps |-> 0]

CountOf(s)  == s.countStamps \div Word
StampsOf(s) == s.countStamps % Word

(* Mutant: the maximum is tested only when the minimum was not.            *)
UpdateEither(s, r) ==
  [min   |-> IF r.len < s.min THEN r.len ELSE s.min,
   max   |-> IF r.len > s.max /\ ~ (r.len < s.min) THEN r.len ELSE s.max,
   total |-> (s.total + r.len) % Word,
   countStamps |-> s.countStamps + Word + r.stamps]

UpdateStats(s, r) ==
  [min   |-> IF r.len < s.min THEN r.len ELSE s.min,
   max   |-> IF r.len > s.max THEN r.len ELSE s.max,
   total |-> (s.total + r.len) % Word,
   countStamps |-> s.countStamps + Word + r.stamps]

(* Mutant: a month the first context has not seen is not taken over.       *)
MergeSeenOnly(d, s) ==
  IF s.countStamps = 0 \/ d.countStamps = 0 THEN d
  ELSE [min   |-> IF s.min < d.min THEN s.min ELSE d.min,
        max   |-> IF s.max > d.max THEN s.max ELSE d.max,
        total |-> (d.total + s.total) % Word,
        countStamps |-> d.countStamps + s.countStamps]

(* merge_into_first, one month                                             *)
MergeStats(d, s) ==
  IF s.countStamps = 0 THEN d
  ELSE [min   |-> IF s.min < d.min THEN s.min ELSE d.min,
        max   |-> IF s.max > d.max THEN s.max ELSE d.max,
        total |-> (d.total + s.total) % Word,
        countStamps |-> d.countStamps + s.countStamps]

---------------------------------------------------------------------------
EmptySlot == [id |-> -1, print |-> NoName]
FreshStats == [m \in Months |-> NewStats]

InitCtx ==
  [table |-> [s \in Slots |-> EmptySlot],
   names |-> [i \in Ids |-> NoName],
   stats |-> [i \in Ids |-> FreshStats],
   count |-> 0]

Empty(e)  == e.id < 0

(* Mutant: the stored name is never compared.                              *)
MatchPrintOnly(c, e, n) == e.print = Fprint[n]

Match(c, e, n) == e.print = Fprint[n] /\ (n \notin Long \/ c.names[e.id] = n)

(* Mutant: the probe stays at the last slot instead of wrapping.           *)
ProbeNoWrap(start, k) == IF start + k < TableSize THEN start + k ELSE TableSize - 1

(* The k-th slot after start: (slot + 1) & (TABLE_SIZE - 1), k times.      *)
Probe(start, k) == IF start + k < TableSize THEN start + k ELSE start + k - TableSize

Stops(c, hash, n, k) ==
  LET e == c.table[Probe(hash[n], k)] IN Empty(e) \/ Match(c, e, n)

FirstStop(c, hash, n, k) ==
  Stops(c, hash, n, k) /\ \A j \in 0..(k - 1) : ~ Stops(c, hash, n, j)

(* The probe loop ends; otherwise the thread would spin on a full table.   *)
ProbeEnds(c, hash, n) == \E k \in Slots : FirstStop(c, hash, n, k)

StopSlot(c, hash, n) ==
  Probe(hash[n], CHOOSE k \in Slots : FirstStop(c, hash, n, k))

Insert(c, s, n) ==
  [table |-> [c.table EXCEPT ![s] = [id |-> c.count, print |-> Fprint[n]]],
   names |-> [c.names EXCEPT ![c.count] = n],
   stats |-> c.stats,
   count |-> c.count + 1]

(* channel_id: the id of n, and the context with n in it.                  *)
ChannelId(c, hash, n) ==
  LET s == StopSlot(c, hash, n) IN
  IF Empty(c.table[s]) THEN [id |-> c.count, ctx |-> Insert(c, s, n)]
                       ELSE [id |-> c.table[s].id, ctx |-> c]

(* The context after a write to the statistics of one id.                  *)
WithStats(c, id, row) ==
  [table |-> c.table,
   names |-> c.names,
   stats |-> [c.stats EXCEPT ![id] = row],
   count |-> c.count]

(* update_stats through a pointer into the statistics of id and month      *)
UpdateAt(c, id, m, r) ==
  WithStats(c, id, [c.stats[id] EXCEPT ![m] = UpdateStats(c.stats[id][m], r)])

(* update_row, which process_row calls on the rows of the tail buffer      *)
ProcessRow(c, hash, r) ==
  LET ch == ChannelId(c, hash, r.channel) IN UpdateAt(ch.ctx, ch.id, r.month, r)

(* merge_into_first, one channel of src                                    *)
MergeChannel(dst, hash, src, i) ==
  LET ch == ChannelId(dst, hash, src.names[i]) IN
  WithStats(ch.ctx, ch.id,
            [m \in Months |-> MergeStats(ch.ctx.stats[ch.id][m], src.stats[i][m])])

---------------------------------------------------------------------------
(* renumber *)

Known(c) == 0..(c.count - 1)

RowsOf(c, id) == SumFunction([m \in Months |-> CountOf(c.stats[id][m])])

(* desc_u64 on (total << 14) | id                                          *)
Before(c, a, b) ==
  \/ RowsOf(c, a) > RowsOf(c, b)
  \/ RowsOf(c, a) = RowsOf(c, b) /\ a > b

(* Mutant: the array of old ids in order, taken for the new ids.           *)
RanksInverse(c) ==
  {perm \in Bijection(Known(c), Known(c)) :
     \A a, b \in Known(c) : a < b => Before(c, perm[a], perm[b])}

(* qsort, then old id -> rank                                              *)
Ranks(c) ==
  {perm \in Bijection(Known(c), Known(c)) :
     \A a, b \in Known(c) : Before(c, a, b) => perm[a] < perm[b]}

MoveBy(c, perm, f) ==
  [i \in Ids |-> IF i \in Known(c) THEN f[CHOOSE old \in Known(c) : perm[old] = i]
                                   ELSE f[i]]

Reslot(c, perm) ==
  [s \in Slots |-> IF Empty(c.table[s]) THEN c.table[s]
                   ELSE [id |-> perm[c.table[s].id], print |-> c.table[s].print]]

(* Mutant: only the ids in the table change, as when the scratch memory    *)
(* for the rows cannot be had after the table was rewritten.               *)
RenumberTableOnly(c, perm) == [c EXCEPT !.table = Reslot(c, perm)]

Renumbered(c, perm) ==
  [table |-> Reslot(c, perm),
   names |-> MoveBy(c, perm, c.names),
   stats |-> MoveBy(c, perm, c.stats),
   count |-> c.count]

(* The contexts renumber can leave: untouched when there is nothing to     *)
(* sort or no scratch memory, sorted otherwise.                            *)
RenumberResults(c) ==
  {c} \cup {Renumbered(c, perm) : perm \in {p \in Ranks(c) : c.count > 1}}

---------------------------------------------------------------------------
(* The table is a faithful index: the occupied slots and the known ids     *)
(* are in bijection, a slot's fingerprint is that of the name stored under *)
(* its id, no name is stored twice, and from a name's first slot to the    *)
(* slot it is in there is no empty one, so that a probe finds it.          *)
TableOK(c, hash) ==
  /\ \A i, j \in Known(c) : c.names[i] = c.names[j] => i = j
  /\ \A i \in Known(c) :
        /\ c.names[i] \in Channels
        /\ \E k \in Slots :
             /\ c.table[Probe(hash[c.names[i]], k)] = [id |-> i, print |-> Fprint[c.names[i]]]
             /\ \A j \in 0..(k - 1) : ~ Empty(c.table[Probe(hash[c.names[i]], j)])
  /\ \A s \in Slots : ~ Empty(c.table[s]) => c.table[s].id \in Known(c)
  /\ \A s1, s2 \in Slots :
        ~ Empty(c.table[s1]) /\ c.table[s1].id = c.table[s2].id => s1 = s2

(* The context, read as a table from channels to statistics.               *)
TallyOf(c) ==
  [n \in Channels |->
     IF \E i \in Known(c) : c.names[i] = n
       THEN c.stats[CHOOSE i \in Known(c) : c.names[i] = n]
       ELSE FreshStats]
=============================================================================
