----------------------------- MODULE NameMatch -----------------------------
(***************************************************************************)
(* How src/27-robust.c and the programs before it tell channel names apart *)
(* without comparing them: a slot keeps the name's length, its first and   *)
(* last eight bytes and, in the later ones, the second eight bytes; only   *)
(* what is left of longer names is read again.  The eight-byte loads run   *)
(* past the end of the name, and what they find there depends on where the *)
(* name is stored: in a row it is the rest of the line, in ctx.names what  *)
(* is there after the terminating zero.                                    *)
(*                                                                         *)
(* A place in memory is a function from offsets to bytes; a view of a name *)
(* is where it is and how long it is.  One slot is filled with one view    *)
(* and looked up with another.                                             *)
(***************************************************************************)
EXTENDS Integers, NameTests

CONSTANTS
  Bytes,      (* 0 is the byte a masked-out position holds                  *)
  Junk,       (* what may follow a name: functions from offsets to bytes    *)
  Names,      (* the names to explore: records with fields len and at       *)
  MaxLen,     (* MAX_CHANNEL_LEN                                            *)
  HashBits(_) (* the upper sixteen bits of the mix of a name's ends         *)

Reach   == 0..(MaxLen + 15)     (* offsets a load may touch                 *)
Lengths == 1..MaxLen
Lanes   == 0..7

ASSUME NameAssumption ==
  /\ MaxLen \in Nat \ {0} /\ 0 \in Bytes
  /\ Junk \subseteq [Reach -> Bytes]
  /\ \A n \in Names :
       /\ n.len \in Lengths /\ n.at \in [Reach -> Bytes]
       /\ \A i \in 0..(n.len - 1) : n.at[i] # 0

VARIABLES
  program,    (* whose test it is: a member of NameTests                    *)
  slot,       (* what the slot keeps of the name put into it                *)
  stored,     (* ctx.names[e.id]                                            *)
  row,        (* the view looked up                                         *)
  verdict     (* "none" before the lookup, then whether it matched          *)

matchVars == <<program, slot, stored, row, verdict>>

(* A name as a string: the zero behind it.                                 *)
Terminated(v) == [len |-> v.len, at |-> [i \in Reach |-> IF i = v.len THEN 0 ELSE v.at[i]]]

(* The name n with junk j behind it.                                       *)
View(n, j) == [len |-> n.len, at |-> [i \in Reach |-> IF i < n.len THEN n.at[i] ELSE j[i]]]

Views == {View(n, j) : n \in Names, j \in Junk}

Same(v1, v2) == v1.len = v2.len /\ \A i \in 0..(v1.len - 1) : v1.at[i] = v2.at[i]

---------------------------------------------------------------------------
Load8(v, from) == [i \in Lanes |-> v.at[from + i]]

HeadLen(v) == IF v.len < 8 THEN v.len ELSE 8

(* Mutant: the bytes behind a short name are not masked out.               *)
KeepAll(v, x) == x

Keep(v, x) == [i \in Lanes |-> IF i < HeadLen(v) THEN x[i] ELSE 0]

First8(v) == Keep(v, Load8(v, 0))

(* 03 to 06: whole, or the first                                           *)
LastOrFirst(v) == IF v.len >= 8 THEN Load8(v, v.len - 8) ELSE First8(v)

Last8(v) ==
  IF program.print \in {"ends", "ends, bits"} THEN LastOrFirst(v)
  ELSE Keep(v, Load8(v, v.len - HeadLen(v)))

(* 06: zero is the mark of an empty slot.                                  *)
Bits(v) ==
  LET h == HashBits([first8 |-> First8(v), last8 |-> Last8(v), len |-> v.len])
  IN  IF h = 0 THEN 1 ELSE h

Fingerprint(v) ==
  [len |-> v.len, first8 |-> First8(v), last8 |-> Last8(v), mid8 |-> Load8(v, 8), bits |-> Bits(v)]

(* What is hashed for the first slot of the probe                          *)
HashInput(v) ==
  IF program.print = "bytes" THEN [i \in 0..(v.len - 1) |-> v.at[i]]
  ELSE [first8 |-> First8(v), last8 |-> Last8(v), len |-> v.len]

(* for (i = from; i < len - 8; i += 8) of middle_equal: the word numbers   *)
MiddleWords(from, len) == {k \in 1..MaxLen : from <= 8 * k /\ 8 * k < len - 8}

MiddleEqual(from, v1, v2, len) ==
  \A k \in MiddleWords(from, len) : Load8(v1, 8 * k) = Load8(v2, 8 * k)

(* strncmp: zero if nothing differs before a zero of both                  *)
Strncmp(v1, v2, n) ==
  \A i \in 0..(n - 1) :
    v1.at[i] = v2.at[i] \/ \E j \in 0..(i - 1) : v1.at[j] = 0 /\ v2.at[j] = 0

(* memcmp of n bytes from offset 8                                         *)
MemcmpFrom8(v1, v2, n) == \A i \in 8..(n + 7) : v1.at[i] = v2.at[i]

SameEnds(e, f) == e.len = f.len /\ e.first8 = f.first8 /\ e.last8 = f.last8

(* Mutant: names of 25 to 32 bytes are taken for decided.                  *)
MatchesMidShort(e, kept, v) ==
  /\ SameEnds(e, Fingerprint(v))
  /\ v.len > 16 =>
       e.mid8 = Fingerprint(v).mid8 /\ (v.len > 32 => MiddleEqual(16, kept, v, v.len))

MatchesMid(e, kept, v) ==
  /\ SameEnds(e, Fingerprint(v))
  /\ v.len > 16 =>
       e.mid8 = Fingerprint(v).mid8 /\ (v.len > 24 => MiddleEqual(16, kept, v, v.len))

MatchesWords(e, kept, v) ==
  SameEnds(e, Fingerprint(v)) /\ (v.len > 16 => MiddleEqual(8, kept, v, v.len))

MatchesMemcmp(e, kept, v) ==
  SameEnds(e, Fingerprint(v)) /\ (v.len > 16 => MemcmpFrom8(kept, v, v.len - 16))

MatchesBits(e, kept, v) == e.bits = Bits(v) /\ MatchesMemcmp(e, kept, v)

(* 01, 02: the name kept starts with the row's, and ends with it.          *)
MatchesStrncmp(kept, v) == Strncmp(kept, v, v.len) /\ kept.at[v.len] = 0

(* 00: the comma behind the row's name has been overwritten.               *)
MatchesStrcmp(kept, v) == Strncmp(kept, Terminated(v), MaxLen + 1)

(* The test on an occupied slot                                            *)
Matches(e, kept, v) ==
  \/ program.test = "strcmp"  /\ MatchesStrcmp(kept, v)
  \/ program.test = "strncmp" /\ MatchesStrncmp(kept, v)
  \/ program.test = "memcmp"  /\ MatchesMemcmp(e, kept, v)
  \/ program.test = "bits"    /\ MatchesBits(e, kept, v)
  \/ program.test = "words"   /\ MatchesWords(e, kept, v)
  \/ program.test = "mid"     /\ MatchesMid(e, kept, v)

---------------------------------------------------------------------------
NoSlot == [len |-> 0]
NoView == [len |-> 0]

MatchInit ==
  program \in NameTests /\ slot = NoSlot /\ stored = NoView /\ row \in Views /\ verdict = "none"

(* The name of the row goes into the empty slot and into ctx.names; the    *)
(* next row arrives.                                                       *)
InsertName ==
  /\ slot = NoSlot
  /\ slot' = Fingerprint(row)
  /\ \E j \in Junk : stored' = Terminated(View(row, j))
  /\ row' \in Views
  /\ UNCHANGED <<program, verdict>>

Lookup ==
  /\ slot # NoSlot /\ verdict = "none"
  /\ verdict' = (IF Matches(slot, stored, row) THEN "found" ELSE "other")
  /\ UNCHANGED <<program, slot, stored, row>>

MatchNext == InsertName \/ Lookup

MatchSpec == MatchInit /\ [][MatchNext]_matchVars

---------------------------------------------------------------------------
(* A lookup finds the slot exactly when it holds the same name: two names  *)
(* are never counted as one, and one name is never entered twice, whatever *)
(* follows the name in the two places it is read from.                     *)
MatchIsEquality == verdict # "none" => (verdict = "found" <=> Same(stored, row))

(* The same name starts its probe at the same slot wherever it is read.    *)
SameNameSameSlot ==
  slot # NoSlot /\ Same(stored, row) => HashInput(stored) = HashInput(row)
=============================================================================
