------------------------------- MODULE Worker -------------------------------
(***************************************************************************)
(* One worker thread of src/27-robust.c from the rows of its share to its  *)
(* private context: run_range takes the rows in batches through three      *)
(* stages (parse, resolve each row to a pointer into the statistics,       *)
(* update through the pointers); between the sample and the rest the ids   *)
(* are renumbered by frequency, which moves what the pointers point to.    *)
(***************************************************************************)
EXTENDS Ctx, Sequences

CONSTANTS
  Rows,       (* records with fields channel, month, len, stamps            *)
  Inputs,     (* the shares: sequences of rows                              *)
  Hashes,     (* the hash functions to explore                              *)
  Batch       (* BATCH                                                      *)

ASSUME WorkerAssumption ==
  /\ Batch \in Nat \ {0}
  /\ Inputs \subseteq Seq(Rows)
  /\ \A r \in Rows : /\ r.channel \in Channels /\ r.month \in Months
                     /\ r.len \in Nat /\ r.stamps \in Nat
  /\ IsFiniteSet(Months)
  /\ Hashes \subseteq [Channels -> Slots]

VARIABLES
  hash, input, cut,   (* the hash, the share, the rows of its sample        *)
  phase,              (* "sample", "renumber", "rest", "done"               *)
  stage,              (* "parse", "resolve", "update"                       *)
  base, p,            (* rows of the earlier batches, rows parsed           *)
  dst,                (* the pointers resolved in this batch                *)
  u,                  (* rows of this batch whose update is done            *)
  ctx

fixedVars == <<hash, input, cut>>
vars == <<fixedVars, phase, stage, base, p, dst, u, ctx>>

(* worker: init_ctx; a share too short to sample has no sample phase.      *)
Init ==
  /\ hash \in Hashes /\ input \in Inputs
  /\ cut \in 0..Len(input)
  /\ phase = IF cut > 0 THEN "sample" ELSE "rest"
  /\ stage = "parse"
  /\ base = 0 /\ p = 0 /\ dst = <<>> /\ u = 0
  /\ ctx = InitCtx

Stop == IF phase = "sample" THEN cut ELSE Len(input)
Running == phase \in {"sample", "rest"}

(* Mutant: the end of the range is tested one row late.                    *)
ParsePastEnd ==
  /\ Running /\ stage = "parse"
  /\ p <= Stop
  /\ p' = p + 1
  /\ stage' = IF p + 1 - base = Batch \/ p + 1 = Stop THEN "resolve" ELSE stage
  /\ UNCHANGED <<fixedVars, phase, base, dst, u, ctx>>

(* Rows are parsed until the batch is full or the range ends.              *)
ParseRow ==
  /\ Running /\ stage = "parse"
  /\ p < Stop
  /\ p' = p + 1
  /\ stage' = IF p + 1 - base = Batch \/ p + 1 = Stop THEN "resolve" ELSE stage
  /\ UNCHANGED <<fixedVars, phase, base, dst, u, ctx>>

ResolveRow ==
  LET r == input[base + Len(dst) + 1]
      c == ChannelId(ctx, hash, r.channel)
  IN  /\ Running /\ stage = "resolve"
      /\ ProbeEnds(ctx, hash, r.channel)
      /\ ctx' = c.ctx
      /\ dst' = Append(dst, [id |-> c.id, month |-> r.month])
      /\ stage' = IF base + Len(dst) + 1 = p THEN "update" ELSE stage
      /\ UNCHANGED <<fixedVars, phase, base, p, u>>

(* Mutant: the last row of a batch is left out.                            *)
UpdateButLast ==
  LET more == base + u + 1 < p IN
  /\ Running /\ stage = "update"
  /\ ctx' = IF more THEN UpdateAt(ctx, dst[u + 1].id, dst[u + 1].month, input[base + u + 1])
                    ELSE ctx
  /\ IF more THEN u' = u + 1 /\ UNCHANGED <<stage, base, dst>>
             ELSE u' = 0 /\ stage' = "parse" /\ base' = p /\ dst' = <<>>
  /\ UNCHANGED <<fixedVars, phase, p>>

UpdateRow ==
  LET more == base + u + 1 < p IN
  /\ Running /\ stage = "update"
  /\ ctx' = UpdateAt(ctx, dst[u + 1].id, dst[u + 1].month, input[base + u + 1])
  /\ IF more THEN u' = u + 1 /\ UNCHANGED <<stage, base, dst>>
             ELSE u' = 0 /\ stage' = "parse" /\ base' = p /\ dst' = <<>>
  /\ UNCHANGED <<fixedVars, phase, p>>

EndRange ==
  /\ Running /\ stage = "parse"
  /\ ~ (p < Stop)
  /\ phase' = IF phase = "sample" THEN "renumber" ELSE "done"
  /\ UNCHANGED <<fixedVars, stage, base, p, dst, u, ctx>>

Renumber ==
  /\ phase = "renumber"
  /\ ctx' \in RenumberResults(ctx)
  /\ phase' = "rest"
  /\ UNCHANGED <<fixedVars, stage, base, p, dst, u>>

Next == ParseRow \/ ResolveRow \/ UpdateRow \/ EndRange \/ Renumber

Spec == Init /\ [][Next]_vars

(* A thread that can run does.                                             *)
FairSpec == Spec /\ WF_vars(Next)

---------------------------------------------------------------------------
Pointers == [id : Ids, month : Months]

TypeOK ==
  /\ hash \in [Channels -> Slots] /\ input \in Seq(Rows) /\ cut \in 0..Len(input)
  /\ phase \in {"sample", "renumber", "rest", "done"}
  /\ stage \in {"parse", "resolve", "update"}
  /\ base \in 0..p /\ p \in 0..Len(input)
  /\ dst \in Seq(Pointers) /\ u \in Nat
  /\ ctx.count \in 0..MaxChannels
  /\ DOMAIN ctx.table = Slots /\ DOMAIN ctx.names = Ids /\ DOMAIN ctx.stats = Ids

(* Inserting and renumbering keep the table a faithful index of the names. *)
TableInv == TableOK(ctx, hash)

(* A pointer taken in the resolve stage still designates the statistics of *)
(* its row's channel and month when the update stage writes through it.    *)
PointersFresh ==
  /\ Len(dst) <= p - base
  /\ phase = "renumber" => dst = <<>>
  /\ \A i \in 1..Len(dst) :
        /\ dst[i].id \in Known(ctx)
        /\ ctx.names[dst[i].id] = input[base + i].channel
        /\ dst[i].month = input[base + i].month

(* Renumbering either leaves everything in place or leaves the ids in      *)
(* descending order of the rows counted so far.                            *)
HotFirst ==
  [][phase = "renumber" /\ ctx' # ctx =>
       \A i, j \in Known(ctx') : i < j => RowsOf(ctx', i) >= RowsOf(ctx', j)]_vars

(* The worker ends: in particular no probe spins on a full table.          *)
Finishes == <>(phase = "done")

Abstract == INSTANCE Tally WITH done <- base + u, tally <- TallyOf(ctx)

(* Batching, probing and renumbering only ever count rows, one at a time,  *)
(* in order, each where it belongs.                                        *)
CountsRows == Abstract!Spec
=============================================================================
