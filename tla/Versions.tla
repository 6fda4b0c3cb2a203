------------------------------ MODULE Versions ------------------------------
(***************************************************************************)
(* Whole runs of the programs src/00-naive.c to src/26-out.c, which leave  *)
(* results of system calls unchecked that src/27-robust.c checks (module   *)
(* Main).  A program is a record of RunRules and its record of CutRules'   *)
(* threads.  The byte positions of shares and batches are module Cuts',    *)
(* the probing of the tables modules Worker's and NameMatch's: a context   *)
(* is the channels in the order of their ids and the statistics.  Threads  *)
(* share no context, so a worker's call is one step; main waits for the    *)
(* threads it created.                                                     *)
(*                                                                         *)
(* The output is bytes: a line is cut into Pieces of them, and <<l, k>> is *)
(* the k-th piece of line l, the last of them with the line feed.          *)
(*                                                                         *)
(* "ignored" remembers which calls failed whose result the program does    *)
(* not look at: "read", "create", "malloc", or "output" for the ones that  *)
(* write.                                                                  *)
(***************************************************************************)
EXTENDS Integers, SequencesExt, FiniteSetsExt

CONSTANTS
  Programs, Channels, Months,
  Word,            (* 2^32                                                  *)
  Rows, Inputs,
  MaxThreads,      (* bound: on the threads of the model                    *)
  Pieces,          (* bound: the pieces of a line; bytes are lost by pieces *)
  Hole,            (* in the file, the place of a piece the disk lost       *)
  Old              (* what the output file held before                      *)

ASSUME VersionsAssumption ==
  /\ Word \in Nat \ {0} /\ MaxThreads \in Nat \ {0} /\ Pieces \in Nat \ {0}
  /\ Inputs \subseteq Seq(Rows)
  /\ \A r \in Rows : /\ r.channel \in Channels /\ r.month \in Months
                     /\ r.len \in 1..(Word - 1) /\ r.stamps \in Nat
  /\ IsFiniteSet(Months) /\ Months = 1..Cardinality(Months)
(* The programs that take the minimum from the first row have one thread.  *)
ASSUME ProgramsAssumption ==
  \A p \in Programs :
    /\ p.cap \in Nat \ {0} /\ p.sums \in {"wide", "narrow", "packed"}
    /\ p.least \in {"top", "first row"} /\ (p.least = "first row" => p.cap = 1)

---------------------------------------------------------------------------
(* The statistics of one channel and month                                 *)

NewStats(p) ==
  [min |-> IF p.least = "top" THEN Word - 1 ELSE 0, max |-> 0,
   total |-> 0, count |-> 0, stamps |-> 0]

(* n rows with k stamps more; packed, the stamps carry into the count.     *)
Add(p, s, n, k) ==
  CASE p.sums = "wide"   -> [count |-> s.count + n, stamps |-> s.stamps + k]
    [] p.sums = "narrow" -> [count |-> (s.count + n) % Word, stamps |-> (s.stamps + k) % Word]
    [] p.sums = "packed" -> [count |-> (s.count + n + (s.stamps + k) \div Word) % Word,
                             stamps |-> (s.stamps + k) % Word]

Total(p, total) == IF p.sums = "wide" THEN total ELSE total % Word

(* Mutant: the first row sets the minimum only. *)
UpdateMinOnly(p, s, r) ==
  LET first == p.least = "first row" /\ s.count = 0
      sums  == Add(p, s, 1, r.stamps)
  IN  [min |-> IF first \/ r.len < s.min THEN r.len ELSE s.min,
       max |-> IF ~ first /\ r.len > s.max THEN r.len ELSE s.max,
       total |-> Total(p, s.total + r.len), count |-> sums.count, stamps |-> sums.stamps]

Update(p, s, r) ==
  LET first == p.least = "first row" /\ s.count = 0
      sums  == Add(p, s, 1, r.stamps)
  IN  [min |-> IF first \/ r.len < s.min THEN r.len ELSE s.min,
       max |-> IF first \/ r.len > s.max THEN r.len ELSE s.max,
       total |-> Total(p, s.total + r.len), count |-> sums.count, stamps |-> sums.stamps]

Merge(p, d, s) ==
  LET sums == Add(p, d, s.count, s.stamps) IN
  IF s.count = 0 THEN d
  ELSE [min |-> IF s.min < d.min THEN s.min ELSE d.min,
        max |-> IF s.max > d.max THEN s.max ELSE d.max,
        total |-> Total(p, d.total + s.total), count |-> sums.count, stamps |-> sums.stamps]

---------------------------------------------------------------------------
(* A context: the channels by id, the statistics by channel and month      *)

EmptyCtx(p) ==
  [names |-> <<>>, stats |-> [nm \in Channels \X Months |-> NewStats(p)]]

(* Mutant: the channel is not looked up. *)
WithChannelTwice(c, n) == [c EXCEPT !.names = Append(@, n)]

(* channel_id: a new channel gets the next id.                             *)
WithChannel(c, n) ==
  IF n \in Range(c.names) THEN c ELSE [c EXCEPT !.names = Append(@, n)]

CountRow(p, c, r) ==
  [WithChannel(c, r.channel) EXCEPT !.stats[<<r.channel, r.month>>] = Update(p, @, r)]

CountRows(p, c, rows) == FoldLeft(LAMBDA d, r : CountRow(p, d, r), c, rows)

RowsOf(c, n) == MapThenSumSet(LAMBDA m : c.stats[<<n, m>>].count, Months)

(* renumber: most rows first, of equals the one with the larger id         *)
Renumberings(c) ==
  LET before(i, j) == \/ RowsOf(c, c.names[i]) > RowsOf(c, c.names[j])
                      \/ RowsOf(c, c.names[i]) = RowsOf(c, c.names[j]) /\ i > j
      orders == {q \in SetToSeqs(DOMAIN c.names) : \A k, l \in DOMAIN q : k < l => before(q[k], q[l])}
  IN  {[c EXCEPT !.names = [k \in DOMAIN q |-> @[q[k]]]] : q \in orders}

MergeChannel(p, d, s, n) ==
  LET e == WithChannel(d, n) IN
  [e EXCEPT !.stats = [nm \in Channels \X Months |->
                         IF nm[1] = n THEN Merge(p, e.stats[nm], s.stats[nm]) ELSE e.stats[nm]]]

MergeCtx(p, d, s, names) == FoldLeft(LAMBDA e, n : MergeChannel(p, e, s, n), d, names)

(* The orders a table's slots can have; ids have their own.                *)
Orders(names, by) == IF by = "ids" THEN {names} ELSE SetToSeqs(Range(names))

LineOf(c, n, m) ==
  LET s == c.stats[<<n, m>>] IN
  IF s.count = 0 THEN <<>>
  ELSE << [channel |-> n, month |-> m, min |-> s.min, max |-> s.max,
           total |-> s.total, count |-> s.count, stamps |-> s.stamps] >>

LinesOf(c, names) ==
  FlattenSeq([i \in DOMAIN names |->
    FlattenSeq([m \in 1..Cardinality(Months) |-> LineOf(c, names[i], m)])])

(* 00 hashes channel and month to a bucket: its lines have any order. The  *)
(* others write the months of a channel one after the other.               *)
LineOrders(p, c) ==
  IF p.lines = "buckets" THEN SetToSeqs(Range(LinesOf(c, c.names)))
  ELSE {LinesOf(c, names) : names \in Orders(c.names, p.lines)}

TextOf(ls) ==
  [j \in 1..(Pieces * Len(ls)) |-> <<ls[((j - 1) \div Pieces) + 1], ((j - 1) % Pieces) + 1>>]

---------------------------------------------------------------------------
VARIABLES
  program, input,
  pc,               (* main: see TypeOK                                     *)
  share,            (* the rows of each thread, and those of the tail       *)
  created, ended,   (* threads that were created, workers that returned     *)
  ctx, t,
  lines, w, out,    (* the lines, the pieces main is done with, the file    *)
  ignored, exit

vars == <<program, input, pc, share, created, ended, ctx, t, lines, w, out, ignored, exit>>

Threads == DOMAIN share.of

Text == TextOf(lines)

Init ==
  /\ program \in Programs /\ input \in Inputs
  /\ pc = "start" /\ share = [of |-> <<>>, tail |-> <<>>]
  /\ created = {} /\ ended = {} /\ ctx = <<>> /\ t = 2
  /\ lines = <<>> /\ w = 0 /\ out = Old /\ ignored = {} /\ exit = "none"

Return(status) == pc' = "exit" /\ exit' = status

(* Wrong arguments; an input without header, that cannot be opened or      *)
(* mapped                                                                  *)
CannotStart ==
  /\ pc = "start"
  /\ Return("failed")
  /\ UNCHANGED <<program, input, share, created, ended, ctx, t, lines, w, out, ignored>>

(* fgets and process one line after the other.  A read that fails ends the *)
(* loop like the end of the file; 00 may find no memory for a channel.     *)
ReadLines ==
  /\ pc = "start" /\ program.input = "stream"
  /\ \E n \in 0..Len(input) :
       /\ ctx' = << CountRows(program, EmptyCtx(program), SubSeq(input, 1, n)) >>
       /\ \/ /\ pc' = "open" /\ ignored' = IF n < Len(input) THEN {"read"} ELSE {}
             /\ UNCHANGED exit
          \/ /\ program.lines = "buckets" /\ n < Len(input)
             /\ Return("failed")
             /\ UNCHANGED ignored
  /\ UNCHANGED <<program, input, share, created, ended, t, lines, w, out>>

(* Shares of consecutive rows, and the tail                                *)
Partition ==
  /\ pc = "start" /\ program.input = "mapping"
  /\ \E n \in 1..Min({MaxThreads, program.cap}) :
     \E ends \in [0..n -> 0..Len(input)] :
       /\ ends[0] = 0 /\ \A i \in 1..n : ends[i - 1] <= ends[i]
       /\ share' = [of |-> [i \in 1..n |-> SubSeq(input, ends[i - 1] + 1, ends[i])],
                    tail |-> SubSeq(input, ends[n] + 1, Len(input))]
       (* Contexts are static storage: no channel has been counted.        *)
       /\ ctx' = [i \in 1..n |-> EmptyCtx(program)]
  /\ pc' = "create"
  /\ UNCHANGED <<program, input, created, ended, t, lines, w, out, ignored, exit>>

(* pthread_create, whose result nobody looks at                            *)
CreateThread ==
  /\ pc = "create" /\ t \in Threads
  /\ \/ created' = created \cup {t} /\ UNCHANGED ignored
     \/ UNCHANGED created /\ ignored' = ignored \cup {"create"}
  /\ t' = t + 1
  /\ UNCHANGED <<program, input, pc, share, ended, ctx, lines, w, out, exit>>

(* Mutant: the sample is counted again with the rest. *)
WorkerAgain(p, c, rows) ==
  {CountRows(p, c, rows)} \cup
    UNION {{CountRows(p, d, rows) : d \in Renumberings(CountRows(p, c, SubSeq(rows, 1, k)))} :
             k \in {k \in 1..Len(rows) : p.renumber # "never"}}

(* What a worker makes of its share: straight through, or renumbering      *)
(* after the first k rows.                                                 *)
WorkerResults(p, c, rows) ==
  {CountRows(p, c, rows)} \cup
    UNION {{CountRows(p, d, SubSeq(rows, k + 1, Len(rows))) :
              d \in Renumberings(CountRows(p, c, SubSeq(rows, 1, k)))} :
             k \in {k \in 1..Len(rows) : p.renumber # "never"}}

RunWorker(i) ==
  /\ \/ i \in created
     \/ i = 1 /\ pc = "create" /\ t \notin Threads
  /\ i \notin ended /\ exit = "none"
  /\ \E c \in WorkerResults(program, ctx[i], share.of[i]) : ctx' = [ctx EXCEPT ![i] = c]
  /\ ended' = ended \cup {i}
  /\ UNCHANGED <<program, input, pc, share, created, t, lines, w, out, ignored, exit>>

(* renumber writes through the null pointer of a malloc that failed, when  *)
(* it has at least two channels to move.                                   *)
RenumberFaults(i) ==
  /\ \/ i \in created
     \/ i = 1 /\ pc = "create" /\ t \notin Threads
  /\ i \notin ended /\ exit = "none"
  /\ program.renumber = "unchecked"
  /\ \E k \in 1..Len(share.of[i]) : Cardinality({share.of[i][j].channel : j \in 1..k}) > 1
  /\ Return("killed") /\ ignored' = ignored \cup {"malloc"}
  /\ UNCHANGED <<program, input, share, created, ended, ctx, t, lines, w, out>>

(* Mutant: main waits for threads that were not created. *)
JoinAll ==
  /\ pc = "create" /\ t \notin Threads /\ Threads \subseteq ended
  /\ pc' = "tail" /\ t' = 2
  /\ UNCHANGED <<program, input, share, created, ended, ctx, lines, w, out, ignored, exit>>

(* pthread_join waits for the threads that were created.  The id of one    *)
(* that was not is uninitialised: the call fails, unnoticed, or faults.    *)
Join ==
  /\ pc = "create" /\ t \notin Threads /\ 1 \in ended
  /\ created \subseteq ended
  /\ \/ pc' = "tail" /\ UNCHANGED exit
     \/ created # 2..Len(share.of) /\ Return("killed")
  /\ t' = 2
  /\ UNCHANGED <<program, input, share, created, ended, ctx, lines, w, out, ignored>>

TailRows ==
  /\ pc = "tail"
  /\ ctx' = [ctx EXCEPT ![1] = CountRows(program, @, share.tail)]
  /\ pc' = "merge"
  /\ UNCHANGED <<program, input, share, created, ended, t, lines, w, out, ignored, exit>>

MergeNext ==
  /\ pc = "merge" /\ t \in Threads
  /\ \E names \in Orders(ctx[t].names, program.merge) :
       ctx' = [ctx EXCEPT ![1] = MergeCtx(program, @, ctx[t], names)]
  /\ t' = t + 1
  /\ UNCHANGED <<program, input, pc, share, created, ended, lines, w, out, ignored, exit>>

Merged ==
  /\ pc = "merge" /\ t \notin Threads
  /\ pc' = "open"
  /\ UNCHANGED <<program, input, share, created, ended, ctx, t, lines, w, out, ignored, exit>>

(* Opening truncates; 26 also needs memory for all the lines.              *)
OpenOutput ==
  /\ pc = "open"
  /\ \/ /\ out' = <<>> /\ pc' = "write" /\ UNCHANGED exit
        /\ lines' \in LineOrders(program, ctx[1])
     \/ Return("failed") /\ UNCHANGED <<out, lines>>
     \/ program.file = "write" /\ out' = <<>> /\ Return("failed") /\ UNCHANGED lines
  /\ UNCHANGED <<program, input, share, created, ended, ctx, t, w, ignored>>

(* fprintf into the stream's buffer, which reaches the file in blocks that *)
(* end anywhere in a line, the last one in fclose.  When a block cannot be *)
(* written, all of it or some, its bytes are lost and nobody looks.        *)
PrintBytes ==
  /\ pc = "write" /\ program.file = "stdio" /\ w < Len(Text)
  /\ \/ out' = Append(out, Text[w + 1]) /\ UNCHANGED ignored
     \/ UNCHANGED out /\ ignored' = ignored \cup {"output"}
  /\ w' = w + 1
  /\ UNCHANGED <<program, input, pc, share, created, ended, ctx, t, lines, exit>>

(* write takes some bytes, of the last line it takes perhaps not all, or   *)
(* none, which leaves the loop where it was; or it fails, or is interrupted*)
(* with none taken, which is the same to 26.                               *)
WriteSome ==
  /\ pc = "write" /\ program.file = "write" /\ w < Len(Text)
  /\ \/ \E n \in 0..(Len(Text) - w) :
          out' = out \o SubSeq(Text, w + 1, w + n) /\ w' = w + n /\ UNCHANGED <<pc, exit>>
     \/ Return("failed") /\ UNCHANGED <<out, w>>
  /\ UNCHANGED <<program, input, share, created, ended, ctx, t, lines, ignored>>

(* What the file holds where the bytes of the pieces in gone did not reach *)
(* the disk                                                                *)
Without(gone) == [i \in DOMAIN out |-> IF i \in gone THEN Hole ELSE out[i]]

(* close, or fclose, may report that some of what was written did not      *)
(* reach the disk.                                                         *)
Close ==
  /\ pc = "write" /\ w = Len(Text)
  /\ \/ UNCHANGED <<out, ignored>>
     \/ \E gone \in SUBSET DOMAIN out \ {{}} :
          out' = Without(gone) /\ ignored' = ignored \cup {"output"}
  /\ Return("ok")
  /\ UNCHANGED <<program, input, share, created, ended, ctx, t, lines, w>>

Next ==
  \/ CannotStart \/ ReadLines \/ Partition \/ CreateThread
  \/ \E i \in Threads : RunWorker(i) \/ RenumberFaults(i)
  \/ Join \/ TailRows \/ MergeNext \/ Merged \/ OpenOutput
  \/ PrintBytes \/ WriteSome \/ Close

(* Threads and main go on as long as they can, and a write that is tried   *)
(* again and again takes something in the end.                             *)
Spec == Init /\ [][Next]_vars /\ WF_vars(Next)

---------------------------------------------------------------------------
Promise == INSTANCE Aggregate

(* contest.md: per channel and month the number of messages, their total   *)
(* length and their stamps fit in 32 bits.                                 *)
ASSUME SumsAssumption ==
  \A in \in Inputs, n \in Channels, m \in Months :
    LET rows == Promise!RowsFor(in, n, m) IN
    /\ Cardinality(rows) < Word
    /\ SumFunction([j \in rows |-> in[j].len]) < Word
    /\ SumFunction([j \in rows |-> in[j].stamps]) < Word

TypeOK ==
  /\ pc \in {"start", "create", "tail", "merge", "open", "write", "exit"}
  /\ created \subseteq 2..Len(share.of) /\ ended \subseteq Threads
  /\ t \in 2..(Len(share.of) + 2) /\ w \in 0..Len(Text)
  /\ \A i \in DOMAIN ctx : IsInjective(ctx[i].names) /\ Range(ctx[i].names) \subseteq Channels
  /\ ignored \subseteq {"read", "create", "malloc", "output"}
  /\ exit \in {"none", "ok", "failed", "killed"}

(* A run that exits 0, and of whose calls none failed unnoticed, has       *)
(* written the reference's summary, the text of every line of it once: with*)
(* one thread or several, whichever way the sums are kept and wherever the *)
(* channels are renumbered.                                                *)
Trusted ==
  exit = "ok" /\ ignored = {} =>
    out = Text /\ IsInjective(lines) /\ Range(lines) = Promise!Summary(input)

(* Whatever is lost without notice, of the rows, of whole shares or of the *)
(* bytes of the output: what stands in the file is of lines that report no *)
(* more rows, stamps or characters than there are and no extreme outside   *)
(* their own.  Two such lines run into one another only where bytes of the *)
(* output were lost: otherwise the file is a beginning of the text, and    *)
(* all of it when the run exits 0.                                         *)
NeverMore ==
  out # Old =>
    /\ \A line \in {piece[1] : piece \in Range(out) \ {Hole}} :
         LET all == Promise!Line(input, line.channel, line.month) IN
         /\ line.count <= all.count /\ line.stamps <= all.stamps
         /\ line.total <= all.total
         /\ all.min <= line.min /\ line.min <= line.max /\ line.max <= all.max
    /\ "output" \notin ignored => IsPrefix(out, Text) /\ (exit = "ok" => out = Text)

(* Every run ends.                                                         *)
Ends == <>(pc = "exit")
=============================================================================
