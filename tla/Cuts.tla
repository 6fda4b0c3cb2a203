-------------------------------- MODULE Cuts --------------------------------
(***************************************************************************)
(* How the programs src/02-fastio.c to src/26-out.c go through the bytes   *)
(* of their mapped input: main sets the last rows aside and splits the     *)
(* rest among the threads, a worker splits its share into ranges, reads    *)
(* the rows of a range from one or several positions in turn, a batch at a *)
(* time, and counts the batch.  Which of this a program does is a record   *)
(* of module CutRules; how far its parser loads follows from its record of *)
(* RowParsers and what it keeps of a name (NameTests).  The threads share  *)
(* nothing but the mapping, so the model runs them one after the other;    *)
(* module Partition interleaves those of src/27-robust.c.                  *)
(***************************************************************************)
EXTENDS Layout, Sequences, SequencesExt

CONSTANTS
  Programs,      (* the records of the programs                             *)
  Files,         (* the inputs: see FileOK                                  *)
  Processors,    (* what sched_getaffinity can say; 0: it fails             *)
  Scan,          (* bytes the vector comparison of name_len looks at        *)
  Scale          (* bound: batches are this many times smaller              *)

ASSUME CutsAssumption ==
  /\ \A f \in Files : FileOK(f)
  /\ Processors \subseteq Nat /\ Scan \in {32, 64} /\ Scale \in Nat \ {0}
  /\ \A p \in Programs :
       /\ {p.cap, p.unknown} \subseteq Nat \ {0} /\ {p.sample, p.batch, p.buffer} \subseteq Nat
       /\ p.streams \in {1, 2, 4} /\ p.tail \in {"none", "last line", "slack"}
       (* Who parses in place to the end does so byte by byte; who compares  *)
       (* vectors leaves a slack; the buffer holds the tail and more.        *)
       /\ p.tail = "none" => /\ p.digits # "first eight" /\ p.uint = "digits" /\ p.print = "bytes"
                             /\ p.name \notin {"marks", "words", "vector"}
       /\ p.tail = "last line" => p.name # "vector" /\ MaxLineLen <= p.buffer
       /\ p.tail = "slack" => TailSlack + MaxLineLen <= p.buffer

---------------------------------------------------------------------------
(* The ends of the loads of a row, as offsets from its start.  Reading     *)
(* byte by byte, as the C library does, ends at the newline.               *)

(* The name's words while they hold no comma: two, or the vector, then     *)
(* eight bytes at a time.                                                  *)
NameLoads(p, r) ==
  LET first == CASE p.name \in {"marks", "words"} -> 16
                 [] p.name = "vector"             -> Scan
                 [] OTHER                         -> 0
  IN  IF first = 0 THEN {}
      ELSE {11 + first} \cup {11 + first + 8 * k + 8 : k \in {k \in 0..13 : first + 8 * k <= r.name}}

(* One word for both numbers if they fit, otherwise one for each           *)
NumberLoads(p, r) ==
  LET q == 11 + r.name + 1 IN
  IF p.uint = "digits" THEN {}
  ELSE {q + 8} \cup (IF p.numbers # "apart" /\ r.len + r.stamps + 2 <= 8 THEN {}
                     ELSE {q + r.len + 1 + 8})

(* The first, the last and the second eight bytes of the name              *)
PrintLoads(p, r) ==
  CASE p.print = "bytes"            -> {}
    [] p.print = "masked ends, mid" -> {19, 27}
    [] OTHER                        -> {19}

Loads(p, r) ==
  {RowLength(r)}
    \cup {8 : x \in {x \in {0} : p.digits = "first eight"}}
    \cup NameLoads(p, r) \cup NumberLoads(p, r) \cup PrintLoads(p, r)

---------------------------------------------------------------------------
(* thread_count                                                            *)
ThreadCount(p, n) ==
  IF n = 0 THEN p.unknown ELSE IF n > p.cap THEN p.cap ELSE n

(* last_line: behind the last newline but the one the file ends with       *)
LastLine(f) ==
  LET hits == {n \in Newlines(f) : n < f.size - 1}
  IN  IF hits = {} THEN f.body ELSE 1 + Max(hits)

(* Mutant: the last row only, whatever the parser loads. *)
TailOfLastLine(p, f) ==
  CASE p.tail = "none" -> f.size
    [] p.tail # "none" -> LastLine(f)

(* tail_start                                                              *)
TailOf(p, f) ==
  CASE p.tail = "none"      -> f.size
    [] p.tail = "last line" -> LastLine(f)
    [] p.tail = "slack"     -> IF f.size - f.body > TailSlack
                                 THEN LineAfter(f, f.size - TailSlack, f.size, 0) ELSE f.body

(* The end of the share of thread i of n, or of stream i of n of a share   *)
PartEnd(f, from, to, i, n) ==
  IF i = n - 1 THEN to
  ELSE LineAfter(f, from + ((to - from) * (i + 1)) \div n, to, to)

(* A range: its streams, what is left of each, and the rows of a batch     *)
Stretch(streams, batch) == [streams |-> streams, batch |-> batch]
One(b, e, p) == Stretch(<<[at |-> b, end |-> e]>>, p.batch)

(* STREAMS ranges of one share, read in turn                               *)
FourStreams(p, f, b, e) ==
  LET cut == [i \in 0..3 |-> PartEnd(f, b, e, i, 4)]
  IN  Stretch([i \in 1..4 |-> [at |-> IF i = 1 THEN b ELSE cut[i - 2], end |-> cut[i - 1]]], 4)

(* Mutant: the second half starts at the proportional byte. *)
MidByte(f, b, e) == b + (e - b) \div 2

(* mid                                                                     *)
Mid(f, b, e) ==
  LET mid == b + (e - b) \div 2
  IN  IF mid > b /\ mid < e THEN LineAfter(f, mid, e, e) ELSE e

TwoStreams(p, f, b, e) ==
  Stretch(<<[at |-> b, end |-> Mid(f, b, e)], [at |-> Mid(f, b, e), end |-> e]>>, p.batch)

Streams(p, f, b, e) ==
  CASE p.streams = 1 -> One(b, e, p)
    [] p.streams = 2 -> TwoStreams(p, f, b, e)
    [] p.streams = 4 -> FourStreams(p, f, b, e)

(* worker: the sample, if it ends within the share, and the rest           *)
RangesOf(p, f, b, e) ==
  LET cut == b + (e - b) \div p.sample
      end == LineAfter(f, cut, e, e)
  IN  IF p.sample # 0 /\ cut > b /\ cut < e
        THEN <<One(b, end, p), Streams(p, f, end, e)>>
        ELSE <<Streams(p, f, b, e)>>

---------------------------------------------------------------------------
VARIABLES
  program, file, threads,
  pc,               (* "tail", "share", "work", "buffer", "done"            *)
  tail,             (* last_line, tail_start                                *)
  t, cursor,        (* the thread, the end of the shares so far             *)
  ranges,           (* what the worker has to do, the first in progress     *)
  batch,            (* the rows it has read and not counted                 *)
  bp,               (* main's position in the padded buffer (file offset)   *)
  taken             (* history: how often the row at each start was counted *)

fixed == <<program, file, threads>>
vars  == <<fixed, pc, tail, t, cursor, ranges, batch, bp, taken>>

(* 04 to 10 take an input to have a row.                                   *)
HasRows(p, f) == p.tail = "last line" /\ p.cap > 1 => f.body < f.size

Init ==
  /\ program \in Programs /\ file \in {f \in Files : HasRows(program, f)}
  /\ threads \in {ThreadCount(program, n) : n \in Processors}
  /\ pc = "tail" /\ tail = 0 /\ t = 0 /\ cursor = 0
  /\ ranges = <<>> /\ batch = <<>> /\ bp = 0
  /\ taken = [s \in DOMAIN file.rows |-> 0]

ChooseTail ==
  /\ pc = "tail"
  /\ tail' = TailOf(program, file)
  /\ cursor' = file.body
  /\ pc' = "share"
  /\ UNCHANGED <<fixed, t, ranges, batch, bp, taken>>

(* The next share, and the worker that gets it                             *)
NextShare ==
  /\ pc = "share" /\ t < threads
  /\ cursor' = PartEnd(file, file.body, tail, t, threads)
  /\ ranges' = RangesOf(program, file, cursor, cursor')
  /\ t' = t + 1
  /\ pc' = "work"
  /\ UNCHANGED <<fixed, tail, batch, bp, taken>>

Streaming == \A i \in DOMAIN ranges[1].streams : ranges[1].streams[i].at < ranges[1].streams[i].end

(* Another row of every stream fits.                                       *)
Room ==
  LET n == Len(ranges[1].streams)
      b == ranges[1].batch \div Scale
  IN  Len(batch) + n <= (IF b < n THEN n ELSE b)

(* parse_row, once on each stream                                          *)
ReadRows ==
  /\ pc = "work" /\ ranges # <<>>
  /\ Streaming /\ Room
  /\ LET ss == ranges[1].streams IN
     /\ batch' = batch \o [i \in DOMAIN ss |-> ss[i].at]
     /\ ranges' = [ranges EXCEPT ![1].streams =
                     [i \in DOMAIN ss |-> [ss[i] EXCEPT !.at = RowEnd(file, @)]]]
  /\ UNCHANGED <<fixed, pc, tail, t, cursor, bp, taken>>

(* channel_id and update_stats on the rows of the batch                    *)
CountBatch ==
  /\ pc = "work" /\ batch # <<>>
  /\ ~ (Streaming /\ Room)
  /\ taken' = [s \in DOMAIN taken |->
                 taken[s] + Cardinality({n \in DOMAIN batch : batch[n] = s})]
  /\ batch' = <<>>
  /\ UNCHANGED <<fixed, pc, tail, t, cursor, ranges, bp>>

(* Mutant: only the stream that lasted is gone on with. *)
LeftOverLast(r) ==
  IF Len(r.streams) = 1 THEN <<>> ELSE <<One(Last(r.streams).at, Last(r.streams).end, program)>>

(* Mutant: the streams are gone on with together. *)
LeftOverTogether(r) == IF Len(r.streams) = 1 THEN <<>> ELSE <<r>>

(* What several streams leave is read one stream after the other.          *)
LeftOver(r) ==
  IF Len(r.streams) = 1 THEN <<>>
  ELSE [i \in DOMAIN r.streams |-> One(r.streams[i].at, r.streams[i].end, program)]

(* One of the streams has ended; between the sample and the rest the code  *)
(* renumbers its channels, with no row in hand.                            *)
EndRange ==
  /\ pc = "work" /\ ranges # <<>>
  /\ ~ Streaming /\ batch = <<>>
  /\ ranges' = LeftOver(Head(ranges)) \o Tail(ranges)
  /\ UNCHANGED <<fixed, pc, tail, t, cursor, batch, bp, taken>>

EndWorker ==
  /\ pc = "work" /\ ranges = <<>>
  /\ pc' = "share"
  /\ UNCHANGED <<fixed, tail, t, cursor, ranges, batch, bp, taken>>

Joined ==
  /\ pc = "share" /\ t = threads
  /\ pc' = "buffer" /\ bp' = tail
  /\ UNCHANGED <<fixed, tail, t, cursor, ranges, batch, taken>>

(* process_row in the buffer: of the last line, or while rows are left     *)
BufferRow ==
  /\ pc = "buffer" /\ bp < file.size
  /\ bp' = RowEnd(file, bp)
  /\ taken' = [taken EXCEPT ![bp] = @ + 1]
  /\ pc' = (IF program.tail = "last line" THEN "done" ELSE "buffer")
  /\ UNCHANGED <<fixed, tail, t, cursor, ranges, batch>>

BufferDone ==
  /\ pc = "buffer" /\ ~ (bp < file.size)
  /\ pc' = "done"
  /\ UNCHANGED <<fixed, tail, t, cursor, ranges, batch, bp, taken>>

Next ==
  \/ ChooseTail \/ NextShare \/ ReadRows \/ CountBatch \/ EndRange \/ EndWorker
  \/ Joined \/ BufferRow \/ BufferDone

(* A thread that can run does.                                             *)
Spec == Init /\ [][Next]_vars /\ WF_vars(Next)

---------------------------------------------------------------------------
(* Every row is counted at most once, whichever of several positions it    *)
(* was read from, and once when main goes on to the output: the shares,    *)
(* samples, halves and streams meet, and what a batch or a stream leaves   *)
(* over is not forgotten.                                                  *)
OnceEach ==
  /\ \A s \in DOMAIN file.rows : taken[s] <= 1
  /\ pc = "done" => \A s \in DOMAIN file.rows : taken[s] = 1

(* No position a row is read from is within a row.                         *)
StartsAligned ==
  /\ \A k \in DOMAIN ranges : \A i \in DOMAIN ranges[k].streams :
        LineStart(file, ranges[k].streams[i].at)
  /\ pc = "buffer" => LineStart(file, bp)

(* No load of the program's own parser leaves the mapping, for the rows    *)
(* read in place, or the buffer, for the rows copied there.                *)
LoadsInside ==
  /\ pc = "work" /\ ranges # <<>> /\ Streaming =>
       \A i \in DOMAIN ranges[1].streams :
         LET at == ranges[1].streams[i].at IN
         \A e \in Loads(program, file.rows[at]) : at + e <= file.size
  /\ pc = "buffer" /\ bp < file.size =>
       /\ file.size - tail <= program.buffer
       /\ \A e \in Loads(program, file.rows[bp]) : (bp - tail) + e <= program.buffer

(* The lockstep loops, the batches and the tail loop end.                  *)
Finishes == <>(pc = "done")
=============================================================================
