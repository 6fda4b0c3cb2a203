-------------------------------- MODULE Main --------------------------------
(***************************************************************************)
(* A whole run of src/27-robust.c: main and its worker threads.  Main      *)
(* hands every thread a share of the rows, runs the shares of the threads  *)
(* it cannot create itself, joins the others, counts the rows of the tail  *)
(* buffer into ctx[0], merges the other contexts into it, formats and      *)
(* writes.  The byte positions of the shares are module Partition's, the   *)
(* batches of a worker are module Worker's: here a share is any contiguous *)
(* run of rows and a worker counts its rows one at a time.                 *)
(***************************************************************************)
EXTENDS Ctx, SequencesExt

CONSTANTS
  Rows, Inputs, Hashes,
  MaxThreads,      (* MAX_THREADS                                           *)
  MaxInterrupts,   (* bound: writes interrupted by a signal in one run      *)
  Old              (* what the output file held before                      *)

ASSUME MainAssumption ==
  /\ MaxThreads \in Nat \ {0} /\ MaxInterrupts \in Nat
  /\ Inputs \subseteq Seq(Rows)
  /\ \A r \in Rows : /\ r.channel \in Channels /\ r.month \in Months
                     /\ r.len \in Nat /\ r.stamps \in Nat
  /\ Hashes \subseteq [Channels -> Slots]
  /\ IsFiniteSet(Months) /\ Months = 1..Cardinality(Months)

VARIABLES
  hash, input,
  pc,               (* main: see TypeOK                                     *)
  threads,          (* thread_count()                                       *)
  first, last,      (* ctx[t].begin and end: rows first[t] .. last[t] - 1   *)
  created,          (* the threads pthread_create could create              *)
  t, sc,            (* main's loop variables                                *)
  bp,               (* main's next row in the tail buffer                   *)
  phase, pos,       (* each worker: where it is, its next row               *)
  ctx,
  lines, w,         (* the formatted lines, how many of them are written    *)
  out,              (* the output file                                      *)
  interrupts, exit

fixedVars  == <<hash, input>>
shareVars  == <<threads, first, last>>
workerVars == <<phase, pos>>
writeVars  == <<lines, w, out, interrupts>>
vars == <<fixedVars, pc, shareVars, created, t, sc, bp, workerVars, ctx, writeVars, exit>>

Threads == 0..(MaxThreads - 1)
Active  == 0..(threads - 1)

(* Static storage before init_ctx: all zero, and 0 is an id.               *)
ZeroStats == [min |-> 0, max |-> 0, total |-> 0, countStamps |-> 0]
ZeroCtx ==
  [table |-> [s \in Slots |-> [id |-> 0, print |-> NoName]],
   names |-> [i \in Ids |-> NoName],
   stats |-> [i \in Ids |-> [m \in Months |-> ZeroStats]],
   count |-> 0]

Init ==
  /\ hash \in Hashes /\ input \in Inputs
  /\ pc = "start" /\ threads = 1
  /\ first = [i \in Threads |-> 1] /\ last = [i \in Threads |-> 1]
  /\ created = {} /\ t = 1 /\ sc = 0 /\ bp = 1
  /\ phase = [i \in Threads |-> "idle"] /\ pos = [i \in Threads |-> 1]
  /\ ctx = [i \in Threads |-> ZeroCtx]
  /\ lines = <<>> /\ w = 0 /\ out = Old
  /\ interrupts = 0 /\ exit = "none"

Return(status) == pc' = "exit" /\ exit' = status

---------------------------------------------------------------------------
(* main, up to the threads                                                 *)

(* Wrong arguments; the input cannot be opened, mapped, or has no header.  *)
CannotStart ==
  /\ pc = "start"
  /\ Return("failed")
  /\ UNCHANGED <<fixedVars, shareVars, created, t, sc, bp, workerVars, ctx, writeVars>>

(* Consecutive shares from the first row on; what is left, at least the    *)
(* last row of an input that has one, is the tail.                         *)
Partition ==
  /\ pc = "start"
  /\ \E n \in 1..MaxThreads :
     \E ends \in [0..(n - 1) -> 1..(Len(input) + 1)] :
       /\ \A i \in 1..(n - 1) : ends[i - 1] <= ends[i]
       /\ input # <<>> => ends[n - 1] <= Len(input)
       /\ threads' = n
       /\ first' = [i \in Threads |-> IF i \in 1..(n - 1) THEN ends[i - 1] ELSE 1]
       /\ last' = [i \in Threads |-> IF i < n THEN ends[i] ELSE 1]
  /\ pc' = "create"
  /\ UNCHANGED <<fixedVars, created, t, sc, bp, workerVars, ctx, writeVars, exit>>

CreateThread ==
  /\ pc = "create" /\ t < threads
  /\ created' = created \cup {t}
  /\ phase' = [phase EXCEPT ![t] = "begin"]
  /\ t' = t + 1
  /\ UNCHANGED <<fixedVars, pc, shareVars, sc, bp, pos, ctx, writeVars, exit>>

(* pthread_create fails: main calls worker(&ctx[t]) itself.                *)
CallWorker ==
  /\ pc = "create" /\ t < threads
  /\ phase' = [phase EXCEPT ![t] = "begin"]
  /\ pc' = "inline"
  /\ UNCHANGED <<fixedVars, shareVars, created, t, sc, bp, pos, ctx, writeVars, exit>>

WorkerReturns ==
  /\ pc = "inline" /\ phase[t] = "ended"
  /\ pc' = "create" /\ t' = t + 1
  /\ UNCHANGED <<fixedVars, shareVars, created, sc, bp, workerVars, ctx, writeVars, exit>>

(* worker(&ctx[0])                                                         *)
CallOwn ==
  /\ pc = "create" /\ t = threads
  /\ phase' = [phase EXCEPT ![0] = "begin"]
  /\ pc' = "own"
  /\ UNCHANGED <<fixedVars, shareVars, created, t, sc, bp, pos, ctx, writeVars, exit>>

OwnReturns ==
  /\ pc = "own" /\ phase[0] = "ended"
  /\ pc' = "join" /\ t' = 1
  /\ UNCHANGED <<fixedVars, shareVars, created, sc, bp, workerVars, ctx, writeVars, exit>>

---------------------------------------------------------------------------
(* worker(&ctx[i]), in a thread of its own or called by main               *)

Alive == exit = "none"

(* init_ctx; a share of fewer than 128 bytes has no sample.                *)
BeginWorker(i) ==
  /\ Alive /\ phase[i] = "begin"
  /\ ctx' = [ctx EXCEPT ![i] = InitCtx]
  /\ pos' = [pos EXCEPT ![i] = first[i]]
  /\ \E ph \in {"sample", "rest"} :
       /\ ph = "sample" => first[i] < last[i]
       /\ phase' = [phase EXCEPT ![i] = ph]
  /\ UNCHANGED <<fixedVars, pc, shareVars, created, t, sc, bp, writeVars, exit>>

CountRow(i) ==
  /\ Alive /\ phase[i] \in {"sample", "rest"}
  /\ pos[i] < last[i]
  /\ ProbeEnds(ctx[i], hash, input[pos[i]].channel)
  /\ ctx' = [ctx EXCEPT ![i] = ProcessRow(@, hash, input[pos[i]])]
  /\ pos' = [pos EXCEPT ![i] = @ + 1]
  /\ UNCHANGED <<fixedVars, pc, shareVars, created, t, sc, bp, phase, writeVars, exit>>

(* The sample is the first rows of the share, at least one, maybe all.     *)
Renumber(i) ==
  /\ Alive /\ phase[i] = "sample" /\ pos[i] > first[i]
  /\ \E c \in RenumberResults(ctx[i]) : ctx' = [ctx EXCEPT ![i] = c]
  /\ phase' = [phase EXCEPT ![i] = "rest"]
  /\ UNCHANGED <<fixedVars, pc, shareVars, created, t, sc, bp, pos, writeVars, exit>>

EndWorker(i) ==
  /\ Alive /\ phase[i] = "rest" /\ pos[i] = last[i]
  /\ phase' = [phase EXCEPT ![i] = "ended"]
  /\ UNCHANGED <<fixedVars, pc, shareVars, created, t, sc, bp, pos, ctx, writeVars, exit>>

WorkerStep(i) == BeginWorker(i) \/ CountRow(i) \/ Renumber(i) \/ EndWorker(i)

---------------------------------------------------------------------------
(* main, after the threads                                                 *)

(* Mutant: the threads are not waited for.                                 *)
JoinAtOnce ==
  /\ pc = "join" /\ t < threads
  /\ t' = t + 1
  /\ UNCHANGED <<fixedVars, pc, shareVars, created, sc, bp, workerVars, ctx, writeVars, exit>>

(* Mutant: the loop over the threads ends one too late.                    *)
JoinOneMore ==
  /\ pc = "join" /\ t <= threads
  /\ t \in created => phase[t] = "ended"
  /\ t' = t + 1
  /\ UNCHANGED <<fixedVars, pc, shareVars, created, sc, bp, workerVars, ctx, writeVars, exit>>

(* pthread_join, for the threads that were created                         *)
Join ==
  /\ pc = "join" /\ t < threads
  /\ t \in created => phase[t] = "ended"
  /\ t' = t + 1
  /\ UNCHANGED <<fixedVars, pc, shareVars, created, sc, bp, workerVars, ctx, writeVars, exit>>

JoinFails ==
  /\ pc = "join" /\ t \in created /\ t < threads
  /\ Return("failed")
  /\ UNCHANGED <<fixedVars, shareVars, created, t, sc, bp, workerVars, ctx, writeVars>>

Joined ==
  /\ pc = "join" /\ t = threads
  /\ pc' = "buffer" /\ bp' = last[threads - 1]
  /\ UNCHANGED <<fixedVars, shareVars, created, t, sc, workerVars, ctx, writeVars, exit>>

(* while (bp < bend) bp = process_row(&ctx[0], bp)                         *)
TailRow ==
  /\ pc = "buffer" /\ bp <= Len(input)
  /\ ProbeEnds(ctx[0], hash, input[bp].channel)
  /\ ctx' = [ctx EXCEPT ![0] = ProcessRow(@, hash, input[bp])]
  /\ bp' = bp + 1
  /\ UNCHANGED <<fixedVars, pc, shareVars, created, t, sc, workerVars, writeVars, exit>>

TailDone ==
  /\ pc = "buffer" /\ bp > Len(input)
  /\ pc' = "merge" /\ t' = 1 /\ sc' = 0
  /\ UNCHANGED <<fixedVars, shareVars, created, bp, workerVars, ctx, writeVars, exit>>

MergeNext ==
  /\ pc = "merge" /\ t < threads /\ sc < ctx[t].count
  /\ ProbeEnds(ctx[0], hash, ctx[t].names[sc])
  /\ ctx' = [ctx EXCEPT ![0] = MergeChannel(@, hash, ctx[t], sc)]
  /\ sc' = sc + 1
  /\ UNCHANGED <<fixedVars, pc, shareVars, created, t, bp, workerVars, writeVars, exit>>

(* Mutant: a context without any channel is not passed over.               *)
MergedSome ==
  /\ pc = "merge" /\ t < threads /\ sc > 0 /\ sc = ctx[t].count
  /\ t' = t + 1 /\ sc' = 0
  /\ UNCHANGED <<fixedVars, pc, shareVars, created, bp, workerVars, ctx, writeVars, exit>>

MergedOne ==
  /\ pc = "merge" /\ t < threads /\ sc = ctx[t].count
  /\ t' = t + 1 /\ sc' = 0
  /\ UNCHANGED <<fixedVars, pc, shareVars, created, bp, workerVars, ctx, writeVars, exit>>

(* open(argv[2], O_TRUNC)                                                  *)
OpenOutput ==
  /\ pc = "merge" /\ t = threads
  /\ \/ pc' = "format" /\ out' = <<>> /\ UNCHANGED exit
     \/ Return("failed") /\ UNCHANGED out
  /\ UNCHANGED <<fixedVars, shareVars, created, t, sc, bp, workerVars, ctx, lines, w, interrupts>>

(* The line of one channel and month, if it has one.                       *)
LineOf(c, i, m) ==
  LET s == c.stats[i][m] IN
  IF CountOf(s) % Word = 0 THEN <<>>
  ELSE << [channel |-> c.names[i], month |-> m, min |-> s.min, max |-> s.max,
           total |-> s.total, count |-> CountOf(s) % Word, stamps |-> StampsOf(s)] >>

(* malloc, then the lines by id and month                                  *)
Format ==
  /\ pc = "format"
  /\ \/ /\ lines' = FlattenSeq([j \in 1..(ctx[0].count * Cardinality(Months)) |->
                       LineOf(ctx[0], (j - 1) \div Cardinality(Months),
                                      1 + ((j - 1) % Cardinality(Months)))])
        /\ pc' = "write" /\ UNCHANGED exit
     \/ Return("failed") /\ UNCHANGED lines
  /\ UNCHANGED <<fixedVars, shareVars, created, t, sc, bp, workerVars, ctx, w, out, interrupts>>

(* write takes some of the bytes; the model counts whole lines.            *)
WriteSome ==
  /\ pc = "write" /\ w < Len(lines)
  /\ \E n \in 1..(Len(lines) - w) : out' = out \o SubSeq(lines, w + 1, w + n) /\ w' = w + n
  /\ UNCHANGED <<fixedVars, pc, shareVars, created, t, sc, bp, workerVars, ctx, lines, interrupts, exit>>

(* n < 0 and EINTR                                                         *)
Interrupted ==
  /\ pc = "write" /\ w < Len(lines)
  /\ interrupts < MaxInterrupts
  /\ interrupts' = interrupts + 1
  /\ UNCHANGED <<fixedVars, pc, shareVars, created, t, sc, bp, workerVars, ctx, lines, w, out, exit>>

(* n = 0, or any other error                                               *)
WriteFails ==
  /\ pc = "write" /\ w < Len(lines)
  /\ Return("failed")
  /\ UNCHANGED <<fixedVars, shareVars, created, t, sc, bp, workerVars, ctx, writeVars>>

Close ==
  /\ pc = "write" /\ w = Len(lines)
  /\ \E status \in {"ok", "failed"} : Return(status)
  /\ UNCHANGED <<fixedVars, shareVars, created, t, sc, bp, workerVars, ctx, writeVars>>

MainStep ==
  \/ CannotStart \/ Partition \/ CreateThread \/ CallWorker \/ WorkerReturns
  \/ CallOwn \/ OwnReturns \/ Join \/ JoinFails \/ Joined \/ TailRow \/ TailDone
  \/ MergeNext \/ MergedOne \/ OpenOutput \/ Format
  \/ WriteSome \/ Interrupted \/ WriteFails \/ Close

Next == MainStep \/ \E i \in Threads : WorkerStep(i)

Spec == Init /\ [][Next]_vars

(* As long as some thread can run, one does: nothing is asked of which.    *)
FairSpec == Spec /\ WF_vars(Next)

---------------------------------------------------------------------------
TypeOK ==
  /\ pc \in {"start", "create", "inline", "own", "join", "buffer", "merge", "format", "write", "exit"}
  /\ threads \in 1..MaxThreads /\ created \subseteq 1..(MaxThreads - 1)
  /\ \A i \in Threads : pos[i] \in 1..(Len(input) + 1)
  /\ t \in 1..threads /\ sc \in 0..MaxChannels /\ bp \in 1..(Len(input) + 1)
  /\ \A i \in Threads : ctx[i].count \in 0..MaxChannels
  /\ phase \in [Threads -> {"idle", "begin", "sample", "rest", "ended"}]
  /\ w \in 0..Len(lines) /\ exit \in {"none", "ok", "failed"}

(* A context has one user at a time: main touches ctx[0] and reads another *)
(* only when no thread that works on it can still take a step.             *)
Working(i) == Alive /\ phase[i] \in {"begin", "sample", "rest"}

NoSharing ==
  /\ pc \in {"buffer", "merge", "format", "write"} => \A i \in Threads : ~ Working(i)
  /\ pc \in {"merge", "format", "write"} => \A i \in 0..(threads - 1) : phase[i] = "ended"

(* What is not yet in a context: the rows the workers and the tail loop    *)
(* have not reached.                                                       *)
BeforeTail == pc \in {"create", "inline", "own", "join"}

LeftInTail == (IF BeforeTail THEN last[threads - 1] ELSE bp)..Len(input)

LeftTo(i) ==
  {j \in first[i]..(last[i] - 1) :
     \/ phase[i] \in {"idle", "begin"}
     \/ phase[i] \in {"sample", "rest"} /\ j >= pos[i]}

NotCounted == LeftInTail \cup UNION {LeftTo(i) : i \in Active}

(* The contexts that count: begun and, while merging, not yet merged.      *)
Holders ==
  {i \in Active :
     /\ phase[i] \in {"sample", "rest", "ended"}
     /\ \/ i = 0 \/ BeforeTail \/ pc = "buffer"
        \/ pc = "merge" /\ i >= t}

(* Channels of ctx[t] that are already in ctx[0].                          *)
Merged(i, n) == pc = "merge" /\ i = t /\ \E k \in 0..(sc - 1) : ctx[i].names[k] = n

HoldersOf(n) == {i \in Holders : ~ Merged(i, n)}

(* What each context says of one channel and month.                        *)
Held(n, m) == [i \in Threads |-> TallyOf(ctx[i])[n][m]]

RowsOfMonth(js, n, m) == {j \in js : input[j].channel = n /\ input[j].month = m}

(* The statistics held in hs and the rows rest come to what all rows do.   *)
CountsAdd(held, hs, rows, rest, all) ==
  SumFunction([i \in hs |-> held[i].countStamps])
    + SumFunction([j \in rest |-> Word + rows[j].stamps])
    = SumFunction([j \in all |-> Word + rows[j].stamps])

TotalsAdd(held, hs, rows, rest, all) ==
  (SumFunction([i \in hs |-> held[i].total]) + SumFunction([j \in rest |-> rows[j].len])) % Word
    = SumFunction([j \in all |-> rows[j].len]) % Word

ExtremesKept(held, hs, rows, rest, all) ==
  \A j \in all :
    \/ j \in rest
    \/ /\ \E i \in hs : held[i].min <= rows[j].len
       /\ \E i \in hs : held[i].max >= rows[j].len

Balanced(held, hs, rows, rest, all) ==
  /\ CountsAdd(held, hs, rows, rest, all)
  /\ TotalsAdd(held, hs, rows, rest, all)
  /\ ExtremesKept(held, hs, rows, rest, all)

(* At every moment the rows counted so far, wherever they are counted, and *)
(* the rows still to be counted make up the whole input: no row is lost or *)
(* counted twice by a schedule, a failed create, the tail or the merge.    *)
Conserved ==
  pc \notin {"start", "exit"} =>
    \A n \in Channels, m \in Months :
      Balanced(Held(n, m), HoldersOf(n), input,
               RowsOfMonth(NotCounted, n, m), RowsOfMonth(DOMAIN input, n, m))

Promise == INSTANCE Aggregate

(* contest.md: per channel and month the number of messages, their total   *)
(* length and their stamps fit in 32 bits.                                 *)
ASSUME SumsAssumption ==
  \A in \in Inputs, n \in Channels, m \in Months :
    LET rows == Promise!RowsFor(in, n, m) IN
    /\ Cardinality(rows) < Word
    /\ SumFunction([j \in rows |-> in[j].len]) < Word
    /\ SumFunction([j \in rows |-> in[j].stamps]) < Word

(* A run that exits 0 has written the summary, every line of it once.      *)
Implements == Promise!Spec

(* Every run ends: no wait, probe or write goes on for ever.               *)
Exits == <>(pc = "exit")
=============================================================================
