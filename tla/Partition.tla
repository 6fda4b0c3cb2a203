----------------------------- MODULE Partition -----------------------------
(***************************************************************************)
(* How src/27-robust.c cuts its memory-mapped input into work: main skips  *)
(* the header, sets the last rows aside for a padded buffer, and splits    *)
(* the rest among the threads at row boundaries; each worker splits its    *)
(* share again into a sample and the rest.  Positions are byte offsets and *)
(* all the constants have the program's own values.                        *)
(***************************************************************************)
EXTENDS Layout, FiniteSets

CONSTANTS
  Files,         (* the inputs: see FileOK                                  *)
  MaxThreads,    (* MAX_THREADS                                             *)
  Scan,          (* bytes the vector comparison of name_len looks at        *)
  SampleRatio    (* a worker samples the first 1/SampleRatio of its share   *)

BufferSize == TailSlack + MaxLineLen + 64

---------------------------------------------------------------------------
(* The ends of the loads parse_row issues, as offsets from the row's       *)
(* start: the timestamp word, the first name word, the vector scan and its *)
(* 8-byte continuation, last8, mid8, the number word and, when the newline *)
(* is not in it, the word of the second number.                            *)
Loads(r) ==
  LET nameEnd == 11 + r.name IN
  {8, 19, 11 + Scan, 27, IF r.name < 8 THEN 19 ELSE nameEnd, nameEnd + 9}
    \cup {11 + Scan + 8*k + 8 : k \in {k \in 0..13 : Scan + 8*k <= r.name}}
    \cup {nameEnd + 10 + r.len : x \in {x \in {0} : r.len + r.stamps + 2 > 8}}

ASSUME FilesAssumption      == \A f \in Files : FileOK(f)
ASSUME MaxThreadsAssumption == MaxThreads \in Nat \ {0}
ASSUME ScanAssumption       == Scan \in {32, 64}
ASSUME SampleAssumption     == SampleRatio \in Nat \ {0}

---------------------------------------------------------------------------
VARIABLES
  file, threads,    (* the input and thread_count()                         *)
  pc,               (* main: "tail", "assign", "work", "buffer", "done"     *)
  tail,             (* tail_start                                           *)
  t, cursor,        (* the loop that fills ctx[t].begin and ctx[t].end      *)
  begin, end,
  wpc, pos, stop,   (* each worker: phase, p and end of its run_range       *)
  bp,               (* main's position in the padded buffer (file offset)   *)
  taken             (* history: how often the row at each start was parsed  *)

mainVars   == <<pc, tail, t, cursor, begin, end>>
workerVars == <<wpc, pos, stop>>
vars == <<file, threads, mainVars, workerVars, bp, taken>>

Threads == 0..(MaxThreads - 1)
Active  == 0..(threads - 1)
Zero    == [w \in Threads |-> 0]

Init ==
  /\ file \in Files
  /\ threads \in 1..MaxThreads
  /\ pc = "tail" /\ tail = 0 /\ t = 0 /\ cursor = 0
  /\ begin = Zero /\ end = Zero /\ pos = Zero /\ stop = Zero
  /\ wpc = [w \in Threads |-> "idle"]
  /\ bp = 0
  /\ taken = [s \in DOMAIN file.rows |-> 0]

(* Mutant: only the last row goes to the buffer, as before the vector scan. *)
LastRowOnly(f) ==
  IF DOMAIN f.rows = {} THEN f.body
  ELSE CHOOSE s \in DOMAIN f.rows : \A r \in DOMAIN f.rows : r <= s

(* Rows that start in the last TailSlack bytes go to the buffer.  The code *)
(* adds 1 to memchr's result unchecked: there is always a newline.         *)
TailOf(f) ==
  IF f.size - f.body > TailSlack
    THEN LineAfter(f, f.size - TailSlack, f.size, 0)
    ELSE f.body

ChooseTail ==
  /\ pc = "tail"
  /\ tail' = TailOf(file)
  /\ cursor' = file.body
  /\ pc' = "assign"
  /\ UNCHANGED <<file, threads, t, begin, end, workerVars, bp, taken>>

(* The end of the share of thread i of n: the last takes what is left.     *)
Target(f, i, n, tl) == f.body + ((tl - f.body) * (i + 1)) \div n

(* Mutant: the last share runs to the end of the mapping. *)
ShareToEnd(f, i, n, tl) ==
  IF i = n - 1 THEN f.size ELSE LineAfter(f, Target(f, i, n, tl), tl, tl)

ShareEnd(f, i, n, tl) ==
  IF i = n - 1 THEN tl ELSE LineAfter(f, Target(f, i, n, tl), tl, tl)

AssignTo(i) ==
  /\ begin' = [begin EXCEPT ![i] = cursor]
  /\ cursor' = ShareEnd(file, i, threads, tail)
  /\ end' = [end EXCEPT ![i] = ShareEnd(file, i, threads, tail)]
  /\ t' = i + 1
  /\ UNCHANGED <<file, threads, pc, tail, workerVars, bp, taken>>

(* Mutant: one share too many. *)
AssignOneMore ==
  /\ pc = "assign"
  /\ t <= threads
  /\ AssignTo(t)

Assign ==
  /\ pc = "assign"
  /\ t < threads
  /\ AssignTo(t)

Assigned ==
  /\ pc = "assign"
  /\ t = threads
  /\ pc' = "work"
  /\ UNCHANGED <<file, threads, tail, t, cursor, begin, end, workerVars, bp, taken>>

---------------------------------------------------------------------------
(* Mutant: the sample ends at the proportional byte. *)
SampleByte(f, b, e) == b + (e - b) \div SampleRatio

(* worker: the sample is cut only when its end falls strictly inside.      *)
SampleEnd(f, b, e) ==
  LET cut == b + (e - b) \div SampleRatio
  IN  IF cut > b /\ cut < e THEN LineAfter(f, cut, e, e) ELSE e

StartWorker(w) ==
  /\ pc = "work"
  /\ wpc[w] = "idle"
  /\ wpc' = [wpc EXCEPT ![w] = "sample"]
  /\ pos' = [pos EXCEPT ![w] = begin[w]]
  /\ stop' = [stop EXCEPT ![w] = SampleEnd(file, begin[w], end[w])]
  /\ UNCHANGED <<file, threads, mainVars, bp, taken>>

ParseRow(w) ==
  /\ wpc[w] \in {"sample", "rest"}
  /\ pos[w] < stop[w]
  /\ pos' = [pos EXCEPT ![w] = RowEnd(file, pos[w])]
  /\ taken' = [taken EXCEPT ![pos[w]] = @ + 1]
  /\ UNCHANGED <<file, threads, mainVars, wpc, stop, bp>>

(* run_range ends: the sample's end starts the rest (an empty rest is the  *)
(* worker that does not sample).                                           *)
EndRange(w) ==
  /\ wpc[w] \in {"sample", "rest"}
  /\ ~ (pos[w] < stop[w])
  /\ wpc' = [wpc EXCEPT ![w] = IF @ = "sample" THEN "rest" ELSE "done"]
  /\ pos' = [pos EXCEPT ![w] = IF wpc[w] = "sample" THEN stop[w] ELSE @]
  /\ stop' = [stop EXCEPT ![w] = end[w]]
  /\ UNCHANGED <<file, threads, mainVars, bp, taken>>

(* Mutant: main joins all the slots, created or not. *)
JoinAll ==
  /\ pc = "work"
  /\ \A w \in Threads : wpc[w] = "done"
  /\ pc' = "buffer"
  /\ bp' = tail
  /\ UNCHANGED <<file, threads, tail, t, cursor, begin, end, workerVars, taken>>

Join ==
  /\ pc = "work"
  /\ \A w \in Active : wpc[w] = "done"
  /\ pc' = "buffer"
  /\ bp' = tail
  /\ UNCHANGED <<file, threads, tail, t, cursor, begin, end, workerVars, taken>>

BufferRow ==
  /\ pc = "buffer"
  /\ bp < file.size
  /\ bp' = RowEnd(file, bp)
  /\ taken' = [taken EXCEPT ![bp] = @ + 1]
  /\ UNCHANGED <<file, threads, mainVars, workerVars>>

BufferDone ==
  /\ pc = "buffer"
  /\ ~ (bp < file.size)
  /\ pc' = "done"
  /\ UNCHANGED <<file, threads, tail, t, cursor, begin, end, workerVars, bp, taken>>

MainStep == ChooseTail \/ Assign \/ Assigned \/ Join \/ BufferRow \/ BufferDone
WorkerStep(w) == StartWorker(w) \/ ParseRow(w) \/ EndRange(w)

Next == MainStep \/ \E w \in Active : WorkerStep(w)

Spec == Init /\ [][Next]_vars

(* Every thread that was created runs, and main waits in pthread_join.     *)
FairSpec ==
  /\ Spec
  /\ WF_vars(MainStep)
  /\ \A w \in Threads : WF_vars(w \in Active /\ WorkerStep(w))

---------------------------------------------------------------------------
(* The main variables and the workers' stay in their ranges.               *)
TypeOK ==
  /\ threads \in 1..MaxThreads
  /\ pc \in {"tail", "assign", "work", "buffer", "done"}
  /\ tail \in Nat /\ cursor \in Nat /\ bp \in Nat
  /\ t \in 0..threads
  /\ begin \in [Threads -> Nat] /\ end \in [Threads -> Nat]
  /\ wpc \in [Threads -> {"idle", "sample", "rest", "done"}]
  /\ pos \in [Threads -> Nat] /\ stop \in [Threads -> Nat]
  /\ taken \in [DOMAIN file.rows -> Nat]

(* Every row is parsed at most once, by the workers and the buffer         *)
(* together, and when main reaches the merge every row has been: the       *)
(* shares, the samples and the tail neither overlap nor leave a gap.       *)
OnceEach ==
  /\ \A s \in DOMAIN file.rows : taken[s] <= 1
  /\ pc = "done" => \A s \in DOMAIN file.rows : taken[s] = 1

(* No worker ever parses from the middle of a row, whatever byte its       *)
(* proportional target fell on.                                            *)
StartsAligned ==
  /\ \A w \in Active : wpc[w] \in {"sample", "rest"} => LineStart(file, pos[w])
  /\ pc = "buffer" => LineStart(file, bp)

(* The over-reading loads stay in the mapping for the rows the workers     *)
(* parse in place, and in the zeroed buffer for the rows copied there.     *)
LoadsInside ==
  /\ \A w \in Active : wpc[w] \in {"sample", "rest"} /\ pos[w] < stop[w] =>
        \A e \in Loads(file.rows[pos[w]]) : pos[w] + e <= file.size
  /\ pc = "buffer" =>
        /\ file.size - tail <= BufferSize
        /\ bp < file.size =>
             \A e \in Loads(file.rows[bp]) : (bp - tail) + e <= BufferSize

(* The split loop, every worker and the tail loop end.                     *)
Termination == <>(pc = "done")
=============================================================================
