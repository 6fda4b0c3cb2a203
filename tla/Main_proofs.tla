---------------------------- MODULE Main_proofs ----------------------------
(***************************************************************************)
(* What is proved of main for any number of threads, any shares, any rows  *)
(* and any set of threads that could not be created:                       *)
(*                                                                         *)
(*   NoSharingTheorem   no context is ever in two hands: main touches      *)
(*                      ctx[0] and the contexts it merges only after every *)
(*                      worker has ended;                                  *)
(*   TypeCorrect        every variable stays in its type;                  *)
(*   ConservedTheorem   the contexts together hold every row read, once,   *)
(*                      from its first counting to the end of the merge;   *)
(*   ImplementsTheorem  main refines Aggregate: what it writes are the     *)
(*                      promised lines, each once, and it either stops     *)
(*                      with an error or writes all of them.               *)
(*                                                                         *)
(* MainInv is the inductive invariant of the first three.  The refinement  *)
(* adds FromRows (every entry's statistics are attained by the rows it     *)
(* counts), TailCounted (main has counted the rows of the tail before it   *)
(* merges) and Written (the output is a prefix of the lines to write).     *)
(***************************************************************************)
EXTENDS Main, Shared_proofs, SequenceTheorems

BeforeJoin == {"create", "inline", "own", "join"}
AfterJoin  == {"buffer", "merge", "format", "write"}

Idle(i)  == phase[i] = "idle"
Ended(i) == phase[i] = "ended"

(* Worker i was handed to a thread, or main has run it to its end.         *)
Launched(i) == ~ Idle(i) /\ (i \notin created => Ended(i))

Range1 ==
  /\ pc \in {"start", "exit"} \cup BeforeJoin \cup AfterJoin
  /\ threads \in 1..MaxThreads
  /\ t \in Nat /\ 1 <= t /\ t <= threads
  /\ phase \in [Threads -> {"idle", "begin", "sample", "rest", "ended"}]
  /\ exit = "none" <=> pc # "exit"

Handed ==
  /\ pc = "start" => t = 1 /\ created = {} /\ \A i \in Threads : Idle(i)
  /\ pc # "exit" => \A i \in Threads : i >= threads => Idle(i)
  /\ pc \in {"create", "inline"} =>
       /\ Idle(0) /\ created \subseteq 1..(t - 1)
       /\ \A i \in 1..(t - 1) : Launched(i)
       /\ \A i \in Threads : i > t => Idle(i)
  /\ pc = "create" => \A i \in Threads : i >= t => Idle(i)
  /\ pc = "inline" => t < threads /\ ~ Idle(t)
  /\ pc \in {"own", "join"} =>
       /\ \A i \in 1..(threads - 1) : Launched(i)
       /\ ~ Idle(0)
  /\ pc = "join" => Ended(0) /\ \A i \in 1..(t - 1) : Ended(i)
  /\ pc \in AfterJoin => \A i \in 0..(threads - 1) : Ended(i)

HandInv == Range1 /\ Handed

LEMMA InitHandInv == Init => HandInv
<1> SUFFICES ASSUME Init PROVE HandInv
  OBVIOUS
<1>1. MaxThreads \in Nat /\ MaxThreads >= 1
  BY MainAssumption
<1>2. Range1
  BY <1>1 DEF Init, Range1
<1>3. Handed
  BY <1>1 DEF Init, Handed, Idle, Threads, BeforeJoin, AfterJoin
<1>4. QED  BY <1>2, <1>3 DEF HandInv

LEMMA Facts ==
  ASSUME HandInv
  PROVE  /\ threads \in Nat /\ 1 <= threads /\ threads <= MaxThreads /\ MaxThreads \in Nat
         /\ t \in Nat /\ 1 <= t /\ t <= threads
         /\ \A i \in Nat : i < threads => i \in Threads
         /\ 0 \in Threads
  BY MainAssumption DEF HandInv, Range1, Threads

(* A step of a worker: it was not idle and is not idle.                    *)
LEMMA WorkerHandInv ==
  ASSUME HandInv, NEW i \in Threads, WorkerStep(i)
  PROVE  HandInv'
<1>1. /\ phase[i] \in {"begin", "sample", "rest"}
      /\ \E ph \in {"sample", "rest", "ended"} : phase' = [phase EXCEPT ![i] = ph] \/ phase' = phase
      /\ UNCHANGED <<pc, threads, t, created, exit>>
  BY DEF WorkerStep, BeginWorker, CountRow, Renumber, EndWorker, shareVars
<1>2. phase \in [Threads -> {"idle", "begin", "sample", "rest", "ended"}]
  BY DEF HandInv, Range1
<1>3. /\ \A j \in Threads : Idle(j)' <=> Idle(j)
      /\ \A j \in Threads : Ended(j) => Ended(j)'
      /\ phase' \in [Threads -> {"idle", "begin", "sample", "rest", "ended"}]
  BY <1>1, <1>2 DEF Idle, Ended
<1>4. Range1'
  BY <1>1, <1>3 DEF HandInv, Range1
<1>5. \A j \in Threads : Launched(j) => Launched(j)'
  BY <1>1, <1>3 DEF Launched
<1>6. Handed'
  BY <1>1, <1>3, <1>5, Facts DEF HandInv, Handed, BeforeJoin, AfterJoin
<1>7. QED  BY <1>4, <1>6 DEF HandInv

LEMMA MainHandInv ==
  ASSUME HandInv, MainStep
  PROVE  HandInv'
<1>1. CASE pc' = "exit"
  <2>1. exit' \in {"ok", "failed"} /\ UNCHANGED <<threads, t, phase>>
    BY <1>1 DEF MainStep, Return, shareVars, workerVars, CannotStart, Partition, CreateThread,
         CallWorker, WorkerReturns, CallOwn, OwnReturns, Join, JoinFails, Joined, TailRow,
         TailDone, MergeNext, MergedOne, OpenOutput, Format, WriteSome, Interrupted,
         WriteFails, Close, HandInv, Range1
  <2>2. QED  BY <1>1, <2>1 DEF HandInv, Range1, Handed, BeforeJoin, AfterJoin
<1>2. CASE Partition
  <2>1. PICK n \in 1..MaxThreads : threads' = n
    BY <1>2 DEF Partition
  <2>2. /\ pc = "start" /\ pc' = "create"
        /\ UNCHANGED <<created, t, phase, exit>>
    BY <1>2 DEF Partition, workerVars
  <2>3. t = 1 /\ created = {} /\ \A i \in Threads : Idle(i)
    BY <2>2 DEF HandInv, Handed
  <2>4. Range1'
    BY <2>1, <2>2, <2>3 DEF HandInv, Range1, BeforeJoin
  <2>5. Handed'
    BY <2>1, <2>2, <2>3, Facts DEF Handed, BeforeJoin, AfterJoin, Idle, Launched, Ended
  <2>6. QED  BY <2>4, <2>5 DEF HandInv
<1>3. CASE CreateThread
  <2>1. /\ pc = "create" /\ t < threads /\ pc' = pc /\ t' = t + 1
        /\ created' = created \cup {t} /\ phase' = [phase EXCEPT ![t] = "begin"]
        /\ UNCHANGED <<threads, exit>>
    BY <1>3 DEF CreateThread, shareVars
  <2>2. Range1'
    BY <2>1, Facts DEF HandInv, Range1
  <2>3. /\ \A i \in Threads : i # t => phase'[i] = phase[i]
        /\ phase'[t] = "begin"
    BY <2>1, Facts DEF HandInv, Range1
  <2>4. ASSUME NEW i \in 1..(t - 1)
        PROVE  Launched(i)'
    <3>1. i \in Threads /\ i # t /\ Launched(i)
      BY <2>1, Facts DEF HandInv, Handed
    <3>2. QED  BY <3>1, <2>1, <2>3 DEF Launched, Idle, Ended
  <2>5. Handed'
    <3>1. \A i \in 1..t : Launched(i)'
      <4>1. PICK k \in Nat : k = t
        BY Facts
      <4>2. Launched(k)'
        BY <4>1, <2>1, <2>3 DEF Launched, Idle
      <4>3. \A i \in 1..k : i = k \/ i \in 1..(t - 1)
        BY <4>1
      <4>4. QED  BY <4>1, <4>2, <4>3, <2>4
    <3>2. created' \subseteq 1..t
      BY <2>1, Facts DEF HandInv, Handed
    <3>3. Idle(0)' /\ \A i \in Threads : i > t => Idle(i)'
      BY <2>1, <2>3, Facts DEF HandInv, Handed, Idle, Threads
    <3>4. QED  BY <2>1, <3>1, <3>2, <3>3, Facts DEF Handed, AfterJoin, Threads
  <2>6. QED  BY <2>2, <2>5 DEF HandInv
<1>4. CASE CallWorker
  <2>1. /\ pc = "create" /\ t < threads /\ pc' = "inline"
        /\ phase' = [phase EXCEPT ![t] = "begin"]
        /\ UNCHANGED <<threads, t, created, exit>>
    BY <1>4 DEF CallWorker, shareVars
  <2>2. Range1'
    BY <2>1, Facts DEF HandInv, Range1, BeforeJoin
  <2>3. /\ \A i \in Threads : i # t => phase'[i] = phase[i]
        /\ phase'[t] = "begin"
    BY <2>1, Facts DEF HandInv, Range1
  <2>4. \A i \in 1..(t - 1) : Launched(i)'
    BY <2>1, <2>3, Facts DEF HandInv, Handed, Launched, Idle, Ended
  <2>5. Idle(0)' /\ (\A i \in Threads : i > t => Idle(i)') /\ ~ Idle(t)'
    BY <2>1, <2>3, Facts DEF HandInv, Handed, Idle
  <2>6. created' \subseteq 1..(t - 1)
    BY <2>1 DEF HandInv, Handed
  <2>7. Handed'
    BY <2>1, <2>4, <2>5, <2>6, Facts DEF Handed, AfterJoin, Threads
  <2>8. QED  BY <2>2, <2>7 DEF HandInv
<1>5. CASE WorkerReturns
  <2>1. /\ pc = "inline" /\ phase[t] = "ended" /\ pc' = "create" /\ t' = t + 1
        /\ UNCHANGED <<threads, created, phase, exit>>
    BY <1>5 DEF WorkerReturns, shareVars, workerVars
  <2>2. t < threads
    BY <2>1 DEF HandInv, Handed
  <2>3. Range1'
    BY <2>1, <2>2, Facts DEF HandInv, Range1, BeforeJoin
  <2>4. \A i \in 1..t : Launched(i)
    BY <2>1, Facts DEF HandInv, Handed, Launched, Idle, Ended
  <2>5. Handed'
    BY <2>1, <2>2, <2>4, Facts DEF HandInv, Handed, AfterJoin, Idle, Launched, Ended, Threads
  <2>6. QED  BY <2>3, <2>5 DEF HandInv
<1>6. CASE CallOwn
  <2>1. /\ pc = "create" /\ t = threads /\ pc' = "own"
        /\ phase' = [phase EXCEPT ![0] = "begin"]
        /\ UNCHANGED <<threads, t, created, exit>>
    BY <1>6 DEF CallOwn, shareVars
  <2>2. Range1'
    BY <2>1, Facts DEF HandInv, Range1, BeforeJoin
  <2>3. /\ \A i \in Threads : i # 0 => phase'[i] = phase[i]
        /\ phase'[0] = "begin"
    BY <2>1, Facts DEF HandInv, Range1
  <2>4. \A i \in 1..(threads - 1) : Launched(i)'
    BY <2>1, <2>3, Facts DEF HandInv, Handed, Launched, Idle, Ended
  <2>5. \A i \in Threads : i >= threads => Idle(i)'
    BY <2>1, <2>3, Facts DEF HandInv, Handed, Idle
  <2>6. QED  BY <2>1, <2>2, <2>3, <2>4, <2>5 DEF HandInv, Handed, AfterJoin, Idle
<1>7. CASE OwnReturns
  <2>1. /\ pc = "own" /\ phase[0] = "ended" /\ pc' = "join" /\ t' = 1
        /\ UNCHANGED <<threads, created, phase, exit>>
    BY <1>7 DEF OwnReturns, shareVars, workerVars
  <2>2. Range1'
    BY <2>1, Facts DEF HandInv, Range1, BeforeJoin
  <2>3. Handed'
    BY <2>1, Facts DEF HandInv, Handed, AfterJoin, Idle, Launched, Ended
  <2>4. QED  BY <2>2, <2>3 DEF HandInv
<1>8. CASE Join
  <2>1. /\ pc = "join" /\ t < threads /\ (t \in created => phase[t] = "ended") /\ t' = t + 1
        /\ UNCHANGED <<pc, threads, created, phase, exit>>
    BY <1>8 DEF Join, shareVars, workerVars
  <2>2. Ended(t)
    BY <2>1, Facts DEF HandInv, Handed, Launched, Ended
  <2>3. Range1'
    BY <2>1, Facts DEF HandInv, Range1
  <2>4. Handed'
    BY <2>1, <2>2, Facts DEF HandInv, Handed, AfterJoin, Idle, Launched, Ended
  <2>5. QED  BY <2>3, <2>4 DEF HandInv
<1>9. CASE Joined
  <2>1. /\ pc = "join" /\ t = threads /\ pc' = "buffer"
        /\ UNCHANGED <<threads, t, created, phase, exit>>
    BY <1>9 DEF Joined, shareVars, workerVars
  <2>2. \A i \in 0..(threads - 1) : Ended(i)
    BY <2>1, Facts DEF HandInv, Handed
  <2>3. Range1'
    BY <2>1, Facts DEF HandInv, Range1, AfterJoin
  <2>4. Handed'
    BY <2>1, <2>2, Facts DEF HandInv, Handed, Idle, Ended
  <2>5. QED  BY <2>3, <2>4 DEF HandInv
<1>10. CASE /\ pc \in AfterJoin /\ pc' \in AfterJoin
            /\ t' \in Nat /\ 1 <= t' /\ t' <= threads
            /\ UNCHANGED <<threads, created, phase, exit>>
  <2>1. Range1'
    BY <1>10 DEF HandInv, Range1, AfterJoin
  <2>2. Handed'
    BY <1>10 DEF HandInv, Handed, AfterJoin, Idle, Ended
  <2>3. QED  BY <2>1, <2>2 DEF HandInv
<1>11. CASE TailRow \/ TailDone \/ MergeNext \/ MergedOne \/ WriteSome \/ Interrupted
  <2>1. /\ pc \in AfterJoin /\ pc' \in AfterJoin
        /\ t' \in Nat /\ 1 <= t' /\ t' <= threads
        /\ UNCHANGED <<threads, created, phase, exit>>
    BY <1>11, Facts DEF TailRow, TailDone, MergeNext, MergedOne, WriteSome, Interrupted,
         shareVars, workerVars, AfterJoin
  <2>2. QED  BY <2>1, <1>10
<1>12. CASE (OpenOutput \/ Format) /\ pc' # "exit"
  <2>1. /\ pc \in AfterJoin /\ pc' \in AfterJoin
        /\ t' \in Nat /\ 1 <= t' /\ t' <= threads
        /\ UNCHANGED <<threads, created, phase, exit>>
    BY <1>12, Facts DEF OpenOutput, Format, Return, shareVars, workerVars, AfterJoin
  <2>2. QED  BY <2>1, <1>10
<1>13. CASE CannotStart \/ JoinFails \/ WriteFails \/ Close
  <2>1. pc' = "exit"
    BY <1>13 DEF CannotStart, JoinFails, WriteFails, Close, Return
  <2>2. QED  BY <2>1, <1>1
<1>14. QED
  BY <1>1, <1>2, <1>3, <1>4, <1>5, <1>6, <1>7, <1>8, <1>9, <1>11, <1>12, <1>13 DEF MainStep

LEMMA HandInvHolds == Spec => []HandInv
<1>1. ASSUME HandInv, [Next]_vars
      PROVE  HandInv'
  <2>1. CASE MainStep
    BY <1>1, <2>1, MainHandInv
  <2>2. CASE \E i \in Threads : WorkerStep(i)
    BY <1>1, <2>2, WorkerHandInv
  <2>3. CASE UNCHANGED vars
    <3>1. UNCHANGED <<pc, threads, t, created, phase, exit>>
      BY <2>3 DEF vars, shareVars, workerVars
    <3>2. QED  BY <1>1, <3>1 DEF HandInv, Range1, Handed, Idle, Launched, Ended
  <2>4. QED  BY <1>1, <2>1, <2>2, <2>3 DEF Next
<1>2. QED  BY InitHandInv, <1>1, PTL DEF Spec

(* From the tail buffer on main is alone with the contexts, whichever      *)
(* threads were created and whichever shares it had to run itself.         *)
THEOREM NoSharingTheorem == Spec => []NoSharing
<1>1. ASSUME HandInv
      PROVE  NoSharing
  <2>1. CASE pc \in AfterJoin
    <3>1. \A i \in Threads : Ended(i) \/ Idle(i)
      <4>1. \A i \in Threads : i \in 0..(threads - 1) \/ i >= threads
        BY <1>1, Facts DEF Threads
      <4>2. pc # "exit"
        BY <2>1 DEF AfterJoin
      <4>3. QED  BY <1>1, <2>1, <4>1, <4>2 DEF HandInv, Handed
    <3>2. \A i \in Threads : ~ Working(i)
      BY <3>1 DEF Working, Ended, Idle
    <3>3. \A i \in 0..(threads - 1) : phase[i] = "ended"
      BY <1>1, <2>1 DEF HandInv, Handed, Ended
    <3>4. QED  BY <3>2, <3>3 DEF NoSharing
  <2>2. CASE pc \notin AfterJoin
    BY <2>2 DEF NoSharing, AfterJoin
  <2>3. QED  BY <2>1, <2>2
<1>2. QED  BY <1>1, HandInvHolds, PTL

---------------------------------------------------------------------------
(* The ledger of one channel and month: what each kind of step does to it. *)
HeldOK(held, hs) == \A i \in hs : held[i] \in StatsSet
RowsOK(rows, all) == \A j \in all : RowOK(rows[j])

Counts(held, hs) == [i \in hs |-> held[i].countStamps]
Totals(held, hs) == [i \in hs |-> held[i].total]
Ones(rows, js)   == [j \in js |-> Word + rows[j].stamps]
Lens(rows, js)   == [j \in js |-> rows[j].len]

LEMMA HeldFacts ==
  ASSUME NEW held, NEW hs, HeldOK(held, hs)
  PROVE  /\ \A i \in hs : /\ Counts(held, hs)[i] = held[i].countStamps /\ held[i].countStamps \in Int
                          /\ Totals(held, hs)[i] = held[i].total /\ held[i].total \in Int
         /\ \A i \in hs : Counts(held, hs)[i] \in Int /\ Totals(held, hs)[i] \in Int
BY DEF HeldOK, StatsSet, Counts, Totals

LEMMA RowsFacts ==
  ASSUME NEW rows, NEW js, RowsOK(rows, js)
  PROVE  /\ \A j \in js : /\ Ones(rows, js)[j] = Word + rows[j].stamps /\ Word + rows[j].stamps \in Int
                          /\ Lens(rows, js)[j] = rows[j].len /\ rows[j].len \in Int
         /\ \A j \in js : Ones(rows, js)[j] \in Int /\ Lens(rows, js)[j] \in Int
BY SizesAssumption DEF RowsOK, RowOK, Ones, Lens

LEMMA LedgerForm ==
  ASSUME NEW held, NEW hs, NEW rows, NEW rest, NEW all
  PROVE  /\ CountsAdd(held, hs, rows, rest, all) <=>
              SumFunctionOnSet(Counts(held, hs), hs) + SumFunctionOnSet(Ones(rows, rest), rest)
                = SumFunctionOnSet(Ones(rows, all), all)
         /\ TotalsAdd(held, hs, rows, rest, all) <=>
              (SumFunctionOnSet(Totals(held, hs), hs) + SumFunctionOnSet(Lens(rows, rest), rest)) % Word
                = SumFunctionOnSet(Lens(rows, all), all) % Word
<1>1. /\ DOMAIN Counts(held, hs) = hs /\ DOMAIN Totals(held, hs) = hs
      /\ \A js : DOMAIN Ones(rows, js) = js /\ DOMAIN Lens(rows, js) = js
  BY DEF Counts, Totals, Ones, Lens
<1>2. /\ SumFunction(Counts(held, hs)) = SumFunctionOnSet(Counts(held, hs), hs)
      /\ SumFunction(Totals(held, hs)) = SumFunctionOnSet(Totals(held, hs), hs)
      /\ \A js : SumFunction(Ones(rows, js)) = SumFunctionOnSet(Ones(rows, js), js)
      /\ \A js : SumFunction(Lens(rows, js)) = SumFunctionOnSet(Lens(rows, js), js)
  BY <1>1, Zenon DEF SumFunction
<1>3. CountsAdd(held, hs, rows, rest, all) <=>
        SumFunction(Counts(held, hs)) + SumFunction(Ones(rows, rest)) = SumFunction(Ones(rows, all))
  BY Zenon DEF CountsAdd, Counts, Ones
<1>4. TotalsAdd(held, hs, rows, rest, all) <=>
        (SumFunction(Totals(held, hs)) + SumFunction(Lens(rows, rest))) % Word
          = SumFunction(Lens(rows, all)) % Word
  BY Zenon DEF TotalsAdd, Totals, Lens
<1>5. CountsAdd(held, hs, rows, rest, all) <=>
        SumFunctionOnSet(Counts(held, hs), hs) + SumFunctionOnSet(Ones(rows, rest), rest)
          = SumFunctionOnSet(Ones(rows, all), all)
  BY <1>2, <1>3, Zenon
<1>6. TotalsAdd(held, hs, rows, rest, all) <=>
        (SumFunctionOnSet(Totals(held, hs), hs) + SumFunctionOnSet(Lens(rows, rest), rest)) % Word
          = SumFunctionOnSet(Lens(rows, all), all) % Word
  BY <1>2, <1>4, Zenon
<1> QED
  BY <1>5, <1>6

(* The sums are integers, so that they may be moved about.                 *)
LEMMA LedgerType ==
  ASSUME NEW held, NEW hs, NEW rows, NEW rest, IsFiniteSet(hs), IsFiniteSet(rest),
         HeldOK(held, hs), RowsOK(rows, rest)
  PROVE  /\ SumFunctionOnSet(Counts(held, hs), hs) \in Int
         /\ SumFunctionOnSet(Totals(held, hs), hs) \in Int
         /\ SumFunctionOnSet(Ones(rows, rest), rest) \in Int
         /\ SumFunctionOnSet(Lens(rows, rest), rest) \in Int
<1>1. /\ \A i \in hs : Counts(held, hs)[i] \in Int
      /\ \A i \in hs : Totals(held, hs)[i] \in Int
  BY HeldFacts
<1>2. /\ \A j \in rest : Ones(rows, rest)[j] \in Int
      /\ \A j \in rest : Lens(rows, rest)[j] \in Int
  BY RowsFacts
<1> QED
  BY <1>1, <1>2, SumType

(* Before anything is counted.                                             *)
LEMMA BalancedAll ==
  ASSUME NEW held, NEW rows, NEW all, IsFiniteSet(all), RowsOK(rows, all)
  PROVE  Balanced(held, {}, rows, all, all)
<1>1. IsFiniteSet({}) /\ HeldOK(held, {})
  BY FS_EmptySet DEF HeldOK
<1>2. /\ SumFunctionOnSet(Counts(held, {}), {}) = 0
      /\ SumFunctionOnSet(Totals(held, {}), {}) = 0
  BY SumEmpty
<1>3. /\ SumFunctionOnSet(Ones(rows, all), all) \in Int
      /\ SumFunctionOnSet(Lens(rows, all), all) \in Int
  BY <1>1, LedgerType
<1>4. CountsAdd(held, {}, rows, all, all)
  <2>1. 0 + SumFunctionOnSet(Ones(rows, all), all) = SumFunctionOnSet(Ones(rows, all), all)
    BY <1>3
  <2> QED
    BY <1>2, <2>1, LedgerForm
<1>5. TotalsAdd(held, {}, rows, all, all)
  <2>1. 0 + SumFunctionOnSet(Lens(rows, all), all) = SumFunctionOnSet(Lens(rows, all), all)
    BY <1>3
  <2> QED
    BY <1>2, <2>1, LedgerForm
<1>6. ExtremesKept(held, {}, rows, all, all)
  BY DEF ExtremesKept
<1> QED
  BY <1>4, <1>5, <1>6 DEF Balanced

(* A ledger carried over: the sums differ by nothing, by whole words.      *)
LEMMA Carried ==
  ASSUME NEW held, NEW hs, NEW after, NEW hs2, NEW rows, NEW rest, NEW rest2, NEW all,
         IsFiniteSet(hs), IsFiniteSet(rest), HeldOK(held, hs), RowsOK(rows, rest),
         Balanced(held, hs, rows, rest, all),
         SumFunctionOnSet(Counts(after, hs2), hs2) + SumFunctionOnSet(Ones(rows, rest2), rest2)
           = SumFunctionOnSet(Counts(held, hs), hs) + SumFunctionOnSet(Ones(rows, rest), rest),
         NEW q \in Int,
         SumFunctionOnSet(Totals(after, hs2), hs2) + SumFunctionOnSet(Lens(rows, rest2), rest2)
           = SumFunctionOnSet(Totals(held, hs), hs) + SumFunctionOnSet(Lens(rows, rest), rest) + q * Word,
         ExtremesKept(after, hs2, rows, rest2, all)
  PROVE  Balanced(after, hs2, rows, rest2, all)
<1>1. CountsAdd(after, hs2, rows, rest2, all)
  BY LedgerForm DEF Balanced
<1>2. TotalsAdd(after, hs2, rows, rest2, all)
  <2>1. PICK x \in Int :
          x = SumFunctionOnSet(Totals(held, hs), hs) + SumFunctionOnSet(Lens(rows, rest), rest)
    BY LedgerType
  <2>2. x % Word = SumFunctionOnSet(Lens(rows, all), all) % Word
    <3>1. TotalsAdd(held, hs, rows, rest, all)
      BY DEF Balanced
    <3> QED
      BY <2>1, <3>1, LedgerForm
  <2>3. (x + q * Word) % Word = x % Word
    BY WordShift
  <2>4. (SumFunctionOnSet(Totals(after, hs2), hs2) + SumFunctionOnSet(Lens(rows, rest2), rest2)) % Word
          = SumFunctionOnSet(Lens(rows, all), all) % Word
    BY <2>1, <2>2, <2>3, Zenon
  <2> QED
    BY <2>4, LedgerForm, Zenon
<1> QED
  BY <1>1, <1>2 DEF Balanced

(* A row is counted in one of the contexts.                                *)
LEMMA BalancedMove ==
  ASSUME NEW held, NEW after, NEW hs, NEW rows, NEW rest, NEW all,
         IsFiniteSet(hs), IsFiniteSet(rest), rest \subseteq all,
         HeldOK(held, hs), RowsOK(rows, all), Balanced(held, hs, rows, rest, all),
         NEW i \in hs, NEW j \in rest, after[i] = UpdateStats(held[i], rows[j]),
         \A k \in hs : k # i => after[k] = held[k]
  PROVE  Balanced(after, hs, rows, rest \ {j}, all)
<1>1. RowsOK(rows, rest) /\ RowOK(rows[j]) /\ held[i] \in StatsSet
  BY DEF RowsOK, HeldOK
<1>2. PICK q \in Int : after[i].total = held[i].total + rows[j].len + q * Word
  BY <1>1, UpdateStatsFacts
<1>3. /\ after[i].countStamps = held[i].countStamps + (Word + rows[j].stamps)
      /\ after[i].min <= held[i].min /\ after[i].min <= rows[j].len
      /\ after[i].max >= held[i].max /\ after[i].max >= rows[j].len
      /\ after[i] \in StatsSet
  BY <1>1, UpdateStatsFacts
<1>4. /\ \A k \in hs : Counts(held, hs)[k] \in Int /\ Totals(held, hs)[k] \in Int
      /\ \A k \in rest : Ones(rows, rest)[k] \in Int /\ Lens(rows, rest)[k] \in Int
  BY <1>1, HeldFacts, RowsFacts
<1>5. /\ \A k \in hs : k # i => /\ Counts(after, hs)[k] = Counts(held, hs)[k]
                               /\ Totals(after, hs)[k] = Totals(held, hs)[k]
      /\ \A k \in rest : k # j => /\ Ones(rows, rest \ {j})[k] = Ones(rows, rest)[k]
                                  /\ Lens(rows, rest \ {j})[k] = Lens(rows, rest)[k]
  BY DEF Counts, Totals, Ones, Lens
<1>6. q * Word \in Int
  BY SizesAssumption
<1>7. /\ Counts(after, hs)[i] = Counts(held, hs)[i] + Ones(rows, rest)[j] + 0
      /\ Totals(after, hs)[i] = Totals(held, hs)[i] + Lens(rows, rest)[j] + q * Word
  <2>1. /\ Counts(after, hs)[i] = after[i].countStamps /\ Totals(after, hs)[i] = after[i].total
        /\ Counts(held, hs)[i] = held[i].countStamps /\ Totals(held, hs)[i] = held[i].total
        /\ Ones(rows, rest)[j] = Word + rows[j].stamps /\ Lens(rows, rest)[j] = rows[j].len
    BY DEF Counts, Totals, Ones, Lens
  <2>2. /\ held[i].countStamps \in Int /\ Word + rows[j].stamps \in Int
        /\ held[i].total \in Int /\ rows[j].len \in Int
    BY <1>4, <2>1
  <2> QED
    BY <1>2, <1>3, <2>1, <2>2
<1>8. SumFunctionOnSet(Counts(after, hs), hs) + SumFunctionOnSet(Ones(rows, rest \ {j}), rest \ {j})
        = SumFunctionOnSet(Counts(held, hs), hs) + SumFunctionOnSet(Ones(rows, rest), rest) + 0
  <2> DEFINE f == Counts(held, hs)  g == Counts(after, hs)
             u == Ones(rows, rest)  v == Ones(rows, rest \ {j})
  <2>1. /\ \A x \in hs : f[x] \in Int
        /\ \A x \in rest : u[x] \in Int
        /\ \A x \in hs : x # i => g[x] = f[x]
        /\ g[i] = f[i] + u[j] + 0
        /\ \A x \in rest : x # j => v[x] = u[x]
    BY <1>4, <1>5, <1>7, Zenon
  <2> HIDE DEF f, g, u, v
  <2>2. 0 \in Int
    OBVIOUS
  <2>3. SumFunctionOnSet(g, hs) + SumFunctionOnSet(v, rest \ {j})
          = SumFunctionOnSet(f, hs) + SumFunctionOnSet(u, rest) + 0
    BY <2>1, <2>2, SumMove
  <2> QED
    BY <2>3, Zenon DEF f, g, u, v
<1>9. SumFunctionOnSet(Totals(after, hs), hs) + SumFunctionOnSet(Lens(rows, rest \ {j}), rest \ {j})
        = SumFunctionOnSet(Totals(held, hs), hs) + SumFunctionOnSet(Lens(rows, rest), rest) + q * Word
  <2> DEFINE f == Totals(held, hs)  g == Totals(after, hs)
             u == Lens(rows, rest)  v == Lens(rows, rest \ {j})
  <2>1. /\ \A x \in hs : f[x] \in Int
        /\ \A x \in rest : u[x] \in Int
        /\ \A x \in hs : x # i => g[x] = f[x]
        /\ g[i] = f[i] + u[j] + q * Word
        /\ \A x \in rest : x # j => v[x] = u[x]
    BY <1>4, <1>5, <1>7, Zenon
  <2> HIDE DEF f, g, u, v
  <2>2. PICK d \in Int : d = q * Word
    BY <1>6
  <2>3. SumFunctionOnSet(g, hs) + SumFunctionOnSet(v, rest \ {j})
          = SumFunctionOnSet(f, hs) + SumFunctionOnSet(u, rest) + d
    BY <2>1, <2>2, SumMove
  <2> QED
    BY <2>2, <2>3, Zenon DEF f, g, u, v
<1>10. SumFunctionOnSet(Counts(after, hs), hs) + SumFunctionOnSet(Ones(rows, rest \ {j}), rest \ {j})
         = SumFunctionOnSet(Counts(held, hs), hs) + SumFunctionOnSet(Ones(rows, rest), rest)
  BY <1>1, <1>8, LedgerType
<1>11. ExtremesKept(after, hs, rows, rest \ {j}, all)
  <2> SUFFICES ASSUME NEW k \in all, k \notin rest \ {j}
               PROVE  /\ \E x \in hs : after[x].min <= rows[k].len
                      /\ \E x \in hs : after[x].max >= rows[k].len
    BY DEF ExtremesKept
  <2>1. CASE k = j
    BY <1>3, <2>1
  <2>2. CASE k # j
    <3>1. k \notin rest
      BY <2>2
    <3>2. PICK x \in hs : held[x].min <= rows[k].len
      BY <3>1 DEF Balanced, ExtremesKept
    <3>3. PICK y \in hs : held[y].max >= rows[k].len
      BY <3>1 DEF Balanced, ExtremesKept
    <3>4. /\ rows[k].len \in Int
          /\ \A z \in hs : held[z].min \in Int /\ held[z].max \in Int
          /\ after[i].min \in Int /\ after[i].max \in Int
      BY <1>3 DEF RowsOK, RowOK, HeldOK, StatsSet
    <3>5. after[x].min <= rows[k].len
      <4>1. CASE x = i
        BY <1>3, <3>2, <3>4, <4>1
      <4>2. CASE x # i
        BY <3>2, <4>2
      <4> QED
        BY <4>1, <4>2
    <3>6. after[y].max >= rows[k].len
      <4>1. CASE y = i
        BY <1>3, <3>3, <3>4, <4>1
      <4>2. CASE y # i
        BY <3>3, <4>2
      <4> QED
        BY <4>1, <4>2
    <3> QED
      BY <3>5, <3>6
  <2> QED
    BY <2>1, <2>2
<1> QED
  BY <1>1, <1>9, <1>10, <1>11, Carried

(* One context is added to another and no longer counts itself.            *)
LEMMA BalancedMerge ==
  ASSUME NEW held, NEW after, NEW hs, NEW rows, NEW rest, NEW all,
         IsFiniteSet(hs), IsFiniteSet(rest), rest \subseteq all,
         HeldOK(held, hs), RowsOK(rows, all), Balanced(held, hs, rows, rest, all),
         NEW i \in hs, NEW k \in hs, i # k, after[i] = MergeStats(held[i], held[k]),
         \A x \in hs : x # i /\ x # k => after[x] = held[x]
  PROVE  Balanced(after, hs \ {k}, rows, rest, all)
<1>1. RowsOK(rows, rest) /\ held[i] \in StatsSet /\ held[k] \in StatsSet
  BY DEF RowsOK, HeldOK
<1>2. PICK q \in Int : after[i].total = held[i].total + held[k].total + q * Word
  BY <1>1, MergeStatsFacts
<1>3. /\ after[i].countStamps = held[i].countStamps + held[k].countStamps
      /\ after[i].min <= held[i].min /\ after[i].min <= held[k].min
      /\ after[i].max >= held[i].max /\ after[i].max >= held[k].max
      /\ after[i] \in StatsSet
  BY <1>1, MergeStatsFacts
<1>4. \A x \in hs : Counts(held, hs)[x] \in Int /\ Totals(held, hs)[x] \in Int
  BY HeldFacts
<1>5. \A x \in hs \ {k} : /\ Counts(after, hs \ {k})[x] = after[x].countStamps
                          /\ Totals(after, hs \ {k})[x] = after[x].total
  BY DEF Counts, Totals
<1>6. \A x \in hs : /\ Counts(held, hs)[x] = held[x].countStamps
                    /\ Totals(held, hs)[x] = held[x].total
  BY DEF Counts, Totals
<1>7. PICK d \in Int : d = q * Word
  BY SizesAssumption
<1>8. SumFunctionOnSet(Counts(after, hs \ {k}), hs \ {k}) = SumFunctionOnSet(Counts(held, hs), hs) + 0
  <2> DEFINE f == Counts(held, hs)  g == Counts(after, hs \ {k})
  <2>1. f[i] \in Int /\ f[k] \in Int /\ g[i] = f[i] + f[k]
    BY <1>3, <1>4, <1>5, <1>6
  <2>2. \A x \in hs : x # i /\ x # k => g[x] = f[x]
    BY <1>5, <1>6
  <2>3. \A x \in hs : f[x] \in Int
    BY <1>4
  <2> HIDE DEF f, g
  <2>4. g[i] = f[i] + f[k] + 0 /\ 0 \in Int
    BY <2>1
  <2>5. SumFunctionOnSet(g, hs \ {k}) = SumFunctionOnSet(f, hs) + 0
    BY <2>2, <2>3, <2>4, SumMerge
  <2> QED
    BY <2>5, Zenon DEF f, g
<1>9. SumFunctionOnSet(Totals(after, hs \ {k}), hs \ {k}) = SumFunctionOnSet(Totals(held, hs), hs) + d
  <2> DEFINE f == Totals(held, hs)  g == Totals(after, hs \ {k})
  <2>1. f[i] \in Int /\ f[k] \in Int /\ g[i] = f[i] + f[k] + d
    BY <1>2, <1>4, <1>5, <1>6, <1>7
  <2>2. \A x \in hs : x # i /\ x # k => g[x] = f[x]
    BY <1>5, <1>6
  <2>3. \A x \in hs : f[x] \in Int
    BY <1>4
  <2> HIDE DEF f, g
  <2>5. SumFunctionOnSet(g, hs \ {k}) = SumFunctionOnSet(f, hs) + d
    BY <2>1, <2>2, <2>3, SumMerge
  <2> QED
    BY <2>5, Zenon DEF f, g
<1>10. /\ SumFunctionOnSet(Counts(held, hs), hs) \in Int
       /\ SumFunctionOnSet(Totals(held, hs), hs) \in Int
       /\ SumFunctionOnSet(Ones(rows, rest), rest) \in Int
       /\ SumFunctionOnSet(Lens(rows, rest), rest) \in Int
  BY <1>1, LedgerType
<1>11. SumFunctionOnSet(Counts(after, hs \ {k}), hs \ {k}) + SumFunctionOnSet(Ones(rows, rest), rest)
         = SumFunctionOnSet(Counts(held, hs), hs) + SumFunctionOnSet(Ones(rows, rest), rest)
  BY <1>8, <1>10
<1>12. SumFunctionOnSet(Totals(after, hs \ {k}), hs \ {k}) + SumFunctionOnSet(Lens(rows, rest), rest)
         = SumFunctionOnSet(Totals(held, hs), hs) + SumFunctionOnSet(Lens(rows, rest), rest) + q * Word
  BY <1>7, <1>9, <1>10
<1>13. ExtremesKept(after, hs \ {k}, rows, rest, all)
  <2> SUFFICES ASSUME NEW j \in all, j \notin rest
               PROVE  /\ \E x \in hs \ {k} : after[x].min <= rows[j].len
                      /\ \E x \in hs \ {k} : after[x].max >= rows[j].len
    BY DEF ExtremesKept
  <2>1. PICK x \in hs : held[x].min <= rows[j].len
    BY DEF Balanced, ExtremesKept
  <2>2. PICK y \in hs : held[y].max >= rows[j].len
    BY DEF Balanced, ExtremesKept
  <2>3. /\ rows[j].len \in Int
        /\ \A z \in hs : held[z].min \in Int /\ held[z].max \in Int
        /\ after[i].min \in Int /\ after[i].max \in Int /\ i \in hs \ {k}
    BY <1>3 DEF RowsOK, RowOK, HeldOK, StatsSet
  <2>4. \E z \in hs \ {k} : after[z].min <= rows[j].len
    <3>1. CASE x = i \/ x = k
      <4>1. after[i].min <= rows[j].len
        BY <1>3, <2>1, <2>3, <3>1
      <4> QED
        BY <2>3, <4>1
    <3>2. CASE x # i /\ x # k
      BY <2>1, <3>2
    <3> QED
      BY <3>1, <3>2
  <2>5. \E z \in hs \ {k} : after[z].max >= rows[j].len
    <3>1. CASE y = i \/ y = k
      <4>1. after[i].max >= rows[j].len
        BY <1>3, <2>2, <2>3, <3>1
      <4> QED
        BY <2>3, <4>1
    <3>2. CASE y # i /\ y # k
      BY <2>2, <3>2
    <3> QED
      BY <3>1, <3>2
  <2> QED
    BY <2>4, <2>5
<1> QED
  BY <1>1, <1>11, <1>12, <1>13, Carried

(* A context is initialised and starts to count.                           *)
LEMMA BalancedAdd ==
  ASSUME NEW held, NEW after, NEW hs, NEW rows, NEW rest, NEW all,
         IsFiniteSet(hs), IsFiniteSet(rest), rest \subseteq all,
         HeldOK(held, hs), RowsOK(rows, all), Balanced(held, hs, rows, rest, all),
         NEW i, i \notin hs, after[i] = NewStats, \A x \in hs : after[x] = held[x]
  PROVE  Balanced(after, hs \cup {i}, rows, rest, all)
<1>1. RowsOK(rows, rest)
  BY DEF RowsOK
<1> DEFINE R == hs \cup {i}
<1>2. \A x \in hs : held[x].countStamps \in Int /\ held[x].total \in Int
  BY HeldFacts
<1>3. after[i].countStamps = 0 /\ after[i].total = 0
  BY DEF NewStats
<1>4. /\ \A x \in R : Counts(after, R)[x] = after[x].countStamps
      /\ \A x \in R : Totals(after, R)[x] = after[x].total
      /\ \A x \in hs : Counts(held, hs)[x] = held[x].countStamps
      /\ \A x \in hs : Totals(held, hs)[x] = held[x].total
  BY DEF Counts, Totals
<1>5. SumFunctionOnSet(Counts(after, R), R) = SumFunctionOnSet(Counts(held, hs), hs)
  <2> DEFINE f == Counts(held, hs)  g == Counts(after, R)
  <2>1. /\ \A x \in R : g[x] \in Int
        /\ g[i] = 0
        /\ \A x \in hs : f[x] \in Int /\ f[x] = g[x]
    BY <1>2, <1>3, <1>4
  <2> HIDE DEF f, g
  <2>2. SumFunctionOnSet(g, R) = g[i] + SumFunctionOnSet(g, hs)
    BY <2>1, SumPut
  <2>3. SumFunctionOnSet(f, hs) = SumFunctionOnSet(g, hs)
    BY <2>1, SumEqual
  <2>4. SumFunctionOnSet(f, hs) \in Int
    BY <2>1, SumType
  <2>5. SumFunctionOnSet(g, R) = SumFunctionOnSet(f, hs)
    BY <2>1, <2>2, <2>3, <2>4
  <2> QED
    BY <2>5, Zenon DEF f, g
<1>6. SumFunctionOnSet(Totals(after, R), R) = SumFunctionOnSet(Totals(held, hs), hs)
  <2> DEFINE f == Totals(held, hs)  g == Totals(after, R)
  <2>1. /\ \A x \in R : g[x] \in Int
        /\ g[i] = 0
        /\ \A x \in hs : f[x] \in Int /\ f[x] = g[x]
    BY <1>2, <1>3, <1>4
  <2> HIDE DEF f, g
  <2>2. SumFunctionOnSet(g, R) = g[i] + SumFunctionOnSet(g, hs)
    BY <2>1, SumPut
  <2>3. SumFunctionOnSet(f, hs) = SumFunctionOnSet(g, hs)
    BY <2>1, SumEqual
  <2>4. SumFunctionOnSet(f, hs) \in Int
    BY <2>1, SumType
  <2>5. SumFunctionOnSet(g, R) = SumFunctionOnSet(f, hs)
    BY <2>1, <2>2, <2>3, <2>4
  <2> QED
    BY <2>5, Zenon DEF f, g
<1>7. ExtremesKept(after, R, rows, rest, all)
  BY Zenon DEF Balanced, ExtremesKept
<1> HIDE DEF R
<1>8. /\ SumFunctionOnSet(Totals(held, hs), hs) \in Int
      /\ SumFunctionOnSet(Lens(rows, rest), rest) \in Int
  BY <1>1, LedgerType
<1>9. SumFunctionOnSet(Counts(after, R), R) + SumFunctionOnSet(Ones(rows, rest), rest)
         = SumFunctionOnSet(Counts(held, hs), hs) + SumFunctionOnSet(Ones(rows, rest), rest)
  BY <1>5
<1>10. SumFunctionOnSet(Totals(after, R), R) + SumFunctionOnSet(Lens(rows, rest), rest)
         = SumFunctionOnSet(Totals(held, hs), hs) + SumFunctionOnSet(Lens(rows, rest), rest) + 0 * Word
  BY <1>6, <1>8, SizesAssumption
<1>11. 0 \in Int
  OBVIOUS
<1>12. Balanced(after, R, rows, rest, all)
  BY <1>1, <1>7, <1>9, <1>10, <1>11, Carried
<1> QED
  BY <1>12 DEF R

(* Nothing that counts changes.                                            *)
LEMMA BalancedSame ==
  ASSUME NEW held, NEW after, NEW hs, NEW rows, NEW rest, NEW all,
         Balanced(held, hs, rows, rest, all), \A x \in hs : after[x] = held[x]
  PROVE  Balanced(after, hs, rows, rest, all)
<1>1. /\ [x \in hs |-> after[x].countStamps] = [x \in hs |-> held[x].countStamps]
      /\ [x \in hs |-> after[x].total] = [x \in hs |-> held[x].total]
  OBVIOUS
<1>2. CountsAdd(after, hs, rows, rest, all)
  BY <1>1, Zenon DEF CountsAdd, Balanced
<1>3. TotalsAdd(after, hs, rows, rest, all)
  BY <1>1, Zenon DEF TotalsAdd, Balanced
<1>4. ExtremesKept(after, hs, rows, rest, all)
  BY Zenon DEF ExtremesKept, Balanced
<1> QED
  BY <1>2, <1>3, <1>4 DEF Balanced

---------------------------------------------------------------------------
(* The invariant the conservation of rows rests on, besides HandInv: the   *)
(* shares follow one another, a worker is not before its share, and the    *)
(* contexts in use are well formed.                                        *)
Begun(i) == phase[i] \in {"sample", "rest", "ended"}

TallyOK(c) == TallyOf(c) \in [Channels -> [Months -> StatsSet]]

InRange ==
  /\ hash \in [Channels -> Slots] /\ input \in Inputs
  /\ first \in [Threads -> 1..(Len(input) + 1)]
  /\ last \in [Threads -> 1..(Len(input) + 1)]
  /\ pos \in [Threads -> 1..(Len(input) + 1)]
  /\ bp \in 1..(Len(input) + 1) /\ sc \in 0..MaxChannels
  /\ created \subseteq 1..(MaxThreads - 1)

Shares ==
  pc \notin {"start", "exit"} =>
    /\ \A i, j \in Active : i < j => last[i] <= first[j]
    /\ \A i \in Active : last[i] <= last[threads - 1]

Positions == \A i \in Threads : Begun(i) => first[i] <= pos[i]

Contexts ==
  /\ DOMAIN ctx = Threads
  /\ \A i \in Threads : ctx[i].count \in 0..MaxChannels
  /\ \A i \in Threads : Begun(i) => CtxOK(ctx[i], hash) /\ TallyOK(ctx[i])

Writing ==
  /\ Len(lines) \in Nat /\ w \in 0..Len(lines)
  /\ pc \notin {"write", "exit"} => w = 0

MainInv == HandInv /\ InRange /\ Shares /\ Positions /\ Contexts /\ Writing

LEMMA InitMainInv == Init => MainInv
<1> SUFFICES ASSUME Init PROVE MainInv
  OBVIOUS
<1>1. Len(input) \in Nat /\ input \in Inputs
  BY MainAssumption DEF Init
<1>2. InRange
  BY <1>1, MainAssumption, SizesAssumption DEF Init, InRange
<1>3. Shares
  BY DEF Init, Shares
<1>4. \A i \in Threads : ~ Begun(i)
  BY DEF Init, Begun
<1>5. Positions
  BY <1>4 DEF Positions
<1>6. Contexts
  <2>1. DOMAIN ctx = Threads /\ \A i \in Threads : ctx[i].count = 0
    BY DEF Init, ZeroCtx
  <2>2. 0 \in 0..MaxChannels
    BY SizesAssumption
  <2> QED
    BY <1>4, <2>1, <2>2 DEF Contexts
<1>7. Writing
  BY DEF Init, Writing
<1> QED
  BY <1>2, <1>3, <1>5, <1>6, <1>7, InitHandInv DEF MainInv

LEMMA NextHandInv == HandInv /\ [Next]_vars => HandInv'
<1> SUFFICES ASSUME HandInv, [Next]_vars PROVE HandInv'
  OBVIOUS
<1>1. CASE MainStep
  BY <1>1, MainHandInv
<1>2. CASE \E i \in Threads : WorkerStep(i)
  BY <1>2, WorkerHandInv
<1>3. CASE UNCHANGED vars
  <2>1. UNCHANGED <<pc, threads, t, created, phase, exit>>
    BY <1>3 DEF vars, shareVars, workerVars
  <2> QED
    BY <2>1 DEF HandInv, Range1, Handed, Idle, Launched, Ended
<1> QED
  BY <1>1, <1>2, <1>3 DEF Next

(* What MainInv says of lengths and ranges, as facts of arithmetic.        *)
LEMMA RangeFacts ==
  ASSUME MainInv
  PROVE  /\ Len(input) \in Nat /\ input \in Seq(Rows)
         /\ \A i \in Threads : /\ first[i] \in 1..(Len(input) + 1)
                               /\ last[i] \in 1..(Len(input) + 1)
                               /\ pos[i] \in 1..(Len(input) + 1)
         /\ \A i \in Threads : first[i] \in Int /\ last[i] \in Int /\ pos[i] \in Int
         /\ bp \in Int /\ 1 <= bp /\ bp <= Len(input) + 1
         /\ threads \in Nat /\ 1 <= threads /\ threads <= MaxThreads /\ MaxThreads \in Nat
         /\ t \in Nat /\ 1 <= t /\ t <= threads
         /\ \A i \in Active : i \in Threads /\ i \in Nat
         /\ threads - 1 \in Active /\ 0 \in Active
         /\ \A j \in 1..Len(input) : input[j] \in Rows
<1>1. HandInv /\ InRange
  BY DEF MainInv
<1>2. /\ threads \in Nat /\ 1 <= threads /\ threads <= MaxThreads /\ MaxThreads \in Nat
      /\ t \in Nat /\ 1 <= t /\ t <= threads
  BY <1>1, Facts
<1>3. input \in Seq(Rows) /\ Len(input) \in Nat
  BY <1>1, MainAssumption DEF InRange
<1>4. /\ \A i \in Active : i \in Threads /\ i \in Nat
      /\ threads - 1 \in Active /\ 0 \in Active
  BY <1>2 DEF Active, Threads
<1>5. /\ \A i \in Threads : /\ first[i] \in 1..(Len(input) + 1)
                            /\ last[i] \in 1..(Len(input) + 1)
                            /\ pos[i] \in 1..(Len(input) + 1)
      /\ bp \in 1..(Len(input) + 1)
  BY <1>1 DEF InRange
<1>6. \A j \in 1..Len(input) : input[j] \in Rows
  BY <1>3
<1> QED
  BY <1>2, <1>3, <1>4, <1>5, <1>6

(* A worker takes its steps between its creation and its join.             *)
LEMMA WorkerFacts ==
  ASSUME MainInv, NEW i \in Threads, WorkerStep(i)
  PROVE  /\ pc \in BeforeJoin /\ BeforeTail /\ i \in Active
         /\ phase[i] \in {"begin", "sample", "rest"}
         /\ UNCHANGED <<fixedVars, pc, shareVars, created, t, sc, bp, writeVars, exit>>
<1>1. /\ phase[i] \in {"begin", "sample", "rest"} /\ exit = "none"
      /\ UNCHANGED <<fixedVars, pc, shareVars, created, t, sc, bp, writeVars, exit>>
  BY DEF WorkerStep, BeginWorker, CountRow, Renumber, EndWorker, Alive
<1>2. HandInv
  BY DEF MainInv
<1>3. ~ Idle(i) /\ ~ Ended(i)
  BY <1>1 DEF Idle, Ended
<1>4. pc # "exit" /\ pc # "start"
  BY <1>1, <1>2, <1>3 DEF HandInv, Range1, Handed
<1>5. i \in Active
  BY <1>2, <1>3, <1>4, Facts DEF HandInv, Handed, Active, Threads
<1>6. pc \notin AfterJoin
  BY <1>2, <1>3, <1>5 DEF HandInv, Handed, Active
<1>7. pc \in BeforeJoin
  BY <1>2, <1>4, <1>6 DEF HandInv, Range1
<1> QED
  BY <1>1, <1>5, <1>7 DEF BeforeJoin, BeforeTail

(* Steps that neither move anyone's place nor touch a context.             *)
LEMMA QuietStep ==
  ASSUME MainInv, UNCHANGED <<hash, input, threads, first, last, pos, bp, sc, ctx, lines, w>>,
         created' \subseteq 1..(MaxThreads - 1),
         \A i \in Threads : Begun(i)' => Begun(i),
         pc' \notin {"start", "exit"} => pc \notin {"start", "exit"},
         pc' \notin {"write", "exit"} => pc \notin {"write", "exit"}
  PROVE  InRange' /\ Shares' /\ Positions' /\ Contexts' /\ Writing'
<1>1. InRange'
  BY DEF MainInv, InRange
<1>2. Shares'
  BY DEF MainInv, Shares, Active
<1>3. Positions'
  BY DEF MainInv, Positions
<1>4. Contexts'
  BY DEF MainInv, Contexts, TallyOK
<1>5. Writing'
  BY DEF MainInv, Writing
<1> QED
  BY <1>1, <1>2, <1>3, <1>4, <1>5

(* Steps that write one context.                                           *)
LEMMA ContextWritten ==
  ASSUME MainInv, NEW i \in Threads, NEW c, ctx' = [ctx EXCEPT ![i] = c],
         CtxOK(c, hash), TallyOK(c), hash' = hash,
         \A j \in Threads : j # i /\ Begun(j)' => Begun(j)
  PROVE  Contexts'
<1>1. Contexts
  BY DEF MainInv
<1>2. ctx'[i] = c /\ \A j \in Threads : j # i => ctx'[j] = ctx[j]
  BY <1>1 DEF Contexts
<1>3. DOMAIN ctx' = Threads
  BY <1>1 DEF Contexts
<1>4. \A j \in Threads : ctx'[j].count \in 0..MaxChannels
  BY <1>1, <1>2 DEF Contexts, CtxOK
<1>5. \A j \in Threads : Begun(j)' => CtxOK(ctx'[j], hash) /\ TallyOK(ctx'[j])
  BY <1>1, <1>2 DEF Contexts
<1> QED
  BY <1>3, <1>4, <1>5 DEF Contexts, TallyOK

LEMMA CountIntoType ==
  ASSUME NEW T \in [Channels -> [Months -> StatsSet]], NEW n \in Channels, NEW m \in Months,
         NEW r, RowOK(r)
  PROVE  CountInto(T, n, m, r) \in [Channels -> [Months -> StatsSet]]
<1>1. UpdateStats(T[n][m], r) \in StatsSet
  BY UpdateStatsFacts
<1> QED
  BY <1>1 DEF CountInto

(* process_row on a row of the input.                                      *)
LEMMA RowCounted ==
  ASSUME MainInv, NEW c, CtxOK(c, hash), TallyOK(c), NEW r \in Rows,
         ProbeEnds(c, hash, r.channel)
  PROVE  /\ CtxOK(ProcessRow(c, hash, r), hash) /\ TallyOK(ProcessRow(c, hash, r))
         /\ TallyOf(ProcessRow(c, hash, r)) = CountInto(TallyOf(c), r.channel, r.month, r)
<1>1. hash \in [Channels -> Slots]
  BY DEF MainInv, InRange
<1>2. r.channel \in Channels /\ r.month \in Months /\ RowOK(r)
  BY MainAssumption DEF RowOK
<1>3. /\ CtxOK(ProcessRow(c, hash, r), hash)
      /\ TallyOf(ProcessRow(c, hash, r)) = CountInto(TallyOf(c), r.channel, r.month, r)
  BY <1>1, <1>2, ProcessRowFacts
<1>4. CountInto(TallyOf(c), r.channel, r.month, r) \in [Channels -> [Months -> StatsSet]]
  BY <1>2, CountIntoType DEF TallyOK
<1> QED
  BY <1>3, <1>4 DEF TallyOK

LEMMA InitCtxTally == TallyOf(InitCtx) = [n \in Channels |-> FreshStats] /\ TallyOK(InitCtx)
<1>1. Known(InitCtx) = {}
  BY DEF Known, InitCtx
<1>2. TallyOf(InitCtx) = [n \in Channels |-> FreshStats]
  BY <1>1 DEF TallyOf
<1>3. FreshStats \in [Months -> StatsSet]
  BY NewStatsOK DEF FreshStats
<1> QED
  BY <1>2, <1>3 DEF TallyOK

(* Renumbering leaves a context well formed and counts nothing.            *)
LEMMA RenumberKeeps ==
  ASSUME NEW h \in [Channels -> Slots], NEW c, CtxOK(c, h), NEW d \in RenumberResults(c)
  PROVE  CtxOK(d, h) /\ TallyOf(d) = TallyOf(c)
<1>1. CASE d = c
  BY <1>1
<1>2. CASE d # c
  <2>1. PICK perm \in Bijection(Known(c), Known(c)) : d = Renumbered(c, perm)
    BY <1>2 DEF RenumberResults, Ranks
  <2> QED
    BY <2>1, RenumberedFacts, TallyAfterRenumber
<1> QED
  BY <1>1, <1>2

LEMMA WorkerMainInv ==
  ASSUME MainInv, NEW i \in Threads, WorkerStep(i)
  PROVE  InRange' /\ Shares' /\ Positions' /\ Contexts' /\ Writing'
<1>1. /\ UNCHANGED <<hash, input, pc, threads, first, last, created, sc, bp, lines, w>>
      /\ i \in Active
  BY WorkerFacts DEF fixedVars, shareVars, writeVars
<1>2. InRange /\ Shares /\ Positions /\ Contexts /\ Writing /\ hash \in [Channels -> Slots]
  BY DEF MainInv, InRange
<1>3. DOMAIN phase = Threads /\ DOMAIN pos = Threads
  BY DEF MainInv, HandInv, Range1, InRange
<1>4. Shares' /\ Writing'
  BY <1>1, <1>2 DEF Shares, Writing, Active
<1>5. CASE BeginWorker(i)
  <2>1. /\ ctx' = [ctx EXCEPT ![i] = InitCtx]
        /\ pos' = [pos EXCEPT ![i] = first[i]]
        /\ \E ph : phase' = [phase EXCEPT ![i] = ph]
    BY <1>5 DEF BeginWorker
  <2>2. \A j \in Threads : j # i => (Begun(j)' <=> Begun(j)) /\ pos'[j] = pos[j]
    BY <1>3, <2>1 DEF Begun
  <2>3. pos'[i] = first[i]
    BY <1>3, <2>1
  <2>4. InRange'
    <3>1. first[i] \in 1..(Len(input) + 1)
      BY RangeFacts
    <3>2. pos' \in [Threads -> 1..(Len(input) + 1)]
      BY <1>2, <2>1, <3>1 DEF InRange
    <3> QED
      BY <1>1, <1>2, <3>2 DEF InRange
  <2>5. Positions'
    <3>1. first[i] <= first[i]
      BY RangeFacts
    <3> QED
      BY <1>1, <1>2, <2>2, <2>3, <3>1 DEF Positions
  <2>6. Contexts'
    BY <1>1, <1>2, <2>1, <2>2, InitCtxOK, InitCtxTally, ContextWritten
  <2> QED
    BY <1>4, <2>4, <2>5, <2>6
<1>6. CASE CountRow(i)
  <2>1. /\ phase[i] \in {"sample", "rest"} /\ pos[i] < last[i]
        /\ ProbeEnds(ctx[i], hash, input[pos[i]].channel)
        /\ ctx' = [ctx EXCEPT ![i] = ProcessRow(ctx[i], hash, input[pos[i]])]
        /\ pos' = [pos EXCEPT ![i] = pos[i] + 1]
        /\ phase' = phase
    BY <1>2, <1>6 DEF CountRow, Contexts
  <2>2. /\ pos[i] \in 1..Len(input) /\ pos[i] + 1 \in 1..(Len(input) + 1)
        /\ input[pos[i]] \in Rows /\ first[i] <= pos[i] + 1
    <3>1. first[i] <= pos[i]
      BY <1>2, <2>1 DEF Positions, Begun
    <3>2. /\ Len(input) \in Nat /\ first[i] \in Int /\ pos[i] \in 1..(Len(input) + 1)
          /\ last[i] \in 1..(Len(input) + 1)
      BY RangeFacts, Zenon
    <3>3. /\ pos[i] \in 1..Len(input) /\ pos[i] + 1 \in 1..(Len(input) + 1)
          /\ first[i] <= pos[i] + 1
      <4>1. pos[i] < last[i]
        BY <2>1
      <4> HIDE <2>1
      <4> QED
        BY <3>1, <3>2, <4>1
    <3>4. input[pos[i]] \in Rows
      BY <3>3, RangeFacts, Zenon
    <3> QED
      BY <3>3, <3>4
  <2>3. InRange'
    <3>1. pos' \in [Threads -> 1..(Len(input) + 1)]
      BY <1>2, <2>1, <2>2 DEF InRange
    <3> QED
      BY <1>1, <1>2, <3>1 DEF InRange
  <2>4. Positions'
    <3>1. pos'[i] = pos[i] + 1 /\ \A j \in Threads : j # i => pos'[j] = pos[j]
      BY <1>3, <2>1
    <3>2. \A j \in Threads : Begun(j)' <=> Begun(j)
      BY <2>1 DEF Begun
    <3> QED
      BY <1>1, <1>2, <2>2, <3>1, <3>2 DEF Positions
  <2>5. CtxOK(ctx[i], hash) /\ TallyOK(ctx[i])
    BY <1>2, <2>1 DEF Contexts, Begun
  <2>6. /\ CtxOK(ProcessRow(ctx[i], hash, input[pos[i]]), hash)
        /\ TallyOK(ProcessRow(ctx[i], hash, input[pos[i]]))
    BY <2>1, <2>2, <2>5, RowCounted
  <2>7. Contexts'
    <3>1. \A j \in Threads : Begun(j)' => Begun(j)
      BY <2>1 DEF Begun
    <3> QED
      BY <1>1, <2>1, <2>6, <3>1, ContextWritten
  <2> QED
    BY <1>4, <2>3, <2>4, <2>7
<1>7. CASE Renumber(i)
  <2>1. phase[i] = "sample" /\ phase' = [phase EXCEPT ![i] = "rest"] /\ pos' = pos
    BY <1>7 DEF Renumber
  <2>2. PICK c \in RenumberResults(ctx[i]) : ctx' = [ctx EXCEPT ![i] = c]
    BY <1>7 DEF Renumber
  <2>3. \A j \in Threads : Begun(j)' <=> Begun(j)
    BY <1>3, <2>1 DEF Begun
  <2>4. CtxOK(ctx[i], hash) /\ TallyOK(ctx[i])
    BY <1>2, <2>1 DEF Contexts, Begun
  <2>5. CtxOK(c, hash) /\ TallyOK(c)
    BY <1>2, <2>2, <2>4, RenumberKeeps DEF TallyOK
  <2>6. Contexts'
    BY <1>1, <2>2, <2>3, <2>5, ContextWritten
  <2>7. InRange' /\ Positions'
    BY <1>1, <1>2, <2>1, <2>3 DEF InRange, Positions
  <2> QED
    BY <1>4, <2>6, <2>7
<1>8. CASE EndWorker(i)
  <2>1. phase[i] = "rest" /\ phase' = [phase EXCEPT ![i] = "ended"] /\ pos' = pos /\ ctx' = ctx
    BY <1>8 DEF EndWorker
  <2>2. \A j \in Threads : Begun(j)' <=> Begun(j)
    BY <1>3, <2>1 DEF Begun
  <2> QED
    BY <1>1, <1>2, <1>4, <2>1, <2>2 DEF InRange, Positions, Contexts, TallyOK
<1> QED
  BY <1>5, <1>6, <1>7, <1>8 DEF WorkerStep

(* A function that grows from each place to the next grows throughout.     *)
LEMMA Monotone ==
  ASSUME NEW n \in Nat \ {0}, NEW f \in [0..(n - 1) -> Int],
         \A i \in 1..(n - 1) : f[i - 1] <= f[i]
  PROVE  \A i, j \in 0..(n - 1) : i <= j => f[i] <= f[j]
<1> DEFINE T == {k \in Nat : \A i \in 0..(n - 1) : i + k <= n - 1 => f[i] <= f[i + k]}
<1>1. 0 \in T
  <2>1. \A i \in 0..(n - 1) : i + 0 = i /\ f[i] <= f[i]
    OBVIOUS
  <2> QED
    BY <2>1
<1>2. ASSUME NEW k \in Nat, k \in T
      PROVE  k + 1 \in T
  <2> SUFFICES ASSUME NEW i \in 0..(n - 1), i + (k + 1) <= n - 1
               PROVE  f[i] <= f[i + (k + 1)]
    OBVIOUS
  <2>1. PICK a \in 0..(n - 1) : a = i + k
    OBVIOUS
  <2>2. PICK b \in 1..(n - 1) : b = a + 1 /\ b = i + (k + 1)
    BY <2>1
  <2>3. f[i] <= f[a]
    BY <1>2, <2>1
  <2>4. b - 1 = a /\ b \in 0..(n - 1)
    BY <2>1, <2>2
  <2>5. f[a] <= f[b]
    BY <2>4
  <2>6. f[i] <= f[b]
    BY <2>1, <2>3, <2>4, <2>5
  <2> QED
    BY <2>2, <2>6
<1> HIDE DEF T
<1>3. \A k \in Nat : k \in T
  BY <1>1, <1>2, NatInduct
<1> SUFFICES ASSUME NEW i \in 0..(n - 1), NEW j \in 0..(n - 1), i <= j
             PROVE  f[i] <= f[j]
  OBVIOUS
<1>4. PICK k \in Nat : k = j - i /\ i + k = j
  OBVIOUS
<1>5. k \in T
  BY <1>3
<1> QED
  BY <1>4, <1>5 DEF T

(* What Partition leaves: consecutive shares from the first row on.        *)
LEMMA SharesFollow ==
  ASSUME MainInv, Partition
  PROVE  /\ input' = input /\ pc = "start" /\ pc' = "create" /\ threads' \in 1..MaxThreads
         /\ first' \in [Threads -> 1..(Len(input) + 1)]
         /\ last' \in [Threads -> 1..(Len(input) + 1)]
         /\ first'[0] = 1
         /\ \A i \in 1..(threads' - 1) : first'[i] = last'[i - 1]
         /\ \A i, j \in 0..(threads' - 1) : i <= j => last'[i] <= last'[j]
<1>1. PICK n \in 1..MaxThreads : \E ends \in [0..(n - 1) -> 1..(Len(input) + 1)] :
        /\ \A i \in 1..(n - 1) : ends[i - 1] <= ends[i]
        /\ threads' = n
        /\ first' = [i \in Threads |-> IF i \in 1..(n - 1) THEN ends[i - 1] ELSE 1]
        /\ last' = [i \in Threads |-> IF i < n THEN ends[i] ELSE 1]
  BY DEF Partition
<1>2. PICK ends \in [0..(n - 1) -> 1..(Len(input) + 1)] :
        /\ \A i \in 1..(n - 1) : ends[i - 1] <= ends[i]
        /\ threads' = n
        /\ first' = [i \in Threads |-> IF i \in 1..(n - 1) THEN ends[i - 1] ELSE 1]
        /\ last' = [i \in Threads |-> IF i < n THEN ends[i] ELSE 1]
  BY <1>1
<1>3. n \in Nat \ {0} /\ n <= MaxThreads /\ MaxThreads \in Nat /\ Len(input) \in Nat
  BY RangeFacts
<1>4. /\ \A i \in 0..(n - 1) : i \in Threads /\ i < n /\ ends[i] \in 1..(Len(input) + 1)
      /\ \A i \in Threads : i < n => i \in 0..(n - 1)
      /\ \A i \in 1..(n - 1) : i - 1 \in 0..(n - 1) /\ i \in Threads
      /\ 1 \in 1..(Len(input) + 1) /\ 0 \in Threads /\ 0 \notin 1..(n - 1)
  BY <1>3 DEF Threads
<1>5. first' \in [Threads -> 1..(Len(input) + 1)]
  <2>1. \A i \in 1..(n - 1) : ends[i - 1] \in 1..(Len(input) + 1)
    BY <1>4
  <2> QED
    BY <1>2, <1>4, <2>1
<1>6. last' \in [Threads -> 1..(Len(input) + 1)]
  BY <1>2, <1>4
<1>7. first'[0] = 1
  BY <1>2, <1>4
<1>8. \A i \in 0..(n - 1) : last'[i] = ends[i]
  BY <1>2, <1>4
<1>9. \A i \in 1..(n - 1) : first'[i] = last'[i - 1]
  BY <1>2, <1>4, <1>8
<1>10. \A i, j \in 0..(n - 1) : i <= j => ends[i] <= ends[j]
  <2>1. ends \in [0..(n - 1) -> Int]
    BY <1>3
  <2> QED
    BY <1>2, <1>3, <2>1, Monotone
<1>11. \A i, j \in 0..(n - 1) : i <= j => last'[i] <= last'[j]
  BY <1>8, <1>10
<1>12. input' = input /\ pc = "start" /\ pc' = "create" /\ threads' = n
  BY <1>2 DEF Partition, fixedVars
<1> QED
  BY <1>5, <1>6, <1>7, <1>9, <1>11, <1>12

LEMMA PartitionMainInv ==
  ASSUME MainInv, Partition
  PROVE  InRange' /\ Shares' /\ Positions' /\ Contexts' /\ Writing'
<1>1. UNCHANGED <<hash, input, created, sc, bp, phase, pos, ctx, lines, w>> /\ pc = "start"
  BY DEF Partition, fixedVars, workerVars, writeVars
<1>2. InRange /\ Contexts /\ Writing /\ HandInv
  BY DEF MainInv
<1>3. InRange'
  BY <1>1, <1>2, SharesFollow DEF InRange
<1>4. \A i \in Threads : ~ Begun(i)'
  <2>1. \A i \in Threads : Idle(i)
    BY <1>1, <1>2 DEF HandInv, Handed
  <2> QED
    BY <1>1, <2>1 DEF Idle, Begun
<1>5. Positions'
  BY <1>4 DEF Positions
<1>6. Contexts'
  BY <1>1, <1>2, <1>4 DEF Contexts
<1>7. Writing'
  BY <1>1, <1>2 DEF Writing
<1>8. Shares'
  <2>1. threads' \in Nat /\ 1 <= threads' /\ threads' <= MaxThreads
    BY RangeFacts, SharesFollow
  <2>2. PICK n \in Nat : n = threads' /\ n >= 1
    BY <2>1
  <2>3. /\ Active' = 0..(n - 1)
        /\ \A i \in 1..(n - 1) : first'[i] = last'[i - 1]
        /\ \A i, j \in 0..(n - 1) : i <= j => last'[i] <= last'[j]
    BY <2>2, SharesFollow DEF Active
  <2>4. \A i \in Active' : last'[i] <= last'[n - 1]
    <3>1. n >= 1
      BY <2>2
    <3>2. \A i \in 0..(n - 1) : i \in Nat /\ i <= n - 1
      OBVIOUS
    <3>3. n - 1 \in 0..(n - 1)
      BY <3>1
    <3> QED
      BY <2>3, <3>2, <3>3
  <2>5. ASSUME NEW i \in 0..(n - 1), NEW j \in 0..(n - 1), i < j
        PROVE  last'[i] <= first'[j]
    <3>1. j \in 1..(n - 1) /\ j - 1 \in 0..(n - 1) /\ i <= j - 1
      BY <2>5
    <3>2. first'[j] = last'[j - 1] /\ last'[i] <= last'[j - 1]
      BY <2>3, <3>1
    <3> QED
      BY <3>2
  <2> QED
    BY <2>2, <2>3, <2>4, <2>5 DEF Shares
<1> QED
  BY <1>3, <1>5, <1>6, <1>7, <1>8

(* Each line is one record, and there are finitely many.                   *)
LEMMA LinesType ==
  ASSUME MainInv, ctx[0].count \in Nat
  PROVE  Len(FlattenSeq([j \in 1..(ctx[0].count * Cardinality(Months)) |->
                           LineOf(ctx[0], (j - 1) \div Cardinality(Months),
                                          1 + ((j - 1) % Cardinality(Months)))])) \in Nat
<1> DEFINE L(j) == LineOf(ctx[0], (j - 1) \div Cardinality(Months), 1 + ((j - 1) % Cardinality(Months)))
           n == ctx[0].count * Cardinality(Months)
           X == {L(j)[1] : j \in 1..n}
<1>1. n \in Nat
  <2>1. Cardinality(Months) \in Nat
    BY MainAssumption, FS_CardinalityType
  <2> QED
    BY <2>1
<1>2. ASSUME NEW c, NEW i, NEW m
      PROVE  LineOf(c, i, m) = <<>> \/ \E r : LineOf(c, i, m) = <<r>>
  BY Zenon DEF LineOf
<1>3. ASSUME NEW j \in 1..n
      PROVE  L(j) \in Seq(X)
  <2>1. CASE L(j) = <<>>
    <3> HIDE DEF L, X
    <3>1. <<>> \in Seq(X)
      OBVIOUS
    <3> QED
      BY <2>1, <3>1
  <2>2. CASE L(j) # <<>>
    <3>1. PICK r : L(j) = <<r>>
      BY <1>2, <2>2
    <3>2. L(j)[1] = r
      BY <3>1
    <3>3. r \in X
      BY <3>2, Zenon
    <3>4. <<r>> \in Seq(X)
      BY <3>3
    <3> QED
      BY <3>1, <3>4
  <2> QED
    BY <2>1, <2>2
<1>4. [j \in 1..n |-> L(j)] \in Seq(Seq(X))
  <2> HIDE DEF L, X
  <2>1. [j \in 1..n |-> L(j)] \in [1..n -> Seq(X)]
    BY <1>3
  <2> HIDE DEF n
  <2> QED
    BY <1>1, <2>1
<1>5. FlattenSeq([j \in 1..n |-> L(j)]) \in Seq(X)
  BY <1>4, FlattenType
<1> HIDE DEF X
<1> QED
  BY <1>5

LEMMA MainStepMainInv ==
  ASSUME MainInv, MainStep
  PROVE  InRange' /\ Shares' /\ Positions' /\ Contexts' /\ Writing'
<1>1. /\ InRange /\ Shares /\ Positions /\ Contexts /\ Writing /\ HandInv
      /\ hash \in [Channels -> Slots] /\ created \subseteq 1..(MaxThreads - 1)
      /\ phase \in [Threads -> {"idle", "begin", "sample", "rest", "ended"}]
  BY DEF MainInv, InRange, HandInv, Range1
<1>2. 0 \in Threads /\ 0 \in Active
  BY RangeFacts
<1>3. CASE Partition
  BY <1>3, PartitionMainInv
<1>4. CASE CreateThread \/ CallWorker \/ CallOwn
  <2>1. /\ UNCHANGED <<hash, input, threads, first, last, pos, bp, sc, ctx, lines, w>>
        /\ pc \notin {"start", "exit", "write"}
        /\ \E i \in Threads : phase' = [phase EXCEPT ![i] = "begin"]
    BY <1>2, <1>4, RangeFacts DEF CreateThread, CallWorker, CallOwn, fixedVars, shareVars, writeVars,
       Active, Threads
  <2>2. created' \subseteq 1..(MaxThreads - 1)
    <3>1. CASE CreateThread
      <4>1. t \in 1..(MaxThreads - 1) /\ created' = created \cup {t}
        BY <3>1, RangeFacts DEF CreateThread
      <4> QED
        BY <1>1, <4>1
    <3>2. CASE CallWorker \/ CallOwn
      BY <1>1, <3>2 DEF CallWorker, CallOwn
    <3> QED
      BY <1>4, <3>1, <3>2
  <2>3. \A i \in Threads : Begun(i)' => Begun(i)
    BY <1>1, <2>1 DEF Begun
  <2> QED
    BY <2>1, <2>2, <2>3, QuietStep
<1>5. CASE \/ CannotStart \/ WorkerReturns \/ OwnReturns \/ Join \/ JoinFails \/ OpenOutput
           \/ Interrupted \/ WriteFails \/ Close
  <2>1. /\ UNCHANGED <<hash, input, threads, first, last, pos, bp, sc, ctx, lines, w, created, phase>>
        /\ pc' \notin {"start", "exit"} => pc \notin {"start", "exit"}
        /\ pc' \notin {"write", "exit"} => pc \notin {"write", "exit"}
    BY <1>5 DEF CannotStart, WorkerReturns, OwnReturns, Join, JoinFails, OpenOutput, Interrupted,
       WriteFails, Close, Return, fixedVars, shareVars, writeVars, workerVars
  <2>2. \A i \in Threads : Begun(i)' => Begun(i)
    BY <2>1 DEF Begun
  <2> QED
    BY <1>1, <2>1, <2>2, QuietStep
<1>6. CASE Joined \/ TailDone \/ MergedOne
  <2>1. /\ UNCHANGED <<hash, input, threads, first, last, pos, ctx, lines, w, created, phase>>
        /\ pc \notin {"start", "exit", "write"}
    BY <1>6 DEF Joined, TailDone, MergedOne, fixedVars, shareVars, writeVars, workerVars
  <2>2. bp' = bp \/ bp' = last[threads - 1]
    BY <1>6 DEF Joined, TailDone, MergedOne
  <2>3. sc' = sc \/ sc' = 0
    BY <1>6 DEF Joined, TailDone, MergedOne
  <2>4. \A i \in Threads : Begun(i)' <=> Begun(i)
    BY <2>1 DEF Begun
  <2>5. last[threads - 1] \in 1..(Len(input) + 1) /\ 0 \in 0..MaxChannels
    BY RangeFacts, SizesAssumption
  <2>6. InRange'
    BY <1>1, <2>1, <2>2, <2>3, <2>5 DEF InRange
  <2>7. Shares' /\ Positions' /\ Contexts' /\ Writing'
    BY <1>1, <2>1, <2>4 DEF Shares, Positions, Contexts, Writing, Active, TallyOK
  <2> QED
    BY <2>6, <2>7
<1>7. ASSUME pc \in AfterJoin
      PROVE  \A i \in Active : Begun(i) /\ CtxOK(ctx[i], hash) /\ TallyOK(ctx[i])
  <2>1. \A i \in Active : i \in Threads /\ phase[i] = "ended"
    BY <1>1, <1>7, RangeFacts DEF HandInv, Handed, Active, Ended
  <2> QED
    BY <1>1, <2>1 DEF Contexts, Begun
<1>8. CASE TailRow
  <2>1. /\ UNCHANGED <<hash, input, pc, threads, first, last, pos, sc, lines, w, created, phase>>
        /\ pc = "buffer" /\ bp <= Len(input) /\ bp' = bp + 1
        /\ ProbeEnds(ctx[0], hash, input[bp].channel)
        /\ ctx' = [ctx EXCEPT ![0] = ProcessRow(ctx[0], hash, input[bp])]
    BY <1>1, <1>2, <1>8 DEF TailRow, fixedVars, shareVars, writeVars, workerVars, Contexts
  <2>2. bp' \in 1..(Len(input) + 1) /\ bp \in 1..Len(input) /\ input[bp] \in Rows
    BY <2>1, RangeFacts
  <2>3. \A i \in Threads : Begun(i)' <=> Begun(i)
    BY <2>1 DEF Begun
  <2>4. CtxOK(ctx[0], hash) /\ TallyOK(ctx[0])
    BY <1>2, <1>7, <2>1 DEF AfterJoin
  <2>5. /\ CtxOK(ProcessRow(ctx[0], hash, input[bp]), hash)
        /\ TallyOK(ProcessRow(ctx[0], hash, input[bp]))
    BY <2>1, <2>2, <2>4, RowCounted
  <2>6. Contexts'
    BY <1>2, <2>1, <2>3, <2>5, ContextWritten
  <2>7. InRange' /\ Shares' /\ Positions' /\ Writing'
    BY <1>1, <2>1, <2>2, <2>3 DEF InRange, Shares, Positions, Writing, Active
  <2> QED
    BY <2>6, <2>7
<1>9. CASE MergeNext
  <2>1. /\ UNCHANGED <<hash, input, pc, threads, first, last, pos, bp, lines, w, created, phase>>
        /\ pc = "merge" /\ t < threads /\ sc < ctx[t].count /\ sc' = sc + 1
        /\ ProbeEnds(ctx[0], hash, ctx[t].names[sc])
        /\ ctx' = [ctx EXCEPT ![0] = MergeChannel(ctx[0], hash, ctx[t], sc)]
    BY <1>1, <1>2, <1>9 DEF MergeNext, fixedVars, shareVars, writeVars, workerVars, Contexts
  <2>2. t \in Active
    BY <2>1, RangeFacts DEF Active
  <2>3. \A i \in Threads : Begun(i)' <=> Begun(i)
    BY <2>1 DEF Begun
  <2>4. /\ CtxOK(ctx[0], hash) /\ TallyOK(ctx[0])
        /\ CtxOK(ctx[t], hash) /\ TallyOK(ctx[t])
    BY <1>2, <1>7, <2>1, <2>2 DEF AfterJoin
  <2>5. sc \in Known(ctx[t]) /\ sc' \in 0..MaxChannels
    BY <1>1, <2>1, <2>4, SizesAssumption DEF Known, InRange, CtxOK
  <2>6. /\ ctx[t].names[sc] \in Channels
        /\ CtxOK(MergeChannel(ctx[0], hash, ctx[t], sc), hash)
        /\ TallyOf(MergeChannel(ctx[0], hash, ctx[t], sc)) =
             [TallyOf(ctx[0]) EXCEPT ![ctx[t].names[sc]] =
                [m \in Months |-> MergeStats(TallyOf(ctx[0])[ctx[t].names[sc]][m],
                                             TallyOf(ctx[t])[ctx[t].names[sc]][m])]]
    BY <1>1, <2>1, <2>4, <2>5, MergeChannelFacts
  <2>7. TallyOK(MergeChannel(ctx[0], hash, ctx[t], sc))
    <3>1. \A m \in Months : MergeStats(TallyOf(ctx[0])[ctx[t].names[sc]][m],
                                       TallyOf(ctx[t])[ctx[t].names[sc]][m]) \in StatsSet
      BY <2>4, <2>6, MergeStatsFacts DEF TallyOK
    <3> QED
      BY <2>4, <2>6, <3>1 DEF TallyOK
  <2>8. Contexts'
    BY <1>2, <2>1, <2>3, <2>6, <2>7, ContextWritten
  <2>9. InRange' /\ Shares' /\ Positions' /\ Writing'
    BY <1>1, <2>1, <2>3, <2>5 DEF InRange, Shares, Positions, Writing, Active
  <2> QED
    BY <2>8, <2>9
<1>10. CASE Format
  <2>1. /\ UNCHANGED <<hash, input, threads, first, last, pos, bp, sc, ctx, w, created, phase>>
        /\ pc = "format"
    BY <1>10 DEF Format, fixedVars, shareVars, writeVars, workerVars
  <2>2. \A i \in Threads : Begun(i)' <=> Begun(i)
    BY <2>1 DEF Begun
  <2>3. InRange' /\ Shares' /\ Positions' /\ Contexts'
    BY <1>1, <2>1, <2>2 DEF InRange, Shares, Positions, Contexts, Active, TallyOK
  <2>4. w = 0 /\ w' = 0
    BY <1>1, <2>1 DEF Writing
  <2>5. Len(lines') \in Nat
    <3>1. ctx[0].count \in Nat
      BY <1>1, <1>2, SizesAssumption DEF Contexts
    <3>2. Len(lines) \in Nat
      BY <1>1 DEF Writing
    <3> QED
      BY <1>10, <3>1, <3>2, LinesType DEF Format
  <2>6. Writing'
    BY <2>4, <2>5 DEF Writing
  <2> QED
    BY <2>3, <2>6
<1>11. CASE WriteSome
  <2>1. /\ UNCHANGED <<hash, input, pc, threads, first, last, pos, bp, sc, ctx, lines, created, phase>>
        /\ pc = "write"
        /\ \E n \in 1..(Len(lines) - w) : w' = w + n
    BY <1>11 DEF WriteSome, fixedVars, shareVars, workerVars
  <2>2. \A i \in Threads : Begun(i)' <=> Begun(i)
    BY <2>1 DEF Begun
  <2>3. InRange' /\ Shares' /\ Positions' /\ Contexts'
    BY <1>1, <2>1, <2>2 DEF InRange, Shares, Positions, Contexts, Active, TallyOK
  <2>4. Writing'
    <3>1. w \in 0..Len(lines) /\ Len(lines) \in Nat
      BY <1>1 DEF Writing
    <3>2. w' \in 0..Len(lines)
      BY <2>1, <3>1
    <3> QED
      BY <2>1, <3>1, <3>2 DEF Writing
  <2> QED
    BY <2>3, <2>4
<1> QED
  BY <1>3, <1>4, <1>5, <1>6, <1>8, <1>9, <1>10, <1>11 DEF MainStep

LEMMA NextMainInv == MainInv /\ [Next]_vars => MainInv'
<1> SUFFICES ASSUME MainInv, [Next]_vars PROVE MainInv'
  OBVIOUS
<1>1. HandInv'
  BY NextHandInv DEF MainInv
<1>2. CASE MainStep
  BY <1>1, <1>2, MainStepMainInv DEF MainInv
<1>3. CASE \E i \in Threads : WorkerStep(i)
  BY <1>1, <1>3, WorkerMainInv DEF MainInv
<1>4. CASE UNCHANGED vars
  <2>1. UNCHANGED <<hash, input, pc, threads, first, last, pos, bp, sc, ctx, lines, w, created, phase>>
    BY <1>4 DEF vars, fixedVars, shareVars, workerVars, writeVars
  <2>2. \A i \in Threads : Begun(i)' <=> Begun(i)
    BY <2>1 DEF Begun
  <2>3. InRange' /\ Shares' /\ Positions' /\ Contexts' /\ Writing'
    <3>1. created \subseteq 1..(MaxThreads - 1)
      BY DEF MainInv, InRange
    <3> QED
      BY <2>1, <2>2, <3>1, QuietStep
  <2> QED
    BY <1>1, <2>3 DEF MainInv
<1> QED
  BY <1>2, <1>3, <1>4 DEF Next

LEMMA MainInvHolds == Spec => []MainInv
BY InitMainInv, NextMainInv, PTL DEF Spec

ExitOK == exit \in {"none", "ok", "failed"}

LEMMA ExitHolds == Spec => []ExitOK
<1>1. Init => ExitOK
  BY DEF Init, ExitOK
<1>2. ExitOK /\ [Next]_vars => ExitOK'
  BY DEF ExitOK, Next, vars, MainStep, Return, CannotStart, Partition, CreateThread, CallWorker,
     WorkerReturns, CallOwn, OwnReturns, Join, JoinFails, Joined, TailRow, TailDone, MergeNext,
     MergedOne, OpenOutput, Format, WriteSome, Interrupted, WriteFails, Close,
     WorkerStep, BeginWorker, CountRow, Renumber, EndWorker
<1> QED
  BY <1>1, <1>2, PTL DEF Spec

(* Main's variables and the workers' stay in their ranges, whatever the    *)
(* shares and whoever runs them: no row before the input's first or after  *)
(* its last is reached, no id beyond names[MAX_CHANNELS] is given out, and *)
(* no more lines are written than there are.                               *)
THEOREM TypeCorrect == Spec => []TypeOK
<1>1. MainInv /\ ExitOK => TypeOK
  <2> SUFFICES ASSUME MainInv, ExitOK PROVE TypeOK
    OBVIOUS
  <2>1. /\ pc \in {"start", "create", "inline", "own", "join", "buffer", "merge", "format", "write", "exit"}
        /\ phase \in [Threads -> {"idle", "begin", "sample", "rest", "ended"}]
        /\ threads \in 1..MaxThreads
    BY DEF MainInv, HandInv, Range1, BeforeJoin, AfterJoin
  <2>2. t \in 1..threads /\ bp \in 1..(Len(input) + 1)
    BY RangeFacts
  <2>3. /\ created \subseteq 1..(MaxThreads - 1) /\ sc \in 0..MaxChannels
        /\ \A i \in Threads : pos[i] \in 1..(Len(input) + 1)
    BY DEF MainInv, InRange
  <2>4. /\ \A i \in Threads : ctx[i].count \in 0..MaxChannels
        /\ w \in 0..Len(lines)
    BY DEF MainInv, Contexts, Writing
  <2>5. exit \in {"none", "ok", "failed"}
    BY DEF ExitOK
  <2> QED
    BY <2>1, <2>2, <2>3, <2>4, <2>5 DEF TypeOK
<1> QED
  BY <1>1, MainInvHolds, ExitHolds, PTL

---------------------------------------------------------------------------
(* The conservation of rows.                                               *)
Running == pc \notin {"start", "exit"}

AllRows(n, m) == RowsOfMonth(DOMAIN input, n, m)
RowsLeft(n, m) == RowsOfMonth(NotCounted, n, m)

LEMMA NotCountedInInput ==
  ASSUME MainInv
  PROVE  NotCounted \subseteq 1..Len(input)
<1>1. LeftInTail \subseteq 1..Len(input)
  <2>1. \A x \in Nat : x >= 1 => x..Len(input) \subseteq 1..Len(input)
    BY RangeFacts
  <2>2. last[threads - 1] \in Nat /\ last[threads - 1] >= 1 /\ bp \in Nat /\ bp >= 1
    BY RangeFacts
  <2> QED
    BY <2>1, <2>2 DEF LeftInTail
<1>2. ASSUME NEW i \in Active
      PROVE  LeftTo(i) \subseteq 1..Len(input)
  <2>1. first[i] \in 1..(Len(input) + 1) /\ last[i] \in 1..(Len(input) + 1) /\ Len(input) \in Nat
    BY RangeFacts
  <2>2. first[i]..(last[i] - 1) \subseteq 1..Len(input)
    BY <2>1
  <2> QED
    BY <2>2 DEF LeftTo
<1> QED
  BY <1>1, <1>2 DEF NotCounted

LEMMA HolderFacts ==
  ASSUME MainInv, NEW n
  PROVE  /\ IsFiniteSet(HoldersOf(n))
         /\ \A i \in HoldersOf(n) : i \in Active /\ i \in Threads /\ Begun(i)
<1>1. HoldersOf(n) \subseteq Active /\ Active \subseteq Threads
  BY RangeFacts DEF HoldersOf, Holders
<1>2. IsFiniteSet(Active)
  BY RangeFacts, FS_Interval DEF Active
<1>3. \A i \in HoldersOf(n) : Begun(i)
  BY DEF HoldersOf, Holders, Begun
<1> QED
  BY <1>1, <1>2, <1>3, FS_Subset

LEMMA LedgerFacts ==
  ASSUME MainInv, NEW n \in Channels, NEW m \in Months
  PROVE  /\ IsFiniteSet(HoldersOf(n)) /\ IsFiniteSet(RowsLeft(n, m)) /\ IsFiniteSet(AllRows(n, m))
         /\ RowsLeft(n, m) \subseteq AllRows(n, m)
         /\ HeldOK(Held(n, m), HoldersOf(n)) /\ RowsOK(input, AllRows(n, m))
<1>1. DOMAIN input = 1..Len(input) /\ IsFiniteSet(1..Len(input))
  BY RangeFacts, FS_Interval
<1>2. AllRows(n, m) \subseteq 1..Len(input) /\ RowsLeft(n, m) \subseteq AllRows(n, m)
  BY <1>1, NotCountedInInput DEF AllRows, RowsLeft, RowsOfMonth
<1>3. IsFiniteSet(AllRows(n, m)) /\ IsFiniteSet(RowsLeft(n, m))
  BY <1>1, <1>2, FS_Subset
<1>4. RowsOK(input, AllRows(n, m))
  BY <1>2, RangeFacts, MainAssumption DEF RowsOK, RowOK
<1>5. HeldOK(Held(n, m), HoldersOf(n))
  <2>1. ASSUME NEW i \in HoldersOf(n)
        PROVE  Held(n, m)[i] \in StatsSet
    <3>1. i \in Threads /\ TallyOK(ctx[i])
      BY HolderFacts DEF MainInv, Contexts
    <3> QED
      BY <3>1 DEF Held, TallyOK
  <2> QED
    BY <2>1 DEF HeldOK
<1> QED
  BY <1>2, <1>3, <1>4, <1>5, HolderFacts

(* No row is counted, and no context taken in or out.                      *)
LEMMA ConservedSame ==
  ASSUME Conserved, Running, input' = input, NotCounted' = NotCounted,
         \A n \in Channels : HoldersOf(n)' = HoldersOf(n),
         \A i \in Threads : TallyOf(ctx'[i]) = TallyOf(ctx[i])
  PROVE  Conserved'
<1> SUFFICES ASSUME NEW n \in Channels, NEW m \in Months
             PROVE  Balanced(Held(n, m), HoldersOf(n), input, RowsLeft(n, m), AllRows(n, m))'
  BY DEF Conserved, RowsLeft, AllRows
<1>1. Balanced(Held(n, m), HoldersOf(n), input, RowsLeft(n, m), AllRows(n, m))
  BY DEF Conserved, Running, RowsLeft, AllRows
<1>2. Held(n, m)' = Held(n, m)
  BY DEF Held
<1>3. RowsLeft(n, m)' = RowsLeft(n, m) /\ AllRows(n, m)' = AllRows(n, m)
  BY DEF RowsLeft, AllRows, RowsOfMonth
<1>4. HoldersOf(n)' = HoldersOf(n)
  OBVIOUS
<1> QED
  BY <1>1, <1>2, <1>3, <1>4, Zenon DEF Balanced, CountsAdd, TotalsAdd, ExtremesKept

(* Row j is counted in context i.                                          *)
LEMMA ConservedCount ==
  ASSUME MainInv, Conserved, Running, input' = input, NEW j \in NotCounted,
         NotCounted' = NotCounted \ {j},
         \A n \in Channels : HoldersOf(n)' = HoldersOf(n),
         NEW i \in Threads, \A n \in Channels : i \in HoldersOf(n),
         \A k \in Threads : k # i => TallyOf(ctx'[k]) = TallyOf(ctx[k]),
         TallyOf(ctx'[i]) = CountInto(TallyOf(ctx[i]), input[j].channel, input[j].month, input[j])
  PROVE  Conserved'
<1> SUFFICES ASSUME NEW n \in Channels, NEW m \in Months
             PROVE  Balanced(Held(n, m)', HoldersOf(n)', input', RowsLeft(n, m)', AllRows(n, m)')
  BY DEF Conserved, RowsLeft, AllRows, Balanced, CountsAdd, TotalsAdd, ExtremesKept
<1>1. Balanced(Held(n, m), HoldersOf(n), input, RowsLeft(n, m), AllRows(n, m))
  BY DEF Conserved, Running, RowsLeft, AllRows
<1>2. /\ \A k \in Threads : Held(n, m)[k] = TallyOf(ctx[k])[n][m]
      /\ \A k \in Threads : Held(n, m)'[k] = TallyOf(ctx'[k])[n][m]
      /\ \A k \in HoldersOf(n) : k \in Threads
  BY HolderFacts DEF Held
<1>3. AllRows(n, m)' = AllRows(n, m)
  BY DEF AllRows, RowsOfMonth
<1>4. HoldersOf(n)' = HoldersOf(n) /\ i \in HoldersOf(n)
  OBVIOUS
<1>5. \A k \in HoldersOf(n) : k # i => Held(n, m)'[k] = Held(n, m)[k]
  BY <1>2
<1>6. /\ j \in 1..Len(input) /\ input[j].channel \in Channels /\ input[j].month \in Months
      /\ TallyOf(ctx[i]) \in [Channels -> [Months -> StatsSet]]
  <2>1. j \in 1..Len(input) /\ input[j] \in Rows
    BY NotCountedInInput, RangeFacts
  <2>2. TallyOK(ctx[i])
    BY <1>4, HolderFacts DEF MainInv, Contexts
  <2> QED
    BY <2>1, <2>2, MainAssumption DEF TallyOK
<1>7. CASE input[j].channel = n /\ input[j].month = m
  <2>1. RowsLeft(n, m)' = RowsLeft(n, m) \ {j} /\ j \in RowsLeft(n, m)
    BY <1>7 DEF RowsLeft, RowsOfMonth
  <2>2. Held(n, m)'[i] = UpdateStats(Held(n, m)[i], input[j])
    BY <1>2, <1>6, <1>7 DEF CountInto
  <2>3. Balanced(Held(n, m)', HoldersOf(n), input, RowsLeft(n, m) \ {j}, AllRows(n, m))
    BY <1>1, <1>4, <1>5, <2>1, <2>2, LedgerFacts, BalancedMove
  <2> QED
    BY <1>3, <1>4, <2>1, <2>3
<1>8. CASE ~ (input[j].channel = n /\ input[j].month = m)
  <2>1. RowsLeft(n, m)' = RowsLeft(n, m)
    BY <1>8 DEF RowsLeft, RowsOfMonth
  <2>2. TallyOf(ctx'[i])[n][m] = TallyOf(ctx[i])[n][m]
    BY <1>6, <1>8 DEF CountInto
  <2>3. \A k \in HoldersOf(n) : Held(n, m)'[k] = Held(n, m)[k]
    BY <1>2, <1>4, <1>5, <2>2
  <2>4. Balanced(Held(n, m)', HoldersOf(n), input, RowsLeft(n, m), AllRows(n, m))
    BY <1>1, <2>3, BalancedSame
  <2> QED
    BY <1>3, <1>4, <2>1, <2>4
<1> QED
  BY <1>7, <1>8

(* Context i is initialised: it holds nothing yet.                         *)
LEMMA ConservedBegin ==
  ASSUME MainInv, Conserved, Running, input' = input, NotCounted' = NotCounted,
         NEW i \in Threads,
         \A n \in Channels : i \notin HoldersOf(n) /\ HoldersOf(n)' = HoldersOf(n) \cup {i},
         \A k \in Threads : k # i => TallyOf(ctx'[k]) = TallyOf(ctx[k]),
         ctx'[i] = InitCtx
  PROVE  Conserved'
<1> SUFFICES ASSUME NEW n \in Channels, NEW m \in Months
             PROVE  Balanced(Held(n, m)', HoldersOf(n)', input', RowsLeft(n, m)', AllRows(n, m)')
  BY DEF Conserved, RowsLeft, AllRows, Balanced, CountsAdd, TotalsAdd, ExtremesKept
<1>1. Balanced(Held(n, m), HoldersOf(n), input, RowsLeft(n, m), AllRows(n, m))
  BY DEF Conserved, Running, RowsLeft, AllRows
<1>2. /\ \A k \in Threads : Held(n, m)[k] = TallyOf(ctx[k])[n][m]
      /\ \A k \in Threads : Held(n, m)'[k] = TallyOf(ctx'[k])[n][m]
      /\ \A k \in HoldersOf(n) : k \in Threads
  BY HolderFacts DEF Held
<1>3. AllRows(n, m)' = AllRows(n, m) /\ RowsLeft(n, m)' = RowsLeft(n, m)
  BY DEF AllRows, RowsLeft, RowsOfMonth
<1>4. i \notin HoldersOf(n) /\ HoldersOf(n)' = HoldersOf(n) \cup {i}
  OBVIOUS
<1>5. \A k \in HoldersOf(n) : Held(n, m)'[k] = Held(n, m)[k]
  BY <1>2, <1>4
<1>6. Held(n, m)'[i] = NewStats
  BY <1>2, InitCtxTally DEF FreshStats
<1>7. Balanced(Held(n, m)', HoldersOf(n) \cup {i}, input, RowsLeft(n, m), AllRows(n, m))
  BY <1>1, <1>4, <1>5, <1>6, LedgerFacts, BalancedAdd
<1> QED
  BY <1>3, <1>4, <1>7

LEMMA ConservedFrom ==
  ASSUME \A n \in Channels, m \in Months :
            Balanced(Held(n, m)', HoldersOf(n)', input', RowsLeft(n, m)', AllRows(n, m)')
  PROVE  Conserved'
<1>1. ASSUME NEW n \in Channels, NEW m \in Months
      PROVE  Balanced(Held(n, m), HoldersOf(n), input,
                      RowsOfMonth(NotCounted, n, m), RowsOfMonth(DOMAIN input, n, m))'
  <2>1. Balanced(Held(n, m)', HoldersOf(n)', input', RowsLeft(n, m)', AllRows(n, m)')
    OBVIOUS
  <2> QED
    BY <2>1 DEF RowsLeft, AllRows, Balanced, CountsAdd, TotalsAdd, ExtremesKept
<1> QED
  BY <1>1 DEF Conserved

(* For the channels of N context k is added to context 0 and dropped.      *)
LEMMA ConservedMerge ==
  ASSUME MainInv, Conserved, Running, input' = input, NotCounted' = NotCounted,
         NEW k \in Threads, k # 0, NEW N, N \subseteq Channels,
         \A n \in N : 0 \in HoldersOf(n) /\ k \in HoldersOf(n) /\ HoldersOf(n)' = HoldersOf(n) \ {k},
         \A n \in Channels : n \notin N => HoldersOf(n)' = HoldersOf(n),
         \A i \in Threads : i # 0 => TallyOf(ctx'[i]) = TallyOf(ctx[i]),
         \A n \in N, m \in Months :
            TallyOf(ctx'[0])[n][m] = MergeStats(TallyOf(ctx[0])[n][m], TallyOf(ctx[k])[n][m]),
         \A n \in Channels : n \notin N => TallyOf(ctx'[0])[n] = TallyOf(ctx[0])[n]
  PROVE  Conserved'
<1> SUFFICES ASSUME NEW n \in Channels, NEW m \in Months
             PROVE  Balanced(Held(n, m)', HoldersOf(n)', input', RowsLeft(n, m)', AllRows(n, m)')
  BY ConservedFrom
<1>1. Balanced(Held(n, m), HoldersOf(n), input, RowsLeft(n, m), AllRows(n, m))
  BY DEF Conserved, Running, RowsLeft, AllRows
<1>2. /\ \A i \in Threads : Held(n, m)[i] = TallyOf(ctx[i])[n][m]
      /\ \A i \in Threads : Held(n, m)'[i] = TallyOf(ctx'[i])[n][m]
      /\ \A i \in HoldersOf(n) : i \in Threads
      /\ 0 \in Threads
  BY HolderFacts, RangeFacts DEF Held
<1>3. AllRows(n, m)' = AllRows(n, m) /\ RowsLeft(n, m)' = RowsLeft(n, m)
  BY DEF AllRows, RowsLeft, RowsOfMonth
<1>4. \A i \in HoldersOf(n) : i # 0 => Held(n, m)'[i] = Held(n, m)[i]
  BY <1>2
<1>5. CASE n \in N
  <2>1. 0 \in HoldersOf(n) /\ k \in HoldersOf(n) /\ HoldersOf(n)' = HoldersOf(n) \ {k}
    BY <1>5
  <2>2. Held(n, m)'[0] = MergeStats(Held(n, m)[0], Held(n, m)[k])
    BY <1>2, <1>5
  <2>3. Balanced(Held(n, m)', HoldersOf(n) \ {k}, input, RowsLeft(n, m), AllRows(n, m))
    BY <1>1, <1>4, <2>1, <2>2, LedgerFacts, BalancedMerge
  <2> QED
    BY <1>3, <2>1, <2>3
<1>6. CASE n \notin N
  <2>1. HoldersOf(n)' = HoldersOf(n)
    BY <1>6
  <2>2. \A i \in HoldersOf(n) : Held(n, m)'[i] = Held(n, m)[i]
    BY <1>2, <1>4, <1>6
  <2>3. Balanced(Held(n, m)', HoldersOf(n), input, RowsLeft(n, m), AllRows(n, m))
    BY <1>1, <2>2, BalancedSame
  <2> QED
    BY <1>3, <2>1, <2>3
<1> QED
  BY <1>5, <1>6

(* Who holds rows, at each stage of main.                                  *)
LEMMA HoldersCounting ==
  ASSUME MainInv, BeforeTail \/ pc = "buffer", NEW n
  PROVE  HoldersOf(n) = {i \in Active : Begun(i)}
BY DEF HoldersOf, Holders, Merged, BeforeTail, Begun

LEMMA HoldersMerging ==
  ASSUME MainInv, pc = "merge", NEW n
  PROVE  /\ HoldersOf(n) = {0} \cup {i \in Active : i >= t /\ ~ Merged(i, n)}
         /\ 0 \in Active /\ t # 0
<1>1. \A i \in Active : Begun(i)
  BY RangeFacts DEF MainInv, HandInv, Handed, AfterJoin, Ended, Begun, Active
<1>2. Holders = {0} \cup {i \in Active : i >= t}
  BY <1>1, RangeFacts DEF Holders, Begun, BeforeTail
<1>3. t # 0 /\ 0 \in Active
  BY RangeFacts
<1>4. ~ Merged(0, n)
  BY <1>3 DEF Merged
<1> QED
  BY <1>2, <1>3, <1>4 DEF HoldersOf

LEMMA HoldersWriting ==
  ASSUME MainInv, pc \in {"format", "write"}, NEW n
  PROVE  HoldersOf(n) = {0}
<1>1. phase[0] = "ended" /\ 0 \in Active
  BY RangeFacts DEF MainInv, HandInv, Handed, AfterJoin, Ended
<1> QED
  BY <1>1 DEF HoldersOf, Holders, Merged, BeforeTail

(* The shares and the tail are the input: every row is still to be counted. *)
LEMMA ConservedPartition ==
  ASSUME MainInv, Partition
  PROVE  Conserved'
<1>1. UNCHANGED <<input, phase, pos>> /\ pc = "start" /\ pc' = "create"
  BY DEF Partition, fixedVars, workerVars
<1>2. PICK n \in Nat : n = threads' /\ n >= 1 /\ n <= MaxThreads
  BY SharesFollow, MainAssumption
<1>3. /\ Len(input) \in Nat /\ DOMAIN input = 1..Len(input)
      /\ MaxThreads \in Nat
  BY RangeFacts
<1>4. /\ Active' = 0..(n - 1) /\ n - 1 \in 0..(n - 1)
      /\ \A i \in 0..(n - 1) : i \in Threads
  <2>1. n >= 1
    BY <1>2
  <2>2. n - 1 \in 0..(n - 1)
    BY <2>1
  <2>3. Active' = 0..(n - 1)
    BY <1>2 DEF Active
  <2>4. n <= MaxThreads /\ MaxThreads \in Nat
    BY <1>2, <1>3
  <2>5. \A i \in 0..(n - 1) : i \in Threads
    BY <2>4 DEF Threads
  <2> QED
    BY <2>2, <2>3, <2>5
<1>5. \A i \in Threads : phase'[i] = "idle"
  BY <1>1 DEF MainInv, HandInv, Handed, Idle
<1>6. /\ \A i \in 0..(n - 1) : first'[i] \in 1..(Len(input) + 1) /\ last'[i] \in 1..(Len(input) + 1)
      /\ first'[0] = 1
      /\ \A i \in 1..(n - 1) : first'[i] = last'[i - 1]
  BY <1>2, <1>4, SharesFollow
<1>7. LeftInTail' = last'[n - 1]..Len(input)
  <2>1. BeforeTail'
    BY <1>1 DEF BeforeTail
  <2> QED
    BY <1>1, <1>2, <2>1 DEF LeftInTail
<1>8. \A i \in 0..(n - 1) : LeftTo(i)' = first'[i]..(last'[i] - 1)
  BY <1>4, <1>5 DEF LeftTo
<1>9. NotCounted' = LeftInTail' \cup UNION {LeftTo(i)' : i \in 0..(n - 1)}
  BY <1>4 DEF NotCounted
<1>10. NotCounted' \subseteq 1..Len(input)
  <2>1. LeftInTail' \subseteq 1..Len(input)
    <3>1. last'[n - 1] \in 1..(Len(input) + 1)
      BY <1>4, <1>6
    <3>2. last'[n - 1]..Len(input) \subseteq 1..Len(input)
      BY <1>3, <3>1
    <3> QED
      BY <1>7, <3>2
  <2>2. ASSUME NEW i \in 0..(n - 1)
        PROVE  LeftTo(i)' \subseteq 1..Len(input)
    <3>1. first'[i] \in 1..(Len(input) + 1) /\ last'[i] \in 1..(Len(input) + 1)
      BY <1>6
    <3>2. first'[i]..(last'[i] - 1) \subseteq 1..Len(input)
      BY <1>3, <3>1
    <3> QED
      BY <1>8, <3>2
  <2> QED
    BY <1>9, <2>1, <2>2
<1>11. ASSUME NEW j \in 1..Len(input)
       PROVE  j \in NotCounted'
  <2>1. CASE j >= last'[n - 1]
    <3>1. last'[n - 1] \in 1..(Len(input) + 1)
      BY <1>4, <1>6
    <3>2. j \in last'[n - 1]..Len(input)
      BY <1>3, <2>1, <3>1
    <3> QED
      BY <1>7, <1>9, <3>2
  <2>2. CASE ~ (j >= last'[n - 1])
    <3> DEFINE S == {i \in 0..(n - 1) : j < last'[i]}
    <3>1. n - 1 \in S
      <4>1. last'[n - 1] \in 1..(Len(input) + 1) /\ j \in Nat
        BY <1>4, <1>6
      <4>2. j < last'[n - 1]
        BY <2>2, <4>1
      <4> QED
        BY <1>4, <4>2
    <3>2. S \subseteq Nat
      OBVIOUS
    <3>3. PICK i \in S : \A k \in S : i <= k
      BY <3>1, <3>2, LeastNat, Zenon
    <3>4. i \in 0..(n - 1) /\ j < last'[i]
      OBVIOUS
    <3>5. first'[i] <= j
      <4>1. CASE i = 0
        BY <1>6, <4>1
      <4>2. CASE i # 0
        <5>1. PICK k \in 0..(n - 1) : k = i - 1 /\ ~ (i <= k) /\ i \in 1..(n - 1)
          BY <3>4, <4>2
        <5>2. k \notin S
          BY <3>3, <5>1
        <5>3. ~ (j < last'[k]) /\ last'[k] \in 1..(Len(input) + 1) /\ first'[i] = last'[k]
          BY <1>6, <5>1, <5>2
        <5> QED
          BY <1>3, <5>3
      <4> QED
        BY <4>1, <4>2
    <3>6. j \in first'[i]..(last'[i] - 1)
      <4>1. first'[i] \in Int /\ last'[i] \in Int
        BY <1>6, <3>4
      <4> QED
        BY <3>4, <3>5, <4>1
    <3>7. j \in LeftTo(i)'
      BY <1>8, <3>4, <3>6
    <3> QED
      BY <1>9, <3>4, <3>7
  <2> QED
    BY <2>1, <2>2
<1>12. NotCounted' = DOMAIN input
  BY <1>3, <1>10, <1>11
<1>13. ASSUME NEW c \in Channels, NEW m \in Months
       PROVE  Balanced(Held(c, m)', HoldersOf(c)', input', RowsLeft(c, m)', AllRows(c, m)')
  <2>1. HoldersOf(c)' = {}
    <3>1. Holders' = {}
      BY <1>4, <1>5 DEF Holders
    <3> QED
      BY <3>1 DEF HoldersOf
  <2>2. AllRows(c, m)' = AllRows(c, m) /\ RowsLeft(c, m)' = AllRows(c, m)
    BY <1>1, <1>12 DEF AllRows, RowsLeft, RowsOfMonth
  <2>3. IsFiniteSet(AllRows(c, m)) /\ RowsOK(input, AllRows(c, m))
    BY LedgerFacts
  <2>4. Balanced(Held(c, m)', {}, input, AllRows(c, m), AllRows(c, m))
    BY <2>3, BalancedAll
  <2> QED
    BY <1>1, <2>1, <2>2, <2>4
<1> QED
  BY <1>13, ConservedFrom

(* What a step of worker i leaves of the rows not yet counted.             *)
LEMMA OthersLeft ==
  ASSUME MainInv, NEW i \in Active, BeforeTail,
         UNCHANGED <<input, pc, threads, first, last, bp>>,
         \A k \in Active : k # i => phase'[k] = phase[k] /\ pos'[k] = pos[k]
  PROVE  /\ LeftInTail' = LeftInTail
         /\ \A k \in Active : k # i => LeftTo(k)' = LeftTo(k)
         /\ NotCounted' = LeftInTail \cup UNION {LeftTo(k)' : k \in Active}
<1>1. LeftInTail' = LeftInTail
  BY DEF LeftInTail, BeforeTail
<1>2. \A k \in Active : k # i => LeftTo(k)' = LeftTo(k)
  BY DEF LeftTo
<1>3. Active' = Active
  BY DEF Active
<1> QED
  BY <1>1, <1>2, <1>3 DEF NotCounted

(* The shares do not overlap, so a row is in one of them at most.          *)
LEMMA OneShare ==
  ASSUME MainInv, BeforeTail, NEW i \in Active, NEW j \in first[i]..(last[i] - 1)
  PROVE  /\ j \notin LeftInTail
         /\ \A k \in Active : k # i => j \notin LeftTo(k)
<1>1. /\ first[i] \in Int /\ last[i] \in Int /\ last[threads - 1] \in Int
      /\ \A k \in Active : first[k] \in Int /\ last[k] \in Int /\ k \in Nat
  BY RangeFacts
<1>2. pc \notin {"start", "exit"}
  BY DEF BeforeTail
<1>3. last[i] <= last[threads - 1]
  BY <1>2 DEF MainInv, Shares
<1>4. j \notin LeftInTail
  BY <1>1, <1>3 DEF LeftInTail
<1>5. ASSUME NEW k \in Active, k # i, j \in LeftTo(k)
      PROVE  FALSE
  <2>1. j \in first[k]..(last[k] - 1)
    BY <1>5 DEF LeftTo
  <2>2. k < i \/ i < k
    BY <1>1, <1>5
  <2>3. last[k] <= first[i] \/ last[i] <= first[k]
    BY <1>2, <2>2 DEF MainInv, Shares
  <2> QED
    BY <1>1, <2>1, <2>3
<1> QED
  BY <1>4, <1>5

LEMMA ConservedWorker ==
  ASSUME MainInv, Conserved, NEW i \in Threads, WorkerStep(i)
  PROVE  Conserved'
<1>1. /\ UNCHANGED <<hash, input, pc, threads, first, last, bp, t, sc, created>>
      /\ i \in Active /\ BeforeTail
  BY WorkerFacts DEF fixedVars, shareVars
<1>2. /\ DOMAIN phase = Threads /\ DOMAIN pos = Threads /\ DOMAIN ctx = Threads
      /\ phase[i] \in {"begin", "sample", "rest"} /\ hash \in [Channels -> Slots]
  BY WorkerFacts DEF MainInv, HandInv, Range1, InRange, Contexts
<1>3. Running /\ Active' = Active
  BY <1>1 DEF BeforeTail, Running, Active
<1>4. /\ \A n \in Channels : HoldersOf(n) = {k \in Active : Begun(k)}
      /\ \A n \in Channels : HoldersOf(n)' = {k \in Active : Begun(k)'}
  <2>1. \A n \in Channels : HoldersOf(n) = {k \in Active : Begun(k)}
    BY <1>1, HoldersCounting
  <2>2. Holders' = {k \in Active : Begun(k)'}
    BY <1>1, <1>3 DEF Holders, BeforeTail, Begun
  <2>3. \A n \in Channels : HoldersOf(n)' = Holders'
    BY <1>1 DEF HoldersOf, Merged, BeforeTail
  <2> QED
    BY <2>1, <2>2, <2>3
<1>5. \A k \in Active : k \in Threads
  BY RangeFacts
<1>6. CASE BeginWorker(i)
  <2>1. /\ phase[i] = "begin" /\ ctx' = [ctx EXCEPT ![i] = InitCtx]
        /\ pos' = [pos EXCEPT ![i] = first[i]]
        /\ \E ph \in {"sample", "rest"} : phase' = [phase EXCEPT ![i] = ph]
    BY <1>6 DEF BeginWorker
  <2>2. /\ \A k \in Threads : k # i => phase'[k] = phase[k] /\ pos'[k] = pos[k] /\ ctx'[k] = ctx[k]
        /\ phase'[i] \in {"sample", "rest"} /\ pos'[i] = first[i] /\ ctx'[i] = InitCtx
    BY <1>2, <2>1
  <2>3. LeftTo(i)' = LeftTo(i)
    <3>1. first[i] \in Int /\ last[i] \in Int
      BY RangeFacts
    <3>2. LeftTo(i) = first[i]..(last[i] - 1)
      BY <2>1 DEF LeftTo
    <3>3. LeftTo(i)' = {j \in first[i]..(last[i] - 1) : j >= first[i]}
      BY <1>1, <2>2 DEF LeftTo
    <3> QED
      BY <3>1, <3>2, <3>3
  <2>4. NotCounted' = NotCounted
    <3>1. /\ LeftInTail' = LeftInTail
          /\ \A k \in Active : LeftTo(k)' = LeftTo(k)
          /\ NotCounted' = LeftInTail \cup UNION {LeftTo(k)' : k \in Active}
      BY <1>1, <1>5, <2>2, <2>3, OthersLeft
    <3> QED
      BY <3>1, Zenon DEF NotCounted
  <2>5. \A n \in Channels : i \notin HoldersOf(n) /\ HoldersOf(n)' = HoldersOf(n) \cup {i}
    <3>1. ~ Begun(i) /\ Begun(i)' /\ \A k \in Threads : k # i => (Begun(k)' <=> Begun(k))
      BY <2>1, <2>2 DEF Begun
    <3> QED
      BY <1>1, <1>4, <1>5, <3>1
  <2>6. \A k \in Threads : k # i => TallyOf(ctx'[k]) = TallyOf(ctx[k])
    BY <2>2
  <2> QED
    BY <1>1, <1>3, <2>2, <2>4, <2>5, <2>6, ConservedBegin
<1>7. CASE CountRow(i)
  <2>1. /\ phase[i] \in {"sample", "rest"} /\ pos[i] < last[i]
        /\ ProbeEnds(ctx[i], hash, input[pos[i]].channel)
        /\ ctx' = [ctx EXCEPT ![i] = ProcessRow(ctx[i], hash, input[pos[i]])]
        /\ pos' = [pos EXCEPT ![i] = pos[i] + 1]
        /\ phase' = phase
    BY <1>2, <1>7 DEF CountRow
  <2>2. PICK j \in Int : j = pos[i]
    BY RangeFacts
  <2>3. /\ \A k \in Threads : k # i => pos'[k] = pos[k] /\ ctx'[k] = ctx[k]
        /\ pos'[i] = j + 1 /\ ctx'[i] = ProcessRow(ctx[i], hash, input[j])
    BY <1>2, <2>1, <2>2
  <2>4. first[i] \in Int /\ last[i] \in Int /\ first[i] <= j /\ j < last[i] /\ Begun(i)
    BY <2>1, <2>2, RangeFacts DEF MainInv, Positions, Begun
  <2>5. j \in first[i]..(last[i] - 1)
    BY <2>4
  <2>6. j \in LeftTo(i) /\ LeftTo(i)' = LeftTo(i) \ {j}
    <3>1. LeftTo(i) = {x \in first[i]..(last[i] - 1) : x >= j}
      BY <2>1, <2>2 DEF LeftTo
    <3>2. LeftTo(i)' = {x \in first[i]..(last[i] - 1) : x >= j + 1}
      BY <1>1, <2>1, <2>3 DEF LeftTo
    <3>3. {x \in first[i]..(last[i] - 1) : x >= j + 1} = {x \in first[i]..(last[i] - 1) : x >= j} \ {j}
      BY <2>4
    <3> QED
      BY <2>5, <3>1, <3>2, <3>3
  <2>7. j \in NotCounted /\ NotCounted' = NotCounted \ {j}
    <3>1. j \notin LeftInTail /\ \A k \in Active : k # i => j \notin LeftTo(k)
      BY <1>1, <2>5, OneShare
    <3>2. /\ \A k \in Active : k # i => LeftTo(k)' = LeftTo(k)
          /\ NotCounted' = LeftInTail \cup UNION {LeftTo(k)' : k \in Active}
      BY <1>1, <1>5, <2>1, <2>3, OthersLeft
    <3>3. \A k \in Active : LeftTo(k)' = LeftTo(k) \ {j}
      BY <2>6, <3>1, <3>2
    <3>4. NotCounted' \subseteq NotCounted \ {j}
      BY <3>1, <3>2, <3>3 DEF NotCounted
    <3>5. NotCounted \ {j} \subseteq NotCounted'
      BY <3>2, <3>3 DEF NotCounted
    <3>6. j \in NotCounted
      BY <1>1, <2>6 DEF NotCounted
    <3> QED
      BY <3>4, <3>5, <3>6
  <2>8. \A n \in Channels : i \in HoldersOf(n) /\ HoldersOf(n)' = HoldersOf(n)
    <3>1. \A k \in Threads : Begun(k)' <=> Begun(k)
      BY <2>1 DEF Begun
    <3> QED
      BY <1>1, <1>4, <1>5, <2>4, <3>1
  <2>9. TallyOf(ctx'[i]) = CountInto(TallyOf(ctx[i]), input[j].channel, input[j].month, input[j])
    <3>1. CtxOK(ctx[i], hash) /\ TallyOK(ctx[i])
      BY <2>4 DEF MainInv, Contexts
    <3>2. input[j] \in Rows
      BY <2>7, NotCountedInInput, RangeFacts
    <3> QED
      BY <2>1, <2>2, <2>3, <3>1, <3>2, RowCounted
  <2>10. \A k \in Threads : k # i => TallyOf(ctx'[k]) = TallyOf(ctx[k])
    BY <2>3
  <2> QED
    BY <1>1, <1>3, <2>7, <2>8, <2>9, <2>10, ConservedCount
<1>8. CASE Renumber(i) \/ EndWorker(i)
  <2>1. /\ phase[i] \in {"sample", "rest"} /\ pos' = pos
        /\ \E ph \in {"rest", "ended"} :
             /\ phase' = [phase EXCEPT ![i] = ph]
             /\ ph = "ended" => phase[i] = "rest" /\ pos[i] = last[i]
    BY <1>8 DEF Renumber, EndWorker
  <2>2. /\ \A k \in Threads : k # i => phase'[k] = phase[k]
        /\ phase'[i] \in {"rest", "ended"}
        /\ phase'[i] = "ended" => pos[i] = last[i]
    BY <1>2, <2>1
  <2>3. LeftTo(i)' = LeftTo(i)
    <3>1. first[i] \in Int /\ last[i] \in Int /\ pos[i] \in Int
      BY RangeFacts
    <3>2. LeftTo(i) = {x \in first[i]..(last[i] - 1) : x >= pos[i]}
      BY <2>1 DEF LeftTo
    <3>3. CASE phase'[i] = "rest"
      <4>1. LeftTo(i)' = {x \in first[i]..(last[i] - 1) : x >= pos[i]}
        BY <1>1, <2>1, <3>3 DEF LeftTo
      <4> QED
        BY <3>2, <4>1
    <3>4. CASE phase'[i] = "ended"
      <4>1. LeftTo(i)' = {}
        BY <3>4 DEF LeftTo
      <4>2. {x \in first[i]..(last[i] - 1) : x >= last[i]} = {}
        BY <3>1
      <4> QED
        BY <2>2, <3>2, <3>4, <4>1, <4>2
    <3> QED
      BY <2>2, <3>3, <3>4
  <2>4. NotCounted' = NotCounted
    <3>1. /\ LeftInTail' = LeftInTail
          /\ \A k \in Active : LeftTo(k)' = LeftTo(k)
          /\ NotCounted' = LeftInTail \cup UNION {LeftTo(k)' : k \in Active}
      BY <1>1, <1>5, <2>1, <2>2, <2>3, OthersLeft
    <3> QED
      BY <3>1, Zenon DEF NotCounted
  <2>5. \A n \in Channels : HoldersOf(n)' = HoldersOf(n)
    <3>1. \A k \in Threads : Begun(k)' <=> Begun(k)
      BY <2>1, <2>2 DEF Begun
    <3> QED
      BY <1>4, <1>5, <3>1
  <2>6. \A k \in Threads : TallyOf(ctx'[k]) = TallyOf(ctx[k])
    <3>1. CASE Renumber(i)
      <4>1. PICK c \in RenumberResults(ctx[i]) : ctx' = [ctx EXCEPT ![i] = c]
        BY <3>1 DEF Renumber
      <4>2. CtxOK(ctx[i], hash)
        BY <2>1 DEF MainInv, Contexts, Begun
      <4>3. TallyOf(c) = TallyOf(ctx[i])
        BY <1>2, <4>1, <4>2, RenumberKeeps
      <4> QED
        BY <1>2, <4>1, <4>3
    <3>2. CASE EndWorker(i)
      BY <3>2 DEF EndWorker
    <3> QED
      BY <1>8, <3>1, <3>2
  <2> QED
    BY <1>1, <1>3, <2>4, <2>5, <2>6, ConservedSame
<1> QED
  BY <1>6, <1>7, <1>8 DEF WorkerStep

(* Once main has joined, only the tail can be uncounted.                   *)
LEMMA JoinedLeft ==
  ASSUME MainInv, pc \in AfterJoin
  PROVE  /\ \A i \in Active : phase[i] = "ended" /\ Begun(i)
         /\ NotCounted = bp..Len(input)
<1>1. \A i \in Active : phase[i] = "ended" /\ Begun(i)
  BY RangeFacts DEF MainInv, HandInv, Handed, Ended, Begun, Active
<1>2. \A i \in Active : LeftTo(i) = {}
  BY <1>1 DEF LeftTo
<1>3. LeftInTail = bp..Len(input)
  BY DEF LeftInTail, BeforeTail, AfterJoin
<1>4. UNION {LeftTo(i) : i \in Active} = {}
  BY <1>2
<1> QED
  BY <1>1, <1>3, <1>4 DEF NotCounted

(* A step of main that moves no worker's place and opens no context.       *)
LEMMA ConservedQuiet ==
  ASSUME MainInv, Conserved, BeforeTail, BeforeTail',
         UNCHANGED <<input, threads, first, last, pos, ctx>>,
         \A i \in Active : phase'[i] = phase[i] \/ (Idle(i) /\ phase'[i] = "begin")
  PROVE  Conserved'
<1>1. Active' = Active /\ Running
  BY DEF Active, BeforeTail, Running
<1>2. \A i \in Active : (Begun(i)' <=> Begun(i)) /\ LeftTo(i)' = LeftTo(i)
  BY DEF Begun, LeftTo, Idle
<1>3. LeftInTail' = LeftInTail
  BY DEF LeftInTail
<1>4. NotCounted' = NotCounted
  <2>1. NotCounted' = LeftInTail \cup UNION {LeftTo(i)' : i \in Active}
    BY <1>1, <1>3 DEF NotCounted
  <2> QED
    BY <1>2, <2>1, Zenon DEF NotCounted
<1>5. ASSUME NEW n \in Channels
      PROVE  HoldersOf(n)' = HoldersOf(n)
  <2>1. HoldersOf(n) = {i \in Active : Begun(i)}
    BY HoldersCounting
  <2>2. Holders' = {i \in Active : Begun(i)'}
    BY <1>1 DEF Holders, Begun
  <2>3. HoldersOf(n)' = Holders'
    BY DEF HoldersOf, Merged, BeforeTail
  <2> QED
    BY <1>2, <2>1, <2>2, <2>3
<1> QED
  BY <1>1, <1>4, <1>5, ConservedSame

LEMMA ConservedBeforeJoin ==
  ASSUME MainInv, Conserved,
         CreateThread \/ CallWorker \/ WorkerReturns \/ CallOwn \/ OwnReturns \/ Join
  PROVE  Conserved'
<1>1. /\ UNCHANGED <<input, threads, first, last, pos, ctx>> /\ BeforeTail /\ BeforeTail'
  BY DEF CreateThread, CallWorker, WorkerReturns, CallOwn, OwnReturns, Join, fixedVars, shareVars,
     workerVars, BeforeTail
<1>2. /\ HandInv /\ phase \in [Threads -> {"idle", "begin", "sample", "rest", "ended"}]
      /\ \A i \in Active : i \in Threads
  BY RangeFacts DEF MainInv, HandInv, Range1
<1>3. CASE CreateThread \/ CallWorker
  <2>1. pc = "create" /\ t < threads /\ phase' = [phase EXCEPT ![t] = "begin"]
    BY <1>3 DEF CreateThread, CallWorker
  <2>2. t \in Threads /\ Idle(t)
    <3>1. t \in Threads /\ t >= t
      BY <2>1, RangeFacts DEF Threads
    <3> QED
      BY <1>2, <2>1, <3>1 DEF HandInv, Handed
  <2>3. \A i \in Active : phase'[i] = phase[i] \/ (Idle(i) /\ phase'[i] = "begin")
    BY <1>2, <2>1, <2>2 DEF Idle
  <2> QED
    BY <1>1, <2>3, ConservedQuiet
<1>4. CASE CallOwn
  <2>1. pc = "create" /\ phase' = [phase EXCEPT ![0] = "begin"]
    BY <1>4 DEF CallOwn
  <2>2. Idle(0)
    BY <1>2, <2>1 DEF HandInv, Handed
  <2>3. \A i \in Active : phase'[i] = phase[i] \/ (Idle(i) /\ phase'[i] = "begin")
    BY <1>2, <2>1, <2>2 DEF Idle
  <2> QED
    BY <1>1, <2>3, ConservedQuiet
<1>5. CASE WorkerReturns \/ OwnReturns \/ Join
  <2>1. phase' = phase
    BY <1>5 DEF WorkerReturns, OwnReturns, Join, workerVars
  <2>2. \A i \in Active : phase'[i] = phase[i] \/ (Idle(i) /\ phase'[i] = "begin")
    BY <2>1
  <2> QED
    BY <1>1, <2>2, ConservedQuiet
<1> QED
  BY <1>3, <1>4, <1>5

(* The tail: main's own rows, counted into its own context.                *)
LEMMA ConservedTail ==
  ASSUME MainInv, Conserved, Joined \/ TailRow \/ TailDone
  PROVE  Conserved'
<1>1. UNCHANGED <<hash, input, threads, first, last, phase, pos>> /\ Active' = Active
  BY DEF Joined, TailRow, TailDone, fixedVars, shareVars, workerVars, Active
<1>2. \A i \in Active : i \in Threads
  BY RangeFacts
<1>3. CASE Joined
  <2>1. pc = "join" /\ t = threads /\ pc' = "buffer" /\ bp' = last[threads - 1] /\ ctx' = ctx
    BY <1>3 DEF Joined
  <2>2. LeftInTail' = LeftInTail /\ Running /\ BeforeTail
    BY <1>1, <2>1 DEF LeftInTail, BeforeTail, Running
  <2>3. NotCounted' = NotCounted
    <3>1. \A i \in Active : LeftTo(i)' = LeftTo(i)
      BY <1>1 DEF LeftTo
    <3>2. NotCounted' = LeftInTail \cup UNION {LeftTo(i)' : i \in Active}
      BY <1>1, <2>2 DEF NotCounted
    <3> QED
      BY <3>1, <3>2, Zenon DEF NotCounted
  <2>4. ASSUME NEW n \in Channels
        PROVE  HoldersOf(n)' = HoldersOf(n)
    <3>1. HoldersOf(n) = {i \in Active : Begun(i)}
      BY <2>2, HoldersCounting
    <3>2. Holders' = {i \in Active : Begun(i)}
      BY <1>1, <2>1 DEF Holders, Begun
    <3>3. HoldersOf(n)' = Holders'
      BY <2>1 DEF HoldersOf, Merged
    <3> QED
      BY <3>1, <3>2, <3>3
  <2> QED
    BY <1>1, <2>1, <2>2, <2>3, <2>4, ConservedSame
<1>4. CASE TailRow
  <2>1. /\ pc = "buffer" /\ pc' = "buffer" /\ bp <= Len(input) /\ bp' = bp + 1
        /\ ProbeEnds(ctx[0], hash, input[bp].channel)
        /\ ctx' = [ctx EXCEPT ![0] = ProcessRow(ctx[0], hash, input[bp])]
    BY <1>4, RangeFacts DEF TailRow, MainInv, Contexts
  <2>2. Running /\ \A i \in Active : phase[i] = "ended" /\ Begun(i)
    BY <2>1, JoinedLeft DEF Running, AfterJoin
  <2>3. NotCounted = bp..Len(input) /\ 0 \in Active /\ bp \in Int /\ Len(input) \in Nat
    BY <2>1, JoinedLeft, RangeFacts DEF AfterJoin
  <2>4. NotCounted' = (bp + 1)..Len(input)
    <3>1. \A i \in Active : LeftTo(i)' = {}
      BY <1>1, <2>2 DEF LeftTo
    <3>2. LeftInTail' = (bp + 1)..Len(input)
      BY <1>1, <2>1 DEF LeftInTail, BeforeTail
    <3> QED
      BY <1>1, <3>1, <3>2 DEF NotCounted
  <2>5. bp \in NotCounted /\ NotCounted' = NotCounted \ {bp}
    BY <2>1, <2>3, <2>4
  <2>6. ASSUME NEW n \in Channels
        PROVE  HoldersOf(n)' = HoldersOf(n) /\ 0 \in HoldersOf(n)
    <3>1. HoldersOf(n) = {i \in Active : Begun(i)}
      BY <2>1, HoldersCounting
    <3>2. Holders' = {i \in Active : Begun(i)}
      BY <1>1, <2>1 DEF Holders, Begun
    <3>3. HoldersOf(n)' = Holders'
      BY <2>1 DEF HoldersOf, Merged
    <3> QED
      BY <2>2, <2>3, <3>1, <3>2, <3>3
  <2>7. DOMAIN ctx = Threads /\ 0 \in Threads /\ CtxOK(ctx[0], hash) /\ TallyOK(ctx[0])
    BY <1>2, <2>2, <2>3 DEF MainInv, Contexts
  <2>8. /\ ctx'[0] = ProcessRow(ctx[0], hash, input[bp])
        /\ \A k \in Threads : k # 0 => TallyOf(ctx'[k]) = TallyOf(ctx[k])
    BY <2>1, <2>7
  <2>9. TallyOf(ctx'[0]) = CountInto(TallyOf(ctx[0]), input[bp].channel, input[bp].month, input[bp])
    <3>1. input[bp] \in Rows
      BY <2>5, NotCountedInInput, RangeFacts
    <3> QED
      BY <2>1, <2>7, <2>8, <3>1, RowCounted
  <2> QED
    BY <1>1, <2>2, <2>5, <2>6, <2>7, <2>8, <2>9, ConservedCount
<1>5. CASE TailDone
  <2>1. /\ pc = "buffer" /\ pc' = "merge" /\ t' = 1 /\ sc' = 0 /\ ctx' = ctx /\ bp' = bp
    BY <1>5 DEF TailDone
  <2>2. Running /\ \A i \in Active : phase[i] = "ended" /\ Begun(i)
    BY <2>1, JoinedLeft DEF Running, AfterJoin
  <2>3. NotCounted' = NotCounted
    <3>1. \A i \in Active : LeftTo(i)' = LeftTo(i)
      BY <1>1 DEF LeftTo
    <3>2. LeftInTail' = LeftInTail
      BY <1>1, <2>1 DEF LeftInTail, BeforeTail
    <3>3. NotCounted' = LeftInTail \cup UNION {LeftTo(i)' : i \in Active}
      BY <1>1, <3>2 DEF NotCounted
    <3> QED
      BY <3>1, <3>3, Zenon DEF NotCounted
  <2>4. ASSUME NEW n \in Channels
        PROVE  HoldersOf(n)' = HoldersOf(n)
    <3>1. HoldersOf(n) = Active
      BY <2>1, <2>2, HoldersCounting
    <3>2. \A i \in Active : i = 0 \/ i >= 1
      BY RangeFacts
    <3>3. Holders' = Active
      BY <1>1, <2>1, <2>2, <3>2 DEF Holders, Begun
    <3>4. \A i : ~ Merged(i, n)'
      <4>1. 0..(0 - 1) = {}
        OBVIOUS
      <4> QED
        BY <2>1, <4>1 DEF Merged
    <3> QED
      BY <3>1, <3>3, <3>4 DEF HoldersOf
  <2> QED
    BY <1>1, <2>1, <2>2, <2>3, <2>4, ConservedSame
<1> QED
  BY <1>3, <1>4, <1>5

(* A channel of ctx[t] is added to ctx[0]; from then on only ctx[0] holds  *)
(* its rows.                                                               *)
LEMMA ConservedMergeNext ==
  ASSUME MainInv, Conserved, MergeNext
  PROVE  Conserved'
<1>1. /\ UNCHANGED <<hash, input, pc, threads, first, last, phase, pos, t, bp>>
      /\ pc = "merge" /\ t < threads /\ sc < ctx[t].count /\ sc' = sc + 1
      /\ ProbeEnds(ctx[0], hash, ctx[t].names[sc])
      /\ ctx' = [ctx EXCEPT ![0] = MergeChannel(ctx[0], hash, ctx[t], sc)]
  BY RangeFacts DEF MergeNext, fixedVars, shareVars, workerVars, MainInv, Contexts
<1>2. /\ t \in Active /\ 0 \in Active /\ t # 0 /\ sc \in Nat
      /\ \A i \in Active : i \in Threads
  <2>1. t \in Active /\ 0 \in Active /\ t # 0 /\ \A i \in Active : i \in Threads
    BY <1>1, RangeFacts DEF Active
  <2>2. sc \in Nat
    BY SizesAssumption DEF MainInv, InRange
  <2> QED
    BY <2>1, <2>2
<1>3. Active' = Active /\ Running
  BY <1>1 DEF Active, Running
<1>4. /\ CtxOK(ctx[0], hash) /\ TallyOK(ctx[0])
      /\ CtxOK(ctx[t], hash) /\ TallyOK(ctx[t])
      /\ DOMAIN ctx = Threads /\ hash \in [Channels -> Slots]
  <2>1. Begun(0) /\ Begun(t)
    BY <1>1, <1>2, JoinedLeft DEF AfterJoin
  <2> QED
    BY <1>2, <2>1 DEF MainInv, Contexts, InRange
<1>5. sc \in Known(ctx[t]) /\ 0..(sc - 1) \subseteq Known(ctx[t]) /\ sc \notin 0..(sc - 1)
  BY <1>1, <1>2, <1>4, SizesAssumption DEF Known, CtxOK
<1>6. /\ ctx[t].names[sc] \in Channels
      /\ TallyOf(MergeChannel(ctx[0], hash, ctx[t], sc)) =
           [TallyOf(ctx[0]) EXCEPT ![ctx[t].names[sc]] =
              [m \in Months |-> MergeStats(TallyOf(ctx[0])[ctx[t].names[sc]][m],
                                           TallyOf(ctx[t])[ctx[t].names[sc]][m])]]
  BY <1>1, <1>4, <1>5, MergeChannelFacts
<1>7. /\ ctx'[0] = MergeChannel(ctx[0], hash, ctx[t], sc)
      /\ \A i \in Threads : i # 0 => ctx'[i] = ctx[i]
  BY <1>1, <1>2, <1>4
<1> PICK c \in Channels : c = ctx[t].names[sc]
  BY <1>6
<1>8. PICK k \in Active : k = t /\ k # 0 /\ k \in Threads
  BY <1>2
<1>9. \A n : Merged(k, n)' <=> Merged(k, n) \/ n = c
  <2>1. \A x : x \in 0..(sc' - 1) <=> x \in 0..(sc - 1) \/ x = sc
    BY <1>1, <1>2
  <2>2. \A n : Merged(k, n) <=> \E x \in 0..(sc - 1) : ctx[k].names[x] = n
    BY <1>1, <1>8 DEF Merged
  <2>3. \A n : Merged(k, n)' <=> \E x \in 0..(sc' - 1) : ctx[k].names[x] = n
    <3>1. ctx'[k] = ctx[k] /\ pc' = "merge" /\ k = t'
      BY <1>1, <1>7, <1>8
    <3> QED
      BY <3>1 DEF Merged
  <2>4. ctx[k].names[sc] = c
    BY <1>8
  <2> QED
    BY <2>1, <2>2, <2>3, <2>4
<1>10. \A i, n : i # k => ~ Merged(i, n) /\ ~ Merged(i, n)'
  BY <1>1, <1>8 DEF Merged
<1>11. ~ Merged(k, c)
  <2>1. \A i, j \in Known(ctx[t]) : ctx[t].names[i] = ctx[t].names[j] => i = j
    BY <1>4 DEF CtxOK, TableOK
  <2> QED
    BY <1>5, <1>8, <2>1 DEF Merged
<1>12. Holders' = Holders /\ 0 \in Holders /\ k \in Holders
  <2>1. Holders' = Holders
    BY <1>1, <1>3 DEF Holders, BeforeTail
  <2>2. \A i \in Active : Begun(i)
    BY <1>1, JoinedLeft DEF AfterJoin
  <2> QED
    BY <1>1, <1>2, <1>8, <2>1, <2>2, RangeFacts DEF Holders, Begun
<1>13. 0 \in HoldersOf(c) /\ k \in HoldersOf(c) /\ HoldersOf(c)' = HoldersOf(c) \ {k}
  <2>1. 0 \in HoldersOf(c) /\ k \in HoldersOf(c)
    BY <1>8, <1>10, <1>11, <1>12 DEF HoldersOf
  <2>2. HoldersOf(c)' = {i \in Holders : ~ Merged(i, c)'}
    BY <1>12 DEF HoldersOf
  <2>3. \A i : Merged(i, c)' <=> Merged(i, c) \/ i = k
    BY <1>9, <1>10
  <2> QED
    BY <2>1, <2>2, <2>3 DEF HoldersOf
<1>14. ASSUME NEW n \in Channels, n # c
       PROVE  HoldersOf(n)' = HoldersOf(n)
  <2>1. HoldersOf(n)' = {i \in Holders : ~ Merged(i, n)'}
    BY <1>12 DEF HoldersOf
  <2>2. \A i : Merged(i, n)' <=> Merged(i, n)
    BY <1>9, <1>10, <1>14
  <2> QED
    BY <2>1, <2>2 DEF HoldersOf
<1>15. NotCounted' = NotCounted
  <2>1. NotCounted = bp..Len(input) /\ \A i \in Active : phase[i] = "ended"
    BY <1>1, JoinedLeft DEF AfterJoin
  <2>2. \A i \in Active : LeftTo(i)' = {}
    BY <1>1, <2>1 DEF LeftTo
  <2>3. LeftInTail' = bp..Len(input)
    BY <1>1 DEF LeftInTail, BeforeTail
  <2>4. UNION {LeftTo(i)' : i \in Active} = {}
    BY <2>2
  <2> QED
    BY <1>3, <2>1, <2>3, <2>4 DEF NotCounted
<1>16. \A i \in Threads : i # 0 => TallyOf(ctx'[i]) = TallyOf(ctx[i])
  BY <1>7
<1>17. \A m \in Months :
          TallyOf(ctx'[0])[c][m] = MergeStats(TallyOf(ctx[0])[c][m], TallyOf(ctx[k])[c][m])
  BY <1>4, <1>6, <1>7, <1>8 DEF TallyOK
<1>18. \A n \in Channels : n # c => TallyOf(ctx'[0])[n] = TallyOf(ctx[0])[n]
  BY <1>4, <1>6, <1>7, <1>8 DEF TallyOK
<1> DEFINE N == {c}
<1>19. N \subseteq Channels /\ \A n : n \in N <=> n = c
  BY <1>6
<1> HIDE DEF N
<1>20. /\ \A n \in N : 0 \in HoldersOf(n) /\ k \in HoldersOf(n) /\ HoldersOf(n)' = HoldersOf(n) \ {k}
       /\ \A n \in Channels : n \notin N => HoldersOf(n)' = HoldersOf(n)
       /\ \A n \in N, m \in Months :
             TallyOf(ctx'[0])[n][m] = MergeStats(TallyOf(ctx[0])[n][m], TallyOf(ctx[k])[n][m])
       /\ \A n \in Channels : n \notin N => TallyOf(ctx'[0])[n] = TallyOf(ctx[0])[n]
  BY <1>13, <1>14, <1>17, <1>18, <1>19
<1> QED
  BY <1>1, <1>3, <1>8, <1>15, <1>16, <1>19, <1>20, ConservedMerge

(* ctx[t] is done: the channels it did not have held nothing.              *)
LEMMA ConservedMergedOne ==
  ASSUME MainInv, Conserved, MergedOne
  PROVE  Conserved'
<1>1. /\ UNCHANGED <<hash, input, pc, threads, first, last, phase, pos, bp, ctx>>
      /\ pc = "merge" /\ t < threads /\ sc = ctx[t].count /\ t' = t + 1 /\ sc' = 0
  BY DEF MergedOne, fixedVars, shareVars, workerVars
<1>2. PICK k \in Active : k = t /\ k # 0 /\ k \in Threads
  <2>1. t \in Active
    <3>1. t \in Nat /\ threads \in Nat /\ t < threads
      BY <1>1, RangeFacts
    <3> QED
      BY <3>1 DEF Active
  <2>2. t # 0 /\ t \in Threads
    BY <2>1, RangeFacts
  <2> QED
    BY <2>1, <2>2
<1>3. /\ Active' = Active /\ Running /\ 0 \in Active
      /\ \A i \in Active : i \in Threads
  BY <1>1, RangeFacts DEF Active, Running
<1>4. \A i \in Active : phase[i] = "ended" /\ Begun(i)
  BY <1>1, JoinedLeft DEF AfterJoin
<1>5. NotCounted' = NotCounted
  <2>1. NotCounted = bp..Len(input)
    BY <1>1, JoinedLeft DEF AfterJoin
  <2>2. \A i \in Active : LeftTo(i)' = {}
    BY <1>1, <1>4 DEF LeftTo
  <2>3. LeftInTail' = bp..Len(input)
    BY <1>1 DEF LeftInTail, BeforeTail
  <2>4. UNION {LeftTo(i)' : i \in Active} = {}
    BY <2>2
  <2> QED
    BY <1>3, <2>1, <2>3, <2>4 DEF NotCounted
<1>6. /\ \A i \in Active : i \in Holders <=> i = 0 \/ i >= k
      /\ \A i \in Active : i \in Holders' <=> i = 0 \/ i >= k + 1
      /\ Holders \subseteq Active /\ Holders' \subseteq Active
  BY <1>1, <1>2, <1>3, <1>4 DEF Holders, BeforeTail, Begun
<1>7. \A i, n : i # k => ~ Merged(i, n)
  BY <1>2 DEF Merged
<1>8. \A i, n : ~ Merged(i, n)'
  <2>1. 0..(0 - 1) = {}
    OBVIOUS
  <2> QED
    BY <1>1, <2>1 DEF Merged
<1> DEFINE N == {n \in Channels : ~ Merged(k, n)}
<1>9. ASSUME NEW n \in Channels
      PROVE  /\ HoldersOf(n)' = {i \in Active : i = 0 \/ i >= k + 1}
             /\ HoldersOf(n) = {i \in Active : i = 0 \/ (i >= k /\ (i = k => n \in N))}
  <2>1. HoldersOf(n)' = Holders'
    BY <1>8 DEF HoldersOf
  <2>2. HoldersOf(n) = {i \in Holders : i = k => ~ Merged(k, n)}
    BY <1>7 DEF HoldersOf
  <2>3. 0 # k
    BY <1>2
  <2> QED
    BY <1>6, <2>1, <2>2, <2>3
<1>10. ASSUME NEW n \in N
       PROVE  0 \in HoldersOf(n) /\ k \in HoldersOf(n) /\ HoldersOf(n)' = HoldersOf(n) \ {k}
  <2>1. \A i \in Active : i \in Nat
    BY RangeFacts
  <2>2. \A i \in Active : i >= k + 1 <=> i >= k /\ i # k
    BY <1>2, <2>1
  <2>3. k >= k /\ n \in Channels
    BY <1>2, <2>1
  <2> QED
    BY <1>2, <1>3, <1>9, <2>2, <2>3
<1>11. ASSUME NEW n \in Channels, n \notin N
       PROVE  HoldersOf(n)' = HoldersOf(n)
  <2>1. \A i \in Active : i \in Nat
    BY RangeFacts
  <2>2. \A i \in Active : i >= k + 1 <=> i >= k /\ i # k
    BY <1>2, <2>1
  <2> QED
    BY <1>2, <1>3, <1>9, <1>11, <2>2
<1>12. ASSUME NEW n \in N, NEW m \in Months
       PROVE  MergeStats(TallyOf(ctx[0])[n][m], TallyOf(ctx[k])[n][m]) = TallyOf(ctx[0])[n][m]
  <2>1. \A i \in Known(ctx[k]) : ctx[k].names[i] # n
    BY <1>1, <1>2 DEF Merged, Known
  <2>2. TallyOf(ctx[k])[n] = FreshStats
    BY <2>1, TallyOfUnknown
  <2>3. TallyOf(ctx[k])[n][m].countStamps = 0
    BY <2>2 DEF FreshStats, NewStats
  <2> QED
    BY <2>3 DEF MergeStats
<1>13. /\ \A i \in Threads : i # 0 => TallyOf(ctx'[i]) = TallyOf(ctx[i])
       /\ \A n \in N, m \in Months :
            TallyOf(ctx'[0])[n][m] = MergeStats(TallyOf(ctx[0])[n][m], TallyOf(ctx[k])[n][m])
       /\ \A n \in Channels : n \notin N => TallyOf(ctx'[0])[n] = TallyOf(ctx[0])[n]
  BY <1>1, <1>12
<1>14. N \subseteq Channels
  OBVIOUS
<1>15. PICK M : M = N
  OBVIOUS
<1> HIDE DEF N
<1>16. /\ M \subseteq Channels
       /\ \A n \in M : 0 \in HoldersOf(n) /\ k \in HoldersOf(n) /\ HoldersOf(n)' = HoldersOf(n) \ {k}
       /\ \A n \in Channels : n \notin M => HoldersOf(n)' = HoldersOf(n)
       /\ \A n \in M, m \in Months :
            TallyOf(ctx'[0])[n][m] = MergeStats(TallyOf(ctx[0])[n][m], TallyOf(ctx[k])[n][m])
       /\ \A n \in Channels : n \notin M => TallyOf(ctx'[0])[n] = TallyOf(ctx[0])[n]
  BY <1>10, <1>11, <1>13, <1>14, <1>15
<1> QED
  BY <1>1, <1>2, <1>3, <1>5, <1>13, <1>16, ConservedMerge

(* From the opening of the output on, ctx[0] alone holds what all rows do. *)
LEMMA ConservedWriting ==
  ASSUME MainInv, Conserved, OpenOutput \/ Format \/ WriteSome \/ Interrupted, pc' # "exit"
  PROVE  Conserved'
<1>1. /\ UNCHANGED <<input, threads, first, last, phase, pos, bp, ctx>>
      /\ pc \in {"merge", "format", "write"} /\ pc' \in {"format", "write"}
      /\ pc = "merge" => t = threads
  BY DEF OpenOutput, Format, WriteSome, Interrupted, Return, fixedVars, shareVars, workerVars
<1>2. /\ Active' = Active /\ Running /\ 0 \in Active
      /\ \A i \in Active : phase[i] = "ended" /\ i < threads
  <2>1. Active' = Active /\ Running /\ \A i \in Active : phase[i] = "ended"
    BY <1>1, JoinedLeft DEF Active, Running, AfterJoin
  <2>2. 0 \in Active /\ \A i \in Active : i < threads
    BY RangeFacts DEF Active
  <2> QED
    BY <2>1, <2>2
<1>3. NotCounted' = NotCounted
  <2>1. NotCounted = bp..Len(input)
    BY <1>1, JoinedLeft DEF AfterJoin
  <2>2. \A i \in Active : LeftTo(i)' = {}
    BY <1>1, <1>2 DEF LeftTo
  <2>3. LeftInTail' = bp..Len(input)
    BY <1>1 DEF LeftInTail, BeforeTail
  <2>4. UNION {LeftTo(i)' : i \in Active} = {}
    BY <2>2
  <2> QED
    BY <1>2, <2>1, <2>3, <2>4 DEF NotCounted
<1>4. ASSUME NEW n \in Channels
      PROVE  HoldersOf(n)' = HoldersOf(n)
  <2>1. HoldersOf(n) = {0}
    <3>1. CASE pc = "merge"
      <4>1. \A i \in Active : ~ (i >= t)
        BY <1>1, <1>2, <3>1, RangeFacts
      <4> QED
        BY <3>1, <4>1, HoldersMerging
    <3>2. CASE pc \in {"format", "write"}
      BY <3>2, HoldersWriting
    <3> QED
      BY <1>1, <3>1, <3>2
  <2>2. Holders' = {0}
    BY <1>1, <1>2 DEF Holders, BeforeTail
  <2>3. HoldersOf(n)' = Holders'
    BY <1>1 DEF HoldersOf, Merged
  <2> QED
    BY <2>1, <2>2, <2>3
<1> QED
  BY <1>1, <1>2, <1>3, <1>4, ConservedSame

(* For any number of threads, any shares, any set of threads that could    *)
(* not be created and any interleaving, the statistics in the contexts     *)
(* that count and the rows not yet counted come to what the input's rows   *)
(* do, in counts, in totals modulo 2^32 and in extremes: while the workers *)
(* run, in the tail, half-way through a merge, and when ctx[0] is written. *)
THEOREM ConservedTheorem == Spec => []Conserved
<1>1. Init => Conserved
  BY DEF Init, Conserved
<1>2. ASSUME MainInv, Conserved, [Next]_vars
      PROVE  Conserved'
  <2>1. CASE pc' = "exit"
    BY <2>1 DEF Conserved
  <2>2. CASE pc' # "exit"
    <3>1. CASE CannotStart \/ JoinFails \/ WriteFails \/ Close
      <4>1. pc' = "exit"
        BY <3>1 DEF CannotStart, JoinFails, WriteFails, Close, Return
      <4> QED
        BY <2>2, <4>1
    <3>2. CASE Partition
      BY <1>2, <3>2, ConservedPartition
    <3>3. CASE CreateThread \/ CallWorker \/ WorkerReturns \/ CallOwn \/ OwnReturns \/ Join
      BY <1>2, <3>3, ConservedBeforeJoin
    <3>4. CASE Joined \/ TailRow \/ TailDone
      BY <1>2, <3>4, ConservedTail
    <3>5. CASE MergeNext
      BY <1>2, <3>5, ConservedMergeNext
    <3>6. CASE MergedOne
      BY <1>2, <3>6, ConservedMergedOne
    <3>7. CASE OpenOutput \/ Format \/ WriteSome \/ Interrupted
      BY <1>2, <2>2, <3>7, ConservedWriting
    <3>8. CASE \E i \in Threads : WorkerStep(i)
      BY <1>2, <3>8, ConservedWorker
    <3>9. CASE UNCHANGED vars
      <4>1. UNCHANGED <<input, threads, first, last, pos, ctx, phase, pc, t, sc, bp>>
        BY <3>9 DEF vars, fixedVars, shareVars, workerVars
      <4>2. UNCHANGED <<Active, NotCounted>>
        BY <4>1 DEF Active, NotCounted, LeftInTail, LeftTo, BeforeTail
      <4>3. \A n : HoldersOf(n)' = HoldersOf(n)
        BY <4>1, <4>2 DEF HoldersOf, Holders, Merged, BeforeTail
      <4>4. CASE Running
        BY <1>2, <4>1, <4>2, <4>3, <4>4, ConservedSame
      <4>5. CASE ~ Running
        BY <4>1, <4>5 DEF Conserved, Running
      <4> QED
        BY <4>4, <4>5
    <3> QED
      BY <1>2, <3>1, <3>2, <3>3, <3>4, <3>5, <3>6, <3>7, <3>8, <3>9 DEF Next, MainStep
  <2> QED
    BY <2>1, <2>2
<1> QED
  BY <1>1, <1>2, MainInvHolds, PTL DEF Spec

LEMMA DivMod ==
  ASSUME NEW v \in Nat \ {0}, NEW k \in Nat, NEW d \in Nat, d < v
  PROVE  (k * v + d) \div v = k /\ (k * v + d) % v = d
<1>1. PICK x \in Int : x = k * v + d
  OBVIOUS
<1>2. PICK q \in Int : q = x \div v
  OBVIOUS
<1>3. PICK r \in Int : r = x % v
  OBVIOUS
<1>4. x = q * v + r /\ 0 <= r /\ r < v
  BY <1>1, <1>2, <1>3
<1>5. (q - k) * v = d - r
  BY <1>1, <1>4
<1>6. PICK e \in Int : e = q - k
  OBVIOUS
<1>7. e * v < v /\ e * v > 0 - v
  BY <1>4, <1>5, <1>6
<1>8. ~ (e >= 1) /\ ~ (e <= -1)
  <2>1. e >= 1 => e * v >= v
    BY <1>6
  <2>2. e <= -1 => e * v <= 0 - v
    BY <1>6
  <2> QED
    BY <1>7, <2>1, <2>2
<1>9. q = k /\ r = d
  <2>1. e = 0
    BY <1>6, <1>8
  <2>2. q = k
    BY <1>6, <2>1
  <2> QED
    BY <1>5, <2>2
<1> QED
  BY <1>1, <1>2, <1>3, <1>9, Zenon

LEMMA DivModOf ==
  ASSUME NEW v \in Nat \ {0}, NEW x \in Nat
  PROVE  \E q \in Nat, r \in 0..(v - 1) : q = x \div v /\ r = x % v /\ x = q * v + r
<1>1. PICK q \in Int : q = x \div v
  OBVIOUS
<1>2. PICK r \in Int : r = x % v
  OBVIOUS
<1>3. x = q * v + r /\ 0 <= r /\ r < v
  BY <1>1, <1>2
<1>4. q >= 0
  <2>1. q <= -1 => q * v <= 0 - v
    OBVIOUS
  <2> QED
    BY <1>3, <2>1
<1>5. q \in Nat /\ r \in 0..(v - 1) /\ x = q * v + r
  BY <1>3, <1>4
<1> QED
  BY <1>1, <1>2, <1>5

---------------------------------------------------------------------------
(* One line of the output.                                                 *)
RowsFor(in, n, m) == {j \in DOMAIN in : in[j].channel = n /\ in[j].month = m}

LEMMA PromiseMeans ==
  ASSUME NEW in, NEW n, NEW m
  PROVE  /\ Promise!RowsFor(in, n, m) = RowsFor(in, n, m)
         /\ Promise!Line(in, n, m) =
              [channel |-> n, month |-> m,
               min    |-> Min({in[j].len : j \in RowsFor(in, n, m)}),
               max    |-> Max({in[j].len : j \in RowsFor(in, n, m)}),
               total  |-> SumFunction([j \in RowsFor(in, n, m) |-> in[j].len]),
               count  |-> Cardinality(RowsFor(in, n, m)),
               stamps |-> SumFunction([j \in RowsFor(in, n, m) |-> in[j].stamps])]
         /\ Promise!Summary(in) =
              {Promise!Line(in, nm[1], nm[2]) :
                 nm \in {pair \in Channels \X Months : RowsFor(in, pair[1], pair[2]) # {}}}
         /\ \A f : Promise!Range(f) = Range(f) /\ (Promise!IsInjective(f) <=> IsInjective(f))
<1>1. \A f : Promise!SumFunction(f) = SumFunction(f)
  BY Zenon DEF Promise!SumFunction, SumFunction, Promise!SumFunctionOnSet, SumFunctionOnSet,
     Promise!FoldFunctionOnSet, FoldFunctionOnSet, Promise!MapThenFoldSet, MapThenFoldSet
<1>2. \A S : Promise!Cardinality(S) = Cardinality(S)
  BY Zenon DEF Promise!Cardinality, Cardinality
<1>3. \A S : Promise!Min(S) = Min(S) /\ Promise!Max(S) = Max(S)
  BY Zenon DEF Promise!Min, Min, Promise!Max, Max
<1>4. \A x, y, z : Promise!RowsFor(x, y, z) = RowsFor(x, y, z)
  BY Zenon DEF Promise!RowsFor, RowsFor
<1>5. Promise!Line(in, n, m) =
        [channel |-> n, month |-> m,
         min    |-> Min({in[j].len : j \in RowsFor(in, n, m)}),
         max    |-> Max({in[j].len : j \in RowsFor(in, n, m)}),
         total  |-> SumFunction([j \in RowsFor(in, n, m) |-> in[j].len]),
         count  |-> Cardinality(RowsFor(in, n, m)),
         stamps |-> SumFunction([j \in RowsFor(in, n, m) |-> in[j].stamps])]
  BY <1>1, <1>2, <1>3, <1>4, Zenon DEF Promise!Line
<1>6. Promise!Summary(in) =
        {Promise!Line(in, nm[1], nm[2]) :
           nm \in {pair \in Channels \X Months : RowsFor(in, pair[1], pair[2]) # {}}}
  BY <1>4, Zenon DEF Promise!Summary
<1>7. \A f : Promise!Range(f) = Range(f) /\ (Promise!IsInjective(f) <=> IsInjective(f))
  BY Zenon DEF Promise!Range, Range, Promise!IsInjective, IsInjective
<1> QED
  BY <1>4, <1>5, <1>6, <1>7

(* The statistics s are those of the rows js.                              *)
StatsOfRows(s, in, js) ==
  /\ s \in StatsSet
  /\ s.countStamps = SumFunctionOnSet(Ones(in, js), js)
  /\ s.total % Word = SumFunctionOnSet(Lens(in, js), js) % Word
  /\ \A j \in js : s.min <= in[j].len /\ s.max >= in[j].len
  /\ s.countStamps # 0 => /\ \E j \in js : s.min = in[j].len
                          /\ \E j \in js : s.max = in[j].len

(* Statistics that fit are written as the reference's line, and one is     *)
(* written exactly for those that have rows.                               *)
LEMMA LineIs ==
  ASSUME NEW in \in Inputs, NEW n \in Channels, NEW m \in Months, NEW s,
         StatsOfRows(s, in, RowsFor(in, n, m))
  PROVE  /\ CountOf(s) % Word = 0 <=> RowsFor(in, n, m) = {}
         /\ RowsFor(in, n, m) # {} =>
              [channel |-> n, month |-> m, min |-> s.min, max |-> s.max, total |-> s.total,
               count |-> CountOf(s) % Word, stamps |-> StampsOf(s)] = Promise!Line(in, n, m)
<1> DEFINE js == RowsFor(in, n, m)
           f == [j \in js |-> in[j].stamps]
           g == [j \in js |-> in[j].len]
<1>1. /\ s \in StatsSet
      /\ s.countStamps = SumFunctionOnSet(Ones(in, js), js)
      /\ s.total % Word = SumFunctionOnSet(Lens(in, js), js) % Word
      /\ \A j \in js : s.min <= in[j].len /\ s.max >= in[j].len
      /\ s.countStamps # 0 => /\ \E j \in js : s.min = in[j].len
                              /\ \E j \in js : s.max = in[j].len
  BY DEF StatsOfRows
<1>2. IsFiniteSet(js) /\ \A j \in js : in[j] \in Rows
  <2>1. in \in Seq(Rows) /\ Len(in) \in Nat
    BY MainAssumption
  <2>2. DOMAIN in = 1..Len(in) /\ IsFiniteSet(1..Len(in))
    BY <2>1, FS_Interval
  <2>3. js \subseteq 1..Len(in)
    BY <2>2 DEF RowsFor
  <2>4. \A j \in 1..Len(in) : in[j] \in Rows
    BY <2>1
  <2> QED
    BY <2>2, <2>3, <2>4, FS_Subset
<1>3. \A j \in js : in[j].len \in Nat /\ in[j].stamps \in Nat
  BY <1>2, MainAssumption
<1>4. Word \in Nat \ {0}
  BY SizesAssumption
<1>5. DOMAIN f = js /\ DOMAIN g = js
  OBVIOUS
<1>6. PICK P : P = SumFunctionOnSet(f, js)
  OBVIOUS
<1>7. PICK Q : Q = SumFunctionOnSet(g, js)
  OBVIOUS
<1>8. PICK K : K = Cardinality(js)
  OBVIOUS
<1>9. SumFunction(f) = P /\ SumFunction(g) = Q
  BY <1>5, <1>6, <1>7, Zenon DEF SumFunction
<1>10. K < Word /\ Q < Word /\ P < Word
  <2>1. /\ Cardinality(js) < Word
        /\ SumFunction([j \in js |-> in[j].len]) < Word
        /\ SumFunction([j \in js |-> in[j].stamps]) < Word
    BY SumsAssumption, PromiseMeans, Zenon
  <2> QED
    BY <1>8, <1>9, <2>1, Zenon
<1>11. K \in Nat /\ P \in Nat /\ Q \in Nat
  <2>1. \A j \in js : f[j] \in Nat /\ g[j] \in Nat
    BY <1>3
  <2> HIDE DEF f, g, js
  <2> QED
    BY <1>2, <1>6, <1>7, <1>8, <2>1, SumNat, FS_CardinalityType
<1>12. s.countStamps = K * Word + P
  <2>1. \A j \in js : f[j] \in Int /\ Ones(in, js)[j] = Word + f[j]
    BY <1>3 DEF Ones
  <2> HIDE DEF f, js
  <2>2. SumFunctionOnSet(Ones(in, js), js) = Cardinality(js) * Word + SumFunctionOnSet(f, js)
    BY <1>2, <1>4, <2>1, SumShift
  <2> QED
    BY <1>1, <1>6, <1>8, <2>2, Zenon
<1>13. CountOf(s) = K /\ StampsOf(s) = P /\ K % Word = K
  <2>1. (K * Word + P) \div Word = K /\ (K * Word + P) % Word = P
    BY <1>4, <1>10, <1>11, DivMod
  <2>2. (0 * Word + K) % Word = K
    BY <1>4, <1>10, <1>11, DivMod
  <2>3. 0 * Word + K = K
    BY <1>4, <1>11
  <2> QED
    BY <1>12, <2>1, <2>2, <2>3, Zenon DEF CountOf, StampsOf
<1>14. K = 0 <=> js = {}
  BY <1>2, <1>8, FS_EmptySet
<1>15. s.total = Q
  <2>1. s.total \in 0..(Word - 1)
    BY <1>1 DEF StatsSet
  <2>2. SumFunctionOnSet(Lens(in, js), js) = Q
    BY <1>7, Zenon DEF Lens
  <2>3. PICK u \in Nat : u = s.total /\ u < Word
    BY <1>4, <2>1
  <2>4. (0 * Word + u) % Word = u /\ (0 * Word + Q) % Word = Q
    BY <1>4, <1>10, <1>11, <2>3, DivMod
  <2>5. 0 * Word + u = u /\ 0 * Word + Q = Q
    BY <1>4, <1>11
  <2> QED
    BY <1>1, <2>2, <2>3, <2>4, <2>5, Zenon
<1>16. ASSUME js # {}
       PROVE  s.min = Min({in[j].len : j \in js}) /\ s.max = Max({in[j].len : j \in js})
  <2> DEFINE X == {in[j].len : j \in js}
  <2>1. s.countStamps # 0
    <3>1. K >= 1
      BY <1>11, <1>14, <1>16
    <3>2. K * Word >= Word
      BY <1>4, <1>11, <3>1
    <3> QED
      BY <1>4, <1>11, <1>12, <3>2
  <2>2. s.min \in X /\ s.max \in X /\ X \subseteq Nat
    BY <1>1, <1>3, <2>1
  <2>3. \A y \in X : s.min <= y /\ s.max >= y
    BY <1>1
  <2> HIDE DEF X
  <2>4. PICK lo \in Nat, hi \in Nat : lo = s.min /\ hi = s.max
    BY <2>2
  <2>5. \A x \in X : (\A y \in X : x <= y) => x = lo
    BY <2>2, <2>3, <2>4
  <2>6. \A x \in X : (\A y \in X : x >= y) => x = hi
    BY <2>2, <2>3, <2>4
  <2>7. Min(X) = lo
    BY <2>2, <2>3, <2>4, <2>5, Zenon DEF Min
  <2>8. Max(X) = hi
    BY <2>2, <2>3, <2>4, <2>6, Zenon DEF Max
  <2> QED
    BY <2>4, <2>7, <2>8 DEF X
<1>17. CountOf(s) % Word = K
  BY <1>13, Zenon
<1>18. js # {} =>
         [channel |-> n, month |-> m, min |-> s.min, max |-> s.max, total |-> s.total,
          count |-> CountOf(s) % Word, stamps |-> StampsOf(s)] = Promise!Line(in, n, m)
  <2> SUFFICES ASSUME js # {}
               PROVE  [channel |-> n, month |-> m, min |-> s.min, max |-> s.max, total |-> s.total,
                       count |-> CountOf(s) % Word, stamps |-> StampsOf(s)] = Promise!Line(in, n, m)
    OBVIOUS
  <2>1. Promise!Line(in, n, m) =
          [channel |-> n, month |-> m,
           min    |-> Min({in[j].len : j \in js}),
           max    |-> Max({in[j].len : j \in js}),
           total  |-> SumFunction(g),
           count  |-> Cardinality(js),
           stamps |-> SumFunction(f)]
    BY PromiseMeans, Zenon
  <2>2. s.min = Min({in[j].len : j \in js}) /\ s.max = Max({in[j].len : j \in js})
    BY <1>16
  <2>3. /\ s.total = SumFunction(g) /\ CountOf(s) % Word = Cardinality(js)
        /\ StampsOf(s) = SumFunction(f)
    BY <1>8, <1>9, <1>13, <1>15, <1>17, Zenon
  <2> HIDE DEF f, g, js
  <2> QED
    BY <2>1, <2>2, <2>3, Zenon
<1> QED
  BY <1>14, <1>17, <1>18, Zenon

---------------------------------------------------------------------------
(* Where the extremes come from: in every context in use, a minimum or     *)
(* maximum that counts is the length of a row.                             *)
Attained(T, in) ==
  \A n \in Channels, m \in Months :
    T[n][m].countStamps # 0 => /\ \E j \in RowsFor(in, n, m) : T[n][m].min = in[j].len
                               /\ \E j \in RowsFor(in, n, m) : T[n][m].max = in[j].len

FromRows == \A i \in Threads : Begun(i) => Attained(TallyOf(ctx[i]), input)

(* A length is below 2^32, as the total it is part of is.                  *)
LEMMA RowShort ==
  ASSUME NEW in \in Inputs, NEW j \in DOMAIN in
  PROVE  /\ in[j] \in Rows /\ RowOK(in[j]) /\ in[j].channel \in Channels /\ in[j].month \in Months
         /\ j \in RowsFor(in, in[j].channel, in[j].month)
         /\ in[j].len \in Nat /\ in[j].len < Word
<1>1. in \in Seq(Rows) /\ Len(in) \in Nat /\ DOMAIN in = 1..Len(in)
  BY MainAssumption
<1>2. in[j] \in Rows
  BY <1>1
<1>3. in[j].channel \in Channels /\ in[j].month \in Months /\ RowOK(in[j])
  BY <1>2, MainAssumption DEF RowOK
<1> DEFINE js == RowsFor(in, in[j].channel, in[j].month)
           g == [k \in js |-> in[k].len]
<1>4. j \in js
  BY DEF RowsFor
<1>5. IsFiniteSet(js) /\ \A k \in js : in[k].len \in Nat
  <2>1. js \subseteq 1..Len(in)
    BY <1>1 DEF RowsFor
  <2>2. \A k \in js : in[k] \in Rows
    BY <1>1, <2>1
  <2>3. IsFiniteSet(1..Len(in))
    BY <1>1, FS_Interval
  <2>4. IsFiniteSet(js)
    BY <2>1, <2>3, FS_Subset
  <2>5. \A r \in Rows : r.len \in Nat
    BY MainAssumption
  <2> QED
    BY <2>2, <2>4, <2>5
<1>6. SumFunction(g) < Word
  BY <1>3, SumsAssumption, PromiseMeans, Zenon
<1>7. DOMAIN g = js /\ \A k \in js : g[k] \in Nat /\ g[k] = in[k].len
  BY <1>5
<1> HIDE DEF g, js
<1>8. SumFunctionOnSet(g, js) \in Nat /\ g[j] <= SumFunctionOnSet(g, js)
  BY <1>4, <1>5, <1>7, SumNat
<1>9. SumFunctionOnSet(g, js) < Word
  BY <1>6, <1>7, Zenon DEF SumFunction
<1>10. in[j].len \in Nat /\ in[j].len < Word
  BY <1>4, <1>7, <1>8, <1>9, SizesAssumption
<1> QED
  BY <1>2, <1>3, <1>4, <1>10 DEF js

LEMMA AttainedCount ==
  ASSUME NEW in \in Inputs, NEW T \in [Channels -> [Months -> StatsSet]], Attained(T, in),
         NEW j \in DOMAIN in
  PROVE  Attained(CountInto(T, in[j].channel, in[j].month, in[j]), in)
<1> DEFINE n == in[j].channel
           m == in[j].month
           u == UpdateStats(T[n][m], in[j])
           W == CountInto(T, n, m, in[j])
<1>1. /\ n \in Channels /\ m \in Months /\ j \in RowsFor(in, n, m)
      /\ in[j].len \in Nat /\ in[j].len < Word
  BY RowShort
<1>2. W[n][m] = u
  BY <1>1 DEF CountInto
<1>3. \A x \in Channels, y \in Months : x # n \/ y # m => W[x][y] = T[x][y]
  BY <1>1 DEF CountInto
<1>4. T[n][m] \in StatsSet
  BY <1>1
<1>5. /\ u.min = IF in[j].len < T[n][m].min THEN in[j].len ELSE T[n][m].min
      /\ u.max = IF in[j].len > T[n][m].max THEN in[j].len ELSE T[n][m].max
  BY DEF UpdateStats
<1>6. \E k \in RowsFor(in, n, m) : u.min = in[k].len
  <2>1. CASE T[n][m].countStamps = 0
    <3>1. T[n][m].min = Word - 1
      BY <1>4, <2>1 DEF StatsSet, NewStats
    <3>2. u.min = in[j].len
      BY <1>1, <1>5, <3>1, SizesAssumption
    <3> QED
      BY <1>1, <3>2
  <2>2. CASE T[n][m].countStamps # 0
    <3>1. \E k \in RowsFor(in, n, m) : T[n][m].min = in[k].len
      BY <1>1, <2>2 DEF Attained
    <3> QED
      BY <1>1, <1>5, <3>1, Zenon
  <2> QED
    BY <2>1, <2>2
<1>7. \E k \in RowsFor(in, n, m) : u.max = in[k].len
  <2>1. CASE T[n][m].countStamps = 0
    <3>1. T[n][m].max = 0
      BY <1>4, <2>1 DEF StatsSet, NewStats
    <3>2. u.max = in[j].len
      BY <1>1, <1>5, <3>1
    <3> QED
      BY <1>1, <3>2
  <2>2. CASE T[n][m].countStamps # 0
    <3>1. \E k \in RowsFor(in, n, m) : T[n][m].max = in[k].len
      BY <1>1, <2>2 DEF Attained
    <3> QED
      BY <1>1, <1>5, <3>1, Zenon
  <2> QED
    BY <2>1, <2>2
<1> HIDE DEF W, u, n, m
<1>8. ASSUME NEW x \in Channels, NEW y \in Months, W[x][y].countStamps # 0
      PROVE  /\ \E k \in RowsFor(in, x, y) : W[x][y].min = in[k].len
             /\ \E k \in RowsFor(in, x, y) : W[x][y].max = in[k].len
  <2>1. CASE x = n /\ y = m
    BY <1>2, <1>6, <1>7, <2>1, Zenon
  <2>2. CASE x # n \/ y # m
    <3>1. W[x][y] = T[x][y]
      BY <1>3, <2>2
    <3> QED
      BY <1>8, <3>1, Zenon DEF Attained
  <2> QED
    BY <2>1, <2>2
<1>9. Attained(W, in)
  BY <1>8, Zenon DEF Attained
<1> QED
  BY <1>9 DEF W, n, m

LEMMA AttainedMerge ==
  ASSUME NEW in, NEW T \in [Channels -> [Months -> StatsSet]], Attained(T, in),
         NEW D \in [Channels -> [Months -> StatsSet]], Attained(D, in), NEW n \in Channels
  PROVE  Attained([D EXCEPT ![n] = [m \in Months |-> MergeStats(D[n][m], T[n][m])]], in)
<1> DEFINE W == [D EXCEPT ![n] = [m \in Months |-> MergeStats(D[n][m], T[n][m])]]
<1>1. \A m \in Months : W[n][m] = MergeStats(D[n][m], T[n][m])
  OBVIOUS
<1>2. \A x \in Channels : x # n => W[x] = D[x]
  OBVIOUS
<1> HIDE DEF W
<1>3. ASSUME NEW x \in Channels, NEW m \in Months, W[x][m].countStamps # 0
      PROVE  /\ \E j \in RowsFor(in, x, m) : W[x][m].min = in[j].len
             /\ \E j \in RowsFor(in, x, m) : W[x][m].max = in[j].len
  <2>1. CASE x # n \/ T[n][m].countStamps = 0
    <3>1. W[x][m] = D[x][m]
      BY <1>1, <1>2, <2>1 DEF MergeStats
    <3>2. D[x][m].countStamps # 0
      BY <1>3, <3>1, Zenon
    <3>3. /\ \E j \in RowsFor(in, x, m) : D[x][m].min = in[j].len
          /\ \E j \in RowsFor(in, x, m) : D[x][m].max = in[j].len
      BY <3>2, Zenon DEF Attained
    <3> QED
      BY <3>1, <3>3, Zenon
  <2>2. CASE x = n /\ T[n][m].countStamps # 0
    <3> DEFINE d == D[n][m]
               s == T[n][m]
               u == W[n][m]
    <3>1. /\ \E j \in RowsFor(in, n, m) : s.min = in[j].len
          /\ \E j \in RowsFor(in, n, m) : s.max = in[j].len
      BY <2>2 DEF Attained
    <3>2. /\ u.min = IF s.min < d.min THEN s.min ELSE d.min
          /\ u.max = IF s.max > d.max THEN s.max ELSE d.max
      <4>1. u = MergeStats(d, s) /\ s.countStamps # 0
        BY <1>1, <2>2
      <4> HIDE DEF u, s, d
      <4> QED
        BY <4>1 DEF MergeStats
    <3>3. CASE d.countStamps # 0
      <4>1. /\ \E j \in RowsFor(in, n, m) : d.min = in[j].len
            /\ \E j \in RowsFor(in, n, m) : d.max = in[j].len
        BY <3>3 DEF Attained
      <4> QED
        BY <2>2, <3>1, <3>2, <4>1, Zenon
    <3>4. CASE d.countStamps = 0
      <4>1. d \in StatsSet /\ s \in StatsSet
        OBVIOUS
      <4>2. d.min = Word - 1 /\ d.max = 0
        BY <3>4, <4>1 DEF StatsSet, NewStats
      <4>3. s.min \in 0..(Word - 1) /\ s.max \in Nat
        BY <4>1 DEF StatsSet
      <4> HIDE DEF u, s, d
      <4>4. PICK lo \in Nat, hi \in Nat : lo = s.min /\ hi = s.max /\ (lo < Word - 1 \/ lo = Word - 1)
        BY <4>3, SizesAssumption
      <4>5. u.min = lo
        BY <3>2, <4>2, <4>4
      <4>6. u.max = hi
        BY <3>2, <4>2, <4>4
      <4>7. u.min = s.min /\ u.max = s.max
        BY <4>4, <4>5, <4>6
      <4> QED
        BY <2>2, <3>1, <4>7, Zenon DEF u, s, d
    <3> QED
      BY <3>3, <3>4
  <2> QED
    BY <2>1, <2>2
<1>4. Attained(W, in)
  BY <1>3, Zenon DEF Attained
<1> QED
  BY <1>4 DEF W

LEMMA AttainedFresh ==
  ASSUME NEW in
  PROVE  Attained([n \in Channels |-> FreshStats], in)
BY DEF Attained, FreshStats, NewStats

LEMMA FromRowsWritten ==
  ASSUME MainInv, FromRows, input' = input, NEW i \in Threads, NEW c,
         ctx' = [ctx EXCEPT ![i] = c], Attained(TallyOf(c), input),
         \A j \in Threads : j # i /\ Begun(j)' => Begun(j)
  PROVE  FromRows'
<1>1. ctx'[i] = c /\ \A j \in Threads : j # i => ctx'[j] = ctx[j]
  BY DEF MainInv, Contexts
<1>2. ASSUME NEW j \in Threads, Begun(j)'
      PROVE  Attained(TallyOf(ctx'[j]), input)
  BY <1>1, <1>2, Zenon DEF FromRows
<1> QED
  BY <1>2, Zenon DEF FromRows

(* Everyone's row comes from the input.                                    *)
LEMMA RowCountedFromRows ==
  ASSUME MainInv, FromRows, NEW i \in Threads, Begun(i), NEW j \in 1..Len(input),
         ProbeEnds(ctx[i], hash, input[j].channel)
  PROVE  Attained(TallyOf(ProcessRow(ctx[i], hash, input[j])), input)
<1>1. CtxOK(ctx[i], hash) /\ TallyOK(ctx[i]) /\ input \in Inputs
  BY DEF MainInv, Contexts, InRange
<1>2. input[j] \in Rows /\ DOMAIN input = 1..Len(input)
  BY RangeFacts
<1>3. TallyOf(ProcessRow(ctx[i], hash, input[j]))
        = CountInto(TallyOf(ctx[i]), input[j].channel, input[j].month, input[j])
  BY <1>1, <1>2, RowCounted
<1>4. Attained(TallyOf(ctx[i]), input)
  BY DEF FromRows
<1>5. TallyOf(ctx[i]) \in [Channels -> [Months -> StatsSet]]
  BY <1>1 DEF TallyOK
<1>6. Attained(CountInto(TallyOf(ctx[i]), input[j].channel, input[j].month, input[j]), input)
  BY <1>1, <1>2, <1>4, <1>5, AttainedCount
<1> QED
  BY <1>3, <1>6, Zenon

LEMMA FromRowsWorker ==
  ASSUME MainInv, FromRows, NEW i \in Threads, WorkerStep(i)
  PROVE  FromRows'
<1>1. input' = input /\ phase[i] \in {"begin", "sample", "rest"}
  BY WorkerFacts DEF fixedVars
<1>2. DOMAIN phase = Threads /\ DOMAIN ctx = Threads /\ hash \in [Channels -> Slots]
  BY DEF MainInv, HandInv, Range1, Contexts, InRange
<1>3. CASE BeginWorker(i)
  <2>1. ctx' = [ctx EXCEPT ![i] = InitCtx] /\ \E ph : phase' = [phase EXCEPT ![i] = ph]
    BY <1>3 DEF BeginWorker
  <2>2. \A j \in Threads : j # i /\ Begun(j)' => Begun(j)
    BY <1>2, <2>1 DEF Begun
  <2>3. Attained(TallyOf(InitCtx), input)
    BY InitCtxTally, AttainedFresh
  <2> QED
    BY <1>1, <2>1, <2>2, <2>3, FromRowsWritten
<1>4. CASE CountRow(i)
  <2>1. /\ phase[i] \in {"sample", "rest"} /\ pos[i] < last[i] /\ phase' = phase
        /\ ProbeEnds(ctx[i], hash, input[pos[i]].channel)
        /\ ctx' = [ctx EXCEPT ![i] = ProcessRow(ctx[i], hash, input[pos[i]])]
    BY <1>2, <1>4 DEF CountRow
  <2>2. pos[i] \in 1..Len(input) /\ Begun(i)
    BY <2>1, RangeFacts DEF Begun
  <2>3. Attained(TallyOf(ProcessRow(ctx[i], hash, input[pos[i]])), input)
    BY <2>1, <2>2, RowCountedFromRows
  <2>4. \A j \in Threads : Begun(j)' => Begun(j)
    BY <2>1 DEF Begun
  <2> QED
    BY <1>1, <2>1, <2>3, <2>4, FromRowsWritten
<1>5. CASE Renumber(i)
  <2>1. phase[i] = "sample" /\ phase' = [phase EXCEPT ![i] = "rest"]
    BY <1>5 DEF Renumber
  <2>2. PICK c \in RenumberResults(ctx[i]) : ctx' = [ctx EXCEPT ![i] = c]
    BY <1>5 DEF Renumber
  <2>3. CtxOK(ctx[i], hash) /\ Attained(TallyOf(ctx[i]), input)
    BY <2>1 DEF MainInv, Contexts, Begun, FromRows
  <2>4. TallyOf(c) = TallyOf(ctx[i])
    BY <1>2, <2>3, RenumberKeeps
  <2>5. Attained(TallyOf(c), input)
    BY <2>3, <2>4, Zenon
  <2>6. \A j \in Threads : j # i /\ Begun(j)' => Begun(j)
    BY <1>2, <2>1 DEF Begun
  <2> QED
    BY <1>1, <2>2, <2>5, <2>6, FromRowsWritten
<1>6. CASE EndWorker(i)
  <2>1. phase[i] = "rest" /\ phase' = [phase EXCEPT ![i] = "ended"] /\ ctx' = ctx
    BY <1>6 DEF EndWorker
  <2>2. \A j \in Threads : Begun(j)' <=> Begun(j)
    BY <1>2, <2>1 DEF Begun
  <2> QED
    BY <1>1, <2>1, <2>2, Zenon DEF FromRows
<1> QED
  BY <1>3, <1>4, <1>5, <1>6 DEF WorkerStep

LEMMA FromRowsMain ==
  ASSUME MainInv, FromRows, MainStep
  PROVE  FromRows'
<1>1. /\ DOMAIN phase = Threads /\ DOMAIN ctx = Threads /\ hash \in [Channels -> Slots]
      /\ 0 \in Threads /\ 0 \in Active
  BY RangeFacts DEF MainInv, HandInv, Range1, Contexts, InRange
<1>2. CASE TailRow
  <2>1. /\ input' = input /\ phase' = phase /\ pc = "buffer" /\ bp <= Len(input)
        /\ ProbeEnds(ctx[0], hash, input[bp].channel)
        /\ ctx' = [ctx EXCEPT ![0] = ProcessRow(ctx[0], hash, input[bp])]
    BY <1>1, <1>2 DEF TailRow, fixedVars, workerVars
  <2>2. bp \in 1..Len(input) /\ Begun(0)
    BY <1>1, <2>1, RangeFacts, JoinedLeft DEF AfterJoin
  <2>3. Attained(TallyOf(ProcessRow(ctx[0], hash, input[bp])), input)
    BY <1>1, <2>1, <2>2, RowCountedFromRows
  <2>4. \A j \in Threads : Begun(j)' => Begun(j)
    BY <2>1 DEF Begun
  <2> QED
    BY <1>1, <2>1, <2>3, <2>4, FromRowsWritten
<1>3. CASE MergeNext
  <2>1. /\ input' = input /\ phase' = phase /\ pc = "merge" /\ t < threads /\ sc < ctx[t].count
        /\ ProbeEnds(ctx[0], hash, ctx[t].names[sc])
        /\ ctx' = [ctx EXCEPT ![0] = MergeChannel(ctx[0], hash, ctx[t], sc)]
    BY <1>1, <1>3 DEF MergeNext, fixedVars, workerVars
  <2>2. t \in Active /\ t \in Threads
    BY <2>1, RangeFacts DEF Active
  <2>3. Begun(0) /\ Begun(t)
    BY <1>1, <2>1, <2>2, JoinedLeft DEF AfterJoin
  <2>4. /\ CtxOK(ctx[0], hash) /\ TallyOK(ctx[0]) /\ CtxOK(ctx[t], hash) /\ TallyOK(ctx[t])
        /\ Attained(TallyOf(ctx[0]), input) /\ Attained(TallyOf(ctx[t]), input)
    BY <1>1, <2>2, <2>3 DEF MainInv, Contexts, FromRows
  <2>5. sc \in Known(ctx[t])
    BY <2>1, <2>4, SizesAssumption DEF Known, MainInv, InRange, CtxOK
  <2> DEFINE n == ctx[t].names[sc]
             D == TallyOf(ctx[0])
             T == TallyOf(ctx[t])
  <2>6. /\ n \in Channels
        /\ TallyOf(MergeChannel(ctx[0], hash, ctx[t], sc)) =
             [D EXCEPT ![n] = [m \in Months |-> MergeStats(D[n][m], T[n][m])]]
    BY <1>1, <2>1, <2>4, <2>5, MergeChannelFacts
  <2>7. D \in [Channels -> [Months -> StatsSet]] /\ T \in [Channels -> [Months -> StatsSet]]
    BY <2>4 DEF TallyOK
  <2>8. Attained([D EXCEPT ![n] = [m \in Months |-> MergeStats(D[n][m], T[n][m])]], input)
    <3> HIDE DEF n, D, T
    <3>1. Attained(D, input) /\ Attained(T, input)
      BY <2>4 DEF D, T
    <3>2. n \in Channels
      BY <2>6
    <3> QED
      BY <2>7, <3>1, <3>2, AttainedMerge, Zenon
  <2>9. Attained(TallyOf(MergeChannel(ctx[0], hash, ctx[t], sc)), input)
    BY <2>6, <2>8, Zenon
  <2>10. \A j \in Threads : Begun(j)' => Begun(j)
    BY <2>1 DEF Begun
  <2> QED
    BY <1>1, <2>1, <2>9, <2>10, FromRowsWritten
<1>4. ASSUME UNCHANGED <<input, ctx>>, phase' = phase \/ \E i : phase' = [phase EXCEPT ![i] = "begin"]
      PROVE  FromRows'
  <2>1. \A j \in Threads : Begun(j)' => Begun(j)
    BY <1>1, <1>4 DEF Begun
  <2> QED
    BY <1>4, <2>1, Zenon DEF FromRows
<1>5. CASE CreateThread \/ CallWorker \/ CallOwn
  BY <1>4, <1>5 DEF CreateThread, CallWorker, CallOwn, fixedVars
<1>6. CASE \/ CannotStart \/ Partition \/ WorkerReturns \/ OwnReturns \/ Join \/ JoinFails \/ Joined
           \/ TailDone \/ MergedOne \/ OpenOutput \/ Format \/ WriteSome \/ Interrupted \/ WriteFails \/ Close
  <2>1. UNCHANGED <<input, ctx, phase>>
    BY <1>6 DEF CannotStart, Partition, WorkerReturns, OwnReturns, Join, JoinFails, Joined, TailDone,
       MergedOne, OpenOutput, Format, WriteSome, Interrupted, WriteFails, Close, fixedVars, workerVars
  <2> QED
    BY <1>4, <2>1
<1> QED
  BY <1>2, <1>3, <1>5, <1>6 DEF MainStep

LEMMA FromRowsNext ==
  ASSUME MainInv, FromRows, [Next]_vars
  PROVE  FromRows'
<1>1. CASE UNCHANGED vars
  <2>1. UNCHANGED <<input, ctx, phase>>
    BY <1>1 DEF vars, fixedVars, workerVars
  <2>2. \A j \in Threads : Begun(j)' <=> Begun(j)
    BY <2>1 DEF Begun
  <2> QED
    BY <2>1, <2>2, Zenon DEF FromRows
<1> QED
  BY <1>1, FromRowsMain, FromRowsWorker DEF Next

(* Main merges only when the tail is counted.                              *)
TailCounted == pc \in {"merge", "format", "write"} => bp = Len(input) + 1

LEMMA TailCountedNext ==
  ASSUME MainInv, TailCounted, [Next]_vars
  PROVE  TailCounted'
<1>1. bp \in Int /\ bp <= Len(input) + 1 /\ Len(input) \in Nat
  BY RangeFacts
<1>2. CASE TailDone
  <2>1. bp > Len(input) /\ UNCHANGED <<input, bp>>
    BY <1>2 DEF TailDone, fixedVars
  <2> QED
    BY <1>1, <2>1 DEF TailCounted
<1>3. CASE MergeNext \/ MergedOne \/ OpenOutput \/ Format \/ WriteSome \/ Interrupted
  <2>1. pc \in {"merge", "format", "write"} /\ UNCHANGED <<input, bp>>
    BY <1>3 DEF MergeNext, MergedOne, OpenOutput, Format, WriteSome, Interrupted, fixedVars
  <2> QED
    BY <2>1 DEF TailCounted
<1>4. CASE \/ CannotStart \/ Partition \/ CreateThread \/ CallWorker \/ WorkerReturns \/ CallOwn
           \/ OwnReturns \/ Join \/ JoinFails \/ Joined \/ TailRow \/ WriteFails \/ Close
  <2>1. pc' \notin {"merge", "format", "write"}
    BY <1>4 DEF CannotStart, Partition, CreateThread, CallWorker, WorkerReturns, CallOwn, OwnReturns,
       Join, JoinFails, Joined, TailRow, WriteFails, Close, Return
  <2> QED
    BY <2>1 DEF TailCounted
<1>5. CASE UNCHANGED vars \/ \E i \in Threads : WorkerStep(i)
  <2>1. UNCHANGED <<pc, input, bp>>
    <3>1. CASE UNCHANGED vars
      BY <3>1 DEF vars, fixedVars
    <3>2. CASE \E i \in Threads : WorkerStep(i)
      BY <3>2, WorkerFacts DEF fixedVars
    <3> QED
      BY <1>5, <3>1, <3>2
  <2> QED
    BY <2>1 DEF TailCounted
<1> QED
  BY <1>2, <1>3, <1>4, <1>5 DEF Next, MainStep

---------------------------------------------------------------------------
(* When main formats, ctx[0] holds what the whole input comes to.          *)
LEMMA FinalStats ==
  ASSUME MainInv, Conserved, FromRows, TailCounted, pc \in {"format", "write"},
         NEW n \in Channels, NEW m \in Months
  PROVE  StatsOfRows(TallyOf(ctx[0])[n][m], input, RowsFor(input, n, m))
<1> DEFINE s == TallyOf(ctx[0])[n][m]
           js == RowsFor(input, n, m)
           held == Held(n, m)
<1>1. 0 \in Threads /\ Begun(0) /\ NotCounted = bp..Len(input) /\ Len(input) \in Nat
  BY RangeFacts, JoinedLeft DEF AfterJoin
<1>2. NotCounted = {}
  <2>1. bp = Len(input) + 1
    BY DEF TailCounted
  <2> QED
    BY <1>1, <2>1
<1>3. RowsLeft(n, m) = {} /\ AllRows(n, m) = js
  BY <1>2, Zenon DEF RowsLeft, AllRows, RowsOfMonth, RowsFor
<1>4. HoldersOf(n) = {0}
  BY HoldersWriting
<1>5. held[0] = s
  BY <1>1 DEF Held
<1>6. s \in StatsSet
  BY <1>1 DEF MainInv, Contexts, TallyOK
<1>7. Balanced(held, {0}, input, {}, js)
  <2>1. pc \notin {"start", "exit"}
    OBVIOUS
  <2>2. Balanced(held, HoldersOf(n), input, RowsLeft(n, m), AllRows(n, m))
    BY <2>1, Zenon DEF Conserved, RowsLeft, AllRows
  <2> QED
    BY <1>3, <1>4, <2>2, Zenon
<1> HIDE DEF held, js
<1>8. /\ SumFunctionOnSet(Ones(input, {}), {}) = 0 /\ SumFunctionOnSet(Lens(input, {}), {}) = 0
  BY SumEmpty
<1>9. /\ SumFunctionOnSet(Counts(held, {0}), {0}) = s.countStamps
      /\ SumFunctionOnSet(Totals(held, {0}), {0}) = s.total
      /\ s.countStamps \in Int /\ s.total \in Int
  <2>1. HeldOK(held, {0})
    BY <1>5, <1>6 DEF HeldOK
  <2>2. /\ Counts(held, {0})[0] = s.countStamps /\ s.countStamps \in Int
        /\ Totals(held, {0})[0] = s.total /\ s.total \in Int
    <3>1. \A i \in {0} : /\ Counts(held, {0})[i] = held[i].countStamps /\ held[i].countStamps \in Int
                         /\ Totals(held, {0})[i] = held[i].total /\ held[i].total \in Int
      BY <2>1, HeldFacts
    <3> QED
      BY <1>5, <3>1
  <2>3. ASSUME NEW f, f[0] \in Int
        PROVE  SumFunctionOnSet(f, {0}) = f[0]
    <3>1. SumFunctionOnSet(f, {0}) = f[0] + SumFunctionOnSet(f, {0} \ {0})
      BY <2>3, FS_Singleton, SumRemove
    <3>2. {0} \ {0} = {}
      OBVIOUS
    <3>3. SumFunctionOnSet(f, {0} \ {0}) = 0
      BY <3>2, SumEmpty, Zenon
    <3> QED
      BY <2>3, <3>1, <3>3
  <2> QED
    BY <2>2, <2>3, Zenon
<1>10. s.countStamps = SumFunctionOnSet(Ones(input, js), js)
  <2>1. SumFunctionOnSet(Counts(held, {0}), {0}) + SumFunctionOnSet(Ones(input, {}), {})
          = SumFunctionOnSet(Ones(input, js), js)
    <3>1. CountsAdd(held, {0}, input, {}, js)
      BY <1>7 DEF Balanced
    <3> QED
      BY <3>1, LedgerForm
  <2> QED
    BY <1>8, <1>9, <2>1
<1>11. s.total % Word = SumFunctionOnSet(Lens(input, js), js) % Word
  <2>1. (SumFunctionOnSet(Totals(held, {0}), {0}) + SumFunctionOnSet(Lens(input, {}), {})) % Word
          = SumFunctionOnSet(Lens(input, js), js) % Word
    <3>1. TotalsAdd(held, {0}, input, {}, js)
      BY <1>7 DEF Balanced
    <3> QED
      BY <3>1, LedgerForm
  <2>2. SumFunctionOnSet(Totals(held, {0}), {0}) + SumFunctionOnSet(Lens(input, {}), {}) = s.total
    BY <1>8, <1>9
  <2> QED
    BY <2>1, <2>2, Zenon
<1>12. \A j \in js : s.min <= input[j].len /\ s.max >= input[j].len
  <2>1. \A j \in js : /\ \E i \in {0} : held[i].min <= input[j].len
                      /\ \E i \in {0} : held[i].max >= input[j].len
    BY <1>7 DEF Balanced, ExtremesKept
  <2> QED
    BY <1>5, <2>1
<1>13. s.countStamps # 0 => /\ \E j \in js : s.min = input[j].len
                            /\ \E j \in js : s.max = input[j].len
  BY <1>1, Zenon DEF FromRows, Attained, js
<1>14. StatsOfRows(s, input, js)
  BY <1>6, <1>10, <1>11, <1>12, <1>13, Zenon DEF StatsOfRows
<1> QED
  BY <1>14 DEF js

(* The summary, every line of it once.                                     *)
Whole(ls, in) ==
  /\ ls \in Seq(Promise!Summary(in))
  /\ Range(ls) = Promise!Summary(in) /\ IsInjective(ls)

HasRows(n, m) == RowsFor(input, n, m) # {}

(* The line of an id and a month, in terms of the input.                   *)
LEMMA LineOfId ==
  ASSUME MainInv, Conserved, FromRows, TailCounted, pc = "format",
         NEW i \in Known(ctx[0]), NEW m \in Months
  PROVE  LET n == ctx[0].names[i] IN
         /\ n \in Channels
         /\ ~ HasRows(n, m) => LineOf(ctx[0], i, m) = <<>>
         /\ HasRows(n, m) => LineOf(ctx[0], i, m) = <<Promise!Line(input, n, m)>>
<1> DEFINE n == ctx[0].names[i]
           s == ctx[0].stats[i][m]
<1>1. 0 \in Threads /\ Begun(0)
  BY RangeFacts, JoinedLeft DEF AfterJoin
<1>2. TableOK(ctx[0], hash) /\ input \in Inputs /\ hash \in [Channels -> Slots]
  BY <1>1 DEF MainInv, InRange, Contexts, CtxOK
<1>3. n \in Channels
  BY <1>2, SlotOfId
<1>4. TallyOf(ctx[0])[n] = ctx[0].stats[i]
  BY <1>2, <1>3, TallyOfKnown
<1>5. StatsOfRows(s, input, RowsFor(input, n, m))
  <2>1. StatsOfRows(TallyOf(ctx[0])[n][m], input, RowsFor(input, n, m))
    BY <1>3, FinalStats
  <2> QED
    BY <1>4, <2>1, Zenon
<1> HIDE DEF n, s
<1>6. /\ CountOf(s) % Word = 0 <=> ~ HasRows(n, m)
      /\ HasRows(n, m) =>
           [channel |-> n, month |-> m, min |-> s.min, max |-> s.max, total |-> s.total,
            count |-> CountOf(s) % Word, stamps |-> StampsOf(s)] = Promise!Line(input, n, m)
  BY <1>2, <1>3, <1>5, LineIs, Zenon DEF HasRows
<1>7. LineOf(ctx[0], i, m) =
        IF CountOf(s) % Word = 0 THEN <<>>
        ELSE << [channel |-> n, month |-> m, min |-> s.min, max |-> s.max, total |-> s.total,
                 count |-> CountOf(s) % Word, stamps |-> StampsOf(s)] >>
  BY Zenon DEF LineOf, n, s
<1>8. ~ HasRows(n, m) => LineOf(ctx[0], i, m) = <<>>
  BY <1>6, <1>7, Zenon
<1>9. HasRows(n, m) => LineOf(ctx[0], i, m) = <<Promise!Line(input, n, m)>>
  BY <1>6, <1>7, Zenon
<1> QED
  BY <1>3, <1>8, <1>9 DEF n

(* A channel that occurs has an id.                                        *)
LEMMA HasId ==
  ASSUME MainInv, Conserved, FromRows, TailCounted, pc = "format",
         NEW n \in Channels, NEW m \in Months, HasRows(n, m)
  PROVE  \E i \in Known(ctx[0]) : ctx[0].names[i] = n
<1> SUFFICES ASSUME \A i \in Known(ctx[0]) : ctx[0].names[i] # n
             PROVE  FALSE
  OBVIOUS
<1>1. TallyOf(ctx[0])[n][m] = NewStats
  BY TallyOfUnknown DEF FreshStats
<1>2. StatsOfRows(NewStats, input, RowsFor(input, n, m)) /\ input \in Inputs
  BY <1>1, FinalStats DEF MainInv, InRange
<1>3. ~ (CountOf(NewStats) % Word = 0)
  BY <1>2, LineIs, Zenon DEF HasRows
<1>4. CountOf(NewStats) % Word = 0
  <2>1. Word \in Nat \ {0} /\ 0 \in Nat /\ 0 < Word /\ 0 * Word + 0 = 0
    BY SizesAssumption
  <2>2. (0 * Word + 0) \div Word = 0 /\ (0 * Word + 0) % Word = 0
    BY <2>1, DivMod
  <2>3. NewStats.countStamps = 0
    BY DEF NewStats
  <2> QED
    BY <2>1, <2>2, <2>3, Zenon DEF CountOf
<1> QED
  BY <1>3, <1>4

LEMMA SummaryFacts ==
  ASSUME NEW in
  PROVE  /\ \A n \in Channels, m \in Months :
              RowsFor(in, n, m) # {} => Promise!Line(in, n, m) \in Promise!Summary(in)
         /\ \A x \in Promise!Summary(in) :
              \E n \in Channels, m \in Months : RowsFor(in, n, m) # {} /\ x = Promise!Line(in, n, m)
         /\ \A n, m : Promise!Line(in, n, m).channel = n /\ Promise!Line(in, n, m).month = m
<1> DEFINE pairs == {pair \in Channels \X Months : RowsFor(in, pair[1], pair[2]) # {}}
<1>1. Promise!Summary(in) = {Promise!Line(in, nm[1], nm[2]) : nm \in pairs}
  BY PromiseMeans, Zenon
<1>2. ASSUME NEW n \in Channels, NEW m \in Months, RowsFor(in, n, m) # {}
      PROVE  Promise!Line(in, n, m) \in Promise!Summary(in)
  <2>1. <<n, m>> \in pairs /\ <<n, m>>[1] = n /\ <<n, m>>[2] = m
    BY <1>2
  <2> HIDE DEF pairs
  <2> QED
    BY <1>1, <2>1, Zenon
<1>3. ASSUME NEW x \in Promise!Summary(in)
      PROVE  \E n \in Channels, m \in Months : RowsFor(in, n, m) # {} /\ x = Promise!Line(in, n, m)
  <2>1. PICK nm \in pairs : x = Promise!Line(in, nm[1], nm[2])
    BY <1>1, Zenon
  <2>2. nm[1] \in Channels /\ nm[2] \in Months /\ RowsFor(in, nm[1], nm[2]) # {}
    OBVIOUS
  <2> QED
    BY <2>1, <2>2, Zenon
<1>4. ASSUME NEW n, NEW m
      PROVE  Promise!Line(in, n, m).channel = n /\ Promise!Line(in, n, m).month = m
  <2>1. Promise!Line(in, n, m) =
          [channel |-> n, month |-> m,
           min    |-> Min({in[j].len : j \in RowsFor(in, n, m)}),
           max    |-> Max({in[j].len : j \in RowsFor(in, n, m)}),
           total  |-> SumFunction([j \in RowsFor(in, n, m) |-> in[j].len]),
           count  |-> Cardinality(RowsFor(in, n, m)),
           stamps |-> SumFunction([j \in RowsFor(in, n, m) |-> in[j].stamps])]
    BY PromiseMeans, Zenon
  <2>2. ASSUME NEW lo, NEW hi, NEW tot, NEW cnt, NEW st
        PROVE  LET x == [channel |-> n, month |-> m, min |-> lo, max |-> hi,
                         total |-> tot, count |-> cnt, stamps |-> st]
               IN  x.channel = n /\ x.month = m
    OBVIOUS
  <2> QED
    BY <2>1, <2>2, Zenon
<1> QED
  BY <1>2, <1>3, <1>4

(* The loop over ids and months, as one over their product.                *)
LEMMA Indices ==
  ASSUME NEW K \in Nat, NEW M \in Nat
  PROVE  /\ \A j \in 1..(K * M) : \E i \in 0..(K - 1), m \in 1..M :
              i = (j - 1) \div M /\ m = 1 + ((j - 1) % M) /\ j = i * M + m
         /\ \A i \in 0..(K - 1), m \in 1..M : \E j \in 1..(K * M) :
              i = (j - 1) \div M /\ m = 1 + ((j - 1) % M)
<1>1. ASSUME NEW j \in 1..(K * M)
      PROVE  \E i \in 0..(K - 1), m \in 1..M :
               i = (j - 1) \div M /\ m = 1 + ((j - 1) % M) /\ j = i * M + m
  <2>1. M \in Nat \ {0} /\ j - 1 \in Nat
    <3>1. M = 0 => K * M = 0
      OBVIOUS
    <3> QED
      BY <3>1
  <2>2. PICK q \in Nat, r \in 0..(M - 1) : q = (j - 1) \div M /\ r = (j - 1) % M /\ j - 1 = q * M + r
    BY <2>1, DivModOf
  <2>3. q < K
    <3>1. q >= K => q * M >= K * M
      BY <2>1
    <3>2. q * M + r + 1 <= K * M /\ q * M \in Nat /\ K * M \in Nat
      BY <2>1, <2>2
    <3> QED
      BY <3>1, <3>2
  <2>4. q \in 0..(K - 1) /\ r + 1 \in 1..M /\ j = q * M + (r + 1)
    BY <2>1, <2>2, <2>3
  <2>5. PICK m \in 1..M : m = 1 + r
    BY <2>4
  <2>6. m = 1 + ((j - 1) % M)
    BY <2>2, <2>5, Zenon
  <2>7. j = q * M + m
    BY <2>4, <2>5
  <2> QED
    BY <2>2, <2>4, <2>6, <2>7, Zenon
<1>2. ASSUME NEW i \in 0..(K - 1), NEW m \in 1..M
      PROVE  \E j \in 1..(K * M) : i = (j - 1) \div M /\ m = 1 + ((j - 1) % M)
  <2>1. /\ M \in Nat \ {0} /\ i \in Nat /\ m - 1 \in Nat /\ m - 1 < M /\ i <= K - 1 /\ i * M \in Nat
        /\ K * M \in Nat
    OBVIOUS
  <2>2. i * M <= (K - 1) * M
    BY <2>1
  <2>3. (K - 1) * M = K * M - M
    BY <2>1
  <2>4. i * M + m \in 1..(K * M)
    BY <2>1, <2>2, <2>3
  <2>5. (i * M + (m - 1)) \div M = i /\ (i * M + (m - 1)) % M = m - 1
    BY <2>1, DivMod
  <2>6. PICK j \in 1..(K * M) : j = i * M + m
    BY <2>4
  <2>7. j - 1 = i * M + (m - 1)
    BY <2>1, <2>6
  <2>8. i = (j - 1) \div M /\ m - 1 = (j - 1) % M
    BY <2>5, <2>7, Zenon
  <2>9. m = 1 + (m - 1)
    BY <2>1
  <2> QED
    BY <2>8, <2>9, Zenon
<1> QED
  BY <1>1, <1>2

(* The lines main formats are the summary, every line of it once.          *)
LEMMA LinesWhole ==
  ASSUME MainInv, Conserved, FromRows, TailCounted, pc = "format"
  PROVE  Whole(FlattenSeq([j \in 1..(ctx[0].count * Cardinality(Months)) |->
                             LineOf(ctx[0], (j - 1) \div Cardinality(Months),
                                            1 + ((j - 1) % Cardinality(Months)))]), input)
<1> DEFINE K == ctx[0].count
           M == Cardinality(Months)
           L(j) == LineOf(ctx[0], (j - 1) \div M, 1 + ((j - 1) % M))
           name == ctx[0].names
           S == Promise!Summary(input)
           seqs == [j \in 1..(K * M) |-> L(j)]
<1>1. 0 \in Threads /\ Begun(0)
  BY RangeFacts, JoinedLeft DEF AfterJoin
<1>2. K \in Nat /\ M \in Nat /\ Months = 1..M /\ Known(ctx[0]) = 0..(K - 1)
  <2>1. M \in Nat /\ Months = 1..M
    BY MainAssumption, FS_CardinalityType
  <2>2. K \in 0..MaxChannels
    BY <1>1 DEF MainInv, Contexts
  <2> QED
    BY <2>1, <2>2, SizesAssumption DEF Known
<1>3. \A i, k \in Known(ctx[0]) : name[i] = name[k] => i = k
  BY <1>1 DEF MainInv, Contexts, CtxOK, TableOK
<1>4. \A i \in Known(ctx[0]), m \in Months :
        /\ name[i] \in Channels
        /\ ~ HasRows(name[i], m) => LineOf(ctx[0], i, m) = <<>>
        /\ HasRows(name[i], m) => /\ LineOf(ctx[0], i, m) = <<Promise!Line(input, name[i], m)>>
                                  /\ Promise!Line(input, name[i], m) \in S
  <2> SUFFICES ASSUME NEW i \in Known(ctx[0]), NEW m \in Months
               PROVE  /\ name[i] \in Channels
                      /\ ~ HasRows(name[i], m) => LineOf(ctx[0], i, m) = <<>>
                      /\ HasRows(name[i], m) =>
                           /\ LineOf(ctx[0], i, m) = <<Promise!Line(input, name[i], m)>>
                           /\ Promise!Line(input, name[i], m) \in S
    OBVIOUS
  <2>1. /\ name[i] \in Channels
        /\ ~ HasRows(name[i], m) => LineOf(ctx[0], i, m) = <<>>
        /\ HasRows(name[i], m) => LineOf(ctx[0], i, m) = <<Promise!Line(input, name[i], m)>>
    BY LineOfId
  <2>2. HasRows(name[i], m) => Promise!Line(input, name[i], m) \in S
    BY <2>1, SummaryFacts, Zenon DEF HasRows
  <2> QED
    BY <2>1, <2>2
<1> HIDE DEF K, M, name, S
<1>5. ASSUME NEW j \in 1..(K * M)
      PROVE  \E i \in Known(ctx[0]), m \in Months :
               /\ j = i * M + m /\ name[i] \in Channels
               /\ \/ ~ HasRows(name[i], m) /\ L(j) = <<>>
                  \/ /\ HasRows(name[i], m) /\ Promise!Line(input, name[i], m) \in S
                     /\ L(j) = <<Promise!Line(input, name[i], m)>>
  <2>1. PICK i \in 0..(K - 1), m \in 1..M :
          i = (j - 1) \div M /\ m = 1 + ((j - 1) % M) /\ j = i * M + m
    BY <1>2, Indices
  <2>2. i \in Known(ctx[0]) /\ m \in Months
    BY <1>2
  <2>3. L(j) = LineOf(ctx[0], i, m)
    BY <2>1, Zenon
  <2> HIDE DEF L
  <2> QED
    BY <1>4, <2>1, <2>2, <2>3, Zenon
<1>6. ASSUME NEW i \in Known(ctx[0]), NEW m \in Months
      PROVE  \E j \in 1..(K * M) : L(j) = LineOf(ctx[0], i, m)
  <2>1. i \in 0..(K - 1) /\ m \in 1..M
    BY <1>2
  <2>2. PICK j \in 1..(K * M) : i = (j - 1) \div M /\ m = 1 + ((j - 1) % M)
    BY <1>2, <2>1, Indices
  <2>3. L(j) = LineOf(ctx[0], i, m)
    BY <2>2, Zenon
  <2> HIDE DEF L
  <2> QED
    BY <2>3
<1> HIDE DEF L
<1>7. ASSUME NEW x
      PROVE  /\ Range(<<x>>) = {x} /\ IsInjective(<<x>>)
             /\ Range(<<>>) = {} /\ IsInjective(<<>>)
  BY DEF Range, IsInjective
<1>8. \A j \in 1..(K * M) : L(j) \in Seq(S) /\ IsInjective(L(j))
  <2> SUFFICES ASSUME NEW j \in 1..(K * M)
               PROVE  L(j) \in Seq(S) /\ IsInjective(L(j))
    OBVIOUS
  <2>1. L(j) = <<>> \/ \E x \in S : L(j) = <<x>>
    BY <1>5, Zenon
  <2>2. \A x \in S : <<x>> \in Seq(S)
    OBVIOUS
  <2>3. <<>> \in Seq(S)
    OBVIOUS
  <2> QED
    BY <1>7, <2>1, <2>2, <2>3, Zenon
<1>9. seqs \in Seq(Seq(S)) /\ Len(seqs) = K * M /\ \A j \in 1..(K * M) : seqs[j] = L(j)
  <2>1. K * M \in Nat
    BY <1>2
  <2>2. seqs \in [1..(K * M) -> Seq(S)]
    BY <1>8
  <2> QED
    BY <2>1, <2>2
<1> HIDE DEF seqs
<1>10. ASSUME NEW j \in 1..(K * M), NEW k \in 1..(K * M), j # k
       PROVE  Range(L(j)) \cap Range(L(k)) = {}
  <2> SUFFICES ASSUME NEW x, x \in Range(L(j)), x \in Range(L(k))
               PROVE  FALSE
    OBVIOUS
  <2>1. PICK i \in Known(ctx[0]), m \in Months :
          j = i * M + m /\ L(j) = <<Promise!Line(input, name[i], m)>>
    BY <1>5, <1>7, Zenon
  <2>2. PICK i2 \in Known(ctx[0]), m2 \in Months :
          k = i2 * M + m2 /\ L(k) = <<Promise!Line(input, name[i2], m2)>>
    BY <1>5, <1>7, Zenon
  <2>3. Promise!Line(input, name[i], m) = Promise!Line(input, name[i2], m2)
    <3>1. Range(L(j)) = {Promise!Line(input, name[i], m)}
      BY <1>7, <2>1, Zenon
    <3>2. Range(L(k)) = {Promise!Line(input, name[i2], m2)}
      BY <1>7, <2>2, Zenon
    <3> QED
      BY <3>1, <3>2
  <2>4. name[i] = name[i2] /\ m = m2
    <3>1. \A nn, mm : Promise!Line(input, nn, mm).channel = nn /\ Promise!Line(input, nn, mm).month = mm
      BY SummaryFacts
    <3>2. /\ Promise!Line(input, name[i], m).channel = name[i]
          /\ Promise!Line(input, name[i], m).month = m
          /\ Promise!Line(input, name[i2], m2).channel = name[i2]
          /\ Promise!Line(input, name[i2], m2).month = m2
      BY <3>1, Zenon
    <3> QED
      BY <2>3, <3>2, Zenon
  <2>5. i = i2
    BY <1>3, <2>4
  <2> QED
    BY <1>10, <2>1, <2>2, <2>4, <2>5, Zenon
<1>11. /\ Range(FlattenSeq(seqs)) = UNION {Range(L(j)) : j \in 1..(K * M)}
       /\ IsInjective(FlattenSeq(seqs)) /\ FlattenSeq(seqs) \in Seq(S)
  <2>1. \A i \in 1..Len(seqs) : IsInjective(seqs[i])
    BY <1>8, <1>9, Zenon
  <2>2. \A i, j \in 1..Len(seqs) : i # j => Range(seqs[i]) \cap Range(seqs[j]) = {}
    BY <1>9, <1>10, Zenon
  <2>3. /\ Range(FlattenSeq(seqs)) = UNION {Range(seqs[i]) : i \in 1..Len(seqs)}
        /\ IsInjective(FlattenSeq(seqs))
    BY <1>9, <2>1, <2>2, FlattenOnce
  <2>4. FlattenSeq(seqs) \in Seq(S)
    BY <1>9, FlattenType
  <2>5. UNION {Range(seqs[i]) : i \in 1..Len(seqs)} = UNION {Range(L(j)) : j \in 1..(K * M)}
    BY <1>9, Zenon
  <2> QED
    BY <2>3, <2>4, <2>5, Zenon
<1>12. ASSUME NEW x \in S
       PROVE  x \in UNION {Range(L(j)) : j \in 1..(K * M)}
  <2>1. PICK n \in Channels, m \in Months : HasRows(n, m) /\ x = Promise!Line(input, n, m)
    BY SummaryFacts, Zenon DEF S, HasRows
  <2>2. PICK i \in Known(ctx[0]) : name[i] = n
    BY <2>1, HasId, Zenon DEF name
  <2>3. LineOf(ctx[0], i, m) = <<x>>
    BY <1>4, <2>1, <2>2, Zenon
  <2>4. PICK j \in 1..(K * M) : L(j) = <<x>>
    BY <1>6, <2>3, Zenon
  <2>5. x \in Range(L(j))
    BY <1>7, <2>4, Zenon
  <2> QED
    BY <2>4, <2>5
<1>13. \A j \in 1..(K * M) : Range(L(j)) \subseteq S
  <2> SUFFICES ASSUME NEW j \in 1..(K * M)
               PROVE  Range(L(j)) \subseteq S
    OBVIOUS
  <2>1. L(j) = <<>> \/ \E x \in S : L(j) = <<x>>
    BY <1>5, Zenon
  <2> QED
    BY <1>7, <2>1
<1>14. Range(FlattenSeq(seqs)) = S
  BY <1>11, <1>12, <1>13
<1>15. Whole(FlattenSeq(seqs), input)
  BY <1>11, <1>14, Zenon DEF Whole, S
<1> QED
  BY <1>15, Zenon DEF seqs, L, K, M

---------------------------------------------------------------------------
(* What is in the output file are the first w lines.                       *)
Written ==
  /\ pc = "format" => out = <<>>
  /\ pc = "write" => out = SubSeq(lines, 1, w) /\ Whole(lines, input)

LEMMA Prefix ==
  ASSUME NEW S, NEW ls \in Seq(S), IsInjective(ls), NEW k \in 0..Len(ls)
  PROVE  /\ SubSeq(ls, 1, k) \in Seq(S) /\ Len(SubSeq(ls, 1, k)) = k
         /\ \A i \in 1..k : SubSeq(ls, 1, k)[i] = ls[i]
         /\ Range(SubSeq(ls, 1, k)) \subseteq S /\ IsInjective(SubSeq(ls, 1, k))
<1> DEFINE p == SubSeq(ls, 1, k)
<1>1. Len(ls) \in Nat /\ k \in Nat /\ k <= Len(ls)
  OBVIOUS
<1>2. p \in Seq(S) /\ Len(p) = k /\ \A i \in 1..k : p[i] = ls[i]
  <2>1. \A i \in 1..k : ls[i] \in S
    BY <1>1
  <2> QED
    BY <1>1, <2>1
<1> HIDE DEF p
<1>3. DOMAIN p = 1..k
  BY <1>2
<1>4. Range(p) \subseteq S
  BY <1>2, <1>3 DEF Range
<1>5. IsInjective(p)
  <2>1. \A i, j \in 1..k : i \in DOMAIN ls /\ j \in DOMAIN ls
    BY <1>1
  <2> QED
    BY <1>2, <1>3, <2>1 DEF IsInjective
<1> QED
  BY <1>2, <1>4, <1>5 DEF p

LEMMA PrefixGrows ==
  ASSUME NEW S, NEW ls \in Seq(S), NEW k \in 0..Len(ls), NEW n \in 1..(Len(ls) - k)
  PROVE  /\ k + n \in 0..Len(ls)
         /\ SubSeq(ls, 1, k) \o SubSeq(ls, k + 1, k + n) = SubSeq(ls, 1, k + n)
         /\ SubSeq(SubSeq(ls, 1, k + n), 1, k) = SubSeq(ls, 1, k)
<1>1. Len(ls) \in Nat /\ k \in Nat /\ n \in Nat /\ k + n <= Len(ls)
  OBVIOUS
<1> DEFINE a == SubSeq(ls, 1, k)
           b == SubSeq(ls, k + 1, k + n)
           c == SubSeq(ls, 1, k + n)
<1>2. /\ a \in Seq(S) /\ Len(a) = k /\ \A i \in 1..k : a[i] = ls[i]
      /\ b \in Seq(S) /\ Len(b) = n /\ \A i \in 1..n : b[i] = ls[k + i]
      /\ c \in Seq(S) /\ Len(c) = k + n /\ \A i \in 1..(k + n) : c[i] = ls[i]
  BY <1>1
<1> HIDE DEF a, b, c
<1>3. a \in Seq(S) /\ b \in Seq(S) /\ c \in Seq(S) /\ Len(a) = k /\ Len(b) = n /\ Len(c) = k + n
  BY <1>2
<1>4. a \o b = c
  <2>1. /\ a \o b \in Seq(S)
        /\ Len(a \o b) = Len(a) + Len(b)
        /\ \A i \in 1..(Len(a) + Len(b)) :
              (a \o b)[i] = IF i <= Len(a) THEN a[i] ELSE b[i - Len(a)]
    BY <1>3, ConcatProperties
  <2>2. \A i \in 1..(k + n) : (a \o b)[i] = IF i <= k THEN a[i] ELSE b[i - k]
    BY <1>3, <2>1
  <2>3. ASSUME NEW i \in 1..(k + n)
        PROVE  (a \o b)[i] = c[i]
    <3>1. CASE i <= k
      <4>1. i \in 1..k
        BY <1>1, <3>1
      <4>2. (a \o b)[i] = a[i]
        BY <2>2, <3>1, Zenon
      <4> QED
        BY <1>2, <4>1, <4>2, Zenon
    <3>2. CASE ~(i <= k)
      <4>1. i - k \in 1..n /\ k + (i - k) = i
        BY <1>1, <3>2
      <4>2. (a \o b)[i] = b[i - k]
        BY <2>2, <3>2, Zenon
      <4>3. b[i - k] = ls[k + (i - k)] /\ c[i] = ls[i]
        BY <1>2, <4>1, Zenon
      <4> QED
        BY <4>1, <4>2, <4>3, Zenon
    <3> QED
      BY <3>1, <3>2, Zenon
  <2>4. Len(a \o b) = k + n
    BY <1>3, <2>1
  <2> QED
    BY <1>1, <1>3, <2>1, <2>3, <2>4, SeqEqual
<1>5. SubSeq(c, 1, k) = a
  <2>1. SubSeq(c, 1, k) \in Seq(S) /\ Len(SubSeq(c, 1, k)) = k
    <3>1. \A i \in 1..k : c[i] \in S
      BY <1>1, <1>3
    <3> QED
      BY <1>1, <1>3, <3>1
  <2>2. ASSUME NEW i \in 1..k
        PROVE  SubSeq(c, 1, k)[i] = a[i]
    <3>1. SubSeq(c, 1, k)[i] = c[i] /\ i \in 1..(k + n)
      BY <1>1, <1>3
    <3> QED
      BY <1>2, <3>1, Zenon
  <2> QED
    BY <1>3, <2>1, <2>2
<1> QED
  BY <1>1, <1>4, <1>5 DEF a, b, c

LEMMA WrittenNext ==
  ASSUME MainInv, Conserved, FromRows, TailCounted, Written, [Next]_vars
  PROVE  Written'
<1>1. CASE OpenOutput
  BY <1>1 DEF OpenOutput, Return, Written
<1>2. CASE Format
  <2>1. pc = "format" /\ UNCHANGED <<input, out, w>>
    BY <1>2 DEF Format, fixedVars
  <2>2. CASE pc' # "write"
    <3>1. pc' = "exit"
      BY <1>2, <2>2 DEF Format, Return
    <3> QED
      BY <3>1 DEF Written
  <2>3. CASE pc' = "write"
    <3>1. lines' = FlattenSeq([j \in 1..(ctx[0].count * Cardinality(Months)) |->
                       LineOf(ctx[0], (j - 1) \div Cardinality(Months),
                                      1 + ((j - 1) % Cardinality(Months)))])
      BY <1>2, <2>3, Zenon DEF Format, Return
    <3>2. Whole(lines', input)
      BY <2>1, <3>1, LinesWhole
    <3>3. out = <<>> /\ w = 0
      BY <2>1 DEF Written, MainInv, Writing
    <3>4. SubSeq(lines', 1, 0) = <<>>
      <4>1. lines' \in Seq(Promise!Summary(input))
        BY <3>2 DEF Whole
      <4> QED
        BY <4>1
    <3>5. out' = SubSeq(lines', 1, w')
      BY <2>1, <3>3, <3>4, Zenon
    <3> QED
      BY <2>1, <2>3, <3>2, <3>5, Zenon DEF Written
  <2> QED
    BY <2>2, <2>3
<1>3. CASE WriteSome
  <2>1. pc = "write" /\ UNCHANGED <<pc, input, lines>>
    BY <1>3 DEF WriteSome, fixedVars
  <2>2. PICK n \in 1..(Len(lines) - w) : out' = out \o SubSeq(lines, w + 1, w + n) /\ w' = w + n
    BY <1>3 DEF WriteSome
  <2>3. out = SubSeq(lines, 1, w) /\ Whole(lines, input) /\ w \in 0..Len(lines)
    BY <2>1 DEF Written, MainInv, Writing
  <2>4. lines \in Seq(Promise!Summary(input))
    BY <2>3 DEF Whole
  <2>5. SubSeq(lines, 1, w) \o SubSeq(lines, w + 1, w + n) = SubSeq(lines, 1, w + n)
    BY <2>2, <2>3, <2>4, PrefixGrows
  <2>6. out' = SubSeq(lines', 1, w')
    BY <2>1, <2>2, <2>3, <2>5, Zenon
  <2> QED
    BY <2>1, <2>3, <2>6, Zenon DEF Written
<1>4. CASE Interrupted \/ UNCHANGED vars
  <2>1. UNCHANGED <<pc, input, lines, w, out>>
    BY <1>4 DEF Interrupted, vars, fixedVars, writeVars
  <2> QED
    BY <2>1, Zenon DEF Written
<1>5. CASE \/ CannotStart \/ Partition \/ CreateThread \/ CallWorker \/ WorkerReturns \/ CallOwn
           \/ OwnReturns \/ Join \/ JoinFails \/ Joined \/ TailRow \/ TailDone \/ MergeNext
           \/ MergedOne \/ WriteFails \/ Close
  <2>1. pc' \notin {"format", "write"}
    BY <1>5 DEF CannotStart, Partition, CreateThread, CallWorker, WorkerReturns, CallOwn, OwnReturns,
       Join, JoinFails, Joined, TailRow, TailDone, MergeNext, MergedOne, WriteFails, Close, Return
  <2> QED
    BY <2>1 DEF Written
<1>6. CASE \E i \in Threads : WorkerStep(i)
  <2>1. pc' \notin {"format", "write"}
    BY <1>6, WorkerFacts DEF BeforeJoin
  <2> QED
    BY <2>1 DEF Written
<1> QED
  BY <1>1, <1>2, <1>3, <1>4, <1>5, <1>6 DEF Next, MainStep

(* Every step of the program is one of the promise or changes nothing of   *)
(* what it speaks about.                                                   *)
LEMMA StepRefines ==
  ASSUME MainInv, Written, [Next]_vars
  PROVE  [Promise!Next]_(Promise!vars)
<1>1. exit = "none" <=> pc # "exit"
  BY DEF MainInv, HandInv, Range1
<1>2. ASSUME pc # "exit", exit' = "failed", UNCHANGED <<input, out>>
      PROVE  Promise!Next
  BY <1>1, <1>2 DEF Promise!Next, Promise!Fail
<1>3. ASSUME UNCHANGED <<input, out, exit>>
      PROVE  [Promise!Next]_(Promise!vars)
  BY <1>3 DEF Promise!vars
<1>4. CASE CannotStart \/ JoinFails \/ WriteFails
  <2>1. pc # "exit" /\ exit' = "failed" /\ UNCHANGED <<input, out>>
    BY <1>4 DEF CannotStart, JoinFails, WriteFails, Return, fixedVars, writeVars
  <2> QED
    BY <1>2, <2>1
<1>5. CASE OpenOutput
  <2>1. pc # "exit" /\ input' = input
    BY <1>5 DEF OpenOutput, fixedVars
  <2>2. \/ out' = <<>> /\ exit' = exit
        \/ exit' = "failed" /\ out' = out
    BY <1>5 DEF OpenOutput, Return
  <2> QED
    BY <1>1, <1>2, <2>1, <2>2 DEF Promise!Next, Promise!Truncate
<1>6. CASE Format
  <2>1. pc # "exit" /\ UNCHANGED <<input, out>> /\ (exit' = exit \/ exit' = "failed")
    BY <1>6 DEF Format, Return, fixedVars
  <2> QED
    BY <1>2, <1>3, <2>1
<1>7. CASE WriteSome
  <2>1. pc = "write" /\ UNCHANGED <<input, exit>>
    BY <1>7 DEF WriteSome, fixedVars
  <2>2. PICK n \in 1..(Len(lines) - w) : out' = out \o SubSeq(lines, w + 1, w + n)
    BY <1>7 DEF WriteSome
  <2>3. out = SubSeq(lines, 1, w) /\ w \in 0..Len(lines)
    BY <2>1 DEF Written, MainInv, Writing
  <2>4. /\ lines \in Seq(Promise!Summary(input)) /\ IsInjective(lines)
    BY <2>1 DEF Written, Whole
  <2>5. /\ w + n \in 0..Len(lines)
        /\ SubSeq(lines, 1, w) \o SubSeq(lines, w + 1, w + n) = SubSeq(lines, 1, w + n)
        /\ SubSeq(SubSeq(lines, 1, w + n), 1, w) = SubSeq(lines, 1, w)
    BY <2>2, <2>3, <2>4, PrefixGrows
  <2>6. out' = SubSeq(lines, 1, w + n)
    BY <2>2, <2>3, <2>5, Zenon
  <2>7. Len(out) = w
    BY <2>3, <2>4, Prefix
  <2>8. /\ Len(out') = w + n
        /\ Range(out') \subseteq Promise!Summary(input) /\ IsInjective(out')
    BY <2>4, <2>5, <2>6, Prefix
  <2>9. Len(out') > Len(out)
    BY <2>2, <2>3, <2>7, <2>8
  <2>10. SubSeq(out', 1, Len(out)) = out
    BY <2>3, <2>5, <2>6, <2>7, Zenon
  <2>11. Promise!Range(out') \subseteq Promise!Summary(input) /\ Promise!IsInjective(out')
    <3>1. \A f : Promise!Range(f) = Range(f) /\ (Promise!IsInjective(f) <=> IsInjective(f))
      BY PromiseMeans
    <3> QED
      BY <2>8, <3>1, Zenon
  <2>12. exit = "none"
    BY <1>1, <2>1
  <2> QED
    BY <2>1, <2>9, <2>10, <2>11, <2>12 DEF Promise!Next, Promise!Put
<1>8. CASE Close
  <2>1. /\ pc = "write" /\ w = Len(lines) /\ UNCHANGED <<input, out>>
        /\ exit' = "ok" \/ exit' = "failed"
    BY <1>8 DEF Close, Return, fixedVars, writeVars
  <2>2. Promise!Range(out) = Promise!Summary(input)
    <3>1. out = SubSeq(lines, 1, Len(lines)) /\ Whole(lines, input)
      BY <2>1 DEF Written
    <3>2. lines \in Seq(Promise!Summary(input)) /\ Range(lines) = Promise!Summary(input)
      BY <3>1 DEF Whole
    <3>3. SubSeq(lines, 1, Len(lines)) = lines
      BY <3>2
    <3>4. Promise!Range(out) = Range(out)
      BY PromiseMeans, Zenon
    <3> QED
      BY <3>1, <3>2, <3>3, <3>4, Zenon
  <2> QED
    BY <1>1, <1>2, <2>1, <2>2 DEF Promise!Next, Promise!Succeed
<1>9. CASE \/ Partition \/ CreateThread \/ CallWorker \/ WorkerReturns \/ CallOwn \/ OwnReturns \/ Join
           \/ Joined \/ TailRow \/ TailDone \/ MergeNext \/ MergedOne \/ Interrupted
  <2>1. UNCHANGED <<input, out, exit>>
    BY <1>9 DEF Partition, CreateThread, CallWorker, WorkerReturns, CallOwn, OwnReturns, Join, Joined,
       TailRow, TailDone, MergeNext, MergedOne, Interrupted, fixedVars, writeVars
  <2> QED
    BY <1>3, <2>1
<1>10. CASE UNCHANGED vars
  <2>1. UNCHANGED <<input, out, exit>>
    BY <1>10 DEF vars, fixedVars, writeVars
  <2> QED
    BY <1>3, <2>1
<1>11. CASE \E i \in Threads : WorkerStep(i)
  <2>1. UNCHANGED <<input, out, exit>>
    BY <1>11, WorkerFacts DEF fixedVars, writeVars
  <2> QED
    BY <1>3, <2>1
<1> QED
  BY <1>4, <1>5, <1>6, <1>7, <1>8, <1>9, <1>10, <1>11 DEF Next, MainStep

(* For any number of threads, any shares, any failures and any             *)
(* interleaving, the program does what tools/reference.zig does or says    *)
(* that it did not: a run that exits 0 has written the line of every       *)
(* channel and month of the input, each once, with the minimum, maximum,   *)
(* total, count and stamps of its rows, and at no time is there a line in  *)
(* the file that is not one of these, once the file is truncated.          *)
THEOREM ImplementsTheorem == Spec => Implements
<1>1. Init => Promise!Init
  BY DEF Init, Promise!Init
<1>2. Init => FromRows /\ TailCounted /\ Written
  <2> SUFFICES ASSUME Init PROVE FromRows /\ TailCounted /\ Written
    OBVIOUS
  <2>1. FromRows
    BY DEF Init, FromRows, Begun
  <2> QED
    BY <2>1 DEF Init, TailCounted, Written
<1>3. MainInv /\ FromRows /\ [Next]_vars => FromRows'
  BY FromRowsNext
<1>4. MainInv /\ TailCounted /\ [Next]_vars => TailCounted'
  BY TailCountedNext
<1>5. MainInv /\ Conserved /\ FromRows /\ TailCounted /\ Written /\ [Next]_vars => Written'
  BY WrittenNext
<1>6. MainInv /\ Written /\ [Next]_vars => [Promise!Next]_(Promise!vars)
  BY StepRefines
<1> QED
  BY <1>1, <1>2, <1>3, <1>4, <1>5, <1>6, MainInvHolds, ConservedTheorem, PTL
     DEF Spec, Implements, Promise!Spec

=============================================================================
