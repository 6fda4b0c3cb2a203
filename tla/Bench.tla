------------------------------- MODULE Bench --------------------------------
(***************************************************************************)
(* tools/bench.zig over many runs of the tool, with the programs it runs,  *)
(* the verifier it asks about their output, and its log (BenchLog).  A run *)
(* measures one program, or two in turn; each measurement deletes the old  *)
(* output, runs the program and has the output verified.  Only a run all   *)
(* of whose measurements are right reaches the log.  Deleting may fail and *)
(* is not checked; the tool may end at any moment; a program may fail      *)
(* before it opens the output, or with any part of it written.             *)
(***************************************************************************)
EXTENDS BenchLog, Verify

CONSTANTS
  Runs,        (* --runs                                                   *)
  Outputs,     (* what a program may write to work/bench-out.txt           *)
  Expecteds,   (* the expected outputs of the datasets                     *)
  Absent       (* there is no output                                       *)

ASSUME BenchAssumption ==
  /\ Runs \in Nat \ {0} /\ Absent \notin Outputs
  /\ Outputs \subseteq Seq(RawLines) /\ Expecteds \subseteq Seq(RawLines)

VARIABLES
  stage,       (* "idle", "delete", "run", "verify", "append"              *)
  programs,    (* 1, or 2 with --bin2                                      *)
  turn,        (* the program that is measured, or whose line is appended  *)
  expected,    (* --expected                                               *)
  output,      (* work/bench-out.txt                                       *)
  own,         (* history: `output` is from the program just run           *)
  times,       (* the measurements of each program, as what they rest on   *)
  evidence     (* history: by line, the program and its measurements       *)

toolVars == <<stage, programs, turn, expected, output, own, times, evidence>>

benchVars == <<vars, toolVars>>

BenchInit ==
  /\ Init
  /\ stage = "idle" /\ programs = 1 /\ turn = 1 /\ expected \in Expecteds
  /\ output = Absent /\ own = FALSE
  /\ times = [p \in 1 .. 2 |-> <<>>] /\ evidence = <<>>

Start ==
  /\ stage = "idle" /\ line < MaxLines
  /\ stage' = "delete" /\ turn' = 1
  /\ programs' \in 1 .. 2 /\ expected' \in Expecteds
  /\ times' = [p \in 1 .. 2 |-> <<>>]
  /\ UNCHANGED <<vars, output, own, evidence>>

(* deleteFile(io, output_path) catch {}                                    *)
Delete ==
  /\ stage = "delete"
  /\ output' \in {Absent, output} /\ own' = FALSE
  /\ stage' = "run"
  /\ UNCHANGED <<vars, programs, turn, expected, times, evidence>>

(* The program ends with 0, which it does only after opening the output.   *)
RunSucceeds ==
  /\ stage = "run"
  /\ output' \in Outputs /\ own' = TRUE
  /\ stage' = "verify"
  /\ UNCHANGED <<vars, programs, turn, expected, times, evidence>>

(* Mutant: the program's exit status is not looked at.                     *)
RunFailsUnnoticed ==
  /\ stage = "run"
  /\ \/ UNCHANGED <<output, own>>
     \/ output' \in Outputs /\ own' = TRUE
  /\ stage' = "verify"
  /\ UNCHANGED <<vars, programs, turn, expected, times, evidence>>

(* It cannot be started, is killed, or ends with another status: main      *)
(* returns 1.                                                              *)
RunFails ==
  /\ stage = "run"
  /\ \/ UNCHANGED <<output, own>>
     \/ output' \in Outputs /\ own' = TRUE
  /\ stage' = "idle"
  /\ UNCHANGED <<vars, programs, turn, expected, times, evidence>>

(* main's loop takes the programs in turn.                                 *)
NextTurn == IF turn < programs THEN turn + 1 ELSE 1

Measured == turn = programs /\ Len(times[turn]) + 1 = Runs

RunVerified ==
  /\ stage = "verify" /\ output # Absent /\ Accepts(output, expected)
  /\ times' = [times EXCEPT ![turn] =
       Append(@, [own |-> own, right |-> SameLines(output, expected)])]
  /\ stage' = IF Measured THEN "append" ELSE "delete"
  /\ turn' = NextTurn
  /\ UNCHANGED <<vars, programs, expected, output, own, evidence>>

(* verify ends with 1, or fails itself.                                    *)
RunRejected ==
  /\ stage = "verify" /\ stage' = "idle"
  /\ UNCHANGED <<vars, programs, turn, expected, output, own, times, evidence>>

(* appendLog for each program.                                             *)
AppendRead ==
  /\ stage = "append" /\ Read
  /\ evidence' = Append(evidence, [program |-> turn, times |-> times[turn]])
  /\ UNCHANGED <<stage, programs, turn, expected, output, own, times>>

AppendWrites ==
  /\ stage = "append" /\ (Create \/ Write)
  /\ UNCHANGED toolVars

AppendReturns ==
  /\ stage = "append" /\ Return
  /\ stage' = IF turn < programs THEN "append" ELSE "idle"
  /\ turn' = NextTurn
  /\ UNCHANGED <<programs, expected, output, own, times, evidence>>

AppendDies ==
  /\ stage = "append" /\ Dies /\ stage' = "idle"
  /\ UNCHANGED <<programs, turn, expected, output, own, times, evidence>>

(* The tool is killed outside appendLog, or a call there fails.            *)
Stops ==
  /\ stage # "idle" /\ pc = "measure" /\ stage' = "idle"
  /\ UNCHANGED <<vars, programs, turn, expected, output, own, times, evidence>>

BenchNext ==
  \/ Start \/ Delete \/ RunSucceeds \/ RunFails \/ RunVerified \/ RunRejected
  \/ AppendRead \/ AppendWrites \/ AppendReturns \/ AppendDies \/ Stops

BenchSpec == BenchInit /\ [][BenchNext]_benchVars

---------------------------------------------------------------------------
(* Whatever the log has of a line, the line rests on as many measurements  *)
(* as were asked for, each of a program that wrote the output itself, and  *)
(* wrote the right one.                                                    *)
OnlyVerified ==
  \A n \in {piece[1] : piece \in ToSet(log)} :
    /\ Len(evidence[n].times) = Runs
    /\ \A i \in 1 .. Runs : evidence[n].times[i].own /\ evidence[n].times[i].right

(* The verifier accepts exactly the outputs with the expected lines, and   *)
(* shows of any other a difference there is.                               *)
VerdictRight ==
  output # Absent =>
    /\ Accepts(output, expected) <=> SameLines(output, expected)
    /\ ~ Accepts(output, expected) => ShowsDifference(output, expected)
=============================================================================
