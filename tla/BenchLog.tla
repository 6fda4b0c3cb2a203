------------------------------ MODULE BenchLog ------------------------------
(***************************************************************************)
(* The log of tools/bench.zig over many runs of the tool: appendLog reads  *)
(* the log, truncates it, and writes it again with one more line.  The     *)
(* buffer reaches the file in blocks that end anywhere in a line.  A run   *)
(* may die at any moment and any of the calls may fail; a log that cannot  *)
(* be read counts as empty.  The lines are numbered as they are measured,  *)
(* and the file is a sequence of pieces of them: <<n, k>> is the k-th      *)
(* piece of line n, and the last one ends with its line feed.              *)
(***************************************************************************)
EXTENDS Integers, SequencesExt

CONSTANTS
  MaxLines,    (* bound: lines measured                                    *)
  Width,       (* bound: the pieces of a line; blocks end between them     *)
  Limit        (* pieces that fit into the 2^26 bytes the log is read with *)

ASSUME BenchLogAssumption ==
  MaxLines \in Nat /\ Width \in Nat \ {0} /\ Limit \in Nat

VARIABLES
  log,         (* the file                                                 *)
  pc,          (* "measure", "create", "write"                             *)
  line,        (* the number of the last line measured                     *)
  old,         (* what was read                                            *)
  w,           (* how many pieces of the new contents are written          *)
  recorded,    (* history: the pieces of the lines whose appendLog returned*)
  hurt         (* history: an appendLog died, failed or could not read     *)

vars == <<log, pc, line, old, w, recorded, hurt>>

Text(n) == [k \in 1 .. Width |-> <<n, k>>]

Contents == old \o Text(line)

Init ==
  /\ log = <<>> /\ pc = "measure" /\ line = 0 /\ old = <<>> /\ w = 0
  /\ recorded = <<>> /\ hurt = FALSE

(* readFileAlloc(..., .limited(1 << 26)) catch ""                          *)
Read ==
  /\ pc = "measure" /\ line < MaxLines
  /\ line' = line + 1
  /\ \/ Len(log) <= Limit /\ old' = log /\ UNCHANGED hurt
     \/ old' = <<>> /\ hurt' = (hurt \/ log # <<>>)
  /\ w' = 0 /\ pc' = "create"
  /\ UNCHANGED <<log, recorded>>

(* createFile truncates.                                                   *)
Create ==
  /\ pc = "create" /\ log' = <<>> /\ pc' = "write"
  /\ UNCHANGED <<line, old, w, recorded, hurt>>

(* Mutant: the line is written before what was read.                       *)
WriteLineFirst ==
  /\ pc = "write" /\ w < Len(Contents)
  /\ log' = Append(log, (Text(line) \o old)[w + 1]) /\ w' = w + 1
  /\ UNCHANGED <<pc, line, old, recorded, hurt>>

(* What a block of 4 KiB, or the flush, brings into the file.              *)
Write ==
  /\ pc = "write" /\ w < Len(Contents)
  /\ log' = Append(log, Contents[w + 1]) /\ w' = w + 1
  /\ UNCHANGED <<pc, line, old, recorded, hurt>>

(* Mutant: appendLog returns without the last flush.                       *)
ReturnUnflushed ==
  /\ pc = "write" /\ w >= Len(old)
  /\ recorded' = recorded \o Text(line) /\ pc' = "measure"
  /\ UNCHANGED <<log, line, old, w, hurt>>

Return ==
  /\ pc = "write" /\ w = Len(Contents)
  /\ recorded' = recorded \o Text(line) /\ pc' = "measure"
  /\ UNCHANGED <<log, line, old, w, hurt>>

(* An error of createFile or of a write, or the end of the process.        *)
Dies ==
  /\ pc \in {"create", "write"}
  /\ pc' = "measure" /\ hurt' = TRUE
  /\ UNCHANGED <<log, line, old, w, recorded>>

Next == Read \/ Create \/ Write \/ Return \/ Dies

Spec == Init /\ [][Next]_vars

---------------------------------------------------------------------------
(* As long as every appendLog gets through, the log is the history.        *)
LogIsHistory == pc = "measure" /\ ~ hurt => log = recorded

(* q may stand behind p: it goes on with p's line or begins a newer one.   *)
Follows(p, q) ==
  \/ q[1] = p[1] /\ q[2] = p[2] + 1
  \/ q[1] > p[1] /\ q[2] = 1

(* Whatever happened before, the log has beginnings of lines, or all of    *)
(* them, in the order of the measurements and none twice: a line may lack  *)
(* its end, and the next one stands behind it in the same line of the file,*)
(* but none lacks its front or is in another's middle.                     *)
LogInOrder ==
  /\ \A i \in DOMAIN log \ {1} : Follows(log[i - 1], log[i])
  /\ log # <<>> => log[1][2] = 1
=============================================================================
