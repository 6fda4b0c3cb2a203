------------------------------ MODULE Download ------------------------------
(***************************************************************************)
(* tools/download.zig over several runs of the tool: each dataset that is  *)
(* not there yet is fetched into one shared temporary file, with retries   *)
(* on server errors, and decompressed straight into its destination.  A    *)
(* run may be killed between any two steps.                                *)
(*                                                                         *)
(* The contents of a file is a sequence of blocks; block k of dataset d is *)
(* <<d, k>>, compressed or not, and anything else is not a block of a      *)
(* dataset.  What std.http and std.Io do is modelled as the tool uses it:  *)
(* the body of any response goes to the writer, whose buffer reaches the   *)
(* file, at the position the writer keeps, when it is full or flushed.     *)
(***************************************************************************)
EXTENDS Integers, SequencesExt

CONSTANTS
  Order,         (* the datasets, in the order of sizes and kinds           *)
  Blocks,        (* the number of blocks of each                            *)
  MaxAttempts,   (* max_attempts                                            *)
  MaxRuns,       (* bound: runs of the tool                                 *)
  Absent         (* no such file                                            *)

Datasets == Range(Order)

ASSUME DownloadAssumption ==
  /\ Order \in Seq(Datasets) /\ Order # <<>> /\ IsInjective(Order)
  /\ Blocks \in [Datasets -> Nat \ {0}]
  /\ \A d \in Datasets : Absent # [k \in 1..Blocks[d] |-> <<d, k>>]
  /\ MaxAttempts \in Nat \ {0} /\ MaxRuns \in Nat

VARIABLES
  dest,          (* datasets/public-*: contents or Absent                   *)
  tmp,           (* datasets/download.zst.tmp                               *)
  pc, i, failed, (* main                                                    *)
  attempt,
  status, body,  (* the response being received, what is left of its body   *)
  buffer, at,    (* the writer of tmp: unwritten blocks, its file position  *)
  runs, exit,    (* runs begun, result of the last one that ended           *)
  unseen,        (* history: the destination of the last fetch, if it was   *)
                 (* there and statFile failed                               *)
  cutShort       (* history: the destinations at which a run died or failed *)
                 (* while it wrote them, and that were not opened since     *)

mainVars   == <<pc, i, failed, attempt>>
writerVars == <<status, body, buffer, at>>
vars == <<dest, tmp, mainVars, writerVars, runs, exit, unseen, cutShort>>

Archive(d) == [k \in 1..Blocks[d] |-> <<d, k>>]
Junk       == <<"error page", 0>>
Hole       == <<"hole", 0>>

Current == Order[i]

(* A write of blocks at a position: a gap before it reads as zeros.        *)
PutAt(file, pos, blocks) ==
  [k \in 1..(IF pos + Len(blocks) > Len(file) THEN pos + Len(blocks) ELSE Len(file)) |->
     IF k > pos /\ k <= pos + Len(blocks) THEN blocks[k - pos]
     ELSE IF k <= Len(file) THEN file[k] ELSE Hole]

Init ==
  /\ dest = [d \in Datasets |-> Absent] /\ tmp = Absent
  /\ pc = "idle" /\ i = 1 /\ failed = FALSE /\ attempt = 1
  /\ status = "none" /\ body = <<>> /\ buffer = <<>> /\ at = 0
  /\ runs = 0 /\ exit = "none" /\ unseen = {} /\ cutShort = {}

Start ==
  /\ pc = "idle" /\ runs < MaxRuns
  /\ pc' = "next" /\ i' = 1 /\ failed' = FALSE /\ runs' = runs + 1 /\ exit' = "none"
  /\ UNCHANGED <<dest, tmp, attempt, writerVars, unseen, cutShort>>

(* Mutant: what was found is fetched all the same.                         *)
SkipNot ==
  /\ pc = "next" /\ i <= Len(Order) /\ dest[Current] # Absent
  /\ tmp' = <<>> /\ buffer' = <<>> /\ at' = 0 /\ attempt' = 1
  /\ pc' = "request" /\ unseen' = {}
  /\ UNCHANGED <<dest, i, failed, status, body, runs, exit, cutShort>>

(* statFile finds the destination                                          *)
Skip ==
  /\ pc = "next" /\ i <= Len(Order) /\ dest[Current] # Absent
  /\ i' = i + 1
  /\ UNCHANGED <<dest, tmp, pc, failed, attempt, writerVars, runs, exit, unseen, cutShort>>

(* Mutant: the destination is created before the dataset is fetched.       *)
CreateBoth ==
  /\ pc = "next" /\ i <= Len(Order)
  /\ dest' = [dest EXCEPT ![Current] = <<>>]
  /\ tmp' = <<>> /\ buffer' = <<>> /\ at' = 0 /\ attempt' = 1
  /\ pc' = "request" /\ unseen' = {d \in {Current} : dest[d] # Absent}
  /\ UNCHANGED <<i, failed, status, body, runs, exit, cutShort>>

(* Any error of statFile counts as an absent destination.                  *)
CreateTmp ==
  /\ pc = "next" /\ i <= Len(Order)
  /\ tmp' = <<>> /\ buffer' = <<>> /\ at' = 0 /\ attempt' = 1
  /\ pc' = "request" /\ unseen' = {d \in {Current} : dest[d] # Absent}
  /\ UNCHANGED <<dest, i, failed, status, body, runs, exit, cutShort>>

Respond ==
  /\ pc = "request"
  /\ \/ status' = "ok" /\ body' = Archive(Current)
     \/ status' \in {"server error", "client error"} /\ body' = <<Junk>>
  /\ pc' = "receive"
  /\ UNCHANGED <<dest, tmp, i, failed, attempt, buffer, at, runs, exit, unseen, cutShort>>

Receive ==
  /\ pc = "receive" /\ body # <<>>
  /\ buffer' = Append(buffer, Head(body)) /\ body' = Tail(body)
  /\ UNCHANGED <<dest, tmp, mainVars, status, at, runs, exit, unseen, cutShort>>

(* The buffer is full.                                                     *)
Drain ==
  /\ pc = "receive" /\ buffer # <<>>
  /\ tmp' = PutAt(tmp, at, buffer) /\ at' = at + Len(buffer) /\ buffer' = <<>>
  /\ UNCHANGED <<dest, mainVars, status, body, runs, exit, unseen, cutShort>>

Fetched ==
  /\ pc = "receive" /\ body = <<>> /\ status = "ok"
  /\ tmp' = PutAt(tmp, at, buffer) /\ at' = at + Len(buffer) /\ buffer' = <<>>
  /\ pc' = "open"
  /\ UNCHANGED <<dest, i, failed, attempt, status, body, runs, exit, unseen, cutShort>>

(* Mutant: the attempts are not counted (and the writer starts over, which *)
(* keeps the mutant's states finite).                                      *)
RetryUncounted ==
  /\ pc = "receive" /\ body = <<>> /\ status = "server error" /\ attempt < MaxAttempts
  /\ tmp' = <<>> /\ buffer' = <<>> /\ at' = 0 /\ pc' = "request"
  /\ UNCHANGED <<dest, i, failed, attempt, status, body, runs, exit, unseen, cutShort>>

(* Mutant: the attempts are compared one too late.                         *)
RetryOnceMore ==
  /\ pc = "receive" /\ body = <<>> /\ status = "server error" /\ attempt <= MaxAttempts
  /\ tmp' = <<>> /\ attempt' = attempt + 1 /\ pc' = "request"
  /\ UNCHANGED <<dest, i, failed, writerVars, runs, exit, unseen, cutShort>>

(* file.setLength(0), and the next attempt writes through the same writer  *)
Retry ==
  /\ pc = "receive" /\ body = <<>> /\ status = "server error" /\ attempt < MaxAttempts
  /\ tmp' = <<>> /\ attempt' = attempt + 1 /\ pc' = "request"
  /\ UNCHANGED <<dest, i, failed, writerVars, runs, exit, unseen, cutShort>>

(* Mutant: a dataset that could not be fetched is decompressed all the     *)
(* same.                                                                   *)
FetchFailsOn ==
  /\ \/ pc = "next" /\ i <= Len(Order)
     \/ pc \in {"request", "receive"}
  /\ failed' = TRUE /\ pc' = (IF tmp = Absent THEN "next" ELSE "open")
  /\ i' = (IF tmp = Absent THEN i + 1 ELSE i)
  /\ UNCHANGED <<dest, tmp, attempt, writerVars, runs, exit, unseen, cutShort>>

(* fetchToFile fails: the file cannot be created or written, the           *)
(* connection fails, or the last status is an error.                       *)
FetchFails ==
  /\ \/ pc = "next" /\ i <= Len(Order)
     \/ pc \in {"request", "receive"}
  /\ failed' = TRUE /\ i' = i + 1 /\ pc' = "next"
  /\ UNCHANGED <<dest, tmp, attempt, writerVars, runs, exit, unseen, cutShort>>

OpenDest ==
  /\ pc = "open"
  /\ dest' = [dest EXCEPT ![Current] = <<>>] /\ cutShort' = cutShort \ {Current}
  /\ pc' = "decompress"
  /\ UNCHANGED <<tmp, i, failed, attempt, writerVars, runs, exit, unseen>>

(* The next block of tmp follows the one before it in its archive.         *)
Decodable(k) ==
  \E d \in Datasets : \E b \in 1..Blocks[d] :
    tmp[k] = <<d, b>> /\ (b > 1 => k > 1 /\ tmp[k - 1] = <<d, b - 1>>)

Decompress ==
  LET k == Len(dest[Current]) + 1 IN
  /\ pc = "decompress" /\ k <= Len(tmp) /\ Decodable(k)
  /\ dest' = [dest EXCEPT ![Current] = Append(@, tmp[k])]
  /\ UNCHANGED <<tmp, mainVars, writerVars, runs, exit, unseen, cutShort>>

Decompressed ==
  /\ pc = "decompress" /\ Len(dest[Current]) = Len(tmp)
  /\ \E d \in Datasets : tmp # <<>> /\ tmp[Len(tmp)] = <<d, Blocks[d]>>
  /\ i' = i + 1 /\ pc' = "next"
  /\ UNCHANGED <<dest, tmp, failed, attempt, writerVars, runs, exit, unseen, cutShort>>

(* try decompressToFile: what is not an archive, or an error writing; the  *)
(* program returns the error.                                              *)
DecompressFails ==
  /\ pc \in {"open", "decompress"}
  /\ pc' = "idle" /\ exit' = "failed"
  /\ cutShort' = IF pc = "decompress" THEN cutShort \cup {Current} ELSE cutShort
  /\ UNCHANGED <<dest, tmp, i, failed, attempt, writerVars, runs, unseen>>

End ==
  /\ pc = "next" /\ i > Len(Order)
  /\ tmp' = Absent
  /\ pc' = "idle" /\ exit' = (IF failed THEN "failed" ELSE "ok")
  /\ UNCHANGED <<dest, i, failed, attempt, writerVars, runs, unseen, cutShort>>

Killed ==
  /\ pc # "idle"
  /\ pc' = "idle" /\ exit' = "killed"
  /\ cutShort' = IF pc = "decompress" THEN cutShort \cup {Current} ELSE cutShort
  /\ UNCHANGED <<dest, tmp, i, failed, attempt, writerVars, runs, unseen>>

Step ==
  \/ Skip \/ CreateTmp \/ Respond \/ Receive \/ Drain \/ Fetched \/ Retry \/ FetchFails
  \/ OpenDest \/ Decompress \/ Decompressed \/ DecompressFails \/ End

Next == Start \/ Step \/ Killed

Spec == Init /\ [][Next]_vars

(* A run that is not killed goes on.                                       *)
FairSpec == Spec /\ WF_vars(Step)

---------------------------------------------------------------------------
TypeOK ==
  /\ pc \in {"idle", "next", "request", "receive", "open", "decompress"}
  /\ i \in 1..(Len(Order) + 1) /\ failed \in BOOLEAN /\ attempt \in 1..MaxAttempts
  /\ status \in {"none", "ok", "server error", "client error"}
  /\ runs \in 0..MaxRuns /\ exit \in {"none", "ok", "failed", "killed"}
  /\ unseen \subseteq Datasets /\ cutShort \subseteq Datasets

(* A destination only ever holds the beginning of its own dataset, however *)
(* many runs and datasets have used the temporary file before it.          *)
OwnContents == \A d \in Datasets : dest[d] # Absent => IsPrefix(dest[d], Archive(d))

(* What has been obtained is not touched again, except by a run whose      *)
(* statFile failed to see that very destination.                           *)
KeepsObtained ==
  [][\A d \in Datasets :
       dest[d] = Archive(d) /\ d \notin unseen => dest'[d] = dest[d]]_vars

(* A destination that is not complete is being written, or the run that    *)
(* last wrote it died or failed while it did: no fetch that failed, and    *)
(* nothing that happened to another destination, leaves one.               *)
PartialIsCutShort ==
  \A d \in Datasets :
    dest[d] # Absent /\ dest[d] # Archive(d) =>
      d \in cutShort \/ (pc = "decompress" /\ Current = d)

(* Every run ends: retries are bounded.                                    *)
RunsEnd == pc # "idle" ~> pc = "idle"

(* "Skipped (already obtained)": when a run reports success, every dataset *)
(* is there.                                                               *)
SuccessIsComplete == exit = "ok" => \A d \in Datasets : dest[d] = Archive(d)

(* A retry starts over: once a response is good, the temporary file is the *)
(* archive it carried.                                                     *)
FetchedIsArchive == pc = "open" => tmp = Archive(Current)
=============================================================================
