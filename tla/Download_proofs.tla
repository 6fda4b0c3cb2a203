---------------------------- MODULE Download_proofs ----------------------------
(***************************************************************************)
(* Theorems about tools/download.zig: whatever the runs, responses and     *)
(* kills before it, a destination holds the beginning of its own dataset,  *)
(* is complete unless the run that last wrote it was cut short while it    *)
(* did, and is not touched again once it is complete and seen to be there. *)
(*                                                                         *)
(* The argument.  All attempts of one fetch write through one writer, so   *)
(* the temporary file may hold error pages and gaps; but a fetch receives  *)
(* at most one good response, its last.  So the blocks of an archive lie   *)
(* in the file as in the archive, all moved by the same distance, and a    *)
(* decompression that accepts the first block knows the distance is 0.     *)
(***************************************************************************)
EXTENDS Download, TLAPS

Pieces == (Datasets \X Nat) \cup {Junk, Hole}

(* What a fetch writes that is no block of an archive.                     *)
Other == {Junk, Hole}

(* Each piece of s, which lies at pos in the file, is a block of the       *)
(* archive of d moved by base, or no block.                                *)
Placed(s, pos, d, base) ==
  \A k \in 1..Len(s) :
    \/ s[k] \in Other
    \/ pos + k - base \in 1..Blocks[d] /\ s[k] = <<d, pos + k - base>>

(* The whole archive, when its blocks 1..Len(s) are those of s.            *)
Begins(s, d) ==
  /\ s \in Seq(Pieces) /\ Len(s) <= Blocks[d]
  /\ \A k \in 1..Len(s) : s[k] = <<d, k>>

(* Where the writer puts the block before the first of the good response.  *)
Base == at + Len(buffer) + Len(body) - Blocks[Current]

Stores ==
  /\ dest \in [Datasets -> {Absent} \cup Seq(Pieces)]
  /\ body \in Seq(Pieces) /\ buffer \in Seq(Pieces) /\ at \in Nat

Fetching ==
  pc \in {"request", "receive", "open", "decompress"} =>
    /\ i \in 1..Len(Order) /\ tmp \in Seq(Pieces)
    /\ dest[Current] # Absent => pc = "decompress" \/ Current \in unseen

(* Before the good response nothing has been written that is a block.      *)
NoBlockYet ==
  (pc = "request" \/ (pc = "receive" /\ status # "ok")) =>
    /\ \A k \in 1..Len(tmp) : tmp[k] \in Other
    /\ \A k \in 1..Len(buffer) : buffer[k] \in Other
    /\ pc = "receive" => \A k \in 1..Len(body) : body[k] \in Other

Receiving ==
  (pc = "receive" /\ status = "ok") =>
    /\ Placed(tmp, 0, Current, Base) /\ Placed(buffer, at, Current, Base)
    /\ Len(body) <= Blocks[Current]
    /\ \A k \in 1..Len(body) : body[k] = <<Current, Blocks[Current] - Len(body) + k>>

Received ==
  pc \in {"open", "decompress"} => \E base \in Int : Placed(tmp, 0, Current, base)

Decompressing ==
  pc = "decompress" =>
    /\ Begins(dest[Current], Current) /\ Len(dest[Current]) <= Len(tmp)
    /\ \A k \in 1..Len(dest[Current]) : tmp[k] = <<Current, k>>

Own == \A d \in Datasets : dest[d] # Absent => Begins(dest[d], d)

(* TypeOK without the flag.                                                *)
Ranges ==
  /\ pc \in {"idle", "next", "request", "receive", "open", "decompress"}
  /\ i \in 1..(Len(Order) + 1) /\ attempt \in 1..MaxAttempts
  /\ status \in {"none", "ok", "server error", "client error"}
  /\ runs \in 0..MaxRuns /\ exit \in {"none", "ok", "failed", "killed"}

(* The inductive invariant.                                                *)
DownloadInv ==
  /\ Ranges /\ Stores /\ Fetching /\ NoBlockYet /\ Receiving /\ Received /\ Decompressing
  /\ Own /\ PartialIsCutShort

---------------------------------------------------------------------------
LEMMA OrderFacts ==
  /\ Len(Order) \in Nat \ {0}
  /\ \A j \in 1..Len(Order) : Order[j] \in Datasets
  /\ \A d \in Datasets : Blocks[d] \in Nat \ {0}
  /\ MaxAttempts \in Nat \ {0} /\ MaxRuns \in Nat
BY DownloadAssumption

LEMMA ArchiveFacts ==
  ASSUME NEW d \in Datasets
  PROVE  /\ Archive(d) \in Seq(Pieces) /\ Len(Archive(d)) = Blocks[d]
         /\ \A k \in 1..Blocks[d] : Archive(d)[k] = <<d, k>>
         /\ Archive(d) # Absent
<1>1. Blocks[d] \in Nat \ {0}
  BY OrderFacts
<1>2. \A k \in 1..Blocks[d] : <<d, k>> \in Pieces
  BY <1>1 DEF Pieces
<1>3. Archive(d) # Absent
  BY DownloadAssumption DEF Archive
<1> QED
  BY <1>1, <1>2, <1>3 DEF Archive

(* A sequence that begins like its archive and is as long is the archive.  *)
LEMMA WholeArchive ==
  ASSUME NEW d \in Datasets, NEW s, Begins(s, d), Len(s) = Blocks[d]
  PROVE  s = Archive(d)
<1> USE DEF Begins
<1>1. s \in Seq(Pieces)
  OBVIOUS
<1>2. \A k \in 1..Len(s) : s[k] = Archive(d)[k]
  BY ArchiveFacts
<1> QED
  BY <1>1, <1>2, ArchiveFacts

(* What a write of blocks leaves in a file.                                *)
LEMMA PutAtFacts ==
  ASSUME NEW file \in Seq(Pieces), NEW pos \in Nat, NEW blocks \in Seq(Pieces)
  PROVE  /\ PutAt(file, pos, blocks) \in Seq(Pieces)
         /\ \A k \in 1..Len(PutAt(file, pos, blocks)) :
              \/ k - pos \in 1..Len(blocks) /\ PutAt(file, pos, blocks)[k] = blocks[k - pos]
              \/ k \in 1..Len(file) /\ PutAt(file, pos, blocks)[k] = file[k]
              \/ PutAt(file, pos, blocks)[k] = Hole
<1> DEFINE n == IF pos + Len(blocks) > Len(file) THEN pos + Len(blocks) ELSE Len(file)
           e(k) == IF k > pos /\ k <= pos + Len(blocks) THEN blocks[k - pos]
                   ELSE IF k <= Len(file) THEN file[k] ELSE Hole
<1>1. n \in Nat
  OBVIOUS
<1>2. \A k \in 1..n : \/ k - pos \in 1..Len(blocks) /\ e(k) = blocks[k - pos]
                      \/ k \in 1..Len(file) /\ e(k) = file[k]
                      \/ e(k) = Hole
  OBVIOUS
<1>3. \A k \in 1..n : e(k) \in Pieces
  BY <1>2 DEF Pieces
<1>4. PutAt(file, pos, blocks) = [k \in 1..n |-> e(k)]
  BY DEF PutAt
<1> HIDE DEF n, e
<1>5. [k \in 1..n |-> e(k)] \in Seq(Pieces) /\ Len([k \in 1..n |-> e(k)]) = n
  BY <1>1, <1>3
<1> QED
  BY <1>2, <1>4, <1>5

(* A write keeps the distance, and adds nothing that is a block to a file  *)
(* without blocks.                                                         *)
LEMMA PutAtPlaced ==
  ASSUME NEW file \in Seq(Pieces), NEW pos \in Nat, NEW blocks \in Seq(Pieces),
         NEW d \in Datasets, NEW base \in Int,
         Placed(file, 0, d, base), Placed(blocks, pos, d, base)
  PROVE  Placed(PutAt(file, pos, blocks), 0, d, base)
<1> DEFINE new == PutAt(file, pos, blocks)
<1>1. /\ new \in Seq(Pieces)
      /\ \A k \in 1..Len(new) : \/ k - pos \in 1..Len(blocks) /\ new[k] = blocks[k - pos]
                                \/ k \in 1..Len(file) /\ new[k] = file[k]
                                \/ new[k] = Hole
  BY PutAtFacts
<1> HIDE DEF new
<1> SUFFICES ASSUME NEW k \in 1..Len(new)
             PROVE  new[k] \in Other \/ (k - base \in 1..Blocks[d] /\ new[k] = <<d, k - base>>)
  BY DEF Placed, new
<1>2. CASE k - pos \in 1..Len(blocks) /\ new[k] = blocks[k - pos]
  <2>1. \/ blocks[k - pos] \in Other
        \/ /\ pos + (k - pos) - base \in 1..Blocks[d]
           /\ blocks[k - pos] = <<d, pos + (k - pos) - base>>
    BY <1>2 DEF Placed
  <2>2. pos + (k - pos) - base = k - base
    BY <1>1
  <2> QED
    BY <1>2, <2>1, <2>2
<1>3. CASE k \in 1..Len(file) /\ new[k] = file[k]
  <2>1. file[k] \in Other \/ (0 + k - base \in 1..Blocks[d] /\ file[k] = <<d, 0 + k - base>>)
    BY <1>3 DEF Placed
  <2>2. 0 + k - base = k - base
    BY <1>1
  <2> QED
    BY <1>3, <2>1, <2>2
<1>4. CASE new[k] = Hole
  BY <1>4 DEF Other
<1> QED
  BY <1>1, <1>2, <1>3, <1>4

LEMMA PutAtOther ==
  ASSUME NEW file \in Seq(Pieces), NEW pos \in Nat, NEW blocks \in Seq(Pieces),
         \A k \in 1..Len(file) : file[k] \in Other,
         \A k \in 1..Len(blocks) : blocks[k] \in Other
  PROVE  \A k \in 1..Len(PutAt(file, pos, blocks)) : PutAt(file, pos, blocks)[k] \in Other
<1> SUFFICES ASSUME NEW k \in 1..Len(PutAt(file, pos, blocks))
             PROVE  PutAt(file, pos, blocks)[k] \in Other
  OBVIOUS
<1>1. \/ k - pos \in 1..Len(blocks) /\ PutAt(file, pos, blocks)[k] = blocks[k - pos]
      \/ k \in 1..Len(file) /\ PutAt(file, pos, blocks)[k] = file[k]
      \/ PutAt(file, pos, blocks)[k] = Hole
  BY PutAtFacts, ZenonT(30)
<1>2. Hole \in Other
  BY DEF Other
<1> QED
  BY <1>1, <1>2, Zenon

---------------------------------------------------------------------------
(* The steps.                                                              *)
LEMMA InitInv == Init => DownloadInv
<1> SUFFICES ASSUME Init PROVE DownloadInv
  OBVIOUS
<1> USE OrderFacts DEF Init
<1>1. Ranges
  BY DEF Ranges
<1>2. Stores
  BY DEF Stores
<1>3. Fetching /\ NoBlockYet /\ Receiving /\ Received /\ Decompressing
  BY DEF Fetching, NoBlockYet, Receiving, Received, Decompressing
<1>4. Own /\ PartialIsCutShort
  BY DEF Own, PartialIsCutShort
<1> QED
  BY <1>1, <1>2, <1>3, <1>4 DEF DownloadInv

(* The counters.                                                           *)
LEMMA RangesStep ==
  ASSUME Ranges, Fetching, Next
  PROVE  Ranges'
<1>1. /\ pc' \in {"idle", "next", "request", "receive", "open", "decompress"}
      /\ exit' \in {"none", "ok", "failed", "killed"}
      /\ status' \in {"none", "ok", "server error", "client error"}
  BY DEF Ranges, Next, Step, Start, Skip, CreateTmp, Respond, Receive, Drain, Fetched, Retry,
     FetchFails, OpenDest, Decompress, Decompressed, DecompressFails, End, Killed, mainVars,
     writerVars
<1>2. i' \in 1..(Len(Order) + 1)
  <2>1. Len(Order) \in Nat \ {0} /\ i \in 1..(Len(Order) + 1)
    BY OrderFacts DEF Ranges
  <2>2. pc \in {"request", "receive", "open", "decompress"} => i <= Len(Order)
    BY <2>1 DEF Fetching
  <2>3. i' = i \/ i' = 1 \/ (i' = i + 1 /\ i <= Len(Order))
    BY <2>2 DEF Next, Step, Start, Skip, CreateTmp, Respond, Receive, Drain, Fetched,
       Retry, FetchFails, OpenDest, Decompress, Decompressed, DecompressFails, End, Killed,
       mainVars, writerVars
  <2> QED
    BY <2>1, <2>3
<1>3. attempt' \in 1..MaxAttempts
  <2>1. MaxAttempts \in Nat \ {0} /\ attempt \in 1..MaxAttempts
    BY OrderFacts DEF Ranges
  <2>2. attempt' = attempt \/ attempt' = 1 \/ (attempt' = attempt + 1 /\ attempt < MaxAttempts)
    BY DEF Next, Step, Start, Skip, CreateTmp, Respond, Receive, Drain, Fetched, Retry,
       FetchFails, OpenDest, Decompress, Decompressed, DecompressFails, End, Killed,
       mainVars, writerVars
  <2> QED
    BY <2>1, <2>2
<1>4. runs' \in 0..MaxRuns
  <2>1. MaxRuns \in Nat /\ runs \in 0..MaxRuns
    BY OrderFacts DEF Ranges
  <2>2. runs' = runs \/ (runs' = runs + 1 /\ runs < MaxRuns)
    BY DEF Next, Step, Start, Skip, CreateTmp, Respond, Receive, Drain, Fetched, Retry,
       FetchFails, OpenDest, Decompress, Decompressed, DecompressFails, End, Killed,
       mainVars, writerVars
  <2> QED
    BY <2>1, <2>2
<1> QED
  BY <1>1, <1>2, <1>3, <1>4 DEF Ranges

(* The steps between two datasets or two runs: the files stay, and what is *)
(* known of them is about destinations only.                               *)
LEMMA BetweenInv ==
  ASSUME DownloadInv, Start \/ Skip \/ FetchFails \/ End
  PROVE  DownloadInv'
<1>0. /\ Ranges /\ Stores /\ Fetching /\ NoBlockYet /\ Receiving /\ Received /\ Decompressing
      /\ Own /\ PartialIsCutShort
  BY DEF DownloadInv
<1>1. /\ dest' = dest /\ cutShort' = cutShort /\ unseen' = unseen /\ body' = body /\ buffer' = buffer /\ at' = at
      /\ pc' \in {"next", "idle"} /\ pc # "decompress"
  BY <1>0, OrderFacts DEF Start, Skip, FetchFails, End, writerVars
<1>2. Ranges'
  BY <1>0, RangesStep DEF Next, Step
<1>3. Stores'
  BY <1>0, <1>1 DEF Stores
<1>4. (Fetching /\ NoBlockYet /\ Receiving /\ Received /\ Decompressing)'
  BY <1>0, <1>1 DEF Fetching, NoBlockYet, Receiving, Received, Decompressing
<1>5. Own'
  BY <1>0, <1>1 DEF Own, Begins
<1>6. PartialIsCutShort'
  BY <1>0, <1>1 DEF PartialIsCutShort, Archive
<1> QED
  BY <1>2, <1>3, <1>4, <1>5, <1>6 DEF DownloadInv

LEMMA CreateTmpInv == DownloadInv /\ CreateTmp => DownloadInv'
<1> SUFFICES ASSUME DownloadInv, CreateTmp PROVE DownloadInv'
  OBVIOUS
<1>0. /\ Ranges /\ Stores /\ Fetching /\ NoBlockYet /\ Receiving /\ Received /\ Decompressing
      /\ Own /\ PartialIsCutShort
  BY DEF DownloadInv
<1>1. /\ dest' = dest /\ cutShort' = cutShort /\ unseen' = {d \in {Current} : dest[d] # Absent} /\ i' = i /\ pc = "next" /\ pc' = "request"
      /\ tmp' = <<>> /\ buffer' = <<>> /\ at' = 0 /\ body' = body
      /\ i <= Len(Order)
  BY DEF CreateTmp, writerVars
<1>a. i \in 1..Len(Order)
  <2>1. Len(Order) \in Nat /\ i \in 1..(Len(Order) + 1)
    BY <1>0, OrderFacts DEF Ranges
  <2> QED
    BY <2>1, <1>1
<1>2. Ranges'
  BY <1>0, RangesStep DEF Next, Step
<1>3. Stores'
  BY <1>0, <1>1 DEF Stores
<1>4. Fetching'
  BY <1>0, <1>1, <1>a DEF Fetching, Current
<1>5. NoBlockYet'
  BY <1>0, <1>1 DEF NoBlockYet
<1>6. (Receiving /\ Received /\ Decompressing)'
  BY <1>0, <1>1 DEF Receiving, Received, Decompressing
<1>7. Own'
  BY <1>0, <1>1 DEF Own, Begins
<1>8. PartialIsCutShort'
  BY <1>0, <1>1 DEF PartialIsCutShort, Archive, Current
<1> QED
  BY <1>2, <1>3, <1>4, <1>5, <1>6, <1>7, <1>8 DEF DownloadInv

LEMMA RespondInv == DownloadInv /\ Respond => DownloadInv'
<1> SUFFICES ASSUME DownloadInv, Respond PROVE DownloadInv'
  OBVIOUS
<1>0. /\ Ranges /\ Stores /\ Fetching /\ NoBlockYet /\ Receiving /\ Received /\ Decompressing
      /\ Own /\ PartialIsCutShort
  BY DEF DownloadInv
<1>1. /\ dest' = dest /\ cutShort' = cutShort /\ unseen' = unseen /\ i' = i /\ pc = "request" /\ pc' = "receive"
      /\ tmp' = tmp /\ buffer' = buffer /\ at' = at
      /\ i \in 1..Len(Order) /\ (dest[Current] # Absent => Current \in unseen) /\ Current \in Datasets
      /\ Current' = Current
  BY <1>0, OrderFacts DEF Respond, Fetching, Current
<1>2. Ranges'
  BY <1>0, RangesStep DEF Next, Step
<1>3. \/ status' = "ok" /\ body' = Archive(Current)
      \/ status' # "ok" /\ body' = <<Junk>>
  BY DEF Respond
<1>4. Stores'
  <2>1. Junk \in Pieces
    BY DEF Pieces
  <2>2. <<Junk>> \in Seq(Pieces)
    BY <2>1
  <2>3. body' \in Seq(Pieces)
    BY <2>2, <1>1, <1>3, ArchiveFacts
  <2> QED
    BY <2>3, <1>0, <1>1 DEF Stores
<1>5. Fetching'
  BY <1>0, <1>1 DEF Fetching
<1>6. NoBlockYet'
  BY <1>0, <1>1, <1>3 DEF NoBlockYet, Other
<1>7. Receiving'
  <2> SUFFICES ASSUME status' = "ok" PROVE Receiving'
    BY <1>0, OrderFacts DEF Receiving
  <2>1. body' = Archive(Current)
    BY <1>3
  <2>2. /\ \A k \in 1..Len(tmp) : tmp[k] \in Other
        /\ \A k \in 1..Len(buffer) : buffer[k] \in Other
    BY <1>0, <1>1 DEF NoBlockYet
  <2>3. Placed(tmp, 0, Current, Base)' /\ Placed(buffer, at, Current, Base)'
    BY <2>2, <1>1 DEF Placed
  <2>4. Len(body') = Blocks[Current] /\ \A k \in 1..Blocks[Current] : body'[k] = <<Current, k>>
    BY <2>1, <1>1, ArchiveFacts
  <2> QED
    BY <2>3, <2>4, <1>1 DEF Receiving
<1>8. (Received /\ Decompressing)'
  BY <1>0, <1>1 DEF Received, Decompressing
<1>9. Own'
  BY <1>0, <1>1 DEF Own, Begins
<1>10. PartialIsCutShort'
  BY <1>0, <1>1 DEF PartialIsCutShort, Archive
<1> QED
  BY <1>2, <1>4, <1>5, <1>6, <1>7, <1>8, <1>9, <1>10 DEF DownloadInv

LEMMA RetryInv == DownloadInv /\ Retry => DownloadInv'
<1> SUFFICES ASSUME DownloadInv, Retry PROVE DownloadInv'
  OBVIOUS
<1>0. /\ Ranges /\ Stores /\ Fetching /\ NoBlockYet /\ Receiving /\ Received /\ Decompressing
      /\ Own /\ PartialIsCutShort
  BY DEF DownloadInv
<1>1. /\ dest' = dest /\ cutShort' = cutShort /\ unseen' = unseen /\ i' = i /\ pc = "receive" /\ pc' = "request"
      /\ tmp' = <<>> /\ buffer' = buffer /\ at' = at /\ body' = body /\ status # "ok"
      /\ i \in 1..Len(Order) /\ (dest[Current] # Absent => Current \in unseen) /\ Current' = Current
  BY <1>0, OrderFacts DEF Retry, writerVars, Fetching, Current
<1>2. Ranges'
  BY <1>0, RangesStep DEF Next, Step
<1>3. Stores'
  BY <1>0, <1>1 DEF Stores
<1>4. Fetching'
  BY <1>0, <1>1 DEF Fetching
<1>5. NoBlockYet'
  BY <1>0, <1>1 DEF NoBlockYet
<1>6. (Receiving /\ Received /\ Decompressing)'
  BY <1>0, <1>1 DEF Receiving, Received, Decompressing
<1>7. Own'
  BY <1>0, <1>1 DEF Own, Begins
<1>8. PartialIsCutShort'
  BY <1>0, <1>1 DEF PartialIsCutShort, Archive
<1> QED
  BY <1>2, <1>3, <1>4, <1>5, <1>6, <1>7, <1>8 DEF DownloadInv

LEMMA ReceiveInv == DownloadInv /\ Receive => DownloadInv'
<1> SUFFICES ASSUME DownloadInv, Receive PROVE DownloadInv'
  OBVIOUS
<1>0. /\ Ranges /\ Stores /\ Fetching /\ NoBlockYet /\ Receiving /\ Received /\ Decompressing
      /\ Own /\ PartialIsCutShort
  BY DEF DownloadInv
<1>1. /\ dest' = dest /\ cutShort' = cutShort /\ unseen' = unseen /\ i' = i /\ pc = "receive" /\ pc' = "receive"
      /\ tmp' = tmp /\ at' = at /\ status' = status
      /\ i \in 1..Len(Order) /\ (dest[Current] # Absent => Current \in unseen) /\ Current \in Datasets
      /\ Current' = Current /\ Blocks[Current] \in Nat \ {0}
  BY <1>0, OrderFacts DEF Receive, mainVars, Fetching, Current
<1>2. Ranges'
  BY <1>0, RangesStep DEF Next, Step
<1>3. /\ body \in Seq(Pieces) /\ buffer \in Seq(Pieces) /\ at \in Nat /\ Len(body) \in Nat \ {0}
      /\ body' \in Seq(Pieces) /\ Len(body') = Len(body) - 1
      /\ \A k \in 1..Len(body') : body'[k] = body[k + 1]
  <2>1. body \in Seq(Pieces) /\ buffer \in Seq(Pieces) /\ at \in Nat
    BY <1>0 DEF Stores
  <2>2. body # <<>> /\ body' = Tail(body)
    BY DEF Receive
  <2> QED
    BY <2>1, <2>2
<1>4. /\ buffer' \in Seq(Pieces) /\ Len(buffer') = Len(buffer) + 1
      /\ \A k \in 1..Len(buffer) : buffer'[k] = buffer[k]
      /\ buffer'[Len(buffer) + 1] = body[1]
  <2>1. buffer' = Append(buffer, body[1]) /\ body[1] \in Pieces
    BY <1>3 DEF Receive
  <2> QED
    BY <2>1, <1>3
<1>a. /\ at \in Nat /\ Len(buffer) \in Nat /\ Len(body) \in Nat \ {0}
      /\ Blocks[Current] \in Nat \ {0}
      /\ Len(body') = Len(body) - 1 /\ Len(buffer') = Len(buffer) + 1
  BY <1>1, <1>3, <1>4
<1>5. Stores'
  BY <1>0, <1>1, <1>3, <1>4 DEF Stores
<1>6. Fetching'
  BY <1>0, <1>1 DEF Fetching
<1>7. NoBlockYet'
  <2> SUFFICES ASSUME status # "ok" PROVE NoBlockYet'
    BY <1>0, <1>1 DEF NoBlockYet
  <2>1. /\ \A k \in 1..Len(tmp) : tmp[k] \in Other
        /\ \A k \in 1..Len(buffer) : buffer[k] \in Other
        /\ \A k \in 1..Len(body) : body[k] \in Other
    BY <1>0, <1>1 DEF NoBlockYet
  <2>2. \A k \in 1..Len(body') : body'[k] \in Other
    BY <2>1, <1>3
  <2>3. ASSUME NEW k \in 1..Len(buffer')
        PROVE  buffer'[k] \in Other
    <3>1. CASE k \in 1..Len(buffer)
      BY <1>4, <2>1, <3>1
    <3>2. CASE k \notin 1..Len(buffer)
      <4>1. k = Len(buffer) + 1
        BY <1>a, <3>2
      <4>2. body[1] \in Other
        <5>1. 1 \in 1..Len(body)
          BY <1>a
        <5> QED
          BY <2>1, <5>1
      <4> QED
        BY <1>4, <4>1, <4>2
    <3> QED
      BY <3>1, <3>2
  <2> QED
    BY <2>1, <2>2, <2>3, <1>1 DEF NoBlockYet
<1>8. Receiving'
  <2> SUFFICES ASSUME status = "ok" PROVE Receiving'
    BY <1>0, <1>1 DEF Receiving
  <2>1. /\ Placed(tmp, 0, Current, Base) /\ Placed(buffer, at, Current, Base)
        /\ Len(body) <= Blocks[Current]
        /\ \A k \in 1..Len(body) : body[k] = <<Current, Blocks[Current] - Len(body) + k>>
    BY <1>0, <1>1 DEF Receiving
  <2>2. Base' = Base /\ Base \in Int
    <3>1. /\ Base = at + Len(buffer) + Len(body) - Blocks[Current]
          /\ Base' = at + Len(buffer') + Len(body') - Blocks[Current]
      BY <1>1 DEF Base
    <3> QED
      BY <3>1, <1>a
  <2>3. Placed(tmp, 0, Current, Base)'
    BY <2>1, <2>2, <1>1
  <2>4. Placed(buffer, at, Current, Base)'
    <3> SUFFICES ASSUME NEW k \in 1..Len(buffer')
                 PROVE  \/ buffer'[k] \in Other
                        \/ /\ at + k - Base \in 1..Blocks[Current]
                           /\ buffer'[k] = <<Current, at + k - Base>>
      BY <2>2, <1>1 DEF Placed
    <3>1. CASE k \in 1..Len(buffer)
      BY <3>1, <2>1, <1>4 DEF Placed
    <3>2. CASE k = Len(buffer) + 1
      <4>1. at + k - Base = Blocks[Current] - Len(body) + 1
        <5>1. Base = at + Len(buffer) + Len(body) - Blocks[Current]
          BY DEF Base
        <5> QED
          BY <3>2, <5>1, <1>a, SMTT(30)
      <4>2. body[1] = <<Current, Blocks[Current] - Len(body) + 1>>
        BY <2>1, <1>3
      <4>3. Blocks[Current] - Len(body) + 1 \in 1..Blocks[Current]
        BY <2>1, <1>a, SMTT(30)
      <4> QED
        BY <4>1, <4>2, <4>3, <3>2, <1>4
    <3> QED
      BY <3>1, <3>2, <1>3, <1>4
  <2>5. /\ Len(body') <= Blocks[Current]
        /\ \A k \in 1..Len(body') : body'[k] = <<Current, Blocks[Current] - Len(body') + k>>
    <3>1. Len(body') <= Blocks[Current]
      BY <2>1, <1>a
    <3> SUFFICES ASSUME NEW k \in 1..Len(body')
                 PROVE  body'[k] = <<Current, Blocks[Current] - Len(body') + k>>
      BY <3>1
    <3>2. body'[k] = body[k + 1]
      BY <1>3
    <3>3. k + 1 \in 1..Len(body)
      BY <1>a
    <3>4. body[k + 1] = <<Current, Blocks[Current] - Len(body) + (k + 1)>>
      BY <2>1, <3>3
    <3>5. Blocks[Current] - Len(body) + (k + 1) = Blocks[Current] - Len(body') + k
      BY <1>a, SMTT(30)
    <3> QED
      BY <3>2, <3>4, <3>5
  <2> QED
    BY <2>3, <2>4, <2>5, <1>1 DEF Receiving
<1>9. (Received /\ Decompressing)'
  BY <1>0, <1>1 DEF Received, Decompressing
<1>10. Own'
  BY <1>0, <1>1 DEF Own, Begins
<1>11. PartialIsCutShort'
  BY <1>0, <1>1 DEF PartialIsCutShort, Archive
<1> QED
  BY <1>2, <1>5, <1>6, <1>7, <1>8, <1>9, <1>10, <1>11 DEF DownloadInv

(* Both steps that write what is buffered.                                 *)
LEMMA WriteFacts ==
  ASSUME DownloadInv, pc = "receive",
         tmp' = PutAt(tmp, at, buffer), at' = at + Len(buffer), buffer' = <<>>,
         body' = body, dest' = dest, i' = i
  PROVE  /\ Stores' /\ tmp' \in Seq(Pieces) /\ i \in 1..Len(Order)
         /\ (dest[Current] # Absent => Current \in unseen) /\ Current' = Current
         /\ status # "ok" => \A k \in 1..Len(tmp') : tmp'[k] \in Other
         /\ status = "ok" =>
              /\ Base' = Base /\ Base \in Int
              /\ Placed(tmp', 0, Current, Base)
<1>0. Stores /\ Fetching /\ NoBlockYet /\ Receiving
  BY DEF DownloadInv
<1>1. /\ tmp \in Seq(Pieces) /\ i \in 1..Len(Order) /\ (dest[Current] # Absent => Current \in unseen)
      /\ Current' = Current /\ Current \in Datasets /\ Blocks[Current] \in Nat \ {0}
  BY <1>0, OrderFacts DEF Fetching, Current
<1>2. body \in Seq(Pieces) /\ buffer \in Seq(Pieces) /\ at \in Nat
  BY <1>0 DEF Stores
<1>3. Len(body) \in Nat /\ Len(buffer) \in Nat /\ Len(<<>>) = 0
  BY <1>2
<1>4. tmp' \in Seq(Pieces)
  BY <1>1, <1>2, PutAtFacts
<1>5. Stores'
  BY <1>0, <1>3 DEF Stores
<1>6. status # "ok" => \A k \in 1..Len(tmp') : tmp'[k] \in Other
  <2> SUFFICES ASSUME status # "ok" PROVE \A k \in 1..Len(tmp') : tmp'[k] \in Other
    OBVIOUS
  <2>1. /\ \A k \in 1..Len(tmp) : tmp[k] \in Other
        /\ \A k \in 1..Len(buffer) : buffer[k] \in Other
    BY <1>0 DEF NoBlockYet
  <2> QED
    BY <2>1, <1>1, <1>2, PutAtOther
<1>7. Base' = Base /\ Base \in Int
  <2>1. /\ Base = at + Len(buffer) + Len(body) - Blocks[Current]
        /\ Base' = at' + Len(buffer') + Len(body) - Blocks[Current]
    BY <1>1 DEF Base
  <2> QED
    BY <2>1, <1>1, <1>2, <1>3
<1>8. status = "ok" => Placed(tmp', 0, Current, Base)
  <2> SUFFICES ASSUME status = "ok" PROVE Placed(tmp', 0, Current, Base)
    OBVIOUS
  <2>1. Placed(tmp, 0, Current, Base) /\ Placed(buffer, at, Current, Base)
    BY <1>0 DEF Receiving
  <2> QED
    BY <2>1, <1>1, <1>2, <1>7, PutAtPlaced
<1> QED
  BY <1>1, <1>4, <1>5, <1>6, <1>7, <1>8

LEMMA DrainInv == DownloadInv /\ Drain => DownloadInv'
<1> SUFFICES ASSUME DownloadInv, Drain PROVE DownloadInv'
  OBVIOUS
<1>0. /\ Ranges /\ Stores /\ Fetching /\ NoBlockYet /\ Receiving /\ Received /\ Decompressing
      /\ Own /\ PartialIsCutShort
  BY DEF DownloadInv
<1>1. /\ dest' = dest /\ cutShort' = cutShort /\ unseen' = unseen /\ i' = i /\ pc = "receive" /\ pc' = "receive"
      /\ tmp' = PutAt(tmp, at, buffer) /\ at' = at + Len(buffer) /\ buffer' = <<>>
      /\ body' = body /\ status' = status
  BY DEF Drain, mainVars
<1>2. Ranges'
  BY <1>0, RangesStep DEF Next, Step
<1>3. /\ Stores' /\ tmp' \in Seq(Pieces) /\ i \in 1..Len(Order)
      /\ (dest[Current] # Absent => Current \in unseen) /\ Current' = Current
      /\ status # "ok" => \A k \in 1..Len(tmp') : tmp'[k] \in Other
      /\ status = "ok" => Base' = Base /\ Placed(tmp', 0, Current, Base)
  BY <1>1, WriteFacts
<1>4. Fetching'
  BY <1>1, <1>3 DEF Fetching
<1>5. Len(buffer') = 0
  BY <1>1
<1>6. NoBlockYet'
  BY <1>0, <1>1, <1>3, <1>5 DEF NoBlockYet
<1>7. Receiving'
  <2> SUFFICES ASSUME status = "ok" PROVE Receiving'
    BY <1>1 DEF Receiving
  <2>1. Placed(tmp, 0, Current, Base)'
    BY <1>3
  <2>2. Placed(buffer, at, Current, Base)'
    BY <1>5 DEF Placed
  <2> QED
    BY <2>1, <2>2, <1>0, <1>1, <1>3 DEF Receiving
<1>8. (Received /\ Decompressing)'
  BY <1>1 DEF Received, Decompressing
<1>9. Own'
  BY <1>0, <1>1 DEF Own, Begins
<1>10. PartialIsCutShort'
  BY <1>0, <1>1 DEF PartialIsCutShort, Archive
<1> QED
  BY <1>2, <1>3, <1>4, <1>6, <1>7, <1>8, <1>9, <1>10 DEF DownloadInv

LEMMA FetchedInv == DownloadInv /\ Fetched => DownloadInv'
<1> SUFFICES ASSUME DownloadInv, Fetched PROVE DownloadInv'
  OBVIOUS
<1>0. /\ Ranges /\ Stores /\ Fetching /\ NoBlockYet /\ Receiving /\ Received /\ Decompressing
      /\ Own /\ PartialIsCutShort
  BY DEF DownloadInv
<1>1. /\ dest' = dest /\ cutShort' = cutShort /\ unseen' = unseen /\ i' = i /\ pc = "receive" /\ pc' = "open"
      /\ tmp' = PutAt(tmp, at, buffer) /\ at' = at + Len(buffer) /\ buffer' = <<>>
      /\ body' = body /\ status = "ok"
  BY DEF Fetched
<1>2. Ranges'
  BY <1>0, RangesStep DEF Next, Step
<1>3. /\ Stores' /\ tmp' \in Seq(Pieces) /\ i \in 1..Len(Order)
      /\ (dest[Current] # Absent => Current \in unseen) /\ Current' = Current
      /\ Base \in Int /\ Placed(tmp', 0, Current, Base)
  BY <1>1, WriteFacts
<1>4. Fetching'
  BY <1>1, <1>3 DEF Fetching
<1>5. Received'
  BY <1>3 DEF Received
<1>6. (NoBlockYet /\ Receiving /\ Decompressing)'
  BY <1>1 DEF NoBlockYet, Receiving, Decompressing
<1>7. Own'
  BY <1>0, <1>1 DEF Own, Begins
<1>8. PartialIsCutShort'
  BY <1>0, <1>1 DEF PartialIsCutShort, Archive
<1> QED
  BY <1>2, <1>3, <1>4, <1>5, <1>6, <1>7, <1>8 DEF DownloadInv

LEMMA OpenDestInv == DownloadInv /\ OpenDest => DownloadInv'
<1> SUFFICES ASSUME DownloadInv, OpenDest PROVE DownloadInv'
  OBVIOUS
<1>0. /\ Ranges /\ Stores /\ Fetching /\ NoBlockYet /\ Receiving /\ Received /\ Decompressing
      /\ Own /\ PartialIsCutShort
  BY DEF DownloadInv
<1>1. /\ tmp' = tmp /\ cutShort' = cutShort \ {Current} /\ unseen' = unseen /\ i' = i /\ pc = "open" /\ pc' = "decompress"
      /\ dest' = [dest EXCEPT ![Current] = <<>>]
      /\ body' = body /\ buffer' = buffer /\ at' = at
  BY DEF OpenDest, writerVars
<1>2. Ranges'
  BY <1>0, RangesStep DEF Next, Step
<1>3. /\ i \in 1..Len(Order) /\ tmp \in Seq(Pieces) /\ Current \in Datasets
      /\ Current' = Current /\ Blocks[Current] \in Nat \ {0}
  BY <1>0, <1>1, OrderFacts DEF Fetching, Current
<1>4. Stores'
  <2>1. <<>> \in Seq(Pieces)
    OBVIOUS
  <2> QED
    BY <2>1, <1>0, <1>1 DEF Stores
<1>5. dest'[Current] = <<>> /\ \A d \in Datasets : d # Current => dest'[d] = dest[d]
  BY <1>0, <1>1, <1>3 DEF Stores
<1>6. Begins(<<>>, Current)
  BY <1>3 DEF Begins
<1>7. (Fetching /\ NoBlockYet /\ Receiving)'
  BY <1>1, <1>3 DEF Fetching, NoBlockYet, Receiving
<1>8. Received'
  BY <1>0, <1>1, <1>3 DEF Received, Placed
<1>9. Decompressing'
  <2>1. Len(dest'[Current]) = 0 /\ 0 <= Len(tmp)
    BY <1>3, <1>5
  <2>2. Begins(dest'[Current], Current')
    BY <1>3, <1>5 DEF Begins
  <2> QED
    BY <2>1, <2>2, <1>1, <1>3 DEF Decompressing
<1>10. Own'
  <2> SUFFICES ASSUME NEW d \in Datasets, dest'[d] # Absent PROVE Begins(dest'[d], d)
    BY DEF Own, Begins
  <2>1. CASE d = Current
    BY <2>1, <1>5, <1>6
  <2>2. CASE d # Current
    BY <2>2, <1>0, <1>5 DEF Own
  <2> QED
    BY <2>1, <2>2
<1>11. PartialIsCutShort'
  BY <1>0, <1>1, <1>3, <1>5 DEF PartialIsCutShort, Archive
<1> QED
  BY <1>2, <1>4, <1>7, <1>8, <1>9, <1>10, <1>11 DEF DownloadInv

(* The step the argument is about: what is decompressed next is the next   *)
(* block of the dataset's own archive.                                     *)
LEMMA NextBlock ==
  ASSUME DownloadInv, Decompress
  PROVE  LET k == Len(dest[Current]) + 1 IN
         /\ k \in 1..Len(tmp) /\ k \in 1..Blocks[Current] /\ tmp[k] = <<Current, k>>
<1>0. Fetching /\ Received /\ Decompressing
  BY DEF DownloadInv
<1>1. pc = "decompress"
  BY DEF Decompress
<1>2. /\ i \in 1..Len(Order) /\ tmp \in Seq(Pieces) /\ Current \in Datasets
      /\ Blocks[Current] \in Nat \ {0}
  BY <1>0, <1>1, OrderFacts DEF Fetching, Current
<1>3. /\ Begins(dest[Current], Current)
      /\ \A n \in 1..Len(dest[Current]) : tmp[n] = <<Current, n>>
  BY <1>0, <1>1 DEF Decompressing
<1> DEFINE k == Len(dest[Current]) + 1
<1>4. k \in Nat \ {0} /\ Len(dest[Current]) \in Nat
  BY <1>3 DEF Begins
<1>5. k <= Len(tmp) /\ Decodable(k)
  BY DEF Decompress
<1>6. k \in 1..Len(tmp)
  BY <1>2, <1>4, <1>5
<1>7. PICK base \in Int : Placed(tmp, 0, Current, base)
  BY <1>0, <1>1 DEF Received
<1>d. PICK d \in Datasets : \E b \in 1..Blocks[d] :
        tmp[k] = <<d, b>> /\ (b > 1 => k > 1 /\ tmp[k - 1] = <<d, b - 1>>)
  BY <1>5 DEF Decodable
<1>8. PICK b \in 1..Blocks[d] :
        tmp[k] = <<d, b>> /\ (b > 1 => k > 1 /\ tmp[k - 1] = <<d, b - 1>>)
  BY <1>d
<1>9. b \in Nat \ {0}
  BY <1>8, OrderFacts
<1> HIDE DEF k
<1>10. \A n \in 1..Len(tmp), e \in Datasets, c \in Nat \ {0} :
         tmp[n] = <<e, c>> => e = Current /\ c = n - base /\ c \in 1..Blocks[Current]
  <2> SUFFICES ASSUME NEW n \in 1..Len(tmp), NEW e \in Datasets, NEW c \in Nat \ {0},
                      tmp[n] = <<e, c>>
               PROVE  e = Current /\ c = n - base /\ c \in 1..Blocks[Current]
    OBVIOUS
  <2>1. tmp[n] \notin Other
    <3>1. c # 0
      OBVIOUS
    <3>2. <<e, c>> # Junk /\ <<e, c>> # Hole
      BY <3>1 DEF Junk, Hole
    <3> QED
      BY <3>2 DEF Other
  <2>2. 0 + n - base \in 1..Blocks[Current] /\ tmp[n] = <<Current, 0 + n - base>>
    BY <2>1, <1>7 DEF Placed
  <2>3. 0 + n - base = n - base
    BY <1>2, <1>7
  <2> QED
    BY <2>2, <2>3
<1>11. d = Current /\ b = k - base /\ b \in 1..Blocks[Current]
  BY <1>6, <1>8, <1>9, <1>10
<1>12. b = k
  <2>1. CASE k = 1
    BY <2>1, <1>8, <1>9
  <2>2. CASE k # 1
    <3>1. 1 \in 1..Len(dest[Current]) /\ 1 \in 1..Len(tmp)
      BY <2>2, <1>4, <1>6, <1>2 DEF k
    <3>2. tmp[1] = <<Current, 1>>
      BY <3>1, <1>3
    <3>3. 1 = 1 - base
      BY <3>1, <3>2, <1>2, <1>10
    <3> QED
      BY <3>3, <1>4, <1>7, <1>11 DEF k
  <2> QED
    BY <2>1, <2>2
<1> QED
  BY <1>6, <1>8, <1>11, <1>12 DEF k

LEMMA DecompressInv == DownloadInv /\ Decompress => DownloadInv'
<1> SUFFICES ASSUME DownloadInv, Decompress PROVE DownloadInv'
  OBVIOUS
<1>0. /\ Ranges /\ Stores /\ Fetching /\ NoBlockYet /\ Receiving /\ Received /\ Decompressing
      /\ Own /\ PartialIsCutShort
  BY DEF DownloadInv
<1> DEFINE old == dest[Current]
           k == Len(old) + 1
<1>1. /\ tmp' = tmp /\ cutShort' = cutShort /\ unseen' = unseen /\ i' = i /\ pc = "decompress" /\ pc' = "decompress"
      /\ dest' = [dest EXCEPT ![Current] = Append(old, tmp[k])]
      /\ body' = body /\ buffer' = buffer /\ at' = at
  BY DEF Decompress, mainVars, writerVars
<1>2. Ranges'
  BY <1>0, RangesStep DEF Next, Step
<1>3. /\ i \in 1..Len(Order) /\ tmp \in Seq(Pieces) /\ Current \in Datasets
      /\ Current' = Current /\ Blocks[Current] \in Nat \ {0}
  BY <1>0, <1>1, OrderFacts DEF Fetching, Current
<1>4. k \in 1..Len(tmp) /\ k \in 1..Blocks[Current] /\ tmp[k] = <<Current, k>>
  BY NextBlock
<1>5. /\ Begins(old, Current)
      /\ \A n \in 1..Len(old) : tmp[n] = <<Current, n>>
  BY <1>0, <1>1 DEF Decompressing
<1> DEFINE new == Append(old, tmp[k])
<1>6. /\ old \in Seq(Pieces) /\ Len(old) \in Nat /\ tmp[k] \in Pieces
      /\ \A n \in 1..Len(old) : old[n] = <<Current, n>>
  <2>1. tmp[k] \in Pieces
    BY <1>3, <1>4
  <2> HIDE DEF k, old
  <2> QED
    BY <2>1, <1>5 DEF Begins
<1>7. /\ new \in Seq(Pieces) /\ Len(new) = k
      /\ \A n \in 1..Len(old) : new[n] = old[n]
      /\ new[k] = <<Current, k>>
  BY <1>4, <1>6
<1>8. dest'[Current] = new /\ \A d \in Datasets : d # Current => dest'[d] = dest[d]
  BY <1>0, <1>1, <1>3 DEF Stores
<1>9. Stores'
  BY <1>0, <1>1, <1>7 DEF Stores
<1> HIDE DEF new
<1>10. \A n \in 1..k : (n \in 1..Len(old) \/ n = k) /\ n \in 1..Len(tmp)
  BY <1>4, <1>6
<1>11. Begins(new, Current) /\ \A n \in 1..k : tmp[n] = <<Current, n>>
  <2>1. \A n \in 1..k : new[n] = <<Current, n>>
    BY <1>6, <1>7, <1>10
  <2>2. \A n \in 1..k : tmp[n] = <<Current, n>>
    BY <1>4, <1>5, <1>10
  <2>3. k <= Blocks[Current]
    BY <1>3, <1>4
  <2> QED
    BY <2>1, <2>2, <2>3, <1>7 DEF Begins
<1> HIDE DEF k, old
<1>12. (Fetching /\ NoBlockYet /\ Receiving)'
  BY <1>1, <1>3 DEF Fetching, NoBlockYet, Receiving
<1>13. Received'
  BY <1>0, <1>1, <1>3 DEF Received, Placed
<1>14. Decompressing'
  <2>1. Begins(dest'[Current], Current')
    BY <1>8, <1>11, <1>3 DEF Begins
  <2>2. k <= Len(tmp)
    BY <1>3, <1>4
  <2> QED
    BY <2>1, <2>2, <1>1, <1>3, <1>7, <1>8, <1>11 DEF Decompressing
<1>15. Own'
  <2> SUFFICES ASSUME NEW d \in Datasets, dest'[d] # Absent PROVE Begins(dest'[d], d)
    BY DEF Own, Begins
  <2>1. CASE d = Current
    BY <2>1, <1>8, <1>11
  <2>2. CASE d # Current
    BY <2>2, <1>0, <1>8 DEF Own
  <2> QED
    BY <2>1, <2>2
<1>16. PartialIsCutShort'
  BY <1>0, <1>1, <1>3, <1>8 DEF PartialIsCutShort, Archive
<1> QED
  BY <1>2, <1>9, <1>12, <1>13, <1>14, <1>15, <1>16 DEF DownloadInv

(* The decompression ends with the last block of an archive, which can     *)
(* only be the last of the dataset's own.                                  *)
LEMMA DecompressedInv == DownloadInv /\ Decompressed => DownloadInv'
<1> SUFFICES ASSUME DownloadInv, Decompressed PROVE DownloadInv'
  OBVIOUS
<1>0. /\ Ranges /\ Stores /\ Fetching /\ NoBlockYet /\ Receiving /\ Received /\ Decompressing
      /\ Own /\ PartialIsCutShort
  BY DEF DownloadInv
<1>1. /\ tmp' = tmp /\ dest' = dest /\ cutShort' = cutShort /\ unseen' = unseen /\ pc = "decompress" /\ pc' = "next"
      /\ body' = body /\ buffer' = buffer /\ at' = at
      /\ Len(dest[Current]) = Len(tmp) /\ tmp # <<>>
      /\ \E d \in Datasets : tmp[Len(tmp)] = <<d, Blocks[d]>>
  BY DEF Decompressed, writerVars
<1>2. Ranges'
  BY <1>0, RangesStep DEF Next, Step
<1>3. i \in 1..Len(Order) /\ tmp \in Seq(Pieces) /\ Current \in Datasets
  BY <1>0, <1>1, OrderFacts DEF Fetching, Current
<1>4. Stores'
  BY <1>0, <1>1 DEF Stores
<1>5. (Fetching /\ NoBlockYet /\ Receiving /\ Received /\ Decompressing)'
  BY <1>1 DEF Fetching, NoBlockYet, Receiving, Received, Decompressing
<1>6. Own'
  BY <1>0, <1>1 DEF Own, Begins
<1>7. dest[Current] = Archive(Current)
  <2>1. PICK d \in Datasets : tmp[Len(tmp)] = <<d, Blocks[d]>>
    BY <1>1
  <2>2. Len(tmp) \in 1..Len(tmp)
    BY <1>1, <1>3
  <2>3. tmp[Len(tmp)] = <<Current, Len(tmp)>> /\ Begins(dest[Current], Current)
    BY <2>2, <1>0, <1>1 DEF Decompressing
  <2>4. d = Current /\ Len(tmp) = Blocks[Current]
    BY <2>1, <2>3
  <2> QED
    BY <2>3, <2>4, <1>1, <1>3, WholeArchive
<1>8. PartialIsCutShort'
  BY <1>0, <1>1, <1>7 DEF PartialIsCutShort, Archive
<1> QED
  BY <1>2, <1>4, <1>5, <1>6, <1>8 DEF DownloadInv

LEMMA CutInv ==
  ASSUME DownloadInv, DecompressFails \/ Killed
  PROVE  DownloadInv'
<1>0. /\ Ranges /\ Stores /\ Fetching /\ NoBlockYet /\ Receiving /\ Received /\ Decompressing
      /\ Own /\ PartialIsCutShort
  BY DEF DownloadInv
<1>1. /\ tmp' = tmp /\ dest' = dest /\ i' = i /\ pc' = "idle"
      /\ body' = body /\ buffer' = buffer /\ at' = at
  BY DEF DecompressFails, Killed, writerVars
<1>2. Ranges'
  BY <1>0, RangesStep DEF Next, Step
<1>3. Stores'
  BY <1>0, <1>1 DEF Stores
<1>4. (Fetching /\ NoBlockYet /\ Receiving /\ Received /\ Decompressing)'
  BY <1>1 DEF Fetching, NoBlockYet, Receiving, Received, Decompressing
<1>5. Own'
  BY <1>0, <1>1 DEF Own, Begins
<1>6. PartialIsCutShort'
  <2> SUFFICES ASSUME NEW d \in Datasets, dest'[d] # Absent /\ dest'[d] # Archive(d)'
               PROVE  d \in cutShort'
    BY DEF PartialIsCutShort
  <2>1. cutShort' = IF pc = "decompress" THEN cutShort \cup {Current} ELSE cutShort
    BY DEF DecompressFails, Killed
  <2>2. d \in cutShort \/ (pc = "decompress" /\ Current = d)
    BY <1>0, <1>1 DEF PartialIsCutShort, Archive
  <2> QED
    BY <2>1, <2>2
<1> QED
  BY <1>2, <1>3, <1>4, <1>5, <1>6 DEF DownloadInv

LEMMA StutterInv == DownloadInv /\ UNCHANGED vars => DownloadInv'
<1> SUFFICES ASSUME DownloadInv, UNCHANGED vars PROVE DownloadInv'
  OBVIOUS
<1> USE DEF DownloadInv, vars, mainVars, writerVars
<1>1. (Ranges /\ Stores)'
  BY DEF Ranges, Stores
<1>2. (Fetching /\ NoBlockYet)'
  BY DEF Fetching, NoBlockYet, Current
<1>3. Receiving'
  BY DEF Receiving, Placed, Base, Current
<1>4. (Received /\ Decompressing)'
  BY DEF Received, Decompressing, Placed, Begins, Current
<1>5. (Own /\ PartialIsCutShort)'
  BY DEF Own, Begins, PartialIsCutShort, Archive, Current
<1> QED
  BY <1>1, <1>2, <1>3, <1>4, <1>5

LEMMA StepInv == DownloadInv /\ [Next]_vars => DownloadInv'
BY BetweenInv, CreateTmpInv, RespondInv, ReceiveInv, DrainInv, FetchedInv, RetryInv, OpenDestInv,
   DecompressInv, DecompressedInv, CutInv, StutterInv, Zenon DEF Next, Step

LEMMA Inductive == Spec => []DownloadInv
BY InitInv, StepInv, PTL DEF Spec

---------------------------------------------------------------------------
(* TypeOK's ranges are part of the invariant; the flag and the history    *)
(* have types of their own.                                                *)
Flag == failed \in BOOLEAN /\ unseen \subseteq Datasets /\ cutShort \subseteq Datasets

LEMMA FlagStep == DownloadInv /\ Flag /\ [Next]_vars => Flag'
<1> SUFFICES ASSUME DownloadInv, Flag, [Next]_vars PROVE Flag'
  OBVIOUS
<1>1. failed' = failed \/ failed' = TRUE \/ failed' = FALSE
  BY DEF Next, Step, Start, Skip, CreateTmp, Respond, Receive, Drain, Fetched, Retry,
     FetchFails, OpenDest, Decompress, Decompressed, DecompressFails, End, Killed, mainVars,
     writerVars, vars
<1>2. unseen' = unseen \/ (i <= Len(Order) /\ unseen' \subseteq {Current})
  BY DEF Next, Step, Start, Skip, CreateTmp, Respond, Receive, Drain, Fetched, Retry,
     FetchFails, OpenDest, Decompress, Decompressed, DecompressFails, End, Killed, vars
<1>3. cutShort' \subseteq cutShort \/ (pc = "decompress" /\ cutShort' = cutShort \cup {Current})
  BY DEF Next, Step, Start, Skip, CreateTmp, Respond, Receive, Drain, Fetched, Retry,
     FetchFails, OpenDest, Decompress, Decompressed, DecompressFails, End, Killed, vars
<1>4. i \in 1..Len(Order) => Current \in Datasets
  BY OrderFacts DEF Current
<1>5. i \in 1..(Len(Order) + 1) /\ Len(Order) \in Nat /\ (pc = "decompress" => i \in 1..Len(Order))
  BY OrderFacts DEF DownloadInv, Ranges, Fetching
<1>6. i <= Len(Order) => i \in 1..Len(Order)
  BY <1>5
<1> QED
  BY <1>1, <1>2, <1>3, <1>4, <1>5, <1>6 DEF Flag

(* main, fetchToFile: at every step of every run the index is that of a    *)
(* dataset or one past the last, and no more than max_attempts attempts    *)
(* have been made.                                                         *)
THEOREM TypeCorrect == Spec => []TypeOK
<1>1. Init => Flag
  BY DEF Init, Flag
<1>2. DownloadInv /\ Flag => TypeOK
  BY DEF DownloadInv, Ranges, TypeOK, Flag
<1> QED
  BY <1>1, <1>2, FlagStep, Inductive, PTL DEF Spec

(* A destination only ever holds the beginning of its own dataset.         *)
THEOREM OwnContentsOnly == Spec => []OwnContents
<1>1. DownloadInv => OwnContents
  <2> SUFFICES ASSUME DownloadInv, NEW d \in Datasets, dest[d] # Absent
               PROVE  IsPrefix(dest[d], Archive(d))
    BY DEF OwnContents
  <2>1. dest[d] \in Seq(Pieces) /\ Len(dest[d]) <= Blocks[d]
        /\ \A k \in 1..Len(dest[d]) : dest[d][k] = <<d, k>>
    BY DEF DownloadInv, Own, Begins
  <2>2. /\ Archive(d) \in Seq(Pieces) /\ Len(Archive(d)) = Blocks[d]
        /\ \A k \in 1..Blocks[d] : Archive(d)[k] = <<d, k>>
    BY ArchiveFacts
  <2> DEFINE s == dest[d]
             t == Archive(d)
  <2> HIDE DEF s, t
  <2>3. s \in Seq(Pieces) /\ t \in Seq(Pieces) /\ Len(s) <= Len(t)
    BY <2>1, <2>2 DEF s, t
  <2>4. \A k \in 1..Len(s) : s[k] = t[k]
    <3>1. Len(s) \in Nat /\ Blocks[d] \in Nat /\ Len(s) <= Blocks[d]
      BY <2>1, OrderFacts DEF s
    <3>2. \A k \in 1..Len(s) : k \in 1..Blocks[d]
      BY <3>1
    <3>3. \A k \in 1..Len(s) : s[k] = <<d, k>>
      BY <2>1 DEF s
    <3>4. \A k \in 1..Blocks[d] : t[k] = <<d, k>>
      BY <2>2 DEF t
    <3> QED
      BY <3>2, <3>3, <3>4
  <2>5. SubSeq(s, 1, Len(s)) = SubSeq(t, 1, Len(s))
    BY <2>3, <2>4
  <2> QED
    BY <2>3, <2>5 DEF IsPrefix, s, t
<1> QED
  BY <1>1, Inductive, PTL

(* A destination that is not complete is the one being written, or the run *)
(* that last wrote it died or failed while it did.                         *)
THEOREM OnlyCutShort == Spec => []PartialIsCutShort
<1>1. DownloadInv => PartialIsCutShort
  BY DEF DownloadInv
<1> QED
  BY <1>1, Inductive, PTL

(* What has been obtained is not touched again, in this run or a later     *)
(* one, unless statFile fails to see it.                                   *)
THEOREM ObtainedStays == Spec => KeepsObtained
<1> DEFINE Keeps == \A d \in Datasets : dest[d] = Archive(d) /\ d \notin unseen => dest'[d] = dest[d]
<1>1. DownloadInv /\ [Next]_vars => [Keeps]_vars
  <2> SUFFICES ASSUME DownloadInv, Next, NEW d \in Datasets, dest[d] = Archive(d), d \notin unseen
               PROVE  dest'[d] = dest[d]
    BY DEF Keeps
  <2>1. dest \in [Datasets -> {Absent} \cup Seq(Pieces)] /\ Archive(d) # Absent
    BY ArchiveFacts DEF DownloadInv, Stores
  <2>2. CASE OpenDest
    <3>1. Current # d
      BY <2>1, <2>2 DEF OpenDest, DownloadInv, Fetching
    <3> QED
      BY <3>1, <2>1, <2>2 DEF OpenDest
  <2>3. CASE Decompress
    <3>1. Len(dest[Current]) + 1 \in 1..Blocks[Current]
      BY <2>3, NextBlock
    <3>2. Current # d
      BY <3>1, ArchiveFacts, OrderFacts
    <3> QED
      BY <3>2, <2>1, <2>3 DEF Decompress
  <2>4. CASE ~(OpenDest \/ Decompress)
    <3>1. dest' = dest
      BY <2>4 DEF Next, Step, Start, Skip, CreateTmp, Respond, Receive, Drain, Fetched, Retry,
         FetchFails, Decompressed, DecompressFails, End, Killed
    <3> QED
      BY <3>1
  <2> QED
    BY <2>2, <2>3, <2>4
<1> QED
  BY <1>1, Inductive, PTL DEF Spec, KeepsObtained, Keeps
=============================================================================
