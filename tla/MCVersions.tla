----------------------------- MODULE MCVersions -----------------------------
(* Every program but the last, on inputs of rows of two channels, one of   *)
(* them in two months, split in every way: every input of fewer than       *)
(* MaxRows rows, and of that many those of the first two kinds and one of  *)
(* all three.  Programs that differ in nothing of RunRules are checked     *)
(* once.                                                                   *)
EXTENDS Versions, RunRules, CutRules

CONSTANTS a, b, MaxRows

MCPrograms ==
  LET cap(v) == IF v < 2 THEN 1 ELSE CutRules[v - 1].cap
  IN  {RunRules[v + 1] @@ [cap |-> Min({cap(v), MaxThreads})] : v \in 0..26}

MCRows == { [channel |-> a, month |-> 1, len |-> 3, stamps |-> 1],
            [channel |-> b, month |-> 1, len |-> 1, stamps |-> 0],
            [channel |-> b, month |-> 2, len |-> 2, stamps |-> 2] }

Row(channel, month) == CHOOSE r \in Rows : r.channel = channel /\ r.month = month

MCInputs ==
  UNION {[1..n -> Rows] : n \in 0..(MaxRows - 1)}
    \cup [1..MaxRows -> {Row(a, 1), Row(b, 1)}] \cup {<<Row(b, 1), Row(a, 1), Row(b, 2)>>}

MCOld == << [channel |-> "old", month |-> 0, min |-> 0, max |-> 0, total |-> 0, count |-> 0, stamps |-> 0] >>
=============================================================================
