------------------------------- MODULE MCMain -------------------------------
(* Two channels that hash to the same slot, the last, of a table of three; *)
(* inputs of at most one row, or of MaxRows rows of both channels, split   *)
(* among up to MaxThreads threads.                                         *)
EXTENDS Main

CONSTANTS a, b, MaxRows

MCPrint == [n \in Channels |-> n]

MCRows == { [channel |-> a, month |-> 1, len |-> 3, stamps |-> 1],
            [channel |-> b, month |-> 1, len |-> 1, stamps |-> 0],
            [channel |-> b, month |-> 2, len |-> 2, stamps |-> 2] }

MCInputs ==
  UNION {[1..n -> Rows] : n \in 0..1}
    \cup {in \in [1..MaxRows -> Rows] : Channels = {in[j].channel : j \in 1..MaxRows}}

MCHashes == {[n \in Channels |-> 2]}

MCOld == << "old contents" >>
=============================================================================
