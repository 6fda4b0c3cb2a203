------------------------------ MODULE MCWorker ------------------------------
(* Three channels, two of them long names with the same fingerprint, in a  *)
(* table of four slots; shares of up to MaxRows rows, cut anywhere; all    *)
(* the hash functions into three of the slots (the last included, so that  *)
(* probes wrap).                                                           *)
EXTENDS Worker

CONSTANTS a, b, z, MaxRows

MCPrint == [n \in Channels |-> IF n = z THEN "pz" ELSE "pab"]

MCRows == { [channel |-> a, month |-> 1, len |-> 1, stamps |-> 1],
            [channel |-> b, month |-> 2, len |-> 3, stamps |-> 0],
            [channel |-> z, month |-> 1, len |-> 2, stamps |-> 2] }

MCInputs == UNION {[1..n -> Rows] : n \in 0..MaxRows}

MCHashes == {h \in [Channels -> Slots \ {1}] : h[a] = h[b]}
=============================================================================
