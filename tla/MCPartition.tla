---------------------------- MODULE MCPartition ----------------------------
(* Small inputs with the program's own constants: a 7-byte header and up   *)
(* to MaxRows rows of the shortest shape, the longest and one in between   *)
(* (17, 138 and 84 bytes), so that inputs below, at and above the 160-byte *)
(* slack, empty shares, and shares above and below the 128 bytes that make *)
(* a sample all occur.                                                     *)
EXTENDS Partition, Sequences

CONSTANT MaxRows      \* the bound on the number of rows

MCShapes == { [name |-> 1, len |-> 1, stamps |-> 1],
              [name |-> 104, len |-> 10, stamps |-> 10],
              [name |-> 64, len |-> 4, stamps |-> 2] }

Place(seq) ==
  LET at[i \in 1..(Len(seq) + 1)] ==
        IF i = 1 THEN 7 ELSE at[i - 1] + RowLength(seq[i - 1])
  IN  [size |-> at[Len(seq) + 1], body |-> 7,
       rows |-> [s \in {at[i] : i \in 1..Len(seq)} |->
                   seq[CHOOSE i \in 1..Len(seq) : at[i] = s]]]

MCFiles == { Place(seq) : seq \in UNION {[1..n -> MCShapes] : n \in 0..MaxRows} }
=============================================================================
