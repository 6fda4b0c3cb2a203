------------------------------- MODULE MCCuts -------------------------------
(* Up to MaxRows rows of the shortest and the longest shape (17 and 138    *)
(* bytes) behind a 7-byte header, for every program but the first two,     *)
(* which read lines from a stream, and the last.  With batches a fourth of *)
(* theirs the rows of one thread fill every batch.                         *)
EXTENDS Cuts, CutRules, RowParsers, NameTests

CONSTANT MaxRows      \* the bound on the number of rows

MCShapes == { [name |-> 1, len |-> 1, stamps |-> 1],
              [name |-> 104, len |-> 10, stamps |-> 10] }

Place(seq) ==
  LET at[i \in 1..(Len(seq) + 1)] ==
        IF i = 1 THEN 7 ELSE at[i - 1] + RowLength(seq[i - 1])
  IN  [size |-> at[Len(seq) + 1], body |-> 7,
       rows |-> [s \in {at[i] : i \in 1..Len(seq)} |->
                   seq[CHOOSE i \in 1..Len(seq) : at[i] = s]]]

MCFiles == { Place(seq) : seq \in UNION {[1..n -> MCShapes] : n \in 0..MaxRows} }

MCPrograms ==
  {CutRules[v - 1] @@ Parsers[v + 1] @@ [print |-> Prints[v + 1]] : v \in 2..26}
=============================================================================
