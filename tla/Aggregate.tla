----------------------------- MODULE Aggregate -----------------------------
(***************************************************************************)
(* What a run of the program promises, as tools/reference.zig computes it: *)
(* the output file ends up holding, once each and in any order, one line   *)
(* for every channel and month that occur together in the input.  A run    *)
(* that cannot do so says so by its exit status, and until it opens the    *)
(* output the file keeps what it held.  The average is kept as the total   *)
(* and the count it is the rounded quotient of.                            *)
(***************************************************************************)
EXTENDS Integers, Sequences, FiniteSetsExt, Functions

CONSTANTS Channels, Months, Inputs, Old

VARIABLES input, out, exit

vars == <<input, out, exit>>

RowsFor(in, n, m) == {i \in DOMAIN in : in[i].channel = n /\ in[i].month = m}

Line(in, n, m) ==
  LET rows == RowsFor(in, n, m)
      lens == {in[i].len : i \in rows}
  IN  [channel |-> n, month |-> m,
       min    |-> Min(lens),
       max    |-> Max(lens),
       total  |-> SumFunction([i \in rows |-> in[i].len]),
       count  |-> Cardinality(rows),
       stamps |-> SumFunction([i \in rows |-> in[i].stamps])]

Summary(in) ==
  {Line(in, nm[1], nm[2]) :
     nm \in {pair \in Channels \X Months : RowsFor(in, pair[1], pair[2]) # {}}}

Init == input \in Inputs /\ out = Old /\ exit = "none"

Truncate == exit = "none" /\ out' = <<>> /\ UNCHANGED <<input, exit>>

(* Some more lines, none of them twice.                                    *)
Put ==
  /\ exit = "none"
  /\ Len(out') > Len(out)
  /\ SubSeq(out', 1, Len(out)) = out
  /\ Range(out') \subseteq Summary(input)
  /\ IsInjective(out')
  /\ UNCHANGED <<input, exit>>

Succeed ==
  /\ exit = "none" /\ exit' = "ok"
  /\ Range(out) = Summary(input)
  /\ UNCHANGED <<input, out>>

Fail == exit = "none" /\ exit' = "failed" /\ UNCHANGED <<input, out>>

Next == Truncate \/ Put \/ Succeed \/ Fail

Spec == Init /\ [][Next]_vars
=============================================================================
