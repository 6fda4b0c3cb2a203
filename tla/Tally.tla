------------------------------- MODULE Tally -------------------------------
(***************************************************************************)
(* What one worker promises: the rows of its share are counted one by one, *)
(* in order, each into the statistics of its own channel and month, and    *)
(* nothing else ever changes a statistic.                                  *)
(***************************************************************************)
EXTENDS Integers, Sequences

CONSTANTS Channels, Months, Inputs, NewStats, UpdateStats(_, _)

VARIABLES input, done, tally

vars == <<input, done, tally>>

Init ==
  /\ input \in Inputs
  /\ done = 0
  /\ tally = [n \in Channels |-> [m \in Months |-> NewStats]]

Count ==
  /\ done < Len(input)
  /\ LET r == input[done + 1] IN
       tally' = [tally EXCEPT ![r.channel][r.month] = UpdateStats(@, r)]
  /\ done' = done + 1
  /\ UNCHANGED input

Next == Count

Spec == Init /\ [][Next]_vars
=============================================================================
