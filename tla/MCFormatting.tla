---------------------------- MODULE MCFormatting ----------------------------
(* Every total and count up to Largest; numbers on both sides of every     *)
(* power of ten and of two up to the largest integer there is here.        *)
EXTENDS Formatting

Tens == {10^k : k \in 0..9}
Twos == {2^k : k \in 0..30}

MCNumbers ==
  (0..120) \cup UNION {{n - 1, n, n + 1} : n \in Tens \cup Twos}
    \cup {1234567890, 2147483646, 2147483647}
=============================================================================
