---------------------------- MODULE MCNameMatch ----------------------------
(* Names of the lengths around every boundary the loads of a name have,    *)
(* with a mark at any one offset or at none: two of them differ in length, *)
(* in the place of one byte or of two.  Behind a name, zeros or commas.    *)
EXTENDS NameMatch

MCBytes == {0, 1, 2, 44}

MCLengths == {1, 7, 8, 9, 16, 17, 24, 25, 32, MaxLen}

MCNames ==
  {[len |-> n, at |-> [i \in Reach |-> IF i = d THEN 2 ELSE 1]] :
     <<n, d>> \in {nd \in MCLengths \X (0..MaxLen) : nd[2] <= nd[1]}}

(* Names of one length have the same bits.                                 *)
MCHashBits(h) == h.len % 3

MCJunk == {[i \in Reach |-> 0], [i \in Reach |-> 44]}
=============================================================================
