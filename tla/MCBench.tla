------------------------------- MODULE MCBench ------------------------------
(* Outputs of up to three lines: two texts and the empty one, with and     *)
(* without \r, against two expected outputs, one with a line twice.        *)
EXTENDS Bench

L(text, returns) == [text |-> text, returns |-> returns]

MCOutputs == SeqOf({L(1, 0), L(2, 1), L(2, 0), L(0, 1)}, 3)

MCExpecteds == {<<L(1, 0), L(2, 0)>>, <<L(2, 0), L(1, 0), L(2, 0)>>}
=============================================================================
