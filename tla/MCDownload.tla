----------------------------- MODULE MCDownload -----------------------------
(* Two datasets, of two blocks and of one.                                 *)
EXTENDS Download

CONSTANTS small, large

MCOrder  == <<large, small>>
MCBlocks == [d \in Datasets |-> IF d = large THEN 2 ELSE 1]
=============================================================================
