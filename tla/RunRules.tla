------------------------------ MODULE RunRules ------------------------------
(***************************************************************************)
(* What distinguishes a whole run of each of the programs src/00-naive.c   *)
(* to src/26-out.c; the steps are actions of module Versions.              *)
(*   input     read line by line from a "stream", or a "mapping"           *)
(*   sums      how the sums are kept: in 64 bits each ("wide"), in 32 bits *)
(*             each ("narrow"), or the count above the stamps ("packed")   *)
(*   least     where the minimum comes from: the "first row" or the "top"  *)
(*             value it starts with                                        *)
(*   renumber  "never", or after a sample of the share; the memory for it  *)
(*             is then used "unchecked"                                    *)
(*   merge     of another thread's channels: by "ids", by "slots"          *)
(*   lines     are written in the order of "ids", "slots" or "buckets"     *)
(*   file      they are written to: "stdio" or "write"                     *)
(* A program that kept a part of its predecessor has its definition.       *)
(***************************************************************************)
EXTENDS TLC

(* main, up to the header line                                             *)
Input00 == [input |-> "stream"]
Input01 == Input00
Input02 == [input |-> "mapping"]
Input03 == Input02
Input04 == Input02
Input05 == Input02
Input06 == Input02
Input07 == Input02
Input08 == Input02
Input09 == Input02
Input10 == Input02
Input11 == Input02
Input12 == Input02
Input13 == Input02
Input14 == Input02
Input15 == Input02
Input16 == Input02
Input17 == Input02
Input18 == Input02
Input19 == Input02
Input20 == Input02
Input21 == Input02
Input22 == Input02
Input23 == Input02
Input24 == Input02
Input25 == Input02
Input26 == Input02

(* Stats (Entry in 00), the tables around it and their initial values      *)
Stats00 == [sums |-> "wide"]
Stats01 == [sums |-> "narrow"]
Stats02 == Stats01
Stats03 == Stats01
Stats04 == Stats01
Stats05 == Stats01
Stats06 == Stats01
Stats07 == [sums |-> "packed"]
Stats08 == Stats07
Stats09 == Stats07
Stats10 == Stats07
Stats11 == Stats07
Stats12 == Stats07
Stats13 == Stats07
Stats14 == Stats07
Stats15 == Stats07
Stats16 == Stats07
Stats17 == Stats07
Stats18 == Stats07
Stats19 == Stats07
Stats20 == Stats07
Stats21 == Stats07
Stats22 == Stats07
Stats23 == Stats07
Stats24 == Stats07
Stats25 == Stats07
Stats26 == Stats07

(* The rows' part in the statistics: update_stats, update_row, process_row *)
Update00 == [least |-> "top"]
Update01 == [least |-> "first row"]
Update02 == Update01
Update03 == Update00
Update04 == Update00
Update05 == Update00
Update06 == Update00
Update07 == Update00
Update08 == Update00
Update09 == Update00
Update10 == Update00
Update11 == Update00
Update12 == Update00
Update13 == Update00
Update14 == Update00
Update15 == Update00
Update16 == Update00
Update17 == Update00
Update18 == Update00
Update19 == Update00
Update20 == Update00
Update21 == Update00
Update22 == Update00
Update23 == Update00
Update24 == Update00
Update25 == Update00
Update26 == Update00

(* renumber                                                                *)
Never      == [renumber |-> "never"]
Renumber17 == [renumber |-> "unchecked"]
Renumber18 == Renumber17
Renumber19 == Renumber17
Renumber20 == Renumber17
Renumber21 == Renumber17
Renumber22 == Renumber17
Renumber23 == Renumber17
Renumber24 == Renumber17
Renumber26 == Renumber17

(* merge_into_first                                                        *)
Merge04 == [merge |-> "ids"]
Merge05 == Merge04
Merge06 == Merge04
Merge07 == Merge04
Merge08 == Merge04
Merge09 == Merge04
Merge10 == Merge04
Merge11 == Merge04
Merge12 == Merge04
Merge13 == Merge04
Merge14 == Merge04
Merge15 == Merge04
Merge16 == Merge04
Merge17 == Merge04
Merge18 == Merge04
Merge19 == Merge04
Merge20 == Merge04
Merge21 == Merge04
Merge22 == Merge04
Merge23 == Merge04
Merge24 == Merge04
Merge25 == [merge |-> "slots"]
Merge26 == Merge04

(* main, from the output file on                                           *)
Output00 == [file |-> "stdio", lines |-> "buckets"]
Output01 == [file |-> "stdio", lines |-> "ids"]
Output02 == Output01
Output03 == Output01
Output04 == Output01
Output05 == Output01
Output06 == Output01
Output07 == Output01
Output08 == Output01
Output09 == Output01
Output10 == Output01
Output11 == Output01
Output12 == Output01
Output13 == Output01
Output14 == Output01
Output15 == Output01
Output16 == Output01
Output17 == Output01
Output18 == Output01
Output19 == Output01
Output20 == Output01
Output21 == Output01
Output22 == Output01
Output23 == Output01
Output24 == Output01
Output25 == [file |-> "stdio", lines |-> "slots"]
Output26 == [file |-> "write", lines |-> "ids"]

(* One thread: nothing to merge                                            *)
Alone == [merge |-> "none"]

RunRules == <<
  Input00 @@ Stats00 @@ Update00 @@ Never @@ Alone @@ Output00,
  Input01 @@ Stats01 @@ Update01 @@ Never @@ Alone @@ Output01,
  Input02 @@ Stats02 @@ Update02 @@ Never @@ Alone @@ Output02,
  Input03 @@ Stats03 @@ Update03 @@ Never @@ Alone @@ Output03,
  Input04 @@ Stats04 @@ Update04 @@ Never @@ Merge04 @@ Output04,
  Input05 @@ Stats05 @@ Update05 @@ Never @@ Merge05 @@ Output05,
  Input06 @@ Stats06 @@ Update06 @@ Never @@ Merge06 @@ Output06,
  Input07 @@ Stats07 @@ Update07 @@ Never @@ Merge07 @@ Output07,
  Input08 @@ Stats08 @@ Update08 @@ Never @@ Merge08 @@ Output08,
  Input09 @@ Stats09 @@ Update09 @@ Never @@ Merge09 @@ Output09,
  Input10 @@ Stats10 @@ Update10 @@ Never @@ Merge10 @@ Output10,
  Input11 @@ Stats11 @@ Update11 @@ Never @@ Merge11 @@ Output11,
  Input12 @@ Stats12 @@ Update12 @@ Never @@ Merge12 @@ Output12,
  Input13 @@ Stats13 @@ Update13 @@ Never @@ Merge13 @@ Output13,
  Input14 @@ Stats14 @@ Update14 @@ Never @@ Merge14 @@ Output14,
  Input15 @@ Stats15 @@ Update15 @@ Never @@ Merge15 @@ Output15,
  Input16 @@ Stats16 @@ Update16 @@ Never @@ Merge16 @@ Output16,
  Input17 @@ Stats17 @@ Update17 @@ Renumber17 @@ Merge17 @@ Output17,
  Input18 @@ Stats18 @@ Update18 @@ Renumber18 @@ Merge18 @@ Output18,
  Input19 @@ Stats19 @@ Update19 @@ Renumber19 @@ Merge19 @@ Output19,
  Input20 @@ Stats20 @@ Update20 @@ Renumber20 @@ Merge20 @@ Output20,
  Input21 @@ Stats21 @@ Update21 @@ Renumber21 @@ Merge21 @@ Output21,
  Input22 @@ Stats22 @@ Update22 @@ Renumber22 @@ Merge22 @@ Output22,
  Input23 @@ Stats23 @@ Update23 @@ Renumber23 @@ Merge23 @@ Output23,
  Input24 @@ Stats24 @@ Update24 @@ Renumber24 @@ Merge24 @@ Output24,
  Input25 @@ Stats25 @@ Update25 @@ Never @@ Merge25 @@ Output25,
  Input26 @@ Stats26 @@ Update26 @@ Renumber26 @@ Merge26 @@ Output26 >>
=============================================================================
