------------------------------ MODULE RowParsers ------------------------------
(***************************************************************************)
(* How each of the programs src/00-naive.c to src/27-robust.c reads a row. *)
(* The routines themselves are operators of Calendar and Parse; a program  *)
(* is a choice among them:                                                 *)
(*   digits   of the timestamp that are read: "all", "middle seven",       *)
(*            "first eight"                                                *)
(*   month    from them: "civil", by the "ends" of months, by "days"       *)
(*   name     how its comma is found: by the C library in the rest of the  *)
(*            "line" or "file" or in what a name can take ("bounded"), in  *)
(*            two words whose marks are joined ("marks") or looked at one  *)
(*            after the other ("words"), by a "vector" compare             *)
(*   uint     a number on its own: digit by digit ("digits") or as a       *)
(*            "word"                                                       *)
(*   numbers  the two numbers of a row: "apart", "together" if one word    *)
(*            holds them, and then the first with "three" digits added up  *)
(* A program that kept a part of its predecessor has its definition.       *)
(***************************************************************************)
EXTENDS TLC

(* The constants of the calendar, day_month, month_of                      *)
Calendar00 == [digits |-> "all", month |-> "civil"]
Calendar01 == [digits |-> "all", month |-> "ends"]
Calendar02 == [digits |-> "middle seven", month |-> "ends"]
Calendar03 == [digits |-> "middle seven", month |-> "days"]
Calendar04 == [digits |-> "first eight", month |-> "days"]
Calendar05 == Calendar04
Calendar06 == Calendar04
Calendar07 == Calendar04
Calendar08 == Calendar04
Calendar09 == Calendar04
Calendar10 == Calendar04
Calendar11 == Calendar04
Calendar12 == Calendar04
Calendar13 == Calendar04
Calendar14 == Calendar04
Calendar15 == Calendar04
Calendar16 == Calendar04
Calendar17 == Calendar04
Calendar18 == Calendar04
Calendar19 == Calendar04
Calendar20 == Calendar04
Calendar21 == Calendar04
Calendar22 == Calendar04
Calendar23 == Calendar04
Calendar24 == Calendar04
Calendar25 == Calendar04
Calendar26 == Calendar04
Calendar27 == Calendar04

(* load8, swar10, parse_uint, the masks and, from 11 on, name_len          *)
Words07 == [uint |-> "word"]
Words08 == Words07
Words09 == Words08
Words10 == Words08
Words11 == Words08 @@ [name |-> "vector"]
Words12 == Words11
Words13 == Words11
Words14 == Words11
Words15 == Words11
Words16 == Words11
Words17 == Words11
Words18 == Words11
Words19 == Words11
Words20 == Words11
Words21 == Words11
Words22 == Words11
Words23 == Words11
Words24 == Words11
Words25 == Words11
Words26 == Words11
Words27 == Words11

(* parse_row or, before it was one, the part of the loop that reads a row  *)
Row00 == [name |-> "line", uint |-> "digits", numbers |-> "apart"]
Row01 == Row00
Row02 == [name |-> "file", uint |-> "digits", numbers |-> "apart"]
Row03 == [name |-> "bounded", uint |-> "digits", numbers |-> "apart"]
Row04 == Row03
Row05 == Row04
Row06 == Row05
Row07 == Words07 @@ [name |-> "marks", numbers |-> "apart"]
Row08 == Words08 @@ [name |-> "words", numbers |-> "together"]
Row09 == Words09 @@ [name |-> "words", numbers |-> "together"]
Row10 == Words10 @@ [name |-> "words", numbers |-> "together"]
Row11 == Words11 @@ [numbers |-> "together"]
Row12 == Words12 @@ [numbers |-> "together"]
Row13 == Words13 @@ [numbers |-> "together"]
Row14 == Words14 @@ [numbers |-> "together"]
Row15 == Words15 @@ [numbers |-> "together"]
Row16 == Words16 @@ [numbers |-> "together"]
Row17 == Words17 @@ [numbers |-> "together"]
Row18 == Words18 @@ [numbers |-> "together"]
Row19 == Words19 @@ [numbers |-> "together"]
Row20 == Words20 @@ [numbers |-> "together"]
Row21 == Words21 @@ [numbers |-> "three"]
Row22 == Words22 @@ [numbers |-> "together"]
Row23 == Words23 @@ [numbers |-> "together"]
Row24 == Words24 @@ [numbers |-> "together"]
Row25 == Words25 @@ [numbers |-> "together"]
Row26 == Words26 @@ [numbers |-> "together"]
Row27 == Words27 @@ [numbers |-> "together"]

Parsers == <<
  Calendar00 @@ Row00, Calendar01 @@ Row01, Calendar02 @@ Row02,
  Calendar03 @@ Row03, Calendar04 @@ Row04, Calendar05 @@ Row05,
  Calendar06 @@ Row06, Calendar07 @@ Row07, Calendar08 @@ Row08,
  Calendar09 @@ Row09, Calendar10 @@ Row10, Calendar11 @@ Row11,
  Calendar12 @@ Row12, Calendar13 @@ Row13, Calendar14 @@ Row14,
  Calendar15 @@ Row15, Calendar16 @@ Row16, Calendar17 @@ Row17,
  Calendar18 @@ Row18, Calendar19 @@ Row19, Calendar20 @@ Row20,
  Calendar21 @@ Row21, Calendar22 @@ Row22, Calendar23 @@ Row23,
  Calendar24 @@ Row24, Calendar25 @@ Row25, Calendar26 @@ Row26,
  Calendar27 @@ Row27 >>
=============================================================================
