----------------------------- MODULE NameTests -----------------------------
(***************************************************************************)
(* How each of the programs src/00-naive.c to src/27-robust.c tells        *)
(* channel names apart; the tests themselves are operators of NameMatch.   *)
(*   print   what is taken from a name before the probe: nothing but the   *)
(*           hash of all its "bytes"; its first and last eight bytes, the  *)
(*           last of a short name being its first ("ends") or cut out of   *)
(*           the same place and masked ("masked ends"); sixteen bits of    *)
(*           the hash too ("ends, bits"); the second eight bytes too       *)
(*           ("masked ends, mid")                                          *)
(*   test    of an occupied slot: "strcmp", "strncmp"; the ends and memcmp *)
(*           ("memcmp"), after the bits of the hash ("bits"); the ends and *)
(*           words from the second ("words") or from the third on, the     *)
(*           second having been kept ("mid")                               *)
(* A program that kept a part of its predecessor has its definition.       *)
(***************************************************************************)

(* hash_key, hash_channel, fingerprint, or their part of channel_id        *)
Print00 == "bytes"
Print01 == Print00
Print02 == Print01
Print03 == "ends"
Print04 == Print03
Print05 == Print04
Print06 == "ends, bits"
Print07 == "masked ends"
Print08 == Print07
Print09 == Print07
Print10 == Print07
Print11 == Print07
Print12 == Print07
Print13 == "masked ends, mid"
Print14 == Print13
Print15 == Print13
Print16 == Print13
Print17 == Print13
Print18 == Print13
Print19 == Print13
Print20 == Print13
Print21 == Print13
Print22 == Print13
Print23 == Print13
Print24 == Print13
Print25 == Print13
Print26 == Print13
Print27 == Print13

Prints == <<
  Print00, Print01, Print02, Print03, Print04, Print05, Print06,
  Print07, Print08, Print09, Print10, Print11, Print12, Print13,
  Print14, Print15, Print16, Print17, Print18, Print19, Print20,
  Print21, Print22, Print23, Print24, Print25, Print26, Print27 >>

(* find_or_insert, channel_id with middle_equal, find_slot                 *)
Names00 == [print |-> Print00, test |-> "strcmp"]
Names01 == [print |-> Print01, test |-> "strncmp"]
Names02 == [print |-> Print02, test |-> "strncmp"]
Names03 == [print |-> Print03, test |-> "memcmp"]
Names04 == [print |-> Print04, test |-> "memcmp"]
Names05 == [print |-> Print05, test |-> "memcmp"]
Names06 == [print |-> Print06, test |-> "bits"]
Names07 == [print |-> Print07, test |-> "words"]
Names08 == [print |-> Print08, test |-> "words"]
Names09 == [print |-> Print09, test |-> "words"]
Names10 == [print |-> Print10, test |-> "words"]
Names11 == [print |-> Print11, test |-> "words"]
Names12 == [print |-> Print12, test |-> "words"]
Names13 == [print |-> Print13, test |-> "mid"]
Names14 == [print |-> Print14, test |-> "mid"]
Names15 == [print |-> Print15, test |-> "mid"]
Names16 == [print |-> Print16, test |-> "mid"]
Names17 == [print |-> Print17, test |-> "mid"]
Names18 == [print |-> Print18, test |-> "mid"]
Names19 == [print |-> Print19, test |-> "mid"]
Names20 == [print |-> Print20, test |-> "mid"]
Names21 == [print |-> Print21, test |-> "mid"]
Names22 == [print |-> Print22, test |-> "mid"]
Names23 == [print |-> Print23, test |-> "mid"]
Names24 == [print |-> Print24, test |-> "mid"]
Names25 == [print |-> Print25, test |-> "mid"]
Names26 == [print |-> Print26, test |-> "mid"]
Names27 == [print |-> Print27, test |-> "mid"]

NameTests ==
  {Names00, Names01, Names02, Names03, Names04, Names05, Names06,
   Names07, Names08, Names09, Names10, Names11, Names12, Names13,
   Names14, Names15, Names16, Names17, Names18, Names19, Names20,
   Names21, Names22, Names23, Names24, Names25, Names26, Names27}
=============================================================================
