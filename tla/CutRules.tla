------------------------------ MODULE CutRules ------------------------------
(***************************************************************************)
(* How each of the programs src/02-fastio.c to src/26-out.c cuts its       *)
(* mapped input into work; 27 is module Partition.                         *)
(*   cap      the most threads it starts, and                              *)
(*   unknown  how many when it cannot learn the number of processors       *)
(*   tail     the rows it parses from a padded buffer: "none", the         *)
(*            "last line", the rows that start in a "slack" of 160 bytes   *)
(*   buffer   the bytes of that buffer                                     *)
(*   sample   the rows before the first 1/sample of a share are counted    *)
(*            apart (0: there is no sample)                                *)
(*   streams  the positions a worker reads from in turn                    *)
(*   batch    the rows it reads before it counts them                      *)
(* A program that kept a part of its predecessor has its definition.       *)
(***************************************************************************)
EXTENDS Layout, TLC

(* thread_count; 02 and 03 have one thread                                 *)
Threads02 == [cap |-> 1, unknown |-> 1]
Threads03 == Threads02
Threads04 == [cap |-> 16, unknown |-> 8]
Threads05 == Threads04
Threads06 == Threads04
Threads07 == Threads04
Threads08 == Threads04
Threads09 == Threads04
Threads10 == Threads04
Threads11 == Threads04
Threads12 == Threads04
Threads13 == Threads04
Threads14 == Threads04
Threads15 == Threads04
Threads16 == Threads04
Threads17 == Threads04
Threads18 == Threads04
Threads19 == Threads04
Threads20 == [cap |-> 4, unknown |-> 4]
Threads21 == Threads04
Threads22 == Threads04
Threads23 == Threads04
Threads24 == Threads04
Threads25 == Threads04
Threads26 == Threads04

(* main, from the header line to the tail buffer                           *)
Cut02 == [tail |-> "none", buffer |-> 0]
Cut03 == [tail |-> "last line", buffer |-> MaxLineLen + 8]
Cut04 == Cut03
Cut05 == Cut03
Cut06 == Cut03
Cut07 == [tail |-> "last line", buffer |-> MaxLineLen + 16]
Cut08 == Cut07
Cut09 == Cut07
Cut10 == Cut07
Cut11 == [tail |-> "slack", buffer |-> TailSlack + MaxLineLen + 64]
Cut12 == Cut11
Cut13 == Cut11
Cut14 == Cut11
Cut15 == Cut11
Cut16 == Cut11
Cut17 == Cut11
Cut18 == Cut11
Cut19 == Cut11
Cut20 == Cut11
Cut21 == Cut11
Cut22 == Cut11
Cut23 == Cut11
Cut24 == Cut11
Cut25 == Cut11
Cut26 == Cut11

(* BATCH and run_range or, before there was one, the loop of worker        *)
Range02 == [batch |-> 1]
Range03 == Range02
Range04 == Range02
Range05 == [batch |-> 8]
Range06 == Range05
Range07 == Range05
Range08 == [batch |-> 1]
Range09 == Range05
Range10 == Range05
Range11 == Range05
Range12 == Range05
Range13 == Range05
Range14 == Range05
Range15 == [batch |-> 16]
Range16 == Range15
Range17 == Range15
Range18 == Range15
Range19 == [batch |-> 32]
Range20 == Range15
Range21 == Range15
Range22 == Range15
Range23 == Range15
Range24 == Range15
Range25 == Range15
Range26 == Range15

(* worker: the ranges of a share                                           *)
Share02 == [sample |-> 0, streams |-> 1]
Share03 == Share02
Share04 == Share02
Share05 == Share02
Share06 == Share02
Share07 == Share02
Share08 == [sample |-> 0, streams |-> 4]
Share09 == Share02
Share10 == Share02
Share11 == Share02
Share12 == Share02
Share13 == Share02
Share14 == Share02
Share15 == Share02
Share16 == Share02
Share17 == [sample |-> 128, streams |-> 1]
Share18 == Share17
Share19 == Share17
Share20 == Share17
Share21 == Share17
Share22 == [sample |-> 128, streams |-> 2]
Share23 == Share17
Share24 == Share17
Share25 == Share02
Share26 == Share17

CutRules == <<
  Threads02 @@ Cut02 @@ Range02 @@ Share02,
  Threads03 @@ Cut03 @@ Range03 @@ Share03,
  Threads04 @@ Cut04 @@ Range04 @@ Share04,
  Threads05 @@ Cut05 @@ Range05 @@ Share05,
  Threads06 @@ Cut06 @@ Range06 @@ Share06,
  Threads07 @@ Cut07 @@ Range07 @@ Share07,
  Threads08 @@ Cut08 @@ Range08 @@ Share08,
  Threads09 @@ Cut09 @@ Range09 @@ Share09,
  Threads10 @@ Cut10 @@ Range10 @@ Share10,
  Threads11 @@ Cut11 @@ Range11 @@ Share11,
  Threads12 @@ Cut12 @@ Range12 @@ Share12,
  Threads13 @@ Cut13 @@ Range13 @@ Share13,
  Threads14 @@ Cut14 @@ Range14 @@ Share14,
  Threads15 @@ Cut15 @@ Range15 @@ Share15,
  Threads16 @@ Cut16 @@ Range16 @@ Share16,
  Threads17 @@ Cut17 @@ Range17 @@ Share17,
  Threads18 @@ Cut18 @@ Range18 @@ Share18,
  Threads19 @@ Cut19 @@ Range19 @@ Share19,
  Threads20 @@ Cut20 @@ Range20 @@ Share20,
  Threads21 @@ Cut21 @@ Range21 @@ Share21,
  Threads22 @@ Cut22 @@ Range22 @@ Share22,
  Threads23 @@ Cut23 @@ Range23 @@ Share23,
  Threads24 @@ Cut24 @@ Range24 @@ Share24,
  Threads25 @@ Cut25 @@ Range25 @@ Share25,
  Threads26 @@ Cut26 @@ Range26 @@ Share26 >>
=============================================================================
