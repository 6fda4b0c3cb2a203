------------------------------- MODULE Verify -------------------------------
(***************************************************************************)
(* tools/verify.zig: the comparison of a program's output with the         *)
(* expected one, and the differences it shows.  A file is a sequence of    *)
(* lines, cut at every \n; a line is its text, a number that orders as its *)
(* bytes do and is 0 when there are none, and the \r behind it.            *)
(***************************************************************************)
EXTENDS Integers, SequencesExt

CONSTANT
  MaxShown     (* differences that are shown at most                       *)

ASSUME VerifyAssumption == MaxShown \in Nat

RawLines == [text : Nat, returns : Nat]

(* trimEnd takes every \r at the end.                                      *)
Trimmed(raw) == [raw EXCEPT !.returns = 0]

(* The lines that are not empty once trimmed, sorted.                      *)
NormalizedLines(file) ==
  LET kept  == {i \in DOMAIN file : Trimmed(file[i]).text # 0}
      order == CHOOSE o \in Bijection(1 .. Cardinality(kept), kept) :
                 \A j, k \in DOMAIN o : j < k => file[o[j]].text <= file[o[k]].text
  IN  [k \in DOMAIN order |-> Trimmed(file[order[k]])]

(* Mutant: the lengths are not compared first.                             *)
EqualPrefix(actual, expected) ==
  \A i \in DOMAIN actual \cap DOMAIN expected : actual[i] = expected[i]

Equal(actual, expected) ==
  Len(actual) = Len(expected) /\ \A i \in DOMAIN actual : actual[i] = expected[i]

(* The loop over both, from actual[i] and expected[j], `shown` differences *)
(* shown so far: what it prints from there, each with the file it is in.   *)
Differences(actual, expected) ==
  LET more[at \in (1 .. Len(actual) + 1) \X (1 .. Len(expected) + 1) \X (0 .. MaxShown)] ==
        LET i     == at[1]
            j     == at[2]
            shown == at[3]
            a     == i <= Len(actual)
            e     == j <= Len(expected)
        IN  IF ~ (a \/ e) \/ shown = MaxShown THEN <<>>
            ELSE IF ~ e \/ (a /\ actual[i].text < expected[j].text)
              THEN <<[only |-> "actual", line |-> actual[i]]>> \o more[<<i + 1, j, shown + 1>>]
            ELSE IF ~ a \/ expected[j].text < actual[i].text
              THEN <<[only |-> "expected", line |-> expected[j]]>> \o more[<<i, j + 1, shown + 1>>]
            ELSE more[<<i + 1, j + 1, shown>>]
  IN  more[<<1, 1, 0>>]

(* main: the exit status is 0, or 1 after the differences.                 *)
Accepts(actual, expected) ==
  Equal(NormalizedLines(actual), NormalizedLines(expected))

Shown(actual, expected) ==
  Differences(NormalizedLines(actual), NormalizedLines(expected))

---------------------------------------------------------------------------
(* The contest's rule: order, \r\n and empty lines do not matter, all else *)
(* does: each text has to be there as often as it is expected.             *)
Times(file, text) == Cardinality({i \in DOMAIN file : file[i].text = text})

Texts(file) == {file[i].text : i \in DOMAIN file} \ {0}

SameLines(actual, expected) ==
  \A text \in Texts(actual) \cup Texts(expected) : Times(actual, text) = Times(expected, text)

TimesShown(shown, side, text) ==
  Cardinality({k \in DOMAIN shown : shown[k].only = side /\ shown[k].line.text = text})

(* How much more often the text is in the one file than in the other.      *)
Surplus(one, other, text) ==
  IF Times(one, text) > Times(other, text) THEN Times(one, text) - Times(other, text) ELSE 0

(* What is shown is what one file has more often than the other, and all   *)
(* of it where there is room.                                              *)
ShowsDifference(actual, expected) ==
  LET shown == Shown(actual, expected) IN
  \A text \in Texts(actual) \cup Texts(expected) \cup {shown[k].line.text : k \in DOMAIN shown} :
    LET a == TimesShown(shown, "actual", text)
        e == TimesShown(shown, "expected", text)
    IN  /\ a <= Surplus(actual, expected, text) /\ e <= Surplus(expected, actual, text)
        /\ \/ Len(shown) = MaxShown
           \/ a = Surplus(actual, expected, text) /\ e = Surplus(expected, actual, text)
=============================================================================
