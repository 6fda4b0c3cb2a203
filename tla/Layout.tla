------------------------------- MODULE Layout -------------------------------
(***************************************************************************)
(* The bytes of an input: where its rows begin and end.  A row is          *)
(* abstracted to the widths of its fields, which decide how many bytes it  *)
(* has and how far past its start a parser loads.                          *)
(***************************************************************************)
EXTENDS Integers

MaxLineLen == 141
TailSlack  == 160

(* A row is the widths of its channel name, its length field and its       *)
(* stamp field; the timestamp has ten digits, and four bytes separate.     *)
Shape == [name : 1..104, len : 1..10, stamps : 1..10]

RowLength(r) == 14 + r.name + r.len + r.stamps

(* A file is its size, the offset of its first row, and the shape of the   *)
(* row at each row start; the rows tile [body, size).                      *)
RowEnd(f, s) == s + RowLength(f.rows[s])

FileOK(f) ==
  /\ f.size \in Nat
  /\ f.body \in 1..f.size
  /\ DOMAIN f.rows \subseteq f.body..(f.size - 1)
  /\ \A s \in DOMAIN f.rows : f.rows[s] \in Shape /\ RowEnd(f, s) <= f.size
  /\ \A s1, s2 \in DOMAIN f.rows : s1 < s2 => RowEnd(f, s1) <= s2
  /\ \A p \in f.body..(f.size - 1) :
        \E s \in DOMAIN f.rows : s <= p /\ p < RowEnd(f, s)

Newlines(f) == {f.body - 1} \cup {RowEnd(f, s) - 1 : s \in DOMAIN f.rows}

(* nl = memchr(from, '\n', to - from);  nl != nullptr ? nl + 1 : otherwise *)
LineAfter(f, from, to, otherwise) ==
  LET hits == {n \in Newlines(f) : from <= n /\ n < to}
  IN  IF hits = {} THEN otherwise
      ELSE 1 + CHOOSE n \in hits : \A m \in hits : n <= m

LineStart(f, p) == p = f.size \/ p \in DOMAIN f.rows
=============================================================================
