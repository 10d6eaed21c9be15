---------------------------------- MODULE Bytes ----------------------------------
(* Sequences of bytes with positions counted from 0, as files have them. *)
EXTENDS Integers, Sequences

Byte == 0 .. 255

Least(a, b)    == IF a < b THEN a ELSE b
Greatest(a, b) == IF a > b THEN a ELSE b

\* The bytes b with d laid over them from position p on, a gap filled with 0.
Overlay(b, p, d) ==
  IF d = <<>> THEN b
  ELSE [i \in 1 .. Greatest(Len(b), p + Len(d)) |->
          IF i \in p + 1 .. p + Len(d) THEN d[i - p] ELSE IF i <= Len(b) THEN b[i] ELSE 0]

\* n bytes from position p, fewer at the end.
Slice(b, p, n) == SubSeq(b, p + 1, Least(p + n, Len(b)))

From(b, p) == SubSeq(b, p + 1, Len(b))

\* The bytes b cut off or filled with 0 to n.
Resized(b, n) == [i \in 1 .. n |-> IF i <= Len(b) THEN b[i] ELSE 0]
==================================================================================
