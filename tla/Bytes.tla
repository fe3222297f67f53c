-------------------------------- MODULE Bytes --------------------------------
(***************************************************************************)
(* Bytes are 0..255, and buffers sequences of them.                        *)
(***************************************************************************)
EXTENDS Naturals, Sequences

Byte == 0..255

Least(a, b) == IF a <= b THEN a ELSE b
Larger(a, b) == IF a >= b THEN a ELSE b

\* The first n elements of s, or all; and what is behind them.
Take(s, n) == SubSeq(s, 1, Least(n, Len(s)))
Drop(s, n) == SubSeq(s, n + 1, Len(s))
==============================================================================
