------------------------------ MODULE SeqCircle ------------------------------
(***************************************************************************)
(* The circle of RTP sequence numbers (u16 in the code) and the signed     *)
(* distance the receiver measures on it.  The wrap-around of the machine   *)
(* arithmetic is written as a case split: every argument below is at most  *)
(* one turn away from the circle.                                          *)
(***************************************************************************)
EXTENDS Integers

CONSTANT SeqSpace      \* number of sequence numbers: 2^16 in the code

ASSUME SeqSpaceAssumption == /\ SeqSpace \in Nat \ {0}
                             /\ SeqSpace % 2 = 0

Seqs == 0..(SeqSpace - 1)

\* Mutant: an addition that does not wrap.
PlusNoWrap(s, k) == s + k

\* s.wrapping_add(k), for 0 <= k <= SeqSpace
Plus(s, k) == IF s + k >= SeqSpace THEN s + k - SeqSpace ELSE s + k

\* a.wrapping_sub(b)
Turn(a, b) == IF a >= b THEN a - b ELSE a - b + SeqSpace

\* Mutant: the plain difference, which is wrong across the wrap-around.
PlainDiff(a, b) == a - b

\* The `as i16` reading of the difference: the upper half is negative.
seq_diff(a, b) == IF 2 * Turn(a, b) < SeqSpace
                  THEN Turn(a, b) ELSE Turn(a, b) - SeqSpace
=============================================================================
