----------------------------- MODULE Elementary -----------------------------
(***************************************************************************)
(* What the route modules compute with: the power of two that a logarithm  *)
(* stands for, and the part of a sequence that passes a test.              *)
(***************************************************************************)
EXTENDS Integers, Sequences, SequencesExt

Pow2(n) ==
  LET power[k \in 0 .. n] == IF k = 0 THEN 1 ELSE 2 * power[k - 1]
  IN power[n]

\* The members of the sequence s at the places of the set I, in their order.
Keep(s, I) == FlattenSeq([n \in 1 .. Len(s) |-> IF n \in I THEN <<s[n]>> ELSE << >>])
=============================================================================
