-------------------------- MODULE SequenceOperators --------------------------
(***************************************************************************)
(* Sums over sequences, and their elements that pass a test.  What recurs  *)
(* takes no operator, so that SequenceLemmas can speak of it; for the same *)
(* reason Those stands where SelectSeq would do.                           *)
(***************************************************************************)
EXTENDS Integers, SequencesExt

Total(numbers) == FoldLeft(LAMBDA n, m : n + m, 0, numbers)
SumOf(Size(_), seq) == Total([k \in 1..Len(seq) |-> Size(seq[k])])

\* The elements for which Test holds, in their order.
Those(seq, Test(_)) ==
    FlattenSeq([k \in 1..Len(seq) |-> IF Test(seq[k]) THEN <<seq[k]>> ELSE <<>>])
=============================================================================
