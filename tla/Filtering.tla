----------------------------- MODULE Filtering -----------------------------
(***************************************************************************)
(* The list comprehension with a condition: the elements of a sequence     *)
(* that a set holds, in their order.  A fold, so that it can be reasoned   *)
(* about where SelectSeq cannot.                                           *)
(***************************************************************************)
EXTENDS Sequences, SequencesExt

KeepIf(kept, x, S) == IF x \in S THEN Append(kept, x) ELSE kept

Only(seq, S) == LET keep(kept, x) == KeepIf(kept, x, S) IN FoldLeft(keep, << >>, seq)
=============================================================================
