------------------------------- MODULE Totals -------------------------------
(* Sums of amounts over a set of rows. *)
EXTENDS Integers, FiniteSets, Folds

Total(amount, S) ==
  MapThenFoldSet(+, 0, LAMBDA x : amount[x], LAMBDA s : CHOOSE x \in s : TRUE, S)
=============================================================================
