--------------------------- MODULE MCSignalOutcome ---------------------------
(* Small instances of SignalOutcome for TLC. *)
EXTENDS SignalOutcome

All(kind, after) == [s \in Signals |-> [kind |-> kind, after |-> after]]

\* Quiet candles, and candles that take signal 1 to its target and touch both
\* levels of the others.
MixedMoves ==
  {All("flat", 0), [s \in Signals |-> [kind |-> IF s = 1 THEN "target" ELSE "both", after |-> 0]]}

\* A target touched in the last tick of its minute.
LateMoves == {All("target", MinuteTicks - 1)}
=============================================================================
