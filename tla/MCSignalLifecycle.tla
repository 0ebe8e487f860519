------------------------- MODULE MCSignalLifecycle -------------------------
(* Small instances of SignalLifecycle for TLC. *)
EXTENDS SignalLifecycle

Says(signal, direction) ==
  [signal |-> signal, direction |-> direction, breached |-> FALSE,
   verified |-> TRUE, closing |-> FALSE]

\* Every signal in one direction, the other direction, a lost direction, a
\* breached stop, an unverified contract and an ask near the entry cap.
AllCandidates ==
  {Says("WATCH", "call"), Says("BUY", "call"), Says("MISSED", "call"), Says("PASS", "none"),
   [Says("BUY", "put") EXCEPT !.breached = TRUE, !.closing = TRUE],
   [Says("MISSED", "put") EXCEPT !.verified = FALSE]}
=============================================================================
