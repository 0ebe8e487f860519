---------------------------- MODULE MCPaperDesk ----------------------------
(* The instance of PaperDesk for TLC. *)
EXTENDS PaperDesk, TLC

\* Two marks at the entry's level and at the invalidation, one at both first targets:
\* the first two share the option price, so writes of single columns can mix them.
MCEntryQuotes == {[option |-> 1, under |-> 1]}
MCQuotes == MCEntryQuotes \cup {[option |-> 1, under |-> 0], [option |-> 2, under |-> 2]}
MCSymmetry == Permutations(Threads) \cup Permutations(Symbols)
=============================================================================
