-------------------------- MODULE MCForwardAccount --------------------------
(* Small instances of ForwardAccount for TLC. *)
EXTENDS ForwardAccountBook

\* Timing: an affordable contract and one whose bid went to zero.
TimingPrices == {[bid |-> 3, ask |-> 4], [bid |-> 0, ask |-> 1]}

\* Cash: a contract that takes most of the account, a cheap one.
CashPrices == {[bid |-> 3, ask |-> 4], [bid |-> 1, ask |-> 1]}
=============================================================================
