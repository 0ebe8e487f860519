------------------------------ MODULE CashBook ------------------------------
(***************************************************************************)
(* What the cash accounts of this system promise, without scans, clocks or *)
(* quotes: a trade is bought once, then sold and settled once, or stuck    *)
(* for good; one committed batch may move several trades, each by at most  *)
(* one stage; cash moves by exactly the amounts of the moves in the batch; *)
(* only settled cash buys, and the fee to close every bought and unsold    *)
(* trade is always still there.                                            *)
(***************************************************************************)
EXTENDS Totals

CONSTANTS Trades, Funding, CloseFee, Slots

VARIABLES cash, unsettled, stage, cost, proceeds
book == <<cash, unsettled, stage, cost, proceeds>>

Init ==
  /\ cash = Funding /\ unsettled = 0
  /\ stage = [t \in Trades |-> "idle"]
  /\ cost = [t \in Trades |-> 0]
  /\ proceeds = [t \in Trades |-> 0]

Moves == {<<"idle", "held">>, <<"held", "stuck">>, <<"held", "sold">>, <<"sold", "settled">>}

Moved(from, to) == {t \in Trades : stage[t] = from /\ stage'[t] = to}
Exposed(s) == {t \in Trades : s[t] \in {"held", "stuck"}}

Batch ==
  LET bought  == Moved("idle", "held")
      sold    == Moved("held", "sold")
      cleared == Moved("sold", "settled")
  IN
  /\ \A t \in Trades :
       /\ stage'[t] # stage[t] => <<stage[t], stage'[t]>> \in Moves
       /\ cost'[t] # cost[t] => t \in bought
       /\ proceeds'[t] # proceeds[t] => t \in sold
  /\ cash' = cash + Total(proceeds, cleared) - Total(cost', bought)
                  - CloseFee * Cardinality(sold)
  /\ unsettled' = unsettled + Total(proceeds', sold) - Total(proceeds, cleared)
  /\ Total(cost', bought) <= cash + Total(proceeds, cleared)
  /\ cash' >= CloseFee * Cardinality(Exposed(stage'))
  /\ Cardinality(Exposed(stage')) <= Slots

Spec == Init /\ [][Batch]_book
=============================================================================
