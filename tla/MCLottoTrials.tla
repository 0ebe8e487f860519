---------------------------- MODULE MCLottoTrials ----------------------------
EXTENDS LottoTrials

MCSymbol == <<"A", "B">>
\* No bid, the price at entry, a price that arms the trail and hits the target.
Dead == [bid |-> 0, ask |-> 1]
Base == [bid |-> 1, ask |-> 1]
High == [bid |-> 10, ask |-> 10]
MCMarkets == {<<NoQuote, NoQuote>>, <<Dead, Dead>>, <<Base, Base>>, <<High, High>>}
Pair  == [rules |-> Rules, slots |-> 1, multi |-> FALSE, dailyCap |-> 4, premiumCap |-> 4,
          cash |-> 7]
Multi == [rules |-> {"trail40"}, slots |-> 2, multi |-> TRUE, dailyCap |-> None,
          premiumCap |-> 1, cash |-> 8]
\* The cash pays a second entry only out of the fee reserved for closing the first.
Short == [Multi EXCEPT !.rules = {"fixed5"}, !.cash = 7]
MCPolicies == {Pair, Multi, Short}
=============================================================================
