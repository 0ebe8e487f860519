---------------------------- MODULE MCRetestTrial ----------------------------
EXTENDS RetestTrial

OneMin == [ticker |-> "A", mode |-> "ONE_MIN_0DTE"]
Twins  == <<OneMin, [OneMin EXCEPT !.mode = "STRUCTURED_INTRADAY"]>>
Others == <<OneMin, [OneMin EXCEPT !.ticker = "B"]>>
MCSetups == {Twins, Others}
MCCosts == [base |-> 1]
\* Both move together, or the first alone.
MCMoves == {<<"quiet", "quiet">>, <<"retest", "retest">>, <<"stop", "bad">>}
Cheap == [bid |-> 3, ask |-> 3, band |-> TRUE]
\* Above the frozen premium band, and without a bid.
Chase == [Cheap EXCEPT !.band = FALSE]
NoBid == [Cheap EXCEPT !.bid = 0]
MCMarkets == {<<NoQuote, NoQuote>>, <<Cheap, Cheap>>, <<Chase, NoBid>>}
MCFinds == {{}, {2}, Opps}
=============================================================================
