-------------------------- MODULE MCExpandedAccount --------------------------
EXTENDS ExpandedAccount

MCExpiry == <<0, 1>>
Cheap == [bid |-> 2, ask |-> 2]
NoBid == [bid |-> 0, ask |-> 2]
MCMarkets == {<<NoQuote, NoQuote>>, <<Cheap, Cheap>>, <<NoBid, NoBid>>}
MCArrivals == [marks : {{}, {2}, {1, 2}}, fits : {TRUE}]
MCEndings == {[marks |-> {}, reason |-> "EXIT", lag |-> 0], [marks |-> {1}, reason |-> "EXIT", lag |-> 0],
              [marks |-> {1, 2}, reason |-> "EXIT", lag |-> 1],
              [marks |-> {2}, reason |-> "DATA_GAP", lag |-> 0]}
=============================================================================
