------------------------ MODULE MCMarketDataService ------------------------
(***************************************************************************)
(* A strategy with two feeds and bars of two timeframes, for TLC.          *)
(***************************************************************************)
EXTENDS MarketDataService

OneMinute == "1m"
FiveMinute == "5m"
TwoTimeframes == {OneMinute, FiveMinute}
RequiredBars == [t \in TwoTimeframes |-> IF t = OneMinute THEN 2 ELSE 1]
=============================================================================
