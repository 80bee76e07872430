-------------------------- MODULE MCBarAggregator --------------------------
(***************************************************************************)
(* Scaled intervals for TLC: a "minute" is two seconds, a "five minutes"   *)
(* three of those, and a day of twelve seconds.                          *)
(***************************************************************************)
EXTENDS BarAggregator

ScaledWidth == [tf \in Timeframes |-> CASE tf = "1s" -> 1 [] tf = "1m" -> 2 [] tf = "5m" -> 6]

FewBars == [tf \in {"1s", "1m"} |-> IF tf = "1s" THEN 4 ELSE 6]

Strategy(timeframes, required) ==
  [timeframes |-> timeframes, multi_timeframe |-> Cardinality(timeframes) > 1,
   bars_required |-> required]

\* Strategies that aggregate: from minutes, and from seconds to both; one warms up
\* on minutes alone.
Aggregating ==
  {Strategy({"1m", "5m"}, [tf \in {"1m", "5m"} |-> 2]),
   Strategy({"1m", "5m"}, [tf \in {"1m"} |-> 1]),
   Strategy({"1s", "5m"}, [tf \in {"1s", "5m"} |-> 1]),
   Strategy(Timeframes, [tf \in Timeframes |-> 2])}

\* The strategy of the test five_minute_only_strategy_uses_one_minute_provider_feed.
FiveMinuteOnly == {Strategy({"5m"}, [tf \in {"5m"} |-> 1])}
=============================================================================
