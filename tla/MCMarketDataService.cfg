\* Two feeds, two timeframes, a refresh of at most three polls.
SPECIFICATION FairSpec
CONSTANTS
  Feeds = {trades, ohlcv_1m}
  BarFeed = ohlcv_1m
  Timeframes <- TwoTimeframes
  SourceTimeframe <- OneMinute
  Required <- RequiredBars
  PollBudget = 3
INVARIANTS
  TradeReadyIsCaughtUp
PROPERTIES
  KeepsServicePromise
  LostStreamIsReported
