\* The strategy whose only timeframe is five minutes.
SPECIFICATION Spec
CONSTANTS
  Strategies <- FiveMinuteOnly
  Width <- ScaledWidth
  ChartWindow = 6
  MinReplay = 4
  Configured = 9
  Limits = {1, 2}
  LastTime = 12
  MaxStreams = 2
  MaxBars <- FewBars
CHECK_DEADLOCK FALSE
INVARIANTS
  BarsReachEveryTimeframe
