\* Two streams of a few source bars each, with gaps; the market closes.
SPECIFICATION Spec
CONSTANTS
  Strategies <- Aggregating
  Width <- ScaledWidth
  ChartWindow = 6
  MinReplay = 4
  Configured = 9
  Limits = {1, 2}
  LastTime = 12
  MaxStreams = 2
  MaxBars <- FewBars
CHECK_DEADLOCK FALSE
INVARIANTS
  EachBarInOnePlace
  BarsGroupByWindow
  RestartMixesOneBar
  OutOfOrderOnlyAcrossGap
  ChartReadsOn
