CONSTANTS
  StartupModes = {"Paper"}
  Timeframes = {"1m", "5m"}
  Contracts <- MCContracts
  DefaultTimeframe <- MCDefaultTimeframe
  Scenarios <- MCScenarios
  MaxReads = 2
  None = None
  TwoFrames = TwoFrames
  FiveMinutes = FiveMinutes
  Unresolved = Unresolved
  ChartContracts = {TwoFrames, FiveMinutes, Unresolved}
  Resolved = {TwoFrames, FiveMinutes}
  ChartTimeframes = {"1m", "5m"}
  Supported <- MCSupported
  Preferred <- MCPreferred
  Pages = {1, 2}
  ChartBudgets <- MCChartBudgets
  Absent = Absent
  Texts = {"compiles", "fails"}
  Compiling = {"compiles"}
  Suffixes = 2
  Readings = {1, 2}
  LibraryBudgets <- MCLibraryBudgets
  Nowhere = Nowhere
  StartupChoices = {"paper", "live"}
  Entries = {"main", "blank"}
  Trimmed <- MCTrimmed
  Binds = {"default", "other"}
  DefaultBind = "default"
  Environments <- MCEnvironments
  ConfigFiles <- MCConfigFiles
  Panels = {1, 2}
  SettingsBudgets <- MCSettingsBudgets
  Unset = Unset
SPECIFICATION MCSpec
PROPERTY AskedBefore
PROPERTY ClientsCatchUp
PROPERTY ChartAgreesAgain
PROPERTY ChartSettles
INVARIANT UploadsAreKept
PROPERTY ValidationIsOfChoice
INVARIANT SavedSettingsSurviveRestart
PROPERTY DraftsSettle
