SPECIFICATION MCSpec
CONSTANTS
  o1 = o1
  a = a
  b = b
  None = None
  Strategies = {1, 2}
  Orders <- MCOneOrder
  Quantity <- MCTwoLots
  Intended <- MCOneLotIntended
  Described <- MCOneOrder
  Positions <- MCPositions
  Syncs = {a, b}
  PrimaryConfigured = TRUE
  FallbackEnabled = TRUE
  AllowRuntimeFallback = TRUE
  Budgets <- MCBudgets
  Reporters = {a, b}
  Samplers = {a, b}
  RecordBudgets <- MCRecordBudgets
SYMMETRY MCSymmetry
CONSTRAINT MCBound
INVARIANTS
  FilledIsTrue
  OrderKeepsItsRun
  RunSurvivesCrash
  SyncedFillsAreStored
  SerialSyncTracksPosition
  PublishedIsStored
  SummariesFollowStore
  ErrorsAreRemembered
CHECK_DEADLOCK FALSE
