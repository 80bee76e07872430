\* Two clients, every kind of command, appends and calls that fail.
SPECIFICATION CommandSpec
CONSTANTS
  nq = nq
  gc = gc
  Contracts = {nq, gc}
  Traded = nq
  MaxQuantity = 1000000
  PositionsNamed = FALSE
  OrdersNamed = TRUE
  Strategies <- AllStrategies
  Clients = {c1, c2}
  Commands <- AllCommands
  Gates <- AllGates
  Accounts <- AllAccounts
  MaxCommands = 2
  MaxMoves = 1
SYMMETRY Symmetry
INVARIANTS
  AcceptedOrdersAudited
  OutcomeIsTrue
  CommandReachesTarget
