\* A manual entry while only the other contract has a position.
SPECIFICATION CommandSpec
CONSTANTS
  nq = nq
  gc = gc
  Contracts = {nq, gc}
  Traded = nq
  MaxQuantity = 1000000
  PositionsNamed = FALSE
  OrdersNamed = TRUE
  Strategies <- OneStrategy
  Clients = {c1}
  Commands <- ManualEntries
  Gates <- OpenGates
  Accounts <- OtherOpen
  MaxCommands = 1
  MaxMoves = 0
INVARIANTS
  ManualEntryInLoadedContract
