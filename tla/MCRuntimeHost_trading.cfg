\* Two requests at a time that load one of two strategies, arm, move the mode and
\* trade.
SPECIFICATION HostSpec
CONSTANTS
  Strategies = {s1, s2}
  NoStrategy = NoStrategy
  Clients = {c1, c2}
  Background = {}
  Commands <- TradingCommands
  HealthValues = {TRUE}
  StartupModes = {"Paper"}
  MaxRequests = 6
SYMMETRY Symmetry
INVARIANTS
  OrderHadAuthority
PROPERTIES
  KeepsAuthorityPromise
