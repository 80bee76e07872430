\* One operator, every command, with the background refresh.
SPECIFICATION HostFairSpec
CONSTANTS
  Strategies = {s1}
  NoStrategy = NoStrategy
  Clients = {c1}
  Background = {"market_data_refresh_loop"}
  Commands <- AllCommands
  HealthValues = {TRUE, FALSE}
  StartupModes = {"Paper", "Paused"}
  MaxRequests = 4
INVARIANTS
  ArmKeepsItsGrant
PROPERTIES
  WarmupSettles
