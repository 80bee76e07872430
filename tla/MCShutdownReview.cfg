\* The signal beside a shutdown command, over two contracts, with fairness.
SPECIFICATION FairSpec
CONSTANTS
  Contracts = {nq, gc}
  Operators = {o1}
CHECK_DEADLOCK FALSE
INVARIANTS
  ExitIsApproved
PROPERTIES
  ShutdownsExit
