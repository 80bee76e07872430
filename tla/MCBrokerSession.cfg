\* One position, the live transport and the optional events.
SPECIFICATION Spec
CONSTANTS
  Items = {position}
  Balance = Balance
  TransportEvents = {"Mismatch", "Reconnected"}
  MaxProps = 2
  MaxReconnects = 1
INVARIANTS
  SessionIsConsistent
  HealthyStatusIsTrue
PROPERTIES
  ReportedLossIsReviewed
