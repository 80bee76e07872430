--------------------------- MODULE ArmReadiness ---------------------------
(***************************************************************************)
(* What an arm is judged by: ReadinessEvaluator of crates/runtime_kernel   *)
(* and readiness_snapshot of operator.rs, which gathers its inputs.        *)
(*                                                                         *)
(* Each dependency is Healthy, a Warning, or Blocking.  The operator is    *)
(* what the runtime knows of itself, the context what it was told of the   *)
(* others when the handler began.                                          *)
(***************************************************************************)
TradingModes == {"Paper", "Live"}
DependencyHealth == {"Healthy", "Warning", "Blocking"}

Operators ==
  [mode : TradingModes \cup {"Observation", "Paused"}, strategy_loaded : BOOLEAN,
   warmup_status : {"NotLoaded", "Loaded", "Warming", "Ready", "Failed"},
   mapping_resolved : BOOLEAN, new_entries_enabled : BOOLEAN]

\* The broker's snapshot and the feed's may be missing; routing is that of the selected
\* account, {} without one; storage and journal are as Persistence judges them.
StatusContexts ==
  [broker_known : BOOLEAN, routing : {{}, {"Paper"}, {"Live"}},
   sync_state : {"Disconnected", "Pending", "Synchronized", "Stale", "Mismatch",
                 "ReviewRequired", "Failed"},
   broker_health : {"Healthy", "Initializing", "Degraded", "Disconnected", "Failed"},
   market_known : BOOLEAN,
   market_health : {"Healthy", "Initializing", "Degraded", "Disconnected", "Failed"},
   storage : DependencyHealth, journal : DependencyHealth]

HealthyIf(condition) == IF condition THEN "Healthy" ELSE "Blocking"

-----------------------------------------------------------------------------
\* market_data_dependency
MarketDataDependency(health) == HealthyIf(health = "Healthy")

\* broker_account_dependency
BrokerAccountDependency(mode, routing) ==
  HealthyIf(routing # {} /\ (mode \in TradingModes => routing = {mode}))

\* broker_sync_dependency: a stale, mismatched or reviewed state blocks whatever the
\* health; of every other state the health decides, also where no arm names the two.
BrokerSyncDependency(sync_state, health) ==
  HealthyIf(sync_state \notin {"Stale", "Mismatch", "ReviewRequired"} /\ health = "Healthy")

\* account_selection_health, market_data_health, broker_sync_health, storage_health and
\* journal_health speak of a strategy that is to trade, and of nothing else.
Trades(operator) == operator.strategy_loaded /\ operator.mode \in TradingModes
Concerning(operator, health) == IF Trades(operator) THEN health ELSE "Healthy"

AccountSelectionHealth(operator, context) ==
  IF context.broker_known THEN BrokerAccountDependency(operator.mode, context.routing)
                          ELSE "Blocking"
MarketDataHealth(context) ==
  IF context.market_known THEN MarketDataDependency(context.market_health) ELSE "Blocking"
BrokerSyncHealth(context) ==
  IF context.broker_known THEN BrokerSyncDependency(context.sync_state, context.broker_health)
                          ELSE "Blocking"

\* The check of symbol_mapping, which would block, is made a warning for a strategy whose
\* instrument is not resolved.
SymbolMapping(operator) ==
  IF operator.strategy_loaded /\ ~operator.mapping_resolved THEN "Warning" ELSE "Healthy"

\* ReadinessEvaluator::evaluate, and what readiness_snapshot adds.
Checks(operator, context) ==
  [mode |-> HealthyIf(operator.mode \in TradingModes),
   strategy_loaded |-> HealthyIf(operator.strategy_loaded),
   warmup |-> HealthyIf(operator.warmup_status = "Ready"),
   account_selected |-> Concerning(operator, AccountSelectionHealth(operator, context)),
   symbol_mapping |-> SymbolMapping(operator),
   market_data |-> Concerning(operator, MarketDataHealth(context)),
   broker_sync |-> Concerning(operator, BrokerSyncHealth(context)),
   storage |-> Concerning(operator, context.storage),
   journal |-> Concerning(operator, context.journal),
   risk_summary |-> HealthyIf(operator.strategy_loaded),
   operator_entry_gate |-> IF operator.new_entries_enabled THEN "Healthy" ELSE "Warning"]

\* The warnings an arm must override.
HardOverrideReasons(operator, context) ==
  {name \in {"symbol_mapping", "storage", "journal"} :
     Checks(operator, context)[name] = "Warning"}

\* The report as RuntimeStateMachine::arm reads it.
ReadinessReport(operator, context) ==
  [mode |-> operator.mode,
   blocking |-> \E name \in DOMAIN Checks(operator, context) :
                  Checks(operator, context)[name] = "Blocking",
   override_required |-> HardOverrideReasons(operator, context) # {}]
=============================================================================
