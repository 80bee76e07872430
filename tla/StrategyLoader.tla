--------------------------- MODULE StrategyLoader ---------------------------
(***************************************************************************)
(* What StrictStrategyCompiler of crates/strategy_loader accepts: the      *)
(* checks it makes of the sections of a document, once they are read.      *)
(*                                                                         *)
(* A Document has the fields that a check or an engine reads, with the     *)
(* types that the reading guarantees.  An Option is a set of at most one   *)
(* element.  A time of day is its second; a text that is none is a number  *)
(* outside the day.  A condition is what the rule engine makes of it.      *)
(***************************************************************************)
EXTENDS Integers, Sequences

Optional(S) == {{}} \cup {{x} : x \in S}

BrokerPreference == {"broker_required", "broker_preferred", "bot_allowed"}
Protections == {"stop_loss", "take_profit", "trailing_stop"}

Metadata == [schema_version : Nat, strategy_id_friendly : BOOLEAN, texts_given : BOOLEAN]
SessionRules ==
  [timezone_given : BOOLEAN, mode : {"Always", "FixedWindow"},
   trade_window : Optional([start : Int, end : Int]), no_new_entries_after : Optional(Int),
   flatten_rule : Optional([mode : {"None", "SessionEnd", "ByTime"}, time : Optional(Int)]),
   allowed_days : SUBSET Nat]
PositionSizing ==
  [mode : {"fixed", "risk_based"}, contracts : Optional(Nat), max_risk_usd : Optional(Int),
   fallback_fixed_contracts : Optional(Nat), min_contracts : Optional(Nat),
   max_contracts : Optional(Nat)]
ExecutionSpec ==
  [reversal_mode : {"flatten_first", "direct_reverse"}, allow_scale_in : BOOLEAN,
   allow_scale_out : BOOLEAN, max_legs : Nat,
   broker_preferences : [Protections -> BrokerPreference]]
TradeManagement ==
  [initial_stop_ticks : Nat, take_profit_ticks : Nat,
   break_even : Optional([enabled : BOOLEAN, activate_at_ticks : Optional(Nat)]),
   trailing : Optional([enabled : BOOLEAN, activate_at_ticks : Optional(Nat),
                        trail_ticks : Optional(Nat)]),
   partial_take_profit :
     Optional([enabled : BOOLEAN, targets : Seq([at_ticks : Nat, percent : Nat])])]
RiskLimits ==
  [broker_side_required : BOOLEAN, max_trades_per_day : Nat, max_consecutive_losses : Nat,
   max_open_positions : Optional(Nat)]
FailsafeRules ==
  [no_new_entries_on_data_degrade : BOOLEAN, pause_on_broker_sync_mismatch : BOOLEAN,
   pause_on_reconnect_until_reviewed : BOOLEAN]

DataRequirements(Timeframe) ==
  [feeds_given : BOOLEAN, timeframes : Seq(Timeframe), multi_timeframe : BOOLEAN]
WarmupRequirements(Timeframe) ==
  [bars_required : UNION {[S -> Nat] : S \in SUBSET Timeframe}, ready_requires_all : BOOLEAN]
SignalConfirmation(Condition) ==
  [mode : {"All", "Any", "NOfM", "WeightedScore"}, primary_conditions : Seq(Condition),
   secondary_conditions : Seq(Condition), n_required : Optional(Nat),
   score_threshold : Optional(Int \X (Nat \ {0})), regime_filter : Optional(Condition),
   sequence : Seq(Condition)]
EntryRules(Condition) ==
  [long_enabled : BOOLEAN, short_enabled : BOOLEAN,
   entry_order_type : {"market", "limit", "stop", "stop_limit"},
   long_conditions : Seq(Condition), short_conditions : Seq(Condition),
   max_entry_distance_ticks : Optional(Nat), entry_timeout_seconds : Optional(Nat)]
ExitRules(Condition) ==
  [exit_on_opposite_signal : BOOLEAN, flatten_on_session_end : BOOLEAN,
   exit_conditions : Seq(Condition), max_hold_seconds : Optional(Nat)]

\* What parse_section reads, by serde's types.
Documents(Timeframe, Condition) ==
  [metadata : Metadata, market_given : BOOLEAN, session : SessionRules,
   data_requirements : DataRequirements(Timeframe), warmup : WarmupRequirements(Timeframe),
   signal_confirmation : SignalConfirmation(Condition), entry_rules : EntryRules(Condition),
   exit_rules : ExitRules(Condition), position_sizing : PositionSizing,
   execution : ExecutionSpec, trade_management : TradeManagement, risk : RiskLimits,
   failsafes : FailsafeRules]

-----------------------------------------------------------------------------
Given(option) == option # {}
Positive(option) == option # {} /\ 0 \notin option

ValidMetadata(metadata) ==
  metadata.schema_version = 1 /\ metadata.strategy_id_friendly /\ metadata.texts_given

\* validate_time
IsTimeOfDay(time, day_length) == time \in 0..day_length - 1

\* A window or time that the mode does not use is not looked at.
ValidSession(session, day_length) ==
  /\ session.timezone_given
  /\ session.mode = "FixedWindow" =>
       /\ Given(session.trade_window)
       /\ \A window \in session.trade_window :
            IsTimeOfDay(window.start, day_length) /\ IsTimeOfDay(window.end, day_length)
  /\ \A time \in session.no_new_entries_after : IsTimeOfDay(time, day_length)
  /\ \A rule \in session.flatten_rule :
       rule.mode = "ByTime" =>
         Given(rule.time) /\ \A time \in rule.time : IsTimeOfDay(time, day_length)

ValidDataRequirements(data) ==
  /\ data.feeds_given
  /\ data.timeframes # <<>>
  /\ data.multi_timeframe \/ Len(data.timeframes) <= 1
  /\ \A i, j \in 1..Len(data.timeframes) : data.timeframes[i] = data.timeframes[j] => i = j

Declared(data) == {data.timeframes[i] : i \in 1..Len(data.timeframes)}
ValidWarmup(warmup, data) ==
  /\ DOMAIN warmup.bars_required # {}
  /\ \A timeframe \in DOMAIN warmup.bars_required :
       warmup.bars_required[timeframe] # 0 /\ timeframe \in Declared(data)
  /\ warmup.ready_requires_all => Declared(data) \subseteq DOMAIN warmup.bars_required

ValidSignalConfirmation(signal) ==
  /\ signal.primary_conditions # <<>>
  /\ signal.mode = "NOfM" =>
       /\ Positive(signal.n_required)
       /\ \A required \in signal.n_required : required <= Len(signal.primary_conditions)
  /\ signal.mode = "WeightedScore" => Given(signal.score_threshold)

ValidEntryRules(entry) ==
  /\ entry.long_enabled \/ entry.short_enabled
  /\ 0 \notin entry.max_entry_distance_ticks \cup entry.entry_timeout_seconds

ValidExitRules(exit) == 0 \notin exit.max_hold_seconds

\* Bounds of a fixed size are not looked at, nor the sign of max_risk_usd.
ValidPositionSizing(sizing) ==
  /\ sizing.mode = "fixed" => Positive(sizing.contracts)
  /\ sizing.mode = "risk_based" =>
       /\ Given(sizing.max_risk_usd)
       /\ 0 \notin sizing.fallback_fixed_contracts \cup sizing.min_contracts
                     \cup sizing.max_contracts
       /\ \A lo \in sizing.min_contracts, hi \in sizing.max_contracts : lo <= hi

ValidExecution(execution) ==
  /\ execution.max_legs # 0
  /\ execution.allow_scale_in \/ execution.allow_scale_out \/ execution.max_legs <= 1

PercentTotal(targets) ==
  LET total[i \in 0..Len(targets)] == IF i = 0 THEN 0 ELSE total[i - 1] + targets[i].percent
  IN total[Len(targets)]

ValidTradeManagement(management) ==
  /\ management.initial_stop_ticks # 0 /\ management.take_profit_ticks # 0
  /\ \A rule \in management.break_even : rule.enabled => Positive(rule.activate_at_ticks)
  /\ \A rule \in management.trailing :
       rule.enabled => Positive(rule.activate_at_ticks) /\ Positive(rule.trail_ticks)
  /\ \A rule \in management.partial_take_profit :
       rule.enabled =>
         /\ rule.targets # <<>>
         /\ \A i \in 1..Len(rule.targets) :
              rule.targets[i].at_ticks # 0 /\ rule.targets[i].percent # 0
         /\ PercentTotal(rule.targets) <= 100

ValidRisk(risk) ==
  /\ risk.max_trades_per_day # 0 /\ risk.max_consecutive_losses # 0
  /\ 0 \notin risk.max_open_positions

\* StrictStrategyCompiler::compile returns a strategy.
IsCompiled(document, day_length) ==
  /\ ValidMetadata(document.metadata)
  /\ document.market_given
  /\ ValidSession(document.session, day_length)
  /\ ValidDataRequirements(document.data_requirements)
  /\ ValidWarmup(document.warmup, document.data_requirements)
  /\ ValidSignalConfirmation(document.signal_confirmation)
  /\ ValidEntryRules(document.entry_rules)
  /\ ValidExitRules(document.exit_rules)
  /\ ValidPositionSizing(document.position_sizing)
  /\ ValidExecution(document.execution)
  /\ ValidTradeManagement(document.trade_management)
  /\ ValidRisk(document.risk)

-----------------------------------------------------------------------------
(* The strategy as its readers see it.                                     *)

Enabled(rules) == \E rule \in rules : rule.enabled

\* What the risk and execution engines read.  affordable: the contracts that
\* max_risk_usd pays for, -1 when it is not positive.
AsPlanned(document, affordable) ==
  LET preferences == document.execution.broker_preferences
      sizing == document.position_sizing
  IN [reversal |-> document.execution.reversal_mode,
      scale_in |-> document.execution.allow_scale_in, max_legs |-> document.execution.max_legs,
      trailing |-> Enabled(document.trade_management.trailing),
      partial_take_profit |-> Enabled(document.trade_management.partial_take_profit),
      required |-> {feature \in Protections : preferences[feature] = "broker_required"}
                     \cup (IF document.risk.broker_side_required THEN {"daily_loss"} ELSE {}),
      prefers_brackets |-> \E feature \in {"stop_loss", "take_profit"} :
                             preferences[feature] # "bot_allowed",
      order_type |-> document.entry_rules.entry_order_type,
      sizing |-> sizing.mode, affordable |-> affordable, contracts |-> sizing.contracts,
      fallback |-> sizing.fallback_fixed_contracts, min_contracts |-> sizing.min_contracts,
      max_contracts |-> sizing.max_contracts]

\* StrategyRuntimeCompiler::compile parses every time there is, those too that the loader
\* has not looked at.
TimesParse(session, day_length) ==
  /\ \A window \in session.trade_window :
       IsTimeOfDay(window.start, day_length) /\ IsTimeOfDay(window.end, day_length)
  /\ \A time \in session.no_new_entries_after : IsTimeOfDay(time, day_length)
  /\ \A rule \in session.flatten_rule : \A time \in rule.time : IsTimeOfDay(time, day_length)

\* What the strategy runtime reads; of an absent Option, the value that is not used.
OrElse(option, default) == IF option = {} THEN default ELSE CHOOSE x \in option : TRUE
AsSequence(option) == IF option = {} THEN <<>> ELSE <<CHOOSE x \in option : TRUE>>

AsEvaluated(document) ==
  LET session == document.session
      signal == document.signal_confirmation
      entry == document.entry_rules
      exit == document.exit_rules
  IN [primary |-> signal.primary_conditions, secondary |-> signal.secondary_conditions,
      sequence |-> signal.sequence, regime_filter |-> AsSequence(signal.regime_filter),
      mode |-> signal.mode, n_required |-> OrElse(signal.n_required, 0),
      score_threshold |-> OrElse(signal.score_threshold, <<0, 1>>),
      sides |-> (IF entry.long_enabled THEN {"Long"} ELSE {})
                  \cup (IF entry.short_enabled THEN {"Short"} ELSE {}),
      entry |-> [side \in {"Long", "Short"} |->
                   IF side = "Long" THEN entry.long_conditions ELSE entry.short_conditions],
      exit |-> exit.exit_conditions,
      exit_on_opposite_signal |-> exit.exit_on_opposite_signal,
      bars_required |-> document.warmup.bars_required,
      ready_requires_all |-> document.warmup.ready_requires_all,
      timeframes |-> Declared(document.data_requirements),
      session_mode |-> session.mode,
      window |-> OrElse(session.trade_window, [start |-> 0, end |-> 0]),
      no_new_entries_after |-> session.no_new_entries_after,
      flatten_at_session_end |-> \/ exit.flatten_on_session_end
                                 \/ \E rule \in session.flatten_rule : rule.mode = "SessionEnd",
      flatten_by_time |-> UNION {rule.time : rule \in {rule \in session.flatten_rule :
                                                        rule.mode = "ByTime"}},
      allowed_days |-> session.allowed_days,
      pause_on_reconnect |-> document.failsafes.pause_on_reconnect_until_reviewed,
      pause_on_mismatch |-> document.failsafes.pause_on_broker_sync_mismatch,
      no_entries_on_degrade |-> document.failsafes.no_new_entries_on_data_degrade]
=============================================================================
