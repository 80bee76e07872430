------------------------- MODULE MCStrategyRuntime -------------------------
(***************************************************************************)
(* Strategies for TLC, in days of four hours: one per combination mode,    *)
(* window, exit and readiness rule.                                        *)
(***************************************************************************)
EXTENDS StrategyRuntime, StrategyLoader, InstrumentResolver, SequencesExt

TwoTimeframes == {"1m", "5m"}

Condition(kind, tf, fast, period) ==
  [kind |-> kind, timeframe |-> tf, fast |-> fast, period |-> period]
Pullback == Condition("PullbackDone", "1m", 1, 2)
Rejection == Condition("Rejection", "5m", 0, 0)

Window(start, end) == [start |-> start, end |-> end]

\* A day session with a cutoff, one condition a side and one to exit.
DaySession ==
  [sides |-> Side, mode |-> "All", n_required |-> 0, score_threshold |-> <<1, 1>>,
   regime_filter |-> <<>>, sequence |-> <<>>, primary |-> <<Pullback>>, secondary |-> <<>>,
   entry |-> [side \in Side |-> <<>>], exit |-> <<Rejection>>,
   timeframes |-> TwoTimeframes, bars_required |-> [tf \in TwoTimeframes |->
                                                     IF tf = "1m" THEN 2 ELSE 1],
   ready_requires_all |-> TRUE,
   session_mode |-> "FixedWindow", window |-> Window(1, 3), no_new_entries_after |-> {2},
   flatten_at_session_end |-> TRUE, flatten_by_time |-> {}, allowed_days |-> {},
   exit_on_opposite_signal |-> FALSE,
   pause_on_reconnect |-> TRUE, pause_on_mismatch |-> FALSE, no_entries_on_degrade |-> TRUE]

Overnight ==
  [DaySession EXCEPT !.mode = "WeightedScore", !.score_threshold = <<1, 2>>,
                     !.secondary = <<Rejection>>,
                     !.exit = <<>>, !.exit_on_opposite_signal = TRUE,
                     !.window = Window(3, 1), !.no_new_entries_after = {},
                     !.pause_on_mismatch = TRUE, !.no_entries_on_degrade = FALSE]

\* Every hour is in the session, on the first day only, for one side.
OneDay == [DaySession EXCEPT !.sides = {"Short"}, !.mode = "Any", !.sequence = <<Rejection>>,
                             !.exit = <<Condition("RegimeInvalid", "1m", 1, 2)>>,
                             !.window = Window(2, 2), !.no_new_entries_after = {},
                             !.allowed_days = {0}]

AllHours ==
  [DaySession EXCEPT !.mode = "NOfM", !.n_required = 1, !.primary = <<Pullback, Rejection>>,
                     !.regime_filter = <<Rejection>>, !.entry = [side \in Side |->
                        IF side = "Long" THEN <<Pullback>> ELSE <<>>],
                     !.session_mode = "Always", !.flatten_by_time = {2},
                     !.ready_requires_all = FALSE]

\* Conditions that compare the last bar with those before it, and need one more.
Crossing ==
  [OneDay EXCEPT !.sides = Side, !.primary = <<Condition("SmaCrossUp", "1m", 1, 2)>>,
                 !.sequence = <<Condition("VolumeGate", "1m", 0, 2)>>,
                 !.exit = <<Condition("FailStructure", "1m", 1, 3)>>,
                 !.bars_required = [tf \in {"1m"} |-> 3]]

Breaking ==
  [OneDay EXCEPT !.sides = Side, !.primary = <<Condition("CloseAboveSma", "5m", 0, 1),
                                               Condition("CloseBelowSma", "5m", 0, 1)>>,
                 !.sequence = <<>>, !.regime_filter = <<Condition("TrendFilter", "1m", 1, 2)>>,
                 !.entry = [side \in Side |->
                   <<Condition(IF side = "Long" THEN "BreakoutUp" ELSE "BreakoutDown",
                                "1m", 0, 1)>>],
                 !.exit = <<>>]

\* Two that do not compile, and two that should not.
TooFewBars == [DaySession EXCEPT !.primary = <<Condition("VolumeGate", "1m", 0, 2)>>]
FastIsSlow == [DaySession EXCEPT !.primary = <<Condition("TrendUp", "1m", 2, 2)>>]
ZeroPeriod == [DaySession EXCEPT !.sides = {"Long"},
                                 !.primary = <<Condition("TrendDown", "1m", 0, 2)>>]
ZeroLookback == [ZeroPeriod EXCEPT !.primary = <<Condition("BreakoutUp", "1m", 0, 0)>>]

\* Two more: a period of which a u32 keeps one bar, and a lookback whose next number is
\* zero.
LongPeriod == [ZeroPeriod EXCEPT !.primary =
                 <<Condition("CloseAboveSma", "1m", 0, MaxU32 + 2)>>]
LongLookback == [ZeroPeriod EXCEPT !.primary = <<Condition("BreakoutDown", "1m", 0, MaxUsize)>>]

AllStrategies == {DaySession, Overnight, OneDay, AllHours, Crossing, Breaking,
                  TooFewBars, FastIsSlow, ZeroPeriod, ZeroLookback, LongPeriod, LongLookback}

Bars(length) == [length |-> length, mixed |-> FALSE]
MixedBars(length) == [length |-> length, mixed |-> TRUE]
Snapshot(minutes, fives) == [tf \in TwoTimeframes |-> IF tf = "1m" THEN minutes ELSE fives]
SomeSeries == {Snapshot(Bars(0), Bars(0)), Snapshot(Bars(1), Bars(1)), Snapshot(Bars(2), Bars(1)),
               Snapshot(Bars(3), Bars(0)), Snapshot(MixedBars(3), Bars(1))}

\* The front month is the one the scan of select_front_month ends at, for the built-in
\* chains over two years and for every small chain with and without dates.
Scanned(chain, as_of) ==
  LET ListingOf(order) == CHOOSE listing \in chain : Order(listing.month) = order
      january == Order([year |-> 2025, month |-> 1])
      ordered == SelectSeq([i \in 1..36 |-> january + i - 1],
                           LAMBDA order : \E listing \in chain : Order(listing.month) = order)
      Stops(order) == IsActive(ListingOf(order), as_of)
  IN ListingOf(ordered[SelectInSeq(ordered, Stops)])

SomeDates == {Date(year, month, day) : year \in {2025, 2026}, month \in 1..12,
                                       day \in {1, 15, 20, 26, 28, 31}}
SomeListings ==
  [month : [year : {2025, 2026}, month : {1, 12}], first_notice_date : {{}, {Date(2025, 11, 28)}},
   last_trade_date : {{}, {Date(2025, 12, 15)}}]
SomeChains ==
  {BuiltinChain(market, 2025) : market \in SupportedMarkets} \cup
    {chain \in {{a, b} : a, b \in SomeListings} : ValidChain(chain)}

ASSUME FrontMonthIsScanned ==
  \A chain \in SomeChains : \A as_of \in SomeDates :
    Active(chain, as_of) # {} => FrontMonth(chain, as_of) = Scanned(chain, as_of)

\* The document of DaySession, which compiles; and not with a stop of no ticks, a time
\* that is none, or bars of a timeframe it does not declare.
DayDocument ==
  [metadata |-> [schema_version |-> 1, strategy_id_friendly |-> TRUE, texts_given |-> TRUE],
   market_given |-> TRUE,
   session |-> [timezone_given |-> TRUE, mode |-> "FixedWindow",
                trade_window |-> {Window(1, 3)}, no_new_entries_after |-> {2},
                flatten_rule |-> {[mode |-> "SessionEnd", time |-> {}]}, allowed_days |-> {}],
   data_requirements |-> [feeds_given |-> TRUE, timeframes |-> <<"1m", "5m">>,
                          multi_timeframe |-> TRUE],
   warmup |-> [bars_required |-> DaySession.bars_required, ready_requires_all |-> TRUE],
   signal_confirmation |-> [mode |-> "All", primary_conditions |-> <<Pullback>>,
                            secondary_conditions |-> <<>>, n_required |-> {},
                            score_threshold |-> {<<1, 1>>}, regime_filter |-> {},
                            sequence |-> <<>>],
   entry_rules |-> [long_enabled |-> TRUE, short_enabled |-> TRUE,
                    entry_order_type |-> "market", long_conditions |-> <<>>,
                    short_conditions |-> <<>>, max_entry_distance_ticks |-> {},
                    entry_timeout_seconds |-> {30}],
   exit_rules |-> [exit_on_opposite_signal |-> FALSE, flatten_on_session_end |-> FALSE,
                   exit_conditions |-> <<Rejection>>, max_hold_seconds |-> {}],
   position_sizing |-> [mode |-> "risk_based", contracts |-> {}, max_risk_usd |-> {100},
                        fallback_fixed_contracts |-> {1}, min_contracts |-> {1},
                        max_contracts |-> {2}],
   execution |-> [reversal_mode |-> "flatten_first", allow_scale_in |-> FALSE,
                  allow_scale_out |-> FALSE, max_legs |-> 1,
                  broker_preferences |-> [feature \in Protections |-> "broker_required"]],
   trade_management |-> [initial_stop_ticks |-> 8, take_profit_ticks |-> 16, break_even |-> {},
                         trailing |-> {}, partial_take_profit |->
                           {[enabled |-> TRUE, targets |-> <<[at_ticks |-> 8, percent |-> 60],
                                                             [at_ticks |-> 12, percent |-> 40]>>]}],
   risk |-> [broker_side_required |-> FALSE, max_trades_per_day |-> 3,
             max_consecutive_losses |-> 2, max_open_positions |-> {1}],
   failsafes |-> [no_new_entries_on_data_degrade |-> TRUE, pause_on_broker_sync_mismatch |-> FALSE,
                  pause_on_reconnect_until_reviewed |-> TRUE]]

ASSUME DocumentCompiles ==
  /\ IsCompiled(DayDocument, DayLength)
  /\ TimesParse(DayDocument.session, DayLength)
  /\ AsEvaluated(DayDocument) = DaySession
  /\ \A document \in {[DayDocument EXCEPT !.trade_management.initial_stop_ticks = 0],
                      [DayDocument EXCEPT !.session.no_new_entries_after = {DayLength}],
                      [DayDocument EXCEPT !.data_requirements.timeframes = <<"1m">>]} :
       ~IsCompiled(document, DayLength)
=============================================================================
