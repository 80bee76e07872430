-------------------------- MODULE StrategyRuntime --------------------------
(***************************************************************************)
(* One compiled strategy over its evaluations: StrategyRuntimeCompiler and *)
(* StrategyRuntimeEngine of crates/strategy_runtime, and the rule engine's *)
(* signal plans.  The host of this commit does not call the engine yet, so *)
(* its inputs are what StrategyMarketSnapshot can say.                     *)
(*                                                                         *)
(* Which conditions hold is given with the bars, how many there are        *)
(* decides what can be evaluated.  A Result is a set that is empty for an  *)
(* error.  Time is the strategy's local time; sizes, texts and             *)
(* last_signal_direction, which nothing reads, are left out.               *)
(***************************************************************************)
EXTENDS RuleConditions, Sequences, FiniteSets

CONSTANTS
  Strategies,   \* what is compiled: see IsStrategy
  BarSeries,    \* what the buffers of the timeframes may hold
  DayLength,    \* local_time is in 0..DayLength-1
  LastTime      \* bound: the end of the last day

Side == {"Long", "Short"}
Opposite(side) == IF side = "Long" THEN "Short" ELSE "Long"

\* validate_signal_confirmation
ValidSignal(s) ==
  /\ s.primary # <<>>
  /\ s.mode \in {"All", "Any", "NOfM", "WeightedScore"}
  /\ s.mode = "NOfM" => s.n_required \in 1..Len(s.primary)
  /\ s.mode = "WeightedScore" => s.score_threshold \in Int \X (Nat \ {0})

\* validate_entry_rules
ValidEntry(s) == s.sides \in (SUBSET Side) \ {{}}

IsTime(time) == time \in 0..DayLength - 1

\* What the strategy loader's validation leaves open.
IsStrategy(s) ==
  /\ ValidSignal(s)
  /\ ValidEntry(s)
  /\ \A conditions \in {s.regime_filter, s.sequence, s.primary, s.secondary,
                        s.entry["Long"], s.entry["Short"], s.exit} :
       conditions \in Seq(Conditions)
  /\ Len(s.regime_filter) <= 1
  /\ DOMAIN s.bars_required \in (SUBSET s.timeframes) \ {{}}
  /\ \A tf \in DOMAIN s.bars_required : s.bars_required[tf] \in Nat
  /\ s.timeframes \in SUBSET Timeframes
  /\ s.session_mode \in {"Always", "FixedWindow"}
  /\ IsTime(s.window.start) /\ IsTime(s.window.end)
  /\ \A time \in s.no_new_entries_after \cup s.flatten_by_time : IsTime(time)
  /\ {s.ready_requires_all, s.flatten_at_session_end, s.exit_on_opposite_signal,
      s.pause_on_reconnect, s.pause_on_mismatch, s.no_entries_on_degrade} \subseteq BOOLEAN

ASSUME StrategiesAssumption == \A s \in Strategies : IsStrategy(s)
ASSUME BarSeriesAssumption == BarSeries \subseteq [Timeframes -> Series]
ASSUME TimesAssumption == DayLength \in Nat \ {0} /\ LastTime \in Nat

VARIABLES
  strategy,
  active,       \* {long,short}_signal_active
  exit_active,  \* {long,short}_exit_active
  now,
  position,     \* of the last snapshot
  intent,       \* of an evaluation at this time
  outcome,      \* how far it came
  asked         \* history: entries, and explicit exits, asked for by one signal

vars == <<strategy, active, exit_active, now, position, intent, outcome, asked>>

Positions == {"None", "Zero"} \cup Side
NoIntent == <<"NoIntent">>
Intents ==
  {NoIntent, <<"PauseStrategy">>, <<"Flatten">>, <<"Exit", "conditions">>, <<"Exit", "opposite">>}
    \cup ({"Enter"} \X Side)

-----------------------------------------------------------------------------
\* StrategyRuntimeCompiler::compile
ConditionsOf(s) ==
  LET Of(conditions) == {conditions[i] : i \in 1..Len(conditions)}
  IN UNION {Of(c) : c \in {s.regime_filter, s.sequence, s.primary, s.secondary,
                           s.entry["Long"], s.entry["Short"], s.exit}}

\* Mutant of RequirementsMet: a condition may look back by one bar more.
RequirementsNearlyMet(s, c) ==
  /\ c.timeframe \in s.timeframes
  /\ c.timeframe \in DOMAIN s.bars_required /\ s.bars_required[c.timeframe] >= RequiredBars(c) - 1

\* What `as u32` makes of a usize.
AsU32(n) == n % (MaxU32 + 1)

\* validate_condition_requirements.  What is required is cut to the type of what is
\* declared: of 2^32 + 1 bars it asks for one.
RequirementsMet(s, c) ==
  /\ c.timeframe \in s.timeframes
  /\ LET declared == IF c.timeframe \in DOMAIN s.bars_required
                     THEN s.bars_required[c.timeframe] ELSE 0
     IN declared >= AsU32(RequiredBars(c))

Compiles(s) == \A c \in ConditionsOf(s) : Parses(c) /\ RequirementsMet(s, c)

\* warmup_buffers_ready
BuffersReady(bars) ==
  LET ready == {tf \in DOMAIN strategy.bars_required :
                  bars[tf].length >= strategy.bars_required[tf]}
  IN IF strategy.ready_requires_all THEN ready = DOMAIN strategy.bars_required ELSE ready # {}

-----------------------------------------------------------------------------
\* evaluate_condition
Holds(c, side, bars, holds) ==
  IF Evaluates(c, bars[c.timeframe])
  THEN {(<<c, IF c.kind \in SidedKinds THEN side ELSE "Both">> \in holds)} ELSE {}

\* evaluate_signal_plan.  The score is the number of conditions that hold: both
\* sides have the same number to divide it by.
EvaluatePlan(plan, side, bars, holds) ==
  LET Result(c) == Holds(c, side, bars, holds)
      gates == plan.regime_filter \o plan.sequence
      stops == {i \in 1..Len(gates) : Result(gates[i]) # {TRUE}}
      first == {i \in stops : \A j \in stops : i <= j}
      scored == IF plan.mode = "WeightedScore" THEN plan.primary \o plan.secondary ELSE plan.primary
      total == Len(scored)
      passed == Cardinality({i \in 1..total : Result(scored[i]) = {TRUE}})
      matched == \/ plan.mode = "All" /\ total > 0 /\ passed = total
                 \/ plan.mode = "Any" /\ passed > 0
                 \/ plan.mode = "NOfM" /\ plan.n_required > 0 /\ passed >= plan.n_required
                 \/ /\ plan.mode = "WeightedScore" /\ total > 0
                    /\ passed * plan.score_threshold[2] >= plan.score_threshold[1] * total
  IN IF stops # {}
     THEN IF \E i \in first : Result(gates[i]) = {} THEN {} ELSE {[matched |-> FALSE, score |-> 0]}
     ELSE IF \E i \in 1..total : Result(scored[i]) = {} THEN {}
     ELSE {[matched |-> matched, score |-> passed]}

\* evaluate_all_conditions: no condition matches.
AllHold(conditions, side, bars, holds) ==
  LET results == {Holds(conditions[i], side, bars, holds) : i \in 1..Len(conditions)}
  IN IF {} \in results THEN {} ELSE {results \subseteq {{TRUE}}}

\* Mutant of SideSignal: entry conditions enable a side.
SideSignalEitherSide(side, bars, holds) ==
  UNION {{[active |-> signal.matched /\ entry, score |-> signal.score] :
            entry \in AllHold(strategy.entry[side], side, bars, holds)}
         : signal \in EvaluatePlan(strategy, side, bars, holds)}

\* evaluate_side_signal
SideSignal(side, bars, holds) ==
  IF side \notin strategy.sides THEN {[active |-> FALSE, score |-> 0]}
  ELSE UNION {IF ~signal.matched THEN {[active |-> FALSE, score |-> signal.score]}
              ELSE {[active |-> entry, score |-> signal.score] :
                      entry \in AllHold(strategy.entry[side], side, bars, holds)}
              : signal \in EvaluatePlan(strategy, side, bars, holds)}

\* choose_signal_direction: the sides whose score is highest, if there is one.
Direction(signals) ==
  LET on == {side \in Side : signals[side].active}
  IN {side \in on : \A other \in on \ {side} : signals[side].score > signals[other].score}

-----------------------------------------------------------------------------
\* session_state
LocalTime == now % DayLength
Weekday == now \div DayLength

DayAllowed == strategy.allowed_days = {} \/ Weekday \in strategy.allowed_days

WrapsMidnight == strategy.window.start >= strategy.window.end

\* Mutant of WindowContains: the window is closed at its end.
WindowContainsEnd ==
  IF WrapsMidnight THEN LocalTime >= strategy.window.start \/ LocalTime <= strategy.window.end
                   ELSE LocalTime \in strategy.window.start..strategy.window.end

WindowContains ==
  IF WrapsMidnight THEN LocalTime >= strategy.window.start \/ LocalTime < strategy.window.end
                   ELSE LocalTime >= strategy.window.start /\ LocalTime < strategy.window.end

\* Mutant of SessionEndReached: a session ends on the day on which it began.
SessionEndReachedSameDay == LocalTime >= strategy.window.end

SessionEndReached ==
  IF WrapsMidnight THEN LocalTime >= strategy.window.end /\ LocalTime < strategy.window.start
                   ELSE LocalTime >= strategy.window.end

EntriesAllowed(degraded, synchronized) ==
  /\ DayAllowed
  /\ strategy.session_mode = "FixedWindow" => WindowContains
  /\ \A cutoff \in strategy.no_new_entries_after : LocalTime < cutoff
  /\ ~(degraded /\ strategy.no_entries_on_degrade)
  /\ synchronized

\* flatten_at_session_end is exit_rules.flatten_on_session_end or the flatten rule
\* SessionEnd, flatten_by_time the time of the flatten rule ByTime.
FlattenDue(held) ==
  /\ held # "None"
  /\ \/ /\ strategy.flatten_at_session_end
        /\ strategy.session_mode = "FixedWindow"
        /\ SessionEndReached \/ ~DayAllowed
     \/ \E time \in strategy.flatten_by_time : LocalTime >= time
-----------------------------------------------------------------------------
NothingAsked == [entries |-> [side \in Side |-> 0], exits |-> [side \in Side |-> 0]]

Init ==
  /\ strategy \in {s \in Strategies : Compiles(s)}
  /\ active = {}
  /\ exit_active = {}
  /\ now = 0
  /\ position = "None"
  /\ intent = NoIntent
  /\ outcome = "Held"
  /\ asked = NothingAsked

\* reset_state and the early return of an evaluation.
HoldBack(result) ==
  /\ active' = {}
  /\ exit_active' = {}
  /\ intent' = result
  /\ outcome' = "Held"
  /\ asked' = NothingAsked
  /\ position' \in Positions
  /\ UNCHANGED <<strategy, now>>

EvaluateForReview ==
  /\ strategy.pause_on_reconnect
  /\ HoldBack(<<"PauseStrategy">>)

EvaluateOnMismatch ==
  /\ strategy.pause_on_mismatch
  /\ HoldBack(<<"PauseStrategy">>)

EvaluateBeforeWarmup == HoldBack(NoIntent)

\* With degraded data or a broker that is not synchronized.
EvaluateDegradedPosition ==
  /\ HoldBack(NoIntent)
  /\ position' # "None"

\* Mutant of Remembered: only the direction that was chosen is remembered.
RememberedDirection(signals) == Direction(signals)

\* The signals an evaluation leaves behind, entered or not.
Remembered(signals) == {side \in Side : signals[side].active}

\* From the direction chosen to the intent.  An entry against a position, an exit
\* on the opposite signal and a flatten are asked for at every evaluation, the
\* others when their signal appears.
RulesIntent(direction, held, exits, allowed) ==
  IF FlattenDue(held) THEN <<"Flatten">>
  ELSE IF held \in Side /\ exits /\ held \notin exit_active THEN <<"Exit", "conditions">>
  ELSE IF held \in Side /\ strategy.exit_on_opposite_signal /\ Opposite(held) \in direction
  THEN <<"Exit", "opposite">>
  ELSE IF allowed /\ \E side \in direction :
                       IF held \in Side THEN side # held ELSE side \notin active
  THEN <<"Enter", CHOOSE side \in direction : TRUE>>
  ELSE NoIntent

\* History: what was asked of a signal that has not gone away since.
AskedAfter(signals, held, exits, result) ==
  LET Counted(count, goes_on, asks) ==
        IF ~goes_on THEN 0 ELSE IF asks /\ count < 2 THEN count + 1 ELSE count
  IN [entries |-> [side \in Side |->
        Counted(asked.entries[side], signals[side].active,
                result = <<"Enter", side>> /\ held \notin Side)],
      exits |-> [side \in Side |->
        Counted(asked.exits[side], held = side /\ exits, result = <<"Exit", "conditions">>)]]

\* The evaluation proper; an error returns before the state is written.  It is told
\* apart whether the snapshot had bars of another timeframe in a series.
EvaluateRules(bars, holds, held, degraded, synchronized) ==
  /\ BuffersReady(bars)
  /\ held = "None" \/ (~degraded /\ synchronized)
  /\ position' = held
  /\ UNCHANGED <<strategy, now>>
  /\ LET results == [side \in Side |-> SideSignal(side, bars, holds)]
         exits == IF held \in Side THEN AllHold(strategy.exit, held, bars, holds) ELSE {TRUE}
     IN IF results["Long"] = {} \/ results["Short"] = {} \/ exits = {}
        THEN /\ intent' = NoIntent
             /\ outcome' = IF \E tf \in Timeframes : bars[tf].mixed THEN "Mismatched" ELSE "Failed"
             /\ UNCHANGED <<active, exit_active, asked>>
        ELSE \E signals \in {[side \in Side |-> CHOOSE r \in results[side] : TRUE]} :
             LET matched == exits = {TRUE}
                 result == RulesIntent(Direction(signals), held, matched,
                                       EntriesAllowed(degraded, synchronized))
             IN /\ intent' = result
                /\ outcome' = "Evaluated"
                /\ active' = Remembered(signals)
                /\ exit_active' = IF matched THEN {held} \cap Side ELSE {}
                /\ asked' = AskedAfter(signals, held, matched, result)

\* External: the clock.
Tick ==
  /\ now < LastTime
  /\ now' = now + 1
  /\ intent' = NoIntent
  /\ outcome' = "Held"
  /\ UNCHANGED <<strategy, active, exit_active, position, asked>>

Next ==
  \/ EvaluateForReview
  \/ EvaluateOnMismatch
  \/ EvaluateBeforeWarmup
  \/ EvaluateDegradedPosition
  \/ \E bars \in BarSeries, holds \in SUBSET Truths(ConditionsOf(strategy)), held \in Positions,
        degraded, synchronized \in BOOLEAN :
       /\ Consistent(holds)
       /\ EvaluateRules(bars, holds, held, degraded, synchronized)
  \/ Tick

Spec == Init /\ [][Next]_vars

-----------------------------------------------------------------------------
\* The memory has signals of the strategy's own sides, and an exit for the side
\* of the position it was last evaluated with; every variable keeps to its type.
StrategyTypeOK ==
  /\ strategy \in Strategies
  /\ active \subseteq strategy.sides
  /\ exit_active \subseteq Side /\ Cardinality(exit_active) <= 1
  /\ outcome = "Evaluated" => exit_active \subseteq {position}
  /\ now \in 0..LastTime
  /\ position \in Positions
  /\ intent \in Intents
  /\ outcome \in {"Held", "Failed", "Mismatched", "Evaluated"}
  /\ asked \in [entries : [Side -> 0..2], exits : [Side -> 0..2]]

\* A signal that goes on is acted upon once: it is entered once without a
\* position, and its exit conditions close one position once, whatever ties,
\* blocks and errors come in between.  Only a reset lets it act again.
OneIntentPerSignal ==
  /\ StrategyTypeOK
  /\ \A side \in Side : asked.entries[side] <= 1 /\ asked.exits[side] <= 1

\* The sessions of a strategy in absolute time, without the local time.
SessionStarts == {day * DayLength + strategy.window.start : day \in -1..LastTime \div DayLength}
SessionLength ==
  LET length == strategy.window.end - strategy.window.start
  IN IF length > 0 THEN length ELSE length + DayLength
InSession(start) == start <= now /\ now < start + SessionLength

\* Entries are asked for in a session, before the first cutoff in it, on an
\* allowed day.  (A session over midnight with a cutoff does not have this.)
EntryInsideSession ==
  intent[1] = "Enter" =>
    /\ strategy.session_mode = "FixedWindow" =>
         \E start \in SessionStarts :
           /\ InSession(start)
           /\ \A cutoff \in strategy.no_new_entries_after :
                now < start + ((cutoff - strategy.window.start) % DayLength)
    /\ strategy.allowed_days # {} => (now \div DayLength) \in strategy.allowed_days

\* With a position, and nothing that holds the rules back, flattening is asked
\* for exactly from the end of a session to the end of that day or the next
\* session, at every evaluation and before anything else.
FlattensAfterSession ==
  /\ outcome = "Evaluated" /\ position # "None"
  /\ strategy.session_mode = "FixedWindow" /\ strategy.flatten_at_session_end
  /\ strategy.flatten_by_time = {} /\ strategy.allowed_days = {}
  => ( intent = <<"Flatten">> <=>
         /\ ~\E start \in SessionStarts : InSession(start)
         /\ \E start \in SessionStarts :
              LET end == start + SessionLength
              IN end <= now /\ end \div DayLength = now \div DayLength )

\* What is checked when a strategy is compiled is enough when it is evaluated: with
\* all warmup buffers required, and bars of one timeframe in each, no condition ever
\* lacks a bar.  That is so for periods that are not zero and need no more bars than a
\* u32 can count.  Others compile too, and may fail every evaluation: the check takes a
\* period of zero, and of a longer one what is left of it in a u32.
CompiledNeverFails ==
  /\ strategy.ready_requires_all
  /\ \A c \in ConditionsOf(strategy) : PositivePeriods(c) /\ BarsNeeded(c) <= MaxU32
  => outcome # "Failed"
=============================================================================
