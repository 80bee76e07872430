-------------------------- MODULE RuleConditions --------------------------
(***************************************************************************)
(* The conditions of crates/rule_engine: what they are once parsed, how    *)
(* many bars each says it requires, which is what a strategy is compiled   *)
(* against, and what each then asks of the bars it is evaluated on through *)
(* crates/indicators.  Prices are left out: which conditions hold is given *)
(* with the bars, whether a condition can be evaluated is not.             *)
(*                                                                         *)
(* Periods are of type usize, with no bound but that type's, and declared  *)
(* bars of type u32.                                                       *)
(***************************************************************************)
EXTENDS Integers

CONSTANTS
  Timeframes,
  MaxU32,    \* u32::MAX
  MaxUsize   \* usize::MAX

ASSUME WidthsAssumption == MaxU32 \in Nat /\ MaxUsize \in Nat /\ MaxU32 <= MaxUsize

TrendKinds == {"TrendFilter", "TrendUp", "TrendDown", "FailStructure", "RegimeInvalid"}
BreakoutKinds == {"BreakoutUp", "BreakoutDown"}
CloseKinds == {"CloseAboveSma", "CloseBelowSma"}
CrossKinds == {"SmaCrossUp", "SmaCrossDown"}
ConditionKinds == TrendKinds \cup BreakoutKinds \cup CloseKinds \cup CrossKinds
                    \cup {"Rejection", "VolumeGate", "PullbackDone"}

\* Those whose answer depends on the side that asks.
SidedKinds == {"TrendFilter", "FailStructure", "RegimeInvalid", "Rejection", "PullbackDone"}
TwoPeriodKinds == TrendKinds \cup CrossKinds \cup {"PullbackDone"}

\* period is slow_period, lookback or period; fast is there with two periods only.
Conditions ==
  [kind : ConditionKinds, timeframe : Timeframes, fast : 0..MaxUsize, period : 0..MaxUsize]

\* What parsing asks; it takes a period of zero.
Parses(c) == c.kind \in TwoPeriodKinds => c.fast < c.period
Periods(c) == IF c.kind \in TwoPeriodKinds THEN {c.fast, c.period} ELSE {c.period}
PositivePeriods(c) == c.kind = "Rejection" \/ 0 \notin Periods(c)

Longer(m, n) == IF m >= n THEN m ELSE n

\* Mutant of BarsNeeded: the bar that is compared with the others is forgotten.
BarsNeededBefore(c) ==
  IF c.kind = "Rejection" THEN 1
  ELSE IF c.kind = "PullbackDone" THEN Longer(c.fast, c.period)
  ELSE c.period

\* What required_bars stands for, in numbers of any size.
BarsNeeded(c) ==
  IF c.kind = "Rejection" THEN 1
  ELSE IF c.kind = "PullbackDone" THEN Longer(c.fast, c.period)
  ELSE IF c.kind \in TrendKinds \cup CloseKinds THEN c.period
  ELSE c.period + 1

\* ConditionExpression::required_bars: its + 1 wraps.  A build that checks its
\* arithmetic panics there instead, and so compiles no such strategy.
RequiredBars(c) == BarsNeeded(c) % (MaxUsize + 1)

-----------------------------------------------------------------------------
\* The bars of one timeframe in a snapshot.  mixed: their own timeframes differ.
Series == {bars \in [length : Nat, mixed : BOOLEAN] : bars.mixed => bars.length > 1}

FirstBars(bars, n) == [bars EXCEPT !.length = n]
\* All but the last.  Kept mixed: whoever asks for them asks for all of them too.
BarsBefore(bars) == FirstBars(bars, bars.length - 1)

\* validate_series: what every indicator asks of its bars.
ValidSeries(bars, bars_needed) ==
  /\ bars_needed > 0
  /\ bars.length > 0 /\ bars.length >= bars_needed
  /\ ~bars.mixed

LatestBar(bars) == ValidSeries(bars, 1)
SimpleMovingAverage(bars, period) == ValidSeries(bars, period)
\* Seeded with the average of the first bars.
ExponentialMovingAverage(bars, period) ==
  ValidSeries(bars, period) /\ SimpleMovingAverage(FirstBars(bars, period), period)
\* highest_high, lowest_low and average_volume
Extreme(bars, lookback) == ValidSeries(bars, lookback)

\* Two averages over all bars.
TrendEvaluates(c, bars) ==
  SimpleMovingAverage(bars, c.fast) /\ SimpleMovingAverage(bars, c.period) /\ LatestBar(bars)
StructureEvaluates(c, bars) == TrendEvaluates(c, bars)
PullbackEvaluates(c, bars) ==
  ExponentialMovingAverage(bars, c.fast) /\ SimpleMovingAverage(bars, c.period) /\ LatestBar(bars)
CloseEvaluates(c, bars) == SimpleMovingAverage(bars, c.period) /\ LatestBar(bars)
\* The last bar against those before it.
BreakoutEvaluates(c, bars) ==
  bars.length > c.period /\ Extreme(BarsBefore(bars), c.period) /\ LatestBar(bars)
VolumeGateEvaluates(c, bars) == BreakoutEvaluates(c, bars)
\* The two averages with the last bar and without it.
CrossEvaluates(c, bars) ==
  /\ bars.length > c.period
  /\ \A period \in {c.fast, c.period}, series \in {BarsBefore(bars), bars} :
       SimpleMovingAverage(series, period)

\* bars_for, and the evaluation of each kind.
Evaluates(c, bars) ==
  /\ bars.length > 0
  /\ c.kind \in {"FailStructure", "RegimeInvalid"} => StructureEvaluates(c, bars)
  /\ c.kind \in {"TrendFilter", "TrendUp", "TrendDown"} => TrendEvaluates(c, bars)
  /\ c.kind = "PullbackDone" => PullbackEvaluates(c, bars)
  /\ c.kind \in CloseKinds => CloseEvaluates(c, bars)
  /\ c.kind \in BreakoutKinds => BreakoutEvaluates(c, bars)
  /\ c.kind = "VolumeGate" => VolumeGateEvaluates(c, bars)
  /\ c.kind \in CrossKinds => CrossEvaluates(c, bars)
  /\ c.kind = "Rejection" => LatestBar(bars)

-----------------------------------------------------------------------------
Sides(c) == IF c.kind \in SidedKinds THEN {"Long", "Short"} ELSE {"Both"}

\* A condition and the side for which it holds.
Truths(conditions) == UNION {{<<c, side>> : side \in Sides(c)} : c \in conditions}

\* No bars make both of these hold, for the same timeframe and periods.
OpposedKinds ==
  {{"TrendUp", "TrendDown"}, {"BreakoutUp", "BreakoutDown"},
   {"CloseAboveSma", "CloseBelowSma"}, {"SmaCrossUp", "SmaCrossDown"}}
OpposedSides == {"TrendFilter", "PullbackDone"}

Consistent(holds) ==
  \A t, u \in holds :
    LET c == t[1]
        d == u[1]
    IN [c EXCEPT !.kind = d.kind] = d =>
         /\ {c.kind, d.kind} \notin OpposedKinds
         /\ c = d /\ c.kind \in OpposedSides => t = u
=============================================================================
