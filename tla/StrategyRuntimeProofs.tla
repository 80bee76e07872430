----------------------- MODULE StrategyRuntimeProofs -----------------------
(***************************************************************************)
(* Proofs about StrategyRuntime for any strategies, buffers and sessions.  *)
(* What a condition declares is enough to evaluate it; so every result of  *)
(* a compiled strategy is there, and a signal, once acted upon, is         *)
(* remembered for as long as it goes on.  And about InstrumentResolver: of *)
(* any chain the front month is the first contract that is not rolled      *)
(* over, and the built-in chains have one for every strategy's market.     *)
(***************************************************************************)
EXTENDS StrategyRuntime, StrategyLoader, InstrumentResolver, FiniteSetTheorems,
        SequenceTheorems, WellFoundedInduction, TLAPS

-----------------------------------------------------------------------------
(* Conditions                                                              *)

\* As many bars of one timeframe as a condition needs are enough for whatever its
\* evaluation computes, for all periods but zero.
LEMMA BarsNeededSuffice ==
  ASSUME NEW c \in Conditions, NEW bars \in Series, ~bars.mixed,
         Parses(c), PositivePeriods(c), bars.length >= BarsNeeded(c)
  PROVE  Evaluates(c, bars)
<1>1. /\ c.kind \in ConditionKinds
      /\ c.kind \in TwoPeriodKinds => c.fast \in Nat /\ c.fast < c.period
      /\ c.period \in Nat /\ c.fast \in Nat
  BY WidthsAssumption DEF Conditions, Parses
<1>2. PICK n \in Nat : bars.length = n
  BY DEF Series
<1>3. \A k \in Nat : 0 < k /\ n >= k =>
        /\ ValidSeries(bars, k)
        /\ SimpleMovingAverage(bars, k) /\ ExponentialMovingAverage(bars, k) /\ LatestBar(bars)
  <2>1. ASSUME NEW k \in Nat, 0 < k, n >= k
        PROVE  ValidSeries(bars, k) /\ ValidSeries(bars, 1) /\ ValidSeries(FirstBars(bars, k), k)
    <3>1. PICK first \in [length : Nat, mixed : BOOLEAN] : first = FirstBars(bars, k)
      BY DEF FirstBars, Series
    <3>2. first.length = k /\ ~first.mixed
      BY <3>1 DEF FirstBars, Series
    <3> QED BY <1>2, <2>1, <3>1, <3>2 DEF ValidSeries
  <2> QED BY <2>1 DEF SimpleMovingAverage, ExponentialMovingAverage, LatestBar
<1>4. \A k \in Nat : 0 < k /\ n > k =>
        Extreme(BarsBefore(bars), k) /\ SimpleMovingAverage(BarsBefore(bars), k)
  <2>1. ASSUME NEW k \in Nat, 0 < k, n > k
        PROVE  ValidSeries(BarsBefore(bars), k)
    <3>1. BarsBefore(bars) = [bars EXCEPT !.length = n - 1]
      BY <1>2 DEF BarsBefore, FirstBars
    <3>2. BarsBefore(bars).length = n - 1 /\ ~BarsBefore(bars).mixed
      BY <3>1 DEF Series
    <3> QED BY <2>1, <3>2 DEF ValidSeries
  <2> QED BY <2>1 DEF Extreme, SimpleMovingAverage
<1>5. CASE c.kind \in TrendKinds
  <2>1. 0 < c.fast /\ c.fast < c.period /\ n >= c.period
    BY <1>1, <1>2, <1>5 DEF PositivePeriods, Periods, TwoPeriodKinds, BarsNeeded, TrendKinds
  <2>2. TrendEvaluates(c, bars) /\ StructureEvaluates(c, bars)
    BY <1>1, <1>3, <2>1 DEF TrendEvaluates, StructureEvaluates
  <2> QED
    BY <1>1, <1>2, <1>5, <2>1, <2>2 DEF Evaluates, TrendKinds, CloseKinds, BreakoutKinds, CrossKinds
<1>6. CASE c.kind = "PullbackDone"
  <2>1. 0 < c.fast /\ c.fast < c.period /\ n >= c.period
    BY <1>1, <1>2, <1>6 DEF PositivePeriods, Periods, TwoPeriodKinds, BarsNeeded, Longer
  <2>2. PullbackEvaluates(c, bars)
    BY <1>1, <1>3, <2>1 DEF PullbackEvaluates
  <2> QED
    BY <1>1, <1>2, <1>6, <2>1, <2>2 DEF Evaluates, CloseKinds, BreakoutKinds, CrossKinds
<1>7. CASE c.kind \in CrossKinds
  <2>1. 0 < c.fast /\ c.fast < c.period /\ n > c.period
    BY <1>1, <1>2, <1>7 DEF PositivePeriods, Periods, TwoPeriodKinds, BarsNeeded, TrendKinds,
                            CloseKinds, CrossKinds
  <2>2. CrossEvaluates(c, bars)
    BY <1>1, <1>2, <1>3, <1>4, <2>1 DEF CrossEvaluates
  <2> QED
    BY <1>1, <1>2, <1>7, <2>1, <2>2 DEF Evaluates, CloseKinds, BreakoutKinds, CrossKinds
<1>8. CASE c.kind \in CloseKinds
  <2>1. 0 < c.period /\ n >= c.period
    BY <1>1, <1>2, <1>8 DEF PositivePeriods, Periods, TwoPeriodKinds, BarsNeeded, TrendKinds,
                            CloseKinds, CrossKinds
  <2>2. CloseEvaluates(c, bars)
    BY <1>1, <1>3, <2>1 DEF CloseEvaluates
  <2> QED
    BY <1>1, <1>2, <1>8, <2>1, <2>2 DEF Evaluates, CloseKinds, BreakoutKinds, CrossKinds
<1>9. CASE c.kind \in BreakoutKinds \cup {"VolumeGate"}
  <2>1. 0 < c.period /\ n > c.period
    BY <1>1, <1>2, <1>9 DEF PositivePeriods, Periods, TwoPeriodKinds, BarsNeeded, TrendKinds,
                            CloseKinds, CrossKinds, BreakoutKinds
  <2>2. BreakoutEvaluates(c, bars) /\ VolumeGateEvaluates(c, bars)
    BY <1>1, <1>2, <1>3, <1>4, <2>1 DEF BreakoutEvaluates, VolumeGateEvaluates
  <2> QED
    BY <1>1, <1>2, <1>9, <2>1, <2>2 DEF Evaluates, CloseKinds, BreakoutKinds, CrossKinds
<1>10. CASE c.kind = "Rejection"
  <2>1. n >= 1 /\ LatestBar(bars)
    BY <1>2, <1>3, <1>10 DEF BarsNeeded
  <2> QED
    BY <1>2, <1>10, <2>1 DEF Evaluates, CloseKinds, BreakoutKinds, CrossKinds
<1> QED
  BY <1>1, <1>5, <1>6, <1>7, <1>8, <1>9, <1>10 DEF ConditionKinds

\* What a condition needs is what is checked, wherever a u32 can count it: neither the
\* addition nor the cut to a u32 then changes it.
LEMMA RequiredIsNeeded ==
  ASSUME NEW c \in Conditions, BarsNeeded(c) <= MaxU32
  PROVE  BarsNeeded(c) \in Nat /\ AsU32(RequiredBars(c)) = BarsNeeded(c)
<1>1. c.fast \in Nat /\ c.period \in Nat
  BY WidthsAssumption DEF Conditions
<1>2. PICK n \in Nat : n = BarsNeeded(c)
  BY <1>1 DEF BarsNeeded, Longer
<1>3. \A m \in Nat : n <= m => n % (m + 1) = n
  BY <1>2
<1>4. n <= MaxU32 /\ n <= MaxUsize /\ MaxU32 \in Nat /\ MaxUsize \in Nat
  BY <1>2, WidthsAssumption
<1>5. n % (MaxUsize + 1) = n /\ n % (MaxU32 + 1) = n
  BY <1>3, <1>4
<1>6. RequiredBars(c) = n
  BY <1>2, <1>5 DEF RequiredBars
<1> QED BY <1>2, <1>5, <1>6 DEF AsU32

\* The conditions of a list of the strategy are conditions of the strategy.
LEMMA ListedConditions ==
  ASSUME NEW s \in Strategies
  PROVE  /\ ConditionsOf(s) \subseteq Conditions
         /\ \A list \in {s.regime_filter, s.sequence, s.primary, s.secondary,
                         s.entry["Long"], s.entry["Short"], s.exit} :
              list \in Seq(Conditions) /\ \A i \in 1..Len(list) : list[i] \in ConditionsOf(s)
<1> DEFINE Lists == {s.regime_filter, s.sequence, s.primary, s.secondary,
                     s.entry["Long"], s.entry["Short"], s.exit}
           Of(conditions) == {conditions[i] : i \in 1..Len(conditions)}
<1>1. \A list \in Lists : list \in Seq(Conditions)
  BY StrategiesAssumption DEF IsStrategy
<1>2. ConditionsOf(s) = UNION {Of(list) : list \in Lists}
  BY DEF ConditionsOf
<1>3. \A list \in Lists : \A i \in 1..Len(list) : list[i] \in Conditions
  BY <1>1, ElementOfSeq
<1> HIDE DEF Lists
<1>4. ConditionsOf(s) \subseteq Conditions
  BY <1>2, <1>3
<1>5. \A list \in Lists : \A i \in 1..Len(list) : list[i] \in ConditionsOf(s)
  BY <1>2
<1> QED
  BY <1>1, <1>4, <1>5 DEF Lists

\* The two lists of a signal plan, one after the other.
LEMMA JoinedConditions ==
  ASSUME NEW S, NEW a \in Seq(S), NEW b \in Seq(S), NEW T,
         \A i \in 1..Len(a) : a[i] \in T, \A i \in 1..Len(b) : b[i] \in T
  PROVE  Len(a \o b) \in Nat /\ \A i \in 1..Len(a \o b) : (a \o b)[i] \in T
<1>1. Len(a \o b) = Len(a) + Len(b) /\ Len(a) \in Nat /\ Len(b) \in Nat
  BY ConcatProperties
<1>2. ASSUME NEW i \in 1..Len(a) + Len(b)
      PROVE  (a \o b)[i] \in T
  <2>1. (a \o b)[i] = IF i <= Len(a) THEN a[i] ELSE b[i - Len(a)]
    BY ConcatProperties
  <2> QED
    BY <1>1, <2>1
<1> QED
  BY <1>1, <1>2

\* A strategy that has compiled, with all of its buffers ready and unmixed, can evaluate
\* each of its conditions whose bars a u32 can count.
LEMMA ReadyConditionsEvaluate ==
  ASSUME strategy \in Strategies, Compiles(strategy), strategy.ready_requires_all,
         NEW bars \in BarSeries, BuffersReady(bars), \A tf \in Timeframes : ~bars[tf].mixed,
         NEW c \in ConditionsOf(strategy), PositivePeriods(c), BarsNeeded(c) <= MaxU32
  PROVE  Evaluates(c, bars[c.timeframe])
<1>1. c \in Conditions /\ Parses(c) /\ RequirementsMet(strategy, c)
  BY ListedConditions DEF Compiles
<1>2. PICK series \in Series : series = bars[c.timeframe] /\ ~series.mixed
  BY <1>1, BarSeriesAssumption DEF Conditions
<1>3. PICK needed \in Nat : needed = BarsNeeded(c) /\ AsU32(RequiredBars(c)) = needed
  BY <1>1, RequiredIsNeeded
<1>4. needed > 0
  <2>1. c.fast \in Nat /\ c.period \in Nat /\ (c.kind \in TwoPeriodKinds => c.fast < c.period)
    BY <1>1, WidthsAssumption DEF Conditions, Parses
  <2> QED
    BY <1>1, <1>3, <2>1 DEF BarsNeeded, Longer, PositivePeriods, Periods
<1>5. c.timeframe \in DOMAIN strategy.bars_required
      /\ strategy.bars_required[c.timeframe] >= needed
  BY <1>1, <1>3, <1>4 DEF RequirementsMet
<1>6. series.length >= strategy.bars_required[c.timeframe]
  BY <1>2, <1>5 DEF BuffersReady
<1>7. strategy.bars_required[c.timeframe] \in Nat
  BY <1>5, StrategiesAssumption DEF IsStrategy
<1>8. series.length \in Nat
  BY <1>2 DEF Series
<1>9. series.length >= BarsNeeded(c)
  BY <1>3, <1>5, <1>6, <1>7, <1>8
<1> QED
  BY <1>1, <1>2, <1>9, BarsNeededSuffice

-----------------------------------------------------------------------------
(* Signals                                                                 *)

Signals == [active : BOOLEAN, score : Nat]

\* A plan has one result, or none when a condition fails that it comes to.
LEMMA PlanResults ==
  ASSUME strategy \in Strategies, NEW side, NEW bars, NEW holds
  PROVE  /\ EvaluatePlan(strategy, side, bars, holds) \subseteq [matched : BOOLEAN, score : Nat]
         /\ (\A c \in ConditionsOf(strategy) : Evaluates(c, bars[c.timeframe]))
              => EvaluatePlan(strategy, side, bars, holds) # {}
<1> DEFINE Result(c) == Holds(c, side, bars, holds)
           gates == strategy.regime_filter \o strategy.sequence
           stops == {i \in 1..Len(gates) : Result(gates[i]) # {TRUE}}
           first == {i \in stops : \A j \in stops : i <= j}
           scored == IF strategy.mode = "WeightedScore"
                     THEN strategy.primary \o strategy.secondary ELSE strategy.primary
           total == Len(scored)
           passed == Cardinality({i \in 1..total : Result(scored[i]) = {TRUE}})
           matched == \/ strategy.mode = "All" /\ total > 0 /\ passed = total
                      \/ strategy.mode = "Any" /\ passed > 0
                      \/ strategy.mode = "NOfM" /\ strategy.n_required > 0
                         /\ passed >= strategy.n_required
                      \/ /\ strategy.mode = "WeightedScore" /\ total > 0
                         /\ passed * strategy.score_threshold[2]
                              >= strategy.score_threshold[1] * total
<1>1. EvaluatePlan(strategy, side, bars, holds)
        = IF stops # {}
          THEN IF \E i \in first : Result(gates[i]) = {} THEN {}
               ELSE {[matched |-> FALSE, score |-> 0]}
          ELSE IF \E i \in 1..total : Result(scored[i]) = {} THEN {}
          ELSE {[matched |-> matched, score |-> passed]}
  BY DEF EvaluatePlan
<1>2. \A i \in 1..Len(gates) : gates[i] \in ConditionsOf(strategy)
  BY ListedConditions, JoinedConditions
<1>3. total \in Nat /\ \A i \in 1..total : scored[i] \in ConditionsOf(strategy)
  <2>1. CASE strategy.mode = "WeightedScore"
    BY <2>1, ListedConditions, JoinedConditions
  <2>2. CASE strategy.mode # "WeightedScore"
    <3>1. strategy.primary \in Seq(Conditions)
          /\ \A i \in 1..Len(strategy.primary) : strategy.primary[i] \in ConditionsOf(strategy)
      BY ListedConditions
    <3> QED
      BY <2>2, <3>1, LenProperties
  <2> QED
    BY <2>1, <2>2
<1>4. passed \in Nat
  <2> HIDE DEF total
  <2>1. IsFiniteSet(1..total)
    BY <1>3, FS_Interval
  <2>2. IsFiniteSet({i \in 1..total : Result(scored[i]) = {TRUE}})
    BY <2>1, FS_Subset
  <2> QED
    BY <2>2, FS_CardinalityType
<1>5. matched \in BOOLEAN
  OBVIOUS
<1>6. ASSUME \A c \in ConditionsOf(strategy) : Evaluates(c, bars[c.timeframe])
      PROVE  \A c \in ConditionsOf(strategy) : Result(c) # {}
  BY <1>6 DEF Holds
<1>7. first \subseteq 1..Len(gates)
  OBVIOUS
<1> HIDE DEF Result, gates, stops, first, scored, total, passed, matched
<1>8. EvaluatePlan(strategy, side, bars, holds) \subseteq [matched : BOOLEAN, score : Nat]
  <2> SUFFICES ASSUME NEW r \in EvaluatePlan(strategy, side, bars, holds)
               PROVE  r \in [matched : BOOLEAN, score : Nat]
    OBVIOUS
  <2>1. r = [matched |-> FALSE, score |-> 0] \/ r = [matched |-> matched, score |-> passed]
    BY <1>1
  <2>2. [matched |-> FALSE, score |-> 0] \in [matched : BOOLEAN, score : Nat]
    OBVIOUS
  <2>3. [matched |-> matched, score |-> passed] \in [matched : BOOLEAN, score : Nat]
    BY <1>4, <1>5
  <2> QED
    BY <2>1, <2>2, <2>3, Zenon
<1>9. ASSUME \A c \in ConditionsOf(strategy) : Evaluates(c, bars[c.timeframe])
      PROVE  EvaluatePlan(strategy, side, bars, holds) # {}
  BY <1>1, <1>2, <1>3, <1>6, <1>7, <1>9
<1> QED
  BY <1>8, <1>9

\* So has a list of conditions.
LEMMA AllHoldResults ==
  ASSUME strategy \in Strategies, NEW side, NEW bars, NEW holds,
         NEW list \in {strategy.entry["Long"], strategy.entry["Short"], strategy.exit}
  PROVE  /\ AllHold(list, side, bars, holds) \subseteq BOOLEAN
         /\ (\A c \in ConditionsOf(strategy) : Evaluates(c, bars[c.timeframe]))
              => AllHold(list, side, bars, holds) # {}
<1>1. AllHold(list, side, bars, holds) \subseteq BOOLEAN
  BY DEF AllHold
<1>2. ASSUME \A c \in ConditionsOf(strategy) : Evaluates(c, bars[c.timeframe])
      PROVE  AllHold(list, side, bars, holds) # {}
  <2>1. \A i \in 1..Len(list) : list[i] \in ConditionsOf(strategy)
    BY ListedConditions
  <2>2. \A i \in 1..Len(list) : Holds(list[i], side, bars, holds) # {}
    BY <1>2, <2>1 DEF Holds
  <2> QED
    BY <2>2 DEF AllHold
<1> QED
  BY <1>1, <1>2

\* Only a side of the strategy has an active signal.
LEMMA SideSignalResults ==
  ASSUME strategy \in Strategies, NEW side \in Side, NEW bars, NEW holds
  PROVE  /\ SideSignal(side, bars, holds) \subseteq Signals
         /\ \A signal \in SideSignal(side, bars, holds) : signal.active => side \in strategy.sides
         /\ (\A c \in ConditionsOf(strategy) : Evaluates(c, bars[c.timeframe]))
              => SideSignal(side, bars, holds) # {}
<1> DEFINE Plan == EvaluatePlan(strategy, side, bars, holds)
           Entry == AllHold(strategy.entry[side], side, bars, holds)
           Of(signal) == IF ~signal.matched THEN {[active |-> FALSE, score |-> signal.score]}
                         ELSE {[active |-> entry, score |-> signal.score] : entry \in Entry}
<1>1. SideSignal(side, bars, holds) = IF side \notin strategy.sides
                                      THEN {[active |-> FALSE, score |-> 0]}
                                      ELSE UNION {Of(signal) : signal \in Plan}
  BY DEF SideSignal
<1>2. strategy.entry[side] \in {strategy.entry["Long"], strategy.entry["Short"], strategy.exit}
  BY DEF Side
<1>3. Plan \subseteq [matched : BOOLEAN, score : Nat] /\ Entry \subseteq BOOLEAN
  BY <1>2, PlanResults, AllHoldResults
<1>4. ASSUME \A c \in ConditionsOf(strategy) : Evaluates(c, bars[c.timeframe])
      PROVE  Plan # {} /\ Entry # {}
  BY <1>2, <1>4, PlanResults, AllHoldResults
<1>5. \A signal \in Plan : Of(signal) \subseteq Signals
  <2> SUFFICES ASSUME NEW signal \in Plan, NEW r \in Of(signal)
               PROVE  r \in Signals
    OBVIOUS
  <2>1. signal.score \in Nat
    BY <1>3
  <2>2. \E on \in BOOLEAN : r = [active |-> on, score |-> signal.score]
    BY <1>3
  <2> QED
    BY <2>1, <2>2 DEF Signals
<1>6. ASSUME Entry # {} PROVE \A signal \in Plan : Of(signal) # {}
  BY <1>6
<1> HIDE DEF Plan, Entry, Of
<1>7. SideSignal(side, bars, holds) \subseteq Signals
  <2>1. [active |-> FALSE, score |-> 0] \in Signals
    BY DEF Signals
  <2> HIDE DEF Signals
  <2>2. CASE side \notin strategy.sides
    BY <2>1, <2>2, <1>1
  <2>3. CASE side \in strategy.sides
    BY <2>3, <1>1, <1>5
  <2> QED
    BY <2>2, <2>3
<1>8. ASSUME NEW signal \in SideSignal(side, bars, holds), signal.active
      PROVE  side \in strategy.sides
  BY <1>1, <1>8
<1>9. ASSUME \A c \in ConditionsOf(strategy) : Evaluates(c, bars[c.timeframe])
      PROVE  SideSignal(side, bars, holds) # {}
  BY <1>1, <1>4, <1>6, <1>9
<1> QED
  BY <1>7, <1>8, <1>9

\* Of two sides with an active signal the one with the higher score is chosen, or none.
LEMMA DirectionUnique ==
  ASSUME NEW signals \in [Side -> Signals]
  PROVE  /\ Direction(signals) \subseteq Remembered(signals)
         /\ \A side, other \in Direction(signals) : side = other
<1>1. \A side \in Side : signals[side].score \in Nat
  BY DEF Signals
<1>2. Direction(signals) \subseteq Remembered(signals)
  BY DEF Direction, Remembered
<1>3. ASSUME NEW side \in Direction(signals), NEW other \in Direction(signals), side # other
      PROVE  FALSE
  <2>1. side \in Side /\ other \in Side
    BY DEF Direction
  <2>2. signals[side].score > signals[other].score /\ signals[other].score > signals[side].score
    BY <1>3 DEF Direction
  <2> QED
    BY <1>1, <2>1, <2>2
<1> QED
  BY <1>2, <1>3

\* An entry without a position is one whose signal has just appeared, and so is an
\* exit by the conditions.
LEMMA RulesIntentIsNew ==
  ASSUME NEW signals \in [Side -> Signals], NEW held \in Positions,
         NEW exits \in BOOLEAN, NEW allowed \in BOOLEAN,
         NEW result, result = RulesIntent(Direction(signals), held, exits, allowed)
  PROVE  /\ result \in Intents
         /\ \A side \in Side :
              result = <<"Enter", side>> /\ held \notin Side => side \notin active
         /\ result = <<"Exit", "conditions">> => held \in Side /\ exits /\ held \notin exit_active
<1> DEFINE direction == Direction(signals)
           chosen == CHOOSE side \in direction : TRUE
<1>1. direction \subseteq Side /\ \A side, other \in direction : side = other
  BY DirectionUnique DEF Remembered
<1> HIDE DEF direction
<1>2. CASE result = <<"Flatten">>
  BY <1>2 DEF Intents
<1>3. CASE result = <<"Exit", "conditions">> /\ held \in Side /\ exits /\ held \notin exit_active
  BY <1>3 DEF Intents
<1>4. CASE result = <<"Exit", "opposite">>
  BY <1>4 DEF Intents
<1>5. CASE result = NoIntent
  BY <1>5 DEF Intents, NoIntent
<1>6. CASE /\ \E side \in direction : IF held \in Side THEN side # held ELSE side \notin active
           /\ result = <<"Enter", chosen>>
  <2>1. chosen \in direction /\ \A side \in direction : side = chosen
    BY <1>1, <1>6
  <2>2. held \notin Side => chosen \notin active
    BY <1>6, <2>1
  <2> HIDE DEF chosen
  <2> QED
    BY <1>1, <1>6, <2>1, <2>2 DEF Intents
<1> QED
  BY <1>2, <1>3, <1>4, <1>5, <1>6 DEF RulesIntent, direction

-----------------------------------------------------------------------------
(* Evaluations                                                             *)

\* An evaluation that ends with an error.
ErrorReturned ==
  /\ intent' = NoIntent
  /\ outcome' \in {"Failed", "Mismatched"}
  /\ UNCHANGED <<active, exit_active, asked>>

\* Every evaluation by the rules either fails and leaves the memory as it was, or
\* has one signal for each side.
LEMMA EvaluateRulesResults ==
  ASSUME strategy \in Strategies, NEW bars \in BarSeries, NEW holds, NEW held \in Positions,
         NEW degraded \in BOOLEAN, NEW synchronized \in BOOLEAN,
         EvaluateRules(bars, holds, held, degraded, synchronized)
  PROVE  /\ position' = held /\ UNCHANGED <<strategy, now>>
         /\ \/ /\ ErrorReturned
               /\ ~\A c \in ConditionsOf(strategy) : Evaluates(c, bars[c.timeframe])
            \/ \E signals \in [Side -> Signals], matched \in BOOLEAN :
                 /\ \A side \in Side : signals[side].active => side \in strategy.sides
                 /\ intent' = RulesIntent(Direction(signals), held, matched,
                                          EntriesAllowed(degraded, synchronized))
                 /\ outcome' = "Evaluated"
                 /\ active' = Remembered(signals)
                 /\ exit_active' = IF matched THEN {held} \cap Side ELSE {}
                 /\ asked' = AskedAfter(signals, held, matched, intent')
<1> DEFINE results == [side \in Side |-> SideSignal(side, bars, holds)]
           exits == IF held \in Side THEN AllHold(strategy.exit, held, bars, holds) ELSE {TRUE}
           signals == [side \in Side |-> CHOOSE r \in results[side] : TRUE]
           matched == exits = {TRUE}
           failed == results["Long"] = {} \/ results["Short"] = {} \/ exits = {}
<1>1. position' = held /\ UNCHANGED <<strategy, now>>
  BY DEF EvaluateRules
<1>2. ASSUME failed
      PROVE  ~\A c \in ConditionsOf(strategy) : Evaluates(c, bars[c.timeframe])
  <2>1. SUFFICES ASSUME \A c \in ConditionsOf(strategy) : Evaluates(c, bars[c.timeframe])
                 PROVE  ~failed
    BY <1>2
  <2>2. results["Long"] # {} /\ results["Short"] # {}
    BY <2>1, SideSignalResults DEF Side
  <2>3. exits # {}
    BY <2>1, AllHoldResults
  <2> QED
    BY <2>2, <2>3
<1>3. CASE failed
  <2>1. ErrorReturned
    BY <1>3 DEF EvaluateRules, ErrorReturned
  <2> QED
    BY <1>1, <1>2, <1>3, <2>1
<1>4. CASE ~failed
  <2>1. /\ intent' = RulesIntent(Direction(signals), held, matched,
                                 EntriesAllowed(degraded, synchronized))
        /\ outcome' = "Evaluated"
        /\ active' = Remembered(signals)
        /\ exit_active' = IF matched THEN {held} \cap Side ELSE {}
        /\ asked' = AskedAfter(signals, held, matched, intent')
    BY <1>4 DEF EvaluateRules
  <2>2. \A side \in Side : signals[side] \in SideSignal(side, bars, holds)
    BY <1>4 DEF Side
  <2>3. \A side \in Side : /\ signals[side] \in Signals
                           /\ signals[side].active => side \in strategy.sides
    BY <2>2, SideSignalResults
  <2>4. signals \in [Side -> Signals] /\ matched \in BOOLEAN
    BY <2>3
  <2> HIDE DEF signals, matched
  <2> QED
    BY <1>1, <2>1, <2>3, <2>4
<1> QED
  BY <1>3, <1>4

\* What counts as failed has no series of mixed bars.
LEMMA FailedIsUnmixed ==
  ASSUME NEW bars, NEW holds, NEW held, NEW degraded, NEW synchronized,
         EvaluateRules(bars, holds, held, degraded, synchronized), outcome' = "Failed"
  PROVE  \A tf \in Timeframes : ~bars[tf].mixed
<1> DEFINE results == [side \in Side |-> SideSignal(side, bars, holds)]
           exits == IF held \in Side THEN AllHold(strategy.exit, held, bars, holds) ELSE {TRUE}
           failed == results["Long"] = {} \/ results["Short"] = {} \/ exits = {}
<1>1. CASE failed
  BY <1>1 DEF EvaluateRules
<1>2. CASE ~failed
  <2>1. outcome' = "Evaluated"
    BY <1>2 DEF EvaluateRules
  <2> QED BY <2>1
<1> QED BY <1>1, <1>2

\* No rule fails on bars of one timeframe under a strategy that has compiled, waits for
\* all of its buffers, and has periods that are not zero and that a u32 can count.
THEOREM CompiledStrategyNeverFails == Spec => []CompiledNeverFails
<1> DEFINE IInv == strategy \in Strategies /\ Compiles(strategy) /\ CompiledNeverFails
<1>1. Init => IInv
  BY DEF Init, CompiledNeverFails
<1>2. IInv /\ [Next]_vars => IInv'
  <2> SUFFICES ASSUME IInv, [Next]_vars PROVE IInv'
    OBVIOUS
  <2>1. CASE outcome' # "Failed" /\ UNCHANGED strategy
    BY <2>1 DEF CompiledNeverFails, Compiles
  <2>2. ASSUME NEW result, HoldBack(result) PROVE IInv'
    BY <2>1, <2>2 DEF HoldBack
  <2>3. ASSUME NEW bars \in BarSeries, NEW holds, NEW held \in Positions,
               NEW degraded \in BOOLEAN, NEW synchronized \in BOOLEAN,
               EvaluateRules(bars, holds, held, degraded, synchronized)
        PROVE  IInv'
    <3>1. UNCHANGED strategy
      BY <2>3 DEF EvaluateRules
    <3>2. CASE outcome' # "Failed"
      BY <3>1, <3>2, <2>1
    <3>3. CASE outcome' = "Failed"
      <4>1. PICK c \in ConditionsOf(strategy) : ~Evaluates(c, bars[c.timeframe])
        BY <2>3, <3>3, EvaluateRulesResults
      <4>2. \A tf \in Timeframes : ~bars[tf].mixed
        BY <2>3, <3>3, FailedIsUnmixed
      <4>3. BuffersReady(bars)
        BY <2>3 DEF EvaluateRules
      <4>4. ~(strategy.ready_requires_all /\ PositivePeriods(c) /\ BarsNeeded(c) <= MaxU32)
        BY <4>1, <4>2, <4>3, ReadyConditionsEvaluate
      <4> QED
        BY <3>1, <4>1, <4>4 DEF CompiledNeverFails, Compiles
    <3> QED
      BY <3>2, <3>3
  <2>4. CASE Tick
    BY <2>1, <2>4 DEF Tick
  <2>5. CASE UNCHANGED vars
    BY <2>5 DEF vars, CompiledNeverFails, Compiles
  <2> QED
    BY <2>2, <2>3, <2>4, <2>5 DEF Next, EvaluateForReview, EvaluateOnMismatch,
                                  EvaluateBeforeWarmup, EvaluateDegradedPosition
<1> QED
  BY <1>1, <1>2, PTL DEF Spec

-----------------------------------------------------------------------------
(* One intent per signal                                                   *)

\* What was asked of a signal is asked of one that the memory still has: this is what
\* keeps a second entry, or exit, from being asked for.
AskedIsRemembered ==
  \A side \in Side :
    /\ asked.entries[side] <= 1
    /\ asked.entries[side] > 0 => side \in active
    /\ asked.exits[side] <= 1
    /\ asked.exits[side] > 0 => side \in exit_active

SignalInv == StrategyTypeOK /\ AskedIsRemembered

\* A reset forgets the signals and what was asked of them together.
LEMMA HoldBackPreserves ==
  ASSUME SignalInv, NEW result \in Intents, HoldBack(result)
  PROVE  SignalInv'
<1>1. exit_active' = {} /\ Cardinality({}) = 0
  BY FS_EmptySet DEF HoldBack
<1>2. asked' = NothingAsked
  BY DEF HoldBack
<1>3. StrategyTypeOK'
  BY <1>1, <1>2 DEF HoldBack, SignalInv, StrategyTypeOK, NothingAsked
<1>4. AskedIsRemembered'
  BY <1>2 DEF AskedIsRemembered, NothingAsked
<1> QED
  BY <1>3, <1>4 DEF SignalInv

\* An evaluation asks for what is new, and remembers the signals that go on.
LEMMA EvaluateRulesPreserves ==
  ASSUME SignalInv, NEW bars \in BarSeries, NEW holds, NEW held \in Positions,
         NEW degraded \in BOOLEAN, NEW synchronized \in BOOLEAN,
         EvaluateRules(bars, holds, held, degraded, synchronized)
  PROVE  SignalInv'
<1>1. strategy \in Strategies /\ position' = held /\ UNCHANGED <<strategy, now>>
  BY EvaluateRulesResults DEF SignalInv, StrategyTypeOK
<1>2. CASE ErrorReturned
  <2>1. StrategyTypeOK'
    BY <1>1, <1>2 DEF ErrorReturned, SignalInv, StrategyTypeOK, Intents
  <2>2. AskedIsRemembered'
    BY <1>2 DEF ErrorReturned, SignalInv, AskedIsRemembered
  <2> QED
    BY <2>1, <2>2 DEF SignalInv
<1>3. ASSUME NEW signals \in [Side -> Signals], NEW matched \in BOOLEAN,
             \A side \in Side : signals[side].active => side \in strategy.sides,
             intent' = RulesIntent(Direction(signals), held, matched,
                                   EntriesAllowed(degraded, synchronized)),
             outcome' = "Evaluated",
             active' = Remembered(signals),
             exit_active' = IF matched THEN {held} \cap Side ELSE {},
             asked' = AskedAfter(signals, held, matched, intent')
      PROVE  SignalInv'
  <2> DEFINE result == intent'
  <2>1. EntriesAllowed(degraded, synchronized) \in BOOLEAN
    BY DEF EntriesAllowed
  <2>2. /\ result \in Intents
        /\ \A side \in Side :
             result = <<"Enter", side>> /\ held \notin Side => side \notin active
        /\ result = <<"Exit", "conditions">>
             => held \in Side /\ matched /\ held \notin exit_active
    BY <1>3, <2>1, RulesIntentIsNew
  <2>3. /\ \A side \in Side : /\ asked.entries[side] \in 0..2 /\ asked.exits[side] \in 0..2
                              /\ asked.entries[side] <= 1 /\ asked.exits[side] <= 1
                              /\ asked.entries[side] > 0 => side \in active
                              /\ asked.exits[side] > 0 => side \in exit_active
    BY DEF SignalInv, StrategyTypeOK, AskedIsRemembered
  <2>4. \A side \in Side : signals[side].active \in BOOLEAN
    BY DEF Signals
  <2> HIDE DEF result
  <2>5. asked' = AskedAfter(signals, held, matched, result)
    BY <1>3 DEF result
  <2>6. ASSUME NEW side \in Side
        PROVE  /\ asked'.entries[side] \in 0..1
               /\ asked'.entries[side] > 0 => side \in active'
    <3>1. asked'.entries[side]
            = IF ~signals[side].active THEN 0
              ELSE IF (result = <<"Enter", side>> /\ held \notin Side) /\ asked.entries[side] < 2
              THEN asked.entries[side] + 1 ELSE asked.entries[side]
      BY <2>5 DEF AskedAfter
    <3>2. signals[side].active => side \in active'
      BY <1>3 DEF Remembered
    <3>3. CASE result = <<"Enter", side>> /\ held \notin Side
      BY <2>2, <2>3, <3>1, <3>2, <3>3
    <3>4. CASE ~(result = <<"Enter", side>> /\ held \notin Side)
      BY <2>3, <3>1, <3>2, <3>4
    <3> QED
      BY <3>3, <3>4
  <2>7. ASSUME NEW side \in Side
        PROVE  /\ asked'.exits[side] \in 0..1
               /\ asked'.exits[side] > 0 => side \in exit_active'
    <3>1. asked'.exits[side]
            = IF ~(held = side /\ matched) THEN 0
              ELSE IF result = <<"Exit", "conditions">> /\ asked.exits[side] < 2
              THEN asked.exits[side] + 1 ELSE asked.exits[side]
      BY <2>5 DEF AskedAfter
    <3>2. held = side /\ matched => side \in exit_active'
      BY <1>3
    <3> QED
      BY <2>2, <2>3, <3>1, <3>2
  <2>8. AskedIsRemembered'
    BY <2>6, <2>7 DEF AskedIsRemembered
  <2>9. asked' \in [entries : [Side -> 0..2], exits : [Side -> 0..2]]
    <3>1. \A side \in Side : asked'.entries[side] \in 0..2 /\ asked'.exits[side] \in 0..2
      BY <2>6, <2>7
    <3>2. asked' = [entries |-> asked'.entries, exits |-> asked'.exits]
          /\ asked'.entries = [side \in Side |-> asked'.entries[side]]
          /\ asked'.exits = [side \in Side |-> asked'.exits[side]]
      BY <2>5 DEF AskedAfter
    <3> QED
      BY <3>1, <3>2
  <2>10. exit_active' \subseteq {held} \cap Side
    BY <1>3
  <2>11. Cardinality(exit_active') <= 1
    <3>1. CASE exit_active' = {}
      BY <3>1, FS_EmptySet
    <3>2. CASE exit_active' = {held}
      <4>1. Cardinality({held}) = 1
        BY FS_Singleton
      <4> QED
        BY <3>2, <4>1
    <3> QED
      BY <2>10, <3>1, <3>2
  <2>12. active' \subseteq strategy.sides
    BY <1>3 DEF Remembered
  <2>13. StrategyTypeOK'
    BY <1>1, <1>3, <2>2, <2>9, <2>10, <2>11, <2>12 DEF SignalInv, StrategyTypeOK, result
  <2> QED
    BY <2>8, <2>13 DEF SignalInv
<1> QED
  BY <1>1, <1>2, <1>3, EvaluateRulesResults

\* A signal that goes on is acted upon once, for all strategies and whatever ties,
\* blocked entries, errors and resets come between two evaluations.
THEOREM SignalActsOnce == Spec => []OneIntentPerSignal
<1>1. Init => SignalInv
  <2> SUFFICES ASSUME Init PROVE SignalInv
    OBVIOUS
  <2>1. strategy \in Strategies /\ now \in 0..LastTime /\ Cardinality(exit_active) = 0
    BY TimesAssumption, FS_EmptySet DEF Init
  <2>2. StrategyTypeOK
    BY <2>1 DEF Init, StrategyTypeOK, NothingAsked, Positions, Intents
  <2>3. AskedIsRemembered
    BY DEF Init, AskedIsRemembered, NothingAsked
  <2> QED
    BY <2>2, <2>3 DEF SignalInv
<1>2. SignalInv /\ [Next]_vars => SignalInv'
  <2> SUFFICES ASSUME SignalInv, [Next]_vars PROVE SignalInv'
    OBVIOUS
  <2>1. <<"PauseStrategy">> \in Intents /\ NoIntent \in Intents
    BY DEF Intents
  <2>2. CASE EvaluateForReview
    BY <2>1, <2>2, HoldBackPreserves DEF EvaluateForReview
  <2>3. CASE EvaluateOnMismatch
    BY <2>1, <2>3, HoldBackPreserves DEF EvaluateOnMismatch
  <2>4. CASE EvaluateBeforeWarmup
    BY <2>1, <2>4, HoldBackPreserves DEF EvaluateBeforeWarmup
  <2>5. CASE EvaluateDegradedPosition
    BY <2>1, <2>5, HoldBackPreserves DEF EvaluateDegradedPosition
  <2>6. ASSUME NEW bars \in BarSeries, NEW holds, NEW held \in Positions,
               NEW degraded \in BOOLEAN, NEW synchronized \in BOOLEAN,
               EvaluateRules(bars, holds, held, degraded, synchronized)
        PROVE  SignalInv'
    BY <2>6, EvaluateRulesPreserves
  <2>7. CASE Tick
    BY <2>1, <2>7, TimesAssumption DEF Tick, SignalInv, StrategyTypeOK, AskedIsRemembered
  <2>8. CASE UNCHANGED vars
    BY <2>8 DEF vars, SignalInv, StrategyTypeOK, AskedIsRemembered
  <2> QED
    BY <2>2, <2>3, <2>4, <2>5, <2>6, <2>7, <2>8 DEF Next
<1>3. SignalInv => OneIntentPerSignal
  BY DEF SignalInv, AskedIsRemembered, OneIntentPerSignal
<1> QED
  BY <1>1, <1>2, <1>3, PTL DEF Spec

-----------------------------------------------------------------------------
(* Sessions: the local time of an evaluation against absolute time.        *)

\* What an evaluation asks for respects the gates of its local time, until the clock
\* goes on.
GatesRespected ==
  /\ intent[1] = "Enter" =>
       /\ DayAllowed
       /\ strategy.session_mode = "FixedWindow" => WindowContains
       /\ \A cutoff \in strategy.no_new_entries_after : LocalTime < cutoff
  /\ outcome = "Evaluated" /\ position # "None" => (intent = <<"Flatten">> <=> FlattenDue(position))

\* The clock and the strategy decide the gates.
LEMMA GatesStand ==
  ASSUME UNCHANGED <<strategy, now>>
  PROVE  /\ DayAllowed' <=> DayAllowed
         /\ WindowContains' <=> WindowContains
         /\ LocalTime' = LocalTime
         /\ \A held : FlattenDue(held)' <=> FlattenDue(held)
<1>1. strategy' = strategy /\ now' = now
  OBVIOUS
<1>2. LocalTime' = LocalTime /\ Weekday' = Weekday
  BY <1>1 DEF LocalTime, Weekday
<1>3. (WrapsMidnight' <=> WrapsMidnight) /\ (DayAllowed' <=> DayAllowed)
  BY <1>1, <1>2 DEF WrapsMidnight, DayAllowed
<1>4. (WindowContains' <=> WindowContains) /\ (SessionEndReached' <=> SessionEndReached)
  BY <1>1, <1>2, <1>3 DEF WindowContains, SessionEndReached
<1>5. ASSUME NEW held
      PROVE  FlattenDue(held)' <=> FlattenDue(held)
  BY <1>1, <1>2, <1>3, <1>4 DEF FlattenDue
<1> QED BY <1>2, <1>3, <1>4, <1>5

\* An entry is the intent of allowed gates, a flatten of one that is due.
LEMMA RulesIntentGates ==
  ASSUME NEW direction, NEW held, NEW exits, NEW allowed
  PROVE  /\ RulesIntent(direction, held, exits, allowed)[1] = "Enter" => allowed
         /\ RulesIntent(direction, held, exits, allowed) = <<"Flatten">> <=> FlattenDue(held)
<1> DEFINE result == RulesIntent(direction, held, exits, allowed)
           entered == <<"Enter", CHOOSE side \in direction : TRUE>>
<1>1. CASE FlattenDue(held)
  <2>1. result = <<"Flatten">>
    BY <1>1 DEF RulesIntent
  <2>2. result[1] # "Enter"
    BY <2>1
  <2> QED BY <1>1, <2>1, <2>2
<1>2. CASE ~FlattenDue(held)
  <2>1. \/ result \in {<<"Exit", "conditions">>, <<"Exit", "opposite">>, NoIntent}
        \/ allowed /\ result = entered
    BY <1>2 DEF RulesIntent
  <2>2. \A x \in {<<"Exit", "conditions">>, <<"Exit", "opposite">>, NoIntent} :
          x[1] # "Enter" /\ x # <<"Flatten">>
    BY DEF NoIntent
  <2>3. entered # <<"Flatten">>
    OBVIOUS
  <2> HIDE DEF result, entered
  <2>4. result # <<"Flatten">>
    BY <2>1, <2>2, <2>3
  <2>5. result[1] = "Enter" => allowed
    BY <2>1, <2>2
  <2> QED BY <1>2, <2>4, <2>5 DEF result
<1> QED BY <1>1, <1>2

\* Every evaluation respects the gates.
LEMMA GatesHold == Spec => []GatesRespected
<1>1. Init => GatesRespected
  BY DEF Init, GatesRespected, NoIntent
<1>2. GatesRespected /\ [Next]_vars => GatesRespected'
  <2> SUFFICES ASSUME GatesRespected, [Next]_vars PROVE GatesRespected'
    OBVIOUS
  <2>1. ASSUME NEW result, result \in {<<"PauseStrategy">>, NoIntent}, HoldBack(result)
        PROVE  GatesRespected'
    <3>1. intent'[1] # "Enter" /\ outcome' = "Held"
      BY <2>1 DEF HoldBack, NoIntent
    <3> QED BY <3>1 DEF GatesRespected
  <2>2. CASE EvaluateForReview \/ EvaluateOnMismatch \/ EvaluateBeforeWarmup
             \/ EvaluateDegradedPosition
    BY <2>1, <2>2 DEF EvaluateForReview, EvaluateOnMismatch, EvaluateBeforeWarmup,
                      EvaluateDegradedPosition
  <2>3. ASSUME NEW bars \in BarSeries, NEW holds, NEW held \in Positions,
               NEW degraded \in BOOLEAN, NEW synchronized \in BOOLEAN,
               EvaluateRules(bars, holds, held, degraded, synchronized)
        PROVE  GatesRespected'
    <3>1. position' = held /\ UNCHANGED <<strategy, now>>
      BY <2>3 DEF EvaluateRules
    <3>2. CASE intent' = NoIntent /\ outcome' \in {"Failed", "Mismatched"}
      BY <3>2 DEF GatesRespected, NoIntent
    <3>3. ASSUME NEW signals, NEW exits,
                 outcome' = "Evaluated",
                 intent' = RulesIntent(Direction(signals), held, exits,
                                       EntriesAllowed(degraded, synchronized))
          PROVE  GatesRespected'
      <4>1. /\ intent'[1] = "Enter" => EntriesAllowed(degraded, synchronized)
            /\ intent' = <<"Flatten">> <=> FlattenDue(held)
        BY <3>3, RulesIntentGates
      <4>2. /\ (DayAllowed' <=> DayAllowed) /\ (WindowContains' <=> WindowContains)
            /\ LocalTime' = LocalTime /\ (FlattenDue(held)' <=> FlattenDue(held))
        BY <3>1, GatesStand
      <4>3. intent'[1] = "Enter" =>
              /\ DayAllowed'
              /\ strategy'.session_mode = "FixedWindow" => WindowContains'
              /\ \A cutoff \in strategy'.no_new_entries_after : LocalTime' < cutoff
        BY <3>1, <4>1, <4>2 DEF EntriesAllowed
      <4>4. intent' = <<"Flatten">> <=> FlattenDue(position)'
        BY <3>1, <4>1, <4>2 DEF FlattenDue
      <4> QED BY <4>3, <4>4 DEF GatesRespected
    <3>4. \/ intent' = NoIntent /\ outcome' \in {"Failed", "Mismatched"}
          \/ \E signals, exits :
               /\ outcome' = "Evaluated"
               /\ intent' = RulesIntent(Direction(signals), held, exits,
                                        EntriesAllowed(degraded, synchronized))
      BY <2>3, Zenon DEF EvaluateRules
    <3> QED BY <3>2, <3>3, <3>4
  <2>4. CASE Tick
    BY <2>4 DEF Tick, GatesRespected, NoIntent
  <2>5. CASE UNCHANGED vars
    <3>1. UNCHANGED <<strategy, now>> /\ UNCHANGED <<intent, outcome, position>>
      BY <2>5 DEF vars
    <3>2. /\ (DayAllowed' <=> DayAllowed) /\ (WindowContains' <=> WindowContains)
          /\ LocalTime' = LocalTime /\ (FlattenDue(position)' <=> FlattenDue(position))
      BY <3>1, GatesStand DEF FlattenDue
    <3> QED BY <3>1, <3>2 DEF GatesRespected
  <2> QED BY <2>2, <2>3, <2>4, <2>5 DEF Next
<1> QED BY <1>1, <1>2, PTL DEF Spec

\* A time is its day and the time on it.
LEMMA DayAndTime ==
  ASSUME NEW t \in Nat, NEW n \in Nat \ {0}
  PROVE  t = (t \div n) * n + (t % n) /\ t % n \in 0..n - 1 /\ t \div n \in Nat
OBVIOUS

\* A time of the day that begins at q * n is of that day.
LEMMA DayIsUnique ==
  ASSUME NEW q \in Int, NEW n \in Nat \ {0}, NEW r \in 0..n - 1
  PROVE  (q * n + r) \div n = q
OBVIOUS

\* A later time is of no earlier day.
LEMMA DaysInOrder ==
  ASSUME NEW t \in Nat, NEW u \in Nat, t <= u, NEW n \in Nat \ {0}
  PROVE  t \div n <= u \div n
OBVIOUS

\* An earlier day ends before a later one begins.
LEMMA EarlierDay ==
  ASSUME NEW a \in Int, NEW b \in Int, a < b, NEW n \in Nat \ {0}
  PROVE  a * n + n <= b * n
<1>1. (a + 1) * n <= b * n /\ (a + 1) * n = a * n + n
  OBVIOUS
<1> QED BY <1>1

\* A time of day, and how long before a day's start it is over midnight.
LEMMA Remainders ==
  ASSUME NEW n \in Nat \ {0}, NEW r \in 0..n - 1
  PROVE  r % n = r /\ (r # 0 => (0 - r) % n = n - r)
OBVIOUS

\* A moment in the window is in the session that began on its day or, in a window over
\* midnight, on the day before; and before the cutoff in it.
LEMMA WindowIsSession ==
  ASSUME NEW n \in Nat \ {0}, NEW a \in 0..n - 1, NEW b \in 0..n - 1, NEW q \in Nat,
         NEW l \in 0..n - 1, NEW cutoffs \in SUBSET (0..n - 1),
         IF a >= b THEN l >= a \/ l < b ELSE l >= a /\ l < b,
         \A c \in cutoffs : l < c,
         a >= b => \A c \in cutoffs : c < a,
         NEW length, length = IF b - a > 0 THEN b - a ELSE b - a + n
  PROVE  \E d \in {q - 1, q} :
           /\ d * n + a <= q * n + l /\ q * n + l < d * n + a + length
           /\ \A c \in cutoffs : q * n + l < d * n + a + ((c - a) % n)
<1>1. PICK t \in Int : t = q * n
  OBVIOUS
<1>2. (q - 1) * n = t - n
  BY <1>1
<1>3. ASSUME NEW c \in cutoffs, c >= a
      PROVE  (c - a) % n = c - a
  <2>1. c - a \in 0..n - 1
    BY <1>3
  <2> QED BY <2>1, Remainders
<1>4. ASSUME NEW c \in cutoffs, c < a
      PROVE  (c - a) % n = n - (a - c)
  <2>1. a - c \in 0..n - 1 /\ a - c # 0 /\ c - a = 0 - (a - c)
    BY <1>4
  <2> QED BY <2>1, Remainders
<1>5. CASE a >= b /\ l < b
  <2>1. (q - 1) * n + a <= q * n + l /\ q * n + l < (q - 1) * n + a + length
    BY <1>1, <1>2, <1>5
  <2>2. ASSUME NEW c \in cutoffs
        PROVE  q * n + l < (q - 1) * n + a + ((c - a) % n)
    BY <1>1, <1>2, <1>4, <1>5, <2>2
  <2> QED BY <2>1, <2>2
<1>6. CASE l >= a
  <2>1. q * n + a <= q * n + l /\ q * n + l < q * n + a + length
    BY <1>1, <1>6
  <2>2. ASSUME NEW c \in cutoffs
        PROVE  q * n + l < q * n + a + ((c - a) % n)
    BY <1>1, <1>3, <1>6, <2>2
  <2> QED BY <2>1, <2>2
<1> QED BY <1>5, <1>6

\* An entry is asked for in a session, before the first cutoff in it and on an allowed
\* day, for all strategies and days of any length; where a session goes over midnight,
\* provided its cutoff comes after it, since a cutoff is compared with the time of day
\* alone and one on the evening before would let entries through again after midnight.
THEOREM EntriesAreInSession ==
  ASSUME \A s \in Strategies : s.window.start >= s.window.end =>
           \A cutoff \in s.no_new_entries_after : cutoff < s.window.start
  PROVE  Spec => []EntryInsideSession
<1>1. StrategyTypeOK /\ GatesRespected => EntryInsideSession
  <2> SUFFICES ASSUME StrategyTypeOK, GatesRespected, intent[1] = "Enter"
               PROVE  /\ strategy.session_mode = "FixedWindow" =>
                           \E start \in SessionStarts :
                             /\ InSession(start)
                             /\ \A cutoff \in strategy.no_new_entries_after :
                                  now < start + ((cutoff - strategy.window.start) % DayLength)
                      /\ strategy.allowed_days # {} => (now \div DayLength) \in strategy.allowed_days
    BY DEF EntryInsideSession
  <2>1. strategy \in Strategies /\ now \in 0..LastTime /\ IsStrategy(strategy)
    BY StrategiesAssumption DEF StrategyTypeOK
  <2>2. strategy.allowed_days # {} => (now \div DayLength) \in strategy.allowed_days
    BY DEF GatesRespected, DayAllowed, Weekday
  <2>3. ASSUME strategy.session_mode = "FixedWindow"
        PROVE  \E start \in SessionStarts :
                 /\ InSession(start)
                 /\ \A cutoff \in strategy.no_new_entries_after :
                      now < start + ((cutoff - strategy.window.start) % DayLength)
    <3> DEFINE a == strategy.window.start
               b == strategy.window.end
               q == now \div DayLength
               l == now % DayLength
               cutoffs == strategy.no_new_entries_after
    <3>1. /\ DayLength \in Nat \ {0} /\ LastTime \in Nat /\ now \in Nat
          /\ a \in 0..DayLength - 1 /\ b \in 0..DayLength - 1
          /\ cutoffs \in SUBSET (0..DayLength - 1)
      BY <2>1, TimesAssumption DEF IsStrategy, IsTime
    <3>2. now = q * DayLength + l /\ l \in 0..DayLength - 1 /\ q \in Nat
      BY <3>1, DayAndTime
    <3>3. q <= LastTime \div DayLength /\ LastTime \div DayLength \in Nat
      <4>1. now <= LastTime
        BY <2>1
      <4>2. now \div DayLength <= LastTime \div DayLength
        BY <3>1, <4>1, DaysInOrder
      <4> QED BY <3>1, <4>2, DayAndTime
    <3>4. /\ IF a >= b THEN l >= a \/ l < b ELSE l >= a /\ l < b
          /\ \A c \in cutoffs : l < c
      BY <2>3 DEF GatesRespected, WindowContains, WrapsMidnight, LocalTime
    <3>5. a >= b => \A c \in cutoffs : c < a
      BY <2>1
    <3>6. SessionLength = IF b - a > 0 THEN b - a ELSE b - a + DayLength
      BY DEF SessionLength
    <3> HIDE DEF a, b, q, l, cutoffs
    <3>7. PICK d \in {q - 1, q} :
            /\ d * DayLength + a <= q * DayLength + l
            /\ q * DayLength + l < d * DayLength + a + SessionLength
            /\ \A c \in cutoffs : q * DayLength + l < d * DayLength + a + ((c - a) % DayLength)
      BY <3>1, <3>2, <3>4, <3>5, <3>6, WindowIsSession
    <3>8. d * DayLength + a \in SessionStarts
      <4>1. d \in -1..LastTime \div DayLength
        BY <3>2, <3>3, <3>7
      <4> QED BY <4>1 DEF SessionStarts, a
    <3>9. InSession(d * DayLength + a)
      BY <3>2, <3>7 DEF InSession
    <3>10. \A cutoff \in cutoffs : now < d * DayLength + a + ((cutoff - a) % DayLength)
      BY <3>2, <3>7
    <3> QED BY <3>8, <3>9, <3>10 DEF a, cutoffs
  <2> QED BY <2>2, <2>3
<1>2. Spec => []StrategyTypeOK
  <2>1. OneIntentPerSignal => StrategyTypeOK
    BY DEF OneIntentPerSignal
  <2> QED BY <2>1, SignalActsOnce, PTL
<1> QED BY <1>1, <1>2, GatesHold, PTL

\* The sessions of one window, by the day they begin: whether one goes on at a time, and
\* whether one has ended before on the same day.
Over(a, b, l) == IF a >= b THEN l >= b /\ l < a ELSE l >= b
GoesOn(n, a, length, last, t) ==
  \E d \in -1..last : d * n + a <= t /\ t < d * n + a + length
EndedOn(n, a, length, last, t, q) ==
  \E d \in -1..last : d * n + a + length <= t /\ (d * n + a + length) \div n = q

\* At a time of day a session is over, and not yet begun again, exactly if no session is
\* going on and one has ended on that day.
LEMMA EndedIsBetween ==
  ASSUME NEW n \in Nat \ {0}, NEW a \in 0..n - 1, NEW b \in 0..n - 1, NEW q \in Nat,
         NEW last \in Nat, q <= last, NEW l \in 0..n - 1,
         NEW length, length = IF b - a > 0 THEN b - a ELSE b - a + n
  PROVE  Over(a, b, l) <=> /\ ~GoesOn(n, a, length, last, q * n + l)
                           /\ EndedOn(n, a, length, last, q * n + l, q)
<1>1. PICK t \in Int : t = q * n
  OBVIOUS
<1>2. (q - 1) * n = t - n
  BY <1>1
<1>3. length \in Nat
  OBVIOUS
<1>4. ASSUME NEW d \in -1..last
      PROVE  /\ d * n \in Int
             /\ d < q => d * n + n <= t
             /\ d < q - 1 => d * n + n <= t - n
             /\ d > q => t + n <= d * n
             /\ a < b => (d * n + a + length) \div n = d
             /\ a >= b => (d * n + a + length) \div n = d + 1
  <2>1. d * n \in Int
    OBVIOUS
  <2>2. (d + 1) * n = d * n + n
    OBVIOUS
  <2>3. (d < q => d * n + n <= t) /\ (d > q => t + n <= d * n)
    BY <1>1, EarlierDay
  <2>4. d < q - 1 => d * n + n <= t - n
    BY <1>2, EarlierDay
  <2>5. ASSUME a < b PROVE (d * n + a + length) \div n = d
    <3>1. d * n + a + length = d * n + b
      BY <2>1, <2>5
    <3> QED BY <3>1, DayIsUnique
  <2>6. ASSUME a >= b PROVE (d * n + a + length) \div n = d + 1
    <3>1. d * n + a + length = (d + 1) * n + b
      BY <2>1, <2>2, <2>6
    <3> QED BY <3>1, DayIsUnique
  <2> QED BY <2>1, <2>3, <2>4, <2>5, <2>6
<1>5. CASE a < b
  <2>1. ASSUME l >= b, NEW d \in -1..last
        PROVE  ~(d * n + a <= t + l /\ t + l < d * n + a + length)
    <3>1. CASE d < q
      BY <1>4, <1>5, <2>1, <3>1
    <3>2. CASE d > q
      BY <1>1, <1>4, <1>5, <2>1, <3>2
    <3>3. CASE d = q
      BY <1>1, <1>5, <2>1, <3>3
    <3> QED BY <3>1, <3>2, <3>3
  <2>2. q \in -1..last /\ (q * n + a + length) \div n = q
    BY <1>4, <1>5
  <2>3. l >= b => q * n + a + length <= t + l
    BY <1>1, <1>5
  <2>4. ASSUME NEW d \in -1..last, d * n + a + length <= t + l, (d * n + a + length) \div n = q
        PROVE  l >= b
    <3>1. d = q
      BY <1>4, <1>5, <2>4
    <3> QED BY <1>1, <1>5, <2>4, <3>1
  <2>5. CASE l >= b
    <3>1. ~GoesOn(n, a, length, last, t + l)
      BY <2>1, <2>5 DEF GoesOn
    <3>2. EndedOn(n, a, length, last, t + l, q)
      BY <2>2, <2>3, <2>5 DEF EndedOn
    <3>3. Over(a, b, l)
      BY <1>5, <2>5 DEF Over
    <3> QED BY <1>1, <3>1, <3>2, <3>3
  <2>6. CASE ~(l >= b)
    <3>1. ~EndedOn(n, a, length, last, t + l, q)
      BY <2>4, <2>6 DEF EndedOn
    <3>2. ~Over(a, b, l)
      BY <1>5, <2>6 DEF Over
    <3> QED BY <1>1, <3>1, <3>2
  <2> QED BY <2>5, <2>6
<1>6. CASE a >= b
  <2>1. ASSUME l >= b, l < a, NEW d \in -1..last
        PROVE  ~(d * n + a <= t + l /\ t + l < d * n + a + length)
    <3>1. CASE d < q - 1
      BY <1>4, <1>6, <2>1, <3>1
    <3>2. CASE d > q
      BY <1>1, <1>4, <1>6, <2>1, <3>2
    <3>3. CASE d = q
      BY <1>1, <1>6, <2>1, <3>3
    <3>4. CASE d = q - 1
      BY <1>2, <1>6, <2>1, <3>4
    <3> QED BY <3>1, <3>2, <3>3, <3>4
  <2>2. q - 1 \in -1..last /\ q \in -1..last /\ ((q - 1) * n + a + length) \div n = q
    <3>1. q - 1 \in -1..last
      OBVIOUS
    <3> QED BY <1>4, <1>6, <3>1
  <2>3. l >= b => (q - 1) * n + a + length <= t + l
    BY <1>2, <1>6
  <2>4. ASSUME NEW d \in -1..last, d * n + a + length <= t + l, (d * n + a + length) \div n = q
        PROVE  l >= b
    <3>1. d = q - 1
      BY <1>4, <1>6, <2>4
    <3> QED BY <1>2, <1>6, <2>4, <3>1
  <2>5. ~(q * n + a <= t + l /\ t + l < q * n + a + length) => l < a
    BY <1>1, <1>6
  <2>6. CASE l >= b /\ l < a
    <3>1. ~GoesOn(n, a, length, last, t + l)
      BY <2>1, <2>6 DEF GoesOn
    <3>2. EndedOn(n, a, length, last, t + l, q)
      BY <2>2, <2>3, <2>6 DEF EndedOn
    <3>3. Over(a, b, l)
      BY <1>6, <2>6 DEF Over
    <3> QED BY <1>1, <3>1, <3>2, <3>3
  <2>7. CASE ~(l >= b /\ l < a)
    <3>1. EndedOn(n, a, length, last, t + l, q) => l >= b
      BY <2>4 DEF EndedOn
    <3>2. ~GoesOn(n, a, length, last, t + l) => l < a
      BY <2>2, <2>5 DEF GoesOn
    <3>3. ~Over(a, b, l)
      BY <1>6, <2>7 DEF Over
    <3> QED BY <1>1, <2>7, <3>1, <3>2, <3>3
  <2> QED BY <2>6, <2>7
<1> QED BY <1>5, <1>6

\* With a position, and nothing that holds the rules back, flattening is asked for
\* exactly between a session's end and the end of that day or the next session, for all
\* strategies, windows over midnight or not, and days of any length.
THEOREM SessionsAreFlattened == Spec => []FlattensAfterSession
<1>1. StrategyTypeOK /\ GatesRespected => FlattensAfterSession
  <2> SUFFICES ASSUME StrategyTypeOK, GatesRespected,
                      outcome = "Evaluated", position # "None",
                      strategy.session_mode = "FixedWindow", strategy.flatten_at_session_end,
                      strategy.flatten_by_time = {}, strategy.allowed_days = {}
               PROVE  intent = <<"Flatten">> <=>
                        /\ ~\E start \in SessionStarts : InSession(start)
                        /\ \E start \in SessionStarts :
                             LET end == start + SessionLength
                             IN end <= now /\ end \div DayLength = now \div DayLength
    BY DEF FlattensAfterSession
  <2>1. strategy \in Strategies /\ now \in 0..LastTime /\ IsStrategy(strategy)
    BY StrategiesAssumption DEF StrategyTypeOK
  <2>2. intent = <<"Flatten">> <=> SessionEndReached
    BY DEF GatesRespected, FlattenDue, DayAllowed
  <2> DEFINE a == strategy.window.start
             b == strategy.window.end
             q == now \div DayLength
             l == now % DayLength
             last == LastTime \div DayLength
  <2>3. /\ DayLength \in Nat \ {0} /\ LastTime \in Nat /\ now \in Nat /\ now <= LastTime
        /\ a \in 0..DayLength - 1 /\ b \in 0..DayLength - 1
    BY <2>1, TimesAssumption DEF IsStrategy, IsTime
  <2>4. now = q * DayLength + l /\ l \in 0..DayLength - 1 /\ q \in Nat
    BY <2>3, DayAndTime
  <2>5. q <= last /\ last \in Nat
    <3>1. now \div DayLength <= LastTime \div DayLength
      BY <2>3, DaysInOrder
    <3> QED BY <2>3, <3>1, DayAndTime
  <2>6. SessionEndReached <=> Over(a, b, l)
    BY DEF SessionEndReached, WrapsMidnight, LocalTime, Over
  <2>7. SessionLength = IF b - a > 0 THEN b - a ELSE b - a + DayLength
    BY DEF SessionLength
  <2>8. SessionStarts = {d * DayLength + a : d \in -1..last}
    BY DEF SessionStarts
  <2> HIDE DEF a, b, l, last
  <2>9. (\E start \in SessionStarts : InSession(start)) <=>
          GoesOn(DayLength, a, SessionLength, last, now)
    BY <2>8 DEF InSession, GoesOn
  <2>10. (\E start \in SessionStarts :
            LET end == start + SessionLength
            IN end <= now /\ end \div DayLength = now \div DayLength) <=>
           EndedOn(DayLength, a, SessionLength, last, now, q)
    BY <2>8, Zenon DEF EndedOn
  <2> HIDE DEF q
  <2>11. Over(a, b, l) <=> /\ ~GoesOn(DayLength, a, SessionLength, last, now)
                           /\ EndedOn(DayLength, a, SessionLength, last, now, q)
    BY <2>3, <2>4, <2>5, <2>7, EndedIsBetween
  <2> QED BY <2>2, <2>6, <2>9, <2>10, <2>11
<1>2. Spec => []StrategyTypeOK
  <2>1. OneIntentPerSignal => StrategyTypeOK
    BY DEF OneIntentPerSignal
  <2> QED BY <2>1, SignalActsOnce, PTL
<1> QED BY <1>1, <1>2, GatesHold, PTL

-----------------------------------------------------------------------------
(* The contract                                                            *)

\* A set of numbers that has one of them has a least one.
LEMMA LeastExists ==
  ASSUME NEW S \in SUBSET Nat, S # {}
  PROVE  \E p \in S : \A q \in S : p <= q
<1>1. PICK p \in S : \A q \in S : ~(<<q, p>> \in OpToRel(<, Nat))
  BY NatLessThanWellFounded, WFMin
<1>2. \A q \in S : ~(q < p)
  BY <1>1 DEF OpToRel
<1> QED BY <1>2

\* A chain of listings, and no two of one month.
IsChain(chain) == chain \subseteq ContractListing /\ ValidChain(chain)

\* While one contract of a chain is not rolled over, the front month is one that is not,
\* and of those the earliest: no contract that could still be traded is passed over
\* (select_front_month, whatever the order the provider lists them in).
THEOREM FrontMonthIsFirst ==
  ASSUME NEW chain, IsChain(chain), NEW as_of \in Int, Active(chain, as_of) # {}
  PROVE  /\ FrontMonth(chain, as_of) \in chain /\ IsActive(FrontMonth(chain, as_of), as_of)
         /\ \A other \in chain :
              Earlier(other.month, FrontMonth(chain, as_of).month) =>
                \E cutoff \in RolloverCutoff(other) : ~(as_of < cutoff)
<1> DEFINE orders == {Order(listing.month) : listing \in Active(chain, as_of)}
<1>1. \A listing \in Active(chain, as_of) : Order(listing.month) \in Nat
  BY DEF Active, IsChain, ContractListing, ContractMonth, Order
<1>2. orders \in SUBSET Nat /\ orders # {}
  BY <1>1
<1>3. PICK p \in orders : \A q \in orders : p <= q
  BY <1>2, LeastExists
<1>4. PICK first \in Active(chain, as_of) : Order(first.month) = p
  BY <1>3
<1>5. \A other \in Active(chain, as_of) : ~Earlier(other.month, first.month)
  BY <1>1, <1>3, <1>4 DEF Earlier
<1>6. /\ FrontMonth(chain, as_of) \in Active(chain, as_of)
      /\ \A other \in Active(chain, as_of) : ~Earlier(other.month, FrontMonth(chain, as_of).month)
  BY <1>4, <1>5 DEF FrontMonth
<1> QED BY <1>6 DEF Active, IsActive

\* As days go by, the contract that is chosen from a chain is never an earlier one than
\* before (select_front_month).
THEOREM FrontMonthRollsForward ==
  ASSUME NEW chain, IsChain(chain), NEW as_of \in Int, NEW later \in Int, as_of <= later,
         Active(chain, later) # {}
  PROVE  /\ Active(chain, as_of) # {}
         /\ ~Earlier(FrontMonth(chain, later).month, FrontMonth(chain, as_of).month)
<1>1. \A listing \in chain : \A cutoff \in RolloverCutoff(listing) : cutoff \in Int
  BY DEF IsChain, ContractListing, RolloverCutoff
<1>2. Active(chain, later) \subseteq Active(chain, as_of)
  BY <1>1 DEF Active, IsActive
<1>3. /\ FrontMonth(chain, later) \in chain
      /\ IsActive(FrontMonth(chain, later), as_of)
  BY <1>1, FrontMonthIsFirst DEF IsActive
<1>4. Earlier(FrontMonth(chain, later).month, FrontMonth(chain, as_of).month) =>
        \E cutoff \in RolloverCutoff(FrontMonth(chain, later)) : ~(as_of < cutoff)
  BY <1>2, <1>3, FrontMonthIsFirst
<1> QED BY <1>2, <1>3, <1>4 DEF IsActive

\* What the markets' chains have in common.
LEMMA MarketFacts ==
  ASSUME NEW market \in SupportedMarkets
  PROVE  /\ market.cycle_months \subseteq 1..12 /\ 12 \in market.cycle_months
         /\ market.rollover_day \in 1..28
BY DEF SupportedMarkets, Market, Quarterly

\* What a built-in chain lists.
LEMMA BuiltinListings ==
  ASSUME NEW market \in SupportedMarkets, NEW year \in Nat,
         NEW listing \in BuiltinChain(market, year)
  PROVE  /\ listing.month \in ContractMonth /\ listing.month.year \in year..(year + YearsAhead)
         /\ listing.month.month \in market.cycle_months
         /\ listing = BuiltinListing(market, listing.month)
<1>1. PICK y \in year..(year + YearsAhead), m \in market.cycle_months :
        listing = BuiltinListing(market, [year |-> y, month |-> m])
  BY DEF BuiltinChain
<1>2. [year |-> y, month |-> m] \in ContractMonth
  BY MarketFacts DEF ContractMonth, YearsAhead
<1>3. listing.month = [year |-> y, month |-> m]
  BY <1>1 DEF BuiltinListing
<1>4. listing.month.year = y /\ listing.month.month = m
  BY <1>3
<1> QED BY <1>1, <1>2, <1>3, <1>4

\* A built-in chain is a chain.
LEMMA BuiltinIsChain ==
  ASSUME NEW market \in SupportedMarkets, NEW year \in Nat
  PROVE  IsChain(BuiltinChain(market, year))
<1>1. ASSUME NEW listing \in BuiltinChain(market, year) PROVE listing \in ContractListing
  <2>1. /\ listing.month.year \in Int /\ listing.month.month \in Int
        /\ market.rollover_day \in Int
    BY BuiltinListings, MarketFacts DEF ContractMonth
  <2>2. RolloverDate(listing.month, market.rollover_day) \in Int
    BY <2>1 DEF RolloverDate, Date
  <2> QED BY <2>2, BuiltinListings DEF BuiltinListing, ContractListing
<1>2. ValidChain(BuiltinChain(market, year))
  BY BuiltinListings, MarketFacts DEF ValidChain
<1> QED BY <1>1, <1>2 DEF IsChain

\* No name is that of two markets, so that the first found is the only one.
LEMMA NamesAreDistinct ==
  ASSUME NEW market \in SupportedMarkets, NEW name \in market.names
  PROVE  MarketsNamed(name) = {market}
BY DEF MarketsNamed, SupportedMarkets, Market

\* A strategy for a supported market always gets a contract, even when the year turns
\* between the reading of the clock that builds the chains and the one that chooses
\* (compile_loaded_strategy, with_builtin_chains, resolve_market).
THEOREM BuiltinResolves ==
  ASSUME NEW market \in SupportedMarkets, NEW name \in market.names, NEW year \in Nat,
         NEW as_of \in Date(year, 1, 1)..Date(year + 1, 12, 31)
  PROVE  LoadedMapping(name, year, as_of).error = "none"
<1> DEFINE chain == BuiltinChain(market, year)
           december == [year |-> year + YearsAhead, month |-> 12]
           last == BuiltinListing(market, december)
<1>1. last \in chain
  <2>1. year + YearsAhead \in year..(year + YearsAhead) /\ 12 \in market.cycle_months
    BY MarketFacts DEF YearsAhead
  <2> QED BY <2>1 DEF BuiltinChain
<1>2. as_of < RolloverDate(december, market.rollover_day)
  <2>1. RolloverDate(december, market.rollover_day) =
          372 * (year + 2) + 31 * 10 + market.rollover_day
    BY MarketFacts DEF RolloverDate, Date, YearsAhead
  <2>2. as_of <= 372 * (year + 1) + 31 * 11 + 31 /\ market.rollover_day >= 1
    BY MarketFacts DEF Date
  <2> QED BY <2>1, <2>2, MarketFacts DEF Date
<1>3. last \in Active(chain, as_of)
  BY <1>1, <1>2 DEF Active, IsActive, RolloverCutoff, BuiltinListing
<1>4. ValidChain(chain) /\ chain # {}
  BY <1>1, BuiltinIsChain DEF IsChain
<1>5. MarketsNamed(name) = {market} /\ MarketsNamed(name) # {}
  BY NamesAreDistinct
<1>6. UNION {BuiltinChain(m, year) : m \in MarketsNamed(name)} = chain
  BY <1>5
<1> HIDE DEF chain, last, december
<1>7. LoadedMapping(name, year, as_of) = Resolution(name, chain, as_of)
  BY <1>6 DEF LoadedMapping
<1>8. Active(chain, as_of) # {}
  BY <1>3
<1> QED BY <1>4, <1>5, <1>7, <1>8 DEF Resolution

\* Though a feed's symbol keeps one digit of the year, no two contracts of a built-in
\* chain have the same (format_databento_raw_symbol).
THEOREM FeedSymbolsAreDistinct ==
  ASSUME NEW market \in SupportedMarkets, NEW year \in Nat,
         NEW a \in BuiltinChain(market, year), NEW b \in BuiltinChain(market, year),
         DatabentoSymbol(market.symbol_root, a.month) = DatabentoSymbol(market.symbol_root, b.month)
  PROVE  a = b
<1>1. a.month \in ContractMonth /\ b.month \in ContractMonth
  BY BuiltinIsChain DEF IsChain, ContractListing
<1>2. a.month.year \in year..(year + 2) /\ b.month.year \in year..(year + 2)
  BY BuiltinListings DEF YearsAhead
<1>3. a.month.month = b.month.month /\ a.month.year % 10 = b.month.year % 10
  BY DEF DatabentoSymbol
<1>4. a.month.year = b.month.year
  BY <1>1, <1>2, <1>3 DEF ContractMonth
<1>5. a.month = b.month
  BY <1>1, <1>3, <1>4 DEF ContractMonth
<1> QED BY <1>5, BuiltinIsChain DEF IsChain, ValidChain
-----------------------------------------------------------------------------
(* What the loader compiles                                                *)

\* What is there is what is read; else, the value that stands for it.
LEMMA OptionalOrElse ==
  ASSUME NEW S, NEW option \in Optional(S), NEW default
  PROVE  /\ option \subseteq S
         /\ option = {} => OrElse(option, default) = default
         /\ option # {} => OrElse(option, default) \in option
         /\ Len(AsSequence(option)) <= 1 /\ AsSequence(option) \in Seq(S)
<1>1. CASE option = {}
  BY <1>1 DEF OrElse, AsSequence
<1>2. CASE option # {}
  <2>1. PICK x \in S : option = {x}
    BY <1>2 DEF Optional
  <2>2. (CHOOSE y \in option : TRUE) = x
    BY <2>1
  <2> QED BY <2>1, <2>2 DEF OrElse, AsSequence
<1> QED BY <1>1, <1>2

\* The strategies StrategyRuntime is about are those that the loader and then
\* StrategyRuntimeCompiler compile.
THEOREM CompiledIsStrategy ==
  ASSUME NEW document \in Documents(Timeframes, Conditions), IsCompiled(document, DayLength),
         TimesParse(document.session, DayLength)
  PROVE  IsStrategy(AsEvaluated(document))
<1> DEFINE s == AsEvaluated(document)
           session == document.session
           signal == document.signal_confirmation
           entry == document.entry_rules
           exit == document.exit_rules
           warmup == document.warmup
           data == document.data_requirements
           failsafes == document.failsafes
<1>1. /\ session \in SessionRules /\ signal \in SignalConfirmation(Conditions)
      /\ entry \in EntryRules(Conditions) /\ exit \in ExitRules(Conditions)
      /\ warmup \in WarmupRequirements(Timeframes) /\ data \in DataRequirements(Timeframes)
      /\ failsafes \in FailsafeRules
  BY DEF Documents
<1>2. ValidSignal(s)
  <2>1. /\ s.primary = signal.primary_conditions /\ s.mode = signal.mode
        /\ s.n_required = OrElse(signal.n_required, 0)
        /\ s.score_threshold = OrElse(signal.score_threshold, <<0, 1>>)
    BY DEF AsEvaluated
  <2>2. /\ signal.primary_conditions \in Seq(Conditions)
        /\ signal.mode \in {"All", "Any", "NOfM", "WeightedScore"}
        /\ signal.n_required \in Optional(Nat)
        /\ signal.score_threshold \in Optional(Int \X (Nat \ {0}))
    BY <1>1 DEF SignalConfirmation
  <2>3. ValidSignalConfirmation(signal)
    BY DEF IsCompiled
  <2>4. signal.mode = "NOfM" =>
          OrElse(signal.n_required, 0) \in 1..Len(signal.primary_conditions)
    <3>1. ASSUME signal.mode = "NOfM"
          PROVE  OrElse(signal.n_required, 0) \in signal.n_required
      BY <2>2, <2>3, <3>1, OptionalOrElse DEF ValidSignalConfirmation, Positive
    <3>2. signal.n_required \subseteq Nat
      BY <2>2, OptionalOrElse
    <3>3. Len(signal.primary_conditions) \in Nat
      BY <2>2
    <3> QED
      BY <2>3, <3>1, <3>2, <3>3 DEF ValidSignalConfirmation, Positive
  <2>5. signal.mode = "WeightedScore" =>
          OrElse(signal.score_threshold, <<0, 1>>) \in Int \X (Nat \ {0})
    <3>1. signal.score_threshold \subseteq Int \X (Nat \ {0})
      <4>1. PICK S : S = Int \X (Nat \ {0}) /\ signal.score_threshold \in Optional(S)
        BY <2>2
      <4> QED BY <4>1 DEF Optional
    <3>2. signal.mode = "WeightedScore" => signal.score_threshold # {}
      BY <2>3 DEF ValidSignalConfirmation, Given
    <3>3. signal.score_threshold # {} =>
            OrElse(signal.score_threshold, <<0, 1>>) \in signal.score_threshold
      BY <2>2, OptionalOrElse
    <3> QED BY <3>1, <3>2, <3>3
  <2> HIDE DEF s
  <2> QED
    BY <2>1, <2>2, <2>3, <2>4, <2>5 DEF ValidSignal, ValidSignalConfirmation
<1>3. ValidEntry(s)
  <2>1. s.sides = (IF entry.long_enabled THEN {"Long"} ELSE {})
                    \cup (IF entry.short_enabled THEN {"Short"} ELSE {})
    BY DEF AsEvaluated
  <2>2. entry.long_enabled \/ entry.short_enabled
    BY DEF IsCompiled, ValidEntryRules
  <2> HIDE DEF s
  <2> QED BY <2>1, <2>2 DEF ValidEntry, Side
<1>4. /\ \A conditions \in {s.regime_filter, s.sequence, s.primary, s.secondary,
                            s.entry["Long"], s.entry["Short"], s.exit} :
           conditions \in Seq(Conditions)
      /\ Len(s.regime_filter) <= 1
  <2>1. /\ s.regime_filter = AsSequence(signal.regime_filter) /\ s.sequence = signal.sequence
        /\ s.primary = signal.primary_conditions /\ s.secondary = signal.secondary_conditions
        /\ s.entry["Long"] = entry.long_conditions /\ s.entry["Short"] = entry.short_conditions
        /\ s.exit = exit.exit_conditions
    BY DEF AsEvaluated
  <2>2. /\ signal.regime_filter \in Optional(Conditions)
        /\ signal.sequence \in Seq(Conditions)
        /\ signal.primary_conditions \in Seq(Conditions)
        /\ signal.secondary_conditions \in Seq(Conditions)
    BY <1>1 DEF SignalConfirmation
  <2>3. /\ entry.long_conditions \in Seq(Conditions) /\ entry.short_conditions \in Seq(Conditions)
        /\ exit.exit_conditions \in Seq(Conditions)
    BY <1>1 DEF EntryRules, ExitRules
  <2>4. AsSequence(signal.regime_filter) \in Seq(Conditions)
        /\ Len(AsSequence(signal.regime_filter)) <= 1
    BY <2>2, OptionalOrElse
  <2> HIDE DEF s
  <2> QED BY <2>1, <2>2, <2>3, <2>4
<1>5. /\ DOMAIN s.bars_required \in (SUBSET s.timeframes) \ {{}}
      /\ \A tf \in DOMAIN s.bars_required : s.bars_required[tf] \in Nat
      /\ s.timeframes \in SUBSET Timeframes
  <2>1. s.bars_required = warmup.bars_required /\ s.timeframes = Declared(data)
    BY DEF AsEvaluated
  <2>2. ValidWarmup(warmup, data)
    BY DEF IsCompiled
  <2>3. PICK S \in SUBSET Timeframes : warmup.bars_required \in [S -> Nat]
    BY <1>1 DEF WarmupRequirements
  <2>4. Declared(data) \subseteq Timeframes
    BY <1>1 DEF Declared, DataRequirements
  <2> HIDE DEF s
  <2> QED BY <2>1, <2>2, <2>3, <2>4 DEF ValidWarmup
<1>6. /\ s.session_mode \in {"Always", "FixedWindow"}
      /\ IsTime(s.window.start) /\ IsTime(s.window.end)
      /\ \A time \in s.no_new_entries_after \cup s.flatten_by_time : IsTime(time)
  <2> DEFINE closed == [start |-> 0, end |-> 0]
             by_time == {rule \in session.flatten_rule : rule.mode = "ByTime"}
  <2>1. /\ s.session_mode = session.mode /\ s.window = OrElse(session.trade_window, closed)
        /\ s.no_new_entries_after = session.no_new_entries_after
        /\ s.flatten_by_time = UNION {rule.time : rule \in by_time}
    BY DEF AsEvaluated
  <2>2. session.mode \in {"Always", "FixedWindow"}
        /\ session.trade_window \in Optional([start : Int, end : Int])
    BY <1>1 DEF SessionRules
  <2>3. IsTime(s.window.start) /\ IsTime(s.window.end)
    <3> HIDE DEF s
    <3>1. CASE session.trade_window = {}
      <4>1. s.window = closed
        BY <2>1, <2>2, <3>1, OptionalOrElse
      <4> QED BY <4>1, TimesAssumption DEF IsTime
    <3>2. CASE session.trade_window # {}
      <4>1. s.window \in session.trade_window
        BY <2>1, <2>2, <3>2, OptionalOrElse
      <4> QED BY <4>1 DEF TimesParse, IsTimeOfDay, IsTime
    <3> QED BY <3>1, <3>2
  <2>4. \A time \in session.no_new_entries_after : IsTime(time)
    BY DEF TimesParse, IsTimeOfDay, IsTime
  <2>5. \A time \in UNION {rule.time : rule \in by_time} : IsTime(time)
    BY DEF TimesParse, IsTimeOfDay, IsTime
  <2> HIDE DEF s, by_time
  <2> QED BY <2>1, <2>2, <2>3, <2>4, <2>5
<1>7. {s.ready_requires_all, s.flatten_at_session_end, s.exit_on_opposite_signal,
       s.pause_on_reconnect, s.pause_on_mismatch, s.no_entries_on_degrade} \subseteq BOOLEAN
  <2>1. /\ s.ready_requires_all = warmup.ready_requires_all
        /\ s.exit_on_opposite_signal = exit.exit_on_opposite_signal
        /\ s.pause_on_reconnect = failsafes.pause_on_reconnect_until_reviewed
        /\ s.pause_on_mismatch = failsafes.pause_on_broker_sync_mismatch
        /\ s.no_entries_on_degrade = failsafes.no_new_entries_on_data_degrade
        /\ s.flatten_at_session_end \in BOOLEAN
    BY DEF AsEvaluated
  <2>2. /\ warmup.ready_requires_all \in BOOLEAN /\ exit.exit_on_opposite_signal \in BOOLEAN
    BY <1>1 DEF WarmupRequirements, ExitRules
  <2>3. /\ failsafes.pause_on_reconnect_until_reviewed \in BOOLEAN
        /\ failsafes.pause_on_broker_sync_mismatch \in BOOLEAN
        /\ failsafes.no_new_entries_on_data_degrade \in BOOLEAN
    BY <1>1 DEF FailsafeRules
  <2> HIDE DEF s
  <2> QED BY <2>1, <2>2, <2>3
<1> HIDE DEF s
<1> QED BY <1>2, <1>3, <1>4, <1>5, <1>6, <1>7 DEF IsStrategy, s
=============================================================================
