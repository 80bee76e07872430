--------------------------- MODULE BarAggregator ---------------------------
(***************************************************************************)
(* The bars of one loaded strategy: MultiTimeframeAggregator and the       *)
(* rolling buffers of WarmupTracker (crates/market_data), the historical   *)
(* backfill, and the chart the host builds from both.                      *)
(*                                                                         *)
(* A source bar is <<stream, closed_at>>; stream 0 is the backfill.  Open, *)
(* high, low, close and volume of a longer bar are folds of the source     *)
(* bars that went into it, so a bar is the sequence of those, "of", and    *)
(* the start of its interval.  MarketDataService has the same buffers as   *)
(* counts, with the failures and the flags around them; here every start   *)
(* succeeds.  Left out: bars of the other instruments, which no buffer     *)
(* takes, and the sample candles shown when there is no live data.         *)
(***************************************************************************)
EXTENDS Integers, FiniteSets, SequencesExt

CONSTANTS
  Strategies,   \* what strategies ask for: see IsStrategy
  Width,        \* timeframe_duration
  ChartWindow,  \* CHART_BACKFILL_VISIBLE_WINDOW, and the floor of a capacity
  MinReplay,    \* MIN_STARTUP_REPLAY_DURATION
  Configured,   \* the time at which the service is configured
  Limits,       \* pages a chart is asked for
  LastTime,     \* bound: when the market closes
  MaxStreams,   \* bound: starts of the service
  MaxBars       \* bound: source bars of a behaviour, by their timeframe

Timeframes == {"1s", "1m", "5m"}

\* The data requirements and the warmup of a strategy that validates.
IsStrategy(s) ==
  /\ s.timeframes \in (SUBSET Timeframes) \ {{}}
  /\ s.multi_timeframe \in BOOLEAN
  /\ Cardinality(s.timeframes) > 1 => s.multi_timeframe
  /\ DOMAIN s.bars_required \in (SUBSET s.timeframes) \ {{}}
  /\ s.bars_required \in [DOMAIN s.bars_required -> Nat \ {0}]

ASSUME WidthAssumption ==
  /\ Width \in [Timeframes -> Nat \ {0}]
  /\ Width["1m"] % Width["1s"] = 0 /\ Width["5m"] % Width["1m"] = 0
  /\ Width["1s"] < Width["1m"] /\ Width["1m"] < Width["5m"]
ASSUME StrategiesAssumption == \A s \in Strategies : IsStrategy(s)
ASSUME TimesAssumption ==
  {ChartWindow, MinReplay, Configured, LastTime} \subseteq Nat /\ Configured <= LastTime
ASSUME BoundsAssumption ==
  /\ MaxStreams \in Nat
  /\ MaxBars \in [{"1s", "1m"} -> Nat]
  /\ \A limit \in Limits : limit \in Nat \ {0}

VARIABLES
  strategy,
  windows,     \* per timeframe: the AggregationWindow in progress, {} or a singleton
  buffers,     \* per timeframe of bars_required: the RollingBuffer
  historical,  \* historical_chart_bars
  stream,      \* the stream in use, 0 before the first start
  clock,       \* closed_at of its last source bar, or where its replay begins
  now,         \* closed_at of the newest bar of the market
  fed,         \* history: source bars the aggregator was given
  emitted      \* history: per timeframe, every bar completed

vars == <<strategy, windows, buffers, historical, stream, clock, now, fed, emitted>>

-----------------------------------------------------------------------------
\* provider_source_timeframe
SourceOf(s) == IF "1s" \in s.timeframes THEN "1s" ELSE "1m"
Source == SourceOf(strategy)

\* build_aggregator
TargetsOf(s) ==
  IF s.multi_timeframe /\ Cardinality(s.timeframes) > 1 THEN s.timeframes \ {SourceOf(s)} ELSE {}
Targets == TargetsOf(strategy)

Required == DOMAIN strategy.bars_required

AlignWindowStart(time, tf) == time - (time % Width[tf])
ClosedAt(bar, tf) == bar.start + Width[tf]

\* retained_buffer_capacity
Capacity(tf) == Max({strategy.bars_required[tf], ChartWindow \div Width[tf], 1})

\* Mutants of Push: nothing is dropped; the newest bar is put first.
PushUnbounded(buffer, bar, tf) == Append(buffer, bar)
PushAtFront(buffer, bar, tf) ==
  <<bar>> \o SubSeq(buffer, 1, Min({Len(buffer), Capacity(tf) - 1}))

\* RollingBuffer::push
Push(buffer, bar, tf) ==
  Append(IF Len(buffer) = Capacity(tf) THEN Tail(buffer) ELSE buffer, bar)

PushAll(buffer, bars, tf) == FoldLeft(LAMBDA b, bar : Push(b, bar, tf), buffer, bars)
-----------------------------------------------------------------------------
\* Mutant of Opened: a bar belongs to the interval in which it closes.
OpenedAtClose(id, source, target) == AlignWindowStart(id[2], target)

Opened(id, source, target) == AlignWindowStart(id[2] - Width[source], target)

\* Mutant of Joined: a new window is not reset.
JoinedWithoutReset(window, source, target, id) ==
  [start |-> Opened(id, source, target),
   of |-> Append(IF window = {} THEN <<>> ELSE (CHOOSE w \in window : TRUE).of, id)]

\* The window a source bar leaves open or closes: the one in progress if the bar
\* is of its interval, or one of its own.
Joined(window, source, target, id) ==
  LET start == Opened(id, source, target)
      same == {w \in window : w.start = start}
  IN IF same = {} THEN [start |-> start, of |-> <<id>>]
     ELSE LET w == CHOOSE w \in same : TRUE IN [w EXCEPT !.of = Append(@, id)]

\* A window of another interval, older or newer, is finished first.
Replaced(window, source, target, id) == {w \in window : w.start # Opened(id, source, target)}

\* Mutant of Closes: a window waits for the bar after its last.
ClosesLate(source, target, id) == id[2] > Opened(id, source, target) + Width[target]

Closes(source, target, id) == id[2] >= Opened(id, source, target) + Width[target]

\* Mutant of Completed: what a window of another interval holds is dropped.
CompletedInTime(window, source, target, id) ==
  IF Closes(source, target, id) THEN <<Joined(window, source, target, id)>> ELSE <<>>

Completed(window, source, target, id) ==
  SetToSeq(Replaced(window, source, target, id))
    \o (IF Closes(source, target, id) THEN <<Joined(window, source, target, id)>> ELSE <<>>)

WindowAfter(window, source, target, id) ==
  IF Closes(source, target, id) THEN {} ELSE {Joined(window, source, target, id)}

-----------------------------------------------------------------------------
\* Per timeframe, how many bars the backfill keeps, and the latest ones up to a
\* time as the historical service has them, in a market without gaps.
BarTarget(tf) == Max({ChartWindow \div Width[tf], 1})

Fetched(tf, from, last) ==
  [i \in 1..((last - from) \div Width[tf]) |-> <<0, from + i * Width[tf]>>]

TakeLast(seq, count) == SubSeq(seq, Max({1, Len(seq) - count + 1}), Len(seq))

\* aggregate_one_minute_bars, with the flush of the last window.
Aggregated(minutes, target) ==
  LET Step(done, id) ==
        [window |-> WindowAfter(done.window, "1m", target, id),
         completed |-> done.completed \o Completed(done.window, "1m", target, id)]
      done == FoldLeft(Step, [window |-> {}, completed |-> <<>>], minutes)
  IN done.completed \o SetToSeq(done.window)

AsBar(id, tf) == [start |-> id[2] - Width[tf], of |-> <<id>>]

\* fetch_recent_chart_backfill when the newest minute it gets closes at "last".
Backfill(last) ==
  LET minutes == TakeLast(Fetched("1m", 0, last), BarTarget("1m"))
      seconds == Fetched("1s", Max({0, last - ChartWindow + Width["1m"] - Width["1s"]}), last)
      Singles(ids, tf) == [i \in 1..Len(ids) |-> AsBar(ids[i], tf)]
  IN [tf \in Timeframes |->
        CASE tf = "1s" /\ "1s" \in strategy.timeframes ->
               Singles(TakeLast(seconds, BarTarget("1s")), "1s")
          [] tf = "1m" /\ strategy.timeframes \cap {"1m", "5m"} # {} -> Singles(minutes, "1m")
          [] tf = "5m" /\ "5m" \in strategy.timeframes ->
               TakeLast(Aggregated(minutes, "5m"), BarTarget("5m"))
          [] OTHER -> <<>>]

NoBars == [tf \in Timeframes |-> <<>>]

\* strategy_warmup_replay_from; time 0 is the midnight before.
ReplayFrom ==
  LET Window(tf) == Max({strategy.bars_required[tf] * Width[tf], MinReplay})
  IN Max({0, Min({AlignWindowStart(Configured, tf) - Window(tf) : tf \in Required})})

-----------------------------------------------------------------------------
\* configure_for_strategy
Init ==
  /\ strategy \in Strategies
  /\ windows = [tf \in Timeframes |-> {}]
  /\ buffers = [tf \in Required |-> <<>>]
  /\ historical = NoBars
  /\ stream = 0
  /\ clock = 0
  /\ now = Configured
  /\ fed = {}
  /\ emitted = [tf \in Timeframes |-> {}]

\* RuntimeMarketDataManager::start_warmup: the tracker is reset, the aggregator is
\* not, and the gateway replays from the time found when the service was
\* configured.  Until a backfill has been fetched it is asked for, and may lag
\* by a minute or fail.
StartWarmup ==
  /\ stream < MaxStreams
  /\ stream' = stream + 1
  /\ clock' = ReplayFrom
  /\ \E lag \in {0, Width["1m"]}, fetched \in BOOLEAN :
       LET last == AlignWindowStart(now, "1m") - lag
           backfill == IF fetched /\ historical = NoBars /\ last > 0 THEN Backfill(last) ELSE NoBars
       IN /\ buffers' = [tf \in Required |-> PushAll(<<>>, backfill[tf], tf)]
          /\ historical' = IF historical = NoBars THEN backfill ELSE historical
  /\ UNCHANGED <<strategy, windows, now, fed, emitted>>

\* record_event of a source bar.  It is recorded first, then what it completed,
\* the newest first: the queue is emptied from its end.
RecordBar(at) ==
  /\ stream > 0
  /\ at > clock
  /\ at % Width[Source] = 0
  /\ Cardinality(fed) < MaxBars[Source]
  /\ LET id == <<stream, at>>
         completed == [tf \in Timeframes |->
                         IF tf \in Targets THEN Completed(windows[tf], Source, tf, id) ELSE <<>>]
     IN /\ windows' = [tf \in Timeframes |->
                         IF tf \in Targets THEN WindowAfter(windows[tf], Source, tf, id) ELSE {}]
        /\ emitted' = [tf \in Timeframes |-> emitted[tf] \cup ToSet(completed[tf])]
        /\ buffers' = [tf \in Required |->
                         PushAll(buffers[tf], IF tf = Source THEN <<AsBar(id, tf)>>
                                              ELSE Reverse(completed[tf]), tf)]
        /\ fed' = fed \cup {id}
  /\ clock' = at
  /\ now' = Max({now, at})
  /\ UNCHANGED <<strategy, historical, stream>>

Next == StartWarmup \/ \E at \in 1..LastTime : RecordBar(at)

Spec == Init /\ [][Next]_vars

-----------------------------------------------------------------------------
\* The chart: RuntimeChartBar, and what the host answers from the two sources.
ChartBar(bar, tf, complete) ==
  [closed_at |-> ClosedAt(bar, tf), of |-> bar.of, is_complete |-> complete]

LiveBars(tf) ==
  IF tf \in Required
  THEN [i \in 1..Len(buffers[tf]) |-> ChartBar(buffers[tf][i], tf, TRUE)] ELSE <<>>

HistoricalBars(tf) ==
  [i \in 1..Len(historical[tf]) |-> ChartBar(historical[tf][i], tf, TRUE)]

InOrder(a, b) == a.closed_at < b.closed_at

Nth(times, i) == CHOOSE time \in times : Cardinality({t \in times : t < time}) = i - 1

\* Mutant of MergeChartBars: the live bars follow the historical ones.
MergeChartBarsInTurn(history, live) == history \o live

\* merge_chart_bars: of several bars that close together, the last counts.
MergeChartBars(history, live) ==
  IF history = <<>> THEN live
  ELSE IF live = <<>> THEN history
  ELSE LET all == history \o live
           LastAt(time) == all[Max({i \in 1..Len(all) : all[i].closed_at = time})]
           times == {all[i].closed_at : i \in 1..Len(all)}
       IN [i \in 1..Cardinality(times) |-> LastAt(Nth(times, i))]

AllChartBars(tf) == MergeChartBars(HistoricalBars(tf), LiveBars(tf))

\* paginate_chart_bars
Page(bars, limit) == TakeLast(bars, limit)
PageBefore(bars, before, limit) ==
  LET kept == {i \in 1..Len(bars) : bars[i].closed_at < before}
  IN Page([i \in 1..Cardinality(kept) |-> bars[Nth(kept, i)]], limit)

\* forming_runtime_chart_bar, from the buffer of the next smaller timeframe.
FormingFrom(tf) == IF tf = "5m" THEN "1m" ELSE "1s"

FormingBars(tf) ==
  LET source == LiveBars(FormingFrom(tf))
      Start(bar) == AlignWindowStart(bar.closed_at - Width[FormingFrom(tf)], tf)
      end == Start(Last(source)) + Width[tf]
      inside == SelectSeq(source, LAMBDA bar : Start(bar) + Width[tf] = end)
      completed == LiveBars(tf)
  IN IF tf = "1s" \/ source = <<>> THEN {}
     ELSE IF completed # <<>> /\ Last(completed).closed_at >= end THEN {}
     ELSE {[closed_at |-> end, of |-> FlattenSeq([i \in 1..Len(inside) |-> inside[i].of]),
            is_complete |-> Last(source).closed_at >= end]}

\* sort_by_key, which leaves bars that close together in their order.
Sorted(bars) ==
  LET Earlier(k) == {i \in 1..Len(bars) : \/ InOrder(bars[i], bars[k])
                                          \/ i < k /\ ~InOrder(bars[k], bars[i])}
  IN [n \in 1..Len(bars) |->
        bars[CHOOSE k \in 1..Len(bars) : Cardinality(Earlier(k)) = n - 1]]

\* merge_runtime_chart_bar
WithForming(bars, bar) ==
  LET at == {i \in 1..Len(bars) : bars[i].closed_at = bar.closed_at}
  IN IF at = {} THEN Sorted(Append(bars, bar))
     ELSE IF bars[Min(at)].is_complete /\ ~bar.is_complete THEN bars
     ELSE [bars EXCEPT ![Min(at)] = bar]

\* chart_snapshot_bars
SnapshotBars(tf, limit) ==
  LET bars == Page(AllChartBars(tf), limit)
  IN IF FormingBars(tf) = {} THEN bars
     ELSE Page(WithForming(bars, CHOOSE bar \in FormingBars(tf) : TRUE), limit)

-----------------------------------------------------------------------------
BarsTypeOK ==
  /\ strategy \in Strategies
  /\ \A tf \in Timeframes : Cardinality(windows[tf]) <= 1
  /\ stream \in 0..MaxStreams
  /\ {clock, now} \subseteq 0..LastTime
  /\ fed \subseteq (1..MaxStreams) \X (1..LastTime)

Holders(tf) == windows[tf] \cup emitted[tf]

\* Whatever gaps, replays and restarts there are, each source bar goes into one
\* bar of each target timeframe, once, and the bar is either in progress or out;
\* and the aggregator's state keeps to its types.
EachBarInOnePlace ==
  /\ BarsTypeOK
  /\ \A tf \in Targets :
       /\ windows[tf] \cap emitted[tf] = {}
       /\ \A id \in fed : \E h \in Holders(tf) : id \in ToSet(h.of)
       /\ \A h \in Holders(tf) : \A i \in DOMAIN h.of :
            /\ h.of[i] \in fed
            /\ \A g \in Holders(tf) : \A j \in DOMAIN g.of :
                 g.of[j] = h.of[i] => g = h /\ j = i

\* A bar of a longer timeframe has all source bars of its interval that the
\* streams it is made from delivered, in the order of their times, and no other;
\* and none is held back: the stream has delivered nothing at or past the end of
\* a window that is in progress.
BarsGroupByWindow ==
  \A tf \in Targets : \A h \in Holders(tf) :
    /\ \A i \in DOMAIN h.of :
         {id \in fed : id[1] = h.of[i][1] /\ h.start < id[2] /\ id[2] <= ClosedAt(h, tf)}
           = {id \in ToSet(h.of) : id[1] = h.of[i][1]}
    /\ \A i, j \in DOMAIN h.of : i < j /\ h.of[i][1] = h.of[j][1] => h.of[i][2] < h.of[j][2]
    /\ h \in windows[tf] => \A id \in fed : id[1] = Last(h.of)[1] => id[2] < ClosedAt(h, tf)

\* The windows survive a restart, which replays: the bar in progress then may be
\* completed early, or take the same source bars again, but it is the only one.
RestartMixesOneBar ==
  \A tf \in Targets : \A s \in 1..stream :
    \A g, h \in {b \in Holders(tf) : \E i, j \in DOMAIN b.of : b.of[i][1] < s /\ b.of[j][1] = s} :
      g = h

\* A strategy reads its buffers as series in time.  Of the bars one stream made,
\* only a neighbour may be out of order: one source bar, the last of its
\* interval, closed both its own window and the one before the gap.  And no buffer
\* outgrows its capacity.
OutOfOrderOnlyAcrossGap ==
  /\ \A tf \in Required : Len(buffers[tf]) <= Capacity(tf)
  /\ \A tf \in Required \cap Targets :
       \A i \in 1..Len(buffers[tf]) : \A j \in i + 1..Len(buffers[tf]) :
         LET a == buffers[tf][i]
             b == buffers[tf][j]
             ThisStream == \A id \in ToSet(a.of) \cup ToSet(b.of) : id[1] = stream
         IN ThisStream /\ a.start >= b.start =>
              /\ j = i + 1
              /\ a.of = <<<<stream, ClosedAt(a, tf)>>>>
              /\ a.start # b.start

\* With a backfill, a chart and the page before it read on: in order, without a
\* bar twice, and with every bar of the time they span.
ChartReadsOn ==
  \A tf \in Timeframes, limit \in Limits : historical[tf] # <<>> =>
    LET chart == SnapshotBars(tf, limit)
        older == PageBefore(AllChartBars(tf), chart[1].closed_at, limit)
        both == older \o chart
    IN /\ \A i, j \in 1..Len(both) : i < j => both[i].closed_at < both[j].closed_at
       /\ \A bar \in ToSet(AllChartBars(tf)) :
            bar.closed_at >= both[1].closed_at
              => \E i \in 1..Len(both) : both[i].closed_at = bar.closed_at

\* crates/market_data/src/lib.rs:1690: a strategy of five-minute bars alone uses
\* the one-minute feed.  The bars of that feed then have to reach its buffer.
BarsReachEveryTimeframe ==
  \A tf \in Required : tf # Source =>
    \A id \in fed : \E h \in Holders(tf) : id \in ToSet(h.of)
=============================================================================
