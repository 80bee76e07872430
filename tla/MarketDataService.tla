------------------------- MODULE MarketDataService -------------------------
(***************************************************************************)
(* The market-data service of one loaded strategy: MarketDataService, the  *)
(* session manager and coordinator of crates/market_data, the live         *)
(* transport, and the two operations of the host's RuntimeMarketData-      *)
(* Manager that drive them.  Both hold the market_data lock throughout, so *)
(* start_warmup is one action; a refresh is a loop of polls between which  *)
(* the gateway moves on.                                                   *)
(*                                                                         *)
(* A bar is a count: buffers keep at least the required number, and more   *)
(* is not told apart.  Which source bar completes a bar of a longer        *)
(* timeframe is left open here, and modelled in BarAggregator.             *)
(* reconnect(), which only tests call, is not an action.                   *)
(***************************************************************************)
EXTENDS Integers

CONSTANTS
  Feeds,             \* the required (symbol, feed) pairs
  BarFeed,           \* the one that carries the primary symbol's source bars
  Timeframes,        \* warmup.bars_required: its timeframes
  SourceTimeframe,   \* provider_source_timeframe
  Required,          \* and how many bars each needs
  PollBudget         \* MARKET_DATA_POLL_BUDGET

ASSUME FeedsAssumption == BarFeed \in Feeds
ASSUME RequiredAssumption == Required \in [Timeframes -> Nat \ {0}]
ASSUME PollBudgetAssumption == PollBudget \in Nat \ {0}

VARIABLES
  warmup_mode,        \* of the strategy: LiveOnly or ReplayFrom
  ready_requires_all, \* of the strategy
  stream,             \* the transport's client, and what the gateway does with it
  connection_state,   \* MarketDataConnectionState, as seen outside the lock
  degraded,           \* degradation_reason is Some
  ready_feeds,        \* feeds whose status is Ready; the others are Pending
  bars,               \* per timeframe: bars in the warmup buffer
  started,            \* WarmupTracker.started_at is Some
  warmup_requested, replay_caught_up,
  seeded,             \* historical_chart_bars is not empty
  polls,              \* polls the refresh in progress has left, or NoRefresh
  last_snapshot,      \* what the host last reported
  replay_finished,    \* history: this stream has delivered ReplayCompleted
  epoch               \* history: flips at every successful start

service_vars == <<connection_state, degraded, ready_feeds, bars, started,
                  warmup_requested, replay_caught_up>>
strategy_vars == <<warmup_mode, ready_requires_all>>
market_vars == <<strategy_vars, stream, service_vars, seeded, polls, last_snapshot,
          replay_finished, epoch>>

NoRefresh == -1

\* None: no client.  Idle: a client whose subscribe or start failed.  Closed: the
\* gateway has ended the connection and the transport has not noticed yet.
Streams == {"None", "Idle", "Open", "Closed"}
WarmupModes == {"LiveOnly", "ReplayFrom"}
ConnectionStates == {"Disconnected", "Subscribed", "Failed"}
BarCounts ==
  {count \in [Timeframes -> UNION {0..Required[t] : t \in Timeframes}] :
     \A t \in Timeframes : count[t] <= Required[t]}
Healths == {"Disconnected", "Failed", "Degraded", "Initializing", "Healthy"}

\* derive_market_data_health.  Nothing marks a single feed as degraded.
Health ==
  CASE connection_state \in {"Disconnected", "Failed"} -> connection_state
    [] connection_state = "Subscribed" ->
         IF degraded THEN "Degraded"
         ELSE IF ready_feeds # Feeds THEN "Initializing" ELSE "Healthy"

IsReady ==
  IF ready_requires_all THEN \A t \in Timeframes : bars[t] = Required[t]
                      ELSE \E t \in Timeframes : bars[t] = Required[t]

\* WarmupTracker::progress.  Nothing sets failure_reason.
Warmup == IF ~started THEN "Loaded" ELSE IF IsReady THEN "Ready" ELSE "Warming"

TradeReady ==
  warmup_requested /\ replay_caught_up /\ Health = "Healthy" /\ Warmup = "Ready"

\* MarketDataService::snapshot
Snapshot == [health |-> Health, warmup |-> Warmup, trade_ready |-> TradeReady]

-----------------------------------------------------------------------------
\* configure_for_strategy
Init ==
  /\ warmup_mode \in WarmupModes
  /\ ready_requires_all \in BOOLEAN
  /\ stream = "None"
  /\ connection_state = "Disconnected"
  /\ degraded = FALSE
  /\ ready_feeds = {}
  /\ bars = [t \in Timeframes |-> 0]
  /\ started = FALSE
  /\ warmup_requested = FALSE
  /\ replay_caught_up = FALSE
  /\ seeded = FALSE
  /\ polls = NoRefresh
  /\ last_snapshot = Snapshot
  /\ replay_finished = FALSE
  /\ epoch = FALSE

Fail == connection_state' = "Failed" /\ degraded' = TRUE
KeepWarmup == UNCHANGED <<strategy_vars, ready_feeds, bars, started, warmup_requested, replay_caught_up>>

\* start_warmup cannot close the client it has: it returns, and keeps it.
DisconnectFails ==
  /\ polls = NoRefresh
  /\ connection_state # "Disconnected"
  /\ stream # "None"
  /\ Fail
  /\ KeepWarmup
  /\ UNCHANGED <<stream, seeded, polls, last_snapshot, replay_finished, epoch>>

\* Mutant of ConnectFails: the tracker is reset before the connection is made.
ConnectFailsAfterReset ==
  /\ polls = NoRefresh
  /\ stream' \in {"None", "Idle"}
  /\ Fail
  /\ bars' = [t \in Timeframes |-> 0]
  /\ started' = FALSE
  /\ replay_finished' = FALSE
  /\ UNCHANGED <<strategy_vars, ready_feeds, warmup_requested, replay_caught_up,
                 seeded, polls, last_snapshot, epoch>>

\* connect fails without a client; subscribe or start fails with one.  The flags
\* of the service are restored, and the tracker has not been touched.
ConnectFails ==
  /\ polls = NoRefresh
  /\ stream' \in {"None", "Idle"}
  /\ Fail
  /\ KeepWarmup
  /\ replay_finished' = FALSE
  /\ UNCHANGED <<seeded, polls, last_snapshot, epoch>>

\* Mutant of CaughtUpAtStart: a replay once caught up counts for the next one.
CaughtUpBefore == replay_caught_up \/ warmup_mode = "LiveOnly"

\* replay_caught_up after a successful start: only a live-only warmup is.
CaughtUpAtStart == warmup_mode = "LiveOnly"

\* The tracker is reset and started; the first time, a historical backfill may
\* be fetched and put into the buffers.
StartWarmup ==
  /\ polls = NoRefresh
  /\ stream' = "Open"
  /\ connection_state' = "Subscribed"
  /\ degraded' = FALSE
  /\ warmup_requested' = TRUE
  /\ replay_caught_up' = CaughtUpAtStart
  /\ started' = TRUE
  /\ bars' \in BarCounts
  /\ seeded' \in BOOLEAN
  /\ seeded => seeded'
  /\ seeded \/ ~seeded' => \A t \in Timeframes : bars'[t] = 0
  /\ replay_finished' = FALSE
  /\ epoch' = ~epoch
  /\ UNCHANGED <<strategy_vars, ready_feeds, polls>>
  /\ last_snapshot' = Snapshot'

-----------------------------------------------------------------------------
\* RuntimeMarketDataManager::refresh: no poll when the service is disconnected.
BeginRefresh ==
  /\ polls = NoRefresh
  /\ polls' = IF connection_state = "Disconnected" THEN 0 ELSE PollBudget
  /\ UNCHANGED <<strategy_vars, stream, service_vars, seeded, last_snapshot, replay_finished, epoch>>

\* A poll returned an update, and the loop goes on.
Continue == polls > 0 /\ polls' = polls - 1 /\ UNCHANGED <<seeded, last_snapshot, epoch>>

\* RollingBuffer::push, of so many bars.
Pushed(t, count) ==
  IF bars[t] + count < Required[t] THEN bars[t] + count ELSE Required[t]

\* How many bars of each other timeframe a source bar may complete: the one it
\* belongs to, and before it the one that a gap left open.
Completions == [Timeframes -> 0..2]

\* record_event.
PollEvent(feed, completed) ==
  /\ stream = "Open"
  /\ Continue
  /\ ready_feeds' = ready_feeds \cup {feed}
  /\ bars' = [t \in Timeframes |->
                Pushed(t, IF feed # BarFeed THEN 0
                          ELSE IF t = SourceTimeframe THEN 1 ELSE completed[t])]
  /\ UNCHANGED <<strategy_vars, stream, connection_state, degraded, started, warmup_requested,
                 replay_caught_up, replay_finished>>

PollReplayCompleted ==
  /\ stream = "Open"
  /\ warmup_mode = "ReplayFrom"
  /\ Continue
  /\ replay_caught_up' = TRUE
  /\ replay_finished' = TRUE
  /\ UNCHANGED <<strategy_vars, stream, connection_state, degraded, ready_feeds, bars, started,
                 warmup_requested>>

\* Only the next successful connect clears the reason.
PollSlowReader ==
  /\ stream = "Open"
  /\ Continue
  /\ degraded' = TRUE
  /\ UNCHANGED <<stream, connection_state, replay_finished>> /\ KeepWarmup

\* Mutant of PollClosed: the end of the stream is taken for a missing record.
PollClosedIgnored ==
  /\ stream = "Closed"
  /\ polls > 0
  /\ polls' = 0
  /\ UNCHANGED <<strategy_vars, stream, service_vars, seeded, last_snapshot,
                 replay_finished, epoch>>

\* The gateway's end of stream: the client is dropped, and the loop goes on.
PollClosed ==
  /\ stream = "Closed"
  /\ Continue
  /\ stream' = "None"
  /\ connection_state' = "Disconnected"
  /\ replay_finished' = FALSE
  /\ UNCHANGED degraded /\ KeepWarmup

\* A record that cannot be read or decoded, or no client at all.
PollFails ==
  /\ polls > 0
  /\ Fail
  /\ polls' = 0
  /\ UNCHANGED <<stream, seeded, last_snapshot, replay_finished, epoch>> /\ KeepWarmup

\* Nothing within MARKET_DATA_POLL_TIMEOUT, or a record that is no update.
PollNothing ==
  /\ polls > 0
  /\ stream \in {"Idle", "Open"}
  /\ polls' = 0
  /\ UNCHANGED <<strategy_vars, stream, service_vars, seeded, last_snapshot, replay_finished, epoch>>

Poll ==
  \/ \E feed \in Feeds, completed \in Completions : PollEvent(feed, completed)
  \/ PollReplayCompleted
  \/ PollSlowReader
  \/ PollClosed
  \/ PollFails
  \/ PollNothing

EndRefresh ==
  /\ polls = 0
  /\ polls' = NoRefresh
  /\ last_snapshot' = Snapshot
  /\ UNCHANGED <<strategy_vars, stream, service_vars, seeded, replay_finished, epoch>>

\* External: the gateway ends the connection.
GatewayCloses ==
  /\ stream = "Open"
  /\ stream' = "Closed"
  /\ UNCHANGED <<strategy_vars, service_vars, seeded, polls, last_snapshot, replay_finished, epoch>>

Next ==
  \/ DisconnectFails \/ ConnectFails \/ StartWarmup
  \/ BeginRefresh \/ Poll \/ EndRefresh
  \/ GatewayCloses

Spec == Init /\ [][Next]_market_vars

\* market_data_refresh_loop and health_refresh_loop refresh for ever; the lock
\* is fair and a poll has a timeout.
FairSpec == Spec /\ WF_market_vars(BeginRefresh) /\ WF_market_vars(Poll) /\ WF_market_vars(EndRefresh)

-----------------------------------------------------------------------------
\* Every field keeps to its type, and no buffer holds more than it retains.
MarketDataTypeOK ==
  /\ warmup_mode \in WarmupModes
  /\ ready_requires_all \in BOOLEAN
  /\ stream \in Streams
  /\ connection_state \in ConnectionStates
  /\ degraded \in BOOLEAN
  /\ ready_feeds \subseteq Feeds
  /\ bars \in BarCounts
  /\ started \in BOOLEAN
  /\ warmup_requested \in BOOLEAN
  /\ replay_caught_up \in BOOLEAN
  /\ seeded \in BOOLEAN
  /\ polls \in NoRefresh..PollBudget
  /\ last_snapshot \in [health : Healths, warmup : {"Loaded", "Warming", "Ready"},
                        trade_ready : BOOLEAN]
  /\ replay_finished \in BOOLEAN
  /\ epoch \in BOOLEAN

\* The transport's client and the coordinator's connection state change in
\* different methods, some of them on errors only; yet a service that says it is
\* subscribed has a started client, and one that says it is disconnected none.
SubscribedMeansStream ==
  /\ connection_state = "Subscribed" => stream \in {"Open", "Closed"}
  /\ connection_state = "Disconnected" => stream = "None"

\* docs/architecture/phase_0_phase_1_foundations.md:39: catch-up precedes trade
\* readiness.  It is the catch-up of the stream in use, not of one before it,
\* whatever restarts, half-failed starts and disconnects came in between.
TradeReadyIsCaughtUp ==
  TradeReady => started /\ (warmup_mode = "ReplayFrom" => replay_finished)

\* The runtime host sees of all this a WarmupService.
Promise == INSTANCE WarmupService WITH warmup <- Warmup, healthy <- Health = "Healthy",
                                       up <- connection_state = "Subscribed"
KeepsServicePromise == Promise!Spec

\* A stream the gateway has closed does not go on being reported as healthy.
LostStreamIsReported ==
  stream = "Closed" ~> (last_snapshot.health # "Healthy" \/ stream = "Open")
=============================================================================
