# A TLA+ model of the TV bot runtime

The repository is a futures trading bot: a Rust runtime that loads a strategy,
receives market data from Databento, trades through Tradovate, and is operated
over HTTP by a dashboard and a terminal console. These modules model the parts of
it in which several tasks, several connections and several operators meet: who may
send an order, what the runtime believes about its two connections, which bars and
records it keeps, when it may stop, and what its operators are asked, shown and
told was saved.

Every definition is translated from the code; `map` in `PROJECT.json` names its
lines. A definition for something outside the repository (the broker's account,
the gateway, the clock) is marked external there and may do whatever the code
is prepared for.

## Inventory

| Part | State | Operations | What is hard about it | What makes it correct |
|---|---|---|---|---|
| Runtime state machine (`crates/runtime_kernel/src/lib.rs`) | mode, last active mode, arm, override, warmup status, entry gate | switch/pause/resume, load/unload, warmup, arm/disarm | long sequences of legal calls; pause keeps the arm | an arm never moves to another mode or survives what revokes it |
| Host control plane (`apps/runtime/src/host.rs`, `operator.rs`) | the four lock-protected parts of `RuntimeHostState` | lifecycle commands, `/commands`, background refreshes | every handler is a chain of lock sections; what was read is stale when used | an order rests on a grant; kernel and service agree in the end |
| Broker session (`crates/broker_tradovate`) | token, account, connection and sync state, cached exposure, review | authenticate, connect, poll, disconnect, acknowledge | loss noticed in four ways, deltas, silence, renewal | healthy means true; a lost session with exposure is reviewed |
| Market-data service (`crates/market_data`, `RuntimeMarketDataManager`) | client, connection state, feed status, buffers, replay | start warmup, refresh | starts that fail half-way, a gateway that closes | trade readiness is of this stream; a lost stream is reported |
| Bar aggregation and charts (`crates/market_data`, `host.rs`) | windows in progress, rolling buffers, backfilled bars | record an event, backfill, chart page | gaps, replays into windows that survive a restart, order of completed bars | each source bar is in one bar, once; series in order |
| Execution engine, risk engine, command loop (`crates/execution_engine`, `risk_engine`, `runtime_kernel/src/service_loop.rs`) | none of their own; the broker's orders, the journal | build, sanitize, decide, plan, dispatch, journal | one broker call of several fails; the journal fails after the order; two snapshots of one position | what the journal says was done, nothing was done unrecorded, and a plan leads where its intent says |
| History recorder, state store, persistence (`apps/runtime/src/history.rs`, `crates/state_store`, `crates/persistence`) | current run, seen orders and fills, last position; the records of each backend | run changes, dispatch, sync of a snapshot, start | marked seen before it is stored; syncs that overlap; a kill between two writes | every fill recorded once, a run continued after a kill |
| Journal, metrics, health (`crates/journal`, `metrics`, `health`, `state_store`) | projection of the events, latency summary, error count, last snapshot | append, dispatch, capture, note an error, start | appends that fail or go unanswered, times taken before the lock, another backend after a restart | what was published is stored; summaries are what a restart would make of the tables |
| Shutdown review (`host.rs`) | review flags, exit channel | ctrl-c, shutdown command, finalize loop | four tasks write one record on stale snapshots | no exit without a decision; an approved exit happens |
| Strategy runtime, rules, indicators (`crates/strategy_runtime`, `rule_engine`, `indicators`) | which signals and exits are active | compile, evaluate one snapshot | errors in conditions, sessions over midnight, order of the gates | a signal is acted upon once, in its session; what compiles has the bars it needs |
| Console and dashboard (`apps/cli/src/console`, `apps/dashboard/src/hooks`) | a copy of status and readiness, prompts, the chart's timeframe | keys and buttons, refreshes, event and chart streams | decisions on a stale copy; answers and events that overtake each other | what must be confirmed is asked; a copy catches up |
| Dashboard's chart (`hooks/useDashboardChart.ts`, chart routes) | one view: configuration, chosen timeframe, bars | refresh, load, older page, stream | four kinds of answers into one view, some never aborted | the chart settles on what is loaded and chosen |
| Strategy files (`/strategies*`, `hooks/useDashboardStrategyWorkflow.ts`) | a directory; library, choice, validation | list, upload, validate, load | nothing guards the directory; answers overtake a choice | what was stored stays; the validation is of the choice |
| Configuration and settings (`crates/config`, `/settings`, `hooks/useDashboardSettingsWorkflow.ts`) | a file, an environment, editable settings; drafts | load, edit, save, restart | read, truncated and written without a lock; a draft overtaken | saved settings survive a restart; a clean draft follows the runtime |
| Strategy loader, instrument resolver (`crates/strategy_loader`, `instrument_resolver`) | none | parse, validate, resolve a market to its contract | rollover dates, a symbol with one digit of the year | a supported market always resolves, and never backwards |
| Remote access (`host.rs`) | none | the identity of a request, its permissions, the role a route asks for | what a client is shown and what it is served are computed apart | nobody without the trader's role moves the account |
| Event hub | subscribers | broadcast | a slow reader | it is told what it missed |

How they interact: HTTP handlers are tokio tasks over one `RuntimeHostState`. The
kernel sits behind the `operator_state` lock, the market-data manager behind
`market_data`, the broker session and its dispatcher behind `http_handler`, the
shutdown review and the history recorder behind their own. No handler holds two at
once. A command reads the broker's status, refreshes the market data, copies the
warmup status into the kernel, acts, records, publishes a readiness report to the
event streams and responds. Background loops refresh the market data and sync the
history; the main loop waits for ctrl-c, for the exit channel and for a confirmed
flatten. The strategy runtime produces no orders in this commit, the host never
calls the kernel's `unload_strategy`, and production code never calls
`authenticate`, `connect_user_sync` or `poll_next_event` of the broker session:
only tests do. These are modelled as their own code and their callers' types
define them.

`PROJECT.json` lists the hazards at their lines, each with the properties that
cover it or why none does.

## Modules

| Module | Models |
|---|---|
| `RuntimeKernel` | `RuntimeStateMachine`, one action per method |
| `TradingAuthority` | abstract: mode, strategy and at most one grant to trade, which is given for what is current and lost, never converted |
| `ArmReadiness` | operators: `ReadinessEvaluator` and what `readiness_snapshot` gathers for it |
| `RemoteAccess` | operators: identities, permissions and the roles that the routes ask for |
| `RuntimeHost` | extends `RuntimeKernel` with the handlers' lock sections; `MCRuntimeHost` holds its command sets |
| `WarmupService` | abstract: what `RuntimeHost` assumes of a market-data service |
| `MarketDataService` | service, session manager, coordinator, transport, and the host's manager; `MCMarketDataService` holds its bar requirements |
| `BarAggregator` | `MultiTimeframeAggregator`, the buffers, the backfill and the chart; `MCBarAggregator` holds its strategies and intervals |
| `BrokerSession` | `TradovateSessionManager`, `TradovateLiveClient`'s sync cache, the reconnect-review command |
| `ShutdownReview` | the shutdown command, ctrl-c, finalize loop and exit |
| `StrategyLoader` | operators: the documents `StrictStrategyCompiler` accepts, and the strategy each engine reads of one |
| `ExecutionPlan` | operators: the risk decision and size of `RiskEvaluator`, the plans of `ExecutionPlanner`, and where a plan should lead |
| `CommandLoop` | extends `ExecutionPlan`: a command from its builder through sanitize, lock, journal, risk, broker calls and journal to the answer; `MCCommandLoop` holds its strategies, commands and accounts |
| `Persistence` | operators: the backend a start selects, how each backend keeps and lists its records |
| `HistoryRecorder` | extends `Persistence` with `RuntimeHistoryRecorder`, kills and restarts |
| `RuntimeRecords` | extends `HistoryRecorder` with the journal, latencies and health; `MCHistoryRecorder` composes the two and holds their budgets |
| `RuleConditions` | operators: the conditions, the bars each says it requires and the bars its evaluation asks for |
| `InstrumentResolver` | operators: the built-in chains of contracts and the choice of the front month |
| `StrategyRuntime` | extends `RuleConditions` with `StrategyRuntimeCompiler` and `StrategyRuntimeEngine`; `MCStrategyRuntime` holds its strategies |
| `OperatorClients` | extends `RuntimeKernel` with the console's loop and the dashboard's host state |
| `DashboardChart`, `StrategyLibrary`, `RuntimeSettings` | the dashboard's other three hooks, each with the routes and files behind it |
| `MCOperatorClients` | composes these four and holds their scenarios and budgets |
| `RuntimeHostProofs` (kernel and host), `BrokerSessionProofs`, `ShutdownReviewProofs`, `CommandLoopProofs` (with the loader and the market-data service), `BarAggregatorProofs`, `RuntimeRecordsProofs` (with the history), `StrategyRuntimeProofs`, `OperatorClientsProofs` | the theorems |

**RuntimeKernel.** The variables are the fields of the struct without their
texts. `ClearArm` is what every revocation does, `SetWarmup` what the four warmup
methods share. The readiness report is an input of `Arm`, reduced to mode,
blocking issues and the override. `armed_mode` and `paused_from` are history.

**RuntimeHost.** A handler's `pc` names the lock section it takes next:
`snapshot` (`http_handler`), `refresh` (`market_data`), `sync` and `act`
(`operator_state`), `configure` (`market_data`, for a load), `dispatch`
(`http_handler`, for an order) and `respond`. `context` is the
`RuntimeStatusContext` on the handler's stack, `order` the sanitized request.
The service is the pair `md_warmup`, `md_healthy`, and may do what
`WarmupService` allows. The broker is one Boolean that changes at will. Kernel
actions are reused as they are: `SyncWarmup` takes `SyncWarmupProgress`, an
`Arm` command `Arm(Readiness(..))`, where the readiness may be any that the reads allow.
`ArmReadiness` is the report itself, check by check, and `RemoteAccess` who is served:
both are operators, which theorems relate to the state machine. Two reads under one lock that nothing
separates are one action.

**MarketDataService.** `start_warmup` and `refresh` hold the lock throughout, so a
start is one action with three outcomes (the old client cannot be closed; connect,
subscribe or start fails; it works) and a refresh is a loop of polls between
which the gateway may close the stream. A buffer is a count up to the required
number of bars. Which source bar completes a longer one is left open here:
`BarAggregator` decides it.

**BarAggregator.** A source bar is its stream and its time; a longer bar is its
interval and the sequence of source bars folded into it, so that a property can
say which bars are missing, twice in or in the wrong order. Windows survive a
restart of the stream, which replays from an earlier time; the backfill seeds the
buffers and the chart once. The strategies choose their timeframes, and with them
which feed there is and what is aggregated.

**BrokerSession.** `exposure` is what the cache believes, `broker_exposure` the
account, `wire` the props pushed and not yet read. Each timestamp may become older
than `stale_after` on its own. The operator reads a review and acts on it in two
steps. `full_sync` and `loss_reported` are history.

**ShutdownReview.** A task is at a program counter between two lock sections;
`seen` is the broker snapshot on its stack; `approvals` is history. The main
loop handles one signal or one finalize tick at a time, as `select!` does.

**ExecutionPlan.** An `Option` is a set of at most one element and a `Result` a set
of values that is empty for an error, so `Plans` is the set of plans a request may
get. A plan is a sequence of broker calls. Sizes and positions are numbers; prices
are reduced to whether there is one. `IsLoadable` is what planning assumes of a
strategy. `ComputedQuantity` is the size that risk pays for after its conversion: more than
a `u32` can count becomes none. `Target` says where a position should end and is written
without the planner.

**StrategyLoader.** `Documents` are the sections as serde types them, `IsCompiled` the
loader's checks; a time of day is a number, in the day if its text parses. `AsPlanned` and
`AsEvaluated` are what the risk and execution engines and the strategy runtime read of a
document, with `TimesParse` for the times that only the runtime's compiler looks at. That
a compiled document is what `CommandLoop` and `StrategyRuntime` assume of a strategy is
proved; `DocumentCompiles` of `MCStrategyRuntime` evaluates it on one.

**CommandLoop.** A handler's `pc` names its next append or call: `build` and
`sanitize` on two snapshots, `wait` for `http_handler`, then `intent`, `decide`,
`override`, `plan`, `execute` (once per call of the plan) and `report`. An append
works, fails, or fails after the record was stored. A broker call works, is
refused, or works with its answer lost: `BrokerCall` gives the ends each kind of call
has, from the checks before it is sent to what is made of the answer. `account` is the
broker's truth and `cache`
what the session last read. The operator state is reduced to what sanitize reads
of it (`Gates`), since `RuntimeHost` says how it comes about. A market order fills
at once; others may fill when the account moves. `undisturbed` is history: the
properties about positions are stated for a command whose snapshot was current
and which nobody crossed, since otherwise no target is meant.

**HistoryRecorder.** A run record is written under the recorder's lock: one action.
A sync is not: `TakeSnapshot` takes the broker's snapshot, `ReadHistory` reads what
is stored, `ComputeRecords` marks and computes under the lock, and each write after
it is an action, while another sync is at any of these points. A failed write ends
its sync and takes nothing back. `Crash` ends the process between any two steps; `Start`
selects Postgres, SQLite or memory as `RuntimePersistence::open` does, and rebuilds
the current run and what was seen from what is listed. The account's position,
orders and fills change at will within the budgets.

**Persistence and RuntimeRecords.** A row has its identifier, the time it is listed by
and its place of arrival; whether an append replaces a row and in which order rows are
listed differs by backend and table, which is what a restart sees. An event has its
time and identifier before the dispatcher's lock, a health snapshot before the
supervisor's, so both may be stored out of their order. A dispatch is three steps under
its lock. `published` and `doubtful` are history; the latter names the tables in which an
append went unacknowledged or replaced a row, of which the process cannot know better.
`Rebuilt` counts the rows of a listing by what they are; `FoldAssumption` has TLC compare
it with applying them one by one. In the run the recorder's state rests in behaviours
about these records and the reverse, since they share only the backend and the kill;
`RuntimeSpec`, which the theorems are about, interleaves them.

**RuleConditions and StrategyRuntime.** A condition is its kind, timeframe and periods.
`RequiredBars` is what it declares, `Evaluates` what its indicators ask of the bars, each
translated from its own code, and `CompiledNeverFails` relates the two. Both widths are
constants: a period is any `usize`, the `+ 1` of `required_bars` wraps (`RequiredBars`),
and the compiler compares the declared bars with what `as u32` leaves of it (`AsU32`).
So a period of 2^32 + 1 compiles with one declared bar, is ready with it, and fails every
evaluation, the flatten included, as a period of zero does: the property is about the other
strategies, with positive periods whose bars a `u32` can count. Which conditions
hold is an input without contradictions (`Consistent`). Evaluations come one to a step of
the clock or several, on any bars and position. `outcome` says how far it
came: held by a gate, failed in a condition, evaluated, or returned with an error on a
series of mixed timeframes (`Mismatched`), which is no fault of the strategy. `asked` is
history: what one signal has led to since its last reset.

**InstrumentResolver.** Dates and months are numbers in their order, names lack case and
blanks. `LoadedMapping` is what loading a strategy makes of its market's name.

**OperatorClients.** The runtime is the kernel's actions with a version number. The
console is one loop: `stage` is `drain` (its channel), `poll` (wait for a key), a
command it awaits (`sent`, `executed`, `answered`), a `refresh` of which `fetched`
says how far it is, `chart` (a changed timeframe), or `due` for the next. Of
the messages waiting for it only the last of each kind matters, since each replaces
what it carries, so `inbox` has a place for each. `pending` is an open prompt. The
chart is `known` and `selected` timeframes, `drawn`, the `url` of the stream it
should have and the `stream` it has. The dashboard's requests run side by side:
`reads` are refreshes under way, `command` the button's request and its reload.
Another operator's commands are moves of the runtime. Requests and event streams
may fail or end where the code handles it.

**DashboardChart.** React's effects are part of the step that changes what they depend on
(`Render`). A request that an effect replaces is aborted, so that an answer to it may be
given when it arrives; pages of older bars and the Sync button's refresh are not, so
theirs is given when they are served. A bar is the contract and timeframe it is of.
`strayed` is history.

**StrategyLibrary.** An upload looks for a free name in one step and writes in another,
which may fail half-way. The panel's readings, checks and loads are served and answered
in any order. `kept` is what clients were told, `clashed` the names given to two uploads.

**RuntimeSettings.** A save reads the settings and the file, truncates it, writes it and
replaces the settings, in four steps. A kill may come between any two of them. One field
stands for each way a field is treated. `disturbed` and `original` are history.

## Runs

| Run | Instance | Shows |
|---|---|---|
| `host_operator` | one client, all commands, the background poller, 4 requests | an arm keeps its mode and override under every chain of commands; the kernel's warmup status becomes the service's (liveness) |
| `host_trading` | two clients, two strategies, 6 requests | orders rest on a grant of their request; `TradingAuthority` is implemented |
| `market_data` | two feeds, bars of 1 m (2 required) and 5 m (1), both modes, both readiness rules, refreshes of 3 polls | replay precedes trade readiness, a lost stream is reported (liveness), `WarmupService` is implemented |
| `bars` | four strategies of one to three timeframes, two streams, 4 one-second or 6 one-minute bars | each source bar is in one bar, no bar is held back or misses one of its own, a restart mixes one bar, disorder is confined to a gap, chart pages join |
| `bars_five_minute` | the five-minute strategy of the repository's own test | **violated**: its bars are never made |
| `session` | one position, 2 props on the wire, 1 counted reconnect, all transport events | health is true, state and reason go together, a reported loss is reviewed |
| `shutdown` | two contracts, one operator, ctrl-c, the flatten poll | no exit without an approval, none on unprotected exposure; an approved exit happens, a flatten on a flat account ends (liveness) |
| `command_loop` | two clients, two commands of six kinds, four strategies, three accounts of two contracts, one outside move | journal and answer are true, calls are audited, a command carried out undisturbed reaches its target within the strategy's risk (6 million states) |
| `command_other_contract` | one client, one manual entry, a position in the other contract | **violated**: the other contract is liquidated |
| `history` | one order of two lots, two syncs, two strategies, all three backends, one kill; or two handlers, two health tasks and a dispatch with an append that fails | no fill is lost unless a write failed, or counted twice; an order keeps its run; a run goes on after a kill; the position follows serial syncs; published records are stored, summaries follow the tables, errors are remembered (2.3 million states) |
| `strategy` | ten strategies that compile and two that must not, two days of four hours, five fillings of the buffers | one intent per signal, entries in session, flattening after it, a compiled strategy has the bars it needs; the front month is what a scan of the chain finds |
| `clients` | the console, the dashboard, its chart (three contracts), its library (two texts, three names) or its settings (two panels, three files, two environments) | Live and overrides are asked for; copies, charts, validation and drafts settle (liveness); uploads and saved settings are kept (930 thousand states) |

A run that composes components whose states do not meet lets one of them behave while the
others rest: `MCInit` and `MCNext` of `MCHistoryRecorder` and `MCOperatorClients` say so.

The two violated properties state a sentence of the repository. The findings in
`PROJECT.json` quote it:

* `bars_five_minute`: a test says a five-minute strategy uses the one-minute feed,
  and its feed is chosen so; `build_aggregator` makes no aggregator for a single
  timeframe, so nothing turns that feed into five-minute bars.
* `command_other_contract`: the plan allows manual entries for the loaded contract
  only; when that has no position the planner takes any open one, and with
  `flatten_first` liquidates it.

Two more disagreements are notes of hazards, not runs. A console whose copy still
says Paper arms a Live runtime without asking (`docs/ops/cli_console.md:168` says it
asks): `AskedBefore` is therefore about what the client knows. A chart message of
a replaced stream sets the choice back, and a refresh that then fails starts the
stream of one timeframe under another's address, which is never replaced
(`docs/ops/cli_console.md:161`): `ChartAgreesAgain` excludes that state by name
(`Misaddressed`) and asks that agreement recur, not that it last.

Six properties exclude by name what the code does not guard; the notes of the hazards call
it not covered:
`ChartSettles` a page of older bars that crossed a change (`strayed`), `UploadsAreKept`
two uploads that found one name free (`clashed`), `ValidationIsOfChoice` a check that is
never aborted (`misplaced`), `SavedSettingsSurviveRestart` saves that overlap or are cut
short (`disturbed`), and `SummariesFollowStore` and `ErrorsAreRemembered` records that
arrived out of their order (`InOrder`) or unacknowledged (`doubtful`). Each is as narrow
as the code allows: what comes after is covered again wherever something mends it.

**Bounds.** Two handlers are enough for every stale read there is: one reads, the
other changes, the first acts. Six requests let one client load, warm and arm
while the other switches mode, pauses and trades; four in `host_operator` let the
poller come between load, arm, pause and resume. Two strategies are needed only
where one is taken for the other. Two contracts tell "all protected" from "some". A
budget of three polls lets a refresh end before, at and after the closing of the
stream; the code's budget is 16. Two feeds tell "some ready" from all.
`MaxRequests`, `MaxProps` and `MaxReconnects` bound counters and queues only;
`reconnect_count` is compared with zero and nothing else.

In `bars` a minute is two seconds and five minutes are three minutes: long enough for
a window to begin, continue and be passed over by a gap. Two streams are one
restart. The chart's window is shorter than the market, so that pages are cut.

In `command_loop` two commands let one handler's calls, records and stale snapshot
meet another's, and one outside move is enough to make a snapshot wrong; the
strategies cover both reversal modes, both sizings, an override, a limit order,
a fallback that risk must win over, and risk that pays for more than `MaxQuantity`. That
positions and orders add up to it is out of reach there: what happens up to it is proved
instead.

In `history` a behaviour is about runs, an order and its run, an order and a restart,
or positions (`MCBudgets`), because the recorder keeps these apart. Two lots let a
snapshot show a part of an order; `Intended` is one, which the first record of the
order holds until an update describes it. No sync is started in behaviours about runs
alone (`MCBound`), where it would find nothing. `MCRecordBudgets` has two of whatever may
cross, and one append that fails.

In `strategy` the day has as many hours as it takes for a window over midnight, a
cutoff and a flatten time to fall on different ones, and the second day shows what
the first leaves behind. The strategies take each combination mode, session mode
and readiness rule at least once, and nearly every kind of condition. Two lack a bar or
an order of periods and must not compile; two have a period of zero and do, and so do two
whose bars a `u32` cannot count. Its two bits and the four of a `usize` are enough for a
period that is truncated to one bar and for one whose next number is zero. The fillings
are one bar too few, just enough, none in one or both buffers, and bars of mixed
timeframes.

In `clients` only one component behaves at a time; of the console and the dashboard's
host state the other is an operator whose commands come as moves.
Two keys with a move and a fault let a prompt be opened on
one state and answered on another; two frames let a message of a replaced stream
follow a change of the choice; two overlapping refreshes beside a command's reload may
answer in any order. Numbers of events are a budget of the scenario. The chart's
contracts have two timeframes, one, and no resolved contract, and its budgets let a page
or a Sync cross one change, or two changes cross each other. Two uploads under one name and a third
name are what it takes to clash; three requests of the library's panel overlap beside an
upload. Two panels save over each other, and a save may be cut by a kill or a fault at
each of its steps.

Clients and syncs are symmetric where the run has no liveness property.

**Deadlock** is checked except in `ShutdownReview`, whose process ends, in
`BarAggregator`, whose market closes, and in the recorder's run, where a budget is
used up.

**Fairness.** `HostFairness`: every started handler and the background loop go on,
since tokio's locks are FIFO and each section waits only for its lock or a call
with a timeout; clients and dependencies are not fair. `MarketDataService`: the
two refresh loops run for ever; starts and the gateway are not fair.
`ShutdownReview`: the main loop and a command under way go on; operators,
signals and positions are not fair. `OperatorClients`: the console's loop, its
requests, the delivery of published events and the dashboard's requests go on
(weak); the console's refresh interval comes round although keys and messages may
come in between (strong); operators, moves, faults and the chart's frames are not
fair. `ChartFairness`, `LibraryFairness`, `SettingsFairness`: requests under way are
answered or fail, an open stream delivers or ends, a killed runtime is started again;
whoever chooses, uploads, edits, saves or kills is not fair.

## Theorems

All are proved for every value of the constants under the named `ASSUME`s of the
modules, which type the constants and say what a loaded strategy satisfies.

* **Kernel.** The inductive invariant is type correctness with the parts of
  `ArmKeepsItsGrant`. They need each other: that an arm stays in its mode rests on
  the resume target being the mode that was paused. `UnloadStrategy` is an action of
  `KernelSpec` and so covered here, though no host handler takes it.
* **Host.** Every handler step is a kernel step or none (`HostStepIsOperatorStep`,
  `OperatorStepIsKernelStep`), so the kernel invariant holds of the host; with
  "a strategy is loaded exactly when the kernel says so" it gives
  `ArmFollowsLoad`. `OrdersHaveAuthority` adds that an order in flight is covered
  by what its handler has held since it began, which only grows until the
  handler ends. `HostKeepsAuthority` maps each kernel step to a step of
  `TradingAuthority` or a stutter.
  `ReadinessIsAbstracted` shows that the readiness an `Arm` of the model sees admits every
  report of `ArmReadiness` for what its handler was told, and `UnblockedIsReady` what a
  report that does not block is worth. `ShownIsServed` compares the two computations of
  `RemoteAccess`; `OnlyTradersTrade` gives the roles their meaning in the state machine:
  the commands that `RequirementFor` leaves to a mere operator never arm and never
  send (`NoTrade` is inductive under that assumption).
* **Market data.** Connection state and stream agree; only a start gives a stream,
  and it starts the tracker; a catch-up that counts while subscribed is this
  stream's. With bounded buffers this gives type correctness, catch-up before
  trading and the implementation of `WarmupService`.
* **Bars.** `StateInv` types the aggregator: a window per timeframe at most, source bars
  of the starts so far, and none of the last later than the clock. `BarsInv`, for one
  timeframe, says what each bar is made of: source bars of its own interval in the order
  they came, each in no other bar, and all that its streams delivered of that interval.
  It is inductive only with what the code relies on without saying so: a window in
  progress has the newest source bar of all (`Newest`), and a bar that came out with a
  source bar of the current stream has ended by the clock, so that a later one cannot
  be of its interval. A source bar replaces one window by the bar it joins and keeps
  the others (`BarsMove`, `RecordKeepsBars`); a start changes no bar (`StartKeepsBars`).
  From this follow `SourceBarsHavePlaces`, `BarsAreWholeIntervals` and `OneBarIsMixed`.
  That intervals do not overlap is arithmetic with rests (`OpenedInterval`).
  `OrderIsLostOnlyAcrossGaps` adds `BufferInv`: a buffer within its capacity holds bars that
  the aggregator emitted and bars of a backfill, and of those one stream made each
  follows the ones before (`InSeries`). A push keeps this if its bar follows
  (`PushedInSeries`). A window follows every bar that is out (`WindowFollows`), and so does
  the bar a source bar closes; the one case that does not is a source bar alone that
  closes its own interval and comes before the window it finished, which is the neighbour
  the property allows. A start pushes a whole backfill: `FoldExists` gives the function a
  fold is made of, and what holds at first and from each number to the next has no first
  exception (`NoFirstException`), so `PushAllKeeps` and `AggregatedBars` need no induction
  over data.
  `ChartsReadOn` needs of the buffers only their type and of the history that it is in
  order (`HistoryInv`): what is fetched is a width apart (`FetchedSpaced`), and an
  aggregation never completes a bar that starts before one it completed
  (`AggregatePasses`), which would not hold of source bars closer than their width.
  The rest is about the operators, for any live bars, out of order or repeated: merging
  sorts by the rank of a time (`NthNumbers`, `MergedBars`), a sort puts one bar of a new
  time in its place (`BarIsInserted`), and a page keeps every bar from its first one on
  (`LastBars`). The point that is not obvious is the forming bar, which is merged into a
  page and may push its first bar out, or come before all of it: then the page was not
  full and had all bars there are (`FormingIsChart`). The prover knows nothing of
  `SelectSeq` and `SortSeq`, so `PageBefore` and `Sorted` say by their ranks which bars
  are left and where they go.
* **Broker session.** Connection, sync state, reason and the counted losses are
  strengthened together (`SessionStaysConsistent`); `LossIsReviewed` is an action
  property that follows from "a reported loss is counted".
  `HealthyStatusHolds` rests on `CopyInv`: after a full sync, of each position or order
  the last prop on the wire that is about it tells what the account has, and where none
  is, the cache does; the exposure the session knows is the cache's. `PassedSyncIsTrue`
  puts both together with `BrokerSyncDependency`, the check an arm makes of the session.
* **Shutdown.** Each approval rests on the snapshot its task holds; the exit
  channel holds a request only after an approval. Type correctness is a conjunct of the
  property and proved with it.
* **Command loop.** `HandlerInv` says what a handler has on record at each of its
  steps; it is about that handler only, so a step of one leaves the others' alone
  (`HandlerFrame`, `OthersKeep`). With the lock's invariant it is inductive and
  gives the three theorems about the journal. `CommandsReachTarget` needs a second one,
  `TargetInv`: the command and the request are typed, the plan is one of the planner's
  for that request, and while nobody else has changed the account its traded position is
  where the calls taken so far lead from the one the plan was made for (`Steady`;
  `Reached`). A call of another handler that changes the account ends `undisturbed`, so
  a handler's part of it needs nothing of the others. The rest is about the operators: a
  plan in the traded contract has at most two calls that move anything (`PlansStay`)
  and ends on target (`EntryArrives`, `PlansArrive`). Of those,
  `EntryQuantityWithinRisk` rests on the lemmas on the minimum and maximum with an
  optional bound, `EntryOrderReachesTarget` goes by the reversal mode. The property and
  the theorem are stated where the close and the entry of a direct reversal fit a `u32`
  together (`Fits`): beyond that the code saturates and the entry is short of its size.
  `CompiledIsLoadable`: what
  the loader compiles satisfies the assumption on strategies, conjunct by conjunct.
  `LoadedCanEnter` says which of them can never be sized: the loader does not look at
  the bounds of a fixed size, nor at the sign of a risk; and without a fallback or a
  minimum, risk that pays for no contract, or for more than `to_u32` converts, has no size.
* **History.** `FillsAreStored`: `SeenInv` says of every sync where it is, that what
  it marked seen is stored or still among its writes, and that a backend is in use
  while one is under way. A record leaves its sync in the step that stores it, an
  overlapping sync only adds, a kill forgets both, and a start has seen what it
  lists.
  The four others rest on `FilledInv`, which says what the store and the tasks hold at
  each stage: every order stored, working or on its way counts at most the fills
  known when it was made, and no sync takes for new a fill that the store counted
  already; `RunsOK` adds that one run is the latest. `RunIsContinued` adds `SqliteRunsOK`: every
  run but the newest was over before that one started, and the current run is the
  newest stored with its last mode and status (on Postgres two runs may have the same
  instant, and the property does not claim it). `OrdersKeepTheirRun` adds
  `OrderRunInv`: nobody knows of an order before its dispatch is stored; a task that
  has read the store has found the order there with its run. `SerialSyncsTrack` adds
  `PositionInv`, which says for each stage of the one task that syncs what it still
  has to do to the trade. They assume that `None` is no value of the other constants
  (`NoneAssumption`).
* **Journal, latencies and health.** `RecordsInv` says what the tables hold: rows of
  records the process makes, each with a number of its own, one of them listed last, and
  on the durable backends no two events or latencies of one identifier. An append
  inserts, or replaces a row that says the same (`AppendKeeps`), so `PublishedIsKept`: what was
  published after it was stored stays stored. `ErrorsAreKept` adds `ErrorsInv`: if
  snapshots are listed as they arrived, each counts at least the errors of those before,
  and the process as many as all, which it does again when a start takes the last listed
  one. `SummariesAreTrue` adds `SummariesInv`: an append that is acknowledged and leaves
  another number of rows has added one (`AppendAdds`), which each summary counts; an
  event that came in order, and every latency, is then the last listed. For
  latencies that rests on the dispatcher's lock: no stored one is after the time the dispatch
  under way finished (`TimesOK`).
* **Strategy.** `BarsNeededSuffice` goes through the kinds of condition: as many bars of
  one timeframe as it needs are enough for every indicator its evaluation calls. Where a
  `u32` can count them, what the compiler compares is that number (`RequiredIsNeeded`), so
  all results of a compiled strategy are there once its buffers are ready
  (`CompiledStrategyNeverFails`); an error on mixed series is told apart
  (`FailedIsUnmixed`). `SignalActsOnce`: `AskedIsRemembered` says that what
  was asked of a signal is asked of one the memory still has; an intent is for a new
  one (`RulesIntentIsNew`), of which `DirectionUnique` leaves at most one side.
  `EntriesAreInSession` and `SessionsAreFlattened` rest on `GatesHold`, that every
  evaluation asks for what the code's comparisons of times of day let through, and on
  arithmetic of days (`WindowIsSession`, `EndedIsBetween`), which makes these comparisons
  the sessions of the properties. The first assumes that in a window over midnight the
  cutoff comes before the window's start, without which the code is known not to have it.
  `CompiledIsStrategy` is the loader's and the compiler's side of `StrategiesAssumption`.
* **Contracts.** `FrontMonthIsFirst` and `FrontMonthRollsForward` are about any chain,
  from the least element of its orders (`LeastExists`); `BuiltinResolves` and
  `FeedSymbolsAreDistinct` about the eight built-in ones, whose last December has not
  rolled over before the year after the next, and which span three years.
* **Clients.** `LiveAndOverrideAreAsked`: `AskedInv` says that a command on its way
  which goes to Live or allows an override was prompted for, that an open prompt is
  the one its command demands, and that a console arms unasked only while its copy is
  not Live. Moves of the runtime do not touch it, which is why it holds of the
  client's knowledge and not of the runtime's mode.
  `StoredUploadsAreKept` (`LibraryInv`): of a path that was given to one upload at a
  time, that upload alone decides, and what a client was told is stored there no one is
  writing. That the path given is the first free one rests on the least element of a set
  of numbers (`LeastExists`). `RestartKeepsSettings` (`SettingsInv`): a save that is
  alone has found the file and the memory consistent, and at each of its stages what
  is on the disk, or was read from it, is a file the runtime starts from with what saving
  does not edit as it was (`PersistedIsGood`). It assumes that `Unset` is none of the
  other values (`UnsetAssumption`).

`HostTypeCorrect`, `MarketDataTypeCorrect` and `ArmFollowsLoad` are proved of
invariants no run repeats.

Only model-checked: the liveness properties (`WarmupSettles`,
`LostStreamIsReported`, `ShutdownsExit`, `ClientsCatchUp`, `ChartAgreesAgain`,
`ChartSettles`, `ValidationIsOfChoice`, `DraftsSettle`), which the prover does not reach.
Every safety invariant and action property of a passing run is stated by a theorem.
`CommandLoop` has no type invariant: the conjuncts its theorems need are in `HandlerInv`
and `TargetInv`.

## Not modelled

* **Bracket quantities and the fills of bracket orders** in `ExecutionPlan`: the
  plan's calls are there, the broker's handling of an OSO's legs is the broker's.
  What quantity the brackets of a reversal have is therefore not looked at.
* **A kill in the middle of a command.** Nothing is resumed after one; what a start
  makes of the stored records is in `HistoryRecorder`.
* **SQL, retention and schema** of `crates/persistence`, the PnL table and the columns
  of the others: what is modelled is keys, orders and which store is selected.
* **The event hub's capacity.** A slow reader is told how much it skipped, and a
  client's next refresh makes up for it; the counters are for display.
* **The dashboard's trade buttons**, whose effect is `CommandLoop`'s, and the one-shot
  commands of the CLI, which send one request.
* **The range of decimals.** A division or a sum that a `Decimal` cannot hold panics; risk,
  fees and prices are taken to be in its range.
* **Malformed values and header names of the configuration, the confinement of uploaded
  file names, the gauges** of a health snapshot: checks of one value.
* **The bodies of REST requests, the decoding of market records, the
  parsing of strategies, the prices an indicator computes with**: pure
  functions of text and decimals, which their unit tests reach.
* **Rendering** of console and dashboard. In-file tests, fixtures and benchmarks are
  not program.
