-------------------------- MODULE HistoryRecorder --------------------------
(***************************************************************************)
(* RuntimeHistoryRecorder of apps/runtime/src/history.rs over the storage  *)
(* that crates/persistence selects and the projection of crates/state_store*)
(*                                                                         *)
(* A run record is written under the recorder's lock, so its call is one   *)
(* action.  A sync of the broker's snapshot is not: the snapshot is taken  *)
(* under the dispatcher's lock, the history read before the recorder's,    *)
(* the records computed under it and written after it is released, one by  *)
(* one, while another task may do the same.  The first write that fails    *)
(* ends its sync; what the recorder remembers is not taken back.           *)
(*                                                                         *)
(* One contract of one account; a fill is of one lot.  A record is written *)
(* to the store and applied to the projection in one step: nothing reads   *)
(* the store before the next start.  So the projection is the store of the *)
(* selected backend, except for the position, which live follows the order *)
(* of the writes and after a start the order of their times.  Left out:    *)
(* prices, fees, PnL snapshots (the last write of a sync) and what the     *)
(* broker session shows before it is connected, which is nothing.          *)
(***************************************************************************)
EXTENDS Persistence, Sequences

CONSTANTS
  Strategies,         \* numbered as their identifiers sort
  Orders,             \* the orders the runtime may dispatch
  Quantity,           \* lots each order has at the broker
  Intended,           \* lots its intent asked for, which the first record holds
  Described,          \* orders whose updates carry their side and quantity
  Positions,          \* signed lots the account may hold
  Syncs,              \* tasks that may sync: history_refresh_loop, handlers
  Budgets,            \* bound: how many events of each kind a behaviour has
  None

ASSUME QuantityAssumption == Quantity \in [Orders -> Nat \ {0}]
ASSUME IntendedAssumption == Intended \in [Orders -> Nat \ {0}]
ASSUME PositionsAssumption == Positions \subseteq Int /\ 0 \in Positions
ASSUME StrategiesAssumption == Strategies \subseteq Nat /\ Described \subseteq Orders

Kinds == {"run", "order", "position", "fault"}
ASSUME BudgetsAssumption == Budgets \subseteq [Kinds -> Nat]

VARIABLES
  events,         \* how many there were of each kind, outside the syncs
  \* the account, as the broker session's snapshot shows it
  position,
  working_orders, \* lots filled of each order that works, None of the others
  fills,
  ended,          \* orders that will not work again
  \* the process
  backend,        \* what RuntimePersistence::open selected, None when not running
  open_position,  \* the projection's position
  current_run, last_orders, seen_fills, last_position,
  sync,           \* where each task's sync is
  store,          \* the records of every backend
  \* history
  recorded_run,   \* the run each order was recorded with when it was dispatched
  fill_write_lost, run_write_lost,   \* a write failed: of a sync since the start, of a run
  serial,         \* no two syncs have overlapped and no write of one has failed
  synced_position \* the last position recorded since the start

account_vars == <<position, working_orders, fills, ended>>
recorder_vars == <<last_orders, seen_fills, last_position>>
sync_vars == <<recorder_vars, open_position, sync>>
history_vars == <<recorded_run, fill_write_lost, run_write_lost, serial, synced_position>>
vars == <<events, account_vars, backend, current_run, sync_vars, store, history_vars>>

now == events["run"] + events["order"] + events["position"] + events["fault"]
Fills == UNION {{o} \X (1..Quantity[o]) : o \in Orders}
Lots(some_fills, o) == Cardinality({f \in some_fills : f[1] = o})
Modes == {"Paper", "Live"}
OpenStatuses == {"Starting", "Active", "Paused", "Failed"}
RunKeys == Strategies \X Nat

\* StrategyRunRecord, OrderRecord and TradeSummaryRecord, by their keys.
Run == [run_id : RunKeys, mode : Modes, status : OpenStatuses \cup {"Cancelled"},
        ended_at : Nat \cup {None}]
OrderRecord == [order_id : Orders, run_id : RunKeys \cup {None}, quantity : Nat,
                filled_quantity : Nat, status : {"Pending", "Working", "Filled", "Cancelled"}]
TradeSummary == [side : {"Buy", "Sell"}, quantity : Nat, status : {"Open", "Closed"}]

\* What is recorded of a dispatch in recorded_run.
Recorded == [backend : Backends \cup {"lost"}, run_id : RunKeys \cup {None}]

ASSUME NoneAssumption ==
  /\ None \notin Backends
  /\ None \notin Int
  /\ None \notin RunKeys
  /\ None \notin OrderRecord
  /\ None \notin Recorded

NoSync == [stage |-> "idle"]
EmptyHistory == [runs |-> {}, orders |-> [o \in Orders |-> None], fills |-> {},
                 position |-> None, trades |-> <<>>]

-----------------------------------------------------------------------------
\* An event outside the syncs takes place, at a time of its own.
Event(kind) ==
  /\ \E budget \in Budgets :
       /\ events[kind] < budget[kind]
       /\ \A other \in Kinds : events[other] <= budget[other]
  /\ events' = [events EXCEPT ![kind] = @ + 1]

\* The process at rest: it remembers nothing.
Forgotten ==
  /\ backend' = None
  /\ current_run' = None
  /\ open_position' = 0
  /\ last_orders' = [o \in Orders |-> None]
  /\ seen_fills' = {}
  /\ last_position' = 0
  /\ sync' = [t \in Syncs |-> NoSync]
  /\ synced_position' = None
  /\ fill_write_lost' = FALSE

Init ==
  /\ events = [kind \in Kinds |-> 0]
  /\ position = 0
  /\ working_orders = [o \in Orders |-> None]
  /\ fills = {}
  /\ ended = {}
  /\ backend = None
  /\ open_position = 0
  /\ current_run = None
  /\ last_orders = [o \in Orders |-> None]
  /\ seen_fills = {}
  /\ last_position = 0
  /\ sync = [t \in Syncs |-> NoSync]
  /\ store = [b \in Backends |-> EmptyHistory]
  /\ recorded_run = [o \in Orders |-> None]
  /\ fill_write_lost = FALSE
  /\ run_write_lost = FALSE
  /\ serial = TRUE
  /\ synced_position = None

\* The process is killed.
Crash ==
  /\ backend # None
  /\ Event("fault")
  /\ Forgotten
  /\ UNCHANGED <<account_vars, store, recorded_run, run_write_lost, serial>>

-----------------------------------------------------------------------------
RunTime(run) == IF run.ended_at = None THEN run.run_id[2] ELSE run.ended_at

\* How a backend lists two runs: SQLite by start, Postgres by end and identifier.
ListedBefore(b, run, other) ==
  LET later(a, c) == \/ a[1] > c[1]
                     \/ a[1] = c[1] /\ a[2] > c[2]
  IN IF b = "Sqlite"
     THEN later(<<other.run_id[2], other.run_id[1]>>, <<run.run_id[2], run.run_id[1]>>)
     ELSE \/ RunTime(run) < RunTime(other)
          \/ RunTime(run) = RunTime(other) /\ later(other.run_id, run.run_id)

\* Mutant of LatestRun: the first of the runs that ended or started last.
EarliestLatestRun(b, runs) ==
  CHOOSE run \in runs :
    \A other \in runs \ {run} :
      \/ RunTime(other) < RunTime(run)
      \/ RunTime(other) = RunTime(run) /\ ListedBefore(b, run, other)

\* replace_latest_run, over the runs as they are listed.
LatestRun(b, runs) ==
  CHOOSE run \in runs :
    \A other \in runs \ {run} :
      \/ RunTime(other) < RunTime(run)
      \/ RunTime(other) = RunTime(run) /\ ListedBefore(b, other, run)

\* The run from_persistence goes on with.
ContinuedRun(b, runs) ==
  IF runs = {} THEN None
  ELSE LET run == LatestRun(b, runs)
       IN IF run.status \in OpenStatuses
          THEN [run_id |-> run.run_id, mode |-> run.mode, status |-> run.status]
          ELSE None

\* from_persistence
Start ==
  /\ backend = None
  /\ \E primary_opens, fallback_opens \in BOOLEAN :
       backend' = SelectedBackend(primary_opens, fallback_opens)
  /\ store' = [store EXCEPT !["InMemory"] = EmptyHistory]
  /\ LET history == store'[backend']
     IN /\ current_run' = ContinuedRun(backend', history.runs)
        /\ open_position' = IF history.position = None THEN 0 ELSE history.position.lots
  /\ UNCHANGED <<events, account_vars, recorder_vars, sync, history_vars>>

-----------------------------------------------------------------------------
\* The projection and the store under append and upsert.
PutRun(history, run) ==
  [history EXCEPT !.runs = {r \in @ : r.run_id # run.run_id} \cup {run}]
PutOrder(history, order) ==
  [history EXCEPT !.orders[order.order_id] = order]
PutPosition(history, at, lots) ==
  IF history.position # None /\ history.position.at > at THEN history
  ELSE [history EXCEPT !.position = [at |-> at, lots |-> lots]]
PutTrade(history, index, trade) ==
  [history EXCEPT !.trades = IF index = 0 THEN Append(@, trade)
                             ELSE [@ EXCEPT ![index] = trade]]

RunRecord(run, status, ended_at) ==
  [run_id |-> run.run_id, mode |-> run.mode, status |-> status, ended_at |-> ended_at]

KeepSyncs == UNCHANGED <<account_vars, backend, sync_vars, recorded_run, fill_write_lost,
                         serial, synced_position>>

\* record_strategy_loaded: the previous run is given up before its last record,
\* and the new one is kept only after its first.
LoadStrategy(strategy, mode) ==
  /\ backend # None
  /\ Event("run")
  /\ LET run == [run_id |-> <<strategy, now'>>, mode |-> mode, status |-> "Starting"]
         closed == IF current_run = None THEN store[backend]
                   ELSE PutRun(store[backend], RunRecord(current_run, "Cancelled", now'))
     IN \/ /\ store' = [store EXCEPT ![backend] = PutRun(closed, RunRecord(run, "Starting", None))]
           /\ current_run' = run
           /\ UNCHANGED run_write_lost
        \/ /\ store' \in {store, [store EXCEPT ![backend] = closed]}
           /\ current_run' = None
           /\ run_write_lost' = TRUE
  /\ KeepSyncs

\* The current run changes in memory and is then written.
RecordRun(run, ended_at) ==
  /\ current_run' = run
  /\ \/ /\ store' = [store EXCEPT ![backend] = PutRun(@, RunRecord(run, run.status, ended_at))]
        /\ UNCHANGED run_write_lost
     \/ run_write_lost' = TRUE /\ UNCHANGED store

RecordModeChange(mode) ==
  /\ backend # None
  /\ current_run # None
  /\ current_run.mode # mode
  /\ Event("run")
  /\ RecordRun([current_run EXCEPT !.mode = mode], None)
  /\ KeepSyncs

\* record_run_status: Failed is the one terminal status a command reports.
RecordRunStatus(status) ==
  /\ backend # None
  /\ current_run # None
  /\ Event("run")
  /\ RecordRun([current_run EXCEPT !.status = status],
               IF status = "Failed" THEN now' ELSE None)
  /\ KeepSyncs

\* The host ends: the run is recorded as cancelled, if that write succeeds.
Shutdown ==
  /\ backend # None
  /\ Event("fault")
  /\ store' \in
       {store} \cup
       (IF current_run = None THEN {}
        ELSE {[store EXCEPT ![backend] =
                PutRun(@, RunRecord(current_run, "Cancelled", now'))]})
  /\ Forgotten
  /\ UNCHANGED <<account_vars, recorded_run, run_write_lost, serial>>
-----------------------------------------------------------------------------
\* record_execution_outcome, after the broker has answered.  The dispatcher's
\* lock is held: no sync's snapshot shows the order before this.
Dispatch(o) ==
  /\ backend # None
  /\ recorded_run[o] = None
  /\ Event("order")
  /\ LET run_id == IF current_run = None THEN None ELSE current_run.run_id
         order == [order_id |-> o, run_id |-> run_id, quantity |-> Intended[o],
                   filled_quantity |-> 0, status |-> "Pending"]
     IN \/ /\ store' = [store EXCEPT ![backend] = PutOrder(@, order)]
           /\ recorded_run' = [recorded_run EXCEPT ![o] = [backend |-> backend, run_id |-> run_id]]
        \/ /\ recorded_run' = [recorded_run EXCEPT ![o] = [backend |-> "lost", run_id |-> None]]
           /\ UNCHANGED store
  /\ UNCHANGED <<account_vars, backend, current_run, sync_vars, fill_write_lost,
                 run_write_lost, serial, synced_position>>

KeepProcess == UNCHANGED <<backend, current_run, sync_vars, store, history_vars>>

\* The broker reports a fill of an order, that it works, that it is over, or the
\* position: messages of their own, in any order.
ReportFill(o) ==
  /\ recorded_run[o] # None
  /\ Lots(fills, o) < Quantity[o]
  /\ Event("order")
  /\ fills' = fills \cup {<<o, Lots(fills, o) + 1>>}
  /\ UNCHANGED <<position, working_orders, ended>>
  /\ KeepProcess

ReportWorking(o) ==
  /\ recorded_run[o] # None
  /\ o \notin ended
  /\ working_orders[o] # Lots(fills, o)
  /\ Event("order")
  /\ working_orders' = [working_orders EXCEPT ![o] = Lots(fills, o)]
  /\ UNCHANGED <<position, fills, ended>>
  /\ KeepProcess

ReportEnd(o) ==
  /\ recorded_run[o] # None
  /\ o \notin ended
  /\ Event("order")
  /\ working_orders' = [working_orders EXCEPT ![o] = None]
  /\ ended' = ended \cup {o}
  /\ UNCHANGED <<position, fills>>
  /\ KeepProcess

ReportPosition(lots) ==
  /\ lots # position
  /\ Event("position")
  /\ position' = lots
  /\ UNCHANGED <<working_orders, fills, ended>>
  /\ KeepProcess

-----------------------------------------------------------------------------
\* sync_history_state: the snapshot is taken and the dispatcher's lock released.
TakeSnapshot(t) ==
  /\ backend # None
  /\ sync[t] = NoSync
  /\ sync' = [sync EXCEPT ![t] =
       [stage |-> "snapshot", at |-> now, position |-> position,
        working_orders |-> working_orders, fills |-> fills]]
  /\ serial' = (serial /\ \A u \in Syncs : sync[u] = NoSync)
  /\ UNCHANGED <<events, account_vars, backend, current_run, recorder_vars, open_position, store,
                 recorded_run, fill_write_lost, run_write_lost, synced_position>>

\* sync_broker_snapshot reads the projection before it takes the recorder's lock.
ReadHistory(t) ==
  /\ sync[t].stage = "snapshot"
  /\ sync' = [sync EXCEPT ![t] =
       [stage |-> "history", at |-> sync[t].at, snapshot |-> sync[t],
        orders |-> store[backend].orders, fills |-> store[backend].fills]]
  /\ UNCHANGED <<events, account_vars, backend, current_run, recorder_vars, open_position, store,
                 history_vars>>

\* Mutant of MergedOrder: the current run instead of the order's own.
MergedIntoCurrentRun(existing, o, filled) ==
  [order_id |-> o,
   run_id |-> IF current_run # None THEN current_run.run_id
              ELSE IF existing # None THEN existing.run_id ELSE None,
   quantity |-> IF o \in Described THEN Quantity[o] ELSE existing.quantity,
   filled_quantity |-> filled, status |-> "Working"]

\* merge_order_record, when the update or the existing record has the quantity.
MergedOrder(existing, o, filled) ==
  [order_id |-> o,
   run_id |-> IF existing # None /\ existing.run_id # None THEN existing.run_id
              ELSE IF current_run # None THEN current_run.run_id ELSE None,
   quantity |-> IF o \in Described THEN Quantity[o] ELSE existing.quantity,
   filled_quantity |-> filled, status |-> "Working"]

\* An order that works no longer: filled when enough lots are known, stored or new.
FinalOrder(existing, lots) ==
  [existing EXCEPT !.filled_quantity = lots,
                   !.status = IF lots >= existing.quantity THEN "Filled" ELSE "Cancelled"]

\* What a sync still has to write; nothing is left when all of it is empty.
WriteStage(at, orders, new_fills, lots) ==
  IF orders = {} /\ new_fills = {} /\ lots = None THEN NoSync
  ELSE [stage |-> "write", at |-> at, orders |-> orders, fills |-> new_fills, position |-> lots]

\* Mutant of NewFills: every fill of the snapshot.
AllFills(snapshot) == snapshot.fills

\* Mutant of NewFills: those of orders that have been seen working.
NewFillsOfSeenOrders(snapshot) ==
  {f \in snapshot.fills \ seen_fills : last_orders[f[1]] # None}

NewFills(snapshot) == snapshot.fills \ seen_fills

\* The order records of a sync.
OrderRecords(job) ==
  LET snapshot == job.snapshot
      works(o) == snapshot.working_orders[o] # None
      known(o) == job.orders[o] # None
  IN {MergedOrder(job.orders[o], o, snapshot.working_orders[o]) :
        o \in {x \in Orders : works(x) /\ last_orders[x] # snapshot.working_orders[x]
                              /\ (x \in Described \/ known(x))}}
     \cup
     {FinalOrder(job.orders[o], Lots(job.fills, o) + Lots(NewFills(snapshot), o)) :
        o \in {x \in Orders : ~works(x) /\ last_orders[x] # None /\ known(x)}}

\* Mutant of PositionChange: a position that is no longer there is left alone.
PositionWhileOpen(lots) == IF lots \in {0, last_position} THEN None ELSE lots

\* The position to record: one that differs from the last, or that is gone.
PositionChange(lots) == IF lots = last_position THEN None ELSE lots

\* The records are computed, and remembered, under the recorder's lock.
ComputeRecords(t) ==
  /\ sync[t].stage = "history"
  /\ LET snapshot == sync[t].snapshot
     IN /\ sync' = [sync EXCEPT ![t] =
             WriteStage(sync[t].at, OrderRecords(sync[t]), NewFills(snapshot),
                        PositionChange(snapshot.position))]
        /\ last_orders' = snapshot.working_orders
        /\ seen_fills' = seen_fills \cup snapshot.fills
        /\ last_position' = snapshot.position
  /\ UNCHANGED <<events, account_vars, backend, current_run, open_position, store, history_vars>>

-----------------------------------------------------------------------------
\* Then they are written: orders, fills, the position, its trade summary.
KeepMemory == UNCHANGED <<events, account_vars, backend, current_run, recorder_vars,
                          recorded_run, fill_write_lost, run_write_lost, serial>>

Writing(t) == sync[t].stage = "write"

WriteOrder(t) ==
  /\ Writing(t)
  /\ \E order \in sync[t].orders :
       /\ store' = [store EXCEPT ![backend] = PutOrder(@, order)]
       /\ sync' = [sync EXCEPT ![t] =
            WriteStage(@.at, @.orders \ {order}, @.fills, @.position)]
  /\ UNCHANGED <<open_position, synced_position>>
  /\ KeepMemory

WriteFill(t) ==
  /\ Writing(t)
  /\ sync[t].orders = {}
  /\ \E fill \in sync[t].fills :
       /\ store' = [store EXCEPT ![backend].fills = @ \cup {fill}]
       /\ sync' = [sync EXCEPT ![t] = WriteStage(@.at, {}, @.fills \ {fill}, @.position)]
  /\ UNCHANGED <<open_position, synced_position>>
  /\ KeepMemory

WritePosition(t) ==
  /\ Writing(t)
  /\ sync[t].orders = {}
  /\ sync[t].fills = {}
  /\ store' = [store EXCEPT ![backend] = PutPosition(@, sync[t].at, sync[t].position)]
  /\ open_position' = sync[t].position
  /\ synced_position' = sync[t].position
  /\ sync' = [sync EXCEPT ![t] = [stage |-> "trade", position |-> @.position]]
  /\ KeepMemory

Side(lots) == IF lots > 0 THEN "Buy" ELSE "Sell"
\* Mutant of Magnitude: the position as it is.
SignedMagnitude(lots) == lots

Magnitude(lots) == IF lots > 0 THEN lots ELSE -lots
OpenTrades(trades) == {i \in DOMAIN trades : trades[i].status = "Open"}

\* A trade to be written: a new one (index 0) gets an identifier of its own.
TradeWrite(index, side, quantity, status, rest) ==
  [stage |-> "trade_write", index |-> index, position |-> rest,
   trade |-> [side |-> side, quantity |-> quantity, status |-> status]]

\* sync_trade_summary_for_position reads the open trade, to write it afterwards;
\* one of the other side is closed first, and the position looked at again.
TradeWrites(trades, lots) ==
  IF OpenTrades(trades) = {}
  THEN {IF lots = 0 THEN NoSync
        ELSE TradeWrite(0, Side(lots), Magnitude(lots), "Open", None)}
  ELSE {LET trade == trades[i]
        IN IF lots # 0 /\ trade.side = Side(lots)
           THEN TradeWrite(i, trade.side, Magnitude(lots), "Open", None)
           ELSE TradeWrite(i, trade.side, trade.quantity, "Closed",
                           IF lots = 0 THEN None ELSE lots) : i \in OpenTrades(trades)}

ReadTrade(t) ==
  /\ sync[t].stage = "trade"
  /\ \E next \in TradeWrites(store[backend].trades, sync[t].position) :
       sync' = [sync EXCEPT ![t] = next]
  /\ UNCHANGED <<open_position, store, synced_position>>
  /\ KeepMemory

WriteTrade(t) ==
  /\ sync[t].stage = "trade_write"
  /\ store' = [store EXCEPT ![backend] = PutTrade(@, sync[t].index, sync[t].trade)]
  /\ sync' = [sync EXCEPT ![t] =
       IF @.position = None THEN NoSync ELSE [stage |-> "trade", position |-> @.position]]
  /\ UNCHANGED <<open_position, synced_position>>
  /\ KeepMemory

\* A write fails: what its sync had still to write is never written.
WriteFails(t) ==
  /\ sync[t].stage \in {"write", "trade_write"}
  /\ Event("fault")
  /\ sync' = [sync EXCEPT ![t] = NoSync]
  /\ fill_write_lost' = TRUE
  /\ serial' = FALSE
  /\ UNCHANGED <<account_vars, backend, current_run, recorder_vars, open_position, store,
                 recorded_run, run_write_lost, synced_position>>

Next ==
  \/ Crash
  \/ Start
  \/ \E strategy \in Strategies, mode \in Modes : LoadStrategy(strategy, mode)
  \/ \E mode \in Modes : RecordModeChange(mode)
  \/ \E status \in {"Active", "Paused", "Failed"} : RecordRunStatus(status)
  \/ Shutdown
  \/ \E o \in Orders : Dispatch(o) \/ ReportFill(o) \/ ReportWorking(o) \/ ReportEnd(o)
  \/ \E lots \in Positions : ReportPosition(lots)
  \/ \E t \in Syncs : \/ TakeSnapshot(t) \/ ReadHistory(t) \/ ComputeRecords(t)
                      \/ WriteOrder(t) \/ WriteFill(t) \/ WritePosition(t)
                      \/ ReadTrade(t) \/ WriteTrade(t) \/ WriteFails(t)

Spec == Init /\ [][Next]_vars

-----------------------------------------------------------------------------
Idle == \A t \in Syncs : sync[t] = NoSync

\* The recorder remembers nothing while it is not running, and whatever it records
\* is a record of its kind; a trade's identifier is never given twice.
HistoryTypeOK ==
  /\ events \in [Kinds -> Nat]
  /\ backend \in Backends \cup {None}
  /\ current_run \in [run_id : RunKeys, mode : Modes, status : OpenStatuses] \cup {None}
  /\ seen_fills \subseteq fills /\ fills \subseteq Fills
  /\ \A b \in Backends :
       /\ store[b].runs \subseteq Run
       /\ \A o \in Orders : store[b].orders[o] \in OrderRecord \cup {None}
       /\ store[b].fills \subseteq fills
       /\ \A i \in DOMAIN store[b].trades : store[b].trades[i] \in TradeSummary
  /\ backend = None => current_run = None /\ seen_fills = {} /\ Idle

\* No record says more was filled than was: however many syncs saw a fill, and
\* whatever was stored of it before, it is counted once (summarize_order_fills).
\* Every record is one of its kind.
FilledIsTrue ==
  /\ HistoryTypeOK
  /\ \A b \in Backends, o \in Orders :
       LET order == store[b].orders[o]
       IN order # None => /\ order.filled_quantity <= Lots(fills, o)
                          /\ order.status = "Filled" => order.quantity <= Lots(fills, o)

\* An order recorded with its dispatch stays an order of the run that placed it,
\* whichever run is the current one when its later states are recorded.
OrderKeepsItsRun ==
  \A o \in Orders :
    LET recorded == recorded_run[o]
    IN /\ recorded # None
       /\ recorded.backend \in {"Postgres", "Sqlite"}
       /\ recorded.run_id # None
       => store[recorded.backend].orders[o].run_id = recorded.run_id

\* As long as no record of a run was lost, a process that is killed and started
\* again goes on with the run it had (or with none), in its last mode and status,
\* on SQLite: on Postgres the run before, cancelled at the same instant, may be
\* listed after it.
RunSurvivesCrash ==
  ~run_write_lost /\ backend = "Sqlite" =>
    ContinuedRun(backend, store[backend].runs) = current_run

\* While no write has failed since the start, every fill the recorder has taken
\* note of, and so will not record again, is stored or about to be.
SyncedFillsAreStored ==
  backend # None /\ ~fill_write_lost =>
    seen_fills \subseteq
      store[backend].fills \cup UNION {sync[t].fills : t \in {u \in Syncs : Writing(u)}}

\* When syncs neither overlap nor fail, the projection shows the last position
\* that was recorded, and one open trade of that side and size, or none.
SerialSyncTracksPosition ==
  serial /\ Idle /\ backend # None /\ synced_position # None =>
    LET trades == store[backend].trades
    IN /\ open_position = last_position
       /\ IF last_position = 0 THEN OpenTrades(trades) = {}
          ELSE \E i \in DOMAIN trades :
                 /\ OpenTrades(trades) = {i}
                 /\ trades[i].side = Side(last_position)
                 /\ trades[i].quantity = Magnitude(last_position)
=============================================================================
