------------------------ MODULE RuntimeRecordsProofs ------------------------
(***************************************************************************)
(* What the runtime's records may be trusted with, for any numbers of      *)
(* orders, handlers and tasks, kills, backends and budgets.                *)
(*                                                                         *)
(* The trading history (HistoryRecorder), with any orders and sync tasks:  *)
(*   Part one: what is taken note of is stored, unless a write failed.     *)
(*   Part two: what is recorded of a fill and of an order is true.         *)
(*   Part three: a restart goes on with the run that was open.             *)
(*   Part four: an order keeps the run it was dispatched in.               *)
(*   Part five: syncs that never overlap keep the position and the open    *)
(*   trade in step.                                                        *)
(* The journal, the latencies and the health snapshots (RuntimeRecords),   *)
(* with the steps of the trading history in between:                       *)
(*   Part six: what was published after it was stored stays stored.  An    *)
(*   append takes no record away but one of its own identifier, which says *)
(*   the same.                                                             *)
(*   Part seven: the count of errors is remembered.  A snapshot counts at  *)
(*   least the errors of those before it, so the last listed one counts as *)
(*   many as any, if they are listed in order.                             *)
(*   Part eight: what the process keeps of its tables is what a restart    *)
(*   would make of them.  An append that was stored and replaced nothing   *)
(*   adds one row, and each summary counts it.                             *)
(* Each part has an inductive invariant of its own; parts three to five    *)
(* rest on that of part two, which says what the store and the tasks hold, *)
(* and parts seven and eight on that of part six, which says what the      *)
(* tables hold.                                                            *)
(***************************************************************************)
EXTENDS RuntimeRecords, FiniteSetTheorems, SequenceTheorems, TLAPS

-----------------------------------------------------------------------------
\* Part one: what is noted is stored.  A fill enters seen_fills in the step that
\* puts it among the records of one sync, and only its own write, or a write
\* that fails, takes it away from them.
\* The fills a task has computed and not written.
Pending(t) == IF Writing(t) THEN sync[t].fills ELSE {}

Shape ==
  /\ DOMAIN sync = Syncs
  /\ DOMAIN store = Backends
  /\ \A b \in Backends :
       DOMAIN store[b] = {"runs", "orders", "fills", "position", "trades"}
  /\ backend \in Backends \cup {None}

NothingAtRest ==
  backend = None => seen_fills = {} /\ \A t \in Syncs : sync[t].stage = "idle"

SeenIsStoredOrPending ==
  backend # None /\ ~fill_write_lost =>
    \A f \in seen_fills : f \in store[backend].fills \/ \E t \in Syncs : f \in Pending(t)

SeenInv == Shape /\ NothingAtRest /\ SeenIsStoredOrPending

\* Updating the history of one backend keeps the shape of all of them.
LEMMA PutKeepsShape ==
  ASSUME NEW history, DOMAIN history = {"runs", "orders", "fills", "position", "trades"}
  PROVE  /\ \A run : /\ DOMAIN PutRun(history, run) = DOMAIN history
                     /\ PutRun(history, run).fills = history.fills
         /\ \A order : /\ DOMAIN PutOrder(history, order) = DOMAIN history
                       /\ PutOrder(history, order).fills = history.fills
         /\ \A at, lots : /\ DOMAIN PutPosition(history, at, lots) = DOMAIN history
                          /\ PutPosition(history, at, lots).fills = history.fills
         /\ \A index, trade : /\ DOMAIN PutTrade(history, index, trade) = DOMAIN history
                              /\ PutTrade(history, index, trade).fills = history.fills
BY DEF PutRun, PutOrder, PutPosition, PutTrade

\* Nothing is noted at first.
LEMMA InitSeenInv == Init => SeenInv
BY DEF NoSync, Init, SeenInv, Shape, NothingAtRest, SeenIsStoredOrPending, EmptyHistory

\* The actions that change neither the fills stored, noted and pending nor which
\* backend is in use.
LEMMA FillsUntouched ==
  ASSUME SeenInv, Shape', UNCHANGED <<backend, seen_fills, fill_write_lost>>,
         \A b \in Backends : store'[b].fills = store[b].fills,
         \A t \in Syncs : Pending(t) \subseteq Pending(t)',
         backend # None \/ UNCHANGED sync
  PROVE  SeenInv'
BY DEF SeenInv, Shape, NothingAtRest, SeenIsStoredOrPending

\* A step at whose end the process is not running.
LEMMA RestHoldsNothing ==
  ASSUME SeenInv, Forgotten, DOMAIN store' = Backends,
         \A b \in Backends : DOMAIN store'[b] = {"runs", "orders", "fills", "position", "trades"}
  PROVE  SeenInv'
BY DEF NoSync, SeenInv, Shape, Forgotten, NothingAtRest, SeenIsStoredOrPending

\* A start notes exactly the fills that its backend holds.
LEMMA StartKeepsSeenInv == SeenInv /\ Start => SeenInv'
BY DEF SeenInv, Shape, NothingAtRest, SeenIsStoredOrPending, Pending, Writing, Start,
       SelectedBackend, Backends, EmptyHistory, recorder_vars, history_vars

\* The calls that record a run, an order or nothing keep every stored fill.
LEMMA RunRecordsKeepSeenInv ==
  ASSUME SeenInv,
         \/ \E strategy \in Strategies, mode \in Modes : LoadStrategy(strategy, mode)
         \/ \E mode \in Modes : RecordModeChange(mode)
         \/ \E status \in {"Active", "Paused", "Failed"} : RecordRunStatus(status)
         \/ \E o \in Orders : Dispatch(o)
  PROVE  SeenInv'
<1> USE PutKeepsShape DEF SeenInv, Shape
<1>1. /\ DOMAIN store' = Backends
      /\ \A b \in Backends : /\ DOMAIN store'[b] = DOMAIN store[b]
                             /\ store'[b].fills = store[b].fills
  <2>1. CASE \E strategy \in Strategies, mode \in Modes : LoadStrategy(strategy, mode)
    BY <2>1 DEF LoadStrategy
  <2>2. CASE \E mode \in Modes : RecordModeChange(mode)
    <3>1. \E run : UNCHANGED store \/ store' = [store EXCEPT ![backend] = PutRun(@, run)]
      BY <2>2 DEF RecordModeChange, RecordRun
    <3> QED BY <3>1
  <2>3. CASE \E status \in {"Active", "Paused", "Failed"} : RecordRunStatus(status)
    BY <2>3 DEF RecordRunStatus, RecordRun
  <2>4. CASE \E o \in Orders : Dispatch(o)
    BY <2>4 DEF Dispatch
  <2> QED
    BY <2>1, <2>2, <2>3, <2>4
<1>2. UNCHANGED <<backend, seen_fills, fill_write_lost, sync>>
  BY DEF LoadStrategy, RecordModeChange, RecordRunStatus, Dispatch, KeepSyncs, sync_vars,
         recorder_vars
<1> QED
  BY <1>1, <1>2, FillsUntouched DEF Pending, Writing

\* The broker's reports and the clock touch no note and no record.
LEMMA ReportsKeepSeenInv ==
  ASSUME SeenInv, KeepProcess
  PROVE  SeenInv'
BY DEF SeenInv, Shape, NothingAtRest, SeenIsStoredOrPending, Pending, Writing, KeepProcess,
       sync_vars, recorder_vars, history_vars

\* A stop and a kill forget all notes.
LEMMA EndsKeepSeenInv ==
  ASSUME SeenInv, Crash \/ Shutdown
  PROVE  SeenInv'
<1> USE DEF SeenInv, Shape
<1>1. Forgotten
  BY DEF Crash, Shutdown
<1>2. /\ DOMAIN store' = Backends
      /\ \A b \in Backends : DOMAIN store'[b] = DOMAIN store[b]
  BY PutKeepsShape DEF Crash, Shutdown
<1> QED
  BY <1>1, <1>2, RestHoldsNothing

\* A sync up to the moment its records are computed, and after its fills are
\* written, holds no fill that is not stored.
LEMMA ReadsKeepSeenInv ==
  ASSUME SeenInv, NEW t \in Syncs, TakeSnapshot(t) \/ ReadHistory(t) \/ ReadTrade(t)
  PROVE  SeenInv'
<1> USE DEF SeenInv, Shape
<1>1. UNCHANGED <<backend, seen_fills, fill_write_lost, store>>
  BY DEF TakeSnapshot, ReadHistory, ReadTrade, KeepMemory, recorder_vars, history_vars
<1>2. DOMAIN sync' = Syncs /\ \A u \in Syncs \ {t} : sync'[u] = sync[u]
  BY DEF TakeSnapshot, ReadHistory, ReadTrade
<1>3. Pending(t) = {}
  BY DEF TakeSnapshot, ReadHistory, ReadTrade, Pending, Writing, NoSync
<1>4. \A u \in Syncs : Pending(u) \subseteq Pending(u)'
  BY <1>2, <1>3 DEF Pending, Writing
<1>5. backend # None
  BY DEF TakeSnapshot, ReadHistory, ReadTrade, NothingAtRest
<1> QED
  BY <1>1, <1>2, <1>4, <1>5, FillsUntouched

\* Computing the records notes the new fills and puts them among those to write.
LEMMA ComputeKeepsSeenInv ==
  ASSUME SeenInv, NEW t \in Syncs, ComputeRecords(t)
  PROVE  SeenInv'
<1> USE DEF SeenInv, Shape
<1> DEFINE fresh == NewFills(sync[t].snapshot)
<1>1. UNCHANGED <<backend, fill_write_lost, store>>
  BY DEF ComputeRecords, history_vars
<1>2. /\ DOMAIN sync' = Syncs
      /\ \A u \in Syncs \ {t} : sync'[u] = sync[u]
  BY DEF ComputeRecords
<1>3. fresh \subseteq Pending(t)'
  <2>1. sync'[t] = WriteStage(sync[t].at, OrderRecords(sync[t]), fresh,
                              PositionChange(sync[t].snapshot.position))
    BY DEF ComputeRecords
  <2> HIDE DEF fresh
  <2> QED
    BY <2>1 DEF WriteStage, Pending, Writing
<1>4. Pending(t) = {}
  BY DEF ComputeRecords, Pending, Writing
<1>5. \A u \in Syncs : Pending(u) \subseteq Pending(u)'
  BY <1>2, <1>4 DEF Pending, Writing
<1>6. seen_fills' = seen_fills \cup fresh
  BY DEF ComputeRecords, NewFills
<1>7. backend # None
  BY DEF ComputeRecords, NothingAtRest
<1> HIDE DEF fresh
<1> QED
  BY <1>1, <1>2, <1>3, <1>5, <1>6, <1>7 DEF NothingAtRest, SeenIsStoredOrPending

\* The writes: a record leaves the sync in the step that stores it.
LEMMA WritesKeepSeenInv ==
  ASSUME SeenInv, NEW t \in Syncs,
         WriteOrder(t) \/ WriteFill(t) \/ WritePosition(t) \/ WriteTrade(t)
  PROVE  SeenInv'
<1> USE PutKeepsShape DEF SeenInv, Shape
<1>1. backend # None /\ backend \in Backends
  BY DEF WriteOrder, WriteFill, WritePosition, WriteTrade, Writing, NothingAtRest
<1>2. UNCHANGED <<backend, seen_fills, fill_write_lost>>
  BY DEF WriteOrder, WriteFill, WritePosition, WriteTrade, KeepMemory, recorder_vars
<1>3. DOMAIN sync' = Syncs /\ \A u \in Syncs \ {t} : sync'[u] = sync[u]
  BY DEF WriteOrder, WriteFill, WritePosition, WriteTrade
<1>4. CASE WriteFill(t)
  <2>1. PICK fill \in sync[t].fills :
          /\ store' = [store EXCEPT ![backend].fills = @ \cup {fill}]
          /\ sync' = [sync EXCEPT ![t] = WriteStage(@.at, {}, @.fills \ {fill}, @.position)]
    BY <1>4 DEF WriteFill
  <2>2. /\ Shape'
        /\ store'[backend].fills = store[backend].fills \cup {fill}
    BY <1>1, <1>2, <1>3, <2>1
  <2>3. Pending(t) \ {fill} \subseteq Pending(t)'
    BY <2>1 DEF Pending, Writing, WriteStage
  <2>4. \A u \in Syncs : Pending(u) \ {fill} \subseteq Pending(u)'
    BY <1>3, <2>3 DEF Pending, Writing
  <2> QED
    BY <1>1, <1>2, <2>2, <2>4 DEF NothingAtRest, SeenIsStoredOrPending
<1>5. CASE WriteOrder(t) \/ WritePosition(t) \/ WriteTrade(t)
  <2>1. /\ DOMAIN store' = Backends
        /\ \A b \in Backends : /\ DOMAIN store'[b] = DOMAIN store[b]
                               /\ store'[b].fills = store[b].fills
    <3>1. \E history : /\ store' = [store EXCEPT ![backend] = history]
                       /\ DOMAIN history = DOMAIN store[backend]
                       /\ history.fills = store[backend].fills
      <4> DEFINE h == store[backend]
      <4>1. DOMAIN h = {"runs", "orders", "fills", "position", "trades"}
        BY <1>1
      <4>2. CASE WriteOrder(t)
        <5>1. PICK order : store' = [store EXCEPT ![backend] = PutOrder(h, order)]
          BY <4>2 DEF WriteOrder
        <5> QED
          BY <4>1, <5>1, PutKeepsShape
      <4>3. CASE WritePosition(t)
        <5>1. PICK x, y : store' = [store EXCEPT ![backend] = PutPosition(h, x, y)]
          BY <4>3 DEF WritePosition
        <5>2. /\ DOMAIN PutPosition(h, x, y) = DOMAIN h
              /\ PutPosition(h, x, y).fills = h.fills
          BY <4>1, PutKeepsShape
        <5> QED
          BY <5>1, <5>2
      <4>4. CASE WriteTrade(t)
        <5>1. PICK x, y : store' = [store EXCEPT ![backend] = PutTrade(h, x, y)]
          BY <4>4 DEF WriteTrade
        <5>2. /\ DOMAIN PutTrade(h, x, y) = DOMAIN h
              /\ PutTrade(h, x, y).fills = h.fills
          BY <4>1, PutKeepsShape
        <5> QED
          BY <5>1, <5>2
      <4> QED
        BY <1>5, <4>2, <4>3, <4>4
    <3> QED
      BY <1>1, <3>1
  <2>2. Pending(t) \subseteq Pending(t)'
    <3>1. CASE WriteOrder(t)
      BY <3>1 DEF WriteOrder, Pending, Writing, WriteStage
    <3>2. CASE WritePosition(t)
      BY <3>2 DEF WritePosition, Pending, Writing
    <3>3. CASE WriteTrade(t)
      BY <3>3 DEF WriteTrade, Pending, Writing, NoSync
    <3> QED
      BY <1>5, <3>1, <3>2, <3>3
  <2>3. \A u \in Syncs : Pending(u) \subseteq Pending(u)'
    BY <1>3, <2>2 DEF Pending, Writing
  <2> QED
    BY <1>1, <1>2, <1>3, <2>1, <2>3, FillsUntouched
<1> QED
  BY <1>4, <1>5

\* A write that fails is what the invariant excuses.
LEMMA FailureKeepsSeenInv ==
  ASSUME SeenInv, NEW t \in Syncs, WriteFails(t)
  PROVE  SeenInv'
BY DEF SeenInv, Shape, NothingAtRest, SeenIsStoredOrPending, WriteFails, recorder_vars

\* Every step keeps the invariant of part one.
LEMMA NextKeepsSeenInv == SeenInv /\ [Next]_vars => SeenInv'
<1> SUFFICES ASSUME SeenInv, [Next]_vars PROVE SeenInv'
  OBVIOUS
<1>1. CASE Crash \/ Shutdown
  BY <1>1, EndsKeepSeenInv
<1>2. CASE Start
  BY <1>2, StartKeepsSeenInv
<1>3. CASE \/ \E strategy \in Strategies, mode \in Modes : LoadStrategy(strategy, mode)
           \/ \E mode \in Modes : RecordModeChange(mode)
           \/ \E status \in {"Active", "Paused", "Failed"} : RecordRunStatus(status)
           \/ \E o \in Orders : Dispatch(o)
  BY <1>3, RunRecordsKeepSeenInv
<1>4. CASE \/ \E o \in Orders : ReportFill(o) \/ ReportWorking(o) \/ ReportEnd(o)
           \/ \E lots \in Positions : ReportPosition(lots)
  <2>1. KeepProcess
    BY <1>4 DEF ReportFill, ReportWorking, ReportEnd, ReportPosition
  <2> QED
    BY <2>1, ReportsKeepSeenInv
<1>5. CASE \E t \in Syncs : TakeSnapshot(t) \/ ReadHistory(t) \/ ReadTrade(t)
  BY <1>5, ReadsKeepSeenInv
<1>6. CASE \E t \in Syncs : ComputeRecords(t)
  BY <1>6, ComputeKeepsSeenInv
<1>7. CASE \E t \in Syncs : WriteOrder(t) \/ WriteFill(t) \/ WritePosition(t) \/ WriteTrade(t)
  BY <1>7, WritesKeepSeenInv
<1>8. CASE \E t \in Syncs : WriteFails(t)
  BY <1>8, FailureKeepsSeenInv
<1>9. CASE UNCHANGED vars
  BY <1>9 DEF vars, sync_vars, recorder_vars, history_vars, SeenInv, Shape, NothingAtRest,
     SeenIsStoredOrPending, Pending, Writing
<1> QED
  BY <1>1, <1>2, <1>3, <1>4, <1>5, <1>6, <1>7, <1>8, <1>9 DEF Next

\* However many syncs overlap, wherever the process is killed and whichever
\* backend it starts with, a fill the recorder will not record again is stored or
\* is among the records some sync still has to write, unless a write failed.
THEOREM FillsAreStored == Spec => []SyncedFillsAreStored
<1>1. SeenInv => SyncedFillsAreStored
  BY DEF SeenInv, SeenIsStoredOrPending, SyncedFillsAreStored, Pending
<1> QED
  BY <1>1, InitSeenInv, NextKeepsSeenInv, PTL DEF Spec

-----------------------------------------------------------------------------
\* Part two: what is recorded of a fill is true.  The parts name the fills and
\* the notes they are about, so that they can be carried from state to state.
HistoryFields == {"runs", "orders", "fills", "position", "trades"}
GoodOrder(order, known) ==
  /\ order \in OrderRecord
  /\ order.filled_quantity <= Lots(known, order.order_id)
  /\ order.status = "Filled" => order.quantity <= Lots(known, order.order_id)

OrdersOK(orders, known) ==
  /\ DOMAIN orders = Orders
  /\ \A o \in Orders : orders[o] = None \/ (GoodOrder(orders[o], known) /\ orders[o].order_id = o)

\* One run comes after another in replace_latest_run.
Beats(b, run, other) ==
  \/ RunTime(other) < RunTime(run)
  \/ RunTime(other) = RunTime(run) /\ ListedBefore(b, other, run)

\* A run is recorded once, and among any of them there is a latest one.
RunsOK(runs) ==
  /\ runs \subseteq Run
  /\ \A r, s \in runs : r.run_id = s.run_id => r = s
  /\ \A b \in Backends : \A some \in SUBSET runs :
       some # {} => \E latest \in some : \A r \in some \ {latest} : Beats(b, latest, r)

HistoryOK(history, known) ==
  /\ DOMAIN history = HistoryFields
  /\ RunsOK(history.runs)
  /\ OrdersOK(history.orders, known)
  /\ history.fills \subseteq known
  /\ history.trades \in Seq(TradeSummary)

WorkingOK(working, known) ==
  /\ working \in [Orders -> Nat \cup {None}]
  /\ \A o \in Orders : working[o] = None \/ working[o] <= Lots(known, o)

SnapshotOK(snapshot, known) ==
  /\ snapshot.at \in Nat
  /\ snapshot.position \in Int
  /\ WorkingOK(snapshot.working_orders, known)
  /\ snapshot.fills \subseteq known

WriteOK(job, known, seen) ==
  /\ \A order \in job.orders : GoodOrder(order, known)
  /\ job.fills \subseteq seen
  /\ job.position = None => job.orders # {} \/ job.fills # {}
  /\ job.position \in Int \cup {None}

\* What a task holds at each stage of its sync.
SyncOK(job, known, seen) ==
  \/ job = NoSync
  \/ job.stage = "snapshot" /\ SnapshotOK(job, known)
  \/ /\ job.stage = "history"
     /\ SnapshotOK(job.snapshot, known)
     /\ OrdersOK(job.orders, known)
  \/ job.stage = "write" /\ WriteOK(job, known, seen)
  \/ job.stage = "trade" /\ job.position \in Int
  \/ /\ job.stage = "trade_write"
     /\ job.index \in Nat
     /\ job.trade \in TradeSummary
     /\ job.position \in Int \cup {None}

\* What a task that has not computed its records knows of the fills stored.
ReadOK(job, stored, seen) ==
  /\ job.stage = "snapshot" => stored \subseteq job.fills \cup seen
  /\ job.stage = "history" => /\ stored \subseteq job.snapshot.fills \cup seen
                              /\ job.fills \subseteq stored

ProcessOK ==
  /\ events \in [Kinds -> Nat]
  /\ backend \in Backends \cup {None}
  /\ current_run \in [run_id : RunKeys, mode : Modes, status : OpenStatuses] \cup {None}

AccountOK ==
  /\ position \in Int
  /\ fills \subseteq Fills
  /\ WorkingOK(working_orders, fills)

StoreOK ==
  /\ DOMAIN store = Backends
  /\ \A b \in Backends : HistoryOK(store[b], fills)

SyncsOK ==
  /\ DOMAIN sync = Syncs
  /\ \A t \in Syncs : SyncOK(sync[t], fills, seen_fills)

RestOK ==
  backend = None => /\ current_run = None
                    /\ seen_fills = {}
                    /\ \A o \in Orders : last_orders[o] = None
                    /\ \A t \in Syncs : sync[t] = NoSync

\* A fill is counted once: what is stored of an order that has been seen working
\* is not new, and no sync takes what it read from the store for new.
CountedOnce ==
  backend # None =>
    /\ (\E o \in Orders : last_orders[o] # None) => store[backend].fills \subseteq seen_fills
    /\ \A t \in Syncs : ReadOK(sync[t], store[backend].fills, seen_fills)

FilledInv ==
  /\ ProcessOK /\ AccountOK /\ StoreOK /\ SyncsOK /\ RestOK /\ CountedOnce
  /\ seen_fills \subseteq fills
  /\ DOMAIN last_orders = Orders

\* The fills of an order are finitely many, and counted.
LEMMA LotsCounted ==
  ASSUME NEW known \in SUBSET Fills, NEW o \in Orders
  PROVE  /\ IsFiniteSet({f \in known : f[1] = o})
         /\ Lots(known, o) \in Nat
<1>1. Quantity[o] \in Int
  BY QuantityAssumption
<1>2. IsFiniteSet(1..Quantity[o])
  BY <1>1, FS_Interval
<1>3. IsFiniteSet({o} \X (1..Quantity[o]))
  BY <1>2, FS_Singleton, FS_Product
<1>4. {f \in known : f[1] = o} \in SUBSET ({o} \X (1..Quantity[o]))
  BY DEF Fills
<1>5. IsFiniteSet({f \in known : f[1] = o})
  BY <1>3, <1>4, FS_Subset
<1> QED
  BY <1>5, FS_CardinalityType DEF Lots

\* More fills known, more lots counted.
LEMMA LotsGrow ==
  ASSUME NEW more \in SUBSET Fills, NEW known \in SUBSET more, NEW o \in Orders
  PROVE  Lots(known, o) <= Lots(more, o)
<1>1. IsFiniteSet({f \in more : f[1] = o})
  BY LotsCounted
<1>2. {f \in known : f[1] = o} \in SUBSET {f \in more : f[1] = o}
  OBVIOUS
<1> QED
  BY <1>1, <1>2, FS_Subset DEF Lots

\* The lots stored and the lots that are new are lots of the fills there are.
LEMMA LotsAdd ==
  ASSUME NEW all \in SUBSET Fills, NEW some \in SUBSET all, NEW others \in SUBSET all,
         some \cap others = {}, NEW o \in Orders
  PROVE  Lots(some, o) + Lots(others, o) <= Lots(all, o)
<1> DEFINE S == {f \in some : f[1] = o}
           T == {f \in others : f[1] = o}
           both == some \cup others
<1>1. IsFiniteSet(S) /\ IsFiniteSet(T)
  BY LotsCounted
<1>2. S \cap T = {}
  OBVIOUS
<1>3. Cardinality(S \cup T) = Cardinality(S) + Cardinality(T) - Cardinality({})
  BY <1>1, <1>2, FS_Union
<1>4. Cardinality({}) = 0
  BY FS_EmptySet
<1>5. S \cup T = {f \in both : f[1] = o}
  OBVIOUS
<1>6. Lots(both, o) <= Lots(all, o)
  BY LotsGrow
<1>7. Lots(both, o) = Cardinality(S \cup T)
  BY <1>5 DEF Lots
<1>8. Cardinality(S) = Lots(some, o) /\ Cardinality(T) = Lots(others, o)
  BY DEF Lots
<1>9. Lots(some, o) \in Nat /\ Lots(others, o) \in Nat
  BY LotsCounted
<1> HIDE DEF S, T, both
<1> QED
  BY <1>3, <1>4, <1>6, <1>7, <1>8, <1>9

\* What is true of the fills stays true when more are known.
LEMMA GoodStaysGood ==
  ASSUME NEW more \in SUBSET Fills, NEW known \in SUBSET more
  PROVE  /\ \A order : GoodOrder(order, known) => GoodOrder(order, more)
         /\ \A orders : OrdersOK(orders, known) => OrdersOK(orders, more)
         /\ \A history : HistoryOK(history, known) => HistoryOK(history, more)
         /\ \A working : WorkingOK(working, known) => WorkingOK(working, more)
         /\ \A snapshot : SnapshotOK(snapshot, known) => SnapshotOK(snapshot, more)
         /\ \A job, seen : SyncOK(job, known, seen) => SyncOK(job, more, seen)
<1>1. \A o \in Orders : /\ Lots(known, o) \in Nat
                        /\ Lots(more, o) \in Nat
                        /\ Lots(known, o) <= Lots(more, o)
  <2> TAKE o \in Orders
  <2>1. known \in SUBSET Fills
    OBVIOUS
  <2> QED
    BY <2>1, LotsCounted, LotsGrow
<1>2. \A order : GoodOrder(order, known) => GoodOrder(order, more)
  BY <1>1 DEF GoodOrder, OrderRecord
<1>3. \A orders : OrdersOK(orders, known) => OrdersOK(orders, more)
  BY <1>2 DEF OrdersOK
<1>4. \A history : HistoryOK(history, known) => HistoryOK(history, more)
  BY <1>3 DEF HistoryOK
<1>5. \A working : WorkingOK(working, known) => WorkingOK(working, more)
  BY <1>1 DEF WorkingOK
<1>6. \A snapshot : SnapshotOK(snapshot, known) => SnapshotOK(snapshot, more)
  BY <1>5 DEF SnapshotOK
<1>7. \A job, seen : WriteOK(job, known, seen) => WriteOK(job, more, seen)
  BY <1>2 DEF WriteOK
<1>8. \A job, seen : SyncOK(job, known, seen) => SyncOK(job, more, seen)
  BY <1>3, <1>6, <1>7 DEF SyncOK
<1> QED
  BY <1>2, <1>3, <1>4, <1>5, <1>6, <1>8

\* And when more are noted.
LEMMA NotedStaysNoted ==
  ASSUME NEW known, NEW seen, NEW more, seen \subseteq more
  PROVE  \A job : SyncOK(job, known, seen) => SyncOK(job, known, more)
BY DEF SyncOK, WriteOK

\* Of two runs one comes after the other, and a third after both.
LEMMA BeatsTotal ==
  ASSUME NEW b \in Backends, NEW r \in Run, NEW s \in Run, r.run_id # s.run_id
  PROVE  Beats(b, r, s) \/ Beats(b, s, r)
<1>1. /\ r.run_id[1] \in Nat /\ r.run_id[2] \in Nat /\ s.run_id[1] \in Nat /\ s.run_id[2] \in Nat
      /\ r.run_id = <<r.run_id[1], r.run_id[2]>>
      /\ s.run_id = <<s.run_id[1], s.run_id[2]>>
  <2>1. r.run_id \in Strategies \X Nat /\ s.run_id \in Strategies \X Nat
    BY DEF Run, RunKeys
  <2>2. \A id \in Strategies \X Nat : id[1] \in Nat /\ id[2] \in Nat
    BY StrategiesAssumption
  <2>3. \A id \in Strategies \X Nat : id = <<id[1], id[2]>>
    OBVIOUS
  <2> QED
    BY <2>1, <2>2, <2>3
<1>2. r.run_id[1] # s.run_id[1] \/ r.run_id[2] # s.run_id[2]
  BY <1>1
<1>3. RunTime(r) \in Nat /\ RunTime(s) \in Nat
  BY <1>1 DEF RunTime, Run
<1> QED
  BY <1>1, <1>2, <1>3 DEF Beats, ListedBefore

\* What comes after another comes after all that the other comes after.
LEMMA BeatsTransitive ==
  ASSUME NEW b \in Backends, NEW r \in Run, NEW s \in Run, NEW u \in Run,
         Beats(b, r, s), Beats(b, s, u)
  PROVE  Beats(b, r, u)
<1>1. \A x \in {r, s, u} : /\ x.run_id[1] \in Nat /\ x.run_id[2] \in Nat
                          /\ RunTime(x) \in Nat
  BY StrategiesAssumption DEF Run, RunKeys, RunTime
<1> QED
  BY <1>1 DEF Beats, ListedBefore

\* Writing a run replaces the record of that run and keeps the others.
LEMMA PutKeepsRuns ==
  ASSUME NEW runs, RunsOK(runs), NEW run \in Run
  PROVE  RunsOK({r \in runs : r.run_id # run.run_id} \cup {run})
<1> DEFINE others == {r \in runs : r.run_id # run.run_id}
           all == others \cup {run}
<1>1. all \subseteq Run /\ \A r, s \in all : r.run_id = s.run_id => r = s
  BY DEF RunsOK
<1>2. ASSUME NEW b \in Backends, NEW some \in SUBSET all, some # {}
      PROVE  \E latest \in some : \A r \in some \ {latest} : Beats(b, latest, r)
  <2> DEFINE rest == some \ {run}
  <2>1. CASE rest = {}
    BY <1>2, <2>1
  <2>2. CASE rest # {}
    <3>1. rest \in SUBSET runs
      OBVIOUS
    <3>2. PICK m \in rest : \A r \in rest \ {m} : Beats(b, m, r)
      BY <2>2, <3>1 DEF RunsOK
    <3>3. m \in Run /\ m.run_id # run.run_id
      BY <1>1, <3>2
    <3>4. CASE run \notin some
      BY <3>2, <3>4
    <3>5. CASE run \in some /\ Beats(b, m, run)
      BY <3>2, <3>5
    <3>6. CASE run \in some /\ Beats(b, run, m)
      <4>1. \A r \in some \ {run} : Beats(b, run, r)
        BY <1>1, <3>2, <3>3, <3>6, BeatsTransitive
      <4> QED
        BY <3>6, <4>1
    <3> QED
      BY <3>3, <3>4, <3>5, <3>6, BeatsTotal
  <2> QED
    BY <2>1, <2>2
<1> HIDE DEF all
<1>3. RunsOK(all)
  BY <1>1, <1>2 DEF RunsOK
<1> QED
  BY <1>3 DEF all

\* So there is no doubt which run is the latest.
LEMMA LatestIsRecorded ==
  ASSUME NEW b \in Backends, NEW runs, RunsOK(runs), runs # {}
  PROVE  /\ LatestRun(b, runs) \in runs
         /\ \A r \in runs \ {LatestRun(b, runs)} : Beats(b, LatestRun(b, runs), r)
<1>1. \E latest \in runs : \A r \in runs \ {latest} : Beats(b, latest, r)
  BY DEF RunsOK
<1> QED
  BY <1>1 DEF LatestRun, Beats

\* Updating a history with what is good keeps it good.
LEMMA PutKeepsHistory ==
  ASSUME NEW history, NEW known, HistoryOK(history, known)
  PROVE  /\ \A run \in Run : HistoryOK(PutRun(history, run), known)
         /\ \A order : GoodOrder(order, known) => HistoryOK(PutOrder(history, order), known)
         /\ \A at, lots : HistoryOK(PutPosition(history, at, lots), known)
         /\ \A index \in Nat, trade \in TradeSummary :
              HistoryOK(PutTrade(history, index, trade), known)
<1>1. DOMAIN history = HistoryFields
  BY DEF HistoryOK
<1>2. ASSUME NEW run \in Run
      PROVE  HistoryOK(PutRun(history, run), known)
  <2>1. RunsOK({r \in history.runs : r.run_id # run.run_id} \cup {run})
    BY PutKeepsRuns DEF HistoryOK
  <2> QED
    BY <1>1, <2>1 DEF HistoryOK, HistoryFields, PutRun
<1>3. ASSUME NEW order, GoodOrder(order, known)
      PROVE  HistoryOK(PutOrder(history, order), known)
  <2>1. order.order_id \in Orders
    BY <1>3 DEF GoodOrder, OrderRecord
  <2>2. OrdersOK([history.orders EXCEPT ![order.order_id] = order], known)
    BY <1>3, <2>1 DEF HistoryOK, OrdersOK
  <2> QED
    BY <1>1, <2>2 DEF HistoryOK, HistoryFields, PutOrder
<1>4. \A at, lots : HistoryOK(PutPosition(history, at, lots), known)
  BY DEF HistoryOK, HistoryFields, PutPosition
<1>5. ASSUME NEW index \in Nat, NEW trade \in TradeSummary
      PROVE  HistoryOK(PutTrade(history, index, trade), known)
  <2> DEFINE trades == history.trades
  <2>1. trades \in Seq(TradeSummary)
    BY DEF HistoryOK
  <2>2. Append(trades, trade) \in Seq(TradeSummary)
    BY <2>1
  <2>3. [trades EXCEPT ![index] = trade] \in Seq(TradeSummary)
    <3>1. CASE index \in 1..Len(trades)
      BY <2>1, <3>1, ExceptSeq
    <3>2. CASE index \notin 1..Len(trades)
      <4>1. [trades EXCEPT ![index] = trade] = trades
        BY <2>1, <3>2
      <4> QED
        BY <2>1, <4>1
    <3> QED
      BY <3>1, <3>2
  <2>4. PutTrade(history, index, trade).trades \in Seq(TradeSummary)
    BY <1>1, <2>2, <2>3 DEF PutTrade, HistoryFields
  <2> QED
    BY <1>1, <2>4 DEF HistoryOK, HistoryFields, PutTrade
<1> QED
  BY <1>2, <1>3, <1>4, <1>5

\* Nothing is stored, noted or under way at first.
LEMMA InitFilledInv == Init => FilledInv
<1> SUFFICES ASSUME Init PROVE FilledInv
  OBVIOUS
<1>1. HistoryOK(EmptyHistory, {})
  BY DEF HistoryOK, HistoryFields, EmptyHistory, OrdersOK, RunsOK
<1>2. StoreOK
  BY <1>1 DEF Init, StoreOK
<1>3. ProcessOK /\ AccountOK
  BY PositionsAssumption DEF Init, ProcessOK, AccountOK, WorkingOK
<1> QED
  BY <1>2, <1>3 DEF Init, FilledInv, SyncsOK, SyncOK, RestOK, CountedOnce

\* The broker's reports: fills are added, the working orders count them.
LEMMA ReportsKeepFilledInv ==
  ASSUME FilledInv, KeepProcess, events' \in [Kinds -> Nat],
         fills \subseteq fills', AccountOK'
  PROVE  FilledInv'
<1>1. fills' \in SUBSET Fills /\ fills \in SUBSET fills'
  BY DEF AccountOK
<1>2. UNCHANGED <<backend, current_run, last_orders, seen_fills, sync, store>>
  BY DEF KeepProcess, sync_vars, recorder_vars
<1>3. StoreOK'
  BY <1>1, <1>2, GoodStaysGood DEF FilledInv, StoreOK
<1>4. SyncsOK'
  BY <1>1, <1>2, GoodStaysGood DEF FilledInv, SyncsOK
<1>5. ProcessOK' /\ RestOK' /\ CountedOnce'
  BY <1>2 DEF FilledInv, ProcessOK, RestOK, CountedOnce
<1> QED
  BY <1>1, <1>2, <1>3, <1>4, <1>5 DEF FilledInv

\* Every event moves the clock on by one.
LEMMA EventCounts ==
  ASSUME NEW kind \in Kinds, Event(kind), events \in [Kinds -> Nat]
  PROVE  events' \in [Kinds -> Nat] /\ now \in Nat /\ now' = now + 1
<1>1. events' = [events EXCEPT ![kind] = @ + 1]
  BY DEF Event
<1>2. events' \in [Kinds -> Nat]
  BY <1>1
<1> QED
  BY <1>1, <1>2 DEF now, Kinds

\* Each of the broker's reports adds at most fills, and orders that count them.
LEMMA ReportKeepsFilledInv ==
  ASSUME FilledInv,
         \/ \E o \in Orders : ReportFill(o) \/ ReportWorking(o) \/ ReportEnd(o)
         \/ \E lots \in Positions : ReportPosition(lots)
  PROVE  FilledInv'
<1> USE DEF Kinds
<1>0. /\ KeepProcess
      /\ Event("order") \/ Event("position")
  BY DEF ReportFill, ReportWorking, ReportEnd, ReportPosition
<1>1. events' \in [Kinds -> Nat]
  BY <1>0, EventCounts DEF FilledInv, ProcessOK
<1>2. position' \in Int
  BY PositionsAssumption
  DEF ReportFill, ReportWorking, ReportEnd, ReportPosition, FilledInv, AccountOK
<1>3. fills \subseteq fills' /\ fills' \subseteq Fills
  <2>1. CASE \E o \in Orders : ReportFill(o)
    <3>1. PICK o \in Orders : ReportFill(o)
      BY <2>1
    <3>2. Lots(fills, o) \in Nat
      BY LotsCounted DEF FilledInv, AccountOK
    <3>3. Lots(fills, o) + 1 \in 1..Quantity[o]
      BY <3>1, <3>2, QuantityAssumption DEF ReportFill
    <3>4. <<o, Lots(fills, o) + 1>> \in Fills
      BY <3>3 DEF Fills
    <3> QED
      BY <3>1, <3>4 DEF ReportFill, FilledInv, AccountOK
  <2>2. CASE ~ \E o \in Orders : ReportFill(o)
    BY <2>2 DEF ReportWorking, ReportEnd, ReportPosition, FilledInv, AccountOK
  <2> QED
    BY <2>1, <2>2
<1>4. WorkingOK(working_orders, fills)'
  <2>1. WorkingOK(working_orders, fills')
    BY <1>3, GoodStaysGood DEF FilledInv, AccountOK
  <2>2. CASE \E o \in Orders : ReportWorking(o)
    <3>1. PICK o \in Orders : ReportWorking(o)
      BY <2>2
    <3>2. fills' = fills /\ Lots(fills, o) \in Nat
      BY <3>1, LotsCounted DEF ReportWorking, FilledInv, AccountOK
    <3> QED
      BY <2>1, <3>1, <3>2 DEF ReportWorking, WorkingOK
  <2>3. CASE \E o \in Orders : ReportEnd(o)
    BY <2>1, <2>3 DEF ReportEnd, WorkingOK
  <2>4. CASE ~ \E o \in Orders : ReportWorking(o) \/ ReportEnd(o)
    BY <2>1, <2>4 DEF ReportFill, ReportPosition
  <2> QED
    BY <2>2, <2>3, <2>4
<1> QED
  BY <1>0, <1>1, <1>2, <1>3, <1>4, ReportsKeepFilledInv DEF AccountOK

\* The process at its end and at its start.
LEMMA EndKeepsFilledInv ==
  ASSUME FilledInv, Forgotten, UNCHANGED account_vars, events' \in [Kinds -> Nat],
         DOMAIN store' = Backends, \A b \in Backends : HistoryOK(store'[b], fills)
  PROVE  FilledInv'
<1>1. fills' = fills
  BY DEF account_vars
<1>2. StoreOK'
  BY <1>1 DEF StoreOK
<1>3. AccountOK'
  BY DEF FilledInv, AccountOK, account_vars
<1>4. ProcessOK'
  BY DEF ProcessOK, Forgotten
<1> QED
  BY <1>1, <1>2, <1>3, <1>4
  DEF FilledInv, Forgotten, SyncsOK, SyncOK, RestOK, CountedOnce

\* The current run is one of the records listed.
LEMMA RunRecordType ==
  ASSUME FilledInv, current_run # None, NEW status \in OpenStatuses \cup {"Cancelled"},
         NEW ended_at \in Nat \cup {None}
  PROVE  RunRecord(current_run, status, ended_at) \in Run
BY DEF FilledInv, ProcessOK, RunRecord, Run

\* A stop ends the run that is open; a kill leaves the store as it is.
LEMMA EndsKeepFilledInv ==
  ASSUME FilledInv, Crash \/ Shutdown
  PROVE  FilledInv'
<1>1. Forgotten /\ UNCHANGED account_vars /\ Event("fault") /\ backend # None
  BY DEF Crash, Shutdown
<1>2. events' \in [Kinds -> Nat] /\ now' \in Nat
  BY <1>1, EventCounts DEF FilledInv, ProcessOK, Kinds
<1>3. DOMAIN store' = Backends /\ \A b \in Backends : HistoryOK(store'[b], fills)
  <2>1. CASE store' = store
    BY <2>1 DEF FilledInv, StoreOK
  <2>2. CASE store' # store
    <3>1. /\ current_run # None
          /\ store' = [store EXCEPT ![backend] =
                         PutRun(@, RunRecord(current_run, "Cancelled", now'))]
      BY <2>2 DEF Crash, Shutdown
    <3>2. RunRecord(current_run, "Cancelled", now') \in Run
      BY <1>2, <3>1, RunRecordType
    <3> QED
      BY <1>1, <3>1, <3>2, PutKeepsHistory DEF FilledInv, StoreOK, ProcessOK
  <2> QED
    BY <2>1, <2>2
<1> QED
  BY <1>1, <1>2, <1>3, EndKeepsFilledInv

\* A start takes its notes from the store of the backend it is given.
LEMMA StartKeepsFilledInv ==
  ASSUME FilledInv, Start
  PROVE  FilledInv'
<1>1. /\ backend = None
      /\ backend' \in Backends
      /\ store' = [store EXCEPT !["InMemory"] = EmptyHistory]
      /\ current_run' = ContinuedRun(backend', store'[backend'].runs)
      /\ UNCHANGED <<events, account_vars, last_orders, seen_fills, sync>>
  BY DEF Start, SelectedBackend, Backends, recorder_vars
<1>2. HistoryOK(EmptyHistory, fills)
  BY DEF HistoryOK, HistoryFields, EmptyHistory, OrdersOK, RunsOK
<1>3. StoreOK'
  BY <1>1, <1>2 DEF FilledInv, StoreOK, account_vars
<1>4. current_run' \in [run_id : RunKeys, mode : Modes, status : OpenStatuses] \cup {None}
  <2> DEFINE runs == store'[backend'].runs
             latest == LatestRun(backend', runs)
  <2>1. RunsOK(runs)
    BY <1>1, <1>3 DEF StoreOK, HistoryOK
  <2>2. CASE runs = {}
    BY <1>1, <2>2 DEF ContinuedRun
  <2>3. CASE runs # {}
    <3>1. latest \in Run
      BY <1>1, <2>1, <2>3, LatestIsRecorded DEF RunsOK
    <3> HIDE DEF latest
    <3>2. latest.run_id \in RunKeys /\ latest.mode \in Modes
      BY <3>1 DEF Run
    <3> QED
      BY <1>1, <2>3, <3>2 DEF ContinuedRun, latest
  <2> QED
    BY <2>2, <2>3
<1>5. ProcessOK' /\ AccountOK'
  BY <1>1, <1>4 DEF FilledInv, ProcessOK, AccountOK, account_vars
<1>6. fills' = fills
  BY <1>1 DEF account_vars
<1> QED
  BY <1>1, <1>3, <1>5, <1>6, NoneAssumption
  DEF FilledInv, SyncsOK, RestOK, CountedOnce, ReadOK, NoSync

\* The calls that record a run or a dispatch.
LEMMA RecordsKeepFilledInv ==
  ASSUME FilledInv, backend # None, events' \in [Kinds -> Nat],
         UNCHANGED <<account_vars, backend, sync_vars>>,
         current_run' \in [run_id : RunKeys, mode : Modes, status : OpenStatuses] \cup {None},
         DOMAIN store' = Backends,
         \A b \in Backends : HistoryOK(store'[b], fills) /\ store'[b].fills = store[b].fills
  PROVE  FilledInv'
<1>1. fills' = fills /\ UNCHANGED <<seen_fills, last_orders, sync>>
  BY DEF account_vars, sync_vars, recorder_vars
<1>2. StoreOK'
  BY <1>1 DEF StoreOK
<1>3. AccountOK' /\ ProcessOK'
  BY DEF FilledInv, AccountOK, ProcessOK, account_vars
<1>4. CountedOnce'
  BY <1>1 DEF FilledInv, ProcessOK, CountedOnce
<1> QED
  BY <1>1, <1>2, <1>3, <1>4 DEF FilledInv, SyncsOK, RestOK

\* Writing a run disturbs nothing but the runs of one backend.
LEMMA PutRunKeeps ==
  ASSUME NEW history, HistoryOK(history, fills), NEW run \in Run
  PROVE  HistoryOK(PutRun(history, run), fills) /\ PutRun(history, run).fills = history.fills
<1>1. DOMAIN history = HistoryFields
  BY DEF HistoryOK
<1> QED
  BY <1>1, PutKeepsHistory DEF PutRun, HistoryFields

\* The calls that load a strategy or move the run's mode or status.
LEMMA RunRecordsKeepFilledInv ==
  ASSUME FilledInv,
         \/ \E strategy \in Strategies, mode \in Modes : LoadStrategy(strategy, mode)
         \/ \E mode \in Modes : RecordModeChange(mode)
         \/ \E status \in {"Active", "Paused", "Failed"} : RecordRunStatus(status)
  PROVE  FilledInv'
<1> DEFINE CurrentRun == [run_id : RunKeys, mode : Modes, status : OpenStatuses]
           h == store[backend]
<1>1. backend # None /\ Event("run") /\ KeepSyncs
  BY DEF LoadStrategy, RecordModeChange, RecordRunStatus
<1>2. events' \in [Kinds -> Nat] /\ now' \in Nat
  BY <1>1, EventCounts DEF FilledInv, ProcessOK, Kinds
<1>3. backend \in Backends /\ HistoryOK(h, fills)
  BY <1>1 DEF FilledInv, ProcessOK, StoreOK
<1>4. /\ current_run' \in CurrentRun \cup {None}
      /\ \/ UNCHANGED store
         \/ \E history : /\ store' = [store EXCEPT ![backend] = history]
                        /\ HistoryOK(history, fills)
                        /\ history.fills = h.fills
  <2>1. CASE \E strategy \in Strategies, mode \in Modes : LoadStrategy(strategy, mode)
    <3>1. PICK strategy \in Strategies, mode \in Modes : LoadStrategy(strategy, mode)
      BY <2>1
    <3> DEFINE run == [run_id |-> <<strategy, now'>>, mode |-> mode, status |-> "Starting"]
               closed == IF current_run = None THEN h
                         ELSE PutRun(h, RunRecord(current_run, "Cancelled", now'))
               record == RunRecord(run, "Starting", None)
    <3>2. HistoryOK(closed, fills) /\ closed.fills = h.fills
      BY <1>2, <1>3, RunRecordType, PutRunKeeps
    <3>3. run \in CurrentRun /\ record \in Run
      BY <1>2 DEF RunKeys, OpenStatuses, RunRecord, Run
    <3>4. HistoryOK(PutRun(closed, record), fills) /\ PutRun(closed, record).fills = h.fills
      <4> HIDE DEF closed, record
      <4> QED
        BY <3>2, <3>3, PutRunKeeps
    <3>5. \/ /\ store' = [store EXCEPT ![backend] = PutRun(closed, record)]
             /\ current_run' = run
          \/ /\ store' = store \/ store' = [store EXCEPT ![backend] = closed]
             /\ current_run' = None
      BY <3>1 DEF LoadStrategy
    <3> HIDE DEF closed, record, run, CurrentRun
    <3> QED
      BY <3>2, <3>3, <3>4, <3>5
  <2>2. ASSUME NEW run \in CurrentRun, NEW ended_at \in Nat \cup {None}, RecordRun(run, ended_at)
        PROVE  /\ current_run' \in CurrentRun \cup {None}
               /\ \/ UNCHANGED store
                  \/ \E history : /\ store' = [store EXCEPT ![backend] = history]
                                 /\ HistoryOK(history, fills)
                                 /\ history.fills = h.fills
    <3>1. RunRecord(run, run.status, ended_at) \in Run
      BY <2>2 DEF RunRecord, Run
    <3> QED
      BY <1>3, <2>2, <3>1, PutRunKeeps DEF RecordRun
  <2>3. CASE \E mode \in Modes : RecordModeChange(mode)
    <3>1. PICK mode \in Modes : RecordModeChange(mode)
      BY <2>3
    <3>2. [current_run EXCEPT !.mode = mode] \in CurrentRun
      BY <3>1 DEF RecordModeChange, FilledInv, ProcessOK
    <3> QED
      BY <2>2, <3>1, <3>2 DEF RecordModeChange
  <2>4. CASE \E status \in {"Active", "Paused", "Failed"} : RecordRunStatus(status)
    <3>1. PICK status \in {"Active", "Paused", "Failed"} : RecordRunStatus(status)
      BY <2>4
    <3>2. [current_run EXCEPT !.status = status] \in CurrentRun
      BY <3>1 DEF RecordRunStatus, FilledInv, ProcessOK, OpenStatuses
    <3>3. RecordRun([current_run EXCEPT !.status = status],
                    IF status = "Failed" THEN now' ELSE None)
      BY <3>1 DEF RecordRunStatus
    <3> QED
      BY <1>2, <2>2, <3>2, <3>3
  <2> QED
    BY <2>1, <2>3, <2>4
<1>5. /\ DOMAIN store' = Backends
      /\ \A b \in Backends : HistoryOK(store'[b], fills) /\ store'[b].fills = store[b].fills
  BY <1>3, <1>4 DEF FilledInv, StoreOK
<1> QED
  BY <1>1, <1>2, <1>4, <1>5, RecordsKeepFilledInv DEF KeepSyncs

\* A dispatch stores an order that has filled nothing yet.
LEMMA DispatchKeepsFilledInv ==
  ASSUME FilledInv, NEW o \in Orders, Dispatch(o)
  PROVE  FilledInv'
<1> DEFINE run_id == IF current_run = None THEN None ELSE current_run.run_id
           order == [order_id |-> o, run_id |-> run_id, quantity |-> Intended[o],
                     filled_quantity |-> 0, status |-> "Pending"]
           h == store[backend]
<1>1. events' \in [Kinds -> Nat]
  BY EventCounts DEF Dispatch, FilledInv, ProcessOK, Kinds
<1>2. backend \in Backends /\ HistoryOK(h, fills)
  BY DEF Dispatch, FilledInv, ProcessOK, StoreOK
<1>3. GoodOrder(order, fills)
  <2>1. run_id \in RunKeys \cup {None}
    BY DEF FilledInv, ProcessOK
  <2>2. Lots(fills, o) \in Nat /\ Intended[o] \in Nat
    BY LotsCounted, IntendedAssumption DEF FilledInv, AccountOK
  <2> HIDE DEF run_id
  <2> QED
    BY <2>1, <2>2 DEF GoodOrder, OrderRecord
<1>4. HistoryOK(PutOrder(h, order), fills) /\ PutOrder(h, order).fills = h.fills
  <2>1. DOMAIN h = HistoryFields
    BY <1>2 DEF HistoryOK
  <2> QED
    BY <1>2, <1>3, <2>1, PutKeepsHistory DEF PutOrder, HistoryFields
<1>5. UNCHANGED store \/ store' = [store EXCEPT ![backend] = PutOrder(h, order)]
  BY DEF Dispatch
<1>6. /\ DOMAIN store' = Backends
      /\ \A b \in Backends : HistoryOK(store'[b], fills) /\ store'[b].fills = store[b].fills
  <2> HIDE DEF order
  <2> QED
    BY <1>2, <1>4, <1>5 DEF FilledInv, StoreOK
<1> QED
  BY <1>1, <1>6, RecordsKeepFilledInv DEF Dispatch, FilledInv, ProcessOK

\* What is to be written of a trade is a trade summary.
LEMMA TradeWritesType ==
  ASSUME NEW trades \in Seq(TradeSummary), NEW lots \in Int,
         NEW next \in TradeWrites(trades, lots), NEW known, NEW seen
  PROVE  SyncOK(next, known, seen) /\ next.stage \in {"idle", "trade_write"}
<1>1. Magnitude(lots) \in Nat /\ Side(lots) \in {"Buy", "Sell"}
  BY DEF Magnitude, Side
<1>2. \A i \in OpenTrades(trades) : i \in Nat /\ trades[i] \in TradeSummary
  BY ElementOfSeq DEF OpenTrades
<1>3. ASSUME NEW index \in Nat, NEW side \in {"Buy", "Sell"}, NEW quantity \in Nat,
             NEW status \in {"Open", "Closed"}, NEW rest \in Int \cup {None}
      PROVE  /\ SyncOK(TradeWrite(index, side, quantity, status, rest), known, seen)
             /\ TradeWrite(index, side, quantity, status, rest).stage = "trade_write"
  BY DEF TradeWrite, SyncOK, TradeSummary
<1>4. SyncOK(NoSync, known, seen) /\ NoSync.stage = "idle"
  BY DEF SyncOK, NoSync
<1>5. CASE OpenTrades(trades) = {}
  <2>1. next \in {NoSync, TradeWrite(0, Side(lots), Magnitude(lots), "Open", None)}
    BY <1>5 DEF TradeWrites
  <2>2. SyncOK(TradeWrite(0, Side(lots), Magnitude(lots), "Open", None), known, seen)
        /\ TradeWrite(0, Side(lots), Magnitude(lots), "Open", None).stage = "trade_write"
    BY <1>1, <1>3
  <2> QED
    BY <1>4, <2>1, <2>2
<1>6. CASE OpenTrades(trades) # {}
  <2>1. PICK i \in OpenTrades(trades) :
          next = IF lots # 0 /\ trades[i].side = Side(lots)
                 THEN TradeWrite(i, trades[i].side, Magnitude(lots), "Open", None)
                 ELSE TradeWrite(i, trades[i].side, trades[i].quantity, "Closed",
                                 IF lots = 0 THEN None ELSE lots)
    BY <1>6 DEF TradeWrites
  <2>2. i \in Nat /\ trades[i].side \in {"Buy", "Sell"} /\ trades[i].quantity \in Nat
    BY <1>2 DEF TradeSummary
  <2>3. CASE lots # 0 /\ trades[i].side = Side(lots)
    <3> DEFINE side == trades[i].side
               quantity == Magnitude(lots)
    <3>1. next = TradeWrite(i, side, quantity, "Open", None)
      BY <2>1, <2>3
    <3>2. side \in {"Buy", "Sell"} /\ quantity \in Nat
      BY <1>1, <2>2
    <3>3. None \in Int \cup {None}
      OBVIOUS
    <3> HIDE DEF side, quantity
    <3>4. /\ SyncOK(TradeWrite(i, side, quantity, "Open", None), known, seen)
          /\ TradeWrite(i, side, quantity, "Open", None).stage = "trade_write"
      BY <2>2, <3>2, <3>3 DEF TradeWrite, SyncOK, TradeSummary
    <3> QED
      BY <3>1, <3>4
  <2>4. CASE ~ (lots # 0 /\ trades[i].side = Side(lots))
    <3> DEFINE rest == IF lots = 0 THEN None ELSE lots
    <3>1. next = TradeWrite(i, trades[i].side, trades[i].quantity, "Closed", rest)
      BY <2>1, <2>4
    <3>2. rest \in Int \cup {None}
      OBVIOUS
    <3> HIDE DEF rest
    <3> QED
      BY <1>3, <2>2, <3>1, <3>2
  <2> QED
    BY <2>3, <2>4
<1> QED
  BY <1>5, <1>6

\* Taking the snapshot and reading the history: what is stored is in the snapshot,
\* or was noted from an earlier one.
LEMMA ReadsKeepFilledInv ==
  ASSUME FilledInv, NEW t \in Syncs, TakeSnapshot(t) \/ ReadHistory(t) \/ ReadTrade(t)
  PROVE  FilledInv'
<1>1. UNCHANGED <<events, account_vars, backend, current_run, last_orders, seen_fills, store>>
  BY DEF TakeSnapshot, ReadHistory, ReadTrade, KeepMemory, recorder_vars, history_vars
<1>2. fills' = fills
  BY <1>1 DEF account_vars
<1>3. backend # None /\ backend \in Backends
  BY DEF TakeSnapshot, ReadHistory, ReadTrade, FilledInv, RestOK, NoSync, ProcessOK
<1>4. /\ DOMAIN sync' = Syncs
      /\ \A u \in Syncs \ {t} : sync'[u] = sync[u]
  BY DEF TakeSnapshot, ReadHistory, ReadTrade, FilledInv, SyncsOK
<1>5. SyncOK(sync'[t], fills, seen_fills) /\ ReadOK(sync'[t], store[backend].fills, seen_fills)
  <2>1. SyncOK(sync[t], fills, seen_fills) /\ ReadOK(sync[t], store[backend].fills, seen_fills)
    BY <1>3 DEF FilledInv, SyncsOK, CountedOnce
  <2>2. HistoryOK(store[backend], fills)
    BY <1>3 DEF FilledInv, StoreOK
  <2>3. CASE TakeSnapshot(t)
    <3>1. sync'[t] = [stage |-> "snapshot", at |-> now, position |-> position,
                      working_orders |-> working_orders, fills |-> fills]
      BY <2>3 DEF TakeSnapshot, FilledInv, SyncsOK
    <3>2. now \in Nat
      BY DEF now, Kinds, FilledInv, ProcessOK
    <3>3. SnapshotOK(sync'[t], fills)
      BY <3>1, <3>2 DEF SnapshotOK, FilledInv, AccountOK
    <3> QED
      BY <2>2, <3>1, <3>3 DEF SyncOK, ReadOK, HistoryOK
  <2>4. CASE ReadHistory(t)
    <3>1. /\ sync[t].stage = "snapshot"
          /\ sync'[t] = [stage |-> "history", at |-> sync[t].at, snapshot |-> sync[t],
                         orders |-> store[backend].orders, fills |-> store[backend].fills]
      BY <2>4 DEF ReadHistory, FilledInv, SyncsOK
    <3>2. SnapshotOK(sync[t], fills)
      BY <2>1, <3>1 DEF SyncOK, NoSync
    <3> QED
      BY <2>1, <2>2, <3>1, <3>2 DEF SyncOK, ReadOK, HistoryOK
  <2>5. CASE ReadTrade(t)
    <3>1. PICK next \in TradeWrites(store[backend].trades, sync[t].position) :
            sync' = [sync EXCEPT ![t] = next]
      BY <2>5 DEF ReadTrade
    <3>2. sync[t].position \in Int /\ store[backend].trades \in Seq(TradeSummary)
      BY <2>1, <2>2, <2>5 DEF ReadTrade, SyncOK, NoSync, HistoryOK
    <3>3. SyncOK(next, fills, seen_fills) /\ next.stage \in {"idle", "trade_write"}
      BY <3>1, <3>2, TradeWritesType
    <3>4. sync'[t] = next
      BY <3>1 DEF FilledInv, SyncsOK
    <3> QED
      BY <3>3, <3>4 DEF ReadOK
  <2> QED
    BY <2>3, <2>4, <2>5
<1>6. SyncsOK'
  BY <1>1, <1>2, <1>4, <1>5 DEF FilledInv, SyncsOK
<1>7. CountedOnce'
  BY <1>1, <1>3, <1>4, <1>5 DEF FilledInv, CountedOnce
<1>8. ProcessOK' /\ AccountOK' /\ StoreOK' /\ RestOK'
  BY <1>1, <1>3 DEF FilledInv, ProcessOK, AccountOK, StoreOK, RestOK, account_vars
<1> QED
  BY <1>1, <1>2, <1>6, <1>7, <1>8 DEF FilledInv

\* An order record computed is true: what is stored of the order and what is new
\* are different fills.
LEMMA RecordsAreGood ==
  ASSUME FilledInv, NEW t \in Syncs, sync[t].stage = "history", backend # None
  PROVE  \A order \in OrderRecords(sync[t]) : GoodOrder(order, fills)
<1> DEFINE job == sync[t]
           snapshot == job.snapshot
           fresh == NewFills(snapshot)
<1>1. /\ SnapshotOK(snapshot, fills) /\ OrdersOK(job.orders, fills)
      /\ ReadOK(job, store[backend].fills, seen_fills)
  BY DEF FilledInv, SyncsOK, SyncOK, NoSync, CountedOnce
<1>2. backend \in Backends /\ store[backend].fills \subseteq fills
  BY DEF FilledInv, ProcessOK, StoreOK, HistoryOK
<1>3. job.fills \subseteq fills /\ fresh \subseteq fills
  BY <1>1, <1>2 DEF ReadOK, SnapshotOK, NewFills
<1>4. fills \in SUBSET Fills
  BY DEF FilledInv, AccountOK
<1> HIDE DEF job, fresh
<1>5. ASSUME NEW o \in Orders, job.snapshot.working_orders[o] # None,
             o \in Described \/ job.orders[o] # None
      PROVE  GoodOrder(MergedOrder(job.orders[o], o, job.snapshot.working_orders[o]), fills)
  <2> DEFINE existing == job.orders[o]
             filled == job.snapshot.working_orders[o]
             order == MergedOrder(existing, o, filled)
  <2>1. filled \in Nat /\ filled <= Lots(fills, o)
    BY <1>1, <1>5 DEF job, SnapshotOK, WorkingOK
  <2>2. existing # None => existing \in OrderRecord
    BY <1>1 DEF OrdersOK, GoodOrder
  <2>3. order.run_id \in RunKeys \cup {None}
    BY <2>2 DEF MergedOrder, OrderRecord, FilledInv, ProcessOK
  <2>4. order.quantity \in Nat
    BY <1>5, <2>2, QuantityAssumption DEF MergedOrder, OrderRecord
  <2>5. /\ order = [order_id |-> o, run_id |-> order.run_id, quantity |-> order.quantity,
                    filled_quantity |-> filled, status |-> "Working"]
    BY DEF MergedOrder
  <2> HIDE DEF order, filled, existing
  <2>6. order \in OrderRecord
    BY <2>1, <2>3, <2>4, <2>5 DEF OrderRecord
  <2>7. order.order_id = o /\ order.filled_quantity = filled /\ order.status = "Working"
    BY <2>5
  <2>8. GoodOrder(order, fills)
    BY <2>1, <2>6, <2>7 DEF GoodOrder
  <2> QED
    BY <2>8 DEF order, filled, existing
<1>6. ASSUME NEW o \in Orders, last_orders[o] # None, job.orders[o] # None
      PROVE  GoodOrder(FinalOrder(job.orders[o], Lots(job.fills, o) + Lots(fresh, o)), fills)
  <2> DEFINE existing == job.orders[o]
             lots == Lots(job.fills, o) + Lots(fresh, o)
             order == FinalOrder(existing, lots)
  <2>1. existing \in OrderRecord /\ existing.order_id = o
    BY <1>1, <1>6 DEF OrdersOK, GoodOrder
  <2>2. job.fills \cap fresh = {}
    BY <1>1, <1>6 DEF FilledInv, CountedOnce, ReadOK, NewFills, job, fresh
  <2>3. lots <= Lots(fills, o)
    BY <1>3, <1>4, <2>2, LotsAdd
  <2>4. lots \in Nat
    <3>1. job.fills \in SUBSET Fills /\ fresh \in SUBSET Fills
      BY <1>3, <1>4
    <3>2. Lots(job.fills, o) \in Nat /\ Lots(fresh, o) \in Nat
      BY <3>1, LotsCounted
    <3> QED
      BY <3>2
  <2> HIDE DEF lots, existing
  <2>5. order \in OrderRecord
    BY <2>1, <2>4 DEF OrderRecord, FinalOrder
  <2>6. /\ order.order_id = o /\ order.filled_quantity = lots
        /\ order.quantity = existing.quantity
        /\ order.status = "Filled" => lots >= existing.quantity
    BY <2>1 DEF OrderRecord, FinalOrder
  <2>7. existing.quantity \in Nat /\ Lots(fills, o) \in Nat
    BY <1>4, <2>1, LotsCounted DEF OrderRecord
  <2> HIDE DEF order
  <2>8. GoodOrder(order, fills)
    BY <2>3, <2>4, <2>5, <2>6, <2>7 DEF GoodOrder
  <2> QED
    BY <2>8 DEF order, lots, existing
<1>7. ASSUME NEW order \in OrderRecords(sync[t]) PROVE GoodOrder(order, fills)
  <2>1. CASE \E o \in Orders :
               /\ job.snapshot.working_orders[o] # None
               /\ o \in Described \/ job.orders[o] # None
               /\ order = MergedOrder(job.orders[o], o, job.snapshot.working_orders[o])
    BY <1>5, <2>1
  <2>2. CASE \E o \in Orders :
               /\ last_orders[o] # None /\ job.orders[o] # None
               /\ order = FinalOrder(job.orders[o], Lots(job.fills, o) + Lots(fresh, o))
    <3>1. PICK o \in Orders :
            /\ last_orders[o] # None /\ job.orders[o] # None
            /\ order = FinalOrder(job.orders[o], Lots(job.fills, o) + Lots(fresh, o))
      BY <2>2
    <3>2. GoodOrder(FinalOrder(job.orders[o], Lots(job.fills, o) + Lots(fresh, o)), fills)
      BY <1>6, <3>1
    <3> QED
      BY <3>1, <3>2
  <2> QED
    BY <2>1, <2>2 DEF OrderRecords, job, fresh
<1> QED
  BY <1>7

\* The records a sync computes are made of its snapshot, the store and the notes.
LEMMA ComputeKeepsFilledInv ==
  ASSUME FilledInv, NEW t \in Syncs, ComputeRecords(t)
  PROVE  FilledInv'
<1> DEFINE job == sync[t]
           fresh == NewFills(job.snapshot)
           records == OrderRecords(job)
           change == PositionChange(job.snapshot.position)
           next == WriteStage(job.at, records, fresh, change)
<1>1. /\ UNCHANGED <<events, account_vars, backend, current_run, store>>
      /\ job.stage = "history"
      /\ sync' = [sync EXCEPT ![t] = next]
      /\ last_orders' = job.snapshot.working_orders
      /\ seen_fills' = seen_fills \cup job.snapshot.fills
  BY DEF ComputeRecords, history_vars
<1>2. backend # None /\ backend \in Backends
  BY <1>1 DEF FilledInv, RestOK, NoSync, ProcessOK
<1>3. fills' = fills
  BY <1>1 DEF account_vars
<1>4. \A order \in records : GoodOrder(order, fills)
  BY <1>1, <1>2, RecordsAreGood
<1>5. /\ SnapshotOK(job.snapshot, fills)
      /\ ReadOK(job, store[backend].fills, seen_fills)
  BY <1>1, <1>2 DEF FilledInv, SyncsOK, SyncOK, NoSync, CountedOnce
<1>6. change \in Int \cup {None}
  BY <1>5 DEF SnapshotOK, PositionChange
<1>7. fresh \subseteq seen_fills'
  BY <1>1 DEF NewFills
<1> HIDE DEF fresh, records, change
<1>8. SyncOK(next, fills, seen_fills') /\ next.stage \in {"idle", "write"}
  BY <1>4, <1>6, <1>7 DEF WriteStage, SyncOK, WriteOK, NoSync
<1> HIDE DEF next
<1>9. /\ DOMAIN sync' = Syncs
      /\ sync'[t] = next
      /\ \A u \in Syncs \ {t} : sync'[u] = sync[u]
  BY <1>1 DEF FilledInv, SyncsOK
<1>10. seen_fills \subseteq seen_fills' /\ seen_fills' \subseteq fills
  BY <1>1, <1>5 DEF SnapshotOK, FilledInv
<1>11. SyncsOK'
  <2>1. \A u \in Syncs : SyncOK(sync[u], fills, seen_fills')
    BY <1>10, NotedStaysNoted DEF FilledInv, SyncsOK
  <2> QED
    BY <1>3, <1>8, <1>9, <2>1 DEF SyncsOK
<1>12. CountedOnce'
  <2>1. store[backend].fills \subseteq seen_fills'
    BY <1>1, <1>5 DEF ReadOK
  <2>2. \A u \in Syncs : ReadOK(sync'[u], store[backend].fills, seen_fills')
    <3> TAKE u \in Syncs
    <3>1. CASE u = t
      BY <1>8, <1>9, <3>1 DEF ReadOK
    <3>2. CASE u # t
      BY <1>2, <1>9, <1>10, <3>2 DEF FilledInv, CountedOnce, ReadOK
    <3> QED
      BY <3>1, <3>2
  <2> QED
    BY <1>1, <2>1, <2>2 DEF CountedOnce
<1>13. ProcessOK' /\ AccountOK' /\ StoreOK' /\ RestOK'
  BY <1>1, <1>2 DEF FilledInv, ProcessOK, AccountOK, StoreOK, RestOK, account_vars
<1>14. DOMAIN last_orders' = Orders
  BY <1>1, <1>5 DEF SnapshotOK, WorkingOK
<1> QED
  BY <1>3, <1>10, <1>11, <1>12, <1>13, <1>14 DEF FilledInv

\* A write: what it adds to the store is good, and its fills are noted.
LEMMA WriteKeepsFilledInv ==
  ASSUME FilledInv, NEW t \in Syncs, KeepMemory, backend # None,
         NEW history, HistoryOK(history, fills),
         history.fills \subseteq store[backend].fills \cup seen_fills,
         store[backend].fills \subseteq history.fills,
         store' = [store EXCEPT ![backend] = history],
         NEW next, SyncOK(next, fills, seen_fills),
         next.stage \notin {"snapshot", "history"},
         sync' = [sync EXCEPT ![t] = next]
  PROVE  FilledInv'
<1>1. UNCHANGED <<events, account_vars, backend, current_run, last_orders, seen_fills>>
  BY DEF KeepMemory, recorder_vars
<1>2. fills' = fills
  BY <1>1 DEF account_vars
<1>3. backend \in Backends
  BY DEF FilledInv, ProcessOK
<1>4. /\ DOMAIN store' = Backends
      /\ store'[backend] = history
      /\ \A b \in Backends \ {backend} : store'[b] = store[b]
  BY <1>3 DEF FilledInv, StoreOK
<1>5. /\ DOMAIN sync' = Syncs
      /\ sync'[t] = next
      /\ \A u \in Syncs \ {t} : sync'[u] = sync[u]
  BY DEF FilledInv, SyncsOK
<1>6. StoreOK' /\ SyncsOK'
  BY <1>1, <1>2, <1>4, <1>5 DEF FilledInv, StoreOK, SyncsOK
<1>7. \A u \in Syncs : ReadOK(sync'[u], history.fills, seen_fills)
  <2> TAKE u \in Syncs
  <2>1. CASE u = t
    BY <1>5, <2>1 DEF ReadOK
  <2>2. CASE u # t
    BY <1>5, <2>2 DEF FilledInv, CountedOnce, ReadOK
  <2> QED
    BY <2>1, <2>2
<1>8. CountedOnce'
  BY <1>1, <1>4, <1>7 DEF FilledInv, CountedOnce
<1>9. ProcessOK' /\ AccountOK' /\ RestOK'
  BY <1>1 DEF FilledInv, ProcessOK, AccountOK, RestOK, account_vars
<1> QED
  BY <1>1, <1>2, <1>6, <1>8, <1>9 DEF FilledInv

\* Each record that is written was good when it was computed and still is.
LEMMA WritesKeepFilledInv ==
  ASSUME FilledInv, NEW t \in Syncs,
         WriteOrder(t) \/ WriteFill(t) \/ WritePosition(t) \/ WriteTrade(t)
  PROVE  FilledInv'
<1> DEFINE job == sync[t]
           h == store[backend]
<1>1. KeepMemory /\ job.stage \in {"write", "trade_write"}
  BY DEF WriteOrder, WriteFill, WritePosition, WriteTrade, Writing
<1>2. backend # None /\ backend \in Backends
  BY <1>1 DEF FilledInv, RestOK, NoSync, ProcessOK
<1>3. HistoryOK(h, fills) /\ DOMAIN h = HistoryFields /\ h.fills \subseteq fills
  BY <1>2 DEF FilledInv, StoreOK, HistoryOK
<1>4. job.stage = "write" => WriteOK(job, fills, seen_fills)
  BY DEF FilledInv, SyncsOK, SyncOK, NoSync
<1>5. /\ DOMAIN store = Backends
      /\ seen_fills \subseteq fills
  BY DEF FilledInv, StoreOK
<1>6. ASSUME NEW orders, NEW new_fills, NEW lots \in Int \cup {None}, NEW at,
             \A order \in orders : GoodOrder(order, fills), new_fills \subseteq seen_fills
      PROVE  /\ SyncOK(WriteStage(at, orders, new_fills, lots), fills, seen_fills)
             /\ WriteStage(at, orders, new_fills, lots).stage \notin {"snapshot", "history"}
  BY <1>6 DEF WriteStage, SyncOK, WriteOK, NoSync
<1>7. CASE WriteOrder(t)
  <2>1. PICK order \in job.orders :
          /\ store' = [store EXCEPT ![backend] = PutOrder(h, order)]
          /\ sync' = [sync EXCEPT ![t] =
               WriteStage(job.at, job.orders \ {order}, job.fills, job.position)]
    BY <1>2, <1>7 DEF WriteOrder, FilledInv, SyncsOK
  <2>2. HistoryOK(PutOrder(h, order), fills) /\ PutOrder(h, order).fills = h.fills
    <3>1. GoodOrder(order, fills)
      BY <1>4, <1>7, <2>1 DEF WriteOrder, Writing, WriteOK
    <3> QED
      BY <1>3, <3>1, PutKeepsHistory DEF PutOrder, HistoryFields
  <2> DEFINE next == WriteStage(job.at, job.orders \ {order}, job.fills, job.position)
             history == PutOrder(h, order)
  <2>3. SyncOK(next, fills, seen_fills) /\ next.stage \notin {"snapshot", "history"}
    <3>1. WriteOK(job, fills, seen_fills)
      BY <1>4, <1>7 DEF WriteOrder, Writing
    <3> QED
      BY <1>6, <3>1 DEF WriteOK
  <2> HIDE DEF next, history
  <2>4. /\ store' = [store EXCEPT ![backend] = history]
        /\ sync' = [sync EXCEPT ![t] = next]
        /\ HistoryOK(history, fills) /\ history.fills = h.fills
    BY <2>1, <2>2 DEF next, history
  <2> QED
    BY <1>1, <1>2, <2>3, <2>4, WriteKeepsFilledInv
<1>8. CASE WriteFill(t)
  <2>1. PICK fill \in job.fills :
          /\ store' = [store EXCEPT ![backend].fills = @ \cup {fill}]
          /\ sync' = [sync EXCEPT ![t] = WriteStage(@.at, {}, @.fills \ {fill}, @.position)]
    BY <1>8 DEF WriteFill
  <2> DEFINE next == WriteStage(job.at, {}, job.fills \ {fill}, job.position)
             history == [h EXCEPT !.fills = @ \cup {fill}]
  <2>2. WriteOK(job, fills, seen_fills)
    BY <1>4, <1>8 DEF WriteFill, Writing
  <2>3. fill \in seen_fills
    BY <2>1, <2>2 DEF WriteOK
  <2>4. SyncOK(next, fills, seen_fills) /\ next.stage \notin {"snapshot", "history"}
    BY <1>6, <2>2 DEF WriteOK
  <2>5. HistoryOK(history, fills) /\ history.fills = h.fills \cup {fill}
    BY <1>3, <1>5, <2>3 DEF HistoryOK, HistoryFields
  <2>6. store' = [store EXCEPT ![backend] = history]
    BY <1>2, <1>5, <2>1
  <2>7. sync' = [sync EXCEPT ![t] = next]
    BY <2>1 DEF FilledInv, SyncsOK
  <2> HIDE DEF next, history
  <2> QED
    BY <1>1, <1>2, <2>3, <2>4, <2>5, <2>6, <2>7, WriteKeepsFilledInv
<1>9. CASE WritePosition(t)
  <2> DEFINE next == [stage |-> "trade", position |-> job.position]
             history == PutPosition(h, job.at, job.position)
  <2>1. WriteOK(job, fills, seen_fills) /\ job.orders = {} /\ job.fills = {}
    BY <1>4, <1>9 DEF WritePosition, Writing
  <2>2. SyncOK(next, fills, seen_fills) /\ next.stage \notin {"snapshot", "history"}
    BY <2>1 DEF WriteOK, SyncOK
  <2>3. HistoryOK(history, fills) /\ history.fills = h.fills
    BY <1>3, PutKeepsHistory DEF PutPosition, HistoryFields
  <2>4. /\ store' = [store EXCEPT ![backend] = history]
        /\ sync' = [sync EXCEPT ![t] = next]
    BY <1>2, <1>5, <1>9 DEF WritePosition, FilledInv, SyncsOK
  <2> HIDE DEF next, history
  <2> QED
    BY <1>1, <1>2, <2>2, <2>3, <2>4, WriteKeepsFilledInv
<1>10. CASE WriteTrade(t)
  <2> DEFINE next == IF job.position = None THEN NoSync
                     ELSE [stage |-> "trade", position |-> job.position]
             history == PutTrade(h, job.index, job.trade)
  <2>1. /\ job.index \in Nat /\ job.trade \in TradeSummary
        /\ job.position \in Int \cup {None}
    BY <1>10 DEF WriteTrade, FilledInv, SyncsOK, SyncOK, NoSync
  <2>2. SyncOK(next, fills, seen_fills) /\ next.stage \notin {"snapshot", "history"}
    BY <2>1 DEF SyncOK, NoSync
  <2>3. HistoryOK(history, fills) /\ history.fills = h.fills
    BY <1>3, <2>1, PutKeepsHistory DEF PutTrade, HistoryFields
  <2>4. /\ store' = [store EXCEPT ![backend] = history]
        /\ sync' = [sync EXCEPT ![t] = next]
    BY <1>2, <1>5, <1>10 DEF WriteTrade, FilledInv, SyncsOK
  <2> HIDE DEF next, history
  <2> QED
    BY <1>1, <1>2, <2>2, <2>3, <2>4, WriteKeepsFilledInv
<1> QED
  BY <1>7, <1>8, <1>9, <1>10

\* A write that fails leaves the store as it is and ends its sync.
LEMMA FailureKeepsFilledInv ==
  ASSUME FilledInv, NEW t \in Syncs, WriteFails(t)
  PROVE  FilledInv'
<1>1. /\ UNCHANGED <<account_vars, backend, current_run, last_orders, seen_fills, store>>
      /\ sync' = [sync EXCEPT ![t] = NoSync]
      /\ Event("fault")
  BY DEF WriteFails, recorder_vars
<1>2. events' \in [Kinds -> Nat]
  BY <1>1, EventCounts DEF FilledInv, ProcessOK, Kinds
<1>3. fills' = fills
  BY <1>1 DEF account_vars
<1>4. \A u \in Syncs : sync'[u] \in {sync[u], NoSync}
  BY <1>1 DEF FilledInv, SyncsOK
<1>5. SyncsOK'
  BY <1>1, <1>3, <1>4 DEF FilledInv, SyncsOK, SyncOK
<1>6. RestOK' /\ CountedOnce'
  BY <1>1, <1>4 DEF FilledInv, RestOK, CountedOnce, ReadOK, NoSync
<1>7. ProcessOK' /\ AccountOK' /\ StoreOK'
  BY <1>1, <1>2 DEF FilledInv, ProcessOK, AccountOK, StoreOK, account_vars
<1> QED
  BY <1>1, <1>3, <1>5, <1>6, <1>7 DEF FilledInv

\* Every step keeps the invariant of part two.
LEMMA NextKeepsFilledInv == FilledInv /\ [Next]_vars => FilledInv'
<1> SUFFICES ASSUME FilledInv, [Next]_vars PROVE FilledInv'
  OBVIOUS
<1>1. CASE Crash \/ Shutdown
  BY <1>1, EndsKeepFilledInv
<1>2. CASE Start
  BY <1>2, StartKeepsFilledInv
<1>3. CASE \/ \E strategy \in Strategies, mode \in Modes : LoadStrategy(strategy, mode)
           \/ \E mode \in Modes : RecordModeChange(mode)
           \/ \E status \in {"Active", "Paused", "Failed"} : RecordRunStatus(status)
  BY <1>3, RunRecordsKeepFilledInv
<1>4. CASE \E o \in Orders : Dispatch(o)
  BY <1>4, DispatchKeepsFilledInv
<1>5. CASE \/ \E o \in Orders : ReportFill(o) \/ ReportWorking(o) \/ ReportEnd(o)
           \/ \E lots \in Positions : ReportPosition(lots)
  BY <1>5, ReportKeepsFilledInv
<1>6. CASE \E t \in Syncs : TakeSnapshot(t) \/ ReadHistory(t) \/ ReadTrade(t)
  BY <1>6, ReadsKeepFilledInv
<1>7. CASE \E t \in Syncs : ComputeRecords(t)
  BY <1>7, ComputeKeepsFilledInv
<1>8. CASE \E t \in Syncs : WriteOrder(t) \/ WriteFill(t) \/ WritePosition(t) \/ WriteTrade(t)
  BY <1>8, WritesKeepFilledInv
<1>9. CASE \E t \in Syncs : WriteFails(t)
  BY <1>9, FailureKeepsFilledInv
<1>10. CASE UNCHANGED vars
  BY <1>10 DEF vars, account_vars, sync_vars, recorder_vars, FilledInv, ProcessOK, AccountOK,
     StoreOK, SyncsOK, RestOK, CountedOnce
<1> QED
  BY <1>1, <1>2, <1>3, <1>4, <1>5, <1>6, <1>7, <1>8, <1>9, <1>10 DEF Next

\* However many syncs overlap and wherever the process is killed, no record of an
\* order says that more was filled than was, nor that it is filled when it is not:
\* a fill is counted once, stored or new.  Every record is one of its kind.
THEOREM RecordedFillsAreTrue == Spec => []FilledIsTrue
<1>1. FilledInv => FilledIsTrue
  <2> SUFFICES ASSUME FilledInv PROVE FilledIsTrue
    OBVIOUS
  <2>1. \A b \in Backends : HistoryOK(store[b], fills)
    BY DEF FilledInv, StoreOK
  <2>2. HistoryTypeOK
    <3>1. \A b \in Backends :
            /\ store[b].runs \subseteq Run
            /\ \A o \in Orders : store[b].orders[o] \in OrderRecord \cup {None}
            /\ store[b].fills \subseteq fills
            /\ \A i \in DOMAIN store[b].trades : store[b].trades[i] \in TradeSummary
      BY <2>1, ElementOfSeq DEF HistoryOK, RunsOK, OrdersOK, GoodOrder
    <3> QED
      BY <3>1 DEF FilledInv, ProcessOK, AccountOK, RestOK, HistoryTypeOK, Idle
  <2>3. \A b \in Backends, o \in Orders :
          store[b].orders[o] # None => GoodOrder(store[b].orders[o], fills)
                                       /\ store[b].orders[o].order_id = o
    BY <2>1 DEF HistoryOK, OrdersOK
  <2> QED
    BY <2>2, <2>3 DEF FilledIsTrue, GoodOrder
<1> QED
  BY <1>1, InitFilledInv, NextKeepsFilledInv, PTL DEF Spec

-----------------------------------------------------------------------------
\* Part three: the run that is gone on with.
StartOf(run) == run.run_id[2]

\* Every run but the newest started before it and was over when it started.
NewestRun(runs, run) ==
  /\ run \in runs
  /\ \A r \in runs \ {run} : StartOf(r) < StartOf(run) /\ RunTime(r) <= StartOf(run)

SqliteRunsOK ==
  ~run_write_lost =>
    LET runs == store["Sqlite"].runs
    IN /\ \A r \in runs : StartOf(r) <= RunTime(r) /\ RunTime(r) <= now
       /\ runs = {} \/ \E run \in runs : NewestRun(runs, run)
       /\ backend = "Sqlite" => current_run = ContinuedRun("Sqlite", runs)

\* A run that started when all others were over is the latest of them.
LEMMA NewestIsLatest ==
  ASSUME NEW runs, RunsOK(runs), NEW run, NewestRun(runs, run),
         \A r \in runs : StartOf(r) <= RunTime(r)
  PROVE  LatestRun("Sqlite", runs) = run
<1> DEFINE latest == LatestRun("Sqlite", runs)
<1>1. latest \in runs /\ \A r \in runs \ {latest} : Beats("Sqlite", latest, r)
  BY LatestIsRecorded DEF NewestRun, Backends
<1> HIDE DEF latest
<1>2. ASSUME latest # run PROVE FALSE
  <2>1. Beats("Sqlite", latest, run)
    BY <1>1, <1>2 DEF NewestRun
  <2>2. StartOf(latest) < StartOf(run) /\ RunTime(latest) <= StartOf(run)
    BY <1>1, <1>2 DEF NewestRun
  <2>3. StartOf(run) <= RunTime(run)
    BY DEF NewestRun
  <2>4. /\ StartOf(latest) \in Nat /\ StartOf(run) \in Nat
        /\ RunTime(latest) \in Nat /\ RunTime(run) \in Nat
    BY <1>1 DEF NewestRun, RunsOK, Run, RunKeys, RunTime, StartOf
  <2> QED
    BY <2>1, <2>2, <2>3, <2>4 DEF Beats, ListedBefore, StartOf
<1> QED
  BY <1>2 DEF latest

\* A record that starts after all others are over is the newest.
LEMMA PutNewest ==
  ASSUME NEW runs, NEW record,
         \A r \in runs : r.run_id # record.run_id =>
           StartOf(r) < StartOf(record) /\ RunTime(r) <= StartOf(record)
  PROVE  NewestRun({r \in runs : r.run_id # record.run_id} \cup {record}, record)
BY DEF NewestRun

\* The newest run is recorded again, with another mode, status or end.
LEMMA PutCurrent ==
  ASSUME NEW runs, RunsOK(runs), NEW T \in Nat,
         \A r \in runs : StartOf(r) <= RunTime(r) /\ RunTime(r) <= T,
         NEW run, NewestRun(runs, run),
         NEW record \in Run, record.run_id = run.run_id, RunTime(record) <= T,
         StartOf(record) <= RunTime(record)
  PROVE  LET all == {r \in runs : r.run_id # record.run_id} \cup {record}
         IN /\ RunsOK(all)
            /\ NewestRun(all, record)
            /\ \A r \in all : StartOf(r) <= RunTime(r) /\ RunTime(r) <= T
            /\ LatestRun("Sqlite", all) = record
<1> DEFINE all == {r \in runs : r.run_id # record.run_id} \cup {record}
<1>1. RunsOK(all)
  BY PutKeepsRuns
<1>2. NewestRun(all, record)
  BY PutNewest DEF NewestRun, StartOf
<1>3. \A r \in all : StartOf(r) <= RunTime(r) /\ RunTime(r) <= T
  OBVIOUS
<1> HIDE DEF all
<1>4. LatestRun("Sqlite", all) = record
  BY <1>1, <1>2, <1>3, NewestIsLatest
<1> QED
  BY <1>1, <1>2, <1>3, <1>4 DEF all

\* The current run is the newest one listed.
LEMMA CurrentIsNewest ==
  ASSUME FilledInv, SqliteRunsOK, ~run_write_lost, backend = "Sqlite", current_run # None
  PROVE  \E run \in store["Sqlite"].runs : /\ NewestRun(store["Sqlite"].runs, run)
                                          /\ current_run.run_id = run.run_id
<1> DEFINE runs == store["Sqlite"].runs
<1>1. current_run = ContinuedRun("Sqlite", runs)
  BY DEF SqliteRunsOK
<1>2. runs # {}
  BY <1>1 DEF ContinuedRun
<1>3. PICK run \in runs : NewestRun(runs, run)
  BY <1>2 DEF SqliteRunsOK
<1>4. RunsOK(runs)
  BY DEF FilledInv, StoreOK, HistoryOK, Backends
<1>5. LatestRun("Sqlite", runs) = run
  BY <1>3, <1>4, NewestIsLatest DEF SqliteRunsOK
<1>6. current_run.run_id = run.run_id
  BY <1>1, <1>2, <1>5 DEF ContinuedRun
<1> QED
  BY <1>3, <1>6

\* Writing the run that is open, or its end, leaves it the newest of those stored.
LEMMA CurrentRunOnceMore ==
  ASSUME FilledInv, SqliteRunsOK, ~run_write_lost, backend = "Sqlite", current_run # None,
         NEW T \in Nat, now <= T, now \in Nat,
         NEW record \in Run, record.run_id = current_run.run_id,
         record.ended_at \in {None, T}
  PROVE  LET all == {r \in store["Sqlite"].runs : r.run_id # record.run_id} \cup {record}
         IN /\ RunsOK(all)
            /\ NewestRun(all, record)
            /\ \A r \in all : StartOf(r) <= RunTime(r) /\ RunTime(r) <= T
            /\ LatestRun("Sqlite", all) = record
<1> DEFINE runs == store["Sqlite"].runs
<1>1. PICK run \in runs : NewestRun(runs, run) /\ current_run.run_id = run.run_id
  BY CurrentIsNewest
<1>2. RunsOK(runs)
  BY DEF FilledInv, StoreOK, HistoryOK, Backends
<1>3. \A r \in runs : StartOf(r) \in Nat /\ RunTime(r) \in Nat
  BY <1>2 DEF RunsOK, Run, RunKeys, RunTime, StartOf
<1>4. \A r \in runs : StartOf(r) <= RunTime(r) /\ RunTime(r) <= T
  BY <1>3 DEF SqliteRunsOK
<1>5. StartOf(record) = StartOf(run)
  BY <1>1 DEF StartOf
<1>6. StartOf(record) <= RunTime(record) /\ RunTime(record) <= T
  BY <1>3, <1>4, <1>5 DEF RunTime, StartOf
<1>7. NewestRun(runs, run) /\ record.run_id = run.run_id
  BY <1>1
<1> DEFINE all == {r \in runs : r.run_id # record.run_id} \cup {record}
<1> HIDE DEF runs
<1>8. /\ RunsOK(all)
      /\ NewestRun(all, record)
      /\ \A r \in all : StartOf(r) <= RunTime(r) /\ RunTime(r) <= T
      /\ LatestRun("Sqlite", all) = record
  BY <1>2, <1>4, <1>6, <1>7, PutCurrent
<1> QED
  BY <1>8 DEF runs

\* Steps that record no run.
LEMMA RunsUntouched ==
  ASSUME SqliteRunsOK, UNCHANGED <<backend, current_run, run_write_lost>>,
         store'["Sqlite"].runs = store["Sqlite"].runs,
         now \in Nat, now' \in Nat, now <= now',
         \A r \in store["Sqlite"].runs : RunTime(r) \in Nat
  PROVE  SqliteRunsOK'
BY DEF SqliteRunsOK

\* Times of runs are times of the clock.
LEMMA RunTimesAreNat ==
  ASSUME FilledInv
  PROVE  /\ now \in Nat
         /\ \A r \in store["Sqlite"].runs : RunTime(r) \in Nat /\ StartOf(r) \in Nat
<1>1. RunsOK(store["Sqlite"].runs)
  BY DEF FilledInv, StoreOK, HistoryOK, Backends
<1> QED
  BY <1>1 DEF FilledInv, ProcessOK, now, Kinds, RunsOK, Run, RunKeys, RunTime, StartOf

\* There is no run at first.
LEMMA InitRunsOK == Init => SqliteRunsOK
BY NoneAssumption DEF Init, SqliteRunsOK, EmptyHistory, Backends

\* Every step that is no record of a run.
LEMMA OtherStepsKeepRuns ==
  ASSUME FilledInv, SqliteRunsOK,
         \/ \E o \in Orders : Dispatch(o) \/ ReportFill(o) \/ ReportWorking(o) \/ ReportEnd(o)
         \/ \E lots \in Positions : ReportPosition(lots)
         \/ \E t \in Syncs : \/ TakeSnapshot(t) \/ ReadHistory(t) \/ ComputeRecords(t)
                             \/ WriteOrder(t) \/ WriteFill(t) \/ WritePosition(t)
                             \/ ReadTrade(t) \/ WriteTrade(t) \/ WriteFails(t)
         \/ UNCHANGED vars
  PROVE  SqliteRunsOK'
<1>1. UNCHANGED <<backend, current_run, run_write_lost>>
  BY DEF Dispatch, ReportFill, ReportWorking, ReportEnd, ReportPosition, KeepProcess, TakeSnapshot,
     ReadHistory, ComputeRecords, WriteOrder, WriteFill, WritePosition, ReadTrade, WriteTrade,
     WriteFails, KeepMemory, history_vars, vars
<1>2. now' = now \/ now' = now + 1
  <2>1. UNCHANGED events \/ \E kind \in Kinds : Event(kind)
    BY DEF Dispatch, ReportFill, ReportWorking, ReportEnd, ReportPosition, TakeSnapshot,
       ReadHistory, ComputeRecords, WriteOrder, WriteFill, WritePosition, ReadTrade, WriteTrade,
       WriteFails, KeepMemory, vars, Kinds
  <2> QED
    BY <2>1, EventCounts DEF FilledInv, ProcessOK, now
<1>3. store'["Sqlite"].runs = store["Sqlite"].runs
  <2>1. DOMAIN store = Backends /\ \A b \in Backends : DOMAIN store[b] = HistoryFields
    BY DEF FilledInv, StoreOK, HistoryOK
  <2>2. CASE UNCHANGED store
    BY <2>2
  <2>3. ASSUME NEW history, store' = [store EXCEPT ![backend] = history],
               history.runs = store[backend].runs
        PROVE  store'["Sqlite"].runs = store["Sqlite"].runs
    BY <2>1, <2>3 DEF Backends
  <2>4. \A o \in Orders : Dispatch(o) => store'["Sqlite"].runs = store["Sqlite"].runs
    <3> SUFFICES ASSUME NEW o \in Orders, Dispatch(o), store' # store
                 PROVE  store'["Sqlite"].runs = store["Sqlite"].runs
      OBVIOUS
    <3>1. PICK order : store' = [store EXCEPT ![backend] = PutOrder(@, order)]
      BY DEF Dispatch
    <3>2. backend \in Backends
      BY DEF Dispatch, FilledInv, ProcessOK
    <3> QED
      BY <2>1, <3>1, <3>2 DEF PutOrder, HistoryFields, Backends
  <2>5. ASSUME NEW t \in Syncs,
               WriteOrder(t) \/ WriteFill(t) \/ WritePosition(t) \/ WriteTrade(t)
        PROVE  store'["Sqlite"].runs = store["Sqlite"].runs
    <3>1. backend \in Backends
      BY <2>5 DEF WriteOrder, WriteFill, WritePosition, WriteTrade, Writing, FilledInv, RestOK,
         NoSync, ProcessOK
    <3>2. CASE WriteOrder(t)
      <4>1. PICK order : store' = [store EXCEPT ![backend] = PutOrder(@, order)]
        BY <3>2 DEF WriteOrder
      <4> QED
        BY <2>1, <3>1, <4>1 DEF PutOrder, HistoryFields, Backends
    <3>3. CASE WriteFill(t)
      BY <2>1, <3>1, <3>3 DEF WriteFill, HistoryFields, Backends
    <3>4. CASE WritePosition(t)
      <4>1. PICK x, y : store' = [store EXCEPT ![backend] = PutPosition(@, x, y)]
        BY <3>4 DEF WritePosition
      <4> QED
        BY <2>1, <3>1, <4>1 DEF PutPosition, HistoryFields, Backends
    <3>5. CASE WriteTrade(t)
      <4>1. PICK x, y : store' = [store EXCEPT ![backend] = PutTrade(@, x, y)]
        BY <3>5 DEF WriteTrade
      <4> QED
        BY <2>1, <3>1, <4>1 DEF PutTrade, HistoryFields, Backends
    <3> QED
      BY <2>5, <3>2, <3>3, <3>4, <3>5
  <2> QED
    BY <2>2, <2>4, <2>5 DEF ReportFill, ReportWorking, ReportEnd, ReportPosition, KeepProcess,
       TakeSnapshot, ReadHistory, ComputeRecords, ReadTrade, WriteFails, vars
<1> QED
  BY <1>1, <1>2, <1>3, RunTimesAreNat, RunsUntouched

\* A start of the SQLite backend goes on with its newest run.
LEMMA StartKeepsRuns ==
  ASSUME FilledInv, SqliteRunsOK, Start
  PROVE  SqliteRunsOK'
<1>1. store'["Sqlite"] = store["Sqlite"]
  BY DEF Start, FilledInv, StoreOK
<1>2. UNCHANGED <<events, run_write_lost>> /\ now' = now
  BY DEF Start, history_vars, now
<1>3. backend' = "Sqlite" => current_run' = ContinuedRun("Sqlite", store'["Sqlite"].runs)
  BY DEF Start
<1> QED
  BY <1>1, <1>2, <1>3 DEF SqliteRunsOK

\* A stop ends the newest run, a kill leaves it open.
LEMMA EndsKeepRuns ==
  ASSUME FilledInv, SqliteRunsOK, Crash \/ Shutdown
  PROVE  SqliteRunsOK'
<1>1. backend' # "Sqlite" /\ UNCHANGED run_write_lost /\ Event("fault") /\ backend # None
  BY NoneAssumption DEF Crash, Shutdown, Forgotten, Backends
<1>2. now' = now + 1 /\ now' \in Nat
  BY <1>1, EventCounts DEF FilledInv, ProcessOK, Kinds
<1>3. CASE store'["Sqlite"].runs = store["Sqlite"].runs
  BY <1>1, <1>2, <1>3, RunTimesAreNat DEF SqliteRunsOK
<1>4. CASE store'["Sqlite"].runs # store["Sqlite"].runs /\ ~run_write_lost
  <2> DEFINE record == RunRecord(current_run, "Cancelled", now')
             all == {r \in store["Sqlite"].runs : r.run_id # record.run_id} \cup {record}
  <2>1. store' = [store EXCEPT ![backend] = PutRun(@, record)] /\ current_run # None
    BY <1>4 DEF Crash, Shutdown
  <2>2. backend = "Sqlite"
    BY <1>4, <2>1
  <2>3. record \in Run /\ record.run_id = current_run.run_id /\ record.ended_at = now'
    BY <1>2, <2>1, RunRecordType DEF RunRecord
  <2>4. store'["Sqlite"].runs = all
    BY <2>1, <2>2 DEF PutRun, FilledInv, StoreOK, HistoryOK, HistoryFields, Backends
  <2> HIDE DEF record
  <2>5. /\ NewestRun(all, record)
        /\ \A r \in all : StartOf(r) <= RunTime(r) /\ RunTime(r) <= now'
    BY <1>2, <1>4, <2>1, <2>2, <2>3, RunTimesAreNat, CurrentRunOnceMore
  <2> HIDE DEF all
  <2> QED
    BY <1>1, <2>4, <2>5 DEF SqliteRunsOK, NewestRun
<1>5. CASE run_write_lost
  BY <1>1, <1>5 DEF SqliteRunsOK
<1> QED
  BY <1>3, <1>4, <1>5

\* A record of the current run, as it is from now on.
LEMMA RecordRunKeepsRuns ==
  ASSUME FilledInv, SqliteRunsOK, backend # None, current_run # None, Event("run"),
         UNCHANGED backend,
         NEW run \in [run_id : RunKeys, mode : Modes, status : OpenStatuses],
         run.run_id = current_run.run_id,
         NEW ended_at \in {None, now'}, RecordRun(run, ended_at)
  PROVE  SqliteRunsOK'
<1> DEFINE record == RunRecord(run, run.status, ended_at)
           runs == store["Sqlite"].runs
           all == {r \in runs : r.run_id # record.run_id} \cup {record}
<1>1. now' = now + 1 /\ now' \in Nat
  BY EventCounts DEF FilledInv, ProcessOK, Kinds
<1>2. CASE run_write_lost'
  BY <1>2 DEF SqliteRunsOK
<1>3. CASE ~run_write_lost' /\ backend # "Sqlite"
  <2>1. /\ store' = [store EXCEPT ![backend] = PutRun(@, record)]
        /\ UNCHANGED run_write_lost
    BY <1>3 DEF RecordRun
  <2>2. store'["Sqlite"].runs = runs
    BY <1>3, <2>1 DEF FilledInv, StoreOK, Backends
  <2> QED
    BY <1>1, <1>3, <2>1, <2>2, RunTimesAreNat DEF SqliteRunsOK
<1>4. CASE ~run_write_lost' /\ backend = "Sqlite"
  <2>1. /\ store' = [store EXCEPT ![backend] = PutRun(@, record)]
        /\ current_run' = run
        /\ UNCHANGED run_write_lost
    BY <1>4 DEF RecordRun
  <2>2. record \in Run /\ record.run_id = current_run.run_id /\ record.ended_at \in {None, now'}
    BY <1>1 DEF RunRecord, Run
  <2>3. store'["Sqlite"].runs = all
    BY <1>4, <2>1 DEF PutRun, FilledInv, StoreOK, HistoryOK, HistoryFields, Backends
  <2>4. [run_id |-> record.run_id, mode |-> record.mode, status |-> record.status] = run
        /\ record.status \in OpenStatuses
    BY DEF RunRecord
  <2> HIDE DEF record
  <2>5. /\ NewestRun(all, record)
        /\ \A r \in all : StartOf(r) <= RunTime(r) /\ RunTime(r) <= now'
        /\ LatestRun("Sqlite", all) = record
    BY <1>1, <1>4, <2>1, <2>2, RunTimesAreNat, CurrentRunOnceMore
  <2>6. ContinuedRun("Sqlite", all) = run
    BY <2>4, <2>5 DEF ContinuedRun, NewestRun
  <2> HIDE DEF all
  <2> QED
    BY <2>1, <2>3, <2>5, <2>6 DEF SqliteRunsOK, NewestRun
<1> QED
  BY <1>2, <1>3, <1>4

\* Loading a strategy ends the newest run and starts one at a later time.
LEMMA LoadKeepsRuns ==
  ASSUME FilledInv, SqliteRunsOK, NEW strategy \in Strategies, NEW mode \in Modes,
         LoadStrategy(strategy, mode)
  PROVE  SqliteRunsOK'
<1> DEFINE run == [run_id |-> <<strategy, now'>>, mode |-> mode, status |-> "Starting"]
           record == RunRecord(run, "Starting", None)
           over == RunRecord(current_run, "Cancelled", now')
           closed == IF current_run = None THEN store[backend] ELSE PutRun(store[backend], over)
           all == {r \in closed.runs : r.run_id # record.run_id} \cup {record}
<1>1. backend # None /\ backend \in Backends /\ UNCHANGED backend
  BY DEF LoadStrategy, KeepSyncs, FilledInv, ProcessOK
<1>2. now \in Nat /\ now' = now + 1 /\ now' \in Nat
  BY EventCounts DEF LoadStrategy, FilledInv, ProcessOK, Kinds
<1>3. CASE run_write_lost'
  BY <1>3 DEF SqliteRunsOK
<1>4. ASSUME ~run_write_lost'
      PROVE  /\ store' = [store EXCEPT ![backend] = PutRun(closed, record)]
             /\ current_run' = run
             /\ UNCHANGED run_write_lost
  BY <1>4 DEF LoadStrategy
<1>5. CASE ~run_write_lost' /\ backend # "Sqlite"
  <2>1. store'["Sqlite"].runs = store["Sqlite"].runs
    BY <1>4, <1>5 DEF FilledInv, StoreOK, Backends
  <2> QED
    BY <1>1, <1>2, <1>4, <1>5, <2>1, RunTimesAreNat DEF SqliteRunsOK
<1>6. CASE ~run_write_lost' /\ backend = "Sqlite"
  <2>1. ~run_write_lost
    BY <1>4, <1>6
  <2>2. RunsOK(store[backend].runs) /\ DOMAIN store[backend] = HistoryFields
    BY <1>1 DEF FilledInv, StoreOK, HistoryOK
  <2>3. /\ RunsOK(closed.runs)
        /\ DOMAIN closed = HistoryFields
        /\ \A r \in closed.runs :
             StartOf(r) <= now /\ StartOf(r) <= RunTime(r) /\ RunTime(r) <= now'
    <3>1. CASE current_run = None
      BY <1>2, <1>6, <2>1, <2>2, <3>1, RunTimesAreNat DEF SqliteRunsOK
    <3>2. CASE current_run # None
      <4>1. over \in Run /\ over.run_id = current_run.run_id /\ over.ended_at = now'
        BY <1>2, <3>2, RunRecordType DEF RunRecord
      <4> HIDE DEF over
      <4> DEFINE with == {r \in store["Sqlite"].runs : r.run_id # over.run_id} \cup {over}
      <4>2. closed.runs = with /\ DOMAIN closed = HistoryFields
        BY <1>6, <2>2, <3>2 DEF PutRun, HistoryFields
      <4>3. /\ RunsOK(with)
            /\ \A r \in with : StartOf(r) <= RunTime(r) /\ RunTime(r) <= now'
        <5>1. now <= now'
          BY <1>2
        <5> HIDE DEF closed
        <5> QED
          BY <1>2, <1>6, <2>1, <3>2, <4>1, <5>1, CurrentRunOnceMore
      <4>4. \A r \in with : StartOf(r) <= now
        <5>1. PICK r \in store["Sqlite"].runs : current_run.run_id = r.run_id
          BY <1>6, <2>1, <3>2, CurrentIsNewest
        <5>2. StartOf(over) = StartOf(r)
          BY <4>1, <5>1 DEF StartOf
        <5>3. \A s \in store["Sqlite"].runs : StartOf(s) <= now
          BY <2>1, RunTimesAreNat DEF SqliteRunsOK
        <5> QED
          BY <5>2, <5>3
      <4> HIDE DEF closed, with
      <4> QED
        BY <4>2, <4>3, <4>4
    <3> QED
      BY <3>1, <3>2
  <2>4. record \in Run /\ StartOf(record) = now' /\ RunTime(record) = now'
    BY <1>2 DEF RunRecord, Run, RunKeys, OpenStatuses, StartOf, RunTime
  <2>5. store'["Sqlite"].runs = all
    <3> HIDE DEF closed, record
    <3> QED
      BY <1>1, <1>4, <1>6, <2>3 DEF PutRun, FilledInv, StoreOK, HistoryFields
  <2>6. [run_id |-> record.run_id, mode |-> record.mode, status |-> record.status] = run
        /\ record.status \in OpenStatuses
    BY DEF RunRecord, OpenStatuses
  <2> HIDE DEF closed, record, run
  <2>7. RunsOK(all)
    BY <2>3, <2>4, PutKeepsRuns
  <2>8. \A r \in closed.runs : StartOf(r) \in Nat /\ RunTime(r) \in Nat
    BY <2>3 DEF RunsOK, Run, RunKeys, RunTime, StartOf
  <2>9. NewestRun(all, record)
    <3>1. \A r \in closed.runs : StartOf(r) < StartOf(record) /\ RunTime(r) <= StartOf(record)
      BY <1>2, <2>3, <2>4, <2>8
    <3> QED
      BY <3>1, PutNewest
  <2>10. \A r \in all : StartOf(r) <= RunTime(r) /\ RunTime(r) <= now'
    BY <1>2, <2>3, <2>4
  <2> HIDE DEF all
  <2>11. LatestRun("Sqlite", all) = record
    BY <2>7, <2>9, <2>10, NewestIsLatest
  <2>12. ContinuedRun("Sqlite", all) = run
    BY <2>6, <2>9, <2>11 DEF ContinuedRun, NewestRun
  <2> QED
    BY <1>4, <1>6, <2>5, <2>9, <2>10, <2>12 DEF SqliteRunsOK, NewestRun
<1> QED
  BY <1>3, <1>5, <1>6

\* Every step keeps the invariant of part three.
LEMMA NextKeepsRuns == FilledInv /\ SqliteRunsOK /\ [Next]_vars => SqliteRunsOK'
<1> SUFFICES ASSUME FilledInv, SqliteRunsOK, [Next]_vars PROVE SqliteRunsOK'
  OBVIOUS
<1>1. CASE Crash \/ Shutdown
  BY <1>1, EndsKeepRuns
<1>2. CASE Start
  BY <1>2, StartKeepsRuns
<1>3. CASE \E strategy \in Strategies, mode \in Modes : LoadStrategy(strategy, mode)
  BY <1>3, LoadKeepsRuns
<1>4. CASE \E mode \in Modes : RecordModeChange(mode)
  <2>1. PICK mode \in Modes : RecordModeChange(mode)
    BY <1>4
  <2> DEFINE run == [current_run EXCEPT !.mode = mode]
  <2>2. /\ backend # None /\ current_run # None /\ Event("run") /\ UNCHANGED backend
        /\ RecordRun(run, None)
    BY <2>1 DEF RecordModeChange, KeepSyncs
  <2>3. /\ run \in [run_id : RunKeys, mode : Modes, status : OpenStatuses]
        /\ run.run_id = current_run.run_id
    BY <2>2 DEF FilledInv, ProcessOK
  <2> HIDE DEF run
  <2> QED
    BY <2>2, <2>3, RecordRunKeepsRuns
<1>5. CASE \E status \in {"Active", "Paused", "Failed"} : RecordRunStatus(status)
  <2>1. PICK status \in {"Active", "Paused", "Failed"} : RecordRunStatus(status)
    BY <1>5
  <2> DEFINE run == [current_run EXCEPT !.status = status]
             ended_at == IF status = "Failed" THEN now' ELSE None
  <2>2. /\ backend # None /\ current_run # None /\ Event("run") /\ UNCHANGED backend
        /\ RecordRun(run, ended_at)
    BY <2>1 DEF RecordRunStatus, KeepSyncs
  <2>3. /\ run \in [run_id : RunKeys, mode : Modes, status : OpenStatuses]
        /\ run.run_id = current_run.run_id
    BY <2>2 DEF FilledInv, ProcessOK, OpenStatuses
  <2>4. ended_at \in {None, now'}
    OBVIOUS
  <2> HIDE DEF run, ended_at
  <2> QED
    BY <2>2, <2>3, <2>4, RecordRunKeepsRuns
<1> QED
  BY <1>1, <1>2, <1>3, <1>4, <1>5, OtherStepsKeepRuns DEF Next

\* A process on SQLite always remembers the run a start would go on with, in its
\* last mode and status, as long as no record of a run was lost: it can be killed
\* at any time.
THEOREM RunIsContinued == Spec => []RunSurvivesCrash
<1>1. SqliteRunsOK => RunSurvivesCrash
  BY DEF SqliteRunsOK, RunSurvivesCrash
<1> QED
  BY <1>1, InitFilledInv, NextKeepsFilledInv, InitRunsOK, NextKeepsRuns, PTL DEF Spec

-----------------------------------------------------------------------------
\* Part four: the run of an order.
\* Nobody knows of an order before it is recorded.
NotKnown(job, o) ==
  /\ job.stage = "snapshot" => job.working_orders[o] = None
  /\ job.stage = "history" => job.snapshot.working_orders[o] = None /\ job.orders[o] = None
  /\ job.stage = "write" => \A order \in job.orders : order.order_id # o

UnknownUntilRecorded ==
  \A o \in Orders : recorded_run[o] = None =>
    /\ working_orders[o] = None
    /\ \A b \in Backends : store[b].orders[o] = None
    /\ \A t \in Syncs : NotKnown(sync[t], o)

\* A task that has read of an order has read its run; one that has not found the
\* order in the store has no news of it.
KeepsRun(job, o, run_id) ==
  /\ job.stage = "history" =>
       /\ job.orders[o] = None => job.snapshot.working_orders[o] = None
       /\ job.orders[o] # None => job.orders[o].run_id = run_id
  /\ job.stage = "write" => \A order \in job.orders : order.order_id = o => order.run_id = run_id

Attributed(o) ==
  /\ recorded_run[o] # None
  /\ recorded_run[o].backend \in {"Postgres", "Sqlite"}
  /\ recorded_run[o].run_id # None

RunsKept ==
  \A o \in Orders : Attributed(o) =>
    LET recorded == recorded_run[o]
    IN /\ store[recorded.backend].orders[o] # None
       /\ store[recorded.backend].orders[o].run_id = recorded.run_id
       /\ backend = recorded.backend => \A t \in Syncs : KeepsRun(sync[t], o, recorded.run_id)

OrderRunInv ==
  /\ recorded_run \in [Orders -> Recorded \cup {None}]
  /\ UnknownUntilRecorded /\ RunsKept

\* No order is known at first.
LEMMA InitOrderRunInv == Init => OrderRunInv
<1> SUFFICES ASSUME Init PROVE OrderRunInv
  OBVIOUS
<1>1. recorded_run = [o \in Orders |-> None]
  BY DEF Init
<1>2. UnknownUntilRecorded
  BY DEF Init, UnknownUntilRecorded, EmptyHistory, NotKnown, NoSync
<1> QED
  BY <1>1, <1>2 DEF OrderRunInv, RunsKept, Attributed

\* A task that holds no record of an order.
HoldsNoOrder(job) ==
  \/ job.stage \notin {"snapshot", "history", "write"}
  \/ job.stage = "write" /\ job.orders = {}

\* The steps that leave every stored order alone and let no task know of one.
LEMMA OrdersUntouched ==
  ASSUME OrderRunInv, UNCHANGED recorded_run,
         \A o \in Orders : recorded_run[o] = None => working_orders'[o] = None,
         \A b \in Backends, o \in Orders :
           \/ store'[b].orders[o] = store[b].orders[o]
           \/ b = "InMemory" /\ store'[b].orders[o] = None,
         \A t \in Syncs : sync'[t] = sync[t] \/ HoldsNoOrder(sync'[t]),
         backend' = backend \/ \A t \in Syncs : HoldsNoOrder(sync'[t])
  PROVE  OrderRunInv'
<1>1. UnknownUntilRecorded'
  BY DEF OrderRunInv, UnknownUntilRecorded, NotKnown, HoldsNoOrder
<1>2. \A job, o, run_id : HoldsNoOrder(job) => KeepsRun(job, o, run_id)
  BY DEF HoldsNoOrder, KeepsRun
<1>3. ASSUME NEW o \in Orders, Attributed(o)'
      PROVE  LET recorded == recorded_run[o]
             IN /\ store'[recorded.backend].orders[o] # None
                /\ store'[recorded.backend].orders[o].run_id = recorded.run_id
                /\ backend' = recorded.backend =>
                     \A t \in Syncs : KeepsRun(sync'[t], o, recorded.run_id)
  <2>1. Attributed(o)
    BY <1>3 DEF Attributed
  <2>2. store'[recorded_run[o].backend].orders[o] = store[recorded_run[o].backend].orders[o]
    BY <2>1 DEF Attributed, Backends
  <2>3. backend' = recorded_run[o].backend =>
          \A t \in Syncs : KeepsRun(sync'[t], o, recorded_run[o].run_id)
    BY <1>2, <2>1 DEF OrderRunInv, RunsKept
  <2> QED
    BY <2>1, <2>2, <2>3 DEF OrderRunInv, RunsKept
<1>4. RunsKept'
  BY <1>3 DEF RunsKept
<1> QED
  BY <1>1, <1>4 DEF OrderRunInv

\* Writing a run changes no order.
LEMMA PutRunKeepsOrders ==
  ASSUME NEW history, DOMAIN history = HistoryFields, NEW run
  PROVE  PutRun(history, run).orders = history.orders /\ DOMAIN PutRun(history, run) = HistoryFields
BY DEF PutRun, HistoryFields

\* A store holds a history for each backend.
LEMMA StoreFields ==
  ASSUME FilledInv
  PROVE  DOMAIN store = Backends /\ \A b \in Backends : DOMAIN store[b] = HistoryFields
BY DEF FilledInv, StoreOK, HistoryOK

\* The steps about runs change no order.
LEMMA RunStepsKeepOrderRuns ==
  ASSUME FilledInv, OrderRunInv,
         \/ Crash \/ Shutdown \/ Start
         \/ \E strategy \in Strategies, mode \in Modes : LoadStrategy(strategy, mode)
         \/ \E mode \in Modes : RecordModeChange(mode)
         \/ \E status \in {"Active", "Paused", "Failed"} : RecordRunStatus(status)
  PROVE  OrderRunInv'
<1>1. CASE Crash \/ Shutdown
  <2>1. UNCHANGED recorded_run /\ UNCHANGED working_orders /\ \A t \in Syncs : sync'[t] = NoSync
    BY <1>1 DEF Crash, Shutdown, Forgotten, account_vars
  <2>2. \A b \in Backends, o \in Orders : store'[b].orders[o] = store[b].orders[o]
    <3>1. backend \in Backends
      BY <1>1 DEF Crash, Shutdown, FilledInv, ProcessOK
    <3>2. store' = store \/ \E run : store' = [store EXCEPT ![backend] = PutRun(@, run)]
      BY <1>1 DEF Crash, Shutdown
    <3> QED
      BY <3>1, <3>2, StoreFields, PutRunKeepsOrders
  <2>3. \A t \in Syncs : HoldsNoOrder(sync'[t])
    BY <2>1 DEF HoldsNoOrder, NoSync
  <2> QED
    BY <2>1, <2>2, <2>3, OrdersUntouched DEF OrderRunInv, UnknownUntilRecorded
<1>2. CASE Start
  <2>1. /\ UNCHANGED <<recorded_run, working_orders, sync>>
        /\ store' = [store EXCEPT !["InMemory"] = EmptyHistory]
    BY <1>2 DEF Start, account_vars, history_vars
  <2>2. \A t \in Syncs : HoldsNoOrder(sync'[t])
    BY <1>2, <2>1 DEF Start, FilledInv, RestOK, HoldsNoOrder, NoSync
  <2>3. \A b \in Backends, o \in Orders :
          \/ store'[b].orders[o] = store[b].orders[o]
          \/ b = "InMemory" /\ store'[b].orders[o] = None
    BY <2>1, StoreFields DEF EmptyHistory
  <2> QED
    BY <2>1, <2>2, <2>3, OrdersUntouched DEF OrderRunInv, UnknownUntilRecorded
<1>3. CASE \/ \E strategy \in Strategies, mode \in Modes : LoadStrategy(strategy, mode)
           \/ \E mode \in Modes : RecordModeChange(mode)
           \/ \E status \in {"Active", "Paused", "Failed"} : RecordRunStatus(status)
  <2>1. KeepSyncs /\ backend \in Backends
    BY <1>3 DEF LoadStrategy, RecordModeChange, RecordRunStatus, FilledInv, ProcessOK
  <2>2. UNCHANGED <<recorded_run, working_orders, sync, backend>>
    BY <2>1 DEF KeepSyncs, account_vars, sync_vars
  <2>3. \A b \in Backends, o \in Orders : store'[b].orders[o] = store[b].orders[o]
    <3>1. \/ store' = store
          \/ \E history : /\ store' = [store EXCEPT ![backend] = history]
                         /\ history.orders = store[backend].orders
      <4>1. CASE \E strategy \in Strategies, mode \in Modes : LoadStrategy(strategy, mode)
        <5>1. PICK strategy \in Strategies, mode \in Modes : LoadStrategy(strategy, mode)
          BY <4>1
        <5> DEFINE closed == IF current_run = None THEN store[backend]
                             ELSE PutRun(store[backend], RunRecord(current_run, "Cancelled", now'))
        <5>2. closed.orders = store[backend].orders /\ DOMAIN closed = HistoryFields
          BY <2>1, StoreFields, PutRunKeepsOrders
        <5> HIDE DEF closed
        <5>3. \A run : PutRun(closed, run).orders = closed.orders
          BY <5>2, PutRunKeepsOrders
        <5>4. \/ store' = store
              \/ store' = [store EXCEPT ![backend] = closed]
              \/ \E run : store' = [store EXCEPT ![backend] = PutRun(closed, run)]
          BY <5>1 DEF LoadStrategy, closed
        <5> QED
          BY <5>2, <5>3, <5>4
      <4>2. CASE \E mode \in Modes : RecordModeChange(mode)
        BY <2>1, <4>2, StoreFields, PutRunKeepsOrders DEF RecordModeChange, RecordRun
      <4>3. CASE \E status \in {"Active", "Paused", "Failed"} : RecordRunStatus(status)
        BY <2>1, <4>3, StoreFields, PutRunKeepsOrders DEF RecordRunStatus, RecordRun
      <4> QED
        BY <1>3, <4>1, <4>2, <4>3
    <3> QED
      BY <2>1, <3>1, StoreFields, PutRunKeepsOrders
  <2> QED
    BY <2>2, <2>3, OrdersUntouched DEF OrderRunInv, UnknownUntilRecorded
<1> QED
  BY <1>1, <1>2, <1>3

\* The broker reports only orders that it was given.
LEMMA ReportsKeepOrderRuns ==
  ASSUME FilledInv, OrderRunInv,
         \/ \E o \in Orders : ReportFill(o) \/ ReportWorking(o) \/ ReportEnd(o)
         \/ \E lots \in Positions : ReportPosition(lots)
         \/ UNCHANGED vars
  PROVE  OrderRunInv'
<1>1. UNCHANGED <<recorded_run, store, sync, backend>>
  BY DEF ReportFill, ReportWorking, ReportEnd, ReportPosition, KeepProcess, sync_vars,
     history_vars, vars
<1>2. \A o \in Orders : recorded_run[o] = None => working_orders'[o] = None
  BY DEF ReportFill, ReportWorking, ReportEnd, ReportPosition, vars, account_vars, OrderRunInv,
     UnknownUntilRecorded, FilledInv, AccountOK, WorkingOK
<1> QED
  BY <1>1, <1>2, OrdersUntouched

\* A dispatch gives its order the run that is current.
LEMMA DispatchKeepsOrderRuns ==
  ASSUME FilledInv, OrderRunInv, NEW o \in Orders, Dispatch(o)
  PROVE  OrderRunInv'
<1> DEFINE run_id == IF current_run = None THEN None ELSE current_run.run_id
           order == [order_id |-> o, run_id |-> run_id, quantity |-> Intended[o],
                     filled_quantity |-> 0, status |-> "Pending"]
<1>1. /\ backend \in Backends /\ recorded_run[o] = None
      /\ UNCHANGED <<backend, working_orders, sync>>
  BY DEF Dispatch, FilledInv, ProcessOK, account_vars, sync_vars
<1>2. run_id \in RunKeys \cup {None}
  BY DEF FilledInv, ProcessOK
<1>3. order \in OrderRecord /\ order # None
  <2>1. Intended[o] \in Nat
    BY IntendedAssumption
  <2> HIDE DEF run_id
  <2>2. order \in OrderRecord
    BY <1>2, <2>1 DEF OrderRecord
  <2> QED
    BY <2>2, NoneAssumption
<1>4. ASSUME NEW given \in Recorded, recorded_run' = [recorded_run EXCEPT ![o] = given]
      PROVE  /\ recorded_run' \in [Orders -> Recorded \cup {None}]
             /\ recorded_run'[o] = given /\ given # None
             /\ \A p \in Orders \ {o} : recorded_run'[p] = recorded_run[p]
  BY <1>4, NoneAssumption DEF OrderRunInv
<1>5. CASE /\ store' = [store EXCEPT ![backend] = PutOrder(@, order)]
           /\ recorded_run' = [recorded_run EXCEPT ![o] = [backend |-> backend, run_id |-> run_id]]
  <2> DEFINE given == [backend |-> backend, run_id |-> run_id]
  <2>1. given \in Recorded /\ given.backend = backend /\ given.run_id = run_id
    BY <1>1, <1>2 DEF Recorded
  <2>2. \A b \in Backends :
          store'[b].orders = IF b = backend THEN [store[b].orders EXCEPT ![o] = order]
                             ELSE store[b].orders
    BY <1>1, <1>5, StoreFields DEF PutOrder, HistoryFields
  <2>3. \A b \in Backends : DOMAIN store[b].orders = Orders
    BY DEF FilledInv, StoreOK, HistoryOK, OrdersOK
  <2>4. order.run_id = run_id
    OBVIOUS
  <2> HIDE DEF order, run_id, given
  <2>5. /\ \A b \in Backends, p \in Orders \ {o} : store'[b].orders[p] = store[b].orders[p]
        /\ store'[backend].orders[o] = order
    BY <1>1, <2>2, <2>3
  <2>6. /\ recorded_run' \in [Orders -> Recorded \cup {None}]
        /\ recorded_run'[o] = given /\ given # None
        /\ \A p \in Orders \ {o} : recorded_run'[p] = recorded_run[p]
    <3>1. recorded_run' = [recorded_run EXCEPT ![o] = given]
      BY <1>5 DEF given
    <3> QED
      BY <1>4, <2>1, <3>1
  <2>7. UnknownUntilRecorded'
    BY <1>1, <2>5, <2>6 DEF OrderRunInv, UnknownUntilRecorded
  <2>8. \A t \in Syncs : KeepsRun(sync[t], o, run_id)
    BY <1>1 DEF OrderRunInv, UnknownUntilRecorded, NotKnown, KeepsRun
  <2>9. ASSUME NEW p \in Orders, Attributed(p)'
        PROVE  LET recorded == recorded_run'[p]
               IN /\ store'[recorded.backend].orders[p] # None
                  /\ store'[recorded.backend].orders[p].run_id = recorded.run_id
                  /\ backend' = recorded.backend =>
                       \A t \in Syncs : KeepsRun(sync'[t], p, recorded.run_id)
    <3>1. CASE p = o
      BY <1>1, <1>3, <2>1, <2>4, <2>5, <2>6, <2>8, <3>1
    <3>2. CASE p # o
      <4>1. Attributed(p) /\ recorded_run'[p] = recorded_run[p]
        BY <2>6, <2>9, <3>2 DEF Attributed
      <4>2. recorded_run[p].backend \in Backends
        BY <4>1 DEF Attributed, Backends
      <4> QED
        BY <1>1, <2>5, <3>2, <4>1, <4>2 DEF OrderRunInv, RunsKept
    <3> QED
      BY <3>1, <3>2
  <2>10. RunsKept'
    BY <2>9 DEF RunsKept
  <2> QED
    BY <2>6, <2>7, <2>10 DEF OrderRunInv
<1>6. CASE /\ store' = store
           /\ recorded_run' = [recorded_run EXCEPT ![o] = [backend |-> "lost", run_id |-> None]]
  <2> DEFINE given == [backend |-> "lost", run_id |-> None]
  <2>1. given \in Recorded /\ given.backend = "lost"
    BY DEF Recorded
  <2> HIDE DEF given
  <2>2. /\ recorded_run' \in [Orders -> Recorded \cup {None}]
        /\ recorded_run'[o] = given /\ given # None
        /\ \A p \in Orders \ {o} : recorded_run'[p] = recorded_run[p]
    <3>1. recorded_run' = [recorded_run EXCEPT ![o] = given]
      BY <1>6 DEF given
    <3> QED
      BY <1>4, <2>1, <3>1
  <2>3. UnknownUntilRecorded'
    BY <1>1, <1>6, <2>2 DEF OrderRunInv, UnknownUntilRecorded
  <2>4. \A p \in Orders : Attributed(p)' => p # o /\ Attributed(p)
    BY <2>1, <2>2 DEF Attributed
  <2>5. RunsKept'
    BY <1>1, <1>6, <2>2, <2>4 DEF OrderRunInv, RunsKept
  <2> QED
    BY <2>2, <2>3, <2>5 DEF OrderRunInv
<1> QED
  BY <1>5, <1>6 DEF Dispatch

\* What a task in its write stage has still to write.
LEMMA WriteStageHolds ==
  ASSUME NEW at, NEW orders, NEW new_fills, NEW lots,
         NEW job, job = WriteStage(at, orders, new_fills, lots)
  PROVE  job.stage = "idle" \/ (job.stage = "write" /\ job.orders = orders)
BY DEF WriteStage, NoSync

\* A sync on its way: what it reads of an order is its run.
LEMMA SyncReadsKeepOrderRuns ==
  ASSUME FilledInv, OrderRunInv, NEW t \in Syncs,
         TakeSnapshot(t) \/ ReadHistory(t) \/ ComputeRecords(t)
  PROVE  OrderRunInv'
<1> DEFINE job == sync[t]
           next == sync'[t]
<1>1. UNCHANGED <<recorded_run, working_orders, store, backend>>
  BY DEF TakeSnapshot, ReadHistory, ComputeRecords, account_vars, history_vars
<1>2. backend \in Backends
  BY DEF TakeSnapshot, ReadHistory, ComputeRecords, FilledInv, RestOK, NoSync, ProcessOK
<1>3. \A u \in Syncs \ {t} : sync'[u] = sync[u]
  BY DEF TakeSnapshot, ReadHistory, ComputeRecords, FilledInv, SyncsOK
<1>4. \A o \in Orders : recorded_run[o] = None => NotKnown(job, o)
  BY DEF OrderRunInv, UnknownUntilRecorded
<1>5. \A o \in Orders : Attributed(o) /\ backend = recorded_run[o].backend =>
        KeepsRun(job, o, recorded_run[o].run_id)
  BY DEF OrderRunInv, RunsKept
<1>6. /\ \A o \in Orders : recorded_run[o] = None => NotKnown(next, o)
      /\ \A o \in Orders : Attributed(o) /\ backend = recorded_run[o].backend =>
           KeepsRun(next, o, recorded_run[o].run_id)
  <2>1. CASE TakeSnapshot(t)
    <3>1. next.stage = "snapshot" /\ next.working_orders = working_orders
      BY <2>1 DEF TakeSnapshot, FilledInv, SyncsOK
    <3> QED
      BY <3>1 DEF NotKnown, KeepsRun, OrderRunInv, UnknownUntilRecorded
  <2>2. CASE ReadHistory(t)
    <3>1. /\ job.stage = "snapshot"
          /\ next.stage = "history" /\ next.snapshot = job /\ next.orders = store[backend].orders
      BY <2>2 DEF ReadHistory, FilledInv, SyncsOK
    <3>2. \A o \in Orders : recorded_run[o] = None => store[backend].orders[o] = None
      BY <1>2 DEF OrderRunInv, UnknownUntilRecorded
    <3>3. \A o \in Orders : recorded_run[o] = None => NotKnown(next, o)
      BY <1>4, <3>1, <3>2 DEF NotKnown
    <3>4. \A o \in Orders : Attributed(o) /\ backend = recorded_run[o].backend =>
            KeepsRun(next, o, recorded_run[o].run_id)
      BY <3>1 DEF KeepsRun, OrderRunInv, RunsKept
    <3> QED
      BY <3>3, <3>4
  <2>3. CASE ComputeRecords(t)
    <3> DEFINE records == OrderRecords(job)
    <3>1. /\ job.stage = "history"
          /\ next.stage = "idle" \/ (next.stage = "write" /\ next.orders = records)
      <4>1. /\ job.stage = "history"
            /\ next = WriteStage(job.at, records, NewFills(job.snapshot),
                                 PositionChange(job.snapshot.position))
        BY <2>3 DEF ComputeRecords, FilledInv, SyncsOK
      <4> HIDE DEF records, next, job
      <4> QED
        BY <4>1, WriteStageHolds
    <3>2. \A o \in Orders : job.orders[o] # None => job.orders[o].order_id = o
                                                    /\ job.orders[o] \in OrderRecord
      BY <3>1 DEF FilledInv, SyncsOK, SyncOK, NoSync, OrdersOK, GoodOrder
    <3>3. ASSUME NEW order \in records, NEW o \in Orders, order.order_id = o
          PROVE  /\ \/ job.snapshot.working_orders[o] # None
                    \/ job.orders[o] # None
                 /\ job.orders[o] # None /\ job.orders[o].run_id # None =>
                      order.run_id = job.orders[o].run_id
      <4>1. CASE \E p \in Orders :
                   /\ job.snapshot.working_orders[p] # None
                   /\ order = MergedOrder(job.orders[p], p, job.snapshot.working_orders[p])
        BY <3>3, <4>1 DEF MergedOrder
      <4>2. CASE \E p \in Orders :
                   /\ job.orders[p] # None
                   /\ order = FinalOrder(job.orders[p], Lots(job.fills, p)
                                                        + Lots(NewFills(job.snapshot), p))
        <5>1. PICK p \in Orders :
                   /\ job.orders[p] # None
                   /\ order = FinalOrder(job.orders[p], Lots(job.fills, p)
                                                        + Lots(NewFills(job.snapshot), p))
          BY <4>2
        <5>2. order.order_id = p /\ order.run_id = job.orders[p].run_id
          BY <3>2, <5>1 DEF FinalOrder, OrderRecord
        <5> QED
          BY <3>3, <5>1, <5>2
      <4> QED
        BY <3>3, <4>1, <4>2 DEF OrderRecords
    <3> HIDE DEF records, job, next
    <3>4. \A o \in Orders : recorded_run[o] = None => NotKnown(next, o)
      BY <1>4, <3>1, <3>3 DEF NotKnown
    <3>5. \A o \in Orders : Attributed(o) /\ backend = recorded_run[o].backend =>
            KeepsRun(next, o, recorded_run[o].run_id)
      BY <1>5, <3>1, <3>3 DEF KeepsRun, Attributed
    <3> QED
      BY <3>4, <3>5
  <2> QED
    BY <2>1, <2>2, <2>3
<1>7. UnknownUntilRecorded'
  BY <1>1, <1>3, <1>6 DEF OrderRunInv, UnknownUntilRecorded
<1>8. \A o \in Orders : Attributed(o)' => Attributed(o)
  BY <1>1 DEF Attributed
<1>9. RunsKept'
  BY <1>1, <1>3, <1>6, <1>8 DEF OrderRunInv, RunsKept
<1> QED
  BY <1>1, <1>7, <1>9 DEF OrderRunInv

\* An order that is written keeps the run it was dispatched in.
LEMMA WriteOrderKeepsOrderRuns ==
  ASSUME FilledInv, OrderRunInv, NEW t \in Syncs, WriteOrder(t)
  PROVE  OrderRunInv'
<1> DEFINE job == sync[t]
           next == sync'[t]
<1>1. UNCHANGED <<recorded_run, working_orders, backend>> /\ job.stage = "write"
  BY DEF WriteOrder, Writing, KeepMemory, account_vars
<1>2. backend \in Backends
  BY <1>1 DEF FilledInv, RestOK, NoSync, ProcessOK
<1>3. PICK order \in job.orders :
        /\ store' = [store EXCEPT ![backend] = PutOrder(@, order)]
        /\ sync' = [sync EXCEPT ![t] =
             WriteStage(@.at, @.orders \ {order}, @.fills, @.position)]
  BY DEF WriteOrder
<1>4. order \in OrderRecord /\ order.order_id \in Orders /\ order # None
  <2>1. GoodOrder(order, fills)
    BY <1>1, <1>3 DEF FilledInv, SyncsOK, SyncOK, WriteOK, NoSync
  <2> QED
    BY <2>1, NoneAssumption DEF GoodOrder, OrderRecord
<1>5. /\ \A u \in Syncs \ {t} : sync'[u] = sync[u]
      /\ next.stage = "idle" \/ (next.stage = "write" /\ next.orders \subseteq job.orders)
  <2>1. /\ \A u \in Syncs \ {t} : sync'[u] = sync[u]
        /\ next = WriteStage(job.at, job.orders \ {order}, job.fills, job.position)
    BY <1>3 DEF FilledInv, SyncsOK
  <2> HIDE DEF next, job
  <2>2. next.stage = "idle" \/ (next.stage = "write" /\ next.orders = job.orders \ {order})
    BY <2>1, WriteStageHolds
  <2> QED
    BY <2>1, <2>2
<1>6. \A b \in Backends, o \in Orders :
        store'[b].orders[o] =
          IF b = backend /\ o = order.order_id THEN order ELSE store[b].orders[o]
  <2>1. \A b \in Backends : DOMAIN store[b].orders = Orders
    BY DEF FilledInv, StoreOK, HistoryOK, OrdersOK
  <2>2. \A b \in Backends :
          store'[b].orders = IF b = backend THEN [store[b].orders EXCEPT ![order.order_id] = order]
                             ELSE store[b].orders
    BY <1>2, <1>3, StoreFields DEF PutOrder, HistoryFields
  <2> QED
    BY <1>4, <2>1, <2>2
<1>7. recorded_run[order.order_id] # None
  BY <1>1, <1>3, <1>4 DEF OrderRunInv, UnknownUntilRecorded, NotKnown
<1>8. \A o \in Orders : Attributed(o) /\ backend = recorded_run[o].backend =>
        KeepsRun(job, o, recorded_run[o].run_id)
  BY DEF OrderRunInv, RunsKept
<1> HIDE DEF job, next
<1>9. \A o \in Orders : \A run_id : KeepsRun(job, o, run_id) => KeepsRun(next, o, run_id)
  BY <1>1, <1>5 DEF KeepsRun
<1>10. UnknownUntilRecorded'
  <2>1. \A o \in Orders : recorded_run[o] = None => NotKnown(job, o)
    BY DEF OrderRunInv, UnknownUntilRecorded, job
  <2>2. \A o \in Orders : recorded_run[o] = None => NotKnown(next, o)
    BY <1>1, <1>5, <2>1 DEF NotKnown
  <2>3. \A b \in Backends, o \in Orders : recorded_run[o] = None => store'[b].orders[o] = None
    BY <1>6, <1>7 DEF OrderRunInv, UnknownUntilRecorded
  <2>4. \A u \in Syncs, o \in Orders : recorded_run[o] = None => NotKnown(sync'[u], o)
    BY <1>5, <2>2 DEF OrderRunInv, UnknownUntilRecorded, next
  <2> QED
    BY <1>1, <2>3, <2>4 DEF OrderRunInv, UnknownUntilRecorded
<1>11. ASSUME NEW o \in Orders, Attributed(o)'
       PROVE  LET recorded == recorded_run'[o]
              IN /\ store'[recorded.backend].orders[o] # None
                 /\ store'[recorded.backend].orders[o].run_id = recorded.run_id
                 /\ backend' = recorded.backend =>
                      \A u \in Syncs : KeepsRun(sync'[u], o, recorded.run_id)
  <2>1. Attributed(o) /\ recorded_run[o].backend \in Backends
    BY <1>1, <1>11 DEF Attributed, Backends
  <2>2. /\ store[recorded_run[o].backend].orders[o] # None
        /\ store[recorded_run[o].backend].orders[o].run_id = recorded_run[o].run_id
    BY <2>1 DEF OrderRunInv, RunsKept
  <2>3. backend = recorded_run[o].backend /\ o = order.order_id =>
          order.run_id = recorded_run[o].run_id
    BY <1>1, <1>3, <1>8, <2>1 DEF KeepsRun, job
  <2>4. backend = recorded_run[o].backend =>
          \A u \in Syncs : KeepsRun(sync'[u], o, recorded_run[o].run_id)
    BY <1>5, <1>8, <1>9, <2>1 DEF OrderRunInv, RunsKept, next
  <2> QED
    BY <1>1, <1>4, <1>6, <2>1, <2>2, <2>3, <2>4
<1>12. RunsKept'
  BY <1>11 DEF RunsKept
<1> QED
  BY <1>1, <1>10, <1>12 DEF OrderRunInv

\* The other writes of a sync change no order.
LEMMA OtherWritesKeepOrderRuns ==
  ASSUME FilledInv, OrderRunInv, NEW t \in Syncs,
         \/ WriteFill(t) \/ WritePosition(t) \/ ReadTrade(t) \/ WriteTrade(t) \/ WriteFails(t)
  PROVE  OrderRunInv'
<1>1. UNCHANGED <<recorded_run, working_orders, backend>>
  BY DEF WriteFill, WritePosition, ReadTrade, WriteTrade, WriteFails, KeepMemory, account_vars
<1>2. backend \in Backends
  BY DEF WriteFill, WritePosition, ReadTrade, WriteTrade, WriteFails, Writing, FilledInv, RestOK,
     NoSync, ProcessOK
<1>3. \A b \in Backends, o \in Orders : store'[b].orders[o] = store[b].orders[o]
  <2>1. CASE UNCHANGED store
    BY <2>1
  <2>2. CASE WriteFill(t)
    BY <1>2, <2>2, StoreFields DEF WriteFill, HistoryFields
  <2>3. CASE WritePosition(t)
    <3>1. PICK x, y : store' = [store EXCEPT ![backend] = PutPosition(@, x, y)]
      BY <2>3 DEF WritePosition
    <3> QED
      BY <1>2, <3>1, StoreFields DEF PutPosition, HistoryFields
  <2>4. CASE WriteTrade(t)
    <3>1. PICK x, y : store' = [store EXCEPT ![backend] = PutTrade(@, x, y)]
      BY <2>4 DEF WriteTrade
    <3> QED
      BY <1>2, <3>1, StoreFields DEF PutTrade, HistoryFields
  <2> QED
    BY <2>1, <2>2, <2>3, <2>4 DEF ReadTrade, WriteFails
<1>4. HoldsNoOrder(sync'[t]) /\ \A u \in Syncs \ {t} : sync'[u] = sync[u]
  <2>1. CASE WriteFill(t)
    BY <2>1 DEF WriteFill, WriteStage, NoSync, HoldsNoOrder, FilledInv, SyncsOK
  <2>2. CASE WritePosition(t) \/ WriteTrade(t) \/ WriteFails(t)
    BY <2>2 DEF WritePosition, WriteTrade, WriteFails, NoSync, HoldsNoOrder, FilledInv, SyncsOK
  <2>3. CASE ReadTrade(t)
    <3>1. PICK next \in TradeWrites(store[backend].trades, sync[t].position) :
            sync' = [sync EXCEPT ![t] = next]
      BY <2>3 DEF ReadTrade
    <3>2. next.stage \in {"idle", "trade_write"}
      BY <3>1 DEF TradeWrites, TradeWrite, NoSync
    <3> QED
      BY <3>1, <3>2 DEF HoldsNoOrder, FilledInv, SyncsOK
  <2> QED
    BY <2>1, <2>2, <2>3
<1> QED
  BY <1>1, <1>3, <1>4, OrdersUntouched DEF OrderRunInv, UnknownUntilRecorded

\* Every step keeps the invariant of part four.
LEMMA NextKeepsOrderRuns == FilledInv /\ OrderRunInv /\ [Next]_vars => OrderRunInv'
<1> SUFFICES ASSUME FilledInv, OrderRunInv, [Next]_vars PROVE OrderRunInv'
  OBVIOUS
<1> QED
  BY RunStepsKeepOrderRuns, ReportsKeepOrderRuns, DispatchKeepsOrderRuns, SyncReadsKeepOrderRuns,
     WriteOrderKeepsOrderRuns, OtherWritesKeepOrderRuns DEF Next

\* Whatever run is the current one when an order's later states are recorded, and
\* however the syncs that record them interleave with its dispatch, the order stays
\* one of the run that placed it.
THEOREM OrdersKeepTheirRun == Spec => []OrderKeepsItsRun
<1>1. OrderRunInv => OrderKeepsItsRun
  BY DEF OrderRunInv, RunsKept, Attributed, OrderKeepsItsRun
<1> QED
  BY <1>1, InitFilledInv, NextKeepsFilledInv, InitOrderRunInv, NextKeepsOrderRuns, PTL DEF Spec

-----------------------------------------------------------------------------
\* Part five: the position and its open trade.
Tracked(shown, lots, trades) ==
  /\ shown = lots
  /\ IF lots = 0 THEN OpenTrades(trades) = {}
     ELSE \E i \in DOMAIN trades : /\ OpenTrades(trades) = {i}
                                   /\ trades[i].side = Side(lots)
                                   /\ trades[i].quantity = Magnitude(lots)

\* A write that is about to be made of a trade is the one its position calls for.
RightTrade(job, lots, trades) ==
  \/ /\ job.index = 0 /\ OpenTrades(trades) = {} /\ lots # 0 /\ job.position = None
     /\ job.trade = [side |-> Side(lots), quantity |-> Magnitude(lots), status |-> "Open"]
  \/ /\ job.index \in OpenTrades(trades) /\ lots # 0 /\ job.position = None
     /\ job.trade = [side |-> Side(lots), quantity |-> Magnitude(lots), status |-> "Open"]
  \/ /\ job.index \in OpenTrades(trades)
     /\ job.trade.status = "Closed"
     /\ job.position = IF lots = 0 THEN None ELSE lots

\* What a sync still has to do to the position and its trade, when the projection
\* shows a position and `lots` was the last one noted.
TaskTracks(job, shown, lots, synced, trades) ==
  /\ job.stage \in {"snapshot", "history"} /\ synced # None => Tracked(shown, lots, trades)
  /\ job.stage = "write" /\ job.position = None /\ synced # None => Tracked(shown, lots, trades)
  /\ job.stage = "write" /\ job.position # None => job.position = lots
  /\ job.stage = "trade" => job.position = lots /\ shown = lots
  /\ job.stage = "trade_write" => shown = lots /\ RightTrade(job, lots, trades)

OneOpenTrade(trades) == \A i, j \in OpenTrades(trades) : i = j
Alone(t) == \A u \in Syncs \ {t} : sync[u] = NoSync

PositionInv ==
  serial =>
    /\ \A t \in Syncs : sync[t] # NoSync => Alone(t)
    /\ \A b \in Backends : OneOpenTrade(store[b].trades)
    /\ last_position \in Int
    /\ backend = None => synced_position = None
    /\ backend # None =>
         /\ \A t \in Syncs : TaskTracks(sync[t], open_position, last_position, synced_position,
                                        store[backend].trades)
         /\ Idle /\ synced_position # None =>
              Tracked(open_position, last_position, store[backend].trades)

\* There is neither a position nor a trade at first.
LEMMA InitPositionInv == Init => PositionInv
BY DEF Init, PositionInv, EmptyHistory, OneOpenTrade, OpenTrades, NoSync

\* The steps of everything but the syncs.
LEMMA PositionUntouched ==
  ASSUME FilledInv, PositionInv, serial' = serial,
         UNCHANGED <<sync, backend, open_position, last_position, synced_position>>,
         \A b \in Backends : store'[b].trades = store[b].trades
  PROVE  PositionInv'
<1> SUFFICES ASSUME serial
             PROVE  PositionInv'
  BY DEF PositionInv
<1>1. \A t \in Syncs : sync'[t] # NoSync => Alone(t)'
  BY DEF PositionInv, Alone
<1>2. \A b \in Backends : OneOpenTrade(store'[b].trades)
  BY DEF PositionInv
<1>3. backend # None => store'[backend].trades = store[backend].trades
  BY DEF FilledInv, ProcessOK
<1>4. Idle' <=> Idle
  BY DEF Idle
<1> QED
  BY <1>1, <1>2, <1>3, <1>4 DEF PositionInv

\* Recording a run or an order leaves every trade alone.
LEMMA TradesUntouched ==
  ASSUME FilledInv,
         \/ Crash \/ Shutdown
         \/ \E strategy \in Strategies, mode \in Modes : LoadStrategy(strategy, mode)
         \/ \E mode \in Modes : RecordModeChange(mode)
         \/ \E status \in {"Active", "Paused", "Failed"} : RecordRunStatus(status)
         \/ \E o \in Orders : Dispatch(o)
  PROVE  \A b \in Backends : store'[b].trades = store[b].trades
<1>1. backend \in Backends
  BY DEF Crash, Shutdown, LoadStrategy, RecordModeChange, RecordRunStatus, Dispatch, FilledInv,
     ProcessOK
<1>2. \A history : DOMAIN history = HistoryFields =>
        /\ \A run : /\ PutRun(history, run).trades = history.trades
                    /\ DOMAIN PutRun(history, run) = HistoryFields
        /\ \A order : PutOrder(history, order).trades = history.trades
  BY DEF PutRun, PutOrder, HistoryFields
<1>3. \/ store' = store
      \/ \E history : /\ store' = [store EXCEPT ![backend] = history]
                     /\ history.trades = store[backend].trades
  <2>1. CASE Crash \/ Shutdown
    BY <1>1, <1>2, <2>1, StoreFields DEF Crash, Shutdown
  <2>2. CASE \E strategy \in Strategies, mode \in Modes : LoadStrategy(strategy, mode)
    <3>1. PICK strategy \in Strategies, mode \in Modes : LoadStrategy(strategy, mode)
      BY <2>2
    <3> DEFINE closed == IF current_run = None THEN store[backend]
                         ELSE PutRun(store[backend], RunRecord(current_run, "Cancelled", now'))
    <3>2. closed.trades = store[backend].trades /\ DOMAIN closed = HistoryFields
      BY <1>1, <1>2, StoreFields
    <3> HIDE DEF closed
    <3>3. \A run : PutRun(closed, run).trades = closed.trades
      BY <1>2, <3>2
    <3>4. \/ store' = store
          \/ store' = [store EXCEPT ![backend] = closed]
          \/ \E run : store' = [store EXCEPT ![backend] = PutRun(closed, run)]
      BY <3>1 DEF LoadStrategy, closed
    <3> QED
      BY <3>2, <3>3, <3>4
  <2>3. CASE \E mode \in Modes : RecordModeChange(mode)
    BY <1>1, <1>2, <2>3, StoreFields DEF RecordModeChange, RecordRun
  <2>4. CASE \E status \in {"Active", "Paused", "Failed"} : RecordRunStatus(status)
    BY <1>1, <1>2, <2>4, StoreFields DEF RecordRunStatus, RecordRun
  <2>5. CASE \E o \in Orders : Dispatch(o)
    <3>1. store' = store \/ \E order : store' = [store EXCEPT ![backend] = PutOrder(@, order)]
      BY <2>5 DEF Dispatch
    <3> QED
      BY <1>1, <1>2, <3>1, StoreFields
  <2> QED
    BY <2>1, <2>2, <2>3, <2>4, <2>5
<1> QED
  BY <1>1, <1>3, StoreFields

\* Runs, dispatches and reports of orders leave position and trades alone.
LEMMA RecordsKeepPosition ==
  ASSUME FilledInv, PositionInv,
         \/ \E strategy \in Strategies, mode \in Modes : LoadStrategy(strategy, mode)
         \/ \E mode \in Modes : RecordModeChange(mode)
         \/ \E status \in {"Active", "Paused", "Failed"} : RecordRunStatus(status)
         \/ \E o \in Orders : Dispatch(o) \/ ReportFill(o) \/ ReportWorking(o) \/ ReportEnd(o)
         \/ \E lots \in Positions : ReportPosition(lots)
         \/ UNCHANGED vars
  PROVE  PositionInv'
<1>1. /\ serial' = serial
      /\ UNCHANGED <<sync, backend, open_position, last_position, synced_position>>
  BY DEF LoadStrategy, RecordModeChange, RecordRunStatus, Dispatch, ReportFill, ReportWorking,
     ReportEnd, ReportPosition, KeepSyncs, KeepProcess, sync_vars, recorder_vars, history_vars, vars
<1>2. \A b \in Backends : store'[b].trades = store[b].trades
  BY TradesUntouched DEF ReportFill, ReportWorking, ReportEnd, ReportPosition, KeepProcess, vars
<1> QED
  BY <1>1, <1>2, PositionUntouched

\* A process that ended has synced nothing.
LEMMA EndsKeepPosition ==
  ASSUME FilledInv, PositionInv, Crash \/ Shutdown
  PROVE  PositionInv'
<1>1. Forgotten /\ serial' = serial
  BY DEF Crash, Shutdown
<1>2. \A b \in Backends : store'[b].trades = store[b].trades
  BY TradesUntouched
<1>3. \A t \in Syncs : sync'[t] = NoSync
  BY <1>1 DEF Forgotten
<1> QED
  BY <1>1, <1>2, <1>3 DEF Forgotten, PositionInv

\* Nor has one that starts, whatever trades its backend holds.
LEMMA StartKeepsPosition ==
  ASSUME FilledInv, PositionInv, Start
  PROVE  PositionInv'
<1>1. /\ backend = None
      /\ store' = [store EXCEPT !["InMemory"] = EmptyHistory]
      /\ UNCHANGED <<sync, last_position, serial, synced_position>>
  BY DEF Start, recorder_vars, history_vars
<1>2. \A t \in Syncs : sync'[t] = NoSync
  BY <1>1 DEF FilledInv, RestOK
<1>3. OneOpenTrade(EmptyHistory.trades)
  BY DEF EmptyHistory, OneOpenTrade, OpenTrades
<1>4. serial => \A b \in Backends : OneOpenTrade(store'[b].trades)
  BY <1>1, <1>3, StoreFields DEF PositionInv
<1>5. \A shown, lots, synced, trades : TaskTracks(NoSync, shown, lots, synced, trades)
  BY DEF TaskTracks, NoSync
<1> QED
  BY <1>1, <1>2, <1>4, <1>5 DEF PositionInv

\* One task syncs, the others rest: what it does decides.
LEMMA OneTaskKeepsPosition ==
  ASSUME FilledInv, PositionInv, serial, backend # None, UNCHANGED backend,
         NEW t \in Syncs, Alone(t), DOMAIN sync' = Syncs,
         \A u \in Syncs \ {t} : sync'[u] = sync[u],
         \A b \in Backends \ {backend} : store'[b].trades = store[b].trades,
         OneOpenTrade(store'[backend].trades), last_position' \in Int,
         TaskTracks(sync'[t], open_position', last_position', synced_position',
                    store'[backend].trades),
         sync'[t] = NoSync /\ synced_position' # None =>
           Tracked(open_position', last_position', store'[backend].trades)
  PROVE  PositionInv'
<1>1. \A u \in Syncs \ {t} : sync'[u] = NoSync
  BY DEF Alone
<1>2. \A u \in Syncs : sync'[u] # NoSync => Alone(u)'
  BY <1>1 DEF Alone
<1>3. \A shown, lots, synced, trades : TaskTracks(NoSync, shown, lots, synced, trades)
  BY DEF TaskTracks, NoSync
<1>4. \A b \in Backends : OneOpenTrade(store'[b].trades)
  BY DEF PositionInv
<1>5. \A u \in Syncs : TaskTracks(sync'[u], open_position', last_position', synced_position',
                                  store'[backend].trades)
  BY <1>1, <1>3
<1>6. Idle' => sync'[t] = NoSync
  BY DEF Idle
<1> QED
  BY <1>2, <1>4, <1>5, <1>6 DEF PositionInv

\* The trades that are open after one is appended, replaced or closed.
LEMMA OpenTradesAfterPut ==
  ASSUME NEW trades \in Seq(TradeSummary), NEW trade \in TradeSummary
  PROVE  /\ OpenTrades(trades) = {} /\ trade.status = "Open" =>
              /\ OpenTrades(Append(trades, trade)) = {Len(trades) + 1}
              /\ Len(trades) + 1 \in DOMAIN Append(trades, trade)
              /\ Append(trades, trade)[Len(trades) + 1] = trade
         /\ \A i \in OpenTrades(trades) : OneOpenTrade(trades) =>
              /\ i # 0
              /\ [trades EXCEPT ![i] = trade][i] = trade
              /\ i \in DOMAIN [trades EXCEPT ![i] = trade]
              /\ trade.status = "Open" => OpenTrades([trades EXCEPT ![i] = trade]) = {i}
              /\ trade.status = "Closed" => OpenTrades([trades EXCEPT ![i] = trade]) = {}
<1>1. ASSUME OpenTrades(trades) = {}, trade.status = "Open"
      PROVE  /\ OpenTrades(Append(trades, trade)) = {Len(trades) + 1}
             /\ Len(trades) + 1 \in DOMAIN Append(trades, trade)
             /\ Append(trades, trade)[Len(trades) + 1] = trade
  <2> DEFINE longer == Append(trades, trade)
  <2>1. /\ longer \in Seq(TradeSummary)
        /\ Len(longer) = Len(trades) + 1
        /\ \A i \in 1..Len(trades) : longer[i] = trades[i]
        /\ longer[Len(trades) + 1] = trade
    BY AppendProperties
  <2> HIDE DEF longer
  <2>2. /\ DOMAIN longer = 1..(Len(trades) + 1)
        /\ DOMAIN trades = 1..Len(trades)
        /\ Len(trades) \in Nat
    BY <2>1
  <2>3. \A i \in DOMAIN longer : longer[i].status = "Open" <=> i = Len(trades) + 1
    BY <1>1, <2>1, <2>2 DEF OpenTrades
  <2>4. OpenTrades(longer) = {Len(trades) + 1}
    BY <2>2, <2>3 DEF OpenTrades
  <2> QED
    BY <2>1, <2>2, <2>4 DEF longer
<1>2. ASSUME NEW i \in OpenTrades(trades), OneOpenTrade(trades)
      PROVE  /\ i # 0
             /\ [trades EXCEPT ![i] = trade][i] = trade
             /\ i \in DOMAIN [trades EXCEPT ![i] = trade]
             /\ trade.status = "Open" => OpenTrades([trades EXCEPT ![i] = trade]) = {i}
             /\ trade.status = "Closed" => OpenTrades([trades EXCEPT ![i] = trade]) = {}
  <2>1. i \in DOMAIN trades /\ DOMAIN trades = 1..Len(trades)
    BY DEF OpenTrades
  <2> DEFINE changed == [trades EXCEPT ![i] = trade]
  <2>2. /\ DOMAIN changed = DOMAIN trades
        /\ changed[i] = trade
        /\ \A j \in DOMAIN trades \ {i} : changed[j] = trades[j]
    BY <2>1
  <2> HIDE DEF changed
  <2>3. \A j \in DOMAIN trades \ {i} : trades[j].status # "Open"
    BY <1>2 DEF OneOpenTrade, OpenTrades
  <2>4. trade.status = "Open" => OpenTrades(changed) = {i}
    BY <2>1, <2>2, <2>3 DEF OpenTrades
  <2>5. trade.status = "Closed" => OpenTrades(changed) = {}
    BY <2>1, <2>2, <2>3 DEF OpenTrades
  <2>6. i # 0
    <3>1. Len(trades) \in Nat
      BY <1>2
    <3> QED
      BY <2>1, <3>1
  <2>7. i \in DOMAIN changed
    BY <2>1, <2>2
  <2> QED
    BY <2>2, <2>4, <2>5, <2>6, <2>7 DEF changed
<1> QED
  BY <1>1, <1>2

\* What is known of a task that syncs alone.
LEMMA TaskFacts ==
  ASSUME FilledInv, PositionInv, serial, NEW t \in Syncs, sync[t] # NoSync
  PROVE  /\ backend # None /\ backend \in Backends
         /\ Alone(t)
         /\ OneOpenTrade(store[backend].trades)
         /\ store[backend].trades \in Seq(TradeSummary)
         /\ last_position \in Int
         /\ TaskTracks(sync[t], open_position, last_position, synced_position,
                       store[backend].trades)
BY DEF FilledInv, ProcessOK, RestOK, StoreOK, HistoryOK, PositionInv

\* A sync that begins finds what the one before it left.
LEMMA SnapshotKeepsPosition ==
  ASSUME FilledInv, PositionInv, NEW t \in Syncs, TakeSnapshot(t), serial'
  PROVE  PositionInv'
<1>1. /\ serial /\ Idle /\ backend # None /\ backend \in Backends
      /\ UNCHANGED <<backend, store, open_position, last_position, synced_position>>
      /\ sync' = [sync EXCEPT ![t] = [stage |-> "snapshot", at |-> now, position |-> position,
                    working_orders |-> working_orders, fills |-> fills]]
  BY DEF TakeSnapshot, recorder_vars, Idle, FilledInv, ProcessOK
<1>2. /\ DOMAIN sync' = Syncs
      /\ sync'[t].stage = "snapshot"
      /\ \A u \in Syncs \ {t} : sync'[u] = sync[u]
  BY <1>1 DEF FilledInv, SyncsOK
<1>3. Alone(t)
  BY <1>1 DEF Idle, Alone
<1>4. TaskTracks(sync'[t], open_position, last_position, synced_position, store[backend].trades)
  BY <1>1, <1>2 DEF TaskTracks, PositionInv
<1>5. sync'[t] # NoSync
  BY <1>2 DEF NoSync
<1>6. OneOpenTrade(store[backend].trades) /\ last_position \in Int
  BY <1>1 DEF PositionInv
<1> QED
  BY <1>1, <1>2, <1>3, <1>4, <1>5, <1>6, OneTaskKeepsPosition

\* Reading the history changes nothing that is tracked.
LEMMA HistoryKeepsPosition ==
  ASSUME FilledInv, PositionInv, NEW t \in Syncs, ReadHistory(t), serial'
  PROVE  PositionInv'
<1>1. /\ serial /\ sync[t].stage = "snapshot"
      /\ UNCHANGED <<backend, store, open_position, last_position, synced_position>>
  BY DEF ReadHistory, recorder_vars, history_vars
<1>2. /\ DOMAIN sync' = Syncs
      /\ sync'[t].stage = "history"
      /\ \A u \in Syncs \ {t} : sync'[u] = sync[u]
  BY DEF ReadHistory, FilledInv, SyncsOK
<1>3. sync[t] # NoSync /\ sync'[t] # NoSync
  BY <1>1, <1>2 DEF NoSync
<1>4. TaskTracks(sync'[t], open_position, last_position, synced_position, store[backend].trades)
  BY <1>1, <1>2, <1>3, TaskFacts DEF TaskTracks
<1> QED
  BY <1>1, <1>2, <1>3, <1>4, TaskFacts, OneTaskKeepsPosition

\* Computing the records takes the position of the snapshot over.
LEMMA ComputeKeepsPosition ==
  ASSUME FilledInv, PositionInv, NEW t \in Syncs, ComputeRecords(t), serial'
  PROVE  PositionInv'
<1> DEFINE job == sync[t]
           lots == job.snapshot.position
           next == sync'[t]
<1>1. /\ serial /\ job.stage = "history"
      /\ UNCHANGED <<backend, store, open_position, synced_position>>
      /\ last_position' = lots
  BY DEF ComputeRecords, history_vars
<1>2. /\ DOMAIN sync' = Syncs
      /\ next = WriteStage(job.at, OrderRecords(job), NewFills(job.snapshot), PositionChange(lots))
      /\ \A u \in Syncs \ {t} : sync'[u] = sync[u]
  BY DEF ComputeRecords, FilledInv, SyncsOK
<1>3. lots \in Int
  BY <1>1 DEF FilledInv, SyncsOK, SyncOK, NoSync, SnapshotOK
<1>4. job # NoSync
  BY <1>1 DEF NoSync
<1>5. next = NoSync \/ (next.stage = "write" /\ next.position = PositionChange(lots))
  <2> HIDE DEF job, next
  <2> QED
    BY <1>2 DEF WriteStage
<1>6. CASE lots = last_position
  <2>1. synced_position # None => Tracked(open_position, last_position, store[backend].trades)
    BY <1>1, <1>4, TaskFacts DEF TaskTracks
  <2>2. TaskTracks(next, open_position, lots, synced_position, store[backend].trades)
    BY <1>5, <1>6, <2>1, NoneAssumption DEF TaskTracks, NoSync, PositionChange
  <2> QED
    BY <1>1, <1>2, <1>3, <1>4, <1>6, <2>1, <2>2, TaskFacts, OneTaskKeepsPosition
<1>7. CASE lots # last_position
  <2>1. next # NoSync /\ next.stage = "write" /\ next.position = lots /\ lots # None
    BY <1>2, <1>3, <1>7, NoneAssumption DEF WriteStage, PositionChange, NoSync
  <2>2. TaskTracks(next, open_position, lots, synced_position, store[backend].trades)
    BY <2>1 DEF TaskTracks
  <2> QED
    BY <1>1, <1>2, <1>3, <1>4, <2>1, <2>2, TaskFacts, OneTaskKeepsPosition
<1> QED
  BY <1>6, <1>7

\* Orders, fills and positions are written before the trade is looked at.
LEMMA WritesKeepPosition ==
  ASSUME FilledInv, PositionInv, NEW t \in Syncs,
         WriteOrder(t) \/ WriteFill(t) \/ WritePosition(t), serial'
  PROVE  PositionInv'
<1> DEFINE job == sync[t]
           next == sync'[t]
<1>1. /\ serial /\ job.stage = "write"
      /\ UNCHANGED <<backend, last_position>>
  BY DEF WriteOrder, WriteFill, WritePosition, Writing, KeepMemory, recorder_vars
<1>2. job # NoSync
  BY <1>1 DEF NoSync
<1>3. /\ DOMAIN sync' = Syncs
      /\ \A u \in Syncs \ {t} : sync'[u] = sync[u]
  BY DEF WriteOrder, WriteFill, WritePosition, FilledInv, SyncsOK
<1>4. \A b \in Backends : store'[b].trades = store[b].trades
  <2>1. backend \in Backends
    BY <1>1, <1>2, TaskFacts
  <2>2. \A history : DOMAIN history = HistoryFields =>
          /\ \A order : PutOrder(history, order).trades = history.trades
          /\ \A at, lots : PutPosition(history, at, lots).trades = history.trades
    BY DEF PutOrder, PutPosition, HistoryFields
  <2>3. CASE WriteOrder(t)
    <3>1. PICK order : store' = [store EXCEPT ![backend] = PutOrder(@, order)]
      BY <2>3 DEF WriteOrder
    <3> QED
      BY <2>1, <2>2, <3>1, StoreFields
  <2>4. CASE WriteFill(t)
    BY <2>1, <2>4, StoreFields DEF WriteFill, HistoryFields
  <2>5. CASE WritePosition(t)
    <3>1. PICK x, y : store' = [store EXCEPT ![backend] = PutPosition(@, x, y)]
      BY <2>5 DEF WritePosition
    <3> QED
      BY <2>1, <2>2, <3>1, StoreFields
  <2> QED
    BY <2>3, <2>4, <2>5
<1>5. TaskTracks(job, open_position, last_position, synced_position, store[backend].trades)
  BY <1>1, <1>2, TaskFacts
<1>6. CASE WriteOrder(t) \/ WriteFill(t)
  <2>1. /\ UNCHANGED <<open_position, synced_position>>
        /\ next = NoSync \/ (next.stage = "write" /\ next.position = job.position)
        /\ next = NoSync => job.position = None
    <3>1. \E orders, new_fills : next = WriteStage(job.at, orders, new_fills, job.position)
      BY <1>6 DEF WriteOrder, WriteFill, FilledInv, SyncsOK
    <3>2. PICK orders, new_fills : next = WriteStage(job.at, orders, new_fills, job.position)
      BY <3>1
    <3>3. UNCHANGED <<open_position, synced_position>>
      BY <1>6 DEF WriteOrder, WriteFill
    <3> HIDE DEF next, job
    <3> QED
      BY <3>2, <3>3 DEF WriteStage, NoSync
  <2>2. TaskTracks(next, open_position, last_position, synced_position, store[backend].trades)
    BY <1>1, <1>5, <2>1 DEF TaskTracks, NoSync
  <2>3. next = NoSync /\ synced_position # None =>
          Tracked(open_position, last_position, store[backend].trades)
    BY <1>1, <1>5, <2>1 DEF TaskTracks
  <2> QED
    BY <1>1, <1>2, <1>3, <1>4, <2>1, <2>2, <2>3, TaskFacts, OneTaskKeepsPosition
<1>7. CASE WritePosition(t)
  <2>1. job.position # None
    BY <1>1, <1>7 DEF WritePosition, FilledInv, SyncsOK, SyncOK, WriteOK, NoSync
  <2>2. /\ open_position' = job.position /\ job.position = last_position
        /\ next = [stage |-> "trade", position |-> job.position]
    BY <1>1, <1>5, <1>7, <2>1 DEF WritePosition, TaskTracks, FilledInv, SyncsOK
  <2>3. next # NoSync
    BY <2>2 DEF NoSync
  <2>4. TaskTracks(next, open_position', last_position, synced_position', store[backend].trades)
    BY <2>2 DEF TaskTracks
  <2> QED
    BY <1>1, <1>2, <1>3, <1>4, <2>3, <2>4, TaskFacts, OneTaskKeepsPosition
<1> QED
  BY <1>6, <1>7

\* The trade is read as the task's own writes left it.
LEMMA ReadTradeKeepsPosition ==
  ASSUME FilledInv, PositionInv, NEW t \in Syncs, ReadTrade(t), serial'
  PROVE  PositionInv'
<1> DEFINE job == sync[t]
           next == sync'[t]
           trades == store[backend].trades
           lots == last_position
<1>1. /\ serial /\ job.stage = "trade"
      /\ UNCHANGED <<backend, store, last_position, open_position, synced_position>>
  BY DEF ReadTrade, KeepMemory, recorder_vars
<1>2. job # NoSync
  BY <1>1 DEF NoSync
<1>3. /\ DOMAIN sync' = Syncs
      /\ \A u \in Syncs \ {t} : sync'[u] = sync[u]
      /\ next \in TradeWrites(trades, job.position)
  BY DEF ReadTrade, FilledInv, SyncsOK
<1>4. job.position = lots /\ open_position = lots /\ lots \in Int
  BY <1>1, <1>2, TaskFacts DEF TaskTracks
<1> HIDE DEF job, next, trades, lots
<1>5. CASE OpenTrades(trades) = {} /\ lots = 0
  <2>1. next = NoSync
    BY <1>3, <1>4, <1>5 DEF TradeWrites
  <2>2. Tracked(open_position, lots, trades)
    BY <1>4, <1>5 DEF Tracked
  <2>3. TaskTracks(next, open_position, lots, synced_position, trades)
    BY <2>1 DEF TaskTracks, NoSync
  <2> QED
    BY <1>1, <1>2, <1>3, <2>2, <2>3, TaskFacts, OneTaskKeepsPosition DEF job, next, trades, lots
<1>6. CASE ~ (OpenTrades(trades) = {} /\ lots = 0)
  <2>1. next.stage = "trade_write" /\ RightTrade(next, lots, trades)
    <3>1. CASE OpenTrades(trades) = {}
      <4>1. next = TradeWrite(0, Side(lots), Magnitude(lots), "Open", None) /\ lots # 0
        BY <1>3, <1>4, <1>6, <3>1 DEF TradeWrites
      <4> QED
        BY <3>1, <4>1 DEF TradeWrite, RightTrade
    <3>2. CASE OpenTrades(trades) # {}
      <4>1. PICK i \in OpenTrades(trades) :
              next = IF lots # 0 /\ trades[i].side = Side(lots)
                     THEN TradeWrite(i, trades[i].side, Magnitude(lots), "Open", None)
                     ELSE TradeWrite(i, trades[i].side, trades[i].quantity, "Closed",
                                     IF lots = 0 THEN None ELSE lots)
        BY <1>3, <1>4, <3>2 DEF TradeWrites
      <4>2. CASE lots # 0 /\ trades[i].side = Side(lots)
        BY <4>1, <4>2 DEF TradeWrite, RightTrade
      <4>3. CASE ~ (lots # 0 /\ trades[i].side = Side(lots))
        BY <4>1, <4>3 DEF TradeWrite, RightTrade
      <4> QED
        BY <4>2, <4>3
    <3> QED
      BY <3>1, <3>2
  <2>2. next # NoSync
    BY <2>1 DEF NoSync
  <2>3. TaskTracks(next, open_position, lots, synced_position, trades)
    BY <1>4, <2>1 DEF TaskTracks
  <2> QED
    BY <1>1, <1>2, <1>3, <2>2, <2>3, TaskFacts, OneTaskKeepsPosition DEF job, next, trades, lots
<1> QED
  BY <1>5, <1>6

\* Writing the trade brings it in step with the position.
LEMMA WriteTradeKeepsPosition ==
  ASSUME FilledInv, PositionInv, NEW t \in Syncs, WriteTrade(t), serial'
  PROVE  PositionInv'
<1> DEFINE job == sync[t]
           next == sync'[t]
           trades == store[backend].trades
           after == store'[backend].trades
           lots == last_position
<1>1. /\ serial /\ job.stage = "trade_write"
      /\ UNCHANGED <<backend, last_position, open_position, synced_position>>
  BY DEF WriteTrade, KeepMemory, recorder_vars
<1>2. job # NoSync
  BY <1>1 DEF NoSync
<1>3. /\ DOMAIN sync' = Syncs
      /\ \A u \in Syncs \ {t} : sync'[u] = sync[u]
      /\ next = IF job.position = None THEN NoSync
                ELSE [stage |-> "trade", position |-> job.position]
  BY DEF WriteTrade, FilledInv, SyncsOK
<1>4. /\ open_position = lots /\ lots \in Int /\ RightTrade(job, lots, trades)
      /\ OneOpenTrade(trades) /\ trades \in Seq(TradeSummary) /\ backend \in Backends
  BY <1>1, <1>2, TaskFacts DEF TaskTracks
<1>5. job.trade \in TradeSummary
  BY <1>1 DEF FilledInv, SyncsOK, SyncOK, NoSync
<1>6. /\ \A b \in Backends \ {backend} : store'[b].trades = store[b].trades
      /\ after = IF job.index = 0 THEN Append(trades, job.trade)
                 ELSE [trades EXCEPT ![job.index] = job.trade]
  BY <1>4, StoreFields DEF WriteTrade, PutTrade, HistoryFields
<1> HIDE DEF job, next, trades, after, lots
<1>7. CASE /\ lots # 0 /\ job.position = None
           /\ job.trade = [side |-> Side(lots), quantity |-> Magnitude(lots), status |-> "Open"]
           /\ job.index \in OpenTrades(trades) \/ (job.index = 0 /\ OpenTrades(trades) = {})
  <2>1. /\ job.trade.status = "Open" /\ job.trade.side = Side(lots)
        /\ job.trade.quantity = Magnitude(lots)
    BY <1>7
  <2>2. \E i \in DOMAIN after : OpenTrades(after) = {i} /\ after[i] = job.trade
    <3>1. CASE job.index \in OpenTrades(trades)
      BY <1>4, <1>5, <1>6, <2>1, <3>1, OpenTradesAfterPut
    <3>2. CASE job.index = 0 /\ OpenTrades(trades) = {}
      BY <1>4, <1>5, <1>6, <2>1, <3>2, OpenTradesAfterPut
    <3> QED
      BY <1>7, <3>1, <3>2
  <2>3. OneOpenTrade(after) /\ Tracked(open_position, lots, after)
    BY <1>4, <1>7, <2>1, <2>2 DEF OneOpenTrade, Tracked
  <2>4. next = NoSync
    BY <1>3, <1>7
  <2>5. TaskTracks(next, open_position, lots, synced_position, after)
    BY <2>4 DEF TaskTracks, NoSync
  <2> QED
    BY <1>1, <1>2, <1>3, <1>4, <1>6, <2>3, <2>5, TaskFacts, OneTaskKeepsPosition
    DEF job, next, trades, after, lots
<1>8. CASE /\ job.index \in OpenTrades(trades)
           /\ job.trade.status = "Closed"
           /\ job.position = IF lots = 0 THEN None ELSE lots
  <2>1. OpenTrades(after) = {}
    BY <1>4, <1>5, <1>6, <1>8, OpenTradesAfterPut
  <2>2. OneOpenTrade(after) /\ (lots = 0 => Tracked(open_position, lots, after))
    BY <1>4, <2>1 DEF OneOpenTrade, Tracked
  <2>3. lots # 0 => next.stage = "trade" /\ next.position = lots
    BY <1>3, <1>4, <1>8, NoneAssumption
  <2>4. lots = 0 => next = NoSync
    BY <1>3, <1>8
  <2>5. TaskTracks(next, open_position, lots, synced_position, after)
    BY <1>4, <2>3, <2>4 DEF TaskTracks, NoSync
  <2>6. next = NoSync => lots = 0
    BY <2>3 DEF NoSync
  <2> QED
    BY <1>1, <1>2, <1>3, <1>4, <1>6, <2>2, <2>5, <2>6, TaskFacts, OneTaskKeepsPosition
    DEF job, next, trades, after, lots
<1> QED
  BY <1>4, <1>7, <1>8 DEF RightTrade

\* Every step keeps the invariant of part five.
LEMMA NextKeepsPosition == FilledInv /\ PositionInv /\ [Next]_vars => PositionInv'
<1> SUFFICES ASSUME FilledInv, PositionInv, [Next]_vars PROVE PositionInv'
  OBVIOUS
<1>1. CASE Crash \/ Shutdown
  BY <1>1, EndsKeepPosition
<1>2. CASE Start
  BY <1>2, StartKeepsPosition
<1>3. CASE ~serial'
  BY <1>3 DEF PositionInv
<1>4. CASE serial' /\ \E t \in Syncs : \/ TakeSnapshot(t) \/ ReadHistory(t) \/ ComputeRecords(t)
                                       \/ WriteOrder(t) \/ WriteFill(t) \/ WritePosition(t)
                                       \/ ReadTrade(t) \/ WriteTrade(t)
  BY <1>4, SnapshotKeepsPosition, HistoryKeepsPosition, ComputeKeepsPosition, WritesKeepPosition,
     ReadTradeKeepsPosition, WriteTradeKeepsPosition
<1>5. CASE \E t \in Syncs : WriteFails(t)
  BY <1>3, <1>5 DEF WriteFails
<1> QED
  BY <1>1, <1>2, <1>3, <1>4, <1>5, RecordsKeepPosition DEF Next

\* While no two syncs overlap and no write of one fails, a start that syncs at all
\* ends every sync with the position it saw shown, and one open trade of its side
\* and size, whatever trades a process killed halfway left behind.
THEOREM SerialSyncsTrack == Spec => []SerialSyncTracksPosition
<1>1. FilledInv /\ PositionInv => SerialSyncTracksPosition
  BY DEF PositionInv, Tracked, SerialSyncTracksPosition
<1> QED
  BY <1>1, InitFilledInv, NextKeepsFilledInv, InitPositionInv, NextKeepsPosition, PTL DEF Spec

-----------------------------------------------------------------------------
\* Part six: what is stored, and what is published of it.

EventSet == {EventFields(action, at) : action \in DOMAIN Rank, at \in Nat}
LatencySet == {[id |-> at, at |-> at] : at \in Nat}
Snapshots == [at : Nat, errors : Nat, reading : BOOLEAN]
Signatures == [errors : Nat, reading : BOOLEAN]

\* What the rows of a table are made of.
FieldSet(kind) ==
  IF kind = "event" THEN EventSet ELSE IF kind = "latency" THEN LatencySet ELSE Snapshots
RowSet(kind) == {Row(nth, fields) : nth \in Nat, fields \in FieldSet(kind)}

HasRow(rows, fields) == \E row \in rows : \A field \in DOMAIN fields : row[field] = fields[field]

\* Rows are numbered as they arrive.  Only health, and memory, have two of one identifier.
\* One row of a table arrived last, and one is listed last.
Numbered(rows) ==
  /\ \A r, s \in rows : r.nth = s.nth => r = s
  /\ rows # {} => \E newest \in rows : \A r \in rows : r.nth <= newest.nth
Keyed(rows) == \A r, s \in rows : r.id = s.id => r = s
ListedLast(b, kind, rows, last) ==
  \A other \in rows : other = last \/ ListedFirst(b, kind, other, last)

TableOK(b, kind, rows) ==
  /\ IsFiniteSet(rows) /\ rows \subseteq RowSet(kind)
  /\ Numbered(rows)
  /\ Durable(b) /\ kind # "health" => Keyed(rows)
  /\ rows # {} => \E last \in rows : ListedLast(b, kind, rows, last)

TablesOK ==
  /\ DOMAIN tables = Backends
  /\ \A b \in Backends : /\ DOMAIN tables[b] = Tables
                         /\ \A kind \in Tables : TableOK(b, kind, tables[b][kind])

DispatchStages ==
  {Free, [stage |-> "history"]} \cup [stage : {"broker"}, started : Nat]
    \cup [stage : {"latency"}, started : Nat, finished : Nat]

RecordsTyped ==
  /\ clock \in Nat
  /\ backend \in Backends \cup {None}
  /\ reporter \in [Reporters -> EventSet \cup {None}]
  /\ dispatching \in DispatchStages
  /\ sample \in [Samplers -> [at : Nat, reading : BOOLEAN] \cup {None}]
  /\ health \in [error_count : Nat, latest : Signatures \cup {None}]
  /\ backend = None => /\ reporter = [r \in Reporters |-> None]
                       /\ dispatching = Free
                       /\ sample = [s \in Samplers |-> None]

\* A publication that allows arming is on a backend that lasts; health is stored anyhow.
IsKept(p) ==
  /\ p.kind \in Tables /\ p.backend \in Backends
  /\ p.armable => Durable(p.backend)
  /\ p.kind = "health" => p.fields \in Signatures
  /\ p.kind # "health" => p.fields \in FieldSet(p.kind)
  /\ Durable(p.backend) /\ (p.armable \/ p.kind = "health") =>
       HasRow(tables[p.backend][p.kind], p.fields)

PublishedKept == \A p \in published : IsKept(p)

RecordsInv == RecordsTyped /\ TablesOK /\ PublishedKept

\* The fields of a row are those it was made of and its number.
LEMMA RowFields ==
  ASSUME NEW kind \in Tables, NEW fields \in FieldSet(kind), NEW nth \in Nat
  PROVE  /\ Row(nth, fields).nth = nth
         /\ \A field \in DOMAIN fields : Row(nth, fields)[field] = fields[field]
         /\ kind # "health" => "id" \in DOMAIN fields
         /\ kind = "health" => fields \in Snapshots /\ DOMAIN fields = {"at", "errors", "reading"}
         /\ Row(nth, fields) \in RowSet(kind)
<1>1. "nth" \notin DOMAIN fields
  BY DEF FieldSet, EventSet, EventFields, LatencySet, Snapshots
<1>2. kind # "health" => "id" \in DOMAIN fields
  BY DEF FieldSet, EventSet, EventFields, LatencySet, Tables
<1>3. kind = "health" => fields \in Snapshots /\ DOMAIN fields = {"at", "errors", "reading"}
  BY DEF FieldSet, Snapshots
<1>4. Row(nth, fields) \in RowSet(kind)
  BY DEF RowSet
<1> QED BY <1>1, <1>2, <1>3, <1>4 DEF Row

\* The rows of snapshots.
LEMMA SnapshotRows ==
  ASSUME NEW row \in RowSet("health")
  PROVE  row.nth \in Nat /\ row.at \in Nat /\ row.errors \in Nat /\ row.reading \in BOOLEAN
<1>1. PICK n \in Nat, f \in Snapshots : row = Row(n, f)
  BY DEF RowSet, FieldSet
<1> QED BY <1>1 DEF Row, Snapshots

\* An identifier says all there is to a record (host_event_id).
LEMMA IdIsRecord ==
  ASSUME NEW kind \in {"event", "latency"}, NEW f \in FieldSet(kind), NEW g \in FieldSet(kind),
         f.id = g.id
  PROVE  f = g
<1>1. CASE kind = "latency"
  BY <1>1 DEF FieldSet, LatencySet
<1>2. CASE kind = "event"
  <2>1. PICK a \in DOMAIN Rank, t \in Nat : f = EventFields(a, t)
    BY <1>2 DEF FieldSet, EventSet
  <2>2. PICK b \in DOMAIN Rank, u \in Nat : g = EventFields(b, u)
    BY <1>2 DEF FieldSet, EventSet
  <2>3. 10 * t + Rank[a] = 10 * u + Rank[b]
    BY <2>1, <2>2 DEF EventFields, EventId
  <2>4. Rank[a] \in 0..3 /\ Rank[b] \in 0..3 /\ (Rank[a] = Rank[b] => a = b)
    BY DEF Rank
  <2>5. t = u /\ Rank[a] = Rank[b]
    BY <2>3, <2>4
  <2> QED BY <2>1, <2>2, <2>4, <2>5
<1> QED BY <1>1, <1>2

\* The rows of events and latencies.
LEMMA RecordRows ==
  ASSUME NEW kind \in {"event", "latency"}, NEW row \in RowSet(kind)
  PROVE  /\ row.nth \in Nat /\ row.at \in Nat /\ row.id \in Nat
         /\ kind = "latency" => row.at = row.id
<1>1. PICK n \in Nat, f \in FieldSet(kind) : row = Row(n, f)
  BY DEF RowSet
<1>2. CASE kind = "latency"
  BY <1>1, <1>2 DEF Row, FieldSet, LatencySet
<1>3. CASE kind = "event"
  <2>1. PICK action \in DOMAIN Rank, at \in Nat : f = EventFields(action, at)
    BY <1>1, <1>3 DEF FieldSet, EventSet
  <2>2. f.id \in Nat /\ f.at \in Nat /\ DOMAIN f = {"id", "at", "action"}
    BY <2>1 DEF EventFields, EventId, Rank
  <2> QED BY <1>1, <1>3, <2>2 DEF Row
<1> QED BY <1>2, <1>3

\* Rows of one identifier are of one time.
LEMMA IdHasTime ==
  ASSUME NEW kind \in {"event", "latency"}, NEW r \in RowSet(kind), NEW s \in RowSet(kind),
         r.id = s.id
  PROVE  r.at = s.at
<1>1. PICK n \in Nat, f \in FieldSet(kind) : r = Row(n, f)
  BY DEF RowSet
<1>2. PICK m \in Nat, g \in FieldSet(kind) : s = Row(m, g)
  BY DEF RowSet
<1>3. /\ {"id", "at"} \subseteq DOMAIN f /\ {"id", "at"} \subseteq DOMAIN g
  BY DEF FieldSet, EventSet, EventFields, LatencySet
<1>4. r.id = f.id /\ s.id = g.id /\ r.at = f.at /\ s.at = g.at
  BY <1>1, <1>2, <1>3, RowFields DEF Tables
<1> QED BY <1>4, IdIsRecord

\* The next number is new.
LEMMA NextNthIsNew ==
  ASSUME NEW rows, Numbered(rows), \A r \in rows : r.nth \in Nat
  PROVE  NextNth(rows) \in Nat /\ \A r \in rows : r.nth < NextNth(rows)
<1>1. CASE rows = {}
  BY <1>1 DEF NextNth
<1>2. CASE rows # {}
  <2> DEFINE numbers == {row.nth : row \in rows}
  <2>1. PICK newest \in rows : \A r \in rows : r.nth <= newest.nth
    BY <1>2 DEF Numbered
  <2>2. newest.nth \in numbers /\ \A n \in numbers : newest.nth >= n
    BY <2>1
  <2>3. Max(numbers) \in numbers /\ \A n \in numbers : Max(numbers) >= n
    BY <2>2 DEF Max
  <2>4. PICK max : max = Max(numbers)
    OBVIOUS
  <2>5. max \in Nat /\ \A r \in rows : max >= r.nth
    BY <2>3, <2>4
  <2>6. NextNth(rows) = 1 + max
    BY <1>2, <2>4 DEF NextNth
  <2> QED BY <2>5, <2>6
<1> QED BY <1>1, <1>2

\* The order of each listing.
LEMMA Listings ==
  ASSUME NEW b \in Backends, NEW kind \in Tables, NEW r, NEW s
  PROVE  /\ b = "InMemory" => (ListedFirst(b, kind, r, s) <=> r.nth < s.nth)
         /\ Durable(b) /\ kind = "health" => (ListedFirst(b, kind, r, s) <=> EarlierUpdate(r, s))
         /\ Durable(b) /\ kind # "health" => (ListedFirst(b, kind, r, s) <=> EarlierTime(r, s))
BY DEF ListedFirst, Backends, Tables, Durable, InMemoryBefore, EarlierArrival,
       SqliteEventBefore, SqliteLatencyBefore, PostgresEventBefore, PostgresLatencyBefore,
       SqliteHealthBefore, PostgresHealthBefore

\* The order of the listing is strict.
LEMMA ListingIsStrict ==
  ASSUME NEW b \in Backends, NEW kind \in Tables, NEW r \in RowSet(kind), NEW s \in RowSet(kind),
         ListedFirst(b, kind, r, s)
  PROVE  ~ListedFirst(b, kind, s, r)
<1>1. r.nth \in Nat /\ s.nth \in Nat
  BY RecordRows, SnapshotRows DEF Tables
<1>2. CASE b = "InMemory"
  BY <1>1, <1>2, Listings
<1>3. CASE b # "InMemory" /\ kind = "health"
  <2>1. r.at \in Nat /\ s.at \in Nat
    BY <1>3, SnapshotRows
  <2> QED BY <1>1, <1>3, <2>1, Listings DEF Durable, EarlierUpdate
<1>4. CASE b # "InMemory" /\ kind # "health"
  <2>1. r.at \in Nat /\ s.at \in Nat /\ r.id \in Nat /\ s.id \in Nat
    BY <1>4, RecordRows DEF Tables
  <2> QED BY <1>4, <2>1, Listings DEF Durable, EarlierTime
<1> QED BY <1>2, <1>3, <1>4

\* What an append does to a table: it inserts, or replaces what has the same identifier.
LEMMA AppendedRows ==
  ASSUME NEW b \in Backends, NEW kind \in Tables, NEW rows, NEW row
  PROVE  /\ Appended(b, kind, rows, row) \in {Insert(rows, row), Upsert(rows, row)}
         /\ kind = "health" \/ ~Durable(b) => Appended(b, kind, rows, row) = Insert(rows, row)
         /\ kind # "health" /\ Durable(b) => Appended(b, kind, rows, row) = Upsert(rows, row)
BY DEF Appended, Backends, Tables, Durable, InMemoryAppend, SqliteAppendEvent,
       SqliteAppendLatency, SqliteAppendHealth, PostgresAppendEvent, PostgresAppendLatency,
       PostgresAppendHealth

\* An append that is stored keeps all that was recorded.
LEMMA AppendKeeps ==
  ASSUME NEW b \in Backends, NEW kind \in Tables, NEW rows, rows \subseteq RowSet(kind),
         NEW fields \in FieldSet(kind), NEW nth \in Nat
  PROVE  LET kept == Appended(b, kind, rows, Row(nth, fields))
         IN /\ HasRow(kept, fields)
            /\ kept \subseteq rows \cup {Row(nth, fields)}
            /\ kind = "health" => kept = rows \cup {Row(nth, fields)}
            /\ kind # "health" => \A f \in FieldSet(kind) : HasRow(rows, f) => HasRow(kept, f)
<1> DEFINE row == Row(nth, fields)
           kept == Appended(b, kind, rows, row)
<1>1. /\ kept \in {Insert(rows, row), Upsert(rows, row)}
      /\ kind = "health" => kept = Insert(rows, row)
  BY AppendedRows
<1>2. \A field \in DOMAIN fields : row[field] = fields[field]
  BY RowFields
<1> HIDE DEF row, kept
<1>3. row \in kept /\ kept \subseteq rows \cup {row} /\ (kind = "health" => kept = rows \cup {row})
  BY <1>1 DEF Insert, Upsert
<1>4. HasRow(kept, fields)
  BY <1>2, <1>3 DEF HasRow
<1>5. ASSUME kind # "health", NEW f \in FieldSet(kind), HasRow(rows, f)
      PROVE  HasRow(kept, f)
  <2>1. PICK old \in rows : \A field \in DOMAIN f : old[field] = f[field]
    BY <1>5 DEF HasRow
  <2>2. CASE old \in kept
    BY <2>1, <2>2 DEF HasRow
  <2>3. CASE old \notin kept
    <3>1. old.id = row.id
      BY <1>1, <2>3 DEF Insert, Upsert
    <3>2. f.id = old.id /\ row.id = fields.id
      BY <1>2, <1>5, <2>1, RowFields
    <3>3. f = fields
      BY <1>5, <3>1, <3>2, IdIsRecord DEF Tables
    <3> QED BY <1>4, <3>3
  <2> QED BY <2>2, <2>3
<1> QED BY <1>3, <1>4, <1>5 DEF row, kept

\* The new row arrived last; it or the row that was listed last is so now.
LEMMA AppendedIsTable ==
  ASSUME NEW b \in Backends, NEW kind \in Tables, NEW rows, TableOK(b, kind, rows),
         NEW fields \in FieldSet(kind)
  PROVE  LET row == Row(NextNth(rows), fields)
         IN /\ row \in RowSet(kind) /\ row.nth \in Nat /\ \A r \in rows : r.nth < row.nth
            /\ TableOK(b, kind, Appended(b, kind, rows, row))
<1> DEFINE row == Row(NextNth(rows), fields)
           kept == Appended(b, kind, rows, row)
<1>1. \A r \in rows : r \in RowSet(kind) /\ r.nth \in Nat
  BY RecordRows, SnapshotRows DEF TableOK, Tables
<1>2. NextNth(rows) \in Nat /\ \A r \in rows : r.nth < NextNth(rows)
  BY <1>1, NextNthIsNew DEF TableOK
<1>3. row \in RowSet(kind) /\ row.nth \in Nat /\ \A r \in rows : r.nth < row.nth
  BY <1>2, RowFields
<1>4. /\ kind = "health" \/ ~Durable(b) => kept = Insert(rows, row)
      /\ kind # "health" /\ Durable(b) => kept = Upsert(rows, row)
  BY AppendedRows
<1> HIDE DEF row, kept
<1>5. row \in kept /\ kept \subseteq rows \cup {row}
  BY <1>4 DEF Insert, Upsert
<1>6. IsFiniteSet(kept) /\ kept \subseteq RowSet(kind)
  <2>1. IsFiniteSet(rows) /\ rows \subseteq RowSet(kind)
    BY DEF TableOK
  <2>2. IsFiniteSet(rows \cup {row})
    BY <2>1, FS_AddElement
  <2> QED BY <1>3, <1>5, <2>1, <2>2, FS_Subset
<1>7. Numbered(kept)
  <2>1. Numbered(rows)
    BY DEF TableOK
  <2> QED BY <1>1, <1>3, <1>5, <2>1 DEF Numbered
<1>8. Durable(b) /\ kind # "health" => Keyed(kept)
  BY <1>4 DEF TableOK, Keyed, Upsert
<1>9. \E last \in kept : ListedLast(b, kind, kept, last)
  <2>1. CASE \A r \in kept : r = row \/ ListedFirst(b, kind, r, row)
    BY <1>5, <2>1 DEF ListedLast
  <2>2. CASE \E r \in kept : r # row /\ ~ListedFirst(b, kind, r, row)
    <3>1. PICK r \in rows \cap kept : r # row /\ ~ListedFirst(b, kind, r, row)
      BY <1>5, <2>2
    <3>2. PICK last \in rows : ListedLast(b, kind, rows, last)
      BY <3>1 DEF TableOK
    <3>3. Durable(b)
      BY <1>3, <3>1, Listings DEF Durable
    <3>4. r \in RowSet(kind) /\ last \in RowSet(kind)
      BY <1>1, <3>1, <3>2
    <3>5. last \in kept /\ ListedFirst(b, kind, row, last)
      <4>1. CASE kind = "health"
        <5>1. /\ r.at \in Nat /\ row.at \in Nat /\ last.at \in Nat
              /\ r.nth \in Nat /\ last.nth \in Nat /\ r.nth < row.nth /\ row.nth \in Nat
          BY <1>1, <1>3, <3>1, <3>2, <3>4, <4>1, SnapshotRows
        <5>2. ~EarlierUpdate(r, row) /\ (r = last \/ EarlierUpdate(r, last))
          BY <3>1, <3>2, <3>3, <4>1, Listings DEF ListedLast
        <5>3. EarlierUpdate(row, last)
          BY <5>1, <5>2 DEF EarlierUpdate
        <5> QED BY <1>4, <3>2, <3>3, <4>1, <5>3, Listings DEF Insert
      <4>2. CASE kind # "health"
        <5>1. kept = Upsert(rows, row)
          BY <1>4, <3>3, <4>2
        <5>2. r.id # row.id
          BY <3>1, <5>1 DEF Upsert
        <5>3. /\ r.at \in Nat /\ row.at \in Nat /\ last.at \in Nat
              /\ r.id \in Nat /\ row.id \in Nat /\ last.id \in Nat
          BY <1>3, <3>4, <4>2, RecordRows DEF Tables
        <5>4. ~EarlierTime(r, row) /\ (r = last \/ EarlierTime(r, last))
          BY <3>1, <3>2, <3>3, <4>2, Listings DEF ListedLast
        <5>5. EarlierTime(row, last)
          BY <5>2, <5>3, <5>4 DEF EarlierTime
        <5>6. last.id # row.id
          <6>1. last.id = row.id => last.at = row.at
            BY <1>3, <3>4, <4>2, IdHasTime DEF Tables
          <6> QED BY <5>3, <5>5, <6>1 DEF EarlierTime
        <5> QED BY <3>2, <3>3, <4>2, <5>1, <5>5, <5>6, Listings DEF Upsert
      <4> QED BY <4>1, <4>2
    <3> QED BY <1>5, <3>2, <3>5 DEF ListedLast
  <2> QED BY <2>1, <2>2
<1> QED BY <1>3, <1>6, <1>7, <1>8, <1>9 DEF TableOK, row, kept

\* The row that Store makes, and the rows after it.
NewRow(kind, fields) == Row(NextNth(tables[backend][kind]), fields)
Stored(kind, fields, outcome) ==
  IF outcome = "refused" THEN tables[backend][kind]
  ELSE Appended(backend, kind, tables[backend][kind], NewRow(kind, fields))

\* The new row has a number of its own, and the fields it is made of.
LEMMA NewRowIsNew ==
  ASSUME TablesOK, backend \in Backends, NEW kind \in Tables, NEW fields \in FieldSet(kind)
  PROVE  LET row == NewRow(kind, fields)
         IN /\ row.nth \in Nat
            /\ \A r \in tables[backend][kind] : r.nth \in Nat /\ r.nth < row.nth
            /\ \A field \in DOMAIN fields : row[field] = fields[field]
<1> DEFINE rows == tables[backend][kind]
<1>1. TableOK(backend, kind, rows)
  BY DEF TablesOK
<1>2. \A r \in rows : r.nth \in Nat
  BY <1>1, RecordRows, SnapshotRows DEF TableOK, Tables
<1>3. NextNth(rows) \in Nat
  BY <1>1, <1>2, NextNthIsNew DEF TableOK
<1> QED BY <1>1, <1>2, <1>3, AppendedIsTable, RowFields DEF NewRow

\* One table changes.
LEMMA StoreTables ==
  ASSUME TablesOK, backend \in Backends, NEW kind \in Tables, NEW fields, NEW outcome,
         Store(kind, fields, outcome)
  PROVE  /\ DOMAIN tables' = Backends /\ \A b \in Backends : DOMAIN tables'[b] = Tables
         /\ tables'[backend][kind] = Stored(kind, fields, outcome)
         /\ \A b \in Backends, k \in Tables :
              b # backend \/ k # kind => tables'[b][k] = tables[b][k]
<1>1. tables' = [tables EXCEPT ![backend][kind] = Stored(kind, fields, outcome)]
  BY DEF Store, Stored, NewRow
<1> QED BY <1>1 DEF TablesOK

\* Store leaves the other tables, and what is doubtful stays so.
LEMMA OtherTables ==
  ASSUME TablesOK, backend \in Backends, NEW kind \in Tables, NEW fields, NEW outcome,
         Store(kind, fields, outcome)
  PROVE  /\ \A b \in Backends, k \in Tables : k # kind => tables'[b][k] = tables[b][k]
         /\ \A k \in doubtful : k \in doubtful'
<1>1. \A k \in doubtful : k \in doubtful'
  BY DEF Store
<1> QED BY <1>1, StoreTables

\* Store keeps the tables, and what they had.
LEMMA StoreKeeps ==
  ASSUME RecordsInv, backend \in Backends, NEW kind \in Tables, NEW fields \in FieldSet(kind),
         NEW outcome, Store(kind, fields, outcome)
  PROVE  /\ TablesOK'
         /\ \A p \in published : IsKept(p)'
         /\ outcome = "stored" => HasRow(tables'[backend][kind], fields)
<1> DEFINE rows == tables[backend][kind]
           kept == Appended(backend, kind, rows, NewRow(kind, fields))
<1>1. TableOK(backend, kind, rows) /\ rows \subseteq RowSet(kind)
  BY DEF RecordsInv, TablesOK, TableOK
<1>2. TableOK(backend, kind, kept) /\ NextNth(rows) \in Nat
  <2>1. \A r \in rows : r.nth \in Nat
    BY <1>1, RecordRows, SnapshotRows DEF Tables
  <2> QED BY <1>1, <2>1, AppendedIsTable, NextNthIsNew DEF NewRow, TableOK
<1>3. /\ HasRow(kept, fields)
      /\ kind = "health" => rows \subseteq kept
      /\ kind # "health" => \A f \in FieldSet(kind) : HasRow(rows, f) => HasRow(kept, f)
  <2>1. PICK nth \in Nat : nth = NextNth(rows)
    BY <1>2
  <2>2. kept = Appended(backend, kind, rows, Row(nth, fields))
    BY <2>1 DEF NewRow
  <2> HIDE DEF rows, kept
  <2> QED BY <1>1, <2>2, AppendKeeps
<1>4. /\ DOMAIN tables' = Backends /\ \A b \in Backends : DOMAIN tables'[b] = Tables
      /\ tables'[backend][kind] = IF outcome = "refused" THEN rows ELSE kept
      /\ \A b \in Backends, k \in Tables : b # backend \/ k # kind => tables'[b][k] = tables[b][k]
  BY StoreTables DEF RecordsInv, Stored
<1> HIDE DEF rows, kept
<1>5. TablesOK'
  <2>1. ASSUME NEW b \in Backends, NEW k \in Tables PROVE TableOK(b, k, tables'[b][k])
    <3>1. CASE b = backend /\ k = kind
      BY <1>1, <1>2, <1>4, <3>1
    <3>2. CASE b # backend \/ k # kind
      BY <1>4, <3>2 DEF RecordsInv, TablesOK
    <3> QED BY <3>1, <3>2
  <2> QED BY <1>4, <2>1 DEF TablesOK
<1>6. ASSUME NEW p \in published PROVE IsKept(p)'
  <2>1. IsKept(p)
    BY DEF RecordsInv, PublishedKept
  <2>2. ASSUME HasRow(tables[p.backend][p.kind], p.fields)
        PROVE  HasRow(tables'[p.backend][p.kind], p.fields)
    <3>1. p.kind \in Tables /\ p.backend \in Backends
      BY <2>1 DEF IsKept
    <3>2. CASE p.backend # backend \/ p.kind # kind \/ outcome = "refused"
      BY <1>4, <2>2, <3>1, <3>2 DEF rows
    <3>3. CASE p.backend = backend /\ p.kind = kind /\ outcome # "refused"
      <4>1. tables'[p.backend][p.kind] = kept /\ tables[p.backend][p.kind] = rows
        BY <1>4, <3>3 DEF rows
      <4>2. CASE kind = "health"
        BY <1>3, <2>2, <4>1, <4>2 DEF HasRow
      <4>3. CASE kind # "health"
        BY <1>3, <2>1, <2>2, <3>3, <4>1, <4>3 DEF IsKept
      <4> QED BY <4>2, <4>3
    <3> QED BY <3>2, <3>3
  <2> QED BY <2>1, <2>2 DEF IsKept
<1>7. outcome = "stored" => HasRow(tables'[backend][kind], fields)
  BY <1>3, <1>4
<1> QED BY <1>5, <1>6, <1>7

\* Arming is only allowed on a backend that lasts.
LEMMA ArmableIsDurable == MayArm => Durable(backend)
BY DEF MayArm, StorageHealth

\* What is published is stored, or neither armable nor a health snapshot.
LEMMA PublishKeeps ==
  ASSUME backend \in Backends, \A p \in published : IsKept(p)', NEW kind \in Tables, NEW fields,
         NEW outcome, Publish(kind, fields, outcome),
         kind = "health" => fields \in Signatures,
         kind # "health" => fields \in FieldSet(kind),
         outcome = "stored" /\ (MayArm \/ kind = "health") =>
           HasRow(tables'[backend][kind], fields)
  PROVE  PublishedKept'
<1>1. PICK new : new = Publication(kind, fields)
  OBVIOUS
<1>2. CASE outcome = "stored"
  <2>1. published' = published \cup {new}
    BY <1>1, <1>2 DEF Publish
  <2>2. /\ new.kind = kind /\ new.backend = backend /\ new.armable = MayArm
        /\ new.fields = fields
    BY <1>1 DEF Publication
  <2>3. IsKept(new)'
    BY <1>2, <2>2, ArmableIsDurable DEF IsKept
  <2> QED BY <2>1, <2>3 DEF PublishedKept
<1>3. CASE outcome # "stored"
  BY <1>3 DEF Publish, PublishedKept
<1> QED BY <1>2, <1>3

\* The tables and publications rest.
LEMMA TablesRest ==
  ASSUME RecordsInv, UNCHANGED <<tables, published>>
  PROVE  TablesOK' /\ PublishedKept'
<1>1. \A p \in published : IsKept(p)'
  BY DEF RecordsInv, PublishedKept, IsKept
<1> QED BY <1>1 DEF RecordsInv, TablesOK, PublishedKept

\* A start finds the tables of the durable backends, and those of memory empty.
LEMMA StartKeepsTables ==
  ASSUME RecordsInv, UNCHANGED published,
         tables' = [tables EXCEPT !["InMemory"] = [t \in Tables |-> {}]]
  PROVE  TablesOK' /\ PublishedKept'
<1>1. /\ DOMAIN tables' = Backends
      /\ tables'["InMemory"] = [t \in Tables |-> {}]
      /\ \A b \in Backends : Durable(b) => tables'[b] = tables[b]
  BY DEF RecordsInv, TablesOK, Backends, Durable
<1>2. TablesOK'
  <2>1. ASSUME NEW b \in Backends
        PROVE  /\ DOMAIN tables'[b] = Tables
               /\ \A kind \in Tables : TableOK(b, kind, tables'[b][kind])
    <3>1. CASE b = "InMemory"
      BY <1>1, <3>1, FS_EmptySet DEF TableOK, Numbered, Keyed
    <3>2. CASE b # "InMemory"
      BY <1>1, <3>2 DEF RecordsInv, TablesOK, Durable
    <3> QED BY <3>1, <3>2
  <2> QED BY <1>1, <2>1 DEF TablesOK
<1>3. \A p \in published : IsKept(p)'
  BY <1>1 DEF RecordsInv, PublishedKept, IsKept
<1> QED BY <1>2, <1>3 DEF PublishedKept

\* LastListed is the row of a table that is listed last.
LastIsListed(kind) ==
  LET rows == tables[backend][kind]
  IN rows # {} => LastListed(kind) \in rows /\ ListedLast(backend, kind, rows, LastListed(kind))

\* Every table that is not empty has one.
LEMMA LastListedLast == TablesOK /\ backend \in Backends => \A kind \in Tables : LastIsListed(kind)
<1> SUFFICES ASSUME TablesOK, backend \in Backends, NEW kind \in Tables PROVE LastIsListed(kind)
  OBVIOUS
<1> DEFINE rows == tables[backend][kind]
<1>1. rows # {} => \E last \in rows : ListedLast(backend, kind, rows, last)
  BY DEF TablesOK, TableOK
<1>2. LastListed(kind) = CHOOSE row \in rows : ListedLast(backend, kind, rows, row)
  BY DEF LastListed, ListedLast
<1> QED BY <1>1, <1>2 DEF LastIsListed

\* What a start makes of the snapshots is made of the last that is listed.
FromSnapshots(state, b, rows) ==
  \/ rows = {} /\ state = NoHealth
  \/ \E last \in rows :
       /\ ListedLast(b, "health", rows, last)
       /\ state = [error_count |-> last.errors,
                   latest |-> [errors |-> last.errors, reading |-> last.reading]]

\* from_persistence makes it so.
LEMMA SupervisedIsLast ==
  TablesOK /\ backend \in Backends
    => FromSnapshots(Supervised, backend, tables[backend]["health"])
<1> SUFFICES ASSUME TablesOK, backend \in Backends
             PROVE  FromSnapshots(Supervised, backend, tables[backend]["health"])
  OBVIOUS
<1>1. LastIsListed("health")
  BY LastListedLast DEF Tables
<1> QED BY <1>1 DEF LastIsListed, Supervised, LastSignature, FromSnapshots

\* While anything of a handler, a dispatch or a task is under way, a backend is in use.
LEMMA InUse ==
  ASSUME RecordsTyped,
         \/ backend # None
         \/ dispatching.stage # "free"
         \/ \E r \in Reporters : reporter[r] # None
         \/ \E s \in Samplers : sample[s] # None
  PROVE  backend \in Backends
BY DEF RecordsTyped, Free

\* What the host and a dispatch journal are events.
LEMMA EventsAreFields ==
  ASSUME NEW action \in DOMAIN Rank, NEW at \in Nat
  PROVE  EventFields(action, at) \in EventSet /\ EventFields(action, at) \in FieldSet("event")
BY DEF EventSet, FieldSet

\* A start reads the tables of one backend, and a kill below leaves them.
LEMMA StartRecordsKeeps == ASSUME RecordsInv, StartRecords PROVE RecordsInv'
<1>1. TablesOK' /\ PublishedKept'
  BY StartKeepsTables DEF StartRecords
<1>2. backend = None /\ backend' \in Backends
  BY DEF StartRecords, Start, SelectedBackend, Backends
<1>3. health' \in [error_count : Nat, latest : Signatures \cup {None}]
  <2>1. (TablesOK /\ backend \in Backends
           => FromSnapshots(Supervised, backend, tables[backend]["health"]))'
    BY SupervisedIsLast, PTL
  <2>2. FromSnapshots(health', backend', tables'[backend']["health"])
    BY <1>1, <1>2, <2>1 DEF StartRecords
  <2>3. \A last \in tables'[backend']["health"] : last \in RowSet("health")
    BY <1>1, <1>2 DEF TablesOK, TableOK, Tables
  <2> QED BY <2>2, <2>3, SnapshotRows DEF FromSnapshots, NoHealth, Signatures
<1>4. RecordsTyped'
  BY <1>2, <1>3, NoneAssumption DEF RecordsInv, RecordsTyped, StartRecords
<1> QED BY <1>1, <1>4 DEF RecordsInv

\* A kill leaves the tables, and nothing under way.
LEMMA CrashRecordsKeeps == ASSUME RecordsInv, CrashRecords PROVE RecordsInv'
<1>1. TablesOK' /\ PublishedKept'
  BY TablesRest DEF CrashRecords
<1>2. RecordsTyped'
  BY DEF RecordsInv, RecordsTyped, CrashRecords, Crash, Forgotten, RecordsForgotten, NoHealth,
         DispatchStages
<1> QED BY <1>1, <1>2 DEF RecordsInv

\* An event gets its time.
LEMMA StampEventKeeps == ASSUME RecordsInv, NEW r \in Reporters, StampEvent(r) PROVE RecordsInv'
<1>1. TablesOK' /\ PublishedKept'
  BY TablesRest DEF StampEvent
<1>2. backend \in Backends
  BY InUse DEF StampEvent, RecordsInv
<1>3. PICK at \in {clock, clock + 1} :
        Read(at) /\ reporter' = [reporter EXCEPT ![r] = EventFields("mode_changed", at)]
  BY DEF StampEvent
<1>4. at \in Nat /\ EventFields("mode_changed", at) \in EventSet
  BY EventsAreFields DEF RecordsInv, RecordsTyped, Rank
<1>5. RecordsTyped'
  BY <1>2, <1>3, <1>4, NoneAssumption
  DEF RecordsInv, RecordsTyped, StampEvent, Read, vars
<1> QED BY <1>1, <1>5 DEF RecordsInv

\* An error noted leaves the last snapshot.
LEMMA NotedIsTyped ==
  ASSUME health \in [error_count : Nat, latest : Signatures \cup {None}]
  PROVE  /\ Noted(health) \in [error_count : Nat, latest : Signatures \cup {None}]
         /\ Noted(health).latest = health.latest
         /\ Noted(health).error_count = health.error_count + 1
BY DEF Noted

\* An event is published after the journal stored it, or where nothing may arm.
LEMMA AppendEventKeeps == ASSUME RecordsInv, NEW r \in Reporters, AppendEvent(r) PROVE RecordsInv'
<1>1. backend \in Backends /\ backend' = backend
  BY InUse DEF AppendEvent, RecordsInv, vars
<1>2. reporter[r] \in FieldSet("event") /\ "event" \in Tables
  BY DEF AppendEvent, RecordsInv, RecordsTyped, FieldSet, Tables
<1>3. TablesOK' /\ PublishedKept'
  <2>1. CASE broker_configured
    <3>1. PICK outcome \in Outcomes :
            /\ Store("event", reporter[r], outcome)
            /\ Publish("event", reporter[r], outcome)
      BY <2>1 DEF AppendEvent, Journal
    <3>2. TablesOK' /\ (\A p \in published : IsKept(p)')
          /\ (outcome = "stored" => HasRow(tables'[backend]["event"], reporter[r]))
      BY <1>1, <1>2, <3>1, StoreKeeps
    <3> QED BY <1>1, <1>2, <3>1, <3>2, PublishKeeps
  <2>2. CASE ~broker_configured
    <3>1. Publish("event", reporter[r], "stored") /\ UNCHANGED tables /\ ~MayArm
      BY <2>2 DEF AppendEvent, Discard, MayArm
    <3>2. TablesOK' /\ \A p \in published : IsKept(p)'
      BY <3>1 DEF RecordsInv, TablesOK, PublishedKept, IsKept
    <3> QED BY <1>1, <1>2, <3>1, <3>2, PublishKeeps
  <2> QED BY <2>1, <2>2
<1>4. RecordsTyped'
  <2>1. health' \in {health, Noted(health)}
    BY DEF AppendEvent, Discard
  <2> QED
    BY <1>1, <2>1, NotedIsTyped, NoneAssumption DEF RecordsInv, RecordsTyped, AppendEvent
<1> QED BY <1>3, <1>4 DEF RecordsInv

\* A dispatch begins.
LEMMA BeginDispatchKeeps == ASSUME RecordsInv, BeginDispatch PROVE RecordsInv'
<1>1. TablesOK' /\ PublishedKept'
  BY TablesRest DEF BeginDispatch
<1>2. backend \in Backends /\ backend' = backend
  BY InUse DEF BeginDispatch, RecordsInv, vars
<1>3. RecordsTyped'
  <2>1. health' \in {health, Noted(health)} /\ UNCHANGED <<reporter, sample>>
    BY DEF BeginDispatch
  <2>2. clock' \in Nat /\ dispatching' \in DispatchStages
    <3>1. CASE broker_configured
      BY <3>1 DEF BeginDispatch, RecordsInv, RecordsTyped, Read, DispatchStages
    <3>2. CASE ~broker_configured
      BY <3>2 DEF BeginDispatch, RecordsInv, RecordsTyped
    <3> QED BY <3>1, <3>2
  <2> QED BY <1>2, <2>1, <2>2, NotedIsTyped, NoneAssumption DEF RecordsInv, RecordsTyped
<1> QED BY <1>1, <1>3 DEF RecordsInv

\* The last record of a dispatch is journaled and not published.
LEMMA EndDispatchKeeps == ASSUME RecordsInv, EndDispatch PROVE RecordsInv'
<1>1. backend \in Backends /\ backend' = backend
  BY InUse DEF EndDispatch, RecordsInv, vars
<1>2. PICK action \in {"dispatch_succeeded", "dispatch_skipped", "dispatch_failed"},
           outcome \in Outcomes, at \in {clock, clock + 1} :
        /\ Read(at)
        /\ Store("event", EventFields(action, at), outcome)
        /\ health' \in {health, Noted(health)}
        /\ \/ dispatching' = Free
           \/ dispatching' = [stage |-> "latency", started |-> dispatching.started,
                              finished |-> at]
  BY DEF EndDispatch, Journal
<1>3. at \in Nat /\ EventFields(action, at) \in FieldSet("event") /\ "event" \in Tables
  BY EventsAreFields DEF RecordsInv, RecordsTyped, Rank, Tables
<1>4. TablesOK' /\ PublishedKept'
  BY <1>1, <1>2, <1>3, StoreKeeps DEF EndDispatch, PublishedKept
<1>5. RecordsTyped'
  <2>1. dispatching.started \in Nat
    BY DEF EndDispatch, RecordsInv, RecordsTyped, DispatchStages, Free
  <2>2. clock' \in Nat /\ dispatching' \in DispatchStages
    BY <1>2, <1>3, <2>1 DEF Read, DispatchStages
  <2>3. UNCHANGED <<reporter, sample>>
    BY DEF EndDispatch
  <2> QED BY <1>1, <1>2, <2>2, <2>3, NotedIsTyped, NoneAssumption DEF RecordsInv, RecordsTyped
<1> QED BY <1>4, <1>5 DEF RecordsInv

\* A latency is published after it was stored.
LEMMA RecordLatencyKeeps == ASSUME RecordsInv, RecordLatency PROVE RecordsInv'
<1> DEFINE fields == [id |-> dispatching.finished, at |-> dispatching.finished]
<1>1. backend \in Backends /\ backend' = backend
  BY InUse DEF RecordLatency, RecordsInv, vars
<1>2. dispatching.finished \in Nat
  BY DEF RecordLatency, RecordsInv, RecordsTyped, DispatchStages, Free
<1>3. fields \in FieldSet("latency") /\ "latency" \in Tables
  BY <1>2 DEF FieldSet, LatencySet, Tables
<1> HIDE DEF fields
<1>4. /\ health' \in {health, Noted(health)}
      /\ \/ UNCHANGED <<tables, published>>
         \/ \E outcome \in Outcomes :
              Store("latency", fields, outcome) /\ Publish("latency", fields, outcome)
  BY DEF RecordLatency, fields
<1>5. TablesOK' /\ PublishedKept'
  <2>1. CASE UNCHANGED <<tables, published>>
    BY <2>1, TablesRest
  <2>2. ASSUME NEW outcome \in Outcomes, Store("latency", fields, outcome),
               Publish("latency", fields, outcome)
        PROVE  TablesOK' /\ PublishedKept'
    <3>1. TablesOK' /\ (\A p \in published : IsKept(p)')
          /\ (outcome = "stored" => HasRow(tables'[backend]["latency"], fields))
      BY <1>1, <1>3, <2>2, StoreKeeps
    <3> QED BY <1>1, <1>3, <2>2, <3>1, PublishKeeps
  <2> QED BY <1>4, <2>1, <2>2
<1>6. RecordsTyped'
  <2>1. dispatching' \in DispatchStages /\ UNCHANGED <<clock, reporter, sample>>
    BY DEF RecordLatency, DispatchStages
  <2> QED BY <1>1, <1>4, <2>1, NotedIsTyped, NoneAssumption DEF RecordsInv, RecordsTyped
<1> QED BY <1>5, <1>6 DEF RecordsInv

\* The trading history has tables of its own.
LEMMA RecordOutcomeKeeps == ASSUME RecordsInv, RecordOutcome PROVE RecordsInv'
<1>1. TablesOK' /\ PublishedKept'
  BY TablesRest DEF RecordOutcome
<1>2. backend \in Backends /\ backend' = backend
  BY InUse DEF RecordOutcome, RecordsInv, vars, Dispatch
<1>3. RecordsTyped'
  <2>1. /\ health' \in {health, Noted(health)} /\ UNCHANGED <<clock, reporter, sample>>
        /\ dispatching' \in DispatchStages
    BY DEF RecordOutcome, DispatchStages
  <2> QED BY <1>2, <2>1, NotedIsTyped, NoneAssumption DEF RecordsInv, RecordsTyped
<1> QED BY <1>1, <1>3 DEF RecordsInv

\* A task reads the health.
LEMMA TakeSampleKeeps == ASSUME RecordsInv, NEW s \in Samplers, TakeSample(s) PROVE RecordsInv'
<1>1. TablesOK' /\ PublishedKept'
  BY TablesRest DEF TakeSample
<1>2. backend \in Backends /\ backend' = backend
  BY InUse DEF TakeSample, RecordsInv, vars
<1>3. RecordsTyped'
  <2>1. PICK at \in {clock, clock + 1}, reading \in BOOLEAN :
          Read(at) /\ sample' = [sample EXCEPT ![s] = [at |-> at, reading |-> reading]]
    BY DEF TakeSample
  <2>2. at \in Nat
    BY DEF RecordsInv, RecordsTyped
  <2> QED BY <1>2, <2>1, <2>2, NoneAssumption DEF RecordsInv, RecordsTyped, TakeSample, Read
<1> QED BY <1>1, <1>3 DEF RecordsInv

\* The snapshot that a task captures, if there is one to keep.
SignatureOf(s) == [errors |-> health.error_count, reading |-> sample[s].reading]
SnapshotOf(s) ==
  [at |-> sample[s].at, errors |-> health.error_count, reading |-> sample[s].reading]

\* A capture stores and publishes the snapshot, or does nothing.
LEMMA CaptureStores ==
  ASSUME RecordsInv, NEW s \in Samplers, Capture(s)
  PROVE  /\ backend \in Backends /\ backend' = backend
         /\ SignatureOf(s) \in Signatures /\ SnapshotOf(s) \in FieldSet("health")
         /\ \/ UNCHANGED <<tables, published, health>>
            \/ \E outcome \in Outcomes :
                 /\ Store("health", SnapshotOf(s), outcome)
                 /\ Publish("health", SignatureOf(s), outcome)
                 /\ health' = IF outcome = "stored"
                              THEN [health EXCEPT !.latest = SignatureOf(s)] ELSE Noted(health)
<1>1. backend \in Backends /\ backend' = backend
  BY InUse DEF Capture, RecordsInv, vars
<1>2. sample[s] \in [at : Nat, reading : BOOLEAN] /\ health.error_count \in Nat
  BY DEF Capture, RecordsInv, RecordsTyped
<1>3. SignatureOf(s) \in Signatures /\ SnapshotOf(s) \in FieldSet("health")
  BY <1>2 DEF SignatureOf, SnapshotOf, Signatures, FieldSet, Snapshots
<1> QED BY <1>1, <1>3 DEF Capture, SignatureOf, SnapshotOf

\* What is published of a snapshot is in the row that was stored.
LEMMA CaptureKeeps == ASSUME RecordsInv, NEW s \in Samplers, Capture(s) PROVE RecordsInv'
<1>1. /\ backend \in Backends /\ backend' = backend /\ "health" \in Tables
      /\ SignatureOf(s) \in Signatures /\ SnapshotOf(s) \in FieldSet("health")
  BY CaptureStores DEF Tables
<1>2. TablesOK' /\ PublishedKept'
  <2>1. CASE UNCHANGED <<tables, published, health>>
    BY <2>1, TablesRest
  <2>2. ASSUME NEW outcome \in Outcomes, Store("health", SnapshotOf(s), outcome),
               Publish("health", SignatureOf(s), outcome)
        PROVE  TablesOK' /\ PublishedKept'
    <3>1. TablesOK' /\ (\A p \in published : IsKept(p)')
          /\ (outcome = "stored" => HasRow(tables'[backend]["health"], SnapshotOf(s)))
      BY <1>1, <2>2, StoreKeeps
    <3>2. outcome = "stored" => HasRow(tables'[backend]["health"], SignatureOf(s))
      BY <3>1 DEF HasRow, SnapshotOf, SignatureOf
    <3> QED BY <1>1, <2>2, <3>1, <3>2, PublishKeeps
  <2> QED BY <2>1, <2>2, CaptureStores
<1>3. RecordsTyped'
  <2>1. health' \in [error_count : Nat, latest : Signatures \cup {None}]
    BY <1>1, CaptureStores, NotedIsTyped DEF RecordsInv, RecordsTyped
  <2>2. sample' = [sample EXCEPT ![s] = None] /\ UNCHANGED <<clock, reporter, dispatching>>
    BY DEF Capture
  <2> QED BY <1>1, <2>1, <2>2, NoneAssumption DEF RecordsInv, RecordsTyped
<1> QED BY <1>2, <1>3 DEF RecordsInv

\* An error elsewhere stores nothing.
LEMMA NoteErrorKeeps == ASSUME RecordsInv, NoteError PROVE RecordsInv'
<1>1. TablesOK' /\ PublishedKept'
  BY TablesRest DEF NoteError
<1>2. RecordsTyped'
  BY InUse, NotedIsTyped DEF RecordsInv, RecordsTyped, NoteError, vars
<1> QED BY <1>1, <1>2 DEF RecordsInv

\* Nor do the steps of the trading history.
LEMMA HistoryKeepsRecords ==
  ASSUME RecordsInv, UNCHANGED <<backend, record_vars>>
  PROVE  RecordsInv'
<1>1. TablesOK' /\ PublishedKept'
  BY TablesRest DEF record_vars
<1>2. RecordsTyped'
  BY DEF RecordsInv, RecordsTyped, record_vars
<1> QED BY <1>1, <1>2 DEF RecordsInv

\* Every step keeps the records.
LEMMA RecordsStep == RecordsInv /\ [RuntimeNext]_<<vars, record_vars>> => RecordsInv'
<1> SUFFICES ASSUME RecordsInv, [RuntimeNext]_<<vars, record_vars>> PROVE RecordsInv'
  OBVIOUS
<1>1. CASE UNCHANGED <<backend, record_vars>>
  BY <1>1, HistoryKeepsRecords
<1>2. CASE RecordsNext
  BY <1>2, StartRecordsKeeps, CrashRecordsKeeps, StampEventKeeps, AppendEventKeeps,
     BeginDispatchKeeps, EndDispatchKeeps, RecordLatencyKeeps, RecordOutcomeKeeps,
     TakeSampleKeeps, CaptureKeeps, NoteErrorKeeps DEF RecordsNext
<1>3. UNCHANGED <<vars, record_vars>> => UNCHANGED <<backend, record_vars>>
  BY DEF vars
<1> QED BY <1>1, <1>2, <1>3 DEF RuntimeNext

\* At first there are none.
LEMMA RecordsInitially == RecordsInit => RecordsInv
<1> SUFFICES ASSUME RecordsInit PROVE RecordsInv
  OBVIOUS
<1>1. RecordsTyped
  BY DEF RecordsInit, Init, RecordsAtRest, RecordsTyped, DispatchStages, NoHealth
<1>2. TablesOK
  <2>1. tables = [b \in Backends |-> [t \in Tables |-> {}]]
    BY DEF RecordsInit, RecordsAtRest
  <2>2. \A b \in Backends : DOMAIN tables[b] = Tables /\ \A t \in Tables : tables[b][t] = {}
    BY <2>1
  <2> QED BY <2>1, <2>2, FS_EmptySet DEF TablesOK, TableOK, Numbered, Keyed
<1>3. PublishedKept
  BY DEF RecordsInit, RecordsAtRest, PublishedKept
<1> QED BY <1>1, <1>2, <1>3 DEF RecordsInv

\* Where the checks let a run arm, what was published is stored and stays so over kills,
\* starts and failing appends, for any handlers and tasks and the trading history's steps
\* in between (journal, metrics and health over one backend).
THEOREM PublishedIsKept == RuntimeSpec => []PublishedIsStored
<1>1. RecordsInv => PublishedIsStored
  BY DEF RecordsInv, PublishedKept, IsKept, PublishedIsStored, HasRow
<1> QED BY <1>1, RecordsInitially, RecordsStep, PTL DEF RuntimeSpec

-----------------------------------------------------------------------------
\* Part seven: of a table of snapshots that are listed as they arrived, each counts at least
\* the errors of those before, the process as many as all, and its last one as many as any
\* published.
Arrived(rows) == \A r, s \in rows : r.nth < s.nth => EarlierUpdate(r, s)
Rising(rows) == \A r, s \in rows : r.nth < s.nth => r.errors <= s.errors

CountsAll(b) ==
  b = backend =>
    /\ \A r \in tables[b]["health"] : r.errors <= health.error_count
    /\ health.latest # None =>
         \A p \in published :
           p.kind = "health" /\ p.backend = b => p.fields.errors <= health.latest.errors

ErrorsInv ==
  \A b \in Backends :
    Durable(b) /\ Arrived(tables[b]["health"]) => Rising(tables[b]["health"]) /\ CountsAll(b)

\* A step that stores and publishes no snapshot.
LEMMA QuietStep ==
  ASSUME RecordsInv, ErrorsInv, backend' = backend,
         \A b \in Backends : tables'[b]["health"] = tables[b]["health"],
         \A p \in published' : p.kind = "health" => p \in published,
         health' \in {health, Noted(health)}
  PROVE  ErrorsInv'
<1>1. ASSUME NEW b \in Backends, CountsAll(b) PROVE CountsAll(b)'
  <2> SUFFICES ASSUME b = backend PROVE CountsAll(b)'
    BY DEF CountsAll
  <2>1. /\ health'.latest = health.latest
        /\ health'.error_count \in {health.error_count, health.error_count + 1}
        /\ health.error_count \in Nat
    BY NotedIsTyped DEF RecordsInv, RecordsTyped
  <2>2. \A r \in tables[b]["health"] : r.errors \in Nat
    BY SnapshotRows DEF RecordsInv, TablesOK, TableOK, Tables
  <2>3. \A r \in tables'[b]["health"] : r.errors <= health'.error_count
    BY <1>1, <2>1, <2>2 DEF CountsAll
  <2> QED BY <1>1, <2>1, <2>3 DEF CountsAll
<1> QED BY <1>1 DEF ErrorsInv

\* A record of another kind is published.
LEMMA OtherPublication ==
  ASSUME NEW kind \in {"event", "latency"}, NEW fields, NEW outcome,
         Publish(kind, fields, outcome)
  PROVE  \A p \in published' : p.kind = "health" => p \in published
BY DEF Publish, Publication

\* A published snapshot of a durable backend is a row of it.
LEMMA PublishedIsRow ==
  ASSUME PublishedKept, NEW p \in published, p.kind = "health", Durable(p.backend)
  PROVE  /\ \E row \in tables[p.backend]["health"] : row.errors = p.fields.errors
         /\ p.fields \in Signatures
<1>1. HasRow(tables[p.backend]["health"], p.fields) /\ p.fields \in Signatures
  BY DEF PublishedKept, IsKept
<1>2. "errors" \in DOMAIN p.fields
  BY <1>1 DEF Signatures
<1> QED BY <1>1, <1>2 DEF HasRow

PublishedHaveRows ==
  \A p \in published : p.kind = "health" /\ Durable(p.backend) =>
    \E row \in tables[p.backend]["health"] : row.errors = p.fields.errors

\* As a formula, for the state after a step.
LEMMA PublishedRows == PublishedKept => PublishedHaveRows
BY PublishedIsRow DEF PublishedHaveRows

\* A start takes the count of the last listed snapshot, which is the greatest.
LEMMA StartErrors == ASSUME RecordsInv, ErrorsInv, StartRecords PROVE ErrorsInv'
<1>1. RecordsInv'
  BY StartRecordsKeeps
<1>2. /\ \A b \in Backends : Durable(b) => tables'[b] = tables[b]
      /\ tables'["InMemory"]["health"] = {}
  BY DEF StartRecords, RecordsInv, TablesOK, Tables, Backends, Durable
<1>3. backend' \in Backends
  BY DEF StartRecords, Start, SelectedBackend, Backends
<1>4. FromSnapshots(health', backend', tables'[backend']["health"])
  <2>1. (TablesOK /\ backend \in Backends
           => FromSnapshots(Supervised, backend, tables[backend]["health"]))'
    BY SupervisedIsLast, PTL
  <2> QED BY <1>1, <1>3, <2>1 DEF StartRecords, RecordsInv
<1>5. ASSUME NEW b \in Backends, Durable(b), Arrived(tables'[b]["health"])
      PROVE  Rising(tables'[b]["health"]) /\ CountsAll(b)'
  <2> DEFINE rows == tables'[b]["health"]
  <2>1. Rising(rows)
    BY <1>2, <1>5 DEF ErrorsInv
  <2>2. CountsAll(b)'
    <3> SUFFICES ASSUME b = backend' PROVE CountsAll(b)'
      BY DEF CountsAll
    <3>1. \A r \in rows : r.nth \in Nat /\ r.at \in Nat /\ r.errors \in Nat
      BY <1>1, SnapshotRows DEF RecordsInv, TablesOK, TableOK, Tables
    <3>2. \A p \in published' : p.kind = "health" /\ p.backend = b =>
            \E row \in rows : row.errors = p.fields.errors
      <4>1. \A p \in published : p.kind = "health" /\ Durable(p.backend) =>
              \E row \in tables[p.backend]["health"] : row.errors = p.fields.errors
        BY PublishedRows DEF RecordsInv, PublishedHaveRows
      <4>2. published' = published
        BY DEF StartRecords
      <4> QED BY <1>2, <1>5, <4>1, <4>2
    <3>3. CASE rows = {}
      BY <1>4, <3>2, <3>3 DEF CountsAll, FromSnapshots
    <3>4. CASE rows # {}
      <4>1. PICK last \in rows :
              /\ ListedLast(b, "health", rows, last)
              /\ health' = [error_count |-> last.errors,
                            latest |-> [errors |-> last.errors, reading |-> last.reading]]
        BY <1>4, <3>4 DEF FromSnapshots
      <4>2. \A r \in rows : r = last \/ r.nth < last.nth
        <5>1. \A r \in rows : last.nth < r.nth => ~EarlierUpdate(r, last)
          BY <1>5, <3>1, <4>1 DEF Arrived, EarlierUpdate
        <5>2. \A r \in rows : r.nth = last.nth => r = last
          BY <1>1, <4>1 DEF RecordsInv, TablesOK, TableOK, Numbered, Tables
        <5>3. \A r \in rows : r = last \/ EarlierUpdate(r, last)
          BY <1>5, <4>1, Listings DEF ListedLast, Tables
        <5> QED BY <3>1, <4>1, <5>1, <5>2, <5>3
      <4>3. \A r \in rows : r.errors <= last.errors
        BY <2>1, <3>1, <4>2 DEF Rising
      <4>4. health'.error_count = last.errors /\ health'.latest.errors = last.errors
        BY <4>1
      <4> QED BY <3>2, <4>3, <4>4 DEF CountsAll
    <3> QED BY <3>3, <3>4
  <2> QED BY <2>1, <2>2
<1> QED BY <1>5 DEF ErrorsInv

\* A snapshot counts at least the errors of those before it.
LEMMA CaptureErrors ==
  ASSUME RecordsInv, ErrorsInv, NEW s \in Samplers, Capture(s)
  PROVE  ErrorsInv'
<1>1. RecordsInv'
  BY CaptureKeeps
<1>2. backend \in Backends /\ backend' = backend /\ "health" \in Tables
  BY CaptureStores DEF Tables
<1>3. CASE UNCHANGED <<tables, published, health>>
  BY <1>2, <1>3, QuietStep
<1>4. ASSUME NEW outcome \in Outcomes,
             Store("health", SnapshotOf(s), outcome),
             Publish("health", SignatureOf(s), outcome),
             health' = IF outcome = "stored"
                       THEN [health EXCEPT !.latest = SignatureOf(s)] ELSE Noted(health)
      PROVE  ErrorsInv'
  <2> DEFINE rows(b) == tables[b]["health"]
             row == NewRow("health", SnapshotOf(s))
  <2>1. /\ \A b \in Backends : b # backend => tables'[b]["health"] = rows(b)
        /\ tables'[backend]["health"] \in {rows(backend), rows(backend) \cup {row}}
        /\ outcome # "refused" => tables'[backend]["health"] = rows(backend) \cup {row}
    BY <1>2, <1>4, StoreTables, AppendedRows DEF RecordsInv, Stored, Insert
  <2>2. SnapshotOf(s) \in FieldSet("health")
    BY CaptureStores
  <2>3. row.nth \in Nat /\ row.errors = health.error_count
    BY <1>2, <2>2, NewRowIsNew DEF RecordsInv, SnapshotOf
  <2>4. health.error_count \in Nat /\ \A b \in Backends : \A r \in rows(b) :
          r.nth \in Nat /\ r.errors \in Nat
    BY SnapshotRows DEF RecordsInv, RecordsTyped, TablesOK, TableOK, Tables
  <2>5. \A r \in rows(backend) : r.nth < row.nth
    BY <1>2, <2>2, NewRowIsNew DEF RecordsInv
  <2>6. /\ health'.error_count >= health.error_count /\ health'.error_count \in Nat
        /\ outcome = "stored" => health'.latest.errors = health.error_count
        /\ outcome # "stored" => health'.latest = health.latest /\ published' = published
    <3>1. health \in [error_count : Nat, latest : Signatures \cup {None}]
      BY DEF RecordsInv, RecordsTyped
    <3> QED BY <1>4, <3>1, NotedIsTyped DEF SignatureOf, Publish
  <2> HIDE DEF row
  <2>7. ASSUME NEW b \in Backends, Durable(b), Arrived(tables'[b]["health"])
        PROVE  Rising(tables'[b]["health"]) /\ CountsAll(b)'
    <3>1. Arrived(rows(b))
      BY <2>1, <2>7 DEF Arrived
    <3>2. Rising(rows(b)) /\ CountsAll(b)
      BY <2>7, <3>1 DEF ErrorsInv
    <3>3. CASE b # backend
      BY <1>2, <2>1, <3>2, <3>3 DEF CountsAll
    <3>4. CASE b = backend
      <4> DEFINE before == rows(b)
                 after == tables'[b]["health"]
      <4>1. after \in {before, before \cup {row}}
        BY <2>1, <3>4
      <4>2. /\ \A r \in before : r.nth \in Nat /\ r.errors \in Nat /\ r.nth < row.nth
            /\ row.nth \in Nat /\ row.errors = health.error_count
        BY <2>3, <2>4, <2>5, <3>4
      <4>3. \A r \in before : r.errors <= health.error_count
        BY <3>2, <3>4 DEF CountsAll
      <4>4. Rising(before)
        BY <3>2
      <4> HIDE DEF before, after, rows
      <4>5. Rising(after)
        BY <2>4, <4>1, <4>2, <4>3, <4>4 DEF Rising
      <4>6. \A r \in after : r.errors \in Nat /\ r.errors <= health.error_count
        BY <2>4, <4>1, <4>2, <4>3
      <4>7. \A r \in after : r.errors <= health'.error_count
        BY <2>4, <2>6, <4>6
      <4>8. ASSUME health'.latest # None, NEW p \in published', p.kind = "health", p.backend = b
            PROVE  p.fields.errors <= health'.latest.errors
        <5>1. CASE outcome = "stored"
          <6>1. (PublishedKept => PublishedHaveRows)'
            BY PublishedRows, PTL
          <6>2. PublishedKept'
            BY <1>1 DEF RecordsInv
          <6>3. PICK r \in after : r.errors = p.fields.errors
            BY <2>7, <4>8, <6>1, <6>2 DEF after, PublishedHaveRows
          <6> QED BY <2>6, <4>6, <5>1, <6>3
        <5>2. CASE outcome # "stored"
          BY <2>6, <3>2, <3>4, <4>8, <5>2 DEF CountsAll
        <5> QED BY <5>1, <5>2
      <4> QED BY <4>5, <4>7, <4>8 DEF CountsAll, after
    <3> QED BY <3>3, <3>4
  <2> QED BY <2>7 DEF ErrorsInv
<1> QED BY <1>3, <1>4, CaptureStores

\* Every step keeps the count.
LEMMA ErrorsStep ==
  RecordsInv /\ ErrorsInv /\ [RuntimeNext]_<<vars, record_vars>> => ErrorsInv'
<1> SUFFICES ASSUME RecordsInv, ErrorsInv, [RuntimeNext]_<<vars, record_vars>> PROVE ErrorsInv'
  OBVIOUS
<1>1. CASE UNCHANGED <<backend, record_vars>>
  BY <1>1, QuietStep DEF record_vars
<1>2. CASE CrashRecords
  <2>1. backend' = None /\ UNCHANGED tables
    BY <1>2 DEF CrashRecords, Crash, Forgotten
  <2> QED BY <2>1, NoneAssumption DEF ErrorsInv, CountsAll
<1>3. CASE \E r \in Reporters : StampEvent(r)
  BY <1>3, QuietStep DEF StampEvent, vars
<1>4. ASSUME NEW r \in Reporters, AppendEvent(r) PROVE ErrorsInv'
  <2>1. backend \in Backends /\ backend' = backend
    BY <1>4, InUse DEF AppendEvent, RecordsInv, vars
  <2>2. /\ health' \in {health, Noted(health)}
        /\ \E outcome : Publish("event", reporter[r], outcome)
        /\ UNCHANGED tables \/ \E outcome : Store("event", reporter[r], outcome)
    BY <1>4 DEF AppendEvent, Journal, Discard
  <2> QED BY <2>1, <2>2, OtherTables, OtherPublication, QuietStep DEF Tables, RecordsInv
<1>5. CASE BeginDispatch
  BY <1>5, QuietStep DEF BeginDispatch, vars
<1>6. CASE EndDispatch
  <2>1. backend \in Backends /\ backend' = backend
    BY <1>6, InUse DEF EndDispatch, RecordsInv, vars
  <2>2. /\ health' \in {health, Noted(health)} /\ UNCHANGED published
        /\ \E fields, outcome : Store("event", fields, outcome)
    BY <1>6 DEF EndDispatch, Journal
  <2> QED BY <2>1, <2>2, OtherTables, QuietStep DEF Tables, RecordsInv
<1>7. CASE RecordLatency
  <2>1. backend \in Backends /\ backend' = backend
    BY <1>7, InUse DEF RecordLatency, RecordsInv, vars
  <2>2. /\ health' \in {health, Noted(health)}
        /\ \/ UNCHANGED <<tables, published>>
           \/ \E fields, outcome : Store("latency", fields, outcome)
                                   /\ Publish("latency", fields, outcome)
    BY <1>7 DEF RecordLatency
  <2> QED BY <2>1, <2>2, OtherTables, OtherPublication, QuietStep DEF Tables, RecordsInv
<1>8. CASE RecordOutcome
  BY <1>8, QuietStep DEF RecordOutcome, vars, Dispatch
<1>9. CASE \E s \in Samplers : TakeSample(s)
  BY <1>9, QuietStep DEF TakeSample, vars
<1>10. CASE NoteError
  BY <1>10, QuietStep DEF NoteError, vars
<1>11. UNCHANGED <<vars, record_vars>> => UNCHANGED <<backend, record_vars>>
  BY DEF vars
<1> QED
  BY <1>1, <1>2, <1>3, <1>4, <1>5, <1>6, <1>7, <1>8, <1>9, <1>10, <1>11, StartErrors,
     CaptureErrors DEF RuntimeNext, RecordsNext

\* The count of errors is remembered over kills and starts on other backends, and /health
\* with it (RuntimeHealthSupervisor, host_health_status), for any tasks and handlers.
THEOREM ErrorsAreKept == RuntimeSpec => []ErrorsAreRemembered
<1>1. RecordsInv /\ ErrorsInv => ErrorsAreRemembered
  <2> SUFFICES ASSUME RecordsInv, ErrorsInv, backend # None, Durable(backend), InOrder("health"),
                      NEW p \in published, p.kind = "health", p.backend = backend
               PROVE  /\ p.fields.errors <= health.error_count
                      /\ p.fields.errors > 0 => HostHealthStatus # "ok"
    BY DEF ErrorsAreRemembered
  <2>1. backend \in Backends /\ backend # "InMemory"
    BY DEF RecordsInv, RecordsTyped, Durable
  <2>2. Arrived(tables[backend]["health"])
    BY <2>1, Listings DEF InOrder, Arrived, Tables
  <2>3. CountsAll(backend)
    BY <2>1, <2>2 DEF ErrorsInv
  <2>4. (\E row \in tables[p.backend]["health"] : row.errors = p.fields.errors)
        /\ p.fields.errors \in Nat
    BY PublishedIsRow DEF RecordsInv, Signatures
  <2>5. p.fields.errors <= health.error_count
    BY <2>3, <2>4 DEF CountsAll
  <2>6. ASSUME p.fields.errors > 0, health.latest # None
        PROVE  health.latest.errors > 0
    <3>1. p.fields.errors <= health.latest.errors /\ health.latest.errors \in Nat
      BY <2>3, <2>6 DEF CountsAll, RecordsInv, RecordsTyped, Signatures
    <3> QED BY <2>4, <2>6, <3>1
  <2> QED BY <2>5, <2>6 DEF HostHealthStatus
<1>2. RecordsInit => ErrorsInv
  <2> SUFFICES ASSUME RecordsInit PROVE ErrorsInv
    OBVIOUS
  <2>1. backend = None /\ \A b \in Backends : tables[b]["health"] = {}
    BY DEF RecordsInit, Init, RecordsAtRest, Tables
  <2> QED BY <2>1, NoneAssumption DEF ErrorsInv, Rising, CountsAll
<1> QED BY <1>1, <1>2, RecordsInitially, RecordsStep, ErrorsStep, PTL DEF RuntimeSpec

-----------------------------------------------------------------------------
\* Part eight: what a start makes of the events and the latencies is what the process keeps
\* of them.  A latency bears the time its dispatch finished, which no stored one is after.
ProjectionTrue ==
  backend # None /\ broker_configured /\ "event" \notin doubtful =>
    /\ projection = [Rebuilt EXCEPT !.last = projection.last]
    /\ InOrder("event") => projection.last = LastId("event")

LatencyTrue ==
  backend # None /\ broker_configured /\ "latency" \notin doubtful => latency = Collected

TimesOK ==
  /\ \A b \in Backends : \A row \in tables[b]["latency"] : row.at <= clock
  /\ dispatching.stage = "latency" =>
       /\ dispatching.finished <= clock
       /\ \A b \in Backends : \A row \in tables[b]["latency"] : row.at <= dispatching.finished

SummariesInv == ProjectionTrue /\ LatencyTrue /\ TimesOK

\* Only one row is listed last.
OnlyLast(kind) ==
  LET rows == tables[backend][kind]
  IN \A last \in rows : ListedLast(backend, kind, rows, last) => LastListed(kind) = last

\* So whatever is listed last is LastListed.
LEMMA OneIsLast == TablesOK /\ backend \in Backends => \A kind \in Tables : OnlyLast(kind)
<1> SUFFICES ASSUME TablesOK, backend \in Backends, NEW kind \in Tables,
                    NEW last \in tables[backend][kind],
                    ListedLast(backend, kind, tables[backend][kind], last)
             PROVE  LastListed(kind) = last
  BY DEF OnlyLast
<1>1. /\ LastListed(kind) \in tables[backend][kind]
      /\ ListedLast(backend, kind, tables[backend][kind], LastListed(kind))
  BY LastListedLast DEF LastIsListed
<1>2. last \in RowSet(kind) /\ LastListed(kind) \in RowSet(kind)
  BY <1>1 DEF TablesOK, TableOK
<1> QED BY <1>1, <1>2, ListingIsStrict DEF ListedLast

\* An append that leaves another number of rows adds the new one, of a new identifier.
LEMMA AppendAdds ==
  ASSUME NEW b \in Backends, NEW kind \in Tables, NEW rows, TableOK(b, kind, rows),
         NEW row, \A r \in rows : r.nth \in Nat /\ r.nth < row.nth,
         Cardinality(Appended(b, kind, rows, row)) # Cardinality(rows)
  PROVE  /\ Appended(b, kind, rows, row) = rows \cup {row}
         /\ row \notin rows
         /\ Durable(b) /\ kind # "health" => \A r \in rows : r.id # row.id
<1>1. row \notin rows
  OBVIOUS
<1>2. CASE kind = "health" \/ ~Durable(b)
  BY <1>1, <1>2, AppendedRows DEF Insert
<1>3. CASE kind # "health" /\ Durable(b)
  <2>1. Appended(b, kind, rows, row) = Upsert(rows, row)
    BY <1>3, AppendedRows
  <2>2. ASSUME NEW old \in rows, old.id = row.id
        PROVE  FALSE
    <3>1. Upsert(rows, row) = (rows \ {old}) \cup {row}
      BY <1>3, <2>2 DEF Upsert, TableOK, Keyed
    <3>2. IsFiniteSet(rows) /\ IsFiniteSet(rows \ {old}) /\ row \notin rows \ {old}
      BY <1>1, FS_RemoveElement DEF TableOK
    <3>3. Cardinality(rows \ {old}) = Cardinality(rows) - 1 /\ Cardinality(rows) \in Nat
      BY <3>2, FS_RemoveElement, FS_CardinalityType
    <3>4. Cardinality((rows \ {old}) \cup {row}) = Cardinality(rows \ {old}) + 1
      BY <3>2, FS_AddElement
    <3> QED BY <2>1, <3>1, <3>3, <3>4
  <2>3. Upsert(rows, row) = rows \cup {row}
    BY <2>2 DEF Upsert
  <2> QED BY <1>1, <2>1, <2>2, <2>3
<1> QED BY <1>2, <1>3

\* Where a table is not doubtful after Store, nothing was stored, or the new row added.
LEMMA StoreAdds ==
  ASSUME RecordsInv, backend \in Backends, NEW kind \in Tables, NEW fields \in FieldSet(kind),
         NEW outcome \in Outcomes, Store(kind, fields, outcome), kind \notin doubtful'
  PROVE  LET rows == tables[backend][kind]
             row == NewRow(kind, fields)
         IN /\ kind \notin doubtful
            /\ outcome = "refused" => tables'[backend][kind] = rows
            /\ outcome # "refused" =>
                 /\ outcome = "stored"
                 /\ tables'[backend][kind] = rows \cup {row}
                 /\ row \notin rows /\ \A r \in rows : r.nth < row.nth
                 /\ Durable(backend) /\ kind # "health" => \A r \in rows : r.id # row.id
<1> DEFINE rows == tables[backend][kind]
           row == NewRow(kind, fields)
           kept == Appended(backend, kind, rows, row)
<1>1. tables'[backend][kind] = IF outcome = "refused" THEN rows ELSE kept
  BY StoreTables DEF RecordsInv, Stored
<1>2. kind \notin doubtful /\ outcome # "unanswered"
      /\ ~(outcome = "stored" /\ Cardinality(IF outcome = "refused" THEN rows ELSE kept)
                                   = Cardinality(rows))
  BY DEF Store, NewRow
<1>3. outcome \in {"stored", "refused", "unanswered"}
  BY DEF Outcomes
<1>4. TableOK(backend, kind, rows)
  BY DEF RecordsInv, TablesOK
<1>5. \A r \in rows : r.nth \in Nat /\ r.nth < row.nth
  BY NewRowIsNew DEF RecordsInv
<1> HIDE DEF rows, row, kept
<1>6. ASSUME outcome = "stored"
      PROVE  /\ kept = rows \cup {row} /\ row \notin rows
             /\ Durable(backend) /\ kind # "health" => \A r \in rows : r.id # row.id
  BY <1>2, <1>4, <1>5, <1>6, AppendAdds DEF kept
<1> QED BY <1>1, <1>2, <1>3, <1>5, <1>6 DEF rows, row

\* A count over one row more.
LEMMA OneMore ==
  ASSUME NEW rows, IsFiniteSet(rows), NEW row, row \notin rows, NEW action
  PROVE  /\ Count(rows, action) \in Nat
         /\ Count(rows \cup {row}, action)
              = Count(rows, action) + (IF row.action = action THEN 1 ELSE 0)
<1> DEFINE counted == {r \in rows : r.action = action}
<1>1. IsFiniteSet(counted) /\ Cardinality(counted) \in Nat /\ row \notin counted
  BY FS_Subset, FS_CardinalityType
<1>2. CASE row.action = action
  <2>1. {r \in rows \cup {row} : r.action = action} = counted \cup {row}
    BY <1>2
  <2> QED BY <1>1, <1>2, <2>1, FS_AddElement DEF Count
<1>3. CASE row.action # action
  <2>1. {r \in rows \cup {row} : r.action = action} = counted
    BY <1>3
  <2>2. /\ Count(rows, action) = Cardinality(counted)
        /\ Count(rows \cup {row}, action) = Cardinality(counted)
    BY <2>1 DEF Count
  <2> HIDE DEF counted
  <2> QED BY <1>1, <1>3, <2>2
<1> QED BY <1>2, <1>3

\* The rows, the projection and what is known of them rest.
LEMMA ProjectionRests ==
  ASSUME ProjectionTrue, UNCHANGED <<backend, broker_configured, projection>>,
         backend # None => tables'[backend]["event"] = tables[backend]["event"],
         "event" \in doubtful => "event" \in doubtful'
  PROVE  ProjectionTrue'
<1> SUFFICES ASSUME backend # None, broker_configured, "event" \notin doubtful'
             PROVE  ProjectionTrue'
  BY DEF ProjectionTrue
<1>1. tables'[backend]["event"] = tables[backend]["event"]
  OBVIOUS
<1>2. LastId("event")' = LastId("event")
  BY <1>1 DEF LastId, LastListed
<1>3. Rebuilt' = Rebuilt
  BY <1>1, <1>2 DEF Rebuilt
<1>4. InOrder("event")' <=> InOrder("event")
  BY <1>1 DEF InOrder
<1> QED BY <1>2, <1>3, <1>4 DEF ProjectionTrue

\* The same of the latencies.
LEMMA LatencyRests ==
  ASSUME LatencyTrue, UNCHANGED <<backend, broker_configured, latency>>,
         backend # None => tables'[backend]["latency"] = tables[backend]["latency"],
         "latency" \in doubtful => "latency" \in doubtful'
  PROVE  LatencyTrue'
<1> SUFFICES ASSUME backend # None, broker_configured, "latency" \notin doubtful'
             PROVE  LatencyTrue'
  BY DEF LatencyTrue
<1>1. tables'[backend]["latency"] = tables[backend]["latency"]
  OBVIOUS
<1>2. LastId("latency")' = LastId("latency")
  BY <1>1 DEF LastId, LastListed
<1>3. Collected' = Collected
  BY <1>1, <1>2 DEF Collected
<1> QED BY <1>3 DEF LatencyTrue

\* No latency comes, and none is due.
LEMMA TimesRest ==
  ASSUME RecordsInv, TimesOK, clock' \in {clock, clock + 1},
         \A b \in Backends : tables'[b]["latency"] \subseteq tables[b]["latency"],
         dispatching' = dispatching \/ dispatching'.stage # "latency"
  PROVE  TimesOK'
<1>1. \A b \in Backends : \A row \in tables[b]["latency"] : row.at \in Nat
  BY RecordRows DEF RecordsInv, TablesOK, TableOK, Tables
<1>2. clock \in Nat /\ (dispatching.stage = "latency" => dispatching.finished \in Nat)
  BY DEF RecordsInv, RecordsTyped, DispatchStages, Free
<1> QED BY <1>1, <1>2 DEF TimesOK

\* The journal counts what it stored, and knows which event came last.
LEMMA JournalCounts ==
  ASSUME RecordsInv, RecordsInv', ProjectionTrue, backend # None,
         UNCHANGED <<backend, broker_configured>>,
         NEW fields \in FieldSet("event"), NEW outcome \in Outcomes, Journal(fields, outcome)
  PROVE  ProjectionTrue'
<1> SUFFICES ASSUME broker_configured, "event" \notin doubtful' PROVE ProjectionTrue'
  BY DEF ProjectionTrue
<1> DEFINE rows == tables[backend]["event"]
           row == NewRow("event", fields)
<1>1. backend \in Backends /\ "event" \in Tables
  BY DEF RecordsInv, RecordsTyped, Tables
<1>2. /\ "event" \notin doubtful
      /\ outcome = "refused" => tables'[backend]["event"] = rows
      /\ outcome # "refused" =>
           /\ outcome = "stored"
           /\ tables'[backend]["event"] = rows \cup {row}
           /\ row \notin rows /\ \A r \in rows : r.nth < row.nth
  BY <1>1, StoreAdds DEF Journal
<1>3. CASE outcome = "refused"
  <2>1. projection' = projection
    BY <1>3 DEF Journal
  <2> QED BY <1>2, <1>3, <2>1, ProjectionRests
<1>4. CASE outcome = "stored"
  <2>1. IsFiniteSet(rows) /\ Cardinality(rows) \in Nat
    BY <1>1, FS_CardinalityType DEF RecordsInv, TablesOK, TableOK
  <2>2. row.id = fields.id /\ row.action = fields.action
    <3>1. {"id", "action"} \subseteq DOMAIN fields
      BY DEF FieldSet, EventSet, EventFields
    <3> QED BY <1>1, <3>1, NewRowIsNew DEF RecordsInv
  <2>3. projection' = Applied(projection, fields)
    BY <1>4 DEF Journal
  <2> HIDE DEF rows, row
  <2>4. tables'[backend]["event"] = rows \cup {row}
    BY <1>2, <1>4
  <2>5. Cardinality(rows \cup {row}) = Cardinality(rows) + 1
    BY <1>2, <1>4, <2>1, FS_AddElement
  <2>6. projection' = [Rebuilt' EXCEPT !.last = projection'.last]
    <3>1. projection = [Rebuilt EXCEPT !.last = projection.last]
      BY <1>2 DEF ProjectionTrue
    <3>2. projection = [total |-> Cardinality(rows), manual |-> Count(rows, "mode_changed"),
                        succeeded |-> Count(rows, "dispatch_succeeded"),
                        failed |-> Count(rows, "dispatch_failed"), last |-> projection.last]
      BY <3>1 DEF Rebuilt, rows
    <3>3. \A action : Count(rows \cup {row}, action)
                        = Count(rows, action) + (IF row.action = action THEN 1 ELSE 0)
      BY <1>2, <1>4, <2>1, OneMore
    <3>4. Rebuilt' = [total |-> Cardinality(rows) + 1,
                      manual |-> Count(rows \cup {row}, "mode_changed"),
                      succeeded |-> Count(rows \cup {row}, "dispatch_succeeded"),
                      failed |-> Count(rows \cup {row}, "dispatch_failed"),
                      last |-> LastId("event")']
      BY <2>4, <2>5 DEF Rebuilt
    <3>5. projection' = [total |-> Cardinality(rows) + 1,
                         manual |-> Count(rows \cup {row}, "mode_changed"),
                         succeeded |-> Count(rows \cup {row}, "dispatch_succeeded"),
                         failed |-> Count(rows \cup {row}, "dispatch_failed"),
                         last |-> fields.id]
      BY <2>2, <2>3, <3>2, <3>3 DEF Applied
    <3> QED BY <3>4, <3>5
  <2>7. ASSUME InOrder("event")' PROVE projection'.last = LastId("event")'
    <3>1. ListedLast(backend, "event", rows \cup {row}, row)
      BY <1>2, <1>4, <2>4, <2>7 DEF InOrder, ListedLast
    <3>2. (TablesOK /\ backend \in Backends => \A kind \in Tables : OnlyLast(kind))'
      BY OneIsLast, PTL
    <3>3. LastListed("event")' = row
      BY <1>1, <2>4, <3>1, <3>2 DEF RecordsInv, OnlyLast
    <3> QED BY <2>2, <2>3, <2>4, <3>3 DEF LastId, Applied
  <2> QED BY <2>6, <2>7 DEF ProjectionTrue
<1> QED BY <1>2, <1>3, <1>4

\* A latency is stored as the last of its table, and the process keeps it as that.
LEMMA LatencyCounts ==
  ASSUME RecordsInv, RecordsInv', LatencyTrue, TimesOK, RecordLatency
  PROVE  LatencyTrue'
<1> DEFINE fields == [id |-> dispatching.finished, at |-> dispatching.finished]
           rows == tables[backend]["latency"]
           row == NewRow("latency", fields)
<1>1. backend \in Backends /\ "latency" \in Tables /\ UNCHANGED <<backend, broker_configured>>
  BY InUse DEF RecordLatency, RecordsInv, vars, Tables
<1>2. dispatching.finished \in Nat /\ fields \in FieldSet("latency")
  BY DEF RecordLatency, RecordsInv, RecordsTyped, DispatchStages, Free, FieldSet, LatencySet
<1>3. CASE UNCHANGED <<tables, doubtful, latency>>
  BY <1>1, <1>3, LatencyRests
<1>4. ASSUME NEW outcome \in Outcomes, Store("latency", fields, outcome),
             latency' = IF outcome = "stored"
                        THEN [total |-> latency.total + 1, latest |-> fields.id] ELSE latency
      PROVE  LatencyTrue'
  <2> SUFFICES ASSUME broker_configured, "latency" \notin doubtful' PROVE LatencyTrue'
    BY <1>1 DEF LatencyTrue
  <2>1. /\ "latency" \notin doubtful
        /\ outcome = "refused" => tables'[backend]["latency"] = rows
        /\ outcome # "refused" =>
             /\ outcome = "stored"
             /\ tables'[backend]["latency"] = rows \cup {row}
             /\ row \notin rows /\ \A r \in rows : r.nth < row.nth
             /\ Durable(backend) => \A r \in rows : r.id # row.id
    BY <1>1, <1>2, <1>4, StoreAdds
  <2>2. CASE outcome = "refused"
    BY <1>1, <1>4, <2>1, <2>2, LatencyRests
  <2>3. CASE outcome = "stored"
    <3>1. IsFiniteSet(rows) /\ \A r \in rows : r \in RowSet("latency")
      BY <1>1 DEF RecordsInv, TablesOK, TableOK
    <3>2. row.at = fields.at /\ row.id = fields.id
      BY <1>1, <1>2, NewRowIsNew DEF RecordsInv
    <3>3. \A r \in rows : r.at <= row.at /\ r.at \in Nat /\ r.id = r.at /\ row.at \in Nat
      BY <1>1, <1>2, <3>1, <3>2, RecordRows DEF TimesOK, RecordLatency
    <3>4. fields.id = row.id /\ row.id = row.at
      BY <3>2
    <3> HIDE DEF rows, row, fields
    <3>5. tables'[backend]["latency"] = rows \cup {row}
      BY <2>1, <2>3
    <3>6. ListedLast(backend, "latency", rows \cup {row}, row)
      <4>1. CASE Durable(backend)
        <5>1. \A r \in rows : EarlierTime(r, row)
          BY <2>1, <2>3, <3>3, <3>4, <4>1 DEF EarlierTime
        <5> QED BY <1>1, <4>1, <5>1, Listings DEF ListedLast
      <4>2. CASE ~Durable(backend)
        <5>1. \A r \in rows : r.nth < row.nth
          BY <2>1, <2>3
        <5> QED BY <1>1, <4>2, <5>1, Listings DEF ListedLast, Durable
      <4> QED BY <4>1, <4>2
    <3>7. LastListed("latency")' = row
      <4>1. (TablesOK /\ backend \in Backends => \A kind \in Tables : OnlyLast(kind))'
        BY OneIsLast, PTL
      <4> QED BY <1>1, <3>5, <3>6, <4>1 DEF RecordsInv, OnlyLast
    <3>8. Cardinality(rows \cup {row}) = Cardinality(rows) + 1
      BY <2>1, <2>3, <3>1, FS_AddElement
    <3>9. Collected' = [total |-> Cardinality(rows) + 1, latest |-> row.id]
      BY <1>1, <3>5, <3>7, <3>8 DEF Collected, LastId
    <3>10. latency.total = Cardinality(rows)
      BY <1>1, <2>1, NoneAssumption DEF LatencyTrue, Collected, rows
    <3> QED BY <1>4, <2>3, <3>4, <3>9, <3>10 DEF LatencyTrue
  <2> QED BY <2>1, <2>2, <2>3
<1> QED BY <1>3, <1>4 DEF RecordLatency

\* A latency is of the dispatch that ends, which was the last to end.
LEMMA LatencyTimes ==
  ASSUME RecordsInv, RecordsInv', TimesOK, RecordLatency
  PROVE  TimesOK'
<1> DEFINE fields == [id |-> dispatching.finished, at |-> dispatching.finished]
<1>1. backend \in Backends /\ "latency" \in Tables /\ UNCHANGED clock
      /\ dispatching'.stage = "history"
  BY InUse DEF RecordLatency, RecordsInv, Tables
<1>2. dispatching.finished \in Nat /\ fields \in FieldSet("latency")
      /\ dispatching.finished <= clock
  BY DEF RecordLatency, RecordsInv, RecordsTyped, DispatchStages, Free, FieldSet, LatencySet,
         TimesOK
<1>3. CASE UNCHANGED tables
  BY <1>1, <1>3, TimesRest
<1>4. ASSUME NEW outcome \in Outcomes, Store("latency", fields, outcome)
      PROVE  TimesOK'
  <2> DEFINE row == NewRow("latency", fields)
  <2>1. row.at = dispatching.finished
    BY <1>1, <1>2, NewRowIsNew DEF RecordsInv
  <2>2. \A b \in Backends : tables'[b]["latency"] \subseteq tables[b]["latency"] \cup {row}
    <3>1. Appended(backend, "latency", tables[backend]["latency"], row)
            \subseteq tables[backend]["latency"] \cup {row}
      BY <1>1, AppendedRows DEF Insert, Upsert
    <3> QED BY <1>1, <1>4, <3>1, StoreTables DEF RecordsInv, Stored
  <2> QED BY <1>1, <1>2, <2>1, <2>2 DEF TimesOK
<1> QED BY <1>3, <1>4 DEF RecordLatency

\* Every step keeps what is kept of the tables.
LEMMA SummariesStep ==
  RecordsInv /\ RecordsInv' /\ SummariesInv /\ [RuntimeNext]_<<vars, record_vars>>
    => SummariesInv'
<1> SUFFICES ASSUME RecordsInv, RecordsInv', SummariesInv, [RuntimeNext]_<<vars, record_vars>>
             PROVE  SummariesInv'
  OBVIOUS
<1> USE DEF SummariesInv
<1>1. clock \in Nat /\ "event" \in Tables /\ "latency" \in Tables
  BY DEF RecordsInv, RecordsTyped, Tables
<1>2. ASSUME UNCHANGED <<backend, broker_configured, projection, latency, tables, doubtful>>,
             clock' \in {clock, clock + 1},
             dispatching' = dispatching \/ dispatching'.stage # "latency"
      PROVE  SummariesInv'
  BY <1>2, ProjectionRests, LatencyRests, TimesRest
<1>3. CASE UNCHANGED <<backend, record_vars>>
  BY <1>2, <1>3 DEF record_vars
<1>4. CASE StartRecords
  <2>1. TimesOK'
    <3>1. \A b \in Backends : tables'[b]["latency"] \subseteq tables[b]["latency"]
      BY <1>1, <1>4 DEF StartRecords, RecordsInv, TablesOK
    <3> QED BY <1>4, <3>1, TimesRest DEF StartRecords
  <2>2. LatencyTrue'
    BY <1>4 DEF StartRecords, LatencyTrue
  <2>3. ProjectionTrue'
    <3> SUFFICES ASSUME broker_configured' PROVE ProjectionTrue'
      BY DEF ProjectionTrue
    <3>1. projection' = Rebuilt'
      BY <1>4 DEF StartRecords
    <3> QED BY <3>1 DEF Rebuilt, ProjectionTrue
  <2> QED BY <2>1, <2>2, <2>3
<1>5. CASE CrashRecords
  <2>1. backend' = None /\ UNCHANGED <<tables, clock>> /\ dispatching' = Free
    BY <1>5 DEF CrashRecords, Crash, Forgotten, RecordsForgotten
  <2>2. TimesOK'
    BY <2>1, TimesRest DEF Free
  <2> QED BY <2>1, <2>2 DEF ProjectionTrue, LatencyTrue
<1>6. CASE \E r \in Reporters : StampEvent(r)
  BY <1>2, <1>6 DEF StampEvent, Read, vars
<1>7. ASSUME NEW r \in Reporters, AppendEvent(r) PROVE SummariesInv'
  <2>1. /\ backend \in Backends
        /\ UNCHANGED <<backend, broker_configured, clock, dispatching, latency>>
    BY <1>7, InUse DEF AppendEvent, RecordsInv, vars
  <2>2. CASE UNCHANGED <<projection, tables, doubtful>>
    BY <1>2, <2>1, <2>2
  <2>3. ASSUME NEW outcome \in Outcomes, Journal(reporter[r], outcome) PROVE SummariesInv'
    <3>1. reporter[r] \in FieldSet("event")
      BY <1>7 DEF AppendEvent, RecordsInv, RecordsTyped, FieldSet
    <3>2. ProjectionTrue'
      BY <1>7, <2>1, <2>3, <3>1, JournalCounts, NoneAssumption
    <3>3. /\ \A b \in Backends : tables'[b]["latency"] = tables[b]["latency"]
          /\ "latency" \in doubtful => "latency" \in doubtful'
      BY <1>1, <2>1, <2>3, OtherTables DEF Journal, RecordsInv
    <3> QED BY <2>1, <3>2, <3>3, LatencyRests, TimesRest
  <2> QED BY <1>7, <2>2, <2>3 DEF AppendEvent, Discard
<1>8. CASE BeginDispatch
  <2>1. dispatching' = dispatching \/ dispatching'.stage # "latency"
    BY <1>8 DEF BeginDispatch
  <2> QED BY <1>2, <1>8, <2>1 DEF BeginDispatch, Read, vars
<1>9. CASE EndDispatch
  <2>1. backend \in Backends /\ UNCHANGED <<backend, broker_configured, latency>>
    BY <1>9, InUse DEF EndDispatch, RecordsInv, vars
  <2>2. PICK action \in {"dispatch_succeeded", "dispatch_skipped", "dispatch_failed"},
             outcome \in Outcomes, at \in {clock, clock + 1} :
          /\ clock' = at
          /\ Journal(EventFields(action, at), outcome)
          /\ \/ dispatching' = Free
             \/ dispatching' = [stage |-> "latency", started |-> dispatching.started,
                                finished |-> at]
    BY <1>9 DEF EndDispatch, Read
  <2>3. at \in Nat /\ at >= clock /\ EventFields(action, at) \in FieldSet("event")
    BY <1>1, <2>2, EventsAreFields DEF Rank
  <2>4. ProjectionTrue'
    BY <2>1, <2>2, <2>3, JournalCounts, NoneAssumption
  <2>5. /\ \A b \in Backends : tables'[b]["latency"] = tables[b]["latency"]
        /\ "latency" \in doubtful => "latency" \in doubtful'
    BY <1>1, <2>1, <2>2, OtherTables DEF Journal, RecordsInv
  <2>6. LatencyTrue'
    BY <2>1, <2>5, LatencyRests
  <2>7. \A b \in Backends : \A row \in tables'[b]["latency"] : row.at <= at
    <3>1. \A b \in Backends : \A row \in tables[b]["latency"] : row.at \in Nat /\ row.at <= clock
      BY <1>1, RecordRows DEF RecordsInv, TablesOK, TableOK, TimesOK
    <3> QED BY <1>1, <2>3, <2>5, <3>1
  <2>8. TimesOK'
    BY <2>2, <2>3, <2>7 DEF TimesOK, Free
  <2> QED BY <2>4, <2>6, <2>8
<1>10. CASE RecordLatency
  <2>1. ProjectionTrue'
    <3>1. /\ backend \in Backends /\ UNCHANGED <<backend, broker_configured, projection>>
      BY <1>10, InUse DEF RecordLatency, RecordsInv, vars
    <3>2. /\ tables'[backend]["event"] = tables[backend]["event"]
          /\ "event" \in doubtful => "event" \in doubtful'
      <4>1. \/ UNCHANGED <<tables, doubtful>>
            \/ \E fields, outcome : Store("latency", fields, outcome)
        BY <1>10 DEF RecordLatency
      <4> QED BY <1>1, <3>1, <4>1, OtherTables DEF RecordsInv
    <3> QED BY <3>1, <3>2, ProjectionRests
  <2> QED BY <1>10, <2>1, LatencyCounts, LatencyTimes
<1>11. CASE RecordOutcome
  <2>1. dispatching'.stage # "latency"
    BY <1>11 DEF RecordOutcome, Free
  <2> QED BY <1>2, <1>11, <2>1 DEF RecordOutcome, Dispatch, vars
<1>12. CASE \E s \in Samplers : TakeSample(s)
  BY <1>2, <1>12 DEF TakeSample, Read, vars
<1>13. ASSUME NEW s \in Samplers, Capture(s) PROVE SummariesInv'
  <2>1. /\ backend \in Backends
        /\ UNCHANGED <<backend, broker_configured, clock, dispatching, projection, latency>>
    BY <1>13, CaptureStores DEF Capture
  <2>2. \/ UNCHANGED <<tables, doubtful>>
        \/ \E fields, outcome : Store("health", fields, outcome)
    BY <1>13 DEF Capture
  <2>3. \A kind \in {"event", "latency"} :
          /\ \A b \in Backends : tables'[b][kind] = tables[b][kind]
          /\ kind \in doubtful => kind \in doubtful'
    BY <1>1, <2>1, <2>2, OtherTables DEF Tables, RecordsInv
  <2> QED BY <2>1, <2>3, ProjectionRests, LatencyRests, TimesRest
<1>14. CASE NoteError
  BY <1>2, <1>14 DEF NoteError, vars
<1>15. UNCHANGED <<vars, record_vars>> => UNCHANGED <<backend, record_vars>>
  BY DEF vars
<1> QED
  BY <1>3, <1>4, <1>5, <1>6, <1>7, <1>8, <1>9, <1>10, <1>11, <1>12, <1>13, <1>14, <1>15
  DEF RuntimeNext, RecordsNext

\* What the process keeps of its events and latencies is what a restart would make of the
\* tables (RuntimeEventProjector, RuntimeLatencyCollector), for any handlers and tasks, over
\* kills, starts on other backends and appends that fail.
THEOREM SummariesAreTrue == RuntimeSpec => []SummariesFollowStore
<1>1. RecordsInv /\ SummariesInv => SummariesFollowStore
  <2> SUFFICES ASSUME SummariesInv, backend # None, broker_configured
               PROVE  /\ "event" \notin doubtful =>
                           /\ [projection EXCEPT !.last = None] = [Rebuilt EXCEPT !.last = None]
                           /\ InOrder("event") => projection = Rebuilt
                      /\ "latency" \notin doubtful => latency = Collected
    BY DEF SummariesFollowStore
  <2>1. "latency" \notin doubtful => latency = Collected
    BY DEF SummariesInv, LatencyTrue
  <2>2. ASSUME "event" \notin doubtful
        PROVE  /\ [projection EXCEPT !.last = None] = [Rebuilt EXCEPT !.last = None]
               /\ InOrder("event") => projection = Rebuilt
    BY <2>2 DEF SummariesInv, ProjectionTrue, Rebuilt
  <2> QED BY <2>1, <2>2
<1>2. RecordsInit => SummariesInv
  <2> SUFFICES ASSUME RecordsInit PROVE SummariesInv
    OBVIOUS
  <2>1. backend = None /\ \A b \in Backends : tables[b]["latency"] = {}
    BY DEF RecordsInit, Init, RecordsAtRest, Tables
  <2>2. dispatching.stage # "latency"
    BY DEF RecordsInit, RecordsAtRest, Free
  <2> QED BY <2>1, <2>2 DEF SummariesInv, ProjectionTrue, LatencyTrue, TimesOK
<1> QED BY <1>1, <1>2, RecordsInitially, RecordsStep, SummariesStep, PTL DEF RuntimeSpec
=============================================================================
