--------------------------- MODULE RuntimeRecords ---------------------------
(***************************************************************************)
(* What the runtime host writes besides the trading history, over the same *)
(* backend: the event journal with its projection (crates/journal,         *)
(* state_store), trade-path latencies (crates/metrics) and health          *)
(* snapshots (crates/health), and what a start makes of them.              *)
(*                                                                         *)
(* A host event gets its time and identifier before the dispatcher's lock, *)
(* a health snapshot before the supervisor's, so that both may be stored   *)
(* in another order than that of their times.  A dispatch holds its lock   *)
(* from the broker's call to the last record of it (BoxedDispatcher); it   *)
(* is in three steps, between which the process may be killed.  Of the     *)
(* records CommandLoop journals only the last is here.  What is published  *)
(* after an append succeeded is published with it: nothing else follows.   *)
(*                                                                         *)
(* Left out: texts and payloads, and of a snapshot its gauges, which stand *)
(* for each other as its `reading`.                                        *)
(***************************************************************************)
EXTENDS HistoryRecorder, FiniteSetsExt

CONSTANTS
  Reporters,           \* handlers with an event for the journal
  Samplers,            \* tasks that capture health: health_refresh_loop, handlers
  RecordBudgets        \* bound: how many record events a behaviour has

RecordKinds == {"event", "dispatch", "capture", "note", "failure"}

ASSUME RecordsAssumption == RecordBudgets \subseteq [RecordKinds -> Nat]

VARIABLES
  clock,         \* the time last read
  broker_configured,  \* build_dispatcher found all the broker's fields
  tables,        \* of every backend: events, latencies, health snapshots
  reporter,      \* the event each handler is about to append
  dispatching,   \* how far the dispatch under way is
  sample,        \* the reading each task is about to capture
  projection, latency, health,  \* what the process keeps of each table
  published,     \* history: the records sent to the event streams
  doubtful,      \* history: tables in which, since the start, an append replaced
                 \* a record or was stored without the process knowing
  records_left   \* events of each kind still to come

record_vars == <<clock, broker_configured, tables, reporter, dispatching, sample, projection,
                 latency, health, published, doubtful, records_left>>

Tables == {"event", "latency", "health"}
Free == [stage |-> "free"]

\* ProjectedRuntimeState, RuntimeLatencyState, RuntimeHealthState
NoProjection == [total |-> 0, manual |-> 0, succeeded |-> 0, failed |-> 0, last |-> None]
NoLatency == [total |-> 0, latest |-> None]
NoHealth == [error_count |-> 0, latest |-> None]

RecordsAtRest ==
  /\ clock = 0
  /\ broker_configured = FALSE
  /\ tables = [b \in Backends |-> [t \in Tables |-> {}]]
  /\ reporter = [r \in Reporters |-> None]
  /\ dispatching = Free
  /\ sample = [s \in Samplers |-> None]
  /\ projection = NoProjection
  /\ latency = NoLatency
  /\ health = NoHealth
  /\ published = {}
  /\ doubtful = {}

RecordsInit == Init /\ RecordsAtRest /\ records_left \in RecordBudgets

Spend(kind) ==
  /\ records_left[kind] > 0
  /\ records_left' = [records_left EXCEPT ![kind] = @ - 1]

\* The clock may read the same twice.
Read(at) == at \in {clock, clock + 1} /\ clock' = at

\* host_event_id: a record's category and action, then its time.
Rank == [dispatch_failed |-> 0, dispatch_skipped |-> 1, dispatch_succeeded |-> 2,
         mode_changed |-> 3]
EventId(action, at) == 10 * at + Rank[action]

-----------------------------------------------------------------------------
\* The row of a table that is listed last.
LastListed(kind) ==
  LET rows == tables[backend][kind]
  IN CHOOSE row \in rows : \A other \in rows :
       other = row \/ ListedFirst(backend, kind, other, row)
LastId(kind) == IF tables[backend][kind] = {} THEN None ELSE LastListed(kind).id

\* ProjectedRuntimeState::apply
Applied(state, row) ==
  LET one(is) == IF is THEN 1 ELSE 0
  IN [total |-> state.total + 1,
      manual |-> state.manual + one(row.action = "mode_changed"),
      succeeded |-> state.succeeded + one(row.action = "dispatch_succeeded"),
      failed |-> state.failed + one(row.action = "dispatch_failed"),
      last |-> row.id]

\* rebuild_from_events: each row applied, in the order of the listing.
Count(rows, action) == Cardinality({row \in rows : row.action = action})
Rebuilt ==
  LET rows == tables[backend]["event"]
  IN [total |-> Cardinality(rows), manual |-> Count(rows, "mode_changed"),
      succeeded |-> Count(rows, "dispatch_succeeded"), failed |-> Count(rows, "dispatch_failed"),
      last |-> LastId("event")]

\* RuntimeLatencyCollector::from_persistence
Collected ==
  [total |-> Cardinality(tables[backend]["latency"]), latest |-> LastId("latency")]

\* same_health_signature: all of a snapshot but its time.
LastSignature ==
  LET last == LastListed("health") IN [errors |-> last.errors, reading |-> last.reading]

\* Mutant of Supervised: the count of errors begins with the process.
SupervisedFromZero ==
  IF tables[backend]["health"] = {} THEN NoHealth
  ELSE [error_count |-> 0, latest |-> LastSignature]

\* RuntimeHealthSupervisor::from_persistence
Supervised ==
  IF tables[backend]["health"] = {} THEN NoHealth
  ELSE [error_count |-> LastSignature.errors, latest |-> LastSignature]

Noted(state) == [state EXCEPT !.error_count = @ + 1]

\* The process at rest holds nothing of them.
RecordsForgotten ==
  /\ broker_configured' = FALSE
  /\ reporter' = [r \in Reporters |-> None]
  /\ dispatching' = Free
  /\ sample' = [s \in Samplers |-> None]
  /\ projection' = NoProjection
  /\ latency' = NoLatency
  /\ health' = NoHealth
  /\ doubtful' = {}

\* build_dispatcher: the settings have every field of the broker, or its commands and
\* appends go to a dispatcher without one.
BuildDispatcher == broker_configured' \in BOOLEAN

\* build_runtime_host_state: one backend for all, which each of them lists.
StartRecords ==
  /\ Start
  /\ tables' = [tables EXCEPT !["InMemory"] = [t \in Tables |-> {}]]
  /\ BuildDispatcher
  /\ projection' = IF broker_configured' THEN Rebuilt' ELSE NoProjection
  /\ latency' = Collected'
  /\ health' = Supervised'
  /\ UNCHANGED <<clock, reporter, dispatching, sample, published, doubtful,
                 records_left>>

\* The process is killed.
CrashRecords ==
  /\ Crash
  /\ RecordsForgotten
  /\ UNCHANGED <<clock, tables, published, records_left>>

-----------------------------------------------------------------------------
\* What may become of an append: a durable backend may fail, and one that is
\* reached over a network may have stored what it does not acknowledge.
Outcomes ==
  {"stored"} \cup (IF Durable(backend) /\ records_left["failure"] > 0
                   THEN {"refused"} \cup (IF backend = "Postgres" THEN {"unanswered"} ELSE {})
                   ELSE {})

\* A record as the nth of its table.
Row(nth, fields) ==
  [field \in {"nth"} \cup DOMAIN fields |-> IF field = "nth" THEN nth ELSE fields[field]]

\* The rowid, or the place in the vector: after those of the rows there are.
NextNth(rows) == IF rows = {} THEN 0 ELSE 1 + Max({row.nth : row \in rows})

Store(kind, fields, outcome) ==
  LET rows == tables[backend][kind]
      row == Row(NextNth(rows), fields)
      kept == IF outcome = "refused" THEN rows ELSE Appended(backend, kind, rows, row)
      replaced == outcome = "stored" /\ Cardinality(kept) = Cardinality(rows)
  IN /\ tables' = [tables EXCEPT ![backend][kind] = kept]
     /\ doubtful' = IF outcome = "unanswered" \/ replaced THEN doubtful \cup {kind}
                    ELSE doubtful

\* The checks of a Paper or Live arm ask of the records: a dispatcher with a broker,
\* and no blocking report of the storage.
MayArm == broker_configured /\ StorageHealth(backend) # "Blocking"

Publication(kind, fields) ==
  [kind |-> kind, backend |-> backend, armable |-> MayArm, fields |-> fields]

\* Mutant of Publish: whatever became of the append.
PublishAnyway(kind, fields, outcome) ==
  published' = published \cup {Publication(kind, fields)}

\* The event streams get what was acknowledged.
Publish(kind, fields, outcome) ==
  published' = IF outcome = "stored"
               THEN published \cup {Publication(kind, fields)}
               ELSE published

EventFields(action, at) == [id |-> EventId(action, at), at |-> at, action |-> action]

\* Mutant of Journal: the projection is updated before the append.
JournalFirstProjected(fields, outcome) ==
  /\ Store("event", fields, outcome)
  /\ projection' = Applied(projection, fields)

\* ProjectingJournal::append
Journal(fields, outcome) ==
  /\ Store("event", fields, outcome)
  /\ projection' = IF outcome = "stored" THEN Applied(projection, fields) ELSE projection

SpendFailure(outcome) ==
  IF outcome = "stored" THEN UNCHANGED records_left ELSE Spend("failure")

-----------------------------------------------------------------------------
\* UnavailableRuntimeCommandDispatcher: what it is told to append is nowhere, and it
\* answers that it was stored.
Discard == UNCHANGED <<tables, doubtful, projection, health, records_left>>

\* journal_host_event: the record is made,
StampEvent(r) ==
  /\ backend # None
  /\ reporter[r] = None
  /\ Spend("event")
  /\ \E at \in {clock, clock + 1} :
       /\ Read(at)
       /\ reporter' = [reporter EXCEPT ![r] = EventFields("mode_changed", at)]
  /\ UNCHANGED <<vars, broker_configured, tables, dispatching, sample, projection,
                 latency, health, published, doubtful>>

\* and appended under the dispatcher's lock.
AppendEvent(r) ==
  /\ reporter[r] # None
  /\ dispatching = Free
  /\ reporter' = [reporter EXCEPT ![r] = None]
  /\ IF broker_configured
     THEN \E outcome \in Outcomes :
            /\ Journal(reporter[r], outcome)
            /\ Publish("event", reporter[r], outcome)
            /\ health' = IF outcome = "stored" THEN health ELSE Noted(health)
            /\ SpendFailure(outcome)
     ELSE Publish("event", reporter[r], "stored") /\ Discard
  /\ UNCHANGED <<vars, broker_configured, clock, dispatching, sample, latency>>

-----------------------------------------------------------------------------
\* BoxedDispatcher::dispatch: the command goes to the kernel's loop and the broker.
BeginDispatch ==
  /\ backend # None
  /\ dispatching = Free
  /\ Spend("dispatch")
  /\ IF broker_configured
     THEN /\ \E at \in {clock, clock + 1} :
               Read(at) /\ dispatching' = [stage |-> "broker", started |-> at]
          /\ UNCHANGED health
     ELSE /\ health' = Noted(health)
          /\ UNCHANGED <<clock, dispatching>>
  /\ UNCHANGED <<vars, broker_configured, tables, reporter, sample, projection,
                 latency, published, doubtful>>

\* Its last record is journaled; a failure of the broker or the journal is an error.
EndDispatch ==
  /\ dispatching.stage = "broker"
  /\ \E action \in {"dispatch_succeeded", "dispatch_skipped", "dispatch_failed"},
        outcome \in Outcomes, at \in {clock, clock + 1} :
       LET ok == outcome = "stored" /\ action # "dispatch_failed"
       IN /\ Read(at)
          /\ Journal(EventFields(action, at), outcome)
          /\ SpendFailure(outcome)
          /\ health' = IF ok THEN health ELSE Noted(health)
          /\ dispatching' =
               IF ~ok \/ action = "dispatch_skipped" THEN Free
               ELSE [stage |-> "latency", started |-> dispatching.started, finished |-> at]
  /\ UNCHANGED <<vars, broker_configured, reporter, sample, latency, published>>

\* calculate_trade_path_latency, empty for an error: each time that is known must
\* not be before the one it follows.
TradePathLatency(answered, filled, synced) ==
  {l \in {"latency"} : /\ filled # None => answered <= filled
                       /\ filled # None /\ synced # None => filled <= synced}

\* The broker's times that are not before the dispatch.
Since(started, at) == IF at >= started THEN at ELSE None

\* record_latency, of the last fill and sync the broker reports.
RecordLatency ==
  /\ dispatching.stage = "latency"
  /\ \E fill_at, sync_at \in (dispatching.started - 1)..(dispatching.finished + 1) :
       LET fields == [id |-> dispatching.finished, at |-> dispatching.finished]
       IN IF TradePathLatency(dispatching.finished, Since(dispatching.started, fill_at),
                              Since(dispatching.started, sync_at)) # {}
          THEN \E outcome \in Outcomes :
                 /\ Store("latency", fields, outcome)
                 /\ Publish("latency", fields, outcome)
                 /\ SpendFailure(outcome)
                 /\ IF outcome = "stored"
                    THEN /\ latency' = [total |-> latency.total + 1, latest |-> fields.id]
                         /\ UNCHANGED health
                    ELSE health' = Noted(health) /\ UNCHANGED latency
          ELSE /\ health' = Noted(health)
               /\ UNCHANGED <<tables, doubtful, published, records_left, latency>>
  /\ dispatching' = [stage |-> "history"]
  /\ UNCHANGED <<vars, broker_configured, clock, reporter, sample, projection>>

\* record_execution_outcome, if an order came of it.
RecordOutcome ==
  /\ dispatching.stage = "history"
  /\ \/ \E o \in Orders :
          /\ Dispatch(o)
          /\ health' = IF recorded_run'[o].backend = "lost" THEN Noted(health) ELSE health
     \/ UNCHANGED <<vars, health>>
  /\ dispatching' = Free
  /\ UNCHANGED <<clock, broker_configured, tables, reporter, sample, projection,
                 latency, published, doubtful, records_left>>

-----------------------------------------------------------------------------
\* sync_system_health: a reading and its time,
TakeSample(s) ==
  /\ backend # None
  /\ sample[s] = None
  /\ Spend("capture")
  /\ \E at \in {clock, clock + 1}, reading \in BOOLEAN :
       Read(at) /\ sample' = [sample EXCEPT ![s] = [at |-> at, reading |-> reading]]
  /\ UNCHANGED <<vars, broker_configured, tables, reporter, dispatching, projection,
                 latency, health, published, doubtful>>

\* and capture, under the supervisor's lock: a snapshot like the last is not kept.
Capture(s) ==
  /\ sample[s] # None
  /\ LET signature == [errors |-> health.error_count, reading |-> sample[s].reading]
     IN IF health.latest = signature
        THEN UNCHANGED <<tables, doubtful, published, records_left, health>>
        ELSE \E outcome \in Outcomes :
               /\ Store("health", [at |-> sample[s].at, errors |-> signature.errors,
                                  reading |-> signature.reading], outcome)
               /\ Publish("health", signature, outcome)
               /\ SpendFailure(outcome)
               /\ health' = IF outcome = "stored" THEN [health EXCEPT !.latest = signature]
                            ELSE Noted(health)
  /\ sample' = [sample EXCEPT ![s] = None]
  /\ UNCHANGED <<vars, broker_configured, clock, reporter, dispatching, projection,
                 latency>>

\* An error elsewhere: a sync of the history, a run record, a list that failed.
NoteError ==
  /\ backend # None
  /\ Spend("note")
  /\ health' = Noted(health)
  /\ UNCHANGED <<vars, broker_configured, clock, tables, reporter, dispatching, sample,
                 projection, latency, published, doubtful>>

RecordsNext ==
  \/ StartRecords \/ CrashRecords
  \/ \E r \in Reporters : StampEvent(r) \/ AppendEvent(r)
  \/ BeginDispatch \/ EndDispatch \/ RecordLatency \/ RecordOutcome
  \/ \E s \in Samplers : TakeSample(s) \/ Capture(s)
  \/ NoteError

\* With the steps of the trading history that are no start or end of the process.
RuntimeNext == RecordsNext \/ (Next /\ UNCHANGED <<backend, record_vars>>)

RuntimeSpec == RecordsInit /\ [][RuntimeNext]_<<vars, record_vars>>

-----------------------------------------------------------------------------
\* host_health_status
HostHealthStatus ==
  IF ~broker_configured \/ ~Durable(backend) THEN "degraded"
  ELSE IF health.latest = None THEN "initializing"
  ELSE IF health.latest.reading \/ health.latest.errors > 0 THEN "degraded"
  ELSE "ok"

\* The records of a table are listed as they arrived.
InOrder(kind) ==
  \A r, s \in tables[backend][kind] : r.nth < s.nth => ListedFirst(backend, kind, r, s)

\* Where the checks let a run arm, what was published is stored, and stays so over
\* kills, starts on other backends and appends that fail.
PublishedIsStored ==
  \A p \in published :
    p.armable =>
      \E row \in tables[p.backend][p.kind] :
        \A field \in DOMAIN p.fields : row[field] = p.fields[field]

\* What the process keeps of its tables, however it was restarted, is what a restart
\* would make of them, except in a table where an append replaced a record or went
\* unacknowledged; which event is the last may differ if they came out of order.
SummariesFollowStore ==
  backend # None /\ broker_configured =>
    /\ "event" \notin doubtful =>
         /\ [projection EXCEPT !.last = None] = [Rebuilt EXCEPT !.last = None]
         /\ InOrder("event") => projection = Rebuilt
    /\ "latency" \notin doubtful => latency = Collected

\* The count of errors is never below one that was published on this backend, kills
\* and starts on another one in between, and once there was one, /health is not "ok"
\* again; unless two captures crossed between their time and the supervisor's lock.
ErrorsAreRemembered ==
  backend # None /\ Durable(backend) /\ InOrder("health") =>
    \A p \in published :
      p.kind = "health" /\ p.backend = backend =>
        /\ p.fields.errors <= health.error_count
        /\ p.fields.errors > 0 => HostHealthStatus # "ok"
=============================================================================
