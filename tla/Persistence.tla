---------------------------- MODULE Persistence ----------------------------
(***************************************************************************)
(* crates/persistence: which backend a start selects, what the readiness   *)
(* report says of the selection, and how each backend keeps and lists the  *)
(* records of the runtime.                                                 *)
(*                                                                         *)
(* A row is a record with its identifier `id`, the time `at` it is listed  *)
(* by, and `nth`, its place in the order of arrival; a table is the set of *)
(* its rows.  Left out: columns, serialization, and the connection each    *)
(* durable call opens for itself.                                          *)
(***************************************************************************)
EXTENDS Integers, FiniteSets

CONSTANTS PrimaryConfigured, FallbackEnabled, AllowRuntimeFallback

ASSUME SettingsAssumption ==
  /\ PrimaryConfigured \in BOOLEAN
  /\ FallbackEnabled \in BOOLEAN
  /\ AllowRuntimeFallback \in BOOLEAN

Backends == {"Postgres", "Sqlite", "InMemory"}

\* RuntimePersistence::open: allow_runtime_fallback is not asked.
SelectedBackend(primary_opens, fallback_opens) ==
  IF PrimaryConfigured /\ primary_opens THEN "Postgres"
  ELSE IF FallbackEnabled /\ fallback_opens THEN "Sqlite"
  ELSE "InMemory"

\* What from_backend is told.
Durable(b) == b # "InMemory"
FallbackActivated(b) == b = "Sqlite" /\ PrimaryConfigured

StorageMode ==
  IF PrimaryConfigured THEN "PrimaryConfigured"
  ELSE IF FallbackEnabled THEN "SqliteFallbackOnly"
  ELSE "Unconfigured"

\* The readiness checks, with a strategy loaded in Paper or Live.
StorageHealth(b) ==
  IF ~Durable(b) \/ StorageMode = "Unconfigured" THEN "Blocking"
  ELSE IF FallbackActivated(b) \/ StorageMode = "SqliteFallbackOnly"
  THEN IF AllowRuntimeFallback THEN "Warning" ELSE "Blocking"
  ELSE "Healthy"

-----------------------------------------------------------------------------
\* The key of a table is its record's identifier; that of health only counts.
Upsert(rows, row) == {r \in rows : r.id # row.id} \cup {row}
Insert(rows, row) == rows \cup {row}

EarlierArrival(r, s) == r.nth < s.nth
EarlierTime(r, s) == r.at < s.at \/ (r.at = s.at /\ r.id < s.id)
EarlierUpdate(r, s) == r.at < s.at \/ (r.at = s.at /\ r.nth < s.nth)

\* Memory keeps what it is given, as it comes.
InMemoryAppend(rows, row) == Insert(rows, row)
InMemoryBefore(r, s) == EarlierArrival(r, s)

\* The durable backends replace a record of the same identifier, except for
\* health, whose rows are numbered as they arrive; they list by time.
SqliteAppendEvent(rows, row) == Upsert(rows, row)
SqliteAppendLatency(rows, row) == Upsert(rows, row)
SqliteAppendHealth(rows, row) == Insert(rows, row)
PostgresAppendEvent(rows, row) == Upsert(rows, row)
PostgresAppendLatency(rows, row) == Upsert(rows, row)
PostgresAppendHealth(rows, row) == Insert(rows, row)

SqliteEventBefore(r, s) == EarlierTime(r, s)
SqliteLatencyBefore(r, s) == EarlierTime(r, s)
SqliteHealthBefore(r, s) == EarlierUpdate(r, s)
PostgresEventBefore(r, s) == EarlierTime(r, s)
PostgresLatencyBefore(r, s) == EarlierTime(r, s)
PostgresHealthBefore(r, s) == EarlierUpdate(r, s)

\* The stores of PersistenceBackend.
Appended(b, kind, rows, row) ==
  CASE b = "InMemory" -> InMemoryAppend(rows, row)
    [] b = "Sqlite" /\ kind = "event" -> SqliteAppendEvent(rows, row)
    [] b = "Sqlite" /\ kind = "latency" -> SqliteAppendLatency(rows, row)
    [] b = "Sqlite" /\ kind = "health" -> SqliteAppendHealth(rows, row)
    [] b = "Postgres" /\ kind = "event" -> PostgresAppendEvent(rows, row)
    [] b = "Postgres" /\ kind = "latency" -> PostgresAppendLatency(rows, row)
    [] b = "Postgres" /\ kind = "health" -> PostgresAppendHealth(rows, row)

ListedFirst(b, kind, r, s) ==
  CASE b = "InMemory" -> InMemoryBefore(r, s)
    [] b = "Sqlite" /\ kind = "event" -> SqliteEventBefore(r, s)
    [] b = "Sqlite" /\ kind = "latency" -> SqliteLatencyBefore(r, s)
    [] b = "Sqlite" /\ kind = "health" -> SqliteHealthBefore(r, s)
    [] b = "Postgres" /\ kind = "event" -> PostgresEventBefore(r, s)
    [] b = "Postgres" /\ kind = "latency" -> PostgresLatencyBefore(r, s)
    [] b = "Postgres" /\ kind = "health" -> PostgresHealthBefore(r, s)
=============================================================================
