--------------------------- MODULE BrokerSession ---------------------------
(***************************************************************************)
(* TradovateSessionManager of crates/broker_tradovate over its websocket   *)
(* transport (live.rs), and the operator's reconnect review of the host.   *)
(*                                                                         *)
(* Every method takes &mut self behind the host's http_handler lock, so a  *)
(* method is one action, with one disjunct or action per outcome.  The     *)
(* operator's review is two steps: the lock is released in between.        *)
(*                                                                         *)
(* The broker's open positions and working orders are a set of Items; the  *)
(* transport keeps its own copy (SyncCache), fed by a full user sync and   *)
(* then by one prop per change, and the session keeps the last snapshot.   *)
(* Instants are reduced to what is compared with a limit: fresh or stale.  *)
(***************************************************************************)
EXTENDS Naturals, Sequences

CONSTANTS
  Items,            \* positions and working orders the account may have
  Balance,          \* stands for what a prop may be about besides exposure
  TransportEvents,  \* the optional events the transport produces: live.rs, none
  MaxProps,         \* bound: props in flight
  MaxReconnects     \* bound: where reconnect_count saturates

ASSUME BalanceAssumption == Balance \notin Items
ASSUME EventsAssumption == TransportEvents \subseteq {"Mismatch", "Reconnected"}
ASSUME MaxReconnectsAssumption == MaxReconnects \in Nat \ {0}
ASSUME MaxPropsAssumption == MaxProps \in Nat

VARIABLES
  connection_state, sync_state,
  access_token,            \* None, Fresh, or Expiring (to be renewed before use)
  available_accounts,      \* whether any active account is known
  selected_account,        \* whether one is selected
  reconnect_count,
  last_heartbeat_at, last_sync_at,   \* None, Fresh or Stale
  review_required_reason,  \* whether it is Some
  exposure,                \* open_positions and working_orders
  stream,                  \* the websocket: None, Open, or Closed but still Some
  cache,                   \* SyncCache
  wire,                    \* external: props sent by the broker, not yet read
  broker_exposure,         \* external: what the account really holds
  operator,                \* the reconnect review: idle, deciding, resolved
  full_sync,               \* history: a user sync succeeded on this stream
  loss_reported            \* history: the transport has reported a disconnect

session_vars == <<connection_state, sync_state, access_token, available_accounts,
                  selected_account, reconnect_count, last_heartbeat_at, last_sync_at,
                  review_required_reason, exposure>>
transport_vars == <<stream, cache, wire, broker_exposure, full_sync, loss_reported>>
vars == <<session_vars, transport_vars, operator>>

ConnectionStates == {"Disconnected", "Authenticating", "Authenticated", "Connecting",
                     "Connected", "Reconnecting", "Failed"}
SyncStates == {"Disconnected", "Pending", "Synchronized", "Stale", "Mismatch",
               "ReviewRequired", "Failed"}
Ages == {"None", "Fresh", "Stale"}
Props == [item : Items \cup {Balance}, open : BOOLEAN]

-----------------------------------------------------------------------------
Init ==
  /\ connection_state = "Disconnected"
  /\ sync_state = "Disconnected"
  /\ access_token = "None"
  /\ available_accounts = FALSE
  /\ selected_account = FALSE
  /\ reconnect_count = 0
  /\ last_heartbeat_at = "None"
  /\ last_sync_at = "None"
  /\ review_required_reason = FALSE
  /\ exposure = {}
  /\ stream = "None"
  /\ cache = {}
  /\ wire = <<>>
  /\ broker_exposure \in SUBSET Items
  /\ operator = "idle"
  /\ full_sync = FALSE
  /\ loss_reported = FALSE

KeepAccounts == UNCHANGED <<available_accounts, selected_account>>
KeepSync == UNCHANGED <<last_heartbeat_at, last_sync_at, review_required_reason, exposure>>
KeepTransport == UNCHANGED transport_vars

\* Mutant of MarkFailed: the sync state keeps its last value.
MarkConnectionFailed == connection_state' = "Failed" /\ UNCHANGED sync_state

MarkFailed == connection_state' = "Failed" /\ sync_state' = "Failed"

\* renew_access_token_if_needed, when it succeeds.
Renewed ==
  /\ access_token # "None"
  /\ access_token' = "Fresh"

\* It fails, as the first call of any method: the method returns the error.
RenewalFails ==
  /\ access_token = "Expiring"
  /\ MarkFailed
  /\ UNCHANGED <<access_token, reconnect_count, operator>>
  /\ KeepAccounts /\ KeepSync /\ KeepTransport

Authenticate ==
  /\ \/ /\ access_token' = "Fresh"
        /\ connection_state' = "Authenticated"
        /\ sync_state' = "Pending"
     \/ MarkFailed /\ UNCHANGED access_token
  /\ UNCHANGED <<reconnect_count, operator>>
  /\ KeepAccounts /\ KeepSync /\ KeepTransport

\* The account list arrives, or the call fails and only the sync state says so.
ListAccounts ==
  \/ available_accounts' \in BOOLEAN /\ UNCHANGED sync_state
  \/ sync_state' = "Failed" /\ UNCHANGED available_accounts

RefreshAccounts ==
  /\ Renewed
  /\ ListAccounts
  /\ UNCHANGED <<connection_state, selected_account, reconnect_count, operator>>
  /\ KeepSync /\ KeepTransport

\* select_account refreshes first when no account is known; a selector that
\* matches nothing, or more than one, leaves the selection as it was.
SelectAccount ==
  /\ IF available_accounts
     THEN UNCHANGED <<access_token, available_accounts, sync_state>>
     ELSE Renewed /\ ListAccounts
  /\ selected_account' \in {selected_account, selected_account \/ available_accounts'}
  /\ UNCHANGED <<connection_state, reconnect_count, operator>>
  /\ KeepSync /\ KeepTransport

\* apply_sync_snapshot
ApplySyncSnapshot(items, mismatch, review_existing_state) ==
  /\ last_heartbeat_at' = "Fresh"
  /\ last_sync_at' = "Fresh"
  /\ exposure' = items
  /\ sync_state' = CASE mismatch -> "Mismatch"
                     [] ~mismatch /\ review_existing_state /\ items # {} -> "ReviewRequired"
                     [] OTHER -> "Synchronized"
  /\ review_required_reason' = (sync_state' # "Synchronized")

Mismatches == IF "Mismatch" \in TransportEvents THEN BOOLEAN ELSE {FALSE}

-----------------------------------------------------------------------------
\* connect_user_sync and reconnect_user_sync, by outcome.  Without a token or
\* an account only the Reconnecting set by the latter remains.
ConnectRefused ==
  /\ \/ access_token = "None" /\ UNCHANGED access_token
     \/ ~selected_account /\ Renewed
  /\ connection_state' \in {connection_state, "Reconnecting"}
  /\ UNCHANGED <<sync_state, reconnect_count, operator>>
  /\ KeepAccounts /\ KeepSync /\ KeepTransport

\* The old stream has been closed, and is still Some, when opening a new one fails.
ConnectFails ==
  /\ selected_account
  /\ Renewed
  /\ MarkFailed
  /\ stream' = IF stream = "None" THEN "None" ELSE "Closed"
  /\ wire' = <<>>
  /\ full_sync' = FALSE
  /\ UNCHANGED <<reconnect_count, cache, broker_exposure, loss_reported, operator>>
  /\ KeepAccounts /\ KeepSync

\* The stream is open, with an empty cache, but the full sync fails.
InitialSyncFails ==
  /\ selected_account
  /\ Renewed
  /\ MarkFailed
  /\ stream' = "Open"
  /\ cache' = {}
  /\ wire' = <<>>
  /\ full_sync' = FALSE
  /\ UNCHANGED <<reconnect_count, broker_exposure, loss_reported, operator>>
  /\ KeepAccounts /\ KeepSync

\* Mutant of ReviewExistingState: only a first sync is reviewed.
ReviewFirstSyncOnly == last_sync_at = "None"

ReviewExistingState == last_sync_at = "None" \/ reconnect_count > 0

ConnectUserSync ==
  /\ selected_account
  /\ Renewed
  /\ connection_state' = "Connected"
  /\ stream' = "Open"
  /\ cache' = broker_exposure
  /\ wire' = <<>>
  /\ full_sync' = TRUE
  /\ \E mismatch \in Mismatches :
       ApplySyncSnapshot(broker_exposure, mismatch, ReviewExistingState)
  /\ UNCHANGED <<reconnect_count, broker_exposure, loss_reported, operator>>
  /\ KeepAccounts

-----------------------------------------------------------------------------
\* poll_next_event, by event.  Without a stream it does nothing.
PollHeartbeat ==
  /\ stream = "Open"
  /\ last_heartbeat_at' = "Fresh"
  /\ UNCHANGED <<connection_state, sync_state, access_token, reconnect_count,
                 last_sync_at, review_required_reason, exposure, operator>>
  /\ KeepAccounts /\ KeepTransport

\* Mutant of ApplyProp: what is closed stays in the cache.
AddProp(items, prop) ==
  IF prop.open /\ prop.item # Balance THEN items \cup {prop.item} ELSE items

\* apply_props: one change of the account is applied to the cache.
ApplyProp(items, prop) ==
  CASE prop.item = Balance -> items
    [] prop.item # Balance /\ prop.open -> items \cup {prop.item}
    [] OTHER -> items \ {prop.item}

PollSnapshot ==
  /\ stream = "Open"
  /\ wire # <<>>
  /\ wire' = Tail(wire)
  /\ cache' = ApplyProp(cache, Head(wire))
  /\ connection_state' = "Connected"
  /\ \E mismatch \in Mismatches : ApplySyncSnapshot(cache', mismatch, FALSE)
  /\ UNCHANGED <<access_token, reconnect_count, stream, broker_exposure, full_sync,
                 loss_reported, operator>>
  /\ KeepAccounts

PollDisconnected ==
  /\ stream = "Open"
  /\ stream' = "None"
  /\ wire' = <<>>
  /\ connection_state' = "Reconnecting"
  /\ sync_state' = "Disconnected"
  /\ reconnect_count' = IF reconnect_count = MaxReconnects THEN reconnect_count
                                                           ELSE reconnect_count + 1
  /\ full_sync' = FALSE
  /\ loss_reported' = TRUE
  /\ UNCHANGED <<access_token, cache, broker_exposure, operator>>
  /\ KeepAccounts /\ KeepSync

\* A read error: the stream stays Some, dead (closed, timed out) or alive (the
\* broker answered a request with an error).
PollFails ==
  /\ stream # "None"
  /\ MarkFailed
  /\ \/ UNCHANGED <<stream, wire, full_sync>>
     \/ stream' = "Closed" /\ wire' = <<>> /\ full_sync' = FALSE
  /\ UNCHANGED <<access_token, reconnect_count, cache, broker_exposure,
                 loss_reported, operator>>
  /\ KeepAccounts /\ KeepSync

\* The two events that live.rs never produces.
PollMismatch ==
  /\ "Mismatch" \in TransportEvents
  /\ stream = "Open"
  /\ connection_state' = "Connected"
  /\ sync_state' = "Mismatch"
  /\ review_required_reason' = TRUE
  /\ UNCHANGED <<access_token, reconnect_count, last_heartbeat_at, last_sync_at,
                 exposure, operator>>
  /\ KeepAccounts /\ KeepTransport

PollReconnected ==
  /\ "Reconnected" \in TransportEvents
  /\ stream = "Open"
  /\ connection_state' = "Connected"
  /\ sync_state' = "Pending"
  /\ UNCHANGED <<access_token, reconnect_count, operator>>
  /\ KeepAccounts /\ KeepSync /\ KeepTransport

Disconnect ==
  /\ \/ /\ connection_state' = "Disconnected"
        /\ sync_state' = "Disconnected"
        /\ stream' = "None"
        /\ cache' = {}
     \/ /\ stream # "None"
        /\ MarkFailed
        /\ stream' = "Closed"
        /\ UNCHANGED cache
  /\ wire' = <<>>
  /\ full_sync' = FALSE
  /\ UNCHANGED <<access_token, reconnect_count, broker_exposure, loss_reported, operator>>
  /\ KeepAccounts /\ KeepSync

\* place_order, place_oso, liquidate_position, cancel_order: of the session they
\* change the token only; what the order does is BrokerTrades.
PlaceOrder ==
  /\ Renewed
  /\ UNCHANGED <<connection_state, sync_state, reconnect_count, operator>>
  /\ KeepAccounts /\ KeepSync /\ KeepTransport

-----------------------------------------------------------------------------
\* reconnect_review_status
ReviewIsRequired == sync_state = "ReviewRequired" \/ review_required_reason

\* reconnect_review_runtime_command_handler: the status is read ...
ReadReview ==
  /\ operator = "idle"
  /\ ReviewIsRequired
  /\ operator' = "deciding"
  /\ UNCHANGED session_vars /\ KeepTransport

\* ... and the decision acts later: close_position dispatches a flatten and
\* leaves the review to the snapshots that follow,
ClosePosition ==
  /\ operator = "deciding"
  /\ operator' = "idle"
  /\ access_token' \in {access_token, IF access_token = "None" THEN "None" ELSE "Fresh"}
  /\ UNCHANGED <<connection_state, sync_state, reconnect_count>>
  /\ KeepAccounts /\ KeepSync /\ KeepTransport

\* the other two acknowledge, journal "resolved" and answer 200.
AcknowledgeReconnectReview ==
  /\ operator = "deciding"
  /\ operator' = "resolved"
  /\ IF sync_state = "ReviewRequired"
     THEN sync_state' = "Synchronized" /\ review_required_reason' = FALSE
     ELSE UNCHANGED <<sync_state, review_required_reason>>
  /\ UNCHANGED <<connection_state, access_token, reconnect_count, last_heartbeat_at,
                 last_sync_at, exposure>>
  /\ KeepAccounts /\ KeepTransport

Answered ==
  /\ operator = "resolved"
  /\ operator' = "idle"
  /\ UNCHANGED session_vars /\ KeepTransport

-----------------------------------------------------------------------------
\* External: the account changes; on an open stream the broker sends a prop.
BrokerTrades ==
  /\ \E prop \in Props :
       /\ broker_exposure' = IF prop.open THEN broker_exposure \cup ({prop.item} \ {Balance})
                                          ELSE broker_exposure \ {prop.item}
       /\ IF stream = "Open"
          THEN Len(wire) < MaxProps /\ wire' = Append(wire, prop)
          ELSE UNCHANGED wire
  /\ UNCHANGED <<session_vars, stream, cache, full_sync, loss_reported, operator>>

\* External: time passes.
Aged(age) == {age} \cup (IF age = "Fresh" THEN {"Stale"} ELSE {})
TimePasses ==
  /\ last_heartbeat_at' \in Aged(last_heartbeat_at)
  /\ last_sync_at' \in Aged(last_sync_at)
  /\ access_token' \in {access_token, IF access_token = "None" THEN "None" ELSE "Expiring"}
  /\ UNCHANGED <<connection_state, sync_state, available_accounts, selected_account,
                 reconnect_count, review_required_reason, exposure, operator>>
  /\ KeepTransport

Next ==
  \/ Authenticate \/ RenewalFails \/ RefreshAccounts \/ SelectAccount
  \/ ConnectRefused \/ ConnectFails \/ InitialSyncFails \/ ConnectUserSync
  \/ PollHeartbeat \/ PollSnapshot \/ PollDisconnected \/ PollFails
  \/ PollMismatch \/ PollReconnected
  \/ Disconnect \/ PlaceOrder
  \/ ReadReview \/ ClosePosition \/ AcknowledgeReconnectReview \/ Answered
  \/ BrokerTrades \/ TimePasses

Spec == Init /\ [][Next]_vars

-----------------------------------------------------------------------------
\* effective_sync_state and health_for
IsStale == "Stale" \in {last_heartbeat_at, last_sync_at}

EffectiveSyncState ==
  IF /\ IsStale
     /\ \/ sync_state = "Synchronized"
        \/ sync_state = "Pending" /\ connection_state = "Connected"
  THEN "Stale" ELSE sync_state

Health ==
  CASE EffectiveSyncState = "Failed" -> "Failed"
    [] EffectiveSyncState = "Disconnected" /\ connection_state # "Reconnecting" -> "Disconnected"
    [] EffectiveSyncState = "Disconnected" /\ connection_state = "Reconnecting" -> "Degraded"
    [] OTHER ->
         CASE connection_state = "Failed" -> "Failed"
           [] connection_state = "Disconnected" -> "Disconnected"
           [] connection_state \in {"Authenticating", "Authenticated", "Connecting"} -> "Initializing"
           [] connection_state = "Reconnecting" -> "Degraded"
           [] connection_state = "Connected" ->
                CASE EffectiveSyncState = "Synchronized" -> "Healthy"
                  [] EffectiveSyncState = "Pending" -> "Initializing"
                  [] OTHER -> "Degraded"

\* The two state fields, set by different methods and different failures, never
\* drift apart: a state that only a snapshot can have given is reported only
\* while the connection it came over is still up.
SyncedMeansConnected ==
  sync_state \in {"Synchronized", "Mismatch", "ReviewRequired"} =>
    connection_state = "Connected" /\ stream = "Open"

\* The host asks for a review when there is a reason; the reason survives
\* disconnects and failures, and yet a synchronized session never has one, and
\* a session under review always has.
ReasonMatchesReview ==
  /\ sync_state = "Synchronized" => ~review_required_reason
  /\ sync_state \in {"ReviewRequired", "Mismatch"} => review_required_reason

\* What the session reports of itself hangs together, whichever methods fail in
\* whichever order: state, connection and reason.
SessionIsConsistent == SyncedMeansConnected /\ ReasonMatchesReview

\* Once a full sync succeeded on the stream and its props have been read, a
\* healthy status shows the exposure the account really has, whatever
\* disconnects, failures, reconnects and reviews came before.
HealthyStatusIsTrue ==
  Health = "Healthy" /\ full_sync /\ wire = <<>> => exposure = broker_exposure

\* A first sync, and any sync after the transport has reported a disconnect,
\* that finds exposure is put to the operator: it never goes straight to
\* Synchronized.
ReportedLossIsReviewed ==
  [][full_sync' /\ stream # "Open" /\ exposure' # {} /\ (loss_reported \/ last_sync_at = "None")
       => sync_state' \in {"ReviewRequired", "Mismatch"}]_vars
=============================================================================
