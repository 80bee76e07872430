------------------------ MODULE BrokerSessionProofs ------------------------
(***************************************************************************)
(* Proofs about BrokerSession for any items, events and bounds.            *)
(***************************************************************************)
EXTENDS BrokerSession, ArmReadiness, TLAPS

SyncTypeOK ==
  /\ connection_state \in ConnectionStates
  /\ sync_state \in SyncStates \ {"Stale"}
  /\ access_token \in {"None", "Fresh", "Expiring"}
  /\ selected_account \in BOOLEAN
  /\ reconnect_count \in 0..MaxReconnects
  /\ review_required_reason \in BOOLEAN

\* A stream is opened with a token and for an account, and neither is ever given
\* up again: a reconnect over an open stream cannot be refused half-way.
StreamNeedsAccount ==
  stream = "Open" => access_token # "None" /\ selected_account

\* A reported loss is counted, and the count never returns to zero.
LossIsCounted == loss_reported => reconnect_count > 0

FullSyncNeedsStream == full_sync => stream = "Open"

SessionInv ==
  /\ SyncTypeOK
  /\ StreamNeedsAccount
  /\ LossIsCounted
  /\ FullSyncNeedsStream
  /\ SyncedMeansConnected
  /\ ReasonMatchesReview

\* A session starts unsynchronized, with nothing to review.
LEMMA SessionInitInv == Init => SessionInv
<1> SUFFICES ASSUME Init PROVE SessionInv
  OBVIOUS
<1>1. SyncTypeOK
  <2>1. reconnect_count \in 0..MaxReconnects
    BY MaxReconnectsAssumption DEF Init
  <2>2. connection_state \in ConnectionStates /\ sync_state \in SyncStates \ {"Stale"}
    BY DEF Init, ConnectionStates, SyncStates
  <2> QED BY <2>1, <2>2 DEF Init, SyncTypeOK
<1>2. StreamNeedsAccount /\ LossIsCounted /\ FullSyncNeedsStream
  BY DEF Init, StreamNeedsAccount, LossIsCounted, FullSyncNeedsStream
<1>3. SyncedMeansConnected /\ ReasonMatchesReview
  BY DEF Init, SyncedMeansConnected, ReasonMatchesReview
<1> QED BY <1>1, <1>2, <1>3 DEF SessionInv

\* Every method, event and outcome preserves the invariant.
LEMMA SessionStep == SessionInv /\ [Next]_vars => SessionInv'
<1> SUFFICES ASSUME SessionInv, [Next]_vars PROVE SessionInv'
  OBVIOUS
<1> USE MaxReconnectsAssumption
    DEF SessionInv, SyncTypeOK, StreamNeedsAccount, LossIsCounted, FullSyncNeedsStream,
        SyncedMeansConnected, ReasonMatchesReview, ConnectionStates, SyncStates,
        KeepAccounts, KeepSync, KeepTransport, transport_vars, MarkFailed, Renewed
<1>1. CASE Authenticate
  BY <1>1 DEF Authenticate
<1>2. CASE RenewalFails
  BY <1>2 DEF RenewalFails
<1>3. CASE RefreshAccounts
  BY <1>3 DEF RefreshAccounts, ListAccounts
<1>4. CASE SelectAccount
  BY <1>4 DEF SelectAccount, ListAccounts
<1>5. CASE ConnectRefused
  BY <1>5 DEF ConnectRefused
<1>6. CASE ConnectFails
  BY <1>6 DEF ConnectFails
<1>7. CASE InitialSyncFails
  BY <1>7 DEF InitialSyncFails
<1>8. CASE ConnectUserSync
  BY <1>8 DEF ConnectUserSync, ApplySyncSnapshot
<1>9. CASE PollHeartbeat
  BY <1>9 DEF PollHeartbeat
<1>10. CASE PollSnapshot
  BY <1>10 DEF PollSnapshot, ApplySyncSnapshot
<1>11. CASE PollDisconnected
  BY <1>11 DEF PollDisconnected
<1>12. CASE PollFails
  BY <1>12 DEF PollFails
<1>13. CASE PollMismatch
  BY <1>13 DEF PollMismatch
<1>14. CASE PollReconnected
  BY <1>14 DEF PollReconnected
<1>15. CASE Disconnect
  BY <1>15 DEF Disconnect
<1>16. CASE PlaceOrder
  BY <1>16 DEF PlaceOrder
<1>17. CASE ReadReview \/ Answered
  BY <1>17 DEF ReadReview, Answered, session_vars
<1>18. CASE ClosePosition
  BY <1>18 DEF ClosePosition
<1>19. CASE AcknowledgeReconnectReview
  BY <1>19 DEF AcknowledgeReconnectReview
<1>20. CASE BrokerTrades
  BY <1>20 DEF BrokerTrades, session_vars
<1>21. CASE TimePasses
  BY <1>21 DEF TimePasses
<1>22. CASE UNCHANGED vars
  BY <1>22 DEF vars, session_vars
<1> QED
  BY <1>1, <1>2, <1>3, <1>4, <1>5, <1>6, <1>7, <1>8, <1>9, <1>10, <1>11, <1>12, <1>13,
     <1>14, <1>15, <1>16, <1>17, <1>18, <1>19, <1>20, <1>21, <1>22 DEF Next

\* Sync state, stream, cause of a review and heartbeat stay consistent through every
\* order of session methods and transport events.
THEOREM SessionInvariant == Spec => []SessionInv
  BY SessionInitInv, SessionStep, PTL DEF Spec

\* A state that only a snapshot can give is reported only while the connection it
\* came over is up, and with a reason exactly when the operator must decide,
\* whatever fails and in whichever order methods are called.
THEOREM SessionStaysConsistent == Spec => []SessionIsConsistent
  BY SessionInvariant, PTL DEF SessionInv, SessionIsConsistent

\* After a reported loss, however many other failures came since, a full sync that
\* finds exposure is put to the operator.
THEOREM LossIsReviewed == Spec => ReportedLossIsReviewed
<1> DEFINE Reviewed ==
      full_sync' /\ stream # "Open" /\ exposure' # {} /\ (loss_reported \/ last_sync_at = "None")
        => sync_state' \in {"ReviewRequired", "Mismatch"}
<1>1. ASSUME SessionInv, Next PROVE Reviewed
  <2>1. CASE ConnectUserSync
    BY <1>1, <2>1 DEF ConnectUserSync, ApplySyncSnapshot, ReviewExistingState, SessionInv,
                      LossIsCounted
  <2>2. CASE ~ConnectUserSync
    <3>1. full_sync' => full_sync
      BY <1>1, <2>2
      DEF Next, Authenticate, RenewalFails, RefreshAccounts, SelectAccount, ConnectRefused,
          ConnectFails, InitialSyncFails, PollHeartbeat, PollSnapshot, PollDisconnected,
          PollFails, PollMismatch, PollReconnected, Disconnect, PlaceOrder, ReadReview,
          ClosePosition, AcknowledgeReconnectReview, Answered, BrokerTrades, TimePasses,
          KeepTransport, transport_vars
    <3> QED BY <1>1, <3>1 DEF SessionInv, FullSyncNeedsStream
  <2> QED BY <2>1, <2>2
<1>2. SessionInv /\ [Next]_vars => [Reviewed]_vars
  BY <1>1
<1> QED BY <1>2, SessionInvariant, PTL DEF Spec, ReportedLossIsReviewed

-----------------------------------------------------------------------------
\* The last prop about an item that is on the wire says whether the item is open;
\* of an item that none is about, the cache does.
LastAbout(i, k) ==
  /\ k \in 1..Len(wire) /\ wire[k].item = i
  /\ \A j \in 1..Len(wire) : wire[j].item = i => j <= k

ItemIsKnown(i) ==
  /\ (\A k \in 1..Len(wire) : wire[k].item # i) => (i \in cache <=> i \in broker_exposure)
  /\ \A k \in 1..Len(wire) : LastAbout(i, k) => (wire[k].open <=> i \in broker_exposure)

CopyInv ==
  /\ wire \in Seq(Props)
  /\ cache \subseteq Items /\ broker_exposure \subseteq Items
  /\ full_sync => exposure = cache /\ \A i \in Items : ItemIsKnown(i)

\* An item of which nothing is on the wire is known from the cache.
LEMMA EmptyWireIsKnown ==
  ASSUME wire = <<>>, cache \subseteq Items, broker_exposure \subseteq Items,
         \A i \in Items : ItemIsKnown(i)
  PROVE  cache = broker_exposure
<1>1. \A k \in 1..Len(wire) : FALSE
  OBVIOUS
<1> QED BY <1>1 DEF ItemIsKnown

\* What the steps that touch neither the wire nor the copies do.
LEMMA CopiesUntouched ==
  ASSUME CopyInv, UNCHANGED <<wire, cache, broker_exposure, exposure>>, full_sync' => full_sync
  PROVE  CopyInv'
BY DEF CopyInv, ItemIsKnown, LastAbout

\* The stream is lost or replaced, and no full sync has succeeded on it.
LEMMA CopiesLost ==
  ASSUME CopyInv, wire' = <<>> \/ wire' = wire, cache' = {} \/ cache' = cache,
         UNCHANGED broker_exposure, ~full_sync'
  PROVE  CopyInv'
<1>1. <<>> \in Seq(Props)
  OBVIOUS
<1>2. cache' \subseteq Items /\ broker_exposure' \subseteq Items
  BY DEF CopyInv
<1>3. wire' \in Seq(Props)
  BY <1>1 DEF CopyInv
<1> QED BY <1>2, <1>3 DEF CopyInv

\* A full sync: the copies are what the broker reports, and nothing is on the wire.
LEMMA FullSyncCopies == CopyInv /\ ConnectUserSync => CopyInv'
BY DEF CopyInv, ConnectUserSync, ApplySyncSnapshot, ItemIsKnown, LastAbout

\* A prop is read: the cache takes over what it says.
LEMMA PropIsApplied == CopyInv /\ PollSnapshot => CopyInv'
<1> SUFFICES ASSUME CopyInv, PollSnapshot PROVE CopyInv'
  OBVIOUS
<1> DEFINE prop == Head(wire)
<1>1. /\ wire # <<>> /\ wire \in Seq(Props) /\ wire' = Tail(wire)
      /\ cache' = ApplyProp(cache, prop) /\ exposure' = cache'
      /\ UNCHANGED <<broker_exposure, full_sync>>
  BY DEF PollSnapshot, ApplySyncSnapshot, CopyInv
<1>2. /\ Len(wire) \in Nat \ {0} /\ wire' \in Seq(Props) /\ Len(wire') = Len(wire) - 1
      /\ \A k \in 1..Len(wire') : wire'[k] = wire[k + 1]
      /\ prop = wire[1] /\ prop \in Props
  BY <1>1
<1>3. /\ prop.item = Balance => cache' = cache
      /\ prop.item # Balance /\ prop.open => cache' = cache \cup {prop.item}
      /\ prop.item # Balance /\ ~prop.open => cache' = cache \ {prop.item}
      /\ prop.item \in Items \cup {Balance}
  BY <1>1, <1>2 DEF ApplyProp, Props
<1>4. cache' \subseteq Items /\ broker_exposure' \subseteq Items
  BY <1>1, <1>3 DEF CopyInv
<1>5. ASSUME NEW i \in Items, ItemIsKnown(i) PROVE ItemIsKnown(i)'
  <2>1. i # Balance
    BY BalanceAssumption
  <2>2. CASE \A k \in 1..Len(wire') : wire'[k].item # i
    <3>1. ASSUME NEW k \in 1..Len(wire), wire[k].item = i PROVE k = 1
      <4>1. k # 1 => k - 1 \in 1..Len(wire') /\ wire'[k - 1] = wire[k]
        BY <1>2
      <4> QED BY <2>2, <3>1, <4>1
    <3>2. CASE prop.item = i
      <4>1. LastAbout(i, 1)
        BY <1>2, <3>1, <3>2 DEF LastAbout
      <4>2. prop.open <=> i \in broker_exposure
        BY <1>2, <4>1, <1>5 DEF ItemIsKnown
      <4> QED BY <1>1, <1>3, <2>1, <2>2, <3>2, <4>2 DEF ItemIsKnown, LastAbout
    <3>3. CASE prop.item # i
      <4>1. \A k \in 1..Len(wire) : wire[k].item # i
        BY <1>2, <3>1, <3>3
      <4>2. i \in cache' <=> i \in cache
        BY <1>3, <3>3
      <4> QED BY <1>1, <1>5, <2>2, <4>1, <4>2 DEF ItemIsKnown, LastAbout
    <3> QED BY <3>2, <3>3
  <2>3. CASE \E k \in 1..Len(wire') : wire'[k].item = i
    <3>1. ASSUME NEW k \in 1..Len(wire'), LastAbout(i, k)'
          PROVE  wire'[k].open <=> i \in broker_exposure'
      <4>1. k + 1 \in 1..Len(wire) /\ wire[k + 1].item = i
        BY <1>2, <3>1 DEF LastAbout
      <4>2. ASSUME NEW j \in 1..Len(wire), wire[j].item = i PROVE j <= k + 1
        <5>1. CASE j = 1
          BY <5>1, <3>1, <1>2
        <5>2. CASE j # 1
          <6>1. j - 1 \in 1..Len(wire') /\ wire'[j - 1] = wire[j]
            BY <1>2, <5>2
          <6>2. j - 1 <= k
            BY <3>1, <4>2, <6>1 DEF LastAbout
          <6> QED BY <1>2, <3>1, <6>2
        <5> QED BY <5>1, <5>2
      <4>3. LastAbout(i, k + 1)
        BY <4>1, <4>2 DEF LastAbout
      <4> QED BY <1>1, <1>2, <1>5, <3>1, <4>1, <4>3 DEF ItemIsKnown
    <3> QED BY <2>3, <3>1 DEF ItemIsKnown
  <2> QED BY <2>2, <2>3
<1> QED BY <1>1, <1>2, <1>4, <1>5 DEF CopyInv

\* The account changes: the prop it sends is the last one about its item.
LEMMA ChangeIsSent == SessionInv /\ CopyInv /\ BrokerTrades => CopyInv'
<1> SUFFICES ASSUME SessionInv, CopyInv, BrokerTrades PROVE CopyInv'
  OBVIOUS
<1>1. PICK prop \in Props :
        /\ broker_exposure' = IF prop.open THEN broker_exposure \cup ({prop.item} \ {Balance})
                                           ELSE broker_exposure \ {prop.item}
        /\ IF stream = "Open" THEN wire' = Append(wire, prop) ELSE wire' = wire
  BY DEF BrokerTrades
<1>2. UNCHANGED <<cache, exposure, full_sync>>
  BY DEF BrokerTrades, session_vars
<1>3. broker_exposure' \subseteq Items /\ wire \in Seq(Props) /\ cache \subseteq Items
  BY <1>1 DEF CopyInv, Props
<1>4. wire' \in Seq(Props)
  BY <1>1, <1>3
<1>5. ASSUME full_sync, NEW i \in Items, ItemIsKnown(i) PROVE ItemIsKnown(i)'
  <2>1. wire' = Append(wire, prop) /\ i # Balance /\ Len(wire) \in Nat
    BY <1>1, <1>3, <1>5, BalanceAssumption DEF SessionInv, FullSyncNeedsStream
  <2>2. /\ Len(wire') = Len(wire) + 1
        /\ wire'[Len(wire) + 1] = prop
        /\ \A k \in 1..Len(wire) : wire'[k] = wire[k]
    BY <2>1, <1>3
  <2>3. CASE prop.item = i
    <3>1. ASSUME NEW k \in 1..Len(wire'), LastAbout(i, k)' PROVE k = Len(wire) + 1
      BY <2>1, <2>2, <2>3, <3>1 DEF LastAbout
    <3>2. prop.open <=> i \in broker_exposure'
      BY <1>1, <2>1, <2>3
    <3>3. Len(wire) + 1 \in 1..Len(wire')
      BY <2>1, <2>2
    <3> QED BY <2>2, <2>3, <3>1, <3>2, <3>3 DEF ItemIsKnown
  <2>4. CASE prop.item # i
    <3>1. i \in broker_exposure' <=> i \in broker_exposure
      BY <1>1, <2>4
    <3>2. \A k \in 1..Len(wire') : wire'[k].item = i => k \in 1..Len(wire)
      BY <2>1, <2>2, <2>4
    <3>3. \A k \in 1..Len(wire) : k \in 1..Len(wire')
      BY <2>1, <2>2
    <3>4. \A k \in 1..Len(wire) : LastAbout(i, k)' <=> LastAbout(i, k)
      BY <2>2, <3>2, <3>3 DEF LastAbout
    <3> QED BY <1>2, <1>5, <2>2, <3>1, <3>2, <3>3, <3>4 DEF ItemIsKnown, LastAbout
  <2> QED BY <2>3, <2>4
<1> QED BY <1>2, <1>3, <1>4, <1>5 DEF CopyInv

\* Every step keeps the transport's copy and the props on the wire together.
LEMMA CopyStep == SessionInv /\ CopyInv /\ [Next]_vars => CopyInv'
<1> SUFFICES ASSUME SessionInv, CopyInv, [Next]_vars PROVE CopyInv'
  OBVIOUS
<1> USE DEF KeepSync, KeepTransport, transport_vars, session_vars
<1>1. CASE ConnectUserSync
  BY <1>1, FullSyncCopies
<1>2. CASE PollSnapshot
  BY <1>2, PropIsApplied
<1>3. CASE BrokerTrades
  BY <1>3, ChangeIsSent
<1>4. CASE ConnectFails \/ InitialSyncFails \/ PollDisconnected \/ Disconnect
  BY <1>4, CopiesLost DEF ConnectFails, InitialSyncFails, PollDisconnected, Disconnect
<1>5. CASE PollFails
  BY <1>5, CopiesLost, CopiesUntouched DEF PollFails
<1>6. CASE \/ Authenticate \/ RenewalFails \/ RefreshAccounts \/ SelectAccount \/ ConnectRefused
           \/ PollHeartbeat \/ PollMismatch \/ PollReconnected \/ PlaceOrder
           \/ ReadReview \/ ClosePosition \/ AcknowledgeReconnectReview \/ Answered
           \/ TimePasses \/ UNCHANGED vars
  BY <1>6, CopiesUntouched
  DEF Authenticate, RenewalFails, RefreshAccounts, SelectAccount, ConnectRefused,
      PollHeartbeat, PollMismatch, PollReconnected, PlaceOrder, ReadReview, ClosePosition,
      AcknowledgeReconnectReview, Answered, TimePasses, vars
<1> QED BY <1>1, <1>2, <1>3, <1>4, <1>5, <1>6 DEF Next

\* However many props are on the wire, and whatever was lost and synced again, once
\* they are read a healthy session shows the exposure the account has.
THEOREM HealthyStatusHolds == Spec => []HealthyStatusIsTrue
<1>1. Init => CopyInv
  BY DEF Init, CopyInv
<1>2. SessionInv /\ CopyInv => HealthyStatusIsTrue
  BY EmptyWireIsKnown DEF CopyInv, HealthyStatusIsTrue
<1> QED BY <1>1, <1>2, SessionInvariant, CopyStep, PTL DEF Spec

\* The check of broker_sync passes for a session whose last full sync is neither stale nor
\* lost nor under review, and for no other; and then, once the props are read, what the
\* session shows is what the account has (broker_sync_dependency, whose last arms ask for
\* the health alone).
THEOREM PassedSyncIsTrue ==
  Spec => [](BrokerSyncDependency(EffectiveSyncState, Health) = "Healthy" =>
               /\ sync_state = "Synchronized" /\ connection_state = "Connected"
               /\ stream = "Open" /\ ~IsStale /\ ~review_required_reason
               /\ (full_sync /\ wire = <<>> => exposure = broker_exposure))
<1>1. SessionInv /\ HealthyStatusIsTrue =>
        (BrokerSyncDependency(EffectiveSyncState, Health) = "Healthy" =>
           /\ sync_state = "Synchronized" /\ connection_state = "Connected"
           /\ stream = "Open" /\ ~IsStale /\ ~review_required_reason
           /\ (full_sync /\ wire = <<>> => exposure = broker_exposure))
  <2> SUFFICES ASSUME SessionInv, HealthyStatusIsTrue,
                      BrokerSyncDependency(EffectiveSyncState, Health) = "Healthy"
               PROVE  /\ sync_state = "Synchronized" /\ connection_state = "Connected"
                      /\ stream = "Open" /\ ~IsStale /\ ~review_required_reason
                      /\ (full_sync /\ wire = <<>> => exposure = broker_exposure)
    OBVIOUS
  <2>1. Health = "Healthy"
    BY DEF BrokerSyncDependency, HealthyIf
  <2>2. EffectiveSyncState = "Synchronized" /\ connection_state = "Connected"
    BY <2>1 DEF Health, SessionInv, SyncTypeOK, ConnectionStates
  <2>3. sync_state = "Synchronized" /\ ~IsStale
    BY <2>2 DEF EffectiveSyncState
  <2> QED BY <2>1, <2>2, <2>3 DEF SessionInv, SyncedMeansConnected, ReasonMatchesReview,
                                  HealthyStatusIsTrue
<1> QED BY <1>1, SessionInvariant, HealthyStatusHolds, PTL
=============================================================================
