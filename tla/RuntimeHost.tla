---------------------------- MODULE RuntimeHost ----------------------------
(***************************************************************************)
(* The control plane of apps/runtime: HTTP handlers that run concurrently, *)
(* and a background task that polls market data, over the shared locks of  *)
(* RuntimeHostState.  No handler holds two of those locks at once, and the *)
(* state may change whenever a lock is released, so one lock-protected     *)
(* section is one action and a handler is a sequence of them:              *)
(*                                                                         *)
(*   snapshot   http_handler lock    broker health is read                 *)
(*   refresh    market_data lock     the service is polled, a view taken   *)
(*   sync       operator_state lock  the view's warmup goes to the kernel  *)
(*   act        operator_state lock  the command itself, or sanitize       *)
(*   configure  market_data lock     (LoadStrategy) a service is built     *)
(*   dispatch   http_handler lock    (entries) the order goes to the broker*)
(*   respond    market_data lock     the response polls the service again  *)
(*                                                                         *)
(* Variables marked history are read by no guard.                          *)
(***************************************************************************)
EXTENDS RuntimeKernel, Naturals

CONSTANTS
  Strategies,     \* strategy files that compile
  NoStrategy,
  Clients,        \* concurrent HTTP requests
  Background,     \* background tasks that run: {} or {Poller}
  Commands,       \* the commands clients send, <<kind, argument>>
  HealthValues,   \* values a connected dependency's health may take
  MaxRequests     \* bound: requests received in a behaviour

ASSUME NoStrategyAssumption == NoStrategy \notin Strategies
ASSUME HealthAssumption == HealthValues \subseteq BOOLEAN
ASSUME MaxRequestsAssumption == MaxRequests \in Nat

VARIABLES
  loaded_strategy,   \* RuntimeOperatorState.loaded_strategy
  md_strategy,       \* the strategy of the Active service, or NoStrategy
  md_warmup,         \* WarmupTracker::progress of that service
  md_healthy,        \* its health is Healthy (any other value blocks)
  broker_ok,         \* account and sync dependencies are Healthy
  pc, command,       \* per handler: next section, and the command it serves
  context,           \* per handler: RuntimeStatusContext
  order,             \* per handler: the sanitized request, {} or a singleton
  requests,          \* requests received so far
  armed_strategy,    \* history: the strategy loaded at the last arm
  held,              \* history: per handler, authority held since it began
  sent               \* history: the order dispatched last, {} or a singleton

host_vars == <<loaded_strategy, md_strategy, md_warmup, md_healthy, broker_ok,
               pc, command, context, order, requests,
               armed_strategy, held, sent>>
vars == <<kernel_vars, host_vars>>

Poller == "market_data_refresh_loop"
Handlers == Clients \cup Background
Services == Strategies \cup {NoStrategy}

CommandKinds == {"SetMode", "LoadStrategy", "StartWarmup", "MarkWarmupReady",
                 "MarkWarmupFailed", "Arm", "Disarm", "Pause", "Resume",
                 "SetNewEntriesEnabled", "ManualEntry", "Command"}
NoCommand == <<"None", "">>
Sections == {"idle", "start", "snapshot", "refresh", "sync", "act", "configure",
             "dispatch", "respond"}

ASSUME CommandsAssumption ==
  \A cmd \in Commands :
    /\ cmd \in CommandKinds \X (RuntimeMode \cup Strategies \cup {"", "yes", "no"})
    /\ cmd[1] = "SetMode" => cmd[2] \in RuntimeMode
    /\ cmd[1] = "LoadStrategy" => cmd[2] \in Strategies
ASSUME BackgroundAssumption == Background \subseteq {Poller} /\ Poller \notin Clients

\* view is the strategy whose service the snapshot shows (NoStrategy: None).
Contexts == [broker_ok : BOOLEAN, market_ok : BOOLEAN, view : Services,
             warmup : ProgressStatus, built : BOOLEAN]
NoContext == [broker_ok |-> FALSE, market_ok |-> FALSE, view |-> NoStrategy,
              warmup |-> "Loaded", built |-> FALSE]
Orders == [mode : RuntimeMode, strategy : Strategies, can_submit : BOOLEAN,
           new_entries : BOOLEAN]

\* The grant in force, and the grant an entry may be sent under right now.
Authority == IF arm_state = "Armed" THEN {<<armed_mode, armed_strategy>>} ELSE {}
Trading == IF CanSubmitOrders /\ new_entries_enabled THEN Authority ELSE {}

-----------------------------------------------------------------------------
HostInit ==
  /\ KernelInit
  /\ loaded_strategy = NoStrategy
  /\ md_strategy = NoStrategy
  /\ md_warmup = "Loaded"
  /\ md_healthy = FALSE
  /\ broker_ok \in HealthValues
  /\ pc = [h \in Handlers |-> "idle"]
  /\ command = [h \in Handlers |-> NoCommand]
  /\ context = [h \in Handlers |-> NoContext]
  /\ order = [h \in Handlers |-> {}]
  /\ requests = 0
  /\ armed_strategy = NoStrategy
  /\ held = [h \in Handlers |-> {}]
  /\ sent = {}

Go(h, section) == pc' = [pc EXCEPT ![h] = section]

\* The handler returns: what it held on its stack is gone.
Finish(h) ==
  /\ Go(h, "idle")
  /\ command' = [command EXCEPT ![h] = NoCommand]
  /\ context' = [context EXCEPT ![h] = NoContext]
  /\ order' = [order EXCEPT ![h] = {}]

KeepStack == UNCHANGED <<command, context, order>>
KeepService == UNCHANGED <<md_strategy, md_warmup, md_healthy>>
KeepOperator == UNCHANGED <<kernel_vars, loaded_strategy, armed_strategy>>

\* RuntimeMarketDataManager::refresh as its callers see it: updates received
\* may complete the warmup and change the health.  Before start_warmup the
\* service is not connected, so it receives nothing.
PollService ==
  /\ md_strategy' = md_strategy
  /\ IF md_warmup = "Loaded"
     THEN UNCHANGED <<md_warmup, md_healthy>>
     ELSE /\ md_warmup' \in {md_warmup} \cup (IF md_warmup = "Warming"
                                              THEN {"Ready"} ELSE {})
          /\ md_healthy' \in HealthValues

-----------------------------------------------------------------------------
\* A request arrives.  StartWarmup starts the service before anything else.
Receive(h, cmd) ==
  /\ h \in Clients
  /\ pc[h] = "idle"
  /\ requests < MaxRequests
  /\ requests' = requests + 1
  /\ command' = [command EXCEPT ![h] = cmd]
  /\ Go(h, IF cmd[1] = "StartWarmup" THEN "start" ELSE "snapshot")
  /\ UNCHANGED <<context, order, broker_ok, sent>>
  /\ KeepService /\ KeepOperator

\* RuntimeMarketDataManager::start_warmup succeeds: buffers are emptied, and a
\* historical backfill may fill them again at once.
StartService(h) ==
  /\ pc[h] = "start"
  /\ md_strategy # NoStrategy
  /\ md_warmup' \in {"Warming", "Ready"}
  /\ md_healthy' \in HealthValues
  /\ Go(h, "snapshot")
  /\ UNCHANGED <<md_strategy, broker_ok, requests, sent>>
  /\ KeepStack /\ KeepOperator

\* It fails: no service, or the connection fails and the tracker is not reset.
StartServiceFails(h) ==
  /\ pc[h] = "start"
  /\ md_healthy' = FALSE
  /\ Go(h, "respond")
  /\ UNCHANGED <<md_strategy, md_warmup, broker_ok, requests, sent>>
  /\ KeepStack /\ KeepOperator

\* status_context, first part: current_dispatch_snapshot.
Snapshot(h) ==
  /\ pc[h] = "snapshot"
  /\ context' = [context EXCEPT ![h].broker_ok = broker_ok]
  /\ Go(h, "refresh")
  /\ UNCHANGED <<command, order, broker_ok, requests, sent>>
  /\ KeepService /\ KeepOperator

\* refresh_market_data_view, first half.  The background task starts here.
RefreshView(h) ==
  /\ pc[h] = "refresh" \/ (h = Poller /\ pc[h] = "idle")
  /\ PollService
  /\ context' = [context EXCEPT ![h].view = md_strategy, ![h].warmup = md_warmup',
                                ![h].market_ok = (md_strategy # NoStrategy /\ md_healthy')]
  /\ Go(h, "sync")
  /\ UNCHANGED <<command, order, broker_ok, requests, sent>>
  /\ KeepOperator

\* Mutant of SyncWarmup: a status that is Ready already is taken as settled.
SyncWarmupUnlessReady(h) ==
  /\ pc[h] = "sync"
  /\ IF context[h].view # NoStrategy /\ strategy_loaded /\ warmup_status # "Ready"
     THEN /\ SyncWarmupProgress(context[h].warmup)
          /\ UNCHANGED <<loaded_strategy, armed_strategy>>
     ELSE KeepOperator
  /\ IF h = Poller THEN Finish(h) ELSE Go(h, "act") /\ KeepStack
  /\ UNCHANGED <<broker_ok, requests, sent>>
  /\ KeepService

\* Second half: the view taken before is applied to the kernel, if there was a
\* snapshot; the error for "no strategy loaded" is dropped.
SyncWarmup(h) ==
  /\ pc[h] = "sync"
  /\ IF context[h].view # NoStrategy /\ strategy_loaded
     THEN /\ SyncWarmupProgress(context[h].warmup)
          /\ UNCHANGED <<loaded_strategy, armed_strategy>>
     ELSE KeepOperator
  /\ IF h = Poller THEN Finish(h) ELSE Go(h, "act") /\ KeepStack
  /\ UNCHANGED <<broker_ok, requests, sent>>
  /\ KeepService

\* account_selection_health, market_data_health and broker_sync_health: they
\* say something in Paper and Live with a strategy only.
DependenciesHealthy(h) ==
  strategy_loaded /\ current_mode \in OrderMode => context[h].market_ok /\ context[h].broker_ok

\* readiness_snapshot, reduced to what arm() reads: an unhealthy dependency
\* blocks; a storage or journal warning needs the override.
Readiness(h, override_required) ==
  [mode |-> current_mode,
   blocking |-> ~(DependenciesHealthy(h) /\ warmup_status = "Ready"),
   override_required |-> override_required]

\* RuntimeOperatorState::apply_lifecycle_command for the commands that only
\* touch the kernel.  A command that is refused leaves the kernel alone.
Applies(h, arg) ==
  CASE command[h][1] = "SetMode" -> SwitchMode(arg)
    [] command[h][1] = "MarkWarmupReady" -> MarkWarmupReady
    [] command[h][1] = "MarkWarmupFailed" -> MarkWarmupFailed
    [] command[h][1] = "Arm" ->
         \E required \in BOOLEAN : Arm(Readiness(h, required), arg = "yes")
    [] command[h][1] = "Disarm" -> Disarm
    [] command[h][1] = "Pause" -> Pause
    [] command[h][1] = "Resume" -> Resume
    [] command[h][1] = "SetNewEntriesEnabled" -> SetNewEntriesEnabled(arg = "yes")
    [] command[h][1] = "StartWarmup" -> StartWarmup
    [] OTHER -> FALSE

\* The cases in which apply_lifecycle_command returns Err.  An arm may always be
\* refused: symbol mapping, storage and account routing are not modelled.
Refused(h) ==
  \/ /\ command[h][1] \in {"MarkWarmupReady", "MarkWarmupFailed", "StartWarmup"}
     /\ ~strategy_loaded
  \/ command[h][1] = "Resume" /\ last_active_mode = NoMode
  \/ command[h][1] = "Arm"

StateCommand(h) ==
  /\ pc[h] = "act"
  /\ command[h][1] \notin {"LoadStrategy", "ManualEntry", "Command"}
  /\ \/ /\ Applies(h, command[h][2])
        /\ armed_strategy' = IF command[h][1] = "Arm" THEN loaded_strategy
                                                      ELSE armed_strategy
        /\ UNCHANGED loaded_strategy
     \/ Refused(h) /\ KeepOperator
  /\ Go(h, "respond")
  /\ UNCHANGED <<broker_ok, requests, sent>>
  /\ KeepStack /\ KeepService

\* RuntimeOperatorState::load_strategy.  The lock is then released: the service
\* of the previous strategy stays in place until configure.
LoadStrategy(h) ==
  /\ pc[h] = "act"
  /\ command[h][1] = "LoadStrategy"
  /\ MarkStrategyLoaded
  /\ loaded_strategy' = command[h][2]
  /\ Go(h, "configure")
  /\ UNCHANGED <<broker_ok, requests, sent, armed_strategy>>
  /\ KeepStack /\ KeepService

\* The file cannot be read or does not compile: nothing changes.
LoadStrategyFails(h) ==
  /\ pc[h] = "act"
  /\ command[h][1] = "LoadStrategy"
  /\ Go(h, "respond")
  /\ UNCHANGED <<broker_ok, requests, sent>>
  /\ KeepStack /\ KeepService /\ KeepOperator

\* configure_for_strategy, with the seed taken in load_strategy.  It ends with
\* an Active service, or with none (symbol not resolved, no API key).
ConfigureService(h) ==
  /\ pc[h] = "configure"
  /\ md_strategy' \in {command[h][2], NoStrategy}
  /\ md_warmup' = "Loaded"
  /\ md_healthy' = FALSE
  /\ Go(h, "respond")
  /\ UNCHANGED <<broker_ok, requests, sent>>
  /\ KeepStack /\ KeepOperator

\* loaded_strategy.as_ref().ok_or_else(..): every request needs a strategy.
StrategyIsLoaded == loaded_strategy # NoStrategy

\* build_manual_entry_request reads the operator state; everything it sets is
\* set again by sanitize, after a second status_context.
BuildEntry(h) ==
  /\ pc[h] = "act"
  /\ command[h][1] = "ManualEntry"
  /\ ~context[h].built
  /\ IF StrategyIsLoaded
     THEN Go(h, "snapshot") /\ context' = [context EXCEPT ![h].built = TRUE]
     ELSE Go(h, "respond") /\ UNCHANGED context
  /\ UNCHANGED <<command, order, broker_ok, requests, sent>>
  /\ KeepService /\ KeepOperator

\* new_entries_allowed
NewEntriesAllowed(h) == new_entries_enabled /\ DependenciesHealthy(h)

\* Mutant of SanitizedRequest: the client's can_submit is believed.
ClientRequest(h, client_flag) ==
  [mode |-> current_mode, strategy |-> loaded_strategy, can_submit |-> client_flag,
   new_entries |-> client_flag /\ NewEntriesAllowed(h)]

\* sanitize_command_request: mode, strategy and permission are the server's;
\* the client's own new_entries flag can only narrow the permission.
SanitizedRequest(h, client_flag) ==
  [mode |-> current_mode, strategy |-> loaded_strategy, can_submit |-> CanSubmitOrders,
   new_entries |-> client_flag /\ NewEntriesAllowed(h)]

Sanitize(h) ==
  /\ pc[h] = "act"
  /\ command[h][1] = "Command" \/ (command[h][1] = "ManualEntry" /\ context[h].built)
  /\ IF StrategyIsLoaded
     THEN /\ Go(h, "dispatch")
          /\ \E client_flag \in BOOLEAN :
               order' = [order EXCEPT ![h] = {SanitizedRequest(h, client_flag)}]
     ELSE Go(h, "respond") /\ UNCHANGED order
  /\ UNCHANGED <<command, context, broker_ok, requests, sent>>
  /\ KeepService /\ KeepOperator

\* handle_command under the http_handler lock.  The planner refuses an entry
\* without the two permissions; risk or the broker may refuse any.  A lifecycle
\* request then builds its response, /commands returns.
Dispatch(h) ==
  /\ pc[h] = "dispatch"
  /\ \/ \E entry \in order[h] :
          /\ entry.can_submit /\ entry.new_entries
          /\ sent' = {<<h, entry.mode, entry.strategy>>}
     \/ UNCHANGED sent
  /\ IF command[h][1] = "Command" THEN Finish(h) ELSE Go(h, "respond") /\ KeepStack
  /\ UNCHANGED <<broker_ok, requests>>
  /\ KeepService /\ KeepOperator

\* runtime_lifecycle_success_response: status_context without the sync.
Respond(h) ==
  /\ pc[h] = "respond"
  /\ PollService
  /\ Finish(h)
  /\ UNCHANGED <<broker_ok, requests, sent>>
  /\ KeepOperator

\* health_refresh_loop polls the service and does not sync the kernel.
HealthTick ==
  /\ PollService
  /\ UNCHANGED <<pc, broker_ok, requests, sent>>
  /\ KeepStack /\ KeepOperator

\* External: the broker session's health changes.
BrokerChanges ==
  /\ broker_ok' \in HealthValues \ {broker_ok}
  /\ UNCHANGED <<pc, requests, sent>>
  /\ KeepStack /\ KeepService /\ KeepOperator

Step(h) ==
  \/ StartService(h) \/ StartServiceFails(h)
  \/ Snapshot(h) \/ RefreshView(h) \/ SyncWarmup(h)
  \/ StateCommand(h) \/ LoadStrategy(h) \/ LoadStrategyFails(h) \/ ConfigureService(h)
  \/ BuildEntry(h) \/ Sanitize(h) \/ Dispatch(h) \/ Respond(h)

\* History: every authority that existed at some moment of the request so far.
NoteAuthority ==
  held' = [h \in Handlers |->
             IF pc'[h] = "idle" THEN {} ELSE held[h] \cup Trading \cup Trading']

HostNext ==
  /\ \/ \E h \in Clients, cmd \in Commands : Receive(h, cmd)
     \/ \E h \in Handlers : Step(h)
     \/ HealthTick
     \/ BrokerChanges
  /\ NoteAuthority

HostSpec == HostInit /\ [][HostNext]_vars

\* tokio runs every ready task again, the locks are fair (FIFO), and no
\* section waits for anything but its lock and a call with a timeout.
HostFairness == \A h \in Handlers : WF_vars(Step(h) /\ NoteAuthority)
HostFairSpec == HostSpec /\ HostFairness

-----------------------------------------------------------------------------
\* Every variable keeps to its type, handlers included.
HostTypeOK ==
  /\ KernelTypeOK
  /\ loaded_strategy \in Services
  /\ md_strategy \in Services
  /\ md_warmup \in ProgressStatus
  /\ md_healthy \in BOOLEAN
  /\ broker_ok \in BOOLEAN
  /\ pc \in [Handlers -> Sections]
  /\ command \in [Handlers -> Commands \cup {NoCommand}]
  /\ context \in [Handlers -> Contexts]
  /\ order \in [Handlers -> SUBSET Orders]
  /\ requests \in 0..MaxRequests
  /\ armed_strategy \in Services
  /\ held \in [Handlers -> SUBSET (OrderMode \X Strategies)]
  /\ sent \in SUBSET (Handlers \X OrderMode \X Strategies)

\* An entry that has been let through to the dispatcher, however long it then
\* waits for the broker lock, carries the mode and the strategy of a grant that
\* was in force, with the entry gate open, at some moment after its request
\* arrived; nothing the client put in the request can substitute for it.
OrderHadAuthority ==
  \A h \in Handlers : \A entry \in order[h] :
    entry.can_submit /\ entry.new_entries => <<entry.mode, entry.strategy>> \in held[h]

\* The runtime is armed for the strategy that is loaded, whichever handlers
\* load, arm and sync in between each other's sections.
ArmedForLoadedStrategy ==
  arm_state = "Armed" => strategy_loaded /\ armed_strategy = loaded_strategy

\* loaded_strategy is Some exactly when the kernel counts a strategy as loaded.
LoadedAgree == strategy_loaded <=> loaded_strategy # NoStrategy

\* Arming, pausing, loading and switching by any interleaving of handlers keep
\* the promise of TradingAuthority: one grant, never converted into another.
Abstract == INSTANCE TradingAuthority
              WITH mode <- current_mode, strategy <- loaded_strategy,
                   authority <- Authority
KeepsAuthorityPromise == Abstract!Spec

\* A load, a warmup start and an operator's mark_warmup_ready may each leave the
\* kernel with a status that is not the service's, but the background refresh
\* corrects it: once requests stop, kernel and service agree for good.
WarmupSettles ==
  <>[](md_strategy # NoStrategy /\ (\A h \in Handlers : pc[h] = "idle")
         => warmup_status = md_warmup)
=============================================================================
