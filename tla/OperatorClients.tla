-------------------------- MODULE OperatorClients --------------------------
(***************************************************************************)
(* Two operators' views of one runtime: the terminal console of            *)
(* apps/cli/src/console and the dashboard of apps/dashboard/src/hooks.     *)
(* Both decide on a copy of the runtime's state what a key or button means *)
(* and whether to ask first, send it as a lifecycle command, and refresh   *)
(* the copy by requests, by the answer and by the event stream, while the  *)
(* other client and the runtime itself go on.                              *)
(*                                                                         *)
(* The console is one loop (run_console): it drains its channel, draws,    *)
(* waits for a key, and awaits every request in between.  Its two stream   *)
(* tasks send to that channel at any time.  The dashboard's requests run   *)
(* side by side.  The runtime is RuntimeKernel with a strategy loaded and  *)
(* warm; its handlers' inner steps are RuntimeHost's.                      *)
(*                                                                         *)
(* Status and readiness are reduced to what the clients decide on, and the *)
(* chart to the timeframe it is of.  Left out: what is only displayed, the *)
(* help overlay, the terminal's width, and the dashboard's requests that   *)
(* change neither mode nor arm.                                            *)
(***************************************************************************)
EXTENDS RuntimeKernel, Naturals, Sequences

CONSTANTS
  Timeframes,
  Contracts,          \* sets of timeframes a loaded contract may support
  DefaultTimeframe,   \* default_timeframe of each, None when there is none
  MaxReads,           \* bound: dashboard refreshes that overlap
  Scenarios,          \* bound: who is there, which contracts, how many events of each kind
  None

Kinds == {"key", "click", "frame", "move", "fault"}
Clients == {"console", "dashboard"}

ASSUME ContractsAssumption ==
  /\ {} \in Contracts
  /\ Contracts \subseteq SUBSET Timeframes
  /\ \A c \in Contracts : DefaultTimeframe[c] \in c \cup {None}
  /\ None \notin Timeframes
ASSUME ScenariosAssumption ==
  /\ MaxReads \in Nat
  /\ Scenarios \subseteq [open : SUBSET Clients, contracts : SUBSET Contracts, reads : 0..MaxReads,
                         left : [Kinds -> Nat]]

VARIABLES
  scenario,           \* with the events of each kind that are left
  \* the runtime
  override_required,  \* its readiness asks for a hard override
  supported,          \* the timeframes of the loaded contract, {} without one
  version,            \* history: how many commands and moves there were
  hub,                \* per client, readiness reports on their way to it
  subscribed,         \* its event stream is connected
  \* the console
  stage, request, fetched, status, report, pending,
  inbox, known, selected, drawn, url, stream,
  \* the dashboard
  view, reads, command

console_vars == <<stage, request, fetched, status, report, pending>>
chart_vars == <<known, selected, drawn, url, stream>>
dashboard_vars == <<view, reads, command>>
vars == <<kernel_vars, scenario, override_required, supported, version, hub, subscribed,
          console_vars, inbox, chart_vars, dashboard_vars>>

\* RuntimeStatusSnapshot and ArmReadinessReport, as far as a client decides on them.
Status == [mode : RuntimeMode, arm : {"Armed", "Disarmed"}, at : Nat]
StatusNow == [mode |-> current_mode, arm |-> arm_state, at |-> version]
ReportNow == override_required

Action == [kind : {"SetMode"}, mode : ActiveMode] \cup [kind : {"Arm"}, allow_override : BOOLEAN]
            \cup [kind : {"Disarm", "Pause", "Resume"}]
NoRead == [status |-> None, report |-> None]
Read == [status : Status \cup {None}, report : BOOLEAN \cup {None}]
Idle == [stage |-> "idle"]

Event(kind) ==
  /\ scenario.left[kind] > 0
  /\ scenario' = [scenario EXCEPT !.left[kind] = @ - 1]

NoMessage == [chart |-> None, report |-> None]

\* The console and the dashboard are started on a runtime that is ready to be armed.
Init ==
  /\ current_mode \in StartupModes \cap ActiveMode
  /\ last_active_mode = current_mode
  /\ paused_from = current_mode
  /\ arm_state = "Disarmed"
  /\ warmup_status = "Ready"
  /\ strategy_loaded = TRUE
  /\ hard_override_active = FALSE
  /\ new_entries_enabled = TRUE
  /\ armed_mode = NoMode
  /\ scenario \in Scenarios
  /\ override_required = FALSE
  /\ supported \in scenario.contracts
  /\ version = 0
  /\ hub = [c \in Clients |-> <<>>]
  /\ subscribed = [c \in Clients |-> FALSE]
  /\ stage = IF "console" \in scenario.open THEN "refresh" ELSE "closed"
  /\ request = None
  /\ fetched = NoRead
  /\ status = None
  /\ report = None
  /\ pending = None
  /\ inbox = NoMessage
  /\ known = None
  /\ selected = None
  /\ drawn = None
  /\ url = None
  /\ stream = None
  /\ view = NoRead
  /\ reads = [r \in 1..scenario.reads |-> Idle]
  /\ command = Idle

-----------------------------------------------------------------------------
\* The runtime.  KeepRuntime and the like name what a client's own step leaves.
KeepRuntime == UNCHANGED <<kernel_vars, override_required, supported, version>>
KeepStreams == UNCHANGED <<hub, subscribed>>
KeepConsole == UNCHANGED <<console_vars, inbox, chart_vars>>
KeepDashboard == UNCHANGED dashboard_vars

Readiness == [mode |-> current_mode, blocking |-> FALSE, override_required |-> override_required]

Refused(action) ==
  \/ action.kind = "Resume" /\ last_active_mode = NoMode
  \/ /\ action.kind = "Arm"
     /\ \/ current_mode \notin OrderMode
        \/ warmup_status # "Ready"
        \/ override_required /\ ~action.allow_override

\* handle_lifecycle_command, for the commands of these clients.
Perform(action) ==
  \/ Refused(action) /\ UNCHANGED <<kernel_vars, version>>
  \/ /\ \/ action.kind = "SetMode" /\ SwitchMode(action.mode)
        \/ action.kind = "Arm" /\ Arm(Readiness, action.allow_override)
        \/ action.kind = "Disarm" /\ Disarm
        \/ action.kind = "Pause" /\ Pause
        \/ action.kind = "Resume" /\ Resume
     /\ version' = version + 1

\* runtime_lifecycle_success_response: what the answer says is published as well.
Publish ==
  hub' = [c \in Clients |-> IF subscribed[c] THEN Append(hub[c], ReportNow) ELSE hub[c]]

\* The runtime changes by itself or for somebody else: its readiness, its warmup,
\* its strategy; or a client not in the scenario has a command of its own carried out.
RuntimeMoves ==
  /\ Event("move")
  /\ \/ /\ version' = version + 1
        /\ UNCHANGED hub
        /\ \/ override_required' = ~override_required /\ UNCHANGED <<kernel_vars, supported>>
           \/ SetWarmup("Failed") /\ UNCHANGED <<override_required, supported>>
           \/ SetWarmup("Ready") /\ UNCHANGED <<override_required, supported>>
           \/ MarkStrategyLoaded /\ supported' \in scenario.contracts /\ UNCHANGED override_required
     \/ /\ \E action \in Action : ~Refused(action) /\ Perform(action)
        /\ Publish
        /\ UNCHANGED <<override_required, supported>>
  /\ UNCHANGED subscribed
  /\ KeepConsole /\ KeepDashboard

\* websocket_handler: a stream carries what is published after it was opened.
OpenEventStream(c) ==
  /\ ~subscribed[c]
  /\ c \in scenario.open
  /\ c = "console" => known # None
  /\ subscribed' = [subscribed EXCEPT ![c] = TRUE]
  /\ UNCHANGED <<scenario, hub>>
  /\ KeepRuntime /\ KeepConsole /\ KeepDashboard

LoseEventStream(c) ==
  /\ subscribed[c]
  /\ Event("fault")
  /\ subscribed' = [subscribed EXCEPT ![c] = FALSE]
  /\ hub' = [hub EXCEPT ![c] = <<>>]
  /\ KeepRuntime /\ KeepConsole /\ KeepDashboard

-----------------------------------------------------------------------------
\* The console.  What a key asks for, with the prompt it is asked with, if any.
Request(action, prompt) == [action |-> action, prompt |-> prompt]
SetMode(mode) == [kind |-> "SetMode", mode |-> mode]
ArmWith(allow_override) == [kind |-> "Arm", allow_override |-> allow_override]

\* Mutant of ArmPrompt: an override is asked for in Live only.
ArmPromptByMode(mode, allow_override, otherwise) ==
  IF mode # "Live" THEN otherwise ELSE IF allow_override THEN "override" ELSE "arm_live"

ArmPrompt(mode, allow_override, otherwise) ==
  IF allow_override THEN "override" ELSE IF mode = "Live" THEN "arm_live" ELSE otherwise

ModeRequest(mode) == Request(SetMode(mode), IF mode = "Live" THEN "live" ELSE "none")

\* request_set_mode, request_arm, request_disarm and request_pause_resume: what
\* the keys mean depends on the status the console has.
KeyRequests ==
  {ModeRequest(mode) : mode \in ActiveMode \ {status.mode}}
  \cup (IF status.arm = "Armed" THEN {Request([kind |-> "Disarm"], "none")}
        ELSE {Request(ArmWith(report), ArmPrompt(status.mode, report, "none"))})
  \cup {Request([kind |-> IF status.mode = "Paused" THEN "Resume" ELSE "Pause"], "none")}

\* handle_action_request: ask first, or send.
PressKey ==
  /\ stage = "poll"
  /\ pending = None
  /\ status # None
  /\ Event("key")
  /\ \E wanted \in KeyRequests :
       IF wanted.prompt = "none"
       THEN request' = wanted /\ stage' = "sent" /\ UNCHANGED pending
       ELSE pending' = wanted /\ stage' = "due" /\ UNCHANGED request
  /\ UNCHANGED <<fetched, status, report, inbox, chart_vars>>
  /\ KeepRuntime /\ KeepStreams /\ KeepDashboard

\* y and n, whatever has become of the runtime since the prompt.
AnswerPrompt ==
  /\ stage = "poll"
  /\ pending # None
  /\ pending' = None
  /\ \/ request' = pending /\ stage' = "sent"
     \/ stage' = "due" /\ UNCHANGED request
  /\ UNCHANGED <<scenario, fetched, status, report, inbox, chart_vars>>
  /\ KeepRuntime /\ KeepStreams /\ KeepDashboard

NoKey ==
  /\ stage = "poll"
  /\ stage' = "due"
  /\ UNCHANGED <<scenario, request, fetched, status, report, pending, inbox, chart_vars>>
  /\ KeepRuntime /\ KeepStreams /\ KeepDashboard

\* execute_lifecycle_command, as the console and the runtime see it.
ExecuteKey ==
  /\ stage = "sent"
  /\ Perform(request.action)
  /\ stage' = "executed"
  /\ UNCHANGED <<scenario, override_required, supported, request, fetched, status, report,
                 pending, inbox, chart_vars>>
  /\ KeepStreams /\ KeepDashboard

AnswerKey ==
  /\ stage = "executed"
  /\ fetched' = [status |-> StatusNow, report |-> ReportNow]
  /\ stage' = "answered"
  /\ Publish
  /\ UNCHANGED <<scenario, subscribed, request, status, report, pending, inbox, chart_vars>>
  /\ KeepRuntime /\ KeepDashboard

\* apply_lifecycle_response, before the refresh that follows it.
ApplyResponse ==
  /\ stage = "answered"
  /\ status' = fetched.status
  /\ report' = fetched.report
  /\ fetched' = NoRead
  /\ stage' = "refresh"
  /\ UNCHANGED <<scenario, request, pending, inbox, chart_vars>>
  /\ KeepRuntime /\ KeepStreams /\ KeepDashboard

\* ensure_chart_stream: a task started for another address is aborted and replaced;
\* what it has sent stays in the channel.  The address is compared as it was when
\* the choice was last refreshed, and the new task is given the choice of now.
\* Mutant of EnsureChartStream: a task that runs is left alone.
StartChartStream ==
  stream' = IF None \in {url', selected'} \/ stream # None THEN stream
            ELSE [timeframe |-> selected', url |-> url']

EnsureChartStream ==
  stream' = IF None \in {url', selected'} \/ (stream # None /\ stream.url = url') THEN stream
            ELSE [timeframe |-> selected', url |-> url']

\* The streams are looked after except after a command that was not asked about.
EnsureStreams ==
  IF request # None /\ request.prompt = "none" THEN UNCHANGED stream ELSE EnsureChartStream

LoseKeyAnswer ==
  /\ stage \in {"sent", "answered"}
  /\ Event("fault")
  /\ stage' = "due"
  /\ request' = None
  /\ fetched' = NoRead
  /\ UNCHANGED <<known, selected, drawn, url>>
  /\ EnsureStreams
  /\ UNCHANGED <<status, report, pending, inbox>>
  /\ KeepRuntime /\ KeepStreams /\ KeepDashboard

-----------------------------------------------------------------------------
\* refresh_snapshot: the requests follow one another, and nothing is kept of
\* them unless all succeed.
FetchStatus ==
  /\ stage = "refresh"
  /\ fetched.status = None
  /\ fetched' = [fetched EXCEPT !.status = StatusNow]
  /\ UNCHANGED <<scenario, stage, request, status, report, pending, inbox, chart_vars>>
  /\ KeepRuntime /\ KeepStreams /\ KeepDashboard

FetchReadiness ==
  /\ stage = "refresh"
  /\ fetched.status # None
  /\ fetched.report = None
  /\ fetched' = [fetched EXCEPT !.report = ReportNow]
  /\ UNCHANGED <<scenario, stage, request, status, report, pending, inbox, chart_vars>>
  /\ KeepRuntime /\ KeepStreams /\ KeepDashboard

ChooseTimeframe(config, preferred) ==
  IF preferred \in config THEN preferred ELSE DefaultTimeframe[config]

\* The chart's part of a refresh; its two requests are taken together.
FetchChart ==
  /\ known' = supported
  /\ selected' = ChooseTimeframe(supported, selected)
  /\ url' = selected'
  /\ drawn' = selected'

EndRefresh ==
  /\ stage' = IF request = None THEN "drain" ELSE "due"
  /\ request' = None
  /\ fetched' = NoRead
  /\ UNCHANGED <<pending, inbox>>
  /\ KeepRuntime /\ KeepStreams /\ KeepDashboard

\* Mutant of NewStatus: what the console has is kept.
OldStatus == IF status = None THEN fetched.status ELSE status

NewStatus == fetched.status

FinishRefresh ==
  /\ stage = "refresh"
  /\ fetched.report # None
  /\ status' = NewStatus
  /\ report' = fetched.report
  /\ FetchChart
  /\ EnsureStreams
  /\ EndRefresh
  /\ UNCHANGED scenario

FailRefresh ==
  /\ stage = "refresh"
  /\ Event("fault")
  /\ UNCHANGED <<status, report, known, selected, drawn, url>>
  /\ EnsureStreams
  /\ EndRefresh

\* Between two iterations of the loop a refresh may be due.
StartRefresh ==
  /\ stage = "due"
  /\ stage' = "refresh"
  /\ UNCHANGED <<scenario, request, fetched, status, report, pending, inbox, chart_vars>>
  /\ KeepRuntime /\ KeepStreams /\ KeepDashboard

NextIteration ==
  /\ stage = "due"
  /\ stage' = "drain"
  /\ UNCHANGED <<scenario, request, fetched, status, report, pending, inbox, chart_vars>>
  /\ KeepRuntime /\ KeepStreams /\ KeepDashboard

-----------------------------------------------------------------------------
\* handle_timeframe_change: the choice, then refresh_chart.
SelectTimeframe(timeframe) ==
  /\ stage = "poll"
  /\ pending = None
  /\ known # None
  /\ timeframe \in known
  /\ selected # timeframe
  /\ Event("frame")
  /\ selected' = timeframe
  /\ url' = timeframe
  /\ stage' = "chart"
  /\ UNCHANGED <<request, fetched, status, report, pending, inbox, known, drawn, stream>>
  /\ KeepRuntime /\ KeepStreams /\ KeepDashboard

\* The chart's requests both succeed, or the snapshot fails, or the first does.
RefreshChart ==
  /\ stage = "chart"
  /\ stage' = "due"
  /\ \/ FetchChart /\ UNCHANGED scenario
     \/ /\ Event("fault")
        /\ \/ UNCHANGED <<known, selected, drawn, url>>
           \/ /\ known' = supported
              /\ selected' = ChooseTimeframe(supported, selected)
              /\ url' = selected'
              /\ drawn' = None
  /\ EnsureChartStream
  /\ UNCHANGED <<request, fetched, status, report, pending, inbox>>
  /\ KeepRuntime /\ KeepStreams /\ KeepDashboard

\* resolved_chart_timeframe: any timeframe is served while there is no chart.
Served(timeframe) == timeframe \in supported \/ supported = {}

\* chart_websocket_loop and stream_chart_events
SendChart ==
  /\ stream # None
  /\ Served(stream.timeframe)
  /\ inbox' = [inbox EXCEPT !.chart = [timeframe |-> stream.timeframe, known |-> supported]]
  /\ UNCHANGED <<scenario, console_vars, chart_vars>>
  /\ KeepRuntime /\ KeepStreams /\ KeepDashboard

\* stream_control_events
ForwardEvent ==
  /\ hub["console"] # <<>>
  /\ inbox' = [inbox EXCEPT !.report = Head(hub["console"])]
  /\ hub' = [hub EXCEPT !["console"] = Tail(@)]
  /\ UNCHANGED <<scenario, subscribed, console_vars, chart_vars>>
  /\ KeepRuntime /\ KeepDashboard

\* apply_message, for all that waits.
Drain ==
  /\ stage = "drain"
  /\ stage' = "poll"
  /\ inbox' = NoMessage
  /\ report' = IF None \in {inbox.report, report} THEN report ELSE inbox.report
  /\ IF inbox.chart = None THEN UNCHANGED <<known, selected, drawn>>
     ELSE /\ known' = inbox.chart.known
          /\ selected' = inbox.chart.timeframe
          /\ drawn' = inbox.chart.timeframe
  /\ UNCHANGED <<scenario, request, fetched, status, pending, url, stream>>
  /\ KeepRuntime /\ KeepStreams /\ KeepDashboard

-----------------------------------------------------------------------------
\* The dashboard.  refreshSnapshot every REFRESH_INTERVAL_MS, whether or not an
\* earlier one is still under way.
Tick(r) ==
  /\ reads[r] = Idle
  /\ reads' = [reads EXCEPT ![r] = [stage |-> "reading", read |-> NoRead]]
  /\ UNCHANGED <<scenario, view, command>>
  /\ KeepRuntime /\ KeepStreams /\ KeepConsole

\* loadDashboardSnapshot: the requests are served in any order.
MoreRead(read) ==
  {more \in {[read EXCEPT !.status = StatusNow], [read EXCEPT !.report = ReportNow]} :
     /\ read.status # None => more.status = read.status
     /\ read.report # None => more.report = read.report
     /\ more # read}

Complete(read) == None \notin {read.status, read.report}

ReadMore(r) ==
  /\ reads[r].stage = "reading"
  /\ \E more \in MoreRead(reads[r].read) : reads' = [reads EXCEPT ![r].read = more]
  /\ UNCHANGED <<scenario, view, command>>
  /\ KeepRuntime /\ KeepStreams /\ KeepConsole

FinishRead(r) ==
  /\ reads[r].stage = "reading"
  /\ Complete(reads[r].read)
  /\ view' = reads[r].read
  /\ reads' = [reads EXCEPT ![r] = Idle]
  /\ UNCHANGED <<scenario, command>>
  /\ KeepRuntime /\ KeepStreams /\ KeepConsole

FailRead(r) ==
  /\ reads[r].stage = "reading"
  /\ Event("fault")
  /\ reads' = [reads EXCEPT ![r] = Idle]
  /\ UNCHANGED <<view, command>>
  /\ KeepRuntime /\ KeepStreams /\ KeepConsole

\* handleSetMode, handleArmToggle and handlePauseResume: a button is there while
\* no command is pending; what it asks is confirmed before anything else happens.
ButtonRequests ==
  {ModeRequest(mode) : mode \in ActiveMode \ {view.status.mode}}
  \cup (IF view.status.arm = "Armed" THEN {Request([kind |-> "Disarm"], "none")}
        ELSE {Request(ArmWith(view.report), ArmPrompt(view.status.mode, view.report, "arm"))})
  \cup {Request([kind |-> IF view.status.mode = "Paused" THEN "Resume" ELSE "Pause"], "none")}

Click ==
  /\ command = Idle
  /\ view # NoRead
  /\ Event("click")
  /\ \E wanted \in ButtonRequests :
       command' = [stage |-> "sent", request |-> wanted]
  /\ UNCHANGED <<view, reads>>
  /\ KeepRuntime /\ KeepStreams /\ KeepConsole

\* executeLifecycleCommand
ExecuteClick ==
  /\ command.stage = "sent"
  /\ Perform(command.request.action)
  /\ command' = [command EXCEPT !.stage = "executed"]
  /\ UNCHANGED <<scenario, override_required, supported, view, reads>>
  /\ KeepStreams /\ KeepConsole

AnswerClick ==
  /\ command.stage = "executed"
  /\ command' = [stage |-> "answered", read |-> NoRead,
                 answer |-> [status |-> StatusNow, report |-> ReportNow]]
  /\ Publish
  /\ UNCHANGED <<scenario, subscribed, view, reads>>
  /\ KeepRuntime /\ KeepConsole

LoseClickAnswer ==
  /\ \/ command.stage = "sent"
     \/ command.stage = "answered" /\ command.read = NoRead
  /\ Event("fault")
  /\ command' = Idle
  /\ UNCHANGED <<view, reads>>
  /\ KeepRuntime /\ KeepStreams /\ KeepConsole

ReloadMore ==
  /\ command.stage = "answered"
  /\ \E more \in MoreRead(command.read) : command' = [command EXCEPT !.read = more]
  /\ UNCHANGED <<scenario, view, reads>>
  /\ KeepRuntime /\ KeepStreams /\ KeepConsole

\* The snapshot is reloaded, or, should that fail, the answer is merged into it.
EndClick ==
  /\ command.stage = "answered"
  /\ command' = Idle
  /\ \/ Complete(command.read) /\ view' = command.read /\ UNCHANGED scenario
     \/ Event("fault") /\ view' = command.answer
  /\ UNCHANGED reads
  /\ KeepRuntime /\ KeepStreams /\ KeepConsole

\* mergeEventIntoSnapshot
MergeEvent ==
  /\ hub["dashboard"] # <<>>
  /\ hub' = [hub EXCEPT !["dashboard"] = Tail(@)]
  /\ view' = IF view = NoRead THEN view ELSE [view EXCEPT !.report = Head(hub["dashboard"])]
  /\ UNCHANGED <<scenario, subscribed, reads, command>>
  /\ KeepRuntime /\ KeepConsole

-----------------------------------------------------------------------------
ConsoleProgress ==
  \/ NoKey \/ ExecuteKey \/ AnswerKey \/ ApplyResponse
  \/ FetchStatus \/ FetchReadiness \/ FinishRefresh
  \/ NextIteration \/ RefreshChart \/ Drain

DashboardProgress(r) == Tick(r) \/ ReadMore(r) \/ FinishRead(r)
CommandProgress == ExecuteClick \/ AnswerClick \/ ReloadMore \/ EndClick

Next ==
  \/ RuntimeMoves
  \/ \E c \in Clients : OpenEventStream(c) \/ LoseEventStream(c)
  \/ ConsoleProgress
  \/ PressKey \/ AnswerPrompt \/ LoseKeyAnswer \/ FailRefresh \/ StartRefresh
  \/ \E timeframe \in Timeframes : SelectTimeframe(timeframe)
  \/ SendChart \/ ForwardEvent
  \/ \E r \in DOMAIN reads : DashboardProgress(r) \/ FailRead(r)
  \/ Click \/ CommandProgress \/ LoseClickAnswer \/ MergeEvent

\* Every request is served or fails and both loops go on, a refresh of the console
\* comes due again and again, and what is published arrives.  Operators, faults and
\* the chart's stream are not fair.
Fairness ==
  /\ WF_vars(ConsoleProgress)
  /\ SF_vars(StartRefresh)
  /\ WF_vars(ForwardEvent) /\ WF_vars(MergeEvent)
  /\ \A r \in 1..MaxReads : WF_vars(r \in DOMAIN reads /\ DashboardProgress(r))
  /\ WF_vars(CommandProgress)

Spec == Init /\ [][Next]_vars
FairSpec == Spec /\ Fairness

-----------------------------------------------------------------------------
\* A client decides from a copy which confirmation a key or a button needs, and
\* the runtime carries the command out on a state that may have moved on: by an
\* event, by another operator, or by a command whose answer was lost.  All the
\* same the runtime never turns to Live by a mode command, nor takes up a hard
\* override, without the operator having been asked for just that; and what is
\* armed unasked is armed in Live only if the console's copy of the mode is out
\* of date (request_set_mode, request_arm, handleSetMode, handleArmToggle).
ExecutedBy ==
  IF stage = "sent" /\ stage' = "executed" THEN request
  ELSE IF command.stage = "sent" /\ command'.stage = "executed" THEN command.request
  ELSE None

AskedBefore ==
  [][ ExecutedBy # None =>
        /\ hard_override_active' /\ ~hard_override_active => ExecutedBy.prompt = "override"
        /\ ExecutedBy.action.kind = "SetMode" /\ current_mode' = "Live"
             => ExecutedBy.prompt = "live"
        /\ ExecutedBy.action.kind = "Arm" /\ ExecutedBy.prompt = "none" /\ arm_state' = "Armed"
             => current_mode # "Live" \/ status.mode # "Live" ]_vars

\* Once operators and faults have stopped, each client shows the runtime as it is
\* and goes on doing so: no refresh, answer or event that was overtaken stays.
ClientsCatchUp ==
  <>[](/\ "console" \in scenario.open => status = StatusNow /\ report = ReportNow
       /\ "dashboard" \in scenario.open => view = [status |-> StatusNow, report |-> ReportNow])

\* The chart drawn, the timeframe chosen and the stream that updates it come to
\* agree again, whatever was chosen while messages of a replaced stream waited
\* and whichever of the chart's requests failed (apply_chart_event sets the
\* choice back, ensure_chart_stream follows it); unless a stream was started
\* under the address of another timeframe, which ensure_chart_stream then takes
\* for the right one.
Misaddressed == stream # None /\ stream.timeframe # stream.url

ChartAgreesAgain ==
  []<>("console" \in scenario.open =>
         \/ Misaddressed
         \/ /\ selected = drawn
            /\ selected # None => stream # None /\ stream.timeframe = selected)
=============================================================================
