----------------------- MODULE OperatorClientsProofs -----------------------
(***************************************************************************)
(* The safety properties of the operators' clients.                        *)
(*                                                                         *)
(* AskedBefore, for every number of keys, clicks, moves and faults: a      *)
(* request carries its prompt from the key or button to the runtime, so    *)
(* that a command that waits or is on its way was asked for as its action  *)
(* demands, and the console's copy of the mode is the one the request was  *)
(* built from until the answer is in.                                      *)
(*                                                                         *)
(* UploadsAreKept, for every number of uploads: of a path that was given   *)
(* to one upload at a time, that upload alone decides.                     *)
(*                                                                         *)
(* SavedSettingsSurviveRestart, for any files, environments and saves: a   *)
(* save that is alone has found the file and the memory consistent, and at *)
(* each stage of it what is on the disk, or was read from it, starts a     *)
(* runtime.                                                                *)
(***************************************************************************)
EXTENDS OperatorClients, StrategyLibrary, RuntimeSettings, WellFoundedInduction, TLAPS

\* What a request's action demands of its prompt.
IsAskedFor(wanted) ==
  /\ wanted.action.kind = "SetMode" /\ wanted.action.mode = "Live" => wanted.prompt = "live"
  /\ wanted.action.kind = "Arm" /\ wanted.action.allow_override => wanted.prompt = "override"

AskedInv ==
  /\ stage = "sent" =>
       /\ IsAskedFor(request)
       /\ request.action.kind = "Arm" /\ request.prompt = "none" => status.mode # "Live"
  /\ pending # None => IsAskedFor(pending) /\ pending.prompt # "none"
  /\ command.stage = "sent" =>
       /\ IsAskedFor(command.request)
       /\ command.request.action.kind = "Arm" => command.request.prompt # "none"

\* Each key asks for what its action demands (request_set_mode, request_arm,
\* request_disarm, request_pause_resume).
LEMMA KeysAsk ==
  ASSUME NEW wanted \in KeyRequests
  PROVE  /\ IsAskedFor(wanted)
         /\ wanted.action.kind = "Arm" /\ wanted.prompt = "none" => status.mode # "Live"
  BY DEF KeyRequests, IsAskedFor, ModeRequest, Request, SetMode, ArmWith, ArmPrompt

\* Each button asks for what its action demands, and always for an arm
\* (handleSetMode, handleArmToggle, handlePauseResume).
LEMMA ButtonsAsk ==
  ASSUME NEW wanted \in ButtonRequests
  PROVE  /\ IsAskedFor(wanted)
         /\ wanted.action.kind = "Arm" => wanted.prompt # "none"
  BY DEF ButtonRequests, IsAskedFor, ModeRequest, Request, SetMode, ArmWith, ArmPrompt

\* Only an arm that allows an override takes one up, and a mode command ends in its
\* mode (RuntimeStateMachine).
LEMMA OverrideIsAllowed ==
  ASSUME NEW action, Perform(action), hard_override_active', ~hard_override_active
  PROVE  action.kind = "Arm" /\ action.allow_override
  BY DEF Perform, kernel_vars, SwitchMode, Arm, Disarm, Pause, Resume, KeepArm, ClearArm,
         Readiness

\* A mode command that is carried out sets its mode.
LEMMA ModeIsSet ==
  ASSUME NEW action, Perform(action), action.kind = "SetMode"
  PROVE  current_mode' = action.mode
  BY DEF Perform, Refused, SwitchMode, NoteMode

\* The invariant holds before anything is asked,
LEMMA AskedInit == Init => AskedInv
  BY DEF Init, AskedInv, Idle

\* Nothing is asked or sent in a step that leaves the requests where they are.
LEMMA AskedKept ==
  ASSUME AskedInv, stage' = "sent" => stage = "sent" /\ UNCHANGED <<request, status>>,
         pending' \in {pending, None},
         command'.stage = "sent" => UNCHANGED command
  PROVE  AskedInv'
  BY DEF AskedInv, IsAskedFor

\* and every step of the clients and the runtime keeps it.
LEMMA AskedStep == AskedInv /\ [Next]_vars => AskedInv'
<1> SUFFICES ASSUME AskedInv, [Next]_vars PROVE AskedInv'
  OBVIOUS
<1> USE DEF KeepRuntime, KeepStreams, KeepConsole, KeepDashboard, console_vars, dashboard_vars, Idle
<1>1. CASE RuntimeMoves
  BY <1>1, AskedKept DEF RuntimeMoves
<1>2. CASE \E c \in Clients : OpenEventStream(c) \/ LoseEventStream(c)
  BY <1>2, AskedKept DEF OpenEventStream, LoseEventStream
<1>3. CASE NoKey \/ StartRefresh \/ NextIteration
  BY <1>3, AskedKept DEF NoKey, StartRefresh, NextIteration
<1>4. CASE PressKey
  <2>1. PICK wanted \in KeyRequests :
          IF wanted.prompt = "none"
          THEN request' = wanted /\ stage' = "sent" /\ UNCHANGED pending
          ELSE pending' = wanted /\ stage' = "due" /\ UNCHANGED request
    BY <1>4 DEF PressKey
  <2>2. /\ IsAskedFor(wanted)
        /\ wanted.action.kind = "Arm" /\ wanted.prompt = "none" => status.mode # "Live"
    BY KeysAsk
  <2> QED
    BY <1>4, <2>1, <2>2 DEF PressKey, AskedInv, IsAskedFor
<1>5. CASE AnswerPrompt
  BY <1>5 DEF AnswerPrompt, AskedInv, IsAskedFor
<1>6. CASE ExecuteKey \/ AnswerKey \/ ApplyResponse \/ LoseKeyAnswer
  BY <1>6, AskedKept DEF ExecuteKey, AnswerKey, ApplyResponse, LoseKeyAnswer
<1>7. CASE FetchStatus \/ FetchReadiness
  BY <1>7, AskedKept DEF FetchStatus, FetchReadiness
<1>8. CASE FinishRefresh \/ FailRefresh
  BY <1>8, AskedKept DEF FinishRefresh, FailRefresh, EndRefresh
<1>9. CASE \E timeframe \in Timeframes : SelectTimeframe(timeframe)
  BY <1>9, AskedKept DEF SelectTimeframe
<1>10. CASE RefreshChart \/ SendChart \/ ForwardEvent \/ Drain
  BY <1>10, AskedKept DEF RefreshChart, SendChart, ForwardEvent, Drain
<1>11. CASE \E r \in DOMAIN reads : DashboardProgress(r) \/ FailRead(r)
  BY <1>11, AskedKept DEF DashboardProgress, Tick, ReadMore, FinishRead, FailRead
<1>12. CASE Click
  <2>1. PICK wanted \in ButtonRequests : command' = [stage |-> "sent", request |-> wanted]
    BY <1>12 DEF Click
  <2>2. /\ IsAskedFor(wanted)
        /\ wanted.action.kind = "Arm" => wanted.prompt # "none"
    BY ButtonsAsk
  <2> QED
    BY <1>12, <2>1, <2>2 DEF Click, AskedInv, IsAskedFor
<1>13. CASE ExecuteClick
  BY <1>13, AskedKept DEF ExecuteClick, AskedInv
<1>14. CASE AnswerClick \/ LoseClickAnswer \/ EndClick
  BY <1>14, AskedKept DEF AnswerClick, LoseClickAnswer, EndClick
<1>15. CASE ReloadMore
  BY <1>15, AskedKept DEF ReloadMore
<1>16. CASE MergeEvent
  BY <1>16, AskedKept DEF MergeEvent
<1>17. CASE UNCHANGED vars
  BY <1>17, AskedKept DEF vars
<1> QED
  BY <1>1, <1>2, <1>3, <1>4, <1>5, <1>6, <1>7, <1>8, <1>9, <1>10, <1>11, <1>12, <1>13, <1>14,
     <1>15, <1>16, <1>17 DEF Next, ConsoleProgress, CommandProgress

\* The runtime carries a request out where it is said to.
LEMMA ExecutedIsPerformed ==
  ASSUME [Next]_vars, ExecutedBy # None
  PROVE  Perform(ExecutedBy.action)
<1> USE DEF KeepRuntime, KeepStreams, KeepConsole, KeepDashboard, console_vars, dashboard_vars, Idle
<1>1. CASE stage = "sent" /\ stage' = "executed"
  <2>1. ExecuteKey
    BY <1>1 DEF Next, vars, ConsoleProgress, DashboardProgress, CommandProgress, RuntimeMoves,
       OpenEventStream, LoseEventStream, NoKey, StartRefresh, NextIteration, PressKey,
       AnswerPrompt, AnswerKey, ApplyResponse, LoseKeyAnswer, FetchStatus, FetchReadiness,
       FinishRefresh, FailRefresh, EndRefresh, SelectTimeframe, RefreshChart, SendChart,
       ForwardEvent, Drain, Tick, ReadMore, FinishRead, FailRead, Click, ExecuteClick,
       AnswerClick, LoseClickAnswer, EndClick, ReloadMore, MergeEvent
  <2> QED
    BY <1>1, <2>1 DEF ExecuteKey, ExecutedBy
<1>2. CASE ~(stage = "sent" /\ stage' = "executed")
  <2>1. command.stage = "sent" /\ command'.stage = "executed"
    BY <1>2 DEF ExecutedBy
  <2>2. ExecuteClick
    BY <2>1 DEF Next, vars, ConsoleProgress, DashboardProgress, CommandProgress, RuntimeMoves,
       OpenEventStream, LoseEventStream, NoKey, StartRefresh, NextIteration, PressKey,
       AnswerPrompt, ExecuteKey, AnswerKey, ApplyResponse, LoseKeyAnswer, FetchStatus,
       FetchReadiness, FinishRefresh, FailRefresh, EndRefresh, SelectTimeframe, RefreshChart,
       SendChart, ForwardEvent, Drain, Tick, ReadMore, FinishRead, FailRead, Click,
       AnswerClick, LoseClickAnswer, EndClick, ReloadMore, MergeEvent
  <2> QED
    BY <1>2, <2>1, <2>2 DEF ExecuteClick, ExecutedBy
<1> QED
  BY <1>1, <1>2

\* Whatever the clients' copies have become by the time the runtime carries a command
\* out, Live mode by a mode command and a hard override were asked for, and an unasked
\* arm in Live comes of an outdated mode.
THEOREM LiveAndOverrideAreAsked == Spec => AskedBefore
<1> DEFINE Asked ==
      ExecutedBy # None =>
        /\ hard_override_active' /\ ~hard_override_active => ExecutedBy.prompt = "override"
        /\ ExecutedBy.action.kind = "SetMode" /\ current_mode' = "Live"
             => ExecutedBy.prompt = "live"
        /\ ExecutedBy.action.kind = "Arm" /\ ExecutedBy.prompt = "none" /\ arm_state' = "Armed"
             => current_mode # "Live" \/ status.mode # "Live"
<1>1. ASSUME AskedInv, [Next]_vars PROVE Asked
  <2>1. ExecutedBy # None =>
          /\ IsAskedFor(ExecutedBy)
          /\ ExecutedBy.action.kind = "Arm" /\ ExecutedBy.prompt = "none" => status.mode # "Live"
    BY <1>1 DEF AskedInv, ExecutedBy
  <2>2. ASSUME ExecutedBy # None, hard_override_active', ~hard_override_active
        PROVE  ExecutedBy.prompt = "override"
    BY <1>1, <2>1, <2>2, ExecutedIsPerformed, OverrideIsAllowed DEF IsAskedFor
  <2>3. ASSUME ExecutedBy # None, ExecutedBy.action.kind = "SetMode", current_mode' = "Live"
        PROVE  ExecutedBy.prompt = "live"
    BY <1>1, <2>1, <2>3, ExecutedIsPerformed, ModeIsSet DEF IsAskedFor
  <2> QED
    BY <2>1, <2>2, <2>3
<1>2. AskedInv /\ [Next]_vars => [Asked]_vars
  BY <1>1
<1> QED
  BY AskedInit, AskedStep, <1>2, PTL DEF Spec, AskedBefore

-----------------------------------------------------------------------------
\* A set of natural numbers has a least one.
LEMMA LeastExists ==
  ASSUME NEW S \in SUBSET Nat, S # {}
  PROVE  \E p \in S : \A q \in S : p <= q
<1>1. PICK p \in S : \A q \in S : ~(<<q, p>> \in OpToRel(<, Nat))
  BY NatLessThanWellFounded, WFMin
<1>2. \A q \in S : ~(q < p)
  BY <1>1 DEF OpToRel
<1> QED BY <1>2

\* So the path an upload is given is free.
LEMMA AllocatedIsFree ==
  ASSUME Free # {}
  PROVE  AllocatedPath \in Paths /\ files[AllocatedPath] = Nowhere
<1>1. Free \in SUBSET Nat
  BY LibraryBudgetsAssumption DEF Free, Paths
<1>2. AllocatedPath \in Free
  BY <1>1, LeastExists DEF AllocatedPath
<1> QED BY <1>2 DEF Free

Named(u, p) == uploads[u] # Nowhere /\ uploads[u].stage = "named" /\ uploads[u].path = p

UploadOK(u) ==
  uploads[u] # Nowhere =>
    /\ uploads[u].stage = "sent" => uploads[u].text \in Texts
    /\ uploads[u].stage = "named" =>
         uploads[u] \in [stage : {"named"}, text : Texts, path : Paths]

\* Of a path that was given to one upload at a time, that upload alone decides.
OneWriter(p) ==
  /\ \A stored \in kept : stored[1] = p => files[p] = stored[2]
  /\ \A u \in Uploaders : Named(u, p) =>
       /\ \A stored \in kept : stored[1] # p
       /\ \A v \in Uploaders : Named(v, p) => v = u

LibraryInv ==
  /\ DOMAIN files = Paths /\ DOMAIN uploads = Uploaders
  /\ \A stored \in kept : stored[1] \in Paths /\ stored[2] \in Texts
  /\ \A u \in Uploaders : UploadOK(u)
  /\ \A p \in Paths \ clashed : OneWriter(p)

\* The steps of the panel leave the files and what is to be written alone.
LEMMA PanelKeepsLibrary ==
  ASSUME LibraryInv, UNCHANGED <<files, clashed, kept>>, DOMAIN uploads' = Uploaders,
         \A u \in Uploaders : \/ uploads'[u] = uploads[u]
                              \/ uploads'[u] = Nowhere
                              \/ /\ uploads'[u].stage \notin {"sent", "named"}
                              \/ uploads'[u].stage = "sent" /\ uploads'[u].text \in Texts
  PROVE  LibraryInv'
<1>1. \A u \in Uploaders, p \in Paths : Named(u, p)' => Named(u, p)
  BY DEF Named
<1>2. \A u \in Uploaders : UploadOK(u)'
  BY DEF LibraryInv, UploadOK
<1>3. ASSUME NEW p \in Paths \ clashed, OneWriter(p) PROVE OneWriter(p)'
  BY <1>1, <1>3 DEF OneWriter
<1> QED BY <1>2, <1>3 DEF LibraryInv

\* A path is given to an upload when there is no file at it.
LEMMA AllocationKeepsLibrary ==
  ASSUME LibraryInv, NEW u \in Uploaders, AllocatePath(u)
  PROVE  LibraryInv'
<1> DEFINE q == AllocatedPath
<1>1. /\ uploads[u] # Nowhere /\ uploads[u].stage = "sent"
      /\ uploads' = [uploads EXCEPT ![u] = [stage |-> "named", text |-> uploads[u].text,
                                            path |-> q]]
      /\ clashed' = clashed \cup {q : v \in {w \in Uploaders \ {u} :
                     /\ uploads[w] # Nowhere /\ uploads[w].stage = "named"
                     /\ uploads[w].path = q}}
      /\ UNCHANGED <<files, kept>>
  BY DEF AllocatePath
<1>2. q \in Paths /\ files[q] = Nowhere
  BY AllocatedIsFree DEF AllocatePath
<1> HIDE DEF q
<1>3. /\ DOMAIN uploads' = Uploaders
      /\ uploads'[u] = [stage |-> "named", text |-> uploads[u].text, path |-> q]
      /\ \A v \in Uploaders \ {u} : uploads'[v] = uploads[v]
  BY <1>1 DEF LibraryInv
<1>4. \A v \in Uploaders : UploadOK(v)'
  BY <1>1, <1>2, <1>3 DEF LibraryInv, UploadOK
<1>5. clashed \subseteq clashed' /\ (q \notin clashed' => \A v \in Uploaders \ {u} : ~Named(v, q))
  BY <1>1 DEF Named
<1>6. ASSUME NEW p \in Paths \ clashed' PROVE OneWriter(p)'
  <2>1. OneWriter(p)
    BY <1>5, <1>6 DEF LibraryInv
  <2>2. \A v \in Uploaders \ {u} : Named(v, p)' <=> Named(v, p)
    BY <1>3 DEF Named
  <2>3. CASE p # q
    <3>1. ~Named(u, p)'
      BY <1>3, <2>3 DEF Named
    <3> QED BY <1>1, <2>1, <2>2, <3>1 DEF OneWriter
  <2>4. CASE p = q
    <3>1. \A stored \in kept : stored[1] # q
      BY <1>2, <2>1, <2>4, TextsAssumption DEF OneWriter, LibraryInv
    <3>2. \A v \in Uploaders \ {u} : ~Named(v, p)'
      BY <1>5, <1>6, <2>2, <2>4
    <3> QED BY <1>1, <2>4, <3>1, <3>2 DEF OneWriter
  <2> QED BY <2>3, <2>4
<1> QED BY <1>1, <1>3, <1>4, <1>6 DEF LibraryInv

\* An upload writes the path it was given and is no writer any more.
LEMMA WriteKeepsLibrary ==
  ASSUME LibraryInv, NEW u \in Uploaders, StoreUpload(u) \/ StoreFails(u)
  PROVE  LibraryInv'
<1>0. /\ uploads[u] # Nowhere /\ uploads[u].stage = "named"
      /\ uploads[u] \in [stage : {"named"}, text : Texts, path : Paths]
  BY DEF StoreUpload, StoreFails, LibraryInv, UploadOK
<1>1. PICK q \in Paths : q = uploads[u].path /\ uploads[u].text \in Texts /\ UNCHANGED clashed
  BY <1>0 DEF StoreUpload, StoreFails
<1>2. /\ DOMAIN uploads' = Uploaders /\ DOMAIN files' = Paths
      /\ \A v \in Uploaders \ {u} : uploads'[v] = uploads[v]
      /\ \A p \in Paths \ {q} : files'[p] = files[p]
  BY <1>1 DEF StoreUpload, StoreFails, LibraryInv
<1>3. uploads'[u] = Nowhere \/ uploads'[u].stage = "stored"
  BY <1>0 DEF StoreUpload, StoreFails, LibraryInv
<1>4. \/ kept' = kept
      \/ kept' = kept \cup {<<q, uploads[u].text>>} /\ files'[q] = uploads[u].text
  BY <1>1 DEF StoreUpload, StoreFails, LibraryInv
<1>5. \A v \in Uploaders : UploadOK(v)'
  BY <1>2, <1>3 DEF LibraryInv, UploadOK
<1>6. \A p \in Paths : ~Named(u, p)' /\ \A v \in Uploaders \ {u} : Named(v, p)' <=> Named(v, p)
  BY <1>2, <1>3 DEF Named
<1>7. Named(u, q)
  BY <1>0, <1>1 DEF Named
<1>8. ASSUME NEW p \in Paths \ clashed' PROVE OneWriter(p)'
  <2>1. OneWriter(p)
    BY <1>1, <1>8 DEF LibraryInv
  <2>2. CASE p # q
    <3>1. \A stored \in kept' : stored[1] = p => stored \in kept
      BY <1>4, <2>2
    <3>2. files'[p] = files[p]
      BY <1>2, <1>8, <2>2
    <3> QED BY <1>6, <1>8, <2>1, <3>1, <3>2 DEF OneWriter
  <2>3. CASE p = q
    <3>1. \A stored \in kept : stored[1] # q
      BY <1>7, <2>1, <2>3 DEF OneWriter
    <3>2. \A v \in Uploaders : ~Named(v, q)'
      BY <1>6, <1>7, <1>8, <2>1, <2>3 DEF OneWriter
    <3>3. \A stored \in kept' : stored[1] = q => files'[q] = stored[2]
      BY <1>4, <3>1
    <3> QED BY <2>3, <3>2, <3>3 DEF OneWriter
  <2> QED BY <2>2, <2>3
<1>9. \A stored \in kept' : stored[1] \in Paths /\ stored[2] \in Texts
  BY <1>1, <1>4 DEF LibraryInv
<1> QED BY <1>2, <1>5, <1>8, <1>9 DEF LibraryInv

\* Nothing is uploaded at first.
LEMMA InitLibraryInv == LibraryInit => LibraryInv
BY DEF LibraryInit, LibraryInv, UploadOK, OneWriter, Named

\* Every step of the library and its panel keeps the invariant.
LEMMA LibraryStep == LibraryInv /\ [LibraryNext]_library_vars => LibraryInv'
<1> SUFFICES ASSUME LibraryInv, [LibraryNext]_library_vars PROVE LibraryInv'
  OBVIOUS
<1>1. ASSUME NEW u \in Uploaders, AllocatePath(u) PROVE LibraryInv'
  BY <1>1, AllocationKeepsLibrary
<1>2. ASSUME NEW u \in Uploaders, StoreUpload(u) \/ StoreFails(u) PROVE LibraryInv'
  BY <1>2, WriteKeepsLibrary
<1>3. ASSUME NEW u \in Uploaders, NEW text \in Texts, StartUpload(u, text) PROVE LibraryInv'
  <2>1. /\ uploads' = [uploads EXCEPT ![u] = [stage |-> "sent", text |-> text]]
        /\ UNCHANGED <<files, clashed, kept>>
    BY <1>3 DEF StartUpload
  <2> QED BY <2>1, PanelKeepsLibrary DEF LibraryInv
<1>4. ASSUME NEW r \in Readings, UploadAnswered(r) PROVE LibraryInv'
  <2>1. /\ uploads' = [uploads EXCEPT !["dashboard"] =
                         [stage |-> "reading", text |-> uploads["dashboard"].text,
                          path |-> uploads["dashboard"].path, reading |-> r]]
        /\ UNCHANGED <<files, clashed, kept>>
    BY <1>4 DEF UploadAnswered
  <2> QED BY <2>1, PanelKeepsLibrary DEF LibraryInv
<1>5. ASSUME NEW r \in Readings, ReadingArrives(r) \/ ReadingFails(r) PROVE LibraryInv'
  <2>1. /\ uploads' = uploads \/ uploads' = [uploads EXCEPT !["dashboard"] = Nowhere]
        /\ UNCHANGED <<files, clashed, kept>>
    BY <1>5 DEF ReadingArrives, ReadingFails, ChooseUpload
  <2>2. "dashboard" \in Uploaders
    BY DEF Uploaders
  <2> QED BY <2>1, <2>2, PanelKeepsLibrary DEF LibraryInv
<1>6. ASSUME \/ \E r \in Readings : PressRefresh(r) \/ ServeReading(r)
             \/ \E path \in Paths : PickPath(path)
             \/ PressValidate \/ PressLoad \/ LoadAnswered
             \/ \E c \in Checkers : CheckArrives(c) \/ CheckFails(c)
             \/ UNCHANGED library_vars
      PROVE  LibraryInv'
  <2>1. UNCHANGED <<files, clashed, kept, uploads>>
    BY <1>6 DEF PressRefresh, ServeReading, PickPath, PressValidate, PressLoad, LoadAnswered,
                CheckArrives, CheckFails, library_vars
  <2> QED BY <2>1, PanelKeepsLibrary DEF LibraryInv
<1> QED BY <1>1, <1>2, <1>3, <1>4, <1>5, <1>6 DEF LibraryNext, LibraryAnswers

\* For any texts, suffixes, readings and faults: what a client was told it has
\* stored is there, unless its path was given to two uploads at once.
THEOREM StoredUploadsAreKept == LibrarySpec => []UploadsAreKept
<1>1. LibraryInv => UploadsAreKept
  BY DEF LibraryInv, UploadsAreKept, OneWriter
<1> QED BY <1>1, InitLibraryInv, LibraryStep, PTL DEF LibrarySpec

-----------------------------------------------------------------------------
\* The configuration that a file, or none, stands for.
Given(at) == IF at = Unset THEN Empty ELSE at

\* A file the runtime starts from, with what saving does not edit as it was.
Good(config) ==
  /\ config \in Config
  /\ Built(Overridden(config)) # Failure
  /\ \A f \in Fields \ Edited : Built(Overridden(config))[f] = original[f]

Consistent(at, having) ==
  /\ Good(Given(at))
  /\ at # Unset /\ having # Unset =>
       \A f \in Edited : environment[f] = Unset => Built(Overridden(at))[f] = having[f]

\* What a save that is alone has found and left, stage by stage.
SaveOK(job, at, having) ==
  /\ job.stage \in {"sent", "read"} => Consistent(at, having)
  /\ job.stage = "read" => at # Unset /\ job.read = at
  /\ job.stage = "cut" => at # Unset /\ Good(job.read)
  /\ job.stage = "written" =>
       Good(Given(at)) /\ (at # Unset => \A f \in Edited : at[f] = job.next[f])

SettingsTypeOK ==
  /\ environment \in Config
  /\ file \in Config \cup {Unset}
  /\ settings \in Settings \cup {Unset}
  /\ shown \in [Panels -> Settings \cup {Unset}]
  /\ coming \in [Panels -> Settings \cup {Unset}]
  /\ draft \in [Panels -> Settings \cup {Unset}]
  /\ dirty \in [Panels -> BOOLEAN]
  /\ save \in [Panels -> Saves \cup {Unset}]
  /\ \A d \in Panels : dirty[d] => shown[d] # Unset /\ draft[d] # Unset
  /\ \A d \in Panels : Serving(d) => settings # Unset
  /\ \A d \in Panels : Saving(d) /\ save[d].stage \in {"read", "cut"} => save[d].read # Unset

SettingsInv ==
  /\ SettingsTypeOK
  /\ ~disturbed =>
       /\ \A d, e \in Panels : Serving(d) /\ Serving(e) => d = e
       /\ \A d \in Panels : Serving(d) => SaveOK(save[d], file, settings)
       /\ (\A d \in Panels : ~Serving(d)) => Consistent(file, settings)

\* Building a configuration leaves what is edited as it is.
LEMMA BuiltConfig ==
  ASSUME NEW config \in Config, environment \in Config
  PROVE  /\ Overridden(config) \in Config
         /\ Built(Overridden(config)) # Failure =>
              /\ \A f \in Edited : Built(Overridden(config))[f] = Overridden(config)[f]
              /\ Editable(Built(Overridden(config))) \in Settings
              /\ Built(Overridden(config))["bind"] = Or(Overridden(config)["bind"], DefaultBind)
              /\ Built(Overridden(config))["trust"] = Or(Overridden(config)["trust"], FALSE)
              /\ Built(Overridden(config))["require"] = Or(Overridden(config)["require"], FALSE)
         /\ Built(Overridden(config)) # Failure <=>
              LET over == Overridden(config)
              IN ~(over.startup_mode = Unset \/ (Or(over.require, FALSE) /\ ~Or(over.trust, FALSE)))
<1> DEFINE over == Overridden(config)
<1>1. over \in Config /\ DOMAIN over = Fields
  BY DEF Overridden, Config, Fields
<1> HIDE DEF over
<1> DEFINE wrong == over.startup_mode = Unset \/ (Or(over.require, FALSE) /\ ~Or(over.trust, FALSE))
           built == [over EXCEPT !.bind = Or(@, DefaultBind), !.trust = Or(over.trust, FALSE),
                                 !.require = Or(over.require, FALSE)]
<1>2. Built(over) = IF wrong THEN Failure ELSE built
  BY DEF Built
<1>3. /\ DOMAIN built = DOMAIN over
      /\ built["startup_mode"] = over["startup_mode"] /\ built["account"] = over["account"]
      /\ built["bind"] = Or(over["bind"], DefaultBind)
      /\ built["trust"] = Or(over["trust"], FALSE)
      /\ built["require"] = Or(over["require"], FALSE)
  BY <1>1 DEF Config
<1>4. DOMAIN Failure = {} /\ "bind" \in DOMAIN over
  BY <1>1 DEF Failure, Fields
<1>5. built # Failure
  BY <1>3, <1>4
<1> HIDE DEF built
<1>6. ~wrong => over["startup_mode"] \in StartupChoices /\ over["account"] \in Entries \cup {Unset}
  BY <1>1 DEF Config
<1>7. ~wrong => Editable(built) \in Settings
  BY <1>3, <1>6 DEF Editable, Settings, Edited
<1> QED BY <1>1, <1>2, <1>3, <1>5, <1>7 DEF over, Edited

\* A file that is cut is one that says nothing.
LEMMA EmptyIsConfig == Empty \in Config
<1>1. Empty = [startup_mode |-> Unset, account |-> Unset, bind |-> Unset, trust |-> Unset,
               require |-> Unset]
  BY DEF Empty, Fields
<1> QED BY <1>1 DEF Config

\* What the file is replaced by is a file, with the settings that are saved.
LEMMA PersistedConfig ==
  ASSUME NEW config \in Config, NEW next \in Settings
  PROVE  /\ Persisted(config, next) \in Config
         /\ \A f \in Edited : Persisted(config, next)[f] = next[f]
         /\ \A f \in Fields \ Edited : Persisted(config, next)[f] = config[f]
<1> DEFINE new == Persisted(config, next)
<1>1. next["startup_mode"] \in StartupChoices /\ next["account"] \in Entries \cup {Unset}
  BY DEF Settings
<1>2. /\ \A f \in Edited : new[f] = next[f]
      /\ \A f \in Fields \ Edited : new[f] = config[f]
  BY DEF Persisted, Fields, Edited
<1>3. new = [startup_mode |-> new["startup_mode"], account |-> new["account"],
             bind |-> new["bind"], trust |-> new["trust"], require |-> new["require"]]
  BY DEF Persisted, Fields
<1>4. /\ new["startup_mode"] \in StartupChoices \cup {Unset}
      /\ new["account"] \in Entries \cup {Unset}
      /\ new["bind"] \in Binds \cup {Unset}
      /\ new["trust"] \in BOOLEAN \cup {Unset}
      /\ new["require"] \in BOOLEAN \cup {Unset}
  BY <1>1, <1>2 DEF Config, Fields, Edited
<1> HIDE DEF new
<1>5. new \in Config
  BY <1>3, <1>4 DEF Config
<1> QED BY <1>2, <1>5 DEF new

\* It starts the runtime as well.
LEMMA PersistedIsGood ==
  ASSUME environment \in Config, NEW config, Good(config), NEW next \in Settings
  PROVE  /\ Good(Persisted(config, next))
         /\ \A f \in Edited : Persisted(config, next)[f] = next[f]
<1> DEFINE new == Persisted(config, next)
<1>1. next["startup_mode"] \in StartupChoices /\ next["account"] \in Entries \cup {Unset}
  BY DEF Settings
<1>2. /\ DOMAIN new = Fields
      /\ \A f \in Edited : new[f] = next[f]
      /\ \A f \in Fields \ Edited : new[f] = config[f]
  BY DEF Persisted, Fields, Edited
<1>3. config \in Config /\ DOMAIN config = Fields
  BY DEF Good, Config, Fields
<1>4. new \in Config
  BY <1>3, PersistedConfig
<1> HIDE DEF new
<1>5. /\ \A f \in Fields \ Edited : Overridden(new)[f] = Overridden(config)[f]
      /\ Overridden(new)["startup_mode"] # Unset
  BY <1>1, <1>2, UnsetAssumption DEF Overridden, Fields, Edited, Config
<1>6. "bind" \in Fields \ Edited /\ "trust" \in Fields \ Edited /\ "require" \in Fields \ Edited
  BY DEF Fields, Edited
<1>7. Built(Overridden(new)) # Failure
  BY <1>3, <1>4, <1>5, <1>6, BuiltConfig DEF Good
<1>8. \A f \in {"bind", "trust", "require"} :
        Built(Overridden(new))[f] = Built(Overridden(config))[f]
  <2> DEFINE a == Overridden(new)
             b == Overridden(config)
  <2>1. /\ Built(a)["bind"] = Or(a["bind"], DefaultBind)
        /\ Built(a)["trust"] = Or(a["trust"], FALSE)
        /\ Built(a)["require"] = Or(a["require"], FALSE)
    BY <1>4, <1>7, BuiltConfig
  <2>2. /\ Built(b)["bind"] = Or(b["bind"], DefaultBind)
        /\ Built(b)["trust"] = Or(b["trust"], FALSE)
        /\ Built(b)["require"] = Or(b["require"], FALSE)
    BY <1>3, BuiltConfig DEF Good
  <2>3. a["bind"] = b["bind"] /\ a["trust"] = b["trust"] /\ a["require"] = b["require"]
    BY <1>5, <1>6
  <2> HIDE DEF a, b
  <2>4. \A f \in {"bind", "trust", "require"} : Built(a)[f] = Built(b)[f]
    BY <2>1, <2>2, <2>3
  <2> QED BY <2>4 DEF a, b
<1>9. Fields \ Edited = {"bind", "trust", "require"}
  BY DEF Fields, Edited
<1> QED BY <1>2, <1>4, <1>7, <1>8, <1>9 DEF Good, new

\* Files and settings are consistent for good, while both stay as they are.
LEMMA GoodStays ==
  ASSUME UNCHANGED <<environment, original>>
  PROVE  /\ \A config : Good(config)' <=> Good(config)
         /\ \A config : Overridden(config)' = Overridden(config)
         /\ Consistent(file, settings)' <=> Consistent(file', settings')
         /\ \A d : SaveOK(save[d], file, settings)' <=> SaveOK(save'[d], file', settings')
<1>1. \A config : Good(config)' <=> Good(config)
  BY DEF Good, Overridden
<1>2. \A config : Overridden(config)' = Overridden(config)
  BY DEF Overridden
<1>3. Consistent(file, settings)' <=> Consistent(file', settings')
  BY DEF Consistent, Good, Overridden, Given
<1>4. ASSUME NEW d
      PROVE  SaveOK(save[d], file, settings)' <=> SaveOK(save'[d], file', settings')
  BY <1>3 DEF SaveOK, Good, Overridden, Given
<1> QED BY <1>1, <1>2, <1>3, <1>4

\* What a runtime is started with is consistent with its file.
LEMMA StartIsConsistent ==
  ASSUME environment \in Config, Good(Given(file))
  PROVE  /\ Loaded # Failure /\ Editable(Loaded) \in Settings
         /\ Consistent(file, Editable(Loaded))
<1>1. Loaded = Built(Overridden(Given(file))) /\ Given(file) \in Config
  BY DEF Loaded, Given, Good
<1>2. Loaded # Failure /\ Editable(Loaded) \in Settings
  BY <1>1, BuiltConfig DEF Good
<1>3. \A f \in Edited : Editable(Loaded)[f] = Loaded[f]
  BY DEF Editable
<1> QED BY <1>1, <1>2, <1>3 DEF Consistent, Given

\* A runtime that has started is consistent with its file.
LEMMA InitSettingsInv == SettingsInit => SettingsInv
<1> SUFFICES ASSUME SettingsInit PROVE SettingsInv
  OBVIOUS
<1>1. environment \in Config /\ file \in Config \cup {Unset} /\ Empty \in Config
  BY EmptyIsConfig, SettingsAssumption DEF SettingsInit
<1>2. \A d \in Panels : ~Serving(d)
  BY DEF SettingsInit, Serving, Saving
<1>3. Given(file) \in Config /\ Loaded = Built(Overridden(Given(file)))
  BY <1>1 DEF Given, Loaded
<1>4. Good(Given(file))
  BY <1>3 DEF SettingsInit, Good
<1>5. settings \in Settings /\ Consistent(file, settings)
  BY <1>1, <1>4, StartIsConsistent DEF SettingsInit
<1>6. SettingsTypeOK
  BY <1>1, <1>2, <1>5 DEF SettingsInit, SettingsTypeOK, Saving
<1> QED BY <1>2, <1>5, <1>6 DEF SettingsInv

\* The panels' steps that concern no save.
LEMMA PanelsKeepSettings ==
  ASSUME SettingsInv, SettingsTypeOK',
         UNCHANGED <<environment, original, file, settings, disturbed>>,
         \A d \in Panels : save'[d] = save[d] \/ (~Serving(d) /\ save'[d] = Unset)
  PROVE  SettingsInv'
<1>1. \A d \in Panels : Serving(d)' <=> Serving(d)
  BY DEF Serving, Saving
<1>2. Consistent(file, settings)' <=> Consistent(file, settings)
  BY GoodStays DEF Consistent
<1>3. \A d \in Panels : Serving(d) => (SaveOK(save[d], file, settings)' <=> SaveOK(save[d], file, settings))
  BY <1>2, GoodStays DEF SaveOK, Serving, Saving
<1> QED BY <1>1, <1>2, <1>3 DEF SettingsInv

\* One save goes on: it is the only one, and what it has left is in order.
LEMMA SaveStepKeepsSettings ==
  ASSUME SettingsInv, SettingsTypeOK', NEW d \in Panels,
         UNCHANGED <<environment, original>>, disturbed => disturbed',
         \A e \in Panels \ {d} : save'[e] = save[e],
         Serving(d) \/ (\A e \in Panels \ {d} : ~Serving(e)) \/ disturbed',
         ~disturbed' /\ Serving(d)' => SaveOK(save'[d], file', settings'),
         ~disturbed' /\ ~Serving(d)' => Consistent(file', settings')
  PROVE  SettingsInv'
<1>1. \A e \in Panels \ {d} : Serving(e)' <=> Serving(e)
  BY DEF Serving, Saving
<1>2. ~disturbed' => \A e \in Panels \ {d} : ~Serving(e)
  BY DEF SettingsInv
<1> QED BY <1>1, <1>2, GoodStays DEF SettingsInv

\* A save that goes on is still a save.
LEMMA SaveGoesOn ==
  ASSUME NEW job \in Saves, NEW next_stage \in SaveStages, NEW read \in Config \cup {Unset}
  PROVE  /\ [job EXCEPT !.stage = next_stage] \in Saves \ {Unset}
         /\ [job EXCEPT !.stage = next_stage, !.read = read] \in Saves \ {Unset}
BY UnsetAssumption DEF Saves

\* Requests and answers carry settings.
LEMMA SettingsTypeStep == SettingsInv /\ [SettingsNext]_settings_vars => SettingsTypeOK'
<1> SUFFICES ASSUME SettingsInv, [SettingsNext]_settings_vars PROVE SettingsTypeOK'
  OBVIOUS
<1> USE DEF SettingsInv, SettingsTypeOK, Serving, Saving, DraftOf, FollowSnapshot
<1>1. ASSUME NEW d \in Panels, GetSettings(d) PROVE SettingsTypeOK'
  BY <1>1 DEF GetSettings
<1>2. ASSUME NEW d \in Panels, ShowSettings(d) PROVE SettingsTypeOK'
  BY <1>2 DEF ShowSettings
<1>3. ASSUME NEW d \in Panels, ResetSettings(d) PROVE SettingsTypeOK'
  BY <1>3 DEF ResetSettings
<1>4. ASSUME NEW d \in Panels, NEW f \in Edited, NEW value \in Values(f), EditSetting(d, f, value)
      PROVE  SettingsTypeOK'
  <2>1. draft[d] \in Settings /\ [draft[d] EXCEPT ![f] = value] \in Settings
    BY <1>4 DEF EditSetting, Settings, Values, Edited
  <2>2. [draft[d] EXCEPT ![f] = value] # Unset
    BY <2>1, UnsetAssumption
  <2> QED BY <1>4, <2>1, <2>2 DEF EditSetting
<1>5. ASSUME NEW d \in Panels, SaveSettings(d) PROVE SettingsTypeOK'
  <2>1. Normalized(draft[d]) \in Settings
    BY <1>5, SettingsAssumption DEF SaveSettings, Normalized, Settings, Edited
  <2>2. [stage |-> "sent", next |-> Normalized(draft[d]), read |-> Unset] \in Saves
    BY <2>1 DEF Saves, SaveStages
  <2> QED BY <1>5, <2>2 DEF SaveSettings
<1>6. ASSUME NEW d \in Panels, ReadFile(d) PROVE SettingsTypeOK'
  <2>1. save[d] \in Saves /\ file \in Config \cup {Unset}
    BY <1>6 DEF ReadFile
  <2>2. PICK job : job = [save[d] EXCEPT !.stage = IF file = Unset THEN "written" ELSE "read",
                                         !.read = file]
    OBVIOUS
  <2>3. job \in Saves /\ job.read = file /\ job.stage \in {"written", "read"}
        /\ (job.stage = "read" => file # Unset)
    BY <2>1, <2>2 DEF Saves, SaveStages
  <2>4. save' = [save EXCEPT ![d] = job]
    BY <1>6, <2>2 DEF ReadFile
  <2>5. job # Unset
    BY <2>3, UnsetAssumption
  <2>6. save' \in [Panels -> Saves \cup {Unset}]
    BY <2>3, <2>4
  <2>7. \A e \in Panels : save'[e] = save[e] \/ (save'[e] = job /\ e = d)
    BY <2>4
  <2>8. \A e \in Panels : Serving(e)' => settings # Unset
    BY <1>6, <2>7 DEF ReadFile
  <2>9. \A e \in Panels : Saving(e)' /\ save'[e].stage \in {"read", "cut"} => save'[e].read # Unset
    BY <2>3, <2>7
  <2> QED BY <1>6, <2>6, <2>8, <2>9 DEF ReadFile
<1>7. ASSUME NEW d \in Panels, TruncateFile(d) PROVE SettingsTypeOK'
  <2>1. PICK job : job = [save[d] EXCEPT !.stage = "cut"]
    OBVIOUS
  <2>2. job \in Saves /\ job.read = save[d].read
    BY <1>7, <2>1 DEF TruncateFile, Saves, SaveStages
  <2>3. save' = [save EXCEPT ![d] = job]
    BY <1>7, <2>1 DEF TruncateFile
  <2>4. job # Unset
    BY <2>2, UnsetAssumption
  <2> QED BY <1>7, <2>2, <2>3, <2>4, EmptyIsConfig DEF TruncateFile
<1>8. ASSUME NEW d \in Panels, WriteFile(d) PROVE SettingsTypeOK'
  <2>1. save[d] \in Saves /\ save[d].read \in Config /\ save[d].next \in Settings
    BY <1>8 DEF WriteFile, Saves
  <2>2. file' \in Config
    BY <1>8, <2>1, PersistedConfig DEF WriteFile
  <2>3. PICK job : job = [save[d] EXCEPT !.stage = "written"]
    OBVIOUS
  <2>4. job \in Saves /\ job.stage = "written"
    BY <2>1, <2>3 DEF Saves, SaveStages
  <2>5. save' = [save EXCEPT ![d] = job]
    BY <1>8, <2>3 DEF WriteFile
  <2>6. job # Unset
    BY <2>4, UnsetAssumption
  <2> QED BY <1>8, <2>2, <2>4, <2>5, <2>6 DEF WriteFile
<1>9. ASSUME NEW d \in Panels, ApplySettings(d) PROVE SettingsTypeOK'
  BY <1>9, UnsetAssumption DEF ApplySettings, Saves, SaveStages
<1>10. ASSUME NEW d \in Panels, PersistFails(d) PROVE SettingsTypeOK'
  BY <1>10 DEF PersistFails
<1>11. ASSUME NEW d \in Panels, SaveAnswered(d) PROVE SettingsTypeOK'
  BY <1>11 DEF SaveAnswered, Saves
<1>12. CASE Kill
  BY <1>12 DEF Kill
<1>13. CASE StartAgain
  <2>1. Given(file) \in Config /\ Loaded = Built(Overridden(Given(file)))
    BY EmptyIsConfig DEF Given, Loaded
  <2>2. Editable(Loaded) \in Settings
    BY <1>13, <2>1, BuiltConfig DEF StartAgain
  <2>3. Editable(Loaded) # Unset
    BY <2>2, UnsetAssumption
  <2> QED BY <1>13, <2>2, <2>3 DEF StartAgain, panel_state
<1>14. CASE UNCHANGED settings_vars
  BY <1>14 DEF settings_vars, panel_state
<1> QED
  BY <1>1, <1>2, <1>3, <1>4, <1>5, <1>6, <1>7, <1>8, <1>9, <1>10, <1>11, <1>12, <1>13, <1>14
  DEF SettingsNext, SettingsAnswers

\* A save is sent while no other goes on, or saves overlap.
LEMMA SaveSettingsKeeps ==
  ASSUME SettingsInv, SettingsTypeOK', NEW d \in Panels, SaveSettings(d)
  PROVE  SettingsInv'
<1>1. save'[d].stage = "sent" /\ \A e \in Panels \ {d} : save'[e] = save[e]
  BY DEF SaveSettings, SettingsInv, SettingsTypeOK
<1>2. ~disturbed' => ~disturbed /\ \A e \in Panels : ~Serving(e)
  BY DEF SaveSettings
<1>3. ~disturbed' => Consistent(file', settings')
  BY <1>2 DEF SettingsInv, SaveSettings
<1>4. ~disturbed' => SaveOK(save'[d], file', settings')
  BY <1>1, <1>3 DEF SaveOK
<1> QED BY <1>1, <1>2, <1>3, <1>4, SaveStepKeepsSettings DEF SaveSettings

\* A save that is under way has found and left what it should.
LEMMA ServedSave ==
  ASSUME SettingsInv, NEW d \in Panels, Serving(d), ~disturbed
  PROVE  SaveOK(save[d], file, settings)
BY DEF SettingsInv

\* The save reads the file.
LEMMA ReadFileKeeps ==
  ASSUME SettingsInv, SettingsTypeOK', NEW d \in Panels, ReadFile(d)
  PROVE  SettingsInv'
<1>1. /\ save'[d].stage = (IF file = Unset THEN "written" ELSE "read") /\ save'[d].read = file
      /\ \A e \in Panels \ {d} : save'[e] = save[e]
  BY UnsetAssumption DEF ReadFile, SettingsInv, SettingsTypeOK, Saving, Saves
<1>2. Serving(d) /\ Saving(d)'
  <2>1. /\ save[d] \in Saves /\ file \in Config \cup {Unset}
        /\ save'[d] = [save[d] EXCEPT !.stage = IF file = Unset THEN "written" ELSE "read",
                                      !.read = file]
    BY DEF ReadFile, SettingsInv, SettingsTypeOK, Saving
  <2>2. save'[d] # Unset
    BY <2>1, SaveGoesOn DEF SaveStages
  <2> QED BY <2>2 DEF ReadFile, Serving, Saving
<1>3. ~disturbed => Consistent(file', settings') /\ Good(Given(file))
  BY <1>2, ServedSave DEF SaveOK, ReadFile, Consistent
<1>4. ~disturbed => SaveOK(save'[d], file', settings')
  BY <1>1, <1>3 DEF SaveOK, ReadFile
<1> QED BY <1>1, <1>2, <1>3, <1>4, SaveStepKeepsSettings DEF ReadFile

\* The save truncates it.
LEMMA TruncateFileKeeps ==
  ASSUME SettingsInv, SettingsTypeOK', NEW d \in Panels, TruncateFile(d)
  PROVE  SettingsInv'
<1>1. /\ save'[d].stage = "cut" /\ save'[d].read = save[d].read
      /\ \A e \in Panels \ {d} : save'[e] = save[e]
  BY DEF TruncateFile, SettingsInv, SettingsTypeOK, Saving, Saves
<1>2. Serving(d)
  BY DEF TruncateFile, Serving, Saving
<1>3. ~disturbed => SaveOK(save[d], file, settings)
  BY <1>2, ServedSave
<1>4. ~disturbed => Good(save[d].read)
  BY <1>3 DEF SaveOK, TruncateFile, Consistent, Given
<1>5. file' # Unset
  BY EmptyIsConfig, UnsetAssumption DEF TruncateFile
<1>6. ~disturbed => SaveOK(save'[d], file', settings')
  BY <1>1, <1>4, <1>5 DEF SaveOK
<1>7. Serving(d)'
  <2>1. save[d] \in Saves /\ save'[d] = [save[d] EXCEPT !.stage = "cut"]
    BY DEF TruncateFile, SettingsInv, SettingsTypeOK, Saving
  <2> QED BY <1>1, <2>1, SaveGoesOn DEF Serving, Saving, SaveStages
<1> QED BY <1>1, <1>2, <1>6, <1>7, SaveStepKeepsSettings DEF TruncateFile

\* The save writes it.
LEMMA WriteFileKeeps ==
  ASSUME SettingsInv, SettingsTypeOK', NEW d \in Panels, WriteFile(d)
  PROVE  SettingsInv'
<1>1. /\ save'[d].stage = "written" /\ save'[d].next = save[d].next
      /\ \A e \in Panels \ {d} : save'[e] = save[e]
  BY DEF WriteFile, SettingsInv, SettingsTypeOK, Saving, Saves
<1>2. Serving(d) /\ save[d].next \in Settings
  BY DEF WriteFile, Serving, Saving, SettingsInv, SettingsTypeOK, Saves
<1>3. ~disturbed => Good(save[d].read)
  BY <1>2, ServedSave DEF SaveOK, WriteFile
<1>4. environment \in Config
  BY DEF SettingsInv, SettingsTypeOK
<1>5. ~disturbed => Good(file') /\ \A f \in Edited : file'[f] = save'[d].next[f]
  BY <1>1, <1>2, <1>3, <1>4, PersistedIsGood DEF WriteFile
<1>6. ~disturbed => file' # Unset
  BY <1>5, UnsetAssumption DEF Good
<1>7. ~disturbed => SaveOK(save'[d], file', settings')
  BY <1>1, <1>5, <1>6 DEF SaveOK, Given
<1>8. Serving(d)'
  <2>1. save[d] \in Saves /\ save'[d] = [save[d] EXCEPT !.stage = "written"]
    BY DEF WriteFile, SettingsInv, SettingsTypeOK, Saving
  <2> QED BY <1>1, <2>1, SaveGoesOn DEF Serving, Saving, SaveStages
<1> QED BY <1>1, <1>2, <1>7, <1>8, SaveStepKeepsSettings DEF WriteFile

\* The memory follows.
LEMMA ApplySettingsKeeps ==
  ASSUME SettingsInv, SettingsTypeOK', NEW d \in Panels, ApplySettings(d)
  PROVE  SettingsInv'
<1>1. /\ save'[d].stage = "answered" /\ \A e \in Panels \ {d} : save'[e] = save[e]
  BY DEF ApplySettings, SettingsInv, SettingsTypeOK, Saving, Saves
<1>2. Serving(d) /\ ~Serving(d)'
  BY <1>1 DEF ApplySettings, Serving, Saving
<1>3. environment \in Config /\ file' = file /\ settings' = save[d].next
  BY DEF SettingsInv, SettingsTypeOK, ApplySettings
<1>4. ASSUME ~disturbed PROVE Consistent(file', settings')
  <2>1. Good(Given(file)) /\ (file # Unset => \A f \in Edited : file[f] = save[d].next[f])
    BY <1>2, <1>4, ServedSave DEF SaveOK, ApplySettings
  <2>2. Given(file) \in Config /\ Built(Overridden(Given(file))) # Failure
    BY <2>1 DEF Good
  <2>3. \A f \in Edited : Built(Overridden(Given(file)))[f] = Overridden(Given(file))[f]
    BY <1>3, <2>2, BuiltConfig
  <2>4. \A f \in Edited : environment[f] = Unset => Overridden(Given(file))[f] = Given(file)[f]
    BY DEF Overridden, Fields, Edited
  <2> QED BY <1>3, <2>1, <2>3, <2>4 DEF Consistent, Given
<1> QED BY <1>1, <1>2, <1>4, SaveStepKeepsSettings DEF ApplySettings

\* The save fails.
LEMMA PersistFailsKeeps ==
  ASSUME SettingsInv, SettingsTypeOK', NEW d \in Panels, PersistFails(d)
  PROVE  SettingsInv'
<1>1. save'[d] = Unset /\ \A e \in Panels \ {d} : save'[e] = save[e]
  BY DEF PersistFails, SettingsInv, SettingsTypeOK
<1>2. Serving(d) /\ ~Serving(d)'
  BY <1>1 DEF PersistFails, Serving, Saving
<1>3. ~disturbed' => ~disturbed /\ save[d].stage = "sent"
  BY DEF PersistFails
<1>4. ~disturbed' => Consistent(file', settings')
  BY <1>2, <1>3, ServedSave DEF SaveOK, PersistFails
<1> QED BY <1>1, <1>2, <1>3, <1>4, SaveStepKeepsSettings DEF PersistFails

\* The process is killed: what it leaves on the disk starts again.
LEMMA KillKeeps == SettingsInv /\ SettingsTypeOK' /\ Kill => SettingsInv'
<1> SUFFICES ASSUME SettingsInv, SettingsTypeOK', Kill PROVE SettingsInv'
  OBVIOUS
<1>1. \A d \in Panels : ~Serving(d)'
  BY DEF Kill, Serving, Saving
<1>2. ~disturbed' => ~disturbed /\ \A d \in Panels : Serving(d) => save[d].stage # "cut"
  BY DEF Kill, Serving, Saving
<1>3. ~disturbed' => Good(Given(file))
  <2>1. ASSUME ~disturbed', NEW d \in Panels, Serving(d) PROVE Good(Given(file))
    <3>1. SaveOK(save[d], file, settings) /\ save[d].stage \in {"sent", "read", "written"}
      BY <1>2, <2>1, ServedSave DEF Serving
    <3> QED BY <3>1 DEF SaveOK, Consistent
  <2>2. ASSUME ~disturbed', \A d \in Panels : ~Serving(d) PROVE Good(Given(file))
    BY <1>2, <2>2 DEF SettingsInv, Consistent
  <2> QED BY <2>1, <2>2
<1>4. ~disturbed' => Consistent(file', settings')
  BY <1>3 DEF Consistent, Kill
<1>5. ~disturbed' => Consistent(file, settings)'
  BY <1>4, GoodStays DEF Kill
<1> QED BY <1>1, <1>5 DEF SettingsInv

\* The runtime starts again.
LEMMA StartAgainKeeps == SettingsInv /\ SettingsTypeOK' /\ StartAgain => SettingsInv'
<1> SUFFICES ASSUME SettingsInv, SettingsTypeOK', StartAgain PROVE SettingsInv'
  OBVIOUS
<1>1. \A d \in Panels : ~Serving(d) /\ ~Serving(d)'
  BY DEF StartAgain, Serving, Saving, SettingsInv, SettingsTypeOK, panel_state
<1>2. ~disturbed => Good(Given(file))
  BY <1>1 DEF SettingsInv, Consistent
<1>3. environment \in Config
  BY DEF SettingsInv, SettingsTypeOK
<1>4. ~disturbed => Consistent(file', settings')
  BY <1>2, <1>3, StartIsConsistent DEF StartAgain
<1>5. ~disturbed => Consistent(file, settings)'
  BY <1>4, GoodStays DEF StartAgain
<1> QED BY <1>1, <1>5 DEF SettingsInv, StartAgain

\* Every step keeps the file and the memory consistent, but where saves collide.
LEMMA SettingsInvStep == SettingsInv /\ [SettingsNext]_settings_vars => SettingsInv'
<1> SUFFICES ASSUME SettingsInv, [SettingsNext]_settings_vars PROVE SettingsInv'
  OBVIOUS
<1>1. SettingsTypeOK'
  BY SettingsTypeStep
<1>2. ASSUME NEW d \in Panels, GetSettings(d) \/ ShowSettings(d) \/ ResetSettings(d)
      PROVE  SettingsInv'
  BY <1>1, <1>2, PanelsKeepSettings DEF GetSettings, ShowSettings, ResetSettings
<1>3. ASSUME NEW d \in Panels, NEW f, NEW value, EditSetting(d, f, value) PROVE SettingsInv'
  BY <1>1, <1>3, PanelsKeepSettings DEF EditSetting
<1>4. ASSUME NEW d \in Panels, SaveAnswered(d) PROVE SettingsInv'
  <2>1. /\ UNCHANGED <<environment, original, file, settings, disturbed>>
        /\ \A e \in Panels : save'[e] = save[e] \/ (~Serving(e) /\ save'[e] = Unset)
    BY <1>4 DEF SaveAnswered, Serving, SettingsInv, SettingsTypeOK
  <2> QED BY <1>1, <2>1, PanelsKeepSettings
<1>5. CASE UNCHANGED settings_vars
  BY <1>1, <1>5, PanelsKeepSettings DEF settings_vars, panel_state
<1> QED
  BY <1>1, <1>2, <1>3, <1>4, <1>5, SaveSettingsKeeps, ReadFileKeeps, TruncateFileKeeps,
     WriteFileKeeps, ApplySettingsKeeps, PersistFailsKeeps, KillKeeps, StartAgainKeeps
  DEF SettingsNext, SettingsAnswers

\* A runtime that is killed starts again, with what saving does not edit as it was
\* and with the settings saved last, provided that saves followed one another and none
\* was cut short in its writing (persist_runtime_settings_update, AppConfig::load).
THEOREM RestartKeepsSettings == SettingsSpec => []SavedSettingsSurviveRestart
<1>1. SettingsInv => SavedSettingsSurviveRestart
  <2> SUFFICES ASSUME SettingsInv, ~disturbed, \A d \in Panels : ~Serving(d)
               PROVE  SavedSettingsSurviveRestart
    BY DEF SavedSettingsSurviveRestart
  <2>1. Consistent(file, settings) /\ Loaded = Built(Overridden(Given(file)))
    BY DEF SettingsInv, Loaded, Given
  <2> QED BY <2>1 DEF Consistent, Good, Given, SavedSettingsSurviveRestart
<1> QED BY <1>1, InitSettingsInv, SettingsInvStep, PTL DEF SettingsSpec
=============================================================================
