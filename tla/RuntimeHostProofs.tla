------------------------- MODULE RuntimeHostProofs -------------------------
(***************************************************************************)
(* Proofs about RuntimeKernel for every set of startup modes, and about    *)
(* RuntimeHost for any number of clients, strategies and requests.         *)
(* KernelInv is inductive: the checked invariants, and the fact that an    *)
(* active mode is always the one resume() would return to.  A step of the  *)
(* host is, for the operator state, one of the few forms of OperatorStep;  *)
(* what the kernel, the loaded strategy and the arm do is proved of those  *)
(* forms alone, whatever the handlers' sections.  The last part is about   *)
(* what an arm is judged by (ArmReadiness) and who is served               *)
(* (RemoteAccess), and what they mean for the host.                        *)
(***************************************************************************)
EXTENDS RuntimeHost, ArmReadiness, RemoteAccess, TLAPS

\* Pause and switch_mode(Paused) save the mode they leave, because it is saved
\* already: the one fact that arm(), which does not save it, relies on.
ActiveModeIsSaved ==
  current_mode \in ActiveMode => last_active_mode = current_mode

KernelInv ==
  /\ KernelTypeOK
  /\ ActiveModeIsSaved
  /\ ArmStaysInItsMode
  /\ ResumeTargetIsPausedMode
  /\ OverrideNeedsArm
  /\ NoArmAcrossFailure

\* The runtime starts disarmed, with its startup mode saved.
LEMMA KernelInitInv == KernelInit => KernelInv
  BY StartupModesAssumption
  DEF KernelInit, KernelInv, KernelTypeOK, ActiveModeIsSaved, ArmStaysInItsMode,
      ResumeTargetIsPausedMode, OverrideNeedsArm, NoArmAcrossFailure, RuntimeMode,
      ActiveMode, OrderMode, WarmupStatus, NoMode

\* A change of mode: an arm survives it only on the way into Paused.
LEMMA ModeSteps ==
  ASSUME KernelInv,
         \/ \E mode \in RuntimeMode : SwitchMode(mode)
         \/ Pause
         \/ Resume
  PROVE  KernelInv'
<1> USE DEF KernelInv, KernelTypeOK, ActiveModeIsSaved, ArmStaysInItsMode,
            ResumeTargetIsPausedMode, OverrideNeedsArm, NoArmAcrossFailure,
            RuntimeMode, ActiveMode, OrderMode, WarmupStatus, NoMode, NoteMode
<1>1. CASE \E mode \in RuntimeMode : SwitchMode(mode)
  <2>1. PICK mode \in RuntimeMode : SwitchMode(mode)
    BY <1>1
  <2>2. CASE mode = "Observation" \/ (current_mode # mode /\ mode \in ActiveMode)
    BY <2>1, <2>2 DEF SwitchMode, ClearArm
  <2>3. CASE ~(mode = "Observation" \/ (current_mode # mode /\ mode \in ActiveMode))
    BY <2>1, <2>3 DEF SwitchMode, KeepArm
  <2> QED BY <2>2, <2>3
<1>2. CASE Pause
  BY <1>2 DEF Pause, KeepArm
<1>3. CASE Resume
  BY <1>3 DEF Resume, KeepArm
<1> QED BY <1>1, <1>2, <1>3

\* A strategy loaded or unloaded, a warmup step, and the entry gate.
LEMMA StrategySteps ==
  ASSUME KernelInv,
         \/ MarkStrategyLoaded \/ UnloadStrategy
         \/ \E status \in ProgressStatus : SetWarmup(status)
         \/ \E enabled \in BOOLEAN : SetNewEntriesEnabled(enabled)
  PROVE  KernelInv'
<1> USE DEF KernelInv, KernelTypeOK, ActiveModeIsSaved, ArmStaysInItsMode,
            ResumeTargetIsPausedMode, OverrideNeedsArm, NoArmAcrossFailure,
            RuntimeMode, ActiveMode, OrderMode, WarmupStatus, NoMode
<1>1. CASE MarkStrategyLoaded
  BY <1>1 DEF MarkStrategyLoaded, ClearArm
<1>2. CASE UnloadStrategy
  BY <1>2 DEF UnloadStrategy, ClearArm
<1>3. CASE \E status \in ProgressStatus : SetWarmup(status)
  <2>1. PICK status \in ProgressStatus : SetWarmup(status)
    BY <1>3
  <2>2. CASE status = "Failed"
    BY <2>1, <2>2 DEF SetWarmup, ClearArm, ProgressStatus
  <2>3. CASE status # "Failed"
    BY <2>1, <2>3 DEF SetWarmup, KeepArm, ProgressStatus
  <2> QED BY <2>2, <2>3
<1>4. CASE \E enabled \in BOOLEAN : SetNewEntriesEnabled(enabled)
  BY <1>4 DEF SetNewEntriesEnabled, KeepArm
<1> QED BY <1>1, <1>2, <1>3, <1>4

\* Arming and disarming.
LEMMA ArmSteps ==
  ASSUME KernelInv,
         \/ \E report \in Report, allow \in BOOLEAN : Arm(report, allow)
         \/ Disarm
  PROVE  KernelInv'
<1> USE DEF KernelInv, KernelTypeOK, ActiveModeIsSaved, ArmStaysInItsMode,
            ResumeTargetIsPausedMode, OverrideNeedsArm, NoArmAcrossFailure,
            RuntimeMode, ActiveMode, OrderMode, WarmupStatus, NoMode
<1>1. CASE \E report \in Report, allow \in BOOLEAN : Arm(report, allow)
  BY <1>1 DEF Arm, Report
<1>2. CASE Disarm
  BY <1>2 DEF Disarm, ClearArm
<1> QED BY <1>1, <1>2

\* Every method preserves the invariant.
LEMMA KernelStep == KernelInv /\ [KernelNext]_kernel_vars => KernelInv'
<1> SUFFICES ASSUME KernelInv, [KernelNext]_kernel_vars PROVE KernelInv'
  OBVIOUS
<1>1. CASE KernelNext
  <2>1. CASE \E mode \in RuntimeMode : SwitchMode(mode)
    BY <2>1, ModeSteps
  <2>2. CASE Pause
    BY <2>2, ModeSteps
  <2>3. CASE Resume
    BY <2>3, ModeSteps
  <2>4. CASE MarkStrategyLoaded
    BY <2>4, StrategySteps
  <2>5. CASE UnloadStrategy
    BY <2>5, StrategySteps
  <2>6. CASE StartWarmup \/ MarkWarmupReady \/ MarkWarmupFailed
    BY <2>6, StrategySteps
    DEF StartWarmup, MarkWarmupReady, MarkWarmupFailed, WarmupStatus, ProgressStatus
  <2>7. CASE \E status \in ProgressStatus : SyncWarmupProgress(status)
    BY <2>7, StrategySteps DEF SyncWarmupProgress
  <2>8. CASE \E report \in Report, allow \in BOOLEAN : Arm(report, allow)
    BY <2>8, ArmSteps
  <2>9. CASE Disarm
    BY <2>9, ArmSteps
  <2>10. CASE \E enabled \in BOOLEAN : SetNewEntriesEnabled(enabled)
    BY <2>10, StrategySteps
  <2> QED
    BY <1>1, <2>1, <2>2, <2>3, <2>4, <2>5, <2>6, <2>7, <2>8, <2>9, <2>10 DEF KernelNext
<1>2. CASE UNCHANGED kernel_vars
  BY <1>2 DEF kernel_vars, KernelInv, KernelTypeOK, ActiveModeIsSaved, ArmStaysInItsMode,
              ResumeTargetIsPausedMode, OverrideNeedsArm, NoArmAcrossFailure
<1> QED BY <1>1, <1>2

\* The strengthened invariant of the kernel holds after any sequence of method calls.
THEOREM KernelInvariant == KernelSpec => []KernelInv
<1>1. KernelInit => KernelInv
  BY KernelInitInv
<1>2. KernelInv /\ [KernelNext]_kernel_vars => KernelInv'
  BY KernelStep
<1> QED BY <1>1, <1>2, PTL DEF KernelSpec

\* Every field keeps its Rust type, from any startup mode.
THEOREM KernelTypeCorrect == KernelSpec => []KernelTypeOK
  BY KernelInvariant, PTL DEF KernelInv

\* Through any sequence of kernel calls an arm keeps the mode, the override and
\* the warmup it was granted with, or is gone.
THEOREM KernelArmStays == KernelSpec => []ArmKeepsItsGrant
  BY KernelInvariant, PTL DEF KernelInv, ArmKeepsItsGrant

-----------------------------------------------------------------------------
(* The host                                                                *)

ServiceTypeOK ==
  /\ md_strategy \in Services
  /\ md_warmup \in ProgressStatus
  /\ md_healthy \in BOOLEAN
  /\ broker_ok \in BOOLEAN

StackTypeOK ==
  /\ pc \in [Handlers -> Sections]
  /\ command \in [Handlers -> Commands \cup {NoCommand}]
  /\ context \in [Handlers -> Contexts]
  /\ requests \in 0..MaxRequests
  /\ \A h \in Handlers : pc[h] = "configure" => command[h][1] = "LoadStrategy"

\* What a step may do to the state behind the operator lock.
Keeping == UNCHANGED <<loaded_strategy, armed_strategy>>

OperatorStep ==
  \/ KeepOperator
  \/ Keeping /\ \E mode \in RuntimeMode : SwitchMode(mode)
  \/ Keeping /\ (Pause \/ Resume \/ Disarm)
  \/ Keeping /\ \E status \in ProgressStatus : SetWarmup(status)
  \/ Keeping /\ \E enabled \in BOOLEAN : SetNewEntriesEnabled(enabled)
  \/ /\ \E report \in Report, allow \in BOOLEAN : Arm(report, allow)
     /\ armed_strategy' = loaded_strategy
     /\ UNCHANGED loaded_strategy
  \/ /\ MarkStrategyLoaded
     /\ loaded_strategy' \in Strategies
     /\ UNCHANGED armed_strategy

AuthorityInv ==
  /\ KernelInv
  /\ loaded_strategy \in Services
  /\ LoadedAgree
  /\ ArmedForLoadedStrategy

-----------------------------------------------------------------------------
\* What commands a handler can hold.
LEMMA CommandFacts ==
  ASSUME StackTypeOK, NEW h \in Handlers
  PROVE  /\ command[h][1] = "LoadStrategy" => command[h][2] \in Strategies
         /\ command[h][1] = "SetMode" => command[h][2] \in RuntimeMode
<1>1. command[h] \in Commands \cup {NoCommand}
  BY DEF StackTypeOK
<1>2. CASE command[h] \in Commands
  <2>1. PICK cmd \in Commands : cmd = command[h]
    BY <1>2
  <2>2. /\ cmd[1] = "LoadStrategy" => cmd[2] \in Strategies
        /\ cmd[1] = "SetMode" => cmd[2] \in RuntimeMode
    BY CommandsAssumption, Zenon
  <2> QED BY <2>1, <2>2
<1>3. CASE command[h] = NoCommand
  <2>1. NoCommand[1] = "None"
    BY DEF NoCommand
  <2>2. command[h][1] = "None"
    BY <1>3, <2>1
  <2> QED BY <2>2
<1> QED BY <1>1, <1>2, <1>3

\* A poll of the service keeps it typed.
LEMMA PollTypes ==
  ASSUME ServiceTypeOK, PollService
  PROVE  /\ md_strategy' \in Services
         /\ md_warmup' \in ProgressStatus
         /\ md_healthy' \in BOOLEAN
  BY HealthAssumption DEF ServiceTypeOK, PollService, ProgressStatus, WarmupStatus

\* No step gives the service or the broker's health a value out of its type.
LEMMA ServiceStep ==
  ASSUME StackTypeOK, ServiceTypeOK, HostNext
  PROVE  ServiceTypeOK'
<1> USE HealthAssumption DEF ServiceTypeOK, KeepService, Services
<1>1. CASE \E h \in Clients, cmd \in Commands : Receive(h, cmd)
  BY <1>1 DEF Receive
<1>2. ASSUME NEW h \in Handlers, Step(h) PROVE ServiceTypeOK'
  <2>1. CASE StartService(h)
    BY <2>1 DEF StartService, ProgressStatus, WarmupStatus
  <2>2. CASE StartServiceFails(h)
    BY <2>2 DEF StartServiceFails
  <2>3. CASE Snapshot(h)
    BY <2>3 DEF Snapshot
  <2>4. CASE RefreshView(h)
    BY <2>4, PollTypes DEF RefreshView
  <2>5. CASE SyncWarmup(h)
    BY <2>5 DEF SyncWarmup
  <2>6. CASE StateCommand(h)
    BY <2>6 DEF StateCommand
  <2>7. CASE LoadStrategy(h) \/ LoadStrategyFails(h)
    BY <2>7 DEF LoadStrategy, LoadStrategyFails
  <2>8. CASE ConfigureService(h)
    <3>1. command[h][2] \in Strategies
      BY <2>8, CommandFacts DEF ConfigureService, StackTypeOK
    <3> QED BY <2>8, <3>1 DEF ConfigureService, ProgressStatus, WarmupStatus
  <2>9. CASE BuildEntry(h) \/ Sanitize(h) \/ Dispatch(h)
    BY <2>9 DEF BuildEntry, Sanitize, Dispatch
  <2>10. CASE Respond(h)
    BY <2>10, PollTypes DEF Respond
  <2> QED BY <1>2, <2>1, <2>2, <2>3, <2>4, <2>5, <2>6, <2>7, <2>8, <2>9, <2>10 DEF Step
<1>3. CASE HealthTick
  BY <1>3, PollTypes DEF HealthTick
<1>4. CASE BrokerChanges
  BY <1>4 DEF BrokerChanges
<1> QED BY <1>1, <1>2, <1>3, <1>4 DEF HostNext

\* Going on to another section keeps the stack typed.
LEMMA GoTypes ==
  ASSUME StackTypeOK, NEW h \in Handlers, NEW section \in Sections \ {"configure"},
         Go(h, section), UNCHANGED command
  PROVE  /\ pc' \in [Handlers -> Sections]
         /\ \A g \in Handlers : pc'[g] = "configure" => command'[g][1] = "LoadStrategy"
  BY DEF StackTypeOK, Go

\* So does returning.
LEMMA FinishTypes ==
  ASSUME StackTypeOK, NEW h \in Handlers, Finish(h)
  PROVE  /\ pc' \in [Handlers -> Sections]
         /\ command' \in [Handlers -> Commands \cup {NoCommand}]
         /\ context' \in [Handlers -> Contexts]
         /\ \A g \in Handlers : pc'[g] = "configure" => command'[g][1] = "LoadStrategy"
<1>1. NoContext \in Contexts
  BY DEF NoContext, Contexts, Services, ProgressStatus, WarmupStatus
<1>2. pc' \in [Handlers -> Sections]
  BY DEF StackTypeOK, Finish, Go, Sections
<1>3. /\ command' \in [Handlers -> Commands \cup {NoCommand}]
      /\ context' \in [Handlers -> Contexts]
  BY <1>1 DEF StackTypeOK, Finish
<1>4. ASSUME NEW g \in Handlers, pc'[g] = "configure"
      PROVE  command'[g][1] = "LoadStrategy"
  <2>1. g # h
    BY <1>4 DEF StackTypeOK, Finish, Go
  <2>2. pc[g] = "configure" /\ command'[g] = command[g]
    BY <1>4, <2>1 DEF StackTypeOK, Finish, Go
  <2> QED BY <2>2 DEF StackTypeOK
<1> QED BY <1>2, <1>3, <1>4

\* Every handler stays in its sections, with a command and a context of its own.
LEMMA StackStep ==
  ASSUME StackTypeOK, ServiceTypeOK, HostNext
  PROVE  StackTypeOK'
<1> USE DEF StackTypeOK, Sections
<1>1. CASE \E h \in Clients, cmd \in Commands : Receive(h, cmd)
  <2>1. PICK h \in Clients, cmd \in Commands : Receive(h, cmd)
    BY <1>1
  <2>2. h \in Handlers
    BY DEF Handlers
  <2>3. pc' \in [Handlers -> Sections]
    BY <2>1, <2>2 DEF Receive, Go
  <2>4. command' \in [Handlers -> Commands \cup {NoCommand}] /\ context' = context
    BY <2>1, <2>2 DEF Receive
  <2>5. requests' \in 0..MaxRequests
    BY <2>1, MaxRequestsAssumption DEF Receive
  <2>6. ASSUME NEW g \in Handlers, pc'[g] = "configure"
        PROVE  command'[g][1] = "LoadStrategy"
    <3>1. g # h
      BY <2>1, <2>2, <2>6 DEF Receive, Go
    <3>2. pc[g] = "configure" /\ command'[g] = command[g]
      BY <2>1, <2>2, <2>6, <3>1 DEF Receive, Go
    <3> QED BY <3>2
  <2> QED BY <2>3, <2>4, <2>5, <2>6
<1>2. ASSUME NEW h \in Handlers, Step(h) PROVE StackTypeOK'
  <2>1. CASE StartService(h)
    BY <2>1, GoTypes DEF StartService, KeepStack
  <2>2. CASE StartServiceFails(h)
    BY <2>2, GoTypes DEF StartServiceFails, KeepStack
  <2>3. CASE Snapshot(h)
    <3>1. context' \in [Handlers -> Contexts]
      BY <2>3 DEF Snapshot, Contexts, ServiceTypeOK
    <3> QED BY <2>3, <3>1, GoTypes DEF Snapshot
  <2>4. CASE RefreshView(h)
    <3>1. md_strategy \in Services /\ md_warmup' \in ProgressStatus /\ md_healthy' \in BOOLEAN
      BY <2>4, PollTypes DEF RefreshView, ServiceTypeOK
    <3> DEFINE taken == [context[h] EXCEPT !.view = md_strategy, !.warmup = md_warmup',
                           !.market_ok = (md_strategy # NoStrategy /\ md_healthy')]
    <3>2. taken \in Contexts
      BY <3>1 DEF Contexts
    <3>3. context' = [context EXCEPT ![h] = taken]
      BY <2>4 DEF RefreshView
    <3>4. context' \in [Handlers -> Contexts]
      BY <3>2, <3>3
    <3> QED BY <2>4, <3>4, GoTypes DEF RefreshView
  <2>5. CASE SyncWarmup(h)
    BY <2>5, GoTypes, FinishTypes DEF SyncWarmup, KeepStack
  <2>6. CASE StateCommand(h)
    BY <2>6, GoTypes DEF StateCommand, KeepStack
  <2>7. CASE LoadStrategy(h)
    BY <2>7 DEF LoadStrategy, Go, KeepStack
  <2>8. CASE LoadStrategyFails(h)
    BY <2>8, GoTypes DEF LoadStrategyFails, KeepStack
  <2>9. CASE ConfigureService(h)
    BY <2>9, GoTypes DEF ConfigureService, KeepStack
  <2>10. CASE BuildEntry(h)
    <3> DEFINE built == [context[h] EXCEPT !.built = TRUE]
    <3>1. built \in Contexts
      BY DEF Contexts
    <3>2. context' = context \/ context' = [context EXCEPT ![h] = built]
      BY <2>10 DEF BuildEntry
    <3>3. context' \in [Handlers -> Contexts]
      BY <3>1, <3>2
    <3> QED BY <2>10, <3>3, GoTypes DEF BuildEntry
  <2>11. CASE Sanitize(h)
    BY <2>11, GoTypes DEF Sanitize
  <2>12. CASE Dispatch(h)
    BY <2>12, GoTypes, FinishTypes DEF Dispatch, KeepStack
  <2>13. CASE Respond(h)
    BY <2>13, FinishTypes DEF Respond
  <2> QED
    BY <1>2, <2>1, <2>2, <2>3, <2>4, <2>5, <2>6, <2>7, <2>8, <2>9, <2>10, <2>11, <2>12,
       <2>13 DEF Step
<1>3. CASE HealthTick
  BY <1>3 DEF HealthTick, KeepStack
<1>4. CASE BrokerChanges
  BY <1>4 DEF BrokerChanges, KeepStack
<1> QED BY <1>1, <1>2, <1>3, <1>4 DEF HostNext

-----------------------------------------------------------------------------
\* Only three handler sections, under the operator lock, touch the operator state,
\* and each does so through one kernel method.
LEMMA HostStepIsOperatorStep ==
  ASSUME StackTypeOK, KernelTypeOK, HostNext
  PROVE  OperatorStep
<1> USE DEF OperatorStep, Keeping
<1>1. CASE \E h \in Clients, cmd \in Commands : Receive(h, cmd)
  BY <1>1 DEF Receive
<1>2. ASSUME NEW h \in Handlers, Step(h) PROVE OperatorStep
  <2>1. CASE SyncWarmup(h)
    <3>1. context[h].warmup \in ProgressStatus
      BY DEF StackTypeOK, Contexts
    <3> QED BY <2>1, <3>1 DEF SyncWarmup, SyncWarmupProgress
  <2>2. CASE StateCommand(h)
    <3>1. CASE Refused(h) /\ KeepOperator
      BY <3>1
    <3>2. CASE /\ Applies(h, command[h][2])
               /\ armed_strategy' = IF command[h][1] = "Arm" THEN loaded_strategy
                                                             ELSE armed_strategy
               /\ UNCHANGED loaded_strategy
      <4>1. CASE command[h][1] = "SetMode"
        BY <3>2, <4>1, CommandFacts DEF Applies
      <4>2. CASE command[h][1] \in {"MarkWarmupReady", "MarkWarmupFailed", "StartWarmup"}
        BY <3>2, <4>2 DEF Applies, MarkWarmupReady, MarkWarmupFailed, StartWarmup,
                          ProgressStatus, WarmupStatus
      <4>3. CASE command[h][1] = "Arm"
        <5>1. PICK required \in BOOLEAN :
                Arm(Readiness(h, required), command[h][2] = "yes")
          BY <3>2, <4>3 DEF Applies
        <5>2. Readiness(h, required) \in Report
          BY DEF Readiness, Report, KernelTypeOK
        <5>3. (command[h][2] = "yes") \in BOOLEAN
          OBVIOUS
        <5>4. \E report \in Report, allow \in BOOLEAN : Arm(report, allow)
          BY <5>1, <5>2, <5>3
        <5> QED BY <3>2, <4>3, <5>4
      <4>4. CASE command[h][1] \in {"Disarm", "Pause", "Resume"}
        BY <3>2, <4>4 DEF Applies
      <4>5. CASE command[h][1] = "SetNewEntriesEnabled"
        <5>1. SetNewEntriesEnabled(command[h][2] = "yes")
          BY <3>2, <4>5 DEF Applies
        <5>2. (command[h][2] = "yes") \in BOOLEAN
          OBVIOUS
        <5>3. \E enabled \in BOOLEAN : SetNewEntriesEnabled(enabled)
          BY <5>1, <5>2
        <5> QED BY <3>2, <4>5, <5>3
      <4> QED BY <3>2, <4>1, <4>2, <4>3, <4>4, <4>5 DEF Applies
    <3> QED BY <2>2, <3>1, <3>2 DEF StateCommand
  <2>3. CASE LoadStrategy(h)
    BY <2>3, CommandFacts DEF LoadStrategy
  <2>4. CASE \/ StartService(h) \/ StartServiceFails(h) \/ Snapshot(h) \/ RefreshView(h)
             \/ LoadStrategyFails(h) \/ ConfigureService(h) \/ BuildEntry(h)
             \/ Sanitize(h) \/ Dispatch(h) \/ Respond(h)
    BY <2>4 DEF StartService, StartServiceFails, Snapshot, RefreshView, LoadStrategyFails,
                ConfigureService, BuildEntry, Sanitize, Dispatch, Respond
  <2> QED BY <1>2, <2>1, <2>2, <2>3, <2>4 DEF Step
<1>3. CASE HealthTick
  BY <1>3 DEF HealthTick
<1>4. CASE BrokerChanges
  BY <1>4 DEF BrokerChanges
<1> QED BY <1>1, <1>2, <1>3, <1>4 DEF HostNext

\* What an operator step is for the kernel: a kernel step, or nothing.
LEMMA OperatorStepIsKernelStep ==
  ASSUME OperatorStep
  PROVE  [KernelNext]_kernel_vars
<1>1. CASE KeepOperator
  BY <1>1 DEF KeepOperator
<1>2. CASE \E status \in ProgressStatus : SetWarmup(status)
  BY <1>2 DEF KernelNext, SyncWarmupProgress
<1>3. CASE \/ \E mode \in RuntimeMode : SwitchMode(mode)
           \/ Pause \/ Resume \/ Disarm \/ MarkStrategyLoaded
           \/ \E enabled \in BOOLEAN : SetNewEntriesEnabled(enabled)
           \/ \E report \in Report, allow \in BOOLEAN : Arm(report, allow)
  BY <1>3 DEF KernelNext
<1> QED BY <1>1, <1>2, <1>3 DEF OperatorStep

\* The arm and the loaded strategy keep together through every operator step.
LEMMA AuthorityStep ==
  ASSUME AuthorityInv, OperatorStep
  PROVE  AuthorityInv'
<1>1. KernelInv'
  BY OperatorStepIsKernelStep, KernelStep DEF AuthorityInv
<1> USE NoStrategyAssumption
    DEF AuthorityInv, LoadedAgree, ArmedForLoadedStrategy, Services, Keeping
<1>2. CASE KeepOperator
  BY <1>1, <1>2 DEF KeepOperator, kernel_vars
<1>3. CASE Keeping /\ \E mode \in RuntimeMode : SwitchMode(mode)
  <2>1. PICK mode \in RuntimeMode : SwitchMode(mode)
    BY <1>3
  <2>2. strategy_loaded' = strategy_loaded /\ (arm_state' = "Armed" => arm_state = "Armed")
    BY <2>1 DEF SwitchMode, ClearArm, KeepArm
  <2> QED BY <1>1, <1>3, <2>2
<1>4. CASE Keeping /\ (Pause \/ Resume \/ Disarm)
  BY <1>1, <1>4 DEF Pause, Resume, Disarm, ClearArm, KeepArm
<1>5. CASE Keeping /\ \E status \in ProgressStatus : SetWarmup(status)
  <2>1. PICK status \in ProgressStatus : SetWarmup(status)
    BY <1>5
  <2>2. strategy_loaded' = strategy_loaded /\ (arm_state' = "Armed" => arm_state = "Armed")
    BY <2>1 DEF SetWarmup, ClearArm, KeepArm
  <2> QED BY <1>1, <1>5, <2>2
<1>6. CASE Keeping /\ \E enabled \in BOOLEAN : SetNewEntriesEnabled(enabled)
  BY <1>1, <1>6 DEF SetNewEntriesEnabled, KeepArm
<1>7. CASE /\ \E report \in Report, allow \in BOOLEAN : Arm(report, allow)
           /\ armed_strategy' = loaded_strategy
           /\ UNCHANGED loaded_strategy
  BY <1>1, <1>7 DEF Arm
<1>8. CASE /\ MarkStrategyLoaded
           /\ loaded_strategy' \in Strategies
           /\ UNCHANGED armed_strategy
  BY <1>1, <1>8 DEF MarkStrategyLoaded, ClearArm
<1> QED BY <1>2, <1>3, <1>4, <1>5, <1>6, <1>7, <1>8 DEF OperatorStep

-----------------------------------------------------------------------------
\* The inductive invariant of the host, but for the entries under way.
HostInv == StackTypeOK /\ ServiceTypeOK /\ AuthorityInv

\* Initially nothing is loaded or armed and every handler is idle.
LEMMA HostInitInv == HostInit => HostInv
<1> SUFFICES ASSUME HostInit PROVE HostInv
  OBVIOUS
<1>1. KernelInv
  BY KernelInitInv DEF HostInit
<1>2. StackTypeOK
  <2>1. NoContext \in Contexts
    BY DEF NoContext, Contexts, Services, ProgressStatus, WarmupStatus
  <2> QED BY <2>1, MaxRequestsAssumption DEF HostInit, StackTypeOK, Sections
<1>3. ServiceTypeOK
  BY HealthAssumption DEF HostInit, ServiceTypeOK, Services, ProgressStatus, WarmupStatus
<1>4. AuthorityInv
  BY <1>1 DEF HostInit, KernelInit, AuthorityInv, LoadedAgree, ArmedForLoadedStrategy, Services
<1> QED BY <1>2, <1>3, <1>4 DEF HostInv

\* Every section of every handler preserves the invariant.
LEMMA HostInvStep == HostInv /\ [HostNext]_vars => HostInv'
<1> SUFFICES ASSUME HostInv, [HostNext]_vars PROVE HostInv'
  OBVIOUS
<1>1. CASE HostNext
  <2>1. StackTypeOK' /\ ServiceTypeOK'
    BY <1>1, StackStep, ServiceStep DEF HostInv
  <2>2. OperatorStep
    BY <1>1, HostStepIsOperatorStep DEF HostInv, AuthorityInv, KernelInv
  <2>3. AuthorityInv'
    BY <2>2, AuthorityStep DEF HostInv
  <2> QED BY <2>1, <2>3 DEF HostInv
<1>2. CASE UNCHANGED vars
  <2>1. UNCHANGED kernel_vars
    BY <1>2 DEF vars
  <2>2. KernelInv'
    BY <2>1, KernelStep DEF HostInv, AuthorityInv
  <2> QED
    BY <1>2, <2>2 DEF vars, host_vars, kernel_vars, HostInv, StackTypeOK, ServiceTypeOK,
                      AuthorityInv, LoadedAgree, ArmedForLoadedStrategy
<1> QED BY <1>1, <1>2

\* Types, and the agreement between what is loaded and what is armed, hold in every
\* interleaving of any number of handlers.
THEOREM HostInvariant == HostSpec => []HostInv
<1>1. HostInit => HostInv
  BY HostInitInv
<1>2. HostInv /\ [HostNext]_vars => HostInv'
  BY HostInvStep
<1> QED BY <1>1, <1>2, PTL DEF HostSpec

\* The runtime is armed for the strategy that is loaded, for any number of
\* handlers that load, arm and sync between each other's sections.
THEOREM ArmFollowsLoad == HostSpec => []ArmedForLoadedStrategy
  BY HostInvariant, PTL DEF HostInv, AuthorityInv

-----------------------------------------------------------------------------
\* The entries under way.
OrderInv ==
  /\ order \in [Handlers -> SUBSET Orders]
  /\ held \in [Handlers -> SUBSET (OrderMode \X Strategies)]
  /\ \A h \in Handlers : pc[h] = "idle" => order[h] = {}
  /\ OrderHadAuthority

\* A grant that allows trading is for the mode and the strategy in force.
LEMMA TradingIsCurrent ==
  ASSUME AuthorityInv
  PROVE  /\ Trading \subseteq {<<current_mode, loaded_strategy>>}
         /\ Trading \in SUBSET (OrderMode \X Strategies)
         /\ CanSubmitOrders /\ new_entries_enabled
              => <<current_mode, loaded_strategy>> \in Trading
<1>1. CASE CanSubmitOrders /\ new_entries_enabled
  <2>1. Trading = {<<armed_mode, armed_strategy>>}
    BY <1>1 DEF Trading, Authority, CanSubmitOrders
  <2>2. armed_strategy = loaded_strategy /\ loaded_strategy \in Strategies
    BY <1>1 DEF AuthorityInv, ArmedForLoadedStrategy, CanSubmitOrders, LoadedAgree, Services
  <2>3. armed_mode = current_mode /\ current_mode \in OrderMode
    BY <1>1 DEF AuthorityInv, KernelInv, ArmStaysInItsMode, CanSubmitOrders, OrderMode
  <2> QED BY <2>1, <2>2, <2>3
<1>2. CASE ~(CanSubmitOrders /\ new_entries_enabled)
  BY <1>2 DEF Trading
<1> QED BY <1>1, <1>2

TradingTypeOK == Trading \in SUBSET (OrderMode \X Strategies)

\* An authority to trade names an order mode and a strategy.
LEMMA TradingTyped == AuthorityInv => TradingTypeOK
  BY TradingIsCurrent DEF TradingTypeOK

\* How a step changes the entries: it keeps them, drops the one of a handler that
\* returns, or sanitizes one and goes on to dispatch it.
LEMMA OrderChanges ==
  ASSUME StackTypeOK, OrderInv, HostNext
  PROVE  \/ order' = order /\ \A g \in Handlers : pc'[g] = "idle" => order[g] = {}
         \/ \E h \in Handlers : Finish(h)
         \/ \E h \in Handlers : Sanitize(h) /\ StrategyIsLoaded
<1> USE DEF StackTypeOK, OrderInv, Go
<1>1. CASE \E h \in Clients, cmd \in Commands : Receive(h, cmd)
  BY <1>1 DEF Receive, Handlers
<1>2. ASSUME NEW h \in Handlers, Step(h)
      PROVE  \/ order' = order /\ \A g \in Handlers : pc'[g] = "idle" => order[g] = {}
             \/ Finish(h)
             \/ Sanitize(h) /\ StrategyIsLoaded
  <2>1. CASE \/ StartService(h) \/ StartServiceFails(h) \/ Snapshot(h) \/ RefreshView(h)
             \/ StateCommand(h) \/ LoadStrategy(h) \/ LoadStrategyFails(h)
             \/ ConfigureService(h) \/ BuildEntry(h)
    BY <2>1 DEF StartService, StartServiceFails, Snapshot, RefreshView, StateCommand,
                LoadStrategy, LoadStrategyFails, ConfigureService, BuildEntry, KeepStack
  <2>2. CASE SyncWarmup(h)
    BY <2>2 DEF SyncWarmup, KeepStack
  <2>3. CASE Sanitize(h)
    BY <2>3 DEF Sanitize
  <2>4. CASE Dispatch(h)
    BY <2>4 DEF Dispatch, KeepStack
  <2>5. CASE Respond(h)
    BY <2>5 DEF Respond
  <2> QED BY <1>2, <2>1, <2>2, <2>3, <2>4, <2>5 DEF Step
<1>3. CASE HealthTick
  BY <1>3 DEF HealthTick, KeepStack
<1>4. CASE BrokerChanges
  BY <1>4 DEF BrokerChanges, KeepStack
<1> QED BY <1>1, <1>2, <1>3, <1>4 DEF HostNext

\* The history of a handler's authority only grows until the handler returns.
LEMMA HeldGrows ==
  ASSUME OrderInv, AuthorityInv, AuthorityInv', HostNext, NEW h \in Handlers
  PROVE  /\ held' \in [Handlers -> SUBSET (OrderMode \X Strategies)]
         /\ pc'[h] # "idle" => held[h] \subseteq held'[h] /\ Trading \subseteq held'[h]
<1>1. NoteAuthority
  BY DEF HostNext
<1>2. TradingTypeOK /\ TradingTypeOK'
  BY TradingTyped, PTL
<1> QED BY <1>1, <1>2 DEF OrderInv, NoteAuthority, TradingTypeOK

\* A sanitized entry is typed, and if it may be sent, its grant is in force.
LEMMA SanitizedFacts ==
  ASSUME AuthorityInv, NEW h \in Handlers, NEW flag \in BOOLEAN, StrategyIsLoaded
  PROVE  LET entry == SanitizedRequest(h, flag) IN
         /\ entry \in Orders
         /\ entry.can_submit /\ entry.new_entries => <<entry.mode, entry.strategy>> \in Trading
<1> DEFINE entry == SanitizedRequest(h, flag)
<1>1. loaded_strategy \in Strategies
  BY DEF AuthorityInv, Services, StrategyIsLoaded
<1>2. current_mode \in RuntimeMode
  BY DEF AuthorityInv, KernelInv, KernelTypeOK
<1>3. CanSubmitOrders \in BOOLEAN /\ (flag /\ NewEntriesAllowed(h)) \in BOOLEAN
  BY DEF CanSubmitOrders
<1>4. entry \in Orders
  BY <1>1, <1>2, <1>3 DEF SanitizedRequest, Orders
<1>5. ASSUME entry.can_submit, entry.new_entries
      PROVE  <<entry.mode, entry.strategy>> \in Trading
  <2>1. CanSubmitOrders /\ new_entries_enabled
    BY <1>5 DEF SanitizedRequest, NewEntriesAllowed
  <2>2. entry.mode = current_mode /\ entry.strategy = loaded_strategy
    BY DEF SanitizedRequest
  <2> QED BY <2>1, <2>2, TradingIsCurrent
<1> QED BY <1>4, <1>5

\* Every section preserves what the entries under way rest on.
LEMMA OrderStep ==
  ASSUME StackTypeOK, OrderInv, AuthorityInv, AuthorityInv', HostNext
  PROVE  OrderInv'
<1>1. held' \in [Handlers -> SUBSET (OrderMode \X Strategies)]
  <2>1. CASE Handlers = {}
    BY <2>1 DEF HostNext, NoteAuthority
  <2>2. CASE Handlers # {}
    BY <2>2, HeldGrows
  <2> QED BY <2>1, <2>2
<1>2. ASSUME order' = order,
             \A g \in Handlers : pc'[g] = "idle" => order[g] = {}
      PROVE  OrderInv'
  <2>1. ASSUME NEW g \in Handlers, NEW entry \in order'[g],
               entry.can_submit, entry.new_entries
        PROVE  <<entry.mode, entry.strategy>> \in held'[g]
    <3>1. pc'[g] # "idle"
      BY <1>2, <2>1
    <3>2. <<entry.mode, entry.strategy>> \in held[g]
      BY <1>2, <2>1 DEF OrderInv, OrderHadAuthority
    <3> QED BY <3>1, <3>2, HeldGrows
  <2> QED BY <1>1, <1>2, <2>1 DEF OrderInv, OrderHadAuthority
<1>3. ASSUME NEW h \in Handlers, Finish(h)
      PROVE  OrderInv'
  <2>1. order' \in [Handlers -> SUBSET Orders] /\ order'[h] = {}
    BY <1>3 DEF Finish, OrderInv
  <2>2. \A g \in Handlers \ {h} : order'[g] = order[g] /\ pc'[g] = pc[g]
    BY <1>3 DEF Finish, Go, OrderInv, StackTypeOK
  <2>3. \A g \in Handlers : pc'[g] = "idle" => order'[g] = {}
    BY <2>1, <2>2 DEF OrderInv
  <2>4. ASSUME NEW g \in Handlers, NEW entry \in order'[g],
               entry.can_submit, entry.new_entries
        PROVE  <<entry.mode, entry.strategy>> \in held'[g]
    <3>1. g # h /\ order'[g] = order[g] /\ pc'[g] # "idle"
      BY <2>1, <2>2, <2>3, <2>4
    <3>2. <<entry.mode, entry.strategy>> \in held[g]
      BY <2>4, <3>1 DEF OrderInv, OrderHadAuthority
    <3> QED BY <3>1, <3>2, HeldGrows
  <2> QED BY <1>1, <2>1, <2>3, <2>4 DEF OrderInv, OrderHadAuthority
<1>4. ASSUME NEW h \in Handlers, Sanitize(h), StrategyIsLoaded
      PROVE  OrderInv'
  <2>1. PICK flag \in BOOLEAN : order' = [order EXCEPT ![h] = {SanitizedRequest(h, flag)}]
    BY <1>4 DEF Sanitize
  <2>2. pc' = [pc EXCEPT ![h] = "dispatch"]
    BY <1>4 DEF Sanitize, Go
  <2> DEFINE new == SanitizedRequest(h, flag)
  <2>3. /\ new \in Orders
        /\ new.can_submit /\ new.new_entries => <<new.mode, new.strategy>> \in Trading
    BY <1>4, SanitizedFacts
  <2> HIDE DEF new
  <2>4. order' \in [Handlers -> SUBSET Orders]
    BY <2>1, <2>3 DEF OrderInv, new
  <2>5. /\ order'[h] = {new} /\ pc'[h] = "dispatch"
        /\ \A g \in Handlers \ {h} : order'[g] = order[g] /\ pc'[g] = pc[g]
    BY <2>1, <2>2 DEF OrderInv, StackTypeOK, new
  <2>6. \A g \in Handlers : pc'[g] = "idle" => order'[g] = {}
    BY <2>5 DEF OrderInv
  <2>7. ASSUME NEW g \in Handlers, NEW entry \in order'[g],
               entry.can_submit, entry.new_entries
        PROVE  <<entry.mode, entry.strategy>> \in held'[g]
    <3>1. pc'[g] # "idle"
      BY <2>6, <2>7
    <3>2. CASE g = h
      <4>1. <<entry.mode, entry.strategy>> \in Trading
        BY <2>3, <2>5, <2>7, <3>2
      <4> QED BY <3>1, <4>1, HeldGrows
    <3>3. CASE g # h
      <4>1. <<entry.mode, entry.strategy>> \in held[g]
        BY <2>5, <2>7, <3>3 DEF OrderInv, OrderHadAuthority
      <4> QED BY <3>1, <4>1, HeldGrows
    <3> QED BY <3>2, <3>3
  <2> QED BY <1>1, <2>4, <2>6, <2>7 DEF OrderInv, OrderHadAuthority
<1> QED BY <1>2, <1>3, <1>4, OrderChanges

\* There are no entries at first.
LEMMA OrderInitInv == HostInit => OrderInv
  BY DEF HostInit, OrderInv, OrderHadAuthority

\* So does every step, the history step included.
LEMMA OrderInvStep == HostInv /\ HostInv' /\ OrderInv /\ [HostNext]_vars => OrderInv'
<1> SUFFICES ASSUME HostInv, HostInv', OrderInv, [HostNext]_vars PROVE OrderInv'
  OBVIOUS
<1>1. CASE HostNext
  BY <1>1, OrderStep DEF HostInv
<1>2. CASE UNCHANGED vars
  BY <1>2 DEF vars, host_vars, OrderInv, OrderHadAuthority
<1> QED BY <1>1, <1>2

\* An entry let through to the dispatcher carries the mode and the strategy of a
\* grant that was in force while its request was being handled.
THEOREM OrdersHaveAuthority == HostSpec => []OrderHadAuthority
<1>1. HostInit => OrderInv
  BY OrderInitInv
<1>2. HostInv /\ HostInv' /\ OrderInv /\ [HostNext]_vars => OrderInv'
  BY OrderInvStep
<1>3. OrderInv => OrderHadAuthority
  BY DEF OrderInv
<1> QED BY <1>1, <1>2, <1>3, HostInvariant, PTL DEF HostSpec

-----------------------------------------------------------------------------
\* Every operator step is a step of TradingAuthority, or changes nothing there.
LEMMA OperatorStepRefines ==
  ASSUME AuthorityInv, AuthorityInv', OperatorStep
  PROVE  [Abstract!Next]_(Abstract!authority_vars)
<1> USE DEF Keeping, Abstract!Next, Abstract!Grant, Abstract!Revoke, Abstract!ChangeMode,
            Abstract!ChangeStrategy, Abstract!authority_vars, Abstract!Modes
<1>1. CASE KeepOperator
  BY <1>1 DEF KeepOperator, kernel_vars, Authority
<1>2. CASE Keeping /\ \E mode \in RuntimeMode : SwitchMode(mode)
  <2>1. PICK mode \in RuntimeMode : SwitchMode(mode)
    BY <1>2
  <2>2. current_mode' = mode
    BY <2>1 DEF SwitchMode, NoteMode
  <2>3. CASE mode = "Observation" \/ (current_mode # mode /\ mode \in ActiveMode)
    <3>1. Authority' = {}
      BY <2>1, <2>3 DEF SwitchMode, ClearArm, Authority
    <3> QED BY <1>2, <2>2, <3>1 DEF RuntimeMode, ActiveMode
  <2>4. CASE ~(mode = "Observation" \/ (current_mode # mode /\ mode \in ActiveMode))
    <3>1. Authority' = Authority
      BY <1>2, <2>1, <2>4 DEF SwitchMode, KeepArm, Authority
    <3>2. mode = current_mode \/ mode = "Paused"
      BY <2>4 DEF RuntimeMode
    <3>3. \A grant \in Authority : current_mode \in {grant[1], "Paused"}
      BY DEF AuthorityInv, KernelInv, ArmStaysInItsMode, Authority
    <3> QED BY <1>2, <2>2, <3>1, <3>2, <3>3 DEF RuntimeMode, ActiveMode
  <2> QED BY <2>3, <2>4
<1>3. CASE Keeping /\ (Pause \/ Resume)
  <2>1. Authority' = Authority
    BY <1>3 DEF Pause, Resume, KeepArm, Authority
  <2>2. current_mode' \in Abstract!Modes
    BY DEF AuthorityInv, KernelInv, KernelTypeOK, RuntimeMode, ActiveMode
  <2>3. \A grant \in Authority : current_mode' \in {grant[1], "Paused"}
    BY <1>3 DEF AuthorityInv, KernelInv, ArmStaysInItsMode, Authority, Pause, Resume, NoteMode
  <2> QED BY <1>3, <2>1, <2>2, <2>3
<1>4. CASE Keeping /\ Disarm
  BY <1>4 DEF Disarm, ClearArm, Authority
<1>5. CASE Keeping /\ \E status \in ProgressStatus : SetWarmup(status)
  <2>1. PICK status \in ProgressStatus : SetWarmup(status)
    BY <1>5
  <2>2. Authority' = {} \/ Authority' = Authority
    BY <1>5, <2>1 DEF SetWarmup, ClearArm, KeepArm, Authority
  <2>3. UNCHANGED <<current_mode, loaded_strategy>>
    BY <1>5, <2>1 DEF SetWarmup
  <2> QED BY <2>2, <2>3
<1>6. CASE Keeping /\ \E enabled \in BOOLEAN : SetNewEntriesEnabled(enabled)
  BY <1>6 DEF SetNewEntriesEnabled, KeepArm, Authority
<1>7. CASE /\ \E report \in Report, allow \in BOOLEAN : Arm(report, allow)
           /\ armed_strategy' = loaded_strategy
           /\ UNCHANGED loaded_strategy
  <2>1. Authority' = {<<current_mode, loaded_strategy>>}
    BY <1>7 DEF Arm, Authority
  <2>2. current_mode \in {"Paper", "Live"} /\ UNCHANGED <<current_mode, loaded_strategy>>
    BY <1>7 DEF Arm, OrderMode
  <2>3. loaded_strategy \in Strategies
    BY <1>7 DEF Arm, AuthorityInv, LoadedAgree, Services
  <2> QED BY <2>1, <2>2, <2>3
<1>8. CASE /\ MarkStrategyLoaded
           /\ loaded_strategy' \in Strategies
           /\ UNCHANGED armed_strategy
  BY <1>8 DEF MarkStrategyLoaded, ClearArm, Authority
<1> QED BY <1>1, <1>2, <1>3, <1>4, <1>5, <1>6, <1>7, <1>8 DEF OperatorStep

\* Nobody has authority at first.
LEMMA HostRefinesInit == HostInit => Abstract!Init
  BY StartupModesAssumption
  DEF HostInit, KernelInit, Abstract!Init, Abstract!Modes, Authority, RuntimeMode, ActiveMode

\* Every host step is an abstract step or a stutter.
LEMMA HostRefinesStep ==
  HostInv /\ HostInv' /\ [HostNext]_vars => [Abstract!Next]_(Abstract!authority_vars)
<1> SUFFICES ASSUME HostInv, HostInv', [HostNext]_vars
             PROVE  [Abstract!Next]_(Abstract!authority_vars)
  OBVIOUS
<1>1. CASE HostNext
  <2>1. OperatorStep
    BY <1>1, HostStepIsOperatorStep DEF HostInv, AuthorityInv, KernelInv
  <2> QED BY <2>1, OperatorStepRefines DEF HostInv
<1>2. CASE UNCHANGED vars
  BY <1>2 DEF vars, host_vars, kernel_vars, Abstract!authority_vars, Authority
<1> QED BY <1>1, <1>2

\* The host, with all its interleavings, implements TradingAuthority: authority to
\* trade is one grant, which ends and is never turned into another.
THEOREM HostKeepsAuthority == HostSpec => KeepsAuthorityPromise
<1>1. HostInit => Abstract!Init
  BY HostRefinesInit
<1>2. HostInv /\ HostInv' /\ [HostNext]_vars => [Abstract!Next]_(Abstract!authority_vars)
  BY HostRefinesStep
<1> QED BY <1>1, <1>2, HostInvariant, PTL DEF HostSpec, KeepsAuthorityPromise, Abstract!Spec

-----------------------------------------------------------------------------
\* The history variables that only the type invariant speaks of.
HistoryTypeOK ==
  /\ armed_strategy \in Services
  /\ sent \in SUBSET (Handlers \X OrderMode \X Strategies)

\* What is dispatched was sanitized, and so is typed.
LEMMA SentStep ==
  ASSUME HistoryTypeOK, OrderInv, NEW h \in Handlers, Dispatch(h)
  PROVE  sent' \in SUBSET (Handlers \X OrderMode \X Strategies)
<1>1. CASE UNCHANGED sent
  BY <1>1 DEF HistoryTypeOK
<1>2. ASSUME NEW entry \in order[h], entry.can_submit, entry.new_entries,
             sent' = {<<h, entry.mode, entry.strategy>>}
      PROVE  sent' \in SUBSET (Handlers \X OrderMode \X Strategies)
  <2>1. <<entry.mode, entry.strategy>> \in held[h]
    BY <1>2 DEF OrderInv, OrderHadAuthority
  <2>2. held[h] \subseteq OrderMode \X Strategies
    BY DEF OrderInv
  <2>3. entry.mode \in OrderMode /\ entry.strategy \in Strategies
    BY <2>1, <2>2
  <2> QED BY <1>2, <2>3
<1> QED BY <1>1, <1>2 DEF Dispatch

\* The history variables keep to their types.
LEMMA HistoryStep ==
  ASSUME HostInv, HistoryTypeOK, OrderInv, HostNext
  PROVE  HistoryTypeOK'
<1>1. armed_strategy' \in Services
  <2>1. OperatorStep
    BY HostStepIsOperatorStep DEF HostInv, AuthorityInv, KernelInv
  <2> QED BY <2>1 DEF OperatorStep, KeepOperator, Keeping, HistoryTypeOK, HostInv, AuthorityInv
<1> USE DEF HistoryTypeOK, KeepOperator
<1>2. CASE \E h \in Clients, cmd \in Commands : Receive(h, cmd)
  BY <1>1, <1>2 DEF Receive
<1>3. ASSUME NEW h \in Handlers, Step(h) PROVE HistoryTypeOK'
  <2>1. CASE SyncWarmup(h)
    <3>1. context[h].view \in Services
      BY DEF HostInv, StackTypeOK, Contexts
    <3> QED BY <1>1, <2>1, <3>1 DEF SyncWarmup
  <2>2. CASE StateCommand(h)
    BY <1>1, <2>2 DEF StateCommand, HostInv, AuthorityInv
  <2>3. CASE Dispatch(h)
    BY <1>1, <2>3, SentStep DEF Dispatch
  <2>4. CASE \/ StartService(h) \/ StartServiceFails(h) \/ Snapshot(h) \/ RefreshView(h)
             \/ LoadStrategy(h) \/ LoadStrategyFails(h) \/ ConfigureService(h)
             \/ BuildEntry(h) \/ Sanitize(h) \/ Respond(h)
    BY <1>1, <2>4 DEF StartService, StartServiceFails, Snapshot, RefreshView, LoadStrategy,
                LoadStrategyFails, ConfigureService, BuildEntry, Sanitize, Respond
  <2> QED BY <1>3, <2>1, <2>2, <2>3, <2>4 DEF Step
<1>4. CASE HealthTick \/ BrokerChanges
  BY <1>1, <1>4 DEF HealthTick, BrokerChanges
<1> QED BY <1>2, <1>3, <1>4 DEF HostNext

\* Every variable of the host keeps to its type, whatever the command set.
THEOREM HostTypeCorrect == HostSpec => []HostTypeOK
<1>1. HostInit => OrderInv /\ HistoryTypeOK
  BY OrderInitInv DEF HostInit, HistoryTypeOK, Services
<1>2. HostInv /\ HostInv' /\ OrderInv /\ HistoryTypeOK /\ [HostNext]_vars
        => OrderInv' /\ HistoryTypeOK'
  <2>1. HostInv /\ OrderInv /\ HistoryTypeOK /\ UNCHANGED vars => HistoryTypeOK'
    BY DEF vars, host_vars, HistoryTypeOK
  <2> QED BY <2>1, OrderInvStep, HistoryStep
<1>3. HostInv /\ OrderInv /\ HistoryTypeOK => HostTypeOK
  BY DEF HostInv, OrderInv, HistoryTypeOK, HostTypeOK, AuthorityInv, KernelInv, StackTypeOK,
         ServiceTypeOK
<1> QED BY <1>1, <1>2, <1>3, HostInvariant, PTL DEF HostSpec

-----------------------------------------------------------------------------
(* Readiness and permissions                                               *)

\* An arm that nothing blocks is for a strategy that is warm, in the mode its account is
\* routed for, over a feed that is healthy and a broker that is synchronized; and unless
\* the operator takes up the override, its instrument is resolved and its records are
\* durable (readiness_snapshot, which turns the block of an unresolved instrument into a
\* warning, and arm).
THEOREM UnblockedIsReady ==
  ASSUME NEW state \in Operators, NEW known \in StatusContexts,
         ~ReadinessReport(state, known).blocking
  PROVE  /\ state.mode \in TradingModes /\ state.strategy_loaded /\ state.warmup_status = "Ready"
         /\ known.broker_known /\ known.routing = {state.mode}
         /\ known.broker_health = "Healthy"
         /\ known.sync_state \notin {"Stale", "Mismatch", "ReviewRequired"}
         /\ known.market_known /\ known.market_health = "Healthy"
         /\ ~ReadinessReport(state, known).override_required =>
              state.mapping_resolved /\ known.storage = "Healthy" /\ known.journal = "Healthy"
<1> DEFINE checks == Checks(state, known)
<1>1. \A name \in DOMAIN checks : checks[name] # "Blocking"
  BY DEF ReadinessReport
<1>2. /\ checks.mode # "Blocking" /\ checks.strategy_loaded # "Blocking"
      /\ checks.warmup # "Blocking" /\ checks.account_selected # "Blocking"
      /\ checks.market_data # "Blocking" /\ checks.broker_sync # "Blocking"
      /\ checks.storage # "Blocking" /\ checks.journal # "Blocking"
  BY <1>1 DEF Checks
<1>3. state.mode \in TradingModes /\ state.strategy_loaded /\ state.warmup_status = "Ready"
  BY <1>2 DEF Checks, HealthyIf
<1>4. known.broker_known /\ known.routing = {state.mode}
  BY <1>2, <1>3 DEF Checks, HealthyIf, Concerning, Trades, AccountSelectionHealth,
                    BrokerAccountDependency
<1>5. /\ known.broker_health = "Healthy"
      /\ known.sync_state \notin {"Stale", "Mismatch", "ReviewRequired"}
  BY <1>2, <1>3 DEF Checks, HealthyIf, Concerning, Trades, BrokerSyncHealth,
                    BrokerSyncDependency
<1>6. known.market_known /\ known.market_health = "Healthy"
  BY <1>2, <1>3 DEF Checks, HealthyIf, Concerning, Trades, MarketDataHealth,
                    MarketDataDependency
<1>7. ASSUME ~ReadinessReport(state, known).override_required
      PROVE  state.mapping_resolved /\ known.storage = "Healthy" /\ known.journal = "Healthy"
  <2>1. /\ checks["symbol_mapping"] # "Warning" /\ checks["storage"] # "Warning"
        /\ checks["journal"] # "Warning"
    BY <1>7 DEF ReadinessReport, HardOverrideReasons
  <2>2. known.storage \in DependencyHealth /\ known.journal \in DependencyHealth
    BY DEF StatusContexts
  <2>3. checks["storage"] = known.storage /\ checks["journal"] = known.journal
    BY <1>3 DEF Checks, Concerning, Trades
  <2>4. checks["symbol_mapping"] = SymbolMapping(state)
    BY DEF Checks
  <2> QED BY <1>2, <1>3, <2>1, <2>2, <2>3, <2>4 DEF SymbolMapping, DependencyHealth
<1> QED BY <1>3, <1>4, <1>5, <1>6, <1>7

\* What the runtime, and a handler's snapshot, say to readiness_snapshot.
Sees(state, known, h) ==
  /\ state.mode = current_mode /\ state.strategy_loaded = strategy_loaded
  /\ state.warmup_status = warmup_status
  /\ context[h].market_ok <=> known.market_known /\ known.market_health = "Healthy"
  /\ context[h].broker_ok <=>
       /\ known.broker_known
       /\ BrokerAccountDependency(state.mode, known.routing) = "Healthy"
       /\ BrokerSyncDependency(known.sync_state, known.broker_health) = "Healthy"

\* The host's model admits every arm the code does: a report that lets an arm through is,
\* for the kernel, one the model's Readiness gives, whatever the parts it leaves out say.
THEOREM ReadinessIsAbstracted ==
  ASSUME NEW state \in Operators, NEW known \in StatusContexts, NEW h, Sees(state, known, h),
         ~ReadinessReport(state, known).blocking
  PROVE  ReadinessReport(state, known) =
           Readiness(h, ReadinessReport(state, known).override_required)
<1>1. /\ state.mode \in TradingModes /\ state.strategy_loaded /\ state.warmup_status = "Ready"
      /\ known.broker_known /\ known.routing = {state.mode}
      /\ known.broker_health = "Healthy"
      /\ known.sync_state \notin {"Stale", "Mismatch", "ReviewRequired"}
      /\ known.market_known /\ known.market_health = "Healthy"
  BY UnblockedIsReady
<1>2. context[h].market_ok /\ context[h].broker_ok
  BY <1>1 DEF Sees, BrokerAccountDependency, BrokerSyncDependency, HealthyIf
<1>3. ~(~(DependenciesHealthy(h) /\ warmup_status = "Ready"))
  BY <1>1, <1>2 DEF Sees, DependenciesHealthy
<1>4. ReadinessReport(state, known).blocking = FALSE
  BY DEF ReadinessReport
<1> QED BY <1>3, <1>4 DEF ReadinessReport, Readiness, Sees

\* The permissions a client is shown are the ones its requests are served with: it is
\* neither shown a button that is refused nor refused what it is shown, whatever the
\* headers and the configuration (authorization_snapshot_for_operator and
\* authorize_remote_access, which decide apart).
THEOREM ShownIsServed ==
  ASSUME NEW headers \in Headers, NEW remote_access \in RemoteAccessConfig,
         NEW shown \in StatusAccess(headers, remote_access), NEW kind, NEW argument
  PROVE  IsServed(headers, remote_access, RequirementFor(kind, argument)) <=>
           IF RequirementFor(kind, argument) = "TradeOperator"
           THEN shown.can_trade ELSE shown.can_manage_runtime
<1> DEFINE operator == AuthenticatedOperator(headers, remote_access)
           requirement == RequirementFor(kind, argument)
<1>1. operator # Invalid /\ shown = AuthorizationSnapshot(operator, remote_access)
  BY DEF StatusAccess
<1>2. requirement \in {"Operator", "TradeOperator"}
  BY DEF RequirementFor
<1>3. IsServed(headers, remote_access, requirement) <=>
        Authorized(operator, remote_access, requirement)
  BY <1>1 DEF IsServed
<1> HIDE DEF operator, requirement
<1>4. CASE operator.kind = "operator"
  BY <1>1, <1>2, <1>3, <1>4 DEF AuthorizationSnapshot, Permissions, Authorized, requirement
<1>5. CASE operator.kind # "operator"
  BY <1>1, <1>2, <1>3, <1>5, Zenon DEF AuthorizationSnapshot, Permissions, Authorized, requirement
<1> QED BY <1>4, <1>5

\* The command of a client of the host, as the routes name it.
Requires(cmd) == RequirementFor(IF cmd[1] = "Command" THEN "ManualIntent" ELSE cmd[1], cmd[2])

NoTrade ==
  /\ arm_state = "Disarmed" /\ sent = {}
  /\ command \in [Handlers -> Commands \cup {NoCommand}]
  /\ pc \in [Handlers -> Sections \ {"dispatch"}]

\* A runtime whose clients are all served as operators who may not trade.
LEMMA NoTraderStep ==
  ASSUME \A cmd \in Commands : Requires(cmd) = "Operator", NoTrade, [HostNext]_vars
  PROVE  NoTrade'
<1>1. \A h \in Handlers : command[h][1] \notin {"Arm", "ManualEntry", "Command"}
  <2>1. ASSUME NEW cmd \in Commands PROVE cmd[1] \notin {"Arm", "ManualEntry", "Command"}
    <3>1. CASE cmd[1] = "Command"
      BY <3>1 DEF Requires, RequirementFor, TradeCommands
    <3>2. CASE cmd[1] \in {"Arm", "ManualEntry"}
      BY <3>2 DEF Requires, RequirementFor, TradeCommands
    <3> QED BY <3>1, <3>2
  <2>2. NoCommand[1] = "None"
    BY DEF NoCommand
  <2>3. \A h \in Handlers : command[h] \in Commands \cup {NoCommand}
    BY DEF NoTrade
  <2> QED BY <2>1, <2>2, <2>3
<1>2. ASSUME NEW h \in Clients, NEW cmd \in Commands, Receive(h, cmd) PROVE NoTrade'
  BY <1>2 DEF NoTrade, Receive, Go, KeepOperator, kernel_vars, Sections, Handlers
<1>3. ASSUME NEW h \in Handlers, Step(h) PROVE NoTrade'
  <2> USE DEF NoTrade, Go, KeepStack, KeepOperator, kernel_vars, Sections
  <2>1. CASE SyncWarmup(h)
    BY <2>1 DEF SyncWarmup, SyncWarmupProgress, SetWarmup, ClearArm, KeepArm, Finish
  <2>2. CASE StateCommand(h)
    <3>1. arm_state' = "Disarmed"
      <4>1. CASE KeepOperator
        BY <4>1
      <4>2. CASE Applies(h, command[h][2])
        BY <1>1, <4>2 DEF Applies, SwitchMode, MarkWarmupReady, MarkWarmupFailed, StartWarmup,
           SetWarmup, Disarm, Pause, Resume, SetNewEntriesEnabled, ClearArm, KeepArm
      <4> QED BY <2>2, <4>1, <4>2 DEF StateCommand
    <3> QED BY <2>2, <3>1 DEF StateCommand
  <2>3. CASE LoadStrategy(h)
    BY <2>3 DEF LoadStrategy, MarkStrategyLoaded, ClearArm
  <2>4. CASE Sanitize(h) \/ BuildEntry(h) \/ Dispatch(h)
    BY <1>1, <2>4 DEF Sanitize, BuildEntry, Dispatch
  <2>5. CASE \/ StartService(h) \/ StartServiceFails(h) \/ Snapshot(h) \/ RefreshView(h)
             \/ LoadStrategyFails(h) \/ ConfigureService(h)
    BY <2>5 DEF StartService, StartServiceFails, Snapshot, RefreshView, LoadStrategyFails,
                ConfigureService
  <2>6. CASE Respond(h)
    BY <2>6 DEF Respond, Finish
  <2> QED BY <1>3, <2>1, <2>2, <2>3, <2>4, <2>5, <2>6 DEF Step
<1>4. CASE HealthTick \/ BrokerChanges \/ UNCHANGED vars
  BY <1>4 DEF NoTrade, HealthTick, BrokerChanges, KeepOperator, KeepStack, vars, kernel_vars,
              host_vars
<1> QED BY <1>2, <1>3, <1>4 DEF HostNext

\* Clients that are all served as operators but not as traders never bring the runtime to
\* be armed or to send an order, however they interleave: no command that asks for the
\* lower role leads there (authorization_requirement_for_lifecycle_command against
\* what the handlers of runtime_command_handler and command_handler do).
THEOREM OnlyTradersTrade ==
  ASSUME \A cmd \in Commands : Requires(cmd) = "Operator"
  PROVE  HostSpec => [](arm_state # "Armed" /\ sent = {})
<1>1. HostInit => NoTrade
  BY DEF HostInit, KernelInit, NoTrade, Sections
<1>2. NoTrade /\ [HostNext]_vars => NoTrade'
  BY NoTraderStep
<1>3. NoTrade => arm_state # "Armed" /\ sent = {}
  BY DEF NoTrade
<1> QED BY <1>1, <1>2, <1>3, PTL DEF HostSpec
=============================================================================
