--------------------------- MODULE RuntimeKernel ---------------------------
(***************************************************************************)
(* RuntimeStateMachine of crates/runtime_kernel: the mode, the arm state,  *)
(* the warmup status and the operator's new-entries gate, which together   *)
(* decide whether an order may be submitted.  Every public method that     *)
(* changes state is one action; a method that returns Err changes nothing  *)
(* and so is no action.  The texts (new_entries_reason, messages) are left *)
(* out.                                                                    *)
(*                                                                         *)
(* armed_mode and paused_from are history variables: the mode of the       *)
(* readiness report of the last successful arm, and the last mode other    *)
(* than Paused.  No guard reads them.                                      *)
(***************************************************************************)

ActiveMode == {"Paper", "Live", "Observation"}
RuntimeMode == ActiveMode \cup {"Paused"}
OrderMode == {"Paper", "Live"}
WarmupStatus == {"NotLoaded", "Loaded", "Warming", "Ready", "Failed"}

\* What WarmupTracker::progress can report (it never says NotLoaded).
ProgressStatus == WarmupStatus \ {"NotLoaded"}

NoMode == "None"

CONSTANT StartupModes   \* the modes runtime.startup_mode may be configured to

ASSUME StartupModesAssumption == StartupModes \subseteq RuntimeMode

VARIABLES
  current_mode, last_active_mode, arm_state, warmup_status,
  strategy_loaded, hard_override_active, new_entries_enabled,
  armed_mode, paused_from

kernel_vars == <<current_mode, last_active_mode, arm_state, warmup_status,
                 strategy_loaded, hard_override_active, new_entries_enabled,
                 armed_mode, paused_from>>

\* ArmReadinessReport, reduced to what arm() reads of it.
Report == [mode : RuntimeMode, blocking : BOOLEAN, override_required : BOOLEAN]

-----------------------------------------------------------------------------
\* RuntimeStateMachine::new(startup_mode)
KernelInit ==
  /\ current_mode \in StartupModes
  /\ last_active_mode = IF current_mode \in ActiveMode THEN current_mode ELSE NoMode
  /\ arm_state = "Disarmed"
  /\ warmup_status = "NotLoaded"
  /\ strategy_loaded = FALSE
  /\ hard_override_active = FALSE
  /\ new_entries_enabled = TRUE
  /\ armed_mode = NoMode
  /\ paused_from = last_active_mode

\* The two assignments that every revocation of the arm makes.
ClearArm ==
  /\ arm_state' = "Disarmed"
  /\ hard_override_active' = FALSE
  /\ UNCHANGED armed_mode

KeepArm == UNCHANGED <<arm_state, hard_override_active, armed_mode>>

\* History: paused_from follows the mode except into Paused.
NoteMode(mode) ==
  /\ current_mode' = mode
  /\ paused_from' = IF mode = "Paused" THEN paused_from ELSE mode

\* Mutant of SwitchMode: leaving Paused does not disarm.
SwitchModeUnlessPaused(mode) ==
  /\ NoteMode(mode)
  /\ last_active_mode' = IF mode \in ActiveMode THEN mode ELSE last_active_mode
  /\ IF current_mode \notin {mode, "Paused"} /\ mode \in ActiveMode THEN ClearArm ELSE KeepArm
  /\ UNCHANGED <<warmup_status, strategy_loaded, new_entries_enabled>>

\* switch_mode: a change to an active mode disarms, a change to Paused does
\* not; Observation disarms even when it is the mode already.
SwitchMode(mode) ==
  /\ NoteMode(mode)
  /\ last_active_mode' = IF mode \in ActiveMode THEN mode ELSE last_active_mode
  /\ IF \/ mode = "Observation"
        \/ current_mode # mode /\ mode \in ActiveMode
     THEN ClearArm
     ELSE KeepArm
  /\ UNCHANGED <<warmup_status, strategy_loaded, new_entries_enabled>>

Pause ==
  /\ last_active_mode' = IF current_mode \in ActiveMode THEN current_mode
                                                        ELSE last_active_mode
  /\ NoteMode("Paused")
  /\ KeepArm
  /\ UNCHANGED <<warmup_status, strategy_loaded, new_entries_enabled>>

\* resume: back to the last active mode, without touching the arm state.
Resume ==
  /\ last_active_mode # NoMode
  /\ NoteMode(last_active_mode)
  /\ KeepArm
  /\ UNCHANGED <<last_active_mode, warmup_status, strategy_loaded,
                 new_entries_enabled>>

MarkStrategyLoaded ==
  /\ strategy_loaded' = TRUE
  /\ warmup_status' = "Loaded"
  /\ ClearArm
  /\ UNCHANGED <<current_mode, last_active_mode, new_entries_enabled, paused_from>>

UnloadStrategy ==
  /\ strategy_loaded' = FALSE
  /\ warmup_status' = "NotLoaded"
  /\ ClearArm
  /\ UNCHANGED <<current_mode, last_active_mode, new_entries_enabled, paused_from>>

\* Mutant of SetWarmup: a failed warmup leaves the runtime armed.
SetWarmupArmed(status) ==
  /\ strategy_loaded
  /\ warmup_status' = status
  /\ KeepArm
  /\ UNCHANGED <<current_mode, last_active_mode, strategy_loaded,
                 new_entries_enabled, paused_from>>

\* start_warmup, mark_warmup_ready, mark_warmup_failed and
\* sync_warmup_progress: only a failed warmup revokes the arm.
SetWarmup(status) ==
  /\ strategy_loaded
  /\ warmup_status' = status
  /\ IF status = "Failed" THEN ClearArm ELSE KeepArm
  /\ UNCHANGED <<current_mode, last_active_mode, strategy_loaded,
                 new_entries_enabled, paused_from>>

StartWarmup == SetWarmup("Warming")
MarkWarmupReady == SetWarmup("Ready")
MarkWarmupFailed == SetWarmup("Failed")
SyncWarmupProgress(status) == SetWarmup(status)

\* arm: every early return is a guard.
Arm(report, allow_override) ==
  /\ current_mode \in OrderMode
  /\ report.mode = current_mode
  /\ strategy_loaded
  /\ warmup_status = "Ready"
  /\ ~report.blocking
  /\ report.override_required => allow_override
  /\ arm_state' = "Armed"
  /\ hard_override_active' = (report.override_required /\ allow_override)
  /\ armed_mode' = report.mode
  /\ UNCHANGED <<current_mode, last_active_mode, warmup_status, strategy_loaded,
                 new_entries_enabled, paused_from>>

Disarm ==
  /\ ClearArm
  /\ UNCHANGED <<current_mode, last_active_mode, warmup_status, strategy_loaded,
                 new_entries_enabled, paused_from>>

SetNewEntriesEnabled(enabled) ==
  /\ new_entries_enabled' = enabled
  /\ KeepArm
  /\ UNCHANGED <<current_mode, last_active_mode, warmup_status, strategy_loaded,
                 paused_from>>

CanSubmitOrders ==
  /\ current_mode \in OrderMode
  /\ arm_state = "Armed"
  /\ strategy_loaded
  /\ warmup_status = "Ready"

KernelNext ==
  \/ \E mode \in RuntimeMode : SwitchMode(mode)
  \/ Pause
  \/ Resume
  \/ MarkStrategyLoaded
  \/ UnloadStrategy
  \/ StartWarmup
  \/ MarkWarmupReady
  \/ MarkWarmupFailed
  \/ \E status \in ProgressStatus : SyncWarmupProgress(status)
  \/ \E report \in Report, allow \in BOOLEAN : Arm(report, allow)
  \/ Disarm
  \/ \E enabled \in BOOLEAN : SetNewEntriesEnabled(enabled)

KernelSpec == KernelInit /\ [][KernelNext]_kernel_vars

-----------------------------------------------------------------------------
\* Every field of RuntimeStateMachine keeps to its Rust type.
KernelTypeOK ==
  /\ current_mode \in RuntimeMode
  /\ last_active_mode \in ActiveMode \cup {NoMode}
  /\ arm_state \in {"Armed", "Disarmed"}
  /\ warmup_status \in WarmupStatus
  /\ strategy_loaded \in BOOLEAN
  /\ hard_override_active \in BOOLEAN
  /\ new_entries_enabled \in BOOLEAN
  /\ armed_mode \in OrderMode \cup {NoMode}
  /\ paused_from \in ActiveMode \cup {NoMode}

\* pause, resume and switch_mode(Paused) leave the arm in place, so an armed
\* runtime can be paused, moved about and resumed.  Whatever the sequence, an
\* arm granted on a readiness report for one mode (account routing was checked
\* for that mode) never becomes authority to trade in the other.
ArmStaysInItsMode ==
  arm_state = "Armed" =>
    /\ strategy_loaded
    /\ armed_mode \in OrderMode
    /\ last_active_mode = armed_mode
    /\ current_mode \in {armed_mode, "Paused"}

\* last_active_mode, which resume() trusts, is the last mode that was not
\* Paused, by whichever of the three ways the runtime got into Paused.
ResumeTargetIsPausedMode == last_active_mode = paused_from

\* A hard override is temporary: it never outlives the arm it was given with.
OverrideNeedsArm == hard_override_active => arm_state = "Armed"

\* A failed warmup, and a strategy unloaded or loaded anew, leave nothing armed
\* behind that a later Ready could turn into permission to trade.
NoArmAcrossFailure ==
  arm_state = "Armed" => warmup_status \in {"Loaded", "Warming", "Ready"}

\* Pause, resume, mode changes, warmup steps and loads, in any order, leave an
\* armed runtime with what the arm was granted for: its mode is the granted one
\* or Paused, resume() leads back to it, its override is the arm's own, and no
\* failure lies between the grant and now.
ArmKeepsItsGrant ==
  /\ ArmStaysInItsMode
  /\ ResumeTargetIsPausedMode
  /\ OverrideNeedsArm
  /\ NoArmAcrossFailure
=============================================================================
