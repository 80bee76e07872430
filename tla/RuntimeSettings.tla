-------------------------- MODULE RuntimeSettings --------------------------
(***************************************************************************)
(* The settings a runtime starts with and the settings panel that changes  *)
(* them: crates/config, the route /settings of host.rs and the hook        *)
(* useDashboardSettingsWorkflow.                                           *)
(*                                                                         *)
(* A configuration is a file overlaid by the environment.  Saving clones   *)
(* the settings in memory under their lock, reads, truncates and writes    *)
(* the file without it, and takes the lock again to replace what is in     *)
(* memory; two saves may therefore overlap, one may read the file the      *)
(* other has truncated, and a kill may leave it so.                        *)
(*                                                                         *)
(* One field stands for each way a field is treated: startup_mode (edited, *)
(* required), account (edited, optional; the names of accounts, the        *)
(* strategy path and, but for its type, the fallback), bind (kept,         *)
(* defaulted; the rest of the file), and the two of the remote access that *)
(* are checked against each other.  Header names, which are defaulted and  *)
(* must not be blank, and malformed values are left out.                   *)
(***************************************************************************)
EXTENDS Naturals

CONSTANTS
  StartupChoices,    \* startup_mode
  Entries,           \* what may be typed for an account
  Trimmed,           \* each without blanks, Unset if nothing is left
  Binds, DefaultBind,
  Environments,      \* the overrides a runtime may run under
  ConfigFiles,       \* the files it may be started with, Unset for none
  Panels,            \* dashboards with a settings panel
  SettingsBudgets,   \* bound: how many events of each kind
  Unset

SettingsKinds == {"edit", "save", "kill", "file_fault"}
Fields == {"startup_mode", "account", "bind", "trust", "require"}
Edited == {"startup_mode", "account"}

Config == [startup_mode : StartupChoices \cup {Unset}, account : Entries \cup {Unset},
           bind : Binds \cup {Unset}, trust : BOOLEAN \cup {Unset}, require : BOOLEAN \cup {Unset}]

ASSUME SettingsAssumption ==
  /\ Trimmed \in [Entries -> Entries \cup {Unset}]
  /\ \A e \in Entries : Trimmed[e] # Unset => Trimmed[Trimmed[e]] = Trimmed[e]
  /\ DefaultBind \in Binds
  /\ Environments \subseteq Config /\ ConfigFiles \subseteq Config \cup {Unset}
  /\ SettingsBudgets \subseteq [SettingsKinds -> Nat]

\* What is edited, and a request to save it with what it has read.
Settings ==
  {next \in [Edited -> StartupChoices \cup Entries \cup {Unset}] :
     next["startup_mode"] \in StartupChoices /\ next["account"] \in Entries \cup {Unset}}
SaveStages == {"sent", "read", "cut", "written", "answered"}
Saves == [stage : SaveStages, next : Settings, read : Config \cup {Unset}]

ASSUME UnsetAssumption == Unset \notin StartupChoices /\ Unset \notin Config \cup Settings \cup Saves

VARIABLES
  environment,
  file,        \* Unset: started without one
  settings,    \* RuntimeSettingsState::editable, Unset while the runtime is down
  shown,       \* per panel, the settings of the dashboard's snapshot
  coming,      \* per panel, those a refresh is bringing
  draft, dirty,
  save,        \* per panel, its request and what becomes of it
  disturbed,   \* history: two saves overlapped, or one was cut short in its writing
  original,    \* history: the configuration of the first start
  settings_left

panel_state == <<shown, coming, draft, dirty, save>>
settings_vars == <<environment, file, settings, panel_state, disturbed, original, settings_left>>

Empty == [f \in Fields |-> Unset]
Failure == [f \in {} |-> Unset]

SettingsEvent(kind) ==
  /\ settings_left[kind] > 0
  /\ settings_left' = [settings_left EXCEPT ![kind] = @ - 1]

-----------------------------------------------------------------------------
\* apply_env_overrides
Overridden(config) ==
  [f \in Fields |-> IF environment[f] # Unset THEN environment[f] ELSE config[f]]

Or(value, default) == IF value = Unset THEN default ELSE value

\* PartialAppConfig::build
Built(config) ==
  LET trust == Or(config.trust, FALSE)
      require == Or(config.require, FALSE)
  IN IF config.startup_mode = Unset \/ (require /\ ~trust) THEN Failure
     ELSE [config EXCEPT !.bind = Or(@, DefaultBind), !.trust = trust, !.require = require]

\* AppConfig::load
Loaded == Built(Overridden(IF file = Unset THEN Empty ELSE file))

\* RuntimeSettingsState::from_config, RuntimeSettingsState::file_update
Editable(config) == [f \in Edited |-> config[f]]

\* normalize_runtime_settings, and runtimeSettingsRequestFromDraft before it
Normalized(request) ==
  [request EXCEPT !.account = IF @ = Unset THEN Unset ELSE Trimmed[@]]

\* Mutant of Persisted: a setting that is cleared is left as it is in the file.
PersistedIfSet(config, update) ==
  [f \in Fields |-> IF f \in Edited /\ update[f] # Unset THEN update[f] ELSE config[f]]

\* persist_runtime_settings_update: ensure_table, set_optional_string, set_optional_path
Persisted(config, update) == [f \in Fields |-> IF f \in Edited THEN update[f] ELSE config[f]]

\* settingsDraftFromSnapshot
DraftOf(snapshot) == snapshot

-----------------------------------------------------------------------------
SettingsInit ==
  /\ environment \in Environments
  /\ file \in ConfigFiles
  /\ Loaded # Failure
  /\ settings = Editable(Loaded)
  /\ shown = [d \in Panels |-> Unset]
  /\ coming = [d \in Panels |-> Unset]
  /\ draft = [d \in Panels |-> Unset]
  /\ dirty = [d \in Panels |-> FALSE]
  /\ save = [d \in Panels |-> Unset]
  /\ disturbed = FALSE
  /\ original = Loaded
  /\ settings_left \in SettingsBudgets

Saving(d) == save[d] # Unset
Serving(d) == Saving(d) /\ save[d].stage \in {"sent", "read", "cut", "written"}

\* The effect of snapshot and settingsDirty.
\* Mutant of FollowSnapshot: a draft that is there is kept.
FollowFirstSnapshot(d, unsaved, snapshot) ==
  draft' = [draft EXCEPT ![d] = IF unsaved \/ @ # Unset THEN @ ELSE DraftOf(snapshot)]

FollowSnapshot(d, unsaved, snapshot) ==
  draft' = [draft EXCEPT ![d] = IF unsaved THEN @ ELSE DraftOf(snapshot)]

\* settings_handler answers a refresh of the dashboard, which may be overtaken.
GetSettings(d) ==
  /\ settings # Unset /\ coming[d] = Unset
  /\ coming' = [coming EXCEPT ![d] = settings]
  /\ UNCHANGED <<environment, file, settings, shown, draft, dirty, save, disturbed, original,
                 settings_left>>

ShowSettings(d) ==
  /\ coming[d] # Unset
  /\ coming' = [coming EXCEPT ![d] = Unset]
  /\ shown' = [shown EXCEPT ![d] = coming[d]]
  /\ FollowSnapshot(d, dirty[d], coming[d])
  /\ UNCHANGED <<environment, file, settings, dirty, save, disturbed, original, settings_left>>

\* updateSettingsDraft; the fields are closed while an action is pending.
EditSetting(d, f, value) ==
  /\ SettingsEvent("edit")
  /\ shown[d] # Unset /\ draft[d] # Unset /\ ~Saving(d)
  /\ draft' = [draft EXCEPT ![d][f] = value]
  /\ dirty' = [dirty EXCEPT ![d] = TRUE]
  /\ UNCHANGED <<environment, file, settings, shown, coming, save, disturbed, original>>

\* resetSettings
ResetSettings(d) ==
  /\ dirty[d] /\ ~Saving(d)
  /\ draft' = [draft EXCEPT ![d] = DraftOf(shown[d])]
  /\ dirty' = [dirty EXCEPT ![d] = FALSE]
  /\ UNCHANGED <<environment, file, settings, shown, coming, save, disturbed, original, settings_left>>

\* saveRuntimeSettings: the whole draft is sent.
SaveSettings(d) ==
  /\ SettingsEvent("save")
  /\ dirty[d] /\ ~Saving(d) /\ settings # Unset
  /\ save' = [save EXCEPT ![d] = [stage |-> "sent", next |-> Normalized(draft[d]), read |-> Unset]]
  /\ disturbed' = (disturbed \/ \E e \in Panels : Serving(e))
  /\ UNCHANGED <<environment, file, settings, shown, coming, draft, dirty, original>>

-----------------------------------------------------------------------------
\* update_settings_handler, up to the reading of the file.
ReadFile(d) ==
  /\ Saving(d) /\ save[d].stage = "sent"
  /\ save' = [save EXCEPT ![d].stage = IF file = Unset THEN "written" ELSE "read", ![d].read = file]
  /\ UNCHANGED <<environment, file, settings, shown, coming, draft, dirty, disturbed, original,
                 settings_left>>

\* fs::write truncates, then writes.
TruncateFile(d) ==
  /\ Saving(d) /\ save[d].stage = "read"
  /\ file' = Empty
  /\ save' = [save EXCEPT ![d].stage = "cut"]
  /\ UNCHANGED <<environment, settings, shown, coming, draft, dirty, disturbed, original,
                 settings_left>>

WriteFile(d) ==
  /\ Saving(d) /\ save[d].stage = "cut"
  /\ file' = Persisted(save[d].read, save[d].next)
  /\ save' = [save EXCEPT ![d].stage = "written"]
  /\ UNCHANGED <<environment, settings, shown, coming, draft, dirty, disturbed, original,
                 settings_left>>

\* The memory follows the file, and the answer shows what was saved.
ApplySettings(d) ==
  /\ Saving(d) /\ save[d].stage = "written"
  /\ settings' = save[d].next
  /\ save' = [save EXCEPT ![d].stage = "answered"]
  /\ UNCHANGED <<environment, file, shown, coming, draft, dirty, disturbed, original, settings_left>>

\* The file cannot be read or written: nothing else happens.
PersistFails(d) ==
  /\ Saving(d) /\ save[d].stage \in {"sent", "cut"}
  /\ SettingsEvent("file_fault")
  /\ file # Unset
  /\ save' = [save EXCEPT ![d] = Unset]
  /\ disturbed' = (disturbed \/ save[d].stage = "cut")
  /\ UNCHANGED <<environment, file, settings, shown, coming, draft, dirty, original>>

\* The snapshot is reloaded, or the answer is merged into the one there is; the
\* draft is then what was saved, until the effect follows a snapshot again.
SaveAnswered(d) ==
  /\ Saving(d) /\ save[d].stage = "answered"
  /\ \/ settings # Unset /\ shown' = [shown EXCEPT ![d] = settings]
     \/ shown' = [shown EXCEPT ![d] = save[d].next]
  /\ dirty' = [dirty EXCEPT ![d] = FALSE]
  /\ FollowSnapshot(d, FALSE, shown'[d])
  /\ save' = [save EXCEPT ![d] = Unset]
  /\ UNCHANGED <<environment, file, settings, coming, disturbed, original, settings_left>>

\* The process is killed; the requests under way are lost.
Kill ==
  /\ settings # Unset
  /\ SettingsEvent("kill")
  /\ settings' = Unset
  /\ save' = [d \in Panels |-> IF Serving(d) THEN Unset ELSE save[d]]
  /\ disturbed' = (disturbed \/ \E d \in Panels : Saving(d) /\ save[d].stage = "cut")
  /\ UNCHANGED <<environment, file, shown, coming, draft, dirty, original>>

StartAgain ==
  /\ settings = Unset
  /\ Loaded # Failure
  /\ settings' = Editable(Loaded)
  /\ UNCHANGED <<environment, file, panel_state, disturbed, original, settings_left>>

-----------------------------------------------------------------------------
SettingsAnswers ==
  \E d \in Panels :
    ReadFile(d) \/ TruncateFile(d) \/ WriteFile(d) \/ ApplySettings(d) \/ SaveAnswered(d)

Values(f) == IF f = "startup_mode" THEN StartupChoices ELSE Entries \cup {Unset}

SettingsNext ==
  \/ SettingsAnswers
  \/ \E d \in Panels :
       \/ GetSettings(d) \/ ShowSettings(d) \/ ResetSettings(d) \/ SaveSettings(d) \/ PersistFails(d)
       \/ \E f \in Edited : \E value \in Values(f) : EditSetting(d, f, value)
  \/ Kill \/ StartAgain

\* Requests are answered, a dashboard refreshes again and again, and a runtime that
\* was killed is started again.
SettingsFairness ==
  /\ WF_settings_vars(SettingsAnswers)
  /\ \A d \in Panels : WF_settings_vars(GetSettings(d) \/ ShowSettings(d))
  /\ WF_settings_vars(StartAgain)

SettingsSpec == SettingsInit /\ [][SettingsNext]_settings_vars /\ SettingsFairness

-----------------------------------------------------------------------------
\* A runtime that is killed at any time starts again, with what saving does not
\* edit as it was and, unless it was killed during a save, with the settings it had:
\* those saved or cleared last, except where the environment overrides them.
\* Provided that saves followed one another and none was cut short in its writing:
\* update_settings_handler lets two overlap, and persist_runtime_settings_update
\* writes in place.
SavedSettingsSurviveRestart ==
  (~disturbed /\ \A d \in Panels : ~Serving(d)) =>
    /\ Loaded # Failure
    /\ \A f \in Fields \ Edited : Loaded[f] = original[f]
    /\ file # Unset /\ settings # Unset =>
         \A f \in Edited : environment[f] = Unset => Loaded[f] = settings[f]

\* A panel shows the settings the runtime has, whoever saved them and however
\* answers, refreshes and restarts fall, unless its operator has an edit unsaved
\* or the runtime is down (the effect of snapshot and settingsDirty).
DraftsSettle ==
  <>[](\A d \in Panels : settings = Unset \/ dirty[d] \/ draft[d] = DraftOf(settings))
=============================================================================
