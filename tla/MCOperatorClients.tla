------------------------ MODULE MCOperatorClients ------------------------
(***************************************************************************)
(* The operators' clients: the console and the dashboard's host state      *)
(* (OperatorClients) and the dashboard's other hooks, which share no state *)
(* with them but the runtime: its chart, its strategy library and its      *)
(* settings panel.  A behaviour is about one of the four; the others rest. *)
(*                                                                         *)
(* The console has two keys and a fault while the runtime moves or another *)
(* operator does; its chart is over contracts of two timeframes, of one,   *)
(* and none; the dashboard has a fault, or two refreshes that overlap      *)
(* besides its command's.                                                  *)
(***************************************************************************)
EXTENDS OperatorClients, DashboardChart, StrategyLibrary, RuntimeSettings

CONSTANTS TwoFrames, FiveMinutes, Unresolved

MCContracts == {{"1m", "5m"}, {"5m"}, {}}
MCDefaultTimeframe ==
  [c \in MCContracts |-> IF "1m" \in c THEN "1m" ELSE IF c = {} THEN None ELSE "5m"]

Left(key, click, frame, move, fault) ==
  [key |-> key, click |-> click, frame |-> frame, move |-> move, fault |-> fault]
Console(contracts, left) ==
  [open |-> {"console"}, contracts |-> contracts, reads |-> 0, left |-> left]
Dashboard(overlap, left) ==
  [open |-> {"dashboard"}, contracts |-> {{}}, reads |-> overlap, left |-> left]
Nobody == [open |-> {}, contracts |-> {{}}, reads |-> 0, left |-> Left(0, 0, 0, 0, 0)]

MCScenarios ==
  { Console({{}}, Left(2, 0, 0, 1, 1)), Console(MCContracts, Left(0, 0, 2, 1, 1)),
    Console(MCContracts, Left(1, 0, 1, 1, 1)),
    Dashboard(1, Left(0, 1, 0, 1, 1)), Dashboard(2, Left(0, 1, 0, 0, 0)), Nobody }

\* The chart: two contracts, of two timeframes and of one, and a strategy whose
\* contract is not resolved.
MCSupported ==
  [c \in {TwoFrames, FiveMinutes, Unresolved} |-> IF c = TwoFrames THEN {"1m", "5m"} ELSE {"5m"}]
MCPreferred ==
  [c \in {TwoFrames, FiveMinutes, Unresolved} |-> IF c = TwoFrames THEN "1m" ELSE "5m"]
ChartLeft(move, choice, older, sync, chart_fault) ==
  [move |-> move, choice |-> choice, older |-> older, sync |-> sync, chart_fault |-> chart_fault]
MCChartBudgets ==
  {ChartLeft(1, 1, 1, 1, 0), ChartLeft(1, 2, 0, 0, 1), ChartLeft(2, 1, 0, 0, 0)}

\* The library: one text that compiles and one that does not.
LibraryLeft(upload, pick, press, disk_fault) ==
  [upload |-> upload, pick |-> pick, press |-> press, disk_fault |-> disk_fault]
MCLibraryBudgets ==
  {LibraryLeft(2, 0, 0, 1), LibraryLeft(1, 1, 1, 0), LibraryLeft(1, 1, 2, 0), LibraryLeft(1, 0, 1, 1)}

\* The settings: with a file that says everything asked for and one that leaves it
\* to the environment, or without a file.
MCTrimmed == [e \in {"main", "blank"} |-> IF e = "main" THEN "main" ELSE Unset]
ConfigOf(mode, account, bind, trust, require) ==
  [startup_mode |-> mode, account |-> account, bind |-> bind, trust |-> trust, require |-> require]
MCConfigFiles ==
  {Unset, ConfigOf("paper", "main", Unset, Unset, Unset), ConfigOf("live", Unset, "other", Unset, TRUE)}
MCEnvironments == {Empty, [Empty EXCEPT !.startup_mode = "paper", !.trust = TRUE]}
SettingsLeft(edit, saves, kill, file_fault) ==
  [edit |-> edit, save |-> saves, kill |-> kill, file_fault |-> file_fault]
MCSettingsBudgets == {SettingsLeft(2, 2, 0, 0), SettingsLeft(1, 1, 1, 1)}

-----------------------------------------------------------------------------
ClientsRest == Init /\ scenario = Nobody
ChartRests ==
  /\ loaded = Unresolved /\ scope = loaded
  /\ config = Absent /\ timeframe_chosen = Absent /\ canvas = EmptyCanvas
  /\ error = FALSE /\ paging = FALSE /\ strayed = FALSE
  /\ refresh = [r \in Refreshers |-> Absent] /\ load = Absent /\ chart_stream = Absent
  /\ pages = [p \in Pages |-> Absent]
  /\ chart_left = [k \in ChartKinds |-> 0]
LibraryRests ==
  /\ files = NoFiles /\ uploads = [u \in Uploaders |-> Nowhere]
  /\ clashed = {} /\ kept = {}
  /\ library = NoFiles /\ chosen = Nowhere /\ validation = Nowhere
  /\ library_loading = FALSE /\ validation_loading = FALSE
  /\ readings = NothingAsked /\ checks = [c \in Checkers |-> Nowhere] /\ loading = Nowhere
  /\ misplaced = FALSE
  /\ library_left = [k \in LibraryKinds |-> 0]
SettingsRest ==
  /\ environment = Empty /\ file = Unset /\ settings = Unset
  /\ shown = [d \in Panels |-> Unset] /\ coming = [d \in Panels |-> Unset]
  /\ draft = [d \in Panels |-> Unset] /\ dirty = [d \in Panels |-> FALSE]
  /\ save = [d \in Panels |-> Unset]
  /\ disturbed = TRUE
  /\ original = Failure
  /\ settings_left = [k \in SettingsKinds |-> 0]

MCInit ==
  \/ Init /\ scenario # Nobody /\ ChartRests /\ LibraryRests /\ SettingsRest
  \/ ClientsRest /\ ChartInit /\ LibraryRests /\ SettingsRest
  \/ ClientsRest /\ ChartRests /\ LibraryInit /\ SettingsRest
  \/ ClientsRest /\ ChartRests /\ LibraryRests /\ SettingsInit

MCNext ==
  \/ Next /\ UNCHANGED <<canvas_vars, library_vars, settings_vars>>
  \/ ChartNext /\ UNCHANGED <<vars, library_vars, settings_vars>>
  \/ LibraryNext /\ UNCHANGED <<vars, canvas_vars, settings_vars>>
  \/ SettingsNext /\ UNCHANGED <<vars, canvas_vars, library_vars>>

MCSpec ==
  /\ MCInit /\ [][MCNext]_<<vars, canvas_vars, library_vars, settings_vars>>
  /\ Fairness /\ ChartFairness /\ LibraryFairness /\ SettingsFairness
=============================================================================
