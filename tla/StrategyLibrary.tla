-------------------------- MODULE StrategyLibrary --------------------------
(***************************************************************************)
(* The strategy files of the runtime host and the dashboard's panel for    *)
(* them: the routes /strategies, /strategies/upload and                    *)
(* /strategies/validate of host.rs over the hook                           *)
(* useDashboardStrategyWorkflow.                                           *)
(*                                                                         *)
(* The routes run as blocking tasks side by side, and nothing guards the   *)
(* directory: an upload looks for a free name, then writes.  The panel's   *)
(* requests overlap as well.  One of them, the check of the choice, is     *)
(* aborted when the choice changes; the check of the button, the one after *)
(* a load and every reading of the library are not.                        *)
(*                                                                         *)
(* All uploads have one file name: path 0 is that name and path n is the   *)
(* name with the suffix n.  A file is what it says, and what it says       *)
(* compiles or does not.  Left out: what else a validation says, the       *)
(* confinement of names, directories, and roles.                           *)
(***************************************************************************)
EXTENDS Naturals, FiniteSets

CONSTANTS
  Texts,            \* what may be uploaded
  Compiling,        \* those that compile
  Suffixes,         \* bound: the largest suffix
  Readings,         \* bound: readings of the library under way
  LibraryBudgets,   \* bound: how many events of each kind
  Nowhere

LibraryKinds == {"upload", "pick", "press", "disk_fault"}

ASSUME TextsAssumption == Compiling \subseteq Texts /\ Nowhere \notin Texts \cup Nat
ASSUME LibraryBudgetsAssumption ==
  Suffixes \in Nat /\ LibraryBudgets \subseteq [LibraryKinds -> Nat]

VARIABLES
  files,       \* the directory: what is at each path
  uploads,     \* per client, its upload
  clashed,     \* history: paths given to two uploads at once
  kept,        \* history: what uploads were answered to have stored, and where
  \* StrategySummaryViewModel
  library, chosen, validation,
  library_loading, validation_loading,
  readings,    \* its readings of the library
  checks,      \* its validations under way
  loading,     \* the path of its load command
  misplaced,   \* history: the validation shown is one that a change of choice overtook
  library_left

panel_vars == <<library, chosen, validation, library_loading, validation_loading>>
library_vars == <<files, uploads, clashed, kept, panel_vars, readings, checks, loading, misplaced,
                  library_left>>

Paths == 0..Suffixes
Uploaders == {"dashboard", "other"}
Checkers == {"choice", "button", "after_load"}
Cut == "cut"   \* a file whose writing failed half-way
Library == [Paths -> {Nowhere, "valid", "invalid"}]

LibraryEvent(kind) ==
  /\ library_left[kind] > 0
  /\ library_left' = [library_left EXCEPT ![kind] = @ - 1]

NoFiles == [p \in Paths |-> Nowhere]
NothingAsked == [r \in Readings |-> Nowhere]

\* The panel opens and reads the library.
LibraryInit ==
  /\ files \in {[p \in Paths |-> IF p = 0 THEN text ELSE Nowhere] : text \in Texts \cup {Nowhere}}
  /\ uploads = [u \in Uploaders |-> Nowhere]
  /\ clashed = {} /\ kept = {}
  /\ library = NoFiles /\ chosen = Nowhere /\ validation = Nowhere
  /\ library_loading = TRUE /\ validation_loading = FALSE
  /\ \E r \in Readings : readings = [NothingAsked EXCEPT ![r] = [stage |-> "asked"]]
  /\ checks = [c \in Checkers |-> Nowhere]
  /\ loading = Nowhere
  /\ misplaced = FALSE
  /\ library_left \in LibraryBudgets

-----------------------------------------------------------------------------
\* compile_markdown, as far as its verdict goes.
Valid(text) == IF text \in Compiling THEN "valid" ELSE "invalid"

\* validate_strategy_markdown
Validated(path, text) == [path |-> path, valid |-> Valid(text)]

Free == {p \in Paths : files[p] = Nowhere}

\* Mutant of AllocatedPath: the name alone.
NamedPath == 0

\* allocate_strategy_upload_path
AllocatedPath == CHOOSE p \in Free : \A q \in Free : p <= q

\* scan_strategy_library
Scanned == [p \in Paths |-> IF files[p] = Nowhere THEN Nowhere ELSE Valid(files[p])]

\* strategy_paths.sort(): a suffix begins with a smaller character than the extension.
Sorted(p, q) == p = q \/ q = 0 \/ (p # 0 /\ p < q)
FirstPath(paths) == CHOOSE p \in paths : \A q \in paths : Sorted(p, q)

\* selectStrategyPath
SelectedPath(listed) ==
  LET there == {p \in Paths : listed[p] # Nowhere}
      valid == {p \in there : listed[p] = "valid"}
  IN IF chosen \in there THEN chosen
     ELSE IF valid # {} THEN FirstPath(valid)
     ELSE IF there # {} THEN FirstPath(there) ELSE Nowhere

-----------------------------------------------------------------------------
\* The effect of selectedPath: a new choice is checked, the check of the old one
\* is aborted.
Choose(path) ==
  /\ chosen' = path
  /\ IF path = chosen THEN UNCHANGED <<checks, validation_loading>>
     ELSE /\ checks' = [checks EXCEPT !["choice"] = path]
          /\ validation_loading' = (path # Nowhere \/ validation_loading)

\* refreshStrategyLibrary
ReadLibrary(r) ==
  /\ readings[r] = Nowhere
  /\ readings' = [readings EXCEPT ![r] = [stage |-> "asked"]]
  /\ library_loading' = TRUE

PressRefresh(r) ==
  /\ LibraryEvent("press")
  /\ ~library_loading
  /\ ReadLibrary(r)
  /\ UNCHANGED <<files, uploads, clashed, kept, library, chosen, validation, validation_loading,
                 checks, loading, misplaced>>

ServeReading(r) ==
  /\ readings[r] # Nowhere /\ readings[r].stage = "asked"
  /\ readings' = [readings EXCEPT ![r] = [stage |-> "served", listed |-> Scanned]]
  /\ UNCHANGED <<files, uploads, clashed, kept, panel_vars, checks, loading, misplaced, library_left>>

\* The upload that waits for a reading then chooses its own file, whether or not
\* the reading succeeded.
UploadWaits(r) ==
  LET mine == uploads["dashboard"]
  IN mine # Nowhere /\ mine.stage = "reading" /\ mine.reading = r

ChooseUpload ==
  LET mine == uploads["dashboard"]
  IN /\ Choose(mine.path)
     /\ validation' = Validated(mine.path, mine.text)
     /\ misplaced' = FALSE
     /\ uploads' = [uploads EXCEPT !["dashboard"] = Nowhere]

\* A reading arrives, whether or not a later one has.
ReadingArrives(r) ==
  /\ readings[r] # Nowhere /\ readings[r].stage = "served"
  /\ readings' = [readings EXCEPT ![r] = Nowhere]
  /\ library' = readings[r].listed
  /\ library_loading' = FALSE
  /\ IF UploadWaits(r) THEN ChooseUpload
     ELSE /\ Choose(SelectedPath(readings[r].listed))
          /\ UNCHANGED <<validation, misplaced, uploads>>
  /\ UNCHANGED <<files, clashed, kept, loading, library_left>>

ReadingFails(r) ==
  /\ readings[r] # Nowhere
  /\ LibraryEvent("disk_fault")
  /\ readings' = [readings EXCEPT ![r] = Nowhere]
  /\ library_loading' = FALSE
  /\ IF UploadWaits(r) THEN ChooseUpload
     ELSE UNCHANGED <<chosen, checks, validation_loading, validation, misplaced, uploads>>
  /\ UNCHANGED <<files, clashed, kept, library, loading>>

-----------------------------------------------------------------------------
\* handleStrategyPathChange
PickPath(path) ==
  /\ LibraryEvent("pick")
  /\ ~library_loading
  /\ library[path] # Nowhere /\ path # chosen
  /\ Choose(path)
  /\ UNCHANGED <<files, uploads, clashed, kept, library, validation, library_loading, readings,
                 loading, misplaced>>

\* refreshStrategyValidation, from the button.
PressValidate ==
  /\ LibraryEvent("press")
  /\ chosen # Nowhere /\ ~validation_loading /\ checks["button"] = Nowhere
  /\ checks' = [checks EXCEPT !["button"] = chosen]
  /\ validation_loading' = TRUE
  /\ UNCHANGED <<files, uploads, clashed, kept, library, chosen, validation, library_loading,
                 readings, loading, misplaced>>

\* Mutant of ShowValidation: what is shown is not replaced.
KeepValidation(path) ==
  /\ validation' = IF validation = Nowhere THEN Validated(path, files[path]) ELSE validation
  /\ misplaced' = (path # chosen)

ShowValidation(path) ==
  /\ validation' = Validated(path, files[path])
  /\ misplaced' = (path # chosen)

CheckArrives(c) ==
  /\ checks[c] # Nowhere
  /\ checks' = [checks EXCEPT ![c] = Nowhere]
  /\ validation_loading' = FALSE
  /\ IF files[checks[c]] # Nowhere THEN ShowValidation(checks[c])
     ELSE validation' = Nowhere /\ misplaced' = FALSE
  /\ UNCHANGED <<files, uploads, clashed, kept, library, chosen, library_loading, readings, loading,
                 library_left>>

CheckFails(c) ==
  /\ checks[c] # Nowhere
  /\ LibraryEvent("disk_fault")
  /\ checks' = [checks EXCEPT ![c] = Nowhere]
  /\ validation_loading' = FALSE
  /\ validation' = Nowhere /\ misplaced' = FALSE
  /\ UNCHANGED <<files, uploads, clashed, kept, library, chosen, library_loading, readings, loading>>

\* handleLoadSelectedStrategy: the button asks for a valid validation, of whatever.
PressLoad ==
  /\ LibraryEvent("press")
  /\ loading = Nowhere /\ uploads["dashboard"] = Nowhere
  /\ chosen # Nowhere /\ validation # Nowhere /\ validation.valid = "valid"
  /\ loading' = chosen
  /\ UNCHANGED <<files, uploads, clashed, kept, panel_vars, readings, checks, misplaced>>

\* A load that succeeds checks the path it was pressed for once more.
LoadAnswered ==
  /\ loading # Nowhere
  /\ loading' = Nowhere
  /\ \/ UNCHANGED <<checks, validation_loading>>
     \/ /\ files[loading] \in Compiling
        /\ checks' = [checks EXCEPT !["after_load"] = loading]
        /\ validation_loading' = TRUE
  /\ UNCHANGED <<files, uploads, clashed, kept, library, chosen, validation, library_loading,
                 readings, misplaced, library_left>>

-----------------------------------------------------------------------------
\* uploadSelectedStrategyFile, or another client's request.
StartUpload(u, text) ==
  /\ LibraryEvent("upload")
  /\ uploads[u] = Nowhere
  /\ u = "dashboard" => loading = Nowhere
  /\ uploads' = [uploads EXCEPT ![u] = [stage |-> "sent", text |-> text]]
  /\ UNCHANGED <<files, clashed, kept, panel_vars, readings, checks, loading, misplaced>>

\* store_uploaded_strategy: the name, then the file.
AllocatePath(u) ==
  /\ uploads[u] # Nowhere /\ uploads[u].stage = "sent"
  /\ Free # {}
  /\ uploads' = [uploads EXCEPT ![u] = [stage |-> "named", text |-> uploads[u].text,
                                        path |-> AllocatedPath]]
  /\ clashed' = clashed \cup {AllocatedPath : v \in {w \in Uploaders \ {u} :
                     /\ uploads[w] # Nowhere /\ uploads[w].stage = "named"
                     /\ uploads[w].path = AllocatedPath}}
  /\ UNCHANGED <<files, kept, panel_vars, readings, checks, loading, misplaced, library_left>>

StoreUpload(u) ==
  /\ uploads[u] # Nowhere /\ uploads[u].stage = "named"
  /\ files' = [files EXCEPT ![uploads[u].path] = uploads[u].text]
  /\ kept' = kept \cup {<<uploads[u].path, uploads[u].text>>}
  /\ uploads' = [uploads EXCEPT ![u] = IF u = "other" THEN Nowhere ELSE [@ EXCEPT !.stage = "stored"]]
  /\ UNCHANGED <<clashed, panel_vars, readings, checks, loading, misplaced, library_left>>

StoreFails(u) ==
  /\ uploads[u] # Nowhere /\ uploads[u].stage = "named"
  /\ LibraryEvent("disk_fault")
  /\ files' \in {files, [files EXCEPT ![uploads[u].path] = Cut]}
  /\ uploads' = [uploads EXCEPT ![u] = Nowhere]
  /\ UNCHANGED <<clashed, kept, panel_vars, readings, checks, loading, misplaced>>

\* The answer: the library is read again before the upload is chosen.
UploadAnswered(r) ==
  LET mine == uploads["dashboard"]
  IN /\ mine # Nowhere /\ mine.stage = "stored"
     /\ uploads' = [uploads EXCEPT !["dashboard"] = [stage |-> "reading", text |-> mine.text,
                                                     path |-> mine.path, reading |-> r]]
     /\ ReadLibrary(r)
     /\ UNCHANGED <<files, clashed, kept, library, chosen, validation, validation_loading, checks,
                    loading, misplaced, library_left>>

-----------------------------------------------------------------------------
LibraryAnswers ==
  \/ \E r \in Readings : ServeReading(r) \/ ReadingArrives(r) \/ UploadAnswered(r)
  \/ \E c \in Checkers : CheckArrives(c)
  \/ LoadAnswered
  \/ \E u \in Uploaders : AllocatePath(u) \/ StoreUpload(u)

LibraryNext ==
  \/ LibraryAnswers
  \/ \E r \in Readings : PressRefresh(r) \/ ReadingFails(r)
  \/ \E path \in Paths : PickPath(path)
  \/ PressValidate \/ PressLoad
  \/ \E c \in Checkers : CheckFails(c)
  \/ \E u \in Uploaders : StoreFails(u) \/ \E text \in Texts : StartUpload(u, text)

\* Requests are answered.
LibraryFairness == WF_library_vars(LibraryAnswers)

LibrarySpec == LibraryInit /\ [][LibraryNext]_library_vars /\ LibraryFairness

-----------------------------------------------------------------------------
\* What a client was told it has stored is there, whoever uploads under the same
\* name and whatever fails, as long as no two uploads were given one path: the
\* name is looked for by one call and taken by another (store_uploaded_strategy).
UploadsAreKept ==
  \A stored \in kept : stored[1] \notin clashed => files[stored[1]] = stored[2]

\* In whatever order validations, readings and uploads end, the panel comes to
\* show the validation of the strategy that is chosen, the one the Load button
\* relies on; unless one that is never aborted came after the choice had changed.
ValidationIsOfChoice ==
  <>[](misplaced \/ chosen = Nowhere \/ validation = Nowhere \/ validation.path = chosen)
=============================================================================
