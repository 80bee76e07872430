--------------------------- MODULE DashboardChart ---------------------------
(***************************************************************************)
(* The chart of the dashboard: the hook useDashboardChart of               *)
(* apps/dashboard over the chart routes of the runtime host.               *)
(*                                                                         *)
(* The hook keeps one view.  It is changed by answers of four kinds of     *)
(* request: a refresh (configuration, then snapshot), the load of the      *)
(* chosen timeframe, a page of older bars and the messages of a stream.    *)
(* Effects restart the load, the stream and one refresh when what they     *)
(* depend on has changed; they are part of the step that changes it        *)
(* (Render).  A restart aborts what it replaces, so that an answer to it   *)
(* is as good as one given when it arrives.  Pages and the refresh of the  *)
(* Sync button are never aborted.                                          *)
(*                                                                         *)
(* A bar is the contract and timeframe it is of.  Merging may overwrite    *)
(* bars with the same closing time, which is left out: the bars of two     *)
(* series then count as both.  Left out too: orders, fills and prices,     *)
(* whether there is older history, and the widths that choose a limit.     *)
(***************************************************************************)
EXTENDS Integers, FiniteSets

CONSTANTS
  ChartContracts,       \* what may be loaded: strategy, contract and mode (snapshotScopeKey)
  Resolved,        \* those whose contract is known
  ChartTimeframes,
  Supported,       \* supported_chart_timeframes of each
  Preferred,       \* default_chart_timeframe of each
  Pages,           \* bound: requests for older bars under way
  ChartBudgets,    \* bound: how many events of each kind
  Absent

ChartKinds == {"move", "choice", "older", "sync", "chart_fault"}

ASSUME ChartsAssumption ==
  /\ Resolved \subseteq ChartContracts /\ Absent \notin ChartContracts \cup ChartTimeframes
  /\ \A c \in ChartContracts : Supported[c] \subseteq ChartTimeframes
  /\ \A c \in ChartContracts : Preferred[c] \in Supported[c] \cup {Absent}
  /\ \A c \in Resolved : Preferred[c] # Absent
ASSUME ChartBudgetsAssumption == ChartBudgets \subseteq [ChartKinds -> Nat]

VARIABLES
  loaded,     \* what the runtime has loaded
  scope,      \* what the dashboard's status snapshot shows of it, Absent before the first
  \* ChartViewModel
  config,     \* whose configuration is shown
  timeframe_chosen, canvas,
  error,      \* an error is shown
  paging,     \* historyState is "loading"
  \* requests
  refresh, load, pages, chart_stream,
  \* history
  strayed,    \* since canvas was last replaced, bars of another series came by a page or
              \* the replacement failed
  chart_left

view_vars == <<config, timeframe_chosen, canvas, error, paging, strayed>>
request_vars == <<refresh, load, pages, chart_stream>>
canvas_vars == <<loaded, scope, view_vars, request_vars, chart_left>>

Refreshers == {"effect", "button"}
EmptyCanvas == [of |-> Absent, bars |-> {}]

ChartEvent(kind) ==
  /\ chart_left[kind] > 0
  /\ chart_left' = [chart_left EXCEPT ![kind] = @ - 1]

ChartInit ==
  /\ loaded \in ChartContracts
  /\ scope = Absent
  /\ config = Absent /\ timeframe_chosen = Absent /\ canvas = EmptyCanvas
  /\ error = FALSE /\ paging = FALSE
  /\ refresh = [r \in Refreshers |->
                IF r = "effect" THEN [stage |-> "config", choice |-> Absent] ELSE Absent]
  /\ load = Absent /\ chart_stream = Absent
  /\ pages = [p \in Pages |-> Absent]
  /\ strayed = FALSE
  /\ chart_left \in ChartBudgets

-----------------------------------------------------------------------------
\* config?.available
Available(c) == c \in Resolved

\* resolvedInitialTimeframe
InitialTimeframe(current, c) == IF current \in Supported[c] THEN current ELSE Preferred[c]

\* resolved_chart_timeframe: the runtime refuses what the loaded contract lacks.
Serves(timeframe) == Available(loaded) => timeframe \in Supported[loaded]

\* chart_bars: without a resolved contract there are none.
Bars(contract, timeframe) == IF Available(contract) THEN {<<contract, timeframe>>} ELSE {}

Fresh(timeframe) == [of |-> <<loaded, timeframe>>, bars |-> Bars(loaded, timeframe)]

\* mergeChartBars
MergedBars(bars, more) == bars \cup more

\* Mutant of Render: the stream's effect does not depend on the choice.
RenderKeepsStream(load_otherwise, stream_otherwise) ==
  LET rerun == timeframe_chosen' # timeframe_chosen \/ scope' # scope
      wanted == IF Available(config') THEN timeframe_chosen' ELSE Absent
  IN /\ load' = IF rerun THEN wanted ELSE load_otherwise
     /\ chart_stream' = IF Available(config') = Available(config) THEN stream_otherwise
                       ELSE IF wanted = Absent THEN Absent
                       ELSE [timeframe |-> wanted, stage |-> "connecting"]

\* The effects after a render.  The load runs anew when the choice or the scope
\* changed; the stream also when a chart became available or unavailable.
Render(load_otherwise, stream_otherwise) ==
  LET rerun == timeframe_chosen' # timeframe_chosen \/ scope' # scope
      wanted == IF Available(config') THEN timeframe_chosen' ELSE Absent
  IN /\ load' = IF rerun THEN wanted ELSE load_otherwise
     /\ chart_stream' = IF ~rerun /\ Available(config') = Available(config) THEN stream_otherwise
                       ELSE IF wanted = Absent THEN Absent
                       ELSE [timeframe |-> wanted, stage |-> "connecting"]

\* Each request clears the error when it starts.
NoErrorIfLoads(shown) ==
  error' = (shown /\ ~(load' # Absent /\ (timeframe_chosen' # timeframe_chosen \/ scope' # scope)))

\* Mutant of ReplaceCanvas: a new snapshot is merged, as the stream's are.
MergeIntoCanvas(drawing) ==
  canvas' = [drawing EXCEPT !.bars = MergedBars(canvas.bars, @)] /\ strayed' = FALSE

ReplaceCanvas(drawing) == canvas' = drawing /\ strayed' = FALSE

-----------------------------------------------------------------------------
\* Another strategy is loaded or the mode changes.  The bound: not before the
\* dashboard has seen the last one, as it asks every few seconds.
Reload ==
  /\ ChartEvent("move")
  /\ scope = loaded
  /\ loaded' \in ChartContracts \ {loaded}
  /\ UNCHANGED <<scope, view_vars, request_vars>>

RefreshStarted == [stage |-> "config", choice |-> timeframe_chosen]

\* The dashboard's own refresh shows it: the effects of scopeKey, if it is new.
SeeScope ==
  /\ scope' = loaded
  /\ UNCHANGED <<loaded, config, timeframe_chosen, canvas, paging, strayed, pages, chart_left>>
  /\ IF scope = loaded THEN UNCHANGED <<error, refresh, load, chart_stream>>
     ELSE /\ refresh' = [refresh EXCEPT !["effect"] = RefreshStarted]
          /\ error' = FALSE
          /\ Render(load, chart_stream)

\* The Sync button.
PressSync ==
  /\ ChartEvent("sync")
  /\ refresh["button"] = Absent
  /\ refresh' = [refresh EXCEPT !["button"] = RefreshStarted]
  /\ error' = FALSE
  /\ UNCHANGED <<loaded, scope, config, timeframe_chosen, canvas, paging, strayed, load, pages,
                 chart_stream>>

\* refreshChart, after loadChartConfig: the choice is that of the call.
RefreshGetsConfig(r) ==
  /\ UNCHANGED <<loaded, scope, pages, chart_left>>
  /\ refresh[r] # Absent /\ refresh[r].stage = "config"
  /\ LET timeframe == InitialTimeframe(refresh[r].choice, loaded)
     IN IF Available(loaded)
        THEN /\ refresh' = [refresh EXCEPT ![r] = [stage |-> "snapshot", config |-> loaded,
                                                   timeframe |-> timeframe]]
             /\ UNCHANGED <<view_vars, load, chart_stream>>
        ELSE /\ refresh' = [refresh EXCEPT ![r] = Absent]
             /\ config' = loaded /\ timeframe_chosen' = timeframe
             /\ ReplaceCanvas(EmptyCanvas)
             /\ paging' = FALSE
             /\ Render(load, chart_stream)
             /\ NoErrorIfLoads(FALSE)

RefreshGetsSnapshot(r) ==
  /\ UNCHANGED <<loaded, scope, pages, chart_left>>
  /\ refresh[r] # Absent /\ refresh[r].stage = "snapshot"
  /\ Serves(refresh[r].timeframe)
  /\ refresh' = [refresh EXCEPT ![r] = Absent]
  /\ config' = refresh[r].config
  /\ timeframe_chosen' = refresh[r].timeframe
  /\ ReplaceCanvas(Fresh(refresh[r].timeframe))
  /\ paging' = FALSE
  /\ Render(load, chart_stream)
  /\ NoErrorIfLoads(FALSE)

RefreshFails(r) ==
  /\ refresh[r] # Absent
  /\ \/ ChartEvent("chart_fault")
     \/ /\ refresh[r].stage = "snapshot" /\ ~Serves(refresh[r].timeframe)
        /\ UNCHANGED chart_left
  /\ refresh' = [refresh EXCEPT ![r] = Absent]
  /\ error' = TRUE
  /\ strayed' = TRUE
  /\ UNCHANGED <<loaded, scope, config, timeframe_chosen, canvas, paging, load, pages,
                 chart_stream>>

\* The buttons of the toolbar are config.supported_timeframes.
SetSelectedTimeframe(timeframe) ==
  /\ ChartEvent("choice")
  /\ config # Absent /\ timeframe \in Supported[config] \ {timeframe_chosen}
  /\ timeframe_chosen' = timeframe
  /\ paging' = FALSE
  /\ UNCHANGED <<loaded, scope, config, canvas, strayed, refresh, pages>>
  /\ Render(load, chart_stream)
  /\ NoErrorIfLoads(error)

\* The effect of selectedTimeframe and scopeKey.
LoadArrives ==
  /\ load # Absent /\ Serves(load)
  /\ config' = loaded
  /\ ReplaceCanvas(Fresh(load))
  /\ paging' = FALSE /\ error' = FALSE
  /\ UNCHANGED <<loaded, scope, timeframe_chosen, refresh, pages, chart_left>>
  /\ Render(Absent, chart_stream)

LoadFails ==
  /\ load # Absent
  /\ ChartEvent("chart_fault") \/ (~Serves(load) /\ UNCHANGED chart_left)
  /\ load' = Absent
  /\ error' = TRUE
  /\ strayed' = TRUE
  /\ UNCHANGED <<loaded, scope, config, timeframe_chosen, canvas, paging, refresh, pages,
                 chart_stream>>

\* loadOlderHistory; the state that keeps a second request back is reset by a
\* choice, a load and a refresh, while the first goes on.
LoadOlder(p) ==
  /\ ChartEvent("older")
  /\ canvas.bars # {} /\ timeframe_chosen # Absent /\ ~paging
  /\ pages[p] = Absent
  /\ pages' = [pages EXCEPT ![p] = [timeframe |-> timeframe_chosen, by |-> Absent]]
  /\ paging' = TRUE
  /\ UNCHANGED <<loaded, scope, config, timeframe_chosen, canvas, error, strayed, refresh, load,
                 chart_stream>>

ServePage(p) ==
  /\ pages[p] # Absent /\ pages[p].by = Absent
  /\ Serves(pages[p].timeframe)
  /\ pages' = [pages EXCEPT ![p].by = loaded]
  /\ UNCHANGED <<loaded, scope, view_vars, refresh, load, chart_stream, chart_left>>

\* The bars are merged into whatever is drawn by now.
PageArrives(p) ==
  /\ pages[p] # Absent /\ pages[p].by # Absent
  /\ pages' = [pages EXCEPT ![p] = Absent]
  /\ paging' = FALSE
  /\ IF canvas = EmptyCanvas
     THEN UNCHANGED <<config, canvas, strayed>>
     ELSE LET older == Bars(pages[p].by, pages[p].timeframe)
          IN /\ config' = pages[p].by
             /\ canvas' = [canvas EXCEPT !.bars = MergedBars(older, @)]
             /\ strayed' = (strayed \/ ~(older \subseteq {canvas.of}))
  /\ UNCHANGED <<loaded, scope, timeframe_chosen, error, refresh, chart_left>>
  /\ Render(load, chart_stream)

PageFails(p) ==
  /\ pages[p] # Absent
  /\ ChartEvent("chart_fault") \/ (~Serves(pages[p].timeframe) /\ UNCHANGED chart_left)
  /\ pages' = [pages EXCEPT ![p] = Absent]
  /\ paging' = FALSE
  /\ UNCHANGED <<loaded, scope, config, timeframe_chosen, canvas, error, strayed, refresh, load,
                 chart_stream>>

-----------------------------------------------------------------------------
\* connect, and the route's check of the timeframe.
StreamOpens ==
  /\ chart_stream # Absent /\ chart_stream.stage = "connecting" /\ Serves(chart_stream.timeframe)
  /\ chart_stream' = [chart_stream EXCEPT !.stage = "open"]
  /\ UNCHANGED <<loaded, scope, view_vars, refresh, load, pages, chart_left>>

\* The stream is refused, ends because the runtime no longer serves its timeframe,
\* or is lost; it reconnects.
StreamCloses ==
  /\ chart_stream # Absent
  /\ \/ ~Serves(chart_stream.timeframe) /\ UNCHANGED chart_left
     \/ ChartEvent("chart_fault")
  /\ chart_stream' = [chart_stream EXCEPT !.stage = "connecting"]
  /\ error' \in {error, TRUE}
  /\ UNCHANGED <<loaded, scope, config, timeframe_chosen, canvas, paging, strayed, refresh, load,
                 pages>>

\* mergeIncomingSnapshot; chart_websocket_loop sends what it has at once, and again
\* whenever that has changed.
StreamMessage ==
  /\ chart_stream # Absent /\ chart_stream.stage # "connecting" /\ Serves(chart_stream.timeframe)
  /\ config' = loaded
  /\ LET sent == Fresh(chart_stream.timeframe)
     IN canvas' = [sent EXCEPT !.bars = MergedBars(canvas.bars, @)]
  /\ error' = FALSE
  /\ UNCHANGED <<loaded, scope, timeframe_chosen, paging, strayed, refresh, pages, chart_left>>
  /\ Render(load, [chart_stream EXCEPT !.stage = "sent"])

-----------------------------------------------------------------------------
ChartAnswers ==
  \/ \E r \in Refreshers : RefreshGetsConfig(r) \/ RefreshGetsSnapshot(r) \/ RefreshFails(r)
  \/ LoadArrives \/ LoadFails
  \/ \E p \in Pages : ServePage(p) \/ PageArrives(p) \/ PageFails(p)

ChartNext ==
  \/ Reload \/ SeeScope \/ PressSync
  \/ ChartAnswers
  \/ \E timeframe \in ChartTimeframes : SetSelectedTimeframe(timeframe)
  \/ \E p \in Pages : LoadOlder(p)
  \/ StreamOpens \/ StreamCloses \/ StreamMessage

\* Requests are answered, and a stream that opens sends what it has.
ChartFairness ==
  /\ WF_canvas_vars(SeeScope)
  /\ WF_canvas_vars(ChartAnswers)
  /\ WF_canvas_vars(StreamOpens)
  /\ WF_canvas_vars(chart_stream # Absent /\ chart_stream.stage = "open" /\ StreamMessage)
  /\ WF_canvas_vars(StreamCloses /\ error')

ChartSpec == ChartInit /\ [][ChartNext]_canvas_vars /\ ChartFairness

-----------------------------------------------------------------------------
\* Whatever was chosen, loaded and synced while answers were under way: in the end
\* the chart is of the contract that is loaded and of the timeframe the toolbar
\* shows as chosen, or has no bars if none is loaded, or an error is shown.  The
\* stream merges into what is drawn, which a change may have left behind: bars of
\* another contract or timeframe outlast it only if a page of older bars crossed the
\* change, or what should have replaced the chart failed.
ChartSettles ==
  <>[]/\ \/ error
         \/ Available(loaded) /\ canvas.of = <<loaded, timeframe_chosen>>
         \/ ~Available(loaded) /\ (canvas.bars = {} \/ strayed)
      /\ strayed \/ canvas.bars \subseteq {canvas.of}
=============================================================================
