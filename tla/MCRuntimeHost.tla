--------------------------- MODULE MCRuntimeHost ---------------------------
(***************************************************************************)
(* Command sets for TLC.  One strategy file or two, one client or two; the *)
(* sets keep the commands whose interleavings a run is about.              *)
(***************************************************************************)
EXTENDS RuntimeHost, TLC

\* Everything one operator can send.
AllCommands ==
  ({"SetMode"} \X {"Paper", "Live", "Observation", "Paused"})
  \cup ({"LoadStrategy"} \X Strategies)
  \cup ({"Arm", "SetNewEntriesEnabled"} \X {"yes", "no"})
  \cup ({"StartWarmup", "MarkWarmupReady", "MarkWarmupFailed", "Disarm", "Pause",
         "Resume", "ManualEntry", "Command"} \X {""})

\* Clients that load, arm, move the mode and trade.
TradingCommands ==
  {<<"SetMode", "Live">>, <<"StartWarmup", "">>, <<"Arm", "no">>, <<"Pause", "">>,
   <<"Resume", "">>, <<"Command", "">>} \cup ({"LoadStrategy"} \X Strategies)

Symmetry == Permutations(Clients)
=============================================================================
