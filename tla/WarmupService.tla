--------------------------- MODULE WarmupService ---------------------------
(***************************************************************************)
(* What the runtime host relies on from a market-data service: a warmup    *)
(* status that only moves forward between two successful starts, and       *)
(* health that, once a start or the connection fails, does not come back   *)
(* before the next successful start.  Start, Fails and Receive allow no    *)
(* more than RuntimeHost's StartService, StartServiceFails and PollService *)
(* do to md_warmup and md_healthy.                                         *)
(***************************************************************************)
VARIABLES
  warmup, healthy,
  up,      \* no failure since the last successful start
  epoch    \* flips at every successful start

vars == <<warmup, healthy, up, epoch>>

Init ==
  /\ warmup = "Loaded"
  /\ healthy = FALSE
  /\ up = FALSE
  /\ epoch \in BOOLEAN

Start ==
  /\ warmup' \in {"Warming", "Ready"}
  /\ healthy' \in BOOLEAN
  /\ up' = TRUE
  /\ epoch' = ~epoch

Fails ==
  /\ healthy' = FALSE
  /\ up' = FALSE
  /\ UNCHANGED <<warmup, epoch>>

Receive ==
  /\ warmup # "Loaded"
  /\ warmup' \in {warmup} \cup (IF warmup = "Warming" THEN {"Ready"} ELSE {})
  /\ healthy' \in BOOLEAN
  /\ healthy' => up
  /\ UNCHANGED <<up, epoch>>

Next == Start \/ Fails \/ Receive

Spec == Init /\ [][Next]_vars
=============================================================================
