--------------------------- MODULE ShutdownReview ---------------------------
(***************************************************************************)
(* The shutdown review of apps/runtime: the main loop of run_runtime_host, *)
(* which handles ctrl-c, polls for a confirmed flatten and ends the        *)
(* process, and the operators' shutdown commands, which run beside it.     *)
(*                                                                         *)
(* Each reads the broker status under one lock and writes RuntimeShutdown- *)
(* ReviewState under another; the exit request goes through a watch        *)
(* channel after a journal write.  Every lock section is an action.        *)
(***************************************************************************)
CONSTANTS Contracts,   \* contracts that may hold a position
          Operators    \* concurrent shutdown commands

VARIABLES
  positions,        \* external: the broker status, per contract
  pending_signal, blocked, awaiting_flatten, decision,   \* the review
  shutdown_signal,  \* the watch channel holds an unseen true
  main,             \* the main loop: running, a signal or finalize section, exited
  pc, choice,       \* per operator: next section, and the decision sent
  seen,             \* per task: the open positions in its snapshot
  approvals         \* history: what approvals so far rested on: <<an operator's, exposure>>

review_vars == <<pending_signal, blocked, awaiting_flatten, decision>>
vars == <<positions, review_vars, shutdown_signal, main, pc, choice, seen, approvals>>

PositionStates == {"Flat", "Open", "Protected"}
Decisions == {"FlattenFirst", "LeaveBrokerProtected"}
Main == "main"
Tasks == Operators \cup {Main}

ASSUME MainAssumption == Main \notin Operators

NoSnapshot == [contract \in Contracts |-> "Flat"]

\* active_open_position_count = 0, and the test on protective_orders_present.
Flat(snapshot) == \A contract \in Contracts : snapshot[contract] = "Flat"

\* Mutant of AllOpenPositionsProtected: one protected position is enough.
SomePositionProtected(snapshot) == \E contract \in Contracts : snapshot[contract] = "Protected"

AllOpenPositionsProtected(snapshot) ==
  /\ ~Flat(snapshot)
  /\ \A contract \in Contracts : snapshot[contract] \in {"Flat", "Protected"}

\* For the history: what a snapshot shows, whatever the code concluded from it.
Exposure(snapshot) ==
  IF "Open" \in {snapshot[contract] : contract \in Contracts} THEN "open"
  ELSE IF "Protected" \in {snapshot[contract] : contract \in Contracts} THEN "protected"
  ELSE "none"

-----------------------------------------------------------------------------
Init ==
  /\ positions \in [Contracts -> PositionStates]
  /\ pending_signal = FALSE
  /\ blocked = FALSE
  /\ awaiting_flatten = FALSE
  /\ decision = "None"
  /\ shutdown_signal = FALSE
  /\ main = "running"
  /\ pc = [o \in Operators |-> "idle"]
  /\ choice = [o \in Operators |-> "None"]
  /\ seen = [t \in Tasks |-> NoSnapshot]
  /\ approvals = {}

Go(o, section) == pc' = [pc EXCEPT ![o] = section]
TakeSnapshot(t) == seen' = [seen EXCEPT ![t] = positions]
Forget(t) == seen' = [seen EXCEPT ![t] = NoSnapshot]
Return(o) == Go(o, "idle") /\ Forget(o) /\ choice' = [choice EXCEPT ![o] = "None"]
KeepStack == UNCHANGED <<choice, seen>>

\* approve_runtime_shutdown, its lock section.
Approve(t, decided) ==
  /\ pending_signal' = FALSE
  /\ blocked' = FALSE
  /\ awaiting_flatten' = FALSE
  /\ decision' = decided
  /\ approvals' = approvals \cup {<<t # Main, Exposure(seen[t])>>}

\* Mutant of Block: a flatten that was awaited stays awaited.
BlockStillAwaiting ==
  /\ pending_signal' = TRUE
  /\ blocked' = TRUE
  /\ decision' = "None"
  /\ UNCHANGED <<awaiting_flatten, approvals>>

\* block_runtime_shutdown; both callers pass pending_signal = true.
Block ==
  /\ pending_signal' = TRUE
  /\ blocked' = TRUE
  /\ awaiting_flatten' = FALSE
  /\ decision' = "None"
  /\ UNCHANGED approvals

\* mark_shutdown_waiting_for_flatten
MarkWaiting ==
  /\ pending_signal' = FALSE
  /\ blocked' = TRUE
  /\ awaiting_flatten' = TRUE
  /\ decision' = "FlattenFirst"
  /\ UNCHANGED approvals

KeepReview == UNCHANGED <<review_vars, approvals>>

-----------------------------------------------------------------------------
\* shutdown_runtime_command_handler: status_context is taken ...
ShutdownCommand(o) ==
  /\ main # "exited"
  /\ pc[o] = "idle"
  /\ choice' \in {[choice EXCEPT ![o] = decided] : decided \in Decisions}
  /\ TakeSnapshot(o)
  /\ Go(o, "decide")
  /\ UNCHANGED <<positions, shutdown_signal, main>> /\ KeepReview

\* ... and decided upon.  Nothing open: approved, whatever the decision.
Decide(o) ==
  /\ pc[o] = "decide"
  /\ \/ /\ Flat(seen[o])
        /\ Approve(o, choice[o])
        /\ Go(o, "notify") /\ KeepStack
     \/ /\ ~Flat(seen[o])
        /\ choice[o] = "LeaveBrokerProtected"
        /\ IF AllOpenPositionsProtected(seen[o])
           THEN Approve(o, choice[o]) /\ Go(o, "notify") /\ KeepStack
           ELSE Block /\ Return(o)
     \/ /\ ~Flat(seen[o])
        /\ choice[o] = "FlattenFirst"
        /\ Go(o, "dispatch") /\ KeepStack
        /\ KeepReview
  /\ UNCHANGED <<positions, shutdown_signal, main>>

\* The flatten of one contract is dispatched.  An error (no contract or several
\* to choose from, the request refused, the journal down) ends the command; any
\* command result makes the review wait.
DispatchFlatten(o) ==
  /\ pc[o] = "dispatch"
  /\ (Go(o, "wait") /\ KeepStack) \/ Return(o)
  /\ UNCHANGED <<positions, shutdown_signal, main>> /\ KeepReview

WaitForFlatten(o) ==
  /\ pc[o] = "wait"
  /\ MarkWaiting
  /\ Return(o)
  /\ UNCHANGED <<positions, shutdown_signal, main>>

\* shutdown_signal.send(true), after the approval has been journaled.
Notify(o) ==
  /\ pc[o] = "notify"
  /\ shutdown_signal' = TRUE
  /\ Return(o)
  /\ UNCHANGED <<positions, main>> /\ KeepReview

-----------------------------------------------------------------------------
\* The main loop.  ctrl-c: handle_runtime_shutdown_signal.
ReceiveSignal ==
  /\ main = "running"
  /\ main' = "signal"
  /\ TakeSnapshot(Main)
  /\ UNCHANGED <<positions, shutdown_signal, pc, choice>> /\ KeepReview

\* Mutant of HandleSignal: the approval is not sent to the loop.
HandleSignalQuietly ==
  /\ main = "signal"
  /\ main' = "running"
  /\ IF Flat(seen[Main]) THEN Approve(Main, "LeaveBrokerProtected") ELSE Block
  /\ Forget(Main)
  /\ UNCHANGED <<positions, shutdown_signal, pc, choice>>

\* It returns false even when it approves: the loop ends through the channel.
HandleSignal ==
  /\ main = "signal"
  /\ IF Flat(seen[Main])
     THEN Approve(Main, "LeaveBrokerProtected") /\ main' = "notify"
     ELSE Block /\ main' = "running"
  /\ Forget(Main)
  /\ UNCHANGED <<positions, shutdown_signal, pc, choice>>

NotifySelf ==
  /\ main = "notify"
  /\ main' = "running"
  /\ shutdown_signal' = TRUE
  /\ UNCHANGED <<positions, pc, choice, seen>> /\ KeepReview

\* Mutant of Finalize: only a review with a pending signal is looked at.
FinalizeAfterSignal ==
  /\ main = "running"
  /\ awaiting_flatten /\ pending_signal
  /\ main' = "finalize"
  /\ UNCHANGED <<positions, shutdown_signal, pc, choice, seen>> /\ KeepReview

\* finalize_pending_flatten_shutdown: the review, then the positions, then the
\* review again, which is not read a second time.
Finalize ==
  /\ main = "running"
  /\ awaiting_flatten
  /\ main' = "finalize"
  /\ UNCHANGED <<positions, shutdown_signal, pc, choice, seen>> /\ KeepReview

FinalizeSnapshot ==
  /\ main = "finalize"
  /\ IF Flat(positions)
     THEN main' = "confirm" /\ TakeSnapshot(Main)
     ELSE main' = "running" /\ UNCHANGED seen
  /\ UNCHANGED <<positions, shutdown_signal, pc, choice>> /\ KeepReview

FinalizeConfirm ==
  /\ main = "confirm"
  /\ Approve(Main, "FlattenFirst")
  /\ main' = "exited"
  /\ UNCHANGED <<positions, shutdown_signal, pc, choice, seen>>

\* shutdown_receiver.changed(): the loop ends and the tasks are aborted.
Exit ==
  /\ main = "running"
  /\ shutdown_signal
  /\ main' = "exited"
  /\ UNCHANGED <<positions, shutdown_signal, pc, choice, seen>> /\ KeepReview

\* External: an entry or a working order fills, a stop or a liquidation closes a
\* position, protective orders appear or go.  Orders are accepted until exit.
PositionChanges ==
  /\ main # "exited"
  /\ \E contract \in Contracts, state \in PositionStates :
       /\ state # positions[contract]
       /\ positions' = [positions EXCEPT ![contract] = state]
  /\ UNCHANGED <<shutdown_signal, main, pc, choice, seen>> /\ KeepReview

OperatorStep(o) ==
  \/ Decide(o) \/ DispatchFlatten(o) \/ WaitForFlatten(o) \/ Notify(o)

MainStep ==
  HandleSignal \/ NotifySelf \/ Finalize \/ FinalizeSnapshot \/ FinalizeConfirm \/ Exit

Next ==
  \/ \E o \in Operators : ShutdownCommand(o) \/ OperatorStep(o)
  \/ ReceiveSignal \/ MainStep
  \/ PositionChanges

Spec == Init /\ [][Next]_vars

\* Handlers and the main loop are tokio tasks: each is run again when ready.
\* select! picks at random among ready branches, so an approved exit is taken in
\* the end, however often ctrl-c is pressed (strong fairness).  The poll timer is
\* started anew after every signal, so it only gets weak fairness.
Fairness ==
  /\ \A o \in Operators : WF_vars(OperatorStep(o))
  /\ WF_vars(HandleSignal \/ NotifySelf \/ Finalize \/ FinalizeSnapshot \/ FinalizeConfirm)
  /\ SF_vars(Exit)
FairSpec == Spec /\ Fairness

-----------------------------------------------------------------------------
\* Every variable keeps to its type, and the review's fields, which the clients see
\* and the main loop polls, tell one story: a signal waits for a decision, or a
\* flatten is awaited, blocked either way, and never both.
ShutdownTypeOK ==
  /\ positions \in [Contracts -> PositionStates]
  /\ {pending_signal, blocked, awaiting_flatten, shutdown_signal} \subseteq BOOLEAN
  /\ decision \in Decisions \cup {"None"}
  /\ awaiting_flatten => blocked /\ ~pending_signal /\ decision = "FlattenFirst"
  /\ main \in {"running", "signal", "notify", "finalize", "confirm", "exited"}
  /\ pc \in [Operators -> {"idle", "decide", "dispatch", "wait", "notify"}]
  /\ choice \in [Operators -> Decisions \cup {"None"}]
  /\ seen \in [Tasks -> [Contracts -> PositionStates]]
  /\ approvals \subseteq BOOLEAN \X {"none", "protected", "open"}

\* The process ends only on an approval, and no approval, by an operator, by a
\* signal or after a flatten, rests on a snapshot with an unprotected position;
\* only an operator's explicit decision leaves a protected one in place.  The review's
\* fields tell one story all the while.
ExitIsApproved ==
  /\ ShutdownTypeOK
  /\ main = "exited" => approvals # {}
  /\ \A approval \in approvals :
       \/ approval[2] = "none"
       \/ approval[2] = "protected" /\ approval[1]

\* An approved shutdown ends the process, whoever approved it and whatever other
\* shutdown commands and signals come in between; and a review that waits for a
\* flatten does not wait for ever on a flat account: the process ends, or something
\* replaces the decision, or a position opens.
ShutdownsExit ==
  /\ approvals # {} ~> main = "exited"
  /\ awaiting_flatten ~> (main = "exited" \/ ~awaiting_flatten \/ ~Flat(positions))
=============================================================================
