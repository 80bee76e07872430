------------------------ MODULE ShutdownReviewProofs ------------------------
(***************************************************************************)
(* Proof that the runtime exits on approvals that rest on what their       *)
(* snapshots showed, for any number of contracts and shutdown commands.    *)
(***************************************************************************)
EXTENDS ShutdownReview, TLAPS

\* What ExitIsApproved says of the approvals.
ApprovalsOK ==
  /\ main = "exited" => approvals # {}
  /\ \A approval \in approvals :
       \/ approval[2] = "none"
       \/ approval[2] = "protected" /\ approval[1]

\* An exit under way, wherever it has got to, comes from an approval.
ExitUnderWay ==
  \/ shutdown_signal
  \/ main \in {"notify", "exited"}
  \/ \E o \in Operators : pc[o] = "notify"

ApprovedFirst == ExitUnderWay => approvals # {}

\* The finalizer confirms with the flat snapshot it has just taken.
ConfirmIsFlat == main = "confirm" => Flat(seen[Main])

ShutdownInv == ShutdownTypeOK /\ ApprovedFirst /\ ConfirmIsFlat /\ ApprovalsOK

\* What the two tests of the code say of the exposure of a snapshot.
LEMMA ExposureFacts ==
  ASSUME NEW snapshot \in [Contracts -> PositionStates]
  PROVE  /\ Flat(snapshot) => Exposure(snapshot) = "none"
         /\ AllOpenPositionsProtected(snapshot) => Exposure(snapshot) \in {"none", "protected"}
  BY DEF Flat, AllOpenPositionsProtected, Exposure, PositionStates

\* The empty snapshot is flat.
LEMMA NoSnapshotFacts == NoSnapshot \in [Contracts -> PositionStates] /\ Flat(NoSnapshot)
  BY DEF NoSnapshot, PositionStates, Flat

\* At first nothing is approved and the process runs.
LEMMA ShutdownInitInv == Init => ShutdownInv
  BY NoSnapshotFacts
  DEF Init, ShutdownInv, ShutdownTypeOK, ApprovedFirst, ExitUnderWay, ConfirmIsFlat, ApprovalsOK

\* The parts of ShutdownTypeOK: what sections and snapshots are,
StackOK ==
  /\ positions \in [Contracts -> PositionStates]
  /\ main \in {"running", "signal", "notify", "finalize", "confirm", "exited"}
  /\ pc \in [Operators -> {"idle", "decide", "dispatch", "wait", "notify"}]
  /\ choice \in [Operators -> Decisions \cup {"None"}]
  /\ seen \in [Tasks -> [Contracts -> PositionStates]]

\* the review's story,
StoryOK ==
  /\ pending_signal \in BOOLEAN /\ blocked \in BOOLEAN
  /\ awaiting_flatten \in BOOLEAN /\ shutdown_signal \in BOOLEAN
  /\ decision \in Decisions \cup {"None"}
  /\ awaiting_flatten => blocked /\ ~pending_signal /\ decision = "FlattenFirst"

\* and the approvals.
ApprovalTypesOK == approvals \subseteq BOOLEAN \X {"none", "protected", "open"}

\* The type invariant in the three parts it is proved in.
LEMMA TypeParts == ShutdownTypeOK <=> StackOK /\ StoryOK /\ ApprovalTypesOK
  BY DEF ShutdownTypeOK, StackOK, StoryOK, ApprovalTypesOK

\* Snapshots and sections keep to their types.
LEMMA StackStep == StackOK /\ [Next]_vars => StackOK'
<1> SUFFICES ASSUME StackOK, [Next]_vars PROVE StackOK'
  OBVIOUS
<1> USE NoSnapshotFacts DEF StackOK, TakeSnapshot, Forget, Return, Go, KeepStack, Tasks
<1>1. ASSUME NEW o \in Operators, ShutdownCommand(o) PROVE StackOK'
  BY <1>1 DEF ShutdownCommand
<1>2. ASSUME NEW o \in Operators, OperatorStep(o) PROVE StackOK'
  <2>1. CASE Decide(o)
    BY <2>1 DEF Decide
  <2>2. CASE DispatchFlatten(o)
    <3>1. positions' = positions /\ main' = main
      BY <2>2 DEF DispatchFlatten
    <3>2. CASE Go(o, "wait") /\ KeepStack
      BY <3>1, <3>2
    <3>3. CASE Return(o)
      BY <3>1, <3>3
    <3> QED BY <2>2, <3>2, <3>3 DEF DispatchFlatten
  <2>3. CASE WaitForFlatten(o)
    BY <2>3 DEF WaitForFlatten
  <2>4. CASE Notify(o)
    BY <2>4 DEF Notify
  <2> QED BY <1>2, <2>1, <2>2, <2>3, <2>4 DEF OperatorStep
<1>3. CASE ReceiveSignal \/ MainStep
  BY <1>3 DEF ReceiveSignal, MainStep, HandleSignal, NotifySelf, Finalize, FinalizeSnapshot,
              FinalizeConfirm, Exit
<1>4. CASE PositionChanges
  BY <1>4 DEF PositionChanges
<1>5. CASE UNCHANGED vars
  BY <1>5 DEF vars
<1> QED BY <1>1, <1>2, <1>3, <1>4, <1>5 DEF Next

\* An approval, a block and a wait each tell a whole story.
LEMMA StoryStep == StackOK /\ StoryOK /\ [Next]_vars => StoryOK'
<1> SUFFICES ASSUME StackOK, StoryOK, [Next]_vars PROVE StoryOK'
  OBVIOUS
<1>1. ASSUME UNCHANGED review_vars, shutdown_signal' \in BOOLEAN PROVE StoryOK'
  BY <1>1 DEF StoryOK, review_vars
<1>2. ASSUME NEW t, NEW decided \in Decisions \cup {"None"}, Approve(t, decided),
             shutdown_signal' = shutdown_signal
      PROVE  StoryOK'
  BY <1>2 DEF Approve, StoryOK
<1>3. ASSUME Block, shutdown_signal' = shutdown_signal PROVE StoryOK'
  BY <1>3 DEF Block, StoryOK
<1>4. shutdown_signal \in BOOLEAN
  BY DEF StoryOK
<1>5. ASSUME NEW o \in Operators, ShutdownCommand(o) PROVE StoryOK'
  BY <1>1, <1>4, <1>5 DEF ShutdownCommand, KeepReview
<1>6. ASSUME NEW o \in Operators, Decide(o) PROVE StoryOK'
  <2>1. choice[o] \in Decisions \cup {"None"}
    BY DEF StackOK
  <2>2. shutdown_signal' = shutdown_signal
    BY <1>6 DEF Decide
  <2>3. Approve(o, choice[o]) \/ Block \/ KeepReview
    BY <1>6 DEF Decide
  <2> QED BY <1>1, <1>2, <1>3, <1>4, <2>1, <2>2, <2>3 DEF KeepReview
<1>7. ASSUME NEW o \in Operators, WaitForFlatten(o) PROVE StoryOK'
  BY <1>7 DEF WaitForFlatten, MarkWaiting, Decisions, StoryOK
<1>8. ASSUME NEW o \in Operators, DispatchFlatten(o) \/ Notify(o) PROVE StoryOK'
  BY <1>1, <1>4, <1>8 DEF DispatchFlatten, Notify, KeepReview
<1>9. CASE HandleSignal
  BY <1>2, <1>3, <1>9 DEF HandleSignal, Decisions
<1>10. CASE FinalizeConfirm
  BY <1>2, <1>10 DEF FinalizeConfirm, Decisions
<1>11. CASE ReceiveSignal \/ NotifySelf \/ Finalize \/ FinalizeSnapshot \/ Exit \/ PositionChanges
  BY <1>1, <1>4, <1>11 DEF ReceiveSignal, NotifySelf, Finalize, FinalizeSnapshot, Exit,
                           PositionChanges, KeepReview
<1>12. CASE UNCHANGED vars
  BY <1>1, <1>4, <1>12 DEF vars
<1> QED BY <1>5, <1>6, <1>7, <1>8, <1>9, <1>10, <1>11, <1>12 DEF Next, OperatorStep, MainStep

\* Whoever approves, the approval says who and on what exposure.
LEMMA ApprovalTypesStep == StackOK /\ ApprovalTypesOK /\ [Next]_vars => ApprovalTypesOK'
<1> SUFFICES ASSUME StackOK, ApprovalTypesOK, [Next]_vars PROVE ApprovalTypesOK'
  OBVIOUS
<1>1. ASSUME NEW t \in Tasks, NEW decided, Approve(t, decided) PROVE ApprovalTypesOK'
  <2>1. Exposure(seen[t]) \in {"none", "protected", "open"}
    BY DEF Exposure
  <2>2. <<t # Main, Exposure(seen[t])>> \in BOOLEAN \X {"none", "protected", "open"}
    BY <2>1
  <2> QED BY <1>1, <2>2 DEF Approve, ApprovalTypesOK
<1>2. ASSUME UNCHANGED approvals PROVE ApprovalTypesOK'
  BY <1>2 DEF ApprovalTypesOK
<1>3. ASSUME NEW o \in Operators, Decide(o) PROVE ApprovalTypesOK'
  BY <1>1, <1>2, <1>3 DEF Decide, Block, KeepReview, Tasks
<1>4. CASE HandleSignal \/ FinalizeConfirm
  BY <1>1, <1>2, <1>4 DEF HandleSignal, FinalizeConfirm, Block, Tasks
<1>5. ASSUME NEW o \in Operators,
             ShutdownCommand(o) \/ DispatchFlatten(o) \/ WaitForFlatten(o) \/ Notify(o)
      PROVE  ApprovalTypesOK'
  BY <1>2, <1>5 DEF ShutdownCommand, DispatchFlatten, WaitForFlatten, Notify, MarkWaiting,
                    KeepReview
<1>6. CASE ReceiveSignal \/ NotifySelf \/ Finalize \/ FinalizeSnapshot \/ Exit \/ PositionChanges
  BY <1>2, <1>6 DEF ReceiveSignal, NotifySelf, Finalize, FinalizeSnapshot, Exit, PositionChanges,
                    KeepReview
<1>7. CASE UNCHANGED vars
  BY <1>2, <1>7 DEF vars
<1> QED BY <1>3, <1>4, <1>5, <1>6, <1>7 DEF Next, OperatorStep, MainStep

\* Variables keep to their types, and the review tells one story.
LEMMA TypeStep == ShutdownTypeOK /\ [Next]_vars => ShutdownTypeOK'
<1>1. ShutdownTypeOK' <=> StackOK' /\ StoryOK' /\ ApprovalTypesOK'
  BY DEF ShutdownTypeOK, StackOK, StoryOK, ApprovalTypesOK
<1> QED BY <1>1, TypeParts, StackStep, StoryStep, ApprovalTypesStep

\* An approval that may rest on exposure is an operator's, with all of it protected.
LEMMA ApproveStep ==
  ASSUME ApprovalsOK, NEW t \in Tasks, NEW decided, Approve(t, decided),
         \/ Exposure(seen[t]) = "none"
         \/ Exposure(seen[t]) = "protected" /\ t \in Operators
  PROVE  ApprovalsOK' /\ approvals' # {}
<1>1. t \in Operators => t # Main
  BY MainAssumption
<1>2. approvals' = approvals \cup {<<t # Main, Exposure(seen[t])>>}
  BY DEF Approve
<1>3. ASSUME NEW approval \in approvals'
      PROVE  \/ approval[2] = "none"
             \/ approval[2] = "protected" /\ approval[1]
  <2>1. CASE approval \in approvals
    BY <2>1 DEF ApprovalsOK
  <2>2. CASE approval = <<t # Main, Exposure(seen[t])>>
    BY <1>1, <2>2
  <2> QED BY <1>2, <1>3, <2>1, <2>2
<1> QED BY <1>2, <1>3 DEF ApprovalsOK

\* Every section of the main loop and of the commands preserves the invariant.
LEMMA ShutdownStep == ShutdownInv /\ [Next]_vars => ShutdownInv'
<1> SUFFICES ASSUME ShutdownInv, [Next]_vars PROVE ShutdownInv'
  OBVIOUS
<1>1. ShutdownTypeOK'
  BY TypeStep DEF ShutdownInv
<1>2. \A t \in Tasks : seen[t] \in [Contracts -> PositionStates]
  BY DEF ShutdownInv, ShutdownTypeOK
<1> DEFINE Rest == ApprovedFirst /\ ConfirmIsFlat /\ ApprovalsOK
<1> USE DEF ShutdownInv, ShutdownTypeOK, ApprovedFirst, ExitUnderWay, ConfirmIsFlat
<1>3. ASSUME NEW o \in Operators, ShutdownCommand(o) PROVE Rest'
  <2>1. o # Main
    BY MainAssumption
  <2>2. seen'[Main] = seen[Main] /\ \A p \in Operators : pc'[p] = "notify" => pc[p] = "notify"
    BY <1>3, <2>1 DEF ShutdownCommand, TakeSnapshot, Go, Tasks
  <2> QED BY <1>3, <2>2 DEF ShutdownCommand, KeepReview, ApprovalsOK
<1>4. ASSUME NEW o \in Operators, Decide(o) PROVE Rest'
  <2>1. o # Main /\ o \in Tasks
    BY MainAssumption DEF Tasks
  <2>2. seen'[Main] = seen[Main] /\ UNCHANGED <<main, shutdown_signal>>
    BY <1>4, <2>1 DEF Decide, KeepStack, Return, Forget, Tasks
  <2>3. CASE /\ Approve(o, choice[o])
             /\ Flat(seen[o]) \/ AllOpenPositionsProtected(seen[o])
    <3>1. \/ Exposure(seen[o]) = "none"
          \/ Exposure(seen[o]) = "protected"
      BY <1>2, <2>1, <2>3, ExposureFacts
    <3>2. ApprovalsOK' /\ approvals' # {}
      BY <2>1, <2>3, <3>1, ApproveStep
    <3> QED BY <2>2, <3>2
  <2>4. CASE UNCHANGED approvals /\ \E section \in {"idle", "dispatch"} : Go(o, section)
    <3>1. \A p \in Operators : pc'[p] = "notify" => pc[p] = "notify"
      BY <2>4 DEF Go
    <3> QED BY <2>2, <2>4, <3>1 DEF ApprovalsOK
  <2> QED BY <1>4, <2>3, <2>4 DEF Decide, Block, KeepReview, Return
<1>5. ASSUME NEW o \in Operators, DispatchFlatten(o) \/ WaitForFlatten(o) \/ Notify(o)
      PROVE  Rest'
  <2>1. o # Main
    BY MainAssumption
  <2>2. seen'[Main] = seen[Main] /\ UNCHANGED <<main, approvals>>
    BY <1>5, <2>1 DEF DispatchFlatten, WaitForFlatten, Notify, KeepStack, Return, Forget, Tasks,
                      KeepReview, MarkWaiting
  <2>3. \A p \in Operators : pc'[p] = "notify" => pc[p] = "notify"
    BY <1>5 DEF DispatchFlatten, WaitForFlatten, Notify, Return, Go
  <2>4. shutdown_signal' => shutdown_signal \/ pc[o] = "notify"
    BY <1>5 DEF DispatchFlatten, WaitForFlatten, Notify
  <2> QED BY <2>2, <2>3, <2>4 DEF ApprovalsOK
<1>6. ASSUME HandleSignal PROVE Rest'
  <2>1. CASE Flat(seen[Main])
    <3>1. Exposure(seen[Main]) = "none"
      BY <1>2, <2>1, ExposureFacts DEF Tasks
    <3>2. ApprovalsOK' /\ approvals' # {}
      BY <1>6, <2>1, <3>1, ApproveStep DEF HandleSignal, Tasks
    <3>3. main' = "notify"
      BY <1>6, <2>1 DEF HandleSignal
    <3> QED BY <3>2, <3>3
  <2>2. CASE ~Flat(seen[Main])
    <3>1. main' = "running" /\ UNCHANGED <<approvals, shutdown_signal, pc>>
      BY <1>6, <2>2 DEF HandleSignal, Block
    <3> QED BY <1>6, <3>1 DEF ApprovalsOK, HandleSignal
  <2> QED BY <2>1, <2>2
<1>7. ASSUME FinalizeConfirm PROVE Rest'
  <2>1. Exposure(seen[Main]) = "none"
    BY <1>2, <1>7, ExposureFacts DEF FinalizeConfirm, Tasks
  <2>2. ApprovalsOK' /\ approvals' # {}
    BY <1>7, <2>1, ApproveStep DEF FinalizeConfirm, Tasks
  <2> QED BY <1>7, <2>2 DEF FinalizeConfirm
<1>8. ASSUME FinalizeSnapshot PROVE Rest'
  BY <1>8 DEF FinalizeSnapshot, TakeSnapshot, KeepReview, ApprovalsOK, Tasks
<1>9. ASSUME ReceiveSignal \/ NotifySelf \/ Finalize \/ Exit PROVE Rest'
  BY <1>9 DEF ReceiveSignal, NotifySelf, Finalize, Exit, KeepReview, ApprovalsOK, TakeSnapshot,
              Tasks
<1>10. ASSUME PositionChanges PROVE Rest'
  BY <1>10 DEF PositionChanges, KeepReview, ApprovalsOK
<1>11. ASSUME UNCHANGED vars PROVE Rest'
  BY <1>11 DEF vars, ApprovalsOK
<1>12. Rest'
  BY <1>3, <1>4, <1>5, <1>6, <1>7, <1>8, <1>9, <1>10, <1>11 DEF Next, OperatorStep, MainStep
<1> QED BY <1>1, <1>12 DEF ShutdownInv

\* The process ends only after an approval, no approval rests on a snapshot with an
\* unprotected open position, and the review's fields agree.
THEOREM ShutdownIsApproved == Spec => []ExitIsApproved
<1>1. Init => ShutdownInv
  BY ShutdownInitInv
<1>2. ShutdownInv /\ [Next]_vars => ShutdownInv'
  BY ShutdownStep
<1>3. ShutdownInv => ExitIsApproved
  BY DEF ShutdownInv, ApprovalsOK, ExitIsApproved
<1> QED BY <1>1, <1>2, <1>3, PTL DEF Spec
=============================================================================
