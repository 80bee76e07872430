------------------------- MODULE CommandLoopProofs -------------------------
(***************************************************************************)
(* Proofs about CommandLoop for any clients, commands, strategies and      *)
(* accounts, and any pattern of failing appends and broker calls.  What a  *)
(* handler knows at each step is one invariant per handler; a step of one  *)
(* handler leaves every other handler's alone.  Where an undisturbed       *)
(* command ends rests on what any plan does to the traded position.        *)
(*                                                                         *)
(* With them, what the loop's signals rest on: strategy files that load,   *)
(* for any document, and the market-data service, for every strategy       *)
(* (feeds, timeframes, required bars, mode) and every poll budget: its     *)
(* types, that its connection state is its stream's, that trade readiness  *)
(* waits for the replay of the stream in use, and that it implements       *)
(* WarmupService.                                                          *)
(***************************************************************************)
EXTENDS CommandLoop, StrategyLoader, MarketDataService, FiniteSetTheorems,
        SequenceTheorems, TLAPS

StackTyped ==
  /\ pc \in [Clients -> Steps]
  /\ accepted \in [Clients -> Nat]
  /\ outcome \in [Clients -> Outcomes]
  /\ journal \in [Clients -> SUBSET Records]
  /\ answer \in [Clients -> Answers]
  /\ plan = [c \in Clients |-> plan[c]]
  /\ request = [c \in Clients |-> request[c]]

Decided(c) == Decision(strategy, Req(c))

\* What must be on record before the first broker call.
Audited(c) ==
  /\ Decided(c) = "accepted"
  /\ {"intent_received", "accepted"} \subseteq journal[c]
  /\ OverrideReasons(strategy, Req(c)) # {} => "hard_override" \in journal[c]

OutcomeRecords == {"dispatch_skipped", "dispatch_failed", "dispatch_succeeded"}

Untouched(c) == journal[c] = {} /\ outcome[c] = "none" /\ accepted[c] = 0

HandlerInv(c) ==
  /\ pc[c] \in {"idle", "build", "sanitize", "wait", "intent"} => Untouched(c)
  /\ pc[c] # "done" => answer[c] = "none" /\ journal[c] \cap OutcomeRecords = {}
  /\ pc[c] \in {"decide", "override"} => "intent_received" \in journal[c]
  /\ pc[c] \in {"decide", "override", "plan"} => accepted[c] = 0
  /\ pc[c] \in {"decide", "plan", "execute"} => outcome[c] = "none"
  /\ pc[c] = "override" => Decided(c) \in journal[c] /\ outcome[c] = DecidedOutcome(c)
  /\ pc[c] \in {"plan", "execute"} \/ accepted[c] > 0 => Audited(c)
  /\ pc[c] = "report" => outcome[c] # "none"
  /\ outcome[c] = "succeeded" => accepted[c] = Len(plan[c]) /\ Decided(c) = "accepted"
  /\ outcome[c] = "skipped" => accepted[c] = 0 /\ Decided(c) # "accepted"
  /\ "dispatch_succeeded" \in journal[c] => outcome[c] = "succeeded"
  /\ "dispatch_skipped" \in journal[c] => outcome[c] = "skipped"
  /\ answer[c] = "accepted" => "dispatch_succeeded" \in journal[c]
  /\ answer[c] \in {"rejected", "requires_override"} => "dispatch_skipped" \in journal[c]

LoopInv ==
  /\ StackTyped
  /\ DispatchesDoNotInterleave
  /\ \A c \in Clients : HandlerInv(c)

-----------------------------------------------------------------------------
\* A risk decision is one of three.
LEMMA DecisionIsOneOfThree ==
  ASSUME NEW s, NEW r
  PROVE  Decision(s, r) \in Decisions
  BY DEF Decision, Decisions

\* An accepted entry whose required protection is missing was overridden.
LEMMA AcceptanceNeedsOverride ==
  ASSUME NEW s, NEW r, Decision(s, r) = "accepted", OverrideReasons(s, r) # {}
  PROVE  r.hard_override
<1>1. IsEntry(r)
  BY DEF OverrideReasons
<1>2. SUFFICES ASSUME ~r.hard_override PROVE FALSE
  OBVIOUS
<1> QED BY <1>1, <1>2, Zenon DEF Decision

\* What a handler knows is about itself: it still knows it after a step that
\* changes nothing of its own.
LEMMA HandlerFrame ==
  ASSUME NEW c \in Clients, HandlerInv(c), strategy' = strategy,
         pc'[c] = pc[c], request'[c] = request[c], plan'[c] = plan[c],
         accepted'[c] = accepted[c], outcome'[c] = outcome[c],
         journal'[c] = journal[c], answer'[c] = answer[c]
  PROVE  HandlerInv(c)'
<1>1. Req(c)' = Req(c)
  BY Zenon DEF Req
<1>2. /\ Decided(c)' = Decided(c)
      /\ OverrideReasons(strategy, Req(c))' = OverrideReasons(strategy, Req(c))
      /\ DecidedOutcome(c)' = DecidedOutcome(c)
  BY <1>1 DEF Decided, DecidedOutcome
<1> QED BY <1>2 DEF HandlerInv, Untouched, Audited

\* A step of handler c, as the other handlers see it.
OwnStep(c) ==
  /\ strategy' = strategy
  /\ \A d \in Clients \ {c} :
       /\ pc'[d] = pc[d] /\ request'[d] = request[d] /\ plan'[d] = plan[d]
       /\ accepted'[d] = accepted[d] /\ outcome'[d] = outcome[d]
       /\ journal'[d] = journal[d] /\ answer'[d] = answer[d]

\* After a step of handler c the others still know it of themselves.
LEMMA OthersKeep ==
  ASSUME NEW c \in Clients, \A d \in Clients : HandlerInv(d), OwnStep(c),
         HandlerInv(c)'
  PROVE  (\A d \in Clients : HandlerInv(d))'
<1>1. ASSUME NEW d \in Clients, d # c PROVE HandlerInv(d)'
  BY <1>1, HandlerFrame DEF OwnStep
<1> QED BY <1>1

-----------------------------------------------------------------------------
(* Up to the lock, and after the answer                                    *)

\* A command that is received, built or sanitized, or waits, has done nothing yet.
LEMMA ApproachKeeps ==
  ASSUME LoopInv, NEW c \in Clients,
         \/ \E cmd \in Commands : Receive(c, cmd)
         \/ Build(c) \/ Sanitize(c) \/ Acquire(c)
  PROVE  LoopInv'
<1> USE DEF exec_vars, KeepAccount, Go, Answer, Steps
<1>1. CASE \E cmd \in Commands : Receive(c, cmd)
  <2> PICK cmd \in Commands : Receive(c, cmd)
    BY <1>1
  <2>1. StackTyped'
    BY DEF Receive, LoopInv, StackTyped
  <2>2. DispatchesDoNotInterleave'
    BY DEF Receive, LoopInv, StackTyped, DispatchesDoNotInterleave, InService
  <2>3. HandlerInv(c)'
    BY DEF Receive, LoopInv, StackTyped, HandlerInv, Untouched
  <2>4. OwnStep(c)
    BY DEF Receive, LoopInv, StackTyped, OwnStep
  <2> QED BY <2>1, <2>2, <2>3, <2>4, OthersKeep DEF LoopInv
<1>2. CASE Build(c)
  <2>0. /\ pc[c] = "build"
        /\ \/ pc' = [pc EXCEPT ![c] = "sanitize"] /\ UNCHANGED answer
           \/ pc' = [pc EXCEPT ![c] = "done"] /\ answer' = [answer EXCEPT ![c] = "error"]
        /\ UNCHANGED <<strategy, request, holder, plan, accepted, outcome, journal>>
    BY <1>2, Zenon DEF Build
  <2>1. StackTyped'
    BY <2>0 DEF LoopInv, StackTyped, Answers
  <2>2. DispatchesDoNotInterleave'
    BY <2>0 DEF LoopInv, StackTyped, DispatchesDoNotInterleave, InService
  <2>3. HandlerInv(c)'
    BY <2>0 DEF LoopInv, StackTyped, HandlerInv, Untouched
  <2>4. OwnStep(c)
    BY <2>0 DEF LoopInv, StackTyped, OwnStep
  <2> QED BY <2>1, <2>2, <2>3, <2>4, OthersKeep DEF LoopInv
<1>3. CASE Sanitize(c)
  <2>0. /\ pc[c] = "sanitize" /\ pc' = [pc EXCEPT ![c] = "wait"]
        /\ \E r : request' = [request EXCEPT ![c] = {r}]
        /\ UNCHANGED <<strategy, holder, plan, accepted, outcome, journal, answer>>
    BY <1>3 DEF Sanitize
  <2>1. StackTyped'
    BY <2>0 DEF LoopInv, StackTyped
  <2>2. DispatchesDoNotInterleave'
    BY <2>0 DEF LoopInv, StackTyped, DispatchesDoNotInterleave, InService
  <2>3. HandlerInv(c)'
    BY <2>0 DEF LoopInv, StackTyped, HandlerInv, Untouched
  <2>4. OwnStep(c)
    BY <2>0 DEF LoopInv, StackTyped, OwnStep
  <2> QED BY <2>1, <2>2, <2>3, <2>4, OthersKeep DEF LoopInv
<1>4. CASE Acquire(c)
  <2>1. StackTyped'
    BY <1>4 DEF Acquire, LoopInv, StackTyped
  <2>2. DispatchesDoNotInterleave'
    BY <1>4 DEF Acquire, LoopInv, StackTyped, DispatchesDoNotInterleave, InService
  <2>3. HandlerInv(c)'
    BY <1>4 DEF Acquire, LoopInv, StackTyped, HandlerInv, Untouched
  <2>4. OwnStep(c)
    BY <1>4 DEF Acquire, LoopInv, StackTyped, OwnStep
  <2> QED BY <2>1, <2>2, <2>3, <2>4, OthersKeep DEF LoopInv
<1> QED BY <1>1, <1>2, <1>3, <1>4

\* Returning clears everything the handler had.
LEMMA ReturnKeeps ==
  ASSUME LoopInv, NEW c \in Clients, Return(c)
  PROVE  LoopInv'
<1> USE DEF Go, Steps
<1>1. StackTyped'
  BY DEF Return, LoopInv, StackTyped, Outcomes, Answers
<1>2. DispatchesDoNotInterleave'
  BY DEF Return, LoopInv, StackTyped, DispatchesDoNotInterleave, InService
<1>3. HandlerInv(c)'
  BY DEF Return, LoopInv, StackTyped, HandlerInv, Untouched, OutcomeRecords
<1>4. OwnStep(c)
  BY DEF Return, LoopInv, StackTyped, OwnStep
<1> QED BY <1>1, <1>2, <1>3, <1>4, OthersKeep DEF LoopInv

-----------------------------------------------------------------------------
(* Under the lock                                                          *)

\* The decision is a function of the strategy and the request.
LEMMA SameDecision ==
  ASSUME NEW c \in Clients, strategy' = strategy, request'[c] = request[c]
  PROVE  UNCHANGED <<Decided(c), OverrideReasons(strategy, Req(c)), DecidedOutcome(c)>>
<1>1. Req(c)' = Req(c)
  BY Zenon DEF Req
<1> QED BY <1>1 DEF Decided, DecidedOutcome

\* The intent is stored, or the command ends with nothing done.
LEMMA JournalIntentKeeps ==
  ASSUME LoopInv, NEW c \in Clients, JournalIntent(c)
  PROVE  LoopInv'
<1> USE DEF Go, Answer, Steps, KeepAccount, AppendFails
<1>1. StackTyped'
  BY DEF JournalIntent, LoopInv, StackTyped, Outcomes, Records, Answers
<1>2. DispatchesDoNotInterleave'
  BY DEF JournalIntent, LoopInv, StackTyped, DispatchesDoNotInterleave, InService
<1>3. OwnStep(c)
  BY DEF JournalIntent, LoopInv, StackTyped, OwnStep
<1>4. UNCHANGED <<Decided(c), OverrideReasons(strategy, Req(c)), DecidedOutcome(c)>>
  BY SameDecision DEF JournalIntent
<1>5. HandlerInv(c)'
  BY <1>4 DEF JournalIntent, LoopInv, StackTyped, HandlerInv, Untouched, Audited,
              OutcomeRecords, Records
<1> QED BY <1>1, <1>2, <1>3, <1>5, OthersKeep DEF LoopInv

\* A stored acceptance without reasons to override is all a plan needs.
LEMMA DecideKeeps ==
  ASSUME LoopInv, NEW c \in Clients, Decide(c)
  PROVE  LoopInv'
<1> USE DEF Go, Answer, Steps, KeepAccount, AppendFails
<1>0. Decided(c) \in Decisions
  BY DecisionIsOneOfThree DEF Decided
<1>1. StackTyped'
  BY <1>0 DEF Decide, LoopInv, StackTyped, Outcomes, Records, Answers, AfterDecision,
              DecidedOutcome, Decisions, Decided
<1>2. DispatchesDoNotInterleave'
  BY <1>0 DEF Decide, LoopInv, StackTyped, DispatchesDoNotInterleave, InService,
              AfterDecision, DecidedOutcome, Decisions, Decided
<1>3. OwnStep(c)
  BY <1>0 DEF Decide, LoopInv, StackTyped, OwnStep, AfterDecision, DecidedOutcome,
              Decisions, Decided
<1>4. UNCHANGED <<Decided(c), OverrideReasons(strategy, Req(c)), DecidedOutcome(c)>>
  BY SameDecision DEF Decide, AfterDecision, DecidedOutcome, Decisions, Decided
<1>5. HandlerInv(c)'
  <2>1. CASE AppendFails(c, Decided(c)) /\ UNCHANGED outcome
    BY <1>0, <1>4, <2>1 DEF Decide, LoopInv, StackTyped, HandlerInv, Untouched, Audited,
       OutcomeRecords, Records, Decisions
  <2>2. CASE /\ journal' = [journal EXCEPT ![c] = @ \cup {Decided(c)}]
             /\ pc' = [pc EXCEPT ![c] =
                         IF OverrideReasons(strategy, Req(c)) = {}
                         THEN IF Decided(c) = "accepted" THEN "plan" ELSE "report"
                         ELSE "override"]
             /\ outcome' = [outcome EXCEPT ![c] = DecidedOutcome(c)]
             /\ UNCHANGED answer
    <3>1. DecidedOutcome(c) = IF Decided(c) = "accepted" THEN "none" ELSE "skipped"
      BY DEF DecidedOutcome, Decided
    <3>2. pc[c] = "decide" /\ UNCHANGED <<accepted, plan>>
      BY DEF Decide
    <3> QED BY <1>0, <1>4, <2>2, <3>1, <3>2 DEF LoopInv, StackTyped, HandlerInv, Untouched,
               Audited, OutcomeRecords, Decisions
  <2> QED BY <2>1, <2>2 DEF Decide, AfterDecision, Decided
<1> QED BY <1>1, <1>2, <1>3, <1>5, OthersKeep DEF LoopInv

\* With reasons, the override record is needed as well.
LEMMA JournalOverrideKeeps ==
  ASSUME LoopInv, NEW c \in Clients, JournalOverride(c)
  PROVE  LoopInv'
<1> USE DEF Go, Answer, Steps, KeepAccount, AppendFails
<1>1. StackTyped'
  BY DEF JournalOverride, LoopInv, StackTyped, Outcomes, Records, Answers, AfterDecision
<1>2. DispatchesDoNotInterleave'
  BY DEF JournalOverride, LoopInv, StackTyped, DispatchesDoNotInterleave, InService, AfterDecision
<1>3. OwnStep(c)
  BY DEF JournalOverride, LoopInv, StackTyped, OwnStep, AfterDecision
<1>4. UNCHANGED <<Decided(c), OverrideReasons(strategy, Req(c)), DecidedOutcome(c)>>
  BY SameDecision DEF JournalOverride, AfterDecision
<1>5. HandlerInv(c)'
  <2>1. DecidedOutcome(c) = IF Decided(c) = "accepted" THEN "none" ELSE "skipped"
    BY DEF DecidedOutcome, Decided
  <2>2. AfterDecision(c) = IF Decided(c) = "accepted" THEN "plan" ELSE "report"
    BY DEF AfterDecision, Decided
  <2> QED BY <1>4, <2>1, <2>2 DEF JournalOverride, LoopInv, StackTyped, HandlerInv,
             Untouched, Audited, OutcomeRecords
<1> QED BY <1>1, <1>2, <1>3, <1>5, OthersKeep DEF LoopInv

\* Planning calls nobody; an empty plan has been carried out.
LEMMA PlanOrdersKeeps ==
  ASSUME LoopInv, NEW c \in Clients, PlanOrders(c)
  PROVE  LoopInv'
<1> USE DEF Go, Steps, KeepAccount
<1>1. StackTyped'
  BY DEF PlanOrders, LoopInv, StackTyped, Outcomes, Records, Answers
<1>2. DispatchesDoNotInterleave'
  BY DEF PlanOrders, LoopInv, StackTyped, DispatchesDoNotInterleave, InService
<1>3. OwnStep(c)
  BY DEF PlanOrders, LoopInv, StackTyped, OwnStep
<1>4. UNCHANGED <<Decided(c), OverrideReasons(strategy, Req(c)), DecidedOutcome(c)>>
  BY SameDecision DEF PlanOrders
<1>5. HandlerInv(c)'
  BY <1>4 DEF PlanOrders, LoopInv, StackTyped, HandlerInv, Untouched, Audited, OutcomeRecords
<1> QED BY <1>1, <1>2, <1>3, <1>5, OthersKeep DEF LoopInv

\* A caller gets Ok only for a call the broker took.
LEMMA SuccessIsTaken ==
  ASSUME NEW call, NEW end \in BrokerCall(call), end.ok
  PROVE  end.taken
BY DEF BrokerCall, PlaceOrder, PlaceOso, LiquidatePosition, CancelOrder, PostExecution,
       Responses, Succeeded, Unsent

\* A call the broker takes counts; success is reported after the last one only.
LEMMA CallBrokerKeeps ==
  ASSUME LoopInv, NEW c \in Clients, CallBroker(c)
  PROVE  LoopInv'
<1> USE DEF Go, Steps
<1>0. /\ pc[c] = "execute"
      /\ \/ /\ accepted' = [accepted EXCEPT ![c] = @ + 1]
            /\ \/ /\ accepted[c] + 1 = Len(plan[c])
                  /\ outcome' = [outcome EXCEPT ![c] = "succeeded"]
                  /\ pc' = [pc EXCEPT ![c] = "report"]
               \/ UNCHANGED <<outcome, pc>>
         \/ /\ accepted' \in {accepted, [accepted EXCEPT ![c] = @ + 1]}
            /\ outcome' = [outcome EXCEPT ![c] = "failed"]
            /\ pc' = [pc EXCEPT ![c] = "report"]
      /\ UNCHANGED <<strategy, request, holder, plan, journal, answer>>
  BY SuccessIsTaken, Zenon DEF CallBroker, TakeCall, FailDispatch
<1>1. StackTyped'
  <2>1. accepted[c] + 1 \in Nat
    BY DEF LoopInv, StackTyped
  <2>2. accepted' \in [Clients -> Nat]
    BY <1>0, <2>1 DEF LoopInv, StackTyped
  <2>3. pc' \in [Clients -> Steps] /\ outcome' \in [Clients -> Outcomes]
    BY <1>0 DEF LoopInv, StackTyped, Outcomes
  <2> QED BY <1>0, <2>2, <2>3 DEF LoopInv, StackTyped
<1>2. DispatchesDoNotInterleave'
  BY <1>0 DEF LoopInv, StackTyped, DispatchesDoNotInterleave, InService
<1>3. OwnStep(c)
  BY <1>0 DEF LoopInv, StackTyped, OwnStep
<1>4. UNCHANGED <<Decided(c), OverrideReasons(strategy, Req(c)), DecidedOutcome(c)>>
  BY <1>0, SameDecision
<1>5. HandlerInv(c)'
  BY <1>0, <1>4 DEF LoopInv, StackTyped, HandlerInv, Untouched, Audited, OutcomeRecords
<1> QED BY <1>1, <1>2, <1>3, <1>5, OthersKeep DEF LoopInv

\* What is stored and answered is the outcome.
LEMMA ReportKeeps ==
  ASSUME LoopInv, NEW c \in Clients, Report(c)
  PROVE  LoopInv'
<1> USE DEF Go, Answer, Steps, KeepAccount, AppendFails, OutcomeRecord
<1>0. Decided(c) \in Decisions
  BY DecisionIsOneOfThree DEF Decided
<1>1. StackTyped'
  BY <1>0 DEF Report, LoopInv, StackTyped, Outcomes, Records, Answers, Decisions, Decided
<1>2. DispatchesDoNotInterleave'
  BY <1>0 DEF Report, LoopInv, StackTyped, DispatchesDoNotInterleave, InService, Decisions, Decided
<1>3. OwnStep(c)
  BY <1>0 DEF Report, LoopInv, StackTyped, OwnStep, Decisions, Decided
<1>4. UNCHANGED <<Decided(c), OverrideReasons(strategy, Req(c)), DecidedOutcome(c)>>
  BY SameDecision DEF Report, Decisions, Decided
<1>5. HandlerInv(c)'
  BY <1>0, <1>4 DEF Report, LoopInv, StackTyped, HandlerInv, Untouched, Audited,
     OutcomeRecords, Records, Outcomes, Decisions, Decided
<1> QED BY <1>1, <1>2, <1>3, <1>5, OthersKeep DEF LoopInv

-----------------------------------------------------------------------------
(* The invariant and what follows from it                                  *)

\* The invariant of the loop holds at the start,
LEMMA LoopInitially ==
  CommandInit => LoopInv
<1> SUFFICES ASSUME CommandInit PROVE LoopInv
  OBVIOUS
<1>1. StackTyped
  BY DEF CommandInit, StackTyped, Steps, Outcomes, Answers
<1>2. DispatchesDoNotInterleave
  BY DEF CommandInit, DispatchesDoNotInterleave, InService
<1>3. \A c \in Clients : HandlerInv(c)
  BY DEF CommandInit, HandlerInv, Untouched
<1> QED BY <1>1, <1>2, <1>3 DEF LoopInv

\* A step that is no handler's leaves them all alone.
LEMMA OutsideKeeps ==
  ASSUME LoopInv,
         UNCHANGED <<strategy, pc, command, request, holder, exec_vars>>
  PROVE  LoopInv'
<1>1. StackTyped'
  BY DEF LoopInv, StackTyped, exec_vars
<1>2. DispatchesDoNotInterleave'
  BY DEF LoopInv, DispatchesDoNotInterleave
<1>3. ASSUME NEW c \in Clients PROVE HandlerInv(c)'
  BY HandlerFrame DEF LoopInv, exec_vars
<1> QED BY <1>1, <1>2, <1>3 DEF LoopInv

\* and every step keeps it.
LEMMA LoopStep ==
  LoopInv /\ [CommandNext]_vars => LoopInv'
<1> SUFFICES ASSUME LoopInv, [CommandNext]_vars PROVE LoopInv'
  OBVIOUS
<1>1. ASSUME NEW c \in Clients,
             \/ \E cmd \in Commands : Receive(c, cmd)
             \/ Build(c) \/ Sanitize(c) \/ Acquire(c)
      PROVE  LoopInv'
  BY <1>1, ApproachKeeps, Zenon
<1>2. ASSUME NEW c \in Clients,
             \/ JournalIntent(c) \/ Decide(c) \/ JournalOverride(c)
             \/ PlanOrders(c) \/ CallBroker(c) \/ Report(c) \/ Return(c)
      PROVE  LoopInv'
  BY <1>2, JournalIntentKeeps, DecideKeeps, JournalOverrideKeeps, PlanOrdersKeeps,
     CallBrokerKeeps, ReportKeeps, ReturnKeeps, Zenon
<1>3. CASE AccountMoves
  BY <1>3, OutsideKeeps DEF AccountMoves
<1>4. CASE SyncCache
  BY <1>4, OutsideKeeps DEF SyncCache
<1>5. CASE UNCHANGED vars
  BY <1>5, OutsideKeeps DEF vars, exec_vars
<1> QED BY <1>1, <1>2, <1>3, <1>4, <1>5, Zenon DEF CommandNext

THEOREM LoopInvariant ==
  CommandSpec => []LoopInv
<1> QED BY LoopInitially, LoopStep, PTL DEF CommandSpec

\* The lock of command_handler and dispatch_lifecycle_execution_request: while a
\* handler is in handle_command no other is, whatever fails in between.
THEOREM DispatchesAreSerial ==
  CommandSpec => []DispatchesDoNotInterleave
<1>1. LoopInv => DispatchesDoNotInterleave
  BY DEF LoopInv
<1> QED BY <1>1, LoopInvariant, PTL

\* handle_command calls the broker only once the intent, the acceptance and any
\* override are journalled, and an acceptance despite missing protection is one
\* the client overrode.
THEOREM OrdersAreAudited ==
  CommandSpec => []AcceptedOrdersAudited
<1>1. ASSUME LoopInv PROVE AcceptedOrdersAudited
  <2> SUFFICES ASSUME NEW c \in Clients, accepted[c] > 0
               PROVE  /\ {"intent_received", "accepted"} \subseteq journal[c]
                      /\ OverrideReasons(strategy, Req(c)) # {} =>
                           Req(c).hard_override /\ "hard_override" \in journal[c]
    BY DEF AcceptedOrdersAudited
  <2>1. Audited(c)
    BY <1>1 DEF LoopInv, HandlerInv
  <2>2. OverrideReasons(strategy, Req(c)) # {} => Req(c).hard_override
    BY <2>1, AcceptanceNeedsOverride DEF Audited, Decided
  <2> QED BY <2>1, <2>2 DEF Audited
<1> QED BY <1>1, LoopInvariant, PTL

\* What handle_command stores as a dispatch outcome, and what it answers, is what
\* execute_tradovate_plan did.
THEOREM OutcomesAreTrue ==
  CommandSpec => []OutcomeIsTrue
<1>1. LoopInv => OutcomeIsTrue
  BY DEF LoopInv, HandlerInv, OutcomeIsTrue
<1> QED BY <1>1, LoopInvariant, PTL

-----------------------------------------------------------------------------
(* Sizes and quantities                                                    *)

\* The greater of a number and an optional one.
LEMMA MaxWithOption ==
  ASSUME NEW n \in Nat, NEW x, IsOption(x, Nat)
  PROVE  /\ Max({n} \cup x) \in {n} \cup x
         /\ \A m \in {n} \cup x : m <= Max({n} \cup x)
<1>1. CASE x = {}
  <2>1. {n} \cup x = {n}
    BY <1>1
  <2>2. Max({n}) = n
    BY DEF Max
  <2> QED BY <2>1, <2>2
<1>2. CASE x # {}
  <2>1. PICK m \in Nat : x = {m}
    BY <1>2 DEF IsOption
  <2>2. \E k \in {n, m} : \A j \in {n, m} : k >= j
    BY <2>1
  <2>3. {n} \cup x = {n, m}
    BY <2>1
  <2>4. Max({n, m}) \in {n, m} /\ \A j \in {n, m} : Max({n, m}) >= j
    BY <2>2 DEF Max
  <2> QED BY <2>1, <2>3, <2>4
<1> QED BY <1>1, <1>2

\* The lesser of a number and an optional one.
LEMMA MinWithOption ==
  ASSUME NEW n \in Nat, NEW x, IsOption(x, Nat)
  PROVE  /\ Min({n} \cup x) \in {n} \cup x
         /\ \A m \in {n} \cup x : Min({n} \cup x) <= m
<1>1. CASE x = {}
  <2>1. {n} \cup x = {n}
    BY <1>1
  <2>2. Min({n}) = n
    BY DEF Min
  <2> QED BY <2>1, <2>2
<1>2. CASE x # {}
  <2>1. PICK m \in Nat : x = {m}
    BY <1>2 DEF IsOption
  <2>2. \E k \in {n, m} : \A j \in {n, m} : k <= j
    BY <2>1
  <2>3. {n} \cup x = {n, m}
    BY <2>1
  <2>4. Min({n, m}) \in {n, m} /\ \A j \in {n, m} : Min({n, m}) <= j
    BY <2>2 DEF Min
  <2> QED BY <2>1, <2>3, <2>4
<1> QED BY <1>1, <1>2

\* resolve_entry_quantity never returns more than max_contracts, and for a strategy
\* sized by risk no more than max_risk_usd pays for, unless it is the strategy's
\* own minimum or within its fallback for a stop it pays for no contract of, or for more
\* than a u32 can count.
THEOREM EntryQuantityWithinRisk ==
  ASSUME NEW s, IsStrategy(s), NEW requested \in Nat, NEW known \in BOOLEAN,
         NEW quantity \in EntryQuantity(s, requested, known)
  PROVE  /\ \A most \in s.max_contracts : quantity <= most
         /\ s.sizing = "risk_based" =>
              \/ quantity <= s.affordable
              \/ quantity \in s.min_contracts
              \/ s.affordable \notin 1..MaxQuantity /\ \E most \in s.fallback : quantity <= most
<1> DEFINE base == IF s.sizing = "fixed"
                   THEN (IF s.contracts = {} THEN {requested} ELSE s.contracts) \ {0}
                   ELSE IF ~known \/ s.affordable < 0 THEN {}
                   ELSE IF ComputedQuantity(s) > 0 THEN {ComputedQuantity(s)}
                   ELSE IF s.fallback # {} THEN s.fallback ELSE {0}
<1>1. PICK b \in base : quantity = Bounded(s, b)
  BY DEF EntryQuantity
<1>2. /\ s.affordable \in Nat \cup {-1} /\ IsOption(s.contracts, Nat)
      /\ IsOption(s.fallback, Nat) /\ IsOption(s.min_contracts, Nat)
      /\ IsOption(s.max_contracts, Nat)
  BY DEF IsStrategy
<1>3. b \in Nat
  BY <1>2 DEF IsOption, ComputedQuantity
<1> DEFINE raised == Max({b} \cup s.min_contracts)
<1>4. raised \in {b} \cup s.min_contracts
  BY <1>2, <1>3, MaxWithOption
<1>5. raised \in Nat
  BY <1>2, <1>3, <1>4 DEF IsOption
<1> HIDE DEF raised
<1>6. quantity = Min({raised} \cup s.max_contracts)
  BY <1>1 DEF Bounded, raised
<1>7. /\ quantity \in {raised} \cup s.max_contracts
      /\ \A m \in {raised} \cup s.max_contracts : quantity <= m
  BY <1>2, <1>5, <1>6, MinWithOption
<1>8. ASSUME s.sizing = "risk_based"
      PROVE  \/ quantity <= s.affordable
             \/ quantity \in s.min_contracts
             \/ s.affordable \notin 1..MaxQuantity /\ \E most \in s.fallback : quantity <= most
  <2>1. \/ b = s.affordable
        \/ s.affordable \notin 1..MaxQuantity /\ b \in s.fallback
        \/ s.affordable \in Nat /\ b = 0
    BY <1>1, <1>2, <1>8, MaxQuantityAssumption DEF ComputedQuantity
  <2>2. \A lo \in s.min_contracts, hi \in s.max_contracts : lo <= hi
    BY <1>2 DEF EntryQuantity, IsOption
  <2>3. CASE raised \in s.min_contracts
    BY <1>2, <1>5, <1>7, <2>2, <2>3 DEF IsOption
  <2>4. CASE raised = b
    BY <1>2, <1>3, <1>7, <2>1, <2>4
  <2> QED BY <1>4, <2>3, <2>4
<1> QED BY <1>7, <1>8

\* An Option that was read is one for the planner.
LEMMA OptionalIsOption ==
  ASSUME NEW S, NEW x \in Optional(S)
  PROVE  IsOption(x, S)
BY DEF Optional, IsOption

\* The strategies CommandLoop is about are those the loader compiles: what
\* StrictStrategyCompiler checks of sizing, execution and trade management is what the
\* risk and execution engines rely on.
THEOREM CompiledIsLoadable ==
  ASSUME NEW Timeframe, NEW Condition, NEW document \in Documents(Timeframe, Condition),
         NEW day_length, IsCompiled(document, day_length), NEW affordable \in Nat \cup {-1}
  PROVE  IsLoadable(AsPlanned(document, affordable))
<1> DEFINE s == AsPlanned(document, affordable)
           sizing == document.position_sizing
           execution == document.execution
<1>1. sizing \in PositionSizing /\ execution \in ExecutionSpec
  BY DEF Documents
<1>2. /\ s.reversal = execution.reversal_mode /\ s.scale_in = execution.allow_scale_in
      /\ s.max_legs = execution.max_legs /\ s.sizing = sizing.mode
      /\ s.affordable = affordable /\ s.contracts = sizing.contracts
      /\ s.fallback = sizing.fallback_fixed_contracts
      /\ s.min_contracts = sizing.min_contracts /\ s.max_contracts = sizing.max_contracts
      /\ s.order_type = document.entry_rules.entry_order_type
  BY DEF AsPlanned
<1>3. ValidPositionSizing(sizing) /\ ValidExecution(execution)
  BY DEF IsCompiled
<1>4. /\ IsOption(s.contracts, Nat) /\ IsOption(s.fallback, Nat)
      /\ IsOption(s.min_contracts, Nat) /\ IsOption(s.max_contracts, Nat)
  <2>1. /\ sizing.contracts \in Optional(Nat) /\ sizing.fallback_fixed_contracts \in Optional(Nat)
        /\ sizing.min_contracts \in Optional(Nat) /\ sizing.max_contracts \in Optional(Nat)
    BY <1>1 DEF PositionSizing
  <2> QED BY <1>2, <2>1, OptionalIsOption
<1>5. /\ s.reversal \in {"flatten_first", "direct_reverse"}
      /\ s.scale_in \in BOOLEAN /\ s.max_legs \in Nat \ {0}
      /\ s.sizing \in {"fixed", "risk_based"}
  BY <1>1, <1>2, <1>3 DEF ExecutionSpec, PositionSizing, ValidExecution
<1>6. s.order_type \in OrderTypes
  <2>1. document.entry_rules \in EntryRules(Condition)
    BY DEF Documents
  <2> QED BY <1>2, <2>1 DEF EntryRules, OrderTypes
<1>7. s.trailing \in BOOLEAN /\ s.partial_take_profit \in BOOLEAN /\ s.prefers_brackets \in BOOLEAN
  BY DEF AsPlanned, Enabled
<1>8. /\ s.required \subseteq Features
      /\ s.required \cap {"stop_loss", "take_profit"} # {} => s.prefers_brackets
  <2>1. s.required = {feature \in Protections :
                        execution.broker_preferences[feature] = "broker_required"}
                       \cup (IF document.risk.broker_side_required THEN {"daily_loss"} ELSE {})
    BY DEF AsPlanned
  <2>2. s.prefers_brackets <=> \E feature \in {"stop_loss", "take_profit"} :
                                 execution.broker_preferences[feature] # "bot_allowed"
    BY DEF AsPlanned
  <2> QED BY <2>1, <2>2 DEF Protections, Features
<1>9. /\ s.sizing = "fixed" => s.contracts # {} /\ 0 \notin s.contracts
      /\ s.sizing = "risk_based" =>
           /\ 0 \notin s.fallback \cup s.min_contracts \cup s.max_contracts
           /\ \A lo \in s.min_contracts, hi \in s.max_contracts : lo <= hi
  BY <1>2, <1>3 DEF ValidPositionSizing, Positive
<1> HIDE DEF s
<1> QED BY <1>2, <1>4, <1>5, <1>6, <1>7, <1>8, <1>9 DEF IsLoadable, IsStrategy, s

\* Which strategies that load can never enter, with a known tick value: those of a fixed
\* size whose bounds cross or whose maximum is zero, which the loader does not look at,
\* and those whose risk is not positive, or pays for no contract, or for more than a u32
\* can count, while the strategy has neither a fallback nor a minimum.
THEOREM LoadedCanEnter ==
  ASSUME NEW s, IsLoadable(s), NEW requested \in Nat
  PROVE  EntryQuantity(s, requested, TRUE) \ {0} = {} <=>
           \/ /\ s.sizing = "fixed"
              /\ \/ 0 \in s.max_contracts
                 \/ \E lo \in s.min_contracts, hi \in s.max_contracts : lo > hi
           \/ /\ s.sizing = "risk_based"
              /\ \/ s.affordable < 0
                 \/ /\ s.affordable = 0 \/ s.affordable > MaxQuantity
                    /\ s.fallback = {} /\ s.min_contracts = {}
<1> DEFINE crossed == \E lo \in s.min_contracts, hi \in s.max_contracts : lo > hi
           none == s.affordable = 0 \/ s.affordable > MaxQuantity
           poor == none /\ s.fallback = {} /\ s.min_contracts = {}
<1>1. /\ s.affordable \in Nat \cup {-1} /\ IsOption(s.contracts, Nat)
      /\ IsOption(s.fallback, Nat) /\ IsOption(s.min_contracts, Nat)
      /\ IsOption(s.max_contracts, Nat) /\ s.sizing \in {"fixed", "risk_based"}
  BY DEF IsLoadable, IsStrategy
<1>2. ASSUME NEW b \in Nat, b > 0 \/ s.min_contracts # {}, 0 \notin s.min_contracts \/ b > 0,
             0 \notin s.max_contracts
      PROVE  Bounded(s, b) # 0
  <2> DEFINE raised == Max({b} \cup s.min_contracts)
  <2>1. /\ raised \in {b} \cup s.min_contracts
        /\ \A m \in {b} \cup s.min_contracts : m <= raised
    BY <1>1, MaxWithOption
  <2>2. raised \in Nat
    BY <1>1, <2>1 DEF IsOption
  <2>3. raised # 0
    BY <1>1, <1>2, <2>1, <2>2 DEF IsOption
  <2> HIDE DEF raised
  <2>4. Min({raised} \cup s.max_contracts) \in {raised} \cup s.max_contracts
    BY <1>1, <2>2, MinWithOption
  <2> QED BY <1>2, <2>3, <2>4 DEF Bounded, raised
<1>3. CASE s.sizing = "fixed"
  <2>1. PICK c \in Nat \ {0} : s.contracts = {c}
    BY <1>1, <1>3 DEF IsLoadable, IsOption
  <2>2. CASE crossed
    BY <1>1, <1>3, <2>2 DEF EntryQuantity
  <2>3. CASE ~crossed
    <3>1. EntryQuantity(s, requested, TRUE) = {Bounded(s, c)}
      BY <1>3, <2>1, <2>3 DEF EntryQuantity
    <3>2. 0 \notin s.max_contracts => Bounded(s, c) # 0
      BY <1>2, <2>1
    <3>3. ASSUME 0 \in s.max_contracts
          PROVE  Bounded(s, c) = 0
      <4> DEFINE raised == Max({c} \cup s.min_contracts)
      <4>1. raised \in {c} \cup s.min_contracts
        BY <1>1, MaxWithOption
      <4>2. raised \in Nat
        BY <1>1, <4>1 DEF IsOption
      <4> HIDE DEF raised
      <4>3. /\ Min({raised} \cup s.max_contracts) \in {raised} \cup s.max_contracts
            /\ Min({raised} \cup s.max_contracts) <= 0
        BY <1>1, <3>3, <4>2, MinWithOption
      <4> QED BY <1>1, <4>2, <4>3 DEF Bounded, raised, IsOption
    <3> QED BY <1>3, <2>3, <3>1, <3>2, <3>3
  <2> QED BY <2>2, <2>3
<1>4. CASE s.sizing = "risk_based"
  <2>1. /\ 0 \notin s.fallback /\ 0 \notin s.min_contracts /\ 0 \notin s.max_contracts
        /\ ~crossed
    BY <1>1, <1>4 DEF IsLoadable, IsOption
  <2>2. CASE s.affordable < 0
    BY <1>1, <1>4, <2>2 DEF EntryQuantity
  <2>3. CASE s.affordable >= 0
    <3> DEFINE base == IF ComputedQuantity(s) > 0 THEN {ComputedQuantity(s)}
                       ELSE IF s.fallback # {} THEN s.fallback ELSE {0}
    <3>1. EntryQuantity(s, requested, TRUE) = {Bounded(s, b) : b \in base} \ {0}
      <4>1. s.sizing # "fixed" /\ ~(s.affordable < 0)
        BY <1>1, <1>4, <2>3
      <4> QED BY <4>1, <2>1 DEF EntryQuantity
    <3>2. PICK b \in Nat : base = {b} /\ (b = 0 <=> none /\ s.fallback = {})
      <4>1. ComputedQuantity(s) \in Nat /\ (ComputedQuantity(s) = 0 <=> none)
        BY <1>1, <2>3, MaxQuantityAssumption DEF ComputedQuantity
      <4> QED BY <1>1, <2>1, <4>1 DEF IsOption
    <3>3. CASE poor
      <4>1. b = 0 /\ {0} \cup s.min_contracts = {0}
        BY <3>2, <3>3
      <4>2. Max({0} \cup s.min_contracts) = 0
        BY <4>1 DEF Max
      <4>3. Min({0} \cup s.max_contracts) = 0
        <5>1. /\ Min({0} \cup s.max_contracts) \in {0} \cup s.max_contracts
              /\ Min({0} \cup s.max_contracts) <= 0
          <6>1. PICK zero \in Nat : zero = 0
            OBVIOUS
          <6>2. PICK max : max = s.max_contracts /\ IsOption(max, Nat)
            BY <1>1
          <6>3. /\ Min({zero} \cup max) \in {zero} \cup max
                /\ \A m \in {zero} \cup max : Min({zero} \cup max) <= m
            BY <6>2, MinWithOption
          <6>4. zero \in {zero} \cup max
            OBVIOUS
          <6> QED BY <6>1, <6>2, <6>3, <6>4
        <5> QED BY <1>1, <5>1 DEF IsOption
      <4>4. Bounded(s, b) = 0
        BY <4>1, <4>2, <4>3 DEF Bounded
      <4> QED BY <1>4, <3>1, <3>2, <3>3, <4>4
    <3>4. CASE ~poor
      <4>1. Bounded(s, b) # 0
        BY <1>2, <2>1, <3>2, <3>4
      <4>2. EntryQuantity(s, requested, TRUE) \ {0} # {}
        BY <3>1, <3>2, <4>1
      <4>3. ~(s.affordable < 0) /\ s.sizing # "fixed"
        BY <1>1, <1>4, <2>3
      <4> QED BY <3>4, <4>2, <4>3
    <3> QED BY <3>3, <3>4
  <2>4. s.affordable < 0 \/ s.affordable >= 0
    BY <1>1
  <2> QED BY <2>2, <2>3, <2>4
<1> QED BY <1>1, <1>3, <1>4

\* Whatever the reversal mode, the entry order plan_entry builds takes the position
\* it was planned on, or what the liquidation before it leaves of that position, to
\* where the intent says, as long as close and entry together fit into a u32.
THEOREM EntryOrderReachesTarget ==
  ASSUME NEW s, IsStrategy(s), NEW r, IsRequest(r), IsEntry(r),
         NEW n \in Int \ {0}, r.position = {[contract |-> Traded, quantity |-> n]},
         NEW quantity \in Nat \ {0},
         Reverses(r) /\ s.reversal = "direct_reverse" => quantity + Size(n) <= MaxQuantity,
         NEW legs \in ClosingLegs(s, r)
  PROVE  (IF legs = <<>> THEN n ELSE 0)
           + Signed(r.intent.side, EffectiveQuantity(s, r, quantity))
         = Target(n, r.intent, quantity)
<1>1. r.intent.side \in Sides /\ r.intent.kind = "enter"
  BY DEF IsRequest, Intents, IsEntry
<1>2. Reverses(r) <=> SideOf(n) # r.intent.side
  BY DEF Reverses
<1>3. s.reversal \in {"flatten_first", "direct_reverse"}
  BY DEF IsStrategy
<1>4. {Size(p.quantity) : p \in r.position} = {Size(n)}
  OBVIOUS
<1>5. Size(n) \in Nat /\ Max({Size(n)}) = Size(n)
  BY DEF Size, Max
<1>6. ASSUME Reverses(r), s.reversal = "direct_reverse"
      PROVE  Min({MaxQuantity, quantity + Size(n)}) = quantity + Size(n)
  <2>1. \A x \in {MaxQuantity, quantity + Size(n)} : x >= quantity + Size(n)
    BY <1>5, <1>6, MaxQuantityAssumption
  <2>2. \A x \in {MaxQuantity, quantity + Size(n)} :
          (\A y \in {MaxQuantity, quantity + Size(n)} : x <= y) => x = quantity + Size(n)
    BY <1>5, <1>6, MaxQuantityAssumption
  <2>3. \E x \in {MaxQuantity, quantity + Size(n)} :
          \A y \in {MaxQuantity, quantity + Size(n)} : x <= y
    BY <2>1, <1>5, MaxQuantityAssumption
  <2> QED BY <2>2, <2>3 DEF Min
<1>7. EffectiveQuantity(s, r, quantity) =
        IF Reverses(r) /\ s.reversal = "direct_reverse"
        THEN quantity + Size(n) ELSE quantity
  BY <1>4, <1>5, <1>6 DEF EffectiveQuantity
<1>8. legs = <<>> <=> ~(Reverses(r) /\ s.reversal = "flatten_first")
  <2>1. ASSUME NEW k PROVE <<Liquidate(k)>> # <<>>
    OBVIOUS
  <2>2. CASE Reverses(r) /\ s.reversal = "flatten_first"
    BY <2>1, <2>2 DEF ClosingLegs
  <2>3. CASE ~(Reverses(r) /\ s.reversal = "flatten_first")
    BY <2>3 DEF ClosingLegs
  <2> QED BY <2>2, <2>3
<1>9. Target(n, r.intent, quantity) =
        IF SideOf(n) = r.intent.side THEN n + Signed(r.intent.side, quantity)
        ELSE Signed(r.intent.side, quantity)
  BY <1>1 DEF Target
<1>10. CASE ~Reverses(r)
  BY <1>2, <1>7, <1>8, <1>9, <1>10 DEF Signed
<1>11. CASE Reverses(r) /\ s.reversal = "flatten_first"
  BY <1>2, <1>7, <1>8, <1>9, <1>11 DEF Signed
<1>12. CASE Reverses(r) /\ s.reversal = "direct_reverse"
  <2>1. n + Signed(r.intent.side, quantity + Size(n)) = Signed(r.intent.side, quantity)
    BY <1>1, <1>2, <1>12 DEF Signed, Size, SideOf, Sides
  <2> QED BY <1>2, <1>7, <1>8, <1>9, <1>12, <2>1
<1> QED BY <1>3, <1>10, <1>11, <1>12

-----------------------------------------------------------------------------
(* What a plan does to the traded position                                 *)

\* A call is in some contract; an order is in the traded one.
IsCall(call) ==
  /\ call.call \in {"liquidate", "order", "oso", "cancel", "pause"}
  /\ call.contract \in Contracts
  /\ call.call \in {"order", "oso"} =>
       call.contract = Traded /\ call.side \in Sides /\ call.quantity \in Nat

\* A plan that can be carried out call by call.
IsPlan(p) ==
  /\ Len(p) \in Nat /\ (p # <<>> => Len(p) > 0)
  /\ \A i \in 1 .. Len(p) : IsCall(p[i])

\* One call is a plan, and so are two.
LEMMA CallsArePlans ==
  ASSUME NEW first, IsCall(first), NEW second, IsCall(second)
  PROVE  /\ IsPlan(<<first>>) /\ IsPlan(<<first, second>>)
         /\ Append(<<first>>, second) = <<first, second>>
<1>1. IsPlan(<<first>>)
  BY DEF IsPlan
<1>2. /\ Len(<<first, second>>) = 2
      /\ <<first, second>>[1] = first /\ <<first, second>>[2] = second
  OBVIOUS
<1>3. IsPlan(<<first, second>>)
  BY <1>2 DEF IsPlan
<1>4. <<first>> \in Seq({first, second})
  OBVIOUS
<1>5. Append(<<first>>, second) = <<first, second>>
  <2> DEFINE S == {first, second}
             one == <<first>>
  <2>1. one \in Seq(S) /\ Len(one) = 1 /\ one[1] = first /\ second \in S
    BY <1>4
  <2> HIDE DEF S
  <2> HIDE DEF one
  <2> DEFINE both == Append(one, second)
  <2>2. both \in Seq(S)
    BY <2>1
  <2>5. Len(both) = Len(one) + 1
    BY <2>1, AppendProperties
  <2>3. both[1] = first /\ both[2] = second
    BY <2>1, AppendProperties
  <2> HIDE DEF both
  <2>4. both = <<first, second>>
    BY <2>1, <2>2, <2>3, <2>5
  <2> QED BY <2>4 DEF both, one
<1> QED BY <1>1, <1>3, <1>5

\* What is read of one working order or position.
LEMMA OptionIsSingleton ==
  ASSUME NEW S, NEW x, IsOption(x, S), x # {}
  PROVE  \E e \in S : x = {e}
BY DEF IsOption

\* What an entry is approved for is a natural number.
LEMMA ApprovedIsNatural ==
  ASSUME NEW s, IsStrategy(s), NEW r, IsRequest(r), NEW quantity \in Approved(s, r)
  PROVE  quantity \in Nat
<1>1. /\ r.intent.quantity \in Nat /\ r.intent.tick_value \in BOOLEAN
  BY DEF IsRequest, Intents
<1> DEFINE requested == r.intent.quantity
           known == r.intent.tick_value
           base == IF s.sizing = "fixed"
                   THEN (IF s.contracts = {} THEN {requested} ELSE s.contracts) \ {0}
                   ELSE IF ~known \/ s.affordable < 0 THEN {}
                   ELSE IF ComputedQuantity(s) > 0 THEN {ComputedQuantity(s)}
                   ELSE IF s.fallback # {} THEN s.fallback ELSE {0}
<1>2. PICK b \in base : quantity = Bounded(s, b)
  BY DEF Approved, EntryQuantity
<1>3. /\ s.affordable \in Nat \cup {-1} /\ IsOption(s.contracts, Nat)
      /\ IsOption(s.fallback, Nat) /\ IsOption(s.min_contracts, Nat)
      /\ IsOption(s.max_contracts, Nat)
  BY DEF IsStrategy
<1>4. b \in Nat
  BY <1>1, <1>3 DEF IsOption, ComputedQuantity
<1> DEFINE raised == Max({b} \cup s.min_contracts)
<1>5. raised \in Nat
  <2>1. raised \in {b} \cup s.min_contracts
    BY <1>3, <1>4, MaxWithOption
  <2> QED BY <1>3, <1>4, <2>1 DEF IsOption
<1> HIDE DEF raised
<1>6. Min({raised} \cup s.max_contracts) \in {raised} \cup s.max_contracts
  BY <1>3, <1>5, MinWithOption
<1> QED BY <1>2, <1>3, <1>5, <1>6 DEF Bounded, raised, IsOption

\* A direct reversal's quantity is that of the entry and the position, as far as it fits.
LEMMA EffectiveIsNatural ==
  ASSUME NEW s, NEW r, IsRequest(r), NEW quantity \in Nat
  PROVE  EffectiveQuantity(s, r, quantity) \in Nat
<1>1. CASE Reverses(r) /\ s.reversal = "direct_reverse"
  <2> DEFINE S == [contract : Contracts, quantity : Int \ {0}]
  <2>a. r.position # {} /\ IsOption(r.position, S)
    BY <1>1 DEF Reverses, IsRequest
  <2> HIDE DEF S
  <2>b. PICK x \in S : r.position = {x}
    BY <2>a, OptionIsSingleton
  <2>1. x \in [contract : Contracts, quantity : Int \ {0}] /\ r.position = {x}
    BY <2>b DEF S
  <2>2. {Size(p.quantity) : p \in r.position} = {Size(x.quantity)}
    BY <2>1
  <2>3. Size(x.quantity) \in Nat
    BY <2>1 DEF Size
  <2>4. Max({Size(x.quantity)}) = Size(x.quantity)
    BY DEF Max
  <2> DEFINE sum == quantity + Size(x.quantity)
  <2>5. sum \in Nat
    BY <2>3
  <2> HIDE DEF sum
  <2>6. IsOption({sum}, Nat)
    BY <2>5 DEF IsOption
  <2>7. Min({MaxQuantity} \cup {sum}) \in {MaxQuantity} \cup {sum}
    BY <2>6, MaxQuantityAssumption, MinWithOption
  <2>8. {MaxQuantity} \cup {sum} = {MaxQuantity, sum}
    OBVIOUS
  <2> QED BY <1>1, <2>2, <2>4, <2>5, <2>7, <2>8, MaxQuantityAssumption
          DEF EffectiveQuantity, sum
<1>2. CASE ~(Reverses(r) /\ s.reversal = "direct_reverse")
  BY <1>2 DEF EffectiveQuantity
<1> QED BY <1>1, <1>2

\* The contract that is liquidated is one of the broker's.
LEMMA ClosingIsCall ==
  ASSUME NEW r, IsRequest(r), NEW k \in ContractId(r)
  PROVE  IsCall(Liquidate(k)) /\ IsPlan(<<Liquidate(k)>>)
<1>1. k \in Contracts
  BY DEF ContractId, IsRequest, IsOption
<1>2. IsCall(Liquidate(k))
  BY <1>1 DEF IsCall, Liquidate
<1> QED BY <1>2, CallsArePlans

\* What plan_entry's order is.
LEMMA EntryLegIsCall ==
  ASSUME NEW s, NEW r, IsRequest(r), NEW quantity \in Nat
  PROVE  IsCall(EntryLeg(s, r, quantity))
<1>1. r.intent.side \in Sides
  BY DEF IsRequest, Intents
<1>2. EffectiveQuantity(s, r, quantity) \in Nat
  BY EffectiveIsNatural
<1> QED BY <1>1, <1>2, TradedAssumption DEF IsCall, EntryLeg, Submit

\* Every plan the planner makes can be carried out.
LEMMA PlansArePlans ==
  ASSUME NEW s, IsStrategy(s), NEW r, IsRequest(r), NEW p \in Plans(s, r)
  PROVE  IsPlan(p)
<1>0. r.intent.kind \in IntentKinds
  BY DEF IsRequest, Intents
<1>1. CASE r.intent.kind = "enter"
  <2>1. PICK legs \in ClosingLegs(s, r), quantity \in Approved(s, r) \ {0} :
          p = Append(legs, EntryLeg(s, r, quantity))
    BY <1>1 DEF Plans, EntryPlans
  <2>2. IsCall(EntryLeg(s, r, quantity))
    BY ApprovedIsNatural, EntryLegIsCall
  <2> DEFINE leg == EntryLeg(s, r, quantity)
  <2> HIDE DEF leg
  <2>3. CASE legs = <<>>
    <3>1. p = <<leg>>
      BY <2>1, <2>3 DEF leg
    <3> QED BY <2>2, <3>1, CallsArePlans DEF leg
  <2>4. CASE legs # <<>>
    <3>1. PICK k \in ContractId(r) : legs = <<Liquidate(k)>>
      BY <2>4 DEF ClosingLegs
    <3>2. IsCall(Liquidate(k))
      BY ClosingIsCall
    <3> QED BY <2>1, <2>2, <3>1, <3>2, CallsArePlans
  <2> QED BY <2>3, <2>4
<1>2. IsPlan(<<>>)
  BY DEF IsPlan
<1>3. CASE r.intent.kind = "flatten"
  <2>1. p \in FlattenPlans(r)
    BY <1>3 DEF Plans
  <2> QED BY <1>2, <2>1, ClosingIsCall DEF FlattenPlans
<1>4. CASE r.intent.kind = "reduce"
  <2>1. p \in ReducePlans(r)
    BY <1>4 DEF Plans
  <2>2. PICK x \in r.position :
          \/ p \in FlattenPlans(r)
          \/ p = <<Submit(Opposite(SideOf(x.quantity)), r.intent.quantity, FALSE)>>
    BY <2>1 DEF ReducePlans
  <2>3. IsCall(Submit(Opposite(SideOf(x.quantity)), r.intent.quantity, FALSE))
    BY TradedAssumption DEF IsCall, Submit, Opposite, Sides, IsRequest, Intents
  <2>4. CASE p \in FlattenPlans(r)
    BY <1>2, <2>4, ClosingIsCall DEF FlattenPlans
  <2> DEFINE leg == Submit(Opposite(SideOf(x.quantity)), r.intent.quantity, FALSE)
  <2> HIDE DEF leg
  <2>5. CASE p = <<leg>>
    BY <2>3, <2>5, CallsArePlans DEF leg
  <2> QED BY <2>2, <2>4, <2>5 DEF leg
<1>5. CASE r.intent.kind = "cancel"
  <2> DEFINE n == Cardinality(r.working)
  <2>1. p \in CancelPlans(r)
    BY <1>5 DEF Plans
  <2>2. r.working # {}
    BY <2>1 DEF CancelPlans
  <2>3. PICK o \in [1 .. n -> r.working] : p = [i \in 1 .. n |-> Cancel(o[i])]
    BY <2>1, <2>2 DEF CancelPlans
  <2>4. n \in Nat /\ n # 0
    BY <2>2, FS_CardinalityType, FS_EmptySet DEF IsRequest
  <2> HIDE DEF n
  <2>5. Len(p) = n
    BY <2>3, <2>4
  <2>6. ASSUME NEW i \in 1 .. n PROVE IsCall(p[i])
    <3>1. p[i] = Cancel(o[i])
      BY <2>3
    <3> QED BY <3>1, TradedAssumption DEF IsCall, Cancel
  <2> QED BY <2>4, <2>5, <2>6 DEF IsPlan
<1>6. CASE r.intent.kind = "pause"
  <2>1. p = <<PauseStrategy>>
    BY <1>6 DEF Plans
  <2>2. IsCall(PauseStrategy)
    BY TradedAssumption DEF IsCall, PauseStrategy
  <2> QED BY <2>1, <2>2, CallsArePlans
<1> QED BY <1>0, <1>1, <1>3, <1>4, <1>5, <1>6 DEF IntentKinds

\* What a call that the broker takes does to the position in its contract.
Moved(n, call) ==
  CASE call.call = "liquidate" -> 0
    [] call.call \in {"order", "oso"} -> n + Signed(call.side, call.quantity)
    [] OTHER -> n
Idle(call) == call.call \in {"cancel", "pause"}

\* Where k calls of a plan take position n; a plan of more than two moves nothing.
Reached(n, p, k) ==
  CASE k = 1 -> Moved(n, p[1])
    [] k = 2 -> Moved(Moved(n, p[1]), p[2])
    [] OTHER -> n

InTraded(r) == r.contract_id \cup {x.contract : x \in r.position} \subseteq {Traded}
IsShort(p) == Len(p) <= 2 \/ \A i \in 1 .. Len(p) : Idle(p[i])
Stays(p) == IsShort(p) /\ \A i \in 1 .. Len(p) : p[i].contract = Traded

\* One or two calls in the traded contract.
LEMMA CallsStay ==
  ASSUME NEW first, first.contract = Traded, NEW second, second.contract = Traded
  PROVE  Stays(<<first>>) /\ Stays(<<first, second>>)
<1>1. /\ Len(<<first, second>>) = 2
      /\ <<first, second>>[1] = first /\ <<first, second>>[2] = second
  OBVIOUS
<1>2. Stays(<<first, second>>)
  BY <1>1 DEF Stays, IsShort
<1>3. Stays(<<first>>)
  BY DEF Stays, IsShort
<1> QED BY <1>2, <1>3

\* A request about the traded contract alone is planned in that contract.
LEMMA PlansStay ==
  ASSUME NEW s, IsStrategy(s), NEW r, IsRequest(r), InTraded(r), NEW p \in Plans(s, r)
  PROVE  Stays(p)
<1>0. r.intent.kind \in IntentKinds
  BY DEF IsRequest, Intents
<1>a. ASSUME NEW k \in ContractId(r) PROVE Liquidate(k).contract = Traded
  BY DEF ContractId, InTraded, Liquidate
<1>b. ASSUME NEW side, NEW quantity, NEW brackets
      PROVE  Submit(side, quantity, brackets).contract = Traded
  BY DEF Submit
<1>c. ASSUME NEW q \in FlattenPlans(r) PROVE Stays(q)
  <2>1. Stays(<<>>)
    BY DEF Stays, IsShort
  <2>2. ASSUME NEW k \in ContractId(r) PROVE Stays(<<Liquidate(k)>>)
    BY <1>a, CallsStay
  <2> QED BY <2>1, <2>2 DEF FlattenPlans
<1>1. CASE r.intent.kind = "enter"
  <2>1. PICK legs \in ClosingLegs(s, r), quantity \in Approved(s, r) \ {0} :
          p = Append(legs, EntryLeg(s, r, quantity))
    BY <1>1 DEF Plans, EntryPlans
  <2> DEFINE leg == EntryLeg(s, r, quantity)
  <2>2. leg.contract = Traded /\ IsCall(leg)
    BY <1>b, ApprovedIsNatural, EntryLegIsCall DEF EntryLeg
  <2> HIDE DEF leg
  <2>3. CASE legs = <<>>
    <3>1. p = <<leg>>
      BY <2>1, <2>3 DEF leg
    <3> QED BY <2>2, <3>1, CallsStay
  <2>4. CASE legs # <<>>
    <3>1. PICK k \in ContractId(r) : legs = <<Liquidate(k)>>
      BY <2>4 DEF ClosingLegs
    <3>2. IsCall(Liquidate(k)) /\ Liquidate(k).contract = Traded
      BY <1>a, ClosingIsCall
    <3>3. p = <<Liquidate(k), leg>>
      BY <2>1, <2>2, <3>1, <3>2, CallsArePlans DEF leg
    <3> QED BY <2>2, <3>2, <3>3, CallsStay
  <2> QED BY <2>3, <2>4
<1>3. CASE r.intent.kind = "flatten"
  BY <1>3, <1>c DEF Plans
<1>4. CASE r.intent.kind = "reduce"
  <2>1. p \in ReducePlans(r)
    BY <1>4 DEF Plans
  <2>2. PICK x \in r.position :
          \/ p \in FlattenPlans(r)
          \/ p = <<Submit(Opposite(SideOf(x.quantity)), r.intent.quantity, FALSE)>>
    BY <2>1 DEF ReducePlans
  <2> QED BY <1>b, <1>c, <2>2, CallsStay
<1>5. CASE r.intent.kind = "cancel"
  <2> DEFINE n == Cardinality(r.working)
  <2>1. p \in CancelPlans(r)
    BY <1>5 DEF Plans
  <2>2. r.working # {}
    BY <2>1 DEF CancelPlans
  <2>3. PICK o \in [1 .. n -> r.working] : p = [i \in 1 .. n |-> Cancel(o[i])]
    BY <2>1, <2>2 DEF CancelPlans
  <2>4. n \in Nat
    BY FS_CardinalityType DEF IsRequest
  <2> HIDE DEF n
  <2>5. Len(p) = n
    BY <2>3, <2>4
  <2>6. ASSUME NEW i \in 1 .. n PROVE Idle(p[i]) /\ p[i].contract = Traded
    <3>1. p[i] = Cancel(o[i])
      BY <2>3
    <3> QED BY <3>1 DEF Idle, Cancel
  <2> QED BY <2>5, <2>6 DEF Stays, IsShort
<1>6. CASE r.intent.kind = "pause"
  <2>1. p = <<PauseStrategy>>
    BY <1>6 DEF Plans
  <2>2. PauseStrategy.contract = Traded
    BY DEF PauseStrategy
  <2> QED BY <2>1, <2>2, CallsStay
<1> QED BY <1>0, <1>1, <1>3, <1>4, <1>5, <1>6 DEF IntentKinds

\* One call more.
LEMMA ReachedNext ==
  ASSUME NEW n \in Int, NEW p, IsPlan(p), IsShort(p), NEW k \in Nat, k < Len(p)
  PROVE  Reached(n, p, k + 1) = Moved(Reached(n, p, k), p[k + 1])
<1>1. CASE k = 0
  BY <1>1 DEF Reached
<1>2. CASE k = 1
  BY <1>2 DEF Reached
<1>3. CASE k >= 2
  <2>1. Len(p) > 2
    BY <1>3 DEF IsPlan
  <2>2. \A i \in 1 .. Len(p) : Idle(p[i])
    BY <2>1 DEF IsShort, IsPlan
  <2>3. /\ p[1].call \in {"cancel", "pause"} /\ p[2].call \in {"cancel", "pause"}
        /\ p[k + 1].call \in {"cancel", "pause"}
    BY <1>3, <2>1, <2>2 DEF Idle, IsPlan
  <2>4. \A m : Moved(m, p[1]) = m /\ Moved(m, p[2]) = m /\ Moved(m, p[k + 1]) = m
    BY <2>3 DEF Moved
  <2>5. Reached(n, p, k) = n /\ Reached(n, p, k + 1) = n
    BY <1>3, <2>4 DEF Reached
  <2> QED BY <2>4, <2>5
<1> QED BY <1>1, <1>2, <1>3

\* The position a request was planned on.
Found(r) == IF r.position = {} THEN 0 ELSE (CHOOSE x \in r.position : TRUE).quantity

\* A position that was found is open, in the traded contract.
LEMMA FoundIsPosition ==
  ASSUME NEW r, IsRequest(r), InTraded(r)
  PROVE  /\ Found(r) \in Int
         /\ r.position = {} => Found(r) = 0
         /\ r.position # {} => /\ Found(r) # 0
                              /\ r.position = {[contract |-> Traded, quantity |-> Found(r)]}
<1>1. CASE r.position = {}
  BY <1>1 DEF Found
<1>2. CASE r.position # {}
  <2> DEFINE S == [contract : Contracts, quantity : Int \ {0}]
  <2>1. IsOption(r.position, S)
    BY DEF IsRequest
  <2> HIDE DEF S
  <2>0. PICK x \in S : r.position = {x}
    BY <1>2, <2>1, OptionIsSingleton
  <2>2. x \in [contract : Contracts, quantity : Int \ {0}] /\ r.position = {x}
    BY <2>0 DEF S
  <2>3. (CHOOSE y \in r.position : TRUE) = x
    BY <2>2
  <2>4. Found(r) = x.quantity
    BY <1>2, <2>3 DEF Found
  <2>5. x.contract = Traded
    BY <2>2 DEF InTraded
  <2>6. x = [contract |-> x.contract, quantity |-> x.quantity]
    BY <2>2
  <2> QED BY <1>2, <2>2, <2>4, <2>5, <2>6
<1> QED BY <1>1, <1>2

\* A call that liquidates ends at zero, an order adds to its side.
LEMMA CallsMove ==
  ASSUME NEW n \in Int
  PROVE  /\ \A k : Moved(n, Liquidate(k)) = 0
         /\ \A side, quantity, brackets :
              Moved(n, Submit(side, quantity, brackets)) = n + Signed(side, quantity)
<1>1. ASSUME NEW k PROVE Moved(n, Liquidate(k)) = 0
  BY DEF Moved, Liquidate
<1>2. ASSUME NEW side, NEW quantity, NEW brackets
      PROVE  Moved(n, Submit(side, quantity, brackets)) = n + Signed(side, quantity)
  <2> DEFINE call == Submit(side, quantity, brackets)
  <2>1. call.call \in {"order", "oso"} /\ call.side = side /\ call.quantity = quantity
    BY DEF Submit
  <2> HIDE DEF call
  <2>2. Moved(n, call) = n + Signed(side, quantity)
    BY <2>1 DEF Moved
  <2> QED BY <2>2 DEF call
<1> QED BY <1>1, <1>2

\* Where the calls of a short plan end.
LEMMA ReachedAtEnd ==
  ASSUME NEW n, NEW first, NEW second
  PROVE  /\ Reached(n, <<>>, Len(<<>>)) = n
         /\ Reached(n, <<first>>, Len(<<first>>)) = Moved(n, first)
         /\ Reached(n, <<first, second>>, Len(<<first, second>>)) = Moved(Moved(n, first), second)
<1>1. Len(<<>>) = 0 /\ Len(<<first>>) = 1 /\ <<first>>[1] = first
  OBVIOUS
<1>2. /\ Len(<<first, second>>) = 2
      /\ <<first, second>>[1] = first /\ <<first, second>>[2] = second
  OBVIOUS
<1> QED BY <1>1, <1>2 DEF Reached

\* An entry's plan ends where the entry is to be.
LEMMA EntryArrives ==
  ASSUME NEW s, IsStrategy(s), NEW r, IsRequest(r), InTraded(r), IsEntry(r),
         NEW p \in Plans(s, r),
         Reverses(r) /\ s.reversal = "direct_reverse" =>
           \A quantity \in Approved(s, r) : quantity + Size(Found(r)) <= MaxQuantity
  PROVE  \E quantity \in Approved(s, r) \ {0} :
           Reached(Found(r), p, Len(p)) = Target(Found(r), r.intent, quantity)
<1>1. PICK legs \in ClosingLegs(s, r), quantity \in Approved(s, r) \ {0} :
        p = Append(legs, EntryLeg(s, r, quantity))
  BY DEF Plans, EntryPlans, IsEntry
<1>2. quantity \in Nat \ {0}
  BY ApprovedIsNatural
<1> DEFINE leg == EntryLeg(s, r, quantity)
           n == Found(r)
           sent == EffectiveQuantity(s, r, quantity)
<1>3. n \in Int /\ IsCall(leg) /\ sent \in Nat
  BY <1>2, FoundIsPosition, EntryLegIsCall, EffectiveIsNatural
<1>4. \A m \in Int : Moved(m, leg) = m + Signed(r.intent.side, sent)
  BY CallsMove DEF EntryLeg
<1> HIDE DEF leg, n, sent
<1>5. Reached(n, p, Len(p)) = (IF legs = <<>> THEN n ELSE 0) + Signed(r.intent.side, sent)
  <2>1. CASE legs = <<>>
    <3>1. p = <<leg>>
      BY <1>1, <2>1 DEF leg
    <3>2. Len(p) = 1 /\ p[1] = leg
      BY <3>1
    <3>3. Reached(n, p, Len(p)) = Moved(n, leg)
      BY <3>2 DEF Reached
    <3>4. Moved(n, leg) = n + Signed(r.intent.side, sent)
      BY <1>3, <1>4
    <3> QED BY <2>1, <3>3, <3>4
  <2>2. CASE legs # <<>>
    <3>1. PICK k \in ContractId(r) : legs = <<Liquidate(k)>>
      BY <2>2 DEF ClosingLegs
    <3>2. p = <<Liquidate(k), leg>>
      BY <1>1, <1>3, <3>1, ClosingIsCall, CallsArePlans DEF leg
    <3>3. Moved(n, Liquidate(k)) = 0
      BY <1>3, CallsMove
    <3>4. Reached(n, p, Len(p)) = Moved(Moved(n, Liquidate(k)), leg)
      <4> DEFINE close == Liquidate(k)
      <4>1. p = <<close, leg>>
        BY <3>2
      <4> HIDE DEF close
      <4>2. Reached(n, p, Len(p)) = Moved(Moved(n, close), leg)
        <5>1. Len(p) = 2 /\ p[1] = close /\ p[2] = leg
          BY <4>1
        <5> QED BY <5>1 DEF Reached
      <4> QED BY <4>2 DEF close
    <3> QED BY <1>4, <2>2, <3>3, <3>4
  <2> QED BY <2>1, <2>2
<1>6. Reached(n, p, Len(p)) = Target(n, r.intent, quantity)
  <2>1. CASE r.position = {}
    <3>1. n = 0 /\ ~Reverses(r)
      BY <2>1, FoundIsPosition DEF n, Reverses
    <3>2. legs = <<>> /\ sent = quantity
      BY <3>1 DEF ClosingLegs, EffectiveQuantity, sent
    <3> QED BY <1>5, <3>1, <3>2 DEF Target, IsEntry
  <2>2. CASE r.position # {}
    <3>1. n # 0 /\ r.position = {[contract |-> Traded, quantity |-> n]}
      BY <2>2, FoundIsPosition DEF n
    <3>2. Reverses(r) /\ s.reversal = "direct_reverse" => quantity + Size(n) <= MaxQuantity
      BY DEF n
    <3> QED BY <1>2, <1>3, <1>5, <3>1, <3>2, EntryOrderReachesTarget DEF sent
  <2> QED BY <2>1, <2>2
<1> QED BY <1>6 DEF n

\* So does any plan.
LEMMA PlansArrive ==
  ASSUME NEW s, IsStrategy(s), NEW r, IsRequest(r), InTraded(r), ~IsEntry(r),
         NEW p \in Plans(s, r)
  PROVE  Reached(Found(r), p, Len(p)) = Target(Found(r), r.intent, r.intent.quantity)
<1> DEFINE n == Found(r)
           quantity == r.intent.quantity
<1>1. n \in Int /\ quantity \in Nat /\ r.intent.kind \in IntentKinds /\ r.intent.kind # "enter"
  BY FoundIsPosition DEF IsRequest, Intents, IsEntry
<1>2. ASSUME NEW q \in FlattenPlans(r) PROVE Reached(n, q, Len(q)) = 0
  <2>1. CASE r.position = {}
    <3>1. q = <<>> /\ n = 0
      BY <2>1, FoundIsPosition DEF FlattenPlans
    <3> QED BY <3>1, ReachedAtEnd
  <2>2. CASE r.position # {}
    <3>1. PICK k \in ContractId(r) : q = <<Liquidate(k)>>
      BY <2>2 DEF FlattenPlans
    <3>2. Reached(n, q, Len(q)) = Moved(n, Liquidate(k))
      BY <3>1, ReachedAtEnd
    <3> QED BY <1>1, <3>2, CallsMove
  <2> QED BY <2>1, <2>2
<1>3. CASE r.intent.kind = "flatten"
  BY <1>2, <1>3 DEF Plans, Target
<1>4. CASE r.intent.kind = "reduce"
  <2>1. p \in ReducePlans(r) /\ r.position # {}
    BY <1>4 DEF Plans, ReducePlans
  <2>2. n # 0 /\ r.position = {[contract |-> Traded, quantity |-> n]}
    BY <2>1, FoundIsPosition
  <2> HIDE DEF n
  <2>3. p \in IF quantity >= Size(n) THEN FlattenPlans(r)
             ELSE {<<Submit(Opposite(SideOf(n)), quantity, FALSE)>>}
    <3>1. PICK x \in r.position :
            p \in IF quantity >= Size(x.quantity) THEN FlattenPlans(r)
                  ELSE {<<Submit(Opposite(SideOf(x.quantity)), quantity, FALSE)>>}
      BY <2>1 DEF ReducePlans
    <3>2. x.quantity = n
      BY <2>2
    <3> QED BY <3>1, <3>2
  <2>4. CASE quantity >= Size(n)
    BY <1>2, <1>4, <2>3, <2>4 DEF Target, n
  <2>5. CASE ~(quantity >= Size(n))
    <3> DEFINE call == Submit(Opposite(SideOf(n)), quantity, FALSE)
    <3>1. p = <<call>>
      BY <2>3, <2>5
    <3>2. Moved(n, call) = n + Signed(Opposite(SideOf(n)), quantity)
      BY <1>1, CallsMove
    <3> HIDE DEF call
    <3>3. Reached(n, p, Len(p)) = n + Signed(Opposite(SideOf(n)), quantity)
      <4>1. Len(p) = 1 /\ p[1] = call
        BY <3>1
      <4>2. Reached(n, p, Len(p)) = Moved(n, call)
        BY <4>1 DEF Reached
      <4> QED BY <3>2, <4>2
    <3>4. n + Signed(Opposite(SideOf(n)), quantity) = Signed(SideOf(n), Size(n) - quantity)
      BY <1>1, <2>5 DEF Signed, Opposite, SideOf, Size
    <3> QED BY <1>4, <2>5, <3>3, <3>4 DEF Target, n
  <2> QED BY <2>4, <2>5
<1>5. CASE r.intent.kind \in {"cancel", "pause"}
  <2>1. \A i \in 1 .. Len(p) : Idle(p[i])
    <3>1. CASE r.intent.kind = "pause"
      <4>1. p = <<PauseStrategy>> /\ Idle(PauseStrategy)
        BY <3>1 DEF Plans, Idle, PauseStrategy
      <4> QED BY <4>1
    <3>2. CASE r.intent.kind = "cancel"
      <4> DEFINE m == Cardinality(r.working)
      <4>1. p \in CancelPlans(r)
        BY <3>2 DEF Plans
      <4>2. r.working # {}
        BY <4>1 DEF CancelPlans
      <4>3. PICK o \in [1 .. m -> r.working] : p = [i \in 1 .. m |-> Cancel(o[i])]
        BY <4>1, <4>2 DEF CancelPlans
      <4>4. m \in Nat
        BY FS_CardinalityType DEF IsRequest
      <4> HIDE DEF m
      <4>5. Len(p) = m
        BY <4>3, <4>4
      <4>6. ASSUME NEW i \in 1 .. m PROVE Idle(p[i])
        <5>1. p[i] = Cancel(o[i])
          BY <4>3
        <5> QED BY <5>1 DEF Idle, Cancel
      <4> QED BY <4>5, <4>6
    <3> QED BY <1>5, <3>1, <3>2
  <2>2. \A i \in 1 .. Len(p) : \A x : Moved(x, p[i]) = x
    BY <2>1 DEF Moved, Idle
  <2>3. Len(p) \in Nat
    BY PlansArePlans DEF IsPlan
  <2>4. Reached(n, p, Len(p)) = n
    BY <2>2, <2>3 DEF Reached
  <2> QED BY <1>5, <2>4 DEF Target
<1> QED BY <1>1, <1>3, <1>4, <1>5 DEF IntentKinds

\* What an entry that arrived has added is what was approved.
LEMMA ArrivedAdds ==
  ASSUME NEW r, IsRequest(r), InTraded(r), IsEntry(r), NEW quantity \in Nat \ {0}
  PROVE  Size(Target(Found(r), r.intent, quantity))
           - (IF ScalesIn(r) THEN Size(Found(r)) ELSE 0) = quantity
<1> DEFINE n == Found(r)
<1>1. n \in Int /\ r.intent.side \in Sides
  BY FoundIsPosition DEF IsRequest, Intents
<1>2. ScalesIn(r) <=> n # 0 /\ SideOf(n) = r.intent.side
  BY FoundIsPosition DEF ScalesIn
<1> HIDE DEF n
<1>3. Target(n, r.intent, quantity) =
        IF n = 0 \/ SideOf(n) = r.intent.side
        THEN n + Signed(r.intent.side, quantity) ELSE Signed(r.intent.side, quantity)
  BY DEF Target, IsEntry
<1>4. Size(Target(n, r.intent, quantity)) - (IF ScalesIn(r) THEN Size(n) ELSE 0) = quantity
  BY <1>1, <1>2, <1>3 DEF Signed, Size, SideOf, Sides
<1> QED BY <1>4 DEF n

-----------------------------------------------------------------------------
(* What a handler knows of its command and of the account                  *)

CommandTyped(c) ==
  pc[c] \in {"build", "sanitize"} => \E cmd : command[c] = {cmd} /\ IsCommand(cmd)
RequestTyped(c) ==
  request[c] # {} => \E r : request[c] = {r} /\ IsRequest(r)
Planned(c) ==
  /\ pc[c] \in {"wait"} \cup InService \/ outcome[c] = "succeeded" => request[c] # {}
  /\ pc[c] = "execute" \/ outcome[c] = "succeeded" => plan[c] \in Plans(strategy, Req(c))
  /\ pc[c] = "execute" => accepted[c] < Len(plan[c])

\* As long as nobody else changes the account, it is where the calls so far took it.
Steady(c) ==
  undisturbed[c] =>
    /\ request[c] # {}
    /\ InTraded(Req(c)) /\ Fills(c) =>
         account.position[Traded] = Reached(Found(Req(c)), plan[c], accepted[c])

HandlerTarget(c) == CommandTyped(c) /\ RequestTyped(c) /\ Planned(c) /\ Steady(c)

TargetInv ==
  /\ strategy \in Strategies /\ IsAccount(account) /\ IsAccount(cache)
  /\ command = [c \in Clients |-> command[c]]
  /\ undisturbed \in [Clients -> BOOLEAN]
  /\ \A c \in Clients : HandlerTarget(c)

\* What a step leaves to a handler whose request, plan and calls it does not change.
Keeps(c) ==
  /\ request'[c] = request[c] /\ plan'[c] = plan[c] /\ accepted'[c] = accepted[c]
  /\ undisturbed'[c] => undisturbed[c] /\ account' = account
  /\ pc'[c] \in {"build", "sanitize"} =>
       \/ \E cmd : command'[c] = {cmd} /\ IsCommand(cmd)
       \/ pc[c] \in {"build", "sanitize"} /\ command'[c] = command[c]
  /\ pc'[c] \in {"wait"} \cup InService => pc[c] \in {"wait"} \cup InService
  /\ pc'[c] = "execute" => pc[c] = "execute"
  /\ outcome'[c] = "succeeded" => outcome[c] = "succeeded"

\* It still knows all of it.
LEMMA KeepsTarget ==
  ASSUME NEW c \in Clients, HandlerTarget(c), strategy' = strategy, Keeps(c)
  PROVE  HandlerTarget(c)'
<1>1. Req(c)' = Req(c)
  BY Zenon DEF Req, Keeps
<1>2. Fills(c)' = Fills(c)
  BY <1>1 DEF Fills, OrderType
<1>3. CommandTyped(c)' /\ RequestTyped(c)'
  BY DEF CommandTyped, RequestTyped, HandlerTarget, Keeps
<1>4. Planned(c)'
  BY <1>1 DEF Planned, HandlerTarget, Keeps
<1>5. Steady(c)'
  BY <1>1, <1>2 DEF Steady, HandlerTarget, Keeps
<1> QED BY <1>3, <1>4, <1>5 DEF HandlerTarget

\* The types that every step keeps.
LEMMA TypesOfTarget ==
  ASSUME TargetInv, strategy' = strategy, IsAccount(account'), cache' \in {cache, account},
         \/ command' = command
         \/ \E d, x : command' = [command EXCEPT ![d] = x],
         \/ undisturbed' = undisturbed
         \/ undisturbed' \in [Clients -> BOOLEAN],
         \A c \in Clients : HandlerTarget(c)'
  PROVE  TargetInv'
<1>1. command' = [c \in Clients |-> command'[c]]
  BY DEF TargetInv
<1>2. undisturbed' \in [Clients -> BOOLEAN]
  BY DEF TargetInv
<1>3. IsAccount(account)' /\ IsAccount(cache)'
  <2>1. IsAccount(cache')
    BY DEF TargetInv
  <2> QED BY <2>1 DEF IsAccount
<1> QED BY <1>1, <1>2, <1>3 DEF TargetInv

\* The handler's one request.
LEMMA OneRequest ==
  ASSUME NEW c \in Clients, RequestTyped(c), request[c] # {}
  PROVE  request[c] = {Req(c)} /\ IsRequest(Req(c))
<1>1. PICK r : request[c] = {r} /\ IsRequest(r)
  BY DEF RequestTyped
<1>2. Req(c) = r
  BY <1>1 DEF Req
<1> QED BY <1>1, <1>2

\* A snapshot's positions are those of the account, and open.
LEMMA HeldIsOpen ==
  ASSUME NEW a, IsAccount(a)
  PROVE  /\ \A x \in Held(a) : /\ x \in [contract : Contracts, quantity : Int \ {0}]
                                /\ x.quantity = a.position[x.contract]
         /\ Held(a) = {} => \A k \in Contracts : a.position[k] = 0
         /\ \A id : ActivePositions(a, id) \subseteq Held(a)
         /\ WorkingOrders(a) \subseteq Nat /\ IsFiniteSet(WorkingOrders(a))
<1>1. a.position \in [Contracts -> Int] /\ a.orders \in Seq(Contracts)
  BY DEF IsAccount, AccountSet
<1>2. ASSUME NEW x \in Held(a)
      PROVE  /\ x \in [contract : Contracts, quantity : Int \ {0}]
             /\ x.quantity = a.position[x.contract]
  BY <1>1 DEF Held
<1>3. ASSUME Held(a) = {}, NEW k \in Contracts PROVE a.position[k] = 0
  BY <1>3 DEF Held
<1>4. ASSUME NEW id PROVE ActivePositions(a, id) \subseteq Held(a)
  BY DEF ActivePositions
<1>5. WorkingOrders(a) \subseteq 1 .. Len(a.orders)
  BY DEF WorkingOrders, IsAccount
<1>6. IsFiniteSet(WorkingOrders(a))
  <2>1. Len(a.orders) \in Nat
    BY <1>1
  <2>2. IsFiniteSet(1 .. Len(a.orders))
    BY <2>1, FS_Interval
  <2> QED BY <1>5, <2>2, FS_Subset
<1> QED BY <1>2, <1>3, <1>4, <1>5, <1>6

\* What a manual entry is built of is still a command.
LEMMA BuiltIsCommand ==
  ASSUME TargetInv, NEW cmd, IsCommand(cmd), NEW id \in BuiltContracts(cache, cmd)
  PROVE  IsCommand([cmd EXCEPT !.contract_id = id, !.intent = BuiltIntent(@)])
<1>1. IsOption(id, Contracts)
  <2>1. IsAccount(cache)
    BY DEF TargetInv
  <2>2. cmd.contract_id \subseteq Contracts
    BY DEF IsCommand
  <2>3. CASE cmd.intent.kind = "enter"
    <3>1. \/ id = {}
          \/ \E x \in ActivePositions(cache, {}) : id = {x.contract}
      BY <2>3 DEF BuiltContracts
    <3>2. \A x \in ActivePositions(cache, {}) : x.contract \in Contracts
      BY <2>1, HeldIsOpen
    <3> QED BY <3>1, <3>2 DEF IsOption
  <2>4. CASE cmd.intent.kind = "flatten"
    <3>1. PICK k \in ResolvedContract(cache, cmd.contract_id) : id = {k}
      BY <2>4 DEF BuiltContracts
    <3>2. \A x \in Held(cache) : x.contract \in Contracts
      BY <2>1, HeldIsOpen
    <3>3. k \in Contracts
      BY <2>2, <3>2 DEF ResolvedContract
    <3> QED BY <3>1, <3>3 DEF IsOption
  <2>5. CASE cmd.intent.kind = "cancel"
    BY <2>5 DEF BuiltContracts, IsOption
  <2> QED BY <2>3, <2>4, <2>5 DEF BuiltContracts
<1>2. /\ cmd \in [via : {"manual", "api"}, intent : Intents, contract_id : SUBSET Contracts]
      /\ cmd.intent \in Intents
  BY DEF IsCommand
<1>3. strategy.order_type \in OrderTypes /\ strategy.prefers_brackets \in BOOLEAN
  BY StrategiesAssumption DEF TargetInv, IsLoadable, IsStrategy
<1> DEFINE intent == BuiltIntent(cmd.intent)
<1>4. /\ intent \in Intents /\ intent.kind = cmd.intent.kind
      /\ intent.quantity = cmd.intent.quantity
  BY <1>2, <1>3 DEF BuiltIntent, Intents
<1> HIDE DEF intent
<1> DEFINE built == [cmd EXCEPT !.contract_id = id, !.intent = intent]
<1>5. /\ built \in [via : {"manual", "api"}, intent : Intents, contract_id : SUBSET Contracts]
      /\ built.via = cmd.via /\ built.intent = intent /\ built.contract_id = id
  BY <1>1, <1>2, <1>4 DEF IsOption
<1> HIDE DEF built
<1>6. IsCommand(built)
  BY <1>1, <1>4, <1>5 DEF IsCommand
<1> QED BY <1>6 DEF built, intent

-----------------------------------------------------------------------------
(* The steps                                                               *)

\* A step of handler c that changes no request, plan, call or account.
LEMMA QuietKeeps ==
  ASSUME TargetInv, NEW c \in Clients, Keeps(c), \A d \in Clients \ {c} : Keeps(d),
         strategy' = strategy, account' = account, cache' \in {cache, account},
         \/ command' = command
         \/ \E d, x : command' = [command EXCEPT ![d] = x],
         undisturbed' = undisturbed
  PROVE  TargetInv'
<1>1. \A d \in Clients : HandlerTarget(d)'
  BY KeepsTarget DEF TargetInv
<1>2. IsAccount(account')
  BY DEF TargetInv
<1> QED BY <1>1, <1>2, TypesOfTarget

\* A command that arrives or is built is one.
LEMMA ApproachKeepsTarget ==
  ASSUME LoopInv, TargetInv, NEW c \in Clients,
         \/ \E cmd \in Commands : Receive(c, cmd)
         \/ Build(c) \/ Acquire(c)
  PROVE  TargetInv'
<1> USE DEF exec_vars, KeepAccount, Go, Answer
<1>1. CASE \E cmd \in Commands : Receive(c, cmd)
  <2>1. PICK cmd \in Commands : Receive(c, cmd)
    BY <1>1
  <2>2. IsCommand(cmd) /\ command'[c] = {cmd}
    BY <2>1, CommandsAssumption DEF Receive, TargetInv
  <2>3. Keeps(c)
    BY <2>1, <2>2 DEF Receive, Keeps, LoopInv, StackTyped, InService
  <2>4. \A d \in Clients \ {c} : Keeps(d)
    BY <2>1 DEF Receive, Keeps, LoopInv, StackTyped, TargetInv
  <2> QED BY <2>1, <2>3, <2>4, QuietKeeps DEF Receive
<1>2. CASE Build(c)
  <2>1. PICK cmd : command[c] = {cmd} /\ IsCommand(cmd)
    BY <1>2 DEF Build, TargetInv, HandlerTarget, CommandTyped
  <2>2. Cmd(c) = cmd
    BY <2>1 DEF Cmd
  <2>3. CASE \E id \in BuiltContracts(cache, Cmd(c)) :
               /\ command' = [command EXCEPT ![c] = {[Cmd(c) EXCEPT !.contract_id = id,
                                                             !.intent = BuiltIntent(@)]}]
               /\ Go(c, "sanitize")
               /\ UNCHANGED answer
    <3>1. PICK id \in BuiltContracts(cache, cmd) :
            command' = [command EXCEPT ![c] = {[cmd EXCEPT !.contract_id = id,
                                                           !.intent = BuiltIntent(@)]}]
      BY <2>2, <2>3
    <3> DEFINE built == [cmd EXCEPT !.contract_id = id, !.intent = BuiltIntent(@)]
    <3>2. IsCommand(built)
      BY <2>1, BuiltIsCommand
    <3> HIDE DEF built
    <3>3. command' = [command EXCEPT ![c] = {built}]
      BY <3>1 DEF built
    <3>4. command'[c] = {built}
      BY <3>3 DEF TargetInv
    <3>5. Keeps(c)
      BY <1>2, <2>3, <3>2, <3>4 DEF Build, Keeps, LoopInv, StackTyped, InService
    <3>6. \A d \in Clients \ {c} : Keeps(d)
      BY <1>2, <2>3, <3>3 DEF Build, Keeps, LoopInv, StackTyped, TargetInv
    <3> QED BY <1>2, <3>3, <3>5, <3>6, QuietKeeps DEF Build
  <2>4. CASE Answer(c, "error") /\ UNCHANGED command
    <3>1. /\ pc' = [pc EXCEPT ![c] = "done"] /\ command' = command
          /\ UNCHANGED <<request, plan, accepted, outcome, strategy, account, cache, undisturbed>>
      BY <1>2, <2>4, Zenon DEF Build
    <3>2. Keeps(c) /\ \A d \in Clients \ {c} : Keeps(d)
      BY <3>1 DEF Keeps, LoopInv, StackTyped, InService
    <3> QED BY <3>1, <3>2, QuietKeeps
  <2> QED BY <1>2, <2>3, <2>4, Zenon DEF Build
<1>3. CASE Acquire(c)
  <2>1. Keeps(c) /\ \A d \in Clients \ {c} : Keeps(d)
    BY <1>3 DEF Acquire, Keeps, LoopInv, StackTyped, InService
  <2> QED BY <1>3, <2>1, QuietKeeps DEF Acquire
<1> QED BY <1>1, <1>2, <1>3

\* The request is about what the snapshot says, which is the account's if current.
LEMMA SanitizeKeepsTarget ==
  ASSUME LoopInv, TargetInv, NEW c \in Clients, Sanitize(c)
  PROVE  TargetInv'
<1>1. PICK gate \in Gates, found \in AtMostOne(ActivePositions(cache, Cmd(c).contract_id)) :
        /\ found = {} => Held(cache) = {}
        /\ request' = [request EXCEPT ![c] =
             {[intent |-> Cmd(c).intent, contract_id |-> Cmd(c).contract_id,
               position |-> found, working |-> WorkingOrders(cache),
               can_submit |-> gate.can_submit, new_entries |-> gate.new_entries,
               hard_override |-> gate.hard_override,
               limit_reached |-> gate.limit_reached, support |-> gate.support]}]
  BY DEF Sanitize
<1> DEFINE r == [intent |-> Cmd(c).intent, contract_id |-> Cmd(c).contract_id,
                 position |-> found, working |-> WorkingOrders(cache),
                 can_submit |-> gate.can_submit, new_entries |-> gate.new_entries,
                 hard_override |-> gate.hard_override,
                 limit_reached |-> gate.limit_reached, support |-> gate.support]
<1>2. /\ pc[c] = "sanitize" /\ pc' = [pc EXCEPT ![c] = "wait"]
      /\ undisturbed' = [undisturbed EXCEPT ![c] = (cache = account)]
      /\ UNCHANGED <<strategy, account, cache, command, plan, accepted, outcome>>
  BY DEF Sanitize, Go, exec_vars
<1>3. PICK cmd : command[c] = {cmd} /\ IsCommand(cmd)
  BY <1>2 DEF TargetInv, HandlerTarget, CommandTyped
<1>4. Cmd(c) = cmd
  BY <1>3 DEF Cmd
<1>5. IsAccount(cache)
  BY DEF TargetInv
<1>6. found = {} \/ \E x \in Held(cache) : found = {x}
  BY <1>5, HeldIsOpen DEF AtMostOne
<1>7. IsRequest(r)
  <2>1. r.intent \in Intents /\ IsOption(r.contract_id, Contracts)
    BY <1>3, <1>4 DEF IsCommand
  <2>2. IsOption(r.position, [contract : Contracts, quantity : Int \ {0}])
    BY <1>5, <1>6, HeldIsOpen DEF IsOption
  <2>3. r.working \subseteq Nat /\ IsFiniteSet(r.working)
    BY <1>5, HeldIsOpen
  <2>4. gate \in GateSet
    BY GatesAssumption
  <2>5. /\ {r.can_submit, r.new_entries, r.hard_override, r.limit_reached} \subseteq BOOLEAN
        /\ r.support \subseteq Features
    BY <2>4 DEF GateSet
  <2> HIDE DEF r
  <2> QED BY <2>1, <2>2, <2>3, <2>5 DEF IsRequest
<1>8. r.position = found
  OBVIOUS
<1>9. request' = [request EXCEPT ![c] = {r}]
  BY <1>1
<1> HIDE DEF r
<1>10. request'[c] = {r} /\ Req(c)' = r
  <2>1. request'[c] = {r}
    BY <1>9 DEF LoopInv, StackTyped
  <2> QED BY <2>1 DEF Req
<1>11. accepted'[c] = 0 /\ outcome'[c] = "none"
  BY <1>2 DEF LoopInv, HandlerInv, Untouched
<1>12. pc'[c] = "wait"
  BY <1>2 DEF LoopInv, StackTyped
<1>13. ASSUME cache = account, InTraded(r) PROVE account.position[Traded] = Found(r)
  <2>1. CASE found = {}
    BY <1>1, <1>5, <1>8, <1>13, <2>1, HeldIsOpen, TradedAssumption DEF Found
  <2>2. CASE found # {}
    <3>1. PICK x \in Held(cache) : found = {x}
      BY <1>6, <2>2
    <3>2. (CHOOSE y \in found : TRUE) = x
      BY <3>1
    <3>3. Found(r) = x.quantity
      BY <1>8, <2>2, <3>2 DEF Found
    <3>4. x.contract = Traded
      BY <1>8, <1>13, <3>1 DEF InTraded
    <3> QED BY <1>5, <1>13, <3>1, <3>3, <3>4, HeldIsOpen
  <2> QED BY <2>1, <2>2
<1>14. undisturbed'[c] <=> cache = account
  BY <1>2 DEF TargetInv
<1>15. HandlerTarget(c)'
  <2>1. CommandTyped(c)' /\ Planned(c)'
    BY <1>10, <1>11, <1>12 DEF CommandTyped, Planned
  <2>2. RequestTyped(c)'
    BY <1>7, <1>10 DEF RequestTyped
  <2>3. \A n, p : Reached(n, p, 0) = n
    BY DEF Reached
  <2>4. Steady(c)'
    BY <1>2, <1>10, <1>11, <1>13, <1>14, <2>3 DEF Steady
  <2> QED BY <2>1, <2>2, <2>4 DEF HandlerTarget
<1>16. ASSUME NEW d \in Clients \ {c} PROVE HandlerTarget(d)'
  <2>1. Keeps(d)
    BY <1>2, <1>9 DEF Keeps, LoopInv, StackTyped, TargetInv
  <2> QED BY <1>2, <2>1, KeepsTarget DEF TargetInv
<1>17. undisturbed' \in [Clients -> BOOLEAN]
  BY <1>2 DEF TargetInv
<1>18. \A d \in Clients : HandlerTarget(d)'
  BY <1>15, <1>16
<1>19. IsAccount(account')
  BY <1>2 DEF TargetInv
<1> QED BY <1>2, <1>17, <1>18, <1>19, TypesOfTarget

\* Journalling and deciding change nothing of a request, a plan or the account.
LEMMA JournalKeepsTarget ==
  ASSUME LoopInv, TargetInv, NEW c \in Clients,
         JournalIntent(c) \/ Decide(c) \/ JournalOverride(c) \/ Report(c)
  PROVE  TargetInv'
<1>1. /\ pc[c] \in InService
      /\ \E step \in Steps \ {"build", "sanitize", "wait", "execute"} :
           pc' = [pc EXCEPT ![c] = step]
      /\ \/ outcome' = outcome
         \/ \E o \in {"none", "skipped"} : outcome' = [outcome EXCEPT ![c] = o]
      /\ UNCHANGED <<strategy, account, cache, command, request, plan, accepted, undisturbed>>
  <2> USE DEF AppendFails, Answer, Go, KeepAccount, Steps, InService, AfterDecision,
              DecidedOutcome
  <2>1. CASE JournalIntent(c)
    BY <2>1 DEF JournalIntent
  <2>2. CASE Decide(c)
    BY <2>2 DEF Decide
  <2>3. CASE JournalOverride(c)
    BY <2>3 DEF JournalOverride
  <2>4. CASE Report(c)
    BY <2>4 DEF Report
  <2> QED BY <2>1, <2>2, <2>3, <2>4
<1>2. Keeps(c)
  BY <1>1 DEF Keeps, LoopInv, StackTyped, InService
<1>3. \A d \in Clients \ {c} : Keeps(d)
  BY <1>1 DEF Keeps, LoopInv, StackTyped
<1> QED BY <1>1, <1>2, <1>3, QuietKeeps

\* A plan starts from the position it was made for.
LEMMA PlanOrdersKeepsTarget ==
  ASSUME LoopInv, TargetInv, NEW c \in Clients, PlanOrders(c)
  PROVE  TargetInv'
<1>1. /\ pc[c] = "plan"
      /\ UNCHANGED <<strategy, account, cache, command, request, accepted, undisturbed>>
  BY DEF PlanOrders, KeepAccount
<1>2. accepted[c] = 0 /\ request[c] # {}
  BY <1>1 DEF LoopInv, HandlerInv, TargetInv, HandlerTarget, Planned, InService
<1>3. IsRequest(Req(c)) /\ IsStrategy(strategy)
  BY <1>2, OneRequest, StrategiesAssumption DEF TargetInv, HandlerTarget, IsLoadable
<1>4. Req(c)' = Req(c) /\ Fills(c)' = Fills(c)
  <2>1. Req(c)' = Req(c)
    BY <1>1, Zenon DEF Req
  <2> QED BY <2>1 DEF Fills, OrderType
<1>5. ASSUME NEW p
      PROVE  Reached(Found(Req(c)), p, 0) = Found(Req(c))
  BY DEF Reached
<1>6. CASE /\ outcome' = [outcome EXCEPT ![c] = "failed"]
           /\ Go(c, "report") /\ UNCHANGED plan
  <2>1. Keeps(c) /\ \A d \in Clients \ {c} : Keeps(d)
    BY <1>1, <1>6 DEF Keeps, Go, LoopInv, StackTyped, InService
  <2> QED BY <1>1, <2>1, QuietKeeps
<1>7. ASSUME NEW p \in Plans(strategy, Req(c)),
             plan' = [plan EXCEPT ![c] = p],
             outcome' = [outcome EXCEPT ![c] = IF p = <<>> THEN "succeeded" ELSE "none"],
             Go(c, IF p = <<>> THEN "report" ELSE "execute")
      PROVE  TargetInv'
  <2>1. plan'[c] = p
    BY <1>7 DEF LoopInv, StackTyped
  <2>2. p # <<>> => Len(p) > 0
    BY <1>3, PlansArePlans DEF IsPlan
  <2>3. pc'[c] = IF p = <<>> THEN "report" ELSE "execute"
    BY <1>7 DEF Go, LoopInv, StackTyped
  <2>4. CommandTyped(c)' /\ RequestTyped(c)'
    BY <1>1, <2>3 DEF CommandTyped, RequestTyped, TargetInv, HandlerTarget
  <2>5. Planned(c)'
    BY <1>1, <1>2, <1>4, <2>1, <2>2, <2>3 DEF Planned
  <2>6. Steady(c)'
    BY <1>1, <1>2, <1>4, <1>5, <2>1 DEF Steady, TargetInv, HandlerTarget
  <2>7. ASSUME NEW d \in Clients \ {c} PROVE HandlerTarget(d)'
    <3>1. Keeps(d)
      BY <1>1, <1>7 DEF Keeps, Go, LoopInv, StackTyped
    <3> QED BY <1>1, <3>1, KeepsTarget DEF TargetInv
  <2>8. \A d \in Clients : HandlerTarget(d)'
    BY <2>4, <2>5, <2>6, <2>7 DEF HandlerTarget
  <2>9. IsAccount(account')
    BY <1>1 DEF TargetInv
  <2> QED BY <1>1, <2>8, <2>9, TypesOfTarget
<1> QED BY <1>6, <1>7, Zenon DEF PlanOrders

\* An account stays one after a call,
LEMMA EffectIsAccount ==
  ASSUME NEW a, IsAccount(a), NEW call, IsCall(call), NEW type
  PROVE  IsAccount(Effect(a, call, type))
<1>1. /\ a \in AccountSet /\ a.position \in [Contracts -> Int] /\ a.orders \in Seq(Contracts)
      /\ a.working \subseteq 1 .. Len(a.orders) /\ Len(a.orders) \in Nat
  BY DEF IsAccount, AccountSet
<1>2. CASE call.call = "liquidate"
  <2> DEFINE closed == [a.position EXCEPT ![call.contract] = 0]
  <2>1. closed \in [Contracts -> Int]
    <3>1. \A f \in [Contracts -> Int], k \in Contracts :
            [f EXCEPT ![k] = 0] \in [Contracts -> Int]
      OBVIOUS
    <3> QED BY <1>1, <3>1 DEF IsCall
  <2>2. Effect(a, call, type) = [a EXCEPT !.position = closed]
    BY <1>2 DEF Effect
  <2> HIDE DEF closed
  <2> QED BY <1>1, <2>1, <2>2 DEF IsAccount, AccountSet
<1>3. CASE call.call \in {"order", "oso"} /\ type = "market"
  <2> DEFINE more == Signed(call.side, call.quantity)
  <2>1. more \in Int
    BY <1>3 DEF Signed, IsCall
  <2>2. Effect(a, call, type) = [a EXCEPT !.position[call.contract] = @ + more]
    BY <1>3 DEF Effect
  <2> HIDE DEF more
  <2>3. a.position[call.contract] + more \in Int
    BY <1>1, <2>1 DEF IsCall
  <2> QED BY <1>1, <2>2, <2>3 DEF IsAccount, AccountSet
<1>4. CASE call.call \in {"order", "oso"} /\ type # "market"
  <2> DEFINE longer == Append(a.orders, call.contract)
             open == a.working \cup {Len(a.orders) + 1}
  <2>1. longer \in Seq(Contracts) /\ Len(longer) = Len(a.orders) + 1
    BY <1>1 DEF IsCall
  <2>2. open \subseteq 1 .. Len(longer) /\ open \in SUBSET Nat
    BY <1>1, <2>1
  <2>3. Effect(a, call, type) = [a EXCEPT !.orders = longer, !.working = open]
    BY <1>4 DEF Effect
  <2> HIDE DEF longer, open
  <2> QED BY <1>1, <2>1, <2>2, <2>3 DEF IsAccount, AccountSet
<1>5. CASE call.call = "cancel"
  <2>1. Effect(a, call, type) = [a EXCEPT !.working = @ \ {call.order}]
    BY <1>5 DEF Effect
  <2> QED BY <1>1, <2>1 DEF IsAccount, AccountSet
<1>6. CASE call.call = "pause"
  BY <1>6 DEF Effect
<1> QED BY <1>2, <1>3, <1>4, <1>5, <1>6 DEF IsCall

\* and its position moves as the call says, if it is a market order.
LEMMA EffectMoves ==
  ASSUME NEW a, IsAccount(a), NEW call, IsCall(call), call.contract = Traded
  PROVE  Effect(a, call, "market").position[Traded] = Moved(a.position[Traded], call)
<1>1. /\ a \in AccountSet /\ a.position \in [Contracts -> Int]
  BY DEF IsAccount, AccountSet
<1>2. CASE call.call = "liquidate"
  <2>1. Effect(a, call, "market") = [a EXCEPT !.position[call.contract] = 0]
    BY <1>2 DEF Effect
  <2> QED BY <1>1, <1>2, <2>1, TradedAssumption DEF Moved, AccountSet
<1>3. CASE call.call \in {"order", "oso"}
  <2> DEFINE more == Signed(call.side, call.quantity)
  <2>2. Effect(a, call, "market") = [a EXCEPT !.position[call.contract] = @ + more]
    BY <1>3 DEF Effect
  <2>3. Moved(a.position[Traded], call) = a.position[Traded] + more
    BY <1>3 DEF Moved
  <2> HIDE DEF more
  <2> QED BY <1>1, <2>2, <2>3, TradedAssumption DEF AccountSet
<1>4. CASE call.call \in {"cancel", "pause"}
  <2>1. Effect(a, call, "market") \in {a, [a EXCEPT !.working = @ \ {call.order}]}
    BY <1>4 DEF Effect
  <2> QED BY <1>1, <1>4, <2>1 DEF Moved, AccountSet
<1> QED BY <1>2, <1>3, <1>4 DEF IsCall

\* A call takes the account one call on, for its own handler; another one's account is
\* no longer its own unless the call changed nothing.
LEMMA CallBrokerKeepsTarget ==
  ASSUME LoopInv, TargetInv, NEW c \in Clients, CallBroker(c)
  PROVE  TargetInv'
<1> DEFINE p == plan[c]
           k == accepted[c]
           n == Found(Req(c))
<1>1. /\ pc[c] = "execute" /\ UNCHANGED <<strategy, cache, command, request, plan>>
      /\ \/ /\ TakeCall(c)
            /\ \/ pc' = [pc EXCEPT ![c] = "report"]
                  /\ \E o \in {"failed", "succeeded"} : outcome' = [outcome EXCEPT ![c] = o]
               \/ k + 1 # Len(p) /\ UNCHANGED <<outcome, pc>>
         \/ /\ UNCHANGED <<account, accepted, undisturbed>>
            /\ pc' = [pc EXCEPT ![c] = "report"]
            /\ outcome' = [outcome EXCEPT ![c] = "failed"]
  BY SuccessIsTaken DEF CallBroker, FailDispatch, Go
<1>2. request[c] # {} /\ p \in Plans(strategy, Req(c)) /\ k < Len(p) /\ k \in Nat
  BY <1>1 DEF TargetInv, HandlerTarget, Planned, InService, LoopInv, StackTyped
<1>3. IsRequest(Req(c)) /\ IsStrategy(strategy)
  BY <1>2, OneRequest, StrategiesAssumption DEF TargetInv, HandlerTarget, IsLoadable
<1>4. IsPlan(p)
  BY <1>2, <1>3, PlansArePlans
<1>5. NextCall(c) = p[k + 1] /\ IsCall(p[k + 1])
  BY <1>2, <1>4 DEF NextCall, IsPlan
<1>6. Req(c)' = Req(c) /\ Fills(c)' = Fills(c)
  <2>1. Req(c)' = Req(c)
    BY <1>1, Zenon DEF Req
  <2> QED BY <2>1 DEF Fills, OrderType
<1>7. CASE /\ UNCHANGED <<account, accepted, undisturbed>>
           /\ outcome' = [outcome EXCEPT ![c] = "failed"]
  <2>1. Keeps(c) /\ \A d \in Clients \ {c} : Keeps(d)
    BY <1>1, <1>7 DEF Keeps, LoopInv, StackTyped, InService
  <2> QED BY <1>1, <1>7, <2>1, QuietKeeps
<1>8. CASE TakeCall(c)
  <2>1. IsAccount(account')
    BY <1>5, <1>8, EffectIsAccount DEF TakeCall, TargetInv
  <2>2. accepted' = [accepted EXCEPT ![c] = k + 1] /\ accepted'[c] = k + 1
    BY <1>8 DEF TakeCall, LoopInv, StackTyped
  <2>3. /\ undisturbed'[c] = undisturbed[c]
        /\ \A d \in Clients \ {c} : undisturbed'[d] = (undisturbed[d] /\ account' = account)
        /\ undisturbed' \in [Clients -> BOOLEAN]
    BY <1>8 DEF TakeCall, TargetInv
  <2>4. CommandTyped(c)' /\ RequestTyped(c)'
    BY <1>1 DEF CommandTyped, RequestTyped, TargetInv, HandlerTarget, LoopInv, StackTyped
  <2>5. Planned(c)'
    <3>1. pc'[c] = "execute" => k + 1 < Len(p)
      BY <1>1, <1>2, <1>4 DEF LoopInv, StackTyped, IsPlan
    <3> QED BY <1>1, <1>2, <1>6, <2>2, <3>1 DEF Planned
  <2>6. Steady(c)'
    <3>1. SUFFICES ASSUME undisturbed[c], InTraded(Req(c)), Fills(c)
                   PROVE  account'.position[Traded] = Reached(n, p, k + 1)
      BY <1>1, <1>2, <1>6, <2>2, <2>3 DEF Steady
    <3>2. Stays(p)
      BY <1>2, <1>3, <3>1, PlansStay
    <3>3. n \in Int
      BY <1>3, <3>1, FoundIsPosition
    <3>4. p[k + 1].contract = Traded
      BY <1>2, <1>4, <3>2 DEF Stays, IsPlan
    <3>5. account.position[Traded] = Reached(n, p, k)
      BY <3>1 DEF TargetInv, HandlerTarget, Steady
    <3>6. account' = Effect(account, p[k + 1], "market")
      BY <1>5, <1>8, <3>1 DEF TakeCall, Fills
    <3>7. account'.position[Traded] = Moved(account.position[Traded], p[k + 1])
      BY <1>5, <3>4, <3>6, EffectMoves DEF TargetInv
    <3>8. Reached(n, p, k + 1) = Moved(Reached(n, p, k), p[k + 1])
      BY <1>2, <1>4, <3>2, <3>3, ReachedNext DEF Stays
    <3> QED BY <3>5, <3>7, <3>8
  <2>7. ASSUME NEW d \in Clients \ {c} PROVE HandlerTarget(d)'
    <3>1. Keeps(d)
      BY <1>1, <2>2, <2>3 DEF Keeps, LoopInv, StackTyped
    <3> QED BY <1>1, <3>1, KeepsTarget DEF TargetInv
  <2>8. \A d \in Clients : HandlerTarget(d)'
    BY <2>4, <2>5, <2>6, <2>7 DEF HandlerTarget
  <2> QED BY <1>1, <2>1, <2>3, <2>8, TypesOfTarget
<1> QED BY <1>1, <1>7, <1>8

\* A handler that has returned knows nothing.
LEMMA ReturnKeepsTarget ==
  ASSUME LoopInv, TargetInv, NEW c \in Clients, Return(c)
  PROVE  TargetInv'
<1>1. /\ pc' = [pc EXCEPT ![c] = "idle"] /\ command' = [command EXCEPT ![c] = {}]
      /\ request' = [request EXCEPT ![c] = {}] /\ plan' = [plan EXCEPT ![c] = <<>>]
      /\ accepted' = [accepted EXCEPT ![c] = 0] /\ outcome' = [outcome EXCEPT ![c] = "none"]
      /\ undisturbed' = [undisturbed EXCEPT ![c] = FALSE]
      /\ UNCHANGED <<strategy, account, cache>>
  BY DEF Return, Go
<1>2. /\ pc'[c] = "idle" /\ request'[c] = {} /\ outcome'[c] = "none"
      /\ ~undisturbed'[c] /\ undisturbed' \in [Clients -> BOOLEAN]
  BY <1>1 DEF LoopInv, StackTyped, TargetInv
<1>3. HandlerTarget(c)'
  BY <1>2 DEF HandlerTarget, CommandTyped, RequestTyped, Planned, Steady, InService
<1>4. ASSUME NEW d \in Clients \ {c} PROVE HandlerTarget(d)'
  <2>1. Keeps(d)
    BY <1>1 DEF Keeps, LoopInv, StackTyped, TargetInv
  <2> QED BY <1>1, <2>1, KeepsTarget DEF TargetInv
<1>5. IsAccount(account') /\ \A d \in Clients : HandlerTarget(d)'
  BY <1>1, <1>3, <1>4 DEF TargetInv
<1> QED BY <1>1, <1>2, <1>5, TypesOfTarget

\* What others do to the account is no handler's undisturbed state.
LEMMA OutsideKeepsTarget ==
  ASSUME LoopInv, TargetInv, AccountMoves \/ SyncCache \/ UNCHANGED vars
  PROVE  TargetInv'
<1>1. /\ UNCHANGED <<strategy, pc, command, request, plan, accepted, outcome>>
      /\ cache' \in {cache, account}
      /\ \/ account' = account /\ undisturbed' = undisturbed
         \/ AccountMoves
  BY DEF AccountMoves, SyncCache, vars, exec_vars
<1>2. IsAccount(account')
  <2>1. CASE account' = account
    BY <2>1 DEF TargetInv
  <2>2. CASE AccountMoves
    <3>1. /\ account \in AccountSet /\ account.working \subseteq 1 .. Len(account.orders)
          /\ account.position \in [Contracts -> Int]
      BY DEF TargetInv, IsAccount, AccountSet
    <3>2. CASE \E k \in Contracts, d \in {-1, 1} :
                 account' = [account EXCEPT !.position[k] = @ + d]
      <4>1. PICK k \in Contracts, d \in {-1, 1} :
              account' = [account EXCEPT !.position[k] = @ + d]
        BY <3>2
      <4>2. account.position[k] + d \in Int
        BY <3>1
      <4> QED BY <3>1, <4>1, <4>2 DEF IsAccount, AccountSet
    <3>3. CASE \E o \in account.working : account' = [account EXCEPT !.working = @ \ {o}]
      BY <3>1, <3>3 DEF IsAccount, AccountSet
    <3> QED BY <2>2, <3>2, <3>3 DEF AccountMoves
  <2> QED BY <1>1, <2>1, <2>2
<1>3. undisturbed' = undisturbed \/ undisturbed' = [c \in Clients |-> FALSE]
  BY <1>1 DEF AccountMoves
<1>4. ASSUME NEW c \in Clients PROVE Keeps(c)
  BY <1>1, <1>3 DEF Keeps, AccountMoves
<1>5. \A c \in Clients : HandlerTarget(c)'
  BY <1>1, <1>4, KeepsTarget DEF TargetInv
<1>6. undisturbed' \in [Clients -> BOOLEAN]
  BY <1>3 DEF TargetInv
<1> QED BY <1>1, <1>2, <1>5, <1>6, TypesOfTarget

-----------------------------------------------------------------------------
(* Where an undisturbed command ends                                       *)

\* At the start nothing is asked or planned,
LEMMA TargetInitially ==
  CommandInit => TargetInv
<1> SUFFICES ASSUME CommandInit PROVE TargetInv
  OBVIOUS
<1>1. strategy \in Strategies /\ IsAccount(account) /\ IsAccount(cache)
  BY AccountsAssumption DEF CommandInit
<1>2. \A c \in Clients : HandlerTarget(c)
  BY DEF CommandInit, HandlerTarget, CommandTyped, RequestTyped, Planned, Steady, InService
<1>3. /\ command = [c \in Clients |-> command[c]]
      /\ undisturbed \in [Clients -> BOOLEAN]
  BY DEF CommandInit
<1> QED BY <1>1, <1>2, <1>3 DEF TargetInv

\* and every step keeps what is known.
LEMMA TargetStep ==
  LoopInv /\ TargetInv /\ [CommandNext]_vars => TargetInv'
<1> SUFFICES ASSUME LoopInv, TargetInv, [CommandNext]_vars PROVE TargetInv'
  OBVIOUS
<1>1. ASSUME NEW c \in Clients,
             \/ \E cmd \in Commands : Receive(c, cmd)
             \/ Build(c) \/ Sanitize(c) \/ Acquire(c)
      PROVE  TargetInv'
  BY <1>1, ApproachKeepsTarget, SanitizeKeepsTarget, Zenon
<1>2. ASSUME NEW c \in Clients,
             \/ JournalIntent(c) \/ Decide(c) \/ JournalOverride(c)
             \/ PlanOrders(c) \/ CallBroker(c) \/ Report(c) \/ Return(c)
      PROVE  TargetInv'
  BY <1>2, JournalKeepsTarget, PlanOrdersKeepsTarget, CallBrokerKeepsTarget,
     ReturnKeepsTarget, Zenon
<1>3. CASE AccountMoves \/ SyncCache \/ UNCHANGED vars
  BY <1>3, OutsideKeepsTarget
<1> QED BY <1>1, <1>2, <1>3, Zenon DEF CommandNext

\* A command whose calls the broker all took, on a current snapshot and with nobody else
\* on the account, leaves the traded position where its intent says, and an entry adds
\* what the strategy's risk allows and no more (resolve_entry_quantity, plan_tradovate,
\* execute_tradovate_plan): for all strategies that load, all positions and requests
\* whose direct reversal fits into a u32.
THEOREM CommandsReachTarget ==
  CommandSpec => []CommandReachesTarget
<1>1. ASSUME LoopInv, TargetInv PROVE CommandReachesTarget
  <2> SUFFICES ASSUME NEW c \in Clients,
                      Undisturbed(c), OnlyTraded(c), Fills(c), Fits(c)
               PROVE  OnTarget(c) /\ (IsEntry(Req(c)) => WithinRisk(c))
    BY DEF CommandReachesTarget
  <2> DEFINE r == Req(c)
             n == Found(r)
             p == plan[c]
             there == account.position[Traded]
  <2>1. outcome[c] = "succeeded"
    BY <1>1 DEF Undisturbed, LoopInv, HandlerInv
  <2>2. /\ request[c] # {} /\ p \in Plans(strategy, r) /\ accepted[c] = Len(p)
    BY <1>1, <2>1 DEF TargetInv, HandlerTarget, Planned, LoopInv, HandlerInv
  <2>3. IsRequest(r) /\ IsStrategy(strategy)
    BY <1>1, <2>2, OneRequest, StrategiesAssumption DEF TargetInv, HandlerTarget, IsLoadable
  <2>4. InTraded(r) /\ Before(c) = n
    BY DEF OnlyTraded, InTraded, Before, Found
  <2>5. there = Reached(n, p, Len(p))
    BY <1>1, <2>2, <2>4 DEF Undisturbed, TargetInv, HandlerTarget, Steady
  <2>6. CASE IsEntry(r)
    <3>1. Reverses(r) /\ strategy.reversal = "direct_reverse" =>
            \A quantity \in Approved(strategy, r) : quantity + Size(n) <= MaxQuantity
      BY <2>4, <2>6 DEF Fits
    <3>2. PICK quantity \in Approved(strategy, r) \ {0} : there = Target(n, r.intent, quantity)
      BY <2>2, <2>3, <2>4, <2>5, <2>6, <3>1, EntryArrives
    <3>3. quantity \in Nat \ {0}
      BY <2>3, ApprovedIsNatural
    <3>4. Size(there) - (IF ScalesIn(r) THEN Size(n) ELSE 0) = quantity
      BY <2>3, <2>4, <2>6, <3>2, <3>3, ArrivedAdds
    <3>5. /\ \A most \in strategy.max_contracts : quantity <= most
          /\ strategy.sizing = "risk_based" =>
               \/ quantity <= strategy.affordable
               \/ quantity \in strategy.min_contracts
               \/ /\ strategy.affordable \notin 1..MaxQuantity
                  /\ \E most \in strategy.fallback : quantity <= most
      <4>1. r.intent.quantity \in Nat /\ r.intent.tick_value \in BOOLEAN
        BY <2>3 DEF IsRequest, Intents
      <4> QED BY <2>3, <3>2, <4>1, EntryQuantityWithinRisk DEF Approved
    <3>6. OnTarget(c)
      BY <2>4, <2>6, <3>2 DEF OnTarget
    <3> HIDE DEF there
    <3>7. WithinRisk(c)
      BY <2>4, <3>4, <3>5 DEF WithinRisk, there
    <3> QED BY <3>6, <3>7
  <2>7. CASE ~IsEntry(r)
    <3>1. there = Target(n, r.intent, r.intent.quantity)
      BY <2>2, <2>3, <2>4, <2>5, <2>7, PlansArrive
    <3> QED BY <2>4, <2>7, <3>1 DEF OnTarget
  <2> QED BY <2>6, <2>7
<1>2. CommandSpec => [](LoopInv /\ TargetInv)
  BY LoopInitially, LoopStep, TargetInitially, TargetStep, PTL DEF CommandSpec
<1> QED BY <1>1, <1>2, PTL

-----------------------------------------------------------------------------
\* The market-data service.

\* The variables the steps below type together.
FlagsTypeOK ==
  /\ warmup_mode \in WarmupModes
  /\ ready_requires_all \in BOOLEAN
  /\ stream \in Streams
  /\ connection_state \in ConnectionStates
  /\ degraded \in BOOLEAN
  /\ ready_feeds \subseteq Feeds
  /\ started \in BOOLEAN
  /\ warmup_requested \in BOOLEAN
  /\ replay_caught_up \in BOOLEAN
  /\ seeded \in BOOLEAN
  /\ polls \in NoRefresh..PollBudget
  /\ replay_finished \in BOOLEAN
  /\ epoch \in BOOLEAN

\* Only start_warmup gives the service a started stream, and it starts the
\* tracker; a catch-up that counts is the one of the stream subscribed to.
Connected ==
  /\ SubscribedMeansStream
  /\ stream \in {"Open", "Closed"} => started
  /\ warmup_requested => started
  /\ connection_state = "Subscribed" /\ replay_caught_up /\ warmup_mode = "ReplayFrom"
       => replay_finished

ServiceInv == FlagsTypeOK /\ Connected

-----------------------------------------------------------------------------
\* A service as configure_for_strategy builds it is in the invariant.
LEMMA ServiceInitInv == Init => ServiceInv
<1> SUFFICES ASSUME Init PROVE ServiceInv
  OBVIOUS
<1>1. FlagsTypeOK
  <2>1. polls \in NoRefresh..PollBudget
    BY PollBudgetAssumption DEF Init, NoRefresh
  <2> QED
    BY <2>1 DEF Init, FlagsTypeOK, WarmupModes, Streams, ConnectionStates
<1>2. Connected
  BY DEF Init, Connected, SubscribedMeansStream
<1> QED
  BY <1>1, <1>2 DEF ServiceInv

\* Every start, poll and failure keeps the invariant.
LEMMA ServiceStep == ServiceInv /\ [Next]_market_vars => ServiceInv'
<1> SUFFICES ASSUME ServiceInv, [Next]_market_vars PROVE ServiceInv'
  OBVIOUS
<1> USE PollBudgetAssumption
    DEF ServiceInv, FlagsTypeOK, Connected, SubscribedMeansStream, WarmupModes, Streams,
        ConnectionStates, NoRefresh, strategy_vars, service_vars, KeepWarmup, Fail, Continue
<1>1. CASE DisconnectFails
  BY <1>1 DEF DisconnectFails
<1>2. CASE ConnectFails
  BY <1>2 DEF ConnectFails
<1>3. CASE StartWarmup
  BY <1>3 DEF StartWarmup, CaughtUpAtStart
<1>4. CASE BeginRefresh
  BY <1>4 DEF BeginRefresh
<1>5. ASSUME NEW feed \in Feeds, NEW completed \in Completions,
             PollEvent(feed, completed)
      PROVE  ServiceInv'
  <2>1. polls' \in NoRefresh..PollBudget
    BY <1>5 DEF PollEvent
  <2>2. ready_feeds' \subseteq Feeds
    BY <1>5 DEF PollEvent
  <2> QED
    BY <1>5, <2>1, <2>2 DEF PollEvent
<1>6. CASE PollReplayCompleted
  BY <1>6 DEF PollReplayCompleted
<1>7. CASE PollSlowReader
  BY <1>7 DEF PollSlowReader
<1>8. CASE PollClosed
  <2>1. polls' \in NoRefresh..PollBudget
    BY <1>8 DEF PollClosed
  <2>2. FlagsTypeOK'
    BY <1>8, <2>1 DEF PollClosed
  <2>3. Connected'
    BY <1>8 DEF PollClosed
  <2> QED
    BY <2>2, <2>3
<1>9. CASE PollFails
  BY <1>9 DEF PollFails
<1>10. CASE PollNothing
  BY <1>10 DEF PollNothing
<1>11. CASE EndRefresh
  BY <1>11 DEF EndRefresh
<1>12. CASE GatewayCloses
  BY <1>12 DEF GatewayCloses
<1>13. CASE UNCHANGED market_vars
  BY <1>13 DEF market_vars
<1> QED
  BY <1>1, <1>2, <1>3, <1>4, <1>5, <1>6, <1>7, <1>8, <1>9, <1>10, <1>11, <1>12, <1>13
     DEF Next, Poll

\* The inductive invariant of the service.
THEOREM ServiceInvariant == Spec => []ServiceInv
  BY ServiceInitInv, ServiceStep, PTL DEF Spec

\* The connection state the host reads is that of the transport's stream.
THEOREM SubscribedServiceHasStream == Spec => []SubscribedMeansStream
  BY ServiceInvariant, PTL DEF ServiceInv, Connected

\* Trade readiness, in whichever state the service is asked, comes after the
\* replay of the stream in use.
THEOREM CatchUpPrecedesTrading == Spec => []TradeReadyIsCaughtUp
<1>1. ServiceInv => TradeReadyIsCaughtUp
  BY DEF ServiceInv, FlagsTypeOK, Connected, ConnectionStates, TradeReadyIsCaughtUp,
         TradeReady, Health
<1> QED
  BY <1>1, ServiceInvariant, PTL

-----------------------------------------------------------------------------
\* Buffers hold no more than they retain, which is at least what is required.
LEMMA BarsStep ==
  ASSUME bars \in BarCounts, Next
  PROVE  bars' \in BarCounts
<1>1. CASE bars' \in BarCounts
  BY <1>1
<1>2. ASSUME NEW feed \in Feeds, NEW completed \in Completions,
             PollEvent(feed, completed)
      PROVE  bars' \in BarCounts
  <2>1. ASSUME NEW t \in Timeframes
        PROVE  /\ Required[t] \in Nat \ {0}
               /\ bars[t] \in Nat
               /\ bars[t] <= Required[t]
    BY RequiredAssumption DEF BarCounts
  <2>2. ASSUME NEW t \in Timeframes
        PROVE  bars'[t] \in 0..Required[t]
    BY <1>2, <2>1 DEF PollEvent, Pushed, Completions
  <2>3. bars' = [t \in Timeframes |-> bars'[t]]
    BY <1>2 DEF PollEvent
  <2> QED
    BY <2>1, <2>2, <2>3 DEF BarCounts
<1>3. CASE bars' = bars
  BY <1>3
<1> QED
  BY <1>1, <1>2, <1>3
     DEF Next, Poll, DisconnectFails, ConnectFails, StartWarmup, BeginRefresh,
         PollReplayCompleted, PollSlowReader, PollClosed, PollFails, PollNothing,
         EndRefresh, GatewayCloses, KeepWarmup, service_vars

\* Bars only accumulate between two starts, so a warmup does not go back.
LEMMA EventMovesForward ==
  ASSUME bars \in BarCounts, NEW feed \in Feeds, NEW completed \in Completions,
         PollEvent(feed, completed)
  PROVE  IsReady => IsReady'
<1>1. ASSUME NEW t \in Timeframes
      PROVE  bars[t] = Required[t] => bars'[t] = Required[t]
  <2>1. Required[t] \in Nat /\ completed[t] \in 0..2
    BY RequiredAssumption DEF Completions
  <2> QED
    BY <2>1 DEF PollEvent, Pushed
<1>2. ready_requires_all' = ready_requires_all
  BY DEF PollEvent, strategy_vars
<1> QED
  BY <1>1, <1>2 DEF IsReady

\* What a snapshot can contain.
SnapshotTypeOK ==
  Snapshot \in [health : Healths, warmup : {"Loaded", "Warming", "Ready"},
                trade_ready : BOOLEAN]

\* Whatever the fields hold, a snapshot of them is well typed.
LEMMA SnapshotTyped == FlagsTypeOK => SnapshotTypeOK
<1> SUFFICES ASSUME FlagsTypeOK PROVE SnapshotTypeOK
  OBVIOUS
<1>1. Health \in Healths
  BY DEF FlagsTypeOK, ConnectionStates, Health, Healths
<1>2. Warmup \in {"Loaded", "Warming", "Ready"}
  BY DEF Warmup
<1>3. TradeReady \in BOOLEAN
  BY DEF FlagsTypeOK, TradeReady
<1> QED
  BY <1>1, <1>2, <1>3 DEF Snapshot, SnapshotTypeOK

\* Type correctness is inductive together with the fields' own invariant.
LEMMA TypeStep ==
  ServiceInv /\ ServiceInv' /\ MarketDataTypeOK /\ [Next]_market_vars => MarketDataTypeOK'
<1> SUFFICES ASSUME ServiceInv, ServiceInv', MarketDataTypeOK, [Next]_market_vars
             PROVE  MarketDataTypeOK'
  OBVIOUS
<1>1. bars' \in BarCounts
  BY BarsStep DEF MarketDataTypeOK, market_vars, service_vars
<1>2. last_snapshot' \in [health : Healths, warmup : {"Loaded", "Warming", "Ready"},
                          trade_ready : BOOLEAN]
  <2>1. SnapshotTypeOK
    BY SnapshotTyped DEF ServiceInv
  <2>2. (FlagsTypeOK => SnapshotTypeOK)'
    BY SnapshotTyped, PTL
  <2>3. Snapshot' \in [health : Healths, warmup : {"Loaded", "Warming", "Ready"},
                       trade_ready : BOOLEAN]
    BY <2>2 DEF ServiceInv, SnapshotTypeOK
  <2>4. last_snapshot' \in {last_snapshot, Snapshot, Snapshot'}
    BY DEF Next, Poll, DisconnectFails, ConnectFails, StartWarmup, BeginRefresh, PollEvent,
           PollReplayCompleted, PollSlowReader, PollClosed, PollFails, PollNothing,
           EndRefresh, GatewayCloses, Continue, market_vars
  <2> QED
    BY <2>1, <2>3, <2>4 DEF SnapshotTypeOK, MarketDataTypeOK
<1> QED
  BY <1>1, <1>2 DEF ServiceInv, FlagsTypeOK, MarketDataTypeOK

\* Every field keeps to its type, and no buffer outgrows what it retains.
THEOREM MarketDataTypeCorrect == Spec => []MarketDataTypeOK
<1>1. Init => MarketDataTypeOK
  <2> SUFFICES ASSUME Init PROVE MarketDataTypeOK
    OBVIOUS
  <2>1. FlagsTypeOK
    BY ServiceInitInv DEF ServiceInv
  <2>2. bars \in BarCounts
    BY RequiredAssumption DEF Init, BarCounts
  <2>3. last_snapshot = Snapshot
    BY DEF Init
  <2> QED
    BY <2>1, <2>2, <2>3, SnapshotTyped DEF FlagsTypeOK, SnapshotTypeOK, MarketDataTypeOK
<1> QED
  BY <1>1, TypeStep, ServiceInvariant, PTL DEF Spec

-----------------------------------------------------------------------------
\* One step of the service is one step of WarmupService, or none: a start, a
\* failure, or something received.
LEMMA PromiseStep ==
  ServiceInv /\ MarketDataTypeOK /\ [Next]_market_vars => [Promise!Next]_(Promise!vars)
<1> SUFFICES ASSUME ServiceInv, MarketDataTypeOK, [Next]_market_vars
             PROVE  Promise!Next \/ UNCHANGED Promise!vars
  OBVIOUS
<1>1. CASE DisconnectFails \/ ConnectFails \/ PollClosed \/ PollFails
  <2>1. Warmup' = Warmup /\ epoch' = epoch
    BY <1>1 DEF DisconnectFails, ConnectFails, PollClosed, PollFails, KeepWarmup, Continue,
                strategy_vars, Warmup, IsReady
  <2>2. connection_state' \in {"Failed", "Disconnected"}
    BY <1>1 DEF DisconnectFails, ConnectFails, PollClosed, PollFails, Fail
  <2>3. Health' # "Healthy"
    BY <2>2 DEF Health
  <2> QED
    BY <2>1, <2>2, <2>3 DEF Promise!Next, Promise!Fails
<1>2. CASE StartWarmup
  BY <1>2 DEF StartWarmup, Warmup, Promise!Next, Promise!Start
<1>3. ASSUME NEW feed \in Feeds, NEW completed \in Completions,
             PollEvent(feed, completed)
      PROVE  Promise!Next
  <2>1. started /\ started' = started /\ UNCHANGED <<connection_state, epoch>>
    BY <1>3 DEF ServiceInv, Connected, PollEvent, Continue
  <2>2. IsReady => IsReady'
    BY <1>3, EventMovesForward DEF MarketDataTypeOK
  <2>3. Health' = "Healthy" => connection_state = "Subscribed"
    BY <2>1 DEF Health, ServiceInv, FlagsTypeOK, ConnectionStates
  <2> QED
    BY <2>1, <2>2, <2>3 DEF Warmup, Promise!Next, Promise!Receive
<1>4. CASE PollSlowReader
  <2>1. started /\ Warmup' = Warmup /\ UNCHANGED <<connection_state, epoch>>
    BY <1>4 DEF ServiceInv, Connected, PollSlowReader, KeepWarmup, Continue, strategy_vars,
                Warmup, IsReady
  <2>2. Health' # "Healthy"
    BY <1>4 DEF PollSlowReader, Health, ServiceInv, FlagsTypeOK, ConnectionStates
  <2> QED
    BY <2>1, <2>2 DEF Warmup, Promise!Next, Promise!Receive
<1>5. CASE \/ BeginRefresh \/ PollReplayCompleted \/ PollNothing \/ EndRefresh
           \/ GatewayCloses \/ UNCHANGED market_vars
  <2>1. UNCHANGED <<ready_requires_all, connection_state, degraded, ready_feeds, bars,
                    started, epoch>>
    BY <1>5 DEF BeginRefresh, PollReplayCompleted, PollNothing, EndRefresh, GatewayCloses,
                Continue, market_vars, service_vars, strategy_vars
  <2>2. Warmup' = Warmup
    BY <2>1 DEF Warmup, IsReady
  <2>3. Health' = Health
    BY <2>1 DEF Health
  <2> QED
    BY <2>1, <2>2, <2>3 DEF Promise!vars
<1> QED
  BY <1>1, <1>2, <1>3, <1>4, <1>5 DEF Next, Poll

\* The service implements WarmupService, which is what the host relies on.
THEOREM ServiceKeepsPromise == Spec => KeepsServicePromise
<1>1. Init => Promise!Init
  BY DEF Init, Promise!Init, Warmup, Health
<1> QED
  BY <1>1, PromiseStep, ServiceInvariant, MarketDataTypeCorrect, PTL
     DEF Spec, KeepsServicePromise, Promise!Spec
=============================================================================
