---------------------------- MODULE CommandLoop ----------------------------
(***************************************************************************)
(* Commands on their way to the broker.  A handler builds a request from   *)
(* one broker snapshot (the manual commands), sanitizes it against a later *)
(* one, waits for the http_handler lock and then runs                      *)
(* RuntimeControlLoop::handle_command under it: journal the intent, decide *)
(* the risk, journal the decision and the override, plan, call the broker  *)
(* once per planned action, journal the outcome.  Any append and any call  *)
(* may fail.  A snapshot is the session's cache, which follows the account *)
(* only when the session is polled.                                        *)
(*                                                                         *)
(* Variables marked history are read by no guard.                          *)
(***************************************************************************)
EXTENDS ExecutionPlan

CONSTANTS
  Strategies,      \* loaded strategies to consider; loads are RuntimeHost's
  Clients,
  Commands,        \* what clients send: [via, intent, contract_id]
  Gates,           \* what sanitize may find besides the snapshot
  Accounts,        \* accounts the runtime may start with
  OrdersNamed,     \* broker orders carry a symbol, not "contract:<id>"
  MaxCommands,     \* bound: commands sent in a behaviour
  MaxMoves         \* bound: changes of the account made by others

ASSUME StrategiesAssumption == \A s \in Strategies : IsLoadable(s)
ASSUME OrdersNamedAssumption == OrdersNamed \in BOOLEAN
ASSUME BoundsAssumption == MaxCommands \in Nat /\ MaxMoves \in Nat

\* via: a manual lifecycle command, or a request posted to /commands, whose
\* fields are the client's until sanitized.
IsCommand(cmd) ==
  /\ cmd \in [via : {"manual", "api"}, intent : Intents, contract_id : SUBSET Contracts]
  /\ IsOption(cmd.contract_id, Contracts)
  /\ cmd.via = "manual" =>
       /\ cmd.intent.kind \in {"enter", "flatten", "cancel"}
       /\ cmd.intent.kind = "enter" => cmd.intent.quantity > 0
GateSet == [can_submit : BOOLEAN, new_entries : BOOLEAN, hard_override : BOOLEAN,
            limit_reached : BOOLEAN, support : SUBSET Features]
\* orders: every order placed, by contract; its index is its id.
AccountSet == [position : [Contracts -> Int], orders : Seq(Contracts),
               working : SUBSET Nat]
ASSUME CommandsAssumption == \A cmd \in Commands : IsCommand(cmd)
ASSUME GatesAssumption == Gates \subseteq GateSet
IsAccount(a) == a \in AccountSet /\ a.working \subseteq 1 .. Len(a.orders)
ASSUME AccountsAssumption == \A a \in Accounts : IsAccount(a)

VARIABLES
  strategy,          \* the loaded strategy
  account,           \* external: positions and orders at the broker
  cache,             \* what the session last read of it
  pc, command,       \* per handler: next step, the command it serves
  request,           \* per handler: the sanitized request, {} or a singleton
  holder,            \* the handler that has the http_handler lock
  plan, accepted,    \* per handler: its calls, and how many the broker took
  outcome,           \* per handler: how the dispatch ended
  journal,           \* per handler: records stored for its command
  answer,            \* per handler: what the client is told
  undisturbed,       \* history: nobody else changed the account since sanitize
  commands, moves    \* bounds

exec_vars == <<plan, accepted, outcome, journal, answer>>
vars == <<strategy, account, cache, pc, command, request, holder, plan, accepted,
          outcome, journal, answer, undisturbed, commands, moves>>

Steps == {"idle", "build", "sanitize", "wait", "intent", "decide", "override",
          "plan", "execute", "report", "done"}
InService == {"intent", "decide", "override", "plan", "execute", "report"}
Outcomes == {"none", "skipped", "failed", "succeeded"}
Records == {"intent_received", "accepted", "rejected", "requires_override",
            "hard_override", "dispatch_skipped", "dispatch_failed",
            "dispatch_succeeded"}
Answers == Decisions \cup {"none", "error"}
OutcomeRecord(o) == CASE o = "skipped" -> "dispatch_skipped"
                      [] o = "failed" -> "dispatch_failed"
                      [] OTHER -> "dispatch_succeeded"

CommandInit ==
  /\ strategy \in Strategies
  /\ account \in Accounts
  /\ cache = account
  /\ pc = [c \in Clients |-> "idle"]
  /\ command = [c \in Clients |-> {}]
  /\ request = [c \in Clients |-> {}]
  /\ holder = {}
  /\ plan = [c \in Clients |-> <<>>]
  /\ accepted = [c \in Clients |-> 0]
  /\ outcome = [c \in Clients |-> "none"]
  /\ journal = [c \in Clients |-> {}]
  /\ answer = [c \in Clients |-> "none"]
  /\ undisturbed = [c \in Clients |-> FALSE]
  /\ commands = 0
  /\ moves = 0

Go(c, step) == pc' = [pc EXCEPT ![c] = step]
Answer(c, a) == Go(c, "done") /\ answer' = [answer EXCEPT ![c] = a]
KeepAccount == UNCHANGED <<strategy, account, cache, undisturbed, commands, moves>>

\* The handler's only command and request.
Cmd(c) == CHOOSE cmd \in command[c] : TRUE
Req(c) == CHOOSE r \in request[c] : TRUE

-----------------------------------------------------------------------------
(* Reading a snapshot: RuntimeOperatorState                                *)

Held(a) == {[contract |-> k, quantity |-> a.position[k]] :
              k \in {k \in Contracts : a.position[k] # 0}}

\* active_position_for_symbol: the contract asked for, else the symbol's, else
\* any open position.
ActivePositions(a, contract_id) ==
  LET byId == {p \in Held(a) : ~PositionsNamed /\ p.contract \in contract_id}
      bySymbol == {p \in Held(a) : PositionsNamed /\ p.contract = Traded}
  IN IF byId # {} THEN byId ELSE IF bySymbol # {} THEN bySymbol ELSE Held(a)

\* working_orders_for_symbol
WorkingOrders(a) == {o \in a.working : OrdersNamed /\ a.orders[o] = Traded}

\* resolve_active_contract_id: {} is an error.
ResolvedContract(a, requested) ==
  LET open == {p.contract : p \in {p \in Held(a) : ~PositionsNamed}}
  IN IF requested # {} THEN requested
     ELSE IF Cardinality(open) = 1 THEN open ELSE {}

\* A manual entry's order type is the strategy's, it has brackets where the
\* strategy prefers the broker's, and it carries the price the client saw.
BuiltIntent(intent) ==
  IF intent.kind = "enter"
  THEN [intent EXCEPT !.order_type = strategy.order_type,
                      !.brackets = strategy.prefers_brackets, !.priced = TRUE]
  ELSE intent

\* The contract id a manual command is built with: an entry's is that of the
\* position it finds, a close's is resolved, a cancel has none.
BuiltContracts(a, cmd) ==
  CASE cmd.intent.kind = "enter" ->
         IF Held(a) = {} \/ PositionsNamed THEN {{}}
         ELSE {{p.contract} : p \in ActivePositions(a, {})}
    [] cmd.intent.kind = "flatten" ->
         {{k} : k \in ResolvedContract(a, cmd.contract_id)}
    [] cmd.intent.kind = "cancel" -> IF WorkingOrders(a) = {} THEN {} ELSE {{}}
    [] OTHER -> {}

-----------------------------------------------------------------------------
(* The handler, up to the lock                                             *)

Receive(c, cmd) ==
  /\ pc[c] = "idle"
  /\ commands < MaxCommands
  /\ commands' = commands + 1
  /\ command' = [command EXCEPT ![c] = {cmd}]
  /\ Go(c, IF cmd.via = "manual" THEN "build" ELSE "sanitize")
  /\ UNCHANGED <<strategy, account, cache, request, holder, exec_vars, undisturbed, moves>>

\* build_manual_entry_request, build_close_position_request,
\* build_cancel_working_orders_request, on the first snapshot.
Build(c) ==
  /\ pc[c] = "build"
  /\ \/ \E id \in BuiltContracts(cache, Cmd(c)) :
          /\ command' = [command EXCEPT ![c] = {[Cmd(c) EXCEPT !.contract_id = id,
                                                        !.intent = BuiltIntent(@)]}]
          /\ Go(c, "sanitize")
          /\ UNCHANGED answer
     \/ /\ BuiltContracts(cache, Cmd(c)) = {}
        /\ Answer(c, "error")
        /\ UNCHANGED command
  /\ UNCHANGED <<request, holder, plan, accepted, outcome, journal>>
  /\ KeepAccount

\* sanitize_command_request, on the second snapshot.
Sanitize(c) ==
  /\ pc[c] = "sanitize"
  /\ \E gate \in Gates, found \in AtMostOne(ActivePositions(cache, Cmd(c).contract_id)) :
       /\ found = {} => Held(cache) = {}
       /\ request' = [request EXCEPT ![c] =
            {[intent |-> Cmd(c).intent, contract_id |-> Cmd(c).contract_id,
              position |-> found, working |-> WorkingOrders(cache),
              can_submit |-> gate.can_submit, new_entries |-> gate.new_entries,
              hard_override |-> gate.hard_override,
              limit_reached |-> gate.limit_reached, support |-> gate.support]}]
  /\ undisturbed' = [undisturbed EXCEPT ![c] = (cache = account)]
  /\ Go(c, "wait")
  /\ UNCHANGED <<strategy, account, cache, command, holder, exec_vars, commands, moves>>

\* http_handler.lock()
Acquire(c) ==
  /\ pc[c] = "wait"
  /\ holder = {}
  /\ holder' = {c}
  /\ Go(c, "intent")
  /\ UNCHANGED <<command, request, exec_vars>>
  /\ KeepAccount

-----------------------------------------------------------------------------
(* RuntimeControlLoop::handle_command                                      *)

\* An append that returns Ok stored the record.  One that fails may have done
\* so too, when the projection fails after the store; the command ends.
AppendFails(c, record) ==
  /\ journal' \in {journal, [journal EXCEPT ![c] = @ \cup {record}]}
  /\ Answer(c, "error")

JournalIntent(c) ==
  /\ pc[c] = "intent"
  /\ \/ /\ journal' = [journal EXCEPT ![c] = @ \cup {"intent_received"}]
        /\ Go(c, "decide")
        /\ UNCHANGED answer
     \/ AppendFails(c, "intent_received")
  /\ UNCHANGED <<command, request, holder, plan, accepted, outcome>>
  /\ KeepAccount

AfterDecision(c) == IF Decision(strategy, Req(c)) = "accepted" THEN "plan" ELSE "report"
DecidedOutcome(c) == IF Decision(strategy, Req(c)) = "accepted" THEN "none" ELSE "skipped"

\* RiskEvaluator::evaluate and journal_risk_decision
Decide(c) ==
  /\ pc[c] = "decide"
  /\ \/ /\ journal' = [journal EXCEPT ![c] = @ \cup {Decision(strategy, Req(c))}]
        /\ Go(c, IF OverrideReasons(strategy, Req(c)) = {} THEN AfterDecision(c)
                 ELSE "override")
        /\ outcome' = [outcome EXCEPT ![c] = DecidedOutcome(c)]
        /\ UNCHANGED answer
     \/ /\ AppendFails(c, Decision(strategy, Req(c)))
        /\ UNCHANGED outcome
  /\ UNCHANGED <<command, request, holder, plan, accepted>>
  /\ KeepAccount

\* Mutant: a failed append of the override record does not end the command.
JournalOverrideBestEffort(c) ==
  /\ pc[c] = "override"
  /\ journal' \in {journal, [journal EXCEPT ![c] = @ \cup {"hard_override"}]}
  /\ Go(c, AfterDecision(c))
  /\ UNCHANGED <<command, request, holder, plan, accepted, outcome, answer>>
  /\ KeepAccount

\* journal_hard_override
JournalOverride(c) ==
  /\ pc[c] = "override"
  /\ \/ /\ journal' = [journal EXCEPT ![c] = @ \cup {"hard_override"}]
        /\ Go(c, AfterDecision(c))
        /\ UNCHANGED answer
     \/ AppendFails(c, "hard_override")
  /\ UNCHANGED <<command, request, holder, plan, accepted, outcome>>
  /\ KeepAccount

\* plan_tradovate; a plan without actions has been carried out.
PlanOrders(c) ==
  /\ pc[c] = "plan"
  /\ \/ /\ Plans(strategy, Req(c)) = {}
        /\ outcome' = [outcome EXCEPT ![c] = "failed"]
        /\ Go(c, "report")
        /\ UNCHANGED plan
     \/ \E p \in Plans(strategy, Req(c)) :
          /\ plan' = [plan EXCEPT ![c] = p]
          /\ outcome' = [outcome EXCEPT ![c] = IF p = <<>> THEN "succeeded" ELSE "none"]
          /\ Go(c, IF p = <<>> THEN "report" ELSE "execute")
  /\ UNCHANGED <<command, request, holder, accepted, journal, answer>>
  /\ KeepAccount

-----------------------------------------------------------------------------
(* One call to the broker: TradovateExecutionApi over HTTP.  An end of it  *)
(* says whether the broker took the call and whether the caller gets Ok.   *)

Unsent == [taken |-> FALSE, ok |-> FALSE]

\* An order of nothing is not sent, nor an OSO with a bracket of nothing; its
\* brackets have the order's quantity, their prices and those of the order are
\* present where its type asks for them (EntryPermitted).
ValidQuantity(quantity) == quantity > 0
ValidOrder(call) == ValidQuantity(call.quantity)
ValidBracket(parent) == ValidQuantity(parent.quantity)
ValidOso(call) == ValidOrder(call) /\ ValidBracket(call)

\* What parse_execution_response makes of an answer, and what the caller makes
\* of that: a refusal is an error, and so is an answer that names no order
\* where one must be named.
Responses == [refused : BOOLEAN, names_order : BOOLEAN]
Succeeded(response, must_name) == ~response.refused /\ (must_name => response.names_order)

\* The request or its answer is lost, refused by its status or unreadable: the
\* broker may have taken it all the same.  Or there is an answer.
PostExecution(must_name) ==
  {[taken |-> taken, ok |-> FALSE] : taken \in BOOLEAN} \cup
  {[taken |-> ~r.refused, ok |-> Succeeded(r, must_name)] : r \in Responses}

PlaceOrder(call) == IF ValidOrder(call) THEN PostExecution(TRUE) ELSE {Unsent}
PlaceOso(call) == IF ValidOso(call) THEN PostExecution(TRUE) ELSE {Unsent}
\* The contract of an open position has a positive id.
LiquidatePosition(call) == PostExecution(TRUE)
\* A cancel knows the order it is about.
CancelOrder(call) == IF call.order > 0 THEN PostExecution(FALSE) ELSE {Unsent}

\* The session renews its token first, which may fail.  Pausing the strategy
\* calls nobody.
BrokerCall(call) ==
  CASE call.call = "order" -> {Unsent} \cup PlaceOrder(call)
    [] call.call = "oso" -> {Unsent} \cup PlaceOso(call)
    [] call.call = "liquidate" -> {Unsent} \cup LiquidatePosition(call)
    [] call.call = "cancel" -> {Unsent} \cup CancelOrder(call)
    [] OTHER -> {[taken |-> TRUE, ok |-> TRUE]}

\* external: the account after the broker has taken a call.  A market order
\* fills at once; any other, and an order's brackets, may fill later (Moves).
Effect(a, call, order_type) ==
  CASE call.call = "liquidate" -> [a EXCEPT !.position[call.contract] = 0]
    [] call.call \in {"order", "oso"} ->
         IF order_type = "market"
         THEN [a EXCEPT !.position[call.contract] = @ + Signed(call.side, call.quantity)]
         ELSE [a EXCEPT !.orders = Append(@, call.contract),
                        !.working = @ \cup {Len(a.orders) + 1}]
    [] call.call = "cancel" -> [a EXCEPT !.working = @ \ {call.order}]
    [] OTHER -> a

\* A reduction is always a market order.
OrderType(c) == IF IsEntry(Req(c)) THEN Req(c).intent.order_type ELSE "market"

NextCall(c) == plan[c][accepted[c] + 1]
TakeCall(c) ==
  /\ account' = Effect(account, NextCall(c), OrderType(c))
  /\ accepted' = [accepted EXCEPT ![c] = @ + 1]
  /\ undisturbed' = [d \in Clients |->
                       undisturbed[d] /\ (d = c \/ account' = account)]

FailDispatch(c) ==
  /\ outcome' = [outcome EXCEPT ![c] = "failed"]
  /\ Go(c, "report")

\* Mutant: the plan counts as carried out after its first call.
CallBrokerOnce(c) ==
  /\ pc[c] = "execute"
  /\ TakeCall(c)
  /\ outcome' = [outcome EXCEPT ![c] = "succeeded"]
  /\ Go(c, "report")
  /\ UNCHANGED <<strategy, cache, command, request, holder, plan, journal, answer,
                 commands, moves>>

\* One call of execute_tradovate_plan: the first that does not succeed ends the
\* dispatch, and what was taken stays taken.
CallBroker(c) ==
  /\ pc[c] = "execute"
  /\ \E end \in BrokerCall(NextCall(c)) :
       /\ IF end.taken THEN TakeCall(c) ELSE UNCHANGED <<account, accepted, undisturbed>>
       /\ IF ~end.ok THEN FailDispatch(c)
          ELSE IF accepted[c] + 1 = Len(plan[c])
          THEN outcome' = [outcome EXCEPT ![c] = "succeeded"] /\ Go(c, "report")
          ELSE UNCHANGED <<outcome, pc>>
  /\ UNCHANGED <<strategy, cache, command, request, holder, plan, journal, answer,
                 commands, moves>>

\* journal_dispatch_skipped, _failed or _succeeded, and the command's result.
Report(c) ==
  /\ pc[c] = "report"
  /\ \/ /\ journal' = [journal EXCEPT ![c] = @ \cup {OutcomeRecord(outcome[c])}]
        /\ Answer(c, IF outcome[c] = "failed" THEN "error" ELSE Decision(strategy, Req(c)))
     \/ AppendFails(c, OutcomeRecord(outcome[c]))
  /\ UNCHANGED <<command, request, holder, plan, accepted, outcome>>
  /\ KeepAccount

\* The handler returns; the lock is released if it was taken.
Return(c) ==
  /\ pc[c] = "done"
  /\ Go(c, "idle")
  /\ command' = [command EXCEPT ![c] = {}]
  /\ request' = [request EXCEPT ![c] = {}]
  /\ holder' = holder \ {c}
  /\ plan' = [plan EXCEPT ![c] = <<>>]
  /\ accepted' = [accepted EXCEPT ![c] = 0]
  /\ outcome' = [outcome EXCEPT ![c] = "none"]
  /\ journal' = [journal EXCEPT ![c] = {}]
  /\ answer' = [answer EXCEPT ![c] = "none"]
  /\ undisturbed' = [undisturbed EXCEPT ![c] = FALSE]
  /\ UNCHANGED <<strategy, account, cache, commands, moves>>

-----------------------------------------------------------------------------
(* The account and the session                                             *)

\* external: an order of ours, a bracket's or someone else's fills, or a
\* working order ends.
AccountMoves ==
  /\ moves < MaxMoves
  /\ moves' = moves + 1
  /\ \/ \E k \in Contracts, d \in {-1, 1} :
          account' = [account EXCEPT !.position[k] = @ + d]
     \/ \E o \in account.working : account' = [account EXCEPT !.working = @ \ {o}]
  /\ undisturbed' = [c \in Clients |-> FALSE]
  /\ UNCHANGED <<strategy, cache, pc, command, request, holder, exec_vars, commands>>

\* The session applies a snapshot; it is polled under the same lock.
SyncCache ==
  /\ holder = {}
  /\ cache' = account
  /\ UNCHANGED <<strategy, account, pc, command, request, holder, exec_vars,
                 undisturbed, commands, moves>>

CommandNext ==
  \/ \E c \in Clients :
       \/ \E cmd \in Commands : Receive(c, cmd)
       \/ Build(c) \/ Sanitize(c) \/ Acquire(c)
       \/ JournalIntent(c) \/ Decide(c) \/ JournalOverride(c)
       \/ PlanOrders(c) \/ CallBroker(c) \/ Report(c) \/ Return(c)
  \/ AccountMoves \/ SyncCache

CommandSpec == CommandInit /\ [][CommandNext]_vars

-----------------------------------------------------------------------------
(* Properties                                                              *)

\* Two commands never have broker calls open at once, so nothing of ours comes
\* between the liquidation and the entry of a flatten-first reversal
\* (http_handler is held over handle_command).
DispatchesDoNotInterleave ==
  \A c \in Clients : pc[c] \in InService => holder = {c}

\* Whatever append or call fails: the broker has taken nothing from a command
\* whose intent, acceptance and, where protection was missing, hard override
\* are not in the journal already.
AcceptedOrdersAudited ==
  \A c \in Clients : accepted[c] > 0 =>
    /\ {"intent_received", "accepted"} \subseteq journal[c]
    /\ OverrideReasons(strategy, Req(c)) # {} =>
         Req(c).hard_override /\ "hard_override" \in journal[c]

\* A stored outcome and a client's answer are true: success means every planned
\* call was taken, a refusal that none was, and a client is told of a success
\* or a refusal only when the journal says so too.
OutcomeIsTrue ==
  \A c \in Clients :
    /\ "dispatch_succeeded" \in journal[c] => accepted[c] = Len(plan[c])
    /\ "dispatch_skipped" \in journal[c] => accepted[c] = 0
    /\ answer[c] = "accepted" => "dispatch_succeeded" \in journal[c]
    /\ answer[c] \in {"rejected", "requires_override"} => "dispatch_skipped" \in journal[c]

\* The command was carried out, its snapshot was current, and nobody else moved
\* the account since.
Undisturbed(c) == answer[c] = "accepted" /\ undisturbed[c]
OnlyTraded(c) ==
  Req(c).contract_id \cup {p.contract : p \in Req(c).position} \subseteq {Traded}
Before(c) == IF Req(c).position = {} THEN 0 ELSE (CHOOSE p \in Req(c).position : TRUE).quantity
Fills(c) == OrderType(c) = "market"
\* The close and the entry that a direct reversal sends together fit into a u32: beyond
\* it the addition saturates, and the entry is short of its size.
Fits(c) ==
  IsEntry(Req(c)) /\ Reverses(Req(c)) /\ strategy.reversal = "direct_reverse" =>
    \A quantity \in Approved(strategy, Req(c)) : quantity + Size(Before(c)) <= MaxQuantity

\* The traded position is where the intent says: an entry of the approved size on its
\* side whatever reversal mode got it there, a reduction that never crosses zero, a
\* flatten flat.
OnTarget(c) ==
  \E quantity \in IF IsEntry(Req(c)) THEN Approved(strategy, Req(c)) ELSE {Req(c).intent.quantity} :
    account.position[Traded] = Target(Before(c), Req(c).intent, quantity)

\* What an entry adds on its side is within the strategy's maximum and within what
\* max_risk_usd pays for, or is the strategy's own minimum, or no more than its
\* fallback where risk pays for none, or for more than a u32 can count; what the client
\* asked for never counts.
WithinRisk(c) ==
  LET kept == IF ScalesIn(Req(c)) THEN Size(Before(c)) ELSE 0
      added == Size(account.position[Traded]) - kept
  IN /\ \A most \in strategy.max_contracts : added <= most
     /\ strategy.sizing = "risk_based" =>
          \/ added <= strategy.affordable
          \/ added \in strategy.min_contracts
          \/ strategy.affordable \notin 1..MaxQuantity /\ \E most \in strategy.fallback : added <= most

\* A command carried out undisturbed leaves the traded position where its intent
\* says, and adds no more to it than the strategy's risk allows.
CommandReachesTarget ==
  \A c \in Clients : Undisturbed(c) /\ OnlyTraded(c) /\ Fills(c) /\ Fits(c) =>
    OnTarget(c) /\ (IsEntry(Req(c)) => WithinRisk(c))

\* "manual order entry for the loaded contract only": no call of a manual
\* entry is about another contract.
ManualEntryInLoadedContract ==
  \A c \in Clients :
    \A cmd \in command[c] : cmd.via = "manual" /\ cmd.intent.kind = "enter" =>
      \A i \in 1 .. accepted[c] : plan[c][i].contract = Traded
=============================================================================
