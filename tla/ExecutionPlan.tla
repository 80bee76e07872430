--------------------------- MODULE ExecutionPlan ---------------------------
(***************************************************************************)
(* What the runtime decides about one sanitized request: the risk decision *)
(* and size of crates/risk_engine, and the broker calls that               *)
(* ExecutionPlanner::plan_tradovate makes of it.  Both are functions of    *)
(* the request; an Option is a set of at most one element, and so is the   *)
(* result of a function that may fail.                                     *)
(*                                                                         *)
(* The loader refuses a strategy without stop or take-profit ticks, so     *)
(* both brackets exist.  Prices are left out except for their presence.    *)
(***************************************************************************)
EXTENDS Integers, Sequences, FiniteSets, FiniteSetsExt

CONSTANTS
  Contracts,
  Traded,            \* the contract the loaded strategy maps to
  MaxQuantity,       \* u32::MAX
  PositionsNamed     \* broker positions carry a symbol, not "contract:<id>"

ASSUME TradedAssumption == Traded \in Contracts
ASSUME MaxQuantityAssumption == MaxQuantity \in Nat \ {0}
ASSUME PositionsNamedAssumption == PositionsNamed \in BOOLEAN

Sides == {"buy", "sell"}
Features == {"stop_loss", "take_profit", "trailing_stop", "daily_loss"}
OrderTypes == {"market", "limit", "stop", "stop_limit"}
IntentKinds == {"enter", "flatten", "reduce", "cancel", "pause"}
Decisions == {"accepted", "rejected", "requires_override"}
AtMostOne(S) == {{}} \cup {{x} : x \in S}
IsOption(x, S) == x \subseteq S /\ \A a, b \in x : a = b

\* prefers_brackets: a stop or take-profit preference is not bot_allowed.
\* required: features whose preference is broker_required.  affordable: the
\* contracts max_risk_usd pays for at the strategy's stop, -1 if it is not positive.
IsStrategy(s) ==
  /\ s.reversal \in {"flatten_first", "direct_reverse"}
  /\ s.scale_in \in BOOLEAN /\ s.max_legs \in Nat \ {0}
  /\ s.trailing \in BOOLEAN /\ s.partial_take_profit \in BOOLEAN
  /\ s.required \subseteq Features /\ s.prefers_brackets \in BOOLEAN
  /\ s.required \cap {"stop_loss", "take_profit"} # {} => s.prefers_brackets
  /\ s.order_type \in OrderTypes
  /\ s.sizing \in {"fixed", "risk_based"}
  /\ s.affordable \in Nat \cup {-1} /\ IsOption(s.contracts, Nat) /\ IsOption(s.fallback, Nat)
  /\ IsOption(s.min_contracts, Nat) /\ IsOption(s.max_contracts, Nat)

Intents == [kind : IntentKinds, side : Sides, quantity : Nat,
            order_type : OrderTypes, brackets : BOOLEAN, priced : BOOLEAN,
            tick_value : BOOLEAN]
\* A position found is open; contract_id is instrument.active_contract_id.
IsRequest(r) ==
  /\ r.intent \in Intents
  /\ IsOption(r.position, [contract : Contracts, quantity : Int \ {0}])
  /\ IsOption(r.contract_id, Contracts)
  /\ r.working \subseteq Nat /\ IsFiniteSet(r.working)
  /\ {r.can_submit, r.new_entries, r.hard_override, r.limit_reached} \subseteq BOOLEAN
  /\ r.support \subseteq Features

\* validate_position_sizing and validate_execution
IsLoadable(s) ==
  /\ IsStrategy(s)
  /\ s.sizing = "fixed" => s.contracts # {} /\ 0 \notin s.contracts
  /\ s.sizing = "risk_based" =>
       /\ 0 \notin s.fallback \cup s.min_contracts \cup s.max_contracts
       /\ \A lo \in s.min_contracts, hi \in s.max_contracts : lo <= hi

-----------------------------------------------------------------------------
(* Risk: RiskEvaluator::evaluate                                           *)

Unsupported(s, support) ==
  {f \in s.required \ support : f = "trailing_stop" => s.trailing}

\* apply_contract_bounds
Bounded(s, quantity) == Min({Max({quantity} \cup s.min_contracts)} \cup s.max_contracts)

\* Mutant: the fallback is used although risk pays for fewer contracts.
EntryQuantityPreferringFallback(s, requested, tick_value_known) ==
  LET base == IF s.sizing = "fixed" THEN s.contracts \ {0}
              ELSE {Max({s.affordable} \cup s.fallback)}
  IN {Bounded(s, quantity) : quantity \in base} \ {0}

\* floor().to_u32().unwrap_or(0): of more contracts than a u32 can count none are left.
ComputedQuantity(s) == IF s.affordable <= MaxQuantity THEN s.affordable ELSE 0

\* resolve_entry_quantity: {} is an Err.
EntryQuantity(s, requested, tick_value_known) ==
  LET base == IF s.sizing = "fixed"
              THEN (IF s.contracts = {} THEN {requested} ELSE s.contracts) \ {0}
              ELSE IF ~tick_value_known \/ s.affordable < 0 THEN {}
              ELSE IF ComputedQuantity(s) > 0 THEN {ComputedQuantity(s)}
              ELSE IF s.fallback # {} THEN s.fallback ELSE {0}
      bounded == {Bounded(s, quantity) : quantity \in base}
  IN IF \E lo \in s.min_contracts, hi \in s.max_contracts : lo > hi THEN {}
     ELSE IF s.sizing = "fixed" THEN bounded ELSE bounded \ {0}

IsEntry(r) == r.intent.kind = "enter"
Approved(s, r) == EntryQuantity(s, r.intent.quantity, r.intent.tick_value)

\* The reasons the decision is journalled with.  An unsupported trailing stop
\* cannot be overridden, so it advertises none.
OverrideReasons(s, r) ==
  IF IsEntry(r) /\ "trailing_stop" \notin Unsupported(s, r.support)
  THEN Unsupported(s, r.support) ELSE {}

Decision(s, r) ==
  IF ~IsEntry(r) THEN "accepted"
  ELSE IF \/ "trailing_stop" \in Unsupported(s, r.support)
          \/ r.limit_reached
          \/ Approved(s, r) = {} THEN "rejected"
  ELSE IF OverrideReasons(s, r) = {} \/ r.hard_override THEN "accepted"
  ELSE "requires_override"

-----------------------------------------------------------------------------
(* Planning: ExecutionPlanner.  A plan is a sequence of broker calls; a    *)
(* request has a set of plans, empty when planning fails.                  *)

Size(n) == IF n < 0 THEN -n ELSE n
SideOf(n) == IF n >= 0 THEN "buy" ELSE "sell"
Opposite(side) == IF side = "buy" THEN "sell" ELSE "buy"

Liquidate(c) == [call |-> "liquidate", contract |-> c]
Submit(side, quantity, brackets) ==
  [call |-> IF brackets THEN "oso" ELSE "order", contract |-> Traded,
   side |-> side, quantity |-> quantity]
Cancel(o) == [call |-> "cancel", contract |-> Traded, order |-> o]
PauseStrategy == [call |-> "pause", contract |-> Traded]

\* resolve_contract_id: the request's, or the one in the position's name.
ContractId(r) ==
  IF r.contract_id # {} \/ PositionsNamed THEN r.contract_id
  ELSE {p.contract : p \in r.position}

ScalesIn(r) == \E p \in r.position : SideOf(p.quantity) = r.intent.side
Reverses(r) == \E p \in r.position : SideOf(p.quantity) # r.intent.side

\* plan_entry's refusals and those of the order it builds.
EntryPermitted(s, r) ==
  /\ r.can_submit /\ r.new_entries
  /\ ~s.partial_take_profit
  /\ ~(s.trailing /\ "trailing_stop" \in s.required)
  /\ s.required \cap {"stop_loss", "take_profit"} # {} => r.intent.brackets
  /\ ScalesIn(r) => s.scale_in /\ \A p \in r.position : Size(p.quantity) < s.max_legs
  /\ r.intent.order_type # "stop_limit"
  /\ r.intent.order_type # "market" \/ r.intent.brackets => r.intent.priced

ClosingLegs(s, r) ==
  IF Reverses(r) /\ s.reversal = "flatten_first"
  THEN {<<Liquidate(c)>> : c \in ContractId(r)} ELSE {<<>>}

\* Mutant: a direct reversal sends the entry's quantity alone.
EffectiveQuantityUnadjusted(s, r, quantity) == quantity

\* saturating_add on u32.
EffectiveQuantity(s, r, quantity) ==
  IF Reverses(r) /\ s.reversal = "direct_reverse"
  THEN Min({MaxQuantity, quantity + Max({Size(p.quantity) : p \in r.position})})
  ELSE quantity

EntryLeg(s, r, quantity) ==
  Submit(r.intent.side, EffectiveQuantity(s, r, quantity), r.intent.brackets)

EntryPlans(s, r) ==
  IF EntryPermitted(s, r)
  THEN {Append(legs, EntryLeg(s, r, quantity)) :
          legs \in ClosingLegs(s, r), quantity \in Approved(s, r) \ {0}}
  ELSE {}

\* Without a position there is nothing to do, which is no error.
FlattenPlans(r) ==
  IF r.position = {} THEN {<<>>} ELSE {<<Liquidate(c)>> : c \in ContractId(r)}

ReducePlans(r) ==
  IF ~r.can_submit \/ r.intent.quantity = 0 THEN {}
  ELSE UNION {IF r.intent.quantity >= Size(p.quantity) THEN FlattenPlans(r)
              ELSE {<<Submit(Opposite(SideOf(p.quantity)), r.intent.quantity, FALSE)>>} :
              p \in r.position}

\* One call per working order of the symbol, in the order of the snapshot.
CancelPlans(r) ==
  IF r.working = {} THEN {}
  ELSE {[i \in 1 .. Cardinality(r.working) |-> Cancel(o[i])] :
          o \in {o \in [1 .. Cardinality(r.working) -> r.working] :
                   \A i, j \in 1 .. Cardinality(r.working) : i < j => o[i] < o[j]}}

Plans(s, r) ==
  CASE r.intent.kind = "enter"   -> EntryPlans(s, r)
    [] r.intent.kind = "flatten" -> FlattenPlans(r)
    [] r.intent.kind = "reduce"  -> ReducePlans(r)
    [] r.intent.kind = "cancel"  -> CancelPlans(r)
    [] r.intent.kind = "pause"   -> {<<PauseStrategy>>}

-----------------------------------------------------------------------------
(* What a plan is for, written without the planner: where a position n     *)
(* should be when it has been carried out and nothing else has happened.   *)

Signed(side, quantity) == IF side = "buy" THEN quantity ELSE -quantity

\* An entry adds to its own side and replaces the other; a reduction moves
\* towards zero and stops there; a flatten ends at zero.
Target(n, intent, quantity) ==
  CASE intent.kind = "enter" ->
         IF n = 0 \/ SideOf(n) = intent.side
         THEN n + Signed(intent.side, quantity) ELSE Signed(intent.side, quantity)
    [] intent.kind = "reduce" ->
         IF quantity >= Size(n) THEN 0
         ELSE Signed(SideOf(n), Size(n) - quantity)
    [] intent.kind = "flatten" -> 0
    [] OTHER -> n
=============================================================================
