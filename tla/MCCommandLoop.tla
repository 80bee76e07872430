--------------------------- MODULE MCCommandLoop ---------------------------
(***************************************************************************)
(* Strategies, commands, gates and accounts for TLC.                       *)
(***************************************************************************)
EXTENDS CommandLoop, TLC

CONSTANTS nq, gc     \* the traded contract and another

Simple == [reversal |-> "flatten_first", scale_in |-> FALSE, max_legs |-> 1,
           trailing |-> FALSE, partial_take_profit |-> FALSE,
           required |-> {"stop_loss"}, prefers_brackets |-> TRUE,
           order_type |-> "market", sizing |-> "fixed", contracts |-> {1},
           affordable |-> 0, fallback |-> {}, min_contracts |-> {},
           max_contracts |-> {}]
\* Scales in and reverses directly, sized by risk, needs an override.
Scaling == [Simple EXCEPT !.reversal = "direct_reverse", !.scale_in = TRUE,
                          !.max_legs = 3, !.required = {"daily_loss"},
                          !.sizing = "risk_based", !.contracts = {},
                          !.affordable = 1, !.fallback = {2}, !.max_contracts = {3}]
\* Cannot afford a contract and enters by limit order.
Poor == [Scaling EXCEPT !.affordable = 0, !.required = {}, !.order_type = "limit",
                        !.min_contracts = {1}]
\* Affords more contracts than there are numbers for.
Rich == [Scaling EXCEPT !.affordable = MaxQuantity + 1, !.required = {}]
AllStrategies == {Simple, Scaling, Poor, Rich}
OneStrategy == {Simple}

Enter(side, quantity) ==
  [kind |-> "enter", side |-> side, quantity |-> quantity, order_type |-> "market",
   brackets |-> FALSE, priced |-> TRUE, tick_value |-> TRUE]
Other(kind, quantity) == [Enter("buy", quantity) EXCEPT !.kind = kind]
Send(via, intent, id) == [via |-> via, intent |-> intent, contract_id |-> id]

AllCommands ==
  {Send("manual", Enter("buy", 2), {}),
   Send("api", [Enter("sell", 3) EXCEPT !.brackets = TRUE], {}),
   Send("manual", Other("flatten", 0), {}),
   Send("manual", Other("cancel", 0), {}),
   Send("api", Other("reduce", 1), {}), Send("api", Other("pause", 0), {})}
ManualEntries == {Send("manual", Enter("buy", 2), {})}

Open == [can_submit |-> TRUE, new_entries |-> TRUE, hard_override |-> FALSE,
         limit_reached |-> FALSE, support |-> {"stop_loss", "take_profit"}]
AllGates == {Open, [Open EXCEPT !.can_submit = FALSE],
             [Open EXCEPT !.hard_override = TRUE], [Open EXCEPT !.limit_reached = TRUE]}
OpenGates == {Open}

Positions(n, m) == (nq :> n) @@ (gc :> m)
Account(n, m, working) ==
  [position |-> Positions(n, m), orders |-> <<nq, gc, nq>>, working |-> working]
AllAccounts == {Account(0, 0, {}), Account(2, 0, {1, 2, 3}), Account(-1, 1, {1})}
OtherOpen == {Account(0, -1, {})}

Symmetry == Permutations(Clients)
=============================================================================
