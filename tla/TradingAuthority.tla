------------------------- MODULE TradingAuthority -------------------------
(***************************************************************************)
(* What arming promises, without saying how: authority to trade is one     *)
(* grant, made for the mode and the strategy in force when it was made.    *)
(* It may be revoked at any time.  A change of mode may keep it only in    *)
(* its own mode or in Paused, and a change of strategy always ends it, so  *)
(* one grant never turns into another.  RuntimeHost implements it.         *)
(***************************************************************************)
CONSTANTS Strategies, NoStrategy

VARIABLES mode, strategy, authority   \* authority is {} or {<<mode, strategy>>}

authority_vars == <<mode, strategy, authority>>

Modes == {"Paper", "Live", "Observation", "Paused"}

Init ==
  /\ mode \in Modes
  /\ strategy = NoStrategy
  /\ authority = {}

Grant ==
  /\ mode \in {"Paper", "Live"}
  /\ strategy \in Strategies
  /\ authority' = {<<mode, strategy>>}
  /\ UNCHANGED <<mode, strategy>>

Revoke == authority' = {} /\ UNCHANGED <<mode, strategy>>

ChangeMode ==
  /\ mode' \in Modes
  /\ \/ authority' = {}
     \/ /\ authority' = authority
        /\ \A grant \in authority : mode' \in {grant[1], "Paused"}
  /\ UNCHANGED strategy

ChangeStrategy ==
  /\ strategy' \in Strategies
  /\ authority' = {}
  /\ UNCHANGED mode

Next == Grant \/ Revoke \/ ChangeMode \/ ChangeStrategy

Spec == Init /\ [][Next]_authority_vars
=============================================================================
