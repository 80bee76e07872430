--------------------------- MODULE RemoteAccess ---------------------------
(***************************************************************************)
(* Who may do what: the identity a trusted proxy gives in a request's      *)
(* headers, the permissions host.rs shows its clients in every status, and *)
(* the role each route asks for.  The two are computed apart, from the     *)
(* same headers.                                                           *)
(***************************************************************************)
EXTENDS FiniteSets

OperatorRole == {"Viewer", "Operator", "TradeOperator"}
AuthorizationRequirement == {"Operator", "TradeOperator"}

\* RemoteAccessConfig: whether the headers are trusted, and whether an identity is
\* required; AppConfig::load refuses the second without the first.
RemoteAccessConfig == {config \in [trust : BOOLEAN, require : BOOLEAN] :
                         config.require => config.trust}

\* What optional_identity_header and parse_operator_roles make of a request's headers:
\* whether there is a user, or one of the descriptive four, that is not blank; the roles;
\* and whether some header is no text or names a role that is unknown.
Headers == [user : BOOLEAN, described : BOOLEAN, roles : SUBSET OperatorRole, invalid : BOOLEAN]

Local == [kind |-> "local", roles |-> {}]
Invalid == [kind |-> "invalid", roles |-> {}]
Identity == {Local, Invalid} \cup [kind : {"operator"}, roles : SUBSET OperatorRole]

\* authenticated_operator_from_headers
AuthenticatedOperator(headers, remote_access) ==
  IF ~remote_access.trust THEN Local
  ELSE IF headers.invalid THEN Invalid
  ELSE IF ~headers.user /\ ~headers.described /\ headers.roles = {} THEN Local
  ELSE IF ~headers.user THEN Invalid
  ELSE [kind |-> "operator", roles |-> headers.roles]

\* authenticated_operator_has_role: each role includes those before it.
Including(role) ==
  CASE role = "Viewer" -> OperatorRole
    [] role = "Operator" -> {"Operator", "TradeOperator"}
    [] role = "TradeOperator" -> {"TradeOperator"}
HasRole(operator, role) == operator.roles \cap Including(role) # {}

Permissions(view, manage, trade) ==
  [can_view |-> view, can_manage_runtime |-> manage, can_manage_strategies |-> manage,
   can_update_settings |-> manage, can_trade |-> trade]

\* authorization_snapshot_for_operator
AuthorizationSnapshot(operator, remote_access) ==
  IF operator.kind = "operator"
  THEN Permissions(TRUE, HasRole(operator, "Operator"), HasRole(operator, "TradeOperator"))
  ELSE IF remote_access.require THEN Permissions(TRUE, FALSE, FALSE)
  ELSE Permissions(TRUE, TRUE, TRUE)

\* resolve_status_remote_access: the status a client reads, or an error.
StatusAccess(headers, remote_access) ==
  LET operator == AuthenticatedOperator(headers, remote_access)
  IN IF operator = Invalid THEN {} ELSE {AuthorizationSnapshot(operator, remote_access)}

-----------------------------------------------------------------------------
\* What reaches the broker, by a lifecycle command or through /commands.
TradeCommands ==
  {"Arm", "ClosePosition", "ManualEntry", "CancelWorkingOrders", "Flatten",
   "ManualIntent", "StrategyIntent"}
TradeDecisions == {<<"ResolveReconnectReview", "ClosePosition">>, <<"Shutdown", "FlattenFirst">>}

\* authorization_requirement_for_lifecycle_command and .._for_control_command
RequirementFor(kind, argument) ==
  IF kind \in TradeCommands \/ <<kind, argument>> \in TradeDecisions
  THEN "TradeOperator" ELSE "Operator"

\* authorize_remote_access, with operator_role_for_requirement
Authorized(operator, remote_access, requirement) ==
  IF operator.kind = "operator" THEN HasRole(operator, requirement) ELSE ~remote_access.require

\* resolve_privileged_remote_access: what the handlers of /settings, of the strategies, of
\* /runtime/commands and of /commands begin with; what it refuses changes nothing but the
\* journal.
IsServed(headers, remote_access, requirement) ==
  LET operator == AuthenticatedOperator(headers, remote_access)
  IN operator # Invalid /\ Authorized(operator, remote_access, requirement)

\* inject_authenticated_operator: the operator on record is the one of the headers, never
\* one a request's body names.
Injected(request, headers, remote_access) ==
  [request EXCEPT !.authenticated_operator = AuthenticatedOperator(headers, remote_access)]
=============================================================================
