---------------------------- MODULE GatewayMessages ----------------------------
(***************************************************************************)
(* What the gateway of task 2 decides from a request alone: who sends it   *)
(* (auth.py), whether it is a JSON-RPC message, and whether the policy     *)
(* lets it through (gateway.py, policy.py).  A message is what those       *)
(* decisions can tell apart.                                               *)
(***************************************************************************)
EXTENDS Naturals, Sequences

CONSTANTS
  Ids,      (* JSON-RPC ids: strings and numbers                           *)
  NoId,     (* null in the id of an answer                                 *)
  Names,    (* tool names                                                  *)
  Folded,   (* a name, stripped and casefolded                             *)
  Roles,    (* what a token resolves to                                    *)
  Rules,    (* Policy._rules, in order: the tools a rule matches, its role *)
  Tokens,   (* the bearer tokens that are known                            *)
  RoleOf    (* and their roles                                             *)

ASSUME MessagesAssumption ==
  /\ NoId \notin Ids
  /\ Ids \cap {"absent", "null", "other"} = {}
  /\ Folded \in [Names -> Names] /\ "missing" \notin Names
  /\ Rules \in Seq([tools : SUBSET Names, role : Roles])
  /\ RoleOf \in [Tokens -> Roles]
  /\ Tokens \cap {"missing", "repeated", "not_bearer", "non_ascii", "unknown"} = {}

\* Authorization headers: none, several, or one that is no known bearer token.
Credential == Tokens \cup {"missing", "repeated", "not_bearer", "non_ascii", "unknown"}

\* A body that is no JSON, or JSON that is no object, or an object whose members
\* are missing, of the wrong type, or as they should be.  `method` tells
\* tools/call from another spelling of it and from everything else; `id` is
\* absent, null, of another type, or an id; `name` is params.name.
Message ==
  [ json   : {"malformed", "not_object", "object"},
    v2     : BOOLEAN,
    method : {"missing", "call", "near_call", "other"},
    id     : Ids \cup {"absent", "null", "other"},
    params : {"absent", "object", "array", "other"},
    name   : Names \cup {"missing"} ]

-----------------------------------------------------------------------------
(* auth.py, and sole_authorization_header                                  *)

Authenticated(c) == c \in Tokens

-----------------------------------------------------------------------------
(* gateway.py: extract_id, validate_envelope, screen_message               *)

ExtractId(m) == IF m.json = "object" /\ m.id \in Ids THEN m.id ELSE NoId

IsNotification(m) == m.id = "absent"

WellFormed(m) ==
  /\ m.json = "object"
  /\ m.v2
  /\ m.method # "missing"
  /\ m.id \in Ids \cup {"absent"}
  /\ m.params # "other"

\* The error of a message that is not well-formed, in the order of the checks:
\* the id is echoed unless it is the id that is wrong.
EnvelopeErrorId(m) ==
  IF ~ m.v2 \/ m.method = "missing" THEN ExtractId(m)
  ELSE IF m.id \in {"null", "other"} THEN NoId
  ELSE ExtractId(m)

\* Policy.check_tool_call: the first rule that matches decides; no rule, allowed.
Matching(name) == {k \in DOMAIN Rules : name \in Rules[k].tools}
CheckToolCall(name, role) ==
  \A k \in Matching(name) :
    (\A j \in Matching(name) : k <= j) => role = Rules[k].role

\* screen_message: "forward", or the code of the refusal.
Screen(m, role) ==
  IF m.method # "call"
    THEN IF m.method = "near_call" THEN "invalid_request" ELSE "forward"
  ELSE IF m.params # "object" \/ m.name = "missing" THEN "invalid_params"
  ELSE IF CheckToolCall(m.name, role) /\ CheckToolCall(Folded[m.name], role) THEN "forward"
  ELSE "unauthorized_tool_call"
=============================================================================
