---------------------------- MODULE MCMcpGateway ----------------------------
(* Small instances of McpGateway for TLC. *)
EXTENDS McpGateway, TLC

CONSTANTS q1, q2, i1, i2

OneRequest  == {q1}
TwoRequests == {q1, q2}
TwoIds      == {i1, i2}

\* Two spellings of a guarded tool, a tool two rules name, one that none does.
MCNames  == {"admin_reset", "Admin_Reset", "audit", "search"}
MCFolded == [n \in MCNames |-> IF n = "Admin_Reset" THEN "admin_reset" ELSE n]
MCRules  == << [tools |-> {"admin_reset", "audit"}, role |-> "admin"],
               [tools |-> {"audit"}, role |-> "viewer"] >>
MCRoles  == {"admin", "viewer"}
MCTokens == {"token_a", "token_v"}
MCRoleOf == [t \in MCTokens |-> IF t = "token_a" THEN "admin" ELSE "viewer"]

\* Every message; what is no object has no members to tell apart.
NoMember == [v2 |-> FALSE, method |-> "missing", id |-> "absent",
             params |-> "absent", name |-> "missing"]
AnyMessage ==
  {m \in Message : m.id # i2 /\ (m.json = "object" \/ m = [json |-> m.json] @@ NoMember)}
AnyRequest ==
  [cred : Credential, declared : BOOLEAN, size : {1, 2}, msg : AnyMessage]

\* A call and a notification that are let through.
Passing(i) == [json |-> "object", v2 |-> TRUE, method |-> "other", id |-> i,
               params |-> "absent", name |-> "missing"]
PassingRequests ==
  [cred : {"token_v"}, declared : {FALSE}, size : {1}, msg : {Passing(i1), Passing("absent")}]

\* Every reply of up to two chunks beyond the cap; an empty one has no body, and
\* only a response has an id, which may be that of another request.
AnyReply ==
  {h \in [status : {"ok", "accepted", "not_2xx"}, sse : BOOLEAN, ends : BOOLEAN, size : 0..3,
          body : {"empty", "not_json", "too_deep", "not_response", "not_finite", "response"},
          id : {i1, i2, NoId}] :
     /\ (h.size = 0) <=> (h.body = "empty")
     /\ h.body # "response" => h.id = NoId
     /\ ~ h.ends => h.size = 3}
FewReplies ==
  {h \in AnyReply : /\ h.body \in {"empty", "response"} /\ h.id \in {i1, NoId}
                    /\ h.status # "accepted" /\ (h.body = "response" => h.id = i1)}
=============================================================================
