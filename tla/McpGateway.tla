------------------------------ MODULE McpGateway ------------------------------
(***************************************************************************)
(* src/task2_mcp_gateway/gateway.py: the proxy handler of each request,    *)
(* cut at its awaits, over one pool of connections to the downstream       *)
(* server.  Bodies are counted in chunks.                                  *)
(***************************************************************************)
EXTENDS GatewayMessages, FiniteSets

CONSTANTS
  Req,              (* requests                                            *)
  Requests,         (* what they may be: credential, declared length, size *)
                    (* of the body in chunks, message                      *)
  Replies,          (* what the downstream server may answer               *)
  MaxBody,          (* MAX_BODY_BYTES, in chunks                           *)
  MaxReply,         (* MAX_RESPONSE_BYTES, in chunks                       *)
  MaxConnections,   (* httpx.Limits.max_connections                        *)
  NoRequest,        (* nothing has arrived                                 *)
  NoReply           (* no reply head has arrived                           *)

\* A reply: its status, whether it is an event stream, its length in chunks and
\* whether it ends at all, and what its body is if it is no stream: empty, no
\* JSON, JSON nested too deep to parse, no JSON-RPC response, one with a number
\* JSON has no notation for (NaN), or a response, under some id.  Of a reply that
\* does not end, `size` chunks are counted.
Reply ==
  [ status : {"ok", "accepted", "not_2xx"},
    sse    : BOOLEAN,
    ends   : BOOLEAN,
    size   : Nat,
    body   : {"empty", "not_json", "too_deep", "not_response", "not_finite", "response"},
    id     : Ids \cup {NoId} ]

ASSUME GatewayAssumption ==
  /\ MaxBody \in Nat /\ MaxReply \in Nat /\ MaxConnections \in Nat \ {0}
  /\ Requests \subseteq [cred : Credential, declared : BOOLEAN, size : Nat, msg : Message]
  /\ Replies \subseteq Reply
  /\ \A h \in Replies : ~ h.ends => h.size > MaxReply
  /\ NoRequest \notin Requests /\ NoReply \notin Replies

VARIABLES
  pc,        (* the await the handler of a request is suspended at         *)
  req,       (* the requests that have arrived                             *)
  got,       (* chunks of the body received                                *)
  conn,      (* the connection to the downstream server                    *)
  seen,      (* how often the downstream server was sent the request       *)
  reply,     (* the reply it is giving                                     *)
  held,      (* chunks of the reply in memory                              *)
  answer     (* what the client was told                                   *)

vars == <<pc, req, got, conn, seen, reply, held, answer>>

Await ==
  { "idle", "reading", "opening", "draining", "starting", "relaying", "sending",
    "buffering", "over" }

Unanswered == [kind |-> "none", id |-> NoId]
Answer(k, i) == [kind |-> k, id |-> i]

Msg(r)  == req[r].msg
Role(r) == RoleOf[req[r].cred]
Id(r)   == ExtractId(Msg(r))

Open == {r \in Req : conn[r] = "open"}

Goto(r, p)  == pc' = [pc EXCEPT ![r] = p] /\ UNCHANGED answer
Tell(r, k, i) ==
  /\ pc' = [pc EXCEPT ![r] = "over"]
  /\ answer' = [answer EXCEPT ![r] = Answer(k, i)]
CloseConn(r) == conn' = [conn EXCEPT ![r] = IF @ = "open" THEN "closed" ELSE @]

Upstream == <<conn, seen, reply, held>>

-----------------------------------------------------------------------------
(* Authenticate, read the body                                             *)

Arrive(r) ==
  /\ pc[r] = "idle"
  /\ \E q \in Requests :
       /\ req' = [req EXCEPT ![r] = q]
       /\ IF ~ Authenticated(q.cred) THEN Tell(r, "unauthorized", NoId)
          ELSE IF q.declared /\ q.size > MaxBody THEN Tell(r, "too_large", NoId)
          ELSE Goto(r, "reading")
  /\ UNCHANGED <<got, Upstream>>

\* Checked as it arrives: the body may come without a declared length.
ReceiveChunk(r) ==
  /\ pc[r] = "reading" /\ got[r] < req[r].size
  /\ got' = [got EXCEPT ![r] = @ + 1]
  /\ IF got[r] + 1 > MaxBody THEN Tell(r, "too_large", NoId) ELSE UNCHANGED <<pc, answer>>
  /\ UNCHANGED <<req, Upstream>>

\* ClientDisconnect
HangUp(r) ==
  /\ pc[r] = "reading"
  /\ Tell(r, "gone", NoId)
  /\ UNCHANGED <<req, got, Upstream>>

\* A refused notification gets no body, like one that was forwarded.
Refuse(r, code) ==
  IF IsNotification(Msg(r)) THEN Tell(r, "silence", NoId) ELSE Tell(r, code, Id(r))

\* The whole body is there: parse, validate, screen, without an await between.
Decide(r) ==
  /\ pc[r] = "reading" /\ got[r] = req[r].size
  /\ IF Msg(r).json = "malformed" THEN Tell(r, "parse_error", NoId)
     ELSE IF ~ WellFormed(Msg(r)) THEN Tell(r, "invalid_request", EnvelopeErrorId(Msg(r)))
     ELSE IF Screen(Msg(r), Role(r)) # "forward" THEN Refuse(r, Screen(Msg(r), Role(r)))
     ELSE Goto(r, "opening")
  /\ UNCHANGED <<req, got, Upstream>>

-----------------------------------------------------------------------------
(* _open_stream                                                            *)

\* The client library waits for a free connection of the pool.
Connect(r) ==
  /\ pc[r] = "opening" /\ conn[r] = "none"
  /\ Cardinality(Open) < MaxConnections
  /\ conn' = [conn EXCEPT ![r] = "open"]
  /\ UNCHANGED <<pc, req, got, seen, reply, held, answer>>

Send(r) ==
  /\ pc[r] = "opening" /\ conn[r] = "open" /\ seen[r] = 0
  /\ seen' = [seen EXCEPT ![r] = @ + 1]
  /\ UNCHANGED <<pc, req, got, conn, reply, held, answer>>

\* Mutant: nothing bounds the wait for the pool.
OpenFailsOnceConnected(r) ==
  /\ pc[r] = "opening" /\ conn[r] = "open"
  /\ \E k \in {"timed_out", "unavailable"} : Tell(r, k, Id(r))
  /\ CloseConn(r)
  /\ UNCHANGED <<req, got, seen, reply, held>>

\* A timeout (of the pool, the connection, the reply) or a transport error, at
\* any moment: a library call that raises has no connection left.
OpenFails(r) ==
  /\ pc[r] = "opening"
  /\ \E k \in {"timed_out", "unavailable"} : Tell(r, k, Id(r))
  /\ CloseConn(r)
  /\ UNCHANGED <<req, got, seen, reply, held>>

\* Status first, then the notification, then the content type.
AwaitFor(r, h) ==
  IF h.status = "not_2xx" \/ IsNotification(Msg(r)) THEN "draining"
  ELSE IF h.sse THEN "starting"
  ELSE "buffering"

\* Mutant: a reply that is to be buffered is asked for with a call of its own.
ReplyHeadAsksAgain(r) ==
  /\ pc[r] = "opening" /\ seen[r] > 0
  /\ \E h \in Replies :
       /\ reply' = [reply EXCEPT ![r] = h]
       /\ Goto(r, AwaitFor(r, h))
       /\ seen' = [seen EXCEPT ![r] = IF AwaitFor(r, h) = "buffering" THEN @ + 1 ELSE @]
  /\ UNCHANGED <<req, got, conn, held>>

ReplyHead(r) ==
  /\ pc[r] = "opening" /\ seen[r] > 0
  /\ \E h \in Replies :
       /\ reply' = [reply EXCEPT ![r] = h]
       /\ Goto(r, AwaitFor(r, h))
  /\ UNCHANGED <<req, got, conn, seen, held>>

-----------------------------------------------------------------------------
(* _drain: what is not relayed is read to its end, if it has one, and      *)
(* thrown away: no cap, and a timeout on each read only                    *)

DrainChunk(r) ==
  /\ pc[r] = "draining" /\ held[r] < reply[r].size
  /\ held' = [held EXCEPT ![r] = @ + 1]
  /\ UNCHANGED <<pc, req, got, conn, seen, reply, answer>>

Drained(r) ==
  /\ pc[r] = "draining" /\ held[r] = reply[r].size /\ reply[r].ends
  /\ IF reply[r].status = "not_2xx" THEN Tell(r, "upstream_error", Id(r))
     ELSE Tell(r, "silence", NoId)
  /\ CloseConn(r)
  /\ UNCHANGED <<req, got, seen, reply, held>>

\* The failed read is suppressed.  After it the log entry of an upstream error
\* asks for the text of a body that was never read, which raises, and what it
\* raises is no httpx.HTTPError: the backstop answers.
DrainFails(r) ==
  /\ pc[r] = "draining"
  /\ IF reply[r].status = "not_2xx" THEN Tell(r, "internal_error", NoId)
     ELSE Tell(r, "silence", NoId)
  /\ CloseConn(r)
  /\ UNCHANGED <<req, got, seen, reply, held>>

-----------------------------------------------------------------------------
(* _relay_sse: an event stream, passed on as it comes                      *)

\* The server sends the head of the answer and asks the generator for its
\* first chunk.
StartRelay(r) ==
  /\ pc[r] = "starting"
  /\ Goto(r, "relaying")
  /\ UNCHANGED <<req, got, Upstream>>

\* The generator yields a chunk; while the server sends it, the generator waits.
RelayChunk(r) ==
  /\ pc[r] = "relaying"
  /\ Goto(r, "sending")
  /\ UNCHANGED <<req, got, Upstream>>

Sent(r) ==
  /\ pc[r] = "sending"
  /\ Goto(r, "relaying")
  /\ UNCHANGED <<req, got, Upstream>>

\* The stream ends or breaks: `finally` closes.  The ids in it are the server's.
EndRelay(r) ==
  /\ pc[r] = "relaying"
  /\ Tell(r, "stream", NoId)
  /\ CloseConn(r)
  /\ UNCHANGED <<req, got, seen, reply, held>>

-----------------------------------------------------------------------------
(* _read_capped, _build_response                                           *)

\* Only ValueError is expected of json(), and JSONResponse refuses to write NaN:
\* what they raise beyond that is left to the backstop.
Raises(b) == b \in {"too_deep", "not_finite"}

\* Mutant: the id of the reply is not compared with the id of the request.
BuildUncorrelated(r, h) ==
  IF h.status = "accepted" /\ h.body = "empty" THEN Tell(r, "silence", NoId)
  ELSE IF Raises(h.body) THEN Tell(r, "internal_error", NoId)
  ELSE IF h.body = "response" THEN Tell(r, "result", h.id)
  ELSE Tell(r, "malformed_reply", Id(r))

Build(r, h) ==
  IF h.status = "accepted" /\ h.body = "empty" THEN Tell(r, "silence", NoId)
  ELSE IF Raises(h.body) THEN Tell(r, "internal_error", NoId)
  ELSE IF h.body = "response" /\ h.id = Id(r) THEN Tell(r, "result", h.id)
  ELSE Tell(r, "malformed_reply", Id(r))

\* Mutant: the cap is looked at before the chunk is added, as `>`.
BufferChunkCapLate(r) ==
  /\ pc[r] = "buffering" /\ held[r] < reply[r].size
  /\ held' = [held EXCEPT ![r] = @ + 1]
  /\ IF held[r] > MaxReply
       THEN Tell(r, "upstream_error", Id(r)) /\ CloseConn(r)
       ELSE UNCHANGED <<pc, answer, conn>>
  /\ UNCHANGED <<req, got, seen, reply>>

\* Mutant: the oversized reply is refused and its connection forgotten.
BufferChunkForgets(r) ==
  /\ pc[r] = "buffering" /\ held[r] < reply[r].size
  /\ held' = [held EXCEPT ![r] = @ + 1]
  /\ IF held[r] + 1 > MaxReply THEN Tell(r, "upstream_error", Id(r))
     ELSE UNCHANGED <<pc, answer>>
  /\ UNCHANGED <<req, got, conn, seen, reply>>

BufferChunk(r) ==
  /\ pc[r] = "buffering" /\ held[r] < reply[r].size
  /\ held' = [held EXCEPT ![r] = @ + 1]
  /\ IF held[r] + 1 > MaxReply
       THEN Tell(r, "upstream_error", Id(r)) /\ CloseConn(r)
       ELSE UNCHANGED <<pc, answer, conn>>
  /\ UNCHANGED <<req, got, seen, reply>>

Buffered(r) ==
  /\ pc[r] = "buffering" /\ held[r] = reply[r].size
  /\ Build(r, reply[r])
  /\ CloseConn(r)
  /\ UNCHANGED <<req, got, seen, reply, held>>

BufferFails(r) ==
  /\ pc[r] = "buffering"
  /\ \E k \in {"timed_out", "unavailable"} : Tell(r, k, Id(r))
  /\ CloseConn(r)
  /\ UNCHANGED <<req, got, seen, reply, held>>

-----------------------------------------------------------------------------
\* The task is cancelled at an await (the server shuts down, or the client of an
\* event stream leaves).  The library closes a connection whose call or read is
\* interrupted; a generator that was not started, or waits at its yield, is dropped
\* with its `finally` not run.
Dropped(p) == p \in {"starting", "sending"}

Cancel(r) ==
  /\ pc[r] \notin {"idle", "over"}
  /\ IF Dropped(pc[r])
       THEN Tell(r, "dropped", NoId) /\ UNCHANGED conn
       ELSE Tell(r, "cancelled", NoId) /\ CloseConn(r)
  /\ UNCHANGED <<req, got, seen, reply, held>>

\* The interpreter finalises the generator, and the context of the stream, that
\* nobody refers to.
Collect(r) ==
  /\ pc[r] = "over" /\ conn[r] = "open"
  /\ CloseConn(r)
  /\ UNCHANGED <<pc, req, got, seen, reply, held, answer>>

Init ==
  /\ pc = [r \in Req |-> "idle"]
  /\ req = [r \in Req |-> NoRequest]
  /\ got = [r \in Req |-> 0]
  /\ conn = [r \in Req |-> "none"]
  /\ seen = [r \in Req |-> 0]
  /\ reply = [r \in Req |-> NoReply]
  /\ held = [r \in Req |-> 0]
  /\ answer = [r \in Req |-> Unanswered]

Read(r) == ReceiveChunk(r) \/ Decide(r) \/ HangUp(r)

\* What the gateway and the downstream server do for a request that is sent on.
Proxy(r) ==
  \/ Connect(r) \/ Send(r) \/ OpenFails(r) \/ ReplyHead(r)
  \/ DrainChunk(r) \/ Drained(r)
  \/ StartRelay(r)
  \/ BufferChunk(r) \/ Buffered(r) \/ BufferFails(r)

Relay(r) == RelayChunk(r) \/ Sent(r) \/ EndRelay(r)

Next ==
  \E r \in Req :
    \/ Arrive(r) \/ Read(r) \/ Proxy(r) \/ DrainFails(r)
    \/ Relay(r) \/ Cancel(r) \/ Collect(r)

Spec == Init /\ [][Next]_vars

\* The event loop resumes a handler whose await is over, and httpx's timeouts end
\* every wait for the pool, the connection, or the next bytes of the downstream
\* server; the interpreter collects.  No reply has to end that goes on sending, no
\* read has to fail, and no client has to send its body or to leave.
Fairness == \A r \in Req : WF_vars(Proxy(r)) /\ WF_vars(Collect(r))
FairSpec == Spec /\ Fairness

-----------------------------------------------------------------------------
(* Properties                                                              *)

Kinds ==
  { "none", "unauthorized", "too_large", "gone", "parse_error", "invalid_request",
    "invalid_params", "unauthorized_tool_call", "silence", "timed_out",
    "unavailable", "upstream_error", "malformed_reply", "internal_error",
    "stream", "result", "cancelled", "dropped" }

\* Types; a reply that may be relayed is never held beyond its cap and the chunk
\* that shows it (_read_capped).
TypeOK ==
  /\ pc \in [Req -> Await]
  /\ req \in [Req -> Requests \cup {NoRequest}]
  /\ got \in [Req -> 0..MaxBody + 1]
  /\ conn \in [Req -> {"none", "open", "closed"}]
  /\ seen \in [Req -> Nat]
  /\ reply \in [Req -> Replies \cup {NoReply}]
  /\ held \in [Req -> Nat]
  /\ answer \in [Req -> [kind : Kinds, id : Ids \cup {NoId}]]
  /\ \A r \in Req : pc[r] = "buffering" => held[r] <= MaxReply

\* Who may make a request, said without the handler: a caller with a known token,
\* a JSON-RPC message that fits, and if it calls a tool, one that is open to the
\* caller's role under every spelling the downstream server might read.
Spelt(m) == {m.name, Folded[m.name]}
OpenTo(role, name) ==
  \/ \A k \in DOMAIN Rules : name \notin Rules[k].tools
  \/ \E k \in DOMAIN Rules :
       /\ name \in Rules[k].tools /\ Rules[k].role = role
       /\ \A j \in 1..(k - 1) : name \notin Rules[j].tools
MayCall(role, m) ==
  /\ m.params = "object" /\ m.name \in Names
  /\ \A name \in Spelt(m) : OpenTo(role, name)
Valid(m) ==
  /\ m.json = "object" /\ m.v2 /\ m.method # "missing"
  /\ m.id \notin {"null", "other"} /\ m.params # "other"
Entitled(q) ==
  /\ q.cred \in DOMAIN RoleOf
  /\ q.size <= MaxBody
  /\ Valid(q.msg)
  /\ \/ q.msg.method = "other"
     \/ q.msg.method = "call" /\ MayCall(RoleOf[q.cred], q.msg)

Arrived  == {r \in Req : req[r] # NoRequest}
Admitted == {r \in Arrived : Entitled(req[r])}

Told(k) ==
  CASE k = "none" -> "nothing"
    [] k = "result" -> "result"
    [] k = "stream" -> "relayed"
    [] k = "silence" -> "silence"
    [] k \in {"timed_out", "unavailable", "upstream_error", "malformed_reply",
              "internal_error"} -> "failed"
    [] k \in {"gone", "cancelled", "dropped"} -> "abandoned"
    [] OTHER -> "refused"

Outcome(h) ==
  IF h = NoReply THEN "nothing" ELSE IF h.status = "not_2xx" THEN "failure" ELSE "success"

Contract == INSTANCE GatewayContract WITH
  Nothing <- "nothing",
  asked   <- [r \in Req |-> IF req[r] = NoRequest THEN "nothing" ELSE Id(r)],
  may     <- Admitted,
  sent    <- seen,
  outcome <- [r \in Req |-> Outcome(reply[r])],
  told    <- [r \in Req |-> [what |-> Told(answer[r].kind), id |-> answer[r].id]]

\* proxy: a request its sender may not make is refused before the downstream
\* server hears of it, one that may be made is not refused; what is sent on is
\* sent once; only what succeeded is passed on, status first; and the answer bears
\* the id of the request, or none once the server has replied and all else failed.
KeepsContract == Contract!ContractSpec

\* A request that is over has given its connection back, whichever way it ended;
\* but for the stream cancelled before its first chunk or while one was being
\* sent, which leaves it to the interpreter.
ConnectionGivenBack ==
  \A r \in Req : pc[r] = "over" /\ conn[r] = "open" => answer[r].kind = "dropped"

\* A client that is answered with JSON is handed the result of its own call, complete
\* and under its own id: whatever the downstream server answered to another, or cut
\* off at the cap, is not a result (_invalid_response, _read_capped).  The messages
\* of an event stream are not looked at.
ResultIsTheirs ==
  \A r \in Req : answer[r].kind = "result" =>
    /\ reply[r].body = "response" /\ reply[r].id = Msg(r).id
    /\ ~ reply[r].sse /\ reply[r].status # "not_2xx"
    /\ held[r] = reply[r].size /\ held[r] <= MaxReply
    /\ answer[r].id = Msg(r).id

\* A request that was let through ends and gives its connection back, however many
\* streams hold the others of the pool for ever; but for one that is such a stream
\* itself, relayed or, in answer to a notification or with an error status, drained
\* for ever: _drain has no cap, and no timeout strikes while chunks come.
Endless(r) ==
  \/ pc[r] \in {"relaying", "sending"}
  \/ pc[r] = "draining" /\ ~ reply[r].ends
EveryForwardEnds ==
  \A r \in Req :
    pc[r] = "opening" ~> Endless(r) \/ (pc[r] = "over" /\ conn[r] # "open")
=============================================================================
