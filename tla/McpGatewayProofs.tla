--------------------------- MODULE McpGatewayProofs ----------------------------
(***************************************************************************)
(* Proofs about McpGateway: the screening decides what Entitled says, and  *)
(* the handlers keep the contract of the gateway.                          *)
(***************************************************************************)
EXTENDS McpGateway, WellFoundedInduction, TLAPS

-----------------------------------------------------------------------------
(* The decision                                                            *)

LEMMA LeastOfSome ==
  ASSUME NEW S, S \subseteq Nat, S # {}
  PROVE  \E n \in S : \A m \in S : n <= m
<1> DEFINE R == OpToRel(<, Nat)
<1>1. IsWellFoundedOn(R, Nat)
  BY NatLessThanWellFounded
<1>2. \A a \in Nat, b \in Nat : <<a, b>> \in R <=> a < b
  BY DEF OpToRel
<1> HIDE DEF R
<1>3. PICK x \in S : \A y \in S : ~ (<<y, x>> \in R)
  BY <1>1, WFMin
<1>4. \A y \in S : ~ (y < x)
  BY <1>2, <1>3, Zenon
<1> QED BY <1>3, <1>4

\* The first rule that matches decides: it is the one OpenTo speaks of.
LEMMA CheckIsOpenTo ==
  ASSUME NEW name, NEW role
  PROVE  CheckToolCall(name, role) <=> OpenTo(role, name)
<1>1. DOMAIN Rules \subseteq Nat /\ \A k \in DOMAIN Rules : k >= 1 /\ 1..(k - 1) \subseteq DOMAIN Rules
  BY MessagesAssumption
<1>2. ASSUME CheckToolCall(name, role), Matching(name) # {}
      PROVE  OpenTo(role, name)
  <2>1. Matching(name) \subseteq Nat
    BY <1>1 DEF Matching
  <2>2. PICK k \in Matching(name) : \A m \in Matching(name) : k <= m
    BY <1>2, <2>1, LeastOfSome
  <2>3. k \in DOMAIN Rules /\ name \in Rules[k].tools /\ Rules[k].role = role
    BY <1>2, <2>2 DEF CheckToolCall, Matching
  <2>4. ASSUME NEW j \in 1..(k - 1), name \in Rules[j].tools
        PROVE  FALSE
    <3>1. j \in Matching(name)
      BY <1>1, <2>3, <2>4 DEF Matching
    <3> QED BY <1>1, <2>2, <2>3, <2>4, <3>1
  <2> QED BY <2>3, <2>4 DEF OpenTo
<1>3. ASSUME Matching(name) = {}
      PROVE  OpenTo(role, name) /\ CheckToolCall(name, role)
  BY <1>3 DEF OpenTo, CheckToolCall, Matching
<1>4. ASSUME NEW k \in DOMAIN Rules, name \in Rules[k].tools, Rules[k].role = role,
             \A j \in 1..(k - 1) : name \notin Rules[j].tools
      PROVE  CheckToolCall(name, role)
  <2>1. SUFFICES ASSUME NEW l \in Matching(name), \A j \in Matching(name) : l <= j
                 PROVE  role = Rules[l].role
    BY DEF CheckToolCall
  <2>2. k \in Matching(name) /\ k \in Nat /\ l \in Nat /\ l >= 1 /\ name \in Rules[l].tools
    BY <1>1, <1>4 DEF Matching
  <2>3. l <= k /\ ~ (l \in 1..(k - 1))
    BY <1>4, <2>1, <2>2
  <2>4. l = k
    BY <2>2, <2>3
  <2> QED BY <1>4, <2>4
<1> QED BY <1>2, <1>3, <1>4 DEF OpenTo, Matching

\* The handler's checks of a message, against what a valid message is.
LEMMA WellFormedIsValid ==
  ASSUME NEW m \in Message
  PROVE  WellFormed(m) <=> Valid(m)
<1>1. m.id \in Ids \cup {"absent", "null", "other"}
  BY DEF Message
<1>2. m.id \in Ids \cup {"absent"} <=> m.id \notin {"null", "other"}
  BY <1>1, MessagesAssumption
<1> QED BY <1>2 DEF WellFormed, Valid

\* ... and the screening against what a caller may call.
LEMMA ScreenIsMayCall ==
  ASSUME NEW m \in Message, NEW role, m.method # "missing"
  PROVE  Screen(m, role) = "forward" <=>
           (m.method = "other" \/ (m.method = "call" /\ MayCall(role, m)))
<1>1. m.method \in {"call", "near_call", "other"} /\ m.name \in Names \cup {"missing"}
  BY DEF Message
<1>2. CheckToolCall(m.name, role) <=> OpenTo(role, m.name)
  BY CheckIsOpenTo
<1>3. CheckToolCall(Folded[m.name], role) <=> OpenTo(role, Folded[m.name])
  BY CheckIsOpenTo
<1>4. (\A name \in Spelt(m) : OpenTo(role, name)) <=>
        (CheckToolCall(m.name, role) /\ CheckToolCall(Folded[m.name], role))
  BY <1>2, <1>3 DEF Spelt
<1>5. CASE m.method # "call"
  BY <1>1, <1>5 DEF Screen
<1>6. CASE m.method = "call"
  <2>1. m.name = "missing" <=> m.name \notin Names
    BY <1>1, MessagesAssumption
  <2> QED BY <1>1, <1>4, <1>6, <2>1 DEF Screen, MayCall
<1> QED BY <1>5, <1>6

-----------------------------------------------------------------------------
(* The invariant                                                           *)

Forwarded == {"opening", "draining", "starting", "relaying", "sending", "buffering"}
Answering == Forwarded \ {"opening"}

\* One request, from the values of its variables: what has been made sure of at
\* each await, and what an answer says.
Stage(p, q, g, c, s, h, n, a) ==
  /\ p = "idle" <=> q = NoRequest
  /\ p = "idle" => g = 0
  /\ p \in {"idle", "reading"} => s = 0 /\ c = "none"
  /\ p \in {"idle", "reading", "opening"} => n = 0 /\ h = NoReply
  /\ p = "over" <=> a.kind # "none"
  /\ p = "reading" => g <= MaxBody /\ Authenticated(q.cred)
  /\ p \in Forwarded => Entitled(q)
  /\ p \in Answering => s > 0 /\ h \in Replies
  /\ p \in {"starting", "relaying", "sending", "buffering"} =>
       ~ IsNotification(q.msg) /\ h.status # "not_2xx"
  /\ p = "draining" => h.status = "not_2xx" \/ IsNotification(q.msg)
  /\ p = "buffering" => ~ h.sse /\ n <= MaxReply
  /\ p = "over" /\ c = "open" => a.kind = "dropped"
  /\ a.kind = "result" =>
       /\ h.body = "response" /\ h.id = q.msg.id
       /\ ~ h.sse /\ h.status # "not_2xx"
       /\ n = h.size /\ n <= MaxReply
       /\ a.id = q.msg.id

\* The types of one request.
Typed(p, q, g, c, s, h, n, a) ==
  /\ p \in Await /\ q \in Requests \cup {NoRequest}
  /\ g \in 0..MaxBody + 1 /\ c \in {"none", "open", "closed"}
  /\ s \in Nat /\ h \in Replies \cup {NoReply} /\ n \in Nat
  /\ a \in [kind : Kinds, id : Ids \cup {NoId}]

StageOf(r) == Stage(pc[r], req[r], got[r], conn[r], seen[r], reply[r], held[r], answer[r])
TypedOf(r) == Typed(pc[r], req[r], got[r], conn[r], seen[r], reply[r], held[r], answer[r])

\* The variables are functions on the requests.
Shape ==
  /\ DOMAIN pc = Req /\ DOMAIN req = Req /\ DOMAIN got = Req /\ DOMAIN conn = Req
  /\ DOMAIN seen = Req /\ DOMAIN reply = Req /\ DOMAIN held = Req /\ DOMAIN answer = Req
  /\ pc = [r \in Req |-> pc[r]] /\ req = [r \in Req |-> req[r]]
  /\ got = [r \in Req |-> got[r]] /\ conn = [r \in Req |-> conn[r]]
  /\ seen = [r \in Req |-> seen[r]] /\ reply = [r \in Req |-> reply[r]]
  /\ held = [r \in Req |-> held[r]] /\ answer = [r \in Req |-> answer[r]]

IInv == Shape /\ \A r \in Req : TypedOf(r) /\ StageOf(r)

LEMMA InvIsTypeOK == IInv => TypeOK
BY DEF IInv, Shape, TypedOf, Typed, StageOf, Stage, TypeOK

LEMMA InitIInv == Init => IInv
BY GatewayAssumption
DEF Init, IInv, Shape, TypedOf, Typed, StageOf, Stage, Await, Kinds, Unanswered, Forwarded, Answering

\* A step of r touches the variables of r alone.
Local(r) ==
  /\ Shape'
  /\ \A q \in Req \ {r} :
       /\ pc'[q] = pc[q] /\ req'[q] = req[q] /\ got'[q] = got[q] /\ conn'[q] = conn[q]
       /\ seen'[q] = seen[q] /\ reply'[q] = reply[q] /\ held'[q] = held[q]
       /\ answer'[q] = answer[q]

LEMMA LocalIInv ==
  ASSUME IInv, NEW r \in Req, Local(r), TypedOf(r)', StageOf(r)'
  PROVE  IInv'
<1>1. ASSUME NEW q \in Req, q # r
      PROVE  TypedOf(q)' /\ StageOf(q)'
  BY <1>1 DEF Local, IInv, TypedOf, StageOf
<1> QED BY <1>1 DEF Local, IInv

\* Tell, and its frame.
LEMMA TellValues ==
  ASSUME Shape, NEW r \in Req, NEW k, NEW i, Tell(r, k, i)
  PROVE  /\ pc' = [q \in Req |-> IF q = r THEN "over" ELSE pc[q]]
         /\ answer' = [q \in Req |-> IF q = r THEN Answer(k, i) ELSE answer[q]]
BY DEF Shape, Tell

LEMMA CloseValues ==
  ASSUME Shape, NEW r \in Req, CloseConn(r)
  PROVE  conn' = [q \in Req |->
           IF q = r THEN IF conn[r] = "open" THEN "closed" ELSE conn[r] ELSE conn[q]]
BY DEF Shape, CloseConn

LEMMA IdType ==
  ASSUME NEW m
  PROVE  ExtractId(m) \in Ids \cup {NoId} /\ EnvelopeErrorId(m) \in Ids \cup {NoId}
BY DEF ExtractId, EnvelopeErrorId

\* An answer that is no result and claims nothing of the connection: r is over.
LEMMA ToldIInv ==
  ASSUME IInv, NEW r \in Req, NEW k \in Kinds \ {"none", "result"}, NEW i \in Ids \cup {NoId},
         Tell(r, k, i),
         (UNCHANGED req /\ pc[r] # "idle") \/ (pc[r] = "idle" /\ \E q \in Requests : req' = [req EXCEPT ![r] = q]),
         UNCHANGED got \/ (pc[r] = "reading" /\ got' = [got EXCEPT ![r] = @ + 1]),
         UNCHANGED held \/ held' = [held EXCEPT ![r] = @ + 1],
         UNCHANGED <<seen, reply>>,
         pc[r] # "over",
         \/ CloseConn(r)
         \/ UNCHANGED conn /\ (conn[r] # "open" \/ k = "dropped")
  PROVE  IInv'
<1>1. Shape /\ TypedOf(r) /\ StageOf(r)
  BY DEF IInv
<1>2. /\ pc' = [q \in Req |-> IF q = r THEN "over" ELSE pc[q]]
      /\ answer' = [q \in Req |-> IF q = r THEN Answer(k, i) ELSE answer[q]]
  BY <1>1, TellValues
<1>3. /\ conn' = [q \in Req |-> IF q = r THEN conn'[r] ELSE conn[q]]
      /\ conn'[r] \in {"none", "open", "closed"}
      /\ conn'[r] = "open" => k = "dropped"
  BY <1>1, CloseValues DEF Shape, TypedOf, Typed
<1>4. /\ req' = [q \in Req |-> IF q = r THEN req'[r] ELSE req[q]]
      /\ req'[r] \in Requests
  <2>1. CASE UNCHANGED req /\ pc[r] # "idle"
    BY <1>1, <2>1 DEF Shape, TypedOf, Typed, StageOf, Stage
  <2>2. CASE \E q \in Requests : req' = [req EXCEPT ![r] = q]
    BY <1>1, <2>2 DEF Shape
  <2> QED BY <2>1, <2>2
<1>5. /\ got' = [q \in Req |-> IF q = r THEN got'[r] ELSE got[q]]
      /\ got'[r] \in 0..MaxBody + 1
  BY <1>1, GatewayAssumption DEF Shape, TypedOf, Typed, StageOf, Stage
<1>6. /\ held' = [q \in Req |-> IF q = r THEN held'[r] ELSE held[q]]
      /\ held'[r] \in Nat
  BY <1>1 DEF Shape, TypedOf, Typed
<1>7. Local(r)
  BY <1>1, <1>2, <1>3, <1>4, <1>5, <1>6 DEF Local, Shape
<1>8. pc'[r] = "over" /\ answer'[r] = Answer(k, i) /\ UNCHANGED <<seen, reply>>
  BY <1>2
<1>9. TypedOf(r)'
  BY <1>1, <1>3, <1>4, <1>5, <1>6, <1>8 DEF TypedOf, Typed, Answer, Await
<1>10. StageOf(r)'
  BY <1>3, <1>4, <1>8, GatewayAssumption DEF StageOf, Stage, Answer, Forwarded, Answering
<1> QED BY <1>7, <1>9, <1>10, LocalIInv

\* A step that tells nothing: r stays in, or goes to, an await.
LEMMA MoveIInv ==
  ASSUME IInv, NEW r \in Req, Local(r), TypedOf(r)', pc[r] # "over", pc'[r] # "over",
         UNCHANGED answer,
         pc'[r] # "idle", req'[r] # NoRequest,
         pc'[r] = "reading" => seen'[r] = 0 /\ conn'[r] = "none",
         pc'[r] \in {"reading", "opening"} => held'[r] = 0 /\ reply'[r] = NoReply,
         pc'[r] = "reading" => got'[r] <= MaxBody /\ Authenticated(req'[r].cred),
         pc'[r] \in Forwarded => Entitled(req'[r]),
         pc'[r] \in Answering => seen'[r] > 0 /\ reply'[r] \in Replies,
         pc'[r] \in {"starting", "relaying", "sending", "buffering"} =>
           ~ IsNotification(req'[r].msg) /\ reply'[r].status # "not_2xx",
         pc'[r] = "draining" => reply'[r].status = "not_2xx" \/ IsNotification(req'[r].msg),
         pc'[r] = "buffering" => ~ reply'[r].sse /\ held'[r] <= MaxReply
  PROVE  IInv'
<1>1. answer[r].kind = "none" /\ UNCHANGED answer
  BY DEF IInv, StageOf, Stage
<1>2. StageOf(r)'
  BY <1>1 DEF StageOf, Stage
<1> QED BY <1>2, LocalIInv

\* An update of some variables at r, in the form the steps give it.
LEMMA LocalUpdate ==
  ASSUME Shape, NEW r \in Req,
         UNCHANGED pc \/ \E v : pc' = [pc EXCEPT ![r] = v],
         UNCHANGED req \/ \E v : req' = [req EXCEPT ![r] = v],
         UNCHANGED got \/ \E v : got' = [got EXCEPT ![r] = v],
         UNCHANGED conn \/ \E v : conn' = [conn EXCEPT ![r] = v],
         UNCHANGED seen \/ \E v : seen' = [seen EXCEPT ![r] = v],
         UNCHANGED reply \/ \E v : reply' = [reply EXCEPT ![r] = v],
         UNCHANGED held \/ \E v : held' = [held EXCEPT ![r] = v],
         UNCHANGED answer \/ \E v : answer' = [answer EXCEPT ![r] = v]
  PROVE  Local(r)
<1>1. \A q \in Req \ {r} :
       /\ pc'[q] = pc[q] /\ req'[q] = req[q] /\ got'[q] = got[q] /\ conn'[q] = conn[q]
       /\ seen'[q] = seen[q] /\ reply'[q] = reply[q] /\ held'[q] = held[q]
       /\ answer'[q] = answer[q]
  BY DEF Shape
<1>2. /\ pc' = [q \in Req |-> pc'[q]] /\ req' = [q \in Req |-> req'[q]]
      /\ got' = [q \in Req |-> got'[q]] /\ conn' = [q \in Req |-> conn'[q]]
      /\ seen' = [q \in Req |-> seen'[q]] /\ reply' = [q \in Req |-> reply'[q]]
      /\ held' = [q \in Req |-> held'[q]] /\ answer' = [q \in Req |-> answer'[q]]
  BY DEF Shape
<1>3. Shape'
  BY <1>2 DEF Shape
<1> QED BY <1>1, <1>3 DEF Local

LEMMA ArriveIInv ==
  ASSUME IInv, NEW r \in Req, Arrive(r)
  PROVE  IInv'
<1>0. PICK q \in Requests :
        /\ req' = [req EXCEPT ![r] = q]
        /\ IF ~ Authenticated(q.cred) THEN Tell(r, "unauthorized", NoId)
           ELSE IF q.declared /\ q.size > MaxBody THEN Tell(r, "too_large", NoId)
           ELSE Goto(r, "reading")
  BY DEF Arrive
<1>1. /\ Shape /\ TypedOf(r) /\ StageOf(r)
      /\ pc[r] = "idle" /\ req' = [req EXCEPT ![r] = q]
      /\ UNCHANGED <<got, conn, seen, reply, held>>
  BY <1>0 DEF IInv, Arrive, Upstream
<1>2. conn[r] = "none" /\ got[r] = 0 /\ held[r] = 0 /\ seen[r] = 0 /\ reply[r] = NoReply
  BY <1>1 DEF StageOf, Stage
<1>3. CASE \E k \in {"unauthorized", "too_large"} : Tell(r, k, NoId)
  BY <1>1, <1>2, <1>3, ToldIInv DEF Kinds
<1>4. CASE Authenticated(q.cred) /\ Goto(r, "reading")
  <2>1. pc' = [pc EXCEPT ![r] = "reading"] /\ UNCHANGED answer
    BY <1>4 DEF Goto
  <2>2. Local(r)
    BY <1>1, <2>1, LocalUpdate
  <2>3. pc'[r] = "reading" /\ req'[r] = q
    BY <1>1, <2>1 DEF Shape
  <2>4. TypedOf(r)'
    BY <1>1, <2>1, <2>3 DEF TypedOf, Typed, Await
  <2>5. q # NoRequest /\ 0 <= MaxBody
    BY GatewayAssumption
  <2> QED BY <1>1, <1>2, <1>4, <2>1, <2>2, <2>3, <2>4, <2>5, MoveIInv DEF Forwarded, Answering
<1> QED BY <1>0, <1>3, <1>4

LEMMA ReceiveChunkIInv ==
  ASSUME IInv, NEW r \in Req, ReceiveChunk(r)
  PROVE  IInv'
<1>1. /\ Shape /\ TypedOf(r) /\ StageOf(r)
      /\ pc[r] = "reading" /\ got' = [got EXCEPT ![r] = @ + 1]
      /\ UNCHANGED <<req, conn, seen, reply, held>>
  BY DEF IInv, ReceiveChunk, Upstream
<1>2. /\ conn[r] = "none" /\ held[r] = 0 /\ seen[r] = 0 /\ req[r] # NoRequest /\ reply[r] = NoReply
      /\ Authenticated(req[r].cred) /\ got[r] <= MaxBody /\ got[r] \in Nat
  BY <1>1, GatewayAssumption DEF StageOf, Stage, TypedOf, Typed
<1>3. CASE Tell(r, "too_large", NoId)
  BY <1>1, <1>2, <1>3, ToldIInv DEF Kinds
<1>4. CASE ~ (got[r] + 1 > MaxBody) /\ UNCHANGED <<pc, answer>>
  <2>1. Local(r)
    BY <1>1, <1>4, LocalUpdate
  <2>2. got'[r] = got[r] + 1 /\ got'[r] <= MaxBody /\ got'[r] \in 0..MaxBody + 1
    BY <1>1, <1>2, <1>4, GatewayAssumption DEF Shape
  <2>3. TypedOf(r)'
    BY <1>1, <1>4, <2>2 DEF TypedOf, Typed
  <2> QED BY <1>1, <1>2, <1>4, <2>1, <2>2, <2>3, MoveIInv DEF Forwarded, Answering
<1> QED BY <1>3, <1>4 DEF ReceiveChunk

\* What the request was found to be when its body is there.
LEMMA DecisionIsEntitled ==
  ASSUME NEW q \in Requests, Authenticated(q.cred), q.size <= MaxBody
  PROVE  Entitled(q) <=> /\ q.msg.json # "malformed" /\ WellFormed(q.msg)
                         /\ Screen(q.msg, RoleOf[q.cred]) = "forward"
<1>1. q.msg \in Message
  BY GatewayAssumption
<1>2. q.cred \in DOMAIN RoleOf
  BY MessagesAssumption DEF Authenticated
<1>3. WellFormed(q.msg) <=> Valid(q.msg)
  BY <1>1, WellFormedIsValid
<1>4. Valid(q.msg) => q.msg.method # "missing" /\ q.msg.json # "malformed"
  BY DEF Valid
<1>5. q.msg.method # "missing" =>
        (Screen(q.msg, RoleOf[q.cred]) = "forward" <=>
           (q.msg.method = "other" \/ (q.msg.method = "call" /\ MayCall(RoleOf[q.cred], q.msg))))
  BY <1>1, ScreenIsMayCall
<1> QED BY <1>2, <1>3, <1>4, <1>5 DEF Entitled

LEMMA DecideIInv ==
  ASSUME IInv, NEW r \in Req, Decide(r)
  PROVE  IInv'
<1>1. /\ Shape /\ TypedOf(r) /\ StageOf(r)
      /\ pc[r] = "reading" /\ got[r] = req[r].size
      /\ UNCHANGED <<req, got, conn, seen, reply, held>>
  BY DEF IInv, Decide, Upstream
<1>2. /\ conn[r] = "none" /\ held[r] = 0 /\ seen[r] = 0 /\ req[r] \in Requests /\ reply[r] = NoReply
      /\ Authenticated(req[r].cred) /\ got[r] <= MaxBody /\ req[r] # NoRequest
  BY <1>1 DEF StageOf, Stage, TypedOf, Typed
<1>3. Id(r) \in Ids \cup {NoId} /\ EnvelopeErrorId(Msg(r)) \in Ids \cup {NoId}
  BY IdType DEF Id
<1>4. ASSUME NEW k \in Kinds \ {"none", "result"}, NEW i \in Ids \cup {NoId}, Tell(r, k, i)
      PROVE  IInv'
  BY <1>1, <1>2, <1>4, ToldIInv
<1>5. CASE Tell(r, "parse_error", NoId) \/ Tell(r, "invalid_request", EnvelopeErrorId(Msg(r)))
  BY <1>3, <1>4, <1>5 DEF Kinds
<1>6. CASE /\ Screen(Msg(r), Role(r)) # "forward" /\ Refuse(r, Screen(Msg(r), Role(r)))
  <2>1. Screen(Msg(r), Role(r)) \in {"invalid_request", "invalid_params", "unauthorized_tool_call"}
    BY <1>6 DEF Screen
  <2>2. \/ Tell(r, "silence", NoId)
        \/ Tell(r, Screen(Msg(r), Role(r)), Id(r))
    BY <1>6 DEF Refuse
  <2> QED BY <1>3, <1>4, <2>1, <2>2 DEF Kinds
<1>7. CASE /\ Msg(r).json # "malformed" /\ WellFormed(Msg(r))
           /\ Screen(Msg(r), Role(r)) = "forward" /\ Goto(r, "opening")
  <2>1. pc' = [pc EXCEPT ![r] = "opening"] /\ UNCHANGED answer
    BY <1>7 DEF Goto
  <2>2. Local(r)
    BY <1>1, <2>1, LocalUpdate
  <2>3. pc'[r] = "opening"
    BY <1>1, <2>1 DEF Shape
  <2>4. TypedOf(r)'
    BY <1>1, <2>1, <2>3 DEF TypedOf, Typed, Await
  <2>5. Entitled(req[r])
    BY <1>1, <1>2, <1>7, DecisionIsEntitled DEF Msg, Role
  <2> QED BY <1>1, <1>2, <2>1, <2>2, <2>3, <2>4, <2>5, MoveIInv DEF Forwarded, Answering
<1> QED BY <1>5, <1>6, <1>7 DEF Decide

\* A handler that answers something else than a result and gives its connection back.
LEMMA EndIInv ==
  ASSUME IInv, NEW r \in Req, pc[r] \notin {"idle", "over"},
         NEW k \in Kinds \ {"none", "result"}, NEW i \in Ids \cup {NoId},
         Tell(r, k, i), CloseConn(r), UNCHANGED <<req, got, seen, reply>>,
         UNCHANGED held \/ held' = [held EXCEPT ![r] = @ + 1]
  PROVE  IInv'
BY ToldIInv

LEMMA OpeningIInv ==
  ASSUME IInv, NEW r \in Req, Connect(r) \/ Send(r)
  PROVE  IInv'
<1>1. /\ Shape /\ TypedOf(r) /\ StageOf(r) /\ pc[r] = "opening"
      /\ UNCHANGED <<pc, req, got, reply, held, answer>>
  BY DEF IInv, Connect, Send
<1>2. Entitled(req[r]) /\ held[r] = 0 /\ req[r] # NoRequest /\ reply[r] = NoReply
  BY <1>1 DEF StageOf, Stage, Forwarded
<1>3. CASE Connect(r)
  <2>1. conn' = [conn EXCEPT ![r] = "open"] /\ UNCHANGED seen
    BY <1>3 DEF Connect
  <2>2. Local(r)
    BY <1>1, <2>1, LocalUpdate
  <2>3. TypedOf(r)'
    BY <1>1, <2>1 DEF TypedOf, Typed, Shape
  <2> QED BY <1>1, <1>2, <2>1, <2>2, <2>3, MoveIInv DEF Answering
<1>4. CASE Send(r)
  <2>1. seen' = [seen EXCEPT ![r] = @ + 1] /\ UNCHANGED conn
    BY <1>4 DEF Send
  <2>2. Local(r)
    BY <1>1, <2>1, LocalUpdate
  <2>3. TypedOf(r)'
    BY <1>1, <2>1 DEF TypedOf, Typed, Shape
  <2> QED BY <1>1, <1>2, <2>1, <2>2, <2>3, MoveIInv DEF Answering
<1> QED BY <1>3, <1>4

LEMMA FailureIInv ==
  ASSUME IInv, NEW r \in Req, OpenFails(r) \/ BufferFails(r)
  PROVE  IInv'
<1>1. /\ pc[r] \in {"opening", "buffering"} /\ CloseConn(r)
      /\ UNCHANGED <<req, got, seen, reply, held>>
      /\ \E k \in {"timed_out", "unavailable"} : Tell(r, k, Id(r))
  BY DEF OpenFails, BufferFails
<1>2. Id(r) \in Ids \cup {NoId}
  BY IdType DEF Id
<1> QED BY <1>1, <1>2, EndIInv DEF Kinds

LEMMA ReplyHeadIInv ==
  ASSUME IInv, NEW r \in Req, ReplyHead(r)
  PROVE  IInv'
<1>0. PICK h \in Replies : reply' = [reply EXCEPT ![r] = h] /\ Goto(r, AwaitFor(r, h))
  BY DEF ReplyHead
<1>1. /\ Shape /\ TypedOf(r) /\ StageOf(r) /\ pc[r] = "opening" /\ seen[r] > 0
      /\ reply' = [reply EXCEPT ![r] = h]
      /\ pc' = [pc EXCEPT ![r] = AwaitFor(r, h)]
      /\ UNCHANGED <<req, got, conn, seen, held, answer>>
  BY <1>0 DEF IInv, ReplyHead, Goto
<1>2. Entitled(req[r]) /\ held[r] = 0 /\ req[r] # NoRequest
  BY <1>1 DEF StageOf, Stage, Forwarded
<1>3. Local(r)
  BY <1>1, LocalUpdate
<1>4. pc'[r] = AwaitFor(r, h) /\ reply'[r] = h
  BY <1>1 DEF Shape
<1>5. /\ AwaitFor(r, h) \in {"draining", "starting", "buffering"}
      /\ AwaitFor(r, h) = "draining" <=> h.status = "not_2xx" \/ IsNotification(req[r].msg)
      /\ AwaitFor(r, h) = "buffering" => ~ h.sse
  BY DEF AwaitFor, Msg
<1>6. TypedOf(r)'
  BY <1>1, <1>4, <1>5 DEF TypedOf, Typed, Await
<1> QED BY <1>1, <1>2, <1>3, <1>4, <1>5, <1>6, GatewayAssumption, MoveIInv

LEMMA DrainIInv ==
  ASSUME IInv, NEW r \in Req, DrainChunk(r) \/ Drained(r) \/ DrainFails(r)
  PROVE  IInv'
<1>1. /\ Shape /\ TypedOf(r) /\ StageOf(r) /\ pc[r] = "draining"
      /\ UNCHANGED <<req, got, seen, reply>>
  BY DEF IInv, DrainChunk, Drained, DrainFails
<1>2. /\ Entitled(req[r]) /\ req[r] # NoRequest /\ seen[r] > 0 /\ reply[r] \in Replies
      /\ reply[r].status = "not_2xx" \/ IsNotification(req[r].msg)
  BY <1>1 DEF StageOf, Stage, Forwarded, Answering
<1>3. CASE DrainChunk(r)
  <2>1. held' = [held EXCEPT ![r] = @ + 1] /\ UNCHANGED <<pc, conn, answer>>
    BY <1>3 DEF DrainChunk
  <2>2. Local(r)
    BY <1>1, <2>1, LocalUpdate
  <2>3. TypedOf(r)'
    BY <1>1, <2>1 DEF TypedOf, Typed, Shape
  <2> QED BY <1>1, <1>2, <2>1, <2>2, <2>3, MoveIInv
<1>4. CASE Drained(r) \/ DrainFails(r)
  <2>1. Id(r) \in Ids \cup {NoId}
    BY IdType DEF Id
  <2>2. CloseConn(r) /\ UNCHANGED held
    BY <1>4 DEF Drained, DrainFails
  <2>3. \/ Tell(r, "upstream_error", Id(r))
        \/ Tell(r, "internal_error", NoId)
        \/ Tell(r, "silence", NoId)
    BY <1>4 DEF Drained, DrainFails
  <2>4. ASSUME NEW k \in Kinds \ {"none", "result"}, NEW i \in Ids \cup {NoId}, Tell(r, k, i)
        PROVE  IInv'
    BY <1>1, <2>2, <2>4, EndIInv
  <2> QED BY <2>1, <2>3, <2>4 DEF Kinds
<1> QED BY <1>3, <1>4

LEMMA RelayIInv ==
  ASSUME IInv, NEW r \in Req, StartRelay(r) \/ Relay(r)
  PROVE  IInv'
<1>1. CASE StartRelay(r) \/ RelayChunk(r) \/ Sent(r)
  <2>1. PICK p \in {"relaying", "sending"} : pc' = [pc EXCEPT ![r] = p]
    BY <1>1 DEF StartRelay, RelayChunk, Sent, Goto
  <2>2. /\ Shape /\ TypedOf(r) /\ StageOf(r) /\ pc[r] \in {"starting", "relaying", "sending"}
        /\ UNCHANGED <<req, got, conn, seen, reply, held, answer>>
    BY <1>1 DEF IInv, StartRelay, RelayChunk, Sent, Goto, Upstream
  <2>3. /\ Entitled(req[r]) /\ req[r] # NoRequest /\ seen[r] > 0 /\ reply[r] \in Replies
        /\ ~ IsNotification(req[r].msg) /\ reply[r].status # "not_2xx"
    BY <2>2 DEF StageOf, Stage, Forwarded, Answering
  <2>4. Local(r)
    BY <2>1, <2>2, LocalUpdate
  <2>5. pc'[r] \in {"relaying", "sending"}
    BY <2>1, <2>2 DEF Shape
  <2>6. TypedOf(r)'
    BY <2>2, <2>5 DEF TypedOf, Typed, Await
  <2> QED BY <2>2, <2>3, <2>4, <2>5, <2>6, MoveIInv
<1>2. CASE EndRelay(r)
  BY <1>2, EndIInv DEF EndRelay, Kinds
<1> QED BY <1>1, <1>2 DEF Relay

LEMMA BufferChunkIInv ==
  ASSUME IInv, NEW r \in Req, BufferChunk(r)
  PROVE  IInv'
<1>1. /\ Shape /\ TypedOf(r) /\ StageOf(r) /\ pc[r] = "buffering"
      /\ held' = [held EXCEPT ![r] = @ + 1]
      /\ UNCHANGED <<req, got, seen, reply>>
  BY DEF IInv, BufferChunk
<1>2. /\ Entitled(req[r]) /\ req[r] # NoRequest /\ seen[r] > 0 /\ reply[r] \in Replies
      /\ ~ IsNotification(req[r].msg) /\ reply[r].status # "not_2xx" /\ ~ reply[r].sse
  BY <1>1 DEF StageOf, Stage, Forwarded, Answering
<1>3. CASE Tell(r, "upstream_error", Id(r)) /\ CloseConn(r)
  <2>1. Id(r) \in Ids \cup {NoId}
    BY IdType DEF Id
  <2> QED BY <1>1, <1>3, <2>1, EndIInv DEF Kinds
<1>4. CASE ~ (held[r] + 1 > MaxReply) /\ UNCHANGED <<pc, answer, conn>>
  <2>1. Local(r)
    BY <1>1, <1>4, LocalUpdate
  <2>2. held'[r] \in Nat /\ held'[r] <= MaxReply
    BY <1>1, <1>4, GatewayAssumption DEF Shape, TypedOf, Typed
  <2>3. TypedOf(r)'
    BY <1>1, <1>4, <2>2 DEF TypedOf, Typed
  <2> QED BY <1>1, <1>2, <1>4, <2>1, <2>2, <2>3, MoveIInv
<1> QED BY <1>3, <1>4 DEF BufferChunk

LEMMA BufferedIInv ==
  ASSUME IInv, NEW r \in Req, Buffered(r)
  PROVE  IInv'
<1>1. /\ Shape /\ TypedOf(r) /\ StageOf(r) /\ pc[r] = "buffering" /\ held[r] = reply[r].size
      /\ CloseConn(r) /\ UNCHANGED <<req, got, seen, reply, held>>
  BY DEF IInv, Buffered
<1>2. /\ Entitled(req[r]) /\ req[r] # NoRequest /\ seen[r] > 0 /\ reply[r] \in Replies
      /\ ~ IsNotification(req[r].msg) /\ reply[r].status # "not_2xx" /\ held[r] <= MaxReply
      /\ ~ reply[r].sse /\ req[r] \in Requests
  BY <1>1 DEF StageOf, Stage, Forwarded, Answering, TypedOf, Typed
<1>3. Id(r) \in Ids \cup {NoId}
  BY IdType DEF Id
<1>4. ASSUME NEW k \in Kinds \ {"none", "result"}, NEW i \in Ids \cup {NoId}, Tell(r, k, i)
      PROVE  IInv'
  BY <1>1, <1>4, EndIInv
<1>5. CASE \/ Tell(r, "silence", NoId) \/ Tell(r, "internal_error", NoId)
           \/ Tell(r, "malformed_reply", Id(r))
  BY <1>3, <1>4, <1>5 DEF Kinds
<1>6. CASE reply[r].body = "response" /\ reply[r].id = Id(r) /\ Tell(r, "result", Id(r))
  <2>1. Id(r) = req[r].msg.id
    <3>1. req[r].msg.id \in Ids \cup {"absent", "null", "other"}
      BY <1>2, GatewayAssumption DEF Message
    <3>2. req[r].msg.json = "object" /\ req[r].msg.id \in Ids
      BY <1>2, <3>1 DEF Entitled, Valid, IsNotification
    <3> QED BY <3>2 DEF Id, ExtractId, Msg
  <2>2. pc' = [pc EXCEPT ![r] = "over"] /\ answer' = [answer EXCEPT ![r] = Answer("result", Id(r))]
        /\ conn' = [conn EXCEPT ![r] = IF @ = "open" THEN "closed" ELSE @]
    BY <1>1, <1>6 DEF Tell, CloseConn
  <2>3. Local(r)
    BY <1>1, <2>2, LocalUpdate
  <2>4. /\ pc'[r] = "over" /\ answer'[r] = [kind |-> "result", id |-> Id(r)]
        /\ conn'[r] \in {"none", "closed"}
    BY <1>1, <2>2 DEF Shape, Answer, TypedOf, Typed
  <2>5. TypedOf(r)'
    BY <1>1, <1>3, <2>4 DEF TypedOf, Typed, Await, Kinds
  <2>6. StageOf(r)'
    BY <1>1, <1>2, <1>6, <2>1, <2>4 DEF StageOf, Stage, Forwarded, Answering
  <2> QED BY <2>3, <2>5, <2>6, LocalIInv
<1> QED BY <1>1, <1>5, <1>6 DEF Buffered, Build

LEMMA LeaveIInv ==
  ASSUME IInv, NEW r \in Req, HangUp(r) \/ Cancel(r)
  PROVE  IInv'
<1>1. /\ Shape /\ TypedOf(r) /\ StageOf(r) /\ pc[r] \notin {"idle", "over"}
      /\ UNCHANGED <<req, got, seen, reply, held>>
  BY DEF IInv, HangUp, Cancel, Upstream
<1>2. CASE HangUp(r)
  <2>1. conn[r] = "none" /\ UNCHANGED conn /\ Tell(r, "gone", NoId)
    BY <1>1, <1>2 DEF HangUp, Upstream, StageOf, Stage
  <2> QED BY <1>1, <2>1, ToldIInv DEF Kinds
<1>3. CASE Tell(r, "dropped", NoId) /\ UNCHANGED conn
  BY <1>1, <1>3, ToldIInv DEF Kinds
<1>4. CASE Tell(r, "cancelled", NoId) /\ CloseConn(r)
  BY <1>1, <1>4, ToldIInv DEF Kinds
<1> QED BY <1>2, <1>3, <1>4 DEF Cancel

LEMMA CollectIInv ==
  ASSUME IInv, NEW r \in Req, Collect(r)
  PROVE  IInv'
<1>1. /\ Shape /\ TypedOf(r) /\ StageOf(r) /\ pc[r] = "over"
      /\ conn' = [conn EXCEPT ![r] = IF @ = "open" THEN "closed" ELSE @]
      /\ UNCHANGED <<pc, req, got, seen, reply, held, answer>>
  BY DEF IInv, Collect, CloseConn
<1>2. Local(r)
  BY <1>1, LocalUpdate
<1>3. conn'[r] \in {"none", "closed"}
  BY <1>1 DEF Shape, TypedOf, Typed
<1>4. TypedOf(r)'
  BY <1>1, <1>3 DEF TypedOf, Typed
<1>5. StageOf(r)'
  BY <1>1, <1>3 DEF StageOf, Stage
<1> QED BY <1>2, <1>4, <1>5, LocalIInv

LEMMA StepIInv ==
  ASSUME IInv, [Next]_vars
  PROVE  IInv'
<1>1. ASSUME NEW r \in Req, Arrive(r)
      PROVE  IInv'
  BY <1>1, ArriveIInv
<1>2. ASSUME NEW r \in Req, Read(r)
      PROVE  IInv'
  BY <1>2, ReceiveChunkIInv, DecideIInv, LeaveIInv DEF Read
<1>3. ASSUME NEW r \in Req, Proxy(r)
      PROVE  IInv'
  BY <1>3, OpeningIInv, FailureIInv, ReplyHeadIInv, DrainIInv, RelayIInv, BufferChunkIInv,
     BufferedIInv DEF Proxy
<1>4. ASSUME NEW r \in Req, DrainFails(r) \/ Relay(r) \/ Cancel(r) \/ Collect(r)
      PROVE  IInv'
  BY <1>4, DrainIInv, RelayIInv, LeaveIInv, CollectIInv
<1>5. CASE UNCHANGED vars
  BY <1>5 DEF vars, IInv, Shape, TypedOf, StageOf
<1> QED BY <1>1, <1>2, <1>3, <1>4, <1>5 DEF Next

LEMMA AlwaysIInv == Spec => []IInv
BY InitIInv, StepIInv, PTL DEF Spec

-----------------------------------------------------------------------------
(* The theorems about states                                               *)

\* Types, and the cap on what is held of a reply (gateway.py:547-560).
THEOREM GatewayIsTyped == Spec => []TypeOK
BY AlwaysIInv, InvIsTypeOK, PTL

\* Whatever a request ran into, it has given its connection back, but for an event
\* stream cancelled before it began or while a chunk was sent (gateway.py:534-620).
THEOREM ConnectionsAreGivenBack == Spec => []ConnectionGivenBack
<1>1. IInv => ConnectionGivenBack
  BY DEF IInv, StageOf, Stage, ConnectionGivenBack
<1> QED BY <1>1, AlwaysIInv, PTL

\* What is answered as JSON is the whole response to the request, under its id; an
\* event stream is relayed as it is and not looked at (gateway.py:539-543, 668-690).
THEOREM ResultsAreTheirs == Spec => []ResultIsTheirs
<1>1. IInv => ResultIsTheirs
  BY DEF IInv, StageOf, Stage, ResultIsTheirs, Msg
<1> QED BY <1>1, AlwaysIInv, PTL

-----------------------------------------------------------------------------
(* The contract                                                            *)

Asked    == [r \in Req |-> IF req[r] = NoRequest THEN "nothing" ELSE Id(r)]
Outcomes == [r \in Req |-> Outcome(reply[r])]
ToldTo   == [r \in Req |-> [what |-> Told(answer[r].kind), id |-> answer[r].id]]
View     == <<Asked, Admitted, seen, Outcomes, ToldTo>>

LEMMA ToldType ==
  ASSUME NEW k \in Kinds \ {"none"}
  PROVE  Told(k) \in Contract!Answers
BY DEF Kinds, Told, Contract!Answers

\* r is admitted just when it has arrived and may make its request.
LEMMA AdmittedAt ==
  ASSUME NEW r \in Req
  PROVE  r \in Admitted <=> req[r] # NoRequest /\ Entitled(req[r])
BY DEF Admitted, Arrived

LEMMA UnansweredYet ==
  ASSUME IInv, NEW r \in Req, pc[r] # "over"
  PROVE  ToldTo[r].what = "nothing"
BY DEF IInv, StageOf, Stage, ToldTo, Told

\* What the contract calls truthful, of what the gateway knows of r.
Fit(r, a, i) ==
  \/ a = "refused" /\ r \notin Admitted /\ i \in {Id(r), NoId}
  \/ a = "result"  /\ Outcomes[r] = "success" /\ i = Id(r) /\ i # NoId
  \/ a = "relayed" /\ Outcomes[r] = "success" /\ Id(r) # NoId
  \/ a = "silence" /\ IF r \in Admitted THEN Outcomes[r] = "success" ELSE Id(r) = NoId
  \/ a = "failed"  /\ r \in Admitted /\ (i = Id(r) \/ (i = NoId /\ Outcomes[r] # "nothing"))
  \/ a = "abandoned"

LEMMA FitIsTruthful ==
  ASSUME NEW r \in Req, req[r] # NoRequest, NEW a, NEW i, Fit(r, a, i)
  PROVE  Contract!Truthful(r, a, i)
<1>1. Asked[r] = Id(r)
  BY DEF Asked
<1> QED BY <1>1 DEF Fit, Contract!Truthful, Asked, Outcomes

\* An answer, of a request whose standing does not change with it.
LEMMA ContractTells ==
  ASSUME IInv, NEW r \in Req, pc[r] \notin {"idle", "over"}, NEW k \in Kinds \ {"none"},
         NEW i \in Ids \cup {NoId}, Tell(r, k, i), UNCHANGED <<req, seen, reply>>,
         Fit(r, Told(k), i)
  PROVE  Contract!ContractNext
<1>1. ToldTo[r].what = "nothing" /\ req[r] # NoRequest
  BY UnansweredYet DEF IInv, StageOf, Stage
<1>2. answer' = [q \in Req |-> IF q = r THEN Answer(k, i) ELSE answer[q]]
  BY TellValues DEF IInv
<1>3. ToldTo' = [ToldTo EXCEPT ![r] = Contract!Say(Told(k), i)]
  BY <1>2 DEF ToldTo, Answer, Contract!Say
<1>4. Contract!Truthful(r, Told(k), i)
  BY <1>1, FitIsTruthful
<1>5. UNCHANGED <<Asked, Admitted, seen, Outcomes>>
  BY DEF Asked, Admitted, Arrived, Outcomes, Id, Msg
<1>6. Contract!Tell(r, Told(k), i)
  BY <1>1, <1>3, <1>4, <1>5 DEF Contract!Tell, Contract!Pending, Asked, Outcomes, ToldTo
<1> QED BY <1>6, ToldType DEF Contract!ContractNext

\* A step of a handler that tells nothing, sends nothing and hears nothing.
LEMMA SilentContract ==
  ASSUME UNCHANGED <<req, seen, reply, answer>>
  PROVE  UNCHANGED View
BY DEF View, Asked, Admitted, Arrived, Outcomes, ToldTo, Id, Msg

LEMMA ArriveContract ==
  ASSUME IInv, NEW r \in Req, Arrive(r)
  PROVE  Contract!ContractNext
<1>0. PICK q \in Requests :
        /\ req' = [req EXCEPT ![r] = q]
        /\ IF ~ Authenticated(q.cred) THEN Tell(r, "unauthorized", NoId)
           ELSE IF q.declared /\ q.size > MaxBody THEN Tell(r, "too_large", NoId)
           ELSE Goto(r, "reading")
  BY DEF Arrive
<1>1. /\ Shape /\ pc[r] = "idle" /\ req[r] = NoRequest /\ q # NoRequest
      /\ req' = [req EXCEPT ![r] = q] /\ UNCHANGED <<seen, reply>>
  BY <1>0, GatewayAssumption DEF IInv, Arrive, Upstream, StageOf, Stage
<1>2. /\ req'[r] = q
      /\ \A p \in Req \ {r} : req'[p] = req[p]
  BY <1>1 DEF Shape
<1>3. r \notin Admitted /\ Outcomes' = Outcomes
  BY <1>1, AdmittedAt DEF Outcomes
<1>4. Asked[r] = "nothing" /\ ToldTo[r].what = "nothing"
  BY <1>1, UnansweredYet DEF Asked
<1>5. Asked' = [Asked EXCEPT ![r] = ExtractId(q.msg)] /\ ExtractId(q.msg) \in Ids \cup {NoId}
  <2>1. ExtractId(q.msg) \in Ids \cup {NoId}
    BY IdType
  <2>2. \A p \in Req : Asked'[p] = IF p = r THEN ExtractId(q.msg) ELSE Asked[p]
    BY <1>1, <1>2 DEF Asked, Id, Msg
  <2>3. Asked' = [p \in Req |-> Asked'[p]] /\ Asked = [p \in Req |-> Asked[p]]
    BY DEF Asked
  <2> QED BY <2>1, <2>2, <2>3
<1>6. CASE Entitled(q)
  <2>1. Admitted' = Admitted \cup {r}
    BY <1>1, <1>2, <1>6 DEF Admitted, Arrived
  <2>2. UNCHANGED ToldTo
    <3>1. Authenticated(q.cred) /\ ~ (q.size > MaxBody)
      <4>1. q.size \in Nat /\ q.size <= MaxBody /\ q.cred \in DOMAIN RoleOf
        BY <1>6, GatewayAssumption DEF Entitled
      <4> QED BY <4>1, MessagesAssumption, GatewayAssumption DEF Authenticated
    <3> QED BY <1>0, <3>1 DEF Goto, ToldTo
  <2>3. Contract!Present(r)
    BY <1>1, <1>3, <1>4, <1>5, <2>1, <2>2
    DEF Contract!Present, Contract!Pending, Asked, Outcomes, ToldTo
  <2> QED BY <2>3 DEF Contract!ContractNext
<1>7. CASE ~ Entitled(q)
  <2>1. Admitted' = Admitted
    BY <1>1, <1>2, <1>7 DEF Admitted, Arrived
  <2>2. UNCHANGED ToldTo \/ ToldTo' = [ToldTo EXCEPT ![r] = Contract!Say("refused", NoId)]
    <3>1. CASE \E k \in {"unauthorized", "too_large"} : Tell(r, k, NoId)
      <4>1. PICK k \in {"unauthorized", "too_large"} : Tell(r, k, NoId)
        BY <3>1
      <4>2. answer' = [p \in Req |-> IF p = r THEN Answer(k, NoId) ELSE answer[p]]
        BY <1>1, <4>1, TellValues
      <4>3. Told(k) = "refused"
        BY DEF Told
      <4> QED BY <4>2, <4>3 DEF ToldTo, Answer, Contract!Say
    <3>2. CASE UNCHANGED answer
      BY <3>2 DEF ToldTo
    <3> QED BY <1>0, <3>1, <3>2 DEF Goto
  <2>3. Contract!Present(r)
    BY <1>1, <1>3, <1>4, <1>5, <2>1, <2>2
    DEF Contract!Present, Contract!Pending, Asked, Outcomes, ToldTo
  <2> QED BY <2>3 DEF Contract!ContractNext
<1> QED BY <1>6, <1>7

LEMMA ReadContract ==
  ASSUME IInv, NEW r \in Req, Read(r)
  PROVE  [Contract!ContractNext]_View
<1>1. /\ Shape /\ TypedOf(r) /\ StageOf(r) /\ pc[r] = "reading"
      /\ UNCHANGED <<req, seen, conn, reply, held>>
  BY DEF IInv, Read, ReceiveChunk, Decide, HangUp, Upstream
<1>2. /\ req[r] \in Requests /\ req[r] # NoRequest
      /\ Authenticated(req[r].cred) /\ got[r] <= MaxBody /\ got[r] \in Nat
  BY <1>1, GatewayAssumption DEF StageOf, Stage, TypedOf, Typed
<1>3. Id(r) \in Ids \cup {NoId} /\ EnvelopeErrorId(Msg(r)) \in {Id(r), NoId}
  BY IdType DEF Id, EnvelopeErrorId
<1>4. ASSUME NEW k \in Kinds \ {"none"}, NEW i \in Ids \cup {NoId}, Tell(r, k, i),
             Fit(r, Told(k), i)
      PROVE  Contract!ContractNext
  BY <1>1, <1>4, ContractTells
<1>5. ASSUME ~ Entitled(req[r]),
             NEW k \in {"too_large", "parse_error", "invalid_request", "invalid_params",
                        "unauthorized_tool_call"},
             NEW i \in {Id(r), NoId}, Tell(r, k, i)
      PROVE  Contract!ContractNext
  <2>1. Told(k) = "refused" /\ k \in Kinds \ {"none"}
    BY DEF Told, Kinds
  <2>2. r \notin Admitted
    BY <1>5, AdmittedAt
  <2>3. Fit(r, Told(k), i)
    BY <2>1, <2>2 DEF Fit
  <2> QED BY <1>3, <1>4, <1>5, <2>1, <2>3
<1>6. CASE ReceiveChunk(r)
  <2>1. CASE got[r] + 1 > MaxBody /\ Tell(r, "too_large", NoId)
    <3>1. got[r] < req[r].size /\ req[r].size \in Nat
      BY <1>2, <1>6, GatewayAssumption DEF ReceiveChunk
    <3>2. ~ Entitled(req[r])
      BY <1>2, <2>1, <3>1, GatewayAssumption DEF Entitled
    <3> QED BY <1>5, <2>1, <3>2
  <2>2. CASE UNCHANGED answer
    BY <1>1, <2>2, SilentContract
  <2> QED BY <1>6, <2>1, <2>2 DEF ReceiveChunk
<1>7. CASE Decide(r)
  <2>1. got[r] = req[r].size
    BY <1>7 DEF Decide
  <2>2. Entitled(req[r]) <=> /\ Msg(r).json # "malformed" /\ WellFormed(Msg(r))
                             /\ Screen(Msg(r), Role(r)) = "forward"
    BY <1>2, <2>1, DecisionIsEntitled DEF Msg, Role
  <2>3. CASE Msg(r).json = "malformed" \/ ~ WellFormed(Msg(r))
    BY <1>3, <1>5, <1>7, <2>2, <2>3 DEF Decide
  <2>4. CASE Screen(Msg(r), Role(r)) # "forward" /\ Refuse(r, Screen(Msg(r), Role(r)))
    <3>1. Screen(Msg(r), Role(r)) \in {"invalid_request", "invalid_params", "unauthorized_tool_call"}
      BY <2>4 DEF Screen
    <3>2. CASE IsNotification(Msg(r)) /\ Tell(r, "silence", NoId)
      <4>1. Id(r) = NoId
        BY <3>2, MessagesAssumption DEF IsNotification, Id, ExtractId
      <4>2. r \notin Admitted /\ Told("silence") = "silence" /\ "silence" \in Kinds \ {"none"}
        BY <2>2, <2>4, AdmittedAt DEF Told, Kinds
      <4>3. Fit(r, Told("silence"), NoId)
        BY <4>1, <4>2 DEF Fit
      <4> QED BY <1>4, <3>2, <4>2, <4>3
    <3>3. CASE Tell(r, Screen(Msg(r), Role(r)), Id(r))
      BY <1>5, <2>2, <2>4, <3>1, <3>3
    <3> QED BY <2>4, <3>2, <3>3 DEF Refuse
  <2>5. CASE Goto(r, "opening")
    BY <1>1, <2>5, SilentContract DEF Goto
  <2> QED BY <1>7, <2>3, <2>4, <2>5 DEF Decide
<1>8. CASE HangUp(r)
  <2>1. Fit(r, Told("gone"), NoId) /\ "gone" \in Kinds \ {"none"}
    BY DEF Fit, Told, Kinds
  <2> QED BY <1>4, <1>8, <2>1 DEF HangUp
<1> QED BY <1>6, <1>7, <1>8 DEF Read

LEMMA ProxyContract ==
  ASSUME IInv, NEW r \in Req, Proxy(r) \/ DrainFails(r) \/ Relay(r) \/ Cancel(r)
  PROVE  [Contract!ContractNext]_View
<1>1. Shape /\ TypedOf(r) /\ StageOf(r)
  BY DEF IInv
<1>2. ASSUME UNCHANGED <<req, seen, reply>>, pc[r] \notin {"idle", "over"},
             NEW k \in Kinds \ {"none"}, NEW i \in Ids \cup {NoId}, Tell(r, k, i),
             Fit(r, Told(k), i)
      PROVE  Contract!ContractNext
  BY <1>2, ContractTells
<1>3. ASSUME pc[r] \in Forwarded
      PROVE  r \in Admitted /\ pc[r] \notin {"idle", "over"} /\ req[r] # NoRequest
  BY <1>1, <1>3, AdmittedAt DEF StageOf, Stage, Forwarded
<1>4. ASSUME pc[r] \in Answering
      PROVE  /\ reply[r] # NoReply /\ Outcomes[r] # "nothing"
             /\ reply[r].status # "not_2xx" => Outcomes[r] = "success"
  <2>1. reply[r] \in Replies
    BY <1>1, <1>4 DEF StageOf, Stage
  <2> QED BY <2>1, GatewayAssumption DEF Outcomes, Outcome
<1>5. ASSUME pc[r] \in {"relaying", "buffering"}
      PROVE  /\ pc[r] \in Answering \cap Forwarded /\ Outcomes[r] = "success"
             /\ Id(r) \in Ids /\ Id(r) # NoId
  <2>1. /\ ~ IsNotification(req[r].msg) /\ reply[r].status # "not_2xx"
        /\ req[r] \in Requests /\ Entitled(req[r])
    BY <1>1, <1>3, <1>5 DEF StageOf, Stage, TypedOf, Typed, Forwarded
  <2>2. req[r].msg.id \in Ids \cup {"absent", "null", "other"}
    BY <2>1, GatewayAssumption DEF Message
  <2>3. req[r].msg.json = "object" /\ req[r].msg.id \in Ids
    BY <2>1, <2>2 DEF Entitled, Valid, IsNotification
  <2> QED BY <1>4, <1>5, <2>1, <2>3, MessagesAssumption
      DEF Id, ExtractId, Msg, Answering, Forwarded
<1>6. Id(r) \in Ids \cup {NoId}
  BY IdType DEF Id
<1>7. ASSUME pc[r] \in Forwarded, UNCHANGED <<req, seen, reply>>,
             NEW k \in {"timed_out", "unavailable", "upstream_error", "malformed_reply",
                        "internal_error"},
             NEW i \in Ids \cup {NoId},
             i = Id(r) \/ (i = NoId /\ pc[r] \in Answering), Tell(r, k, i)
      PROVE  Contract!ContractNext
  <2>1. Told(k) = "failed" /\ k \in Kinds \ {"none"}
    BY DEF Told, Kinds
  <2>2. Fit(r, Told(k), i)
    BY <1>3, <1>4, <1>7, <2>1 DEF Fit
  <2> QED BY <1>2, <1>3, <1>7, <2>1, <2>2
<1>8. ASSUME pc[r] \in Answering, reply[r].status # "not_2xx", UNCHANGED <<req, seen, reply>>,
             Tell(r, "silence", NoId)
      PROVE  Contract!ContractNext
  <2>1. Told("silence") = "silence" /\ "silence" \in Kinds \ {"none"}
    BY DEF Told, Kinds
  <2>2. Outcomes[r] = "success" /\ r \in Admitted /\ pc[r] \notin {"idle", "over"}
    BY <1>3, <1>4, <1>8 DEF Answering
  <2>3. Fit(r, Told("silence"), NoId)
    BY <2>1, <2>2 DEF Fit
  <2> QED BY <1>2, <1>8, <2>1, <2>2, <2>3
<1>9. ASSUME Connect(r) \/ DrainChunk(r) \/ StartRelay(r) \/ RelayChunk(r) \/ Sent(r)
      PROVE  UNCHANGED View
  BY <1>9, SilentContract DEF Connect, DrainChunk, StartRelay, RelayChunk, Sent, Goto, Upstream
<1>10. ASSUME Send(r)
       PROVE  Contract!ContractNext
  <2>1. /\ pc[r] = "opening" /\ seen[r] = 0 /\ seen' = [seen EXCEPT ![r] = @ + 1]
        /\ UNCHANGED <<req, reply, answer>>
    BY <1>10 DEF Send
  <2>2. UNCHANGED <<Asked, Admitted, Outcomes, ToldTo>>
    BY <2>1 DEF Asked, Admitted, Arrived, Outcomes, ToldTo, Id, Msg
  <2>3. r \in Admitted /\ ToldTo[r].what = "nothing"
    BY <1>3, <2>1, UnansweredYet DEF Forwarded
  <2>4. Contract!Expose(r)
    BY <2>1, <2>2, <2>3 DEF Contract!Expose, Contract!Pending, Asked, Outcomes, ToldTo
  <2> QED BY <2>4 DEF Contract!ContractNext
<1>11. ASSUME ReplyHead(r)
       PROVE  Contract!ContractNext
  <2>1. PICK h \in Replies : reply' = [reply EXCEPT ![r] = h]
    BY <1>11 DEF ReplyHead
  <2>2. pc[r] = "opening" /\ seen[r] > 0 /\ UNCHANGED <<req, seen, answer>>
    BY <1>11 DEF ReplyHead, Goto
  <2>3. reply[r] = NoReply /\ Outcomes[r] = "nothing"
    BY <1>1, <2>2 DEF StageOf, Stage, Outcomes, Outcome
  <2>4. Outcome(h) \in {"success", "failure"}
    BY GatewayAssumption DEF Outcome
  <2>5. Outcomes' = [Outcomes EXCEPT ![r] = Outcome(h)]
    BY <1>1, <2>1 DEF Outcomes, Shape
  <2>6. UNCHANGED <<Asked, Admitted, ToldTo>>
    BY <2>2 DEF Asked, Admitted, Arrived, ToldTo, Id, Msg
  <2>7. ToldTo[r].what = "nothing"
    BY <2>2, UnansweredYet
  <2>8. Contract!Reply(r)
    BY <2>2, <2>3, <2>4, <2>5, <2>6, <2>7
    DEF Contract!Reply, Contract!Pending, Asked, Outcomes, ToldTo
  <2> QED BY <2>8 DEF Contract!ContractNext
<1>12. ASSUME OpenFails(r) \/ BufferFails(r)
       PROVE  Contract!ContractNext
  BY <1>6, <1>7, <1>12 DEF OpenFails, BufferFails, Forwarded
<1>13. ASSUME Drained(r) \/ DrainFails(r)
       PROVE  Contract!ContractNext
  <2>1. /\ pc[r] \in Answering /\ pc[r] \in Forwarded /\ UNCHANGED <<req, seen, reply>>
        /\ \/ Tell(r, "upstream_error", Id(r))
           \/ Tell(r, "internal_error", NoId)
           \/ reply[r].status # "not_2xx" /\ Tell(r, "silence", NoId)
    BY <1>13 DEF Drained, DrainFails, Answering, Forwarded
  <2> QED BY <1>6, <1>7, <1>8, <2>1
<1>14. ASSUME EndRelay(r)
       PROVE  Contract!ContractNext
  <2>1. pc[r] = "relaying" /\ UNCHANGED <<req, seen, reply>> /\ Tell(r, "stream", NoId)
    BY <1>14 DEF EndRelay
  <2>2. Told("stream") = "relayed" /\ "stream" \in Kinds \ {"none"}
    BY DEF Told, Kinds
  <2>3. Fit(r, Told("stream"), NoId)
    BY <1>5, <2>1, <2>2 DEF Fit
  <2> QED BY <1>2, <2>1, <2>2, <2>3
<1>15. ASSUME BufferChunk(r)
       PROVE  Contract!ContractNext \/ UNCHANGED View
  <2>1. CASE Tell(r, "upstream_error", Id(r))
    BY <1>6, <1>7, <1>15, <2>1 DEF BufferChunk, Forwarded
  <2>2. CASE UNCHANGED answer
    BY <1>15, <2>2, SilentContract DEF BufferChunk
  <2> QED BY <1>15, <2>1, <2>2 DEF BufferChunk
<1>16. ASSUME Buffered(r)
       PROVE  Contract!ContractNext
  <2>1. /\ pc[r] = "buffering" /\ UNCHANGED <<req, seen, reply>> /\ Build(r, reply[r])
    BY <1>16 DEF Buffered
  <2>2. \/ Tell(r, "silence", NoId) \/ Tell(r, "internal_error", NoId)
        \/ Tell(r, "result", Id(r)) \/ Tell(r, "malformed_reply", Id(r))
    BY <2>1 DEF Build
  <2>3. /\ pc[r] \in Answering /\ pc[r] \in Forwarded /\ Outcomes[r] = "success"
        /\ Id(r) \in Ids /\ Id(r) # NoId /\ pc[r] \notin {"idle", "over"}
    BY <1>5, <2>1
  <2>4. reply[r].status # "not_2xx"
    BY <1>1, <2>1 DEF StageOf, Stage
  <2>5. CASE Tell(r, "result", Id(r))
    <3>1. Told("result") = "result" /\ "result" \in Kinds \ {"none"}
      BY DEF Told, Kinds
    <3>2. Fit(r, Told("result"), Id(r))
      BY <2>3, <3>1 DEF Fit
    <3> QED BY <1>2, <2>1, <2>3, <2>5, <3>1, <3>2
  <2> QED BY <1>6, <1>7, <1>8, <2>1, <2>2, <2>3, <2>4, <2>5
<1>17. ASSUME Cancel(r)
       PROVE  Contract!ContractNext
  <2>1. /\ pc[r] \notin {"idle", "over"} /\ UNCHANGED <<req, seen, reply>>
        /\ \/ Tell(r, "dropped", NoId) \/ Tell(r, "cancelled", NoId)
    BY <1>17 DEF Cancel
  <2>2. \A k \in {"dropped", "cancelled"} :
          k \in Kinds \ {"none"} /\ Fit(r, Told(k), NoId)
    BY DEF Fit, Told, Kinds
  <2> QED BY <1>2, <2>1, <2>2
<1> QED BY <1>9, <1>10, <1>11, <1>12, <1>13, <1>14, <1>15, <1>16, <1>17 DEF Proxy, Relay

LEMMA StepContract ==
  ASSUME IInv, [Next]_vars
  PROVE  [Contract!ContractNext]_View
<1>1. CASE UNCHANGED vars
  BY <1>1, SilentContract DEF vars
<1>2. ASSUME NEW r \in Req, Collect(r)
      PROVE  UNCHANGED View
  BY <1>2, SilentContract DEF Collect
<1>3. ASSUME NEW r \in Req, Arrive(r)
      PROVE  [Contract!ContractNext]_View
  BY <1>3, ArriveContract
<1>4. ASSUME NEW r \in Req, Read(r)
      PROVE  [Contract!ContractNext]_View
  BY <1>4, ReadContract
<1>5. ASSUME NEW r \in Req, Proxy(r) \/ DrainFails(r) \/ Relay(r) \/ Cancel(r)
      PROVE  [Contract!ContractNext]_View
  BY <1>5, ProxyContract
<1> QED BY <1>1, <1>2, <1>3, <1>4, <1>5 DEF Next

LEMMA InitContract == Init => Contract!ContractInit
<1> SUFFICES ASSUME Init PROVE Contract!ContractInit
  OBVIOUS
<1>1. Admitted = {}
  BY DEF Init, Arrived, Admitted
<1>2. \A r \in Req : /\ req[r] = NoRequest /\ Outcome(reply[r]) = "nothing"
                     /\ Told(answer[r].kind) = "nothing" /\ answer[r].id = NoId
  BY DEF Init, Unanswered, Told, Outcome
<1> QED BY <1>1, <1>2 DEF Init, Contract!ContractInit, Contract!Say

\* The handlers implement the contract of the gateway, for any policy, any
\* requests and any downstream server (gateway.py:345-520).
THEOREM ContractIsKept == Spec => KeepsContract
<1>1. Init => Contract!ContractInit
  BY InitContract
<1>2. IInv /\ [Next]_vars => [Contract!ContractNext]_(Contract!contractVars)
  BY StepContract DEF View, Asked, Outcomes, ToldTo, Contract!contractVars
<1> QED BY <1>1, <1>2, AlwaysIInv, PTL DEF Spec, KeepsContract, Contract!ContractSpec
=============================================================================
