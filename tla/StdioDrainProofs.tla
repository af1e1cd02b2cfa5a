--------------------------- MODULE StdioDrainProofs ---------------------------
(***************************************************************************)
(* Proofs about StdioDrain, for every set of ids, every number of lines    *)
(* and every size of the inbound stream.                                   *)
(***************************************************************************)
EXTENDS StdioDrain, FiniteSetTheorems, TLAPS

-----------------------------------------------------------------------------
(* What the pump decides about an item and its own line.                   *)

\* Where item and line belong together, the pump refuses exactly the lines that
\* are owed an error, with the frame they are owed, and skips the blank ones.
LEMMA Verdict ==
  ASSUME NEW l \in Line
  PROVE  /\ Skipped(l, l) <=> l.kind = "blank"
         /\ Refused(l, l) <=> Owes(l) /\ l.kind # "request"
         /\ Refused(l, l) => Refusal(l, l) = Owed(l)
         /\ l.kind = "request" => Owed(l) = [id |-> l.id, code |-> "answer"]
         /\ Owed(l) \in Frame
         /\ IsRequest(l) => l.id \in Ids
  BY DEF Line, Kinds, Skipped, Refused, Refusal, Owes, Owed, UnparsedFrame, Frame,
         Codes, IsException, IsNotification, IsRequest, IsJson, CarriesId

\* A frame written is one more copy of it.
LEMMA WriteType ==
  ASSUME wire \in [Frame -> Nat], NEW f, Write(f)
  PROVE  wire' \in [Frame -> Nat]
<1>1. \A g \in Frame : wire[g] \in Nat /\ wire[g] + 1 \in Nat
  OBVIOUS
<1>2. wire' = [g \in Frame |-> IF g = f THEN wire[f] + 1 ELSE wire[g]]
  BY DEF Write
<1> QED BY <1>1, <1>2

\* The tracker's operations keep its types.
LEMMA DispatchedType ==
  ASSUME pending \in [Ids -> Nat], NEW i \in Ids, Dispatched(i)
  PROVE  pending' \in [Ids -> Nat] /\ idle' \in BOOLEAN
<1>1. pending' \in [Ids -> Nat]
  BY DEF Dispatched
<1>2. idle' \in BOOLEAN
  BY DEF Dispatched
<1> QED BY <1>1, <1>2

LEMMA AnsweredType ==
  ASSUME pending \in [Ids -> Nat], idle \in BOOLEAN, NEW i, Answered(i)
  PROVE  pending' \in [Ids -> Nat] /\ idle' \in BOOLEAN
<1>1. \A j \in Ids : pending[j] \in Nat /\ (pending[j] > 0 => pending[j] - 1 \in Nat)
  OBVIOUS
<1>2. pending' = [j \in Ids |-> IF j = i THEN IF pending[i] > 0 THEN pending[i] - 1 ELSE 0
                                ELSE pending[j]]
  BY DEF Answered
<1>3. pending' \in [Ids -> Nat]
  BY <1>1, <1>2
<1>4. idle' \in BOOLEAN
  BY DEF Answered, NothingPending
<1> QED BY <1>3, <1>4

\* Sequences: what Append and Tail leave at each place.
LEMMA AppendPlaces ==
  ASSUME NEW S, NEW s \in Seq(S), NEW x \in S
  PROVE  /\ Append(s, x) \in Seq(S) /\ Len(Append(s, x)) = Len(s) + 1
         /\ Append(s, x)[Len(s) + 1] = x
         /\ \A k \in 1..Len(s) : Append(s, x)[k] = s[k]
  OBVIOUS

LEMMA TailPlaces ==
  ASSUME NEW S, NEW s \in Seq(S), s # <<>>
  PROVE  /\ Tail(s) \in Seq(S) /\ Len(Tail(s)) = Len(s) - 1 /\ Len(s) > 0
         /\ Head(s) = s[1] /\ s[1] \in S
         /\ \A k \in 1..(Len(s) - 1) : Tail(s)[k] = s[k + 1]
  OBVIOUS

-----------------------------------------------------------------------------
(* Types, and the pairing of items with lines.                             *)

\* The item and the line in hand are the same line, and are decided on alike.
PairInv ==
  /\ offered \in {0, Len(lines)}
  /\ item = IF offered = 0 THEN Len(lines) ELSE Len(lines) - 1
  /\ Len(recorded) = (IF pump = "received" THEN 1 ELSE 0) + (IF offered = 0 THEN 0 ELSE 1)
  /\ pump = "received" => recorded[1] = item
  /\ offered # 0 => recorded[Len(recorded)] = offered
  /\ pump \in {"received", "replying", "forwarding"} => item > 0
  /\ pump \in {"replying", "forwarding"} => text = item
  /\ pump = "replying" => Owes(lines[item]) /\ lines[item].kind # "request"
  /\ pump = "forwarding" => lines[item].kind \in {"request", "notice"}
  /\ pump \in {"draining", "closed"} => eof /\ offered = 0

\* Every step keeps the types and the pairing.
LEMMA PairStep == TypeOK /\ PairInv /\ [Next]_vars => TypeOK' /\ PairInv'
<1> SUFFICES ASSUME TypeOK, PairInv, [Next]_vars PROVE TypeOK' /\ PairInv'
  OBVIOUS
<1> USE BoundsAssumption DEF TypeOK, PairInv, PumpAwaits, JobStages, Position
<1>1. CASE UNCHANGED vars
  BY <1>1 DEF vars, readerVars, pumpVars, serverVars, trackerVars
<1>2. CASE ReadLine
  <2>1. /\ lines' \in Seq(Line) /\ Len(lines') = Len(lines) + 1 /\ Len(lines') <= MaxLines
        /\ \A n \in 1..Len(lines) : lines'[n] = lines[n]
    BY <1>2 DEF ReadLine
  <2>2. Len(lines) + 1 \in Position /\ offered' = Len(lines) + 1
    BY <1>2 DEF ReadLine
  <2>3. /\ recorded' \in Seq(Position) /\ Len(recorded') = Len(recorded) + 1
        /\ recorded'[Len(recorded')] = Len(lines) + 1
        /\ Len(recorded) > 0 => recorded'[1] = recorded[1]
    <3>1. recorded' = Append(recorded, Len(lines) + 1) /\ recorded \in Seq(Position)
      BY <1>2 DEF ReadLine
    <3> HIDE DEF TypeOK, PairInv, Position
    <3> QED BY <2>2, <3>1, AppendPlaces
  <2>4. ~ eof /\ offered = 0 /\ Len(recorded) <= 1
    BY <1>2 DEF ReadLine
  <2>5. UNCHANGED <<eof, pump, item, text, inbound, job, down, pending, idle, wire, warned>>
    BY <1>2 DEF ReadLine, pumpVars, serverVars, trackerVars
  <2>6. TypeOK'
    BY <2>1, <2>2, <2>3, <2>4, <2>5
  <2>7. PairInv'
    BY <2>1, <2>2, <2>3, <2>4, <2>5
  <2> QED BY <2>6, <2>7
<1>3. CASE EndInput
  BY <1>3 DEF EndInput, pumpVars, serverVars, trackerVars
<1>4. CASE Receive
  <2>1. /\ UNCHANGED <<lines, eof, recorded, text, inbound, job, down, pending, idle, wire, warned>>
        /\ pump = "receiving" /\ offered # 0 /\ offered = Len(lines)
        /\ item' = offered /\ offered' = 0 /\ pump' = "received"
    BY <1>4 DEF Receive, serverVars, trackerVars
  <2>2. Len(recorded) = 1 /\ recorded[1] = offered
    BY <2>1
  <2>3. TypeOK'
    <3>1. item' \in 0..MaxLines /\ offered' \in 0..MaxLines /\ pump' \in PumpAwaits
      BY <2>1
    <3> QED BY <2>1, <3>1
  <2>4. PairInv'
    BY <2>1, <2>2
  <2> QED BY <2>3, <2>4
<1>5. CASE Screen
  <2> USE <1>5 DEF Screen, readerVars, serverVars
  <2>1. Oldest = item /\ item \in DOMAIN lines /\ recorded # <<>>
    BY DEF Oldest
  <2>2. LineAt(Oldest) = lines[item] /\ lines[item] \in Line
    <3>1. lines \in Seq(Line) /\ item # 0
      OBVIOUS
    <3> HIDE <1>5 DEF TypeOK, PairInv
    <3> QED BY <2>1, <3>1 DEF LineAt
  <2>3. text' = item /\ recorded' = Tail(recorded)
    BY <2>1 DEF Take
  <2>4. pending' \in [Ids -> Nat] /\ idle' \in BOOLEAN
    <3>1. CASE Skip \/ Refuse
      BY <3>1 DEF Skip, Refuse, trackerVars
    <3>2. CASE Pass
      <4>1. CASE IsRequest(lines[item])
        BY <2>2, <3>2, <4>1, Verdict, DispatchedType DEF Pass
      <4>2. CASE ~ IsRequest(lines[item])
        BY <3>2, <4>2 DEF Pass, trackerVars
      <4> QED BY <4>1, <4>2
    <3> QED BY <3>1, <3>2
  <2>5. /\ pump' \in {"receiving", "replying", "forwarding"}
        /\ pump' = "replying" => Refused(lines[item], lines[item])
        /\ pump' = "forwarding" => /\ ~ Skipped(lines[item], lines[item])
                                   /\ ~ Refused(lines[item], lines[item])
    BY <2>2 DEF Skip, Refuse, Pass
  <2>6. /\ pump' = "replying" => Owes(lines[item]) /\ lines[item].kind # "request"
        /\ pump' = "forwarding" => lines[item].kind \in {"request", "notice"}
    BY <2>2, <2>5, Verdict DEF Owes
  <2>7. UNCHANGED <<lines, eof, offered, item, inbound, job, down, wire, warned>>
    OBVIOUS
  <2>8. /\ recorded' \in Seq(Position)
        /\ Len(recorded') = IF offered = 0 THEN 0 ELSE 1
        /\ offered # 0 => recorded'[Len(recorded')] = offered
    <3>1. Len(recorded) \in {1, 2} /\ (offered # 0 => Len(recorded) = 2 /\ recorded[2] = offered)
      OBVIOUS
    <3>2. recorded' \in Seq(Position) /\ Len(recorded') = Len(recorded) - 1
      BY <2>1, <2>3
    <3>3. Len(recorded) = 2 => recorded'[1] = recorded[2]
      <4>1. recorded \in Seq(Position)
        OBVIOUS
      <4> HIDE DEF TypeOK, PairInv
      <4> HIDE <1>5 DEF TypeOK, PairInv
      <4>2. \A k \in 1..(Len(recorded) - 1) : Tail(recorded)[k] = recorded[k + 1]
        BY <2>1, <4>1, TailPlaces
      <4>3. Len(recorded) = 2 => Tail(recorded)[1] = recorded[1 + 1]
        BY <4>2
      <4>4. 1 + 1 = 2
        OBVIOUS
      <4>5. recorded' = Tail(recorded)
        BY <2>3
      <4> QED BY <4>3, <4>4, <4>5, Zenon
    <3> QED BY <3>1, <3>2, <3>3
  <2>9. pump' \in PumpAwaits /\ pump' # "received" /\ pump' \notin {"draining", "closed"}
    BY <2>5
  <2>10. TypeOK'
    <3>1. recorded' \in Seq(Position) /\ Len(recorded') <= 2
      BY <2>8
    <3>2. text' \in 0..MaxLines
      BY <2>3
    <3> QED BY <2>4, <2>7, <2>9, <3>1, <3>2
  <2>11. PairInv'
    BY <2>3, <2>6, <2>7, <2>8, <2>9
  <2> QED BY <2>10, <2>11
<1>6. CASE Reply
  <2>1. lines[item] \in Line /\ LineAt(text) = lines[item]
    BY <1>6 DEF Reply, LineAt
  <2>2. wire' \in [Frame -> Nat]
    BY <1>6, WriteType DEF Reply
  <2> QED BY <1>6, <2>2 DEF Reply, readerVars, serverVars, trackerVars
<1>7. CASE Forward
  <2>1. item \in Position
    BY <1>7 DEF Forward
  <2>2. inbound' \in Seq(Position) /\ Len(inbound') = Len(inbound) + 1
    BY <1>7, <2>1 DEF Forward
  <2>3. Len(inbound') <= Buffer
    BY <1>7, <2>2 DEF Forward
  <2> QED BY <1>7, <2>2, <2>3 DEF Forward, readerVars, trackerVars
<1>8. CASE EndOfStream
  BY <1>8 DEF EndOfStream, readerVars, serverVars, trackerVars
<1>9. CASE Drained
  BY <1>9 DEF Drained, readerVars, serverVars, trackerVars
<1>10. CASE GiveUp
  <2>1. warned' \in BOOLEAN
    BY <1>10 DEF GiveUp
  <2> QED BY <1>10, <2>1 DEF GiveUp, readerVars, serverVars, trackerVars
<1>11. CASE ServerReceive
  <2>1. Head(inbound) \in Position
    BY <1>11 DEF ServerReceive
  <2>2. inbound' \in Seq(Position) /\ Len(inbound') <= Buffer
    BY <1>11 DEF ServerReceive
  <2>3. job' \in [Position -> JobStages]
    BY <1>11, <2>1 DEF ServerReceive
  <2> QED BY <1>11, <2>2, <2>3 DEF ServerReceive, readerVars, pumpVars, trackerVars
<1>12. CASE Finish
  BY <1>12 DEF Finish, readerVars, pumpVars, trackerVars
<1>13. ASSUME NEW n \in Position, Handle(n) PROVE TypeOK' /\ PairInv'
  <2>1. CASE Execute(n)
    BY <2>1 DEF Execute, Step, readerVars, pumpVars, trackerVars
  <2>2. CASE Respond(n)
    <3>1. wire' \in [Frame -> Nat]
      BY <2>2, WriteType DEF Respond
    <3> QED BY <2>2, <3>1 DEF Respond, Step, readerVars, pumpVars, trackerVars
  <2>3. CASE Credit(n)
    <3>1. pending' \in [Ids -> Nat] /\ idle' \in BOOLEAN
      BY <2>3, AnsweredType DEF Credit
    <3> QED BY <2>3, <3>1 DEF Credit, Step, readerVars, pumpVars
  <2> QED BY <1>13, <2>1, <2>2, <2>3 DEF Handle
<1>14. CASE Over
  BY <1>14 DEF Over, vars, readerVars, pumpVars, serverVars, trackerVars
<1> QED BY <1>1, <1>2, <1>3, <1>4, <1>5, <1>6, <1>7, <1>8, <1>9, <1>10, <1>11, <1>12,
           <1>13, <1>14 DEF Next, Pump

\* The program starts with nothing recorded and nothing in hand.
LEMMA InitPaired == Init => TypeOK /\ PairInv
<1> SUFFICES ASSUME Init PROVE TypeOK /\ PairInv
    OBVIOUS
<1> USE BoundsAssumption DEF Init
<1>1. lines \in Seq(Line) /\ Len(lines) = 0
    OBVIOUS
<1>2. recorded \in Seq(Position) /\ Len(recorded) = 0
    OBVIOUS
<1>3. inbound \in Seq(Position) /\ Len(inbound) = 0
    OBVIOUS
<1>4. job \in [Position -> JobStages] /\ pending \in [Ids -> Nat] /\ wire \in [Frame -> Nat]
    BY DEF JobStages
<1>5. /\ eof \in BOOLEAN /\ idle \in BOOLEAN /\ warned \in BOOLEAN /\ down \in BOOLEAN
        /\ pump \in PumpAwaits
    BY DEF PumpAwaits
<1>6. offered \in 0..MaxLines /\ item \in 0..MaxLines /\ text \in 0..MaxLines
    OBVIOUS
<1>7. TypeOK
    BY <1>1, <1>2, <1>3, <1>4, <1>5, <1>6 DEF TypeOK
<1> QED BY <1>1, <1>2, <1>7 DEF PairInv

\* LineRecordingInput, take: what the pump reads off the recorder is always the
\* line its stream item came from, and the recorder never holds more than two.
THEOREM TypesAndPairing == Spec => [](TypeOK /\ PairInv)
<1>1. Init => TypeOK /\ PairInv
  BY InitPaired
<1>2. TypeOK /\ PairInv /\ [Next]_vars => (TypeOK /\ PairInv)'
  BY PairStep
<1> QED BY <1>1, <1>2, PTL DEF Spec
-----------------------------------------------------------------------------
(* Where the work on a line is.                                            *)

\* The pump is done with line n: it skipped, answered or forwarded it.
Decided(n) ==
  n < item \/ (n = item /\ pump \notin {"received", "replying", "forwarding"})

\* The stream to the server holds decided lines, each once, in their order.
InboundInv ==
  /\ \A k \in 1..Len(inbound) :
       /\ inbound[k] \in 1..Len(lines) /\ Decided(inbound[k])
       /\ lines[inbound[k]].kind \in {"request", "notice"}
  /\ \A j, k \in 1..Len(inbound) : j < k => inbound[j] < inbound[k]

\* A job is the work on a request that has left that stream.
JobInv ==
  \A n \in Position : job[n] # "none" =>
    /\ n \in 1..Len(lines) /\ Decided(n) /\ lines[n].kind = "request"
    /\ \A k \in 1..Len(inbound) : inbound[k] # n

\* No request is dropped between the pump and its handler.
NoneDropped ==
  \A n \in 1..Len(lines) : Decided(n) /\ lines[n].kind = "request" =>
    job[n] # "none" \/ \E k \in 1..Len(inbound) : inbound[k] = n

\* After the end nothing is left to do.
EndInv ==
  /\ warned => pump = "closed"
  /\ down => /\ pump = "closed" /\ inbound = <<>>
             /\ \A n \in Position : job[n] \notin {"running", "executed"}
  /\ \A n \in Position : job[n] = "cancelled" => down

WorkInv == InboundInv /\ JobInv /\ NoneDropped /\ EndInv

Base == TypeOK /\ PairInv /\ TypeOK' /\ PairInv'

\* A step that touches neither the stream nor the jobs keeps WorkInv if the
\* lines it newly decides are no requests.
LEMMA WorkKept ==
  ASSUME Base, WorkInv, UNCHANGED <<inbound, job, down>>, ~ down,
         \A n \in 1..Len(lines) : n \in 1..Len(lines') /\ lines'[n] = lines[n],
         \A n \in 1..Len(lines) : Decided(n) => Decided(n)',
         \A n \in 1..Len(lines') : Decided(n)' =>
            n \in 1..Len(lines) /\ (Decided(n) \/ lines[n].kind # "request"),
         warned' => pump' = "closed"
  PROVE  WorkInv'
<1> USE DEF Base, WorkInv
<1>1. InboundInv'
  BY DEF InboundInv
<1>2. JobInv'
  BY DEF JobInv, TypeOK
<1>3. NoneDropped'
  BY DEF NoneDropped
<1>4. EndInv'
  BY DEF EndInv
<1> QED BY <1>1, <1>2, <1>3, <1>4

\* A step that moves the jobs that have started keeps WorkInv.
LEMMA WorkMoved ==
  ASSUME Base, WorkInv, UNCHANGED <<lines, inbound, item, pump, warned>>, ~ down,
         \A n \in Position : job[n] = "none" <=> job'[n] = "none",
         down' => /\ pump = "closed" /\ inbound = <<>>
                  /\ \A n \in Position : job'[n] \notin {"running", "executed"},
         \A n \in Position : job'[n] = "cancelled" => job[n] = "cancelled" \/ down'
  PROVE  WorkInv'
<1> USE DEF Base, WorkInv, Decided
<1>1. InboundInv'
  BY DEF InboundInv
<1>2. JobInv'
  BY DEF JobInv
<1>3. NoneDropped'
  <2>1. \A n \in 1..Len(lines) : n \in Position
    BY BoundsAssumption DEF TypeOK, Position
  <2> QED BY <2>1 DEF NoneDropped
<1>4. EndInv'
  BY DEF EndInv
<1> QED BY <1>1, <1>2, <1>3, <1>4

\* Every step keeps account of where the work is.
LEMMA WorkStep == Base /\ WorkInv /\ [Next]_vars => WorkInv'
<1> SUFFICES ASSUME Base, WorkInv, [Next]_vars PROVE WorkInv'
  OBVIOUS
<1>1. /\ Len(lines) \in Nat /\ Len(lines) <= MaxLines /\ item \in 0..Len(lines)
      /\ \A n \in 1..Len(lines) : lines[n] \in Line
      /\ inbound \in Seq(Position) /\ job \in [Position -> JobStages]
  BY DEF Base, TypeOK, PairInv
<1>2. CASE UNCHANGED vars
  BY <1>2 DEF vars, readerVars, pumpVars, serverVars, trackerVars, WorkInv, InboundInv,
              JobInv, NoneDropped, EndInv, Decided
<1>3. CASE ReadLine
  <2>1. ~ down
    BY <1>3 DEF ReadLine, Base, PairInv, WorkInv, EndInv
  <2>2. \A n \in 1..Len(lines) : n \in 1..Len(lines') /\ lines'[n] = lines[n]
    BY <1>3 DEF ReadLine, Base, TypeOK
  <2>3. UNCHANGED <<item, pump, inbound, job, down, warned>>
    BY <1>3 DEF ReadLine, pumpVars, serverVars
  <2>4. \A n \in 1..Len(lines') : Decided(n)' => n \in 1..Len(lines) /\ Decided(n)
    BY <1>1, <2>3 DEF Decided, Base, TypeOK
  <2>5. \A n \in 1..Len(lines) : Decided(n) => Decided(n)'
    BY <2>3 DEF Decided
  <2>6. warned' => pump' = "closed"
    BY <2>3 DEF WorkInv, EndInv
  <2> QED BY <2>1, <2>2, <2>3, <2>4, <2>5, <2>6, WorkKept
<1>4. CASE EndInput \/ Receive \/ Screen \/ Reply \/ EndOfStream \/ Drained \/ GiveUp
  <2>1. UNCHANGED <<lines, inbound, job, down>>
    BY <1>4 DEF EndInput, Receive, Screen, Reply, EndOfStream, Drained, GiveUp,
                readerVars, pumpVars, serverVars
  <2>2. ~ down
    BY <1>4 DEF EndInput, Receive, Screen, Reply, EndOfStream, Drained, GiveUp,
                WorkInv, EndInv, Base, PairInv
  <2>3. warned' => pump' = "closed"
    BY <1>4 DEF EndInput, Receive, Screen, Reply, EndOfStream, Drained, GiveUp,
                WorkInv, EndInv, Base, PairInv, pumpVars
  <2>4. /\ \A n \in 1..Len(lines) : Decided(n) => Decided(n)'
        /\ \A n \in 1..Len(lines) : Decided(n)' =>
             Decided(n) \/ lines[n].kind # "request"
    <3>1. CASE EndInput \/ EndOfStream \/ Drained \/ GiveUp
      BY <3>1 DEF EndInput, EndOfStream, Drained, GiveUp, pumpVars, Decided
    <3>2. CASE Receive
      BY <3>2, <1>1 DEF Receive, Base, PairInv, Decided
    <3>3. CASE Screen
      <4>1. Oldest = item /\ item \in 1..Len(lines)
        BY <3>3 DEF Screen, Oldest, Base, TypeOK, PairInv
      <4>2. LineAt(Oldest) = lines[item] /\ lines[item] \in Line
        BY <1>1, <4>1 DEF LineAt
      <4>3. pump' \in {"replying", "forwarding"} \/ lines[item].kind = "blank"
        BY <3>3, <4>2, Verdict DEF Screen, Skip, Refuse, Pass
      <4>4. item' = item /\ pump = "received"
        BY <3>3 DEF Screen
      <4> QED BY <1>1, <4>3, <4>4 DEF Decided
    <3>4. CASE Reply
      BY <3>4, <1>1 DEF Reply, Base, PairInv, Decided
    <3> QED BY <1>4, <3>1, <3>2, <3>3, <3>4
  <2> QED BY <2>1, <2>2, <2>3, <2>4, WorkKept
<1>5. CASE Forward
  <2>1. /\ pump = "forwarding" /\ pump' = "receiving" /\ item > 0
        /\ inbound' = Append(inbound, item)
        /\ UNCHANGED <<lines, item, job, down, warned>>
    BY <1>5 DEF Forward, Base, PairInv, readerVars
  <2>2. lines[item].kind \in {"request", "notice"} /\ item \in Position
    BY <1>1, <2>1, BoundsAssumption DEF Base, PairInv, Position
  <2>3. /\ Len(inbound') = Len(inbound) + 1 /\ inbound'[Len(inbound) + 1] = item
        /\ \A k \in 1..Len(inbound) : inbound'[k] = inbound[k]
    BY <1>1, <2>1, <2>2, AppendPlaces
  <2>4. \A k \in 1..Len(inbound) : inbound[k] < item
    BY <2>1, <1>1 DEF WorkInv, InboundInv, Decided
  <2>5. \A n \in 1..Len(lines) : Decided(n)' <=> Decided(n) \/ n = item
    BY <2>1 DEF Decided
  <2>6. Len(inbound) \in Nat /\ item \in 1..Len(lines)
    BY <1>1, <2>1
  <2>7. InboundInv'
    BY <2>1, <2>2, <2>3, <2>4, <2>5, <2>6 DEF WorkInv, InboundInv
  <2>8. job[item] = "none"
    BY <2>1, <2>2, <1>1 DEF WorkInv, JobInv, Decided
  <2>9. JobInv'
    BY <2>1, <2>3, <2>5, <2>6, <2>8 DEF WorkInv, JobInv
  <2>10. NoneDropped'
    <3>1. ASSUME NEW n \in 1..Len(lines), Decided(n)', lines[n].kind = "request", job[n] = "none"
          PROVE  \E k \in 1..Len(inbound') : inbound'[k] = n
      <4>1. CASE n = item
        BY <2>3, <2>6, <4>1
      <4>2. CASE n # item
        BY <2>3, <2>5, <2>6, <3>1, <4>2 DEF WorkInv, NoneDropped
      <4> QED BY <4>1, <4>2
    <3> QED BY <2>1, <3>1 DEF NoneDropped
  <2>11. EndInv'
    BY <2>1 DEF WorkInv, EndInv, Base, PairInv
  <2> QED BY <2>7, <2>9, <2>10, <2>11 DEF WorkInv
<1>6. CASE ServerReceive
  <2>1. /\ inbound # <<>> /\ inbound' = Tail(inbound)
        /\ UNCHANGED <<lines, item, pump, down, warned>>
    BY <1>6 DEF ServerReceive, readerVars, pumpVars
  <2>2. /\ Len(inbound') = Len(inbound) - 1 /\ Len(inbound) \in Nat \ {0}
        /\ Head(inbound) = inbound[1]
        /\ \A k \in 1..(Len(inbound) - 1) : inbound'[k] = inbound[k + 1]
    BY <1>1, <2>1, TailPlaces
  <2> DEFINE n == inbound[1]
  <2>3. n \in 1..Len(lines) /\ n \in Position /\ Decided(n) /\ lines[n].kind \in {"request", "notice"}
    BY <1>1, <2>2, BoundsAssumption DEF WorkInv, InboundInv, Position
  <2>4. \A k \in 1..Len(inbound') : inbound'[k] = inbound[k + 1] /\ k + 1 \in 1..Len(inbound)
    BY <2>2
  <2>5. \A k \in 1..Len(inbound') : n < inbound'[k]
    BY <2>2, <2>4 DEF WorkInv, InboundInv
  <2>6. \A m \in 1..Len(lines) : Decided(m)' <=> Decided(m)
    BY <2>1 DEF Decided
  <2>7. job' = IF IsRequest(lines[n]) THEN [job EXCEPT ![n] = "running"] ELSE job
    BY <1>6, <2>2 DEF ServerReceive
  <2>8. /\ \A m \in Position : m # n => job'[m] = job[m]
        /\ lines[n].kind = "request" => job'[n] = "running"
        /\ lines[n].kind = "notice" => job'[n] = job[n]
    BY <1>1, <2>3, <2>7 DEF IsRequest
  <2>9. job[n] = "none"
    BY <2>2, <2>3 DEF WorkInv, JobInv
  <2> HIDE DEF n
  <2>10. InboundInv'
    BY <2>1, <2>2, <2>4, <2>6 DEF WorkInv, InboundInv
  <2>11. JobInv'
    <3>1. ASSUME NEW m \in Position, job'[m] # "none"
          PROVE  /\ m \in 1..Len(lines) /\ Decided(m) /\ lines[m].kind = "request"
                 /\ \A k \in 1..Len(inbound') : inbound'[k] # m
      <4>1. CASE m = n
        BY <2>3, <2>5, <2>8, <2>9, <3>1, <4>1
      <4>2. CASE m # n
        BY <2>4, <2>8, <3>1, <4>2 DEF WorkInv, JobInv
      <4> QED BY <4>1, <4>2
    <3> QED BY <2>1, <2>6, <3>1 DEF JobInv
  <2>12. NoneDropped'
    <3>1. ASSUME NEW m \in 1..Len(lines), Decided(m), lines[m].kind = "request", job'[m] = "none"
          PROVE  \E k \in 1..Len(inbound') : inbound'[k] = m
      <4>1. m # n
        BY <2>8, <3>1
      <4>2. m \in Position
        BY <1>1, BoundsAssumption DEF Position
      <4>3. PICK k \in 1..Len(inbound) : inbound[k] = m
        BY <2>8, <3>1, <4>1, <4>2 DEF WorkInv, NoneDropped
      <4>4. k # 1
        BY <4>1, <4>3 DEF n
      <4>5. k - 1 \in 1..Len(inbound') /\ inbound'[k - 1] = inbound[(k - 1) + 1]
        BY <2>2, <4>3, <4>4
      <4> QED BY <4>3, <4>5
    <3> QED BY <2>1, <2>6, <3>1 DEF NoneDropped
  <2>13. EndInv'
    <3>1. \A m \in Position : job'[m] = "cancelled" => job[m] = "cancelled"
      BY <2>3, <2>8, <2>9
    <3> QED BY <2>1, <3>1 DEF WorkInv, EndInv
  <2> QED BY <2>10, <2>11, <2>12, <2>13 DEF WorkInv
<1>7. CASE Finish
  <2>1. /\ UNCHANGED <<lines, inbound, item, pump, warned>> /\ ~ down
        /\ pump = "closed" /\ inbound = <<>>
    BY <1>7 DEF Finish, readerVars, pumpVars
  <2>2. \A m \in Position : /\ job[m] = "none" <=> job'[m] = "none"
                            /\ job'[m] \notin {"running", "executed"}
    BY <1>7, <1>1 DEF Finish
  <2>3. down'
    BY <1>7 DEF Finish
  <2> QED BY <2>1, <2>2, <2>3, WorkMoved
<1>8. ASSUME NEW n \in Position, Handle(n) PROVE WorkInv'
  <2>1. UNCHANGED <<lines, inbound, item, pump, warned, down>>
    BY <1>8 DEF Handle, Execute, Respond, Credit, readerVars, pumpVars
  <2>2. ~ down
    BY <1>8 DEF Handle, Execute, Respond, Credit, Step, WorkInv, EndInv
  <2>3. \A m \in Position : job[m] = "none" <=> job'[m] = "none"
    BY <1>1, <1>8 DEF Handle, Execute, Respond, Credit, Step
  <2>4. \A m \in Position : job'[m] = "cancelled" => job[m] = "cancelled"
    BY <1>1, <1>8 DEF Handle, Execute, Respond, Credit, Step
  <2> QED BY <2>1, <2>2, <2>3, <2>4, WorkMoved
<1>9. CASE Over
  BY <1>9, <1>2 DEF Over
<1> QED BY <1>2, <1>3, <1>4, <1>5, <1>6, <1>7, <1>8, <1>9 DEF Next, Pump
-----------------------------------------------------------------------------
(* The tracker's counters.                                                 *)

\* The outstanding requests are finitely many.
LEMMA OutstandingFinite ==
  ASSUME NEW i
  PROVE  IsFiniteSet(Outstanding(i)) /\ Cardinality(Outstanding(i)) \in Nat
<1>1. IsFiniteSet(Position)
  BY BoundsAssumption, FS_Interval DEF Position
<1>2. Outstanding(i) \in SUBSET Position
  BY DEF Outstanding
<1> QED BY <1>1, <1>2, FS_Subset, FS_CardinalityType

\* A step that leaves the counters and the work of every line alone.
LEMMA CounterKept ==
  ASSUME CounterIsWork, UNCHANGED <<pending, down>>,
         \A n \in Position : InFlight(n)' <=> InFlight(n),
         \A n \in Position : InFlight(n) => lines'[n].id = lines[n].id
  PROVE  CounterIsWork'
<1>1. \A i \in Ids : Outstanding(i)' = Outstanding(i)
  BY DEF Outstanding
<1> QED BY <1>1 DEF CounterIsWork

\* A step that counts the request m, whose work begins.
LEMMA CounterUp ==
  ASSUME TypeOK, CounterIsWork, UNCHANGED <<lines, down>>,
         NEW m \in Position, lines[m].id \in Ids, ~ InFlight(m), Dispatched(lines[m].id),
         \A n \in Position : InFlight(n)' <=> (InFlight(n) \/ n = m)
  PROVE  CounterIsWork'
<1> SUFFICES ASSUME ~ down, NEW i \in Ids
             PROVE  pending'[i] = Cardinality(Outstanding(i)')
  BY DEF CounterIsWork
<1>1. pending[i] = Cardinality(Outstanding(i))
  BY DEF CounterIsWork
<1>2. CASE i = lines[m].id
  <2>1. pending'[i] = pending[i] + 1
    BY <1>2 DEF Dispatched, TypeOK
  <2>2. Outstanding(i)' = Outstanding(i) \cup {m} /\ m \notin Outstanding(i)
    BY <1>2 DEF Outstanding
  <2>3. IsFiniteSet(Outstanding(i))
    BY OutstandingFinite
  <2>4. Cardinality(Outstanding(i) \cup {m}) = Cardinality(Outstanding(i)) + 1
    <3> HIDE DEF Outstanding
    <3> QED BY <2>2, <2>3, FS_AddElement
  <2> QED BY <1>1, <2>1, <2>2, <2>4
<1>3. CASE i # lines[m].id
  <2>1. pending'[i] = pending[i]
    BY <1>3 DEF Dispatched, TypeOK
  <2>2. Outstanding(i)' = Outstanding(i)
    BY <1>3 DEF Outstanding
  <2> QED BY <1>1, <2>1, <2>2
<1> QED BY <1>2, <1>3

\* A step that credits the request m, whose work is over.
LEMMA CounterDown ==
  ASSUME TypeOK, CounterIsWork, UNCHANGED <<lines, down>>,
         NEW m \in Position, lines[m].id \in Ids, InFlight(m), Answered(lines[m].id),
         \A n \in Position : InFlight(n)' <=> (InFlight(n) /\ n # m)
  PROVE  CounterIsWork'
<1> SUFFICES ASSUME ~ down, NEW i \in Ids
             PROVE  pending'[i] = Cardinality(Outstanding(i)')
  BY DEF CounterIsWork
<1>1. pending[i] = Cardinality(Outstanding(i))
  BY DEF CounterIsWork
<1>2. CASE i = lines[m].id
  <2>1. Outstanding(i)' = Outstanding(i) \ {m} /\ m \in Outstanding(i)
    BY <1>2 DEF Outstanding
  <2>2. IsFiniteSet(Outstanding(i)) /\ Cardinality(Outstanding(i)) \in Nat
    BY OutstandingFinite
  <2>3. Cardinality(Outstanding(i) \ {m}) = Cardinality(Outstanding(i)) - 1
    <3> HIDE DEF Outstanding
    <3> QED BY <2>1, <2>2, FS_RemoveElement
  <2>4. Outstanding(i) # {}
    BY <2>1
  <2>5. Cardinality(Outstanding(i)) # 0
    <3> HIDE DEF Outstanding
    <3> QED BY <2>2, <2>4, FS_EmptySet
  <2>6. pending'[i] = pending[i] - 1
    BY <1>1, <1>2, <2>2, <2>5 DEF Answered, TypeOK
  <2> QED BY <1>1, <2>1, <2>3, <2>6
<1>3. CASE i # lines[m].id
  <2>1. pending'[i] = pending[i]
    BY <1>3 DEF Answered, TypeOK
  <2>2. Outstanding(i)' = Outstanding(i)
    BY <1>3 DEF Outstanding
  <2> QED BY <1>1, <2>1, <2>2
<1> QED BY <1>2, <1>3

\* The event is only set while nothing is outstanding.
IdleInv == idle => NothingPending

\* Every step keeps the counters right.
LEMMA CounterStep ==
  Base /\ WorkInv /\ CounterIsWork /\ IdleInv /\ [Next]_vars => CounterIsWork' /\ IdleInv'
<1> SUFFICES ASSUME Base, WorkInv, CounterIsWork, IdleInv, [Next]_vars
             PROVE  CounterIsWork' /\ IdleInv'
  OBVIOUS
<1>1. /\ Len(lines) \in Nat /\ Len(lines) <= MaxLines /\ item \in 0..Len(lines)
      /\ \A n \in 1..Len(lines) : lines[n] \in Line /\ n \in Position
      /\ DOMAIN lines = 1..Len(lines) /\ DOMAIN inbound = 1..Len(inbound)
      /\ inbound \in Seq(Position) /\ job \in [Position -> JobStages]
      /\ pending \in [Ids -> Nat] /\ TypeOK
  <2>1. TypeOK
    BY DEF Base
  <2>2. Len(lines) \in Nat /\ Len(lines) <= MaxLines /\ item \in 0..Len(lines)
    BY DEF Base, TypeOK, PairInv
  <2>3. /\ \A n \in 1..Len(lines) : lines[n] \in Line
        /\ DOMAIN lines = 1..Len(lines) /\ DOMAIN inbound = 1..Len(inbound)
    BY <2>1 DEF TypeOK
  <2>4. \A n \in 1..Len(lines) : n \in Position
    BY <2>2, BoundsAssumption DEF Position
  <2>5. inbound \in Seq(Position) /\ job \in [Position -> JobStages] /\ pending \in [Ids -> Nat]
    BY <2>1 DEF TypeOK
  <2> QED BY <2>1, <2>2, <2>3, <2>4, <2>5
<1>2. CASE UNCHANGED vars
  <2>1. UNCHANGED <<lines, pump, item, inbound, job, pending, idle, down>>
    BY <1>2 DEF vars, readerVars, pumpVars, serverVars, trackerVars
  <2>2. \A n \in Position : InFlight(n)' <=> InFlight(n)
    BY <2>1 DEF InFlight, BeingPassed, Queued
  <2> QED BY <2>1, <2>2, CounterKept DEF IdleInv, NothingPending
<1>3. CASE ReadLine
  <2>1. UNCHANGED <<pump, item, inbound, job, pending, idle, down>>
    BY <1>3 DEF ReadLine, pumpVars, serverVars, trackerVars
  <2>2. /\ DOMAIN lines' = 1..(Len(lines) + 1)
        /\ \A n \in 1..Len(lines) : lines'[n] = lines[n]
    BY <1>3 DEF ReadLine, Base, TypeOK
  <2>3. \A n \in Position : InFlight(n)' <=> InFlight(n)
    <3>1. ASSUME NEW n \in Position, n = Len(lines) + 1
          PROVE  job[n] = "none" /\ ~ Queued(n) /\ n # item
      BY <1>1, <3>1 DEF WorkInv, JobInv, InboundInv, Queued
    <3>2. ASSUME NEW n \in Position PROVE InFlight(n)' <=> InFlight(n)
      BY <1>1, <2>1, <2>2, <3>1 DEF InFlight, BeingPassed, Queued
    <3> QED BY <3>2
  <2>4. \A n \in Position : InFlight(n) => lines'[n].id = lines[n].id
    BY <1>1, <2>2 DEF InFlight
  <2> QED BY <2>1, <2>3, <2>4, CounterKept DEF IdleInv, NothingPending
<1>4. CASE EndInput \/ Receive \/ Reply \/ EndOfStream \/ Drained \/ GiveUp
  <2>1. UNCHANGED <<lines, inbound, job, pending, idle, down>>
    BY <1>4 DEF EndInput, Receive, Reply, EndOfStream, Drained, GiveUp,
                readerVars, pumpVars, serverVars, trackerVars
  <2>2. \A n \in Position : BeingPassed(n)' <=> BeingPassed(n)
    BY <1>4 DEF EndInput, Receive, Reply, EndOfStream, Drained, GiveUp, pumpVars, BeingPassed
  <2>3. \A n \in Position : InFlight(n)' <=> InFlight(n)
    BY <2>1, <2>2 DEF InFlight, Queued
  <2> QED BY <2>1, <2>3, CounterKept DEF IdleInv, NothingPending
<1>5. CASE Screen
  <2>1. UNCHANGED <<lines, item, inbound, job, down>> /\ pump = "received"
    BY <1>5 DEF Screen, readerVars, serverVars
  <2>2. item \in 1..Len(lines)
    <3>1. item > 0
      BY <2>1 DEF Base, PairInv
    <3> QED BY <1>1, <3>1
  <2>3. CASE UNCHANGED trackerVars /\ (pump' # "forwarding" \/ ~ IsRequest(lines[item]))
    <3>1. \A n \in Position : InFlight(n)' <=> InFlight(n)
      BY <2>1, <2>3 DEF InFlight, BeingPassed, Queued
    <3>2. UNCHANGED <<pending, idle>>
      BY <2>3 DEF trackerVars
    <3> QED BY <2>1, <3>1, <3>2, CounterKept DEF IdleInv, NothingPending
  <2>4. CASE /\ pump' = "forwarding" /\ IsRequest(lines[item])
             /\ Dispatched(lines[item].id)
    <3>1. ~ InFlight(item) /\ item \in Position /\ lines[item].id \in Ids
      <4>1. item \in Position /\ lines[item].id \in Ids
        BY <1>1, <2>2, <2>4, Verdict
      <4>2. ~ Decided(item)
        BY <1>1, <2>1 DEF Decided
      <4>3. job[item] = "none" /\ ~ Queued(item)
        BY <1>1, <4>1, <4>2 DEF WorkInv, JobInv, InboundInv, Queued
      <4> QED BY <2>1, <4>1, <4>3 DEF InFlight, BeingPassed
    <3>2. \A n \in Position : InFlight(n)' <=> (InFlight(n) \/ n = item)
      BY <1>1, <2>1, <2>2, <2>4 DEF InFlight, BeingPassed, Queued
    <3>3. CounterIsWork'
      BY <1>1, <2>1, <2>4, <3>1, <3>2, CounterUp
    <3>4. IdleInv'
      BY <2>4 DEF Dispatched, IdleInv
    <3> QED BY <3>3, <3>4
  <2>5. \/ UNCHANGED trackerVars /\ (pump' # "forwarding" \/ ~ IsRequest(lines[item]))
        \/ /\ pump' = "forwarding" /\ IsRequest(lines[item])
           /\ Dispatched(lines[item].id)
    BY <1>5 DEF Screen, Skip, Refuse, Pass
  <2> QED BY <2>3, <2>4, <2>5
<1>6. CASE Forward
  <2>1. /\ pump = "forwarding" /\ pump' = "receiving" /\ item > 0
        /\ inbound' = Append(inbound, item)
        /\ UNCHANGED <<lines, item, job, pending, idle, down>>
    BY <1>6 DEF Forward, Base, PairInv, readerVars, trackerVars
  <2>2. item \in Position /\ Len(inbound) \in Nat
    BY <1>1, <2>1
  <2>3. /\ DOMAIN inbound' = 1..(Len(inbound) + 1) /\ inbound'[Len(inbound) + 1] = item
        /\ \A k \in 1..Len(inbound) : inbound'[k] = inbound[k]
    BY <1>1, <2>1, <2>2
  <2>4. \A n \in Position : Queued(n)' <=> Queued(n) \/ n = item
    BY <1>1, <2>2, <2>3 DEF Queued
  <2>5. \A n \in Position : InFlight(n)' <=> InFlight(n)
    BY <2>1, <2>4 DEF InFlight, BeingPassed
  <2> QED BY <2>1, <2>5, CounterKept DEF IdleInv, NothingPending
<1>7. CASE ServerReceive
  <2>1. /\ inbound # <<>> /\ inbound' = Tail(inbound)
        /\ UNCHANGED <<lines, item, pump, pending, idle, down>>
    BY <1>7 DEF ServerReceive, readerVars, pumpVars, trackerVars
  <2>2. /\ DOMAIN inbound' = 1..(Len(inbound) - 1) /\ Len(inbound) \in Nat \ {0}
        /\ Head(inbound) = inbound[1]
        /\ \A k \in 1..(Len(inbound) - 1) : inbound'[k] = inbound[k + 1]
    <3>1. inbound' \in Seq(Position) /\ Len(inbound') = Len(inbound) - 1
      BY <1>1, <2>1, TailPlaces
    <3>2. DOMAIN inbound' = 1..(Len(inbound) - 1)
      BY <3>1
    <3> QED BY <1>1, <2>1, <3>2, TailPlaces
  <2> DEFINE m == inbound[1]
  <2>3. m \in Position /\ lines[m].kind \in {"request", "notice"}
    BY <1>1, <2>2 DEF WorkInv, InboundInv
  <2>4. job' = IF IsRequest(lines[m]) THEN [job EXCEPT ![m] = "running"] ELSE job
    BY <1>7, <2>2 DEF ServerReceive
  <2>5. \A n \in Position : n # m => (Queued(n)' <=> Queued(n))
    <3>1. ASSUME NEW n \in Position, n # m, Queued(n) PROVE Queued(n)'
      <4>1. PICK k \in 1..Len(inbound) : inbound[k] = n
        BY <1>1, <3>1 DEF Queued
      <4>2. k # 1
        BY <3>1, <4>1
      <4>3. k - 1 \in 1..(Len(inbound) - 1) /\ inbound'[k - 1] = inbound[(k - 1) + 1]
        BY <2>2, <4>1, <4>2
      <4> QED BY <2>2, <4>1, <4>3 DEF Queued
    <3>2. ASSUME NEW n \in Position, Queued(n)' PROVE Queued(n)
      <4>1. PICK k \in 1..(Len(inbound) - 1) : inbound'[k] = n
        BY <2>2, <3>2 DEF Queued
      <4> QED BY <1>1, <2>2, <4>1 DEF Queued
    <3> QED BY <3>1, <3>2
  <2>6. Queued(m)
    BY <1>1, <2>2 DEF Queued
  <2>7. \A n \in Position : n # m => job'[n] = job[n]
    BY <1>1, <2>3, <2>4
  <2>8. IsRequest(lines[m]) => job'[m] = "running"
    BY <1>1, <2>3, <2>4
  <2> HIDE DEF m
  <2>9. \A n \in Position : InFlight(n)' <=> InFlight(n)
    BY <2>1, <2>5, <2>6, <2>7, <2>8 DEF InFlight, BeingPassed
  <2> QED BY <2>1, <2>9, CounterKept DEF IdleInv, NothingPending
<1>8. CASE Finish
  BY <1>8 DEF Finish, CounterIsWork, IdleInv, NothingPending, trackerVars
<1>9. ASSUME NEW m \in Position, Handle(m) PROVE CounterIsWork' /\ IdleInv'
  <2>1. UNCHANGED <<lines, inbound, item, pump, down>>
    BY <1>9 DEF Handle, Execute, Respond, Credit, readerVars, pumpVars
  <2>2. CASE Execute(m) \/ Respond(m)
    <3>1. UNCHANGED <<pending, idle>>
      BY <2>2 DEF Execute, Respond, trackerVars
    <3>2. \A n \in Position : InFlight(n)' <=> InFlight(n)
      BY <1>1, <2>1, <2>2 DEF Execute, Respond, Step, InFlight, BeingPassed, Queued
    <3> QED BY <2>1, <3>1, <3>2, CounterKept DEF IdleInv, NothingPending
  <2>3. CASE Credit(m)
    <3>1. job[m] = "written" /\ job' = [job EXCEPT ![m] = "credited"] /\ Answered(lines[m].id)
      BY <2>3 DEF Credit, Step
    <3>2. /\ m \in 1..Len(lines) /\ lines[m].kind = "request" /\ ~ Queued(m)
          /\ ~ BeingPassed(m)
      BY <1>1, <3>1 DEF WorkInv, JobInv, Decided, Queued, BeingPassed
    <3>3. InFlight(m) /\ lines[m].id \in Ids
      BY <1>1, <3>1, <3>2, Verdict DEF InFlight, IsRequest
    <3>4. \A n \in Position : InFlight(n)' <=> (InFlight(n) /\ n # m)
      BY <1>1, <2>1, <3>1, <3>2 DEF InFlight, BeingPassed, Queued
    <3>5. CounterIsWork'
      BY <1>1, <2>1, <3>1, <3>3, <3>4, CounterDown
    <3>6. IdleInv'
      <4>1. idle' => idle \/ NothingPending'
        BY <3>1 DEF Answered
      <4>2. NothingPending => NothingPending'
        BY <1>1, <3>1 DEF Answered, NothingPending
      <4> QED BY <4>1, <4>2 DEF IdleInv
    <3> QED BY <3>5, <3>6
  <2> QED BY <1>9, <2>2, <2>3 DEF Handle
<1>10. CASE Over
  BY <1>10, <1>2 DEF Over
<1> QED BY <1>2, <1>3, <1>4, <1>5, <1>6, <1>7, <1>8, <1>9, <1>10 DEF Next, Pump
-----------------------------------------------------------------------------
(* The frames on the wire.                                                 *)

\* Line n has had its frame.
Replied(n) ==
  /\ Owes(lines[n])
  /\ IF lines[n].kind = "request" THEN job[n] \in {"written", "credited"} ELSE Decided(n)

RepliedWith(f) == {n \in 1..Len(lines) : Replied(n) /\ Owed(lines[n]) = f}

\* The frames on the wire are those of the lines that have had theirs.
WireInv == \A f \in Frame : wire[f] = Cardinality(RepliedWith(f))

\* Once the pump has closed without a warning, every line has had its frame.
ClosedInv ==
  pump = "closed" /\ ~ warned => \A n \in 1..Len(lines) : Owes(lines[n]) => Replied(n)

LEMMA RepliedFinite ==
  ASSUME TypeOK, NEW f
  PROVE  IsFiniteSet(RepliedWith(f)) /\ Cardinality(RepliedWith(f)) \in Nat
<1>1. IsFiniteSet(1..Len(lines))
  BY FS_Interval DEF TypeOK
<1>2. RepliedWith(f) \in SUBSET (1..Len(lines))
  BY DEF RepliedWith
<1> QED BY <1>1, <1>2, FS_Subset, FS_CardinalityType

\* A step that writes nothing.
LEMMA WireKept ==
  ASSUME WireInv, wire' = wire,
         \A n \in 1..Len(lines) : n \in 1..Len(lines') /\ lines'[n] = lines[n],
         \A n \in 1..Len(lines') : Replied(n)' <=> n \in 1..Len(lines) /\ Replied(n)
  PROVE  WireInv'
<1>1. \A f \in Frame : RepliedWith(f)' = RepliedWith(f)
  BY DEF RepliedWith
<1> QED BY <1>1 DEF WireInv

\* A step that writes to line m the frame it is owed.
LEMMA WireUp ==
  ASSUME TypeOK, WireInv, lines' = lines, NEW m \in 1..Len(lines),
         ~ Replied(m), Write(Owed(lines[m])),
         \A n \in 1..Len(lines) : Replied(n)' <=> (Replied(n) \/ n = m)
  PROVE  WireInv'
<1> SUFFICES ASSUME NEW f \in Frame PROVE wire'[f] = Cardinality(RepliedWith(f)')
  BY DEF WireInv
<1>1. wire[f] = Cardinality(RepliedWith(f))
  BY DEF WireInv
<1>2. CASE f = Owed(lines[m])
  <2>1. wire'[f] = wire[f] + 1
    BY <1>2 DEF Write, TypeOK
  <2>2. RepliedWith(f)' = RepliedWith(f) \cup {m} /\ m \notin RepliedWith(f)
    BY <1>2 DEF RepliedWith
  <2>3. IsFiniteSet(RepliedWith(f))
    BY RepliedFinite
  <2>4. Cardinality(RepliedWith(f) \cup {m}) = Cardinality(RepliedWith(f)) + 1
    <3> HIDE DEF RepliedWith
    <3> QED BY <2>2, <2>3, FS_AddElement
  <2> QED BY <1>1, <2>1, <2>2, <2>4
<1>3. CASE f # Owed(lines[m])
  <2>1. wire'[f] = wire[f]
    BY <1>3 DEF Write, TypeOK
  <2>2. RepliedWith(f)' = RepliedWith(f)
    BY <1>3 DEF RepliedWith
  <2> QED BY <1>1, <2>1, <2>2
<1> QED BY <1>2, <1>3

\* What Reply and Respond write, and to whom: a line that has not had it.
LEMMA ReplyWrites ==
  ASSUME Base, WorkInv, Reply
  PROVE  /\ item \in 1..Len(lines) /\ ~ Replied(item) /\ Owes(lines[item])
         /\ Write(Owed(lines[item]))
         /\ \A n \in 1..Len(lines) : Replied(n)' <=> (Replied(n) \/ n = item)
<1>1. /\ pump = "replying" /\ pump' = "receiving" /\ UNCHANGED <<lines, item, job>>
      /\ Write(Refusal(lines[item], LineAt(text)))
  BY DEF Reply, readerVars, serverVars
<1>2. item > 0 /\ text = item /\ Owes(lines[item]) /\ lines[item].kind # "request"
  BY <1>1 DEF Base, PairInv
<1>3. item \in 1..Len(lines)
  BY <1>2 DEF Base, PairInv, TypeOK
<1>4. lines[item] \in Line /\ LineAt(text) = lines[item]
  BY <1>2, <1>3 DEF Base, TypeOK, LineAt
<1>5. Write(Owed(lines[item]))
  BY <1>1, <1>2, <1>4, Verdict
<1>6. ~ Replied(item)
  BY <1>1, <1>2, <1>3 DEF Replied, Decided
<1>7. \A n \in 1..Len(lines) : Replied(n)' <=> (Replied(n) \/ n = item)
  BY <1>1, <1>2, <1>3 DEF Replied, Decided
<1> QED BY <1>2, <1>3, <1>5, <1>6, <1>7

LEMMA RespondWrites ==
  ASSUME Base, WorkInv, NEW m \in Position, Respond(m)
  PROVE  /\ m \in 1..Len(lines) /\ ~ Replied(m) /\ Owes(lines[m])
         /\ Write(Owed(lines[m]))
         /\ \A n \in 1..Len(lines) : Replied(n)' <=> (Replied(n) \/ n = m)
<1>1. /\ job[m] = "executed" /\ job' = [job EXCEPT ![m] = "written"]
      /\ UNCHANGED <<lines, item, pump>>
      /\ Write([id |-> lines[m].id, code |-> "answer"])
  BY DEF Respond, Step, readerVars, pumpVars
<1>2. m \in 1..Len(lines) /\ lines[m].kind = "request"
  BY <1>1 DEF WorkInv, JobInv
<1>3. lines[m] \in Line /\ Owes(lines[m])
  BY <1>2 DEF Base, TypeOK, Owes
<1>4. Write(Owed(lines[m]))
  BY <1>1, <1>2, <1>3, Verdict
<1>5. job \in [Position -> JobStages]
  BY DEF Base, TypeOK
<1>6. ~ Replied(m) /\ \A n \in 1..Len(lines) : Replied(n)' <=> (Replied(n) \/ n = m)
  BY <1>1, <1>2, <1>3, <1>5 DEF Replied, Decided
<1> QED BY <1>2, <1>3, <1>4, <1>6

\* When the pump leaves with nothing pending, every line has had its frame.
LEMMA NothingOwed ==
  ASSUME Base, WorkInv, CounterIsWork, NothingPending, ~ down, eof, offered = 0,
         pump \notin {"received", "replying", "forwarding"}
  PROVE  \A n \in 1..Len(lines) : Owes(lines[n]) => Replied(n)
<1> SUFFICES ASSUME NEW n \in 1..Len(lines), Owes(lines[n]) PROVE Replied(n)
  OBVIOUS
<1>1. item = Len(lines) /\ Len(lines) \in Nat /\ Len(lines) <= MaxLines
  BY DEF Base, PairInv, TypeOK
<1>2. Decided(n) /\ n \in Position /\ lines[n] \in Line
  BY <1>1, BoundsAssumption DEF Decided, Position, Base, TypeOK
<1>3. CASE lines[n].kind # "request"
  BY <1>2, <1>3 DEF Replied
<1>4. CASE lines[n].kind = "request"
  <2>1. lines[n].id \in Ids /\ IsRequest(lines[n])
    BY <1>2, <1>4, Verdict DEF IsRequest
  <2>2. IsFiniteSet(Outstanding(lines[n].id)) /\ Cardinality(Outstanding(lines[n].id)) = 0
    BY <2>1, OutstandingFinite DEF CounterIsWork, NothingPending
  <2>3. Outstanding(lines[n].id) = {}
    <3> HIDE DEF Outstanding
    <3> QED BY <2>2, FS_EmptySet
  <2>4. ~ InFlight(n)
    BY <1>2, <2>3 DEF Outstanding
  <2>5. DOMAIN lines = 1..Len(lines) /\ DOMAIN inbound = 1..Len(inbound)
    BY DEF Base, TypeOK
  <2>6. ~ Queued(n) /\ job[n] \notin {"running", "executed", "written"}
    BY <2>1, <2>4, <2>5 DEF InFlight
  <2>7. job[n] # "none"
    BY <1>2, <1>4, <2>5, <2>6 DEF WorkInv, NoneDropped, Queued
  <2>8. job[n] # "cancelled"
    BY <1>2 DEF WorkInv, EndInv
  <2>9. job[n] \in JobStages
    BY <1>2 DEF Base, TypeOK
  <2> QED BY <1>4, <2>6, <2>7, <2>8, <2>9 DEF Replied, JobStages
<1> QED BY <1>3, <1>4

SafeInv == TypeOK /\ PairInv /\ WorkInv /\ CounterIsWork /\ IdleInv /\ WireInv /\ ClosedInv

\* A step under which no line gains or loses its frame.
QuietStep ==
  /\ wire' = wire
  /\ \A n \in 1..Len(lines) : n \in 1..Len(lines') /\ lines'[n] = lines[n]
  /\ \A n \in 1..Len(lines') : Replied(n)' <=> n \in 1..Len(lines) /\ Replied(n)

\* All steps but Reply and Respond are of that kind.
LEMMA QuietSteps ==
  ASSUME Base, WorkInv, [Next]_vars, ~ Reply, \A n \in Position : ~ Respond(n)
  PROVE  QuietStep
<1>1. /\ Len(lines) \in Nat /\ item \in 0..Len(lines) /\ lines \in Seq(Line)
      /\ job \in [Position -> JobStages]
      /\ \A n \in 1..Len(lines) : n \in Position
  <2>1. Len(lines) \in Nat /\ Len(lines) <= MaxLines /\ item \in 0..Len(lines)
    BY DEF Base, TypeOK, PairInv
  <2>2. \A n \in 1..Len(lines) : n \in Position
    BY <2>1, BoundsAssumption DEF Position
  <2> QED BY <2>1, <2>2 DEF Base, TypeOK
<1>2. CASE UNCHANGED vars \/ Over
  BY <1>2 DEF Over, vars, readerVars, pumpVars, serverVars, QuietStep, Replied, Decided
<1>3. CASE ReadLine
  <2>1. /\ UNCHANGED <<item, pump, job, wire>>
        /\ Len(lines') = Len(lines) + 1
        /\ \A n \in 1..Len(lines) : lines'[n] = lines[n]
    BY <1>1, <1>3 DEF ReadLine, pumpVars, serverVars
  <2>2. \A n \in 1..Len(lines) : Replied(n)' <=> Replied(n)
    BY <2>1 DEF Replied, Decided
  <2>3. ASSUME NEW n \in 1..Len(lines'), n \notin 1..Len(lines) PROVE ~ Replied(n)'
    <3>1. ~ Decided(n)
      BY <1>1, <2>1, <2>3 DEF Decided
    <3>2. n \in Position
      BY <1>1, <1>3, <2>1, <2>3, BoundsAssumption DEF ReadLine, Position
    <3>3. job[n] = "none"
      BY <3>1, <3>2 DEF WorkInv, JobInv
    <3> QED BY <2>1, <3>1, <3>3 DEF Replied, Decided
  <2> QED BY <1>1, <2>1, <2>2, <2>3 DEF QuietStep
<1>4. CASE EndInput \/ EndOfStream \/ Drained \/ GiveUp \/ Forward
  <2>1. UNCHANGED <<lines, item, job, wire>>
    BY <1>4 DEF EndInput, EndOfStream, Drained, GiveUp, Forward, readerVars, pumpVars, serverVars
  <2>2. \A n \in 1..Len(lines) :
          Owes(lines[n]) /\ lines[n].kind # "request" => (Decided(n)' <=> Decided(n))
    <3>1. CASE EndInput \/ EndOfStream \/ Drained \/ GiveUp
      BY <3>1 DEF EndInput, EndOfStream, Drained, GiveUp, pumpVars, Decided
    <3>2. CASE Forward
      <4>1. pump = "forwarding" /\ pump' = "receiving" /\ item' = item
        BY <3>2 DEF Forward
      <4>2. lines[item].kind \in {"request", "notice"}
        BY <4>1 DEF Base, PairInv
      <4> QED BY <4>1, <4>2 DEF Decided, Owes
    <3> QED BY <1>4, <3>1, <3>2
  <2> QED BY <2>1, <2>2 DEF QuietStep, Replied
<1>5. CASE Receive
  <2>1. /\ UNCHANGED <<lines, job, wire>>
        /\ pump = "receiving" /\ pump' = "received" /\ item' = item + 1
    BY <1>5 DEF Receive, serverVars, Base, PairInv
  <2>2. \A n \in 1..Len(lines) : Decided(n)' <=> Decided(n)
    BY <1>1, <2>1 DEF Decided
  <2> QED BY <2>1, <2>2 DEF QuietStep, Replied
<1>6. CASE Screen
  <2>1. UNCHANGED <<lines, item, job, wire>> /\ pump = "received"
    BY <1>6 DEF Screen, readerVars, serverVars
  <2>2. Oldest = item /\ item \in 1..Len(lines)
    BY <1>6 DEF Screen, Oldest, Base, TypeOK, PairInv
  <2>3. LineAt(Oldest) = lines[item] /\ lines[item] \in Line
    BY <1>1, <2>2 DEF LineAt
  <2>4. pump' \in {"replying", "forwarding"} \/ lines[item].kind = "blank"
    BY <1>6, <2>3, Verdict DEF Screen, Skip, Refuse, Pass
  <2>5. \A n \in 1..Len(lines) : Owes(lines[n]) => (Decided(n)' <=> Decided(n))
    BY <2>1, <2>4 DEF Decided, Owes
  <2> QED BY <2>1, <2>5 DEF QuietStep, Replied
<1>7. CASE ServerReceive
  <2>1. UNCHANGED <<lines, item, pump, wire>>
    BY <1>7 DEF ServerReceive, readerVars, pumpVars
  <2>2. \A n \in Position : job'[n] = job[n] \/ (job[n] = "none" /\ job'[n] = "running")
    <3>1. Head(inbound) = inbound[1] /\ 1 \in 1..Len(inbound)
      BY <1>7, TailPlaces DEF ServerReceive, Base, TypeOK
    <3>2. inbound[1] \in Position /\ job[inbound[1]] = "none"
      BY <1>1, <3>1 DEF WorkInv, InboundInv, JobInv
    <3> QED BY <1>1, <1>7, <3>1, <3>2 DEF ServerReceive
  <2> QED BY <1>1, <2>1, <2>2 DEF QuietStep, Replied, Decided
<1>8. CASE Finish
  <2>1. UNCHANGED <<lines, item, pump, wire>>
    BY <1>8 DEF Finish, readerVars, pumpVars
  <2>2. \A n \in Position : job'[n] \in {"written", "credited"} <=> job[n] \in {"written", "credited"}
    BY <1>1, <1>8 DEF Finish
  <2> QED BY <1>1, <2>1, <2>2 DEF QuietStep, Replied, Decided
<1>9. ASSUME NEW m \in Position, Execute(m) \/ Credit(m) PROVE QuietStep
  <2>1. UNCHANGED <<lines, item, pump, wire>>
    BY <1>9 DEF Execute, Credit, readerVars, pumpVars
  <2>2. \A n \in Position : job'[n] \in {"written", "credited"} <=> job[n] \in {"written", "credited"}
    BY <1>1, <1>9 DEF Execute, Credit, Step
  <2> QED BY <1>1, <2>1, <2>2 DEF QuietStep, Replied, Decided
<1> QED BY <1>2, <1>3, <1>4, <1>5, <1>6, <1>7, <1>8, <1>9 DEF Next, Pump, Handle

\* Every step keeps account of the frames.
LEMMA WireStep ==
  ASSUME Base, WorkInv, CounterIsWork, IdleInv, WireInv, ClosedInv, [Next]_vars
  PROVE  WireInv' /\ ClosedInv'
<1>1. CASE Reply
  <2>1. WireInv'
    BY <1>1, ReplyWrites, WireUp DEF Base, Reply, readerVars
  <2>2. pump' # "closed"
    BY <1>1 DEF Reply
  <2> QED BY <2>1, <2>2 DEF ClosedInv
<1>2. ASSUME NEW m \in Position, Respond(m) PROVE WireInv' /\ ClosedInv'
  <2>1. UNCHANGED <<lines, pump, warned>>
    BY <1>2 DEF Respond, readerVars, pumpVars
  <2>2. WireInv'
    BY <1>2, <2>1, RespondWrites, WireUp DEF Base
  <2>3. ClosedInv'
    BY <1>2, <2>1, RespondWrites DEF ClosedInv
  <2> QED BY <2>2, <2>3
<1>3. CASE ~ Reply /\ \A n \in Position : ~ Respond(n)
  <2>1. QuietStep
    BY <1>3, QuietSteps
  <2>2. WireInv'
    BY <2>1, WireKept DEF QuietStep
  <2>3. CASE pump' = "closed" /\ ~ warned' /\ lines' = lines
    <3>1. \A n \in 1..Len(lines) : Owes(lines[n]) => Replied(n)
      <4>1. CASE pump = "closed" /\ ~ warned
        BY <4>1 DEF ClosedInv
      <4>2. CASE ~ (pump = "closed" /\ ~ warned)
        <5>1. EndOfStream \/ Drained \/ GiveUp
          <6>1. UNCHANGED vars \/ Over => FALSE
            BY <2>3, <4>2 DEF Over, vars, pumpVars
          <6>2. ReadLine \/ EndInput => FALSE
            BY <2>3, <4>2 DEF ReadLine, EndInput, pumpVars
          <6>3. Receive \/ Screen \/ Reply \/ Forward => FALSE
            BY <2>3 DEF Receive, Screen, Skip, Refuse, Pass, Reply, Forward
          <6>4. ServerReceive \/ Finish => FALSE
            BY <2>3, <4>2 DEF ServerReceive, Finish, pumpVars
          <6>5. ASSUME NEW n \in Position, Handle(n) PROVE FALSE
            BY <2>3, <4>2, <6>5 DEF Handle, Execute, Respond, Credit, pumpVars
          <6> QED BY <6>1, <6>2, <6>3, <6>4, <6>5 DEF Next, Pump
        <5>3. NothingPending
          BY <2>3, <5>1 DEF EndOfStream, Drained, GiveUp, IdleInv
        <5>2. /\ eof /\ offered = 0 /\ ~ down
              /\ pump \notin {"received", "replying", "forwarding"}
          BY <5>1 DEF EndOfStream, Drained, GiveUp, Base, PairInv, WorkInv, EndInv
        <5> QED BY <5>2, <5>3, NothingOwed
      <4> QED BY <4>1, <4>2
    <3> QED BY <2>1, <2>2, <2>3, <3>1 DEF ClosedInv, QuietStep
  <2>4. CASE ~ (pump' = "closed" /\ ~ warned')
    BY <2>2, <2>4 DEF ClosedInv
  <2>5. pump' = "closed" => lines' = lines
    BY DEF Next, Pump, Handle, vars, readerVars, ReadLine, EndInput, Receive, Screen, Reply,
           Forward, EndOfStream, Drained, GiveUp, ServerReceive, Finish, Execute, Respond,
           Credit, Over, Base, PairInv, pumpVars
  <2> QED BY <2>2, <2>3, <2>4, <2>5
<1> QED BY <1>1, <1>2, <1>3

\* The inductive invariant of the whole.
LEMMA SafeInvariant == Spec => []SafeInv
<1>1. Init => SafeInv
  <2> SUFFICES ASSUME Init PROVE SafeInv
    OBVIOUS
  <2>1. TypeOK /\ PairInv
    BY InitPaired
  <2>2. Len(lines) = 0 /\ Len(inbound) = 0 /\ DOMAIN lines = {}
    BY DEF Init
  <2>3. WorkInv
    BY <2>2 DEF Init, WorkInv, InboundInv, JobInv, NoneDropped, EndInv
  <2>4. CounterIsWork
    <3>1. \A i \in Ids : Outstanding(i) = {} /\ pending[i] = 0
      BY <2>2 DEF Init, Outstanding, InFlight
    <3> QED BY <3>1, FS_EmptySet DEF CounterIsWork
  <2>5. IdleInv
    BY DEF Init, IdleInv, NothingPending
  <2>6. WireInv
    <3>1. \A f \in Frame : RepliedWith(f) = {} /\ wire[f] = 0
      BY <2>2 DEF Init, RepliedWith
    <3> QED BY <3>1, FS_EmptySet DEF WireInv
  <2>7. ClosedInv
    BY DEF Init, ClosedInv
  <2> QED BY <2>1, <2>3, <2>4, <2>5, <2>6, <2>7 DEF SafeInv
<1>2. SafeInv /\ [Next]_vars => SafeInv'
  <2> SUFFICES ASSUME SafeInv, [Next]_vars PROVE SafeInv'
    OBVIOUS
  <2>1. Base
    BY PairStep DEF SafeInv, Base
  <2>2. WorkInv'
    BY <2>1, WorkStep DEF SafeInv
  <2>3. CounterIsWork' /\ IdleInv'
    BY <2>1, CounterStep DEF SafeInv
  <2>4. WireInv' /\ ClosedInv'
    BY <2>1, WireStep DEF SafeInv
  <2> QED BY <2>1, <2>2, <2>3, <2>4 DEF SafeInv, Base
<1> QED BY <1>1, <1>2, PTL DEF Spec

-----------------------------------------------------------------------------
(* The theorems.                                                           *)

\* DrainTracker: the counter of every id is the number of its requests at work,
\* however ids are reused and whatever the pump answers by itself.
THEOREM CountersCount == Spec => []CounterIsWork
BY SafeInvariant, PTL DEF SafeInv

\* The contract speaks of the same lines and frames.
LEMMA SameFrames ==
  /\ Contract!Line = Line /\ Contract!Frame = Frame
  /\ \A l : Contract!Owes(l) <=> Owes(l)
  /\ \A l : Contract!Owed(l) = Owed(l)
  /\ \A S : Contract!Cardinality(S) = Cardinality(S)
<1>1. Contract!Line = Line /\ Contract!Frame = Frame
  BY DEF Contract!Line, Line, Contract!Frame, Frame, Contract!Kinds, Kinds, Contract!Codes, Codes
<1>2. \A l : Contract!Owes(l) <=> Owes(l)
  BY DEF Contract!Owes, Owes
<1>3. \A l : Contract!Owed(l) = Owed(l)
  BY DEF Contract!Owed, Owed
<1>4. \A S : Contract!Cardinality(S) = Cardinality(S)
  BY DEF Contract!Cardinality, Cardinality
<1> QED BY <1>1, <1>2, <1>3, <1>4

\* The lines owed a frame, in the words of this module.
LEMMA SameOwedFor ==
  ASSUME NEW f
  PROVE  Contract!OwedFor(f) = {n \in DOMAIN lines : Owes(lines[n]) /\ Owed(lines[n]) = f}
  BY SameFrames DEF Contract!OwedFor

\* A line that has had its frame is one of those that are owed it.
LEMMA OwedForFrames ==
  ASSUME TypeOK, NEW f
  PROVE  /\ RepliedWith(f) \subseteq Contract!OwedFor(f)
         /\ IsFiniteSet(Contract!OwedFor(f))
         /\ Cardinality(Contract!OwedFor(f)) \in Nat
<1>1. DOMAIN lines = 1..Len(lines) /\ Len(lines) \in Nat
  BY DEF TypeOK
<1>2. RepliedWith(f) \subseteq Contract!OwedFor(f)
  BY <1>1, SameOwedFor DEF RepliedWith, Replied
<1>3. IsFiniteSet(1..Len(lines))
  BY <1>1, FS_Interval
<1>4. Contract!OwedFor(f) \in SUBSET (1..Len(lines))
  BY <1>1, SameOwedFor
<1>5. IsFiniteSet(Contract!OwedFor(f))
  BY <1>3, <1>4, FS_Subset
<1> QED BY <1>2, <1>5, FS_CardinalityType

\* Where every line has had its frame, the wire holds what is owed.
LEMMA AllSettled ==
  ASSUME TypeOK, WireInv, \A n \in 1..Len(lines) : Owes(lines[n]) => Replied(n)
  PROVE  Contract!Settled
<1>1. DOMAIN lines = 1..Len(lines)
  BY DEF TypeOK
<1>2. \A f \in Frame : RepliedWith(f) = Contract!OwedFor(f)
  BY <1>1, SameOwedFor DEF RepliedWith, Replied
<1> QED BY <1>2, SameFrames DEF WireInv, Contract!Settled

\* serve: no receipt is missing when the server leaves without a warning.
THEOREM LossIsNeverSilent == Spec => []NothingLostSilently
<1>1. SafeInv => NothingLostSilently
  BY AllSettled DEF SafeInv, NothingLostSilently, ClosedInv, WorkInv, EndInv
<1> QED BY <1>1, SafeInvariant, PTL

\* A frame for a line that is owed it and has not had it is a step of the contract.
LEMMA AnswerStep ==
  ASSUME TypeOK, WireInv, ~ down, UNCHANGED <<lines, warned, down>>,
         NEW m \in 1..Len(lines), ~ Replied(m), Owes(lines[m]), Write(Owed(lines[m]))
  PROVE  Contract!Answer
<1> DEFINE f == Owed(lines[m])
           had == RepliedWith(f)
           owed == Contract!OwedFor(f)
<1>1. lines[m] \in Line /\ m \in DOMAIN lines
  BY DEF TypeOK
<1>2. f \in Frame
  BY <1>1, Verdict
<1>3. m \in owed /\ m \notin had
  BY <1>1, SameOwedFor DEF RepliedWith
<1>4. had \subseteq owed /\ IsFiniteSet(owed)
  BY OwedForFrames
<1>5. IsFiniteSet(had) /\ Cardinality(had) \in Nat
  BY RepliedFinite
<1>6. wire[f] = Cardinality(had)
  BY <1>2 DEF WireInv
<1> HIDE DEF had, owed
<1>7. had # owed
  BY <1>3
<1>8. Cardinality(had) < Cardinality(owed)
  <2>1. Cardinality(had) <= Cardinality(owed) /\ Cardinality(had) # Cardinality(owed)
    BY <1>4, <1>7, FS_Subset
  <2>2. Cardinality(owed) \in Nat
    BY <1>4, FS_CardinalityType
  <2> QED BY <1>5, <2>1, <2>2
<1>9. wire' = [wire EXCEPT ![f] = @ + 1]
  BY DEF Write
<1> HIDE DEF f
<1> QED BY <1>2, <1>6, <1>8, <1>9, SameFrames DEF Contract!Answer, owed

\* serve: recorder, pump, tracker and handlers together keep the promise that
\* every line gets the frame it is owed, once, before the server leaves.
THEOREM ContractKept == Spec => KeepsContract
<1>1. Init => Contract!ContractInit
  BY SameFrames DEF Init, Contract!ContractInit
<1>2. SafeInv /\ [Next]_vars => [Contract!ContractNext]_(Contract!contractVars)
  <2> SUFFICES ASSUME SafeInv, [Next]_vars
               PROVE  [Contract!ContractNext]_(Contract!contractVars)
    OBVIOUS
  <2> USE DEF Contract!contractVars, Contract!ContractNext
  <2>1. TypeOK /\ PairInv /\ WorkInv /\ WireInv /\ ClosedInv /\ Base
    BY PairStep DEF SafeInv, Base
  <2>2. CASE UNCHANGED vars \/ Over
    BY <2>2 DEF Over, vars, readerVars, serverVars
  <2>3. CASE ReadLine
    <3>1. ~ down
      BY <2>1, <2>3 DEF ReadLine, WorkInv, EndInv, PairInv
    <3> QED BY <2>3, <3>1, SameFrames DEF ReadLine, serverVars, Contract!Accept
  <2>4. CASE Reply
    <3>1. ~ down /\ UNCHANGED <<lines, warned, down>>
      BY <2>1, <2>4 DEF Reply, WorkInv, EndInv, readerVars, serverVars
    <3> QED BY <2>1, <2>4, <3>1, ReplyWrites, AnswerStep
  <2>5. ASSUME NEW m \in Position, Respond(m) PROVE Contract!Answer
    <3>1. ~ down /\ UNCHANGED <<lines, warned, down>>
      BY <2>1, <2>5 DEF Respond, Step, WorkInv, EndInv, readerVars
    <3> QED BY <2>1, <2>5, <3>1, RespondWrites, AnswerStep
  <2>6. CASE EndInput \/ Receive \/ Screen \/ Forward \/ EndOfStream \/ Drained \/ ServerReceive
    BY <2>6 DEF EndInput, Receive, Screen, Forward, EndOfStream, Drained, ServerReceive,
                readerVars, serverVars
  <2>7. CASE GiveUp
    <3>1. ~ down /\ ~ warned /\ UNCHANGED <<lines, wire, down>>
      BY <2>1, <2>7 DEF GiveUp, WorkInv, EndInv, readerVars, serverVars
    <3>2. warned' \in BOOLEAN
      BY <2>7 DEF GiveUp, NothingPending
    <3>3. warned \in BOOLEAN
      BY <2>1 DEF TypeOK
    <3>4. warned' = TRUE \/ warned' = warned
      BY <3>1, <3>2, <3>3
    <3> QED BY <3>1, <3>4 DEF Contract!Warn
  <2>8. CASE Finish
    <3>1. ~ down /\ down' = TRUE /\ UNCHANGED <<lines, wire, warned>> /\ pump = "closed"
      BY <2>8 DEF Finish, readerVars, pumpVars
    <3>2. ~ warned => Contract!Settled
      BY <2>1, <3>1, AllSettled DEF ClosedInv
    <3> QED BY <3>1, <3>2 DEF Contract!Leave
  <2>9. ASSUME NEW m \in Position, Execute(m) \/ Credit(m)
        PROVE  UNCHANGED Contract!contractVars
    BY <2>9 DEF Execute, Credit, readerVars
  <2> QED BY <2>2, <2>3, <2>4, <2>5, <2>6, <2>7, <2>8, <2>9 DEF Next, Pump, Handle
<1> QED BY <1>1, <1>2, SafeInvariant, PTL DEF Spec, KeepsContract, Contract!ContractSpec
=============================================================================
