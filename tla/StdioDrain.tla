------------------------------ MODULE StdioDrain ------------------------------
(***************************************************************************)
(* src/task1_mcp_server/server.py between its two pipes: the recorder of   *)
(* raw lines, the protocol error pump, the drain tracker, and the server   *)
(* whose handlers answer through the tracked write stream.                 *)
(*                                                                         *)
(* Everything runs on one event loop; a step is the code of one task from  *)
(* an await to its next.  A line is known by its position in the input.    *)
(***************************************************************************)
EXTENDS StdioFrames

CONSTANTS
  MaxLines,   (* bound: lines a client writes                              *)
  Buffer      (* max_buffer_size of the pump's stream to the server        *)

ASSUME BoundsAssumption == MaxLines \in Nat /\ Buffer \in Nat \ {0}

VARIABLES
  lines,      (* the lines read from the wire so far                       *)
  eof,        (* the reader met the end of its input                       *)
  offered,    (* the item the reader is handing to the read stream, or 0   *)
  recorded,   (* LineRecordingInput.lines                                  *)
  pump,       (* the await the pump is suspended at                        *)
  item, text, (* the stream item and the raw line it has in hand           *)
  inbound,    (* the pump's stream to the server                           *)
  job,        (* the server's work on each line                            *)
  pending,    (* DrainTracker._pending: a counter per id                   *)
  idle,       (* DrainTracker._idle is set                                 *)
  wire,       (* how many copies of each frame reached stdout              *)
  warned,     (* the log says that requests are left unanswered            *)
  down        (* server.run has returned                                   *)

readerVars  == <<lines, eof, offered>>
pumpVars    == <<pump, item, text>>
trackerVars == <<pending, idle>>
serverVars  == <<inbound, job, down>>
vars == <<readerVars, recorded, pumpVars, serverVars, trackerVars, wire, warned>>

Position == 1..MaxLines
PumpAwaits == {"receiving", "received", "replying", "forwarding", "draining", "closed"}
JobStages  == {"none", "running", "executed", "written", "credited", "cancelled"}

Blank   == [kind |-> "blank", id |-> NoId]
LineAt(n) == IF n = 0 THEN Blank ELSE lines[n]

Write(f) == wire' = [wire EXCEPT ![f] = @ + 1]

-----------------------------------------------------------------------------
(* DrainTracker                                                            *)

\* Mutant: outstanding ids are kept in a set.
DispatchedInSet(i) == pending' = [pending EXCEPT ![i] = 1] /\ idle' = FALSE

\* dispatched(): a fresh event each time; nobody waits on the one it replaces,
\* because the only waiter comes after the last dispatch.
Dispatched(i) == pending' = [pending EXCEPT ![i] = @ + 1] /\ idle' = FALSE

NothingPending == \A i \in Ids : pending[i] = 0

Answered(i) ==
  /\ pending' = [pending EXCEPT ![i] = IF @ > 0 THEN @ - 1 ELSE 0]
  /\ idle' = (idle \/ NothingPending')

-----------------------------------------------------------------------------
(* The transport's reader, over LineRecordingInput.  The read stream has   *)
(* no buffer: the reader waits until the pump has taken its item.          *)

ReadLine ==
  /\ ~ eof /\ offered = 0
  /\ Len(lines) < MaxLines
  /\ \E l \in Line : lines' = Append(lines, l)
  /\ offered' = Len(lines) + 1
  /\ recorded' = Append(recorded, Len(lines) + 1)
  /\ UNCHANGED <<eof, pumpVars, serverVars, trackerVars, wire, warned>>

EndInput ==
  /\ ~ eof /\ offered = 0
  /\ eof' = TRUE
  /\ UNCHANGED <<lines, offered, recorded, pumpVars, serverVars, trackerVars, wire, warned>>

-----------------------------------------------------------------------------
(* protocol_error_pump                                                     *)

\* What the item is (the SDK's doing), and what the raw line says.
IsException(m)    == m.kind \in {"blank", "garbage", "invalid"}
IsNotification(m) == m.kind \in {"masked", "notice"}
IsRequest(m)      == m.kind \in {"bad_call", "request"}
IsJson(l)         == l.kind \notin {"blank", "garbage"}
CarriesId(l)      == l.kind = "masked" \/ l.id # NoId

Skipped(m, l) == IsException(m) /\ l.kind = "blank"

\* Mutant: an id the parser dropped is not looked for.
RefusedUnlessMasked(m, l) == (IsException(m) /\ l.kind # "blank") \/ m.kind = "bad_call"

Refused(m, l) ==
  \/ IsException(m) /\ l.kind # "blank"
  \/ m.kind = "bad_call"
  \/ IsNotification(m) /\ CarriesId(l)

\* error_for_unparsed_line
UnparsedFrame(l) ==
  IF IsJson(l) THEN [id |-> l.id, code |-> "invalid_request"]
               ELSE [id |-> NoId, code |-> "parse_error"]

Refusal(m, l) ==
  IF IsException(m) THEN UnparsedFrame(l)
  ELSE IF m.kind = "bad_call" THEN [id |-> m.id, code |-> "invalid_params"]
  ELSE [id |-> NoId, code |-> "invalid_request"]

\* Mutant: a slot for the last line read instead of a queue.
Newest == IF recorded = <<>> THEN 0 ELSE recorded[Len(recorded)]

\* take(): the oldest recorded line; "" if there is none.
Oldest == IF recorded = <<>> THEN 0 ELSE Head(recorded)

Receive ==
  /\ pump = "receiving" /\ offered # 0
  /\ item' = offered /\ offered' = 0
  /\ pump' = "received"
  /\ UNCHANGED <<lines, eof, recorded, text, serverVars, trackerVars, wire, warned>>

\* Mutant: only an exception takes a line off the recorder.
TakeForExceptions ==
  /\ text' = Oldest
  /\ recorded' = IF recorded = <<>> \/ ~ IsException(lines[item]) THEN recorded
                 ELSE Tail(recorded)

Take ==
  /\ text' = Oldest
  /\ recorded' = IF recorded = <<>> THEN recorded ELSE Tail(recorded)

Skip ==
  /\ Skipped(lines[item], LineAt(Oldest))
  /\ pump' = "receiving"
  /\ UNCHANGED trackerVars

\* Mutant: a request is counted before its envelope is screened.
RefuseCounted ==
  /\ Refused(lines[item], LineAt(Oldest))
  /\ pump' = "replying"
  /\ IF IsRequest(lines[item]) THEN Dispatched(lines[item].id) ELSE UNCHANGED trackerVars

Refuse ==
  /\ Refused(lines[item], LineAt(Oldest))
  /\ pump' = "replying"
  /\ UNCHANGED trackerVars

\* Counted before it is handed on: the server may answer at once.
Pass ==
  /\ ~ Skipped(lines[item], LineAt(Oldest))
  /\ ~ Refused(lines[item], LineAt(Oldest))
  /\ pump' = "forwarding"
  /\ IF IsRequest(lines[item]) THEN Dispatched(lines[item].id) ELSE UNCHANGED trackerVars

\* An item is in hand: take its line and decide, without an await in between.
Screen ==
  /\ pump = "received"
  /\ Take
  /\ Skip \/ Refuse \/ Pass
  /\ UNCHANGED <<readerVars, item, serverVars, wire, warned>>

\* Mutant: the pump's own frames go through send(), which credits their id.
ReplyCredited ==
  /\ pump = "replying"
  /\ LET f == Refusal(lines[item], LineAt(text)) IN
       /\ Write(f)
       /\ IF f.id \in Ids THEN Answered(f.id) ELSE UNCHANGED trackerVars
  /\ pump' = "receiving"
  /\ UNCHANGED <<readerVars, recorded, item, text, serverVars, warned>>

\* untracked_send
Reply ==
  /\ pump = "replying"
  /\ Write(Refusal(lines[item], LineAt(text)))
  /\ pump' = "receiving"
  /\ UNCHANGED <<readerVars, recorded, item, text, serverVars, trackerVars, warned>>

Forward ==
  /\ pump = "forwarding"
  /\ Len(inbound) < Buffer
  /\ inbound' = Append(inbound, item)
  /\ pump' = "receiving"
  /\ UNCHANGED <<readerVars, recorded, item, text, job, down, trackerVars, wire, warned>>

\* The read stream is at its end: wait_idle, which returns at once if nothing
\* is outstanding; `async with send` closes the stream to the server.
EndOfStream ==
  /\ pump = "receiving"
  /\ eof /\ offered = 0
  /\ pump' = IF NothingPending THEN "closed" ELSE "draining"
  /\ UNCHANGED <<readerVars, recorded, item, text, serverVars, trackerVars, wire, warned>>

Drained ==
  /\ pump = "draining" /\ idle
  /\ pump' = "closed"
  /\ UNCHANGED <<readerVars, recorded, item, text, serverVars, trackerVars, wire, warned>>

\* The drain's timeout, which is never zero, passes; the log has the number.
GiveUp ==
  /\ pump = "draining"
  /\ pump' = "closed"
  /\ warned' = ~ NothingPending
  /\ UNCHANGED <<readerVars, recorded, item, text, serverVars, trackerVars, wire>>

-----------------------------------------------------------------------------
(* The SDK's run loop and the handlers of build_server.  A handler has no  *)
(* await of its own; its answer goes through TrackingWriteStream.send.     *)

ServerReceive ==
  /\ inbound # <<>>
  /\ LET n == Head(inbound) IN
       job' = IF IsRequest(lines[n]) THEN [job EXCEPT ![n] = "running"] ELSE job
  /\ inbound' = Tail(inbound)
  /\ UNCHANGED <<readerVars, recorded, pumpVars, down, trackerVars, wire, warned>>

Step(n, from, to) == job[n] = from /\ job' = [job EXCEPT ![n] = to]

Execute(n) ==
  /\ Step(n, "running", "executed")
  /\ UNCHANGED <<readerVars, recorded, pumpVars, inbound, down, trackerVars, wire, warned>>

\* await self._inner.send(item)
Respond(n) ==
  /\ Step(n, "executed", "written")
  /\ Write([id |-> lines[n].id, code |-> "answer"])
  /\ UNCHANGED <<readerVars, recorded, pumpVars, inbound, down, trackerVars, warned>>

\* self._tracker.answered(request_id)
Credit(n) ==
  /\ ~ down
  /\ Step(n, "written", "credited")
  /\ Answered(lines[n].id)
  /\ UNCHANGED <<readerVars, recorded, pumpVars, inbound, down, wire, warned>>

\* The inbound stream is closed and empty: the run loop ends, and what is
\* still being handled is cancelled.
Finish ==
  /\ ~ down
  /\ pump = "closed" /\ inbound = <<>>
  /\ down' = TRUE
  /\ job' = [n \in Position |->
               IF job[n] \in {"running", "executed"} THEN "cancelled" ELSE job[n]]
  /\ UNCHANGED <<readerVars, recorded, pumpVars, inbound, trackerVars, wire, warned>>

-----------------------------------------------------------------------------
Init ==
  /\ lines = <<>> /\ eof = FALSE /\ offered = 0
  /\ recorded = <<>>
  /\ pump = "receiving" /\ item = 0 /\ text = 0
  /\ inbound = <<>>
  /\ job = [n \in Position |-> "none"]
  /\ pending = [i \in Ids |-> 0] /\ idle = TRUE
  /\ wire = [f \in Frame |-> 0]
  /\ warned = FALSE /\ down = FALSE

Pump     == Receive \/ Screen \/ Reply \/ Forward \/ EndOfStream \/ Drained
Handle(n) == Execute(n) \/ Respond(n) \/ Credit(n)
Over     == down /\ UNCHANGED vars

Next ==
  \/ ReadLine \/ EndInput
  \/ Pump \/ GiveUp
  \/ ServerReceive \/ Finish
  \/ \E n \in Position : Handle(n)
  \/ Over

Spec == Init /\ [][Next]_vars

\* The event loop resumes every task whose await is over, and the client reads
\* what is written.  Nobody has to close the input; the timeout never has to pass.
Fairness ==
  /\ WF_vars(Pump)
  /\ WF_vars(ServerReceive)
  /\ WF_vars(Finish)
  /\ \A n \in Position : WF_vars(Handle(n))

FairSpec == Spec /\ Fairness

-----------------------------------------------------------------------------
(* Properties                                                              *)

\* Types, and a recorder that never holds more than the line being decided on
\* and the one the reader is blocked with (LineRecordingInput.lines is a deque
\* without a bound).
TypeOK ==
  /\ lines \in Seq(Line) /\ Len(lines) <= MaxLines
  /\ eof \in BOOLEAN
  /\ offered \in 0..MaxLines
  /\ recorded \in Seq(Position) /\ Len(recorded) <= 2
  /\ pump \in PumpAwaits
  /\ item \in 0..MaxLines /\ text \in 0..MaxLines
  /\ inbound \in Seq(Position) /\ Len(inbound) <= Buffer
  /\ job \in [Position -> JobStages]
  /\ pending \in [Ids -> Nat]
  /\ idle \in BOOLEAN
  /\ wire \in [Frame -> Nat]
  /\ warned \in BOOLEAN /\ down \in BOOLEAN

\* Requests that were dispatched and whose answer has not been credited.
Queued(n)    == \E k \in DOMAIN inbound : inbound[k] = n
BeingPassed(n) == pump = "forwarding" /\ item = n
InFlight(n) ==
  /\ n \in DOMAIN lines /\ IsRequest(lines[n])
  /\ BeingPassed(n) \/ Queued(n) \/ job[n] \in {"running", "executed", "written"}
Outstanding(i) == {n \in Position : InFlight(n) /\ lines[n].id = i}

\* DrainTracker: until the server is down the counter of an id is the number of
\* its requests at work, however often the id is reused, and however malformed
\* the frames with the same id that the pump answers by itself.
CounterIsWork ==
  ~ down => \A i \in Ids : pending[i] = Cardinality(Outstanding(i))

Contract == INSTANCE StdioContract WITH shut <- down

\* serve: when the server has left without a warning in its log, every line has
\* had the frame it is owed, the requests in flight at the end of input included.
NothingLostSilently == down /\ ~ warned => Contract!Settled

\* Recorder, pump, tracker and server together implement the contract: no frame
\* for a wrong line, none twice, none to a line that is owed none, and no exit
\* before the last, unless it is in the log.
KeepsContract == Contract!ContractSpec

\* protocol_error_pump: after the end of the input the server leaves on its own,
\* without the timeout having to pass.
DrainsByWork == eof ~> down

\* Every line is answered in the end, with the input still open as well; only a
\* drain that gave up excuses it.
EveryLineAnswered == <>warned \/ []<>Contract!Settled
=============================================================================
