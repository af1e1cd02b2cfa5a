---------------------------- MODULE GuardrailStream ----------------------------
(***************************************************************************)
(* src/task3_streaming_guardrail/gateway.py: one completion, from the      *)
(* request to the release of the provider's socket.  Text is counted in    *)
(* units that carry where the model put them; what a redactor does to it   *)
(* is HoldBack's, here it lets go of as much as it likes.                  *)
(***************************************************************************)
EXTENDS Naturals, Sequences, FiniteSets

CONSTANTS
  Indexes,    (* indexes of the choices of the completion                  *)
  Tools,      (* indexes of the tool calls of a choice                     *)
  NoTool,     (* text that is the choice's own                             *)
  NoIndex,    (* the choice declares no index                              *)
  Raw,        (* what is no chunk: a keep-alive, an extension              *)
  Shapes,     (* the chunks the provider may send                          *)
  MaxText,    (* units of text of each stream                              *)
  Trailing    (* the provider may say more after its [DONE], in one read   *)

Stream == [choice : Indexes \cup Tools \cup {Raw}, tool : Tools \cup {NoTool}]
Key    == [index : Indexes \cup Tools \cup {NoIndex, Raw},
           leaf : {"content", "arguments", "raw"}]
Shape  == [choice : Indexes \cup {Raw}, tool : Tools \cup {NoTool},
           declared : BOOLEAN, text : BOOLEAN, finish : BOOLEAN]

ASSUME GuardrailAssumption ==
  /\ Indexes \subseteq Nat /\ Tools \subseteq Nat /\ {0} \subseteq Indexes \cap Tools
  /\ NoTool \notin Tools
  /\ Raw \notin Indexes \cup Tools /\ NoIndex \notin Indexes \cup Tools \cup {Raw}
  /\ Shapes \subseteq Shape /\ MaxText \in Nat /\ Trailing \in BOOLEAN

VARIABLES
  phase,      (* the await of the handler, then of the generator           *)
  http,       (* the status line                                           *)
  sent,       (* units the provider has sent of each stream                *)
  stopped,    (* choices the provider has finished                         *)
  held,       (* what the redactor of each key holds back                  *)
  view,       (* what the client reads as the text of each stream          *)
  finished,   (* chunks with a finish_reason the client has seen           *)
  job,        (* the chunk a worker thread is redacting, if any            *)
  done,       (* `completed`                                               *)
  terms,      (* how many times the client was sent [DONE]                 *)
  ending,     (* how the stream ended                                      *)
  conn        (* the provider's socket                                     *)

vars == <<phase, http, sent, stopped, held, view, finished, job, done, terms, ending, conn>>

Control == <<phase, http, ending, conn>>
Text  == <<sent, stopped, held, view, finished, job, done, terms>>

Idle == [choice |-> Raw, tool |-> NoTool, declared |-> FALSE, text |-> FALSE, finish |-> FALSE]

-----------------------------------------------------------------------------
(* The keys of the pool, and what becomes of what is left in it            *)

Origin(e) == [choice |-> e.choice, tool |-> e.tool]
Unit(s, n) == [of |-> s, n |-> n]

\* Mutant: the choices of a completion share one redactor.
KeyByPath(e) ==
  IF e.choice = Raw THEN [index |-> Raw, leaf |-> "raw"]
  ELSE IF e.tool # NoTool THEN [index |-> e.tool, leaf |-> "arguments"]
  ELSE [index |-> 0, leaf |-> "content"]

\* _redact_node: on the way down to a text the nearest declared index wins, and a
\* tool call always declares its own.
KeyOf(e) ==
  IF e.choice = Raw THEN [index |-> Raw, leaf |-> "raw"]
  ELSE IF e.tool # NoTool THEN [index |-> e.tool, leaf |-> "arguments"]
  ELSE [index |-> IF e.declared THEN e.choice ELSE NoIndex, leaf |-> "content"]

\* _residue_chunk: re-nested at the path of the text, where a tool call is the
\* first of its list, and stamped with the index of the key.
ResidueStream(k) ==
  [choice |-> IF k.index = NoIndex THEN 0 ELSE k.index,
   tool   |-> IF k.leaf = "arguments" THEN 0 ELSE NoTool]

\* RedactorPool.flush, flush_choice: every residue is sent and the redactors are
\* empty.  No two keys have their residue stamped alike, but for a choice without
\* an index and choice 0.
Flushed(keys, h, v) ==
  [hold |-> [k \in Key |-> IF k \in keys THEN <<>> ELSE h[k]],
   view |-> [s \in Stream |->
               LET k == {x \in keys : ResidueStream(x) = s /\ h[x] # <<>>}
               IN IF k = {} THEN v[s] ELSE v[s] \o h[CHOOSE x \in k : TRUE]]]

\* Mutant: what was held of a choice stays held when it finishes.
FinishingNothing(e) == {}

\* _finished_choice_indexes, flush_choice: by declared index, else by position.
Finishing(e) ==
  IF e.finish THEN {k \in Key : k.index = IF e.declared THEN e.choice ELSE 0} ELSE {}

\* redact_payload: the text goes through the redactor of its key, which lets go
\* of some of what it then holds, in the place of this chunk's own text.
Redact(e, h, v, n) ==
  LET k   == KeyOf(e)
      s   == Origin(e)
      buf == Append(h[k], Unit(s, sent'[s]))
  IN /\ n \in 0..Len(buf)
     /\ held' = [h EXCEPT ![k] = SubSeq(buf, n + 1, Len(buf))]
     /\ view' = [v EXCEPT ![s] = @ \o SubSeq(buf, 1, n)]

Pass(e, h, v, n) ==
  /\ IF e.text THEN Redact(e, h, v, n) ELSE n = 0 /\ held' = h /\ view' = v
  /\ finished' = IF e.finish THEN finished \cup {e} ELSE finished

-----------------------------------------------------------------------------
(* completions: the request, up to the status line                         *)

BadRequest ==
  /\ phase = "requested"
  /\ phase' = "over" /\ http' = "bad_request"
  /\ UNCHANGED <<ending, conn, Text>>

Unreachable ==
  /\ phase = "requested"
  /\ phase' = "over" /\ http' = "unavailable"
  /\ UNCHANGED <<ending, conn, Text>>

ProviderAnswers ==
  /\ phase = "requested"
  /\ conn' = "open"
  /\ phase' \in {"refused", "answering"}
  /\ UNCHANGED <<http, ending, Text>>

Mirror ==
  /\ phase = "refused"
  /\ phase' = "over" /\ http' = "mirrored" /\ conn' = "released"
  /\ UNCHANGED <<ending, Text>>

\* aread() raises, unguarded: the failed read has closed the socket, and the
\* framework answers.
MirrorFails ==
  /\ phase = "refused"
  /\ phase' = "over" /\ http' = "internal_error" /\ conn' = "released"
  /\ UNCHANGED <<ending, Text>>

\* The server asks the generator for its first chunk.
Start ==
  /\ phase = "answering"
  /\ phase' = "streaming" /\ http' = "streaming"
  /\ UNCHANGED <<ending, conn, Text>>

-----------------------------------------------------------------------------
(* _stream, _handle_event                                                  *)

\* Another event is there: of a read that goes on, or of one the [DONE] is in.
Hears == phase = "streaming" /\ (done => Trailing)

Expect(e) ==
  /\ e.text => sent[Origin(e)] < MaxText
  /\ e.choice \notin stopped
  /\ sent' = [sent EXCEPT ![Origin(e)] = IF e.text THEN @ + 1 ELSE @]
  /\ stopped' = IF e.finish THEN stopped \cup {e.choice} ELSE stopped

\* The residue of a choice that finishes goes first.
Handle(e) ==
  /\ Hears /\ Expect(e)
  /\ LET f == Flushed(Finishing(e), held, view)
     IN \E n \in 0..Len(f.hold[KeyOf(e)]) + 1 : Pass(e, f.hold, f.view, n)
  /\ UNCHANGED <<Control, job, done, terms>>

\* A large one is redacted in a worker thread.
HandOver(e) ==
  /\ Hears /\ Expect(e) /\ e.text /\ e.choice # Raw
  /\ LET f == Flushed(Finishing(e), held, view) IN held' = f.hold /\ view' = f.view
  /\ job' = e /\ phase' = "offloaded"
  /\ UNCHANGED <<http, ending, conn, finished, done, terms>>

\* What the thread returns is sent on if the generator still waits for it.
TakeBack ==
  /\ job # Idle
  /\ \E n \in 0..Len(held[KeyOf(job)]) + 1 :
       IF phase = "offloaded"
         THEN UNCHANGED sent /\ Pass(job, held, view, n) /\ phase' = "streaming"
         ELSE n = 0 /\ UNCHANGED <<sent, phase, held, view, finished>>
  /\ job' = Idle
  /\ UNCHANGED <<http, ending, conn, stopped, done, terms>>

\* Mutant: [DONE] is passed on and what is held stays held.
HandleDonePlain ==
  /\ Hears /\ terms < 2
  /\ done' = TRUE /\ terms' = terms + 1
  /\ UNCHANGED <<Control, held, view, sent, stopped, finished, job>>

\* [DONE]: everything still held is now final.
HandleDone ==
  /\ Hears /\ terms < 2
  /\ LET f == Flushed(Key, held, view) IN held' = f.hold /\ view' = f.view
  /\ done' = TRUE /\ terms' = terms + 1
  /\ UNCHANGED <<Control, sent, stopped, finished, job>>

\* An event too deep to parse: RecursionError is neither caught nor answered.
TooDeep ==
  /\ Hears
  /\ phase' = "finally" /\ ending' = "aborted"
  /\ UNCHANGED <<http, conn, Text>>

\* Mutant: a broken stream is flushed like a complete one.
BreaksFlushing ==
  /\ phase = "streaming" /\ ~ done
  /\ LET f == Flushed(Key, held, view) IN held' = f.hold /\ view' = f.view
  /\ phase' = "finally" /\ ending' = "broken" /\ terms' = terms + 1
  /\ UNCHANGED <<http, conn, sent, stopped, finished, job, done>>

\* httpx.HTTPError, or the decoder's ValueError: an error and [DONE], and what is
\* held is dropped.
Breaks ==
  /\ phase = "streaming" /\ ~ done
  /\ phase' = "finally" /\ ending' = "broken" /\ terms' = terms + 1
  /\ UNCHANGED <<http, conn, sent, stopped, held, view, finished, job, done>>

\* The body ends, or `completed` ends the loop.
Ends ==
  /\ phase = "streaming"
  /\ IF done
       THEN UNCHANGED <<held, view, terms>>
       ELSE /\ LET f == Flushed(Key, held, view) IN held' = f.hold /\ view' = f.view
            /\ terms' = terms + 1
  /\ phase' = "finally" /\ ending' = "clean"
  /\ UNCHANGED <<http, conn, sent, stopped, finished, job, done>>

\* The client leaves, or the server stops.  A generator that was never started
\* has no `finally`: its socket is the interpreter's to release.
LeavesEarly ==
  /\ phase = "answering"
  /\ phase' = "over" /\ ending' = "unstarted"
  /\ UNCHANGED <<http, conn, Text>>

\* A thread cannot be cancelled: it goes on beside the `finally`.
Leaves ==
  /\ phase \in {"streaming", "offloaded"}
  /\ phase' = "finally"
  /\ ending' = IF phase = "offloaded" THEN "left_busy" ELSE "left"
  /\ UNCHANGED <<http, conn, Text>>

\* Mutant: the socket is released behind the loop, and not in a `finally`.
FinallyIfClean ==
  /\ phase = "finally"
  /\ phase' = "over"
  /\ conn' = IF ending = "clean" THEN "released" ELSE conn
  /\ UNCHANGED <<http, ending, Text>>

\* `finally`: the statistics are collected from the redactors before the socket is
\* released, and collecting them may raise while a thread changes them.  The socket
\* is then left to the interpreter.
Finally ==
  /\ phase = "finally"
  /\ phase' = "over"
  /\ conn' = "released" \/ (job # Idle /\ conn' = "open")
  /\ UNCHANGED <<http, ending, Text>>

Init ==
  /\ phase = "requested" /\ http = "none" /\ ending = "none" /\ conn = "none"
  /\ sent = [s \in Stream |-> 0] /\ stopped = {}
  /\ held = [k \in Key |-> <<>>] /\ view = [s \in Stream |-> <<>>]
  /\ finished = {} /\ job = Idle /\ done = FALSE /\ terms = 0

Open == BadRequest \/ Unreachable \/ ProviderAnswers \/ Mirror \/ MirrorFails \/ Start
Hear == (\E e \in Shapes : Handle(e) \/ HandOver(e)) \/ HandleDone \/ TooDeep
End  == Breaks \/ Ends \/ LeavesEarly \/ Leaves

Next == Open \/ Hear \/ TakeBack \/ End \/ Finally

Spec == Init /\ [][Next]_vars

-----------------------------------------------------------------------------
(* Properties                                                              *)

TypeOK ==
  /\ phase \in {"requested", "refused", "answering", "streaming", "offloaded", "finally", "over"}
  /\ http \in {"none", "bad_request", "unavailable", "mirrored", "internal_error", "streaming"}
  /\ sent \in [Stream -> 0..MaxText]
  /\ stopped \subseteq Indexes \cup {Raw} 
  /\ finished \subseteq {e \in Shapes : e.finish /\ e.choice \in stopped}
  /\ held \in [Key -> Seq([of : Stream, n : Nat])]
  /\ view \in [Stream -> Seq([of : Stream, n : Nat])]
  /\ job \in Shapes \cup {Idle}
  /\ done \in BOOLEAN /\ terms \in 0..2
  /\ ending \in {"none", "clean", "broken", "aborted", "unstarted", "left", "left_busy"}
  /\ conn \in {"none", "open", "released"}
  /\ phase = "offloaded" => job # Idle

Declared(s) == [choice |-> s.choice, tool |-> s.tool, declared |-> TRUE,
                text |-> TRUE, finish |-> FALSE]
AllOf(s, n) == [i \in 1..n |-> Unit(s, i)]
InJob(s)    == IF job # Idle /\ Origin(job) = s THEN 1 ELSE 0

\* What the provider sends, but for the tool calls whose own index is not their
\* choice's: these are keyed, flushed and stamped as if it were.
Given(s) ==
  /\ {e \in Shapes : Origin(e) = s} # {}
  /\ s.tool # NoTool => s.tool = 0 /\ s.choice = 0

\* RedactorPool: of each stream the client has a beginning and the redactor of its
\* key holds the rest, in order: nothing is lost, sent twice, or spliced into
\* another stream, however the chunks interleave and the stream ends.  Only what a
\* thread redacts when the client leaves is lost.
TextAccounted ==
  \A s \in Stream : Given(s) =>
    \/ view[s] \o held[KeyOf(Declared(s))] = AllOf(s, sent[s] - InJob(s))
    \/ ending = "left_busy"

\* flush_choice: a client that stops at finish_reason has all that was said before,
\* and at most the text of the finish chunk itself is still to come.
FinishIsLast ==
  \A s \in Stream : \A e \in finished : Given(s) /\ s.choice = e.choice =>
    \/ view[s] = AllOf(s, sent[s])
    \/ e.text /\ Origin(e) = s /\ view[s] = AllOf(s, sent[s] - 1)

\* A stream that ends well is complete and terminated once, and one that breaks
\* is terminated once (the handlers of _stream).
EndsComplete ==
  /\ ending = "clean" => \A s \in Stream : Given(s) => view[s] = AllOf(s, sent[s])
  /\ ending \in {"clean", "broken"} => terms = 1

\* What is held is let go with later text of its stream, or when nothing can
\* follow it: the choice finished, [DONE], the end of the body; never because the
\* stream broke (the comment of the handler of HTTPError).
ReleasedWhenFinal ==
  [][\A s \in Stream : view'[s] # view[s] =>
       \/ sent'[s] > sent[s] \/ Origin(job) = s
       \/ s.choice \in stopped' \/ done' \/ ending' = "clean"]_vars

\* The comment of `finally`, "always release the socket": when a request is over,
\* its provider's socket is released, but for a generator that was never started,
\* or was left while a thread was redacting.
SocketReleased ==
  phase = "over" /\ conn = "open" => ending \in {"unstarted", "left_busy"}
=============================================================================
