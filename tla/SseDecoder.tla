------------------------------ MODULE SseDecoder ------------------------------
(***************************************************************************)
(* src/task3_streaming_guardrail/sse.py: SSEDecoder.  A body arrives in    *)
(* chunks that may be cut anywhere.  A character is what the decoder tells *)
(* apart; of a field only whether it is `data` matters.                    *)
(***************************************************************************)
EXTENDS Naturals, Sequences, SequencesExt, FiniteSets

CONSTANTS
  MaxEvent,   (* max_event_bytes, in characters                            *)
  MaxBody,    (* bound: characters of the body                             *)
  MaxChunk    (* bound: characters of a chunk                              *)

\* "data" begins a data line and is text elsewhere, ":" begins a comment.
Char == {"data", ":", "bom", "cr", "lf"}

ASSUME DecoderAssumption ==
  MaxEvent \in Nat \ {0} /\ MaxBody \in Nat \ {0} /\ MaxChunk \in Nat \ {0}

VARIABLES
  body,       (* the characters that have arrived                          *)
  buffer,     (* _buffer                                                   *)
  pendingCr,  (* _pending_cr: a last "\r" whose "\n" may be in the next    *)
              (* chunk                                                     *)
  atStart,    (* _at_start: no character but byte order marks so far       *)
  events,     (* the events yielded: the lines of data of each             *)
  status      (* "open", "ended", or "refused" by ValueError               *)

vars == <<body, buffer, pendingCr, atStart, events, status>>

Chunks == UNION {[1..n -> Char] : n \in 1..MaxChunk}

-----------------------------------------------------------------------------
(* What the decoder computes of characters                                 *)

\* replace("\r\n", "\n").replace("\r", "\n")
Normalise(s) ==
  LET upTo[i \in 0..Len(s)] ==
        IF i = 0 THEN <<>>
        ELSE IF s[i] = "lf" /\ i > 1 /\ s[i - 1] = "cr" THEN upTo[i - 1]
        ELSE Append(upTo[i - 1], IF s[i] = "cr" THEN "lf" ELSE s[i])
  IN upTo[Len(s)]

\* lstrip("\ufeff")
StripBom(s) ==
  LET rest == {i \in DOMAIN s : s[i] # "bom"}
  IN IF rest = {} THEN <<>>
     ELSE SubSeq(s, CHOOSE i \in rest : \A j \in rest : i <= j, Len(s))

\* split("\n")
Lines(s) ==
  LET upTo[i \in 0..Len(s)] ==
        IF i = 0 THEN << <<>> >>
        ELSE IF s[i] = "lf" THEN Append(upTo[i - 1], <<>>)
        ELSE [upTo[i - 1] EXCEPT ![Len(upTo[i - 1])] = Append(@, s[i])]
  IN upTo[Len(s)]

\* _parse_block: the lines of data; none, no event.
IsData(line) == line # <<>> /\ Head(line) = "data"
DataLines(ls) ==
  LET upTo[i \in 0..Len(ls)] ==
        IF i = 0 THEN <<>>
        ELSE IF IsData(ls[i]) THEN Append(upTo[i - 1], ls[i]) ELSE upTo[i - 1]
  IN upTo[Len(ls)]
ParseBlock(raw) == DataLines(Lines(raw))

Yield(es, raw) == IF ParseBlock(raw) = <<>> THEN es ELSE Append(es, ParseBlock(raw))

Blank(s) == {i \in 1..Len(s) - 1 : s[i] = "lf" /\ s[i + 1] = "lf"}

-----------------------------------------------------------------------------
\* Mutant: a "\r" at the end of a chunk is converted at once.
FeedEager(chunk) ==
  /\ status = "open" /\ Blank(buffer) = {}
  /\ Len(body) + Len(chunk) <= MaxBody
  /\ body' = body \o chunk
  /\ LET decoded == IF atStart THEN StripBom(chunk) ELSE chunk
     IN /\ atStart' = (atStart /\ decoded = <<>>)
        /\ pendingCr' = <<>>
        /\ buffer' = buffer \o Normalise(decoded)
  /\ status' = IF Len(buffer') > MaxEvent THEN "refused" ELSE "open"
  /\ UNCHANGED events

\* Mutant: the size of what is buffered is not checked.
FeedUnbounded(chunk) ==
  /\ status = "open" /\ Blank(buffer) = {}
  /\ Len(body) + Len(chunk) <= MaxBody
  /\ body' = body \o chunk
  /\ LET whole   == pendingCr \o chunk
         decoded == IF atStart THEN StripBom(whole) ELSE whole
         cut     == decoded # <<>> /\ Last(decoded) = "cr"
     IN /\ atStart' = (atStart /\ decoded = <<>>)
        /\ pendingCr' = IF cut THEN <<"cr">> ELSE <<>>
        /\ buffer' = buffer \o Normalise(IF cut THEN Front(decoded) ELSE decoded)
  /\ UNCHANGED <<events, status>>

\* feed, up to its loop: the caller exhausts the loop before it feeds again.
Feed(chunk) ==
  /\ status = "open" /\ Blank(buffer) = {}
  /\ Len(body) + Len(chunk) <= MaxBody
  /\ body' = body \o chunk
  /\ LET whole   == pendingCr \o chunk
         decoded == IF atStart THEN StripBom(whole) ELSE whole
         cut     == decoded # <<>> /\ Last(decoded) = "cr"
     IN /\ atStart' = (atStart /\ decoded = <<>>)
        /\ pendingCr' = IF cut THEN <<"cr">> ELSE <<>>
        /\ buffer' = buffer \o Normalise(IF cut THEN Front(decoded) ELSE decoded)
  /\ status' = IF Len(buffer') > MaxEvent THEN "refused" ELSE "open"
  /\ UNCHANGED events

\* One turn of the loop of feed: the first block is split off and yielded.
Split ==
  /\ status = "open" /\ Blank(buffer) # {}
  /\ LET i == CHOOSE i \in Blank(buffer) : \A j \in Blank(buffer) : i <= j
     IN /\ events' = Yield(events, SubSeq(buffer, 1, i - 1))
        /\ buffer' = SubSeq(buffer, i + 2, Len(buffer))
  /\ UNCHANGED <<body, pendingCr, atStart, status>>

\* flush: the last event may lack its blank line.
Flush ==
  /\ status = "open" /\ Blank(buffer) = {}
  /\ events' = Yield(events, buffer \o Normalise(pendingCr))
  /\ buffer' = <<>> /\ pendingCr' = <<>> /\ status' = "ended"
  /\ UNCHANGED <<body, atStart>>

Init ==
  /\ body = <<>> /\ buffer = <<>> /\ pendingCr = <<>> /\ atStart = TRUE
  /\ events = <<>> /\ status = "open"

Next == (\E chunk \in Chunks : Feed(chunk)) \/ Split \/ Flush

Spec == Init /\ [][Next]_vars

-----------------------------------------------------------------------------
(* Reference: an event stream read one character at a time                 *)

Fresh == [line |-> <<>>, data |-> <<>>, out |-> <<>>, cr |-> FALSE, first |-> TRUE]

EndLine(a) ==
  IF a.line = <<>>
    THEN [a EXCEPT !.data = <<>>,
                   !.out = IF a.data = <<>> THEN @ ELSE Append(@, a.data)]
    ELSE [a EXCEPT !.line = <<>>,
                   !.data = IF Head(a.line) = "data" THEN Append(@, a.line) ELSE @]

Reads(a, c) ==
  CASE c = "bom" /\ a.first -> a
    [] c = "lf" /\ a.cr     -> [a EXCEPT !.cr = FALSE]
    [] c \in {"lf", "cr"} /\ ~ (c = "lf" /\ a.cr)
                            -> [EndLine(a) EXCEPT !.cr = (c = "cr"), !.first = FALSE]
    [] OTHER                -> [a EXCEPT !.line = Append(@, c), !.cr = FALSE, !.first = FALSE]

ReadFrom(a, s) ==
  LET upTo[i \in 0..Len(s)] == IF i = 0 THEN a ELSE Reads(upTo[i - 1], s[i])
  IN upTo[Len(s)]
Reference(s) == ReadFrom(Fresh, s)
Whole(s)     == EndLine(EndLine(Reference(s))).out

-----------------------------------------------------------------------------
(* Properties                                                              *)

\* Types; what is kept between two chunks is bounded (feed, the size check).
TypeOK ==
  /\ body \in Seq(Char) /\ buffer \in Seq(Char)
  /\ pendingCr \in {<<>>, <<"cr">>} /\ atStart \in BOOLEAN
  /\ status \in {"open", "ended", "refused"}
  /\ status = "open" => Len(buffer) <= MaxEvent

\* feed, flush: however the body is cut into chunks, the events are those of the
\* body read character by character.
ChunkInvariant == status = "ended" => events = Whole(body)

\* feed: an event is yielded with the chunk that completes it, and not before: all
\* that has ended is out, but for a last line whose "\r" may be half a "\r\n".
YieldedAtOnce ==
  status = "open" /\ Blank(buffer) = {} =>
    events = Reference(SubSeq(body, 1, Len(body) - Len(pendingCr))).out
=============================================================================
