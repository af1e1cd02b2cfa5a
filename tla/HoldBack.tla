------------------------------- MODULE HoldBack -------------------------------
(***************************************************************************)
(* src/task3_streaming_guardrail/redactor.py: StreamingRedactor over an    *)
(* abstract alphabet.  A pattern is the finite language of its regular     *)
(* expression, the characters its lookarounds forbid on either side, and   *)
(* the words its validator accepts.                                        *)
(***************************************************************************)
EXTENDS Naturals, Sequences, SequencesExt, FiniteSets, FiniteSetsExt

CONSTANTS
  Char,          (* characters                                             *)
  Digits,        (* those that are digits                                  *)
  Separators,    (* those that may separate the groups of a number         *)
  Alnum,         (* letters and digits                                     *)
  Mark,          (* the placeholder                                        *)
  Patterns,      (* the patterns                                           *)
  MaxHoldback,   (* max_holdback                                           *)
  ContextChars,  (* _CONTEXT_CHARS                                         *)
  StrayPrefix,   (* _MAX_STRAY_PREFIX                                      *)
  BackSets,      (* _RESCUE_BACKSETS                                       *)
  PanLengths,    (* _PAN_LENGTHS                                           *)
  RescuePasses,  (* _RESCUE_PASSES                                         *)
  MaxFed,        (* bound: characters of the text                          *)
  MaxChunk       (* bound: characters of a chunk                           *)

RunChars == Digits \cup Separators

\* The pattern is re-anchored by the rescue pass if it is `numeric`: behind a digit, for
\* its `glued` words only.
Pattern == [words : SUBSET Seq(Char), valid : SUBSET Seq(Char), glued : SUBSET Seq(Char),
            notBefore : SUBSET Char, notAfter : SUBSET Char, numeric : BOOLEAN]

Words == UNION {p.words : p \in Patterns}

\* MAX_MATCH_LENGTH
Longest == Max({0} \cup {Len(w) : w \in Words})

ASSUME HoldBackAssumption ==
  /\ Mark \notin Char /\ Alnum \subseteq Char /\ Digits \subseteq Alnum
  /\ Separators \subseteq Char \ Digits /\ BackSets \subseteq Nat
  /\ PanLengths \in Seq(Nat)
  /\ Words \subseteq Seq(Char) \ {<<>>} /\ \A p \in Patterns : p.valid \subseteq p.words
  /\ MaxHoldback \in Nat /\ \A w \in Words : Len(w) <= MaxHoldback   \* or __init__ raises
  /\ ContextChars \in Nat \ {0} /\ StrayPrefix \in Nat /\ RescuePasses \in Nat
  /\ MaxFed \in Nat /\ MaxChunk \in Nat

VARIABLES
  text,       (* all that was fed                                          *)
  buffer,     (* _buffer: raw, held back                                   *)
  context,    (* _context: raw, emitted, kept for the lookbehinds          *)
  out,        (* what was emitted                                          *)
  flushed     (* the end of the text was announced                         *)

redactorVars == <<text, buffer, context, out, flushed>>

Chunks == UNION {[1..n -> Char] : n \in 1..MaxChunk}

-----------------------------------------------------------------------------
(* Matching.  A span is the interval [from, to).                           *)

Span(i, w) == [from |-> i, to |-> i + Len(w)]

\* w stands at i, before limit.
At(s, i, w, limit) == i + Len(w) <= limit /\ SubSeq(s, i, i + Len(w) - 1) = w

MayBegin(p, s, i) == i = 1 \/ s[i - 1] \notin p.notBefore
MayEnd(p, s, i, limit) == i = limit \/ s[i] \notin p.notAfter

\* The words an engine finds at i, with or without the pattern's lookbehind.
Found(p, s, i, limit) ==
  {w \in p.words : At(s, i, w, limit) /\ MayEnd(p, s, i + Len(w), limit)}

LongestOf(ws) == CHOOSE w \in ws : \A v \in ws : Len(v) <= Len(w)

\* _shorter_valid_match: the validator refused w; the shorter words at the same place,
\* whatever follows them.
Shorter(p, s, i, w) ==
  {v \in p.valid : Len(v) < Len(w) /\ At(s, i, v, i + Len(w))}

\* Those that do not end inside a group of w.
Aligned(vs, w) == {v \in vs : ~ {w[Len(v)], w[Len(v) + 1]} \subseteq Alnum}

\* _trimmed_pan: those of the first length, in its order, that any has.
Trimmed(vs) ==
  {v \in vs : \E k \in DOMAIN PanLengths :
     Len(v) = PanLengths[k] /\ \A j \in 1..k - 1 : \A u \in vs : Len(u) # PanLengths[j]}

Preferred(vs, w) ==
  IF \A k \in DOMAIN w : w[k] \notin Separators THEN Trimmed(vs)
  ELSE IF Aligned(vs, w) # {} THEN Aligned(vs, w) ELSE vs

\* The match at i the validator lets pass, as a set of at most one word.
Validated(p, s, i, limit) ==
  LET ws == Found(p, s, i, limit)
  IN IF ws = {} THEN {}
     ELSE IF LongestOf(ws) \in p.valid THEN {LongestOf(ws)}
     ELSE LET vs == Preferred(Shorter(p, s, i, LongestOf(ws)), LongestOf(ws))
          IN IF vs = {} THEN {} ELSE {LongestOf(vs)}

MatchAt(s, i, limit) ==
  UNION {Validated(p, s, i, limit) : p \in {q \in Patterns : MayBegin(q, s, i)}}

\* _scan: from the left, each match after the last; a vetoed one costs a character.
Scan(s, start, limit) ==
  LET f[i \in start..limit] ==
        IF i = limit THEN {}
        ELSE LET ws == MatchAt(s, i, limit)
             IN IF ws = {} THEN f[i + 1]
                ELSE {Span(i, LongestOf(ws))} \cup f[i + Len(LongestOf(ws))]
  IN f[start]

\* _resolve_overlaps: the earliest, then the longest, and what it leaves disjoint.
Resolve(spans) ==
  LET ends == {x.to : x \in spans}
      last == IF ends = {} THEN 1 ELSE Max(ends)
      f[i \in 1..last] ==
        LET here == {x \in spans : x.from >= i}
        IN IF here = {} THEN {}
           ELSE LET first == {x \in here : \A y \in here : x.from <= y.from}
                    best  == CHOOSE x \in first : \A y \in first : y.to <= x.to
                IN {best} \cup f[best.to]
  IN f[1]

Covered(i, spans) == \E x \in spans : x.from <= i /\ i < x.to

-----------------------------------------------------------------------------
(* The rescue pass                                                         *)

\* _numeric_runs
IsRun(s, start, a, b) ==
  /\ start <= a /\ a < b /\ b <= Len(s) + 1
  /\ \A j \in a..b - 1 : s[j] \in RunChars
  /\ a = start \/ s[a - 1] \notin RunChars
  /\ b = Len(s) + 1 \/ s[b] \notin RunChars

\* _rescue_candidates: the start of the run, the first few places of each digit
\* token, what follows a separator or is a first group before it, and any place of a
\* run without separators.
Candidate(s, a, b, i) ==
  \/ i = a
  \/ \A j \in a..b - 1 : s[j] \in Digits
  \/ s[i - 1] \in Separators
  \/ \E back \in BackSets : i + back < b /\ s[i + back] \in Separators
  \/ \E t \in a..i - 1 :
       /\ i - t <= StrayPrefix /\ \A j \in t..i : s[j] \in Digits
       /\ t = a \/ s[t - 1] \in Separators

\* _rescue_at: right behind a digit not every valid word is believed.
RescueAt(s, i) ==
  UNION {{w \in Validated(p, s, i, Len(s) + 1) : i = 1 \/ s[i - 1] \notin Digits \/ w \in p.glued} :
           p \in {q \in Patterns : q.numeric}}

\* _rescue_matches: matches that overlap an earlier one of the run are skipped.
RescueRun(s, a, b, spans) ==
  LET f[i \in a..b] ==
        IF i = b THEN {}
        ELSE IF Candidate(s, a, b, i) /\ ~ Covered(i, spans) /\ RescueAt(s, i) # {}
          THEN LET x == Span(i, LongestOf(RescueAt(s, i)))
               IN {x} \cup (IF x.to <= b THEN f[x.to] ELSE {})
          ELSE f[i + 1]
  IN f[a]

Rescue(s, start, spans) ==
  UNION {RescueRun(s, r[1], r[2], spans) :
           r \in {r \in (start..Len(s)) \X (start + 1..Len(s) + 1) : IsRun(s, start, r[1], r[2])}}

\* _gaps
Gaps(start, end, spans) ==
  {g \in ({start} \cup {x.to : x \in spans}) \X ({end} \cup {x.from : x \in spans}) :
     g[1] < g[2] /\ \A i \in g[1]..g[2] - 1 : ~ Covered(i, spans)}

\* One pass of _scan_to_fixed_point: what the rescue adds, and the gaps scanned again.
Rescan(s, start, now) ==
  Resolve(now \cup Rescue(s, start, now)
          \cup UNION {Scan(s, g[1], g[2]) : g \in Gaps(start, Len(s) + 1, now)})

\* _scan_to_fixed_point
Spans(s, start) ==
  LET f[k \in 0..RescuePasses] ==
        IF k = 0 THEN Resolve(Scan(s, start, Len(s) + 1)) ELSE Rescan(s, start, f[k - 1])
  IN f[RescuePasses]

-----------------------------------------------------------------------------
(* Hold-back                                                               *)

\* fullmatch(partial=True): all that follows may be the beginning of a word.
Partial(p, s, i) == \E w \in p.words : IsPrefix(SubSeq(s, i, Len(s)), w)

\* Mutant: a match that is complete is not held for what may extend it.
HoldOnlyIncomplete(s, start) ==
  LET first == Max({start, Len(s) + 1 - MaxHoldback})
      may   == {i \in first..Len(s) : \E p \in Patterns :
                  /\ Partial(p, s, i) /\ SubSeq(s, i, Len(s)) \notin p.valid
                  /\ MayBegin(p, s, i) \/ p.numeric}
  IN Min(may \cup {Len(s) + 1})

\* _holdback_index: the first place from which all that follows may be inside one
\* match, by the patterns or by those of the rescue pass.
HoldbackIndex(s, start) ==
  LET first == Max({start, Len(s) + 1 - MaxHoldback})
      may   == {i \in first..Len(s) : \E p \in Patterns :
                  /\ Partial(p, s, i)
                  /\ MayBegin(p, s, i) \/ (p.numeric /\ s[i] \in Digits)}
  IN Min(may \cup {Len(s) + 1})

\* A span that straddles the hold point is final: the point moves past it.
Pushed(hold, spans) ==
  LET over == {x \in spans : x.from < hold /\ hold < x.to}
  IN IF over = {} THEN hold ELSE (CHOOSE x \in over : TRUE).to

Replaced(s, from, to, spans) ==
  LET f[i \in from..to] ==
        IF i = to THEN <<>>
        ELSE IF \E x \in spans : x.from = i /\ x.to <= to
          THEN <<Mark>> \o f[(CHOOSE x \in spans : x.from = i).to]
          ELSE <<s[i]>> \o f[i + 1]
  IN f[from]

LastOf(s, n) == SubSeq(s, Max({1, Len(s) - n + 1}), Len(s))

\* Mutant: the context is taken from what goes out now, however little it is.
EmissionShortContext(before, new, final) ==
  LET full  == before \o new
      base  == Len(before) + 1
      spans == Spans(full, base)
      hold  == IF final THEN Len(full) + 1 ELSE Pushed(HoldbackIndex(full, base), spans)
  IN [out     |-> Replaced(full, base, hold, spans),
      buffer  |-> SubSeq(full, hold, Len(full)),
      context |-> LastOf(SubSeq(full, base, hold - 1), ContextChars)]

\* _emit: what of `new`, which follows the context `before`, goes out, and what is kept.
\* The cap never moves the hold point: _holdback_index looks no further back.
Emission(before, new, final) ==
  LET full  == before \o new
      base  == Len(before) + 1
      spans == Spans(full, base)
      hold  == IF final THEN Len(full) + 1 ELSE Pushed(HoldbackIndex(full, base), spans)
  IN [out     |-> Replaced(full, base, hold, spans),
      buffer  |-> SubSeq(full, hold, Len(full)),
      context |-> LastOf(SubSeq(full, 1, hold - 1), ContextChars)]

-----------------------------------------------------------------------------
Feed(chunk) ==
  /\ ~ flushed /\ Len(text) + Len(chunk) <= MaxFed
  /\ text' = text \o chunk
  /\ LET e == Emission(context, buffer \o chunk, FALSE)
     IN out' = out \o e.out /\ buffer' = e.buffer /\ context' = e.context
  /\ UNCHANGED flushed

Flush ==
  /\ ~ flushed /\ flushed' = TRUE
  /\ LET e == Emission(context, buffer, TRUE)
     IN out' = out \o e.out /\ buffer' = e.buffer /\ context' = <<>>
  /\ UNCHANGED text

RedactorInit == text = <<>> /\ buffer = <<>> /\ context = <<>> /\ out = <<>> /\ flushed = FALSE
RedactorNext == (\E chunk \in Chunks : Feed(chunk)) \/ Flush
RedactorSpec == RedactorInit /\ [][RedactorNext]_redactorVars

-----------------------------------------------------------------------------
(* Properties                                                              *)

\* redact_text: the text fed at once, and flushed.
Whole(s) ==
  LET e == Emission(<<>>, s, FALSE)
  IN e.out \o Emission(e.context, e.buffer, TRUE).out

\* redactor.py:26-29: every chunking of a stream gives what redacting the text
\* whole gives.
ChunkInvariant == flushed => out = Whole(text)

\* Text in no part of which the rescue and the gaps' rescan (_scan_to_fixed_point)
\* find anything that the forward scan has not found.
Settled(s) ==
  \A m \in 0..Len(s) : \A n \in m..Len(s) : \A start \in 1..n - m + 1 :
    LET part == SubSeq(s, m + 1, n)
    IN Spans(part, start) = Scan(part, start, n - m + 1)

\* _holdback_index: what is held is the end of the text and no longer than the
\* longest match, so the cap never cuts a value; what was let go is followed by its
\* context, as wide as the lookbehinds need it (_emit).
HoldsTheEnd ==
  LET gone == Len(text) - Len(buffer)
  IN /\ buffer = SubSeq(text, gone + 1, Len(text))
     /\ Len(buffer) <= Longest
     /\ ~ flushed => context = LastOf(SubSeq(text, 1, gone), ContextChars)
=============================================================================
