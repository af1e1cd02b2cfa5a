---------------------------- MODULE GuardrailProofs ----------------------------
(***************************************************************************)
(* Proofs about the guardrail: of GuardrailStream, for every value of its  *)
(* constants and for the providers whose chunks give every stream of text  *)
(* a key of its own; of HoldBack, for every text and set of patterns.      *)
(***************************************************************************)
EXTENDS GuardrailStream, HoldBack, SequenceTheorems, WellFoundedInduction, TLAPS

-----------------------------------------------------------------------------
(* The stream: what the properties are about                               *)

Units == [of : Stream, n : Nat]

\* The streams the properties are about, and the key of each.
Streams == {s \in Stream : Given(s)}
Own(s)  == KeyOf(Declared(s))

\* No other stream has its residue sent as one of these, text comes declared, and
\* so does a finish, but for choice 0's.
OwnKeys ==
  \A e \in Shapes :
    /\ \A s \in Streams : ResidueStream(Own(Origin(e))) = s => Origin(e) = s
    /\ e.text => KeyOf(e) = Own(Origin(e))
    /\ e.finish => e.declared \/ e.choice = 0

-----------------------------------------------------------------------------
(* Lemmas about the operators.                                             *)

\* Concatenation associates.
LEMMA Associates ==
  \A x, y, z \in Seq(Units) : (x \o y) \o z = x \o (y \o z)
<1>1. ASSUME NEW x \in Seq(Units), NEW y \in Seq(Units), NEW z \in Seq(Units)
      PROVE  (x \o y) \o z = x \o (y \o z)
  BY ConcatAssociative
<1> QED BY <1>1

\* What a redactor lets go of and what it keeps are what it had and the new unit.
LEMMA Split ==
  ASSUME NEW v \in Seq(Units), NEW h \in Seq(Units), NEW u \in Units,
         NEW buf, buf = Append(h, u), NEW n \in 0..Len(buf)
  PROVE  /\ v \o SubSeq(buf, 1, n) \in Seq(Units)
         /\ SubSeq(buf, n + 1, Len(buf)) \in Seq(Units)
         /\ (v \o SubSeq(buf, 1, n)) \o SubSeq(buf, n + 1, Len(buf)) = Append(v \o h, u)
<1>1. buf \in Seq(Units) /\ Len(buf) \in Nat /\ Len(buf) = Len(h) + 1 /\ Len(h) \in Nat
  BY AppendProperties, LenProperties
<1>2. \A i \in 1..Len(buf) : buf[i] \in Units
  BY <1>1, ElementOfSeq
<1>3. SubSeq(buf, 1, n) \in Seq(Units) /\ SubSeq(buf, n + 1, Len(buf)) \in Seq(Units)
  <2>1. \A i \in 1..n : buf[i] \in Units
    BY <1>1, <1>2
  <2>2. \A i \in n + 1 .. Len(buf) : buf[i] \in Units
    BY <1>1, <1>2
  <2> QED BY <1>1, <2>1, <2>2, SubSeqProperties
<1>4. SubSeq(buf, 1, n) \o SubSeq(buf, n + 1, Len(buf)) = buf
  <2>1. 1 \in 1..Len(buf) + 1 /\ n \in 1 - 1..Len(buf) /\ Len(buf) \in n..Len(buf)
    BY <1>1
  <2>2. SubSeq(buf, 1, n) \o SubSeq(buf, n + 1, Len(buf)) = SubSeq(buf, 1, Len(buf))
    BY <1>1, <2>1, ConcatAdjacentSubSeq
  <2> QED BY <1>1, <2>2, SubSeqFull
<1>5. v \o SubSeq(buf, 1, n) \in Seq(Units)
  BY <1>3, ConcatProperties
<1>6. (v \o SubSeq(buf, 1, n)) \o SubSeq(buf, n + 1, Len(buf)) = v \o buf
  <2> DEFINE a == SubSeq(buf, 1, n)
             b == SubSeq(buf, n + 1, Len(buf))
  <2>1. a \in Seq(Units) /\ b \in Seq(Units) /\ a \o b = buf
    BY <1>3, <1>4
  <2>1a. (v \o a) \o b = v \o buf
    <3> HIDE DEF a, b
    <3>1. (v \o a) \o b = v \o (a \o b)
      BY <2>1, Associates
    <3> QED BY <2>1, <3>1
  <2> QED BY <2>1a
<1>7. v \o buf = Append(v \o h, u)
  <2>1. <<u>> \in Seq(Units) /\ buf = h \o <<u>>
    BY AppendIsConcat
  <2>2. v \o h \in Seq(Units)
    BY ConcatProperties
  <2>3. Append(v \o h, u) = (v \o h) \o <<u>>
    BY <2>2, AppendIsConcat
  <2> QED BY <2>1, <2>3, ConcatAssociative
<1> QED BY <1>3, <1>5, <1>6, <1>7

\* Of a redactor that held nothing, a unit stays held or nothing does.
LEMMA FirstUnit ==
  ASSUME NEW v \in Seq(Units), NEW h, h = << >>, NEW u \in Units,
         NEW buf, buf = Append(h, u), NEW n \in 0..Len(buf)
  PROVE  \/ v \o SubSeq(buf, 1, n) = v
         \/ /\ v \o SubSeq(buf, 1, n) = Append(v, u)
            /\ SubSeq(buf, n + 1, Len(buf)) = << >>
<1>1. << >> \in Seq(Units)
  OBVIOUS
<1>2. buf \in Seq(Units) /\ Len(buf) = 1 /\ buf = << >> \o <<u>> /\ <<u>> \in Seq(Units)
  BY <1>1, AppendProperties, AppendIsConcat
<1>3. buf = <<u>>
  BY <1>2, ConcatEmptySeq
<1>4. CASE n = 0
  <2>1. SubSeq(buf, 1, 0) = << >>
    BY SubSeqEmpty
  <2>2. v \o << >> = v
    BY ConcatEmptySeq
  <2> QED BY <1>4, <2>1, <2>2
<1>5. CASE n = 1
  <2>1. SubSeq(buf, 1, 1) = <<u>>
    BY <1>2, <1>3, SubSeqFull
  <2>2. SubSeq(buf, 2, 1) = << >>
    BY SubSeqEmpty
  <2>3. v \o <<u>> = Append(v, u)
    BY AppendIsConcat
  <2>4. n + 1 = 2 /\ Len(buf) = 1
    BY <1>2, <1>5
  <2> QED BY <1>5, <2>1, <2>2, <2>3, <2>4
<1> QED BY <1>2, <1>4, <1>5

\* The text of a stream, and one unit more.
LEMMA AllOfGrows ==
  ASSUME NEW s \in Stream, NEW n \in Nat
  PROVE  /\ AllOf(s, n) \in Seq(Units)
         /\ AllOf(s, 0) = << >>
         /\ Unit(s, n) \in Units
         /\ AllOf(s, n + 1) = Append(AllOf(s, n), Unit(s, n + 1))
<1>1. \A i \in Nat : Unit(s, i) \in Units
  BY DEF Unit, Units
<1>2. \A i \in Nat : AllOf(s, i) \in Seq(Units) /\ Len(AllOf(s, i)) = i
  BY <1>1 DEF AllOf
<1>3. AllOf(s, 0) = << >>
  BY DEF AllOf
<1>4. AllOf(s, n + 1) = Append(AllOf(s, n), Unit(s, n + 1))
  <2> DEFINE a == AllOf(s, n)
             b == Append(a, Unit(s, n + 1))
  <2>1. /\ b \in Seq(Units) /\ Len(b) = n + 1
        /\ \A i \in 1..n : b[i] = a[i]
        /\ b[n + 1] = Unit(s, n + 1)
    BY <1>1, <1>2, AppendProperties
  <2>2. \A i \in 1..n : a[i] = Unit(s, i)
    BY DEF AllOf
  <2>3. \A i \in 1..n + 1 : AllOf(s, n + 1)[i] = Unit(s, i)
    BY DEF AllOf
  <2> HIDE DEF a, b
  <2>4. \A i \in 1..n + 1 : AllOf(s, n + 1)[i] = b[i]
    BY <2>1, <2>2, <2>3
  <2>5. n + 1 \in Nat /\ AllOf(s, n + 1) \in Seq(Units) /\ Len(AllOf(s, n + 1)) = n + 1
    BY <1>2
  <2>6. AllOf(s, n + 1) = b
    BY <2>1, <2>4, <2>5, SeqEqual
  <2> QED BY <2>6 DEF b, a
<1> QED BY <1>1, <1>2, <1>3, <1>4

\* Shapes, streams and keys are what they are called.
LEMMA ShapesAre ==
  ASSUME OwnKeys
  PROVE  /\ \A e \in Shapes : /\ Origin(e) \in Stream /\ e.choice \in Indexes \cup {Raw}
                              /\ e.text \in BOOLEAN /\ e.finish \in BOOLEAN
                              /\ KeyOf(e) \in Key /\ Origin(e).choice = e.choice
         /\ \A s \in Streams : /\ s \in Stream /\ Own(s) \in Key
                               /\ ResidueStream(Own(s)) = s /\ Own(s).index = s.choice
<1>1. ASSUME NEW e \in Shape
      PROVE  /\ Origin(e) \in Stream /\ e.choice \in Indexes \cup {Raw}
             /\ e.text \in BOOLEAN /\ e.finish \in BOOLEAN
             /\ KeyOf(e) \in Key /\ Origin(e).choice = e.choice
  BY GuardrailAssumption DEF Shape, Origin, Stream, KeyOf, Key
<1>2. Shapes \subseteq Shape
  BY GuardrailAssumption
<1>3. ASSUME NEW s \in Streams
      PROVE  /\ s \in Stream /\ Own(s) \in Key
             /\ ResidueStream(Own(s)) = s /\ Own(s).index = s.choice
  <2>1. PICK e \in Shapes : s = Origin(e)
    BY DEF Streams, Given
  <2>2. s \in Stream /\ e \in Shape /\ s = [choice |-> e.choice, tool |-> e.tool]
    BY <1>2, <2>1 DEF Streams, Origin
  <2>3. e.choice \in Indexes \cup {Raw} /\ e.tool \in Tools \cup {NoTool}
    BY <2>2 DEF Shape
  <2>4. s.tool # NoTool => s.tool = 0 /\ s.choice = 0
    BY DEF Streams, Given
  <2>5. Own(s) = IF s.choice = Raw THEN [index |-> Raw, leaf |-> "raw"]
                 ELSE IF s.tool # NoTool THEN [index |-> s.tool, leaf |-> "arguments"]
                 ELSE [index |-> s.choice, leaf |-> "content"]
    BY DEF Own, KeyOf, Declared
  <2>6. /\ s.choice = e.choice /\ s.tool = e.tool /\ s.choice # NoIndex
        /\ s.choice = Raw => s.tool = NoTool
    BY <2>2, <2>3, <2>4, GuardrailAssumption
  <2>7. Own(s) \in Key /\ Own(s).index = s.choice
    BY <2>3, <2>4, <2>5, <2>6, GuardrailAssumption DEF Key
  <2>8. ResidueStream(Own(s)) = s
    <3>1. CASE s.tool = NoTool
      <4>1. Own(s).index = s.choice /\ Own(s).leaf # "arguments"
        BY <2>5, <3>1
      <4> QED BY <2>2, <2>6, <3>1, <4>1 DEF ResidueStream
    <3>2. CASE s.tool # NoTool
      <4>1. Own(s).index = s.choice /\ Own(s).leaf = "arguments" /\ s.tool = 0
        BY <2>4, <2>5, <2>6, <3>2
      <4> QED BY <2>2, <2>6, <3>2, <4>1 DEF ResidueStream
    <3> QED BY <3>1, <3>2
  <2> QED BY <2>2, <2>7, <2>8
<1> QED BY <1>1, <1>2, <1>3

-----------------------------------------------------------------------------
(* What a flush and a redaction do.                                        *)

Buffers == [Key -> Seq(Units)]
Views   == [Stream -> Seq(Units)]

\* A flush empties the redactors it is given, and touches no other.
LEMMA FlushedTyped ==
  ASSUME NEW keys \in SUBSET Key, NEW h \in Buffers, NEW v \in Views
  PROVE  /\ Flushed(keys, h, v).hold \in Buffers
         /\ Flushed(keys, h, v).view \in Views
         /\ \A k \in Key : Flushed(keys, h, v).hold[k] = IF k \in keys THEN << >> ELSE h[k]
         /\ \A s \in Stream :
              (\A k \in keys : ResidueStream(k) = s => h[k] = << >>)
                => Flushed(keys, h, v).view[s] = v[s]
<1> DEFINE from(s) == {x \in keys : ResidueStream(x) = s /\ h[x] # << >>}
           w(s) == IF from(s) = {} THEN v[s] ELSE v[s] \o h[CHOOSE x \in from(s) : TRUE]
<1>1. /\ Flushed(keys, h, v).hold = [k \in Key |-> IF k \in keys THEN << >> ELSE h[k]]
      /\ Flushed(keys, h, v).view = [s \in Stream |-> w(s)]
  BY DEF Flushed
<1>2. ASSUME NEW s \in Stream PROVE w(s) \in Seq(Units)
  <2>1. CASE from(s) = {}
    BY <2>1 DEF Views
  <2>2. CASE from(s) # {}
    <3>1. (CHOOSE x \in from(s) : TRUE) \in from(s)
      BY <2>2
    <3>2. h[CHOOSE x \in from(s) : TRUE] \in Seq(Units)
      BY <3>1 DEF Buffers
    <3>3. v[s] \in Seq(Units)
      BY DEF Views
    <3>4. v[s] \o h[CHOOSE x \in from(s) : TRUE] \in Seq(Units)
      BY <3>2, <3>3, ConcatProperties
    <3> QED BY <2>2, <3>4
  <2> QED BY <2>1, <2>2
<1>3. \A k \in Key : (IF k \in keys THEN << >> ELSE h[k]) \in Seq(Units)
  BY DEF Buffers
<1>4. ASSUME NEW s \in Stream, \A k \in keys : ResidueStream(k) = s => h[k] = << >>
      PROVE  w(s) = v[s]
  BY <1>4
<1> HIDE DEF w
<1> QED BY <1>1, <1>2, <1>3, <1>4 DEF Buffers, Views

\* Only the redactors of streams hold anything.
HeldIn(h) == \A k \in Key : h[k] # << >> => \E e \in Shapes : k = Own(Origin(e))

\* What a flush takes from the redactor of a stream goes to the end of its text.
LEMMA FlushedFacts ==
  ASSUME OwnKeys, NEW keys \in SUBSET Key, NEW h \in Buffers, NEW v \in Views, HeldIn(h)
  PROVE  /\ HeldIn(Flushed(keys, h, v).hold)
         /\ \A s \in Streams :
              /\ Own(s) \in keys =>
                   /\ Flushed(keys, h, v).view[s] = v[s] \o h[Own(s)]
                   /\ Flushed(keys, h, v).hold[Own(s)] = << >>
              /\ Own(s) \notin keys =>
                   /\ Flushed(keys, h, v).view[s] = v[s]
                   /\ Flushed(keys, h, v).hold[Own(s)] = h[Own(s)]
              /\ Flushed(keys, h, v).view[s] \o Flushed(keys, h, v).hold[Own(s)]
                   = v[s] \o h[Own(s)]
<1> DEFINE f == Flushed(keys, h, v)
<1>1. \A k \in Key : f.hold[k] = IF k \in keys THEN << >> ELSE h[k]
  BY DEF Flushed
<1>2. \A s \in Streams : /\ s \in Stream /\ Own(s) \in Key /\ ResidueStream(Own(s)) = s
                         /\ v[s] \in Seq(Units) /\ h[Own(s)] \in Seq(Units)
  BY ShapesAre DEF Buffers, Views
<1>3. ASSUME NEW s \in Streams, Own(s) \in keys
      PROVE  f.view[s] = v[s] \o h[Own(s)]
  <2> DEFINE from == {x \in keys : ResidueStream(x) = s /\ h[x] # << >>}
  <2>1. f.view[s] = IF from = {} THEN v[s] ELSE v[s] \o h[CHOOSE x \in from : TRUE]
    BY <1>2 DEF Flushed
  <2>2. ASSUME NEW x \in from PROVE x = Own(s)
    <3>1. PICK z \in Shapes : x = Own(Origin(z))
      BY DEF HeldIn
    <3> QED BY <1>2, <3>1 DEF OwnKeys
  <2>3. CASE from = {}
    <3>1. h[Own(s)] = << >>
      BY <1>2, <1>3, <2>3
    <3>2. v[s] \o << >> = v[s]
      BY <1>2, ConcatEmptySeq
    <3> QED BY <2>1, <2>3, <3>1, <3>2
  <2>4. CASE from # {}
    <3>1. (CHOOSE x \in from : TRUE) \in from
      BY <2>4
    <3> HIDE DEF from
    <3>2. (CHOOSE x \in from : TRUE) = Own(s)
      BY <2>2, <3>1
    <3> QED BY <2>1, <2>4, <3>2
  <2> QED BY <2>3, <2>4
<1>4. ASSUME NEW s \in Streams, Own(s) \notin keys
      PROVE  f.view[s] = v[s]
  <2>1. ASSUME NEW k \in keys, ResidueStream(k) = s PROVE h[k] = << >>
    <3>1. SUFFICES ASSUME h[k] # << >> PROVE FALSE
      OBVIOUS
    <3>2. PICK z \in Shapes : k = Own(Origin(z))
      BY <3>1 DEF HeldIn
    <3>3. Origin(z) = s
      BY <2>1, <3>2 DEF OwnKeys
    <3> QED BY <1>4, <2>1, <3>2, <3>3
  <2> DEFINE from == {x \in keys : ResidueStream(x) = s /\ h[x] # << >>}
  <2>2. f.view[s] = IF from = {} THEN v[s] ELSE v[s] \o h[CHOOSE x \in from : TRUE]
    BY <1>2 DEF Flushed
  <2>3. from = {}
    BY <2>1
  <2> QED BY <2>2, <2>3
<1>5. ASSUME NEW s \in Streams
      PROVE  f.view[s] \o f.hold[Own(s)] = v[s] \o h[Own(s)]
  <2>1. CASE Own(s) \in keys
    <3>1. f.view[s] = v[s] \o h[Own(s)] /\ f.hold[Own(s)] = << >>
      BY <1>1, <1>2, <1>3, <2>1
    <3>2. v[s] \o h[Own(s)] \in Seq(Units)
      BY <1>2, ConcatProperties
    <3>3. (v[s] \o h[Own(s)]) \o << >> = v[s] \o h[Own(s)]
      BY <3>2, ConcatEmptySeq
    <3> QED BY <3>1, <3>3
  <2>2. CASE Own(s) \notin keys
    <3>1. f.view[s] = v[s] /\ f.hold[Own(s)] = h[Own(s)]
      BY <1>1, <1>2, <1>4, <2>2
    <3> QED BY <3>1
  <2> QED BY <2>1, <2>2
<1>6. HeldIn(f.hold)
  BY <1>1 DEF HeldIn
<1> HIDE DEF f
<1>7. \A s \in Streams :
        /\ Own(s) \in keys => f.view[s] = v[s] \o h[Own(s)] /\ f.hold[Own(s)] = << >>
        /\ Own(s) \notin keys => f.view[s] = v[s] /\ f.hold[Own(s)] = h[Own(s)]
  BY <1>1, <1>2, <1>3, <1>4
<1> QED BY <1>5, <1>6, <1>7 DEF f

\* A redaction is about the stream of the chunk and its key, and loses nothing.
LEMMA RedactFacts ==
  ASSUME NEW e \in Shape, NEW h \in Buffers, NEW v \in Views, NEW n,
         Redact(e, h, v, n), sent'[Origin(e)] \in Nat
  PROVE  /\ held' \in Buffers /\ view' \in Views
         /\ \A k \in Key : k # KeyOf(e) => held'[k] = h[k]
         /\ \A s \in Stream : s # Origin(e) => view'[s] = v[s]
         /\ view'[Origin(e)] \o held'[KeyOf(e)]
              = Append(v[Origin(e)] \o h[KeyOf(e)], Unit(Origin(e), sent'[Origin(e)]))
         /\ h[KeyOf(e)] = << >> =>
              \/ view'[Origin(e)] = v[Origin(e)]
              \/ /\ view'[Origin(e)] = Append(v[Origin(e)], Unit(Origin(e), sent'[Origin(e)]))
                 /\ held'[KeyOf(e)] = << >>
<1> DEFINE k == KeyOf(e)
           s == Origin(e)
           u == Unit(s, sent'[s])
           buf == Append(h[k], u)
           a == v[s] \o SubSeq(buf, 1, n)
           b == SubSeq(buf, n + 1, Len(buf))
<1>1. k \in Key /\ s \in Stream
  BY GuardrailAssumption DEF Shape, Origin, Stream, KeyOf, Key
<1>2. v[s] \in Seq(Units) /\ h[k] \in Seq(Units) /\ u \in Units
  BY <1>1 DEF Buffers, Views, Unit, Units
<1>3. /\ n \in 0..Len(buf)
      /\ held' = [h EXCEPT ![k] = b]
      /\ view' = [v EXCEPT ![s] = a]
  BY DEF Redact
<1>4. a \in Seq(Units) /\ b \in Seq(Units) /\ a \o b = Append(v[s] \o h[k], u)
  BY <1>2, <1>3, Split
<1>7. h[k] = << >> => a = v[s] \/ (a = Append(v[s], u) /\ b = << >>)
  BY <1>2, <1>3, FirstUnit
<1> HIDE DEF a, b, k, s, u
<1>5. held' \in Buffers /\ held'[k] = b /\ \A x \in Key : x # k => held'[x] = h[x]
  BY <1>1, <1>3, <1>4 DEF Buffers
<1>6. view' \in Views /\ view'[s] = a /\ \A x \in Stream : x # s => view'[x] = v[x]
  BY <1>1, <1>3, <1>4 DEF Views
<1> QED BY <1>4, <1>5, <1>6, <1>7 DEF k, s, u

\* A chunk that is only passed on changes no text.
LEMMA PassFacts ==
  ASSUME NEW e \in Shape, NEW h \in Buffers, NEW v \in Views, NEW n,
         Pass(e, h, v, n), sent'[Origin(e)] \in Nat
  PROVE  /\ held' \in Buffers /\ view' \in Views
         /\ \A k \in Key : k # KeyOf(e) => held'[k] = h[k]
         /\ \A s \in Stream : s # Origin(e) => view'[s] = v[s]
         /\ e.text => view'[Origin(e)] \o held'[KeyOf(e)]
              = Append(v[Origin(e)] \o h[KeyOf(e)], Unit(Origin(e), sent'[Origin(e)]))
         /\ e.text /\ h[KeyOf(e)] = << >> =>
              \/ view'[Origin(e)] = v[Origin(e)]
              \/ /\ view'[Origin(e)] = Append(v[Origin(e)], Unit(Origin(e), sent'[Origin(e)]))
                 /\ held'[KeyOf(e)] = << >>
         /\ ~e.text => held' = h /\ view' = v
         /\ finished' = IF e.finish THEN finished \cup {e} ELSE finished
<1>1. CASE e.text
  <2>1. Redact(e, h, v, n)
    BY <1>1 DEF Pass
  <2> QED BY <1>1, <2>1, RedactFacts DEF Pass
<1>2. CASE ~e.text
  BY <1>2 DEF Pass
<1> QED BY <1>1, <1>2

-----------------------------------------------------------------------------
(* Types, and where a stream is.                                           *)

\* A chunk is redacted in a thread only while the handler waits for it or after
\* the client has left, and [DONE] is counted once it is passed on.
StageInv ==
  /\ phase \notin {"finally", "over"} => ending = "none"
  /\ job # Idle => phase = "offloaded" \/ ending = "left_busy"
  /\ job # Idle /\ job.finish => job.choice \in stopped
  /\ phase \notin {"finally", "over"} => (done <=> terms > 0)

Typed == TypeOK /\ StageInv

LEMMA SeqOfUnits == Seq([of : Stream, n : Nat]) = Seq(Units)
BY DEF Units

\* What the provider has said is counted, and a choice it finished says no more.
LEMMA ExpectFacts ==
  ASSUME TypeOK, NEW e \in Shapes, Expect(e)
  PROVE  /\ e \in Shape /\ Origin(e) \in Stream /\ KeyOf(e) \in Key
         /\ e.choice \in Indexes \cup {Raw}
         /\ sent' \in [Stream -> 0..MaxText] /\ sent'[Origin(e)] \in Nat
         /\ sent[Origin(e)] \in Nat
         /\ sent'[Origin(e)] = IF e.text THEN sent[Origin(e)] + 1 ELSE sent[Origin(e)]
         /\ \A s \in Stream : s # Origin(e) => sent'[s] = sent[s]
         /\ stopped' \subseteq Indexes \cup {Raw} /\ stopped \subseteq stopped'
         /\ e.finish => e.choice \in stopped'
         /\ e.choice \notin stopped
<1>1. e \in Shape
  BY GuardrailAssumption
<1>2. Origin(e) \in Stream /\ KeyOf(e) \in Key /\ e.choice \in Indexes \cup {Raw}
  BY <1>1, GuardrailAssumption DEF Shape, Origin, Stream, KeyOf, Key
<1>3. sent \in [Stream -> 0..MaxText] /\ stopped \subseteq Indexes \cup {Raw} /\ MaxText \in Nat
  BY GuardrailAssumption DEF TypeOK
<1> DEFINE o == Origin(e)
<1>4. /\ e.text => sent[o] < MaxText
      /\ e.choice \notin stopped
      /\ sent' = [sent EXCEPT ![o] = IF e.text THEN sent[o] + 1 ELSE sent[o]]
      /\ stopped' = IF e.finish THEN stopped \cup {e.choice} ELSE stopped
  BY DEF Expect
<1> HIDE DEF o
<1>5. o \in Stream
  BY <1>2 DEF o
<1>6. sent[o] \in 0..MaxText /\ (IF e.text THEN sent[o] + 1 ELSE sent[o]) \in 0..MaxText
  BY <1>3, <1>4, <1>5
<1>7. /\ sent' \in [Stream -> 0..MaxText]
      /\ sent'[o] = IF e.text THEN sent[o] + 1 ELSE sent[o]
      /\ \A s \in Stream : s # o => sent'[s] = sent[s]
  BY <1>3, <1>4, <1>5, <1>6
<1>8. sent'[o] \in Nat /\ sent[o] \in Nat
  BY <1>3, <1>5, <1>6, <1>7
<1> QED BY <1>1, <1>2, <1>3, <1>4, <1>7, <1>8 DEF o

\* The keys of a choice that finishes are keys.
LEMMA FinishingAre == \A e : Finishing(e) \in SUBSET Key
BY DEF Finishing

LEMMA TypedInit == Init => Typed
<1> SUFFICES ASSUME Init PROVE Typed
  OBVIOUS
<1>1. << >> \in Seq(Units) /\ MaxText \in Nat
  BY GuardrailAssumption
<1>2. held \in [Key -> Seq(Units)] /\ view \in [Stream -> Seq(Units)]
  BY <1>1 DEF Init
<1>3. sent \in [Stream -> 0..MaxText]
  BY <1>1 DEF Init
<1>4. TypeOK
  <2>1. /\ held \in [Key -> Seq([of : Stream, n : Nat])]
        /\ view \in [Stream -> Seq([of : Stream, n : Nat])]
    BY <1>2, SeqOfUnits
  <2>2. phase = "requested" /\ http = "none" /\ ending = "none" /\ conn = "none"
    BY DEF Init
  <2>3. stopped = {} /\ finished = {} /\ job = Idle /\ done = FALSE /\ terms = 0
    BY DEF Init
  <2>4. terms \in 0..2
    BY <2>3
  <2> QED BY <1>3, <2>1, <2>2, <2>3, <2>4 DEF TypeOK
<1> QED BY <1>4 DEF Init, Typed, StageInv

LEMMA TypedStep == Typed /\ [Next]_vars => Typed'
<1> SUFFICES ASSUME Typed, [Next]_vars PROVE Typed'
  OBVIOUS
<1> USE DEF Typed
<1>1. held \in Buffers /\ view \in Views
  BY SeqOfUnits DEF TypeOK, Buffers, Views
<1>2. ASSUME held' \in Buffers, view' \in Views
      PROVE  /\ held' \in [Key -> Seq([of : Stream, n : Nat])]
             /\ view' \in [Stream -> Seq([of : Stream, n : Nat])]
  BY <1>2, SeqOfUnits DEF Buffers, Views
<1>3. ASSUME NEW keys \in SUBSET Key,
             held' = Flushed(keys, held, view).hold, view' = Flushed(keys, held, view).view
      PROVE  /\ held' \in [Key -> Seq([of : Stream, n : Nat])]
             /\ view' \in [Stream -> Seq([of : Stream, n : Nat])]
  BY <1>1, <1>2, <1>3, FlushedTyped
<1>4. ASSUME NEW e \in Shapes, Handle(e) PROVE Typed'
  <2> DEFINE f == Flushed(Finishing(e), held, view)
  <2>1. Expect(e) /\ Hears /\ UNCHANGED <<Control, job, done, terms>>
    BY <1>4 DEF Handle
  <2>2. PICK n : Pass(e, f.hold, f.view, n)
    BY <1>4 DEF Handle
  <2>3. f.hold \in Buffers /\ f.view \in Views
    BY <1>1, FinishingAre, FlushedTyped
  <2> HIDE DEF f
  <2>4. e \in Shape /\ sent'[Origin(e)] \in Nat
    BY <2>1, ExpectFacts
  <2>5. /\ held' \in Buffers /\ view' \in Views
        /\ finished' = IF e.finish THEN finished \cup {e} ELSE finished
    BY <2>2, <2>3, <2>4, PassFacts
  <2>6. /\ finished' \subseteq {x \in Shapes : x.finish /\ x.choice \in stopped'}
        /\ stopped' \subseteq Indexes \cup {Raw}
    BY <2>1, <2>5, ExpectFacts DEF TypeOK
  <2>7. sent' \in [Stream -> 0..MaxText]
    BY <2>1, ExpectFacts
  <2>8. TypeOK'
    BY <1>2, <2>1, <2>5, <2>6, <2>7 DEF TypeOK, Control
  <2>9. stopped \subseteq stopped' /\ UNCHANGED <<phase, ending, job, done, terms>>
    BY <2>1, ExpectFacts DEF Control
  <2> QED BY <2>8, <2>9 DEF StageInv
<1>5. ASSUME NEW e \in Shapes, HandOver(e) PROVE Typed'
  <2>1. /\ Expect(e) /\ Hears /\ e.text
        /\ job' = e /\ phase' = "offloaded"
        /\ UNCHANGED <<http, ending, conn, finished, done, terms>>
        /\ held' = Flushed(Finishing(e), held, view).hold
        /\ view' = Flushed(Finishing(e), held, view).view
    BY <1>5 DEF HandOver
  <2>2. /\ held' \in [Key -> Seq([of : Stream, n : Nat])]
        /\ view' \in [Stream -> Seq([of : Stream, n : Nat])]
    BY <1>3, <2>1, FinishingAre
  <2>3. /\ finished' \subseteq {x \in Shapes : x.finish /\ x.choice \in stopped'}
        /\ stopped' \subseteq Indexes \cup {Raw}
        /\ sent' \in [Stream -> 0..MaxText]
    BY <2>1, ExpectFacts DEF TypeOK
  <2>4. job' # Idle
    BY <2>1 DEF Idle
  <2>5. TypeOK'
    BY <2>1, <2>2, <2>3, <2>4 DEF TypeOK
  <2> QED BY <2>1, <2>5, ExpectFacts DEF StageInv, Hears
<1>6. ASSUME TakeBack PROVE Typed'
  <2>1. job # Idle /\ job' = Idle /\ UNCHANGED <<http, ending, conn, stopped, done, terms>>
    BY <1>6 DEF TakeBack
  <2>2. CASE phase = "offloaded"
    <3>1. PICK n : Pass(job, held, view, n)
      BY <1>6, <2>2 DEF TakeBack
    <3>2. phase' = "streaming" /\ sent' = sent
      BY <1>6, <2>2 DEF TakeBack
    <3>3. job \in Shape /\ job \in Shapes
      BY <2>1, GuardrailAssumption DEF TypeOK
    <3>4. Origin(job) \in Stream
      BY <3>3, GuardrailAssumption DEF Shape, Origin, Stream
    <3>5. sent'[Origin(job)] \in Nat
      BY <3>2, <3>4, GuardrailAssumption DEF TypeOK
    <3>6. /\ held' \in Buffers /\ view' \in Views
          /\ finished' = IF job.finish THEN finished \cup {job} ELSE finished
      BY <1>1, <3>1, <3>3, <3>5, PassFacts
    <3>7. finished' \subseteq {x \in Shapes : x.finish /\ x.choice \in stopped'}
      BY <3>3, <3>6, <2>1 DEF TypeOK, StageInv
    <3> QED BY <1>2, <2>1, <2>2, <3>2, <3>6, <3>7 DEF TypeOK, StageInv
  <2>3. CASE phase # "offloaded"
    <3>1. UNCHANGED <<sent, phase, held, view, finished>>
      BY <1>6, <2>3 DEF TakeBack
    <3> QED BY <2>1, <2>3, <3>1 DEF TypeOK, StageInv
  <2> QED BY <2>2, <2>3
<1>7. ASSUME HandleDone PROVE Typed'
  <2>1. /\ held' \in [Key -> Seq([of : Stream, n : Nat])]
        /\ view' \in [Stream -> Seq([of : Stream, n : Nat])]
    BY <1>3, <1>7 DEF HandleDone
  <2>2. /\ terms' \in 0..2 /\ terms' > 0 /\ done' = TRUE
        /\ UNCHANGED <<phase, http, ending, conn, sent, stopped, finished, job>>
    BY <1>7 DEF HandleDone, Control, TypeOK
  <2>3. TypeOK'
    BY <2>1, <2>2 DEF TypeOK
  <2> QED BY <2>2, <2>3 DEF StageInv
<1>8. ASSUME Ends PROVE Typed'
  <2>1. /\ held' \in [Key -> Seq([of : Stream, n : Nat])]
        /\ view' \in [Stream -> Seq([of : Stream, n : Nat])]
    <3>1. CASE done
      BY <1>8, <3>1 DEF Ends, TypeOK
    <3>2. CASE ~done
      BY <1>3, <1>8, <3>2 DEF Ends
    <3> QED BY <3>1, <3>2
  <2>2. terms' \in 0..2
    BY <1>8 DEF Ends, TypeOK, StageInv
  <2> QED BY <1>8, <2>1, <2>2 DEF Ends, TypeOK, StageInv
<1>9. ASSUME UNCHANGED Text,
             BadRequest \/ Unreachable \/ ProviderAnswers \/ Mirror \/ MirrorFails \/ Start
               \/ TooDeep \/ LeavesEarly \/ Leaves \/ Finally
      PROVE  Typed'
  <2>1. /\ phase' \in {"requested", "refused", "answering", "streaming", "finally", "over"}
        /\ http' \in {"none", "bad_request", "unavailable", "mirrored", "internal_error", "streaming"}
        /\ ending' \in {"none", "clean", "broken", "aborted", "unstarted", "left", "left_busy"}
        /\ conn' \in {"none", "open", "released"}
    BY <1>9 DEF BadRequest, Unreachable, ProviderAnswers, Mirror, MirrorFails, Start,
                TooDeep, LeavesEarly, Leaves, Finally, TypeOK
  <2>2. UNCHANGED <<sent, stopped, held, view, finished, job, done, terms>>
    BY <1>9 DEF Text
  <2>3. TypeOK'
    BY <2>1, <2>2 DEF TypeOK
  <2>4. /\ phase' \notin {"finally", "over"} => phase \notin {"finally", "over"} /\ ending' = "none"
        /\ ending = "left_busy" => ending' = "left_busy"
        /\ phase = "offloaded" => ending' = "left_busy"
    BY <1>9 DEF BadRequest, Unreachable, ProviderAnswers, Mirror, MirrorFails, Start,
                TooDeep, Hears, LeavesEarly, Leaves, Finally, StageInv, TypeOK
  <2> QED BY <2>2, <2>3, <2>4 DEF StageInv
<1>10. CASE Breaks
  <2>1. terms' \in 0..2
    BY <1>10 DEF Breaks, TypeOK, StageInv
  <2>2. TypeOK'
    BY <1>10, <2>1 DEF Breaks, TypeOK
  <2> QED BY <1>10, <2>2 DEF Breaks, StageInv
<1>11. CASE UNCHANGED vars
  BY <1>11 DEF vars, TypeOK, StageInv
<1>12. BadRequest \/ Unreachable \/ ProviderAnswers \/ Mirror \/ MirrorFails \/ Start
         \/ TooDeep \/ LeavesEarly \/ Leaves \/ Finally => UNCHANGED Text
  BY DEF BadRequest, Unreachable, ProviderAnswers, Mirror, MirrorFails, Start,
         TooDeep, LeavesEarly, Leaves, Finally
<1> QED
  BY <1>4, <1>5, <1>6, <1>7, <1>8, <1>9, <1>10, <1>11, <1>12 DEF Next, Open, Hear, End

\* Every variable has its type; the units a client reads and a redactor holds are
\* units of some stream.
THEOREM StreamIsTyped == Spec => []TypeOK
<1>1. Typed => TypeOK
  BY DEF Typed
<1> QED BY <1>1, TypedInit, TypedStep, PTL DEF Spec

-----------------------------------------------------------------------------
(* The text of the streams.                                                *)

\* A redaction under way is of a chunk with text, whose choice the client has not
\* seen finished; if it finishes it, the rest of the choice is with the client.
JobInv ==
  job # Idle =>
    /\ job \in Shapes /\ job.text /\ sent[Origin(job)] > 0
    /\ \A e \in finished : e.choice # job.choice
    /\ job.finish => \A s \in Streams :
         s.choice = job.choice => /\ view[s] = AllOf(s, sent[s] - InJob(s))
                                  /\ held[Own(s)] = << >>

\* What the client has and what is held of a stream are its beginning, in order.
OrderInv ==
  ending # "left_busy" =>
    \A s \in Streams : view[s] \o held[Own(s)] = AllOf(s, sent[s] - InJob(s))

\* What may be missing of a choice that chunk e has finished is e's own text.
Heard(s, e, v, h, n) ==
  \/ v[s] = AllOf(s, n) /\ h[Own(s)] = << >>
  \/ e.text /\ Origin(e) = s /\ v[s] = AllOf(s, n - 1)

FinishInv ==
  \A s \in Streams : \A e \in finished : s.choice = e.choice => Heard(s, e, view, held, sent[s])

TextInv == HeldIn(held) /\ JobInv /\ OrderInv /\ FinishInv

LEMMA TextInit == OwnKeys /\ Init => TextInv
<1> SUFFICES ASSUME OwnKeys, Init PROVE TextInv
  OBVIOUS
<1>1. ASSUME NEW s \in Streams
      PROVE  view[s] = << >> /\ held[Own(s)] = << >> /\ sent[s] = 0 /\ InJob(s) = 0
  <2>1. s \in Stream /\ Own(s) \in Key
    BY ShapesAre
  <2> QED BY <2>1 DEF Init, InJob
<1>2. ASSUME NEW s \in Streams PROVE << >> \o << >> = AllOf(s, sent[s] - InJob(s))
  <2>1. AllOf(s, 0) = << >> /\ << >> \in Seq(Units)
    BY ShapesAre, AllOfGrows
  <2>2. << >> \o << >> = << >>
    BY <2>1, ConcatEmptySeq
  <2>3. sent[s] - InJob(s) = 0
    BY <1>1
  <2> QED BY <2>1, <2>2, <2>3
<1>3. HeldIn(held) /\ JobInv /\ FinishInv
  BY DEF Init, HeldIn, JobInv, FinishInv
<1> QED BY <1>1, <1>2, <1>3 DEF TextInv, OrderInv

\* Streams are told apart by their keys.
LEMMA OwnIsOwn ==
  ASSUME OwnKeys, NEW s \in Streams, NEW e \in Shapes, Own(s) = Own(Origin(e))
  PROVE  s = Origin(e)
BY ShapesAre DEF OwnKeys

\* While the handler runs, no thread redacts and what was said is accounted for.
LEMMA Streaming ==
  ASSUME OwnKeys, Typed, TextInv, phase = "streaming"
  PROVE  /\ job = Idle /\ ending = "none"
         /\ \A s \in Streams : /\ InJob(s) = 0 /\ sent[s] \in Nat
                               /\ view[s] \o held[Own(s)] = AllOf(s, sent[s])
<1>1. job = Idle /\ ending = "none"
  BY DEF Typed, StageInv
<1>2. ASSUME NEW s \in Streams
      PROVE  /\ InJob(s) = 0 /\ sent[s] \in Nat
             /\ view[s] \o held[Own(s)] = AllOf(s, sent[s])
  <2>1. InJob(s) = 0
    BY <1>1 DEF InJob
  <2>2. sent[s] \in Nat
    BY ShapesAre, GuardrailAssumption DEF Typed, TypeOK
  <2>3. view[s] \o held[Own(s)] = AllOf(s, sent[s] - InJob(s))
    BY <1>1 DEF TextInv, OrderInv
  <2>4. sent[s] - InJob(s) = sent[s]
    BY <2>1, <2>2
  <2> QED BY <2>1, <2>2, <2>3, <2>4
<1> QED BY <1>1, <1>2

\* A flush moves text from the redactors to the client and changes none of it.
LEMMA FlushText ==
  ASSUME OwnKeys, Typed, TextInv, phase = "streaming", NEW keys \in SUBSET Key,
         NEW f, f = Flushed(keys, held, view)
  PROVE  /\ f.hold \in Buffers /\ f.view \in Views /\ HeldIn(f.hold)
         /\ \A s \in Streams :
              /\ f.view[s] \o f.hold[Own(s)] = view[s] \o held[Own(s)]
              /\ \A e \in finished : s.choice = e.choice => Heard(s, e, f.view, f.hold, sent[s])
              /\ Own(s) \in keys => /\ f.view[s] = view[s] \o held[Own(s)]
                                    /\ f.hold[Own(s)] = << >>
<1>1. held \in Buffers /\ view \in Views /\ HeldIn(held)
  BY SeqOfUnits DEF Typed, TypeOK, Buffers, Views, TextInv
<1>2. f.hold \in Buffers /\ f.view \in Views
  BY <1>1, FlushedTyped
<1>3. /\ HeldIn(f.hold)
      /\ \A s \in Streams :
           /\ Own(s) \in keys => f.view[s] = view[s] \o held[Own(s)] /\ f.hold[Own(s)] = << >>
           /\ Own(s) \notin keys => f.view[s] = view[s] /\ f.hold[Own(s)] = held[Own(s)]
           /\ f.view[s] \o f.hold[Own(s)] = view[s] \o held[Own(s)]
  BY <1>1, FlushedFacts
<1>4. ASSUME NEW s \in Streams, NEW e \in finished, s.choice = e.choice
      PROVE  Heard(s, e, f.view, f.hold, sent[s])
  <2>1. Heard(s, e, view, held, sent[s])
    BY <1>4 DEF TextInv, FinishInv
  <2>2. CASE Own(s) \notin keys
    BY <1>3, <2>1, <2>2 DEF Heard
  <2>3. CASE Own(s) \in keys
    <3>1. f.view[s] = AllOf(s, sent[s]) /\ f.hold[Own(s)] = << >>
      BY <1>3, <2>3, Streaming
    <3> QED BY <3>1 DEF Heard
  <2> QED BY <2>2, <2>3
<1> QED BY <1>2, <1>3, <1>4

\* A chunk that is handled at once: its unit follows the others of its stream.
LEMMA HandleText ==
  ASSUME OwnKeys, Typed, TextInv, NEW e \in Shapes, Handle(e)
  PROVE  TextInv'
<1> DEFINE f == Flushed(Finishing(e), held, view)
           o == Origin(e)
<1>1. Expect(e) /\ phase = "streaming" /\ UNCHANGED <<phase, ending, job>>
  BY DEF Handle, Hears, Control
<1>2. PICK n : Pass(e, f.hold, f.view, n)
  BY DEF Handle
<1>3. /\ f.hold \in Buffers /\ f.view \in Views /\ HeldIn(f.hold)
      /\ \A s \in Streams :
           /\ f.view[s] \o f.hold[Own(s)] = view[s] \o held[Own(s)]
           /\ \A z \in finished : s.choice = z.choice => Heard(s, z, f.view, f.hold, sent[s])
           /\ Own(s) \in Finishing(e) => /\ f.view[s] = view[s] \o held[Own(s)]
                                         /\ f.hold[Own(s)] = << >>
  BY <1>1, FinishingAre, FlushText
<1>4. /\ job = Idle /\ ending = "none"
      /\ \A s \in Streams : /\ sent[s] \in Nat
                            /\ view[s] \o held[Own(s)] = AllOf(s, sent[s])
  BY <1>1, Streaming
<1>5. /\ o \in Stream /\ o.choice = e.choice
      /\ e.text => KeyOf(e) = Own(o)
      /\ e.finish => e.declared \/ e.choice = 0
  BY ShapesAre DEF OwnKeys
<1>6. /\ e \in Shape /\ sent'[o] \in Nat
      /\ sent'[o] = IF e.text THEN sent[o] + 1 ELSE sent[o]
      /\ \A s \in Stream : s # o => sent'[s] = sent[s]
      /\ e.choice \notin stopped
  BY <1>1, ExpectFacts DEF Typed
<1> HIDE DEF f, o
<1>7. /\ held' \in Buffers /\ view' \in Views
      /\ \A k \in Key : k # KeyOf(e) => held'[k] = f.hold[k]
      /\ \A s \in Stream : s # o => view'[s] = f.view[s]
      /\ e.text => view'[o] \o held'[KeyOf(e)]
           = Append(f.view[o] \o f.hold[KeyOf(e)], Unit(o, sent'[o]))
      /\ e.text /\ f.hold[KeyOf(e)] = << >> =>
           \/ view'[o] = f.view[o]
           \/ view'[o] = Append(f.view[o], Unit(o, sent'[o])) /\ held'[KeyOf(e)] = << >>
      /\ ~e.text => held' = f.hold /\ view' = f.view
      /\ finished' = IF e.finish THEN finished \cup {e} ELSE finished
  BY <1>2, <1>3, <1>6, PassFacts DEF o
<1>8. ASSUME NEW s \in Streams, s # o \/ ~e.text
      PROVE  view'[s] = f.view[s] /\ held'[Own(s)] = f.hold[Own(s)] /\ sent'[s] = sent[s]
  <2>1. s \in Stream /\ Own(s) \in Key
    BY ShapesAre
  <2>2. CASE ~e.text
    BY <1>6, <1>7, <2>1, <2>2
  <2>3. CASE e.text
    <3>1. s # o /\ Own(s) # Own(o)
      BY <1>8, <2>3, OwnIsOwn DEF o
    <3> QED BY <1>5, <1>6, <1>7, <2>1, <2>3, <3>1
  <2> QED BY <2>2, <2>3
<1>9. ASSUME NEW s \in Streams
      PROVE  view'[s] \o held'[Own(s)] = AllOf(s, sent'[s])
  <2>1. CASE s # o \/ ~e.text
    BY <1>3, <1>4, <1>8, <2>1
  <2>2. CASE s = o /\ e.text
    <3>1. view'[s] \o held'[Own(s)] = Append(AllOf(s, sent[s]), Unit(s, sent[s] + 1))
      BY <1>3, <1>4, <1>5, <1>6, <1>7, <2>2
    <3>2. s \in Stream /\ sent[s] \in Nat
      BY <1>4, ShapesAre
    <3>3. AllOf(s, sent[s] + 1) = Append(AllOf(s, sent[s]), Unit(s, sent[s] + 1))
      BY <3>2, AllOfGrows
    <3> QED BY <1>6, <2>2, <3>1, <3>3
  <2> QED BY <2>1, <2>2
<1>10. OrderInv'
  <2>1. job' = Idle
    BY <1>1, <1>4
  <2>2. ASSUME NEW s \in Streams
        PROVE  (view[s] \o held[Own(s)] = AllOf(s, sent[s] - InJob(s)))'
    <3>1. InJob(s)' = 0
      BY <2>1 DEF InJob
    <3>2. sent'[s] \in Nat
      BY <1>4, <1>6, ShapesAre
    <3>3. sent'[s] - InJob(s)' = sent'[s]
      BY <3>1, <3>2
    <3> QED BY <1>9, <3>3
  <2> QED BY <2>2 DEF OrderInv
<1>11. HeldIn(held)'
  <2>1. ASSUME NEW k \in Key, held'[k] # << >> PROVE \E z \in Shapes : k = Own(Origin(z))
    <3>1. CASE e.text /\ k = KeyOf(e)
      BY <1>5, <3>1 DEF o
    <3>2. CASE ~(e.text /\ k = KeyOf(e))
      <4>1. held'[k] = f.hold[k]
        BY <1>7, <3>2
      <4> QED BY <1>3, <2>1, <4>1 DEF HeldIn
    <3> QED BY <3>1, <3>2
  <2> QED BY <2>1 DEF HeldIn
<1>12. FinishInv'
  <2>1. ASSUME NEW s \in Streams, NEW z \in finished', s.choice = z.choice
        PROVE  Heard(s, z, view', held', sent'[s])
    <3>1. CASE z \in finished
      <4>1. s # o
        BY <1>5, <1>6, <2>1, <3>1 DEF Typed, TypeOK
      <4> QED BY <1>3, <1>8, <2>1, <3>1, <4>1 DEF Heard
    <3>2. CASE z \notin finished
      <4>1. z = e /\ e.finish /\ s.choice = e.choice
        BY <1>7, <2>1, <3>2
      <4>2. Own(s) \in Key /\ Own(s).index = e.choice
        BY <4>1, ShapesAre
      <4>3. Own(s) \in Finishing(e)
        BY <1>5, <4>1, <4>2 DEF Finishing
      <4>4. f.view[s] = AllOf(s, sent[s]) /\ f.hold[Own(s)] = << >>
        BY <1>3, <1>4, <4>3
      <4>5. CASE s # o \/ ~e.text
        BY <1>8, <4>4, <4>5 DEF Heard
      <4>6. CASE s = o /\ e.text
        <5>1. \/ view'[s] = f.view[s]
              \/ view'[s] = Append(f.view[s], Unit(s, sent'[s])) /\ held'[Own(s)] = << >>
          BY <1>5, <1>7, <4>4, <4>6
        <5>2. sent'[s] = sent[s] + 1 /\ sent[s] \in Nat /\ s \in Stream
          BY <1>4, <1>6, <4>6, ShapesAre
        <5>3. sent'[s] - 1 = sent[s]
          BY <5>2
        <5>4. AllOf(s, sent'[s]) = Append(AllOf(s, sent[s]), Unit(s, sent'[s]))
          BY <5>2, AllOfGrows
        <5>5. Origin(e) = s
          BY <4>6 DEF o
        <5> QED BY <4>1, <4>4, <4>6, <5>1, <5>3, <5>4, <5>5 DEF Heard
      <4> QED BY <4>5, <4>6
    <3> QED BY <3>1, <3>2
  <2> QED BY <2>1 DEF FinishInv
<1>13. JobInv'
  BY <1>1, <1>4 DEF JobInv
<1> QED BY <1>10, <1>11, <1>12, <1>13 DEF TextInv

\* A chunk that is handed to a thread: its unit is in the thread.
LEMMA HandOverText ==
  ASSUME OwnKeys, Typed, TextInv, NEW e \in Shapes, HandOver(e)
  PROVE  TextInv'
<1> DEFINE o == Origin(e)
<1>1. /\ Expect(e) /\ phase = "streaming" /\ e.text /\ job' = e
      /\ UNCHANGED <<ending, finished>>
  BY DEF HandOver, Hears
<1>2. /\ held' \in Buffers /\ view' \in Views /\ HeldIn(held')
      /\ \A s \in Streams :
           /\ view'[s] \o held'[Own(s)] = view[s] \o held[Own(s)]
           /\ \A z \in finished : s.choice = z.choice => Heard(s, z, view', held', sent[s])
           /\ Own(s) \in Finishing(e) => /\ view'[s] = view[s] \o held[Own(s)]
                                         /\ held'[Own(s)] = << >>
  <2> DEFINE f == Flushed(Finishing(e), held, view)
  <2>1. held' = f.hold /\ view' = f.view
    BY DEF HandOver
  <2>2. Finishing(e) \in SUBSET Key
    BY FinishingAre
  <2>3. /\ f.hold \in Buffers /\ f.view \in Views /\ HeldIn(f.hold)
        /\ \A s \in Streams :
             /\ f.view[s] \o f.hold[Own(s)] = view[s] \o held[Own(s)]
             /\ \A z \in finished : s.choice = z.choice => Heard(s, z, f.view, f.hold, sent[s])
             /\ Own(s) \in Finishing(e) => /\ f.view[s] = view[s] \o held[Own(s)]
                                           /\ f.hold[Own(s)] = << >>
    BY <1>1, <2>2, FlushText
  <2> HIDE DEF f
  <2> QED BY <2>1, <2>3
<1>3. \A s \in Streams : sent[s] \in Nat /\ view[s] \o held[Own(s)] = AllOf(s, sent[s])
  BY <1>1, Streaming
<1>4. /\ o \in Stream /\ o.choice = e.choice /\ sent[o] \in Nat
      /\ e.finish => e.declared \/ e.choice = 0
  BY <1>1, ShapesAre, ExpectFacts DEF OwnKeys, Typed
<1>5. /\ sent'[o] = sent[o] + 1 /\ e.choice \notin stopped
      /\ \A s \in Stream : s # o => sent'[s] = sent[s]
  BY <1>1, ExpectFacts DEF Typed
<1>6. job' # Idle
  BY <1>1 DEF Idle
<1>10. ASSUME NEW s \in Streams PROVE sent'[s] - InJob(s)' = sent[s]
  <2>1. InJob(s)' = IF s = o THEN 1 ELSE 0
    BY <1>1, <1>6 DEF InJob
  <2>2. s \in Stream /\ sent[s] \in Nat
    BY <1>3, ShapesAre
  <2> HIDE DEF o
  <2> QED BY <1>5, <2>1, <2>2
<1>7. OrderInv'
  <2>1. ASSUME NEW s \in Streams
        PROVE  (view[s] \o held[Own(s)] = AllOf(s, sent[s] - InJob(s)))'
    BY <1>2, <1>3, <1>10
  <2> QED BY <2>1 DEF OrderInv
<1>8. FinishInv'
  <2>1. ASSUME NEW s \in Streams, NEW z \in finished', s.choice = z.choice
        PROVE  Heard(s, z, view', held', sent'[s])
    <3>1. s # o
      BY <1>1, <1>4, <1>5, <2>1 DEF Typed, TypeOK
    <3>2. sent'[s] = sent[s] /\ z \in finished
      BY <1>1, <1>5, <2>1, <3>1, ShapesAre
    <3> QED BY <1>2, <2>1, <3>2
  <2> QED BY <2>1 DEF FinishInv
<1>9. JobInv'
  <2>1. sent'[o] > 0
    <3>1. sent[o] \in Nat /\ sent'[o] = sent[o] + 1
      BY <1>4, <1>5
    <3> HIDE DEF o
    <3> QED BY <3>1
  <2>2. \A z \in finished' : z.choice # e.choice
    BY <1>1, <1>5 DEF Typed, TypeOK
  <2>3. ASSUME e.finish, NEW s \in Streams, s.choice = e.choice
        PROVE  view'[s] = AllOf(s, sent'[s] - InJob(s)') /\ held'[Own(s)] = << >>
    <3>1. Own(s) \in Key /\ Own(s).index = e.choice
      BY <2>3, ShapesAre
    <3>2. Own(s) \in Finishing(e)
      BY <1>4, <2>3, <3>1 DEF Finishing
    <3>3. view'[s] = AllOf(s, sent[s]) /\ held'[Own(s)] = << >>
      BY <1>2, <1>3, <3>2
    <3> QED BY <1>10, <3>3
  <2> QED BY <1>1, <1>6, <2>1, <2>2, <2>3 DEF JobInv
<1> QED BY <1>2, <1>7, <1>8, <1>9 DEF TextInv

\* A thread that ends while the handler waits: its unit follows the others; and
\* one that nobody waits for changes nothing.
LEMMA TakeBackText ==
  ASSUME OwnKeys, Typed, TextInv, TakeBack
  PROVE  TextInv'
<1> DEFINE o == Origin(job)
<1>1. job # Idle /\ job' = Idle /\ UNCHANGED <<ending, stopped>>
  BY DEF TakeBack
<1>2. /\ job \in Shapes /\ job \in Shape /\ job.text
      /\ o \in Stream /\ o.choice = job.choice /\ KeyOf(job) = Own(o)
      /\ sent[o] > 0 /\ sent[o] \in Nat
  BY <1>1, ShapesAre, GuardrailAssumption DEF OwnKeys, TextInv, JobInv, Typed, TypeOK
<1>3. JobInv'
  BY <1>1 DEF JobInv
<1>4. CASE phase # "offloaded"
  <2>1. UNCHANGED <<sent, phase, held, view, finished>> /\ ending = "left_busy"
    BY <1>1, <1>4 DEF TakeBack, Typed, StageInv
  <2> QED BY <1>1, <1>3, <2>1 DEF TextInv, HeldIn, OrderInv, FinishInv
<1>5. CASE phase = "offloaded"
  <2>1. PICK n : Pass(job, held, view, n)
    BY <1>5 DEF TakeBack
  <2>2. sent' = sent /\ ending = "none"
    BY <1>5 DEF TakeBack, Typed, StageInv
  <2>3. held \in Buffers /\ view \in Views /\ sent'[o] \in Nat
    BY <1>2, <2>2, SeqOfUnits DEF Typed, TypeOK, Buffers, Views
  <2>4. /\ \A k \in Key : k # Own(o) => held'[k] = held[k]
        /\ \A s \in Stream : s # o => view'[s] = view[s]
        /\ view'[o] \o held'[Own(o)] = Append(view[o] \o held[Own(o)], Unit(o, sent[o]))
        /\ held[Own(o)] = << >> =>
             \/ view'[o] = view[o]
             \/ view'[o] = Append(view[o], Unit(o, sent[o])) /\ held'[Own(o)] = << >>
        /\ finished' = IF job.finish THEN finished \cup {job} ELSE finished
    <3>1. /\ \A k \in Key : k # KeyOf(job) => held'[k] = held[k]
          /\ \A s \in Stream : s # Origin(job) => view'[s] = view[s]
          /\ view'[Origin(job)] \o held'[KeyOf(job)]
               = Append(view[Origin(job)] \o held[KeyOf(job)], Unit(Origin(job), sent'[Origin(job)]))
          /\ held[KeyOf(job)] = << >> =>
               \/ view'[Origin(job)] = view[Origin(job)]
               \/ /\ view'[Origin(job)]
                       = Append(view[Origin(job)], Unit(Origin(job), sent'[Origin(job)]))
                  /\ held'[KeyOf(job)] = << >>
          /\ finished' = IF job.finish THEN finished \cup {job} ELSE finished
      BY <1>2, <2>1, <2>3, PassFacts
    <3> QED BY <1>2, <2>2, <3>1
  <2> HIDE DEF o
  <2>5. ASSUME NEW s \in Streams, s # o
        PROVE  view'[s] = view[s] /\ held'[Own(s)] = held[Own(s)]
    <3>1. s \in Stream /\ Own(s) \in Key /\ Own(s) # Own(o)
      BY <1>2, <2>5, OwnIsOwn, ShapesAre DEF o
    <3> QED BY <2>4, <2>5, <3>1
  <2>6. OrderInv'
    <3>1. ASSUME NEW s \in Streams PROVE InJob(s)' = 0 /\ sent[s] \in Nat
      BY <1>1, ShapesAre, GuardrailAssumption DEF InJob, Typed, TypeOK
    <3>2. ASSUME NEW s \in Streams
          PROVE  view'[s] \o held'[Own(s)] = AllOf(s, sent[s])
      <4>1. view[s] \o held[Own(s)] = AllOf(s, sent[s] - InJob(s))
        BY <2>2 DEF TextInv, OrderInv
      <4>2. CASE s # o
        <5>1. InJob(s) = 0
          BY <4>2 DEF InJob, o
        <5>2. sent[s] - InJob(s) = sent[s]
          BY <3>1, <5>1
        <5> QED BY <2>5, <4>1, <4>2, <5>2
      <4>3. CASE s = o
        <5>1. InJob(s) = 1
          BY <1>1, <4>3 DEF InJob, o
        <5>2. sent[s] - 1 \in Nat /\ (sent[s] - 1) + 1 = sent[s]
          BY <1>2, <4>3
        <5>3. AllOf(s, (sent[s] - 1) + 1)
                = Append(AllOf(s, sent[s] - 1), Unit(s, (sent[s] - 1) + 1))
          BY <5>2, AllOfGrows, ShapesAre
        <5>4. view'[s] \o held'[Own(s)] = Append(AllOf(s, sent[s] - 1), Unit(s, sent[s]))
          BY <2>4, <4>1, <4>3, <5>1
        <5> QED BY <5>2, <5>3, <5>4
      <4> QED BY <4>2, <4>3
    <3>3. ASSUME NEW s \in Streams
          PROVE  (view[s] \o held[Own(s)] = AllOf(s, sent[s] - InJob(s)))'
      <4>1. sent'[s] - InJob(s)' = sent[s]
        BY <2>2, <3>1
      <4> QED BY <3>2, <4>1
    <3> QED BY <3>3 DEF OrderInv
  <2>7. HeldIn(held)'
    BY <1>2, <2>4 DEF HeldIn, TextInv, o
  <2>8. FinishInv'
    <3>1. ASSUME NEW s \in Streams, NEW z \in finished', s.choice = z.choice
          PROVE  Heard(s, z, view', held', sent'[s])
      <4>1. CASE z \in finished
        <5>1. s # o
          BY <1>1, <1>2, <3>1, <4>1 DEF TextInv, JobInv
        <5>2. Heard(s, z, view, held, sent[s])
          BY <3>1, <4>1 DEF TextInv, FinishInv
        <5> QED BY <2>2, <2>5, <5>1, <5>2 DEF Heard
      <4>2. CASE z \notin finished
        <5>1. z = job /\ job.finish /\ s.choice = job.choice
          BY <2>4, <3>1, <4>2
        <5>2. view[s] = AllOf(s, sent[s] - InJob(s)) /\ held[Own(s)] = << >>
          BY <1>1, <5>1 DEF TextInv, JobInv
        <5>3. s \in Stream /\ sent[s] \in Nat
          BY ShapesAre, GuardrailAssumption DEF Typed, TypeOK
        <5>4. CASE s # o
          <6>1. InJob(s) = 0
            BY <5>4 DEF InJob, o
          <6>2. sent[s] - InJob(s) = sent[s]
            BY <5>3, <6>1
          <6> QED BY <2>2, <2>5, <5>2, <5>4, <6>2 DEF Heard
        <5>5. CASE s = o
          <6>1. InJob(s) = 1
            BY <1>1, <5>5 DEF InJob, o
          <6>2. sent[s] - 1 \in Nat /\ (sent[s] - 1) + 1 = sent[s]
            BY <1>2, <5>5
          <6>3. AllOf(s, (sent[s] - 1) + 1)
                  = Append(AllOf(s, sent[s] - 1), Unit(s, (sent[s] - 1) + 1))
            BY <5>3, <6>2, AllOfGrows
          <6>4. view[s] = AllOf(s, sent[s] - 1)
            BY <5>2, <6>1
          <6>5. \/ view'[s] = AllOf(s, sent[s] - 1)
                \/ view'[s] = AllOf(s, sent[s]) /\ held'[Own(s)] = << >>
            BY <2>4, <5>2, <5>5, <6>2, <6>3, <6>4
          <6>6. Origin(job) = s
            BY <5>5 DEF o
          <6> QED BY <1>2, <2>2, <5>1, <6>5, <6>6 DEF Heard
        <5> QED BY <5>4, <5>5
      <4> QED BY <4>1, <4>2
    <3> QED BY <3>1 DEF FinishInv
  <2> QED BY <1>3, <2>6, <2>7, <2>8 DEF TextInv
<1> QED BY <1>4, <1>5

\* A flush of everything, at [DONE] or at the end.
LEMMA FlushAllText ==
  ASSUME OwnKeys, Typed, TextInv, phase = "streaming",
         held' = Flushed(Key, held, view).hold, view' = Flushed(Key, held, view).view,
         UNCHANGED <<sent, stopped, finished, job>>
  PROVE  /\ TextInv'
         /\ \A k \in Key : held'[k] = << >>
<1> DEFINE f == Flushed(Key, held, view)
<1>1. held' = f.hold /\ view' = f.view /\ Key \in SUBSET Key
  OBVIOUS
<1>2. /\ HeldIn(held')
      /\ \A s \in Streams :
           /\ view'[s] \o held'[Own(s)] = view[s] \o held[Own(s)]
           /\ \A z \in finished : s.choice = z.choice => Heard(s, z, view', held', sent[s])
  <2>1. Key \in SUBSET Key
    OBVIOUS
  <2>2. /\ HeldIn(f.hold)
        /\ \A s \in Streams :
             /\ f.view[s] \o f.hold[Own(s)] = view[s] \o held[Own(s)]
             /\ \A z \in finished : s.choice = z.choice => Heard(s, z, f.view, f.hold, sent[s])
    BY <2>1, FlushText
  <2> HIDE DEF f
  <2> QED BY <1>1, <2>2
<1>3. JobInv' /\ FinishInv'
  BY <1>2, Streaming DEF JobInv, FinishInv
<1>4. ASSUME NEW s \in Streams
      PROVE  (view[s] \o held[Own(s)] = AllOf(s, sent[s] - InJob(s)))'
  <2>1. InJob(s)' = 0 /\ sent'[s] \in Nat /\ sent'[s] = sent[s]
    BY Streaming DEF InJob
  <2>2. sent'[s] - InJob(s)' = sent[s]
    BY <2>1
  <2> QED BY <1>2, <2>2, Streaming
<1>5. \A k \in Key : held'[k] = << >>
  BY <1>1 DEF Flushed
<1> QED BY <1>2, <1>3, <1>4, <1>5 DEF TextInv, OrderInv

LEMMA TextStep == OwnKeys /\ Typed /\ TextInv /\ [Next]_vars => TextInv'
<1> SUFFICES ASSUME OwnKeys, Typed, TextInv, [Next]_vars PROVE TextInv'
  OBVIOUS
<1>1. ASSUME UNCHANGED Text, ending = "left_busy" => ending' = "left_busy" PROVE TextInv'
  BY <1>1 DEF Text, TextInv, HeldIn, JobInv, OrderInv, InJob, FinishInv
<1>2. CASE HandleDone
  BY <1>2, FlushAllText DEF HandleDone, Hears
<1>3. CASE Ends
  <2>1. CASE done
    <3>1. UNCHANGED <<sent, stopped, held, view, finished, job>> /\ ending # "left_busy"
      BY <1>3, <2>1 DEF Ends, Typed, StageInv
    <3> QED BY <3>1 DEF TextInv, HeldIn, JobInv, OrderInv, InJob, FinishInv
  <2>2. CASE ~done
    BY <1>3, <2>2, FlushAllText DEF Ends
  <2> QED BY <2>1, <2>2
<1>4. CASE Breaks
  <2>1. UNCHANGED <<sent, stopped, held, view, finished, job>> /\ ending # "left_busy"
    BY <1>4 DEF Breaks, Typed, StageInv
  <2> QED BY <2>1 DEF TextInv, HeldIn, JobInv, OrderInv, InJob, FinishInv
<1>5. CASE BadRequest \/ Unreachable \/ ProviderAnswers \/ Mirror \/ MirrorFails \/ Start
             \/ TooDeep \/ LeavesEarly \/ Leaves \/ Finally
  <2>1. UNCHANGED Text
    BY <1>5 DEF BadRequest, Unreachable, ProviderAnswers, Mirror, MirrorFails, Start,
                TooDeep, LeavesEarly, Leaves, Finally
  <2>2. ending = "left_busy" => ending' = "left_busy"
    BY <1>5 DEF BadRequest, Unreachable, ProviderAnswers, Mirror, MirrorFails, Start,
                TooDeep, Hears, LeavesEarly, Leaves, Finally, Typed, StageInv
  <2> QED BY <1>1, <2>1, <2>2
<1>6. CASE UNCHANGED vars
  BY <1>1, <1>6 DEF vars, Text
<1>7. ASSUME NEW e \in Shapes, Handle(e) \/ HandOver(e) PROVE TextInv'
  BY <1>7, HandleText, HandOverText
<1>8. CASE TakeBack
  BY <1>8, TakeBackText
<1> QED
  BY <1>2, <1>3, <1>4, <1>5, <1>6, <1>7, <1>8 DEF Next, Open, Hear, End

\* RedactorPool: whatever the order of the chunks and however the stream ends, what
\* the client has of a stream and what is held of it are all of it that was said,
\* in order.
THEOREM TextIsAccounted ==
  ASSUME OwnKeys
  PROVE  Spec => []TextAccounted
<1>1. TextInv => TextAccounted
  <2> SUFFICES ASSUME TextInv, NEW s \in Stream, Given(s), ending # "left_busy"
               PROVE  view[s] \o held[KeyOf(Declared(s))] = AllOf(s, sent[s] - InJob(s))
    BY DEF TextAccounted
  <2>1. s \in Streams
    BY DEF Streams
  <2> QED BY <2>1 DEF TextInv, OrderInv, Own
<1>2. OwnKeys /\ Init => Typed /\ TextInv
  BY TypedInit, TextInit
<1>3. OwnKeys /\ Typed /\ TextInv /\ [Next]_vars => Typed' /\ TextInv'
  BY TypedStep, TextStep
<1>4. Init => Typed /\ TextInv
  BY <1>2
<1>5. Typed /\ TextInv /\ [Next]_vars => Typed' /\ TextInv'
  BY <1>3
<1> QED BY <1>1, <1>4, <1>5, PTL DEF Spec

\* flush_choice: of a choice whose finish_reason a client has seen it has all that
\* was said before that chunk.
THEOREM FinishesAreLast ==
  ASSUME OwnKeys
  PROVE  Spec => []FinishIsLast
<1>1. TextInv => FinishIsLast
  <2> SUFFICES ASSUME TextInv, NEW s \in Stream, NEW e \in finished, Given(s), s.choice = e.choice
               PROVE  \/ view[s] = AllOf(s, sent[s])
                      \/ e.text /\ Origin(e) = s /\ view[s] = AllOf(s, sent[s] - 1)
    BY DEF FinishIsLast
  <2>1. s \in Streams
    BY DEF Streams
  <2> QED BY <2>1 DEF TextInv, FinishInv, Heard
<1>2. Init => Typed /\ TextInv
  BY TypedInit, TextInit
<1>3. Typed /\ TextInv /\ [Next]_vars => Typed' /\ TextInv'
  BY TypedStep, TextStep
<1> QED BY <1>1, <1>2, <1>3, PTL DEF Spec

-----------------------------------------------------------------------------
(* The end of a stream.                                                    *)

\* Nothing is held once [DONE] is passed on, and a stream that ended well is with
\* the client, all of it.
EndInv ==
  /\ done => job = Idle /\ \A k \in Key : held[k] = << >>
  /\ phase \notin {"finally", "over"} => terms = IF done THEN 1 ELSE 0
  /\ ending \in {"clean", "broken"} => terms = 1
  /\ ending = "clean" => \A s \in Streams : view[s] = AllOf(s, sent[s])

\* Text that is followed by nothing is all there is.
LEMMA NothingHeld ==
  ASSUME NEW v \in Seq(Units), NEW h, h = << >>, NEW a, v \o h = a
  PROVE  v = a
BY ConcatEmptySeq

LEMMA EndStep ==
  OwnKeys /\ Trailing = FALSE /\ Typed /\ TextInv /\ EndInv /\ [Next]_vars => EndInv'
<1> SUFFICES ASSUME OwnKeys, Trailing = FALSE, Typed, TextInv, EndInv, [Next]_vars
             PROVE  EndInv'
  OBVIOUS
<1>1. ASSUME NEW e \in Shapes, Handle(e) \/ HandOver(e) PROVE EndInv'
  <2>1. ~done /\ phase = "streaming" /\ ending = "none" /\ UNCHANGED <<done, terms, ending>>
    BY <1>1 DEF Handle, HandOver, Hears, Control, Typed, StageInv
  <2> QED BY <2>1 DEF EndInv
<1>2. CASE TakeBack
  <2>1. ~done /\ UNCHANGED <<done, terms, ending>>
    BY <1>2 DEF TakeBack, EndInv
  <2>2. CASE phase = "offloaded"
    <3>1. ending = "none" /\ terms = 0
      BY <2>1, <2>2 DEF Typed, StageInv, EndInv
    <3> QED BY <2>1, <3>1 DEF EndInv
  <2>3. CASE phase # "offloaded"
    <3>1. UNCHANGED <<sent, phase, held, view, finished>>
      BY <1>2, <2>3 DEF TakeBack
    <3> QED BY <2>1, <3>1 DEF EndInv
  <2> QED BY <2>2, <2>3
<1>3. CASE HandleDone
  <2>1. /\ ~done /\ phase = "streaming" /\ done' = TRUE /\ terms' = terms + 1
        /\ UNCHANGED <<phase, ending, sent, stopped, finished, job>>
        /\ held' = Flushed(Key, held, view).hold /\ view' = Flushed(Key, held, view).view
    BY <1>3 DEF HandleDone, Hears, Control
  <2>2. \A k \in Key : held'[k] = << >>
    BY <2>1, FlushAllText
  <2>3. job = Idle /\ ending = "none" /\ terms = 0
    BY <2>1, Streaming DEF EndInv
  <2> QED BY <2>1, <2>2, <2>3 DEF EndInv
<1>4. CASE Breaks
  <2>1. /\ ~done /\ phase = "streaming" /\ phase' = "finally" /\ ending' = "broken"
        /\ terms' = terms + 1 /\ done' = done
    BY <1>4 DEF Breaks
  <2>2. terms = 0
    BY <2>1 DEF EndInv
  <2> QED BY <2>1, <2>2 DEF EndInv
<1>5. CASE Ends
  <2>1. /\ phase = "streaming" /\ phase' = "finally" /\ ending' = "clean"
        /\ UNCHANGED <<sent, stopped, finished, job, done>>
    BY <1>5 DEF Ends
  <2>2. job = Idle
    BY <2>1, Streaming
  <2>3. terms' = 1 /\ \A k \in Key : held'[k] = << >>
    <3>1. CASE done
      <4>1. terms' = terms /\ held' = held
        BY <1>5, <3>1 DEF Ends
      <4> QED BY <2>1, <3>1, <4>1 DEF EndInv
    <3>2. CASE ~done
      <4>1. /\ terms' = terms + 1
            /\ held' = Flushed(Key, held, view).hold /\ view' = Flushed(Key, held, view).view
        BY <1>5, <3>2 DEF Ends
      <4>2. \A k \in Key : held'[k] = << >>
        BY <2>1, <4>1, FlushAllText
      <4>3. terms = 0
        BY <2>1, <3>2 DEF EndInv
      <4> QED BY <4>1, <4>2, <4>3
    <3> QED BY <3>1, <3>2
  <2>4. Typed' /\ TextInv'
    BY TypedStep, TextStep
  <2>5. ASSUME NEW s \in Streams PROVE view'[s] = AllOf(s, sent'[s])
    <3>1. view'[s] \in Seq(Units) /\ held'[Own(s)] = << >> /\ sent'[s] \in Nat
      <4>1. s \in Stream /\ Own(s) \in Key
        BY ShapesAre
      <4>2. TypeOK' /\ MaxText \in Nat
        BY <2>4, GuardrailAssumption DEF Typed
      <4>3. sent' \in [Stream -> 0..MaxText] /\ view' \in [Stream -> Seq(Units)]
        BY ONLY <4>2, SeqOfUnits DEF TypeOK
      <4> QED BY ONLY <2>3, <4>1, <4>2, <4>3
    <3>2. InJob(s)' = 0
      BY <2>1, <2>2 DEF InJob
    <3>3. view'[s] \o held'[Own(s)] = AllOf(s, sent'[s] - InJob(s)')
      BY <2>1, <2>4 DEF TextInv, OrderInv
    <3>4. sent'[s] - InJob(s)' = sent'[s]
      BY <3>1, <3>2
    <3> QED BY <3>1, <3>3, <3>4, NothingHeld
  <2> QED BY <2>1, <2>2, <2>3, <2>5 DEF EndInv
<1>6. CASE BadRequest \/ Unreachable \/ ProviderAnswers \/ Mirror \/ MirrorFails \/ Start
             \/ TooDeep \/ LeavesEarly \/ Leaves \/ Finally
  <2>1. UNCHANGED <<sent, stopped, held, view, finished, job, done, terms>>
    BY <1>6 DEF BadRequest, Unreachable, ProviderAnswers, Mirror, MirrorFails, Start,
                TooDeep, LeavesEarly, Leaves, Finally, Text
  <2>2. /\ ending' \in {"clean", "broken"} => ending' = ending
        /\ phase' \notin {"finally", "over"} => phase \notin {"finally", "over"}
    BY <1>6 DEF BadRequest, Unreachable, ProviderAnswers, Mirror, MirrorFails, Start,
                TooDeep, LeavesEarly, Leaves, Finally
  <2> QED BY <2>1, <2>2 DEF EndInv
<1>7. CASE UNCHANGED vars
  BY <1>7 DEF vars, EndInv
<1> QED BY <1>1, <1>2, <1>3, <1>4, <1>5, <1>6, <1>7 DEF Next, Open, Hear, End

\* The handlers of _stream: of a provider that says nothing after its [DONE], a
\* stream that ends well is complete, and the client is told once that it ended.
THEOREM EndsAreComplete ==
  ASSUME OwnKeys, Trailing = FALSE
  PROVE  Spec => []EndsComplete
<1>1. EndInv => EndsComplete
  <2> SUFFICES ASSUME EndInv PROVE EndsComplete
    OBVIOUS
  <2>1. ASSUME NEW s \in Stream, Given(s) PROVE s \in Streams
    BY <2>1 DEF Streams
  <2> QED BY <2>1 DEF EndInv, EndsComplete
<1>2. Init => Typed /\ TextInv /\ EndInv
  <2>1. Init => EndInv
    BY DEF Init, EndInv
  <2> QED BY <2>1, TypedInit, TextInit
<1>3. Typed /\ TextInv /\ EndInv /\ [Next]_vars => Typed' /\ TextInv' /\ EndInv'
  BY TypedStep, TextStep, EndStep
<1> QED BY <1>1, <1>2, <1>3, PTL DEF Spec

-----------------------------------------------------------------------------
(* When text is let go.                                                    *)

\* A choice that finishes lets go of its own text.
LEMMA FinishReleases ==
  ASSUME OwnKeys, Typed, NEW e \in Shapes, NEW s \in Stream,
         Flushed(Finishing(e), held, view).view[s] # view[s]
  PROVE  e.finish /\ s.choice = e.choice
<1>1. held \in Buffers /\ view \in Views
  BY SeqOfUnits DEF Typed, TypeOK, Buffers, Views
<1>2. PICK k \in Finishing(e) : ResidueStream(k) = s
  <2> DEFINE keys == Finishing(e)
  <2>1. keys \in SUBSET Key
    BY FinishingAre
  <2>2. (\A k \in keys : ResidueStream(k) = s => held[k] = << >>)
          => Flushed(keys, held, view).view[s] = view[s]
    BY DEF Flushed
  <2> QED BY <2>1, <2>2
<1>3. e.finish /\ k \in Key /\ k.index = IF e.declared THEN e.choice ELSE 0
  BY <1>2 DEF Finishing
<1>4. k.index = e.choice /\ e.choice # NoIndex
  BY <1>3, ShapesAre, GuardrailAssumption DEF OwnKeys
<1> QED BY <1>2, <1>3, <1>4 DEF ResidueStream

\* The comment of the handler of HTTPError: what is held reaches the client with
\* later text of its stream or when nothing can follow it, and not because the
\* stream broke.
THEOREM ReleasesAreFinal ==
  ASSUME OwnKeys
  PROVE  Spec => ReleasedWhenFinal
<1> DEFINE Fair(s) == \/ sent'[s] > sent[s] \/ Origin(job) = s
                      \/ s.choice \in stopped' \/ done' \/ ending' = "clean"
<1>1. Typed /\ [Next]_vars => [\A s \in Stream : view'[s] # view[s] => Fair(s)]_vars
  <2> SUFFICES ASSUME Typed, Next, NEW s \in Stream, view'[s] # view[s] PROVE Fair(s)
    OBVIOUS
  <2>1. held \in Buffers /\ view \in Views
    BY SeqOfUnits DEF Typed, TypeOK, Buffers, Views
  <2>2. ASSUME NEW e \in Shapes, Handle(e) PROVE Fair(s)
    <3> DEFINE f == Flushed(Finishing(e), held, view)
    <3>1. Expect(e)
      BY <2>2 DEF Handle
    <3>2. PICK n : Pass(e, f.hold, f.view, n)
      BY <2>2 DEF Handle
    <3>3. f.hold \in Buffers /\ f.view \in Views
      BY <2>1, FinishingAre, FlushedTyped
    <3>4. CASE f.view[s] # view[s]
      <4>1. e.finish /\ s.choice = e.choice
        BY <3>4, FinishReleases
      <4> QED BY <3>1, <4>1, ExpectFacts DEF Typed
    <3>5. CASE f.view[s] = view[s]
      <4> HIDE DEF f
      <4>1. e \in Shape /\ sent'[Origin(e)] \in Nat
        BY <3>1, ExpectFacts DEF Typed
      <4>2. s = Origin(e) /\ e.text
        BY <3>2, <3>3, <3>5, <4>1, PassFacts
      <4>3. sent[s] \in Nat /\ sent'[s] = sent[s] + 1
        BY <3>1, <4>2, ExpectFacts DEF Typed
      <4> QED BY <4>3
    <3> QED BY <3>4, <3>5
  <2>3. ASSUME NEW e \in Shapes, HandOver(e) PROVE Fair(s)
    <3>1. Expect(e) /\ view' = Flushed(Finishing(e), held, view).view
      BY <2>3 DEF HandOver
    <3>2. e.finish /\ s.choice = e.choice
      BY <3>1, FinishReleases
    <3> QED BY <3>1, <3>2, ExpectFacts DEF Typed
  <2>4. CASE TakeBack
    <3>1. phase = "offloaded" /\ job # Idle
      BY <2>4 DEF TakeBack
    <3>2. PICK n : Pass(job, held, view, n)
      BY <2>4, <3>1 DEF TakeBack
    <3>3. sent' = sent /\ job \in Shape
      BY <2>4, <3>1, GuardrailAssumption DEF TakeBack, Typed, TypeOK
    <3>4. Origin(job) \in Stream
      BY <3>3, GuardrailAssumption DEF Shape, Origin, Stream
    <3>5. sent'[Origin(job)] \in Nat
      BY <3>3, <3>4, GuardrailAssumption DEF Typed, TypeOK
    <3> QED BY <2>1, <3>2, <3>3, <3>5, PassFacts
  <2>5. CASE HandleDone \/ Ends
    BY <2>5 DEF HandleDone, Ends
  <2>6. CASE BadRequest \/ Unreachable \/ ProviderAnswers \/ Mirror \/ MirrorFails \/ Start
               \/ TooDeep \/ Breaks \/ LeavesEarly \/ Leaves \/ Finally
    BY <2>6 DEF BadRequest, Unreachable, ProviderAnswers, Mirror, MirrorFails, Start,
                TooDeep, Breaks, LeavesEarly, Leaves, Finally, Text
  <2> QED BY <2>2, <2>3, <2>4, <2>5, <2>6 DEF Next, Open, Hear, End
<1>2. Init => Typed
  BY TypedInit
<1>3. Typed /\ [Next]_vars => Typed'
  BY TypedStep
<1> QED BY <1>1, <1>2, <1>3, PTL DEF Spec, ReleasedWhenFinal

-----------------------------------------------------------------------------
(* The provider's socket.                                                  *)

\* There is no socket before the provider answers.
SocketInv == SocketReleased /\ (phase = "requested" => conn = "none")

\* `finally`: of a request that is over the provider's socket is released, but for
\* a generator that was never started or was left while a thread was redacting.
THEOREM SocketIsReleased == Spec => []SocketReleased
<1>1. Init => Typed /\ SocketInv
  BY TypedInit DEF Init, SocketInv, SocketReleased
<1>2. Typed /\ SocketInv /\ [Next]_vars => SocketInv'
  <2> SUFFICES ASSUME Typed, SocketInv, [Next]_vars PROVE SocketInv'
    OBVIOUS
  <2> USE DEF SocketInv, SocketReleased
  <2>1. CASE BadRequest \/ Unreachable \/ ProviderAnswers \/ Mirror \/ MirrorFails \/ Start
    BY <2>1 DEF BadRequest, Unreachable, ProviderAnswers, Mirror, MirrorFails, Start
  <2>2. ASSUME NEW e \in Shapes, Handle(e) \/ HandOver(e) PROVE SocketInv'
    BY <2>2 DEF Handle, HandOver, Control, Hears
  <2>3. CASE TakeBack
    BY <2>3 DEF TakeBack
  <2>4. CASE HandleDone \/ TooDeep \/ Breaks \/ Ends \/ LeavesEarly \/ Leaves
    BY <2>4 DEF HandleDone, TooDeep, Breaks, Ends, LeavesEarly, Leaves, Control
  <2>5. CASE Finally
    BY <2>5 DEF Finally, Typed, StageInv
  <2>6. CASE UNCHANGED vars
    BY <2>6 DEF vars
  <2> QED BY <2>1, <2>2, <2>3, <2>4, <2>5, <2>6 DEF Next, Open, Hear, End
<1>3. Typed /\ [Next]_vars => Typed'
  BY TypedStep
<1>4. SocketInv => SocketReleased
  BY DEF SocketInv
<1> QED BY <1>1, <1>2, <1>3, <1>4, PTL DEF Spec

-----------------------------------------------------------------------------
(* The redactor: greatest elements, and recursion towards the end of an    *)
(* interval.                                                               *)

\* A nonempty set of naturals has a least element.
LEMMA LeastOf ==
  ASSUME NEW T \in SUBSET Nat, T # {}
  PROVE  \E x \in T : \A y \in T : x <= y
<1>1. \A x, y \in Nat : y < x => <<y, x>> \in OpToRel(<, Nat)
  BY DEF OpToRel
<1>2. PICK less : IsWellFoundedOn(less, Nat) /\ \A x, y \in Nat : y < x => <<y, x>> \in less
  BY <1>1, NatLessThanWellFounded
<1>3. PICK x \in T : \A y \in T : ~ (<<y, x>> \in less)
  BY <1>2, WFMin
<1>4. \A y \in T : ~ (y < x)
  BY <1>2, <1>3
<1> QED BY <1>4

\* One with a bound has a greatest.
LEMMA GreatestOf ==
  ASSUME NEW bound \in Nat, NEW T \in SUBSET (0..bound), T # {}
  PROVE  \E x \in T : \A y \in T : y <= x
<1> DEFINE rest == {bound - x : x \in T}
<1>1. rest \in SUBSET Nat /\ rest # {}
  <2>1. PICK t \in T : TRUE
    OBVIOUS
  <2>2. bound - t \in rest
    BY <2>1
  <2>3. \A x \in T : bound - x \in Nat
    OBVIOUS
  <2> QED BY <2>2, <2>3
<1>2. PICK m \in rest : \A y \in rest : m <= y
  <2> HIDE DEF rest
  <2> QED BY <1>1, LeastOf
<1>3. PICK x \in T : m = bound - x
  BY <1>2
<1>4. \A y \in T : bound - x <= bound - y
  BY <1>2, <1>3
<1> QED BY <1>3, <1>4

\* Induction on an interval from its end.
LEMMA Downwards ==
  ASSUME NEW a \in Nat, NEW b \in Nat, NEW T,
         \A i \in a..b : (\A j \in i + 1..b : j \in T) => i \in T
  PROVE  \A i \in a..b : i \in T
<1>1. SUFFICES ASSUME NEW k \in a..b, k \notin T
               PROVE  FALSE
  OBVIOUS
<1> DEFINE rest == (a..b) \ T
<1>2. rest \in SUBSET (0..b) /\ rest # {}
  BY <1>1
<1>3. PICK x \in rest : \A y \in rest : y <= x
  <2> HIDE DEF rest
  <2> QED BY <1>2, GreatestOf
<1>4. \A j \in x + 1..b : j \in a..b /\ ~ (j <= x)
  BY <1>3
<1>5. \A j \in x + 1..b : j \in T
  BY <1>3, <1>4
<1> QED BY <1>3, <1>5

\* The functions agree beyond i.
Alike(i, b, f, h) == \A j \in i + 1..b : f[j] = h[j]

\* g at i looks at a function only beyond i.
LooksAhead(a, b, S, g) ==
  /\ a \in Nat /\ b \in Nat /\ S # {} /\ g \in [(a..b) \X [a..b -> S] -> S]
  /\ \A i \in a..b, f \in [a..b -> S], h \in [a..b -> S] :
       Alike(i, b, f, h) => g[<<i, f>>] = g[<<i, h>>]

\* g defines a function.
Defines(a, b, S, g) == \E f \in [a..b -> S] : \A i \in a..b : f[i] = g[<<i, f>>]

\* A function may be defined by what it is further on.
LEMMA Descent == \A a, b, S, g : LooksAhead(a, b, S, g) => Defines(a, b, S, g)
<1> SUFFICES ASSUME NEW a, NEW b, NEW S, NEW g, LooksAhead(a, b, S, g)
             PROVE  \E f \in [a..b -> S] : \A i \in a..b : f[i] = g[<<i, f>>]
  BY DEF Defines
<1>0. a \in Nat /\ b \in Nat /\ g \in [(a..b) \X [a..b -> S] -> S]
  BY DEF LooksAhead
<1> DEFINE Good(i, f) == \A j \in i..b : f[j] = g[<<j, f>>]
<1> DEFINE T == {i \in a..b : \E f \in [a..b -> S] : Good(i, f)}
<1>1. \E f \in [a..b -> S] : TRUE
  <2>1. PICK d \in S : TRUE
    BY DEF LooksAhead
  <2>2. [i \in a..b |-> d] \in [a..b -> S]
    BY <2>1
  <2> QED BY <2>2
<1>2. ASSUME NEW i \in a..b, \A j \in i + 1..b : j \in T
      PROVE  i \in T
  <2>1. PICK f \in [a..b -> S] : Good(i + 1, f)
    <3>1. CASE i = b
      <4>1. \A j \in i + 1..b : FALSE
        BY <1>0, <3>1
      <4> QED BY <1>1, <4>1
    <3>2. CASE i # b
      <4>1. i + 1 \in i + 1..b
        BY <1>0, <3>2
      <4>2. i + 1 \in T
        <5> HIDE DEF T
        <5> QED BY <1>2, <4>1
      <4> HIDE DEF Good
      <4> QED BY <4>2
    <3> QED BY <3>1, <3>2
  <2> DEFINE v == g[<<i, f>>]
  <2> DEFINE h == [f EXCEPT ![i] = v]
  <2>2. v \in S
    BY <1>0
  <2> HIDE DEF v
  <2>3. h \in [a..b -> S] /\ h[i] = v /\ \A j \in i + 1..b : h[j] = f[j]
    BY <1>0, <2>2
  <2> HIDE DEF h
  <2>4. ASSUME NEW j \in i..b
        PROVE  h[j] = g[<<j, h>>]
    <3>1. j \in a..b /\ \A n \in j + 1..b : n \in i + 1..b
      BY <1>0
    <3>2. g[<<j, f>>] = g[<<j, h>>]
      BY <2>3, <3>1 DEF LooksAhead, Alike
    <3>3. CASE j = i
      BY <2>3, <3>2, <3>3 DEF v
    <3>4. CASE j # i
      <4>1. j \in i + 1..b
        BY <1>0, <3>4
      <4> QED BY <2>1, <2>3, <3>2, <4>1
    <3> QED BY <3>3, <3>4
  <2>5. \E f1 \in [a..b -> S] : Good(i, f1)
    <3>1. Good(i, h)
      BY <2>4
    <3> HIDE DEF Good
    <3> QED BY <2>3, <3>1
  <2> HIDE DEF Good
  <2> QED BY <2>5
<1>3. \A i \in a..b : i \in T
  <2> HIDE DEF T
  <2> QED BY <1>0, <1>2, Downwards
<1>4. CASE a <= b
  <2>1. a \in T
    <3>1. a \in a..b
      BY <1>0, <1>4
    <3> HIDE DEF T
    <3> QED BY <1>3, <3>1
  <2> QED BY <2>1
<1>5. CASE ~ (a <= b)
  <2>1. \A i \in a..b : FALSE
    BY <1>0, <1>5
  <2> QED BY <1>1, <2>1
<1> QED BY <1>0, <1>4, <1>5

\* The greatest and the least of naturals with a bound.
LEMMA MaxIs ==
  ASSUME NEW bound \in Nat, NEW T \in SUBSET (0..bound), T # {}
  PROVE  Max(T) \in T /\ \A y \in T : y <= Max(T)
<1>1. \E x \in T : \A y \in T : x >= y
  <2>1. PICK x \in T : \A y \in T : y <= x
    BY GreatestOf
  <2>2. \A y \in T : x >= y
    BY <2>1
  <2> QED BY <2>2
<1>2. Max(T) \in T /\ \A y \in T : Max(T) >= y
  <2> HIDE DEF Max
  <2>1. Max(T) = CHOOSE x \in T : \A y \in T : x >= y
    BY DEF Max
  <2> QED BY <1>1, <2>1, Zenon
<1> QED BY <1>2

LEMMA MinIs ==
  ASSUME NEW T \in SUBSET Nat, T # {}
  PROVE  Min(T) \in T /\ \A y \in T : Min(T) <= y
<1>1. \E x \in T : \A y \in T : x <= y
  BY LeastOf
<1>2. Min(T) = CHOOSE x \in T : \A y \in T : x =< y
  BY DEF Min
<1> QED BY <1>1, <1>2, Zenon

-----------------------------------------------------------------------------
(* The redactor: matches and spans                                         *)

\* LongestIs: no word is longer than Longest, which MaxHoldback bounds.
LEMMA LongestIs ==
  /\ Longest \in Nat /\ Longest <= MaxHoldback
  /\ \A w \in Words : Len(w) \in Nat \ {0} /\ Len(w) <= Longest
<1> DEFINE sizes == {0} \cup {Len(w) : w \in Words}
<1>1. \A w \in Words : w \in Seq(Char) /\ w # <<>> /\ Len(w) <= MaxHoldback
  BY HoldBackAssumption
<1>2. \A w \in Words : Len(w) \in Nat \ {0} /\ Len(w) \in 0..MaxHoldback
  BY <1>1, HoldBackAssumption
<1>3. sizes \in SUBSET (0..MaxHoldback) /\ sizes # {} /\ MaxHoldback \in Nat
  BY <1>2, HoldBackAssumption
<1>4. Max(sizes) \in sizes /\ \A y \in sizes : y <= Max(sizes)
  <2> HIDE DEF sizes
  <2> QED BY <1>3, MaxIs
<1>5. Longest = Max(sizes)
  BY DEF Longest
<1>6. \A w \in Words : Len(w) \in sizes
  OBVIOUS
<1> HIDE DEF sizes
<1>7. Longest \in 0..MaxHoldback
  BY <1>3, <1>4, <1>5
<1>8. \A w \in Words : Len(w) <= Longest
  BY <1>4, <1>5, <1>6
<1> QED BY <1>2, <1>3, <1>7, <1>8

\* LongestOf takes a word of the set, and none is longer.
LEMMA LongestOfIs ==
  ASSUME NEW ws \in SUBSET Words, ws # {}
  PROVE  LongestOf(ws) \in ws /\ \A v \in ws : Len(v) <= Len(LongestOf(ws))
<1> DEFINE sizes == {Len(w) : w \in ws}
<1>1. sizes \in SUBSET (0..MaxHoldback) /\ sizes # {} /\ MaxHoldback \in Nat
  <2>1. \A w \in ws : Len(w) \in 0..MaxHoldback
    BY LongestIs, HoldBackAssumption
  <2> QED BY <2>1, HoldBackAssumption
<1>2. PICK n \in sizes : \A y \in sizes : y <= n
  <2> HIDE DEF sizes
  <2> QED BY <1>1, GreatestOf
<1>3. PICK w \in ws : n = Len(w)
  BY <1>2
<1>4. \A v \in ws : Len(v) <= Len(w)
  BY <1>2, <1>3
<1>5. \E w1 \in ws : \A v \in ws : Len(v) <= Len(w1)
  BY <1>4
<1> QED BY <1>5 DEF LongestOf

\* A word that stands at i before limit.
Fits(w, i, limit) == w \in Words /\ i + Len(w) <= limit

\* What is matched is a word, and ends before the limit.
LEMMA ValidatedIs ==
  ASSUME NEW s, NEW i \in Nat, NEW limit \in Nat, NEW p \in Patterns
  PROVE  \A w \in Validated(p, s, i, limit) : Fits(w, i, limit)
<1> DEFINE ws == Found(p, s, i, limit)
<1> DEFINE vs == Preferred(Shorter(p, s, i, LongestOf(ws)), LongestOf(ws))
<1>1. p.words \subseteq Words /\ p.valid \subseteq Words
  BY HoldBackAssumption DEF Words
<1>2. \A w \in ws : w \in Words /\ i + Len(w) <= limit
  BY <1>1 DEF Found, At
<1>3. ws # {} => LongestOf(ws) \in ws
  <2>1. ws \in SUBSET Words
    BY <1>2
  <2> HIDE DEF ws
  <2> QED BY <2>1, LongestOfIs
<1>4. \A v \in vs : v \in Words /\ Len(v) < Len(LongestOf(ws))
  <2>1. vs \subseteq Shorter(p, s, i, LongestOf(ws))
    BY DEF Preferred, Aligned, Trimmed
  <2> QED BY <1>1, <2>1 DEF Shorter
<1>5. vs # {} => LongestOf(vs) \in vs
  <2>1. vs \in SUBSET Words
    BY <1>4
  <2> HIDE DEF vs
  <2> QED BY <2>1, LongestOfIs
<1>6. Validated(p, s, i, limit) = IF ws = {} THEN {}
        ELSE IF LongestOf(ws) \in p.valid THEN {LongestOf(ws)}
        ELSE IF vs = {} THEN {} ELSE {LongestOf(vs)}
  BY DEF Validated
<1> HIDE DEF ws, vs
<1>7. ws # {} => Fits(LongestOf(ws), i, limit)
  BY <1>2, <1>3 DEF Fits
<1>8. ws # {} /\ vs # {} => Fits(LongestOf(vs), i, limit)
  <2>1. \A w \in Words : Len(w) \in Nat
    BY LongestIs
  <2>2. SUFFICES ASSUME ws # {}, vs # {} PROVE Fits(LongestOf(vs), i, limit)
    OBVIOUS
  <2>3. LongestOf(vs) \in Words /\ Len(LongestOf(vs)) < Len(LongestOf(ws))
    BY <1>4, <1>5, <2>2
  <2>4. LongestOf(ws) \in Words /\ i + Len(LongestOf(ws)) <= limit
    BY <1>2, <1>3, <2>2
  <2>5. i + Len(LongestOf(vs)) <= limit
    BY <2>1, <2>3, <2>4
  <2> QED BY <2>3, <2>5 DEF Fits
<1> QED BY <1>6, <1>7, <1>8

LEMMA MatchIs ==
  ASSUME NEW s, NEW i \in Nat, NEW limit \in Nat, MatchAt(s, i, limit) # {}
  PROVE  Fits(LongestOf(MatchAt(s, i, limit)), i, limit)
<1>1. \A w \in MatchAt(s, i, limit) : Fits(w, i, limit)
  BY ValidatedIs DEF MatchAt
<1>2. LongestOf(MatchAt(s, i, limit)) \in MatchAt(s, i, limit)
  <2>1. MatchAt(s, i, limit) \in SUBSET Words
    BY <1>1 DEF Fits
  <2> QED BY <2>1, LongestOfIs
<1> QED BY <1>1, <1>2

LEMMA RescuedIs ==
  ASSUME NEW s \in Seq(Char), NEW i \in Nat, RescueAt(s, i) # {}
  PROVE  Fits(LongestOf(RescueAt(s, i)), i, Len(s) + 1)
<1>1. \A w \in RescueAt(s, i) : Fits(w, i, Len(s) + 1)
  <2>1. Len(s) + 1 \in Nat
    OBVIOUS
  <2> QED BY <2>1, ValidatedIs DEF RescueAt
<1>2. LongestOf(RescueAt(s, i)) \in RescueAt(s, i)
  <2>1. RescueAt(s, i) \in SUBSET Words
    BY <1>1 DEF Fits
  <2> QED BY <2>1, LongestOfIs
<1> QED BY <1>1, <1>2

\* Spans that are not empty and end by limit.
Within(limit) == {x \in [from : Nat, to : Nat] : x.from < x.to /\ x.to <= limit}

LEMMA SpanIs ==
  ASSUME NEW i \in Nat, NEW limit \in Nat, NEW w, Fits(w, i, limit)
  PROVE  /\ Span(i, w) \in Within(limit) /\ Span(i, w).to = i + Len(w)
         /\ Len(w) \in Nat \ {0} /\ i + Len(w) \in i + 1..limit
<1>1. Len(w) \in Nat \ {0} /\ i + Len(w) <= limit
  BY LongestIs DEF Fits
<1> QED BY <1>1 DEF Span, Within

-----------------------------------------------------------------------------
(* The redactor: what its scans find lies within the text                  *)

\* One step of each recursion, and the function the recursion defines.
ScanStep(s, limit, i, f) ==
  IF i = limit THEN {}
  ELSE IF MatchAt(s, i, limit) = {} THEN f[i + 1]
  ELSE {Span(i, LongestOf(MatchAt(s, i, limit)))} \cup f[i + Len(LongestOf(MatchAt(s, i, limit)))]

Scanning(s, start, limit) ==
  CHOOSE f : f = [i \in start..limit |-> ScanStep(s, limit, i, f)]

\* A step looks ahead only, and adds a span within the limit.
LEMMA ScanStepIs ==
  ASSUME NEW s, NEW limit \in Nat, NEW i \in 0..limit, NEW f
  PROVE  /\ (\A j \in i + 1..limit : f[j] \in SUBSET Within(limit))
              => ScanStep(s, limit, i, f) \in SUBSET Within(limit)
         /\ \A h : Alike(i, limit, f, h) => ScanStep(s, limit, i, f) = ScanStep(s, limit, i, h)
<1> DEFINE w == LongestOf(MatchAt(s, i, limit))
<1>1. i # limit => i + 1 \in i + 1..limit
  OBVIOUS
<1>2. MatchAt(s, i, limit) # {} =>
        Span(i, w) \in Within(limit) /\ i + Len(w) \in i + 1..limit
  BY MatchIs, SpanIs
<1> HIDE DEF w
<1>3. \A h : ScanStep(s, limit, i, h) =
        IF i = limit THEN {} ELSE IF MatchAt(s, i, limit) = {} THEN h[i + 1]
        ELSE {Span(i, w)} \cup h[i + Len(w)]
  BY DEF ScanStep, w
<1> QED BY <1>1, <1>2, <1>3 DEF Alike

\* The function that Scan recurses with solves its equation.
LEMMA ScanningIs ==
  ASSUME NEW s, NEW limit \in Nat, NEW start \in 0..limit
  PROVE  /\ Scan(s, start, limit) = Scanning(s, start, limit)[start]
         /\ \A i \in start..limit :
              Scanning(s, start, limit)[i] = ScanStep(s, limit, i, Scanning(s, start, limit))
<1> DEFINE D == start..limit
<1> DEFINE S == SUBSET Within(limit)
<1> DEFINE F == Scanning(s, start, limit)
<1> DEFINE g == [x \in D \X [D -> S] |-> ScanStep(s, limit, x[1], x[2])]
<1>1. /\ start \in Nat /\ start \in D /\ {} \in S
      /\ \A i \in D : i \in 0..limit /\ \A j \in i + 1..limit : j \in D
  OBVIOUS
<1>2. \A i \in D, f \in [D -> S] : ScanStep(s, limit, i, f) \in S
  <2>1. \A i \in D, f \in [D -> S] : \A j \in i + 1..limit : f[j] \in S
    BY <1>1
  <2> QED BY <1>1, <2>1, ScanStepIs
<1>3. g \in [D \X [D -> S] -> S] /\ \A i \in D, f \in [D -> S] : g[<<i, f>>] = ScanStep(s, limit, i, f)
  <2> HIDE DEF D, S
  <2> QED BY <1>2
<1>4. \E f : f = [i \in D |-> ScanStep(s, limit, i, f)]
  <2>1. LooksAhead(start, limit, S, g)
    <3> SUFFICES ASSUME NEW i \in D, NEW f \in [D -> S], NEW h \in [D -> S],
                        Alike(i, limit, f, h)
                 PROVE  g[<<i, f>>] = g[<<i, h>>]
      BY <1>1, <1>3 DEF LooksAhead
    <3>1. ScanStep(s, limit, i, f) = ScanStep(s, limit, i, h)
      BY <1>1, ScanStepIs
    <3> HIDE DEF D, S, g
    <3> QED BY <1>3, <3>1
  <2>2. PICK f \in [D -> S] : \A i \in D : f[i] = g[<<i, f>>]
    <3> HIDE DEF S, g
    <3>1. Defines(start, limit, S, g)
      BY <2>1, Descent, Zenon
    <3> QED BY <3>1 DEF Defines
  <2>3. f = [i \in D |-> f[i]]
    OBVIOUS
  <2> HIDE DEF D, S, g
  <2>4. f = [i \in D |-> ScanStep(s, limit, i, f)]
    BY <1>3, <2>2, <2>3
  <2> QED BY <2>4
<1>5. F = [i \in D |-> ScanStep(s, limit, i, F)]
  <2> DEFINE Def(f) == [i \in D |-> ScanStep(s, limit, i, f)]
  <2>1. F = CHOOSE f : f = Def(f)
    BY DEF Scanning
  <2>2. \E f : f = Def(f)
    BY <1>4
  <2> HIDE DEF Def, F
  <2>3. F = Def(F)
    BY <2>1, <2>2, Zenon
  <2> QED BY <2>3 DEF Def
<1>6. \A i \in D : F[i] = ScanStep(s, limit, i, F)
  <2> HIDE DEF F, D
  <2> QED BY <1>5
<1>7. Scan(s, start, limit) = F[start]
  BY DEF Scan, Scanning, ScanStep
<1> QED BY <1>6, <1>7

LEMMA ScanIs ==
  ASSUME NEW s, NEW limit \in Nat, NEW start \in 0..limit
  PROVE  Scan(s, start, limit) \in SUBSET Within(limit)
<1> DEFINE D == start..limit
<1> DEFINE S == SUBSET Within(limit)
<1> DEFINE F == Scanning(s, start, limit)
<1> DEFINE T == {i \in D : F[i] \in S}
<1>1. /\ start \in Nat /\ start \in D
      /\ \A i \in D : i \in 0..limit /\ \A j \in i + 1..limit : j \in D
  OBVIOUS
<1>2. Scan(s, start, limit) = F[start] /\ \A i \in D : F[i] = ScanStep(s, limit, i, F)
  BY ScanningIs
<1> HIDE DEF F
<1>3. ASSUME NEW i \in D, \A j \in i + 1..limit : j \in T
      PROVE  i \in T
  <2>1. \A j \in i + 1..limit : F[j] \in S
    BY <1>3
  <2>2. ScanStep(s, limit, i, F) \in S
    BY <1>1, <2>1, ScanStepIs
  <2> QED BY <1>2, <2>2
<1>4. \A i \in D : i \in T
  <2> HIDE DEF T
  <2> QED BY <1>1, <1>3, Downwards
<1> QED BY <1>1, <1>2, <1>4

\* The first of the spans from i on, the longest of those that start there.
FirstFrom(spans, i) ==
  LET here  == {x \in spans : x.from >= i}
      first == {x \in here : \A y \in here : x.from <= y.from}
  IN CHOOSE x \in first : \A y \in first : y.to <= x.to

\* The end of the last span.
LastEnd(spans) == IF {x.to : x \in spans} = {} THEN 1 ELSE Max({x.to : x \in spans})

ResolveStep(spans, i, f) ==
  IF {x \in spans : x.from >= i} = {} THEN {}
  ELSE {FirstFrom(spans, i)} \cup f[FirstFrom(spans, i).to]

Resolving(spans) ==
  CHOOSE f : f = [i \in 1..LastEnd(spans) |-> ResolveStep(spans, i, f)]

LEMMA FirstFromIs ==
  ASSUME NEW limit \in Nat, NEW spans \in SUBSET Within(limit), NEW i \in Nat,
         {x \in spans : x.from >= i} # {}
  PROVE  /\ FirstFrom(spans, i) \in spans /\ FirstFrom(spans, i).from >= i
         /\ \A y \in spans : y.from >= i => FirstFrom(spans, i).from <= y.from
<1> DEFINE here == {x \in spans : x.from >= i}
<1> DEFINE first == {x \in here : \A y \in here : x.from <= y.from}
<1>1. \A x \in spans : x.from \in Nat /\ x.to \in 0..limit
  BY DEF Within
<1>2. first # {}
  <2> DEFINE starts == {x.from : x \in here}
  <2>1. starts \in SUBSET Nat /\ starts # {}
    BY <1>1
  <2>2. PICK n \in starts : \A y \in starts : n <= y
    <3> HIDE DEF starts
    <3> QED BY <2>1, LeastOf
  <2>3. PICK x \in here : n = x.from
    BY <2>2
  <2>4. \A y \in here : x.from <= y.from
    BY <2>2, <2>3
  <2>5. x \in first
    BY <2>4
  <2> QED BY <2>5
<1>3. \E x \in first : \A y \in first : y.to <= x.to
  <2> DEFINE ends == {x.to : x \in first}
  <2>1. ends \in SUBSET (0..limit) /\ ends # {}
    <3>1. \A x \in first : x.to \in 0..limit
      BY <1>1
    <3> HIDE DEF first
    <3> QED BY <1>2, <3>1
  <2>2. PICK n \in ends : \A y \in ends : y <= n
    <3> HIDE DEF ends
    <3> QED BY <2>1, GreatestOf
  <2> HIDE DEF first
  <2>3. PICK x \in first : n = x.to
    BY <2>2
  <2>4. \A y \in first : y.to <= x.to
    BY <2>2, <2>3
  <2> QED BY <2>4
<1>4. FirstFrom(spans, i) = CHOOSE x \in first : \A y \in first : y.to <= x.to
  BY DEF FirstFrom
<1>5. FirstFrom(spans, i) \in first
  <2> HIDE DEF first
  <2> QED BY <1>3, <1>4, Zenon
<1> QED BY <1>5

LEMMA LastEndIs ==
  ASSUME NEW limit \in Nat, NEW spans \in SUBSET Within(limit)
  PROVE  LastEnd(spans) \in Nat \ {0} /\ \A x \in spans : x.to <= LastEnd(spans)
<1> DEFINE ends == {x.to : x \in spans}
<1>1. \A x \in spans : x.to \in Nat \ {0} /\ x.to <= limit
  BY DEF Within
<1>2. CASE ends = {}
  <2>1. LastEnd(spans) = 1
    BY <1>2 DEF LastEnd
  <2>2. \A x \in spans : FALSE
    BY <1>2
  <2> QED BY <2>1, <2>2
<1>3. CASE ends # {}
  <2>1. ends \in SUBSET (0..limit)
    BY <1>1
  <2>2. LastEnd(spans) = Max(ends)
    BY <1>3 DEF LastEnd
  <2>3. Max(ends) \in ends /\ \A y \in ends : y <= Max(ends)
    <3> HIDE DEF ends
    <3> QED BY <1>3, <2>1, MaxIs
  <2>4. \A y \in ends : y \in Nat \ {0}
    BY <1>1
  <2>5. \A x \in spans : x.to \in ends
    OBVIOUS
  <2> HIDE DEF ends
  <2> QED BY <2>2, <2>3, <2>4, <2>5
<1> QED BY <1>2, <1>3

\* A step looks ahead only, and keeps a span.
LEMMA ResolveStepIs ==
  ASSUME NEW limit \in Nat, NEW spans \in SUBSET Within(limit), NEW i \in Nat, NEW f
  PROVE  /\ (\A j \in i + 1..LastEnd(spans) : f[j] \in SUBSET spans)
              => ResolveStep(spans, i, f) \in SUBSET spans
         /\ \A h : Alike(i, LastEnd(spans), f, h) => ResolveStep(spans, i, f) = ResolveStep(spans, i, h)
<1> DEFINE best == FirstFrom(spans, i)
<1>1. {x \in spans : x.from >= i} # {} =>
        best \in spans /\ best.to \in i + 1..LastEnd(spans)
  <2> SUFFICES ASSUME {x \in spans : x.from >= i} # {}
               PROVE  best \in spans /\ best.to \in i + 1..LastEnd(spans)
    OBVIOUS
  <2>1. best \in spans /\ best.from >= i
    BY FirstFromIs
  <2> HIDE DEF best
  <2>2. best.to \in Nat /\ best.from \in Nat /\ best.from < best.to
    BY <2>1 DEF Within
  <2>3. LastEnd(spans) \in Nat /\ best.to <= LastEnd(spans)
    BY <2>1, LastEndIs
  <2> QED BY <2>1, <2>2, <2>3
<1> HIDE DEF best
<1>2. \A h : ResolveStep(spans, i, h) =
        IF {x \in spans : x.from >= i} = {} THEN {} ELSE {best} \cup h[best.to]
  BY DEF ResolveStep, best
<1> QED BY <1>1, <1>2 DEF Alike

\* The function that Resolve recurses with solves its equation.
LEMMA ResolvingIs ==
  ASSUME NEW limit \in Nat, NEW spans \in SUBSET Within(limit)
  PROVE  /\ Resolve(spans) = Resolving(spans)[1]
         /\ \A i \in 1..LastEnd(spans) : Resolving(spans)[i] = ResolveStep(spans, i, Resolving(spans))
<1> DEFINE last == LastEnd(spans)
<1> DEFINE D == 1..last
<1> DEFINE S == SUBSET spans
<1> DEFINE F == Resolving(spans)
<1> DEFINE g == [x \in D \X [D -> S] |-> ResolveStep(spans, x[1], x[2])]
<1>0. last \in Nat \ {0}
  BY LastEndIs
<1> HIDE DEF last
<1>1. /\ 1 \in D /\ {} \in S
      /\ \A i \in D : i \in Nat /\ \A j \in i + 1..last : j \in D
  BY <1>0
<1>2. \A i \in D, f \in [D -> S] : ResolveStep(spans, i, f) \in S
  <2>1. \A i \in D, f \in [D -> S] : \A j \in i + 1..last : f[j] \in S
    BY <1>1
  <2> QED BY <1>1, <2>1, ResolveStepIs DEF last
<1>3. g \in [D \X [D -> S] -> S] /\ \A i \in D, f \in [D -> S] : g[<<i, f>>] = ResolveStep(spans, i, f)
  <2> HIDE DEF D, S
  <2> QED BY <1>2
<1>4. \E f : f = [i \in D |-> ResolveStep(spans, i, f)]
  <2>1. LooksAhead(1, last, S, g)
    <3> SUFFICES ASSUME NEW i \in D, NEW f \in [D -> S], NEW h \in [D -> S],
                        Alike(i, last, f, h)
                 PROVE  g[<<i, f>>] = g[<<i, h>>]
      BY <1>0, <1>1, <1>3 DEF LooksAhead
    <3>1. ResolveStep(spans, i, f) = ResolveStep(spans, i, h)
      <4>1. i \in Nat
        BY <1>1
      <4> HIDE DEF D, S, g
      <4> QED BY <4>1, ResolveStepIs DEF last
    <3> HIDE DEF D, S, g
    <3> QED BY <1>3, <3>1
  <2>2. PICK f \in [D -> S] : \A i \in D : f[i] = g[<<i, f>>]
    <3> HIDE DEF S, g
    <3>1. Defines(1, last, S, g)
      BY <2>1, Descent, Zenon
    <3> QED BY <3>1 DEF Defines
  <2>3. f = [i \in D |-> f[i]]
    OBVIOUS
  <2> HIDE DEF D, S, g
  <2>4. f = [i \in D |-> ResolveStep(spans, i, f)]
    BY <1>3, <2>2, <2>3
  <2> QED BY <2>4
<1>5. F = [i \in D |-> ResolveStep(spans, i, F)]
  <2> DEFINE Def(f) == [i \in D |-> ResolveStep(spans, i, f)]
  <2>1. F = CHOOSE f : f = Def(f)
    BY DEF Resolving, last
  <2>2. \E f : f = Def(f)
    BY <1>4
  <2> HIDE DEF Def, F
  <2>3. F = Def(F)
    BY <2>1, <2>2, Zenon
  <2> QED BY <2>3 DEF Def
<1>6. \A i \in D : F[i] = ResolveStep(spans, i, F)
  <2> HIDE DEF F, D
  <2> QED BY <1>5
<1>7. Resolve(spans) = F[1]
  BY DEF Resolve, Resolving, ResolveStep, FirstFrom, LastEnd
<1> QED BY <1>6, <1>7 DEF last

\* _resolve_overlaps keeps some of the spans.
LEMMA ResolveIs ==
  ASSUME NEW limit \in Nat, NEW spans \in SUBSET Within(limit)
  PROVE  Resolve(spans) \in SUBSET Within(limit)
<1> DEFINE last == LastEnd(spans)
<1> DEFINE F == Resolving(spans)
<1> DEFINE T == {i \in 1..last : F[i] \in SUBSET spans}
<1>1. /\ last \in Nat \ {0}
      /\ Resolve(spans) = F[1] /\ \A i \in 1..last : F[i] = ResolveStep(spans, i, F)
  BY LastEndIs, ResolvingIs
<1> HIDE DEF F
<1>2. ASSUME NEW i \in 1..last, \A j \in i + 1..last : j \in T
      PROVE  i \in T
  <2>1. (\A j \in i + 1..last : F[j] \in SUBSET spans) /\ i \in Nat
    BY <1>2
  <2>2. ResolveStep(spans, i, F) \in SUBSET spans
    BY <2>1, ResolveStepIs
  <2> QED BY <1>1, <2>2
<1>3. \A i \in 1..last : i \in T
  <2> HIDE DEF T, last
  <2> QED BY <1>1, <1>2, Downwards
<1>4. 1 \in 1..last
  BY <1>1
<1> QED BY <1>1, <1>3, <1>4

RunStep(s, a, b, spans, i, f) ==
  IF i = b THEN {}
  ELSE IF Candidate(s, a, b, i) /\ ~ Covered(i, spans) /\ RescueAt(s, i) # {}
    THEN {Span(i, LongestOf(RescueAt(s, i)))}
         \cup (IF Span(i, LongestOf(RescueAt(s, i))).to <= b
                 THEN f[Span(i, LongestOf(RescueAt(s, i))).to] ELSE {})
    ELSE f[i + 1]

Running(s, a, b, spans) == CHOOSE f : f = [i \in a..b |-> RunStep(s, a, b, spans, i, f)]

RunsAhead(s, a, b, spans, i, f) ==
  \A h : Alike(i, b, f, h) => RunStep(s, a, b, spans, i, f) = RunStep(s, a, b, spans, i, h)

\* A step looks ahead only, and adds a span of the text.
LEMMA RunStepIs ==
  ASSUME NEW s \in Seq(Char), NEW spans, NEW a \in Nat, NEW b \in Nat, NEW i \in a..b, NEW f
  PROVE  /\ (\A j \in i + 1..b : f[j] \in SUBSET Within(Len(s) + 1))
              => RunStep(s, a, b, spans, i, f) \in SUBSET Within(Len(s) + 1)
         /\ RunsAhead(s, a, b, spans, i, f)
<1> DEFINE x == Span(i, LongestOf(RescueAt(s, i)))
<1> DEFINE there == Candidate(s, a, b, i) /\ ~ Covered(i, spans) /\ RescueAt(s, i) # {}
<1>1. i # b => i + 1 \in i + 1..b
  OBVIOUS
<1>2. there => x \in Within(Len(s) + 1) /\ (x.to <= b => x.to \in i + 1..b)
  <2> SUFFICES ASSUME there
               PROVE  x \in Within(Len(s) + 1) /\ (x.to <= b => x.to \in i + 1..b)
    OBVIOUS
  <2>1. i \in Nat /\ Len(s) + 1 \in Nat
    OBVIOUS
  <2>2. Fits(LongestOf(RescueAt(s, i)), i, Len(s) + 1)
    BY <2>1, RescuedIs
  <2>3. x \in Within(Len(s) + 1) /\ x.to \in i + 1..Len(s) + 1
    BY <2>1, <2>2, SpanIs
  <2> HIDE DEF x
  <2> QED BY <2>1, <2>3
<1> HIDE DEF x, there
<1>3. \A h : RunStep(s, a, b, spans, i, h) =
        IF i = b THEN {} ELSE IF there THEN {x} \cup (IF x.to <= b THEN h[x.to] ELSE {}) ELSE h[i + 1]
  BY DEF RunStep, x, there
<1> QED BY <1>1, <1>2, <1>3 DEF Alike, RunsAhead

\* The function that RescueRun recurses with solves its equation.
LEMMA RunningIs ==
  ASSUME NEW s \in Seq(Char), NEW spans, NEW a \in Nat, NEW b \in Nat, a <= b
  PROVE  /\ RescueRun(s, a, b, spans) = Running(s, a, b, spans)[a]
         /\ \A i \in a..b : Running(s, a, b, spans)[i] = RunStep(s, a, b, spans, i, Running(s, a, b, spans))
<1> DEFINE D == a..b
<1> DEFINE S == SUBSET Within(Len(s) + 1)
<1> DEFINE F == Running(s, a, b, spans)
<1> DEFINE g == [x \in D \X [D -> S] |-> RunStep(s, a, b, spans, x[1], x[2])]
<1>1. /\ a \in D /\ {} \in S
      /\ \A i \in D : \A j \in i + 1..b : j \in D
  OBVIOUS
<1>2. \A i \in D, f \in [D -> S] : RunStep(s, a, b, spans, i, f) \in S
  <2>1. \A i \in D, f \in [D -> S] : \A j \in i + 1..b : f[j] \in S
    BY <1>1
  <2> QED BY <1>1, <2>1, RunStepIs
<1>3. g \in [D \X [D -> S] -> S]
      /\ \A i \in D, f \in [D -> S] : g[<<i, f>>] = RunStep(s, a, b, spans, i, f)
  <2> HIDE DEF D, S
  <2> QED BY <1>2
<1>4. \E f : f = [i \in D |-> RunStep(s, a, b, spans, i, f)]
  <2>1. LooksAhead(a, b, S, g)
    <3> SUFFICES ASSUME NEW i \in D, NEW f \in [D -> S], NEW h \in [D -> S],
                        Alike(i, b, f, h)
                 PROVE  g[<<i, f>>] = g[<<i, h>>]
      BY <1>1, <1>3 DEF LooksAhead
    <3>1. RunStep(s, a, b, spans, i, f) = RunStep(s, a, b, spans, i, h)
      <4>1. i \in a..b
        OBVIOUS
      <4> HIDE DEF D, S, g
      <4>2. RunsAhead(s, a, b, spans, i, f)
        BY <4>1, RunStepIs
      <4> QED BY <4>2 DEF RunsAhead
    <3> HIDE DEF D, S, g
    <3> QED BY <1>3, <3>1
  <2>2. PICK f \in [D -> S] : \A i \in D : f[i] = g[<<i, f>>]
    <3> HIDE DEF S, g
    <3>1. Defines(a, b, S, g)
      BY <2>1, Descent, Zenon
    <3> QED BY <3>1 DEF Defines
  <2>3. f = [i \in D |-> f[i]]
    OBVIOUS
  <2> HIDE DEF D, S, g
  <2>4. f = [i \in D |-> RunStep(s, a, b, spans, i, f)]
    BY <1>3, <2>2, <2>3
  <2> QED BY <2>4
<1>5. F = [i \in D |-> RunStep(s, a, b, spans, i, F)]
  <2> DEFINE Def(f) == [i \in D |-> RunStep(s, a, b, spans, i, f)]
  <2>1. F = CHOOSE f : f = Def(f)
    BY DEF Running
  <2>2. \E f : f = Def(f)
    BY <1>4
  <2> HIDE DEF Def, F
  <2>3. F = Def(F)
    BY <2>1, <2>2, Zenon
  <2> QED BY <2>3 DEF Def
<1>6. \A i \in D : F[i] = RunStep(s, a, b, spans, i, F)
  <2> HIDE DEF F, D
  <2> QED BY <1>5
<1>7. RescueRun(s, a, b, spans) = F[a]
  BY DEF RescueRun, Running, RunStep
<1> QED BY <1>6, <1>7

LEMMA RescueRunIs ==
  ASSUME NEW s \in Seq(Char), NEW spans, NEW a \in Nat, NEW b \in Nat, a <= b
  PROVE  RescueRun(s, a, b, spans) \in SUBSET Within(Len(s) + 1)
<1> DEFINE D == a..b
<1> DEFINE S == SUBSET Within(Len(s) + 1)
<1> DEFINE F == Running(s, a, b, spans)
<1> DEFINE T == {i \in D : F[i] \in S}
<1>1. RescueRun(s, a, b, spans) = F[a] /\ \A i \in D : F[i] = RunStep(s, a, b, spans, i, F)
  BY RunningIs
<1> HIDE DEF F
<1>2. ASSUME NEW i \in D, \A j \in i + 1..b : j \in T
      PROVE  i \in T
  <2>1. \A j \in i + 1..b : F[j] \in S
    BY <1>2
  <2>2. RunStep(s, a, b, spans, i, F) \in S
    BY <2>1, RunStepIs
  <2> QED BY <1>1, <2>2
<1>3. \A i \in D : i \in T
  <2> HIDE DEF T
  <2> QED BY <1>2, Downwards
<1>4. a \in D
  OBVIOUS
<1> QED BY <1>1, <1>3, <1>4

\* _rescue_matches finds spans of the text.
LEMMA RescueIs ==
  ASSUME NEW s \in Seq(Char), NEW start \in Nat, NEW spans
  PROVE  Rescue(s, start, spans) \in SUBSET Within(Len(s) + 1)
<1>1. ASSUME NEW r \in (start..Len(s)) \X (start + 1..Len(s) + 1), IsRun(s, start, r[1], r[2])
      PROVE  RescueRun(s, r[1], r[2], spans) \in SUBSET Within(Len(s) + 1)
  <2>1. r[1] \in Nat /\ r[2] \in Nat /\ r[1] <= r[2]
    BY <1>1 DEF IsRun
  <2> QED BY <2>1, RescueRunIs
<1> QED BY <1>1 DEF Rescue

\* A pass over spans of the text gives spans of the text.
LEMMA RescanIs ==
  ASSUME NEW s \in Seq(Char), NEW start \in 1..Len(s) + 1, NEW now \in SUBSET Within(Len(s) + 1)
  PROVE  Rescan(s, start, now) \in SUBSET Within(Len(s) + 1)
<1> DEFINE end == Len(s) + 1
<1> DEFINE gaps == UNION {Scan(s, g[1], g[2]) : g \in Gaps(start, end, now)}
<1>0. end \in Nat /\ start \in Nat /\ start <= end
  OBVIOUS
<1>1. Rescue(s, start, now) \in SUBSET Within(end)
  BY <1>0, RescueIs
<1> HIDE DEF end
<1>2. ASSUME NEW g \in Gaps(start, end, now)
      PROVE  Scan(s, g[1], g[2]) \in SUBSET Within(end)
  <2>1. \A x \in now : x.from \in Nat /\ x.to \in Nat /\ x.from < x.to /\ x.to <= end
    BY DEF Within, end
  <2>2. g[1] \in Nat /\ g[2] \in Nat /\ g[1] < g[2] /\ g[2] <= end
    BY <1>0, <2>1 DEF Gaps
  <2>3. Scan(s, g[1], g[2]) \in SUBSET Within(g[2])
    BY <2>2, ScanIs
  <2>4. Within(g[2]) \subseteq Within(end)
    BY <1>0, <2>2 DEF Within
  <2> QED BY <2>3, <2>4
<1>3. gaps \in SUBSET Within(end)
  BY <1>2
<1>4. Rescan(s, start, now) = Resolve((now \cup Rescue(s, start, now)) \cup gaps)
  BY DEF Rescan, end
<1> HIDE DEF gaps
<1>5. ((now \cup Rescue(s, start, now)) \cup gaps) \in SUBSET Within(end)
  BY <1>1, <1>3 DEF end
<1>6. Resolve((now \cup Rescue(s, start, now)) \cup gaps) \in SUBSET Within(end)
  BY <1>0, <1>5, ResolveIs
<1> QED BY <1>4, <1>6 DEF end

PassStep(s, start, k, f) ==
  IF k = 0 THEN Resolve(Scan(s, start, Len(s) + 1)) ELSE Rescan(s, start, f[k - 1])

Passes(s, start) == CHOOSE f : f = [k \in 0..RescuePasses |-> PassStep(s, start, k, f)]

\* The function that Spans recurses with solves its equation.
LEMMA PassesAre ==
  ASSUME NEW s \in Seq(Char), NEW start \in 1..Len(s) + 1
  PROVE  /\ Spans(s, start) = Passes(s, start)[RescuePasses]
         /\ \A k \in 0..RescuePasses : Passes(s, start)[k] = PassStep(s, start, k, Passes(s, start))
<1> DEFINE n == RescuePasses
<1> DEFINE D == 0..n
<1> DEFINE S == SUBSET Within(Len(s) + 1)
<1> DEFINE F == Passes(s, start)
<1> DEFINE first == Resolve(Scan(s, start, Len(s) + 1))
<1> DEFINE g == [x \in D \X [D -> S] |-> IF x[1] = n THEN first ELSE Rescan(s, start, x[2][x[1] + 1])]
<1>0. n \in Nat
  BY HoldBackAssumption
<1> HIDE DEF n
<1>1. first \in S
  <2>1. Len(s) + 1 \in Nat /\ start \in 0..Len(s) + 1
    OBVIOUS
  <2>2. Scan(s, start, Len(s) + 1) \in S
    BY <2>1, ScanIs
  <2> QED BY <2>1, <2>2, ResolveIs
<1> HIDE DEF first
<1>2. \A now \in S : Rescan(s, start, now) \in S
  BY RescanIs
<1> HIDE DEF S
<1>3. g \in [D \X [D -> S] -> S]
      /\ \A i \in D, f \in [D -> S] :
           g[<<i, f>>] = IF i = n THEN first ELSE Rescan(s, start, f[i + 1])
  <2>1. ASSUME NEW i \in D, NEW f \in [D -> S], i # n
        PROVE  Rescan(s, start, f[i + 1]) \in S
    <3>1. i + 1 \in D
      BY <1>0, <2>1
    <3> QED BY <1>2, <3>1
  <2> HIDE DEF D
  <2> QED BY <1>1, <2>1
<1>4. \E f : f = [k \in D |-> PassStep(s, start, k, f)]
  <2>1. LooksAhead(0, n, S, g)
    <3> SUFFICES ASSUME NEW i \in D, NEW f \in [D -> S], NEW h \in [D -> S],
                        Alike(i, n, f, h)
                 PROVE  g[<<i, f>>] = g[<<i, h>>]
      BY <1>0, <1>1, <1>3 DEF LooksAhead
    <3>1. i # n => f[i + 1] = h[i + 1]
      BY <1>0 DEF Alike
    <3> HIDE DEF D, g
    <3> QED BY <1>3, <3>1
  <2>2. PICK h \in [D -> S] : \A i \in D : h[i] = g[<<i, h>>]
    <3> HIDE DEF g
    <3>1. Defines(0, n, S, g)
      BY <2>1, Descent, Zenon
    <3> QED BY <3>1 DEF Defines
  <2> HIDE DEF g
  <2>3. \A i \in D : h[i] = IF i = n THEN first ELSE Rescan(s, start, h[i + 1])
    <3> HIDE DEF D
    <3> QED BY <1>3, <2>2
  <2> DEFINE f == [k \in D |-> h[n - k]]
  <2>4. ASSUME NEW k \in D
        PROVE  f[k] = PassStep(s, start, k, f)
    <3>1. n - k \in D /\ f[k] = h[n - k] /\ (k = 0 <=> n - k = n)
      BY <1>0
    <3>2. k # 0 => k - 1 \in D /\ n - (k - 1) = (n - k) + 1
      BY <1>0
    <3>3. k # 0 => f[k - 1] = h[(n - k) + 1]
      BY <3>2
    <3> HIDE DEF f, D
    <3>4. h[n - k] = IF n - k = n THEN first ELSE Rescan(s, start, h[(n - k) + 1])
      BY <2>3, <3>1
    <3> QED BY <3>1, <3>3, <3>4 DEF PassStep, first
  <2>5. f = [k \in D |-> f[k]]
    OBVIOUS
  <2> HIDE DEF f, D
  <2>6. f = [k \in D |-> PassStep(s, start, k, f)]
    BY <2>4, <2>5
  <2> QED BY <2>6
<1>5. F = [k \in D |-> PassStep(s, start, k, F)]
  <2> DEFINE Def(f) == [k \in D |-> PassStep(s, start, k, f)]
  <2>1. F = CHOOSE f : f = Def(f)
    BY DEF Passes, n
  <2>2. \E f : f = Def(f)
    BY <1>4
  <2> HIDE DEF Def, F
  <2>3. F = Def(F)
    BY <2>1, <2>2, Zenon
  <2> QED BY <2>3 DEF Def
<1>6. \A k \in D : F[k] = PassStep(s, start, k, F)
  <2> HIDE DEF F, D
  <2> QED BY <1>5
<1>7. Spans(s, start) = F[n]
  BY DEF Spans, Passes, PassStep, n
<1> QED BY <1>6, <1>7 DEF n

\* _scan_to_fixed_point gives spans of the text.
LEMMA SpansIs ==
  ASSUME NEW s \in Seq(Char), NEW start \in 1..Len(s) + 1
  PROVE  Spans(s, start) \in SUBSET Within(Len(s) + 1)
<1> DEFINE n == RescuePasses
<1> DEFINE D == 0..n
<1> DEFINE S == SUBSET Within(Len(s) + 1)
<1> DEFINE F == Passes(s, start)
<1> DEFINE first == Resolve(Scan(s, start, Len(s) + 1))
<1>0. n \in Nat
  BY HoldBackAssumption
<1>3. Spans(s, start) = F[n] /\ \A k \in D : F[k] = PassStep(s, start, k, F)
  BY PassesAre
<1> HIDE DEF n
<1>1. first \in S
  <2>1. Len(s) + 1 \in Nat /\ start \in 0..Len(s) + 1
    OBVIOUS
  <2>2. Scan(s, start, Len(s) + 1) \in S
    BY <2>1, ScanIs
  <2> QED BY <2>1, <2>2, ResolveIs
<1> HIDE DEF first
<1>2. \A now \in S : Rescan(s, start, now) \in S
  BY RescanIs
<1> HIDE DEF S
<1>6. \A k \in D : F[k] \in S
  <2> DEFINE T == {i \in D : F[n - i] \in S}
  <2> HIDE DEF F
  <2>1. \A k \in D : F[k] = PassStep(s, start, k, F)
    BY <1>3
  <2>2. ASSUME NEW i \in D, \A j \in i + 1..n : j \in T
        PROVE  i \in T
    <3>1. n - i \in D /\ (n - i # 0 => i + 1 \in i + 1..n /\ (n - i) - 1 = n - (i + 1))
      BY <1>0
    <3>2. n - i # 0 => F[(n - i) - 1] \in S
      BY <2>2, <3>1
    <3>3. PassStep(s, start, n - i, F) \in S
      BY <1>1, <1>2, <3>2 DEF PassStep, first
    <3> QED BY <2>1, <3>1, <3>3
  <2>3. \A i \in D : i \in T
    <3>1. 0 \in Nat
      OBVIOUS
    <3> HIDE DEF T
    <3> QED BY <1>0, <2>2, <3>1, Downwards
  <2>4. \A k \in D : n - k \in D /\ n - (n - k) = k
    BY <1>0
  <2>5. \A k \in D : n - k \in T
    BY <2>3, <2>4
  <2> QED BY <2>4, <2>5
<1>8. n \in D
  BY <1>0
<1> HIDE DEF F, D
<1> QED BY <1>3, <1>6, <1>8 DEF S

-----------------------------------------------------------------------------
(* The redactor: what is held and what is kept as context                  *)

LEMMA MaxOfTwo ==
  \A m, n \in Int : Max({m, n}) = IF m <= n THEN n ELSE m
<1> SUFFICES ASSUME NEW m \in Int, NEW n \in Int
             PROVE  Max({m, n}) = IF m <= n THEN n ELSE m
  OBVIOUS
<1>1. Max({m, n}) = CHOOSE x \in {m, n} : \A y \in {m, n} : x >= y
  BY DEF Max
<1>2. \E x \in {m, n} : \A y \in {m, n} : x >= y
  OBVIOUS
<1>3. Max({m, n}) \in {m, n} /\ \A y \in {m, n} : Max({m, n}) >= y
  BY <1>1, <1>2, Zenon
<1> QED BY <1>3

\* What is held may be the beginning of a word, and so is no longer than one.
LEMMA HoldIs ==
  ASSUME NEW s \in Seq(Char), NEW start \in 1..Len(s) + 1
  PROVE  /\ HoldbackIndex(s, start) \in start..Len(s) + 1
         /\ Len(s) + 1 - HoldbackIndex(s, start) <= Longest
<1> DEFINE first == Max({start, Len(s) + 1 - MaxHoldback})
<1> DEFINE may == {i \in first..Len(s) : \E p \in Patterns :
                     /\ Partial(p, s, i)
                     /\ MayBegin(p, s, i) \/ (p.numeric /\ s[i] \in Digits)}
<1> DEFINE hold == Min(may \cup {Len(s) + 1})
<1>1. Len(s) \in Nat /\ start \in Nat /\ MaxHoldback \in Nat
  BY HoldBackAssumption
<1>2. first \in Int /\ start <= first
  <2>1. start \in Int /\ Len(s) + 1 - MaxHoldback \in Int
    BY <1>1
  <2> QED BY <2>1, MaxOfTwo
<1> HIDE DEF first
<1>3. \A i \in may : i \in start..Len(s) /\ \E p \in Patterns : Partial(p, s, i)
  BY <1>1, <1>2
<1>4. HoldbackIndex(s, start) = hold
  BY DEF HoldbackIndex, first
<1> HIDE DEF may
<1>5. hold \in may \cup {Len(s) + 1}
  <2>1. may \cup {Len(s) + 1} \in SUBSET Nat /\ may \cup {Len(s) + 1} # {}
    BY <1>1, <1>3
  <2> QED BY <2>1, MinIs
<1> HIDE DEF hold
<1>6. CASE hold \in may
  <2>1. hold \in start..Len(s)
    BY <1>3, <1>6
  <2>2. PICK p \in Patterns : Partial(p, s, hold)
    BY <1>3, <1>6
  <2>3. PICK w \in p.words : IsPrefix(SubSeq(s, hold, Len(s)), w)
    BY <2>2 DEF Partial
  <2>4. Len(SubSeq(s, hold, Len(s))) <= Len(w) /\ w \in Words
    BY <2>3 DEF IsPrefix, Words
  <2>5. Len(SubSeq(s, hold, Len(s))) = Len(s) - hold + 1
    BY <1>1, <2>1
  <2>6. Len(w) \in Nat /\ Len(w) <= Longest /\ Longest \in Nat
    BY <2>4, LongestIs
  <2>7. Len(s) + 1 - hold <= Longest
    BY <1>1, <2>1, <2>4, <2>5, <2>6
  <2> QED BY <1>1, <1>4, <2>1, <2>7
<1>7. CASE hold = Len(s) + 1
  BY <1>1, <1>4, <1>7, LongestIs
<1> QED BY <1>5, <1>6, <1>7

\* The hold point only moves towards the end of the text.
LEMMA PushedIs ==
  ASSUME NEW limit \in Nat, NEW hold \in 0..limit, NEW spans \in SUBSET Within(limit)
  PROVE  Pushed(hold, spans) \in hold..limit
<1> DEFINE over == {x \in spans : x.from < hold /\ hold < x.to}
<1>1. \A x \in over : x.to \in hold..limit
  BY DEF Within
<1>2. over # {} => (CHOOSE x \in over : TRUE) \in over
  OBVIOUS
<1>3. Pushed(hold, spans) = IF over = {} THEN hold ELSE (CHOOSE x \in over : TRUE).to
  BY DEF Pushed
<1> HIDE DEF over
<1> QED BY <1>1, <1>2, <1>3

LEMMA PartIs ==
  \A s \in Seq(Char) : \A m \in 0..Len(s) : \A n \in m..Len(s) :
    /\ SubSeq(s, m + 1, n) \in Seq(Char) /\ Len(SubSeq(s, m + 1, n)) = n - m
    /\ \A i \in 1..n - m : SubSeq(s, m + 1, n)[i] = s[m + i]
OBVIOUS

LEMMA StartIs ==
  \A s \in Seq(Char) : \A n \in 0..Len(s) :
    /\ SubSeq(s, 1, n) \in Seq(Char) /\ Len(SubSeq(s, 1, n)) = n
    /\ \A i \in 1..n : SubSeq(s, 1, n)[i] = s[i]
OBVIOUS

LEMMA JoinIs ==
  \A s, t \in Seq(Char) :
    /\ s \o t \in Seq(Char) /\ Len(s \o t) = Len(s) + Len(t)
    /\ \A i \in 1..Len(s) : (s \o t)[i] = s[i]
    /\ \A i \in 1..Len(t) : (s \o t)[Len(s) + i] = t[i]
OBVIOUS

LEMMA SameText ==
  \A s, t \in Seq(Char) : Len(s) = Len(t) /\ (\A i \in 1..Len(s) : s[i] = t[i]) => s = t
BY SeqEqual

\* How much of a text of n characters the context keeps.
Kept(n) == IF n <= ContextChars THEN n ELSE ContextChars

LEMMA KeptIs == \A n \in Nat : Kept(n) \in 0..n /\ Kept(n) \in 0..ContextChars
BY HoldBackAssumption DEF Kept

LEMMA LastOfIs ==
  ASSUME NEW s \in Seq(Char)
  PROVE  LastOf(s, ContextChars) = SubSeq(s, (Len(s) - Kept(Len(s))) + 1, Len(s))
<1>1. Len(s) \in Nat /\ ContextChars \in Nat \ {0} /\ 1 \in Int
      /\ Len(s) - ContextChars + 1 \in Int
  BY HoldBackAssumption
<1>2. Max({1, Len(s) - ContextChars + 1}) =
        IF 1 <= Len(s) - ContextChars + 1 THEN Len(s) - ContextChars + 1 ELSE 1
  BY <1>1, MaxOfTwo
<1>3. Max({1, Len(s) - ContextChars + 1}) = (Len(s) - Kept(Len(s))) + 1
  <2> DEFINE m == Max({1, Len(s) - ContextChars + 1})
  <2> DEFINE n == Len(s)
  <2>1. m = IF 1 <= (n - ContextChars) + 1 THEN (n - ContextChars) + 1 ELSE 1
    BY <1>2
  <2>2. n \in Nat /\ ContextChars \in Nat
    BY <1>1
  <2> HIDE DEF m, n
  <2>3. CASE n <= ContextChars
    <3>1. Kept(n) = n /\ m = 1 /\ (n - n) + 1 = 1
      BY <2>1, <2>2, <2>3 DEF Kept
    <3> QED BY <3>1 DEF m, n
  <2>4. CASE ~ (n <= ContextChars)
    <3>1. Kept(n) = ContextChars /\ m = (n - ContextChars) + 1
      BY <2>1, <2>2, <2>4 DEF Kept
    <3> QED BY <3>1 DEF m, n
  <2> QED BY <2>3, <2>4
<1> QED BY <1>3 DEF LastOf

\* The context of a text of which the first characters are gone.
LEMMA LastIs ==
  \A u \in Seq(Char) : \A gone \in 0..Len(u) :
    /\ LastOf(SubSeq(u, 1, gone), ContextChars) = SubSeq(u, (gone - Kept(gone)) + 1, gone)
    /\ LastOf(SubSeq(u, 1, gone), ContextChars) \in Seq(Char)
    /\ Len(LastOf(SubSeq(u, 1, gone), ContextChars)) = Kept(gone)
    /\ \A i \in 1..Kept(gone) :
         LastOf(SubSeq(u, 1, gone), ContextChars)[i] = u[(gone - Kept(gone)) + i]
<1> SUFFICES ASSUME NEW u \in Seq(Char), NEW gone \in 0..Len(u)
             PROVE  /\ LastOf(SubSeq(u, 1, gone), ContextChars)
                         = SubSeq(u, (gone - Kept(gone)) + 1, gone)
                    /\ LastOf(SubSeq(u, 1, gone), ContextChars) \in Seq(Char)
                    /\ Len(LastOf(SubSeq(u, 1, gone), ContextChars)) = Kept(gone)
                    /\ \A i \in 1..Kept(gone) :
                         LastOf(SubSeq(u, 1, gone), ContextChars)[i] = u[(gone - Kept(gone)) + i]
  OBVIOUS
<1> DEFINE k == Kept(gone)
<1> DEFINE before == SubSeq(u, (gone - k) + 1, gone)
<1>1. k \in 0..gone /\ gone \in Nat /\ Len(u) \in Nat /\ gone <= Len(u)
  BY KeptIs
<1> HIDE DEF k
<1>2. /\ before \in Seq(Char) /\ Len(before) = k
      /\ \A i \in 1..k : before[i] = u[(gone - k) + i]
  <2>1. gone - k \in 0..Len(u) /\ gone \in gone - k..Len(u) /\ gone - (gone - k) = k
    BY <1>1
  <2> QED BY <2>1, PartIs
<1>3. LastOf(SubSeq(u, 1, gone), ContextChars) = before
  <2> DEFINE q == SubSeq(u, 1, gone)
  <2>1. q \in Seq(Char) /\ Len(q) = gone /\ \A i \in 1..gone : q[i] = u[i]
    BY <1>1, StartIs
  <2> HIDE DEF q
  <2>2. LastOf(q, ContextChars) = SubSeq(q, (gone - k) + 1, gone)
    BY <2>1, LastOfIs DEF k
  <2> DEFINE part == SubSeq(q, (gone - k) + 1, gone)
  <2>3. gone - k \in 0..gone /\ gone - (gone - k) = k /\ gone \in gone - k..gone
        /\ gone - k \in 0..Len(u) /\ gone \in gone - k..Len(u)
    BY <1>1
  <2>4. /\ part \in Seq(Char) /\ Len(part) = k
        /\ \A i \in 1..k : part[i] = q[(gone - k) + i]
    BY <2>1, <2>3, PartIs
  <2> HIDE DEF part
  <2>5. \A i \in 1..k : part[i] = before[i]
    <3>1. \A i \in 1..k : (gone - k) + i \in 1..gone
      BY <1>1
    <3> HIDE DEF before
    <3> QED BY <1>2, <2>1, <2>4, <3>1
  <2>6. part = before
    <3> HIDE DEF before
    <3> QED BY <1>2, <2>4, <2>5, SameText
  <2> QED BY <2>2, <2>6 DEF q, part
<1> QED BY <1>2, <1>3 DEF k

\* The context and what follows it are the end of the text.
LEMMA FullIs ==
  ASSUME NEW u \in Seq(Char), NEW v \in Seq(Char), NEW gone \in 0..Len(u)
  PROVE  LastOf(SubSeq(u, 1, gone), ContextChars) \o (SubSeq(u, gone + 1, Len(u)) \o v)
           = SubSeq(u \o v, (gone - Kept(gone)) + 1, Len(u \o v))
<1> DEFINE k == Kept(gone)
<1> DEFINE t == u \o v
<1> DEFINE before == SubSeq(u, (gone - k) + 1, gone)
<1> DEFINE after == SubSeq(u, gone + 1, Len(u))
<1> DEFINE rest == SubSeq(t, (gone - k) + 1, Len(t))
<1>1. k \in 0..gone /\ gone \in Nat /\ Len(u) \in Nat /\ Len(v) \in Nat /\ gone <= Len(u)
  BY KeptIs
<1> HIDE DEF k
<1>2. /\ t \in Seq(Char) /\ Len(t) = Len(u) + Len(v)
      /\ \A i \in 1..Len(u) : t[i] = u[i]
      /\ \A i \in 1..Len(v) : t[Len(u) + i] = v[i]
  BY JoinIs
<1> HIDE DEF t
<1>3. /\ before \in Seq(Char) /\ Len(before) = k
      /\ \A i \in 1..k : before[i] = u[(gone - k) + i]
      /\ LastOf(SubSeq(u, 1, gone), ContextChars) = before
  <2>1. before = LastOf(SubSeq(u, 1, gone), ContextChars)
    BY LastIs DEF k
  <2> HIDE DEF before
  <2> QED BY <2>1, LastIs DEF k
<1>5. /\ after \in Seq(Char) /\ Len(after) = Len(u) - gone
      /\ \A i \in 1..Len(u) - gone : after[i] = u[gone + i]
  <2>1. gone \in 0..Len(u) /\ Len(u) \in gone..Len(u)
    BY <1>1
  <2> QED BY <2>1, PartIs
<1>6. /\ rest \in Seq(Char) /\ Len(rest) = (Len(t) - gone) + k
      /\ \A i \in 1..(Len(t) - gone) + k : rest[i] = t[(gone - k) + i]
  <2>1. gone - k \in 0..Len(t) /\ Len(t) \in gone - k..Len(t) /\ Len(t) - (gone - k) = (Len(t) - gone) + k
    BY <1>1, <1>2
  <2> QED BY <1>2, <2>1, PartIs
<1> HIDE DEF before, after, rest
<1> DEFINE tail == after \o v
<1>7. /\ tail \in Seq(Char) /\ Len(tail) = (Len(u) - gone) + Len(v)
      /\ \A i \in 1..Len(u) - gone : tail[i] = u[gone + i]
      /\ \A i \in 1..Len(v) : tail[(Len(u) - gone) + i] = v[i]
  <2>1. /\ tail \in Seq(Char) /\ Len(tail) = Len(after) + Len(v)
        /\ \A i \in 1..Len(after) : tail[i] = after[i]
        /\ \A i \in 1..Len(v) : tail[Len(after) + i] = v[i]
    BY <1>5, JoinIs
  <2> HIDE DEF tail
  <2> QED BY <1>5, <2>1
<1> HIDE DEF tail
<1>8. \A i \in 1..(Len(u) - gone) + Len(v) : tail[i] = t[gone + i]
  <2> SUFFICES ASSUME NEW i \in 1..(Len(u) - gone) + Len(v)
               PROVE  tail[i] = t[gone + i]
    OBVIOUS
  <2>1. CASE i <= Len(u) - gone
    <3>1. i \in 1..Len(u) - gone /\ gone + i \in 1..Len(u)
      BY <1>1, <2>1
    <3> QED BY <1>2, <1>7, <3>1
  <2>2. CASE ~ (i <= Len(u) - gone)
    <3>1. (i - (Len(u) - gone)) \in 1..Len(v)
          /\ (Len(u) - gone) + (i - (Len(u) - gone)) = i
          /\ Len(u) + (i - (Len(u) - gone)) = gone + i
      BY <1>1, <2>2
    <3> QED BY <1>2, <1>7, <3>1
  <2> QED BY <2>1, <2>2
<1> DEFINE whole == before \o tail
<1>9. /\ whole \in Seq(Char) /\ Len(whole) = k + ((Len(u) - gone) + Len(v))
      /\ \A i \in 1..k : whole[i] = before[i]
      /\ \A i \in 1..(Len(u) - gone) + Len(v) : whole[k + i] = tail[i]
  <2>1. /\ whole \in Seq(Char) /\ Len(whole) = Len(before) + Len(tail)
        /\ \A i \in 1..Len(before) : whole[i] = before[i]
        /\ \A i \in 1..Len(tail) : whole[Len(before) + i] = tail[i]
    BY <1>3, <1>7, JoinIs
  <2> HIDE DEF whole
  <2> QED BY <1>3, <1>7, <2>1
<1> HIDE DEF whole
<1>10. ASSUME NEW i \in 1..k + ((Len(u) - gone) + Len(v))
       PROVE  whole[i] = rest[i]
  <2>0. rest[i] = t[(gone - k) + i]
    <3>1. i \in 1..(Len(t) - gone) + k
      BY <1>1, <1>2
    <3> QED BY <1>6, <3>1
  <2>1. CASE i <= k
    <3>1. i \in 1..k /\ (gone - k) + i \in 1..Len(u)
      BY <1>1, <2>1
    <3> QED BY <1>2, <1>3, <1>9, <2>0, <3>1
  <2>2. CASE ~ (i <= k)
    <3>1. i - k \in 1..(Len(u) - gone) + Len(v) /\ k + (i - k) = i /\ gone + (i - k) = (gone - k) + i
      BY <1>1, <2>2
    <3>2. whole[i] = tail[i - k] /\ tail[i - k] = t[gone + (i - k)]
      BY <1>8, <1>9, <3>1
    <3> QED BY <2>0, <3>1, <3>2
  <2> QED BY <2>1, <2>2
<1>11. whole = rest
  <2>1. Len(whole) = Len(rest)
    BY <1>1, <1>2, <1>6, <1>9
  <2> QED BY <1>6, <1>9, <1>10, <2>1, SameText
<1> QED BY <1>3, <1>11 DEF whole, tail, after, rest, t, k

CutAt(t, full, m, n) ==
  /\ n \in 0..Len(t) /\ Len(full) - m = Len(t) - n
  /\ SubSeq(full, m + 1, Len(full)) = SubSeq(t, n + 1, Len(t))
  /\ LastOf(SubSeq(full, 1, m), ContextChars) = LastOf(SubSeq(t, 1, n), ContextChars)

\* What is cut off the end of the text is held, and what is left has its context.
LEMMA CutIs ==
  \A t \in Seq(Char) : \A gone \in 0..Len(t) : \A full, m, n :
    /\ full = SubSeq(t, (gone - Kept(gone)) + 1, Len(t))
    /\ m \in Kept(gone)..Len(full) /\ n = (gone - Kept(gone)) + m
    => CutAt(t, full, m, n)
<1> SUFFICES ASSUME NEW t \in Seq(Char), NEW gone \in 0..Len(t), NEW full, NEW m, NEW n,
                    full = SubSeq(t, (gone - Kept(gone)) + 1, Len(t)),
                    m \in Kept(gone)..Len(full), n = (gone - Kept(gone)) + m
             PROVE  CutAt(t, full, m, n)
  OBVIOUS
<1> DEFINE k == Kept(gone)
<1> DEFINE o == gone - k
<1>1. k \in 0..gone /\ gone \in Nat /\ Len(t) \in Nat /\ gone <= Len(t)
  BY KeptIs
<1> HIDE DEF k
<1>2. /\ full \in Seq(Char) /\ Len(full) = Len(t) - o
      /\ \A i \in 1..Len(t) - o : full[i] = t[o + i]
  <2>1. o \in 0..Len(t) /\ Len(t) \in o..Len(t)
    BY <1>1
  <2>2. full = SubSeq(t, o + 1, Len(t))
    BY DEF k
  <2> HIDE DEF o
  <2> QED BY <2>1, <2>2, PartIs
<1>3. /\ o \in Nat /\ o + k = gone /\ k \in Nat /\ Len(full) \in Nat /\ Len(full) = Len(t) - o
      /\ m \in k..Len(full) /\ n = o + m
  <2>1. o \in Nat /\ o + k = gone /\ k \in Nat
    BY <1>1
  <2>2. m \in k..Len(full) /\ n = o + m
    BY DEF k
  <2>3. Len(full) \in Nat /\ Len(full) = Len(t) - o
    BY <1>2
  <2> HIDE DEF o
  <2> QED BY <2>1, <2>2, <2>3
<1> HIDE DEF o
<1>4. n \in 0..Len(t) /\ Len(full) - m = Len(t) - n /\ n >= gone /\ n \in Nat /\ m \in Nat
  BY ONLY <1>1, <1>3
<1>5. SubSeq(full, m + 1, Len(full)) = SubSeq(t, n + 1, Len(t))
  <2> DEFINE p == SubSeq(full, m + 1, Len(full))
  <2> DEFINE q == SubSeq(t, n + 1, Len(t))
  <2>1. m \in 0..Len(full) /\ Len(full) \in m..Len(full) /\ Len(t) \in n..Len(t)
    BY ONLY <1>1, <1>3, <1>4
  <2>2. /\ p \in Seq(Char) /\ Len(p) = Len(full) - m
        /\ \A i \in 1..Len(full) - m : p[i] = full[m + i]
    BY <1>2, <2>1, PartIs
  <2>3. /\ q \in Seq(Char) /\ Len(q) = Len(t) - n
        /\ \A i \in 1..Len(t) - n : q[i] = t[n + i]
    BY <1>4, <2>1, PartIs
  <2> HIDE DEF p, q
  <2>4. ASSUME NEW i \in 1..Len(full) - m
        PROVE  p[i] = q[i]
    <3>0. i \in 1..Len(full) - m
      OBVIOUS
    <3>1. m + i \in 1..Len(t) - o /\ o + (m + i) = n + i /\ i \in 1..Len(t) - n
      BY ONLY <1>1, <1>3, <1>4, <3>0
    <3> QED BY <1>2, <2>2, <2>3, <3>1
  <2>5. p = q
    BY <1>4, <2>2, <2>3, <2>4, SameText
  <2> QED BY <2>5 DEF p, q
<1>6. LastOf(SubSeq(full, 1, m), ContextChars) = LastOf(SubSeq(t, 1, n), ContextChars)
  <2> DEFINE p == LastOf(SubSeq(full, 1, m), ContextChars)
  <2> DEFINE q == LastOf(SubSeq(t, 1, n), ContextChars)
  <2>1. m \in 0..Len(full) /\ n \in 0..Len(t)
    BY ONLY <1>3, <1>4
  <2>2. /\ p \in Seq(Char) /\ Len(p) = Kept(m)
        /\ \A i \in 1..Kept(m) : p[i] = full[(m - Kept(m)) + i]
    BY <1>2, <2>1, LastIs
  <2>3. /\ q \in Seq(Char) /\ Len(q) = Kept(n)
        /\ \A i \in 1..Kept(n) : q[i] = t[(n - Kept(n)) + i]
    BY <2>1, LastIs
  <2> HIDE DEF p, q
  <2>4. Kept(m) = Kept(n)
    <3>1. ContextChars \in Nat
      BY HoldBackAssumption
    <3>2. CASE gone <= ContextChars
      <4>1. k = gone
        BY <3>2 DEF k, Kept
      <4>2. m = n
        BY <1>1, <1>3, <4>1
      <4> QED BY <4>2
    <3>3. CASE ~ (gone <= ContextChars)
      <4>1. k = ContextChars
        BY <3>3 DEF k, Kept
      <4>2. m >= ContextChars /\ n > ContextChars /\ m \in Nat /\ n \in Nat
        BY <1>3, <1>4, <1>1, <3>1, <3>3, <4>1
      <4>3. Kept(m) = ContextChars /\ Kept(n) = ContextChars
        BY <3>1, <4>2 DEF Kept
      <4> QED BY <4>3
    <3> QED BY <3>2, <3>3
  <2>5. Kept(m) \in 0..m
    BY <1>4, KeptIs
  <2>6. ASSUME NEW i \in 1..Kept(m)
        PROVE  p[i] = q[i]
    <3> DEFINE c == Kept(m)
    <3>1. c \in 0..m /\ i \in 1..c /\ c = Kept(n)
      BY <2>4, <2>5
    <3> HIDE DEF c
    <3>2. (m - c) + i \in 1..Len(t) - o /\ o + ((m - c) + i) = (n - c) + i
      BY ONLY <1>3, <1>4, <1>1, <3>1
    <3>3. p[i] = full[(m - c) + i]
      BY <2>2 DEF c
    <3>4. q[i] = t[(n - c) + i]
      BY <2>3, <3>1
    <3> QED BY <1>2, <3>2, <3>3, <3>4
  <2>7. p = q
    BY <2>2, <2>3, <2>4, <2>6, SameText
  <2> QED BY <2>7 DEF p, q
<1> QED BY <1>4, <1>5, <1>6 DEF CutAt

Holds(txt, buf, ctx) ==
  LET gone == Len(txt) - Len(buf)
  IN /\ txt \in Seq(Char) /\ buf \in Seq(Char) /\ ctx \in Seq(Char)
     /\ Len(buf) <= Len(txt) /\ Len(buf) <= Longest
     /\ buf = SubSeq(txt, gone + 1, Len(txt)) /\ ctx = LastOf(SubSeq(txt, 1, gone), ContextChars)

RedactorInv ==
  /\ text \in Seq(Char) /\ buffer \in Seq(Char) /\ context \in Seq(Char) /\ flushed \in BOOLEAN
  /\ Len(buffer) <= Len(text)
  /\ HoldsTheEnd

LEMMA RedactorInitInv == RedactorInit => RedactorInv
<1> SUFFICES ASSUME RedactorInit PROVE RedactorInv
  OBVIOUS
<1>1. text = <<>> /\ buffer = <<>> /\ context = <<>> /\ flushed = FALSE
  BY DEF RedactorInit
<1>2. <<>> \in Seq(Char) /\ Len(<<>>) = 0 /\ SubSeq(<<>>, 1, 0) = <<>>
  OBVIOUS
<1>3. LastOf(SubSeq(<<>>, 1, 0), ContextChars) = <<>>
  <2>1. 0 \in 0..Len(<<>>) /\ Kept(0) = 0
    BY <1>2, HoldBackAssumption DEF Kept
  <2>2. LastOf(SubSeq(<<>>, 1, 0), ContextChars) = SubSeq(<<>>, (0 - Kept(0)) + 1, 0)
    BY <1>2, <2>1, LastIs
  <2>3. (0 - Kept(0)) + 1 = 1
    BY <2>1
  <2> QED BY <1>2, <2>2, <2>3
<1>4. Len(text) - Len(buffer) = 0 /\ 0 + 1 = 1
  BY <1>1, <1>2
<1>5. HoldsTheEnd
  <2>1. buffer = SubSeq(text, (Len(text) - Len(buffer)) + 1, Len(text))
    BY <1>1, <1>2
  <2>2. context = LastOf(SubSeq(text, 1, Len(text) - Len(buffer)), ContextChars)
    BY <1>1, <1>2, <1>3
  <2>3. Len(buffer) <= Longest
    BY <1>1, <1>2, LongestIs
  <2> QED BY <2>1, <2>2, <2>3 DEF HoldsTheEnd
<1>6. Len(buffer) <= Len(text)
  BY <1>1, <1>2
<1>7. text \in Seq(Char) /\ buffer \in Seq(Char) /\ context \in Seq(Char) /\ flushed \in BOOLEAN
  BY <1>1, <1>2
<1> QED BY ONLY <1>5, <1>6, <1>7 DEF RedactorInv

LEMMA InvHolds == RedactorInv /\ ~ flushed => Holds(text, buffer, context)
  BY DEF RedactorInv, HoldsTheEnd, Holds

\* Nothing fed yet.
LEMMA NothingHolds == Holds(<<>>, <<>>, <<>>)
<1>1. <<>> \in Seq(Char) /\ Len(<<>>) = 0 /\ SubSeq(<<>>, 1, 0) = <<>>
  OBVIOUS
<1>2. 0 \in 0..Len(<<>>) /\ Kept(0) = 0
  BY <1>1, HoldBackAssumption DEF Kept
<1>3. LastOf(SubSeq(<<>>, 1, 0), ContextChars) = SubSeq(<<>>, (0 - Kept(0)) + 1, 0)
  BY <1>1, <1>2, LastIs
<1>4. (0 - Kept(0)) + 1 = 1 /\ 0 - 0 = 0 /\ 0 + 1 = 1
  BY <1>2
<1> QED BY <1>1, <1>3, <1>4, LongestIs DEF Holds

\* _emit sees the end of the text and as much context as it is to have.
Windowed(txt, buf, ctx, chunk) ==
  LET gone == Len(txt) - Len(buf)
      o    == gone - Kept(gone)
      full == ctx \o (buf \o chunk)
      t    == txt \o chunk
  IN /\ gone \in 0..Len(txt) /\ o \in Nat /\ Len(ctx) = Kept(gone)
     /\ o + (Len(ctx) + 1) = gone + 1 /\ (Len(ctx) + 1 > 1 \/ o = 0)
     /\ full \in Seq(Char) /\ t \in Seq(Char) /\ Len(full) \in Nat /\ Len(t) \in Nat
     /\ Len(ctx) + 1 \in 1..Len(full) + 1
     /\ full = SubSeq(t, o + 1, Len(t)) /\ o + Len(full) = Len(t)
     /\ \A m \in 1..Len(full) : full[m] = t[o + m]

LEMMA FullWindow ==
  ASSUME NEW txt, NEW buf, NEW ctx, Holds(txt, buf, ctx), NEW chunk \in Seq(Char)
  PROVE  Windowed(txt, buf, ctx, chunk)
<1> DEFINE gone == Len(txt) - Len(buf)
<1> DEFINE k == Kept(gone)
<1> DEFINE o == gone - k
<1> DEFINE t == txt \o chunk
<1> DEFINE full == ctx \o (buf \o chunk)
<1> DEFINE base == Len(ctx) + 1
<1>1. /\ txt \in Seq(Char) /\ buf \in Seq(Char) /\ ctx \in Seq(Char)
      /\ Len(buf) <= Len(txt)
      /\ buf = SubSeq(txt, gone + 1, Len(txt))
      /\ ctx = LastOf(SubSeq(txt, 1, gone), ContextChars)
  BY DEF Holds
<1>4. gone \in 0..Len(txt) /\ Len(txt) \in Nat
  BY <1>1
<1>5. Len(ctx) = k /\ k \in 0..gone
  <2> HIDE DEF gone
  <2>1. gone \in Nat /\ k \in 0..gone
    BY <1>4, KeptIs
  <2>2. LastOf(SubSeq(txt, 1, gone), ContextChars) \in Seq(Char)
        /\ Len(LastOf(SubSeq(txt, 1, gone), ContextChars)) = k
    BY <1>1, <1>4, LastIs
  <2> HIDE DEF k
  <2> QED BY <1>1, <2>1, <2>2
<1> HIDE DEF gone
<1>6. full = SubSeq(t, o + 1, Len(t))
  BY <1>1, <1>4, FullIs
<1>7. t \in Seq(Char) /\ Len(t) = Len(txt) + Len(chunk) /\ Len(chunk) \in Nat /\ Len(t) \in Nat
  <2>1. t \in Seq(Char) /\ Len(t) = Len(txt) + Len(chunk) /\ Len(chunk) \in Nat
    BY <1>1, JoinIs
  <2> HIDE DEF t
  <2> QED BY <1>4, <2>1
<1>c. k = gone \/ k > 0
  BY HoldBackAssumption DEF Kept
<1> HIDE DEF k, t
<1>8. o \in Nat /\ o + base = gone + 1 /\ (base > 1 \/ o = 0) /\ o <= Len(t)
  BY <1>4, <1>5, <1>7, <1>c
<1> HIDE DEF o
<1>9. full \in Seq(Char) /\ Len(full) = Len(t) - o /\ \A m \in 1..Len(t) - o : full[m] = t[o + m]
  <2>1. o \in 0..Len(t) /\ Len(t) \in o..Len(t)
    BY <1>7, <1>8
  <2> HIDE DEF full
  <2> QED BY <1>6, <1>7, <2>1, PartIs
<1> HIDE DEF full
<1>10. Len(full) \in Nat /\ o + Len(full) = Len(t) /\ \A m \in 1..Len(full) : full[m] = t[o + m]
  BY <1>7, <1>8, <1>9
<1>11. base \in 1..Len(full) + 1
  <2>1. o + base <= Len(t) + 1
    BY <1>4, <1>7, <1>8
  <2>2. base \in Nat /\ base >= 1
    BY <1>1
  <2> QED BY <1>8, <1>10, <2>1, <2>2
<1> QED BY <1>4, <1>5, <1>6, <1>7, <1>8, <1>9, <1>10, <1>11 DEF o, k, gone, t, full, Windowed

\* A chunk that is not the last: what is kept is still the end, with its context.
LEMMA EmissionHolds ==
  ASSUME NEW txt, NEW buf, NEW ctx, Holds(txt, buf, ctx), NEW chunk \in Seq(Char)
  PROVE  LET e == Emission(ctx, buf \o chunk, FALSE)
         IN Holds(txt \o chunk, e.buffer, e.context)
<1> DEFINE e == Emission(ctx, buf \o chunk, FALSE)
<1> DEFINE gone == Len(txt) - Len(buf)
<1> DEFINE k == Kept(gone)
<1> DEFINE t == txt \o chunk
<1> DEFINE full == ctx \o (buf \o chunk)
<1> DEFINE base == Len(ctx) + 1
<1> DEFINE spans == Spans(full, base)
<1> DEFINE hold == Pushed(HoldbackIndex(full, base), spans)
<1>1. /\ txt \in Seq(Char) /\ buf \in Seq(Char) /\ ctx \in Seq(Char)
      /\ Len(buf) <= Len(txt)
      /\ buf = SubSeq(txt, gone + 1, Len(txt))
      /\ ctx = LastOf(SubSeq(txt, 1, gone), ContextChars)
  BY DEF Holds
<1>3. /\ e.buffer = SubSeq(full, hold, Len(full))
      /\ e.context = LastOf(SubSeq(full, 1, hold - 1), ContextChars)
  BY DEF Emission
<1> HIDE DEF e
<1>w. Windowed(txt, buf, ctx, chunk)
  BY FullWindow
<1>4. /\ gone \in 0..Len(txt) /\ Len(ctx) = k /\ gone - k \in Nat
      /\ (gone - k) + base = gone + 1 /\ base \in 1..Len(full) + 1
      /\ full \in Seq(Char) /\ t \in Seq(Char) /\ Len(full) \in Nat /\ Len(t) \in Nat
      /\ full = SubSeq(t, (gone - k) + 1, Len(t)) /\ (gone - k) + Len(full) = Len(t)
  BY <1>w DEF Windowed
<1> HIDE DEF gone, t, full
<1>5. gone \in Nat /\ k \in 0..gone
  BY <1>1, <1>4, KeptIs
<1> HIDE DEF k, base
<1>6. full = SubSeq(t, (gone - k) + 1, Len(t))
  BY <1>4
<1>7. t \in Seq(Char) /\ Len(t) \in Nat /\ gone \in 0..Len(t)
  BY <1>4, <1>5
<1>8. full \in Seq(Char) /\ base \in 1..Len(full) + 1 /\ Len(full) \in Nat
  BY <1>4
<1>9. spans \in SUBSET Within(Len(full) + 1)
  BY <1>8, SpansIs
<1> HIDE DEF spans
<1>10. hold \in base..Len(full) + 1 /\ Len(full) + 1 - hold <= Longest
  <2> DEFINE point == HoldbackIndex(full, base)
  <2>1. point \in base..Len(full) + 1 /\ Len(full) + 1 - point <= Longest
    BY <1>8, HoldIs
  <2> HIDE DEF point
  <2>2. point \in 0..Len(full) + 1 /\ Len(full) + 1 \in Nat
    BY <1>8, <2>1
  <2>3. hold \in point..Len(full) + 1
    BY <1>9, <2>2, PushedIs DEF point
  <2> HIDE DEF hold
  <2> QED BY <1>8, <2>1, <2>3, LongestIs
<1> HIDE DEF hold
<1> DEFINE m == hold - 1
<1> DEFINE n == (gone - k) + m
<1>11. m \in k..Len(full) /\ m + 1 = hold
  BY <1>4, <1>5, <1>8, <1>10
<1> HIDE DEF m
<1>12. /\ n \in 0..Len(t) /\ Len(full) - m = Len(t) - n
       /\ SubSeq(full, m + 1, Len(full)) = SubSeq(t, n + 1, Len(t))
       /\ LastOf(SubSeq(full, 1, m), ContextChars) = LastOf(SubSeq(t, 1, n), ContextChars)
  <2>1. full = SubSeq(t, (gone - Kept(gone)) + 1, Len(t)) /\ m \in Kept(gone)..Len(full)
        /\ n = (gone - Kept(gone)) + m
    BY <1>6, <1>11 DEF k
  <2> HIDE DEF n
  <2>2. CutAt(t, full, m, n)
    BY <1>7, <2>1, CutIs
  <2> QED BY <2>2 DEF CutAt
<1> HIDE DEF n
<1>13. e.buffer = SubSeq(t, n + 1, Len(t)) /\ e.context = LastOf(SubSeq(t, 1, n), ContextChars)
  BY <1>3, <1>11, <1>12 DEF m
<1>14. e.buffer \in Seq(Char) /\ Len(e.buffer) = Len(t) - n
  <2>1. n \in 0..Len(t) /\ Len(t) \in n..Len(t)
    BY <1>7, <1>12
  <2> QED BY <1>7, <1>13, <2>1, PartIs
<1>15. e.context \in Seq(Char)
  BY <1>7, <1>12, <1>13, LastIs
<1>16. Len(e.buffer) <= Longest
  <2>1. Len(full) + 1 - hold = Len(full) - m
    BY <1>8, <1>10, <1>11
  <2> QED BY <1>10, <1>12, <1>14, <2>1
<1>17. Len(t) - Len(e.buffer) = n /\ Len(e.buffer) <= Len(t)
  BY <1>7, <1>12, <1>14
<1> QED BY <1>7, <1>13, <1>14, <1>15, <1>16, <1>17 DEF Holds, t, e

LEMMA FeedKeeps ==
  ASSUME RedactorInv, NEW chunk \in Chunks, Feed(chunk)
  PROVE  RedactorInv'
<1> DEFINE e == Emission(context, buffer \o chunk, FALSE)
<1>1. chunk \in Seq(Char)
  BY HoldBackAssumption DEF Chunks
<1>2. Holds(text, buffer, context) /\ flushed = FALSE
  BY InvHolds DEF Feed, RedactorInv
<1>3. Holds(text \o chunk, e.buffer, e.context)
  BY <1>1, <1>2, EmissionHolds
<1>4. text' = text \o chunk /\ buffer' = e.buffer /\ context' = e.context /\ flushed' = flushed
  BY DEF Feed
<1> HIDE DEF e
<1>5. Holds(text', buffer', context') /\ flushed' = FALSE
  BY <1>2, <1>3, <1>4
<1> QED BY <1>5 DEF Holds, RedactorInv, HoldsTheEnd

LEMMA FlushKeeps ==
  ASSUME RedactorInv, Flush
  PROVE  RedactorInv'
<1> DEFINE full == context \o buffer
<1>1. /\ text \in Seq(Char) /\ full \in Seq(Char)
      /\ text' = text /\ flushed' = TRUE /\ context' = <<>>
      /\ buffer' = SubSeq(full, Len(full) + 1, Len(full))
  BY JoinIs DEF RedactorInv, Flush, Emission
<1> HIDE DEF full
<1>2. \A s \in Seq(Char) : SubSeq(s, Len(s) + 1, Len(s)) = <<>>
  OBVIOUS
<1>3. buffer' = <<>> /\ Len(buffer') = 0 /\ <<>> \in Seq(Char)
  BY <1>1, <1>2
<1>4. Len(text) \in Nat /\ Len(text') - Len(buffer') = Len(text)
  BY <1>1, <1>3
<1>5. HoldsTheEnd'
  BY <1>1, <1>2, <1>3, <1>4, LongestIs DEF HoldsTheEnd
<1> QED BY <1>1, <1>3, <1>4, <1>5 DEF RedactorInv

\* Safety of the redactor's buffer, for every text, chunking and set of patterns: what
\* it holds is the end of what it was fed and no longer than the longest match, and
\* what it let go is followed by its context.
THEOREM HeldIsTheEnd == RedactorSpec => []HoldsTheEnd
<1>1. RedactorInv /\ [RedactorNext]_redactorVars => RedactorInv'
  <2> SUFFICES ASSUME RedactorInv, [RedactorNext]_redactorVars PROVE RedactorInv'
    OBVIOUS
  <2>1. CASE \E chunk \in Chunks : Feed(chunk)
    BY <2>1, FeedKeeps
  <2>2. CASE Flush
    BY <2>2, FlushKeeps
  <2>3. CASE UNCHANGED redactorVars
    BY <2>3 DEF redactorVars, RedactorInv, HoldsTheEnd
  <2> QED BY <2>1, <2>2, <2>3 DEF RedactorNext
<1>2. RedactorInv => HoldsTheEnd
  BY DEF RedactorInv
<1> QED BY RedactorInitInv, <1>1, <1>2, PTL DEF RedactorSpec

-----------------------------------------------------------------------------
(* The redactor: its forward scan, step by step                           *)

\* A scan that passes a place goes on from there as a scan that starts there.
LEMMA ScanFrom ==
  ASSUME NEW s, NEW limit \in Nat, NEW start \in 0..limit, NEW k \in start..limit
  PROVE  Scanning(s, start, limit)[k] = Scan(s, k, limit)
<1> DEFINE F == Scanning(s, start, limit)
<1> DEFINE H == Scanning(s, k, limit)
<1> DEFINE T == {i \in k..limit : F[i] = H[i]}
<1>1. k \in 0..limit /\ k \in k..limit /\ \A i \in k..limit : i \in start..limit /\ i \in 0..limit
  OBVIOUS
<1>2. \A i \in k..limit : F[i] = ScanStep(s, limit, i, F) /\ H[i] = ScanStep(s, limit, i, H)
  BY <1>1, ScanningIs
<1>3. Scan(s, k, limit) = H[k]
  BY <1>1, ScanningIs
<1> HIDE DEF F, H
<1>4. ASSUME NEW i \in k..limit, \A j \in i + 1..limit : j \in T
      PROVE  i \in T
  <2>1. Alike(i, limit, F, H)
    BY <1>4 DEF Alike
  <2>2. ScanStep(s, limit, i, F) = ScanStep(s, limit, i, H)
    BY <1>1, <2>1, ScanStepIs
  <2> QED BY <1>2, <2>2
<1>5. \A i \in k..limit : i \in T
  <2>1. k \in Nat
    OBVIOUS
  <2> HIDE DEF T
  <2> QED BY <1>4, <2>1, Downwards
<1> QED BY <1>1, <1>3, <1>5 DEF F

\* One step of the scan, as the code's loop takes it.
LEMMA ScanSteps ==
  ASSUME NEW s, NEW limit \in Nat, NEW i \in 0..limit
  PROVE  /\ i = limit => Scan(s, i, limit) = {}
         /\ i # limit /\ MatchAt(s, i, limit) = {} => Scan(s, i, limit) = Scan(s, i + 1, limit)
         /\ i # limit /\ MatchAt(s, i, limit) # {} =>
              Scan(s, i, limit) = {Span(i, LongestOf(MatchAt(s, i, limit)))}
                                  \cup Scan(s, i + Len(LongestOf(MatchAt(s, i, limit))), limit)
<1> DEFINE F == Scanning(s, i, limit)
<1> DEFINE w == LongestOf(MatchAt(s, i, limit))
<1>1. Scan(s, i, limit) = ScanStep(s, limit, i, F)
  <2>1. i \in i..limit
    OBVIOUS
  <2> QED BY <2>1, ScanningIs
<1>2. i # limit => i + 1 \in i..limit
  OBVIOUS
<1>3. MatchAt(s, i, limit) # {} => i + Len(w) \in i..limit
  <2> SUFFICES ASSUME MatchAt(s, i, limit) # {} PROVE i + Len(w) \in i..limit
    OBVIOUS
  <2>1. Fits(w, i, limit)
    BY MatchIs
  <2> HIDE DEF w
  <2>2. Len(w) \in Nat /\ i + Len(w) \in i + 1..limit
    BY <2>1, SpanIs
  <2> QED BY <2>2
<1>4. \A j \in i..limit : F[j] = Scan(s, j, limit)
  BY ScanFrom
<1> HIDE DEF F, w
<1> QED BY <1>1, <1>2, <1>3, <1>4 DEF ScanStep, w

\* What a scan finds starts no earlier than the scan.
LEMMA ScanStarts ==
  ASSUME NEW s, NEW limit \in Nat
  PROVE  \A i \in 0..limit : \A x \in Scan(s, i, limit) : x \in Within(limit) /\ x.from >= i
<1> DEFINE T == {i \in 0..limit : \A x \in Scan(s, i, limit) : x.from >= i}
<1>1. ASSUME NEW i \in 0..limit, \A j \in i + 1..limit : j \in T
      PROVE  i \in T
  <2>0. \A j \in i + 1..limit : \A x \in Scan(s, j, limit) : x.from \in Nat /\ x.from >= j
    <3>1. \A j \in i + 1..limit : j \in 0..limit
      OBVIOUS
    <3>2. \A j \in i + 1..limit : Scan(s, j, limit) \in SUBSET Within(limit)
      BY <3>1, ScanIs
    <3> QED BY <1>1, <3>2 DEF Within
  <2>1. CASE i = limit
    <3>1. Scan(s, i, limit) = {}
      BY <2>1, ScanSteps
    <3> QED BY <3>1
  <2>2. CASE i # limit /\ MatchAt(s, i, limit) = {}
    <3>1. Scan(s, i, limit) = Scan(s, i + 1, limit)
      BY <2>2, ScanSteps
    <3>2. i + 1 \in i + 1..limit
      BY <2>2
    <3>3. \A x \in Scan(s, i + 1, limit) : x.from \in Nat /\ x.from >= i + 1
      BY <2>0, <3>2
    <3> QED BY <3>1, <3>3
  <2>3. CASE i # limit /\ MatchAt(s, i, limit) # {}
    <3> DEFINE w == LongestOf(MatchAt(s, i, limit))
    <3>1. Scan(s, i, limit) = {Span(i, w)} \cup Scan(s, i + Len(w), limit)
      BY <2>3, ScanSteps
    <3>2. Fits(w, i, limit)
      BY <2>3, MatchIs
    <3> HIDE DEF w
    <3>3. i + Len(w) \in i + 1..limit /\ Span(i, w).from = i
      <4>1. i \in Nat
        OBVIOUS
      <4> QED BY <3>2, <4>1, SpanIs DEF Span
    <3>4. \A x \in Scan(s, i + Len(w), limit) : x.from >= i
      BY <2>0, <3>3
    <3> QED BY <3>1, <3>3, <3>4
  <2> QED BY <2>1, <2>2, <2>3
<1>2. \A i \in 0..limit : i \in T
  <2>1. 0 \in Nat
    OBVIOUS
  <2> HIDE DEF T
  <2> QED BY <1>1, <2>1, Downwards
<1> QED BY <1>2, ScanIs

\* No two spans share a place.
Disjoint(spans) == \A x, y \in spans : x = y \/ x.to <= y.from \/ y.to <= x.from

LEMMA ScanDisjoint ==
  ASSUME NEW s, NEW limit \in Nat
  PROVE  \A i \in 0..limit : Disjoint(Scan(s, i, limit))
<1> DEFINE T == {i \in 0..limit : Disjoint(Scan(s, i, limit))}
<1>1. ASSUME NEW i \in 0..limit, \A j \in i + 1..limit : j \in T
      PROVE  i \in T
  <2>1. CASE i = limit
    <3>1. Scan(s, i, limit) = {}
      BY <2>1, ScanSteps
    <3> QED BY <3>1 DEF Disjoint
  <2>2. CASE i # limit /\ MatchAt(s, i, limit) = {}
    <3>1. Scan(s, i, limit) = Scan(s, i + 1, limit)
      BY <2>2, ScanSteps
    <3>2. i + 1 \in i + 1..limit
      BY <2>2
    <3> QED BY <1>1, <3>1, <3>2
  <2>3. CASE i # limit /\ MatchAt(s, i, limit) # {}
    <3> DEFINE w == LongestOf(MatchAt(s, i, limit))
    <3> DEFINE rest == Scan(s, i + Len(w), limit)
    <3>1. Scan(s, i, limit) = {Span(i, w)} \cup rest
      BY <2>3, ScanSteps
    <3>2. Fits(w, i, limit)
      BY <2>3, MatchIs
    <3> HIDE DEF w
    <3>3. i + Len(w) \in i + 1..limit /\ Span(i, w).from = i
      <4>1. i \in Nat
        OBVIOUS
      <4> QED BY <3>2, <4>1, SpanIs DEF Span
    <3>4. \A x \in rest : Span(i, w).to <= x.from
      <4>1. i + Len(w) \in 0..limit
        BY <3>3
      <4>2. \A x \in rest : x.from >= i + Len(w) /\ x.from \in Nat
        BY <4>1, ScanStarts DEF Within
      <4> HIDE DEF rest
      <4> QED BY <3>3, <4>2 DEF Span
    <3>5. Disjoint(rest)
      BY <1>1, <3>3
    <3> HIDE DEF rest
    <3> QED BY <3>1, <3>4, <3>5 DEF Disjoint
  <2> QED BY <2>1, <2>2, <2>3
<1>2. \A i \in 0..limit : i \in T
  <2>1. 0 \in Nat
    OBVIOUS
  <2> HIDE DEF T
  <2> QED BY <1>1, <2>1, Downwards
<1> QED BY <1>2

\* No two spans start at the same place.
Single(spans) == \A x, y \in spans : x.from = y.from => x = y

LEMMA ScanSingle ==
  ASSUME NEW s, NEW limit \in Nat
  PROVE  \A i \in 0..limit : Single(Scan(s, i, limit))
<1> SUFFICES ASSUME NEW i \in 0..limit PROVE Single(Scan(s, i, limit))
  OBVIOUS
<1> DEFINE spans == Scan(s, i, limit)
<1>1. Disjoint(spans) /\ spans \in SUBSET Within(limit)
  BY ScanDisjoint, ScanIs
<1> HIDE DEF spans
<1>2. Single(spans)
  BY <1>1 DEF Single, Disjoint, Within
<1> QED BY <1>2 DEF spans

-----------------------------------------------------------------------------
(* The redactor: what is emitted                                           *)

Emitted == Seq(Char \cup {Mark})

ReplaceStep(s, to, spans, i, f) ==
  IF i = to THEN <<>>
  ELSE IF \E x \in spans : x.from = i /\ x.to <= to
    THEN <<Mark>> \o f[(CHOOSE x \in spans : x.from = i).to]
    ELSE <<s[i]>> \o f[i + 1]

Replacing(s, from, to, spans) ==
  CHOOSE f : f = [i \in from..to |-> ReplaceStep(s, to, spans, i, f)]

\* Spans of s that do not start together, and the place up to which they are replaced.
Replaceable(s, to, spans) ==
  /\ s \in Seq(Char) /\ to \in 1..Len(s) + 1
  /\ spans \in SUBSET Within(Len(s) + 1) /\ Single(spans)

\* One step of the replacement: what is at i, and where it goes on.
LEMMA SpanChosen ==
  ASSUME NEW s, NEW to, NEW spans, Replaceable(s, to, spans),
         NEW x \in spans
  PROVE  (CHOOSE y \in spans : y.from = x.from) = x
BY DEF Replaceable, Single

LEMMA EmittedIs ==
  /\ <<>> \in Emitted
  /\ \A u, v \in Emitted : u \o v \in Emitted
  /\ <<Mark>> \in Emitted /\ \A c \in Char : <<c>> \in Emitted
  /\ \A u \in Emitted : u \o <<>> = u /\ <<>> \o u = u
  /\ \A u, v, w \in Emitted : (u \o v) \o w = u \o (v \o w)
BY DEF Emitted

LEMMA ReplaceStepIs ==
  ASSUME NEW s, NEW to, NEW spans, Replaceable(s, to, spans), NEW i \in 1..to, NEW f
  PROVE  /\ (\A j \in i + 1..to : f[j] \in Emitted) => ReplaceStep(s, to, spans, i, f) \in Emitted
         /\ \A h : Alike(i, to, f, h) => ReplaceStep(s, to, spans, i, f) = ReplaceStep(s, to, spans, i, h)
<1>0. s \in Seq(Char) /\ to \in Nat /\ to <= Len(s) + 1 /\ Len(s) \in Nat
  BY DEF Replaceable
<1>1. CASE i = to
  BY <1>1, EmittedIs DEF ReplaceStep
<1>2. CASE i # to /\ \E x \in spans : x.from = i /\ x.to <= to
  <2>1. PICK x \in spans : x.from = i /\ x.to <= to
    BY <1>2
  <2>2. (CHOOSE y \in spans : y.from = i) = x
    BY <2>1, SpanChosen
  <2>3. x.to \in i + 1..to
    BY <1>0, <2>1 DEF Replaceable, Within
  <2> DEFINE one == <<Mark>>
  <2>4. \A h : ReplaceStep(s, to, spans, i, h) = one \o h[x.to]
    BY <1>2, <2>2 DEF ReplaceStep
  <2>5. one \in Emitted
    BY EmittedIs
  <2> HIDE DEF one
  <2>6. \A u \in Emitted : one \o u \in Emitted
    BY <2>5, EmittedIs
  <2>7. (\A j \in i + 1..to : f[j] \in Emitted) => one \o f[x.to] \in Emitted
    BY <2>3, <2>6
  <2>8. \A h : Alike(i, to, f, h) => f[x.to] = h[x.to]
    BY <2>3 DEF Alike
  <2> QED BY <2>4, <2>7, <2>8
<1>3. CASE i # to /\ ~ (\E x \in spans : x.from = i /\ x.to <= to)
  <2>1. \A h : ReplaceStep(s, to, spans, i, h) = <<s[i]>> \o h[i + 1]
    BY <1>3 DEF ReplaceStep
  <2>2. i + 1 \in i + 1..to /\ s[i] \in Char
    BY <1>0, <1>3
  <2> DEFINE one == <<s[i]>>
  <2>3. one \in Emitted
    BY <2>2, EmittedIs
  <2> HIDE DEF one
  <2>4. \A u \in Emitted : one \o u \in Emitted
    BY <2>3, EmittedIs
  <2>5. (\A j \in i + 1..to : f[j] \in Emitted) => one \o f[i + 1] \in Emitted
    BY <2>2, <2>4
  <2>6. \A h : Alike(i, to, f, h) => f[i + 1] = h[i + 1]
    BY <2>2 DEF Alike
  <2> QED BY <2>1, <2>5, <2>6 DEF one
<1> QED BY <1>1, <1>2, <1>3

LEMMA ReplacingIs ==
  ASSUME NEW s, NEW to, NEW spans, Replaceable(s, to, spans), NEW from \in 1..to
  PROVE  /\ Replaced(s, from, to, spans) = Replacing(s, from, to, spans)[from]
         /\ \A i \in from..to :
              /\ Replacing(s, from, to, spans)[i]
                   = ReplaceStep(s, to, spans, i, Replacing(s, from, to, spans))
              /\ Replacing(s, from, to, spans)[i] \in Emitted
<1> DEFINE D == from..to
<1> DEFINE S == Emitted
<1> DEFINE F == Replacing(s, from, to, spans)
<1> DEFINE g == [x \in D \X [D -> S] |-> ReplaceStep(s, to, spans, x[1], x[2])]
<1>0. to \in Nat /\ from \in Nat
  BY DEF Replaceable
<1>1. /\ from \in D /\ <<>> \in S
      /\ \A i \in D : i \in 1..to /\ \A j \in i + 1..to : j \in D
  BY <1>0, EmittedIs
<1> HIDE DEF S
<1>2. \A i \in D, f \in [D -> S] : ReplaceStep(s, to, spans, i, f) \in S
  <2>1. \A i \in D, f \in [D -> S] : \A j \in i + 1..to : f[j] \in S
    BY <1>1
  <2> QED BY <1>1, <2>1, ReplaceStepIs DEF S
<1>3. g \in [D \X [D -> S] -> S]
      /\ \A i \in D, f \in [D -> S] : g[<<i, f>>] = ReplaceStep(s, to, spans, i, f)
  <2> HIDE DEF D
  <2> QED BY <1>2
<1>4. \E f : f = [i \in D |-> ReplaceStep(s, to, spans, i, f)]
  <2>1. LooksAhead(from, to, S, g)
    <3> SUFFICES ASSUME NEW i \in D, NEW f \in [D -> S], NEW h \in [D -> S],
                        Alike(i, to, f, h)
                 PROVE  g[<<i, f>>] = g[<<i, h>>]
      BY <1>0, <1>1, <1>3 DEF LooksAhead
    <3>1. ReplaceStep(s, to, spans, i, f) = ReplaceStep(s, to, spans, i, h)
      BY <1>1, ReplaceStepIs
    <3> HIDE DEF D, g
    <3> QED BY <1>3, <3>1
  <2>2. PICK f \in [D -> S] : \A i \in D : f[i] = g[<<i, f>>]
    <3> HIDE DEF g
    <3>1. Defines(from, to, S, g)
      BY <2>1, Descent, Zenon
    <3> QED BY <3>1 DEF Defines
  <2>3. f = [i \in D |-> f[i]]
    OBVIOUS
  <2> HIDE DEF D, g
  <2>4. f = [i \in D |-> ReplaceStep(s, to, spans, i, f)]
    BY <1>3, <2>2, <2>3
  <2> QED BY <2>4
<1>5. F = [i \in D |-> ReplaceStep(s, to, spans, i, F)]
  <2> DEFINE Def(f) == [i \in D |-> ReplaceStep(s, to, spans, i, f)]
  <2>1. F = CHOOSE f : f = Def(f)
    BY DEF Replacing
  <2>2. \E f : f = Def(f)
    BY <1>4
  <2> HIDE DEF Def, F
  <2>3. F = Def(F)
    BY <2>1, <2>2, Zenon
  <2> QED BY <2>3 DEF Def
<1>6. \A i \in D : F[i] = ReplaceStep(s, to, spans, i, F)
  <2> HIDE DEF F, D
  <2> QED BY <1>5
<1>7. \A i \in D : F[i] \in S
  <2> DEFINE T == {i \in D : F[i] \in S}
  <2> HIDE DEF F
  <2>1. ASSUME NEW i \in D, \A j \in i + 1..to : j \in T
        PROVE  i \in T
    <3>1. \A j \in i + 1..to : F[j] \in Emitted
      BY <2>1 DEF S
    <3>2. ReplaceStep(s, to, spans, i, F) \in Emitted
      BY <1>1, <3>1, ReplaceStepIs
    <3> QED BY <1>6, <3>2 DEF S
  <2>2. \A i \in D : i \in T
    <3> HIDE DEF T
    <3> QED BY <1>0, <2>1, Downwards
  <2> QED BY <2>2
<1>8. Replaced(s, from, to, spans) = F[from]
  BY DEF Replaced, Replacing, ReplaceStep
<1> QED BY <1>6, <1>7, <1>8 DEF S

LEMMA ReplacedFrom ==
  ASSUME NEW s, NEW to, NEW spans, Replaceable(s, to, spans), NEW from \in 1..to, NEW k \in from..to
  PROVE  Replacing(s, from, to, spans)[k] = Replaced(s, k, to, spans)
<1> DEFINE F == Replacing(s, from, to, spans)
<1> DEFINE H == Replacing(s, k, to, spans)
<1> DEFINE T == {i \in k..to : F[i] = H[i]}
<1>1. /\ to \in Nat /\ k \in Nat /\ k \in 1..to /\ k \in k..to
      /\ \A i \in k..to : i \in from..to /\ i \in 1..to
  BY DEF Replaceable
<1>2. \A i \in k..to : /\ F[i] = ReplaceStep(s, to, spans, i, F)
                       /\ H[i] = ReplaceStep(s, to, spans, i, H)
  BY <1>1, ReplacingIs
<1>3. Replaced(s, k, to, spans) = H[k]
  BY <1>1, ReplacingIs
<1> HIDE DEF F, H
<1>4. ASSUME NEW i \in k..to, \A j \in i + 1..to : j \in T
      PROVE  i \in T
  <2>1. Alike(i, to, F, H)
    BY <1>4 DEF Alike
  <2>2. ReplaceStep(s, to, spans, i, F) = ReplaceStep(s, to, spans, i, H)
    BY <1>1, <2>1, ReplaceStepIs
  <2> QED BY <1>2, <2>2
<1>5. \A i \in k..to : i \in T
  <2> HIDE DEF T
  <2> QED BY <1>1, <1>4, Downwards
<1> QED BY <1>1, <1>3, <1>5 DEF F

\* One step of the replacement: a span that starts at i and fits is replaced, and else
\* the character goes out.
ReplacesAt(s, i, to, spans) ==
  /\ Replaced(s, i, to, spans) \in Emitted
  /\ i = to => Replaced(s, i, to, spans) = <<>>
  /\ \A x \in spans : x.from = i /\ x.to <= to =>
       Replaced(s, i, to, spans) = <<Mark>> \o Replaced(s, x.to, to, spans)
  /\ i # to /\ (\A x \in spans : x.from # i) =>
       Replaced(s, i, to, spans) = <<s[i]>> \o Replaced(s, i + 1, to, spans)

LEMMA ReplacedSteps ==
  ASSUME NEW s, NEW to, NEW spans, Replaceable(s, to, spans), NEW i \in 1..to
  PROVE  ReplacesAt(s, i, to, spans)
<1> DEFINE F == Replacing(s, i, to, spans)
<1>0. i \in Nat /\ to \in Nat /\ i \in i..to
  BY DEF Replaceable
<1>1. Replaced(s, i, to, spans) = ReplaceStep(s, to, spans, i, F)
      /\ Replaced(s, i, to, spans) \in Emitted
  BY <1>0, ReplacingIs
<1>2. \A j \in i..to : F[j] = Replaced(s, j, to, spans)
  BY ReplacedFrom
<1> HIDE DEF F
<1>3. i = to => Replaced(s, i, to, spans) = <<>>
  BY <1>1 DEF ReplaceStep
<1>4. ASSUME NEW x \in spans, x.from = i, x.to <= to
      PROVE  Replaced(s, i, to, spans) = <<Mark>> \o Replaced(s, x.to, to, spans)
  <2>1. (CHOOSE y \in spans : y.from = i) = x
    BY <1>4, SpanChosen
  <2>2. x.to \in i..to /\ i # to
    BY <1>0, <1>4 DEF Replaceable, Within
  <2>3. ReplaceStep(s, to, spans, i, F) = <<Mark>> \o F[x.to]
    BY <1>4, <2>1, <2>2 DEF ReplaceStep
  <2>4. F[x.to] = Replaced(s, x.to, to, spans)
    BY <1>2, <2>2
  <2> QED BY <1>1, <2>3, <2>4
<1>5. ASSUME i # to, \A x \in spans : x.from # i
      PROVE  Replaced(s, i, to, spans) = <<s[i]>> \o Replaced(s, i + 1, to, spans)
  <2>1. ReplaceStep(s, to, spans, i, F) = <<s[i]>> \o F[i + 1]
    BY <1>5 DEF ReplaceStep
  <2>2. i + 1 \in i..to
    BY <1>0, <1>5
  <2>3. F[i + 1] = Replaced(s, i + 1, to, spans)
    BY <1>2, <2>2
  <2> QED BY <1>1, <2>1, <2>3
<1> QED BY <1>1, <1>3, <1>4, <1>5 DEF ReplacesAt

\* What starts before i is of no consequence from i on.
LEMMA ReplacedSame ==
  ASSUME NEW s, NEW to, NEW spans, Replaceable(s, to, spans),
         NEW all, Replaceable(s, to, all), NEW k \in 1..to,
         spans \subseteq all, \A x \in all : x \in spans \/ x.from < k
  PROVE  Replaced(s, k, to, all) = Replaced(s, k, to, spans)
<1> DEFINE F == Replacing(s, k, to, spans)
<1> DEFINE H == Replacing(s, k, to, all)
<1> DEFINE T == {i \in k..to : F[i] = H[i]}
<1>1. /\ to \in Nat /\ k \in Nat /\ k \in k..to
      /\ \A i \in k..to : i \in 1..to /\ \A x \in all : x.from = i => x \in spans
  <2>1. to \in Nat /\ k \in Nat /\ \A x \in all : x.from \in Nat
    BY DEF Replaceable, Within
  <2> QED BY <2>1
<1>2. \A i \in k..to : /\ F[i] = ReplaceStep(s, to, spans, i, F)
                       /\ H[i] = ReplaceStep(s, to, all, i, H)
  BY ReplacingIs
<1>3. Replaced(s, k, to, spans) = F[k] /\ Replaced(s, k, to, all) = H[k]
  BY ReplacingIs
<1> HIDE DEF F, H
<1>4. ASSUME NEW i \in k..to, \A j \in i + 1..to : j \in T
      PROVE  i \in T
  <2>1. Alike(i, to, F, H)
    BY <1>4 DEF Alike
  <2>2. ReplaceStep(s, to, all, i, F) = ReplaceStep(s, to, all, i, H)
    BY <1>1, <2>1, ReplaceStepIs
  <2>3. ReplaceStep(s, to, all, i, F) = ReplaceStep(s, to, spans, i, F)
    <3>1. (\E x \in all : x.from = i /\ x.to <= to) <=> \E x \in spans : x.from = i /\ x.to <= to
      BY <1>1
    <3>2. ASSUME NEW x \in spans, x.from = i
          PROVE  (CHOOSE y \in all : y.from = i) = (CHOOSE y \in spans : y.from = i)
      <4>1. (CHOOSE y \in all : y.from = i) = x
        BY <3>2, SpanChosen
      <4>2. (CHOOSE y \in spans : y.from = i) = x
        BY <3>2, SpanChosen
      <4> QED BY <4>1, <4>2
    <3> QED BY <3>1, <3>2 DEF ReplaceStep
  <2> QED BY <1>2, <2>2, <2>3
<1>5. \A i \in k..to : i \in T
  <2> HIDE DEF T
  <2> QED BY <1>1, <1>4, Downwards
<1> QED BY <1>1, <1>3, <1>5

\* What the forward scan makes of s from i up to hold.
Going(s, i, hold) == Replaced(s, i, hold, Scan(s, i, Len(s) + 1))

LEMMA ScanReplaceable ==
  ASSUME NEW s \in Seq(Char), NEW hold \in 1..Len(s) + 1, NEW i \in 0..Len(s) + 1
  PROVE  Replaceable(s, hold, Scan(s, i, Len(s) + 1))
<1>1. Len(s) + 1 \in Nat
  OBVIOUS
<1> QED BY <1>1, ScanIs, ScanSingle DEF Replaceable

LEMMA GoingSteps ==
  ASSUME NEW s \in Seq(Char), NEW hold \in 1..Len(s) + 1, NEW i \in 1..hold
  PROVE  LET ws == MatchAt(s, i, Len(s) + 1)
             j  == i + Len(LongestOf(ws))
         IN /\ Going(s, i, hold) \in Emitted
            /\ i = hold => Going(s, i, hold) = <<>>
            /\ i # hold /\ ws = {} => Going(s, i, hold) = <<s[i]>> \o Going(s, i + 1, hold)
            /\ ws # {} /\ j <= hold => Going(s, i, hold) = <<Mark>> \o Going(s, j, hold)
<1> DEFINE limit == Len(s) + 1
<1> DEFINE ws == MatchAt(s, i, limit)
<1> DEFINE w == LongestOf(ws)
<1> DEFINE j == i + Len(w)
<1>0. limit \in Nat /\ i \in Nat /\ hold \in Nat /\ hold <= limit /\ i <= hold /\ 1 <= i
  OBVIOUS
<1>r. \A n \in 0..limit : Replaceable(s, hold, Scan(s, n, limit))
  BY ScanReplaceable
<1>g. \A n : Going(s, n, hold) = Replaced(s, n, hold, Scan(s, n, limit))
  BY DEF Going
<1> HIDE DEF limit
<1>s. i \in 0..limit
  BY <1>0
<1>1. Going(s, i, hold) \in Emitted /\ (i = hold => Going(s, i, hold) = <<>>)
  <2> DEFINE spans == Scan(s, i, limit)
  <2>1. Replaceable(s, hold, spans) /\ Going(s, i, hold) = Replaced(s, i, hold, spans)
    BY <1>s, <1>r, <1>g
  <2> HIDE DEF spans
  <2>2. /\ Replaced(s, i, hold, spans) \in Emitted
        /\ i = hold => Replaced(s, i, hold, spans) = <<>>
    BY <2>1, ReplacedSteps DEF ReplacesAt
  <2> QED BY <2>1, <2>2
<1>2. ASSUME i # hold, ws = {}
      PROVE  Going(s, i, hold) = <<s[i]>> \o Going(s, i + 1, hold)
  <2>1. i # limit /\ i + 1 \in 0..limit
    BY <1>0, <1>2
  <2>2. Scan(s, i, limit) = Scan(s, i + 1, limit)
    BY <1>0, <1>s, <1>2, <2>1, ScanSteps
  <2>3. \A x \in Scan(s, i + 1, limit) : x.from # i
    <3>1. \A x \in Scan(s, i + 1, limit) : x.from \in Nat /\ x.from >= i + 1
      BY <1>0, <2>1, ScanStarts DEF Within
    <3> QED BY <1>0, <3>1
  <2>4. ReplacesAt(s, i, hold, Scan(s, i, limit))
    BY <1>s, <1>r, ReplacedSteps
  <2> QED BY <1>2, <1>g, <2>2, <2>3, <2>4 DEF ReplacesAt
<1>3. ASSUME ws # {}, j <= hold
      PROVE  Going(s, i, hold) = <<Mark>> \o Going(s, j, hold)
  <2> DEFINE x == Span(i, w)
  <2> DEFINE rest == Scan(s, j, limit)
  <2>1. Fits(w, i, limit)
    BY <1>0, <1>3, MatchIs
  <2>2. /\ x \in Within(limit) /\ x.from = i /\ x.to = j /\ Len(w) \in Nat
        /\ j \in i + 1..limit
    <3> HIDE DEF w
    <3> QED BY <1>0, <2>1, SpanIs DEF Span
  <2>3. i # limit
    BY <1>0, <2>2
  <2>4. Scan(s, i, limit) = {x} \cup rest
    BY <1>0, <1>s, <1>3, <2>3, ScanSteps
  <2>5. {x} \cup rest = rest \cup {x}
    OBVIOUS
  <2> HIDE DEF x, w, ws
  <2> DEFINE all == rest \cup {x}
  <2>6. Going(s, i, hold) = Replaced(s, i, hold, all) /\ Replaceable(s, hold, all) /\ x \in all
    BY <1>s, <1>r, <1>g, <2>4, <2>5
  <2> HIDE DEF all
  <2>7. Replaced(s, i, hold, all) = <<Mark>> \o Replaced(s, j, hold, all)
    <3>1. \A y \in all : y.from = i /\ y.to <= hold =>
            Replaced(s, i, hold, all) = <<Mark>> \o Replaced(s, y.to, hold, all)
      <4>1. ReplacesAt(s, i, hold, all)
        BY <2>6, ReplacedSteps
      <4> QED BY <4>1 DEF ReplacesAt
    <3> HIDE DEF j
    <3> QED BY <1>3, <2>2, <2>6, <3>1
  <2>8. Replaced(s, j, hold, all) = Replaced(s, j, hold, rest)
    <3>1. j \in 0..limit /\ j \in 1..hold /\ x.from < j
      BY <1>0, <1>3, <2>2
    <3> HIDE DEF j
    <3>2. Replaceable(s, hold, rest)
      BY <1>r, <3>1
    <3> HIDE DEF rest
    <3>3. rest \subseteq all /\ \A y \in all : y \in rest \/ y.from < j
      BY <3>1 DEF all
    <3> QED BY <2>6, <3>1, <3>2, <3>3, ReplacedSame
  <2>9. Going(s, j, hold) = Replaced(s, j, hold, rest)
    BY <1>g
  <2> QED BY <2>6, <2>7, <2>8, <2>9
<1> QED BY <1>1, <1>2, <1>3 DEF limit

-----------------------------------------------------------------------------
(* The redactor: a part of a text and the text                             *)

\* s stands in t, after the first o characters.
Window(s, t, o) ==
  /\ s \in Seq(Char) /\ t \in Seq(Char) /\ o \in Nat /\ o + Len(s) <= Len(t)
  /\ \A m \in 1..Len(s) : t[o + m] = s[m]

\* No word of a pattern that may begin at i reaches the end of s and ends in t.
Final(s, t, o, i) ==
  \A p \in Patterns : MayBegin(p, s, i) =>
    \A w \in p.words : At(t, o + i, w, Len(t) + 1) => i + Len(w) <= Len(s) \/ Len(t) = o + Len(s)

\* The same characters stand at i of s and at o + i of t, as many as w has.
SameAt(s, t, o, i, w) ==
  SubSeq(s, i, i + Len(w) - 1) = SubSeq(t, o + i, o + i + Len(w) - 1)

LEMMA AtIs ==
  ASSUME NEW s, NEW t, NEW o, Window(s, t, o), NEW i \in 1..Len(s), NEW w \in Words,
         i + Len(w) <= Len(s) + 1
  PROVE  SameAt(s, t, o, i, w)
<1>1. /\ s \in Seq(Char) /\ t \in Seq(Char) /\ o \in Nat /\ o + Len(s) <= Len(t)
      /\ Len(s) \in Nat /\ Len(t) \in Nat
  BY DEF Window
<1>2. Len(w) \in Nat \ {0}
  BY LongestIs
<1> DEFINE n == Len(w)
<1> DEFINE m == i - 1
<1>3. /\ m \in 0..Len(s) /\ (m + n) \in m..Len(s) /\ m + 1 = i /\ i + n - 1 = m + n /\ n \in Nat
      /\ (o + m) \in 0..Len(t) /\ ((o + m) + n) \in (o + m)..Len(t) /\ (o + m) + 1 = o + i
      /\ o + i + n - 1 = (o + m) + n /\ (m + n) - m = n /\ ((o + m) + n) - (o + m) = n
  BY <1>1, <1>2
<1> HIDE DEF n, m
<1> DEFINE u == SubSeq(s, m + 1, m + n)
<1> DEFINE v == SubSeq(t, (o + m) + 1, (o + m) + n)
<1>4. u \in Seq(Char) /\ Len(u) = n /\ \A k \in 1..n : u[k] = s[m + k]
  BY <1>1, <1>3, PartIs
<1>5. v \in Seq(Char) /\ Len(v) = n /\ \A k \in 1..n : v[k] = t[(o + m) + k]
  BY <1>1, <1>3, PartIs
<1>6. u = v
  <2> HIDE DEF u, v
  <2>1. \A k \in 1..n : m + k \in 1..Len(s) /\ (o + m) + k = o + (m + k)
    BY <1>1, <1>3
  <2>2. \A k \in 1..n : u[k] = v[k]
    BY <1>4, <1>5, <2>1 DEF Window
  <2> QED BY <1>4, <1>5, <2>2, SameText
<1> QED BY <1>3, <1>6 DEF n, SameAt

LEMMA BeginSame ==
  ASSUME NEW s, NEW t, NEW o, Window(s, t, o), NEW i \in 1..Len(s), i > 1 \/ o = 0, NEW p
  PROVE  MayBegin(p, s, i) <=> MayBegin(p, t, o + i)
<1>1. o \in Nat /\ Len(s) \in Nat
  BY DEF Window
<1>2. CASE i = 1
  BY <1>1, <1>2 DEF MayBegin
<1>3. CASE i # 1
  <2>1. i - 1 \in 1..Len(s) /\ (o + i) - 1 = o + (i - 1) /\ o + i # 1
    BY <1>1, <1>3
  <2>2. t[(o + i) - 1] = s[i - 1]
    BY <2>1 DEF Window
  <2> QED BY <1>3, <2>1, <2>2 DEF MayBegin
<1> QED BY <1>2, <1>3

\* A word found in the part is found in the text, and the other way round.
LEMMA FoundSame ==
  ASSUME NEW s, NEW t, NEW o, Window(s, t, o), NEW i \in 1..Len(s), Final(s, t, o, i),
         NEW p \in Patterns, MayBegin(p, s, i)
  PROVE  Found(p, s, i, Len(s) + 1) = Found(p, t, o + i, Len(t) + 1)
<1>1. /\ o \in Nat /\ Len(s) \in Nat /\ Len(t) \in Nat /\ i \in Nat /\ o + Len(s) <= Len(t)
      /\ \A w \in p.words : w \in Words
  BY DEF Window, Words
<1>2. ASSUME NEW w \in p.words
      PROVE  w \in Found(p, s, i, Len(s) + 1) <=> w \in Found(p, t, o + i, Len(t) + 1)
  <2> DEFINE n == Len(w)
  <2>1. w \in Words /\ n \in Nat
    BY <1>1, LongestIs
  <2>2. i + n <= Len(s) + 1 => SameAt(s, t, o, i, w)
    BY <2>1, AtIs
  <2>3. At(t, o + i, w, Len(t) + 1) => i + n <= Len(s) \/ Len(t) = o + Len(s)
    BY DEF Final
  <2>4. At(s, i, w, Len(s) + 1) <=> At(t, o + i, w, Len(t) + 1)
    <3>1. At(t, o + i, w, Len(t) + 1) => i + n <= Len(s) + 1
      <4>1. At(t, o + i, w, Len(t) + 1) => (o + i) + n <= Len(t) + 1
        BY DEF At
      <4> HIDE DEF n
      <4> QED BY <1>1, <2>1, <2>3, <4>1
    <3>2. i + n <= Len(s) + 1 => (o + i) + n <= Len(t) + 1
      <4> HIDE DEF n
      <4> QED BY <1>1, <2>1
    <3> QED BY <2>2, <3>1, <3>2 DEF At, SameAt
  <2>5. i + n <= Len(s) \/ Len(t) = o + Len(s)
          => (MayEnd(p, s, i + n, Len(s) + 1) <=> MayEnd(p, t, (o + i) + n, Len(t) + 1))
        \/ ~ (i + n <= Len(s) + 1)
    <3> HIDE DEF n
    <3>1. CASE i + n <= Len(s)
      <4>1. i + n \in 1..Len(s) /\ (o + i) + n = o + (i + n) /\ i + n # Len(s) + 1
            /\ (o + i) + n # Len(t) + 1
        BY <1>1, <2>1, <3>1
      <4>2. t[(o + i) + n] = s[i + n]
        BY <4>1 DEF Window
      <4> QED BY <4>1, <4>2 DEF MayEnd
    <3>2. CASE Len(t) = o + Len(s) /\ i + n = Len(s) + 1
      <4>1. (o + i) + n = Len(t) + 1
        BY <1>1, <2>1, <3>2
      <4> QED BY <3>2, <4>1 DEF MayEnd
    <3>3. i + n <= Len(s) + 1 => i + n <= Len(s) \/ i + n = Len(s) + 1
      BY <1>1, <2>1
    <3> QED BY <3>1, <3>2, <3>3
  <2>6. At(s, i, w, Len(s) + 1) => i + n <= Len(s) + 1
    BY DEF At
  <2> QED BY <2>3, <2>4, <2>5, <2>6 DEF Found
<1> QED BY <1>2 DEF Found

LEMMA ShorterSame ==
  ASSUME NEW s, NEW t, NEW o, Window(s, t, o), NEW i \in 1..Len(s), NEW p \in Patterns,
         NEW w \in Words, i + Len(w) <= Len(s) + 1
  PROVE  Shorter(p, s, i, w) = Shorter(p, t, o + i, w)
<1>1. /\ o \in Nat /\ Len(s) \in Nat /\ i \in Nat /\ Len(w) \in Nat
      /\ \A v \in p.valid : v \in Words
  BY HoldBackAssumption, LongestIs DEF Window, Words
<1>2. ASSUME NEW v \in p.valid, Len(v) < Len(w)
      PROVE  At(s, i, v, i + Len(w)) <=> At(t, o + i, v, (o + i) + Len(w))
  <2>1. v \in Words /\ Len(v) \in Nat
    BY <1>1, LongestIs
  <2>2. i + Len(v) <= Len(s) + 1 /\ i + Len(v) <= i + Len(w) /\ (o + i) + Len(v) <= (o + i) + Len(w)
    BY <1>1, <1>2, <2>1
  <2>3. SameAt(s, t, o, i, v)
    BY <2>1, <2>2, AtIs
  <2> QED BY <2>2, <2>3 DEF At, SameAt
<1> QED BY <1>2 DEF Shorter

\* What is matched in the part is matched in the text.
LEMMA MatchSame ==
  ASSUME NEW s, NEW t, NEW o, Window(s, t, o), NEW i \in 1..Len(s), i > 1 \/ o = 0,
         Final(s, t, o, i)
  PROVE  MatchAt(s, i, Len(s) + 1) = MatchAt(t, o + i, Len(t) + 1)
<1>1. ASSUME NEW p \in Patterns, MayBegin(p, s, i)
      PROVE  Validated(p, s, i, Len(s) + 1) = Validated(p, t, o + i, Len(t) + 1)
  <2> DEFINE ws == Found(p, s, i, Len(s) + 1)
  <2>1. ws = Found(p, t, o + i, Len(t) + 1)
    BY <1>1, FoundSame
  <2>2. ws # {} => Shorter(p, s, i, LongestOf(ws)) = Shorter(p, t, o + i, LongestOf(ws))
    <3>1. ws \in SUBSET Words /\ \A w \in ws : i + Len(w) <= Len(s) + 1
      BY DEF Found, At, Words
    <3> HIDE DEF ws
    <3>2. ws # {} => LongestOf(ws) \in ws
      BY <3>1, LongestOfIs
    <3> QED BY <3>1, <3>2, ShorterSame
  <2> HIDE DEF ws
  <2> QED BY <2>1, <2>2 DEF Validated, ws
<1>2. {q \in Patterns : MayBegin(q, s, i)} = {q \in Patterns : MayBegin(q, t, o + i)}
  BY BeginSame
<1> QED BY <1>1, <1>2 DEF MatchAt

-----------------------------------------------------------------------------
(* The redactor: what one emission says of all that may follow             *)

\* A scan from i is the rest of the scan that found the spans.
Reached(s, spans, i) ==
  /\ Scan(s, i, Len(s) + 1) \subseteq spans
  /\ \A x \in spans : x \in Scan(s, i, Len(s) + 1) \/ x.to <= i

\* What goes out of s from i up to hold, and what the scan makes of t after it, is what
\* the scan makes of t from there.
Continues(s, t, o, i, hold) ==
  Going(s, i, hold) \o Going(t, o + hold, Len(t) + 1) = Going(t, o + i, Len(t) + 1)

\* A scan moves on to the place after its match.
LEMMA ReachedNext ==
  ASSUME NEW s \in Seq(Char), NEW spans \in SUBSET Within(Len(s) + 1),
         NEW i \in 1..Len(s), Reached(s, spans, i)
  PROVE  LET ws == MatchAt(s, i, Len(s) + 1)
             w  == LongestOf(ws)
         IN /\ ws = {} => Reached(s, spans, i + 1)
            /\ ws # {} => /\ Len(w) \in Nat \ {0} /\ i + Len(w) <= Len(s) + 1
                          /\ Reached(s, spans, i + Len(w))
                          /\ Span(i, w) \in spans
                          /\ \A y \in spans : y = Span(i, w) \/ y.from >= i + Len(w) \/ y.to <= i
<1> DEFINE limit == Len(s) + 1
<1> DEFINE ws == MatchAt(s, i, limit)
<1> DEFINE w == LongestOf(ws)
<1>0. limit \in Nat /\ i \in Nat /\ i \in 0..limit /\ i # limit /\ i + 1 <= limit
  OBVIOUS
<1>r. \A k : Reached(s, spans, k) <=> /\ Scan(s, k, limit) \subseteq spans
                                      /\ \A x \in spans : x \in Scan(s, k, limit) \/ x.to <= k
  BY DEF Reached
<1>t. \A x \in spans : x.to \in Nat
  BY DEF Within
<1> HIDE DEF limit
<1>1. ASSUME ws = {}
      PROVE  Reached(s, spans, i + 1)
  <2>1. Scan(s, i, limit) = Scan(s, i + 1, limit)
    BY <1>0, <1>1, ScanSteps
  <2>2. \A x \in spans : x.to <= i => x.to <= i + 1
    BY <1>0, <1>t
  <2> QED BY <1>r, <2>1, <2>2
<1>2. ASSUME ws # {}
      PROVE  /\ Len(w) \in Nat \ {0} /\ i + Len(w) <= limit
             /\ Reached(s, spans, i + Len(w))
             /\ Span(i, w) \in spans
             /\ \A y \in spans : y = Span(i, w) \/ y.from >= i + Len(w) \/ y.to <= i
  <2> DEFINE j == i + Len(w)
  <2> DEFINE x == Span(i, w)
  <2>1. Scan(s, i, limit) = {x} \cup Scan(s, j, limit)
    BY <1>0, <1>2, ScanSteps
  <2>2. Fits(w, i, limit)
    BY <1>0, <1>2, MatchIs
  <2> HIDE DEF w
  <2>3. Len(w) \in Nat \ {0} /\ j \in i + 1..limit /\ x.to = j
    BY <1>0, <2>2, SpanIs
  <2>4. j \in 0..limit /\ j \in Nat /\ i <= j
    BY <1>0, <2>3
  <2>5. \A y \in Scan(s, j, limit) : y.from >= j
    BY <1>0, <2>4, ScanStarts
  <2> HIDE DEF x, j
  <2>6. \A y \in spans : y = x \/ y \in Scan(s, j, limit) \/ y.to <= i
    BY <1>r, <2>1
  <2>7. Reached(s, spans, j)
    <3>1. \A y \in spans : y \in Scan(s, j, limit) \/ y.to <= j
      BY <1>0, <1>t, <2>3, <2>4, <2>6
    <3> QED BY <1>r, <2>1, <3>1
  <2>8. x \in spans
    BY <1>r, <2>1
  <2>9. \A y \in spans : y = x \/ y.from >= j \/ y.to <= i
    BY <2>5, <2>6
  <2>10. j <= limit
    BY <2>3, <1>0
  <2> QED BY <2>3, <2>7, <2>8, <2>9, <2>10 DEF j, x
<1> QED BY <1>1, <1>2 DEF limit

\* If nothing matches, s and t give the same character; if a word does, one mark.
LEMMA ContinuesBack ==
  ASSUME NEW s, NEW t, NEW o, Window(s, t, o), NEW hold \in 1..Len(s) + 1,
         NEW i \in 1..hold, i # hold,
         MatchAt(s, i, Len(s) + 1) = MatchAt(t, o + i, Len(t) + 1)
  PROVE  LET ws == MatchAt(s, i, Len(s) + 1)
             j  == i + Len(LongestOf(ws))
         IN /\ ws = {} /\ Continues(s, t, o, i + 1, hold) => Continues(s, t, o, i, hold)
            /\ ws # {} /\ j \in i..hold /\ Continues(s, t, o, j, hold) => Continues(s, t, o, i, hold)
<1> DEFINE end == Len(t) + 1
<1> DEFINE ws == MatchAt(s, i, Len(s) + 1)
<1> DEFINE n == Len(LongestOf(ws))
<1> DEFINE j == i + n
<1> DEFINE tail == Going(t, o + hold, end)
<1>0. /\ s \in Seq(Char) /\ t \in Seq(Char) /\ o \in Nat /\ Len(s) \in Nat /\ Len(t) \in Nat
      /\ o + Len(s) <= Len(t) /\ i \in Nat /\ hold \in Nat /\ i < hold /\ hold <= Len(s) + 1
  BY DEF Window
<1>1. /\ end \in 1..Len(t) + 1 /\ (o + i) \in 1..end /\ (o + i) # end /\ (o + hold) \in 1..end
      /\ i \in 1..Len(s) /\ (o + i) + 1 = o + (i + 1) /\ i + 1 \in 1..hold
  BY <1>0
<1>2. s[i] = t[o + i] /\ s[i] \in Char
  BY <1>0, <1>1 DEF Window
<1>3. tail \in Emitted
  BY <1>0, <1>1, GoingSteps
<1>4. ASSUME ws = {}, Continues(s, t, o, i + 1, hold)
      PROVE  Continues(s, t, o, i, hold)
  <2> DEFINE one == <<s[i]>>
  <2> DEFINE rest == Going(s, i + 1, hold)
  <2>1. Going(s, i, hold) = one \o rest
    BY <1>0, <1>1, <1>4, GoingSteps
  <2>2. Going(t, o + i, end) = <<t[o + i]>> \o Going(t, (o + i) + 1, end)
    BY <1>0, <1>1, <1>4, GoingSteps
  <2>3. rest \in Emitted /\ one \in Emitted
    BY <1>0, <1>1, <1>2, GoingSteps, EmittedIs
  <2>4. rest \o tail = Going(t, o + (i + 1), end)
    BY <1>4 DEF Continues
  <2>5. one = <<t[o + i]>>
    BY <1>2
  <2> HIDE DEF one, rest, tail
  <2>6. (one \o rest) \o tail = one \o (rest \o tail)
    BY <1>3, <2>3, EmittedIs
  <2>7. Going(t, o + i, end) = one \o Going(t, o + (i + 1), end)
    BY <1>1, <2>2, <2>5
  <2>8. Going(s, i, hold) \o tail = Going(t, o + i, end)
    BY <2>1, <2>4, <2>6, <2>7
  <2> QED BY <2>8 DEF Continues, tail
<1>5. ASSUME ws # {}, j \in i..hold, Continues(s, t, o, j, hold)
      PROVE  Continues(s, t, o, i, hold)
  <2> DEFINE one == <<Mark>>
  <2> DEFINE rest == Going(s, j, hold)
  <2>0. n \in Int /\ j \in 1..hold /\ j <= hold /\ (o + i) + n = o + j /\ o + j <= end
    <3>1. LongestOf(ws) \in Words
      <4>1. Fits(LongestOf(ws), i, Len(s) + 1)
        <5>1. Len(s) + 1 \in Nat
          BY <1>0
        <5> QED BY <1>0, <1>5, <5>1, MatchIs
      <4> HIDE DEF ws
      <4> QED BY <4>1 DEF Fits
    <3>2. n \in Nat
      <4> HIDE DEF ws
      <4> QED BY <3>1, LongestIs
    <3> HIDE DEF n
    <3> QED BY <1>0, <1>5, <3>2
  <2>1. Going(s, i, hold) = one \o rest
    BY <1>0, <1>1, <1>5, <2>0, GoingSteps
  <2>2. Going(t, o + i, end) = <<Mark>> \o Going(t, (o + i) + n, end)
    <3>1. (o + i) + n <= end
      <4> HIDE DEF n, end, j
      <4> QED BY <2>0
    <3> QED BY <1>0, <1>1, <1>5, <3>1, GoingSteps
  <2>3. rest \in Emitted /\ one \in Emitted
    BY <1>0, <2>0, GoingSteps, EmittedIs
  <2>4. rest \o tail = Going(t, o + j, end)
    BY <1>5 DEF Continues
  <2> HIDE DEF one, rest, tail, n, j
  <2>6. (one \o rest) \o tail = one \o (rest \o tail)
    BY <1>3, <2>3, EmittedIs
  <2>7. Going(t, o + i, end) = one \o Going(t, o + j, end)
    BY <2>0, <2>2 DEF one
  <2>8. Going(s, i, hold) \o tail = Going(t, o + i, end)
    BY <2>1, <2>4, <2>6, <2>7
  <2> QED BY <2>8 DEF Continues, tail
<1> QED BY <1>4, <1>5

\* If up to point nothing can end beyond s, the emission is what the scan of the whole
\* of t makes of that part, whatever follows s in t.
LEMMA EmissionIs ==
  ASSUME NEW s, NEW t, NEW o, Window(s, t, o),
         NEW base \in 1..Len(s) + 1, base > 1 \/ o = 0,
         NEW point \in base..Len(s) + 1,
         \A i \in base..point - 1 : Final(s, t, o, i),
         NEW hold, hold = Pushed(point, Scan(s, base, Len(s) + 1))
  PROVE  Continues(s, t, o, base, hold)
<1> DEFINE limit == Len(s) + 1
<1> DEFINE spans == Scan(s, base, limit)
<1> DEFINE over == {x \in spans : x.from < point /\ point < x.to}
<1> DEFINE good(i) == Reached(s, spans, i) /\ (i <= point \/ i = hold)
<1> DEFINE T == {i \in base..hold : good(i) => Continues(s, t, o, i, hold)}
<1>0. /\ s \in Seq(Char) /\ t \in Seq(Char) /\ o \in Nat /\ Len(s) \in Nat /\ Len(t) \in Nat
      /\ limit \in Nat /\ base \in Nat /\ point \in Nat /\ base <= point /\ point <= limit
      /\ o + Len(s) <= Len(t) /\ 1 <= base
  BY DEF Window
<1>1. spans \in SUBSET Within(limit)
  BY <1>0, ScanIs
<1>2. Reached(s, spans, base)
  BY DEF Reached
<1>s. \A x \in Scan(s, point, limit) : x.from >= point
  BY <1>0, ScanStarts
<1> HIDE DEF spans, limit
<1>t. \A x \in spans : x.from \in Nat /\ x.to \in Nat /\ x.from < x.to /\ x.to <= limit
  BY <1>1 DEF Within
<1>3. /\ over = {} => hold = point
      /\ over # {} => \E y \in over : hold = y.to
  BY DEF Pushed, spans, limit
<1>4. hold \in Nat /\ point <= hold /\ hold <= limit
  <2>1. CASE over = {}
    BY <1>0, <1>3, <2>1
  <2>2. CASE over # {}
    <3>1. PICK y \in over : hold = y.to
      BY <1>3, <2>2
    <3> QED BY <1>0, <1>t, <3>1
  <2> QED BY <2>1, <2>2
<1>5. ASSUME NEW i \in base..hold, \A j \in i + 1..hold : j \in T, good(i), i # hold
      PROVE  Continues(s, t, o, i, hold)
  <2> DEFINE ws == MatchAt(s, i, limit)
  <2> DEFINE w == LongestOf(ws)
  <2> DEFINE j == i + Len(w)
  <2>1. i < point
    <3> SUFFICES ASSUME i = point PROVE FALSE
      BY <1>0, <1>5
    <3>1. PICK y \in over : hold = y.to
      BY <1>3, <1>5
    <3>2. y \in Scan(s, point, limit) \/ y.to <= point
      BY <1>5, <3>1 DEF Reached, limit
    <3> QED BY <1>0, <1>s, <1>t, <3>1, <3>2
  <2>2. i \in 1..Len(s) /\ i \in 1..hold /\ i \in base..point - 1 /\ i \in Nat /\ hold \in 1..Len(s) + 1
        /\ i + 1 <= point /\ i + 1 \in i + 1..hold /\ (i > 1 \/ o = 0)
    BY <1>0, <1>4, <2>1 DEF limit
  <2>3. MatchAt(s, i, Len(s) + 1) = MatchAt(t, o + i, Len(t) + 1)
    BY <2>2, MatchSame
  <2>4. CASE ws = {}
    <3>1. Reached(s, spans, i + 1)
      BY <1>0, <1>1, <1>5, <2>2, <2>4, ReachedNext DEF limit
    <3>2. Continues(s, t, o, i + 1, hold)
      <4>1. i + 1 \in T
        <5> HIDE DEF T
        <5> QED BY <1>5, <2>2
      <4> QED BY <2>2, <3>1, <4>1
    <3> QED BY <1>5, <2>2, <2>3, <2>4, <3>2, ContinuesBack DEF limit
  <2>5. CASE ws # {}
    <3>1. /\ Len(w) \in Nat \ {0} /\ j <= limit
          /\ Reached(s, spans, j)
          /\ Span(i, w) \in spans
          /\ \A y \in spans : y = Span(i, w) \/ y.from >= j \/ y.to <= i
      BY <1>0, <1>1, <1>5, <2>2, <2>5, ReachedNext DEF limit
    <3>2. Span(i, w).from = i /\ Span(i, w).to = j
      BY DEF Span
    <3> DEFINE x == Span(i, w)
    <3> HIDE DEF x, w
    <3>3. j \in Nat /\ i < j
      BY <2>2, <3>1
    <3> HIDE DEF j
    <3>4. j <= point \/ j = hold
      <4> SUFFICES ASSUME ~ (j <= point) PROVE j = hold
        OBVIOUS
      <4>1. x \in over
        BY <1>0, <2>1, <3>1, <3>2, <3>3 DEF x
      <4>2. PICK y \in over : hold = y.to
        BY <1>3, <4>1
      <4>3. y = x \/ y.from >= j \/ y.to <= i
        BY <3>1, <4>2 DEF x
      <4>4. y = x
        BY <1>0, <1>t, <2>1, <2>2, <3>3, <4>2, <4>3
      <4> QED BY <3>2, <4>2, <4>4 DEF x
    <3>5. j \in i + 1..hold /\ j \in i..hold
      BY <1>0, <1>4, <2>2, <3>3, <3>4
    <3>6. Continues(s, t, o, j, hold)
      <4>1. j \in T
        <5> HIDE DEF T
        <5> QED BY <1>5, <3>5
      <4> QED BY <3>1, <3>4, <4>1
    <3> QED BY <1>5, <2>2, <2>3, <2>5, <3>5, <3>6, ContinuesBack DEF limit, j, w
  <2> QED BY <2>4, <2>5
<1>6. Continues(s, t, o, hold, hold)
  <2>1. hold \in 1..Len(s) + 1 /\ hold \in 1..hold /\ o + hold \in 1..Len(t) + 1 /\ Len(t) + 1 \in 1..Len(t) + 1
    BY <1>0, <1>4 DEF limit
  <2>2. Going(s, hold, hold) = <<>>
    BY <1>0, <2>1, GoingSteps
  <2>3. Going(t, o + hold, Len(t) + 1) \in Emitted
    BY <1>0, <2>1, GoingSteps
  <2> QED BY <2>2, <2>3, EmittedIs DEF Continues
<1>7. \A i \in base..hold : i \in T
  <2>1. ASSUME NEW i \in base..hold, \A j \in i + 1..hold : j \in T
        PROVE  i \in T
    <3>1. good(i) /\ i # hold => Continues(s, t, o, i, hold)
      <4> HIDE DEF T, good
      <4> QED BY <1>5, <2>1
    <3> HIDE DEF good
    <3> QED BY <1>6, <3>1
  <2> HIDE DEF T
  <2> QED BY <1>0, <1>4, <2>1, Downwards
<1>8. base \in base..hold /\ good(base)
  BY <1>0, <1>2, <1>4
<1> HIDE DEF good
<1> QED BY <1>7, <1>8

\* Nothing that begins before the hold-back index can reach beyond the text that is there.
LEMMA HeldIsFinal ==
  ASSUME NEW s, NEW t, NEW o, Window(s, t, o), NEW start \in 1..Len(s) + 1,
         NEW i \in start..HoldbackIndex(s, start) - 1
  PROVE  Final(s, t, o, i)
<1> DEFINE first == Max({start, Len(s) + 1 - MaxHoldback})
<1> DEFINE may == {k \in first..Len(s) : \E p \in Patterns :
                     /\ Partial(p, s, k)
                     /\ MayBegin(p, s, k) \/ (p.numeric /\ s[k] \in Digits)}
<1>0. /\ s \in Seq(Char) /\ t \in Seq(Char) /\ o \in Nat /\ Len(s) \in Nat /\ Len(t) \in Nat
      /\ start \in Nat /\ 1 <= start /\ MaxHoldback \in Nat /\ o + Len(s) <= Len(t)
  BY HoldBackAssumption DEF Window
<1>1. first = (IF start <= Len(s) + 1 - MaxHoldback THEN Len(s) + 1 - MaxHoldback ELSE start)
  <2>1. start \in Int /\ Len(s) + 1 - MaxHoldback \in Int
    BY <1>0
  <2> QED BY <2>1, MaxOfTwo
<1> HIDE DEF first
<1>2. HoldbackIndex(s, start) = Min(may \cup {Len(s) + 1})
  BY DEF HoldbackIndex, first
<1>3. first \in Int /\ start <= first
  BY <1>0, <1>1
<1>4. HoldbackIndex(s, start) \in Nat /\ HoldbackIndex(s, start) <= Len(s) + 1
      /\ \A k \in may : HoldbackIndex(s, start) <= k
  <2> DEFINE all == may \cup {Len(s) + 1}
  <2>1. all \in SUBSET Nat /\ all # {} /\ Len(s) + 1 \in all
    BY <1>0, <1>3
  <2>2. \A k \in may : k \in all
    OBVIOUS
  <2> HIDE DEF may, all
  <2>3. Min(all) \in all /\ \A k \in all : Min(all) <= k
    BY <2>1, MinIs
  <2> QED BY <1>2, <2>1, <2>2, <2>3 DEF all
<1>5. i \in Nat /\ i \in 1..Len(s) /\ start <= i /\ i \notin may
  <2>1. i \in Nat /\ start <= i /\ i < HoldbackIndex(s, start)
    BY <1>0, <1>4
  <2> HIDE DEF may
  <2> QED BY <1>0, <1>4, <2>1
<1>6. ASSUME NEW p \in Patterns, MayBegin(p, s, i),
             NEW w \in p.words, At(t, o + i, w, Len(t) + 1), ~ (i + Len(w) <= Len(s))
      PROVE  FALSE
  <2> DEFINE n == Len(w)
  <2> DEFINE k == i - 1
  <2> DEFINE m == Len(s) - k
  <2>1. w \in Seq(Char) /\ n \in Nat /\ n <= MaxHoldback
    BY <1>6, HoldBackAssumption DEF Words
  <2>2. k \in 0..Len(s) /\ k + 1 = i /\ m \in Nat /\ m <= n /\ i + m = Len(s) + 1
    BY <1>0, <1>5, <1>6, <2>1
  <2>3. first <= i
    <3> HIDE DEF n
    <3>1. i + n > Len(s)
      BY <1>0, <1>5, <1>6, <2>1 DEF n
    <3> QED BY <1>0, <1>1, <1>5, <2>1, <3>1
  <2>4. ~ Partial(p, s, i)
    BY <1>0, <1>3, <1>5, <1>6, <2>3
  <2> DEFINE u == SubSeq(s, i, Len(s))
  <2>5. u \in Seq(Char) /\ Len(u) = m /\ \A j \in 1..m : u[j] = s[k + j]
    <3>1. k \in 0..Len(s) /\ Len(s) \in k..Len(s)
      BY <1>0, <2>2
    <3> QED BY <1>0, <2>2, <3>1, PartIs
  <2> HIDE DEF u, k, m, n
  <2>6. \A j \in 1..n : w[j] = t[(o + k) + j]
    <3> DEFINE v == SubSeq(t, (o + k) + 1, (o + k) + n)
    <3>1. w = SubSeq(t, o + i, o + i + n - 1) /\ (o + i) + n <= Len(t) + 1
      BY <1>6 DEF At, n
    <3>2. (o + k) + 1 = o + i /\ (o + k) + n = o + i + n - 1
      <4>1. k \in Int /\ i \in Int /\ k + 1 = i
        BY <1>5, <2>2
      <4> QED BY <1>0, <2>1, <4>1
    <3>3. w = v
      BY <3>1, <3>2
    <3>4. (o + k) \in 0..Len(t) /\ ((o + k) + n) \in (o + k)..Len(t) /\ ((o + k) + n) - (o + k) = n
      BY <1>0, <2>1, <2>2, <3>1, <3>2
    <3>5. \A j \in 1..n : v[j] = t[(o + k) + j]
      BY <1>0, <3>4, PartIs
    <3> HIDE DEF v
    <3> QED BY <3>3, <3>5
  <2>7. \A j \in 1..m : u[j] = w[j]
    <3> SUFFICES ASSUME NEW j \in 1..m PROVE u[j] = w[j]
      OBVIOUS
    <3>1. j \in 1..n /\ k + j \in 1..Len(s) /\ (o + k) + j = o + (k + j)
      BY <1>0, <1>5, <2>1, <2>2
    <3> QED BY <2>5, <2>6, <3>1 DEF Window
  <2> DEFINE a == SubSeq(u, 1, m)
  <2> DEFINE b == SubSeq(w, 1, m)
  <2>8. a = b
    <3>1. m \in 0..Len(u) /\ m \in 0..Len(w)
      BY <2>1, <2>2, <2>5 DEF n
    <3>2. a \in Seq(Char) /\ Len(a) = m /\ \A j \in 1..m : a[j] = u[j]
      BY <2>5, <3>1, StartIs
    <3>3. b \in Seq(Char) /\ Len(b) = m /\ \A j \in 1..m : b[j] = w[j]
      BY <2>1, <3>1, StartIs
    <3> HIDE DEF a, b
    <3>4. \A j \in 1..m : a[j] = b[j]
      BY <2>7, <3>2, <3>3
    <3> QED BY <3>2, <3>3, <3>4, SameText
  <2>9. IsPrefix(u, w)
    BY <2>2, <2>5, <2>8 DEF IsPrefix, n
  <2> QED BY <2>4, <2>9 DEF Partial, u
<1> QED BY <1>6 DEF Final

-----------------------------------------------------------------------------
(* The redactor: chunking does not show where the rescans find nothing     *)

\* A text that begins with another has the parts of that too.
LEMMA SettledBefore ==
  ASSUME NEW s \in Seq(Char), NEW u \in Seq(Char), Settled(s \o u)
  PROVE  Settled(s)
<1> DEFINE t == s \o u
<1>1. /\ t \in Seq(Char) /\ Len(t) = Len(s) + Len(u) /\ Len(s) \in Nat /\ Len(u) \in Nat
      /\ \A i \in 1..Len(s) : t[i] = s[i]
  BY JoinIs
<1>2. Settled(t)
  OBVIOUS
<1> HIDE DEF t
<1>3. ASSUME NEW m \in 0..Len(s), NEW n \in m..Len(s)
      PROVE  m \in 0..Len(t) /\ n \in m..Len(t) /\ SubSeq(s, m + 1, n) = SubSeq(t, m + 1, n)
  <2> DEFINE a == SubSeq(s, m + 1, n)
  <2> DEFINE b == SubSeq(t, m + 1, n)
  <2>1. m \in 0..Len(t) /\ n \in m..Len(t)
    BY <1>1
  <2>2. a \in Seq(Char) /\ Len(a) = n - m /\ \A i \in 1..n - m : a[i] = s[m + i]
    BY PartIs
  <2>3. b \in Seq(Char) /\ Len(b) = n - m /\ \A i \in 1..n - m : b[i] = t[m + i]
    BY <1>1, <2>1, PartIs
  <2> HIDE DEF a, b
  <2>4. \A i \in 1..n - m : a[i] = b[i]
    <3>1. \A i \in 1..n - m : m + i \in 1..Len(s)
      BY <1>1
    <3> QED BY <1>1, <2>2, <2>3, <3>1
  <2>5. a = b
    BY <2>2, <2>3, <2>4, SameText
  <2> QED BY <2>1, <2>5 DEF a, b
<1> QED BY <1>2, <1>3 DEF Settled

\* The spans of a part that ends with a settled text are those of the forward scan.
LEMMA SettledEnd ==
  ASSUME NEW t \in Seq(Char), Settled(t), NEW o \in Nat, NEW s, s = SubSeq(t, o + 1, Len(t)),
         o + Len(s) = Len(t), Len(s) \in Nat, NEW start \in 1..Len(s) + 1
  PROVE  Spans(s, start) = Scan(s, start, Len(s) + 1)
<1>1. o \in 0..Len(t) /\ Len(t) \in o..Len(t) /\ (Len(t) - o) + 1 = Len(s) + 1
  BY DEF Settled
<1>2. start \in 1..(Len(t) - o) + 1
  BY <1>1
<1> QED BY <1>1, <1>2 DEF Settled

\* What is out, of a text of which n characters are let go, and what the scan makes of
\* the rest is what it makes of all.
Tells(went, s, n) == went \o Going(s, n + 1, Len(s) + 1) = Going(s, 1, Len(s) + 1)

\* It is so, whatever else may come.
ToldOf(went, txt, buf) == \A u \in Seq(Char) : Tells(went, txt \o u, Len(txt) - Len(buf))
Told == ToldOf(out, text, buffer)

ChunkInv ==
  Settled(text) => out \in Emitted /\ (IF flushed THEN out = Whole(text) ELSE Told)

\* Nothing is out of nothing.
LEMMA NothingTold == ToldOf(<<>>, <<>>, <<>>)
<1>1. Len(<<>>) - Len(<<>>) = 0 /\ \A u \in Seq(Char) : <<>> \o u = u
  OBVIOUS
<1>2. \A u \in Seq(Char) : Tells(<<>>, u, 0)
  <2> SUFFICES ASSUME NEW u \in Seq(Char) PROVE Tells(<<>>, u, 0)
    OBVIOUS
  <2>1. Len(u) + 1 \in 1..Len(u) + 1 /\ 1 \in 1..Len(u) + 1 /\ 0 + 1 = 1
    OBVIOUS
  <2>2. Going(u, 1, Len(u) + 1) \in Emitted
    BY <2>1, GoingSteps
  <2> QED BY <2>1, <2>2, EmittedIs DEF Tells
<1> QED BY <1>1, <1>2 DEF ToldOf

LEMMA ChunkInvInit == RedactorInit => ChunkInv
<1> SUFFICES ASSUME RedactorInit PROVE ChunkInv
  OBVIOUS
<1>1. text = <<>> /\ buffer = <<>> /\ out = <<>> /\ flushed = FALSE
  BY DEF RedactorInit
<1>2. Told
  BY <1>1, NothingTold DEF Told
<1> QED BY <1>1, <1>2, EmittedIs DEF ChunkInv

\* A chunk: what is let go of it can no longer change.
LEMMA EmissionTells ==
  ASSUME NEW txt, NEW buf, NEW ctx, Holds(txt, buf, ctx), NEW chunk \in Seq(Char),
         NEW went \in Emitted, ToldOf(went, txt, buf), Settled(txt \o chunk)
  PROVE  LET e == Emission(ctx, buf \o chunk, FALSE)
         IN /\ e.out \in Emitted /\ went \o e.out \in Emitted
            /\ ToldOf(went \o e.out, txt \o chunk, e.buffer)
<1> DEFINE e == Emission(ctx, buf \o chunk, FALSE)
<1> DEFINE gone == Len(txt) - Len(buf)
<1> DEFINE o == gone - Kept(gone)
<1> DEFINE t == txt \o chunk
<1> DEFINE full == ctx \o (buf \o chunk)
<1> DEFINE base == Len(ctx) + 1
<1> DEFINE spans == Spans(full, base)
<1> DEFINE point == HoldbackIndex(full, base)
<1> DEFINE hold == Pushed(point, spans)
<1> DEFINE limit == Len(full) + 1
<1>1. /\ txt \in Seq(Char)
      /\ e.out = Replaced(full, base, hold, spans)
      /\ e.buffer = SubSeq(full, hold, Len(full))
  BY DEF Holds, Emission
<1> HIDE DEF e
<1> DEFINE now == went \o e.out
<1>w. Windowed(txt, buf, ctx, chunk)
  BY FullWindow
<1>3. /\ gone \in 0..Len(txt) /\ o \in Nat
      /\ o + base = gone + 1 /\ (base > 1 \/ o = 0) /\ base \in 1..limit
      /\ full \in Seq(Char) /\ t \in Seq(Char) /\ Len(full) \in Nat /\ Len(t) \in Nat
      /\ full = SubSeq(t, o + 1, Len(t)) /\ o + Len(full) = Len(t)
      /\ \A m \in 1..Len(full) : full[m] = t[o + m]
  BY <1>w DEF Windowed
<1>4. went \in Emitted /\ ToldOf(went, txt, buf) /\ Settled(t)
  OBVIOUS
<1> HIDE DEF gone, o, full
<1>5. spans = Scan(full, base, limit)
  <2> HIDE DEF t, base
  <2> QED BY <1>3, <1>4, SettledEnd
<1>6. point \in base..limit /\ hold \in point..limit /\ limit \in Nat /\ base \in Nat
  <2> HIDE DEF base
  <2>1. point \in base..limit
    BY <1>3, HoldIs
  <2>2. spans \in SUBSET Within(limit)
    BY <1>3, SpansIs
  <2> HIDE DEF point, spans
  <2>3. point \in 0..limit /\ limit \in Nat
    BY <1>3, <2>1
  <2> HIDE DEF limit
  <2>4. hold \in point..limit
    BY <2>2, <2>3, PushedIs
  <2> QED BY <1>3, <2>1, <2>3, <2>4
<1>7. now = went \o Going(full, base, hold)
  BY <1>1, <1>5 DEF Going
<1> HIDE DEF now
<1>8. hold = Pushed(point, Scan(full, base, limit))
  BY <1>5
<1>9. \A T : Window(full, T, o) => \A i \in base..point - 1 : Final(full, T, o, i)
  BY <1>3, HeldIsFinal
<1> HIDE DEF point, spans, hold, base
<1>10. hold \in 1..limit /\ base \in 1..hold /\ hold \in Nat /\ base > 0
  BY <1>3, <1>6
<1>n. /\ o \in Nat /\ Len(full) \in Nat /\ Len(t) \in Nat /\ o + Len(full) = Len(t)
      /\ hold \in Nat /\ hold > 0 /\ hold <= Len(full) + 1
  <2> HIDE DEF t
  <2> QED BY <1>3, <1>10
<1>11. Going(full, base, hold) \in Emitted
  BY <1>3, <1>10, GoingSteps
<1>12. Len(t) - Len(e.buffer) + 1 = o + hold
  <2> DEFINE m == hold - 1
  <2>1. m \in 0..Len(full) /\ Len(full) \in m..Len(full) /\ m + 1 = hold
    BY <1>3, <1>10
  <2> HIDE DEF m
  <2>2. Len(e.buffer) = Len(full) - m
    BY <1>1, <1>3, <2>1, PartIs
  <2> HIDE DEF t
  <2> QED BY <1>n, <2>1, <2>2
<1>13. ASSUME NEW u \in Seq(Char) PROVE Tells(now, t \o u, Len(t) - Len(e.buffer))
  <2> DEFINE T == t \o u
  <2> DEFINE end == Len(T) + 1
  <2>1. T \in Seq(Char) /\ Len(T) = Len(t) + Len(u) /\ Len(u) \in Nat
        /\ \A i \in 1..Len(t) : T[i] = t[i]
    BY <1>3, JoinIs
  <2>2. T = txt \o (chunk \o u) /\ chunk \o u \in Seq(Char)
    BY <1>1
  <2> HIDE DEF T, t
  <2>3. Window(full, T, o)
    <3>1. \A m \in 1..Len(full) : o + m \in 1..Len(t)
      BY <1>3
    <3>2. o + Len(full) <= Len(T)
      BY <1>3, <2>1
    <3> QED BY <1>3, <2>1, <3>1, <3>2 DEF Window
  <2>4. Continues(full, T, o, base, hold)
    <3>1. \A i \in base..point - 1 : Final(full, T, o, i)
      BY <1>9, <2>3
    <3>2. base \in 1..Len(full) + 1 /\ (base > 1 \/ o = 0) /\ point \in base..Len(full) + 1
          /\ hold = Pushed(point, Scan(full, base, Len(full) + 1))
      BY <1>3, <1>6, <1>8
    <3> QED BY <2>3, <3>1, <3>2, EmissionIs
  <2>5. Tells(went, T, gone)
    BY <1>4, <2>2 DEF ToldOf, gone
  <2>6. Going(T, o + hold, end) \in Emitted
    <3>1. end \in 1..end /\ o + hold \in 1..end
      BY <1>n, <2>1
    <3> QED BY <2>1, <3>1, GoingSteps
  <2>7. now \o Going(T, o + hold, end)
          = went \o (Going(full, base, hold) \o Going(T, o + hold, end))
    BY <1>4, <1>7, <1>11, <2>6, EmittedIs
  <2>8. Going(full, base, hold) \o Going(T, o + hold, end) = Going(T, gone + 1, end)
    BY <1>3, <2>4 DEF Continues
  <2>9. went \o Going(T, gone + 1, end) = Going(T, 1, end)
    BY <2>5 DEF Tells
  <2>10. Tells(now, T, Len(t) - Len(e.buffer))
    BY <1>12, <2>7, <2>8, <2>9 DEF Tells
  <2> QED BY <2>10 DEF T
<1>14. ToldOf(now, t, e.buffer)
  BY <1>13 DEF ToldOf
<1>15. now \in Emitted
  BY <1>4, <1>7, <1>11, EmittedIs
<1>16. e.out \in Emitted
  BY <1>1, <1>5, <1>11 DEF Going
<1> QED BY <1>14, <1>15, <1>16 DEF now, t, e

\* The end of the text: what is held goes out as the scan has it.
LEMMA EndTells ==
  ASSUME NEW txt, NEW buf, NEW ctx, Holds(txt, buf, ctx),
         NEW went \in Emitted, ToldOf(went, txt, buf), Settled(txt)
  PROVE  /\ went \o Emission(ctx, buf, TRUE).out = Going(txt, 1, Len(txt) + 1)
         /\ went \o Emission(ctx, buf, TRUE).out \in Emitted
<1> DEFINE now == went \o Emission(ctx, buf, TRUE).out
<1> DEFINE gone == Len(txt) - Len(buf)
<1> DEFINE o == gone - Kept(gone)
<1> DEFINE full == ctx \o buf
<1> DEFINE base == Len(ctx) + 1
<1> DEFINE limit == Len(full) + 1
<1> DEFINE end == Len(txt) + 1
<1>1. /\ txt \in Seq(Char) /\ buf \in Seq(Char)
      /\ now = went \o Replaced(full, base, limit, Spans(full, base))
  BY DEF Holds, Emission
<1>2. <<>> \in Seq(Char) /\ txt \o <<>> = txt /\ buf \o <<>> = buf
  BY <1>1
<1>3. /\ gone \in 0..Len(txt) /\ o \in Nat
      /\ o + base = gone + 1 /\ (base > 1 \/ o = 0) /\ base \in 1..limit
      /\ full \in Seq(Char) /\ Len(full) \in Nat /\ Len(txt) \in Nat
      /\ full = SubSeq(txt, o + 1, Len(txt)) /\ o + Len(full) = Len(txt)
      /\ \A m \in 1..Len(full) : full[m] = txt[o + m]
  <2> DEFINE all == ctx \o (buf \o <<>>)
  <2>1. /\ gone \in 0..Len(txt) /\ o \in Nat
        /\ o + base = gone + 1 /\ (base > 1 \/ o = 0) /\ base \in 1..Len(all) + 1
        /\ all \in Seq(Char) /\ Len(all) \in Nat /\ Len(txt \o <<>>) \in Nat
        /\ all = SubSeq(txt \o <<>>, o + 1, Len(txt \o <<>>))
        /\ o + Len(all) = Len(txt \o <<>>)
        /\ \A m \in 1..Len(all) : all[m] = (txt \o <<>>)[o + m]
    <3>1. Windowed(txt, buf, ctx, <<>>)
      BY <1>2, FullWindow
    <3> QED BY <3>1 DEF Windowed
  <2>2. all = full
    BY <1>2
  <2> HIDE DEF all, full, o, base, gone
  <2> QED BY <1>2, <2>1, <2>2
<1>4. went \in Emitted /\ ToldOf(went, txt, buf) /\ Settled(txt)
  OBVIOUS
<1>5. Tells(went, txt, gone)
  BY <1>2, <1>4 DEF ToldOf
<1> HIDE DEF gone, o, full, base, now
<1>6. Spans(full, base) = Scan(full, base, limit)
  BY <1>1, <1>3, <1>4, SettledEnd
<1>7. now = went \o Going(full, base, limit)
  BY <1>1, <1>6 DEF Going
<1>8. Continues(full, txt, o, base, limit)
  <2>1. Window(full, txt, o)
    <3>1. o + Len(full) <= Len(txt)
      BY <1>3
    <3> QED BY <1>1, <1>3, <3>1 DEF Window
  <2>2. \A i \in base..limit - 1 : Final(full, txt, o, i)
    BY <1>3 DEF Final
  <2>3. limit = Pushed(limit, Scan(full, base, limit)) /\ limit \in base..limit
    <3> DEFINE spans == Scan(full, base, limit)
    <3>1. limit \in Nat /\ base \in 0..limit
      BY <1>3
    <3>2. spans \in SUBSET Within(limit)
      BY <3>1, ScanIs
    <3> HIDE DEF spans, limit
    <3>3. Pushed(limit, spans) \in limit..limit
      BY <3>1, <3>2, PushedIs
    <3> QED BY <3>1, <3>3 DEF spans
  <2> QED BY <1>3, <2>1, <2>2, <2>3, EmissionIs
<1>9. Going(full, base, limit) \in Emitted
  <2>1. limit \in 1..limit /\ base \in 1..limit
    BY <1>3
  <2> QED BY <1>3, <2>1, GoingSteps
<1>10. Going(txt, o + limit, end) = <<>>
  <2>1. o \in Nat /\ Len(full) \in Nat /\ Len(txt) \in Nat /\ o + Len(full) = Len(txt)
    BY <1>3
  <2>2. o + limit = end /\ end \in 1..end
    BY ONLY <2>1
  <2> QED BY <1>1, <2>2, GoingSteps
<1>11. Going(full, base, limit) = Going(txt, gone + 1, end)
  <2>1. Going(full, base, limit) \o <<>> = Going(txt, gone + 1, end)
    BY <1>3, <1>8, <1>10 DEF Continues
  <2> QED BY <1>9, <2>1, EmittedIs
<1>12. now = Going(txt, 1, end)
  BY <1>5, <1>7, <1>11 DEF Tells
<1>13. now \in Emitted
  BY <1>4, <1>7, <1>9, EmittedIs
<1> QED BY <1>12, <1>13 DEF now, end

\* The text fed at once and flushed is as the scan has it.
LEMMA WholeIs ==
  ASSUME NEW s \in Seq(Char), Settled(s)
  PROVE  Whole(s) = Going(s, 1, Len(s) + 1)
<1> DEFINE nil == <<>>
<1> DEFINE e == Emission(nil, nil \o s, FALSE)
<1>1. nil \o s = s /\ nil \in Emitted /\ Holds(nil, nil, nil)
  BY NothingHolds, EmittedIs
<1>2. ToldOf(nil, nil, nil)
  BY NothingTold
<1> HIDE DEF nil
<1>3. Holds(nil \o s, e.buffer, e.context)
  BY <1>1, EmissionHolds
<1>4. Settled(nil \o s)
  BY <1>1
<1>5. e.out \in Emitted /\ nil \o e.out \in Emitted /\ ToldOf(nil \o e.out, nil \o s, e.buffer)
  BY <1>1, <1>2, <1>4, EmissionTells
<1> HIDE DEF e
<1>6. Holds(s, e.buffer, e.context) /\ ToldOf(nil \o e.out, s, e.buffer)
  BY <1>1, <1>3, <1>5
<1>7. (nil \o e.out) \o Emission(e.context, e.buffer, TRUE).out = Going(s, 1, Len(s) + 1)
  BY <1>5, <1>6, EndTells
<1>8. e = Emission(<<>>, s, FALSE)
  BY <1>1 DEF e, nil
<1>9. nil \o e.out = e.out
  BY <1>5, EmittedIs DEF nil
<1> QED BY <1>7, <1>8, <1>9 DEF Whole

LEMMA FeedTells ==
  ASSUME RedactorInv, ChunkInv, NEW chunk \in Chunks, Feed(chunk)
  PROVE  ChunkInv'
<1> DEFINE e == Emission(context, buffer \o chunk, FALSE)
<1>1. chunk \in Seq(Char) /\ text \in Seq(Char)
  <2>1. PICK n \in 1..MaxChunk : chunk \in [1..n -> Char]
    BY DEF Chunks
  <2>2. n \in Nat
    BY <2>1, HoldBackAssumption
  <2>3. chunk \in Seq(Char)
    BY ONLY <2>1, <2>2
  <2> QED BY <2>3 DEF RedactorInv
<1>2. Holds(text, buffer, context) /\ ~ flushed
  BY InvHolds DEF Feed
<1>3. /\ text' = text \o chunk /\ buffer' = e.buffer /\ out' = out \o e.out /\ ~ flushed'
  BY <1>2 DEF Feed
<1> SUFFICES ASSUME Settled(text \o chunk) PROVE (out \in Emitted /\ Told)'
  BY <1>3 DEF ChunkInv
<1>4. out \in Emitted /\ ToldOf(out, text, buffer)
  BY <1>1, <1>2, SettledBefore DEF ChunkInv, Told
<1>5. out \o e.out \in Emitted /\ ToldOf(out \o e.out, text \o chunk, e.buffer)
  BY <1>1, <1>2, <1>4, EmissionTells
<1> HIDE DEF e
<1>6. out' \in Emitted /\ ToldOf(out', text', buffer')
  BY <1>3, <1>5
<1> QED BY <1>6 DEF Told

LEMMA FlushTells ==
  ASSUME RedactorInv, ChunkInv, Flush
  PROVE  ChunkInv'
<1>1. Holds(text, buffer, context) /\ ~ flushed /\ text \in Seq(Char)
  BY InvHolds DEF Flush, RedactorInv
<1>2. text' = text /\ flushed' /\ out' = out \o Emission(context, buffer, TRUE).out
  BY DEF Flush
<1> SUFFICES ASSUME Settled(text) PROVE out' \in Emitted /\ out' = Whole(text)
  BY <1>2 DEF ChunkInv
<1>3. out \in Emitted /\ ToldOf(out, text, buffer)
  BY <1>1 DEF ChunkInv, Told
<1>4. out' = Going(text, 1, Len(text) + 1) /\ out' \in Emitted
  BY <1>1, <1>2, <1>3, EndTells
<1> QED BY <1>1, <1>4, WholeIs

LEMMA RedactorHolds == RedactorSpec => [](RedactorInv /\ ChunkInv)
<1> DEFINE Inv == RedactorInv /\ ChunkInv
<1>1. RedactorInit => Inv
  BY RedactorInitInv, ChunkInvInit
<1>2. Inv /\ [RedactorNext]_redactorVars => Inv'
  <2> SUFFICES ASSUME Inv, [RedactorNext]_redactorVars PROVE Inv'
    OBVIOUS
  <2>1. CASE \E chunk \in Chunks : Feed(chunk)
    BY <2>1, FeedKeeps, FeedTells
  <2>2. CASE Flush
    BY <2>2, FlushKeeps, FlushTells
  <2>3. CASE UNCHANGED redactorVars
    BY <2>3 DEF redactorVars, RedactorInv, HoldsTheEnd, ChunkInv, Told, ToldOf
  <2> QED BY <2>1, <2>2, <2>3 DEF RedactorNext
<1> QED BY <1>1, <1>2, PTL DEF RedactorSpec

\* Every chunking of a stream gives what redacting it whole gives (redactor.py:26-29),
\* for every set of patterns and every text in which the rescue pass and the rescan of
\* the gaps (_scan_to_fixed_point) find nothing of their own: a chunk can only show
\* where they do.
THEOREM ForwardScanIsChunkInvariant == RedactorSpec => [](Settled(text) => ChunkInvariant)
<1>1. RedactorInv /\ ChunkInv => (Settled(text) => ChunkInvariant)
  BY DEF ChunkInv, ChunkInvariant
<1> QED BY <1>1, RedactorHolds, PTL

=============================================================================
