--------------------------- MODULE SseDecoderProofs ---------------------------
(***************************************************************************)
(* Proofs about SseDecoder, for bodies of any length cut anywhere.  The    *)
(* decoder and its reference are recursions on a position in a text; what  *)
(* they compute is proved by induction on the text (TextInduction), which  *)
(* comes from the least element of a set of naturals.                      *)
(***************************************************************************)
EXTENDS SseDecoder, SequenceTheorems, WellFoundedInduction, TLAPS

-----------------------------------------------------------------------------
(* Induction and recursion on an interval of naturals, stated of sets and  *)
(* functions.                                                              *)

\* A nonempty set of naturals has a least element.
LEMMA LeastOf ==
  ASSUME NEW T \in SUBSET Nat, T # {}
  PROVE  \E x \in T : \A y \in T : x <= y
<1>1. \A x, y \in Nat : y < x => <<y, x>> \in OpToRel(<, Nat)
  BY DEF OpToRel
<1>2. PICK less : IsWellFoundedOn(less, Nat) /\ \A x, y \in Nat : y < x => <<y, x>> \in less
  BY <1>1, NatLessThanWellFounded
<1>3. PICK x \in T : \A y \in T : ~ (<<y, x>> \in less)
  BY <1>2, WFMin
<1>4. \A y \in T : ~ (y < x)
  BY <1>2, <1>3
<1> QED BY <1>4

\* Induction on an interval, for membership in a set.
LEMMA Induction ==
  ASSUME NEW n \in Nat, NEW T, 0 \in T, \A i \in 1..n : i - 1 \in T => i \in T
  PROVE  \A i \in 0..n : i \in T
<1>1. ASSUME NEW j \in 0..n, j \notin T
      PROVE  FALSE
  <2> DEFINE rest == (0..n) \ T
  <2>0. rest \in SUBSET Nat /\ rest # {}
    BY <1>1
  <2>1. PICK x \in rest : \A y \in rest : x <= y
    <3> HIDE DEF rest
    <3> QED BY <2>0, LeastOf
  <2>2. x \in 1..n /\ x - 1 \in 0..n /\ ~ (x <= x - 1)
    BY <2>1
  <2>3. x - 1 \in T
    BY <2>1, <2>2
  <2> QED BY <2>1, <2>2, <2>3
<1> QED BY <1>1

Agreeing(n, f, h) ==
  f[0] = h[0] /\ \A i \in 1..n : f[i - 1] = h[i - 1] => f[i] = h[i]

\* Two functions with the same recursion are one.
LEMMA Agree ==
  ASSUME NEW n \in Nat, NEW f, NEW h, Agreeing(n, f, h)
  PROVE  \A i \in 0..n : f[i] = h[i]
<1> USE DEF Agreeing
<1> DEFINE T == {i \in 0..n : f[i] = h[i]}
<1>1. 0 \in T /\ \A i \in 1..n : i - 1 \in T => i \in T
  OBVIOUS
<1>2. \A i \in 0..n : i \in T
  <2> HIDE DEF T
  <2> QED BY <1>1, Induction
<1> QED BY <1>2

Recursive(n, a, g, f) == f[0] = a /\ \A i \in 1..n : f[i] = g[<<i, f[i - 1]>>]

\* A step on values of S defines a function by recursion.
LEMMA Recursion ==
  ASSUME NEW n \in Nat, NEW S, NEW a \in S, NEW g \in [(1..n) \X S -> S]
  PROVE  \E f \in [0..n -> S] : Recursive(n, a, g, f)
<1> DEFINE Good(k, f) == f \in [0..k -> S] /\ f[0] = a /\ \A i \in 1..k : f[i] = g[<<i, f[i - 1]>>]
<1> DEFINE T == {k \in 0..n : \E f : Good(k, f)}
<1>1. 0 \in T
  <2>1. Good(0, [i \in 0..0 |-> a])
    OBVIOUS
  <2>2. \E f : Good(0, f)
    <3> HIDE DEF Good
    <3> QED BY <2>1
  <2> QED BY <2>2
<1>2. ASSUME NEW k \in 1..n, k - 1 \in T
      PROVE  k \in T
  <2>1. PICK f : Good(k - 1, f)
    BY <1>2
  <2> DEFINE h == [i \in 0..k |-> IF i = k THEN g[<<k, f[k - 1]>>] ELSE f[i]]
  <2>2. k - 1 \in 0..k - 1 /\ f[k - 1] \in S
    BY <2>1
  <2>3. g[<<k, f[k - 1]>>] \in S
    BY <2>2
  <2>4. \A i \in 0..k : i # k => i \in 0..k - 1
    OBVIOUS
  <2>5. h \in [0..k -> S]
    BY <2>1, <2>3, <2>4
  <2>6. h[0] = a
    BY <2>1
  <2>7. ASSUME NEW i \in 1..k
        PROVE  h[i] = g[<<i, h[i - 1]>>]
    <3>1. h[i - 1] = f[i - 1]
      OBVIOUS
    <3>2. CASE i = k
      <4>1. h[k] = g[<<k, f[k - 1]>>]
        OBVIOUS
      <4> HIDE DEF h
      <4> QED BY <3>1, <3>2, <4>1
    <3>3. CASE i # k
      <4>1. i \in 1..k - 1
        BY <3>3
      <4> QED BY <2>1, <3>1, <3>3, <4>1
    <3> QED BY <3>2, <3>3
  <2>8. Good(k, h)
    BY <2>5, <2>6, <2>7
  <2>9. \E f1 : Good(k, f1)
    <3> HIDE DEF Good
    <3> QED BY <2>8
  <2> QED BY <2>9
<1>3. \A i \in 0..n : i \in T
  <2> HIDE DEF T
  <2> QED BY <1>1, <1>2, Induction
<1>4. PICK f : Good(n, f)
  BY <1>3
<1> QED BY <1>4 DEF Recursive

-----------------------------------------------------------------------------
(* Texts                                                                   *)

\* Texts of one length with the same characters are one text.
LEMMA TextEqual ==
  \A s, t \in Seq(Char) : Len(s) = Len(t) /\ (\A i \in 1..Len(s) : s[i] = t[i]) => s = t
BY SeqEqual

\* Induction on a text, a character at a time.
LEMMA TextInduction ==
  ASSUME NEW T, <<>> \in T, \A s \in Seq(Char), c \in Char : s \in T => Append(s, c) \in T
  PROVE  \A s \in Seq(Char) : s \in T
<1> SUFFICES ASSUME NEW s \in Seq(Char) PROVE s \in T
  OBVIOUS
<1> DEFINE K == {i \in 0..Len(s) : SubSeq(s, 1, i) \in T}
<1>1. 0 \in K
  <2>1. SubSeq(s, 1, 0) = <<>> /\ 0 \in 0..Len(s)
    OBVIOUS
  <2> QED BY <2>1
<1>2. ASSUME NEW i \in 1..Len(s), i - 1 \in K
      PROVE  i \in K
  <2>1. SubSeq(s, 1, i - 1) \in Seq(Char) /\ s[i] \in Char
    OBVIOUS
  <2>2. SubSeq(s, 1, i) = Append(SubSeq(s, 1, i - 1), s[i])
    <3>1. SubSeq(s, 1, i) \in Seq(Char) /\ Append(SubSeq(s, 1, i - 1), s[i]) \in Seq(Char)
      BY <2>1
    <3>2. Len(SubSeq(s, 1, i)) = i /\ Len(SubSeq(s, 1, i - 1)) = i - 1
      OBVIOUS
    <3>3. ASSUME NEW j \in 1..i
          PROVE  SubSeq(s, 1, i)[j] = Append(SubSeq(s, 1, i - 1), s[i])[j]
      <4>1. SubSeq(s, 1, i)[j] = s[j]
        OBVIOUS
      <4>2. CASE j = i
        BY <2>1, <3>2, <4>1, <4>2
      <4>3. CASE j # i
        <5>1. j \in 1..i - 1 /\ SubSeq(s, 1, i - 1)[j] = s[j]
          BY <4>3
        <5> QED BY <2>1, <3>2, <4>1, <5>1
      <4> QED BY <4>2, <4>3
    <3> QED BY <2>1, <3>1, <3>2, <3>3, TextEqual
  <2>3. SubSeq(s, 1, i - 1) \in T
    BY <1>2
  <2>4. SubSeq(s, 1, i) \in T
    <3> HIDE DEF K
    <3> QED BY <2>1, <2>2, <2>3
  <2> QED BY <2>4
<1>3. Len(s) \in K
  <2>1. Len(s) \in Nat /\ Len(s) \in 0..Len(s)
    OBVIOUS
  <2>2. \A i \in 0..Len(s) : i \in K
    <3> HIDE DEF K
    <3> QED BY <1>1, <1>2, <2>1, Induction
  <2> QED BY <2>1, <2>2
<1>4. SubSeq(s, 1, Len(s)) = s
  OBVIOUS
<1> QED BY <1>3, <1>4

-----------------------------------------------------------------------------
(* What the decoder and its reference compute, a step of each recursion at *)
(* a time.  The function a recursion defines exists, and obeys its         *)
(* equations (ReadingIs, NormalisingIs, CuttingIs, FilteringIs).           *)

Line == Seq(Char)
Acc == [line : Line, data : Seq(Line), out : Seq(Seq(Line)), cr : BOOLEAN, first : BOOLEAN]

LEMMA AppendType ==
  \A S : \A s \in Seq(S), e \in S : Append(s, e) \in Seq(S)
OBVIOUS

\* EndLine, field by field: an empty line ends an event, another is kept if it is data.
LEMMA EndLineType ==
  ASSUME NEW a \in Acc
  PROVE  /\ EndLine(a) \in Acc /\ EndLine(a).line = <<>>
         /\ EndLine(a).cr = a.cr /\ EndLine(a).first = a.first
         /\ a.line = <<>> => /\ EndLine(a).data = <<>>
                            /\ EndLine(a).out = IF a.data = <<>> THEN a.out ELSE Append(a.out, a.data)
         /\ a.line # <<>> => /\ EndLine(a).out = a.out
                            /\ EndLine(a).data = IF Head(a.line) = "data" THEN Append(a.data, a.line) ELSE a.data
<1>1. <<>> \in Line /\ <<>> \in Seq(Line)
  BY DEF Line
<1>2. CASE a.line = <<>>
  <2>1. EndLine(a) = [a EXCEPT !.data = <<>>,
                   !.out = IF a.data = <<>> THEN @ ELSE Append(@, a.data)]
    BY <1>2 DEF EndLine
  <2>2. Append(a.out, a.data) \in Seq(Seq(Line)) /\ a.out \in Seq(Seq(Line))
    BY DEF Acc
  <2> QED BY <1>1, <1>2, <2>1, <2>2 DEF Acc
<1>3. CASE a.line # <<>>
  <2>1. EndLine(a) = [a EXCEPT !.line = <<>>,
                   !.data = IF Head(a.line) = "data" THEN Append(@, a.line) ELSE @]
    BY <1>3 DEF EndLine
  <2>2. Append(a.data, a.line) \in Seq(Line) /\ a.data \in Seq(Line)
    BY DEF Acc
  <2> QED BY <1>1, <1>3, <2>1, <2>2 DEF Acc
<1> QED BY <1>2, <1>3

\* Reads, case by case, as the CASE of its definition reads on its four domains.
LEMMA ReadsIs ==
  ASSUME NEW a \in Acc, NEW c \in Char
  PROVE  /\ Reads(a, c) \in Acc
         /\ c = "bom" /\ a.first => Reads(a, c) = a
         /\ c = "lf" /\ a.cr => Reads(a, c) = [a EXCEPT !.cr = FALSE]
         /\ c = "cr" \/ (c = "lf" /\ ~ a.cr) =>
              Reads(a, c) = [EndLine(a) EXCEPT !.cr = (c = "cr"), !.first = FALSE]
         /\ c \notin {"lf", "cr"} /\ ~ (c = "bom" /\ a.first) =>
              Reads(a, c) = [a EXCEPT !.line = Append(@, c), !.cr = FALSE, !.first = FALSE]
<1>1. CASE c = "bom" /\ a.first
  BY <1>1 DEF Reads
<1>2. CASE c = "lf" /\ a.cr
  BY <1>2 DEF Reads, Acc
<1>3. CASE c = "cr" \/ (c = "lf" /\ ~ a.cr)
  <2>1. Reads(a, c) = [EndLine(a) EXCEPT !.cr = (c = "cr"), !.first = FALSE]
    BY <1>3 DEF Reads
  <2>2. Reads(a, c) \in Acc
    BY <2>1, EndLineType DEF Acc
  <2> QED BY <1>3, <2>1, <2>2
<1>4. CASE c \notin {"lf", "cr"} /\ ~ (c = "bom" /\ a.first)
  <2>1. Reads(a, c) = [a EXCEPT !.line = Append(@, c), !.cr = FALSE, !.first = FALSE]
    BY <1>4 DEF Reads
  <2>2. Append(a.line, c) \in Line
    BY DEF Acc, Line
  <2>3. Reads(a, c) \in Acc
    BY <2>1, <2>2 DEF Acc
  <2> QED BY <1>4, <2>1, <2>3
<1> QED BY <1>1, <1>2, <1>3, <1>4 DEF Char

\* What a recursion on a position keeps.
Staying(n, f, S) == f[0] \in S /\ \A i \in 1..n : f[i - 1] \in S => f[i] \in S

LEMMA Stay ==
  ASSUME NEW n \in Nat, NEW f, NEW S, Staying(n, f, S), f = [i \in 0..n |-> f[i]]
  PROVE  f \in [0..n -> S]
<1> DEFINE T == {i \in 0..n : f[i] \in S}
<1>1. 0 \in T
  BY DEF Staying
<1>2. ASSUME NEW i \in 1..n, i - 1 \in T
      PROVE  i \in T
  BY <1>2 DEF Staying
<1>3. \A i \in 0..n : i \in T
  <2> HIDE DEF T
  <2> QED BY <1>1, <1>2, Induction
<1>4. \A i \in 0..n : f[i] \in S
  BY <1>3
<1> QED BY <1>4

\* The steps of the recursions.
NormaliseStep(s, i, u) ==
  IF s[i] = "lf" /\ i > 1 /\ s[i - 1] = "cr" THEN u
  ELSE Append(u, IF s[i] = "cr" THEN "lf" ELSE s[i])
LinesStep(s, i, u) ==
  IF s[i] = "lf" THEN Append(u, <<>>) ELSE [u EXCEPT ![Len(u)] = Append(@, s[i])]
DataStep(ls, i, u) == IF IsData(ls[i]) THEN Append(u, ls[i]) ELSE u

Reading(a, s) ==
  CHOOSE f : f = [i \in 0..Len(s) |-> IF i = 0 THEN a ELSE Reads(f[i - 1], s[i])]

LEMMA ReadingIs ==
  ASSUME NEW a \in Acc, NEW s \in Seq(Char)
  PROVE  /\ ReadFrom(a, s) = Reading(a, s)[Len(s)]
         /\ Reading(a, s) \in [0..Len(s) -> Acc]
         /\ Reading(a, s)[0] = a
         /\ \A i \in 1..Len(s) : Reading(a, s)[i] = Reads(Reading(a, s)[i - 1], s[i])
<1> DEFINE n == Len(s)
<1> DEFINE F == Reading(a, s)
<1> DEFINE g == [x \in (1..n) \X Acc |-> Reads(x[2], s[x[1]])]
<1> DEFINE Def(f) == [i \in 0..n |-> IF i = 0 THEN a ELSE Reads(f[i - 1], s[i])]
<1>1. n \in Nat /\ (\A i \in 0..n : i = 0 \/ i \in 1..n) /\ a \in Acc
  OBVIOUS
<1>2. \A i \in 1..n, u \in Acc : Reads(u, s[i]) \in Acc
  <2>1. \A i \in 1..n : s[i] \in Char
    OBVIOUS
  <2>2. \A u \in Acc, c \in Char : Reads(u, c) \in Acc
    BY ReadsIs
  <2> QED BY <2>1, <2>2
<1>3. g \in [(1..n) \X Acc -> Acc]
  BY <1>2
<1>4. PICK f \in [0..n -> Acc] : Recursive(n, a, g, f)
  <2> HIDE DEF n, g
  <2> QED BY <1>1, <1>3, Recursion
<1>5. f = Def(f)
  <2>1. \A i \in 1..n : g[<<i, f[i - 1]>>] = Reads(f[i - 1], s[i])
    <3>1. \A i \in 1..n : f[i - 1] \in Acc
      BY <1>1
    <3>2. \A i \in 1..n, u \in Acc : g[<<i, u>>] = Reads(u, s[i])
      OBVIOUS
    <3> HIDE DEF n, g
    <3> QED BY <3>1, <3>2
  <2>2. \A i \in 0..n : f[i] = IF i = 0 THEN a ELSE Reads(f[i - 1], s[i])
    <3> HIDE DEF n, g
    <3> QED BY <1>1, <1>4, <2>1 DEF Recursive
  <2>3. f = [i \in 0..n |-> f[i]]
    OBVIOUS
  <2> QED BY <2>2, <2>3
<1>6. F = Def(F)
  <2>1. \E h : h = Def(h)
    BY <1>5
  <2>2. F = CHOOSE h : h = Def(h)
    BY DEF Reading
  <2> HIDE DEF Def, F
  <2> QED BY <2>1, <2>2, Zenon
<1>7. F[0] = a /\ F = [i \in 0..n |-> F[i]]
  <2> HIDE DEF F
  <2> QED BY <1>1, <1>6
<1>8. \A i \in 1..n : F[i] = Reads(F[i - 1], s[i])
  <2> HIDE DEF F
  <2> QED BY <1>1, <1>6
<1>9. F \in [0..n -> Acc]
  <2>1. Staying(n, F, Acc)
    <3> HIDE DEF F
    <3> QED BY <1>1, <1>2, <1>7, <1>8 DEF Staying
  <2> HIDE DEF n, F
  <2> QED BY <1>1, <1>7, <2>1, Stay
<1>10. ReadFrom(a, s) = F[n]
  BY DEF ReadFrom, Reading
<1> QED BY <1>7, <1>8, <1>9, <1>10

Normalising(s) ==
  CHOOSE f : f = [i \in 0..Len(s) |-> IF i = 0 THEN <<>> ELSE NormaliseStep(s, i, f[i - 1])]

LEMMA NormalisingIs ==
  ASSUME NEW s \in Seq(Char)
  PROVE  /\ Normalise(s) = Normalising(s)[Len(s)]
         /\ Normalising(s) \in [0..Len(s) -> Seq(Char)]
         /\ Normalising(s)[0] = <<>>
         /\ \A i \in 1..Len(s) : Normalising(s)[i] = NormaliseStep(s, i, Normalising(s)[i - 1])
<1> DEFINE n == Len(s)
<1> DEFINE F == Normalising(s)
<1> DEFINE g == [x \in (1..n) \X Seq(Char) |-> NormaliseStep(s, x[1], x[2])]
<1> DEFINE Def(f) == [i \in 0..n |-> IF i = 0 THEN <<>> ELSE NormaliseStep(s, i, f[i - 1])]
<1>1. n \in Nat /\ (\A i \in 0..n : i = 0 \/ i \in 1..n) /\ <<>> \in Seq(Char)
  OBVIOUS
<1>2. \A i \in 1..n, u \in Seq(Char) : NormaliseStep(s, i, u) \in Seq(Char)
  BY DEF NormaliseStep, Char
<1>3. g \in [(1..n) \X Seq(Char) -> Seq(Char)]
  BY <1>2
<1>4. PICK f \in [0..n -> Seq(Char)] : Recursive(n, <<>>, g, f)
  <2> HIDE DEF n, g
  <2> QED BY <1>1, <1>3, Recursion
<1>5. f = Def(f)
  <2>1. \A i \in 1..n : g[<<i, f[i - 1]>>] = NormaliseStep(s, i, f[i - 1])
    <3>1. \A i \in 1..n : f[i - 1] \in Seq(Char)
      BY <1>1
    <3>2. \A i \in 1..n, u \in Seq(Char) : g[<<i, u>>] = NormaliseStep(s, i, u)
      OBVIOUS
    <3> HIDE DEF n, g
    <3> QED BY <3>1, <3>2
  <2>2. \A i \in 0..n : f[i] = IF i = 0 THEN <<>> ELSE NormaliseStep(s, i, f[i - 1])
    <3> HIDE DEF n, g
    <3> QED BY <1>1, <1>4, <2>1 DEF Recursive
  <2>3. f = [i \in 0..n |-> f[i]]
    OBVIOUS
  <2> QED BY <2>2, <2>3
<1>6. F = Def(F)
  <2>1. \E h : h = Def(h)
    BY <1>5
  <2>2. F = CHOOSE h : h = Def(h)
    BY DEF Normalising
  <2> HIDE DEF Def, F
  <2> QED BY <2>1, <2>2, Zenon
<1>7. F[0] = <<>> /\ F = [i \in 0..n |-> F[i]]
  <2> HIDE DEF F
  <2> QED BY <1>1, <1>6
<1>8. \A i \in 1..n : F[i] = NormaliseStep(s, i, F[i - 1])
  <2> HIDE DEF F
  <2> QED BY <1>1, <1>6
<1>9. F \in [0..n -> Seq(Char)]
  <2>1. Staying(n, F, Seq(Char))
    <3> HIDE DEF F
    <3> QED BY <1>1, <1>2, <1>7, <1>8 DEF Staying
  <2> HIDE DEF n, F
  <2> QED BY <1>1, <1>7, <2>1, Stay
<1>10. Normalise(s) = F[n]
  BY DEF Normalise, NormaliseStep, Normalising
<1> QED BY <1>7, <1>8, <1>9, <1>10

\* The lines of a text: one at least.
Blocks == {ls \in Seq(Line) : ls # <<>>}

\* A step of split("\n") leaves at least one line.
LEMMA LinesStepType ==
  ASSUME NEW s \in Seq(Char), NEW i \in 1..Len(s), NEW u \in Blocks
  PROVE  LinesStep(s, i, u) \in Blocks
<1>1. u \in Seq(Line) /\ Len(u) \in 1..Len(u) /\ s[i] \in Char
  BY DEF Blocks
<1>2. u[Len(u)] \in Line /\ <<>> \in Line
  BY <1>1 DEF Line
<1>3. Append(u[Len(u)], s[i]) \in Line
  BY <1>1, <1>2 DEF Line
<1> QED BY <1>1, <1>2, <1>3 DEF LinesStep, Blocks

Cutting(s) ==
  CHOOSE f : f = [i \in 0..Len(s) |-> IF i = 0 THEN << <<>> >> ELSE LinesStep(s, i, f[i - 1])]

LEMMA CuttingIs ==
  ASSUME NEW s \in Seq(Char)
  PROVE  /\ Lines(s) = Cutting(s)[Len(s)]
         /\ Cutting(s) \in [0..Len(s) -> Blocks]
         /\ Cutting(s)[0] = << <<>> >>
         /\ \A i \in 1..Len(s) : Cutting(s)[i] = LinesStep(s, i, Cutting(s)[i - 1])
<1> DEFINE n == Len(s)
<1> DEFINE F == Cutting(s)
<1> DEFINE g == [x \in (1..n) \X Blocks |-> LinesStep(s, x[1], x[2])]
<1> DEFINE Def(f) == [i \in 0..n |-> IF i = 0 THEN << <<>> >> ELSE LinesStep(s, i, f[i - 1])]
<1>1. n \in Nat /\ (\A i \in 0..n : i = 0 \/ i \in 1..n) /\ << <<>> >> \in Blocks
  BY DEF Line, Blocks
<1>2. \A i \in 1..n, u \in Blocks : LinesStep(s, i, u) \in Blocks
  BY LinesStepType
<1>3. g \in [(1..n) \X Blocks -> Blocks]
  BY <1>2
<1>4. PICK f \in [0..n -> Blocks] : Recursive(n, << <<>> >>, g, f)
  <2> HIDE DEF n, g
  <2> QED BY <1>1, <1>3, Recursion
<1>5. f = Def(f)
  <2>1. \A i \in 1..n : g[<<i, f[i - 1]>>] = LinesStep(s, i, f[i - 1])
    <3>1. \A i \in 1..n : f[i - 1] \in Blocks
      BY <1>1
    <3>2. \A i \in 1..n, u \in Blocks : g[<<i, u>>] = LinesStep(s, i, u)
      OBVIOUS
    <3> HIDE DEF n, g
    <3> QED BY <3>1, <3>2
  <2>2. \A i \in 0..n : f[i] = IF i = 0 THEN << <<>> >> ELSE LinesStep(s, i, f[i - 1])
    <3> HIDE DEF n, g
    <3> QED BY <1>1, <1>4, <2>1 DEF Recursive
  <2>3. f = [i \in 0..n |-> f[i]]
    OBVIOUS
  <2> QED BY <2>2, <2>3
<1>6. F = Def(F)
  <2>1. \E h : h = Def(h)
    BY <1>5
  <2>2. F = CHOOSE h : h = Def(h)
    BY DEF Cutting
  <2> HIDE DEF Def, F
  <2> QED BY <2>1, <2>2, Zenon
<1>7. F[0] = << <<>> >> /\ F = [i \in 0..n |-> F[i]]
  <2> HIDE DEF F
  <2> QED BY <1>1, <1>6
<1>8. \A i \in 1..n : F[i] = LinesStep(s, i, F[i - 1])
  <2> HIDE DEF F
  <2> QED BY <1>1, <1>6
<1>9. F \in [0..n -> Blocks]
  <2>1. Staying(n, F, Blocks)
    <3> HIDE DEF F
    <3> QED BY <1>1, <1>2, <1>7, <1>8 DEF Staying
  <2> HIDE DEF n, F
  <2> QED BY <1>1, <1>7, <2>1, Stay
<1>10. Lines(s) = F[n]
  BY DEF Lines, LinesStep, Cutting
<1> QED BY <1>7, <1>8, <1>9, <1>10

Filtering(ls) ==
  CHOOSE f : f = [i \in 0..Len(ls) |-> IF i = 0 THEN <<>> ELSE DataStep(ls, i, f[i - 1])]

LEMMA FilteringIs ==
  ASSUME NEW ls \in Seq(Line)
  PROVE  /\ DataLines(ls) = Filtering(ls)[Len(ls)]
         /\ Filtering(ls) \in [0..Len(ls) -> Seq(Line)]
         /\ Filtering(ls)[0] = <<>>
         /\ \A i \in 1..Len(ls) : Filtering(ls)[i] = DataStep(ls, i, Filtering(ls)[i - 1])
<1> DEFINE n == Len(ls)
<1> DEFINE F == Filtering(ls)
<1> DEFINE g == [x \in (1..n) \X Seq(Line) |-> DataStep(ls, x[1], x[2])]
<1> DEFINE Def(f) == [i \in 0..n |-> IF i = 0 THEN <<>> ELSE DataStep(ls, i, f[i - 1])]
<1>1. n \in Nat /\ (\A i \in 0..n : i = 0 \/ i \in 1..n) /\ <<>> \in Seq(Line)
  OBVIOUS
<1>2. \A i \in 1..n, u \in Seq(Line) : DataStep(ls, i, u) \in Seq(Line)
  BY DEF DataStep
<1>3. g \in [(1..n) \X Seq(Line) -> Seq(Line)]
  BY <1>2
<1>4. PICK f \in [0..n -> Seq(Line)] : Recursive(n, <<>>, g, f)
  <2> HIDE DEF n, g
  <2> QED BY <1>1, <1>3, Recursion
<1>5. f = Def(f)
  <2>1. \A i \in 1..n : g[<<i, f[i - 1]>>] = DataStep(ls, i, f[i - 1])
    <3>1. \A i \in 1..n : f[i - 1] \in Seq(Line)
      BY <1>1
    <3>2. \A i \in 1..n, u \in Seq(Line) : g[<<i, u>>] = DataStep(ls, i, u)
      OBVIOUS
    <3> HIDE DEF n, g
    <3> QED BY <3>1, <3>2
  <2>2. \A i \in 0..n : f[i] = IF i = 0 THEN <<>> ELSE DataStep(ls, i, f[i - 1])
    <3> HIDE DEF n, g
    <3> QED BY <1>1, <1>4, <2>1 DEF Recursive
  <2>3. f = [i \in 0..n |-> f[i]]
    OBVIOUS
  <2> QED BY <2>2, <2>3
<1>6. F = Def(F)
  <2>1. \E h : h = Def(h)
    BY <1>5
  <2>2. F = CHOOSE h : h = Def(h)
    BY DEF Filtering
  <2> HIDE DEF Def, F
  <2> QED BY <2>1, <2>2, Zenon
<1>7. F[0] = <<>> /\ F = [i \in 0..n |-> F[i]]
  <2> HIDE DEF F
  <2> QED BY <1>1, <1>6
<1>8. \A i \in 1..n : F[i] = DataStep(ls, i, F[i - 1])
  <2> HIDE DEF F
  <2> QED BY <1>1, <1>6
<1>9. F \in [0..n -> Seq(Line)]
  <2>1. Staying(n, F, Seq(Line))
    <3> HIDE DEF F
    <3> QED BY <1>1, <1>2, <1>7, <1>8 DEF Staying
  <2> HIDE DEF n, F
  <2> QED BY <1>1, <1>7, <2>1, Stay
<1>10. DataLines(ls) = F[n]
  BY DEF DataLines, DataStep, Filtering
<1> QED BY <1>7, <1>8, <1>9, <1>10

-----------------------------------------------------------------------------
(* The operators on a text with one more character.                        *)

LEMMA ReadFromEmpty == \A a \in Acc : ReadFrom(a, <<>>) = a
<1> SUFFICES ASSUME NEW a \in Acc PROVE ReadFrom(a, <<>>) = a
  OBVIOUS
<1>1. <<>> \in Seq(Char) /\ Len(<<>>) = 0
  OBVIOUS
<1> QED BY <1>1, ReadingIs

LEMMA ReadFromType == \A a \in Acc, s \in Seq(Char) : ReadFrom(a, s) \in Acc
<1> SUFFICES ASSUME NEW a \in Acc, NEW s \in Seq(Char) PROVE ReadFrom(a, s) \in Acc
  OBVIOUS
<1>1. Len(s) \in 0..Len(s)
  OBVIOUS
<1> QED BY <1>1, ReadingIs

\* Reading one character more is one step more.
LEMMA ReadFromAppend ==
  ASSUME NEW a \in Acc, NEW s \in Seq(Char), NEW c \in Char
  PROVE  ReadFrom(a, Append(s, c)) = Reads(ReadFrom(a, s), c)
<1> DEFINE t == Append(s, c)
<1>1. /\ t \in Seq(Char) /\ Len(t) = Len(s) + 1 /\ Len(s) \in Nat
      /\ t[Len(t)] = c /\ \A i \in 1..Len(s) : t[i] = s[i]
  OBVIOUS
<1>2. Agreeing(Len(s), Reading(a, t), Reading(a, s))
  <2> HIDE DEF t
  <2>1. Reading(a, t)[0] = Reading(a, s)[0]
    BY <1>1, ReadingIs
  <2>2. \A i \in 1..Len(s) : /\ Reading(a, t)[i] = Reads(Reading(a, t)[i - 1], s[i])
                             /\ Reading(a, s)[i] = Reads(Reading(a, s)[i - 1], s[i])
    BY <1>1, ReadingIs
  <2> QED BY <2>1, <2>2 DEF Agreeing
<1> HIDE DEF t
<1>3. Reading(a, t)[Len(s)] = ReadFrom(a, s)
  <2>1. Len(s) \in 0..Len(s)
    BY <1>1
  <2>2. Reading(a, t)[Len(s)] = Reading(a, s)[Len(s)]
    BY <1>1, <1>2, <2>1, Agree
  <2> QED BY <2>2, ReadingIs
<1>4. ReadFrom(a, t) = Reads(Reading(a, t)[Len(t) - 1], t[Len(t)])
  BY <1>1, ReadingIs
<1>5. ReadFrom(a, t) = Reads(ReadFrom(a, s), c)
  BY <1>1, <1>3, <1>4
<1> QED BY <1>5 DEF t

\* The reader keeps nothing but its state between two texts.
LEMMA ReadFromConcat ==
  ASSUME NEW a \in Acc, NEW s \in Seq(Char), NEW t \in Seq(Char)
  PROVE  ReadFrom(a, s \o t) = ReadFrom(ReadFrom(a, s), t)
<1> DEFINE b == ReadFrom(a, s)
<1> DEFINE T == {u \in Seq(Char) : ReadFrom(a, s \o u) = ReadFrom(b, u)}
<1>0. b \in Acc
  BY ReadFromType
<1>1. <<>> \in T
  <2>1. s \o <<>> = s /\ <<>> \in Seq(Char)
    OBVIOUS
  <2> HIDE DEF b
  <2>2. ReadFrom(b, <<>>) = b
    BY <1>0, ReadFromEmpty
  <2> QED BY <2>1, <2>2 DEF b
<1>2. ASSUME NEW u \in Seq(Char), NEW c \in Char, u \in T
      PROVE  Append(u, c) \in T
  <2>1. s \o Append(u, c) = Append(s \o u, c) /\ s \o u \in Seq(Char) /\ Append(u, c) \in Seq(Char)
    OBVIOUS
  <2>2. ReadFrom(a, Append(s \o u, c)) = Reads(ReadFrom(a, s \o u), c)
    BY <2>1, ReadFromAppend
  <2> HIDE DEF b
  <2>3. ReadFrom(b, Append(u, c)) = Reads(ReadFrom(b, u), c)
    BY <1>0, ReadFromAppend
  <2> QED BY <1>2, <2>1, <2>2, <2>3
<1>3. \A u \in Seq(Char) : u \in T
  <2> HIDE DEF T
  <2> QED BY <1>1, <1>2, TextInduction
<1> QED BY <1>3

LEMMA DataLinesEmpty == DataLines(<<>>) = <<>>
<1>1. <<>> \in Seq(Line) /\ Len(<<>>) = 0
  OBVIOUS
<1> QED BY <1>1, FilteringIs

LEMMA DataLinesType == \A ls \in Seq(Line) : DataLines(ls) \in Seq(Line)
<1> SUFFICES ASSUME NEW ls \in Seq(Line) PROVE DataLines(ls) \in Seq(Line)
  OBVIOUS
<1>1. Len(ls) \in 0..Len(ls)
  OBVIOUS
<1> QED BY <1>1, FilteringIs

\* One line more is kept exactly if it is data.
LEMMA DataLinesAppend ==
  ASSUME NEW ls \in Seq(Line), NEW l \in Line
  PROVE  DataLines(Append(ls, l)) = IF IsData(l) THEN Append(DataLines(ls), l) ELSE DataLines(ls)
<1> DEFINE t == Append(ls, l)
<1>1. /\ t \in Seq(Line) /\ Len(t) = Len(ls) + 1 /\ Len(ls) \in Nat
      /\ t[Len(t)] = l /\ \A i \in 1..Len(ls) : t[i] = ls[i]
  OBVIOUS
<1>2. Agreeing(Len(ls), Filtering(t), Filtering(ls))
  <2> HIDE DEF t
  <2>1. Filtering(t)[0] = Filtering(ls)[0]
    BY <1>1, FilteringIs
  <2>2. \A i \in 1..Len(ls) : /\ Filtering(t)[i] = DataStep(ls, i, Filtering(t)[i - 1])
                              /\ Filtering(ls)[i] = DataStep(ls, i, Filtering(ls)[i - 1])
    <3>1. \A i \in 1..Len(ls), u \in Seq(Line) : DataStep(t, i, u) = DataStep(ls, i, u)
      BY <1>1 DEF DataStep
    <3>2. \A i \in 1..Len(ls) : i - 1 \in 0..Len(ls) /\ i - 1 \in 0..Len(t) /\ i \in 1..Len(t)
      BY <1>1
    <3>3. \A i \in 1..Len(ls) : Filtering(t)[i - 1] \in Seq(Line)
      BY <1>1, <3>2, FilteringIs
    <3> QED BY <1>1, <3>1, <3>2, <3>3, FilteringIs
  <2> QED BY <2>1, <2>2 DEF Agreeing
<1> HIDE DEF t
<1>3. Filtering(t)[Len(ls)] = DataLines(ls)
  <2>1. Len(ls) \in 0..Len(ls)
    BY <1>1
  <2>2. Filtering(t)[Len(ls)] = Filtering(ls)[Len(ls)]
    BY <1>1, <1>2, <2>1, Agree
  <2> QED BY <2>2, FilteringIs
<1>4. DataLines(t) = DataStep(t, Len(t), Filtering(t)[Len(t) - 1])
  BY <1>1, FilteringIs
<1>5. DataLines(t) = IF IsData(l) THEN Append(DataLines(ls), l) ELSE DataLines(ls)
  BY <1>1, <1>3, <1>4 DEF DataStep
<1> QED BY <1>5 DEF t

LEMMA NormaliseEmpty == Normalise(<<>>) = <<>>
<1>1. <<>> \in Seq(Char) /\ Len(<<>>) = 0
  OBVIOUS
<1> QED BY <1>1, NormalisingIs

LEMMA NormaliseType == \A s \in Seq(Char) : Normalise(s) \in Seq(Char)
<1> SUFFICES ASSUME NEW s \in Seq(Char) PROVE Normalise(s) \in Seq(Char)
  OBVIOUS
<1>1. Len(s) \in 0..Len(s)
  OBVIOUS
<1> QED BY <1>1, NormalisingIs

EndsInCr(s) == s # <<>> /\ s[Len(s)] = "cr"

\* One character more: a "\n" behind a "\r" adds nothing.
LEMMA NormaliseAppend ==
  ASSUME NEW s \in Seq(Char), NEW c \in Char
  PROVE  Normalise(Append(s, c)) =
           IF c = "lf" /\ EndsInCr(s) THEN Normalise(s)
           ELSE Append(Normalise(s), IF c = "cr" THEN "lf" ELSE c)
<1> DEFINE t == Append(s, c)
<1>1. /\ t \in Seq(Char) /\ Len(t) = Len(s) + 1 /\ Len(s) \in Nat
      /\ t[Len(t)] = c /\ \A i \in 1..Len(s) : t[i] = s[i]
  OBVIOUS
<1>2. Agreeing(Len(s), Normalising(t), Normalising(s))
  <2> HIDE DEF t
  <2>1. Normalising(t)[0] = Normalising(s)[0]
    BY <1>1, NormalisingIs
  <2>2. \A i \in 1..Len(s) : /\ Normalising(t)[i] = NormaliseStep(s, i, Normalising(t)[i - 1])
                             /\ Normalising(s)[i] = NormaliseStep(s, i, Normalising(s)[i - 1])
    <3>1. \A i \in 1..Len(s) : i > 1 => i - 1 \in 1..Len(s)
      BY <1>1
    <3>2. \A i \in 1..Len(s) : \A u : NormaliseStep(t, i, u) = NormaliseStep(s, i, u)
      BY <1>1, <3>1 DEF NormaliseStep
    <3>3. \A i \in 1..Len(s) : i \in 1..Len(t)
      BY <1>1
    <3> QED BY <1>1, <3>2, <3>3, NormalisingIs
  <2> QED BY <2>1, <2>2 DEF Agreeing
<1> HIDE DEF t
<1>3. Normalising(t)[Len(s)] = Normalise(s)
  <2>1. Len(s) \in 0..Len(s)
    BY <1>1
  <2>2. Normalising(t)[Len(s)] = Normalising(s)[Len(s)]
    BY <1>1, <1>2, <2>1, Agree
  <2> QED BY <2>2, NormalisingIs
<1>4. Normalise(t) = NormaliseStep(t, Len(t), Normalise(s))
  <2>1. Len(t) - 1 = Len(s) /\ Len(t) \in 1..Len(t)
    BY <1>1
  <2> QED BY <1>1, <1>3, <2>1, NormalisingIs
<1>5. EndsInCr(s) <=> Len(t) > 1 /\ t[Len(t) - 1] = "cr"
  <2>1. s # <<>> <=> Len(t) > 1
    BY <1>1
  <2>2. s # <<>> => t[Len(t) - 1] = s[Len(s)]
    BY <1>1
  <2> QED BY <2>1, <2>2 DEF EndsInCr
<1>6. Normalise(t) = IF c = "lf" /\ EndsInCr(s) THEN Normalise(s)
                     ELSE Append(Normalise(s), IF c = "cr" THEN "lf" ELSE c)
  BY <1>1, <1>4, <1>5 DEF NormaliseStep
<1> QED BY <1>6 DEF t

LEMMA LinesEmpty == Lines(<<>>) = << <<>> >>
<1>1. <<>> \in Seq(Char) /\ Len(<<>>) = 0
  OBVIOUS
<1> QED BY <1>1, CuttingIs

\* One character more begins a line or lengthens the last.
LEMMA LinesAppend ==
  ASSUME NEW s \in Seq(Char), NEW c \in Char
  PROVE  Lines(Append(s, c)) =
           IF c = "lf" THEN Append(Lines(s), <<>>)
           ELSE [Lines(s) EXCEPT ![Len(Lines(s))] = Append(@, c)]
<1> DEFINE t == Append(s, c)
<1>1. /\ t \in Seq(Char) /\ Len(t) = Len(s) + 1 /\ Len(s) \in Nat
      /\ t[Len(t)] = c /\ \A i \in 1..Len(s) : t[i] = s[i]
  OBVIOUS
<1>2. Agreeing(Len(s), Cutting(t), Cutting(s))
  <2> HIDE DEF t
  <2>1. Cutting(t)[0] = Cutting(s)[0]
    BY <1>1, CuttingIs
  <2>2. \A i \in 1..Len(s) : /\ Cutting(t)[i] = LinesStep(s, i, Cutting(t)[i - 1])
                             /\ Cutting(s)[i] = LinesStep(s, i, Cutting(s)[i - 1])
    <3>1. \A i \in 1..Len(s) : \A u : LinesStep(t, i, u) = LinesStep(s, i, u)
      BY <1>1 DEF LinesStep
    <3>2. \A i \in 1..Len(s) : i \in 1..Len(t)
      BY <1>1
    <3> QED BY <1>1, <3>1, <3>2, CuttingIs
  <2> QED BY <2>1, <2>2 DEF Agreeing
<1> HIDE DEF t
<1>3. Cutting(t)[Len(s)] = Lines(s)
  <2>1. Len(s) \in 0..Len(s)
    BY <1>1
  <2>2. Cutting(t)[Len(s)] = Cutting(s)[Len(s)]
    BY <1>1, <1>2, <2>1, Agree
  <2> QED BY <2>2, CuttingIs
<1>4. Lines(t) = LinesStep(t, Len(t), Lines(s))
  <2>1. Len(t) - 1 = Len(s) /\ Len(t) \in 1..Len(t)
    BY <1>1
  <2> QED BY <1>1, <1>3, <2>1, CuttingIs
<1>5. Lines(t) = IF c = "lf" THEN Append(Lines(s), <<>>)
                 ELSE [Lines(s) EXCEPT ![Len(Lines(s))] = Append(@, c)]
  BY <1>1, <1>4 DEF LinesStep
<1> QED BY <1>5 DEF t

-----------------------------------------------------------------------------
(* The reference modulo what the decoder keeps elsewhere                   *)

Plain(a) == [a EXCEPT !.cr = FALSE, !.first = FALSE]

\* The reader between two events, es being out.
Opened(es) == [line |-> <<>>, data |-> <<>>, out |-> es, cr |-> FALSE, first |-> FALSE]

\* No mark to strip and no "\n" to drop at the head of s.
Clean(a, s) == s # <<>> => (a.first => s[1] # "bom") /\ (a.cr => s[1] # "lf")

LEMMA EmptyText ==
  /\ <<>> \in Seq(Char) /\ <<>> \in Line /\ <<>> \in Seq(Line) /\ <<>> \in Seq(Seq(Line))
  /\ << <<>> >> \in Seq(Line)
BY DEF Line

LEMMA PlainIs ==
  ASSUME NEW a \in Acc
  PROVE  /\ Plain(a) \in Acc /\ Plain(a).line = a.line /\ Plain(a).data = a.data
         /\ Plain(a).out = a.out /\ Plain(a).cr = FALSE /\ Plain(a).first = FALSE
BY DEF Plain, Acc

LEMMA OpenedIs ==
  \A es \in Seq(Seq(Line)) : Opened(es) \in Acc
BY EmptyText DEF Opened, Acc

\* Two states of the reader with the same fields are one.
LEMMA AccEqual ==
  ASSUME NEW a \in Acc, NEW b \in Acc, a.line = b.line, a.data = b.data,
         a.out = b.out, a.cr = b.cr, a.first = b.first
  PROVE  a = b
BY DEF Acc

LEMMA FreshIs ==
  Fresh \in Acc /\ Fresh.line = <<>> /\ Fresh.data = <<>> /\ Fresh.out = <<>> /\ Fresh.cr = FALSE /\ Fresh.first = TRUE
BY EmptyText DEF Fresh, Acc

\* The flags have no part in the end of a line.
LEMMA EndLinePlain ==
  ASSUME NEW a \in Acc
  PROVE  EndLine(Plain(a)) = Plain(EndLine(a))
<1> DEFINE p == Plain(a)
<1>1. p \in Acc /\ p.line = a.line /\ p.data = a.data /\ p.out = a.out /\ p.cr = FALSE /\ p.first = FALSE
  BY PlainIs
<1> HIDE DEF p
<1>2. /\ EndLine(a) \in Acc /\ EndLine(p) \in Acc
      /\ EndLine(a).line = <<>> /\ EndLine(p).line = <<>>
      /\ EndLine(p).cr = FALSE /\ EndLine(p).first = FALSE
  BY <1>1, EndLineType
<1>3. EndLine(p).data = EndLine(a).data /\ EndLine(p).out = EndLine(a).out
  BY <1>1, EndLineType
<1>4. EndLine(p) = Plain(EndLine(a))
  <2> DEFINE e == EndLine(a)
  <2> DEFINE f == EndLine(p)
  <2> DEFINE g == Plain(e)
  <2>1. /\ g \in Acc /\ g.line = e.line /\ g.data = e.data /\ g.out = e.out
        /\ g.cr = FALSE /\ g.first = FALSE
    BY <1>2, PlainIs
  <2> HIDE DEF e, f, g
  <2>2. f = g
    BY <1>2, <1>3, <2>1, AccEqual DEF e, f
  <2> QED BY <2>2 DEF e, f, g
<1> QED BY <1>4 DEF p

\* A step of the reader, and the step on the converted character.
LEMMA ReadsPlain ==
  ASSUME NEW a \in Acc, NEW c \in Char, a.first => c # "bom", ~ (c = "lf" /\ a.cr)
  PROVE  /\ Reads(Plain(a), IF c = "cr" THEN "lf" ELSE c) = Plain(Reads(a, c))
         /\ Reads(a, c).cr = (c = "cr") /\ Reads(a, c).first = FALSE
<1> DEFINE p == Plain(a)
<1>1. p \in Acc /\ p.line = a.line /\ p.data = a.data /\ p.out = a.out /\ p.cr = FALSE /\ p.first = FALSE
  BY PlainIs
<1>2. EndLine(p) = Plain(EndLine(a))
  BY EndLinePlain
<1>3. EndLine(a) \in Acc /\ EndLine(p) \in Acc
  BY <1>1, EndLineType
<1> HIDE DEF p
<1>4. CASE c \in {"lf", "cr"}
  <2>1. Reads(a, c) = [EndLine(a) EXCEPT !.cr = (c = "cr"), !.first = FALSE]
    BY <1>4, ReadsIs
  <2>2. Reads(p, "lf") = [EndLine(p) EXCEPT !.cr = FALSE, !.first = FALSE]
    BY <1>1, ReadsIs DEF Char
  <2>3. Reads(p, "lf") = Plain(Reads(a, c))
    BY <1>2, <1>3, <2>1, <2>2 DEF Plain, Acc
  <2>4. Reads(a, c).cr = (c = "cr") /\ Reads(a, c).first = FALSE
    BY <1>3, <2>1 DEF Acc
  <2> QED BY <1>4, <2>3, <2>4 DEF p
<1>5. CASE c \notin {"lf", "cr"}
  <2>1. Reads(a, c) = [a EXCEPT !.line = Append(@, c), !.cr = FALSE, !.first = FALSE]
    BY <1>5, ReadsIs
  <2>2. Reads(p, c) = [p EXCEPT !.line = Append(@, c), !.cr = FALSE, !.first = FALSE]
    BY <1>1, <1>5, ReadsIs
  <2>3. Reads(p, c) = Plain(Reads(a, c))
    BY <2>1, <2>2 DEF Plain, Acc, p
  <2>4. Reads(a, c).cr = (c = "cr") /\ Reads(a, c).first = FALSE
    BY <1>5, <2>1 DEF Acc
  <2> QED BY <1>5, <2>3, <2>4 DEF p
<1> QED BY <1>4, <1>5

Converts(a, s) ==
  /\ ReadFrom(Plain(a), Normalise(s)) = Plain(ReadFrom(a, s))
  /\ s # <<>> => ReadFrom(a, s).cr = EndsInCr(s) /\ ReadFrom(a, s).first = FALSE

\* Converting the ends of line first changes nothing but the two flags.
LEMMA ReadsNormalised ==
  ASSUME NEW a \in Acc
  PROVE  \A s \in Seq(Char) : Clean(a, s) => Converts(a, s)
<1> DEFINE T == {s \in Seq(Char) : Clean(a, s) => Converts(a, s)}
<1>1. <<>> \in T
  BY EmptyText, NormaliseEmpty, ReadFromEmpty, PlainIs DEF Converts
<1>2. ASSUME NEW s \in Seq(Char), NEW c \in Char, s \in T
      PROVE  Append(s, c) \in T
  <2> DEFINE t == Append(s, c)
  <2> DEFINE x == ReadFrom(a, s)
  <2>1. /\ t \in Seq(Char) /\ t # <<>> /\ t[Len(t)] = c
        /\ s # <<>> => t[1] = s[1]
        /\ s = <<>> => t[1] = c
    OBVIOUS
  <2>2. ReadFrom(a, t) = Reads(x, c) /\ x \in Acc
    BY ReadFromAppend, ReadFromType
  <2>3. Normalise(t) = IF c = "lf" /\ EndsInCr(s) THEN Normalise(s)
                       ELSE Append(Normalise(s), IF c = "cr" THEN "lf" ELSE c)
    BY NormaliseAppend
  <2>4. EndsInCr(t) = (c = "cr")
    <3> HIDE DEF t
    <3> QED BY <2>1 DEF EndsInCr
  <2> HIDE DEF t
  <2>5. SUFFICES ASSUME Clean(a, t) PROVE Converts(a, t)
    BY <2>1 DEF t
  <2>6. Clean(a, s)
    BY <2>1, <2>5 DEF Clean
  <2>7. Converts(a, s)
    BY <1>2, <2>6
  <2>8. ReadFrom(Plain(a), Normalise(s)) = Plain(x)
    BY <2>7 DEF Converts
  <2>9. s = <<>> => x = a
    BY ReadFromEmpty
  <2>10. s # <<>> => x.cr = EndsInCr(s) /\ x.first = FALSE
    BY <2>7 DEF Converts
  <2> HIDE DEF x
  <2>11. x.first => c # "bom"
    BY <2>1, <2>5, <2>9, <2>10 DEF Clean
  <2>12. c = "lf" /\ x.cr <=> c = "lf" /\ EndsInCr(s)
    <3>1. CASE s = <<>>
      BY <2>1, <2>5, <2>9, <3>1 DEF Clean, EndsInCr
    <3>2. CASE s # <<>>
      BY <2>10, <3>2
    <3> QED BY <3>1, <3>2
  <2>13. CASE c = "lf" /\ EndsInCr(s)
    <3>1. Reads(x, c) = [x EXCEPT !.cr = FALSE]
      BY <2>2, <2>12, <2>13, ReadsIs
    <3>2. Plain(Reads(x, c)) = Plain(x) /\ Reads(x, c).cr = FALSE /\ Reads(x, c).first = x.first
      BY <2>2, <3>1 DEF Plain, Acc
    <3>3. x.first = FALSE
      BY <2>10, <2>13 DEF EndsInCr
    <3> QED BY <2>2, <2>3, <2>4, <2>8, <2>13, <3>2, <3>3 DEF Converts
  <2>14. CASE ~ (c = "lf" /\ EndsInCr(s))
    <3> DEFINE d == IF c = "cr" THEN "lf" ELSE c
    <3>1. /\ Reads(Plain(x), d) = Plain(Reads(x, c))
          /\ Reads(x, c).cr = (c = "cr") /\ Reads(x, c).first = FALSE
      BY <2>2, <2>11, <2>12, <2>14, ReadsPlain
    <3>2. d \in Char /\ Normalise(s) \in Seq(Char) /\ Plain(a) \in Acc
      BY NormaliseType, PlainIs DEF Char
    <3>3. Normalise(t) = Append(Normalise(s), d)
      BY <2>3, <2>14
    <3> HIDE DEF d
    <3>4. ReadFrom(Plain(a), Normalise(t)) = Reads(Plain(x), d)
      BY <2>8, <3>2, <3>3, ReadFromAppend
    <3> QED BY <2>2, <2>4, <3>1, <3>4 DEF Converts
  <2> QED BY <2>13, <2>14
<1>3. \A s \in Seq(Char) : s \in T
  <2> HIDE DEF T
  <2> QED BY <1>1, <1>2, TextInduction
<1> QED BY <1>3

-----------------------------------------------------------------------------
(* The text a block is cut from                                            *)

NoCr(s) == \A i \in 1..Len(s) : s[i] # "cr"

LEMMA NoCrAppend ==
  ASSUME NEW s \in Seq(Char), NEW c \in Char
  PROVE  NoCr(Append(s, c)) <=> NoCr(s) /\ c # "cr"
<1> DEFINE t == Append(s, c)
<1>1. /\ Len(t) = Len(s) + 1 /\ Len(s) \in Nat /\ t[Len(s) + 1] = c
      /\ \A i \in 1..Len(s) : t[i] = s[i]
  OBVIOUS
<1> HIDE DEF t
<1>2. NoCr(t) <=> NoCr(s) /\ c # "cr"
  BY <1>1 DEF NoCr
<1> QED BY <1>2 DEF t

\* A converted text has no "\r".
LEMMA NormaliseNoCr == \A s \in Seq(Char) : NoCr(Normalise(s))
<1> DEFINE T == {s \in Seq(Char) : NoCr(Normalise(s))}
<1>1. <<>> \in T
  BY EmptyText, NormaliseEmpty DEF NoCr
<1>2. ASSUME NEW s \in Seq(Char), NEW c \in Char, s \in T
      PROVE  Append(s, c) \in T
  <2>1. Append(s, c) \in Seq(Char) /\ Normalise(s) \in Seq(Char)
    BY NormaliseType
  <2>2. (IF c = "cr" THEN "lf" ELSE c) \in Char \ {"cr"}
    BY DEF Char
  <2>3. NoCr(Append(Normalise(s), IF c = "cr" THEN "lf" ELSE c))
    BY <1>2, <2>1, <2>2, NoCrAppend
  <2>4. NoCr(Normalise(Append(s, c)))
    BY <1>2, <2>3, NormaliseAppend
  <2> QED BY <2>1, <2>4
<1>3. \A s \in Seq(Char) : s \in T
  <2> HIDE DEF T
  <2> QED BY <1>1, <1>2, TextInduction
<1> QED BY <1>3

Marks(s) == \A i \in 1..Len(s) : s[i] = "bom"

\* Byte order marks at the start leave the reader as it was.
LEMMA MarksAreSkipped ==
  \A s \in Seq(Char) : Marks(s) => ReadFrom(Fresh, s) = Fresh
<1> DEFINE T == {s \in Seq(Char) : Marks(s) => ReadFrom(Fresh, s) = Fresh}
<1>1. <<>> \in T
  BY EmptyText, FreshIs, ReadFromEmpty
<1>2. ASSUME NEW s \in Seq(Char), NEW c \in Char, s \in T
      PROVE  Append(s, c) \in T
  <2> DEFINE t == Append(s, c)
  <2>1. /\ t \in Seq(Char) /\ Len(t) = Len(s) + 1 /\ Len(s) \in Nat /\ t[Len(s) + 1] = c
        /\ \A i \in 1..Len(s) : t[i] = s[i]
    OBVIOUS
  <2>2. ReadFrom(Fresh, t) = Reads(ReadFrom(Fresh, s), c)
    BY FreshIs, ReadFromAppend
  <2> HIDE DEF t
  <2>3. Marks(t) => Marks(s) /\ c = "bom"
    BY <2>1 DEF Marks
  <2>4. c = "bom" => Reads(Fresh, c) = Fresh
    BY FreshIs DEF Reads
  <2>5. Marks(t) => ReadFrom(Fresh, t) = Fresh
    BY <1>2, <2>2, <2>3, <2>4
  <2> QED BY <2>1, <2>5 DEF t
<1>3. \A s \in Seq(Char) : s \in T
  <2> HIDE DEF T
  <2> QED BY <1>1, <1>2, TextInduction
<1> QED BY <1>3

LEMMA SubText ==
  \A s \in Seq(Char) : \A m \in 1..Len(s) + 1, n \in 0..Len(s) :
    m <= n + 1 =>
      /\ SubSeq(s, m, n) \in Seq(Char) /\ Len(SubSeq(s, m, n)) = n - m + 1
      /\ \A i \in 1..n - m + 1 : SubSeq(s, m, n)[i] = s[m + i - 1]
OBVIOUS

LEMMA JoinText ==
  ASSUME NEW s \in Seq(Char), NEW t \in Seq(Char)
  PROVE  /\ s \o t \in Seq(Char) /\ Len(s \o t) = Len(s) + Len(t)
         /\ \A i \in 1..Len(s) : (s \o t)[i] = s[i]
         /\ \A i \in 1..Len(t) : (s \o t)[Len(s) + i] = t[i]
OBVIOUS

\* A text is its first n characters and the rest.
LEMMA SplitText ==
  ASSUME NEW s \in Seq(Char), NEW n \in 0..Len(s)
  PROVE  s = SubSeq(s, 1, n) \o SubSeq(s, n + 1, Len(s))
<1> DEFINE a == SubSeq(s, 1, n)
<1> DEFINE b == SubSeq(s, n + 1, Len(s))
<1>1. Len(s) \in Nat /\ n \in 0..Len(s)
  OBVIOUS
<1>2. /\ a \in Seq(Char) /\ Len(a) = n
      /\ \A i \in 1..n : a[i] = s[i]
  <2>1. 1 \in 1..Len(s) + 1 /\ 1 <= n + 1 /\ n - 1 + 1 = n /\ \A i \in 1..n : 1 + i - 1 = i
    BY <1>1
  <2> QED BY <1>1, <2>1, SubText
<1>3. /\ b \in Seq(Char) /\ Len(b) = Len(s) - n
      /\ \A i \in 1..Len(s) - n : b[i] = s[n + i]
  <2>1. n + 1 \in 1..Len(s) + 1 /\ Len(s) \in 0..Len(s) /\ n + 1 <= Len(s) + 1
    BY <1>1
  <2>2. Len(s) - (n + 1) + 1 = Len(s) - n /\ \A i \in 1..Len(s) - n : n + 1 + i - 1 = n + i
    BY <1>1
  <2>3. /\ SubSeq(s, n + 1, Len(s)) \in Seq(Char)
        /\ Len(SubSeq(s, n + 1, Len(s))) = Len(s) - (n + 1) + 1
        /\ \A i \in 1..Len(s) - (n + 1) + 1 : SubSeq(s, n + 1, Len(s))[i] = s[n + 1 + i - 1]
    BY <2>1, SubText, Zenon
  <2> QED BY <2>2, <2>3
<1> HIDE DEF a, b
<1>4. /\ a \o b \in Seq(Char) /\ Len(a \o b) = Len(s)
      /\ \A i \in 1..n : (a \o b)[i] = s[i]
      /\ \A i \in 1..Len(s) - n : (a \o b)[n + i] = s[n + i]
  BY <1>1, <1>2, <1>3, JoinText
<1>5. ASSUME NEW i \in 1..Len(s)
      PROVE  (a \o b)[i] = s[i]
  <2>1. CASE i <= n
    BY <1>1, <1>4, <2>1
  <2>2. CASE i > n
    <3>1. i - n \in 1..Len(s) - n /\ n + (i - n) = i
      BY <1>1, <2>2
    <3> QED BY <1>4, <3>1
  <2>3. i <= n \/ i > n
    BY <1>1
  <2> QED BY <2>1, <2>2, <2>3, Zenon
<1>6. s = a \o b
  BY <1>4, <1>5, TextEqual
<1> QED BY <1>6 DEF a, b

\* What is cut off the end leaves the rest.
LEMMA CutText ==
  ASSUME NEW s \in Seq(Char), NEW t \in Seq(Char)
  PROVE  SubSeq(s \o t, 1, Len(s \o t) - Len(t)) = s
<1> DEFINE w == s \o t
<1>1. /\ w \in Seq(Char) /\ Len(w) = Len(s) + Len(t) /\ Len(s) \in Nat /\ Len(t) \in Nat
      /\ \A i \in 1..Len(s) : w[i] = s[i]
  BY JoinText
<1> HIDE DEF w
<1>2. Len(w) - Len(t) = Len(s) /\ Len(s) \in 0..Len(w) /\ 1 \in 1..Len(w) + 1
  BY <1>1
<1>3. /\ SubSeq(w, 1, Len(s)) \in Seq(Char) /\ Len(SubSeq(w, 1, Len(s))) = Len(s)
      /\ \A i \in 1..Len(s) : SubSeq(w, 1, Len(s))[i] = w[i]
  BY <1>1, <1>2
<1>4. SubSeq(w, 1, Len(s)) = s
  BY <1>1, <1>3, TextEqual
<1> QED BY <1>2, <1>4 DEF w

\* lstrip takes marks off the head, and leaves none there.
LEMMA StripBomIs ==
  ASSUME NEW s \in Seq(Char)
  PROVE  /\ StripBom(s) \in Seq(Char)
         /\ \E pre \in Seq(Char) : Marks(pre) /\ s = pre \o StripBom(s)
         /\ StripBom(s) # <<>> => StripBom(s)[1] # "bom"
<1> DEFINE rest == {i \in DOMAIN s : s[i] # "bom"}
<1>0. DOMAIN s = 1..Len(s) /\ Len(s) \in Nat
  OBVIOUS
<1>1. CASE rest = {}
  <2>1. StripBom(s) = <<>>
    BY <1>1 DEF StripBom
  <2>2. Marks(s)
    BY <1>0, <1>1 DEF Marks
  <2>3. s = s \o <<>>
    OBVIOUS
  <2> QED BY <2>1, <2>2, <2>3, EmptyText
<1>2. CASE rest # {}
  <2> DEFINE k == CHOOSE i \in rest : \A j \in rest : i <= j
  <2>1. rest \in SUBSET Nat
    BY <1>0
  <2>2. k \in rest /\ \A j \in rest : k <= j
    <3>1. \E i \in rest : \A j \in rest : i <= j
      <4> HIDE DEF rest
      <4> QED BY <1>2, <2>1, LeastOf
    <3> HIDE DEF rest
    <3> QED BY <3>1
  <2>3. StripBom(s) = SubSeq(s, k, Len(s))
    BY <1>2 DEF StripBom
  <2>4. k \in 1..Len(s) /\ s[k] # "bom"
    <3> HIDE DEF k
    <3> QED BY <1>0, <2>2
  <2>5. \A j \in 1..Len(s) : j < k => s[j] = "bom"
    <3> HIDE DEF k
    <3> QED BY <1>0, <2>2, <2>4
  <2> HIDE DEF k, rest
  <2>6. k - 1 \in 0..Len(s) /\ (k - 1) + 1 = k
    BY <1>0, <2>4
  <2>7. s = SubSeq(s, 1, k - 1) \o SubSeq(s, k, Len(s))
    BY <2>6, SplitText
  <2>8. /\ SubSeq(s, 1, k - 1) \in Seq(Char) /\ Len(SubSeq(s, 1, k - 1)) = k - 1
        /\ \A i \in 1..k - 1 : SubSeq(s, 1, k - 1)[i] = s[i]
    BY <1>0, <2>4
  <2>9. Marks(SubSeq(s, 1, k - 1))
    BY <1>0, <2>4, <2>5, <2>8 DEF Marks
  <2>10. SubSeq(s, k, Len(s)) \in Seq(Char) /\ SubSeq(s, k, Len(s))[1] = s[k]
    <3>1. k \in 1..Len(s) + 1 /\ Len(s) \in 0..Len(s) /\ k <= Len(s) + 1 /\ 1 \in 1..Len(s) - k + 1 /\ k + 1 - 1 = k
      BY <1>0, <2>4
    <3> QED BY <3>1, SubText
  <2> QED BY <2>3, <2>4, <2>7, <2>8, <2>9, <2>10
<1> QED BY <1>1, <1>2

-----------------------------------------------------------------------------
(* The lines of a block, and the reader that has read it                   *)

\* u are the lines of raw that have ended, l the one that has not.
LastLine(raw, u, l) ==
  /\ u \in Seq(Line) /\ l \in Line /\ Lines(raw) = Append(u, l)
  /\ l = <<>> => (raw = <<>> \/ raw[Len(raw)] = "lf")
  /\ raw = <<>> => u = <<>>

InBlock(es, u, l) ==
  [line |-> l, data |-> DataLines(u), out |-> es, cr |-> FALSE, first |-> FALSE]

LEMMA AppendedText ==
  ASSUME NEW s \in Seq(Char), NEW c \in Char
  PROVE  /\ Append(s, c) \in Seq(Char) /\ Append(s, c) # <<>>
         /\ Len(Append(s, c)) = Len(s) + 1 /\ Len(s) \in Nat
         /\ Append(s, c)[Len(Append(s, c))] = c
         /\ \A i \in 1..Len(s) : Append(s, c)[i] = s[i]
<1>1. /\ Append(s, c) \in Seq(Char)
      /\ Len(Append(s, c)) = Len(s) + 1 /\ Len(s) \in Nat
      /\ Append(s, c)[Len(s) + 1] = c
      /\ \A i \in 1..Len(s) : Append(s, c)[i] = s[i]
  OBVIOUS
<1>2. Append(s, c) # <<>>
  BY <1>1
<1> QED BY <1>1, <1>2

LEMMA LinesEqual ==
  \A s, t \in Seq(Line) : Len(s) = Len(t) /\ (\A i \in 1..Len(s) : s[i] = t[i]) => s = t
BY SeqEqual

\* The block without a blank line: nothing has been put out.
LEMMA BlockIs ==
  ASSUME NEW es \in Seq(Seq(Line))
  PROVE  \A raw \in Seq(Char) : NoCr(raw) /\ Blank(raw) = {} =>
           \E u, l : LastLine(raw, u, l) /\ ReadFrom(Opened(es), raw) = InBlock(es, u, l)
<1> DEFINE Found(raw) == \E u, l : LastLine(raw, u, l) /\ ReadFrom(Opened(es), raw) = InBlock(es, u, l)
<1> DEFINE T == {raw \in Seq(Char) : NoCr(raw) /\ Blank(raw) = {} => Found(raw)}
<1>1. <<>> \in T
  <2>1. LastLine(<<>>, <<>>, <<>>)
    <3>1. << <<>> >> = Append(<<>>, <<>>)
      OBVIOUS
    <3> QED BY <3>1, EmptyText, LinesEmpty DEF LastLine
  <2>2. ReadFrom(Opened(es), <<>>) = Opened(es)
    BY OpenedIs, ReadFromEmpty
  <2>3. Opened(es) = InBlock(es, <<>>, <<>>)
    BY DataLinesEmpty DEF Opened, InBlock
  <2> QED BY <2>1, <2>2, <2>3, EmptyText
<1>2. ASSUME NEW raw \in Seq(Char), NEW c \in Char, raw \in T
      PROVE  Append(raw, c) \in T
  <2> DEFINE t == Append(raw, c)
  <2>1. /\ t \in Seq(Char) /\ t # <<>> /\ Len(t) = Len(raw) + 1 /\ Len(raw) \in Nat
        /\ t[Len(t)] = c /\ \A i \in 1..Len(raw) : t[i] = raw[i]
    BY AppendedText
  <2>2. ReadFrom(Opened(es), t) = Reads(ReadFrom(Opened(es), raw), c)
    BY OpenedIs, ReadFromAppend
  <2>3. Lines(t) = IF c = "lf" THEN Append(Lines(raw), <<>>)
                   ELSE [Lines(raw) EXCEPT ![Len(Lines(raw))] = Append(@, c)]
    BY LinesAppend
  <2>4. NoCr(t) => NoCr(raw) /\ c # "cr"
    BY NoCrAppend
  <2> HIDE DEF t
  <2>5. Blank(t) = {} => /\ Blank(raw) = {}
                         /\ c = "lf" /\ raw # <<>> => raw[Len(raw)] # "lf"
    <3>1. \A i \in Blank(raw) : i \in Blank(t)
      BY <2>1 DEF Blank
    <3>2. c = "lf" /\ raw # <<>> /\ raw[Len(raw)] = "lf" => Len(raw) \in Blank(t)
      <4>1. raw # <<>> => Len(raw) \in 1..Len(raw)
        BY <2>1
      <4> QED BY <2>1, <4>1 DEF Blank
    <3> QED BY <3>1, <3>2
  <2>6. ASSUME NoCr(t), Blank(t) = {}
        PROVE  Found(t)
    <3>1. PICK u, l : LastLine(raw, u, l) /\ ReadFrom(Opened(es), raw) = InBlock(es, u, l)
      BY <1>2, <2>4, <2>5, <2>6
    <3> DEFINE x == InBlock(es, u, l)
    <3>2. u \in Seq(Line) /\ l \in Line /\ Lines(raw) = Append(u, l) /\ DataLines(u) \in Seq(Line)
      BY <3>1, DataLinesType DEF LastLine
    <3>3. /\ x \in Acc /\ x.line = l /\ x.data = DataLines(u) /\ x.out = es
          /\ x.cr = FALSE /\ x.first = FALSE
      BY <3>2 DEF InBlock, Acc
    <3>4. ReadFrom(Opened(es), t) = Reads(x, c)
      BY <2>2, <3>1
    <3> HIDE DEF x
    <3>5. CASE c = "lf"
      <4>1. l = <<>> => raw = <<>> /\ u = <<>>
        BY <2>5, <2>6, <3>1, <3>5 DEF LastLine
      <4> DEFINE v == Append(u, l)
      <4>2. v \in Seq(Line) /\ DataLines(v) \in Seq(Line)
            /\ DataLines(v) = IF IsData(l) THEN Append(DataLines(u), l) ELSE DataLines(u)
        <5>1. DataLines(v) = IF IsData(l) THEN Append(DataLines(u), l) ELSE DataLines(u)
          BY <3>2, DataLinesAppend
        <5>2. v \in Seq(Line)
          BY <3>2, AppendType
        <5> HIDE DEF v
        <5> QED BY <5>1, <5>2, DataLinesType
      <4>3. LastLine(t, v, <<>>)
        BY <2>1, <2>3, <3>2, <3>5, <4>2, EmptyText DEF LastLine
      <4> HIDE DEF v
      <4>4. Reads(x, c) = [EndLine(x) EXCEPT !.cr = FALSE, !.first = FALSE]
        BY <3>3, <3>5 DEF Reads
      <4>5. /\ EndLine(x) \in Acc /\ EndLine(x).line = <<>> /\ EndLine(x).cr = FALSE
            /\ EndLine(x).first = FALSE
        BY <3>3, EndLineType
      <4>6. EndLine(x).data = DataLines(v) /\ EndLine(x).out = es
        <5>1. CASE l = <<>>
          <6>1. DataLines(u) = <<>>
            BY <4>1, <5>1, DataLinesEmpty
          <6>2. DataLines(v) = <<>>
            BY <4>2, <5>1, <6>1 DEF IsData
          <6> QED BY <3>3, <5>1, <6>1, <6>2, EndLineType
        <5>2. CASE l # <<>>
          BY <3>3, <4>2, <5>2, EndLineType DEF IsData
        <5> QED BY <5>1, <5>2
      <4>7. Reads(x, c) = InBlock(es, v, <<>>)
        BY <4>4, <4>5, <4>6 DEF InBlock, Acc
      <4> QED BY <3>4, <4>3, <4>7
    <3>6. CASE c # "lf"
      <4> DEFINE m == Append(l, c)
      <4>1. m \in Line /\ m # <<>>
        <5>1. l \in Seq(Char)
          BY <3>2 DEF Line
        <5> QED BY <5>1, AppendedText DEF Line
      <4>2. [Append(u, l) EXCEPT ![Len(Append(u, l))] = Append(@, c)] = Append(u, m)
        <5> HIDE DEF m
        <5> DEFINE v == Append(u, l)
        <5> DEFINE w == [v EXCEPT ![Len(v)] = m]
        <5>1. /\ v \in Seq(Line) /\ Len(v) = Len(u) + 1 /\ v[Len(u) + 1] = l /\ Len(u) \in Nat
              /\ \A i \in 1..Len(u) : v[i] = u[i]
          BY <3>2
        <5>2. /\ Append(u, m) \in Seq(Line) /\ Len(Append(u, m)) = Len(u) + 1
              /\ Append(u, m)[Len(u) + 1] = m /\ \A i \in 1..Len(u) : Append(u, m)[i] = u[i]
          BY <3>2, <4>1
        <5>3. [Append(u, l) EXCEPT ![Len(Append(u, l))] = Append(@, c)] = w
          BY <5>1 DEF m
        <5> HIDE DEF v
        <5>4. /\ w \in Seq(Line) /\ Len(w) = Len(u) + 1
              /\ w[Len(u) + 1] = m /\ \A i \in 1..Len(u) : w[i] = u[i]
          BY <4>1, <5>1
        <5> HIDE DEF w
        <5>5. \A i \in 1..Len(u) + 1 : w[i] = Append(u, m)[i]
          <6>1. \A i \in 1..Len(u) + 1 : i \in 1..Len(u) \/ i = Len(u) + 1
            BY <5>1
          <6> QED BY <5>2, <5>4, <6>1
        <5>6. w = Append(u, m)
          BY <5>2, <5>4, <5>5, LinesEqual
        <5> QED BY <5>3, <5>6
      <4>3. LastLine(t, u, m)
        <5> HIDE DEF m
        <5> QED BY <2>1, <2>3, <3>2, <3>6, <4>1, <4>2 DEF LastLine
      <4>4. Reads(x, c) = [x EXCEPT !.line = Append(@, c), !.cr = FALSE, !.first = FALSE]
        BY <2>4, <2>6, <3>3, <3>6 DEF Reads
      <4>5. Reads(x, c) = InBlock(es, u, m)
        BY <3>3, <4>4 DEF InBlock, Acc
      <4> HIDE DEF m
      <4> QED BY <3>4, <4>3, <4>5
    <3> QED BY <3>5, <3>6
  <2> HIDE DEF Found
  <2>7. t \in T
    BY <2>1, <2>6
  <2> QED BY <2>7 DEF t
<1>3. \A raw \in Seq(Char) : raw \in T
  <2> HIDE DEF T
  <2> QED BY <1>1, <1>2, TextInduction
<1> QED BY <1>3

\* Two ends of line yield the event of the block, if it has one.
LEMMA ClosingIs ==
  ASSUME NEW es \in Seq(Seq(Line)), NEW raw, NEW u, NEW l, LastLine(raw, u, l),
         NEW a \in Acc, Plain(a) = InBlock(es, u, l)
  PROVE  /\ EndLine(EndLine(a)) \in Acc
         /\ EndLine(EndLine(a)).line = <<>> /\ EndLine(EndLine(a)).data = <<>>
         /\ EndLine(EndLine(a)).out = Yield(es, raw)
<1> DEFINE b == EndLine(a)
<1>1. /\ u \in Seq(Line) /\ l \in Line /\ ParseBlock(raw) = DataLines(Append(u, l))
      /\ DataLines(u) \in Seq(Line)
  BY DataLinesType DEF LastLine, ParseBlock
<1>2. ParseBlock(raw) = IF IsData(l) THEN Append(DataLines(u), l) ELSE DataLines(u)
  BY <1>1, DataLinesAppend
<1>3. a.line = l /\ a.data = DataLines(u) /\ a.out = es
  <2>1. Plain(a).line = a.line /\ Plain(a).data = a.data /\ Plain(a).out = a.out
    BY PlainIs
  <2> QED BY <2>1 DEF InBlock
<1>4. b \in Acc /\ b.line = <<>>
  BY EndLineType
<1>5. CASE l = <<>>
  <2>1. b.data = <<>> /\ b.out = Yield(es, raw)
    BY <1>2, <1>3, <1>5, EndLineType DEF IsData, Yield
  <2> HIDE DEF b
  <2>2. EndLine(b) \in Acc /\ EndLine(b).line = <<>> /\ EndLine(b).data = <<>>
        /\ EndLine(b).out = b.out
    BY <1>4, <2>1, EndLineType
  <2> QED BY <2>1, <2>2 DEF b
<1>6. CASE l # <<>>
  <2>1. b.data = ParseBlock(raw) /\ b.out = es
    BY <1>2, <1>3, <1>6, EndLineType DEF IsData
  <2> HIDE DEF b
  <2>2. EndLine(b) \in Acc /\ EndLine(b).line = <<>> /\ EndLine(b).data = <<>>
        /\ EndLine(b).out = Yield(es, raw)
    BY <1>4, <2>1, EndLineType DEF Yield
  <2> QED BY <2>2 DEF b
<1> QED BY <1>5, <1>6

\* A turn of the loop of feed: the reader has read one block more.
LEMMA SplitIs ==
  ASSUME NEW es \in Seq(Seq(Line)), NEW raw \in Seq(Char), NoCr(raw), NEW i \in Blank(raw),
         \A j \in Blank(raw) : i <= j
  PROVE  /\ SubSeq(raw, 1, i - 1) \in Seq(Char) /\ SubSeq(raw, i + 2, Len(raw)) \in Seq(Char)
         /\ Len(SubSeq(raw, i + 2, Len(raw))) <= Len(raw)
         /\ NoCr(SubSeq(raw, i + 2, Len(raw)))
         /\ Yield(es, SubSeq(raw, 1, i - 1)) \in Seq(Seq(Line))
         /\ ReadFrom(Opened(es), raw) =
              ReadFrom(Opened(Yield(es, SubSeq(raw, 1, i - 1))), SubSeq(raw, i + 2, Len(raw)))
<1> DEFINE block == SubSeq(raw, 1, i - 1)
<1> DEFINE rest  == SubSeq(raw, i + 2, Len(raw))
<1> DEFINE two   == SubSeq(raw, 1, i + 1)
<1> DEFINE next  == Yield(es, block)
<1>1. Len(raw) \in Nat /\ i \in 1..Len(raw) - 1 /\ raw[i] = "lf" /\ raw[i + 1] = "lf"
  BY DEF Blank
<1>2. /\ block \in Seq(Char) /\ Len(block) = i - 1 /\ \A j \in 1..i - 1 : block[j] = raw[j]
  <2>1. 1 \in 1..Len(raw) + 1 /\ i - 1 \in 0..Len(raw) /\ 1 <= i - 1 + 1 /\ i - 1 - 1 + 1 = i - 1
        /\ \A j \in 1..i - 1 : 1 + j - 1 = j
    BY <1>1
  <2>2. /\ block \in Seq(Char) /\ Len(block) = i - 1 - 1 + 1
        /\ \A j \in 1..i - 1 - 1 + 1 : block[j] = raw[1 + j - 1]
    BY <2>1, SubText, Zenon
  <2> QED BY <2>1, <2>2
<1>3. /\ rest \in Seq(Char) /\ Len(rest) = Len(raw) - (i + 1)
      /\ \A j \in 1..Len(raw) - (i + 1) : rest[j] = raw[i + 1 + j]
  <2>1. i + 2 \in 1..Len(raw) + 1 /\ Len(raw) \in 0..Len(raw) /\ i + 2 <= Len(raw) + 1
        /\ Len(raw) - (i + 2) + 1 = Len(raw) - (i + 1)
        /\ \A j \in 1..Len(raw) - (i + 1) : i + 2 + j - 1 = i + 1 + j
    BY <1>1
  <2>2. /\ rest \in Seq(Char) /\ Len(rest) = Len(raw) - (i + 2) + 1
        /\ \A j \in 1..Len(raw) - (i + 2) + 1 : rest[j] = raw[i + 2 + j - 1]
    BY <2>1, SubText, Zenon
  <2> QED BY <2>1, <2>2
<1>4. raw = two \o rest
  <2>1. i + 1 \in 0..Len(raw) /\ i + 1 + 1 = i + 2
    BY <1>1
  <2>2. raw = SubSeq(raw, 1, i + 1) \o SubSeq(raw, i + 1 + 1, Len(raw))
    BY <2>1, SplitText
  <2> QED BY <2>1, <2>2
<1>5. two = Append(Append(block, "lf"), "lf")
  <2> HIDE DEF block
  <2>1. /\ Append(block, "lf") \in Seq(Char) /\ Len(Append(block, "lf")) = i
        /\ Append(block, "lf")[i] = "lf" /\ \A j \in 1..i - 1 : Append(block, "lf")[j] = block[j]
    <3>1. "lf" \in Char /\ i - 1 + 1 = i
      BY <1>1 DEF Char
    <3> QED BY <1>1, <1>2, <3>1, AppendedText
  <2> DEFINE b == Append(block, "lf")
  <2> HIDE DEF b
  <2>2. /\ Append(b, "lf") \in Seq(Char) /\ Len(Append(b, "lf")) = i + 1
        /\ Append(b, "lf")[i + 1] = "lf" /\ \A j \in 1..i : Append(b, "lf")[j] = b[j]
    <3>1. "lf" \in Char /\ b \in Seq(Char) /\ Len(b) = i
      BY <2>1 DEF Char, b
    <3> QED BY <1>1, <3>1, AppendedText
  <2>3. /\ two \in Seq(Char) /\ Len(two) = i + 1 /\ \A j \in 1..i + 1 : two[j] = raw[j]
    <3> DEFINE k == i + 1
    <3>1. 1 \in 1..Len(raw) + 1 /\ k \in 0..Len(raw) /\ 1 <= k + 1 /\ k - 1 + 1 = k
          /\ \A j \in 1..k : 1 + j - 1 = j
      BY <1>1
    <3> HIDE DEF k
    <3>2. /\ SubSeq(raw, 1, k) \in Seq(Char) /\ Len(SubSeq(raw, 1, k)) = k - 1 + 1
          /\ \A j \in 1..k - 1 + 1 : SubSeq(raw, 1, k)[j] = raw[1 + j - 1]
      BY <3>1, SubText, Zenon
    <3>3. SubSeq(raw, 1, k) \in Seq(Char) /\ Len(SubSeq(raw, 1, k)) = k
          /\ \A j \in 1..k : SubSeq(raw, 1, k)[j] = raw[j]
      BY <3>1, <3>2
    <3> QED BY <3>3 DEF k
  <2> HIDE DEF two
  <2>4. ASSUME NEW j \in 1..i + 1
        PROVE  two[j] = Append(b, "lf")[j]
    <3>1. j = i + 1 \/ j = i \/ j \in 1..i - 1
      BY <1>1
    <3>2. j = i => j \in 1..i
      BY <1>1
    <3>3. j \in 1..i - 1 => j \in 1..i
      BY <1>1
    <3>4. CASE j = i + 1
      BY <1>1, <2>2, <2>3, <3>4
    <3>5. CASE j = i
      BY <1>1, <2>1, <2>2, <2>3, <3>2, <3>5 DEF b
    <3>6. CASE j \in 1..i - 1
      BY <1>2, <2>1, <2>2, <2>3, <3>3, <3>6 DEF b, block
    <3> QED BY <3>1, <3>4, <3>5, <3>6
  <2>5. two = Append(b, "lf")
    BY <2>2, <2>3, <2>4, TextEqual
  <2> QED BY <2>5 DEF b
<1>6. NoCr(block) /\ NoCr(rest)
  <2>1. \A j \in 1..i - 1 : j \in 1..Len(raw)
    BY <1>1
  <2>2. \A j \in 1..Len(raw) - (i + 1) : i + 1 + j \in 1..Len(raw)
    BY <1>1
  <2> HIDE DEF block, rest
  <2> QED BY <1>2, <1>3, <2>1, <2>2 DEF NoCr
<1>7. Blank(block) = {} /\ (block # <<>> => block[Len(block)] # "lf")
  <2> HIDE DEF block
  <2>1. \A j \in Blank(block) : j \in Blank(raw) /\ j < i
    BY <1>1, <1>2 DEF Blank
  <2>2. \A j \in Blank(raw) : j \in Nat
    BY <1>1 DEF Blank
  <2>3. ASSUME NEW j \in Blank(block)
        PROVE  FALSE
    <3>1. j \in Blank(raw) /\ j < i /\ j \in Nat /\ i \in Nat /\ i <= j
      BY <1>1, <2>1, <2>2
    <3> QED BY <3>1
  <2>4. ASSUME block # <<>>, block[Len(block)] = "lf" PROVE FALSE
    <3>1. i - 1 \in 1..i - 1
      BY <1>1, <1>2, <2>4
    <3>2. raw[i - 1] = "lf" /\ i - 1 \in 1..Len(raw) - 1 /\ i - 1 + 1 = i
      BY <1>1, <1>2, <2>4, <3>1
    <3>3. i - 1 \in Blank(raw)
      BY <1>1, <3>2 DEF Blank
    <3> QED BY <1>1, <3>3
  <2> QED BY <2>3, <2>4
<1> HIDE DEF block, rest, two
<1>8. PICK u, l : LastLine(block, u, l) /\ ReadFrom(Opened(es), block) = InBlock(es, u, l)
  BY <1>2, <1>6, <1>7, BlockIs
<1> DEFINE x == InBlock(es, u, l)
<1>9. /\ x \in Acc /\ Plain(x) = x /\ x.cr = FALSE /\ x.first = FALSE
  <2>1. u \in Seq(Line) /\ l \in Line /\ DataLines(u) \in Seq(Line)
    BY <1>8, DataLinesType DEF LastLine
  <2>2. x \in Acc
    BY <2>1 DEF InBlock, Acc
  <2>3. x.cr = FALSE /\ x.first = FALSE
    BY DEF InBlock
  <2> HIDE DEF x
  <2>4. /\ Plain(x) \in Acc /\ Plain(x).line = x.line /\ Plain(x).data = x.data
        /\ Plain(x).out = x.out /\ Plain(x).cr = FALSE /\ Plain(x).first = FALSE
    BY <2>2, PlainIs
  <2> DEFINE p == Plain(x)
  <2> HIDE DEF p
  <2>5. p = x
    BY <2>2, <2>3, <2>4, AccEqual DEF p
  <2> QED BY <2>2, <2>3, <2>5 DEF p
<1>10. /\ EndLine(EndLine(x)) \in Acc
       /\ EndLine(EndLine(x)).line = <<>> /\ EndLine(EndLine(x)).data = <<>>
       /\ EndLine(EndLine(x)).out = next
  BY <1>8, <1>9, ClosingIs
<1> HIDE DEF x
<1>11. Reads(x, "lf") = EndLine(x) /\ EndLine(x) \in Acc /\ EndLine(x).cr = FALSE /\ EndLine(x).first = FALSE
  <2>1. EndLine(x) \in Acc /\ EndLine(x).cr = FALSE /\ EndLine(x).first = FALSE
    BY <1>9, EndLineType
  <2>2. Reads(x, "lf") = [EndLine(x) EXCEPT !.cr = FALSE, !.first = FALSE]
    BY <1>9 DEF Reads
  <2> QED BY <2>1, <2>2 DEF Acc
<1> DEFINE y == EndLine(x)
<1>12. Reads(y, "lf") = EndLine(y) /\ EndLine(y).cr = FALSE /\ EndLine(y).first = FALSE
  <2> HIDE DEF y
  <2>0. y \in Acc /\ y.cr = FALSE /\ y.first = FALSE
    BY <1>11 DEF y
  <2>1. EndLine(y) \in Acc /\ EndLine(y).cr = FALSE /\ EndLine(y).first = FALSE
    BY <2>0, EndLineType
  <2>2. Reads(y, "lf") = [EndLine(y) EXCEPT !.cr = FALSE, !.first = FALSE]
    BY <2>0 DEF Reads
  <2> QED BY <2>1, <2>2 DEF Acc
<1>13. next \in Seq(Seq(Line))
  <2>1. ParseBlock(block) \in Seq(Line)
    <3>1. Append(u, l) \in Seq(Line)
      BY <1>8, AppendType DEF LastLine
    <3> QED BY <1>8, <3>1, DataLinesType DEF LastLine, ParseBlock
  <2> QED BY <2>1 DEF Yield
<1> HIDE DEF next
<1>14. EndLine(y) = Opened(next)
  BY <1>10, <1>12, <1>13, OpenedIs, AccEqual DEF Opened
<1>15. ReadFrom(Opened(es), two) = Opened(next)
  <2>1. "lf" \in Char /\ Append(block, "lf") \in Seq(Char) /\ Opened(es) \in Acc
    BY <1>2, OpenedIs DEF Char
  <2>2. ReadFrom(Opened(es), Append(block, "lf")) = Reads(x, "lf")
    BY <1>2, <1>8, <2>1, ReadFromAppend DEF x
  <2> DEFINE b == Append(block, "lf")
  <2> HIDE DEF b, y
  <2>3. b \in Seq(Char) /\ ReadFrom(Opened(es), b) = y
    BY <1>11, <2>1, <2>2 DEF b, y
  <2>4. ReadFrom(Opened(es), Append(b, "lf")) = Reads(y, "lf")
    BY <2>1, <2>3, ReadFromAppend
  <2>5. two = Append(b, "lf")
    BY <1>5 DEF b
  <2> QED BY <1>12, <1>14, <2>4, <2>5
<1>16. ReadFrom(Opened(es), raw) = ReadFrom(Opened(next), rest)
  <2>1. two \in Seq(Char)
    BY <1>2, <1>5 DEF Char
  <2> QED BY <1>3, <1>4, <1>15, <2>1, OpenedIs, ReadFromConcat
<1>17. Len(rest) <= Len(raw)
  BY <1>1, <1>3
<1> QED BY <1>2, <1>3, <1>6, <1>13, <1>16, <1>17 DEF block, rest, next

-----------------------------------------------------------------------------
(* The inductive invariant                                                 *)

\* What has been converted and put into the buffer: all but a last "\r".
Read == SubSeq(body, 1, Len(body) - Len(pendingCr))

\* The decoder is where the reader is: what the reader has put out are the events,
\* and the buffer is what it has read since.
Following ==
  /\ body = Read \o pendingCr
  /\ NoCr(buffer)
  /\ ReadFrom(Opened(events), buffer) = Plain(Reference(Read))
  /\ atStart => pendingCr = <<>> /\ Reference(Read) = Fresh
  /\ pendingCr = <<>> =>
       Reference(Read).cr = FALSE /\ (atStart \/ Reference(Read).first = FALSE)

DecoderInv ==
  /\ TypeOK /\ events \in Seq(Seq(Line))
  /\ status = "open" => Following
  /\ ChunkInvariant

\* What feed converts of a text, and what it keeps for the next chunk.
EndsCut(d) == d # <<>> /\ Last(d) = "cr"
Kept(d) == IF EndsCut(d) THEN Front(d) ELSE d
Held(d) == IF EndsCut(d) THEN <<"cr">> ELSE <<>>

LEMMA CrText == <<"cr">> \in Seq(Char) /\ Len(<<"cr">>) = 1 /\ <<"cr">>[1] = "cr" /\ <<"cr">> # <<>>
BY DEF Char

\* A text is what is converted now and what waits.
LEMMA KeptIs ==
  ASSUME NEW d \in Seq(Char)
  PROVE  /\ Kept(d) \in Seq(Char) /\ Held(d) \in {<<>>, <<"cr">>} /\ d = Kept(d) \o Held(d)
         /\ Kept(d) # <<>> => d # <<>> /\ Kept(d)[1] = d[1]
         /\ Held(d) = <<>> => Kept(d) = d /\ ~ EndsInCr(d)
         /\ d = <<>> => Kept(d) = <<>> /\ Held(d) = <<>>
<1>0. <<"cr">> # <<>> /\ d = d \o <<>>
  OBVIOUS
<1>1. CASE ~ EndsCut(d)
  <2>1. ~ EndsInCr(d)
    BY <1>1 DEF EndsCut, EndsInCr, Last
  <2> QED BY <1>0, <1>1, <2>1 DEF Kept, Held
<1>2. CASE EndsCut(d)
  <2>1. d # <<>> /\ d[Len(d)] = "cr" /\ Len(d) \in Nat /\ Len(d) \in 1..Len(d)
    BY <1>2 DEF EndsCut, Last
  <2>2. Front(d) = SubSeq(d, 1, Len(d) - 1)
    BY DEF Front
  <2>3. /\ Front(d) \in Seq(Char) /\ Len(Front(d)) = Len(d) - 1
        /\ \A i \in 1..Len(d) - 1 : Front(d)[i] = d[i]
    <3> DEFINE k == Len(d) - 1
    <3>1. 1 \in 1..Len(d) + 1 /\ k \in 0..Len(d) /\ 1 <= k + 1 /\ k - 1 + 1 = k
          /\ \A j \in 1..k : 1 + j - 1 = j
      BY <2>1
    <3> HIDE DEF k
    <3>2. /\ SubSeq(d, 1, k) \in Seq(Char) /\ Len(SubSeq(d, 1, k)) = k - 1 + 1
          /\ \A j \in 1..k - 1 + 1 : SubSeq(d, 1, k)[j] = d[1 + j - 1]
      BY <3>1, SubText, Zenon
    <3>3. SubSeq(d, 1, k) \in Seq(Char) /\ Len(SubSeq(d, 1, k)) = k
          /\ \A j \in 1..k : SubSeq(d, 1, k)[j] = d[j]
      BY <3>1, <3>2
    <3> QED BY <2>2, <3>3 DEF k
  <2> DEFINE f == Front(d)
  <2> HIDE DEF f
  <2>4. /\ f \o <<"cr">> \in Seq(Char) /\ Len(f \o <<"cr">>) = Len(d)
        /\ \A i \in 1..Len(d) - 1 : (f \o <<"cr">>)[i] = d[i]
        /\ (f \o <<"cr">>)[Len(d)] = "cr"
    <3>1. f \in Seq(Char) /\ Len(f) = Len(d) - 1 /\ \A i \in 1..Len(d) - 1 : f[i] = d[i]
      BY <2>3 DEF f
    <3>2. /\ f \o <<"cr">> \in Seq(Char) /\ Len(f \o <<"cr">>) = Len(f) + 1
          /\ \A i \in 1..Len(f) : (f \o <<"cr">>)[i] = f[i]
          /\ (f \o <<"cr">>)[Len(f) + 1] = "cr"
      <4>1. 1 \in 1..Len(<<"cr">>)
        BY CrText
      <4> QED BY <3>1, <4>1, CrText, JoinText
    <3>3. Len(d) - 1 + 1 = Len(d)
      BY <2>1
    <3> QED BY <3>1, <3>2, <3>3
  <2>5. \A i \in 1..Len(d) : d[i] = (f \o <<"cr">>)[i]
    <3>1. \A i \in 1..Len(d) : i \in 1..Len(d) - 1 \/ i = Len(d)
      BY <2>1
    <3> QED BY <2>1, <2>4, <3>1
  <2>6. d = f \o <<"cr">>
    BY <2>4, <2>5, TextEqual
  <2>7. f # <<>> => f[1] = d[1]
    <3>1. f # <<>> => 1 \in 1..Len(d) - 1
      BY <2>1, <2>3 DEF f
    <3> QED BY <2>3, <3>1 DEF f
  <2> QED BY <1>0, <1>2, <2>1, <2>3, <2>6, <2>7 DEF Kept, Held, f
<1> QED BY <1>1, <1>2

LEMMA JoinAssociative ==
  \A s, t, u \in Seq(Char) : (s \o t) \o u = s \o (t \o u)
BY ConcatAssociative

LEMMA NoCrJoin ==
  ASSUME NEW s \in Seq(Char), NEW t \in Seq(Char), NoCr(s), NoCr(t)
  PROVE  NoCr(s \o t)
<1> DEFINE w == s \o t
<1>1. /\ Len(w) = Len(s) + Len(t) /\ Len(s) \in Nat /\ Len(t) \in Nat
      /\ \A i \in 1..Len(s) : w[i] = s[i]
      /\ \A i \in 1..Len(t) : w[Len(s) + i] = t[i]
  BY JoinText
<1> HIDE DEF w
<1>2. ASSUME NEW i \in 1..Len(w)
      PROVE  w[i] # "cr"
  <2>1. CASE i <= Len(s)
    <3>1. i \in 1..Len(s)
      BY <1>1, <2>1
    <3> QED BY <1>1, <3>1 DEF NoCr
  <2>2. CASE i > Len(s)
    <3>1. i - Len(s) \in 1..Len(t) /\ Len(s) + (i - Len(s)) = i
      BY <1>1, <2>2
    <3>2. w[i] = t[i - Len(s)]
      BY <1>1, <3>1
    <3> QED BY <3>1, <3>2 DEF NoCr
  <2>3. i <= Len(s) \/ i > Len(s)
    BY <1>1
  <2> QED BY <2>1, <2>2, <2>3, Zenon
<1> QED BY <1>2 DEF NoCr, w

\* What has been read is a text, and the reader of it in a proper state.
LEMMA ReadIsText == TypeOK => Read \in Seq(Char) /\ Reference(Read) \in Acc
<1> SUFFICES ASSUME TypeOK PROVE Read \in Seq(Char) /\ Reference(Read) \in Acc
  OBVIOUS
<1> DEFINE k == Len(body) - Len(pendingCr)
<1>1. body \in Seq(Char) /\ k \in Int /\ k <= Len(body)
  BY CrText, EmptyText DEF TypeOK
<1> HIDE DEF k
<1>2. SubSeq(body, 1, k) \in Seq(Char)
  BY <1>1
<1>3. Read \in Seq(Char)
  BY <1>2 DEF Read, k
<1> QED BY <1>3, FreshIs, ReadFromType DEF Reference

\* When feed has returned, the reader has the buffer as its block.
LEMMA OpenBlock ==
  ASSUME TypeOK, events \in Seq(Seq(Line)), Following, Blank(buffer) = {}
  PROVE  \E u, l : LastLine(buffer, u, l) /\ Plain(Reference(Read)) = InBlock(events, u, l)
<1>1. /\ buffer \in Seq(Char) /\ NoCr(buffer)
      /\ ReadFrom(Opened(events), buffer) = Plain(Reference(Read))
  BY DEF TypeOK, Following
<1>2. \E u, l : LastLine(buffer, u, l) /\ ReadFrom(Opened(events), buffer) = InBlock(events, u, l)
  BY <1>1, BlockIs
<1> QED BY <1>1, <1>2

\* Before the first chunk the decoder is where the reader is.
LEMMA InitEstablishes == Init => DecoderInv
<1> SUFFICES ASSUME Init PROVE DecoderInv
  OBVIOUS
<1> USE DEF Init
<1>1. TypeOK /\ events \in Seq(Seq(Line))
  BY EmptyText, DecoderAssumption DEF TypeOK
<1>2. Read = <<>>
  BY DEF Read
<1>3. ReadFrom(Fresh, <<>>) = Fresh
  BY FreshIs, ReadFromEmpty
<1>4. ReadFrom(Opened(<<>>), <<>>) = Plain(Fresh)
  <2>1. ReadFrom(Opened(<<>>), <<>>) = Opened(<<>>)
    BY EmptyText, OpenedIs, ReadFromEmpty
  <2> DEFINE p == Plain(Fresh)
  <2> DEFINE o == Opened(<<>>)
  <2>2. /\ p \in Acc /\ p.line = <<>> /\ p.data = <<>> /\ p.out = <<>>
        /\ p.cr = FALSE /\ p.first = FALSE
    BY FreshIs, PlainIs
  <2>3. /\ o \in Acc /\ o.line = <<>> /\ o.data = <<>> /\ o.out = <<>>
        /\ o.cr = FALSE /\ o.first = FALSE
    BY EmptyText, OpenedIs DEF Opened
  <2> HIDE DEF o, p
  <2>4. o = p
    BY <2>2, <2>3, AccEqual
  <2> QED BY <2>1, <2>4 DEF o, p
<1>5. Following
  <2>1. <<>> = <<>> \o <<>>
    OBVIOUS
  <2>2. NoCr(<<>>)
    BY DEF NoCr
  <2> QED BY <1>2, <1>3, <1>4, <2>1, <2>2, FreshIs DEF Following, Reference
<1> QED BY <1>1, <1>5 DEF DecoderInv, ChunkInvariant

\* feed: the reader reads what is taken out of the two texts at their ends.
LEMMA FeedFollows ==
  ASSUME DecoderInv, NEW chunk \in Chunks, Feed(chunk)
  PROVE  DecoderInv'
<1> DEFINE w == pendingCr \o chunk
<1> DEFINE d == IF atStart THEN StripBom(w) ELSE w
<1> DEFINE R == Reference(Read)
<1> DEFINE kept == Kept(d)
<1> DEFINE held == Held(d)
<1>1. /\ status = "open" /\ body' = body \o chunk /\ events' = events
      /\ atStart' = (atStart /\ d = <<>>) /\ pendingCr' = held
      /\ buffer' = buffer \o Normalise(kept)
      /\ status' = IF Len(buffer') > MaxEvent THEN "refused" ELSE "open"
  BY DEF Feed, Kept, Held, EndsCut
<1>2. /\ body \in Seq(Char) /\ buffer \in Seq(Char) /\ pendingCr \in {<<>>, <<"cr">>}
      /\ pendingCr \in Seq(Char) /\ atStart \in BOOLEAN /\ events \in Seq(Seq(Line))
  BY EmptyText, CrText DEF DecoderInv, TypeOK
<1>3. /\ body = Read \o pendingCr /\ NoCr(buffer)
      /\ ReadFrom(Opened(events), buffer) = Plain(R)
      /\ atStart => pendingCr = <<>> /\ R = Fresh
      /\ pendingCr = <<>> => R.cr = FALSE /\ (atStart \/ R.first = FALSE)
  BY <1>1 DEF DecoderInv, Following
<1>4. chunk \in Seq(Char) /\ chunk # <<>>
  BY DecoderAssumption DEF Chunks
<1>5. /\ w \in Seq(Char) /\ w # <<>>
      /\ pendingCr = <<"cr">> => w[1] = "cr"
  <2>1. w \in Seq(Char) /\ Len(w) = Len(pendingCr) + Len(chunk)
        /\ \A i \in 1..Len(pendingCr) : w[i] = pendingCr[i]
    BY <1>2, <1>4, JoinText
  <2>2. Len(chunk) \in Nat /\ Len(chunk) # 0 /\ Len(pendingCr) \in Nat
    BY <1>2, <1>4
  <2> HIDE DEF w
  <2>3. w # <<>>
    BY <2>1, <2>2
  <2>4. pendingCr = <<"cr">> => w[1] = "cr"
    <3>1. pendingCr = <<"cr">> => 1 \in 1..Len(pendingCr) /\ pendingCr[1] = "cr"
      BY CrText
    <3> QED BY <2>1, <3>1
  <2> QED BY <2>1, <2>3, <2>4
<1> HIDE DEF w
<1>6. Read \in Seq(Char) /\ R \in Acc
  BY ReadIsText DEF DecoderInv
<1>7. /\ d \in Seq(Char)
      /\ atStart /\ d # <<>> => d[1] # "bom"
      /\ ~ atStart => d = w
  BY <1>2, <1>5, StripBomIs
<1>8. PICK pre \in Seq(Char) : w = pre \o d /\ ReadFrom(R, pre) = R
  <2>1. CASE atStart
    <3>1. PICK pre \in Seq(Char) : Marks(pre) /\ w = pre \o StripBom(w)
      BY <1>5, StripBomIs
    <3>2. ReadFrom(Fresh, pre) = Fresh
      BY <3>1, MarksAreSkipped
    <3> QED BY <1>3, <2>1, <3>1, <3>2
  <2>2. CASE ~ atStart
    <3>1. w = <<>> \o w
      BY <1>5
    <3>2. ReadFrom(R, <<>>) = R
      BY <1>6, ReadFromEmpty
    <3> QED BY <1>7, <2>2, <3>1, <3>2, EmptyText
  <2> QED BY <1>2, <2>1, <2>2
<1> HIDE DEF d, R
<1>9. /\ kept \in Seq(Char) /\ held \in {<<>>, <<"cr">>} /\ held \in Seq(Char) /\ d = kept \o held
      /\ kept # <<>> => d # <<>> /\ kept[1] = d[1]
      /\ held = <<>> => kept = d /\ ~ EndsInCr(d)
      /\ d = <<>> => kept = <<>> /\ held = <<>>
  BY <1>7, KeptIs, EmptyText, CrText
<1> HIDE DEF kept, held
<1>10. Read' = (Read \o pre) \o kept /\ body' = Read' \o held
  <2>1. /\ Read \o pre \in Seq(Char) /\ (Read \o pre) \o kept \in Seq(Char)
    BY <1>6, <1>8, <1>9, JoinText
  <2>2. body' = Read \o w
    <3>1. body' = (Read \o pendingCr) \o chunk
      BY ONLY <1>1, <1>3, Zenon
    <3>2. Read \in Seq(Char) /\ pendingCr \in Seq(Char) /\ chunk \in Seq(Char)
      BY ONLY <1>2, <1>4, <1>6, Zenon
    <3>3. (Read \o pendingCr) \o chunk = Read \o (pendingCr \o chunk)
      BY ONLY <3>2, JoinAssociative
    <3> QED BY ONLY <3>1, <3>3, Zenon DEF w
  <2>3. Read \o w = (Read \o pre) \o d
    BY <1>6, <1>7, <1>8, JoinAssociative
  <2>4. (Read \o pre) \o d = ((Read \o pre) \o kept) \o held
    BY <1>9, <2>1, JoinAssociative
  <2>5. body' = ((Read \o pre) \o kept) \o held
    BY <2>2, <2>3, <2>4
  <2> DEFINE s == (Read \o pre) \o kept
  <2> HIDE DEF s
  <2>6. SubSeq(s \o held, 1, Len(s \o held) - Len(held)) = s
    BY <1>9, <2>1, CutText DEF s
  <2>7. Read' = s
    BY <1>1, <2>5, <2>6 DEF Read, s
  <2> QED BY <2>5, <2>7 DEF s
<1> DEFINE S == ReadFrom(R, kept)
<1>11. Reference(Read') = S
  <2>1. Read \o pre \in Seq(Char)
    BY <1>6, <1>8, JoinText
  <2>2. ReadFrom(Fresh, (Read \o pre) \o kept) = ReadFrom(ReadFrom(Fresh, Read \o pre), kept)
    BY <1>9, <2>1, FreshIs, ReadFromConcat
  <2>3. ReadFrom(Fresh, Read \o pre) = ReadFrom(R, pre)
    BY <1>6, <1>8, FreshIs, ReadFromConcat DEF Reference, R
  <2> QED BY <1>8, <1>10, <2>2, <2>3 DEF Reference
<1>12. Clean(R, kept)
  <2>1. ASSUME kept # <<>>
        PROVE  (R.first => kept[1] # "bom") /\ (R.cr => kept[1] # "lf")
    <3>1. CASE atStart
      BY <1>3, <1>7, <1>9, <2>1, <3>1, FreshIs
    <3>2. CASE ~ atStart /\ pendingCr = <<>>
      BY <1>3, <3>2
    <3>3. CASE ~ atStart /\ pendingCr = <<"cr">>
      BY <1>5, <1>7, <1>9, <2>1, <3>3
    <3> QED BY <1>2, <3>1, <3>2, <3>3
  <2> QED BY <2>1 DEF Clean
<1>13. /\ ReadFrom(Plain(R), Normalise(kept)) = Plain(S)
       /\ kept # <<>> => S.cr = EndsInCr(kept) /\ S.first = FALSE
  BY <1>6, <1>9, <1>12, ReadsNormalised DEF Converts
<1>14. kept = <<>> => S = R
  BY <1>6, ReadFromEmpty
<1> HIDE DEF S
<1>15. Normalise(kept) \in Seq(Char) /\ NoCr(Normalise(kept))
  BY <1>9, NormaliseType, NormaliseNoCr
<1>16. buffer' \in Seq(Char) /\ NoCr(buffer')
  BY <1>1, <1>2, <1>3, <1>15, JoinText, NoCrJoin
<1>17. ReadFrom(Opened(events), buffer') = Plain(S)
  <2>1. ReadFrom(Opened(events), buffer \o Normalise(kept))
          = ReadFrom(ReadFrom(Opened(events), buffer), Normalise(kept))
    BY <1>2, <1>15, OpenedIs, ReadFromConcat
  <2> QED BY <1>1, <1>3, <1>13, <2>1
<1>18. atStart' => pendingCr' = <<>> /\ S = Fresh
  BY <1>1, <1>3, <1>9, <1>14
<1>19. pendingCr' = <<>> => S.cr = FALSE /\ (atStart' \/ S.first = FALSE)
  <2>1. CASE d = <<>>
    BY <1>1, <1>3, <1>5, <1>7, <1>9, <1>14, <2>1, FreshIs
  <2>2. CASE d # <<>>
    BY <1>1, <1>9, <1>13, <2>2
  <2> QED BY <2>1, <2>2
<1>20. Following'
  <2>1. body' = Read' \o pendingCr'
    BY <1>1, <1>10
  <2>2. NoCr(buffer)'
    BY <1>16 DEF NoCr
  <2>3. (ReadFrom(Opened(events), buffer) = Plain(Reference(Read)))'
    BY <1>1, <1>11, <1>17
  <2>4. (Reference(Read))' = S
    BY <1>11
  <2> QED BY <1>18, <1>19, <2>1, <2>2, <2>3, <2>4 DEF Following
<1>21. TypeOK'
  <2>1. body' \in Seq(Char)
    BY <1>1, <1>2, <1>4, JoinText
  <2>2. Len(buffer') \in Nat /\ MaxEvent \in Nat
    BY <1>16, DecoderAssumption
  <2> QED BY <1>1, <1>2, <1>9, <1>16, <2>1, <2>2 DEF TypeOK
<1>22. events' \in Seq(Seq(Line)) /\ ChunkInvariant'
  BY <1>1, <1>2 DEF ChunkInvariant
<1> QED BY <1>20, <1>21, <1>22 DEF DecoderInv

\* The loop of feed: a block and its blank line move from the buffer to the events.
LEMMA SplitFollows == DecoderInv /\ Split => DecoderInv'
<1> SUFFICES ASSUME DecoderInv, Split PROVE DecoderInv'
  OBVIOUS
<1> DEFINE i == CHOOSE i \in Blank(buffer) : \A j \in Blank(buffer) : i <= j
<1>1. /\ status = "open" /\ Blank(buffer) # {}
      /\ events' = Yield(events, SubSeq(buffer, 1, i - 1))
      /\ buffer' = SubSeq(buffer, i + 2, Len(buffer))
      /\ body' = body /\ pendingCr' = pendingCr /\ atStart' = atStart /\ status' = status
  BY DEF Split
<1>2. i \in Blank(buffer) /\ \A j \in Blank(buffer) : i <= j
  <2>1. Blank(buffer) \in SUBSET Nat
    BY DEF Blank
  <2>2. \E k \in Blank(buffer) : \A j \in Blank(buffer) : k <= j
    BY <1>1, <2>1, LeastOf
  <2> QED BY <2>2
<1> HIDE DEF i
<1>3. TypeOK /\ events \in Seq(Seq(Line)) /\ Following
  BY <1>1 DEF DecoderInv
<1>4. /\ SubSeq(buffer, i + 2, Len(buffer)) \in Seq(Char)
      /\ Len(SubSeq(buffer, i + 2, Len(buffer))) <= Len(buffer)
      /\ NoCr(SubSeq(buffer, i + 2, Len(buffer)))
      /\ Yield(events, SubSeq(buffer, 1, i - 1)) \in Seq(Seq(Line))
      /\ ReadFrom(Opened(events), buffer) =
           ReadFrom(Opened(Yield(events, SubSeq(buffer, 1, i - 1))), SubSeq(buffer, i + 2, Len(buffer)))
  BY <1>2, <1>3, SplitIs DEF TypeOK, Following
<1>5. /\ buffer' \in Seq(Char) /\ Len(buffer') <= Len(buffer) /\ NoCr(buffer')
      /\ events' \in Seq(Seq(Line))
      /\ ReadFrom(Opened(events'), buffer') = ReadFrom(Opened(events), buffer)
  BY <1>1, <1>4
<1>6. TypeOK'
  <2>1. Len(buffer) \in Nat /\ Len(buffer') \in Nat /\ MaxEvent \in Nat
    BY <1>3, <1>5, DecoderAssumption DEF TypeOK
  <2> QED BY <1>1, <1>3, <1>5, <2>1 DEF TypeOK
<1>7. Following'
  <2>1. Read' = Read
    BY <1>1 DEF Read
  <2>2. (Reference(Read))' = Reference(Read)
    BY <2>1
  <2>3. (ReadFrom(Opened(events), buffer) = Plain(Reference(Read)))'
    BY <1>3, <1>5, <2>2 DEF Following
  <2>4. NoCr(buffer)'
    BY <1>5 DEF NoCr
  <2> QED BY <1>1, <1>3, <2>1, <2>2, <2>3, <2>4 DEF Following
<1> QED BY <1>1, <1>5, <1>6, <1>7 DEF DecoderInv, ChunkInvariant

LEMMA NormaliseCr == Normalise(<<"cr">>) = <<"lf">>
<1>1. <<"cr">> = Append(<<>>, "cr") /\ <<"lf">> = Append(<<>>, "lf") /\ "cr" \in Char
  BY DEF Char
<1>2. Normalise(Append(<<>>, "cr")) = Append(Normalise(<<>>), "lf")
  BY <1>1, EmptyText, NormaliseAppend DEF EndsInCr
<1> QED BY <1>1, <1>2, NormaliseEmpty

\* flush: what is left is the last block, ended or not.
LEMMA FlushFollows == DecoderInv /\ Flush => DecoderInv'
<1> SUFFICES ASSUME DecoderInv, Flush PROVE DecoderInv'
  OBVIOUS
<1> DEFINE R == Reference(Read)
<1> DEFINE raw == buffer \o Normalise(pendingCr)
<1>1. /\ status = "open" /\ Blank(buffer) = {} /\ status' = "ended"
      /\ events' = Yield(events, raw)
      /\ buffer' = <<>> /\ pendingCr' = <<>> /\ body' = body /\ atStart' = atStart
  BY DEF Flush
<1>2. TypeOK /\ events \in Seq(Seq(Line)) /\ Following
  BY <1>1 DEF DecoderInv
<1>3. Read \in Seq(Char) /\ R \in Acc
  BY <1>2, ReadIsText
<1> HIDE DEF R
<1>4. PICK u, l : LastLine(buffer, u, l) /\ Plain(R) = InBlock(events, u, l)
  BY <1>1, <1>2, OpenBlock DEF R
<1> DEFINE z == EndLine(EndLine(R))
<1>5. z \in Acc /\ z.line = <<>> /\ z.data = <<>> /\ z.out = Yield(events, buffer)
  BY <1>2, <1>3, <1>4, ClosingIs
<1>6. ParseBlock(buffer) \in Seq(Line) /\ ParseBlock(Append(buffer, "lf")) = ParseBlock(buffer)
  <2>1. /\ buffer \in Seq(Char) /\ "lf" \in Char /\ Lines(buffer) = Append(u, l)
        /\ u \in Seq(Line) /\ l \in Line
    BY <1>2, <1>4 DEF TypeOK, LastLine, Char
  <2> DEFINE v == Append(u, l)
  <2>2. v \in Seq(Line)
    BY <2>1, AppendType
  <2>3. Lines(Append(buffer, "lf")) = Append(Lines(buffer), <<>>)
    BY <2>1, LinesAppend
  <2> HIDE DEF v
  <2>4. DataLines(Append(v, <<>>)) = DataLines(v)
    BY <2>2, EmptyText, DataLinesAppend DEF IsData
  <2> QED BY <2>1, <2>2, <2>3, <2>4, DataLinesType DEF ParseBlock, v
<1> HIDE DEF z
<1>7. Whole(body) = Yield(events, raw)
  <2>1. body = Read \o pendingCr /\ pendingCr \in {<<>>, <<"cr">>} /\ buffer \in Seq(Char)
    BY <1>2 DEF Following, TypeOK
  <2>2. CASE pendingCr = <<>>
    <3>1. body = Read /\ raw = buffer
      <4>1. Read \o <<>> = Read /\ buffer \o <<>> = buffer
        BY <1>3, <2>1
      <4> QED BY <2>1, <2>2, <4>1, NormaliseEmpty
    <3> QED BY <1>5, <3>1 DEF Whole, R, z
  <2>3. CASE pendingCr = <<"cr">>
    <3>1. raw = Append(buffer, "lf")
      <4>1. buffer \o <<"lf">> = Append(buffer, "lf")
        BY <2>1
      <4> QED BY <2>3, <4>1, NormaliseCr
    <3>2. body = Append(Read, "cr")
      <4>1. Read \o <<"cr">> = Append(Read, "cr")
        BY <1>3
      <4> QED BY <2>1, <2>3, <4>1
    <3>3. Reference(body) = Reads(R, "cr")
      <4>1. "cr" \in Char
        BY DEF Char
      <4> QED BY <1>3, <3>2, <4>1, FreshIs, ReadFromAppend DEF Reference, R
    <3> DEFINE a == [EndLine(R) EXCEPT !.cr = TRUE, !.first = FALSE]
    <3>4. Reads(R, "cr") = a
      BY <1>3 DEF Reads
    <3>5. /\ a \in Acc /\ a.line = EndLine(R).line
          /\ a.data = EndLine(R).data /\ a.out = EndLine(R).out
      BY <1>3, EndLineType DEF Acc
    <3> HIDE DEF a
    <3>6. EndLine(R) \in Acc /\ EndLine(R).line = <<>>
      BY <1>3, EndLineType
    <3>7. EndLine(a) \in Acc /\ EndLine(a).line = z.line /\ EndLine(a).data = z.data /\ EndLine(a).out = z.out
      BY <3>5, <3>6, EndLineType DEF z
    <3>8. EndLine(EndLine(a)).out = z.out
      BY <1>5, <3>7, EndLineType
    <3>9. Whole(body) = z.out
      BY <3>3, <3>4, <3>8 DEF Whole
    <3>10. Yield(events, raw) = Yield(events, buffer)
      BY <1>6, <3>1 DEF Yield
    <3> QED BY <1>5, <3>9, <3>10
  <2> QED BY <2>1, <2>2, <2>3
<1>8. events' \in Seq(Seq(Line))
  <2>1. z.out \in Seq(Seq(Line))
    BY <1>5 DEF Acc
  <2>2. Yield(events, raw) \in Seq(Seq(Line))
    <3>1. Whole(body) \in Seq(Seq(Line))
      <4>1. body \in Seq(Char)
        BY <1>2 DEF TypeOK
      <4>2. Reference(body) \in Acc
        BY <4>1, FreshIs, ReadFromType DEF Reference
      <4>3. EndLine(EndLine(Reference(body))) \in Acc
        BY <4>2, EndLineType
      <4> QED BY <4>3 DEF Whole, Acc
    <3> QED BY <1>7, <3>1
  <2> QED BY <1>1, <2>2
<1>9. TypeOK'
  BY <1>1, <1>2, EmptyText DEF TypeOK
<1>10. ChunkInvariant'
  BY <1>1, <1>7 DEF ChunkInvariant
<1> QED BY <1>1, <1>8, <1>9, <1>10 DEF DecoderInv

\* The decoder follows the reader through every call.
LEMMA DecoderInvariant == Spec => []DecoderInv
<1>1. DecoderInv /\ [Next]_vars => DecoderInv'
  <2> SUFFICES ASSUME DecoderInv, [Next]_vars PROVE DecoderInv'
    OBVIOUS
  <2>1. ASSUME NEW chunk \in Chunks, Feed(chunk) PROVE DecoderInv'
    BY <2>1, FeedFollows
  <2>2. CASE Split
    BY <2>2, SplitFollows
  <2>3. CASE Flush
    BY <2>3, FlushFollows
  <2>4. CASE UNCHANGED vars
    <3>1. Read' = Read
      BY <2>4 DEF vars, Read
    <3>2. Following <=> Following'
      BY <2>4, <3>1 DEF vars, Following, NoCr
    <3> QED BY <2>4, <3>2 DEF vars, DecoderInv, TypeOK, ChunkInvariant
  <2> QED BY <2>1, <2>2, <2>3, <2>4 DEF Next
<1> QED BY InitEstablishes, <1>1, PTL DEF Spec

-----------------------------------------------------------------------------
\* feed, its size check: what waits between two chunks never exceeds max_event_bytes.
THEOREM DecoderIsTyped == Spec => []TypeOK
<1>1. DecoderInv => TypeOK
  BY DEF DecoderInv
<1> QED BY DecoderInvariant, <1>1, PTL

\* feed, flush: for every body, however it is cut, the events are those of the body
\* read a character at a time: a mark, a "\r\n", a line or a blank line may be cut.
THEOREM CutsAreInvisible == Spec => []ChunkInvariant
<1>1. DecoderInv => ChunkInvariant
  BY DEF DecoderInv
<1> QED BY DecoderInvariant, <1>1, PTL

\* feed: every event the characters so far complete is out when feed has returned,
\* and none is out early: a relay on top of it neither lags nor guesses.
THEOREM EventsAreAtOnce == Spec => []YieldedAtOnce
<1>1. DecoderInv => YieldedAtOnce
  <2> SUFFICES ASSUME DecoderInv, status = "open", Blank(buffer) = {}
               PROVE  events = Reference(Read).out
    BY DEF YieldedAtOnce, Read
  <2> DEFINE R == Reference(Read)
  <2>1. TypeOK /\ events \in Seq(Seq(Line)) /\ Following
    BY DEF DecoderInv
  <2>2. PICK u, l : Plain(R) = InBlock(events, u, l)
    BY <2>1, OpenBlock
  <2>3. R \in Acc
    BY <2>1, ReadIsText
  <2> HIDE DEF R
  <2>4. Plain(R).out = events /\ Plain(R).out = R.out
    BY <2>2, <2>3, PlainIs DEF InBlock
  <2> QED BY <2>4 DEF R
<1> QED BY DecoderInvariant, <1>1, PTL
=============================================================================
