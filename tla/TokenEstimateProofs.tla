-------------------------- MODULE TokenEstimateProofs --------------------------
(***************************************************************************)
(* Proofs about TokenEstimate, for every prompt, ceiling, default, cap and *)
(* count.                                                                  *)
(***************************************************************************)
EXTENDS TokenEstimate, TLAPS

-----------------------------------------------------------------------------
(* Lemmas about the operators.                                             *)

\* Of three integers or fewer one is the largest.
LEMMA MaxOfThree ==
  ASSUME NEW a \in Int, NEW b \in Int, NEW c \in Int,
         NEW S \in SUBSET {a, b, c}, S # {}
  PROVE  Max(S) \in S /\ \A x \in S : Max(S) >= x
<1>1. \A x \in S : x = a \/ x = b \/ x = c
  OBVIOUS
<1>2. \E x \in S : \A y \in S : x >= y
  <2>1. CASE a \in S /\ (b \in S => a >= b) /\ (c \in S => a >= c)
    BY <1>1, <2>1
  <2>2. CASE b \in S /\ (a \in S => b >= a) /\ (c \in S => b >= c)
    BY <1>1, <2>2
  <2>3. CASE c \in S /\ (a \in S => c >= a) /\ (b \in S => c >= b)
    BY <1>1, <2>3
  <2>4. a \in S \/ b \in S \/ c \in S
    BY <1>1
  <2> QED BY <2>1, <2>2, <2>3, <2>4
<1> QED BY <1>2 DEF Max

\* The positive caps, if any, have a largest, and it is one of them.
LEMMA MaxOfPositiveCaps ==
  ASSUME NEW cap \in [CapFields -> Int \cup {NotAnInt}], Positive(Ints(cap)) # {}
  PROVE  Max(Positive(Ints(cap))) \in Positive(Ints(cap))
<1> DEFINE S == Positive(Ints(cap))
<1> DEFINE Int0(f) == IF cap[f] = NotAnInt THEN 0 ELSE cap[f]
<1>1. \A f \in CapFields : Int0(f) \in Int
  BY EstimateAssumption
<1>2. S \subseteq {Int0("max_tokens"), Int0("max_completion_tokens"), Int0("max_output_tokens")}
  BY DEF Positive, Ints, CapFields
<1>3. /\ Int0("max_tokens") \in Int /\ Int0("max_completion_tokens") \in Int
      /\ Int0("max_output_tokens") \in Int
  BY <1>1 DEF CapFields
<1> QED BY <1>2, <1>3, MaxOfThree

\* The caller's largest cap is positive, or else it is the default.
LEMMA RequestedMaxType ==
  ASSUME NEW cap \in [CapFields -> Int \cup {NotAnInt}]
  PROVE  RequestedMax(cap) \in Nat
<1>1. CASE Positive(Ints(cap)) = {}
  BY <1>1, EstimateAssumption DEF RequestedMax
<1>2. CASE Positive(Ints(cap)) # {}
  <2>1. Max(Positive(Ints(cap))) \in Positive(Ints(cap))
    BY <1>2, MaxOfPositiveCaps
  <2>2. Positive(Ints(cap)) \subseteq Nat
    BY EstimateAssumption DEF Positive, Ints
  <2> QED BY <1>2, <2>1, <2>2 DEF RequestedMax
<1> QED BY <1>1, <1>2

\* A request is multiplied by one at least.
LEMMA MultiplierType ==
  ASSUME NEW count \in [CountFields -> Int \cup {NotAnInt}]
  PROVE  Multiplier(count) \in Nat /\ Multiplier(count) >= 1
<1> DEFINE S == {1} \cup Ints(count)
<1> DEFINE Int1(f) == IF count[f] = NotAnInt THEN 1 ELSE count[f]
<1>1. Int1("n") \in Int /\ Int1("best_of") \in Int
  BY EstimateAssumption DEF CountFields
<1>2. S \subseteq {1, Int1("n"), Int1("best_of")}
  BY DEF Ints, CountFields
<1>3. S \subseteq Int /\ 1 \in S
  BY <1>1, <1>2
<1>4. Max(S) \in S /\ \A x \in S : Max(S) >= x
  <2>1. PICK x \in Int, y \in Int : S \subseteq {1, x, y}
    BY <1>1, <1>2
  <2>2. S \in SUBSET {1, x, y} /\ S # {} /\ 1 \in Int
    BY <2>1
  <2> HIDE DEF S, Int1
  <2> QED BY <2>1, <2>2, MaxOfThree
<1> QED BY <1>3, <1>4 DEF Multiplier

\* What the provider is allowed is what was reserved for, unless the caller's
\* only integer caps are useless.
LEMMA ImposedCapIsReserved ==
  ASSUME NEW cap \in [CapFields -> Int \cup {NotAnInt}],
         Ints(cap) = {} \/ Positive(Ints(cap)) # {}
  PROVE  /\ Positive(Ints(Imposed(cap))) # {}
         /\ Max(Positive(Ints(Imposed(cap)))) = RequestedMax(cap)
<1>1. CASE Ints(cap) = {}
  <2>1. Imposed(cap) = [cap EXCEPT !["max_tokens"] = Ceiling]
    BY <1>1 DEF Imposed
  <2>2. Positive(Ints(Imposed(cap))) = {Ceiling}
    <3>1. \A f \in CapFields : cap[f] = NotAnInt
      BY <1>1 DEF Ints
    <3>2. /\ DOMAIN Imposed(cap) = CapFields
          /\ \A f \in CapFields :
               Imposed(cap)[f] = IF f = "max_tokens" THEN Ceiling ELSE NotAnInt
      BY <2>1, <3>1
    <3>3. "max_tokens" \in CapFields
      BY DEF CapFields
    <3> QED BY <3>2, <3>3, EstimateAssumption DEF Positive, Ints
  <2>3. Max({Ceiling}) = Ceiling
    BY EstimateAssumption DEF Max
  <2>4. RequestedMax(cap) = Ceiling
    BY <1>1 DEF RequestedMax, Positive
  <2> QED BY <2>2, <2>3, <2>4
<1>2. CASE Positive(Ints(cap)) # {}
  <2>1. Ints(cap) # {}
    BY <1>2 DEF Positive
  <2> QED BY <1>2, <2>1 DEF Imposed, RequestedMax
<1> QED BY <1>1, <1>2

\* What is sent to the provider holds integers or none.
LEMMA SentType ==
  ASSUME NEW cap \in [CapFields -> Caps \cup {Ceiling, NotAnInt}]
  PROVE  cap \in [CapFields -> Int \cup {NotAnInt}]
<1>1. Ceiling \in Int
  BY EstimateAssumption
<1>2. \A v \in Caps : v \in Int
  BY EstimateAssumption
<1>3. \A f \in CapFields : cap[f] \in Int \cup {NotAnInt}
  BY <1>1, <1>2
<1> QED BY <1>3

\* A report is read as a figure between zero and the plausible maximum, or not at all.
LEMMA SaneType ==
  ASSUME NEW v \in Int \cup {NotAnInt}
  PROVE  /\ Sane(v) \in (0 .. MaxReported) \cup {NotAnInt}
         /\ v \in Nat => Sane(v) = Smaller(v, MaxReported) /\ Sane(v) # NotAnInt
         /\ v \in {NotAnInt, -1} => Sane(v) = NotAnInt
  BY EstimateAssumption DEF Sane, Smaller

\* Settling cuts a figure at its bound, and never below the reservation.
LEMMA SettledType ==
  ASSUME NEW v \in Nat, estimate \in Nat
  PROVE  /\ Limit * ChargeMultiple \in Nat
         /\ Settled(v) \in 0 .. Larger(Limit * ChargeMultiple, estimate)
         /\ Settled(v) = Smaller(v, Larger(Limit * ChargeMultiple, estimate))
         /\ Settled(v) <= v
         /\ v <= estimate => Settled(v) = v
<1> DEFINE c == Limit * ChargeMultiple
<1>1. c \in Nat
  BY EstimateAssumption
<1>2. Settled(v) = Larger(0, Smaller(v, Larger(c, estimate)))
  BY DEF Settled
<1> HIDE DEF c
<1>3. /\ Settled(v) \in 0 .. Larger(c, estimate)
      /\ Settled(v) = Smaller(v, Larger(c, estimate))
      /\ Settled(v) <= v
      /\ v <= estimate => Settled(v) = v
  BY <1>1, <1>2 DEF Larger, Smaller
<1> QED BY <1>1, <1>3 DEF c

-----------------------------------------------------------------------------
(* The inductive invariant.                                                *)

Billed == {"billed", "charged"}

Typing ==
  /\ phase \in {"idle", "estimated", "forwarded", "billed", "charged"}
  /\ body \in Bodies
  /\ sent \in [CapFields -> Caps \cup {Ceiling, NotAnInt}]
  /\ report \in [total : Int \cup {NotAnInt}, prompt : Int \cup {NotAnInt},
                 completion : Int \cup {NotAnInt}]
  /\ bill \in Nat /\ estimate \in Nat

\* What each phase leaves behind.
Stages ==
  /\ phase # "idle" => estimate = EstimateOf(body)
  /\ phase \in {"forwarded", "billed", "charged"} => sent = Imposed(body.cap)
  /\ phase \in Billed => bill >= PromptTokens
  /\ phase # "charged" => charge = 0
  /\ phase = "charged" => charge = Settled(Actual(report))

IInv == Typing /\ Stages /\ CostWithinEstimate

\* A caller's body has its caps and counts.
LEMMA BodyType ==
  ASSUME NEW b \in Bodies
  PROVE  /\ b.cap \in [CapFields -> Int \cup {NotAnInt}]
         /\ b.count \in [CountFields -> Int \cup {NotAnInt}]
         /\ b.cap \in [CapFields -> Caps \cup {NotAnInt}]
  BY EstimateAssumption DEF Bodies

\* The estimate is one token at least.
LEMMA EstimateType ==
  ASSUME NEW b \in Bodies
  PROVE  /\ RequestedMax(b.cap) * Multiplier(b.count) \in Nat
         /\ EstimateOf(b) \in Nat /\ EstimateOf(b) >= 1
         /\ EstimateOf(b) >= PromptTokens + RequestedMax(b.cap) * Multiplier(b.count)
<1> DEFINE p == RequestedMax(b.cap) * Multiplier(b.count)
<1>1. RequestedMax(b.cap) \in Nat /\ Multiplier(b.count) \in Nat
  BY BodyType, RequestedMaxType, MultiplierType
<1>2. p \in Nat
  BY <1>1
<1>3. EstimateOf(b) = Larger(1, PromptTokens + p)
  BY DEF EstimateOf
<1> HIDE DEF p
<1>4. /\ Larger(1, PromptTokens + p) \in Nat
      /\ Larger(1, PromptTokens + p) >= 1
      /\ Larger(1, PromptTokens + p) >= PromptTokens + p
  BY <1>2, EstimateAssumption DEF Larger
<1> QED BY <1>2, <1>3, <1>4 DEF p

\* The initial states satisfy the invariant.
LEMMA InitIInv == Init => IInv
<1> SUFFICES ASSUME Init PROVE IInv
  OBVIOUS
<1>1. sent \in [CapFields -> Caps \cup {Ceiling, NotAnInt}]
  BY BodyType DEF Init
<1> QED BY <1>1 DEF Init, IInv, Typing, Stages, CostWithinEstimate, Billed

\* A provider that behaves bills what was reserved at most.
LEMMA GenerateIsCovered ==
  ASSUME IInv, Generate, ~OnlyUselessCaps
  PROVE  bill' <= estimate
<1> DEFINE p == RequestedMax(body.cap) * Multiplier(body.count)
<1>1. /\ body \in Bodies /\ sent = Imposed(body.cap) /\ estimate = EstimateOf(body)
  BY DEF IInv, Typing, Stages, Generate
<1>2. Ints(body.cap) = {} \/ Positive(Ints(body.cap)) # {}
  BY DEF OnlyUselessCaps
<1>3. ProviderCap = RequestedMax(body.cap)
  BY <1>1, <1>2, BodyType, ImposedCapIsReserved DEF ProviderCap
<1>4. PICK c \in 0 .. ProviderCap * Multiplier(body.count) : bill' = PromptTokens + c
  BY DEF Generate
<1>5. p \in Nat /\ estimate \in Nat /\ estimate >= PromptTokens + p
  BY <1>1, EstimateType
<1>6. c \in 0 .. p
  BY <1>3, <1>4
<1> HIDE DEF p
<1> QED BY <1>4, <1>5, <1>6, EstimateAssumption

\* Every step preserves the invariant.
LEMMA NextIInv == IInv /\ [Next]_vars => IInv'
<1> SUFFICES ASSUME IInv, [Next]_vars PROVE IInv'
  OBVIOUS
<1> USE DEF IInv
<1>1. CASE Estimate
  BY <1>1, EstimateType
  DEF Estimate, Typing, Stages, CostWithinEstimate, Billed
<1>2. CASE Forward
  <2>1. Imposed(body.cap) \in [CapFields -> Caps \cup {Ceiling, NotAnInt}]
    BY BodyType DEF Typing, Imposed
  <2> QED BY <1>2, <2>1 DEF Forward, Typing, Stages, CostWithinEstimate, Billed
<1>3. CASE Generate
  <2>1. ProviderCap * Multiplier(body.count) \in Int
    <3>1. sent = Imposed(body.cap) /\ body \in Bodies
      BY <1>3 DEF Generate, Typing, Stages
    <3>2. Multiplier(body.count) \in Nat
      BY <3>1, BodyType, MultiplierType
    <3>3. ProviderCap \in Nat
      <4>1. sent \in [CapFields -> Int \cup {NotAnInt}]
        BY SentType DEF Typing
      <4>2. CASE Positive(Ints(sent)) = {}
        BY <4>2, EstimateAssumption DEF ProviderCap
      <4>3. CASE Positive(Ints(sent)) # {}
        <5>1. ProviderCap = RequestedMax(sent)
          BY <4>3 DEF ProviderCap, RequestedMax
        <5> QED BY <5>1, <4>1, RequestedMaxType
      <4> QED BY <4>2, <4>3
    <3> QED BY <3>2, <3>3
  <2>2. PICK c \in 0 .. ProviderCap * Multiplier(body.count) :
          bill' = PromptTokens + c /\ report' \in Reports(PromptTokens, c)
    BY <1>3 DEF Generate
  <2>3. c \in Nat
    BY <2>1, <2>2
  <2>4. bill' \in Nat /\ bill' >= PromptTokens
    BY <2>2, <2>3, EstimateAssumption
  <2>5. report' \in [total : Int \cup {NotAnInt}, prompt : Int \cup {NotAnInt},
                     completion : Int \cup {NotAnInt}]
    BY <2>2, <2>3, EstimateAssumption DEF Reports
  <2>6. CostWithinEstimate'
    <3>1. ~OnlyUselessCaps' => ~OnlyUselessCaps
      BY <1>3 DEF Generate, OnlyUselessCaps
    <3> QED BY <1>3, <3>1, GenerateIsCovered DEF Generate, CostWithinEstimate
  <2> QED BY <1>3, <2>4, <2>5, <2>6 DEF Generate, Typing, Stages, Billed
<1>4. CASE Charge
  BY <1>4 DEF Charge, Typing, Stages, CostWithinEstimate, OnlyUselessCaps, Billed, Actual, Settled
<1>5. CASE UNCHANGED vars
  BY <1>5 DEF vars, Typing, Stages, CostWithinEstimate, OnlyUselessCaps, Billed, Actual, Settled
<1> QED BY <1>1, <1>2, <1>3, <1>4, <1>5 DEF Next

\* The invariant holds of every behaviour.
LEMMA Invariant == Spec => []IInv
  BY InitIInv, NextIInv, PTL DEF Spec

-----------------------------------------------------------------------------
(* The theorems.                                                           *)

\* Whatever a provider reports, the figure in the ledger is between zero and both
\* the larger of the plausible maximum and the reservation, and settle's own bound
\* (tokens.py:209, limiter.py:295).
THEOREM ChargeIsPlausible == Spec => []TypeOK
<1>1. IInv => TypeOK
  <2> SUFFICES ASSUME IInv PROVE TypeOK
    OBVIOUS
  <2>1. phase # "idle" => estimate >= 1
    BY EstimateType DEF IInv, Typing, Stages
  <2>2. Limit * ChargeMultiple \in Nat /\ estimate \in Nat
    BY SettledType DEF IInv, Typing
  <2>3. charge \in 0 .. Larger(MaxReported, estimate)
         /\ charge \in 0 .. Larger(Limit * ChargeMultiple, estimate)
    <3>1. CASE phase # "charged"
      <4> DEFINE c == Limit * ChargeMultiple
      <4>1. c \in Nat
        BY <2>2
      <4>2. charge = 0
        BY <3>1 DEF IInv, Stages
      <4> HIDE DEF c
      <4>3. charge \in 0 .. Larger(MaxReported, estimate) /\ charge \in 0 .. Larger(c, estimate)
        BY <2>2, <4>1, <4>2, EstimateAssumption DEF Larger
      <4> QED BY <4>3 DEF c
    <3>2. CASE phase = "charged"
      <4> DEFINE a == Actual(report)
      <4>1. a \in (0 .. MaxReported) \cup {estimate}
        <5>1. /\ report.total \in Int \cup {NotAnInt} /\ report.prompt \in Int \cup {NotAnInt}
              /\ report.completion \in Int \cup {NotAnInt}
          BY DEF IInv, Typing
        <5>2. /\ Sane(report.total) \in (0 .. MaxReported) \cup {NotAnInt}
              /\ Sane(report.prompt) \in (0 .. MaxReported) \cup {NotAnInt}
              /\ Sane(report.completion) \in (0 .. MaxReported) \cup {NotAnInt}
          BY <5>1, SaneType
        <5>3. \A x, y \in 0 .. MaxReported : Smaller(x + y, MaxReported) \in 0 .. MaxReported
          BY EstimateAssumption DEF Smaller
        <5> QED BY <5>2, <5>3 DEF Actual
      <4>2. charge = Settled(a)
        BY <3>2 DEF IInv, Stages
      <4> HIDE DEF a
      <4>3. a \in Nat
        BY <2>2, <4>1, EstimateAssumption
      <4>4. charge \in 0 .. Larger(Limit * ChargeMultiple, estimate) /\ charge <= a
        BY <2>2, <4>2, <4>3, SettledType
      <4>5. charge \in Nat
        <5>1. Larger(Limit * ChargeMultiple, estimate) \in Int
          BY <2>2 DEF Larger
        <5> QED BY <4>4, <5>1
      <4>6. charge \in 0 .. Larger(MaxReported, estimate)
        BY <2>2, <4>1, <4>4, <4>5, EstimateAssumption DEF Larger
      <4> QED BY <4>4, <4>6
    <3> QED BY <3>1, <3>2
  <2>4. charge \in 0 .. Smaller(Larger(MaxReported, estimate),
                                Larger(Limit * ChargeMultiple, estimate))
    BY <2>3 DEF Smaller
  <2> QED BY <2>1, <2>4 DEF IInv, Typing, TypeOK
<1> QED BY <1>1, Invariant, PTL

\* The ceiling that was reserved is the one that was forwarded: for any caps and
\* counts a provider that behaves bills no more than the reservation, unless the
\* caller's only integer caps are zero or negative (tokens.py:161, router.py:300).
THEOREM CostIsReserved == Spec => []CostWithinEstimate
<1>1. IInv => CostWithinEstimate
  BY DEF IInv
<1> QED BY <1>1, Invariant, PTL

\* An honest report, as a total or as two parts, is what is charged, up to the
\* plausible maximum and settle's bound, and settle's bound never cuts the charge
\* of a provider that keeps to its caps (tokens.py:196-227, limiter.py:287-310).
THEOREM HonestyIsCharged == Spec => []HonestReportIsCharged
<1>1. IInv => HonestReportIsCharged
  <2> SUFFICES ASSUME IInv, phase = "charged", Honest
               PROVE  /\ charge = Smaller(Smaller(bill, MaxReported),
                                          Larger(Limit * ChargeMultiple, estimate))
                      /\ ~OnlyUselessCaps => charge = Smaller(bill, MaxReported)
    BY DEF HonestReportIsCharged
  <2>1. /\ charge = Settled(Actual(report)) /\ bill \in Nat /\ bill >= PromptTokens
        /\ estimate \in Nat
    BY DEF IInv, Typing, Stages, Billed
  <2>2. Actual(report) = Smaller(bill, MaxReported)
    <3>1. CASE report.total = bill
      BY <2>1, <3>1, SaneType DEF Actual
    <3>2. CASE /\ report.total \in {NotAnInt, -1}
               /\ report.prompt = PromptTokens /\ report.completion = bill - PromptTokens
      <4>1. Sane(report.total) = NotAnInt
        <5>1. report.total \in Int \cup {NotAnInt} /\ report.total \in {NotAnInt, -1}
          BY <3>2
        <5> QED BY <5>1, SaneType
      <4>2. /\ Sane(PromptTokens) = Smaller(PromptTokens, MaxReported)
            /\ Sane(PromptTokens) # NotAnInt
        BY SaneType, EstimateAssumption
      <4>3. /\ Sane(bill - PromptTokens) = Smaller(bill - PromptTokens, MaxReported)
            /\ Sane(bill - PromptTokens) # NotAnInt
        BY <2>1, SaneType, EstimateAssumption
      <4>4. Actual(report) =
              Smaller(Smaller(PromptTokens, MaxReported)
                        + Smaller(bill - PromptTokens, MaxReported), MaxReported)
        BY <3>2, <4>1, <4>2, <4>3 DEF Actual
      <4> QED BY <2>1, <4>4, EstimateAssumption DEF Smaller
    <3> QED BY <3>1, <3>2 DEF Honest
  <2>3. ASSUME ~OnlyUselessCaps
        PROVE  Settled(Smaller(bill, MaxReported)) = Smaller(bill, MaxReported)
    <3>1. bill <= estimate
      BY <2>3 DEF IInv, CostWithinEstimate
    <3>2. Smaller(bill, MaxReported) \in Nat /\ Smaller(bill, MaxReported) <= estimate
      BY <2>1, <3>1, EstimateAssumption DEF Smaller
    <3> QED BY <2>1, <3>2, SettledType
  <2>4. Smaller(bill, MaxReported) \in Nat
    BY <2>1, EstimateAssumption DEF Smaller
  <2>5. charge = Smaller(Smaller(bill, MaxReported), Larger(Limit * ChargeMultiple, estimate))
    BY <2>1, <2>2, <2>4, SettledType
  <2> QED BY <2>1, <2>2, <2>3, <2>5
<1> QED BY <1>1, Invariant, PTL
=============================================================================
