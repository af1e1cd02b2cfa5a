----------------------------- MODULE TokenEstimate -----------------------------
(***************************************************************************)
(* src/task4_model_router/tokens.py and the ceiling router.py imposes: one *)
(* request is estimated, admitted if a budget holds the estimate, forwarded *)
(* with its caps, billed by the provider and settled by what the provider  *)
(* reports.  The prompt's count is data: PromptTokens stands for the larger *)
(* of the walk and the floor.                                              *)
(***************************************************************************)
EXTENDS Integers, FiniteSets, FiniteSetsExt

CONSTANTS
  PromptTokens,     (* what the prompt is estimated at, framing included   *)
  Ceiling,          (* DEFAULT_COMPLETION_CEILING                          *)
  ProviderDefault,  (* what a provider generates when it is given no cap   *)
  MaxReported,      (* MAX_REPORTED_TOKENS                                 *)
  Limit,            (* default_limit, of the limiter                       *)
  ChargeMultiple,   (* MAX_CHARGE_MULTIPLE, of the limiter                 *)
  Caps,             (* integers a caller may put in a cap field            *)
  Counts,           (* integers a caller may put in n or best_of           *)
  NotAnInt          (* an absent field, or one that is no integer          *)

ASSUME EstimateAssumption ==
  /\ PromptTokens \in Nat /\ Ceiling \in Nat \ {0}
  /\ ProviderDefault \in Nat /\ MaxReported \in Nat
  /\ Limit \in Nat /\ ChargeMultiple \in Nat \ {0}
  /\ Caps \subseteq Int /\ Counts \subseteq Int /\ NotAnInt \notin Int

VARIABLES
  phase,     (* "idle", "estimated", "forwarded", "billed", "charged"      *)
  body,      (* the caller's cap and count fields                          *)
  sent,      (* the cap fields that went to the provider                   *)
  estimate,  (* the reservation                                            *)
  bill,      (* what the provider bills                                    *)
  report,    (* the usage object of its answer                             *)
  charge     (* what the ledger is told                                    *)

vars == <<phase, body, sent, estimate, bill, report, charge>>

CapFields == {"max_tokens", "max_completion_tokens", "max_output_tokens"}
CountFields == {"n", "best_of"}
Bodies == [cap : [CapFields -> Caps \cup {NotAnInt}],
           count : [CountFields -> Counts \cup {NotAnInt}]]

\* The integers among the fields of f.
Ints(f) == {f[x] : x \in DOMAIN f} \ {NotAnInt}
Positive(S) == {i \in S : i > 0}

\* The largest positive cap, or the default.
RequestedMax(cap) ==
  IF Positive(Ints(cap)) = {} THEN Ceiling ELSE Max(Positive(Ints(cap)))

Multiplier(count) == Max({1} \cup Ints(count))

Larger(a, b) == IF a > b THEN a ELSE b
Smaller(a, b) == IF a < b THEN a ELSE b

EstimateOf(b) ==
  Larger(1, PromptTokens + RequestedMax(b.cap) * Multiplier(b.count))

\* Mutant: no ceiling is imposed.
ImposedNever(cap) == cap

\* The ceiling is imposed unless some cap field is an integer, of any sign.
Imposed(cap) ==
  IF Ints(cap) = {} THEN [cap EXCEPT !["max_tokens"] = Ceiling] ELSE cap

Init ==
  /\ phase = "idle" /\ body \in Bodies /\ sent = body.cap
  /\ estimate = 0 /\ bill = 0 /\ charge = 0
  /\ report = [total |-> NotAnInt, prompt |-> NotAnInt, completion |-> NotAnInt]

Estimate ==
  /\ phase = "idle"
  /\ phase' = "estimated" /\ estimate' = EstimateOf(body)
  /\ UNCHANGED <<body, sent, bill, report, charge>>

\* The limiter admits no reservation beyond the whole budget.
Forward ==
  /\ phase = "estimated" /\ estimate <= Limit
  /\ phase' = "forwarded" /\ sent' = Imposed(body.cap)
  /\ UNCHANGED <<body, estimate, bill, report, charge>>

\* A provider that behaves: each of its completions stays within the largest
\* positive cap it was given, and without one runs to its own default.
ProviderCap ==
  IF Positive(Ints(sent)) = {} THEN ProviderDefault ELSE Max(Positive(Ints(sent)))

\* A usage object may be honest, partial, negative or absurd.
Reports(p, c) ==
  LET Field(v) == {NotAnInt, -1, v, MaxReported + 1}
  IN [total : Field(p + c), prompt : {NotAnInt, -1, p}, completion : {NotAnInt, c}]

Generate ==
  /\ phase = "forwarded"
  /\ \E c \in 0 .. ProviderCap * Multiplier(body.count) :
       /\ bill' = PromptTokens + c
       /\ report' \in Reports(PromptTokens, c)
  /\ phase' = "billed"
  /\ UNCHANGED <<body, sent, estimate, charge>>

Sane(v) == IF v = NotAnInt \/ v < 0 THEN NotAnInt ELSE Smaller(v, MaxReported)

\* The total when it is sane, else the sum of the parts, else the reservation.
Actual(u) ==
  IF Sane(u.total) # NotAnInt THEN Sane(u.total)
  ELSE IF Sane(u.prompt) # NotAnInt /\ Sane(u.completion) # NotAnInt
         THEN Smaller(Sane(u.prompt) + Sane(u.completion), MaxReported)
         ELSE estimate

\* Mutant: the figure goes to the ledger as it was read.
SettledAsReported(v) == Larger(0, v)

\* Mutant: the charge is capped at the reservation.
SettledAtReservation(v) == Larger(0, Smaller(v, estimate))

\* settle bounds the figure to what the budget can express.
Settled(v) == Larger(0, Smaller(v, Larger(Limit * ChargeMultiple, estimate)))

Charge ==
  /\ phase = "billed"
  /\ phase' = "charged" /\ charge' = Settled(Actual(report))
  /\ UNCHANGED <<body, sent, estimate, bill, report>>

Next == Estimate \/ Forward \/ Generate \/ Charge
Spec == Init /\ [][Next]_vars

-----------------------------------------------------------------------------
(* Types: an estimate is at least 1, and whatever a provider reports, the
   figure that goes into the ledger is between zero and both the larger of the
   plausible maximum and the reservation, and settle's own bound. *)
TypeOK ==
  /\ phase \in {"idle", "estimated", "forwarded", "billed", "charged"}
  /\ body \in Bodies
  /\ sent \in [CapFields -> Caps \cup {Ceiling, NotAnInt}]
  /\ estimate \in Nat /\ (phase # "idle" => estimate >= 1)
  /\ bill \in Nat
  /\ charge \in 0 .. Smaller(Larger(MaxReported, estimate), Larger(Limit * ChargeMultiple, estimate))

\* The caller's only integer caps are zero or negative.
OnlyUselessCaps == Ints(body.cap) # {} /\ Positive(Ints(body.cap)) = {}

(* The reservation bounds the bill of a provider that behaves: the ceiling that
   was reserved is the one that was forwarded, for every mixture of the three
   cap fields, n and best_of, unless every integer cap is zero or negative. *)
CostWithinEstimate ==
  phase \in {"billed", "charged"} /\ ~OnlyUselessCaps => bill <= estimate

Honest ==
  \/ report.total = bill
  \/ /\ report.total \in {NotAnInt, -1}
     /\ report.prompt = PromptTokens /\ report.completion = bill - PromptTokens

(* A provider that reports what it bills, as a total or as its two parts, is
   charged exactly that, up to the plausible maximum and settle's bound; and to a
   provider that behaves settle's bound makes no difference, since it is never
   below the reservation and the reservation covers the bill.  Out of the second
   part are the requests whose only integer caps are zero or negative. *)
HonestReportIsCharged ==
  phase = "charged" /\ Honest =>
    /\ charge = Smaller(Smaller(bill, MaxReported), Larger(Limit * ChargeMultiple, estimate))
    /\ ~OnlyUselessCaps => charge = Smaller(bill, MaxReported)
=============================================================================
