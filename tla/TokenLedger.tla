------------------------------ MODULE TokenLedger ------------------------------
(***************************************************************************)
(* The token_usage table of src/task4_model_router/limiter.py and the      *)
(* queries over it, shared by the limiter and by the abstract budget.      *)
(*                                                                         *)
(* A member r of Req is a reservation id.  SUM(tokens) is the cardinality  *)
(* of a set of token units <<r, n>>: a row of t tokens contributes the     *)
(* units with n \in 1..t.                                                  *)
(***************************************************************************)
EXTENDS Integers, FiniteSets

CONSTANTS
  Req,         (* reservation ids                                          *)
  Keys,        (* tenant keys                                              *)
  Limit,       (* default_limit: tokens per window and key                 *)
  Window,      (* window_ms                                                *)
  NoRow        (* "the ledger has no row with this id"                     *)

Row == [key: Keys, created: Nat, tokens: Nat, settled: BOOLEAN]

ASSUME ReqAssumption    == IsFiniteSet(Req)
ASSUME LimitAssumption  == Limit \in Nat
ASSUME WindowAssumption == Window \in Nat
ASSUME NoRowAssumption  == NoRow \notin Row

VARIABLES
  now,   (* the wall clock, in ticks                                       *)
  rows   (* the token_usage table: id -> Row or NoRow                      *)

\* default_limit * MAX_CHARGE_MULTIPLE: no row ever holds more than this.
MaxChargeMultiple == 2
MaxCharge == MaxChargeMultiple * Limit
Token == 1..MaxCharge

InLedger(r) == rows[r] # NoRow

\* The units a query over tenant k and created_ms >= cutoff sums.
RowUnits(k, cutoff) ==
  {u \in Req \X Token :
     /\ InLedger(u[1])
     /\ rows[u[1]].key = k
     /\ rows[u[1]].created >= cutoff
     /\ u[2] <= rows[u[1]].tokens}

\* SELECT COALESCE(SUM(tokens), 0) ... WHERE tenant_key = k AND created_ms >= cutoff
UsedSince(k, cutoff) == Cardinality(RowUnits(k, cutoff))

\* Mutant: the boundary row, which the queries still count, is evicted too.
ExpiredInclusive(c) == {q \in Req : InLedger(q) /\ rows[q].created <= c - Window}

\* What the eviction statement may delete for a job that read the time c.
Expired(c) == {q \in Req : InLedger(q) /\ rows[q].created < c - Window}
=============================================================================
