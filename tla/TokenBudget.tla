------------------------------ MODULE TokenBudget ------------------------------
(***************************************************************************)
(* What the limiter promises: a budget in which asking and holding are one *)
(* step.  No threads, no statements, no lock.  A reservation is born by a  *)
(* Grant that fits the trailing window, is reconciled once, and afterwards *)
(* only time takes its row away: what has been charged is never returned.  *)
(***************************************************************************)
EXTENDS TokenLedger

VARIABLE life   (* none, held, charged, returned or lapsed, per reservation *)

budgetVars == <<now, rows, life>>

Become(r, stage) == life' = [life EXCEPT ![r] = stage]

BudgetInit ==
  /\ now  = 0
  /\ rows = [r \in Req |-> NoRow]
  /\ life = [r \in Req |-> "none"]

\* n tokens are held for k from time c on, because they fit the window before c.
Grant(r) ==
  /\ life[r] = "none"
  /\ \E k \in Keys, n \in 0..Limit, c \in 0..now :
       /\ UsedSince(k, c - Window) + n <= Limit
       /\ rows' = [rows EXCEPT ![r] =
                     [key |-> k, created |-> c, tokens |-> n, settled |-> FALSE]]
  /\ Become(r, "held")
  /\ UNCHANGED now

\* The hold becomes a charge, in the window the request was admitted to.
Charge(r) ==
  /\ life[r] = "held"
  /\ \E n \in 0..MaxCharge :
       rows' = [rows EXCEPT ![r] = [@ EXCEPT !.tokens = n, !.settled = TRUE]]
  /\ Become(r, "charged")
  /\ UNCHANGED now

\* A hold, or what is left of one, is given back.
Return(r) ==
  /\ life[r] \in {"held", "lapsed"}
  /\ rows' = [rows EXCEPT ![r] = NoRow]
  /\ Become(r, "returned")
  /\ UNCHANGED now

\* Rows that count in no window any more are forgotten, whatever their stage.
Lapse ==
  /\ \E gone \in SUBSET Expired(now) :
       /\ rows' = [q \in Req |-> IF q \in gone THEN NoRow ELSE rows[q]]
       /\ life' = [q \in Req |-> IF q \in gone THEN "lapsed" ELSE life[q]]
  /\ UNCHANGED now

\* A charge that arrives after its hold lapsed is recorded all the same.
LateCharge(r) ==
  /\ life[r] = "lapsed"
  /\ \E k \in Keys, n \in 0..MaxCharge, c \in 0..now :
       rows' = [rows EXCEPT ![r] =
                  [key |-> k, created |-> c, tokens |-> n, settled |-> TRUE]]
  /\ Become(r, "charged")
  /\ UNCHANGED now

Pass == now' = now + 1 /\ UNCHANGED <<rows, life>>

BudgetNext ==
  \/ Lapse \/ Pass
  \/ \E r \in Req : Grant(r) \/ Charge(r) \/ Return(r) \/ LateCharge(r)

BudgetSpec == BudgetInit /\ [][BudgetNext]_budgetVars
=============================================================================
