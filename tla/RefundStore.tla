------------------------------ MODULE RefundStore ------------------------------
(***************************************************************************)
(* src/task1_mcp_server/store.py: CustomerStore, called by threads.  Money *)
(* is counted in fractions of a cent, so that amounts may fall between     *)
(* cents as floats do; a balance is whole cents.                           *)
(***************************************************************************)
EXTENDS Integers, Sequences

CONSTANTS
  Calls,      (* calls of the store, each by a thread of its own           *)
  Customers,  (* customer ids that exist                                   *)
  Strangers,  (* customer ids that do not                                  *)
  Balance,    (* the seeded balance of each customer, in cents             *)
  Parts,      (* parts a cent is counted in                                *)
  Amounts,    (* what may be asked back, in parts                          *)
  NoCall      (* nobody holds the lock                                     *)

ASSUME StoreAssumption ==
  /\ Balance \in [Customers -> Nat]
  /\ Parts \in Nat \ {0} /\ Amounts \subseteq Nat \ {0}
  /\ Customers \cap Strangers = {} /\ NoCall \notin Calls

VARIABLES
  pc,        (* where a call is                                            *)
  lock,      (* the call that holds _lock                                  *)
  ask,       (* the customer and the amount of a call; 0 is get()          *)
  balance,   (* refundable_balance, in cents                               *)
  refunds,   (* the receipts of each customer                              *)
  charged,   (* charged_cents of a call                                    *)
  left,      (* balance_cents of a call                                    *)
  result     (* what the call returned or raised                           *)

vars == <<pc, lock, ask, balance, refunds, charged, left, result>>

Asks == [customer : Customers \cup Strangers, amount : Amounts \cup {0}]
Receipt == [amount : Nat \ {0}, remaining : Nat]

\* round(amount * 100): the nearest cent; which of two is a matter of the float.
Rounded(a) ==
  {c \in 0..a : 2 * (c * Parts - a) <= Parts /\ 2 * (a - c * Parts) <= Parts}

Finish(c, r) ==
  /\ pc' = [pc EXCEPT ![c] = "done"]
  /\ result' = [result EXCEPT ![c] = r]
  /\ lock' = NoCall

Outcome(k) == [kind |-> k, balance |-> 0, count |-> 0]

\* Mutant: the store is not locked.
AcquireUnlocked(c) ==
  /\ pc[c] = "new"
  /\ lock' = c /\ pc' = [pc EXCEPT ![c] = "locked"]
  /\ UNCHANGED <<ask, balance, refunds, charged, left, result>>

Acquire(c) ==
  /\ pc[c] = "new" /\ lock = NoCall
  /\ lock' = c /\ pc' = [pc EXCEPT ![c] = "locked"]
  /\ UNCHANGED <<ask, balance, refunds, charged, left, result>>

Unknown(c) ==
  /\ pc[c] = "locked" /\ ask[c].customer \notin Customers
  /\ Finish(c, Outcome("not_found"))
  /\ UNCHANGED <<ask, balance, refunds, charged, left>>

Get(c) ==
  /\ pc[c] = "locked" /\ ask[c].customer \in Customers /\ ask[c].amount = 0
  /\ Finish(c, [kind |-> "account", balance |-> balance[ask[c].customer],
                count |-> Len(refunds[ask[c].customer])])
  /\ UNCHANGED <<ask, balance, refunds, charged, left>>

\* Mutant: only the rounded amount is compared.
ExceedsInCents(a, cents, b) == cents > b

Exceeds(a, cents, b) == a > b * Parts \/ cents > b

\* refund, up to balance_cents: refused, too small, or quantised once.
Check(c) ==
  /\ pc[c] = "locked" /\ ask[c].customer \in Customers /\ ask[c].amount > 0
  /\ \E cents \in Rounded(ask[c].amount) :
       IF Exceeds(ask[c].amount, cents, balance[ask[c].customer])
         THEN Finish(c, Outcome("exceeds")) /\ UNCHANGED <<charged, left>>
       ELSE IF cents = 0
         THEN Finish(c, Outcome("too_small")) /\ UNCHANGED <<charged, left>>
       ELSE /\ charged' = [charged EXCEPT ![c] = cents]
            /\ left' = [left EXCEPT ![c] = balance[ask[c].customer] - cents]
            /\ pc' = [pc EXCEPT ![c] = "charging"]
            /\ UNCHANGED <<lock, result>>
  /\ UNCHANGED <<ask, balance, refunds>>

Charge(c) ==
  /\ pc[c] = "charging"
  /\ balance' = [balance EXCEPT ![ask[c].customer] = left[c]]
  /\ pc' = [pc EXCEPT ![c] = "receipt"]
  /\ UNCHANGED <<lock, ask, refunds, charged, left, result>>

\* Mutant: the receipt rounds the amount on its own.
GiveReceiptAgain(c) ==
  /\ pc[c] = "receipt"
  /\ \E cents \in Rounded(ask[c].amount) :
       refunds' = [refunds EXCEPT ![ask[c].customer] =
                     Append(@, [amount |-> cents, remaining |-> balance[ask[c].customer]])]
  /\ Finish(c, Outcome("accepted"))
  /\ UNCHANGED <<ask, balance, charged, left>>

GiveReceipt(c) ==
  /\ pc[c] = "receipt"
  /\ refunds' = [refunds EXCEPT ![ask[c].customer] =
                   Append(@, [amount |-> charged[c], remaining |-> balance[ask[c].customer]])]
  /\ Finish(c, Outcome("accepted"))
  /\ UNCHANGED <<ask, balance, charged, left>>

Init ==
  /\ pc = [c \in Calls |-> "new"] /\ lock = NoCall
  /\ ask \in [Calls -> Asks]
  /\ balance = Balance /\ refunds = [x \in Customers |-> <<>>]
  /\ charged = [c \in Calls |-> 0] /\ left = [c \in Calls |-> 0]
  /\ result = [c \in Calls |-> Outcome("none")]

Next == \E c \in Calls :
  Acquire(c) \/ Unknown(c) \/ Get(c) \/ Check(c) \/ Charge(c) \/ GiveReceipt(c)

Spec == Init /\ [][Next]_vars

-----------------------------------------------------------------------------
(* Properties                                                              *)

\* What was left of the balance of a customer after the first n receipts.
Closing(x, n) == IF n = 0 THEN Balance[x] ELSE refunds[x][n].remaining

TypeOK ==
  /\ pc \in [Calls -> {"new", "locked", "charging", "receipt", "done"}]
  /\ lock \in Calls \cup {NoCall}
  /\ balance \in [Customers -> Nat]
  /\ refunds \in [Customers -> Seq(Receipt)]
  /\ \A c \in Calls : pc[c] \in {"locked", "charging", "receipt"} => lock = c

\* refund: every receipt takes up where the one before it left the balance, and
\* whenever no call is at work the balance is what the last one says, so that the
\* receipts alone account for all that left the seed (store.py:104-109).
ReceiptsAreTheLedger ==
  \A x \in Customers :
    /\ \A n \in 1..Len(refunds[x]) :
         refunds[x][n].remaining = Closing(x, n - 1) - refunds[x][n].amount
    /\ lock = NoCall => balance[x] = Closing(x, Len(refunds[x]))

\* get: a balance and a number of refunds that belong together.
AccountIsConsistent ==
  \A c \in Calls : result[c].kind = "account" =>
    result[c].balance = Closing(ask[c].customer, result[c].count)

\* refund: the cents charged are those of the amount, and no amount above the
\* balance of the moment is accepted.
ChargedWhatWasAsked ==
  [][\A c \in Calls : pc[c] = "charging" /\ pc'[c] = "receipt" =>
       /\ ask[c].amount <= balance[ask[c].customer] * Parts
       /\ balance[ask[c].customer] - balance'[ask[c].customer] \in Rounded(ask[c].amount)]_vars
=============================================================================
