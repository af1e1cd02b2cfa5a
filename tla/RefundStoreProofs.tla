--------------------------- MODULE RefundStoreProofs ---------------------------
(***************************************************************************)
(* Proofs about RefundStore: mutual exclusion of the calls, and what it    *)
(* buys the books.                                                         *)
(***************************************************************************)
EXTENDS RefundStore, SequenceTheorems, TLAPS

Working == {"locked", "charging", "receipt"}
Places  == {"new", "done"} \cup Working

\* The calls and the lock: whoever works holds it, and nobody else does.
LockInv ==
  /\ pc \in [Calls -> Places]
  /\ lock \in Calls \cup {NoCall}
  /\ \A c \in Calls : pc[c] \in Working <=> lock = c

\* The values of a call and of the table.
ValueInv ==
  /\ ask \in [Calls -> Asks]
  /\ balance \in [Customers -> Nat]
  /\ refunds \in [Customers -> Seq(Receipt)]
  /\ charged \in [Calls -> Nat]
  /\ left \in [Calls -> Int]
  /\ DOMAIN result = Calls

\* What a call has made sure of before it writes.
ChargeInv ==
  \A c \in Calls : pc[c] \in {"charging", "receipt"} =>
    /\ ask[c].customer \in Customers
    /\ charged[c] \in Rounded(ask[c].amount) \ {0}
    /\ pc[c] = "charging" =>
         /\ left[c] = balance[ask[c].customer] - charged[c]
         /\ left[c] \in Nat
         /\ ask[c].amount <= balance[ask[c].customer] * Parts

\* A charge that waits for its receipt.
Waiting(x) == \E c \in Calls : pc[c] = "receipt" /\ ask[c].customer = x

\* The receipts are a chain, and the balance is its end but for that charge.
BooksInv ==
  \A x \in Customers :
    /\ \A n \in 1..Len(refunds[x]) :
         refunds[x][n].remaining = Closing(x, n - 1) - refunds[x][n].amount
    /\ ~Waiting(x) => balance[x] = Closing(x, Len(refunds[x]))
    /\ \A c \in Calls : pc[c] = "receipt" /\ ask[c].customer = x =>
         balance[x] = Closing(x, Len(refunds[x])) - charged[c]

\* An account that was read points into the chain.
AccountInv ==
  \A c \in Calls : result[c].kind = "account" =>
    /\ ask[c].customer \in Customers
    /\ result[c].count \in 0..Len(refunds[ask[c].customer])
    /\ result[c].balance = Closing(ask[c].customer, result[c].count)

IInv == LockInv /\ ValueInv /\ ChargeInv /\ BooksInv /\ AccountInv

-----------------------------------------------------------------------------

LEMMA RoundedType ==
  ASSUME NEW a \in Nat, NEW c \in Rounded(a)
  PROVE  c \in Nat
BY DEF Rounded

LEMMA AskType ==
  ASSUME ValueInv, NEW c \in Calls
  PROVE  /\ ask[c].customer \in Customers \cup Strangers
         /\ ask[c].amount \in Nat
<1>1. ask[c] \in [customer : Customers \cup Strangers, amount : Amounts \cup {0}]
  BY DEF ValueInv, Asks
<1>2. Amounts \cup {0} \subseteq Nat
  BY StoreAssumption
<1> QED BY <1>1, <1>2

LEMMA InitIInv == Init => IInv
<1> SUFFICES ASSUME Init PROVE IInv
  OBVIOUS
<1> USE StoreAssumption DEF Init
<1>1. LockInv
  BY DEF LockInv, Places, Working
<1>2. ValueInv
  BY DEF ValueInv, Outcome
<1>3. ChargeInv
  BY DEF ChargeInv
<1>4. BooksInv
  BY DEF BooksInv, Closing, Waiting
<1>5. AccountInv
  BY DEF AccountInv, Outcome
<1> QED BY <1>1, <1>2, <1>3, <1>4, <1>5 DEF IInv

\* A call that returns: it is the one that held the lock.
LEMMA FinishLock ==
  ASSUME LockInv, NEW c \in Calls, NEW r, pc[c] \in Working, Finish(c, r)
  PROVE  LockInv' /\ lock' = NoCall /\ \A d \in Calls : pc'[d] \notin Working
<1>1. lock = c /\ NoCall \notin Calls
  BY StoreAssumption DEF LockInv
<1>2. \A d \in Calls : pc'[d] = IF d = c THEN "done" ELSE pc[d]
  BY DEF LockInv, Finish
<1>3. \A d \in Calls : pc'[d] \notin Working
  BY <1>1, <1>2 DEF LockInv, Working
<1>4. pc' \in [Calls -> Places] /\ lock' = NoCall
  BY DEF LockInv, Finish, Places
<1> QED BY <1>1, <1>3, <1>4 DEF LockInv

\* A step of the call that holds the lock, to its next place.
LEMMA MoveLock ==
  ASSUME LockInv, NEW c \in Calls, NEW p \in Working, lock' = c,
         pc[c] \in Working \/ lock = NoCall, pc' = [pc EXCEPT ![c] = p]
  PROVE  LockInv' /\ \A d \in Calls \ {c} : pc'[d] = pc[d] /\ pc'[d] \notin Working
<1>1. \A d \in Calls : pc'[d] = IF d = c THEN p ELSE pc[d]
  BY DEF LockInv
<1>2. \A d \in Calls \ {c} : pc[d] \notin Working
  BY StoreAssumption DEF LockInv
<1>3. pc' \in [Calls -> Places]
  BY DEF LockInv, Places
<1> QED BY <1>1, <1>2, <1>3 DEF LockInv

-----------------------------------------------------------------------------
(* The steps                                                               *)

LEMMA AcquireIInv ==
  ASSUME IInv, NEW c \in Calls, Acquire(c)
  PROVE  IInv'
<1>1. LockInv /\ ValueInv /\ ChargeInv /\ BooksInv /\ AccountInv
  BY DEF IInv
<1>2. LockInv' /\ pc'[c] = "locked" /\ \A d \in Calls \ {c} : pc'[d] = pc[d]
  <2>1. "locked" \in Working
    BY DEF Working
  <2>2. pc'[c] = "locked"
    BY <1>1 DEF Acquire, LockInv
  <2> QED BY <1>1, <2>1, <2>2, MoveLock DEF Acquire
<1>3. UNCHANGED <<ask, balance, refunds, charged, left, result>> /\ pc[c] = "new"
  BY DEF Acquire
<1>4. ValueInv' /\ AccountInv'
  BY <1>1, <1>3 DEF ValueInv, AccountInv, Closing
<1>5. ChargeInv'
  BY <1>1, <1>2, <1>3 DEF ChargeInv
<1>6. BooksInv'
  BY <1>1, <1>2, <1>3 DEF BooksInv, Waiting, Closing
<1> QED BY <1>2, <1>4, <1>5, <1>6 DEF IInv

\* A call that returns without having written.
LEMMA ReturnIInv ==
  ASSUME IInv, NEW c \in Calls, NEW r, pc[c] = "locked", Finish(c, r),
         UNCHANGED <<ask, balance, refunds, charged, left>>,
         r.kind = "account" =>
           /\ ask[c].customer \in Customers
           /\ r.count \in 0..Len(refunds[ask[c].customer])
           /\ r.balance = Closing(ask[c].customer, r.count)
  PROVE  IInv'
<1>1. LockInv /\ ValueInv /\ ChargeInv /\ BooksInv /\ AccountInv
  BY DEF IInv
<1>2. LockInv' /\ \A d \in Calls : pc[d] # "receipt" /\ pc'[d] \notin Working
  <2>1. LockInv' /\ \A d \in Calls : pc'[d] \notin Working
    BY <1>1, FinishLock DEF Working
  <2>2. \A d \in Calls : pc[d] # "receipt"
    BY <1>1 DEF LockInv, Working
  <2> QED BY <2>1, <2>2
<1>3. result' = [result EXCEPT ![c] = r] /\ DOMAIN result = Calls
  BY <1>1 DEF Finish, ValueInv
<1>4. ValueInv'
  BY <1>1, <1>3 DEF ValueInv
<1>5. ChargeInv'
  BY <1>2 DEF ChargeInv, Working
<1>6. BooksInv'
  BY <1>1, <1>2 DEF BooksInv, Waiting, Closing, Working
<1>7. AccountInv'
  <2>1. \A d \in Calls : result'[d] = IF d = c THEN r ELSE result[d]
    BY <1>3
  <2> QED BY <1>1, <2>1 DEF AccountInv, Closing
<1> QED BY <1>2, <1>4, <1>5, <1>6, <1>7 DEF IInv

LEMMA GetIInv ==
  ASSUME IInv, NEW c \in Calls, Get(c)
  PROVE  IInv'
<1> DEFINE x == ask[c].customer
           r == [kind |-> "account", balance |-> balance[x], count |-> Len(refunds[x])]
<1>1. pc[c] = "locked" /\ x \in Customers /\ Finish(c, r)
      /\ UNCHANGED <<ask, balance, refunds, charged, left>>
  BY DEF Get
<1>2. LockInv /\ ValueInv /\ BooksInv
  BY DEF IInv
<1>3. ~Waiting(x)
  BY <1>1, <1>2 DEF LockInv, Waiting, Working
<1>4. balance[x] = Closing(x, Len(refunds[x]))
  BY <1>1, <1>2, <1>3 DEF BooksInv
<1>5. Len(refunds[x]) \in Nat
  BY <1>1, <1>2, LenProperties DEF ValueInv
<1>6. r.count \in 0..Len(refunds[x]) /\ r.balance = Closing(x, r.count)
  BY <1>4, <1>5
<1> QED BY <1>1, <1>6, ReturnIInv

LEMMA CheckIInv ==
  ASSUME IInv, NEW c \in Calls, Check(c)
  PROVE  IInv'
<1> DEFINE x == ask[c].customer
<1>1. pc[c] = "locked" /\ x \in Customers /\ UNCHANGED <<ask, balance, refunds>>
  BY DEF Check
<1>2. PICK cents \in Rounded(ask[c].amount) :
        IF Exceeds(ask[c].amount, cents, balance[x])
          THEN Finish(c, Outcome("exceeds")) /\ UNCHANGED <<charged, left>>
        ELSE IF cents = 0
          THEN Finish(c, Outcome("too_small")) /\ UNCHANGED <<charged, left>>
        ELSE /\ charged' = [charged EXCEPT ![c] = cents]
             /\ left' = [left EXCEPT ![c] = balance[x] - cents]
             /\ pc' = [pc EXCEPT ![c] = "charging"]
             /\ UNCHANGED <<lock, result>>
  BY DEF Check
<1>3. CASE Finish(c, Outcome("exceeds")) /\ UNCHANGED <<charged, left>>
  BY <1>1, <1>3, ReturnIInv DEF Outcome
<1>4. CASE Finish(c, Outcome("too_small")) /\ UNCHANGED <<charged, left>>
  BY <1>1, <1>4, ReturnIInv DEF Outcome
<1>5. CASE /\ ~Exceeds(ask[c].amount, cents, balance[x]) /\ cents # 0
           /\ charged' = [charged EXCEPT ![c] = cents]
           /\ left' = [left EXCEPT ![c] = balance[x] - cents]
           /\ pc' = [pc EXCEPT ![c] = "charging"]
           /\ UNCHANGED <<lock, result>>
  <2>1. LockInv /\ ValueInv /\ ChargeInv /\ BooksInv /\ AccountInv
    BY DEF IInv
  <2>2. LockInv' /\ \A d \in Calls \ {c} : pc'[d] = pc[d] /\ pc'[d] \notin Working
    <3>1. lock' = c /\ pc[c] \in Working /\ "charging" \in Working
      BY <1>1, <1>5, <2>1 DEF LockInv, Working
    <3> QED BY <1>5, <2>1, <3>1, MoveLock
  <2>3. cents \in Nat /\ ask[c].amount \in Nat /\ balance[x] \in Nat
    BY <1>1, <2>1, AskType, RoundedType DEF ValueInv
  <2>4. cents <= balance[x] /\ ask[c].amount <= balance[x] * Parts
    <3>1. ~(ask[c].amount > balance[x] * Parts) /\ ~(cents > balance[x])
      BY <1>5 DEF Exceeds
    <3>2. balance[x] * Parts \in Nat
      BY <2>3, StoreAssumption
    <3> QED BY <2>3, <3>1, <3>2
  <2>5. /\ charged'[c] = cents /\ left'[c] = balance[x] - cents
        /\ charged' \in [Calls -> Nat] /\ left' \in [Calls -> Int]
    BY <1>5, <2>1, <2>3 DEF ValueInv
  <2>6. ValueInv'
    BY <1>1, <1>5, <2>1, <2>5 DEF ValueInv
  <2>7. ChargeInv'
    <3>1. left'[c] \in Nat
      BY <2>3, <2>4, <2>5
    <3> QED BY <1>1, <1>5, <2>2, <2>4, <2>5, <3>1 DEF ChargeInv, Working
  <2>8. BooksInv'
    <3>1. \A d \in Calls : pc[d] # "receipt" /\ pc'[d] # "receipt"
      BY <1>1, <1>5, <2>1, <2>2 DEF LockInv, Working
    <3> QED BY <1>1, <2>1, <3>1 DEF BooksInv, Waiting, Closing
  <2>9. AccountInv'
    BY <1>1, <1>5, <2>1 DEF AccountInv, Closing
  <2> QED BY <2>2, <2>6, <2>7, <2>8, <2>9 DEF IInv
<1> QED BY <1>2, <1>3, <1>4, <1>5

LEMMA ChargeIInv ==
  ASSUME IInv, NEW c \in Calls, Charge(c)
  PROVE  IInv'
<1> DEFINE x == ask[c].customer
<1>1. LockInv /\ ValueInv /\ ChargeInv /\ BooksInv /\ AccountInv
  BY DEF IInv
<1>2. /\ pc[c] = "charging" /\ pc' = [pc EXCEPT ![c] = "receipt"]
      /\ balance' = [balance EXCEPT ![x] = left[c]]
      /\ UNCHANGED <<lock, ask, refunds, charged, left, result>>
  BY DEF Charge
<1>3. LockInv' /\ \A d \in Calls \ {c} : pc'[d] = pc[d] /\ pc'[d] \notin Working
  <2>1. lock' = c /\ pc[c] \in Working /\ "receipt" \in Working
    BY <1>1, <1>2 DEF LockInv, Working
  <2> QED BY <1>1, <1>2, <2>1, MoveLock
<1>4. x \in Customers /\ left[c] \in Nat /\ left[c] = balance[x] - charged[c]
  BY <1>1, <1>2 DEF ChargeInv
<1>5. ValueInv'
  BY <1>1, <1>2, <1>4 DEF ValueInv
<1>6. ChargeInv'
  <2>1. pc'[c] = "receipt"
    BY <1>1, <1>2 DEF LockInv
  <2>2. charged[c] \in Rounded(ask[c].amount) \ {0}
    BY <1>1, <1>2 DEF ChargeInv
  <2> QED BY <1>2, <1>3, <1>4, <2>1, <2>2 DEF ChargeInv, Working
<1>7. BooksInv'
  <2>1. \A d \in Calls : pc[d] # "receipt"
    BY <1>1, <1>2 DEF LockInv, Working
  <2>2. \A d \in Calls : pc'[d] = "receipt" <=> d = c
    BY <1>1, <1>2, <2>1 DEF LockInv
  <2>3. \A y \in Customers : balance'[y] = IF y = x THEN left[c] ELSE balance[y]
    BY <1>1, <1>2 DEF ValueInv
  <2>4. \A y \in Customers : balance[y] = Closing(y, Len(refunds[y]))
    BY <1>1, <2>1 DEF BooksInv, Waiting
  <2> QED BY <1>1, <1>2, <1>4, <2>2, <2>3, <2>4 DEF BooksInv, Waiting, Closing
<1>8. AccountInv'
  BY <1>1, <1>2 DEF AccountInv, Closing
<1> QED BY <1>3, <1>5, <1>6, <1>7, <1>8 DEF IInv

\* Closing, of a list of receipts.
End(s, b, n)  == IF n = 0 THEN b ELSE s[n].remaining
Chain(s, b)   == \A n \in 1..Len(s) : s[n].remaining = End(s, b, n - 1) - s[n].amount

\* r takes up where the list ends.
Continues(s, b, r) == r.remaining = End(s, b, Len(s)) - r.amount

\* A receipt that takes up where the chain ends continues it.
LEMMA AppendToChain ==
  ASSUME NEW s \in Seq(Receipt), NEW b, NEW r \in Receipt, Chain(s, b),
         Continues(s, b, r), NEW t, t = Append(s, r)
  PROVE  /\ t \in Seq(Receipt) /\ Len(t) = Len(s) + 1
         /\ Chain(t, b)
         /\ End(t, b, Len(t)) = r.remaining
         /\ \A n \in 0..Len(s) : End(t, b, n) = End(s, b, n)
<1>1. /\ t \in Seq(Receipt) /\ Len(t) = Len(s) + 1 /\ Len(s) \in Nat
      /\ \A n \in 1..Len(s) : t[n] = s[n]
      /\ t[Len(s) + 1] = r
  BY AppendProperties, LenProperties
<1>2. \A n \in 0..Len(s) : End(t, b, n) = End(s, b, n)
  BY <1>1 DEF End
<1>3. End(t, b, Len(t)) = r.remaining
  BY <1>1 DEF End
<1>4. ASSUME NEW n \in 1..Len(t)
      PROVE  t[n].remaining = End(t, b, n - 1) - t[n].amount
  <2>1. n - 1 \in 0..Len(s) /\ (n \in 1..Len(s) \/ n = Len(s) + 1)
    BY <1>1
  <2>2. CASE n \in 1..Len(s)
    BY <1>1, <1>2, <2>1, <2>2 DEF Chain
  <2>3. CASE n = Len(s) + 1
    <3>1. n - 1 = Len(s)
      BY <1>1, <2>3
    <3> QED BY <1>1, <1>2, <2>1, <2>3, <3>1 DEF Continues
  <2> QED BY <2>1, <2>2, <2>3
<1> QED BY <1>1, <1>2, <1>3, <1>4 DEF Chain

LEMMA ReceiptIInv ==
  ASSUME IInv, NEW c \in Calls, GiveReceipt(c)
  PROVE  IInv'
<1> DEFINE x == ask[c].customer
           r == [amount |-> charged[c], remaining |-> balance[x]]
           t == Append(refunds[x], r)
<1>1. LockInv /\ ValueInv /\ ChargeInv /\ BooksInv /\ AccountInv
  BY DEF IInv
<1>2. /\ pc[c] = "receipt" /\ Finish(c, Outcome("accepted"))
      /\ refunds' = [refunds EXCEPT ![x] = t]
      /\ UNCHANGED <<ask, balance, charged, left>>
  BY DEF GiveReceipt
<1>3. LockInv' /\ \A d \in Calls : pc'[d] \notin Working
  BY <1>1, <1>2, FinishLock DEF Working
<1>4. x \in Customers /\ charged[c] \in Nat \ {0} /\ balance[x] \in Nat
  BY <1>1, <1>2 DEF ChargeInv, ValueInv
<1>5. r \in Receipt /\ r.amount = charged[c] /\ r.remaining = balance[x]
  BY <1>4 DEF Receipt
<1>6. refunds[x] \in Seq(Receipt) /\ Len(refunds[x]) \in Nat
  BY <1>1, <1>4, LenProperties DEF ValueInv
<1>7. \A y \in Customers : refunds'[y] = IF y = x THEN t ELSE refunds[y]
  BY <1>1, <1>2 DEF ValueInv
<1> HIDE DEF r, t
<1>8. /\ t \in Seq(Receipt) /\ Len(t) = Len(refunds[x]) + 1
      /\ Chain(t, Balance[x])
      /\ End(t, Balance[x], Len(t)) = balance[x]
      /\ \A n \in 0..Len(refunds[x]) : End(t, Balance[x], n) = End(refunds[x], Balance[x], n)
  <2>1. Chain(refunds[x], Balance[x])
    BY <1>1, <1>4 DEF BooksInv, Chain, End, Closing
  <2>2. balance[x] = End(refunds[x], Balance[x], Len(refunds[x])) - charged[c]
    BY <1>1, <1>2, <1>4 DEF BooksInv, End, Closing
  <2>3. r.remaining = End(refunds[x], Balance[x], Len(refunds[x])) - r.amount
    BY <1>5, <2>2
  <2>4. t = Append(refunds[x], r)
    BY DEF t
  <2>5. /\ t \in Seq(Receipt) /\ Len(t) = Len(refunds[x]) + 1
        /\ Chain(t, Balance[x])
        /\ End(t, Balance[x], Len(t)) = r.remaining
        /\ \A n \in 0..Len(refunds[x]) : End(t, Balance[x], n) = End(refunds[x], Balance[x], n)
    <3> DEFINE s == refunds[x]
               b == Balance[x]
    <3>1. s \in Seq(Receipt) /\ Chain(s, b) /\ Continues(s, b, r)
          /\ t = Append(s, r)
      BY <1>6, <2>1, <2>3, <2>4 DEF Continues
    <3> HIDE DEF s, b
    <3>2. /\ t \in Seq(Receipt) /\ Len(t) = Len(s) + 1
          /\ Chain(t, b)
          /\ End(t, b, Len(t)) = r.remaining
          /\ \A n \in 0..Len(s) : End(t, b, n) = End(s, b, n)
      <4>1. r \in Receipt
        BY <1>5
      <4>2. Chain(t, b)
        BY <3>1, <4>1, AppendToChain
      <4>3. t \in Seq(Receipt) /\ Len(t) = Len(s) + 1
        BY <3>1, <4>1, AppendToChain
      <4>4. End(t, b, Len(t)) = r.remaining
        BY <3>1, <4>1, AppendToChain DEF End
      <4>5. \A n \in 0..Len(s) : End(t, b, n) = End(s, b, n)
        BY <3>1, <4>1, AppendToChain DEF End
      <4> QED BY <4>2, <4>3, <4>4, <4>5
    <3> QED BY <3>2 DEF s, b
  <2> QED BY <1>5, <2>5
<1>9. ValueInv'
  <2>1. refunds' \in [Customers -> Seq(Receipt)]
    BY <1>1, <1>2, <1>6, <1>7, <1>8 DEF ValueInv
  <2>2. DOMAIN result' = Calls
    BY <1>1, <1>2 DEF Finish, ValueInv
  <2> QED BY <1>1, <1>2, <2>1, <2>2 DEF ValueInv
<1>10. ChargeInv'
  BY <1>3 DEF ChargeInv, Working
<1>11. BooksInv'
  <2>1. SUFFICES ASSUME NEW y \in Customers
                 PROVE  /\ Chain(refunds'[y], Balance[y])
                        /\ balance[y] = End(refunds'[y], Balance[y], Len(refunds'[y]))
    BY <1>2, <1>3 DEF BooksInv, Working, Chain, End, Closing
  <2>2. CASE y = x
    BY <1>7, <1>8, <2>2
  <2>3. CASE y # x
    <3>1. ~Waiting(y)
      <4>1. \A d \in Calls : pc[d] = "receipt" => d = c
        BY <1>1, <1>2 DEF LockInv, Working
      <4> QED BY <2>3, <4>1 DEF Waiting
    <3> QED BY <1>1, <1>7, <2>3, <3>1 DEF BooksInv, Chain, End, Closing
  <2> QED BY <2>2, <2>3
<1>12. AccountInv'
  <2>1. SUFFICES ASSUME NEW d \in Calls, result'[d].kind = "account"
                 PROVE  /\ ask[d].customer \in Customers
                        /\ result'[d].count \in 0..Len(refunds'[ask[d].customer])
                        /\ result'[d].balance = End(refunds'[ask[d].customer],
                                                    Balance[ask[d].customer], result'[d].count)
    BY <1>2 DEF AccountInv, End, Closing
  <2>2. d # c /\ result'[d] = result[d]
    BY <1>1, <1>2, <2>1 DEF Finish, ValueInv, Outcome
  <2>3. /\ ask[d].customer \in Customers
        /\ result[d].count \in 0..Len(refunds[ask[d].customer])
        /\ result[d].balance = End(refunds[ask[d].customer],
                                   Balance[ask[d].customer], result[d].count)
    BY <1>1, <2>1, <2>2 DEF AccountInv, End, Closing
  <2>4. CASE ask[d].customer = x
    <3>1. result[d].count \in 0..Len(t)
      BY <1>6, <1>8, <2>3, <2>4
    <3> QED BY <1>7, <1>8, <2>2, <2>3, <2>4, <3>1
  <2>5. CASE ask[d].customer # x
    BY <1>7, <2>2, <2>3, <2>5
  <2> QED BY <2>4, <2>5
<1> QED BY <1>3, <1>9, <1>10, <1>11, <1>12 DEF IInv

LEMMA StepIInv ==
  ASSUME IInv, [Next]_vars
  PROVE  IInv'
<1>1. ASSUME NEW c \in Calls, Acquire(c)
      PROVE  IInv'
  BY <1>1, AcquireIInv
<1>2. ASSUME NEW c \in Calls, Unknown(c)
      PROVE  IInv'
  BY <1>2, ReturnIInv DEF Unknown, Outcome
<1>3. ASSUME NEW c \in Calls, Get(c)
      PROVE  IInv'
  BY <1>3, GetIInv
<1>4. ASSUME NEW c \in Calls, Check(c)
      PROVE  IInv'
  BY <1>4, CheckIInv
<1>5. ASSUME NEW c \in Calls, Charge(c)
      PROVE  IInv'
  BY <1>5, ChargeIInv
<1>6. ASSUME NEW c \in Calls, GiveReceipt(c)
      PROVE  IInv'
  BY <1>6, ReceiptIInv
<1>7. CASE UNCHANGED vars
  BY <1>7 DEF vars, IInv, LockInv, ValueInv, ChargeInv, BooksInv, AccountInv, Waiting, Closing
<1> QED BY <1>1, <1>2, <1>3, <1>4, <1>5, <1>6, <1>7 DEF Next

LEMMA AlwaysIInv == Spec => []IInv
BY InitIInv, StepIInv, PTL DEF Spec

-----------------------------------------------------------------------------
(* The theorems                                                            *)

\* Whoever works on the table holds the lock, and the values of the table are
\* what the code takes them for (store.py:57-62, 76-77).
THEOREM StoreIsTyped == Spec => []TypeOK
<1>1. IInv => TypeOK
  BY DEF IInv, LockInv, ValueInv, TypeOK, Working, Places
<1> QED BY <1>1, AlwaysIInv, PTL

\* The receipts of every customer account for all that left the balance, however
\* many calls there are and whatever they ask (store.py:104-129).
THEOREM BooksBalance == Spec => []ReceiptsAreTheLedger
<1>1. IInv => ReceiptsAreTheLedger
  <2>1. SUFFICES ASSUME IInv, NEW x \in Customers
                 PROVE  /\ \A n \in 1..Len(refunds[x]) :
                             refunds[x][n].remaining = Closing(x, n - 1) - refunds[x][n].amount
                        /\ lock = NoCall => balance[x] = Closing(x, Len(refunds[x]))
    BY DEF ReceiptsAreTheLedger
  <2>2. LockInv /\ BooksInv
    BY <2>1 DEF IInv
  <2>3. lock = NoCall => ~Waiting(x)
    BY <2>2, StoreAssumption DEF LockInv, Waiting, Working
  <2> QED BY <2>2, <2>3 DEF BooksInv
<1> QED BY <1>1, AlwaysIInv, PTL

\* The balance and the count an account reports belong together (store.py:61-72).
THEOREM AccountsAreConsistent == Spec => []AccountIsConsistent
<1>1. IInv => AccountIsConsistent
  BY DEF IInv, AccountInv, AccountIsConsistent
<1> QED BY <1>1, AlwaysIInv, PTL

\* What leaves a balance is the amount asked, rounded, and never more than was in
\* it (store.py:84-116).
THEOREM ChargesAreAsked == Spec => ChargedWhatWasAsked
<1> DEFINE A == \A c \in Calls : pc[c] = "charging" /\ pc'[c] = "receipt" =>
       /\ ask[c].amount <= balance[ask[c].customer] * Parts
       /\ balance[ask[c].customer] - balance'[ask[c].customer] \in Rounded(ask[c].amount)
<1>1. IInv /\ [Next]_vars => [A]_vars
  <2>1. SUFFICES ASSUME IInv, Next, NEW c \in Calls, pc[c] = "charging", pc'[c] = "receipt"
                 PROVE  /\ ask[c].amount <= balance[ask[c].customer] * Parts
                        /\ balance[ask[c].customer] - balance'[ask[c].customer]
                              \in Rounded(ask[c].amount)
    OBVIOUS
  <2>2. LockInv /\ ValueInv /\ ChargeInv
    BY <2>1 DEF IInv
  <2>3. Charge(c)
    <3>1. PICK d \in Calls : Acquire(d) \/ Unknown(d) \/ Get(d) \/ Check(d)
                             \/ Charge(d) \/ GiveReceipt(d)
      BY <2>1 DEF Next
    <3>2. pc'[c] = pc[c] \/ d = c
      BY <2>2, <3>1 DEF LockInv, Acquire, Unknown, Get, Check, Charge, GiveReceipt, Finish
    <3> QED BY <2>1, <3>1, <3>2 DEF Acquire, Unknown, Get, Check, GiveReceipt
  <2>4. /\ ask[c].customer \in Customers /\ left[c] \in Nat
        /\ left[c] = balance[ask[c].customer] - charged[c]
        /\ charged[c] \in Rounded(ask[c].amount)
        /\ ask[c].amount <= balance[ask[c].customer] * Parts
    BY <2>1, <2>2 DEF ChargeInv
  <2>5. balance'[ask[c].customer] = left[c]
    BY <2>2, <2>3, <2>4 DEF Charge, ValueInv
  <2>6. charged[c] \in Nat /\ balance[ask[c].customer] \in Nat
    BY <2>2, <2>4 DEF ValueInv
  <2>7. balance[ask[c].customer] - balance'[ask[c].customer] = charged[c]
    BY <2>4, <2>5, <2>6
  <2> QED BY <2>4, <2>7
<1> QED BY <1>1, AlwaysIInv, PTL DEF Spec, ChargedWhatWasAsked
=============================================================================
