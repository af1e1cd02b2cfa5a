--------------------------- MODULE ModelRouterProofs ---------------------------
(***************************************************************************)
(* Proofs about TokenLimiter, LimiterRealTime and ModelRouter, for every   *)
(* value of their constants.  The limiter comes first, under any caller    *)
(* that keeps its contract; the router keeps it, so what is proved of the  *)
(* limiter holds in the whole router.                                      *)
(***************************************************************************)
EXTENDS ModelRouter, LimiterRealTime, FiniteSetTheorems, WellFoundedInduction, TLAPS

-----------------------------------------------------------------------------
(* The limiter.                                                            *)

ConstantAssumptions ==
  /\ IsFiniteSet(Req)
  /\ Limit \in Nat /\ Window \in Nat
  /\ Asks \subseteq Nat \ {0} /\ Reports \subseteq Int
  /\ NoRow \notin Row /\ NoWriter \notin Req

\* The constants are as the limiter's modules assume them.
LEMMA Constants == ConstantAssumptions
  BY ReqAssumption, LimitAssumption, WindowAssumption, AsksAssumption,
     ReportsAssumption, NoRowAssumption, NoWriterAssumption
  DEF ConstantAssumptions

-----------------------------------------------------------------------------
(* Lemmas about the operators.                                             *)

\* A nonempty set of naturals has a least element: what the hint's query picks.
LEMMA LeastOfNats ==
  ASSUME NEW S \in SUBSET Nat, S # {}
  PROVE  \E x \in S : \A y \in S : x <= y
<1>1. \A x, y \in Nat : y < x => <<y, x>> \in OpToRel(<, Nat)
  BY DEF OpToRel
<1>2. \E less : IsWellFoundedOn(less, Nat) /\ \A x, y \in Nat : y < x => <<y, x>> \in less
  BY <1>1, NatLessThanWellFounded
<1>3. PICK less : IsWellFoundedOn(less, Nat) /\ \A x, y \in Nat : y < x => <<y, x>> \in less
  BY <1>2
<1>4. PICK x \in S : \A y \in S : ~ (<<y, x>> \in less)
  BY <1>3, WFMin
<1>5. \A y \in S : ~ (y < x)
  BY <1>3, <1>4
<1>6. \A y \in S : x <= y
  BY <1>5
<1> QED BY <1>6

\* The clamp of _settle_sync never lets a charge go negative.
LEMMA ClampType ==
  ASSUME NEW n \in Nat, NEW reported \in Int
  PROVE  Clamp(n, reported) \in Nat
  BY LimitAssumption DEF Clamp, Greatest, Least, MaxCharge, MaxChargeMultiple

\* Token units of a ledger query are finitely many, so the sum is a number.
LEMMA RowUnitsFinite ==
  ASSUME NEW k, NEW cutoff
  PROVE  IsFiniteSet(RowUnits(k, cutoff)) /\ UsedSince(k, cutoff) \in Nat
<1>1. IsFiniteSet(Token)
  BY LimitAssumption, FS_Interval DEF Token, MaxCharge, MaxChargeMultiple
<1>2. IsFiniteSet(Req \X Token)
  BY <1>1, ReqAssumption, FS_Product
<1>3. RowUnits(k, cutoff) \in SUBSET (Req \X Token)
  BY DEF RowUnits
<1> QED BY <1>2, <1>3, FS_Subset, FS_CardinalityType DEF UsedSince

\* The units granted without a warning are finitely many.
LEMMA SilentUnitsFinite ==
  ASSUME NEW k
  PROVE  IsFiniteSet(SilentUnits(k)) /\ Cardinality(SilentUnits(k)) \in Nat
<1>1. IsFiniteSet(Token)
  BY LimitAssumption, FS_Interval DEF Token, MaxCharge, MaxChargeMultiple
<1>2. IsFiniteSet(Req \X Token)
  BY <1>1, ReqAssumption, FS_Product
<1>3. SilentUnits(k) \in SUBSET (Req \X Token)
  BY DEF SilentUnits
<1> QED BY <1>2, <1>3, FS_Subset, FS_CardinalityType

\* The hint of a refusal is a number of ticks.
LEMMA RetryAfterType ==
  ASSUME TypeOK, NEW n \in Nat, NEW k, NEW cutoff, NEW u
  PROVE  RetryAfter(n, k, cutoff, u) \in Nat
<1> DEFINE covering == Covering(k, cutoff, u + n - Limit)
           first    == CHOOSE c \in covering : \A d \in covering : c <= d
<1>1. covering \in SUBSET Nat
  BY DEF Covering, InWindow, TypeOK, Row, InLedger
<1>2. CASE n > Limit \/ covering = {}
  BY <1>2, WindowAssumption DEF RetryAfter
<1>3. CASE ~(n > Limit \/ covering = {})
  <2>1. first \in covering
    BY <1>1, <1>3, LeastOfNats
  <2>2. first \in Nat
    BY <2>1, <1>1
  <2>3. RetryAfter(n, k, cutoff, u) = Greatest(0, first + Window - now)
    BY <1>3 DEF RetryAfter
  <2> HIDE DEF first
  <2> QED BY <2>2, <2>3, WindowAssumption DEF Greatest, TypeOK
<1> QED BY <1>2, <1>3

-----------------------------------------------------------------------------
(* Type correctness.                                                       *)

\* Every statement of a job keeps the types: in particular a settle only ever
\* writes a natural number and a refusal only ever reports one.
LEMMA TypeStep == TypeOK /\ [LimiterNext]_limiterVars => TypeOK'
<1> SUFFICES ASSUME TypeOK, [LimiterNext]_limiterVars PROVE TypeOK'
  OBVIOUS
<1> USE Constants DEF ConstantAssumptions
<1> USE DEF TypeOK, Goto, ledgerVars, Places, Running, Reserving, Settling, Releasing,
            Answered, Dead, Row
<1>1. CASE UNCHANGED limiterVars
  BY <1>1 DEF limiterVars
<1>2. CASE Tick
  BY <1>2 DEF Tick
<1>3. ASSUME NEW r \in Req, Call(r) PROVE TypeOK'
  <2>1. CASE \E n \in Asks : TryReserve(r, n)
    BY <2>1 DEF TryReserve
  <2>2. CASE \E reported \in Reports \cup {ask[r]} : Settle(r, reported)
    <3>1. PICK reported \in Reports \cup {ask[r]} : Settle(r, reported)
      BY <2>2
    <3>2. ask[r] \in Nat /\ reported \in Int
      OBVIOUS
    <3>3. Clamp(ask[r], reported) \in Nat
      BY ONLY <3>2, ClampType
    <3> QED BY <3>1, <3>3 DEF Settle
  <2>3. CASE Release(r)
    BY <2>3 DEF Release
  <2> QED BY <1>3, <2>1, <2>2, <2>3 DEF Call
<1>4. ASSUME NEW r \in Req, Work(r) PROVE TypeOK'
  <2>1. CASE ReadClock(r)
    BY <2>1 DEF ReadClock
  <2>2. CASE Evict(r)
    <3>1. rows' \in [Req -> Row \cup {NoRow}]
      BY <2>2 DEF Evict
    <3> QED BY <2>2, <3>1 DEF Evict
  <2>3. CASE Begin(r)
    BY <2>3 DEF Begin
  <2>4. CASE Select(r)
    BY <2>4, RowUnitsFinite DEF Select
  <2>5. CASE Grant(r)
    <3>1. Hold(r) \in Row
      BY DEF Hold
    <3> QED BY <2>5, <3>1 DEF Grant
  <2>6. CASE Refuse(r)
    BY <2>6 DEF Refuse
  <2>7. CASE Hint(r)
    <3>1. RetryAfter(ask[r], key[r], clock[r] - Window, used[r]) \in Nat
      BY RetryAfterType
    <3> QED BY <2>7, <3>1 DEF Hint
  <2>8. CASE Update(r)
    <3>1. [rows[r] EXCEPT !.tokens = charge[r], !.settled = TRUE] \in Row
      BY <2>8 DEF Update, InLedger
    <3>2. Least(silent[r], charge[r]) \in Nat
      BY DEF Least
    <3> QED BY <2>8, <3>1, <3>2 DEF Update
  <2>9. CASE UpdateMisses(r)
    BY <2>9 DEF UpdateMisses
  <2>10. CASE Rerecord(r)
    <3>1. PICK stamp \in clock[r] .. now :
            /\ rows'  = [rows EXCEPT ![r] = [key |-> key[r], created |-> stamp,
                                             tokens |-> charge[r], settled |-> TRUE]]
            /\ clock' = [clock EXCEPT ![r] = stamp]
      BY <2>10 DEF Rerecord
    <3>2. stamp \in Nat
      OBVIOUS
    <3> QED BY <2>10, <3>1, <3>2 DEF Rerecord
  <2>11. CASE Delete(r)
    BY <2>11 DEF Delete
  <2> QED BY <1>4, <2>1, <2>2, <2>3, <2>4, <2>5, <2>6, <2>7, <2>8, <2>9, <2>10, <2>11
          DEF Work
<1>5. ASSUME NEW r \in Req, Raise(r) PROVE TypeOK'
  BY <1>5 DEF Raise, GiveBackLock
<1>6. ASSUME NEW r \in Req, JobDies(r) PROVE TypeOK'
  BY <1>6 DEF JobDies, GiveBackLock
<1> QED BY <1>1, <1>2, <1>3, <1>4, <1>5, <1>6 DEF LimiterNext

\* The limiter's variables always have their types.
THEOREM TypeCorrect == LimiterSpec => []TypeOK
<1>1. LimiterInit => TypeOK
  BY Constants DEF ConstantAssumptions, LimiterInit, TypeOK, Places
<1>2. TypeOK /\ [LimiterNext]_limiterVars => TypeOK'
  BY TypeStep
<1> QED BY <1>1, <1>2, PTL DEF LimiterSpec

-----------------------------------------------------------------------------
(* The write lock and the sum read under it.                               *)

\* Exactly the job between BEGIN IMMEDIATE and COMMIT or ROLLBACK has the lock.
LockInv == \A r \in Req : at[r] \in {"select", "decide"} <=> writer = r

\* A query depends on the table alone.
LEMMA SameLedger ==
  ASSUME rows' = rows, NEW k, NEW cutoff
  PROVE  RowUnits(k, cutoff)' = RowUnits(k, cutoff) /\ UsedSince(k, cutoff)' = UsedSince(k, cutoff)
  BY DEF RowUnits, UsedSince, InLedger

\* Every step hands the lock over correctly, failures and deaths included.
LEMMA LockStep == TypeOK /\ LockInv /\ [LimiterNext]_limiterVars => LockInv'
<1> SUFFICES ASSUME TypeOK, LockInv, [LimiterNext]_limiterVars PROVE LockInv'
  OBVIOUS
<1> USE NoWriterAssumption
        DEF LockInv, TypeOK, Goto, ledgerVars, Running, Reserving, Settling, Releasing, Answered
<1>1. CASE UNCHANGED limiterVars
  BY <1>1 DEF limiterVars
<1>2. CASE Tick
  BY <1>2 DEF Tick
<1>3. ASSUME NEW r \in Req, Call(r) PROVE LockInv'
  BY <1>3 DEF Call, TryReserve, Settle, Release
<1>4. ASSUME NEW r \in Req, Work(r) PROVE LockInv'
  <2>1. CASE ReadClock(r) \/ Evict(r) \/ Begin(r) \/ Select(r)
    BY <2>1 DEF ReadClock, Evict, Begin, Select
  <2>2. CASE Grant(r) \/ Refuse(r) \/ Hint(r)
    BY <2>2 DEF Grant, Refuse, Hint
  <2>3. CASE Update(r) \/ UpdateMisses(r) \/ Rerecord(r) \/ Delete(r)
    BY <2>3 DEF Update, UpdateMisses, Rerecord, Delete
  <2> QED BY <1>4, <2>1, <2>2, <2>3 DEF Work
<1>5. ASSUME NEW r \in Req, Raise(r) PROVE LockInv'
  BY <1>5 DEF Raise, GiveBackLock
<1>6. ASSUME NEW r \in Req, JobDies(r) PROVE LockInv'
  BY <1>6 DEF JobDies, GiveBackLock
<1> QED BY <1>1, <1>2, <1>3, <1>4, <1>5, <1>6 DEF LimiterNext

\* Only the lock holder, or a job that finds the lock free, writes the table.
LEMMA WritersHoldTheLock ==
  ASSUME TypeOK, LockInv, [LimiterNext]_limiterVars, NEW q \in Req, at[q] = "decide"
  PROVE  \/ rows' = rows
         \/ at'[q] = "granted"
<1> USE NoWriterAssumption DEF LockInv, TypeOK, Goto, ledgerVars
<1>1. writer = q
  OBVIOUS
<1>2. ASSUME NEW r \in Req, Work(r) PROVE rows' = rows \/ at'[q] = "granted"
  BY <1>1, <1>2 DEF Work, ReadClock, Evict, Begin, Select, Grant, Refuse, Hint, Update,
                    UpdateMisses, Rerecord, Delete, Places
<1> QED
  BY <1>2 DEF LimiterNext, limiterVars, Tick, Call, TryReserve, Settle, Release, Raise, JobDies

\* What was summed under the lock stays true until it is acted on.
LEMMA SnapshotStep ==
  TypeOK /\ LockInv /\ SnapshotHolds /\ [LimiterNext]_limiterVars => SnapshotHolds'
<1> SUFFICES ASSUME TypeOK, LockInv, SnapshotHolds, [LimiterNext]_limiterVars,
                    NEW q \in Req, at'[q] = "decide"
             PROVE  used'[q] = UsedSince(key[q], clock[q] - Window)'
  BY DEF SnapshotHolds
<1> USE DEF TypeOK, Goto, ledgerVars, Places
<1>1. CASE at[q] = "decide"
  <2>1. rows' = rows
    BY <1>1, WritersHoldTheLock
  <2>2. used'[q] = used[q] /\ key'[q] = key[q] /\ clock'[q] = clock[q]
    BY <1>1 DEF LimiterNext, limiterVars, Tick, Call, TryReserve, Settle, Release, Raise, JobDies,
                Work, ReadClock, Evict, Begin, Select, Grant, Refuse, Hint, Update,
                UpdateMisses, Rerecord, Delete
  <2>3. UsedSince(key[q], clock[q] - Window)' = UsedSince(key[q], clock[q] - Window)
    BY <2>1, <2>2 DEF UsedSince, RowUnits, InLedger
  <2> QED BY <1>1, <2>2, <2>3 DEF SnapshotHolds
<1>2. CASE at[q] # "decide"
  <2>1. Select(q)
    BY <1>2 DEF LimiterNext, limiterVars, Tick, Call, TryReserve, Settle, Release, Raise, JobDies,
                Work, ReadClock, Evict, Begin, Select, Grant, Refuse, Hint, Update,
                UpdateMisses, Rerecord, Delete, Running, Reserving, Settling, Releasing
  <2>2. UsedSince(key[q], clock[q] - Window)' = UsedSince(key[q], clock[q] - Window)
    BY <2>1 DEF Select, UsedSince, RowUnits, InLedger
  <2> QED BY <2>1, <2>2 DEF Select
<1> QED BY <1>1, <1>2

\* The sum a decision is based on is the sum when the decision is made
\* (limiter.py:195-198), however many jobs interleave.
THEOREM SnapshotsHold == LimiterSpec => [](LockInv /\ SnapshotHolds)
<1>1. LimiterInit => LockInv /\ SnapshotHolds
  BY NoWriterAssumption DEF LimiterInit, LockInv, SnapshotHolds
<1>2. TypeOK /\ LockInv /\ SnapshotHolds /\ [LimiterNext]_limiterVars
        => (LockInv /\ SnapshotHolds)'
  BY LockStep, SnapshotStep
<1> QED BY <1>1, <1>2, TypeCorrect, PTL DEF LimiterSpec

-----------------------------------------------------------------------------
(* No silent overspend.                                                    *)

\* A job's clock was read in the past.
ClockInv == \A r \in Req : clock[r] <= now

\* Before its COMMIT a reservation has neither row nor budget; a charge that is
\* being re-recorded has been warned about.
FreshInv ==
  \A r \in Req :
    /\ at[r] \in NeverGranted => silent[r] = 0 /\ ~InLedger(r)
    /\ at[r] = "rerecord" => silent[r] = 0

\* Silent budget that still counts is in the table, at least in full.
BackedInv ==
  \A r \in Req :
    silent[r] > 0 /\ clock[r] >= now - Window =>
      /\ InLedger(r)
      /\ rows[r].key = key[r]
      /\ rows[r].created = clock[r]
      /\ rows[r].tokens >= silent[r]

LinkInv == ClockInv /\ FreshInv /\ BackedInv

\* No statement, failure or tick separates silent budget from its row.
LEMMA LinkStep == TypeOK /\ LinkInv /\ [LimiterNext]_limiterVars => LinkInv'
<1> SUFFICES ASSUME TypeOK, LinkInv, [LimiterNext]_limiterVars PROVE LinkInv'
  OBVIOUS
<1> USE WindowAssumption, NoRowAssumption
        DEF TypeOK, LinkInv, ClockInv, FreshInv, BackedInv, InLedger, Goto, ledgerVars,
            NeverGranted, Places, Running, Reserving, Settling, Releasing, Answered, Dead
<1>1. CASE UNCHANGED limiterVars
  BY <1>1 DEF limiterVars
<1>2. CASE Tick
  BY <1>2 DEF Tick
<1>3. ASSUME NEW r \in Req, Call(r) PROVE LinkInv'
  BY <1>3 DEF Call, TryReserve, Settle, Release
<1>4. ASSUME NEW r \in Req, Work(r) PROVE LinkInv'
  <2>1. CASE ReadClock(r)
    BY <2>1 DEF ReadClock
  <2>2. CASE Evict(r)
    <3>1. \A q \in Req : rows'[q] = rows[q] \/
             (rows'[q] = NoRow /\ InLedger(q) /\ rows[q].created < now - Window)
      <4>1. PICK gone \in SUBSET Expired(clock[r]) :
              rows' = [q \in Req |-> IF q \in gone THEN NoRow ELSE rows[q]]
        BY <2>2 DEF Evict
      <4>2. \A q \in gone : InLedger(q) /\ rows[q].created < clock[r] - Window
        BY <4>1 DEF Expired
      <4>3. \A q \in gone : rows[q].created \in Nat
        BY <4>1, <4>2 DEF Row, Expired
      <4> QED BY <4>1, <4>2, <4>3
    <3> QED BY <2>2, <3>1 DEF Evict
  <2>3. CASE Begin(r)
    BY <2>3 DEF Begin
  <2>4. CASE Select(r)
    BY <2>4 DEF Select
  <2>5. CASE Grant(r)
    <3>1. rows'[r] \in Row /\ rows'[r].key = key[r] /\ rows'[r].created = clock[r]
            /\ rows'[r].tokens = ask[r] /\ silent'[r] = ask[r]
      BY <2>5 DEF Grant, Hold, Row
    <3>2. \A q \in Req \ {r} : rows'[q] = rows[q] /\ silent'[q] = silent[q] /\ at'[q] = at[q]
      BY <2>5 DEF Grant
    <3>3. at'[r] = "granted" /\ clock' = clock /\ key' = key /\ now' = now
      BY <2>5 DEF Grant
    <3> QED BY <3>1, <3>2, <3>3
  <2>6. CASE Refuse(r) \/ Hint(r)
    BY <2>6 DEF Refuse, Hint
  <2>7. CASE Update(r)
    <3>1. rows'[r] \in Row /\ rows'[r].key = rows[r].key /\ rows'[r].created = rows[r].created
            /\ rows'[r].tokens = charge[r]
      <4>1. rows[r] \in Row
        BY <2>7 DEF Update
      <4>2. rows'[r] = [rows[r] EXCEPT !.tokens = charge[r], !.settled = TRUE]
        BY <2>7 DEF Update
      <4> QED BY <4>1, <4>2 DEF Row
    <3>2. silent'[r] <= silent[r] /\ silent'[r] <= charge[r] /\ silent'[r] \in Nat
      BY <2>7 DEF Update, Least
    <3>3. \A q \in Req \ {r} : rows'[q] = rows[q] /\ silent'[q] = silent[q] /\ at'[q] = at[q]
      BY <2>7 DEF Update
    <3>4. at'[r] = "settled" /\ clock' = clock /\ key' = key /\ now' = now
      BY <2>7 DEF Update
    <3> QED BY <3>1, <3>2, <3>3, <3>4
  <2>8. CASE UpdateMisses(r)
    BY <2>8 DEF UpdateMisses
  <2>9. CASE Rerecord(r)
    BY <2>9 DEF Rerecord
  <2>10. CASE Delete(r)
    BY <2>10 DEF Delete
  <2> QED BY <1>4, <2>1, <2>2, <2>3, <2>4, <2>5, <2>6, <2>7, <2>8, <2>9, <2>10 DEF Work
<1>5. ASSUME NEW r \in Req, Raise(r) PROVE LinkInv'
  BY <1>5 DEF Raise
<1>6. ASSUME NEW r \in Req, JobDies(r) PROVE LinkInv'
  BY <1>6 DEF JobDies
<1> QED BY <1>1, <1>2, <1>3, <1>4, <1>5, <1>6 DEF LimiterNext

\* A fresh hold of n tokens adds at most n units to any set of units.
LEMMA AddHold ==
  ASSUME NEW U, IsFiniteSet(U), NEW r, NEW n \in Nat,
         NEW V, V \subseteq U \cup ({r} \X (1..n))
  PROVE  Cardinality(V) <= Cardinality(U) + n
<1>1. IsFiniteSet({r}) /\ Cardinality({r}) = 1
  BY FS_Singleton
<1>2. IsFiniteSet(1..n) /\ Cardinality(1..n) = n
  BY FS_Interval
<1> DEFINE H == {r} \X (1..n)
<1>3. IsFiniteSet(H) /\ Cardinality(H) = n
  <2>1. IsFiniteSet(H) /\ Cardinality(H) = Cardinality({r}) * Cardinality(1..n)
    BY <1>1, <1>2, FS_Product
  <2> QED BY <1>1, <1>2, <2>1
<1> HIDE DEF H
<1>4. IsFiniteSet(U \cup H)
      /\ Cardinality(U \cup H) = Cardinality(U) + Cardinality(H) - Cardinality(U \cap H)
  BY <1>3, FS_Union
<1>5. Cardinality(U \cap H) \in Nat
  BY FS_Intersection, FS_CardinalityType
<1>6. Cardinality(V) <= Cardinality(U \cup H) /\ Cardinality(V) \in Nat
  BY <1>4, FS_Subset, FS_CardinalityType DEF H
<1>7. Cardinality(U) \in Nat /\ Cardinality(U \cup H) \in Nat
  BY <1>4, FS_CardinalityType
<1> QED BY <1>3, <1>4, <1>5, <1>6, <1>7

\* What the sum read by a job covers: all silent budget of its tenant that
\* counts now, although the job's clock was read earlier.
LEMMA SilentIsSummed ==
  ASSUME TypeOK, LinkInv, NEW r \in Req
  PROVE  SilentUnits(key[r]) \subseteq RowUnits(key[r], clock[r] - Window)
<1> SUFFICES ASSUME NEW u \in Req \X Token, key[u[1]] = key[r],
                    clock[u[1]] >= now - Window, u[2] <= silent[u[1]]
             PROVE  u \in RowUnits(key[r], clock[r] - Window)
  BY DEF SilentUnits
<1>1. u[1] \in Req /\ u[2] \in Nat /\ u[2] > 0
  BY LimitAssumption DEF Token, MaxCharge, MaxChargeMultiple
<1>2. silent[u[1]] > 0
  BY <1>1 DEF TypeOK
<1>3. /\ InLedger(u[1]) /\ rows[u[1]].key = key[r]
      /\ rows[u[1]].created = clock[u[1]] /\ rows[u[1]].tokens >= silent[u[1]]
  BY <1>1, <1>2 DEF LinkInv, BackedInv
<1>4. rows[u[1]].created >= clock[r] - Window
  BY <1>1, <1>3, WindowAssumption DEF TypeOK, LinkInv, ClockInv
<1>5. u[2] <= rows[u[1]].tokens
  BY <1>1, <1>3 DEF TypeOK, InLedger, Row
<1> QED BY <1>3, <1>4, <1>5 DEF RowUnits

Safety == LockInv /\ SnapshotHolds /\ LinkInv /\ NoSilentOverspend

\* No step but a grant adds to what a tenant silently holds.
LEMMA SilentShrinks ==
  ASSUME TypeOK, LinkInv, [LimiterNext]_limiterVars, NEW k,
         \A r \in Req : ~Grant(r)
  PROVE  SilentUnits(k)' \subseteq SilentUnits(k)
<1> SUFFICES ASSUME NEW q \in Req, silent'[q] > 0, clock'[q] >= now' - Window
             PROVE  key'[q] = key[q] /\ clock[q] >= now - Window /\ silent'[q] <= silent[q]
  <2>1. ASSUME NEW u \in Req \X Token, key'[u[1]] = k, clock'[u[1]] >= now' - Window,
               u[2] <= silent'[u[1]], silent'[u[1]] \in Nat, silent[u[1]] \in Nat
        PROVE  key[u[1]] = k /\ clock[u[1]] >= now - Window /\ u[2] <= silent[u[1]]
    <3>1. u[1] \in Req /\ u[2] \in Nat /\ u[2] > 0
      BY LimitAssumption DEF Token, MaxCharge, MaxChargeMultiple
    <3>2. silent'[u[1]] > 0
      BY <2>1, <3>1
    <3> QED BY <2>1, <3>1, <3>2
  <2>2. TypeOK'
    BY TypeStep
  <2> QED BY <2>1, <2>2 DEF SilentUnits, TypeOK
<1> USE WindowAssumption DEF TypeOK, LinkInv, FreshInv, Goto, ledgerVars, NeverGranted,
                             Places, Running, Reserving, Settling, Releasing, Answered, Dead
<1>1. CASE UNCHANGED limiterVars
  BY <1>1 DEF limiterVars
<1>2. CASE Tick
  BY <1>2 DEF Tick
<1>3. ASSUME NEW r \in Req, Call(r) \/ Raise(r) \/ JobDies(r)
      PROVE  key'[q] = key[q] /\ clock[q] >= now - Window /\ silent'[q] <= silent[q]
  BY <1>3 DEF Call, TryReserve, Settle, Release, Raise, JobDies
<1>4. ASSUME NEW r \in Req, Work(r)
      PROVE  key'[q] = key[q] /\ clock[q] >= now - Window /\ silent'[q] <= silent[q]
  <2>1. CASE ReadClock(r)
    BY <2>1 DEF ReadClock
  <2>2. CASE Evict(r) \/ Begin(r) \/ Select(r) \/ Refuse(r) \/ Hint(r)
    BY <2>2 DEF Evict, Begin, Select, Refuse, Hint
  <2>3. CASE Update(r)
    BY <2>3 DEF Update, Least
  <2>4. CASE UpdateMisses(r) \/ Rerecord(r) \/ Delete(r)
    BY <2>4 DEF UpdateMisses, Rerecord, Delete
  <2> QED BY <1>4, <2>1, <2>2, <2>3, <2>4 DEF Work
<1> QED BY <1>1, <1>2, <1>3, <1>4 DEF LimiterNext

\* A grant leaves its tenant within the limit, by the sum it was based on.
LEMMA GrantFits ==
  ASSUME TypeOK, LockInv, SnapshotHolds, LinkInv, NEW r \in Req, Grant(r),
         NEW k \in Keys, k = key[r]
  PROVE  Cardinality(SilentUnits(k)') <= Limit
<1> DEFINE U == RowUnits(k, clock[r] - Window)
           V == SilentUnits(k)'
<1>1. V \subseteq U \cup ({r} \X (1..ask[r]))
  <2> SUFFICES ASSUME NEW u \in Req \X Token, key'[u[1]] = k,
                      clock'[u[1]] >= now' - Window, u[2] <= silent'[u[1]]
               PROVE  u \in U \cup ({r} \X (1..ask[r]))
    BY DEF Grant, SilentUnits
  <2>1. key' = key /\ clock' = clock /\ now' = now /\ silent' = [silent EXCEPT ![r] = ask[r]]
    BY DEF Grant
  <2>2. u[1] \in Req /\ u[2] \in Nat /\ u[2] > 0 /\ u = <<u[1], u[2]>>
    BY LimitAssumption DEF Token, MaxCharge, MaxChargeMultiple
  <2>3. CASE u[1] = r
    BY <2>1, <2>2, <2>3 DEF TypeOK
  <2>4. CASE u[1] # r
    <3>1. u \in SilentUnits(k)
      BY <2>1, <2>2, <2>4 DEF SilentUnits, TypeOK
    <3> QED BY <3>1, SilentIsSummed
  <2> QED BY <2>3, <2>4
<1>2. IsFiniteSet(U) /\ Cardinality(U) = used[r]
  BY RowUnitsFinite DEF SnapshotHolds, Grant, UsedSince
<1>3. ask[r] \in Nat
  BY DEF TypeOK
<1> HIDE DEF U, V
<1>4. Cardinality(V) <= used[r] + ask[r]
  BY <1>1, <1>2, <1>3, AddHold
<1>5. used[r] + ask[r] <= Limit
  BY DEF Grant, Fits
<1>6. Cardinality(V) \in Nat
  <2>1. IsFiniteSet({r} \X (1..ask[r]))
    <3>1. IsFiniteSet({r})
      BY FS_Singleton
    <3>2. IsFiniteSet(1..ask[r])
      BY <1>3, FS_Interval
    <3> QED BY <3>1, <3>2, FS_Product
  <2>2. IsFiniteSet(U \cup ({r} \X (1..ask[r])))
    BY <1>2, <2>1, FS_Union
  <2> QED BY <1>1, <2>2, FS_Subset, FS_CardinalityType
<1> QED BY <1>3, <1>4, <1>5, <1>6, LimitAssumption DEF V, TypeOK

\* The limit survives every step.
LEMMA OverspendStep ==
  TypeOK /\ Safety /\ [LimiterNext]_limiterVars => NoSilentOverspend'
<1> SUFFICES ASSUME TypeOK, Safety, [LimiterNext]_limiterVars, NEW k \in Keys
             PROVE  Cardinality(SilentUnits(k)') <= Limit
  BY DEF NoSilentOverspend
<1> USE DEF Safety
<1>1. CASE \A r \in Req : ~Grant(r)
  <2>1. SilentUnits(k)' \subseteq SilentUnits(k)
    BY <1>1, SilentShrinks
  <2>2. IsFiniteSet(SilentUnits(k)) /\ Cardinality(SilentUnits(k)) \in Nat
    BY SilentUnitsFinite
  <2>3. Cardinality(SilentUnits(k)') <= Cardinality(SilentUnits(k))
        /\ IsFiniteSet(SilentUnits(k)')
    BY <2>1, <2>2, FS_Subset
  <2> DEFINE V == SilentUnits(k)'
  <2>4. Cardinality(V) \in Nat
    <3>1. IsFiniteSet(V)
      BY <2>3
    <3> HIDE DEF V
    <3> QED BY <3>1, FS_CardinalityType
  <2> QED BY <2>2, <2>3, <2>4, LimitAssumption DEF NoSilentOverspend
<1>2. ASSUME NEW r \in Req, Grant(r) PROVE Cardinality(SilentUnits(k)') <= Limit
  <2>1. CASE k = key[r]
    BY <1>2, <2>1, GrantFits
  <2>2. CASE k # key[r]
    <3>1. SilentUnits(k)' = SilentUnits(k)
      BY <1>2, <2>2 DEF SilentUnits, Grant, TypeOK
    <3> QED BY <3>1 DEF NoSilentOverspend
  <2> QED BY <2>1, <2>2
<1> QED BY <1>1, <1>2

\* However many jobs interleave, fail or die, and whatever has been evicted, a
\* tenant's unwarned spend in the trailing window never exceeds its limit
\* (limiter.py:302-323).
THEOREM OverspendIsNeverSilent == LimiterSpec => []NoSilentOverspend
<1>1. LimiterInit => Safety
  <2> SUFFICES ASSUME LimiterInit PROVE Safety
    OBVIOUS
  <2>1. LockInv /\ SnapshotHolds /\ LinkInv
    BY NoWriterAssumption DEF LimiterInit, LockInv, SnapshotHolds, LinkInv, ClockInv, FreshInv,
                              BackedInv, InLedger
  <2>2. ASSUME NEW k \in Keys PROVE Cardinality(SilentUnits(k)) <= Limit
    <3>1. SilentUnits(k) = {}
      BY LimitAssumption DEF LimiterInit, SilentUnits, Token, MaxCharge, MaxChargeMultiple
    <3> QED BY <3>1, FS_EmptySet, LimitAssumption
  <2> QED BY <2>1, <2>2 DEF Safety, NoSilentOverspend
<1>2. TypeOK /\ Safety /\ [LimiterNext]_limiterVars => Safety'
  BY LockStep, SnapshotStep, LinkStep, OverspendStep DEF Safety
<1>3. Safety => NoSilentOverspend
  BY DEF Safety
<1> QED BY <1>1, <1>2, <1>3, TypeCorrect, PTL DEF LimiterSpec

-----------------------------------------------------------------------------
(* The stage of a reservation.                                             *)

\* How far each reservation is, what its row says of it, and that neither what
\* is held nor what is charged is more than the ledger allows a row.
StageInv ==
  \A r \in Req :
    /\ at[r] \notin NeverGranted => ask[r] <= Limit
    /\ charge[r] <= MaxCharge
    /\ at[r] = "hint" => ~Fits(r)
    /\ InLedger(r) => rows[r].created = clock[r]
    /\ InLedger(r) /\ rows[r].settled => at[r] = "settled"
    /\ at[r] \in {"rerecord", "released"} => ~InLedger(r)

\* Only the job of a reservation, and evictions, touch its row; it is settled or
\* deleted once, and re-recorded only when an eviction took it.
LEMMA StageStep ==
  TypeOK /\ LinkInv /\ StageInv /\ [LimiterNext]_limiterVars => StageInv'
<1> DEFINE Staged(r) ==
      /\ at[r] \notin NeverGranted => ask[r] <= Limit
      /\ charge[r] <= MaxCharge
      /\ at[r] = "hint" => ~Fits(r)
      /\ InLedger(r) => rows[r].created = clock[r]
      /\ InLedger(r) /\ rows[r].settled => at[r] = "settled"
      /\ at[r] \in {"rerecord", "released"} => ~InLedger(r)
<1> SUFFICES ASSUME TypeOK, LinkInv, StageInv, [LimiterNext]_limiterVars, NEW r \in Req
             PROVE  Staged(r)'
  BY DEF StageInv
<1>0. /\ Staged(r)
      /\ at[r] \in NeverGranted => ~InLedger(r)
      /\ InLedger(r) => rows[r] \in Row
      /\ ask[r] \in Nat /\ used[r] \in Nat /\ Limit \in Nat /\ MaxCharge \in Nat
  BY LimitAssumption
     DEF StageInv, LinkInv, FreshInv, TypeOK, InLedger, MaxCharge, MaxChargeMultiple
<1> DEFINE Same == /\ rows'[r] = rows[r] /\ clock'[r] = clock[r] /\ charge'[r] = charge[r]
                   /\ ask'[r] = ask[r] /\ used'[r] = used[r] /\ at'[r] = at[r]
<1>1. ASSUME Same PROVE Staged(r)'
  BY <1>0, <1>1 DEF InLedger, Fits
<1>2. CASE UNCHANGED limiterVars \/ Tick
  BY <1>1, <1>2 DEF limiterVars, Tick
<1>3. ASSUME NEW q \in Req, q # r, Call(q) \/ Work(q) \/ Raise(q) \/ JobDies(q), ~Evict(q)
      PROVE  Same
  BY <1>3 DEF TypeOK, Goto, ledgerVars, Call, TryReserve, Settle, Release, Raise,
              JobDies, Work, ReadClock, Begin, Select, Grant, Refuse, Hint, Update,
              UpdateMisses, Rerecord, Delete
<1>4. ASSUME NEW q \in Req, Evict(q) PROVE Staged(r)'
  <2>1. /\ rows'[r] = rows[r] \/ rows'[r] = NoRow
        /\ clock' = clock /\ charge' = charge /\ ask' = ask /\ used' = used
        /\ at'[r] = at[r] \/ (at[r] = "evict" /\ at'[r] = "begin")
    BY <1>4 DEF Evict, Goto, TypeOK
  <2> QED BY <1>0, <2>1 DEF InLedger, Fits, NeverGranted, Reserving
<1> USE <1>0
<1>5. CASE Call(r)
  <2>1. CASE \E n \in Asks : TryReserve(r, n)
    <3>1. /\ rows' = rows /\ clock' = clock /\ charge' = charge
          /\ at[r] = "idle" /\ at'[r] = "queued"
      BY <2>1 DEF TryReserve, Goto, ledgerVars, TypeOK
    <3> QED BY <3>1 DEF InLedger, NeverGranted, Reserving
  <2>2. CASE at[r] = "granted" /\ \E reported \in Reports \cup {ask[r]} : Settle(r, reported)
    <3>1. PICK reported \in Reports \cup {ask[r]} : Settle(r, reported)
      BY <2>2
    <3>2. /\ rows' = rows /\ clock' = clock /\ ask' = ask /\ at'[r] = "update"
          /\ charge'[r] = Clamp(ask[r], reported)
      BY <3>1 DEF Settle, Goto, ledgerVars, TypeOK
    <3>3. reported \in Int
      <4>1. reported \in Reports \cup {ask[r]} /\ ask[r] \in Int
        BY <1>0
      <4> QED BY ONLY <4>1, ReportsAssumption, Zenon
    <3>4. ask[r] <= Limit
      BY <2>2 DEF NeverGranted, Reserving
    <3>5. Clamp(ask[r], reported) <= MaxCharge
      BY <3>3, <3>4 DEF Clamp, Greatest, Least, MaxCharge, MaxChargeMultiple
    <3> QED BY <2>2, <3>2, <3>4, <3>5 DEF InLedger
  <2>3. CASE at[r] = "granted" /\ Release(r)
    <3>1. /\ rows' = rows /\ clock' = clock /\ charge' = charge /\ ask' = ask
          /\ at'[r] = "delete"
      BY <2>3 DEF Release, Goto, ledgerVars, TypeOK
    <3> QED BY <2>3, <3>1 DEF InLedger, NeverGranted, Reserving
  <2> QED BY <1>5, <2>1, <2>2, <2>3 DEF Call
<1>6. CASE Raise(r) \/ JobDies(r)
  <2> USE DEF Goto, TypeOK, Running, Reserving, Settling, Releasing
  <2>1. /\ rows' = rows /\ clock' = clock /\ charge' = charge /\ ask' = ask
        /\ at[r] \in Running /\ at'[r] \notin {"hint", "rerecord", "released"}
    <3>1. CASE Raise(r)
      BY <3>1 DEF Raise
    <3>2. CASE JobDies(r)
      BY <3>2 DEF JobDies
    <3> QED BY <1>6, <3>1, <3>2
  <2>2. at'[r] \notin NeverGranted => at[r] \notin NeverGranted
    <3>1. CASE at[r] \in Reserving
      <4>1. at'[r] \in {"reserve_failed", "reserve_lost"}
        BY <1>6, <3>1 DEF Raise, JobDies
      <4> QED BY <4>1 DEF NeverGranted
    <3>2. CASE at[r] \notin Reserving
      BY <2>1, <3>2 DEF NeverGranted
    <3> QED BY <3>1, <3>2
  <2> QED BY <2>1, <2>2 DEF InLedger
<1>7. CASE Work(r) /\ ~Evict(r)
  <2> USE DEF Goto, TypeOK, ledgerVars, InLedger, NeverGranted, Reserving
  <2>1. CASE ReadClock(r) \/ Begin(r) \/ Select(r)
    <3>1. /\ rows' = rows /\ charge' = charge /\ at[r] \in Reserving
          /\ at'[r] \in Reserving \ {"hint"}
      BY <2>1 DEF ReadClock, Begin, Select
    <3> QED BY <3>1
  <2>2. CASE Grant(r)
    <3>1. rows'[r] = Hold(r) /\ clock' = clock /\ charge' = charge /\ ask' = ask
          /\ at'[r] = "granted" /\ used[r] + ask[r] <= Limit
      BY <2>2 DEF Grant, Fits
    <3> QED BY <3>1 DEF Hold
  <2>3. CASE Refuse(r)
    <3>1. rows' = rows /\ clock' = clock /\ charge' = charge /\ ask' = ask /\ used' = used
          /\ at'[r] = "hint" /\ at[r] = "decide" /\ ~(used[r] + ask[r] <= Limit)
      BY <2>3 DEF Refuse, Fits
    <3> QED BY <3>1 DEF Fits
  <2>4. CASE Hint(r)
    <3>1. rows' = rows /\ clock' = clock /\ charge' = charge /\ ask' = ask
          /\ at'[r] = "refused" /\ at[r] = "hint"
      BY <2>4 DEF Hint
    <3> QED BY <3>1
  <2>5. CASE Update(r)
    <3>1. /\ rows'[r] = [rows[r] EXCEPT !.tokens = charge[r], !.settled = TRUE]
          /\ clock' = clock /\ charge' = charge /\ ask' = ask
          /\ at'[r] = "settled" /\ at[r] = "update" /\ rows[r] \in Row
      BY <2>5 DEF Update
    <3>2. rows'[r].created = rows[r].created
      BY <3>1 DEF Row
    <3> QED BY <2>5, <3>1, <3>2 DEF Update
  <2>6. CASE UpdateMisses(r)
    BY <2>6 DEF UpdateMisses
  <2>7. CASE Rerecord(r)
    <3>1. PICK stamp \in clock[r] .. now :
            /\ rows'[r] = [key |-> key[r], created |-> stamp, tokens |-> charge[r],
                           settled |-> TRUE]
            /\ clock'[r] = stamp
      BY <2>7 DEF Rerecord
    <3> QED BY <2>7, <3>1 DEF Rerecord
  <2>8. CASE Delete(r)
    BY <2>8 DEF Delete
  <2> QED BY <1>7, <2>1, <2>2, <2>3, <2>4, <2>5, <2>6, <2>7, <2>8 DEF Work
<1> QED BY <1>1, <1>2, <1>3, <1>4, <1>5, <1>6, <1>7 DEF LimiterNext

\* The stages are right in every behaviour.
LEMMA StagesHold == LimiterSpec => [](TypeOK /\ LockInv /\ SnapshotHolds /\ LinkInv /\ StageInv)
<1>1. LimiterInit => LockInv /\ SnapshotHolds /\ LinkInv /\ StageInv
  <2> SUFFICES ASSUME LimiterInit PROVE LockInv /\ SnapshotHolds /\ LinkInv /\ StageInv
    OBVIOUS
  <2>1. LockInv /\ SnapshotHolds /\ LinkInv
    BY NoWriterAssumption DEF LimiterInit, LockInv, SnapshotHolds, LinkInv, ClockInv, FreshInv,
                              BackedInv, InLedger
  <2>2. MaxCharge >= 0
    BY LimitAssumption DEF MaxCharge, MaxChargeMultiple
  <2>3. StageInv
    BY <2>2 DEF LimiterInit, StageInv, InLedger, NeverGranted
  <2> QED BY <2>1, <2>3
<1> QED BY <1>1, LockStep, SnapshotStep, LinkStep, StageStep, TypeCorrect, PTL DEF LimiterSpec

-----------------------------------------------------------------------------
(* The limiter implements its budget.                                      *)

\* The stage of one reservation, from its row and its job.
LifeOf(r) ==
  IF InLedger(r) THEN IF rows[r].settled THEN "charged" ELSE "held"
  ELSE IF at[r] \in NeverGranted THEN "none"
  ELSE IF at[r] = "released" THEN "returned"
  ELSE "lapsed"

\* The stage of all of them, as a step sees it.
LEMMA LifePointwise ==
  /\ Life = [r \in Req |-> LifeOf(r)]
  /\ Life' = [r \in Req |-> LifeOf(r)']
  BY DEF Life, LifeOf

\* A step that changes one reservation's stage.
LEMMA OneBecomes ==
  ASSUME NEW r \in Req, NEW stage, LifeOf(r)' = stage,
         \A q \in Req \ {r} : LifeOf(q)' = LifeOf(q)
  PROVE  Budget!Become(r, stage)
<1>1. Life' = [Life EXCEPT ![r] = stage]
  BY LifePointwise
<1> QED BY <1>1 DEF Budget!Become

\* A step that changes no row and no stage is none of the budget's.
LEMMA NothingBecomes ==
  ASSUME now' = now, rows' = rows, \A q \in Req : LifeOf(q)' = LifeOf(q)
  PROVE  UNCHANGED Budget!budgetVars
<1>1. Life' = Life
  BY LifePointwise
<1> QED BY <1>1 DEF Budget!budgetVars

\* The budget sums the same table.
LEMMA SameSum == ASSUME NEW k, NEW cutoff PROVE Budget!UsedSince(k, cutoff) = UsedSince(k, cutoff)
<1>1. Budget!Token = Token
  BY DEF Token, MaxCharge, MaxChargeMultiple, Budget!Token, Budget!MaxCharge,
         Budget!MaxChargeMultiple
<1>2. Budget!RowUnits(k, cutoff) = RowUnits(k, cutoff)
  BY <1>1 DEF RowUnits, InLedger, Budget!RowUnits, Budget!InLedger
<1>3. Budget!Cardinality(RowUnits(k, cutoff)) = Cardinality(RowUnits(k, cutoff))
  BY DEF Cardinality, Budget!Cardinality
<1> QED BY <1>2, <1>3 DEF UsedSince, Budget!UsedSince

\* Every statement is one step of the budget, or none.
LEMMA BudgetStep ==
  ASSUME TypeOK, SnapshotHolds, LinkInv, StageInv, [LimiterNext]_limiterVars
  PROVE  [Budget!BudgetNext]_(Budget!budgetVars)
<1> USE DEF Budget!BudgetNext
<1>1. \A q \in Req : /\ at[q] \in NeverGranted => ~InLedger(q)
                     /\ InLedger(q) => rows[q] \in Row
                     /\ InLedger(q) /\ rows[q].settled => at[q] = "settled"
                     /\ at[q] \in {"rerecord", "released"} => ~InLedger(q)
                     /\ now \in Nat /\ clock[q] \in Nat /\ clock[q] <= now
                     /\ key[q] \in Keys /\ ask[q] \in Nat /\ used[q] \in Nat
                     /\ charge[q] \in 0..MaxCharge
  <2>1. MaxCharge \in Nat
    BY LimitAssumption DEF MaxCharge, MaxChargeMultiple
  <2> QED BY <2>1 DEF TypeOK, LinkInv, FreshInv, ClockInv, StageInv, InLedger
<1> USE <1>1
<1>2. CASE UNCHANGED limiterVars
  <2>1. now' = now /\ rows' = rows /\ at' = at
    BY <1>2 DEF limiterVars
  <2>2. \A q \in Req : LifeOf(q)' = LifeOf(q)
    BY <2>1 DEF LifeOf, InLedger
  <2> QED BY <2>1, <2>2, NothingBecomes
<1>3. CASE Tick
  <2>1. \A q \in Req : LifeOf(q)' = LifeOf(q)
    BY <1>3 DEF Tick, LifeOf, InLedger
  <2>2. Life' = Life
    BY <2>1, LifePointwise
  <2>3. Budget!Pass
    BY <1>3, <2>2 DEF Tick, Budget!Pass
  <2> QED BY <2>3
<1>4. ASSUME NEW r \in Req, rows' = rows, now' = now,
             \A q \in Req \ {r} : at'[q] = at[q],
             \/ at[r] \in NeverGranted /\ at'[r] \in NeverGranted
             \/ /\ at[r] \notin NeverGranted \cup {"released"}
                /\ at'[r] \notin NeverGranted \cup {"released"}
      PROVE  UNCHANGED Budget!budgetVars
  <2>1. \A q \in Req : LifeOf(q)' = LifeOf(q)
    BY <1>4 DEF LifeOf, InLedger
  <2> QED BY <1>4, <2>1, NothingBecomes
<1>5. ASSUME NEW r \in Req, Call(r) \/ Raise(r) \/ JobDies(r)
      PROVE  UNCHANGED Budget!budgetVars
  <2> USE DEF Goto, TypeOK, ledgerVars, NeverGranted, Running, Reserving, Settling, Releasing
  <2>1. CASE Call(r)
    <3>1. /\ rows' = rows /\ now' = now /\ \A q \in Req \ {r} : at'[q] = at[q]
          /\ \/ at[r] = "idle" /\ at'[r] = "queued"
             \/ at[r] = "granted" /\ at'[r] \in {"update", "delete"}
      BY <2>1 DEF Call, TryReserve, Settle, Release
    <3> QED BY <1>4, <3>1
  <2>2. CASE Raise(r)
    <3>1. /\ rows' = rows /\ now' = now /\ \A q \in Req \ {r} : at'[q] = at[q]
          /\ \/ at[r] \in Reserving /\ at'[r] = "reserve_failed"
             \/ at[r] \in Settling /\ at'[r] = "settle_failed"
             \/ at[r] \in Releasing /\ at'[r] = "release_failed"
      <4>1. /\ rows' = rows /\ now' = now /\ \A q \in Req \ {r} : at'[q] = at[q]
            /\ at[r] \in Running \ {"hint"}
        BY <2>2 DEF Raise
      <4>2. CASE at[r] \in Reserving
        BY <2>2, <4>1, <4>2 DEF Raise
      <4>3. CASE at[r] \in Settling
        BY <2>2, <4>1, <4>3 DEF Raise
      <4>4. CASE at[r] \in Releasing
        BY <2>2, <4>1, <4>4 DEF Raise
      <4> QED BY <4>1, <4>2, <4>3, <4>4
    <3> QED BY <1>4, <3>1
  <2>3. CASE JobDies(r)
    <3>1. /\ rows' = rows /\ now' = now /\ \A q \in Req \ {r} : at'[q] = at[q]
          /\ \/ at[r] \in Reserving /\ at'[r] = "reserve_lost"
             \/ at[r] \in Settling \cup Releasing /\ at'[r] = "reconcile_lost"
      <4>1. /\ rows' = rows /\ now' = now /\ at[r] \in Running
            /\ at' = [at EXCEPT ![r] = IF at[r] \in Reserving THEN "reserve_lost"
                                       ELSE "reconcile_lost"]
        BY <2>3 DEF JobDies
      <4>2. \A q \in Req \ {r} : at'[q] = at[q]
        BY <4>1
      <4>3. at'[r] = IF at[r] \in Reserving THEN "reserve_lost" ELSE "reconcile_lost"
        BY <4>1
      <4> QED BY <4>1, <4>2, <4>3
    <3> QED BY <1>4, <3>1
  <2> QED BY <1>5, <2>1, <2>2, <2>3
<1>6. ASSUME NEW r \in Req, Work(r) PROVE Budget!BudgetNext \/ UNCHANGED Budget!budgetVars
  <2> USE DEF Goto, TypeOK, ledgerVars, NeverGranted, Reserving
  <2>1. CASE ReadClock(r) \/ Begin(r) \/ Select(r) \/ Refuse(r) \/ Hint(r)
    <3>1. /\ rows' = rows /\ now' = now /\ \A q \in Req \ {r} : at'[q] = at[q]
          /\ at[r] \in NeverGranted /\ at'[r] \in NeverGranted
      BY <2>1 DEF ReadClock, Begin, Select, Refuse, Hint
    <3> QED BY <1>4, <3>1
  <2>2. CASE UpdateMisses(r)
    <3>1. /\ rows' = rows /\ now' = now /\ \A q \in Req \ {r} : at'[q] = at[q]
          /\ at[r] = "update" /\ at'[r] = "rerecord"
      BY <2>2 DEF UpdateMisses
    <3> QED BY <1>4, <3>1
  <2>3. CASE Evict(r)
    <3>1. PICK gone \in SUBSET Expired(clock[r]) :
            rows' = [q \in Req |-> IF q \in gone THEN NoRow ELSE rows[q]]
      BY <2>3 DEF Evict
    <3>2. /\ now' = now /\ \A q \in Req \ {r} : at'[q] = at[q]
          /\ at[r] = "evict" /\ at'[r] = "begin"
      BY <2>3 DEF Evict
    <3>3. Expired(clock[r]) \subseteq Budget!Expired(now)
      <4> SUFFICES ASSUME NEW q \in Expired(clock[r]) PROVE q \in Budget!Expired(now)
        OBVIOUS
      <4>1. /\ q \in Req /\ InLedger(q) /\ rows[q].created < clock[r] - Window
            /\ rows[q].created \in Nat
        BY DEF Expired, Row
      <4>2. rows[q].created < now - Window
        BY <4>1, WindowAssumption
      <4> QED BY <4>1, <4>2 DEF Budget!Expired, Budget!InLedger, InLedger
    <3>4. ASSUME NEW q \in Req
          PROVE  LifeOf(q)' = IF q \in gone THEN "lapsed" ELSE LifeOf(q)
      <4>1. CASE q \in gone
        <5>1. InLedger(q) /\ q # r
          BY <3>2, <4>1 DEF Expired
        <5>2. at'[q] = at[q] /\ at[q] \notin NeverGranted /\ at[q] # "released"
          BY <3>2, <5>1
        <5>3. ~InLedger(q)'
          BY <3>1, <4>1 DEF InLedger
        <5> QED BY <4>1, <5>2, <5>3 DEF LifeOf
      <4>2. CASE q \notin gone
        <5>1. rows'[q] = rows[q]
          BY <3>1, <4>2
        <5> QED BY <3>2, <4>2, <5>1 DEF LifeOf, InLedger
      <4> QED BY <4>1, <4>2
    <3>5. Life' = [q \in Req |-> IF q \in gone THEN "lapsed" ELSE Life[q]]
      BY <3>4, LifePointwise
    <3>6. Budget!Lapse
      BY <3>1, <3>2, <3>3, <3>5 DEF Budget!Lapse
    <3> QED BY <3>6
  <2>4. CASE Grant(r)
    <3>0. at' = [at EXCEPT ![r] = "granted"]
      BY <2>4 DEF Grant
    <3>1. /\ rows' = [rows EXCEPT ![r] = Hold(r)] /\ now' = now
          /\ at[r] = "decide" /\ used[r] + ask[r] <= Limit
          /\ at'[r] = "granted" /\ \A q \in Req \ {r} : at'[q] = at[q]
      <4>1. at'[r] = "granted" /\ \A q \in Req \ {r} : at'[q] = at[q]
        BY <3>0
      <4>2. /\ rows' = [rows EXCEPT ![r] = Hold(r)] /\ now' = now
            /\ at[r] = "decide" /\ Fits(r)
        BY <2>4 DEF Grant
      <4> QED BY <4>1, <4>2 DEF Fits
    <3>2. used[r] = UsedSince(key[r], clock[r] - Window)
      BY <3>1 DEF SnapshotHolds
    <3>3. Budget!UsedSince(key[r], clock[r] - Window) + ask[r] <= Limit
      BY <3>1, <3>2, SameSum
    <3>4. ask[r] \in 0..Limit /\ clock[r] \in 0..now
      BY <3>1, LimitAssumption
    <3>5. Hold(r) \in Row /\ Hold(r) # NoRow
      <4>1. key[r] \in Keys /\ clock[r] \in Nat /\ ask[r] \in Nat
        OBVIOUS
      <4>2. Hold(r) \in Row
        BY ONLY <4>1 DEF Hold, Row
      <4> QED BY ONLY <4>2, NoRowAssumption
    <3>6. rows'[r] = Hold(r) /\ \A q \in Req \ {r} : rows'[q] = rows[q]
      BY <3>1
    <3>7. LifeOf(r)' = "held" /\ LifeOf(r) = "none"
      <4>1. InLedger(r)' /\ ~rows'[r].settled
        BY <3>5, <3>6 DEF InLedger, Hold
      <4> QED BY <3>1, <4>1 DEF LifeOf
    <3>8. Budget!Become(r, "held")
      BY <3>1, <3>6, <3>7, OneBecomes DEF LifeOf, InLedger
    <3>9. Life[r] = "none"
      BY <3>7, LifePointwise
    <3>10. Budget!Grant(r)
      BY <3>1, <3>3, <3>4, <3>8, <3>9 DEF Budget!Grant, Hold
    <3> QED BY <3>10
  <2>5. CASE Update(r)
    <3>1. /\ rows' = [rows EXCEPT ![r] = [rows[r] EXCEPT !.tokens = charge[r], !.settled = TRUE]]
          /\ now' = now /\ InLedger(r) /\ at[r] = "update"
          /\ \A q \in Req \ {r} : at'[q] = at[q]
      BY <2>5 DEF Update
    <3>2. /\ rows'[r] = [rows[r] EXCEPT !.tokens = charge[r], !.settled = TRUE]
          /\ \A q \in Req \ {r} : rows'[q] = rows[q]
      BY <3>1
    <3>3. rows'[r].settled /\ rows'[r] \in Row
      BY <3>1, <3>2 DEF Row
    <3>4. LifeOf(r)' = "charged" /\ LifeOf(r) = "held"
      <4>1. InLedger(r)'
        BY <3>3, NoRowAssumption DEF InLedger
      <4> QED BY <3>1, <3>3, <4>1 DEF LifeOf
    <3>5. Budget!Become(r, "charged")
      BY <3>1, <3>2, <3>4, OneBecomes DEF LifeOf, InLedger
    <3>6. Life[r] = "held"
      BY <3>4, LifePointwise
    <3>7. charge[r] \in 0..Budget!MaxCharge
      BY DEF MaxCharge, MaxChargeMultiple, Budget!MaxCharge, Budget!MaxChargeMultiple
    <3>8. Budget!Charge(r)
      BY <3>1, <3>5, <3>6, <3>7 DEF Budget!Charge
    <3> QED BY <3>8
  <2>6. CASE Rerecord(r)
    <3>1. PICK stamp \in clock[r] .. now :
            rows' = [rows EXCEPT ![r] = [key |-> key[r], created |-> stamp,
                                         tokens |-> charge[r], settled |-> TRUE]]
      BY <2>6 DEF Rerecord
    <3>2. now' = now /\ at[r] = "rerecord" /\ \A q \in Req \ {r} : at'[q] = at[q]
      BY <2>6 DEF Rerecord
    <3>3. /\ rows'[r] = [key |-> key[r], created |-> stamp, tokens |-> charge[r],
                         settled |-> TRUE]
          /\ \A q \in Req \ {r} : rows'[q] = rows[q]
      BY <3>1
    <3>4. stamp \in 0..now /\ charge[r] \in Nat
      OBVIOUS
    <3>5. LifeOf(r)' = "charged" /\ LifeOf(r) = "lapsed"
      <4>1. rows'[r] \in Row /\ rows'[r].settled
        BY <3>3, <3>4 DEF Row
      <4>2. InLedger(r)'
        BY <4>1, NoRowAssumption DEF InLedger
      <4> QED BY <3>2, <4>1, <4>2 DEF LifeOf
    <3>6. Budget!Become(r, "charged")
      BY <3>2, <3>3, <3>5, OneBecomes DEF LifeOf, InLedger
    <3>7. Life[r] = "lapsed"
      BY <3>5, LifePointwise
    <3>8. charge[r] \in 0..Budget!MaxCharge
      BY DEF MaxCharge, MaxChargeMultiple, Budget!MaxCharge, Budget!MaxChargeMultiple
    <3>9. Budget!LateCharge(r)
      BY <3>1, <3>2, <3>4, <3>6, <3>7, <3>8 DEF Budget!LateCharge
    <3> QED BY <3>9
  <2>7. CASE Delete(r)
    <3>1. /\ rows' = [rows EXCEPT ![r] = NoRow] /\ now' = now
          /\ at[r] = "delete" /\ at'[r] = "released" /\ \A q \in Req \ {r} : at'[q] = at[q]
      BY <2>7 DEF Delete
    <3>2. rows'[r] = NoRow /\ \A q \in Req \ {r} : rows'[q] = rows[q]
      BY <3>1
    <3>3. LifeOf(r)' = "returned" /\ LifeOf(r) \in {"held", "lapsed"}
      BY <3>1, <3>2 DEF LifeOf, InLedger
    <3>4. Budget!Become(r, "returned")
      BY <3>1, <3>2, <3>3, OneBecomes DEF LifeOf, InLedger
    <3>5. Life[r] \in {"held", "lapsed"}
      BY <3>3, LifePointwise
    <3>6. Budget!Return(r)
      BY <3>1, <3>4, <3>5 DEF Budget!Return
    <3> QED BY <3>6
  <2> QED BY <1>6, <2>1, <2>2, <2>3, <2>4, <2>5, <2>6, <2>7 DEF Work
<1> QED BY <1>2, <1>3, <1>5, <1>6 DEF LimiterNext

\* The limiter's statements, however they interleave, fail or are lost, implement
\* a budget that checks and holds in one step, settles or returns each hold once
\* and never gives back a charge (limiter.py:195-238, 302-340).
THEOREM BudgetIsImplemented == LimiterSpec => ImplementsBudget
<1>1. LimiterInit => Budget!BudgetInit
  <2> SUFFICES ASSUME LimiterInit PROVE Budget!BudgetInit
    OBVIOUS
  <2>1. \A r \in Req : LifeOf(r) = "none"
    BY DEF LimiterInit, LifeOf, InLedger, NeverGranted
  <2>2. Life = [r \in Req |-> "none"]
    BY <2>1, LifePointwise
  <2> QED BY <2>2 DEF LimiterInit, Budget!BudgetInit
<1>2. TypeOK /\ SnapshotHolds /\ LinkInv /\ StageInv /\ [LimiterNext]_limiterVars
        => [Budget!BudgetNext]_(Budget!budgetVars)
  BY BudgetStep
<1> QED BY <1>1, <1>2, StagesHold, PTL DEF LimiterSpec, ImplementsBudget, Budget!BudgetSpec

-----------------------------------------------------------------------------
(* The retry hint.                                                         *)

\* Once the rows up to c are out of the window, what they held no longer counts.
LEMMA AgedOut ==
  ASSUME TypeOK, NEW k, NEW cutoff \in Int, NEW c \in Int, NEW from \in Int,
         cutoff <= from, c < from
  PROVE  /\ UsedSince(k, from) + RunningTotal(k, cutoff, c) <= UsedSince(k, cutoff)
         /\ RunningTotal(k, cutoff, c) \in Nat
<1> DEFINE U == RowUnits(k, cutoff)
           Q == RowUnits(k, from)
           P == {u \in U : rows[u[1]].created <= c}
<1>1. \A u \in U \cup Q : rows[u[1]].created \in Int
  BY DEF RowUnits, TypeOK, InLedger, Row
<1>2. Q \subseteq U
  BY <1>1 DEF RowUnits
<1>3. P \cap Q = {}
  BY <1>1 DEF RowUnits
<1>4. IsFiniteSet(U) /\ IsFiniteSet(Q) /\ UsedSince(k, cutoff) \in Nat /\ UsedSince(k, from) \in Nat
  BY RowUnitsFinite
<1> HIDE DEF U, Q
<1>5. IsFiniteSet(P)
  BY <1>4, FS_Subset
<1> HIDE DEF P
<1>6. P \cup Q \subseteq U
  BY <1>2 DEF P
<1>7. /\ IsFiniteSet(P \cup Q)
      /\ Cardinality(P \cup Q) = Cardinality(P) + Cardinality(Q) - Cardinality(P \cap Q)
  BY <1>4, <1>5, FS_Union
<1>8. Cardinality(P \cap Q) = 0
  BY <1>3, FS_EmptySet
<1>9. Cardinality(P \cup Q) <= Cardinality(U)
  BY <1>4, <1>6, FS_Subset
<1>10. Cardinality(P) \in Nat /\ Cardinality(Q) \in Nat /\ Cardinality(U) \in Nat
  BY <1>4, <1>5, FS_CardinalityType
<1>11. Cardinality(P) + Cardinality(Q) <= Cardinality(U)
  BY <1>7, <1>8, <1>9, <1>10
<1> QED BY <1>10, <1>11 DEF P, Q, U, UsedSince, RunningTotal

\* A nonempty set of naturals below a bound has a greatest element.
LEMMA GreatestOfNats ==
  ASSUME NEW S \in SUBSET Nat, S # {}, NEW bound \in Int, \A x \in S : x < bound
  PROVE  \E x \in S : \A y \in S : y <= x
<1> DEFINE T == {bound - x : x \in S}
<1>1. T \in SUBSET Nat /\ T # {}
  <2>1. \A x \in S : bound - x \in Nat
    OBVIOUS
  <2>2. PICK x \in S : TRUE
    OBVIOUS
  <2>3. bound - x \in T
    OBVIOUS
  <2> QED BY <2>1, <2>3
<1> HIDE DEF T
<1>2. PICK z \in T : \A y \in T : z <= y
  BY <1>1, LeastOfNats
<1>3. PICK x \in S : z = bound - x
  BY <1>2 DEF T
<1>4. ASSUME NEW y \in S PROVE y <= x
  <2>1. bound - y \in T
    BY DEF T
  <2>2. z <= bound - y
    BY <1>2, <2>1
  <2> QED BY <1>3, <2>2
<1> QED BY <1>4

\* Until a row by which the deficit is covered is out of the window, less than
\* the deficit is gone.
LEMMA StillCounted ==
  ASSUME TypeOK, NEW k, NEW cutoff \in Int, NEW deficit \in Nat, deficit > 0,
         NEW from \in Int, \A c \in Covering(k, cutoff, deficit) : from <= c
  PROVE  UsedSince(k, cutoff) < UsedSince(k, from) + deficit
<1> DEFINE U == RowUnits(k, cutoff)
           Q == RowUnits(k, from)
           G == {u \in U : rows[u[1]].created < from}
           stamps == {rows[u[1]].created : u \in G}
<1>1. \A u \in U : rows[u[1]].created \in Nat
  BY DEF RowUnits, TypeOK, InLedger, Row
<1>2. U \subseteq G \cup Q
  BY <1>1 DEF RowUnits
<1>3. IsFiniteSet(U) /\ IsFiniteSet(Q) /\ IsFiniteSet(G)
  <2>1. IsFiniteSet(U) /\ IsFiniteSet(Q)
    BY RowUnitsFinite
  <2> HIDE DEF U, Q
  <2> QED BY <2>1, FS_Subset
<1>4. Cardinality(G) < deficit
  <2>1. CASE G = {}
    BY <2>1, FS_EmptySet
  <2>2. CASE G # {}
    <3>1. stamps \in SUBSET Nat /\ stamps # {} /\ \A x \in stamps : x < from
      BY <1>1, <2>2
    <3>2. PICK c \in stamps : \A y \in stamps : y <= c
      <4> HIDE DEF stamps
      <4> QED BY <3>1, GreatestOfNats
    <3>3. G = {u \in U : rows[u[1]].created <= c}
      <4>1. c \in Nat /\ c < from
        BY <3>1, <3>2
      <4>2. ASSUME NEW u \in U PROVE rows[u[1]].created < from <=> rows[u[1]].created <= c
        <5>1. CASE u \in G
          <6>1. rows[u[1]].created \in stamps
            BY <5>1
          <6> QED BY <3>2, <5>1, <6>1
        <5>2. CASE u \notin G
          BY <1>1, <4>1, <5>2
        <5> QED BY <5>1, <5>2
      <4> QED BY <4>2
    <3>4. c \in {rows[q].created : q \in InWindow(k, cutoff)}
      <4>1. PICK u \in G : c = rows[u[1]].created
        BY <3>2
      <4>2. u[1] \in InWindow(k, cutoff)
        BY <4>1 DEF RowUnits, InWindow
      <4> QED BY <4>1, <4>2
    <3>5. c < from /\ c \in Nat
      BY <3>1, <3>2
    <3>6. c \notin Covering(k, cutoff, deficit)
      BY <3>5
    <3>7. ~(RunningTotal(k, cutoff, c) >= deficit)
      BY <3>4, <3>6 DEF Covering
    <3>8. RunningTotal(k, cutoff, c) = Cardinality(G)
      BY <3>3 DEF RunningTotal
    <3>9. Cardinality(G) \in Nat
      BY <1>3, FS_CardinalityType
    <3> QED BY <3>7, <3>8, <3>9
  <2> QED BY <2>1, <2>2
<1> HIDE DEF U, Q, G, stamps
<1>5. /\ IsFiniteSet(G \cup Q)
      /\ Cardinality(G \cup Q) = Cardinality(G) + Cardinality(Q) - Cardinality(G \cap Q)
  BY <1>3, FS_Union
<1>6. IsFiniteSet(G \cap Q)
  BY <1>3, FS_Intersection
<1>7. Cardinality(U) <= Cardinality(G \cup Q)
  BY <1>2, <1>5, FS_Subset
<1>8. /\ Cardinality(G) \in Nat /\ Cardinality(Q) \in Nat /\ Cardinality(U) \in Nat
      /\ Cardinality(G \cap Q) \in Nat
  BY <1>3, <1>6, FS_CardinalityType
<1>9. Cardinality(U) < Cardinality(Q) + deficit
  BY <1>4, <1>5, <1>7, <1>8
<1> QED BY <1>9 DEF U, Q, UsedSince

\* No row is stamped later than now.
LEMMA NothingFromTheFuture ==
  ASSUME TypeOK, LinkInv, StageInv, NEW k, NEW from \in Int, from > now
  PROVE  UsedSince(k, from) = 0
<1>1. RowUnits(k, from) = {}
  <2> SUFFICES ASSUME NEW q \in Req, InLedger(q) PROVE ~(rows[q].created >= from)
    BY DEF RowUnits
  <2>1. rows[q].created = clock[q] /\ clock[q] \in Nat /\ clock[q] <= now
    BY DEF StageInv, LinkInv, ClockInv, TypeOK
  <2>2. now \in Nat
    BY DEF TypeOK
  <2> QED BY <2>1, <2>2
<1> QED BY <1>1, FS_EmptySet DEF UsedSince

\* A hint computed by the query, for a request that could fit and a ledger that
\* is still the one that refused it, is the first moment from which it fits.
LEMMA HintIsFirst ==
  ASSUME TypeOK, LinkInv, StageInv,
         NEW r \in Req, at[r] = "hint",
         hint' = [hint EXCEPT ![r] = RetryAfter(ask[r], key[r], clock[r] - Window, used[r])],
         ask[r] <= Limit,
         UsedSince(key[r], clock[r] - Window) = used[r],
         NEW t \in Int, now <= t
  PROVE  /\ hint'[r] \in Nat
         /\ t > now + hint'[r] => UsedSince(key[r], t - Window) + ask[r] <= Limit
         /\ t < now + hint'[r] => ~(UsedSince(key[r], t - Window) + ask[r] <= Limit)
<1> DEFINE k == key[r]
           cutoff == clock[r] - Window
           deficit == used[r] + ask[r] - Limit
           covering == Covering(k, cutoff, deficit)
           first == CHOOSE c \in covering : \A d \in covering : c <= d
<1>1. /\ now \in Nat /\ clock[r] \in Nat /\ clock[r] <= now /\ Window \in Nat /\ Limit \in Nat
      /\ ask[r] \in Nat /\ used[r] \in Nat /\ ask[r] <= Limit
      /\ used[r] + ask[r] > Limit
  BY WindowAssumption, LimitAssumption DEF TypeOK, LinkInv, ClockInv, StageInv, Fits
<1>2. /\ cutoff \in Int /\ deficit \in Nat /\ deficit > 0 /\ deficit <= used[r]
      /\ cutoff <= t - Window /\ t - Window \in Int
  BY <1>1
<1>3. hint'[r] = RetryAfter(ask[r], k, cutoff, used[r]) /\ hint'[r] \in Nat
  BY RetryAfterType DEF TypeOK
<1> HIDE DEF cutoff, deficit
<1>4. covering # {}
  <2> SUFFICES ASSUME covering = {} PROVE FALSE
    OBVIOUS
  <2>1. now + 1 \in Int /\ \A c \in Covering(k, cutoff, deficit) : now + 1 <= c
    BY <1>1
  <2>2. UsedSince(k, cutoff) < UsedSince(k, now + 1) + deficit
    BY ONLY TypeOK, <1>2, <2>1, StillCounted
  <2>4. UsedSince(k, now + 1) = 0
    BY <1>1, NothingFromTheFuture
  <2>5. UsedSince(k, cutoff) = used[r]
    BY DEF cutoff
  <2> QED BY <1>1, <1>2, <2>2, <2>4, <2>5
<1>5. covering \in SUBSET Nat
  BY DEF Covering, InWindow, TypeOK, Row, InLedger
<1> HIDE DEF covering
<1>6. first \in covering /\ \A d \in covering : first <= d
  BY <1>4, <1>5, LeastOfNats
<1>7. first \in Nat
  BY <1>5, <1>6
<1> HIDE DEF first
<1>8. hint'[r] = Greatest(0, first + Window - now)
  <2>1. RetryAfter(ask[r], k, cutoff, used[r]) = Greatest(0, first + Window - now)
    BY <1>1, <1>4 DEF RetryAfter, first, covering, deficit
  <2> QED BY <1>3, <2>1
<1>9. UsedSince(k, cutoff) = used[r] /\ UsedSince(k, t - Window) \in Nat
  BY RowUnitsFinite DEF cutoff
<1> HIDE DEF k
<1>10. ASSUME t > now + hint'[r]
       PROVE  UsedSince(k, t - Window) + ask[r] <= Limit
  <2>1. first < t - Window
    BY <1>1, <1>3, <1>7, <1>8, <1>10 DEF Greatest
  <2>2. /\ UsedSince(k, t - Window) + RunningTotal(k, cutoff, first) <= UsedSince(k, cutoff)
        /\ RunningTotal(k, cutoff, first) \in Nat
    BY <1>2, <1>7, <2>1, AgedOut
  <2>3. RunningTotal(k, cutoff, first) >= deficit
    BY <1>6 DEF covering, Covering
  <2> QED BY <1>1, <1>2, <1>9, <2>2, <2>3 DEF deficit
<1>11. ASSUME t < now + hint'[r]
       PROVE  ~(UsedSince(k, t - Window) + ask[r] <= Limit)
  <2>1. t - Window < first
    BY <1>1, <1>3, <1>7, <1>8, <1>11 DEF Greatest
  <2>2. \A d \in Covering(k, cutoff, deficit) : t - Window <= d
    <3>1. \A d \in covering : d \in Nat /\ first <= d
      BY <1>5, <1>6
    <3> QED BY <1>2, <1>7, <2>1, <3>1 DEF covering
  <2>3. UsedSince(k, cutoff) < UsedSince(k, t - Window) + deficit
    BY <1>2, <2>2, StillCounted
  <2> QED BY <1>1, <1>2, <1>9, <2>3 DEF deficit
<1> QED BY <1>3, <1>10, <1>11 DEF k

\* Whether its query answers or raises, a hint is never early, and late only as
\* the fallback.
LEMMA HintIsSafe ==
  ASSUME TypeOK, LinkInv, StageInv, NEW r \in Req, at[r] = "hint", Hint(r), ask[r] <= Limit,
         UsedSince(key[r], clock[r] - Window) = used[r],
         NEW t \in Int, now <= t
  PROVE  /\ hint'[r] \in Nat
         /\ t > now + hint'[r] => UsedSince(key[r], t - Window) + ask[r] <= Limit
         /\ t < now + hint'[r] /\ ~IsFallback(hint'[r]) =>
              ~(UsedSince(key[r], t - Window) + ask[r] <= Limit)
<1>1. CASE hint' = [hint EXCEPT ![r] = RetryAfter(ask[r], key[r], clock[r] - Window, used[r])]
  BY <1>1, HintIsFirst
<1>2. CASE DbFaults /\ hint' = [hint EXCEPT ![r] = Window]
  <2>1. /\ hint'[r] = Window /\ Window \in Nat /\ now \in Nat
        /\ ask[r] \in Nat /\ IsFallback(hint'[r])
    BY <1>2, WindowAssumption DEF TypeOK, IsFallback
  <2>2. ASSUME t > now + Window PROVE UsedSince(key[r], t - Window) = 0
    <3>1. t - Window \in Int /\ t - Window > now
      BY <2>1, <2>2
    <3> QED BY <3>1, NothingFromTheFuture
  <2> QED BY <2>1, <2>2
<1> QED BY <1>1, <1>2 DEF Hint

\* Only the job itself computes its hint.
LEMMA HintIsOwn ==
  ASSUME TypeOK, [LimiterNext]_limiterVars, NEW r \in Req, at[r] = "hint", at'[r] = "refused"
  PROVE  Hint(r)
<1> USE DEF TypeOK, Goto, Running, Reserving, Settling, Releasing
<1>1. CASE UNCHANGED limiterVars \/ Tick
  BY <1>1 DEF limiterVars, Tick
<1>2. ASSUME NEW q \in Req, Call(q) PROVE FALSE
  BY <1>2 DEF Call, TryReserve, Settle, Release
<1>3. ASSUME NEW q \in Req, Work(q) PROVE Hint(r)
  BY <1>3 DEF Work, ReadClock, Evict, Begin, Select, Grant, Refuse, Hint, Update, UpdateMisses,
              Rerecord, Delete
<1>4. ASSUME NEW q \in Req, Raise(q) PROVE FALSE
  <2>1. q # r
    BY <1>4 DEF Raise
  <2> QED BY <1>4, <2>1 DEF Raise
<1>5. ASSUME NEW q \in Req, JobDies(q) PROVE FALSE
  BY <1>5 DEF JobDies
<1> QED BY <1>1, <1>2, <1>3, <1>4, <1>5 DEF LimiterNext

\* A refused request that could fit is told the very moment it will, on the
\* ledger that refused it, and no earlier one when the query of the hint raises
\* (limiter.py:258-283).
THEOREM HintsAreExact == LimiterSpec => HintIsExact
<1>1. TypeOK /\ LinkInv /\ StageInv /\ [LimiterNext]_limiterVars =>
        [\A r \in Req :
           /\ at[r] = "hint" /\ at'[r] = "refused"
           /\ ask[r] <= Limit
           /\ UsedSince(key[r], clock[r] - Window) = used[r]
           => \A t \in now .. now + Window + 1 :
                LET Fitting == UsedSince(key[r], t - Window) + ask[r] <= Limit
                IN  /\ t > now + hint'[r] => Fitting
                    /\ t < now + hint'[r] /\ ~IsFallback(hint'[r]) => ~Fitting]_limiterVars
  <2> SUFFICES ASSUME TypeOK, LinkInv, StageInv, [LimiterNext]_limiterVars, NEW r \in Req,
                      at[r] = "hint", at'[r] = "refused", ask[r] <= Limit,
                      UsedSince(key[r], clock[r] - Window) = used[r],
                      NEW t \in now .. now + Window + 1
               PROVE  /\ t > now + hint'[r] => UsedSince(key[r], t - Window) + ask[r] <= Limit
                      /\ t < now + hint'[r] /\ ~IsFallback(hint'[r]) =>
                           ~(UsedSince(key[r], t - Window) + ask[r] <= Limit)
    OBVIOUS
  <2>1. Hint(r)
    BY HintIsOwn
  <2>2. t \in Int /\ now <= t
    BY WindowAssumption DEF TypeOK
  <2> QED BY <2>1, <2>2, HintIsSafe
<1> QED BY <1>1, StagesHold, PTL DEF LimiterSpec, HintIsExact

-----------------------------------------------------------------------------
(* The Retry-After header.                                                *)

\* The header rounds the hint up to whole seconds, and never to none.
LEMMA HeaderRoundsUp ==
  ASSUME NEW ticks \in Nat
  PROVE  LET header == RetryAfterHeader(ticks)
         IN  /\ header \in Nat \ {0} /\ header * TicksPerSecond \in Nat
             /\ header * TicksPerSecond >= ticks
             /\ header > 1 => header * TicksPerSecond - TicksPerSecond < ticks
<1> DEFINE T == TicksPerSecond
           n == ticks + T - 1
           d == n \div T
<1>1. T \in Nat /\ T > 0 /\ n \in Nat
  BY ResolutionAssumption
<1> HIDE DEF T, n
<1>2. d \in Nat /\ d * T <= n /\ n < d * T + T
  BY <1>1
<1> HIDE DEF d
<1>3. d * T \in Nat /\ d * T >= ticks /\ d * T - T < ticks
  BY <1>1, <1>2 DEF n
<1>4. RetryAfterHeader(ticks) = Greatest(1, d)
  BY DEF RetryAfterHeader, d, n, T
<1>5. CASE d >= 1
  BY <1>2, <1>3, <1>4, <1>5 DEF Greatest, T
<1>6. CASE d = 0
  <2>1. RetryAfterHeader(ticks) = 1 /\ 1 * T = T /\ d * T = 0
    BY <1>1, <1>4, <1>6 DEF Greatest
  <2> QED BY <1>1, <1>3, <2>1 DEF T
<1> QED BY <1>2, <1>5, <1>6

\* A client that waits for the seconds in the header fits, and one that comes back
\* a whole second sooner does not, unless the header is of a hint whose query
\* raised (errors.py:105-112, limiter.py:258-283).
THEOREM RoundedHintsFit == LimiterSpec => RoundedHintFits
<1>1. TypeOK /\ LinkInv /\ StageInv /\ [LimiterNext]_limiterVars =>
        [\A r \in Req :
           /\ at[r] = "hint" /\ at'[r] = "refused"
           /\ ask[r] <= Limit
           /\ UsedSince(key[r], clock[r] - Window) = used[r]
           => LET header   == RetryAfterHeader(hint'[r])
                  comeback == now + header * TicksPerSecond
                  FitsAt(t) == UsedSince(key[r], t - Window) + ask[r] <= Limit
              IN  /\ \A t \in comeback + 1 .. comeback + Window + 1 : FitsAt(t)
                  /\ header > 1 /\ ~IsFallback(hint'[r]) =>
                       ~FitsAt(comeback - TicksPerSecond)]_limiterVars
  <2> SUFFICES ASSUME TypeOK, LinkInv, StageInv, LimiterNext, NEW r \in Req,
                      at[r] = "hint", at'[r] = "refused", ask[r] <= Limit,
                      UsedSince(key[r], clock[r] - Window) = used[r]
               PROVE  LET header   == RetryAfterHeader(hint'[r])
                          comeback == now + header * TicksPerSecond
                          FitsAt(t) == UsedSince(key[r], t - Window) + ask[r] <= Limit
                      IN  /\ \A t \in comeback + 1 .. comeback + Window + 1 : FitsAt(t)
                          /\ header > 1 /\ ~IsFallback(hint'[r]) =>
                               ~FitsAt(comeback - TicksPerSecond)
    OBVIOUS
  <2> DEFINE header == RetryAfterHeader(hint'[r])
             wait == header * TicksPerSecond
             comeback == now + wait
             FitsAt(t) == UsedSince(key[r], t - Window) + ask[r] <= Limit
  <2>1. Hint(r)
    BY HintIsOwn
  <2>2. ASSUME NEW t \in Int, now <= t
        PROVE  /\ hint'[r] \in Nat
               /\ t > now + hint'[r] => FitsAt(t)
               /\ t < now + hint'[r] /\ ~IsFallback(hint'[r]) => ~FitsAt(t)
    BY <2>1, <2>2, HintIsSafe
  <2>3. now \in Nat /\ now \in Int /\ now <= now
    BY DEF TypeOK
  <2>4. hint'[r] \in Nat
    BY <2>2, <2>3
  <2>5. /\ header \in Nat \ {0} /\ wait \in Nat /\ wait >= hint'[r]
        /\ header > 1 => wait - TicksPerSecond < hint'[r]
    BY <2>4, HeaderRoundsUp
  <2>6. header > 1 => wait - TicksPerSecond >= 0
    BY <2>5, ResolutionAssumption
  <2> HIDE DEF FitsAt, header
  <2>7. \A t \in comeback + 1 .. comeback + Window + 1 : FitsAt(t)
    <3> TAKE t \in comeback + 1 .. comeback + Window + 1
    <3> HIDE DEF wait
    <3>1. t \in Int /\ now <= t /\ t > now + hint'[r]
      BY <2>3, <2>4, <2>5, WindowAssumption
    <3> QED BY <2>2, <3>1
  <2>8. ASSUME header > 1, ~IsFallback(hint'[r]) PROVE ~FitsAt(comeback - TicksPerSecond)
    <3> HIDE DEF wait
    <3>1. /\ comeback - TicksPerSecond \in Int /\ now <= comeback - TicksPerSecond
          /\ comeback - TicksPerSecond < now + hint'[r]
      BY <2>3, <2>4, <2>5, <2>6, <2>8, ResolutionAssumption
    <3> QED BY <2>2, <2>8, <3>1
  <2> QED BY <2>7, <2>8 DEF FitsAt, header
<1> QED BY <1>1, StagesHold, PTL DEF LimiterSpec, RoundedHintFits

-----------------------------------------------------------------------------
(* The router.                                                             *)

PcOK == pc \in [Req -> Stages] /\ settled \in [Req -> BOOLEAN]

\* What the coroutine of r may rely on at its await, whatever the threads do.
CoroutineInv ==
  \A r \in Req :
    /\ pc[r] = "calling" => at[r] = "granted"
    /\ pc[r] = "settling" => settled[r]

\* The inductive invariant of the simulation.
ContractInv == TypeOK /\ PcOK /\ CoroutineInv

-----------------------------------------------------------------------------

\* A job's own steps start at a running statement: they touch no granted
\* reservation, and no other job.
LEMMA StepsOfJobs ==
  ASSUME TypeOK, NEW q \in Req, Work(q) \/ Raise(q) \/ JobDies(q),
         NEW r \in Req, at[r] = "granted"
  PROVE  at'[r] = "granted"
<1> USE DEF TypeOK, Goto, Running, Reserving, Settling, Releasing
<1>1. CASE Work(q)
  BY <1>1 DEF Work, ReadClock, Evict, Begin, Select, Grant, Refuse, Hint,
              Update, UpdateMisses, Rerecord, Delete
<1>2. CASE Raise(q)
  BY <1>2 DEF Raise
<1>3. CASE JobDies(q)
  BY <1>3 DEF JobDies
<1> QED BY <1>1, <1>2, <1>3

\* Reconciling a granted reservation is a call the contract allows.
LEMMA ReconcileIsACall ==
  ASSUME TypeOK, NEW r \in Req, at[r] = "granted", NEW why, NEW made, Reconcile(r, why, made)
  PROVE  Call(r)
<1>1. Settle(r, ask[r]) \/ Release(r)
  BY DEF Reconcile
<1> QED BY <1>1 DEF Call

\* So is unwinding while a provider is called.
LEMMA UnwindIsACall ==
  ASSUME TypeOK, NEW r \in Req, at[r] = "granted", NEW why, NEW made, Unwind(r, why, made)
  PROVE  Call(r) \/ UNCHANGED limiterVars
  BY ReconcileIsACall DEF Unwind

\* And what follows the end of an attempt.
LEMMA ConcludedIsACall ==
  ASSUME TypeOK, NEW r \in Req, at[r] = "granted", NEW outcome, Concluded(r, outcome)
  PROVE  Call(r) \/ UNCHANGED limiterVars
<1> DEFINE made == Append(attempts[r], outcome)
<1>1. CASE \E reported \in Reports \cup {ask[r]} : Settle(r, reported)
  BY <1>1 DEF Call
<1>2. CASE \E why : Unwind(r, why, made)
  BY <1>2, UnwindIsACall
<1>3. CASE UNCHANGED limiterVars
  BY <1>3
<1> QED BY <1>1, <1>2, <1>3 DEF Concluded

\* Every step of the router is a step of the limiter's contract, or none.
LEMMA RouterStepsKeepContract ==
  ContractInv /\ [RouterNext]_vars => [LimiterNext]_limiterVars
<1> SUFFICES ASSUME ContractInv, [RouterNext]_vars
             PROVE  LimiterNext \/ UNCHANGED limiterVars
  OBVIOUS
<1> USE DEF ContractInv
<1>1. CASE UNCHANGED vars
  BY <1>1 DEF vars
<1>2. CASE LimiterStep
  BY <1>2 DEF LimiterStep, LimiterNext
<1>3. ASSUME NEW r \in Req, Reject(r) \/ Arrive(r) \/ Resume(r) \/ Cancel(r) \/ Stop(r)
      PROVE  Call(r) \/ UNCHANGED limiterVars
  <2>1. CASE Reject(r) \/ Stop(r) \/ CancelReserve(r) \/ CancelUnwinding(r)
    BY <2>1 DEF Reject, Stop, CancelReserve, CancelUnwinding
  <2>2. CASE Arrive(r)
    BY <2>2 DEF Arrive, Call
  <2>3. CASE Admitted(r) \/ NotAdmitted(r) \/ Served(r) \/ Unwound(r)
    BY <2>3 DEF Admitted, NotAdmitted, Served, Unwound
  <2>4. CASE ReleaseOrphan(r)
    BY <2>4 DEF ReleaseOrphan, Call
  <2>5. CASE ProviderAnswers(r) \/ ProviderFails(r)
    <3>1. at[r] = "granted"
      BY <2>5 DEF CoroutineInv, ProviderAnswers, ProviderFails
    <3>2. \E outcome : Concluded(r, outcome)
      BY <2>5 DEF ProviderAnswers, ProviderFails
    <3> QED BY <3>1, <3>2, ConcludedIsACall
  <2>6. CASE CancelCall(r)
    <3>1. at[r] = "granted" /\ Unwind(r, "cancelled", attempts[r])
      BY <2>6 DEF CoroutineInv, CancelCall
    <3> QED BY <3>1, UnwindIsACall
  <2>7. CASE SettleInterrupted(r)
    BY <2>7 DEF SettleInterrupted, Unwind, CoroutineInv
  <2> QED BY <1>3, <2>1, <2>2, <2>3, <2>4, <2>5, <2>6, <2>7 DEF Resume, Cancel
<1> QED BY <1>1, <1>2, <1>3 DEF RouterNext, LimiterNext

-----------------------------------------------------------------------------

\* The coroutine's own control state stays in its ranges.
LEMMA PcStep == PcOK /\ [RouterNext]_vars => PcOK'
<1> SUFFICES ASSUME PcOK, [RouterNext]_vars PROVE PcOK'
  OBVIOUS
<1> USE DEF PcOK, Stages, Suspended, Await, Answer
<1>1. CASE UNCHANGED vars \/ LimiterStep
  BY <1>1 DEF vars, LimiterStep, routerVars
<1>2. ASSUME NEW r \in Req, Reject(r) \/ Arrive(r) \/ Resume(r) \/ Cancel(r) \/ Stop(r)
      PROVE  PcOK'
  <2>1. CASE Reject(r) \/ Arrive(r) \/ Stop(r) \/ CancelReserve(r) \/ CancelUnwinding(r)
    BY <2>1 DEF Reject, Arrive, Stop, CancelReserve, CancelUnwinding
  <2>2. CASE Admitted(r) \/ NotAdmitted(r) \/ ReleaseOrphan(r) \/ Served(r) \/ Unwound(r)
    BY <2>2 DEF Admitted, NotAdmitted, ReleaseOrphan, Served, Unwound
  <2>3. CASE ProviderAnswers(r) \/ ProviderFails(r)
    BY <2>3 DEF ProviderAnswers, ProviderFails, Concluded, Unwind, Reconcile
  <2>4. CASE CancelCall(r) \/ SettleInterrupted(r)
    BY <2>4 DEF CancelCall, SettleInterrupted, Unwind, Reconcile
  <2> QED BY <1>2, <2>1, <2>2, <2>3, <2>4 DEF Resume, Cancel
<1> QED BY <1>1, <1>2 DEF RouterNext

\* A coroutine's step leaves every other request alone.
LEMMA OthersAreUntouched ==
  ASSUME TypeOK, PcOK, NEW r \in Req, NEW q \in Req, q # r,
         Reject(r) \/ Arrive(r) \/ Resume(r) \/ Cancel(r) \/ Stop(r)
  PROVE  pc'[q] = pc[q] /\ at'[q] = at[q] /\ settled'[q] = settled[q]
<1> USE DEF TypeOK, PcOK, Await, Answer, Goto, TryReserve, Settle, Release, limiterVars
<1>1. CASE Reject(r) \/ Arrive(r) \/ Stop(r) \/ CancelReserve(r) \/ CancelUnwinding(r)
  BY <1>1 DEF Reject, Arrive, Stop, CancelReserve, CancelUnwinding
<1>2. CASE Admitted(r) \/ NotAdmitted(r) \/ ReleaseOrphan(r) \/ Served(r) \/ Unwound(r)
  BY <1>2 DEF Admitted, NotAdmitted, ReleaseOrphan, Served, Unwound
<1>3. CASE ProviderAnswers(r) \/ ProviderFails(r)
  BY <1>3 DEF ProviderAnswers, ProviderFails, Concluded, Unwind, Reconcile
<1>4. CASE CancelCall(r) \/ SettleInterrupted(r)
  BY <1>4 DEF CancelCall, SettleInterrupted, Unwind, Reconcile
<1> QED BY <1>1, <1>2, <1>3, <1>4 DEF Resume, Cancel

\* What a coroutine relies on is true when it next runs: the threads leave a
\* granted reservation alone, and its own steps set it up.
LEMMA CoroutineStep == ContractInv /\ [RouterNext]_vars => CoroutineInv'
<1> SUFFICES ASSUME ContractInv, [RouterNext]_vars, NEW q \in Req
             PROVE  /\ pc'[q] = "calling" => at'[q] = "granted"
                    /\ pc'[q] = "settling" => settled'[q]
  BY DEF CoroutineInv
<1> USE DEF ContractInv, CoroutineInv
<1>1. CASE UNCHANGED vars
  BY <1>1 DEF vars, limiterVars, routerVars
<1>2. CASE LimiterStep
  <2>1. pc' = pc /\ settled' = settled
    BY <1>2 DEF LimiterStep, routerVars
  <2>2. CASE Tick
    BY <2>1, <2>2 DEF Tick
  <2>3. CASE \E r \in Req : Work(r) \/ Raise(r) \/ JobDies(r)
    BY <2>1, <2>3, StepsOfJobs
  <2> QED BY <1>2, <2>2, <2>3 DEF LimiterStep
<1>3. ASSUME NEW r \in Req, Reject(r) \/ Arrive(r) \/ Resume(r) \/ Cancel(r) \/ Stop(r)
      PROVE  /\ pc'[q] = "calling" => at'[q] = "granted"
             /\ pc'[q] = "settling" => settled'[q]
  <2>1. CASE q # r
    BY <1>3, <2>1, OthersAreUntouched
  <2>2. CASE q = r
    <3> USE <2>2 DEF TypeOK, PcOK, Await, Answer
    <3>1. CASE Reject(r) \/ Arrive(r) \/ Stop(r) \/ CancelReserve(r) \/ CancelUnwinding(r)
      BY <3>1 DEF Reject, Arrive, Stop, CancelReserve, CancelUnwinding
    <3>2. CASE Admitted(r) \/ NotAdmitted(r) \/ ReleaseOrphan(r) \/ Served(r) \/ Unwound(r)
      BY <3>2 DEF Admitted, NotAdmitted, ReleaseOrphan, Served, Unwound, limiterVars
    <3>3. CASE ProviderAnswers(r) \/ ProviderFails(r)
      BY <3>3 DEF ProviderAnswers, ProviderFails, Concluded, Unwind, Reconcile, limiterVars
    <3>4. CASE CancelCall(r) \/ SettleInterrupted(r)
      BY <3>4 DEF CancelCall, SettleInterrupted, Unwind, Reconcile
    <3> QED BY <1>3, <3>1, <3>2, <3>3, <3>4 DEF Resume, Cancel
  <2> QED BY <2>1, <2>2
<1> QED BY <1>1, <1>2, <1>3 DEF RouterNext

\* The invariant of the simulation, of every behaviour of the router.
LEMMA ContractHolds == RouterSpec => []ContractInv
<1>1. RouterInit => ContractInv
  <2>1. LimiterInit => TypeOK
    BY Constants DEF ConstantAssumptions, LimiterInit, TypeOK, Places
  <2> QED BY <2>1 DEF RouterInit, ContractInv, PcOK, CoroutineInv, Stages
<1>2. ContractInv /\ [RouterNext]_vars => ContractInv'
  BY RouterStepsKeepContract, TypeStep, PcStep, CoroutineStep DEF ContractInv
<1> QED BY <1>1, <1>2, PTL DEF RouterSpec

\* However requests are answered, cancelled, failed or lost, and however a
\* provider behaves, the router settles or releases a reservation at most once,
\* and only one it was granted (limiter.py:97-99, router.py:158-187).
THEOREM ContractIsKept == RouterSpec => KeepsContract
<1>1. RouterInit => LimiterInit
  BY DEF RouterInit
<1>2. ContractInv /\ [RouterNext]_vars => [LimiterNext]_limiterVars
  BY RouterStepsKeepContract
<1> QED BY <1>1, <1>2, ContractHolds, PTL DEF RouterSpec, LimiterSpec, KeepsContract

\* So the limit is not silently exceeded in the router as a whole
\* (limiter.py:302-323).
THEOREM RouterNeverSilentlyOverspends == RouterSpec => []NoSilentOverspend
  BY ContractIsKept, OverspendIsNeverSilent, PTL DEF KeepsContract

-----------------------------------------------------------------------------
(* No stranded hold.                                                       *)

\* What a job that returned has done to the ledger stays done.
ReconciledInv ==
  \A r \in Req :
    /\ at[r] = "settled" => ~Held(r)
    /\ at[r] = "released" => ~InLedger(r)

\* A reservation that may still be granted, or is, has a coroutine or a callback
\* that will see it.
OwnerInv ==
  \A r \in Req :
    /\ pc[r] = "idle" => at[r] = "idle"
    /\ pc[r] \in {"idle", "reserving", "calling"} => ~settled[r]
    /\ at[r] \in Reserving \cup {"granted"} => pc[r] \in {"reserving", "calling", "orphaned", "dead"}

\* Other jobs' statements only ever remove a row of r, and r's own job settles
\* or deletes it.
LEMMA ReconciledStep ==
  TypeOK /\ ReconciledInv /\ [LimiterNext]_limiterVars => ReconciledInv'
<1> SUFFICES ASSUME TypeOK, ReconciledInv, [LimiterNext]_limiterVars PROVE ReconciledInv'
  OBVIOUS
<1> USE DEF TypeOK, ReconciledInv, Held, InLedger, Goto, ledgerVars
<1>1. CASE UNCHANGED limiterVars \/ Tick
  BY <1>1 DEF limiterVars, Tick
<1>2. ASSUME NEW r \in Req, Call(r) \/ Raise(r) \/ JobDies(r) PROVE ReconciledInv'
  BY <1>2 DEF Call, TryReserve, Settle, Release, Raise, JobDies, Running, Reserving, Settling,
              Releasing, Answered
<1>3. ASSUME NEW r \in Req, Work(r) PROVE ReconciledInv'
  <2>1. CASE ReadClock(r) \/ Begin(r) \/ Select(r) \/ Refuse(r) \/ Hint(r) \/ UpdateMisses(r)
    BY <2>1 DEF ReadClock, Begin, Select, Refuse, Hint, UpdateMisses
  <2>2. CASE Evict(r)
    <3>1. \A q \in Req : rows'[q] = rows[q] \/ rows'[q] = NoRow
      BY <2>2 DEF Evict
    <3> QED BY <2>2, <3>1 DEF Evict
  <2>3. CASE Grant(r)
    BY <2>3 DEF Grant
  <2>4. CASE Update(r)
    <3>1. rows[r] \in Row /\ rows'[r] = [rows[r] EXCEPT !.tokens = charge[r], !.settled = TRUE]
      BY <2>4 DEF Update
    <3>2. rows'[r].settled
      BY <3>1 DEF Row
    <3>3. \A q \in Req \ {r} : rows'[q] = rows[q] /\ at'[q] = at[q]
      BY <2>4 DEF Update
    <3> QED BY <2>4, <3>2, <3>3 DEF Update
  <2>5. CASE Rerecord(r)
    <3>1. rows'[r].settled /\ \A q \in Req \ {r} : rows'[q] = rows[q] /\ at'[q] = at[q]
      BY <2>5 DEF Rerecord
    <3> QED BY <2>5, <3>1 DEF Rerecord
  <2>6. CASE Delete(r)
    BY <2>6 DEF Delete
  <2> QED BY <1>3, <2>1, <2>2, <2>3, <2>4, <2>5, <2>6 DEF Work
<1> QED BY <1>1, <1>2, <1>3 DEF LimiterNext

\* A job that is not reserving never starts to by itself, and an idle one stays.
LEMMA JobsDoNotReserveAnew ==
  ASSUME TypeOK, NEW q \in Req, Work(q) \/ Raise(q) \/ JobDies(q), NEW r \in Req
  PROVE  /\ at[r] = "idle" => at'[r] = "idle"
         /\ at'[r] \in Reserving \cup {"granted"} => at[r] \in Reserving \cup {"granted"}
<1> USE DEF TypeOK, Goto, Running, Reserving, Settling, Releasing
<1>1. CASE Work(q)
  BY <1>1 DEF Work, ReadClock, Evict, Begin, Select, Grant, Refuse, Hint,
              Update, UpdateMisses, Rerecord, Delete
<1>2. CASE Raise(q)
  BY <1>2 DEF Raise
<1>3. CASE JobDies(q)
  BY <1>3 DEF JobDies
<1> QED BY <1>1, <1>2, <1>3

\* No coroutine ends, at whatever await it is interrupted, before it has passed
\* its reservation on.
LEMMA OwnerStep == ContractInv /\ OwnerInv /\ [RouterNext]_vars => OwnerInv'
<1> DEFINE Owned(r) ==
      /\ pc[r] = "idle" => at[r] = "idle"
      /\ pc[r] \in {"idle", "reserving", "calling"} => ~settled[r]
      /\ at[r] \in Reserving \cup {"granted"}
           => pc[r] \in {"reserving", "calling", "orphaned", "dead"}
<1> SUFFICES ASSUME ContractInv, OwnerInv, [RouterNext]_vars, NEW q \in Req
             PROVE  Owned(q)'
  BY DEF OwnerInv
<1>0. TypeOK /\ PcOK /\ CoroutineInv /\ Owned(q)
  BY DEF ContractInv, OwnerInv
<1>1. CASE UNCHANGED vars
  BY <1>0, <1>1 DEF vars, limiterVars, routerVars
<1>2. CASE LimiterStep
  <2>1. pc' = pc /\ settled' = settled
    BY <1>2 DEF LimiterStep, routerVars
  <2>2. CASE Tick
    BY <1>0, <2>1, <2>2 DEF Tick
  <2>3. ASSUME NEW r \in Req, Work(r) \/ Raise(r) \/ JobDies(r) PROVE Owned(q)'
    BY <1>0, <2>1, <2>3, JobsDoNotReserveAnew
  <2> QED BY <1>2, <2>2, <2>3 DEF LimiterStep
<1>3. ASSUME NEW r \in Req, Reject(r) \/ Arrive(r) \/ Resume(r) \/ Cancel(r) \/ Stop(r)
      PROVE  Owned(q)'
  <2>1. CASE q # r
    BY <1>0, <1>3, <2>1, OthersAreUntouched
  <2>2. CASE q = r
    <3> USE <1>0, <2>2 DEF TypeOK, PcOK, CoroutineInv, Await, Answer, Goto, Reserving
    <3>1. CASE Reject(r) \/ Arrive(r)
      BY <3>1 DEF Reject, Arrive, TryReserve, limiterVars
    <3>2. CASE Stop(r) \/ CancelReserve(r) \/ CancelUnwinding(r)
      BY <3>2 DEF Stop, CancelReserve, CancelUnwinding, limiterVars
    <3>3. CASE Admitted(r) \/ NotAdmitted(r) \/ Served(r) \/ Unwound(r)
      BY <3>3 DEF Admitted, NotAdmitted, Served, Unwound, limiterVars
    <3>4. CASE ReleaseOrphan(r)
      BY <3>4 DEF ReleaseOrphan, Release, limiterVars
    <3>5. CASE ProviderAnswers(r) \/ ProviderFails(r)
      BY <3>5 DEF ProviderAnswers, ProviderFails, Concluded, Unwind, Reconcile, Settle, Release,
                  limiterVars
    <3>6. CASE CancelCall(r) \/ SettleInterrupted(r)
      BY <3>6 DEF CancelCall, SettleInterrupted, Unwind, Reconcile, Settle, Release, limiterVars
    <3> QED BY <1>3, <3>1, <3>2, <3>3, <3>4, <3>5, <3>6 DEF Resume, Cancel
  <2> QED BY <2>1, <2>2
<1> QED BY <1>1, <1>2, <1>3 DEF RouterNext

\* Wherever a request is cancelled, and whatever its providers do, it leaves no
\* hold behind that nobody is reconciling, unless the database or the process
\* failed under the reconciliation (router.py:123-136, 163-164, 182-186).
THEOREM NothingIsStranded == RouterSpec => []NoStrandedHold
<1>1. RouterInit => ReconciledInv /\ OwnerInv
  BY DEF RouterInit, LimiterInit, ReconciledInv, OwnerInv, Reserving
<1>2. RouterSpec => []ContractInv /\ [](TypeOK /\ LinkInv)
  <2>1. LimiterInit => LinkInv
    BY DEF LimiterInit, LinkInv, ClockInv, FreshInv, BackedInv, InLedger
  <2>2. RouterSpec => LimiterSpec
    BY ContractIsKept DEF KeepsContract
  <2>3. LimiterSpec => []LinkInv
    BY <2>1, LinkStep, TypeCorrect, PTL DEF LimiterSpec
  <2> QED BY <2>2, <2>3, TypeCorrect, ContractHolds, PTL
<1>3. ContractInv /\ ReconciledInv /\ OwnerInv /\ [RouterNext]_vars
        => (ReconciledInv /\ OwnerInv)'
  BY RouterStepsKeepContract, ReconciledStep, OwnerStep DEF ContractInv
<1>4. TypeOK /\ LinkInv /\ ReconciledInv /\ OwnerInv => NoStrandedHold
  <2> SUFFICES ASSUME TypeOK, LinkInv, ReconciledInv, OwnerInv,
                      NEW r \in Req, pc[r] = "done", Held(r)
               PROVE  at[r] \in Running \/ LostReconcile(r)
    BY DEF NoStrandedHold
  <2>1. at[r] \notin NeverGranted
    BY DEF LinkInv, FreshInv, Held
  <2>2. at[r] \notin {"granted", "settled", "released"}
    BY DEF OwnerInv, ReconciledInv, Held
  <2> QED BY <2>1, <2>2 DEF TypeOK, Places, NeverGranted, Answered, Dead, LostReconcile
<1> QED BY <1>1, <1>2, <1>3, <1>4, PTL DEF RouterSpec

-----------------------------------------------------------------------------
(* The books of a request.                                                 *)

Charging == Settling \cup {"settled"}
Charged  == Settling \cup {"settled", "settle_failed"}
Returning == Releasing \cup {"released"}
Returned  == Releasing \cup {"released", "release_failed"}
ComeBack  == {"rate_limit_exceeded", "upstream_timeout", "upstream_rate_limited"}
Exhausted == {"upstream_timeout", "upstream_rate_limited", "all_providers_failed"}

\* An outcome is among the attempts made.
Has(made, outcome) == \E i \in DOMAIN made : made[i] = outcome

\* What the coroutine of one request (await p, attempts m, `settled` s, exception
\* x, reply y, told t, generated g) has to do with its job (statement a, charge c,
\* ask n).
Books(p, m, s, x, y, t, g, a, c, n) ==
  /\ p \in {"idle", "reserving", "orphaned"} => m = << >> /\ g = 0
  /\ p = "calling" => Len(m) < Providers
  /\ p = "settling" => a \in Charged
  /\ p = "charging" => a \in Charged /\ x \notin ComeBack
  /\ p = "releasing" => a \in Returned
  /\ s <=> Has(m, "ok")
  /\ g > 0 => \/ Has(m, "ok") \/ Has(m, "unusable_response")
              \/ "too_deep" \in Bodies /\ Has(m, "transport_error")
  /\ a \in Charging => Has(m, "ok") \/ (Has(m, "unusable_response") /\ c = n)
  /\ a \in Returning => ~ Has(m, "ok") /\ ~ Has(m, "unusable_response")
  /\ x \in Exhausted => Len(m) = Providers
  /\ y # "none" => p \in {"done", "dead", "orphaned"}
  /\ p = "orphaned" => y = "cancelled"
  /\ y = "served" => t = c /\ a = "settled"
  /\ y \in ComeBack => a \in {"refused", "released"}
  /\ y \in Exhausted => Len(m) = Providers

BooksOf(r) ==
  Books(pc[r], attempts[r], settled[r], raising[r], reply[r], told[r], generated[r],
        at[r], charge[r], ask[r])

\* The inductive invariant: every request's books.
BooksInv == RouterTypeOK /\ \A r \in Req : BooksOf(r)

\* An attempt more is the outcomes before it and its own.
LEMMA HasAppend ==
  ASSUME NEW m \in Seq(Outcomes), NEW o \in Outcomes, NEW made, made = Append(m, o)
  PROVE  /\ made \in Seq(Outcomes) /\ Len(made) = Len(m) + 1 /\ Len(m) \in Nat
         /\ \A x : Has(made, x) <=> Has(m, x) \/ o = x
<1>1. /\ made \in Seq(Outcomes) /\ Len(made) = Len(m) + 1 /\ Len(m) \in Nat
      /\ DOMAIN m = 1..Len(m) /\ DOMAIN made = 1..Len(made)
      /\ \A i \in 1..Len(m) : made[i] = m[i]
      /\ made[Len(m) + 1] = o
  OBVIOUS
<1>2. DOMAIN made = DOMAIN m \cup {Len(m) + 1}
  BY <1>1
<1>3. ASSUME NEW x
      PROVE  Has(made, x) <=> Has(m, x) \/ o = x
  BY <1>1, <1>2 DEF Has
<1> QED BY <1>1, <1>3

\* What is billable, in terms of the outcomes there are.
LEMMA BillableIsHas ==
  ASSUME NEW m \in Seq(Outcomes)
  PROVE  Billable(m) <=> Has(m, "unusable_response")
<1>1. DOMAIN m = 1..Len(m)
  OBVIOUS
<1> QED BY <1>1 DEF Billable, Has

\* Only an answer with the whole hold to pay is billable, and then not everything
\* timed out or was limited.
LEMMA ExhaustedCodeType ==
  ASSUME NEW m \in Seq(Outcomes)
  PROVE  /\ ExhaustedCode(m) \in Exhausted /\ ExhaustedCode(m) \in Codes
         /\ Billable(m) => ExhaustedCode(m) \notin ComeBack
<1>1. ExhaustedCode(m) \in Exhausted
  BY DEF ExhaustedCode, Exhausted
<1>2. ASSUME Billable(m)
      PROVE  ~ AllAre(m, "timeout") /\ ~ AllAre(m, "rate_limited")
  BY <1>2 DEF Billable, AllAre
<1>3. Billable(m) => ExhaustedCode(m) = "all_providers_failed"
  BY <1>2 DEF ExhaustedCode
<1> QED BY <1>1, <1>3 DEF Exhausted, Codes, ComeBack

\* Charging the whole hold is not clamped.
LEMMA WholeHold ==
  ASSUME NEW n \in Nat
  PROVE  Clamp(n, n) = n
BY LimitAssumption DEF Clamp, Greatest, Least, MaxCharge, MaxChargeMultiple

\* What one answer comes to; of the 2xx only a body too deep to parse is neither
\* a completion nor unusable.
LEMMA OutcomeType ==
  ASSUME NEW status \in Statuses, NEW body \in Bodies
  PROVE  /\ Outcome(status, body) \in Outcomes
         /\ status \in 200..299 =>
              \/ Outcome(status, body) \in {"ok", "unusable_response"}
              \/ "too_deep" \in Bodies /\ Outcome(status, body) = "transport_error"
<1>1. body \in BodyKinds
  BY BodiesAssumption
<1>2. /\ BodyOutcome(body) \in {"ok", "unusable_response", "transport_error"}
      /\ BodyOutcome(body) = "transport_error" => body = "too_deep"
  BY <1>1 DEF BodyOutcome, BodyKinds
<1>3. CASE status \in 200..299
  <2>1. Outcome(status, body) = BodyOutcome(body)
    BY <1>3 DEF Outcome, CallerErrorStatuses
  <2> QED BY <1>2, <1>3, <2>1 DEF Outcomes
<1>4. CASE status \notin 200..299
  BY <1>4 DEF Outcome, Outcomes, CallerErrorStatuses
<1> QED BY <1>3, <1>4

\* A job ends as what it began as, unless its process dies, and what it was
\* handed stays as it is.
LEMMA JobsKeepBooks ==
  ASSUME TypeOK, LimiterStep, NEW r \in Req
  PROVE  /\ at'[r] \in Charging => at[r] \in Charging
         /\ at'[r] \in Returning => at[r] \in Returning
         /\ at[r] \in Charged /\ pc[r] # "dead" => at'[r] \in Charged
         /\ at[r] \in Returned /\ pc[r] # "dead" => at'[r] \in Returned
         /\ at[r] \in {"refused", "released", "settled"} => at'[r] = at[r]
         /\ charge'[r] = charge[r] /\ ask'[r] = ask[r]
<1> USE DEF TypeOK, Goto, Running, Reserving, Settling, Releasing, Charging, Charged,
            Returning, Returned
<1>1. CASE Tick
  BY <1>1 DEF Tick
<1>2. ASSUME NEW q \in Req, Work(q)
      PROVE  /\ charge' = charge /\ ask' = ask
             /\ at'[r] \in Charging => at[r] \in Charging
             /\ at'[r] \in Returning => at[r] \in Returning
             /\ at[r] \in Charged => at'[r] \in Charged
             /\ at[r] \in Returned => at'[r] \in Returned
             /\ at[r] \in {"refused", "released", "settled"} => at'[r] = at[r]
  BY <1>2 DEF Work, ReadClock, Evict, Begin, Select, Grant, Refuse, Hint,
              Update, UpdateMisses, Rerecord, Delete
<1>3. ASSUME NEW q \in Req, Raise(q)
      PROVE  /\ charge' = charge /\ ask' = ask
             /\ at'[r] \in Charging => at[r] \in Charging
             /\ at'[r] \in Returning => at[r] \in Returning
             /\ at[r] \in Charged => at'[r] \in Charged
             /\ at[r] \in Returned => at'[r] \in Returned
             /\ at[r] \in {"refused", "released", "settled"} => at'[r] = at[r]
  BY <1>3 DEF Raise
<1>4. ASSUME NEW q \in Req, pc[q] = "dead", JobDies(q)
      PROVE  /\ charge' = charge /\ ask' = ask
             /\ at'[r] \in Charging => at[r] \in Charging
             /\ at'[r] \in Returning => at[r] \in Returning
             /\ at[r] \in Charged /\ pc[r] # "dead" => at'[r] \in Charged
             /\ at[r] \in Returned /\ pc[r] # "dead" => at'[r] \in Returned
             /\ at[r] \in {"refused", "released", "settled"} => at'[r] = at[r]
  BY <1>4 DEF JobDies
<1> QED BY <1>1, <1>2, <1>3, <1>4 DEF LimiterStep

\* The threads leave the books of every request as they are.
LEMMA BooksKeptByJobs ==
  ASSUME TypeOK, LimiterStep, NEW r \in Req, BooksOf(r)
  PROVE  BooksOf(r)'
<1>1. UNCHANGED routerVars
  BY DEF LimiterStep
<1>2. /\ pc'[r] = pc[r] /\ attempts'[r] = attempts[r] /\ settled'[r] = settled[r]
      /\ raising'[r] = raising[r] /\ reply'[r] = reply[r] /\ told'[r] = told[r]
      /\ generated'[r] = generated[r]
  BY <1>1 DEF routerVars
<1>3. /\ at'[r] \in Charging => at[r] \in Charging
      /\ at'[r] \in Returning => at[r] \in Returning
      /\ at[r] \in Charged /\ pc[r] # "dead" => at'[r] \in Charged
      /\ at[r] \in Returned /\ pc[r] # "dead" => at'[r] \in Returned
      /\ at[r] \in {"refused", "released", "settled"} => at'[r] = at[r]
      /\ charge'[r] = charge[r] /\ ask'[r] = ask[r]
  BY JobsKeepBooks
<1> QED BY <1>2, <1>3 DEF BooksOf, Books

\* So does the coroutine of another request.
LEMMA BooksKeptByOthers ==
  ASSUME TypeOK, RouterTypeOK, NEW r \in Req, NEW q \in Req, q # r, BooksOf(q),
         Reject(r) \/ Arrive(r) \/ Resume(r) \/ Cancel(r) \/ Stop(r)
  PROVE  BooksOf(q)'
<1> DEFINE Same == /\ pc'[q] = pc[q] /\ attempts'[q] = attempts[q] /\ settled'[q] = settled[q]
                   /\ raising'[q] = raising[q] /\ reply'[q] = reply[q] /\ told'[q] = told[q]
                   /\ generated'[q] = generated[q]
                   /\ at'[q] = at[q] /\ charge'[q] = charge[q] /\ ask'[q] = ask[q]
<1>1. Same
  <2> USE DEF TypeOK, RouterTypeOK, Await, Answer, Goto, TryReserve, Settle, Release, limiterVars
  <2>1. CASE Reject(r) \/ Arrive(r) \/ Stop(r) \/ CancelReserve(r) \/ CancelUnwinding(r)
    BY <2>1 DEF Reject, Arrive, Stop, CancelReserve, CancelUnwinding
  <2>2. CASE Admitted(r) \/ NotAdmitted(r) \/ ReleaseOrphan(r) \/ Served(r) \/ Unwound(r)
    BY <2>2 DEF Admitted, NotAdmitted, ReleaseOrphan, Served, Unwound
  <2>3. ASSUME NEW why, NEW made, Unwind(r, why, made)
        PROVE  /\ pc'[q] = pc[q] /\ raising'[q] = raising[q] /\ reply'[q] = reply[q]
               /\ at'[q] = at[q] /\ charge'[q] = charge[q] /\ ask'[q] = ask[q]
    BY <2>3 DEF Unwind, Reconcile
  <2>4. CASE ProviderAnswers(r) \/ ProviderFails(r)
    <3>1. \E outcome : Concluded(r, outcome)
      BY <2>4 DEF ProviderAnswers, ProviderFails
    <3>2. PICK outcome : Concluded(r, outcome)
      BY <3>1
    <3>3. told'[q] = told[q] /\ generated'[q] = generated[q]
      BY <2>4 DEF ProviderAnswers, ProviderFails
    <3>4. attempts'[q] = attempts[q] /\ settled'[q] = settled[q]
      BY <3>2 DEF Concluded
    <3>5. /\ pc'[q] = pc[q] /\ raising'[q] = raising[q] /\ reply'[q] = reply[q]
          /\ at'[q] = at[q] /\ charge'[q] = charge[q] /\ ask'[q] = ask[q]
      BY <3>2, <2>3 DEF Concluded
    <3> QED BY <3>3, <3>4, <3>5
  <2>5. CASE CancelCall(r)
    <3>1. /\ attempts'[q] = attempts[q] /\ settled'[q] = settled[q]
          /\ told'[q] = told[q] /\ generated'[q] = generated[q]
      BY <2>5 DEF CancelCall
    <3> QED BY <2>3, <2>5, <3>1 DEF CancelCall
  <2>6. CASE SettleInterrupted(r)
    <3>1. /\ attempts'[q] = attempts[q] /\ settled'[q] = settled[q]
          /\ told'[q] = told[q] /\ generated'[q] = generated[q]
      BY <2>6 DEF SettleInterrupted
    <3> QED BY <2>3, <2>6, <3>1 DEF SettleInterrupted
  <2> QED BY <2>1, <2>2, <2>4, <2>5, <2>6 DEF Resume, Cancel
<1> QED BY <1>1 DEF BooksOf

-----------------------------------------------------------------------------

\* The coroutine's variables keep their ranges: the outcomes of attempts never
\* become codes.
LEMMA RouterTypeStep == TypeOK /\ RouterTypeOK /\ [RouterNext]_vars => RouterTypeOK'
<1> SUFFICES ASSUME TypeOK, RouterTypeOK, [RouterNext]_vars PROVE RouterTypeOK'
  OBVIOUS
<1> USE DEF RouterTypeOK, Stages, Suspended, Await, Answer
<1>1. CASE UNCHANGED vars \/ LimiterStep
  BY <1>1 DEF vars, LimiterStep, routerVars
<1>2. ASSUME NEW r \in Req, Reject(r) \/ Arrive(r) \/ Resume(r) \/ Cancel(r) \/ Stop(r)
      PROVE  RouterTypeOK'
  <2> USE DEF Replies, Codes
  <2>1. CASE Reject(r) \/ Arrive(r) \/ Stop(r) \/ CancelReserve(r) \/ CancelUnwinding(r)
    BY <2>1 DEF Reject, Arrive, Stop, CancelReserve, CancelUnwinding
  <2>2. CASE Admitted(r) \/ NotAdmitted(r) \/ ReleaseOrphan(r)
    BY <2>2 DEF Admitted, NotAdmitted, ReleaseOrphan
  <2>7. CASE Served(r)
    BY <2>7 DEF Served, TypeOK
  <2>8. CASE Unwound(r)
    BY <2>8 DEF Unwound
  <2>3. ASSUME NEW outcome \in Outcomes, Concluded(r, outcome), told' = told,
               generated' \in [Req -> Nat]
        PROVE  RouterTypeOK'
    <3> DEFINE made == Append(attempts[r], outcome)
    <3>1. made \in Seq(Outcomes)
      OBVIOUS
    <3>2. attempts' = [attempts EXCEPT ![r] = made]
      BY <2>3 DEF Concluded
    <3>3. attempts' \in [Req -> Seq(Outcomes)]
      BY <3>1, <3>2
    <3>4. ExhaustedCode(made) \in Codes
      BY <3>1, ExhaustedCodeType
    <3> HIDE DEF made
    <3>5. ASSUME NEW why \in Codes, Unwind(r, why, made)
          PROVE  /\ pc' \in [Req -> Stages] /\ raising' \in [Req -> Codes \cup {"none"}]
                 /\ reply' \in [Req -> Replies]
      <4>1. CASE settled[r]
        <5>1. pc' = [pc EXCEPT ![r] = "done"] /\ reply' = [reply EXCEPT ![r] = why] /\ raising' = raising
          BY <3>5, <4>1 DEF Unwind
        <5>2. why \in Replies
          OBVIOUS
        <5> QED BY <5>1, <5>2
      <4>2. CASE ~settled[r]
        <5>1. Reconcile(r, why, made)
          BY <3>5, <4>2 DEF Unwind
        <5>2. raising' \in [Req -> Codes \cup {"none"}] /\ reply' = reply
          BY <5>1 DEF Reconcile
        <5>3. pc' \in [Req -> Stages]
          BY <5>1 DEF Reconcile
        <5> QED BY <5>2, <5>3
      <4> QED BY <4>1, <4>2
    <3>6. CASE outcome = "ok"
      BY <2>3, <3>3, <3>6 DEF Concluded
    <3>7. CASE outcome = "client_error"
      <4>1. Unwind(r, "invalid_request", made) /\ UNCHANGED settled
        BY <2>3, <3>7 DEF Concluded, made
      <4> QED BY <2>3, <3>3, <3>5, <4>1
    <3>8. CASE outcome \notin {"ok", "client_error"}
      <4>1. /\ UNCHANGED settled
            /\ UNCHANGED <<pc, raising, reply>> \/ Unwind(r, ExhaustedCode(made), made)
        BY <2>3, <3>8 DEF Concluded, made
      <4>2. CASE UNCHANGED <<pc, raising, reply>>
        BY <2>3, <3>3, <4>1, <4>2
      <4>3. CASE Unwind(r, ExhaustedCode(made), made)
        BY <2>3, <3>3, <3>4, <3>5, <4>1, <4>3
      <4> QED BY <4>1, <4>2, <4>3
    <3> QED BY <3>6, <3>7, <3>8
  <2>4. CASE ProviderAnswers(r)
    <3>1. PICK status \in Statuses, body \in Bodies :
            /\ generated' = IF status \in 200..299
                            THEN [generated EXCEPT ![r] = @ + 1] ELSE generated
            /\ Concluded(r, Outcome(status, body))
      BY <2>4 DEF ProviderAnswers
    <3>2. generated' \in [Req -> Nat] /\ told' = told
      <4>1. generated[r] + 1 \in Nat /\ [generated EXCEPT ![r] = generated[r] + 1] \in [Req -> Nat]
        OBVIOUS
      <4> QED BY <2>4, <3>1, <4>1 DEF ProviderAnswers
    <3> QED BY <2>3, <3>1, <3>2, OutcomeType
  <2>5. CASE ProviderFails(r)
    <3>1. PICK outcome \in {"timeout", "transport_error"} : Concluded(r, outcome)
      BY <2>5 DEF ProviderFails
    <3> QED BY <2>3, <2>5, <3>1 DEF ProviderFails, Outcomes
  <2>6. CASE CancelCall(r) \/ SettleInterrupted(r)
    BY <2>6 DEF CancelCall, SettleInterrupted, Unwind, Reconcile
  <2> QED BY <1>2, <2>1, <2>2, <2>7, <2>8, <2>4, <2>5, <2>6 DEF Resume, Cancel
<1> QED BY <1>1, <1>2 DEF RouterNext

-----------------------------------------------------------------------------

\* The end of an attempt, or a cancellation, with the hold not yet charged: what
\* was generated is charged, else the hold is returned.
LEMMA UnwindBooks ==
  ASSUME TypeOK, RouterTypeOK, NEW r \in Req, BooksOf(r), ~settled[r],
         pc[r] = "calling", at[r] = "granted",
         NEW why \in Codes, NEW made \in Seq(Outcomes),
         attempts'[r] = made, settled'[r] = settled[r],
         Has(made, "ok") <=> Has(attempts[r], "ok"),
         generated'[r] > 0 => \/ Has(made, "ok") \/ Has(made, "unusable_response")
                              \/ "too_deep" \in Bodies /\ Has(made, "transport_error"),
         why \in Exhausted => Len(made) = Providers,
         Billable(made) => why \notin ComeBack,
         Unwind(r, why, made)
  PROVE  BooksOf(r)'
<1>1. Reconcile(r, why, made)
  BY DEF Unwind
<1>2. ~ Has(made, "ok")
  BY DEF BooksOf, Books
<1>3. raising'[r] = why /\ reply'[r] = "none"
  BY <1>1 DEF Reconcile, RouterTypeOK, BooksOf, Books
<1>4. CASE Billable(made)
  <2>1. Has(made, "unusable_response")
    BY <1>4, BillableIsHas
  <2>2. Clamp(ask[r], ask[r]) = ask[r]
    BY WholeHold DEF TypeOK
  <2>3. /\ pc'[r] = "charging" /\ at'[r] = "update"
        /\ charge'[r] = ask[r] /\ ask'[r] = ask[r]
    BY <1>1, <1>4, <2>2 DEF Reconcile, Settle, Await, Goto, TypeOK, RouterTypeOK
  <2> QED BY <1>2, <1>3, <1>4, <2>1, <2>3
          DEF BooksOf, Books, Charging, Charged, Returning, Releasing, Settling, ComeBack,
              Exhausted
<1>5. CASE ~ Billable(made)
  <2>1. ~ Has(made, "unusable_response")
    BY <1>5, BillableIsHas
  <2>2. pc'[r] = "releasing" /\ at'[r] = "delete"
    BY <1>1, <1>5 DEF Reconcile, Release, Await, Goto, TypeOK, RouterTypeOK
  <2> QED BY <1>2, <1>3, <2>1, <2>2
          DEF BooksOf, Books, Charging, Charged, Returning, Returned, Releasing, Settling,
              ComeBack, Exhausted
<1> QED BY <1>4, <1>5

\* The end of an attempt.
LEMMA ConcludedBooks ==
  ASSUME TypeOK, RouterTypeOK, NEW r \in Req, BooksOf(r), ~settled[r],
         pc[r] = "calling", at[r] = "granted",
         NEW outcome \in Outcomes, Concluded(r, outcome),
         generated'[r] = generated[r] \/ outcome \in {"ok", "unusable_response"}
           \/ ("too_deep" \in Bodies /\ outcome = "transport_error")
  PROVE  BooksOf(r)'
<1> DEFINE made == Append(attempts[r], outcome)
<1>0. attempts[r] \in Seq(Outcomes)
  BY DEF RouterTypeOK
<1>1. /\ made \in Seq(Outcomes) /\ Len(made) = Len(attempts[r]) + 1 /\ Len(attempts[r]) \in Nat
      /\ \A x : Has(made, x) <=> Has(attempts[r], x) \/ outcome = x
  BY <1>0, HasAppend
<1>2. attempts'[r] = made
  BY DEF Concluded, RouterTypeOK
<1>3. /\ Len(attempts[r]) < Providers
      /\ ~ Has(attempts[r], "ok")
      /\ reply[r] = "none"
      /\ raising[r] \notin Exhausted
      /\ generated[r] > 0 => \/ Has(attempts[r], "ok") \/ Has(attempts[r], "unusable_response")
                             \/ "too_deep" \in Bodies /\ Has(attempts[r], "transport_error")
  BY ProvidersAssumption, <1>1 DEF BooksOf, Books
<1>4. generated'[r] > 0 => \/ Has(made, "ok") \/ Has(made, "unusable_response")
                           \/ "too_deep" \in Bodies /\ Has(made, "transport_error")
  BY <1>1, <1>3
<1> HIDE DEF made
<1>5. CASE outcome = "ok"
  <2>1. /\ settled'[r] = TRUE /\ pc'[r] = "settling" /\ raising'[r] = raising[r]
        /\ reply'[r] = "none"
    BY <1>3, <1>5 DEF Concluded, Await, RouterTypeOK
  <2>2. at'[r] = "update"
    BY <1>5 DEF Concluded, Settle, Goto, TypeOK
  <2>3. Has(made, "ok")
    BY <1>1, <1>5
  <2> QED BY <1>2, <1>3, <2>1, <2>2, <2>3
          DEF BooksOf, Books, Charging, Charged, Returning, Releasing, Settling, ComeBack,
              Exhausted
<1>6. CASE outcome = "client_error"
  <2>1. Unwind(r, "invalid_request", made) /\ settled' = settled
    BY <1>6 DEF Concluded, made
  <2>2. /\ "invalid_request" \in Codes /\ "invalid_request" \notin Exhausted
        /\ "invalid_request" \notin ComeBack
    BY DEF Codes, Exhausted, ComeBack
  <2>3. Has(made, "ok") <=> Has(attempts[r], "ok")
    BY <1>1, <1>6
  <2> QED BY <1>1, <1>2, <1>4, <2>1, <2>2, <2>3, UnwindBooks
<1>7. CASE outcome \notin {"ok", "client_error"}
  <2>1. settled' = settled
    BY <1>7 DEF Concluded
  <2>2. Has(made, "ok") <=> Has(attempts[r], "ok")
    BY <1>1, <1>7
  <2>3. CASE Len(made) < Providers
    <3>1. UNCHANGED <<limiterVars, pc, raising, reply>>
      BY <1>7, <2>3 DEF Concluded, made
    <3>2. at'[r] = "granted"
      BY <3>1 DEF limiterVars
    <3> QED BY <1>2, <1>3, <1>4, <2>1, <2>2, <2>3, <3>1, <3>2
            DEF BooksOf, Books, Charging, Returning, Releasing, Settling, ComeBack, Exhausted
  <2>4. CASE ~(Len(made) < Providers)
    <3>1. Unwind(r, ExhaustedCode(made), made)
      BY <1>7, <2>4 DEF Concluded, made
    <3>2. Len(made) = Providers
      BY <1>1, <1>3, <2>4, ProvidersAssumption
    <3>3. /\ ExhaustedCode(made) \in Codes
          /\ Billable(made) => ExhaustedCode(made) \notin ComeBack
      BY <1>1, ExhaustedCodeType
    <3> QED BY <1>1, <1>2, <1>4, <2>1, <2>2, <3>1, <3>2, <3>3, UnwindBooks
  <2> QED BY <2>3, <2>4
<1> QED BY <1>5, <1>6, <1>7

\* What a coroutine does at one of its awaits keeps its own books.
LEMMA BooksKeptByCoroutine ==
  ASSUME ContractInv, OwnerInv, RouterTypeOK, NEW r \in Req, BooksOf(r),
         Reject(r) \/ Arrive(r) \/ Resume(r) \/ Cancel(r) \/ Stop(r)
  PROVE  BooksOf(r)'
<1>0. /\ TypeOK
      /\ pc[r] = "idle" => at[r] = "idle"
      /\ pc[r] = "calling" => at[r] = "granted" /\ ~settled[r]
      /\ pc[r] = "settling" => settled[r]
      /\ attempts[r] \in Seq(Outcomes) /\ generated[r] \in Nat /\ told[r] \in Nat
      /\ pc[r] \in Stages /\ raising[r] \in Codes \cup {"none"} /\ reply[r] \in Replies
  BY DEF ContractInv, CoroutineInv, OwnerInv, RouterTypeOK
<1>1. ~ Has(<< >>, "ok") /\ Len(<< >>) = 0
  BY DEF Has
<1>2. CASE Reject(r)
  <2>1. PICK code \in {"unauthenticated", "invalid_request"} : Answer(r, code)
    BY <1>2 DEF Reject
  <2>2. /\ pc[r] = "idle" /\ pc'[r] = "done" /\ reply'[r] = code
        /\ UNCHANGED <<limiterVars, attempts, settled, raising, told, generated>>
    BY <1>2, <2>1 DEF Reject, Answer, Await, RouterTypeOK
  <2> QED BY <1>0, <1>1, <2>2
          DEF limiterVars, BooksOf, Books, ComeBack, Exhausted
<1>3. CASE Arrive(r)
  <2>1. /\ pc[r] = "idle" /\ pc'[r] = "reserving" /\ at'[r] = "queued"
        /\ UNCHANGED <<charge, attempts, settled, raising, reply, told, generated>>
    BY <1>3 DEF Arrive, TryReserve, Goto, Await, RouterTypeOK, TypeOK, ContractInv
  <2> QED BY <1>0, <1>1, <2>1
          DEF BooksOf, Books, Charging, Returning, Settling, Releasing, ComeBack, Exhausted
<1>4. CASE Admitted(r)
  <2>1. /\ pc[r] = "reserving" /\ pc'[r] = "calling"
        /\ UNCHANGED <<limiterVars, attempts, settled, raising, reply, told, generated>>
    BY <1>4 DEF Admitted, Await, RouterTypeOK
  <2> QED BY <1>0, <1>1, <2>1, ProvidersAssumption DEF limiterVars, BooksOf, Books
<1>5. CASE NotAdmitted(r)
  <2>1. /\ pc[r] = "reserving" /\ pc'[r] = "done"
        /\ \/ reply'[r] = "rate_limit_exceeded" /\ at[r] = "refused"
           \/ reply'[r] = "internal_error"
        /\ UNCHANGED <<limiterVars, attempts, settled, raising, told, generated>>
    BY <1>5 DEF NotAdmitted, Answer, Await, RouterTypeOK
  <2> QED BY <1>0, <1>1, <2>1 DEF limiterVars, BooksOf, Books, ComeBack, Exhausted
<1>6. CASE CancelReserve(r)
  <2>1. /\ pc[r] = "reserving" /\ pc'[r] = "orphaned" /\ reply'[r] = "cancelled"
        /\ UNCHANGED <<limiterVars, attempts, settled, raising, told, generated>>
    BY <1>6 DEF CancelReserve, Await, RouterTypeOK
  <2> QED BY <1>0, <1>1, <2>1 DEF limiterVars, BooksOf, Books, ComeBack, Exhausted
<1>7. CASE ReleaseOrphan(r)
  <2>1. /\ pc[r] = "orphaned" /\ pc'[r] = "done"
        /\ UNCHANGED <<ask, charge, attempts, settled, raising, reply, told, generated>>
        /\ at'[r] = "delete" \/ at'[r] = at[r]
    BY <1>7, <1>0 DEF ReleaseOrphan, Release, Goto, Await, RouterTypeOK, TypeOK, limiterVars
  <2>2. attempts[r] = << >> /\ reply[r] = "cancelled"
    BY <2>1 DEF BooksOf, Books
  <2>3. ~ Has(attempts'[r], "ok") /\ ~ Has(attempts'[r], "unusable_response")
    BY <2>1, <2>2 DEF Has
  <2> QED BY <1>0, <2>1, <2>2, <2>3
          DEF BooksOf, Books, Charging, Returning, Settling, Releasing, ComeBack, Exhausted
<1>8. CASE ProviderAnswers(r)
  <2>1. PICK status \in Statuses, body \in Bodies :
          /\ generated' = IF status \in 200..299
                          THEN [generated EXCEPT ![r] = @ + 1] ELSE generated
          /\ Concluded(r, Outcome(status, body))
    BY <1>8 DEF ProviderAnswers
  <2>2. pc[r] = "calling"
    BY <1>8 DEF ProviderAnswers
  <2>3. /\ Outcome(status, body) \in Outcomes
        /\ \/ generated'[r] = generated[r]
           \/ Outcome(status, body) \in {"ok", "unusable_response"}
           \/ "too_deep" \in Bodies /\ Outcome(status, body) = "transport_error"
    BY <2>1, OutcomeType
  <2> QED BY <1>0, <2>1, <2>2, <2>3, ConcludedBooks
<1>9. CASE ProviderFails(r)
  <2>1. PICK outcome \in {"timeout", "transport_error"} : Concluded(r, outcome)
    BY <1>9 DEF ProviderFails
  <2>2. outcome \in Outcomes /\ generated' = generated /\ pc[r] = "calling"
    BY <1>9 DEF ProviderFails, Outcomes
  <2> QED BY <1>0, <2>1, <2>2, ConcludedBooks
<1>10. CASE CancelCall(r)
  <2>1. /\ pc[r] = "calling" /\ Unwind(r, "cancelled", attempts[r])
        /\ UNCHANGED <<attempts, settled, told, generated>>
    BY <1>10 DEF CancelCall
  <2>2. "cancelled" \in Codes /\ "cancelled" \notin Exhausted /\ "cancelled" \notin ComeBack
    BY DEF Codes, Exhausted, ComeBack
  <2>3. generated'[r] > 0 => \/ Has(attempts[r], "ok") \/ Has(attempts[r], "unusable_response")
                             \/ "too_deep" \in Bodies /\ Has(attempts[r], "transport_error")
    BY <2>1 DEF BooksOf, Books
  <2> QED BY <1>0, <2>1, <2>2, <2>3, UnwindBooks
<1>11. CASE Served(r)
  <2>1. /\ pc[r] = "settling" /\ pc'[r] = "done" /\ reply'[r] = "served"
        /\ at[r] = "settled" /\ told'[r] = charge[r]
        /\ UNCHANGED <<limiterVars, attempts, settled, raising, generated>>
    BY <1>11 DEF Served, Answer, Await, RouterTypeOK
  <2> QED BY <1>0, <2>1 DEF limiterVars, BooksOf, Books, ComeBack, Exhausted
<1>12. CASE SettleInterrupted(r)
  <2>1. PICK why \in {"internal_error", "cancelled"} : Unwind(r, why, attempts[r])
    BY <1>12 DEF SettleInterrupted
  <2>2. /\ pc[r] = "settling" /\ UNCHANGED <<attempts, settled, told, generated>>
    BY <1>12 DEF SettleInterrupted
  <2>3. /\ pc'[r] = "done" /\ reply'[r] = why
        /\ UNCHANGED <<limiterVars, raising>>
    BY <1>0, <2>1, <2>2 DEF Unwind, Answer, Await, RouterTypeOK
  <2> QED BY <1>0, <2>2, <2>3 DEF limiterVars, BooksOf, Books, ComeBack, Exhausted
<1>13. CASE Unwound(r)
  <2>1. /\ pc[r] \in {"charging", "releasing"} /\ pc'[r] = "done"
        /\ \/ at[r] \in {"settled", "released"} /\ reply'[r] = raising[r]
           \/ reply'[r] = "internal_error"
        /\ UNCHANGED <<limiterVars, attempts, settled, raising, told, generated>>
    BY <1>13 DEF Unwound, Answer, Await, RouterTypeOK
  <2>2. at[r] = "settled" => pc[r] = "charging"
    BY <2>1 DEF BooksOf, Books, Returned, Releasing
  <2>3. raising[r] # "served"
    BY <1>0 DEF Codes
  <2> QED BY <1>0, <2>1, <2>2, <2>3 DEF limiterVars, BooksOf, Books, ComeBack, Exhausted
<1>14. CASE CancelUnwinding(r)
  <2>1. /\ pc'[r] = "done" /\ reply'[r] = "cancelled"
        /\ UNCHANGED <<limiterVars, attempts, settled, raising, told, generated>>
    BY <1>14 DEF CancelUnwinding, Answer, Await, RouterTypeOK
  <2> QED BY <1>0, <2>1 DEF limiterVars, BooksOf, Books, ComeBack, Exhausted
<1>15. CASE Stop(r)
  <2>1. /\ pc'[r] = "dead"
        /\ UNCHANGED <<limiterVars, attempts, settled, raising, reply, told, generated>>
    BY <1>15 DEF Stop, Await, RouterTypeOK
  <2> QED BY <1>0, <2>1 DEF limiterVars, BooksOf, Books
<1> QED BY <1>2, <1>3, <1>4, <1>5, <1>6, <1>7, <1>8, <1>9, <1>10, <1>11, <1>12, <1>13, <1>14,
           <1>15 DEF Resume, Cancel

\* Every step of the router keeps every request's books.
LEMMA BooksStep == ContractInv /\ OwnerInv /\ BooksInv /\ [RouterNext]_vars => BooksInv'
<1> SUFFICES ASSUME ContractInv, OwnerInv, BooksInv, [RouterNext]_vars PROVE BooksInv'
  OBVIOUS
<1>1. RouterTypeOK'
  BY RouterTypeStep DEF ContractInv, BooksInv
<1>2. ASSUME NEW q \in Req PROVE BooksOf(q)'
  <2>1. TypeOK /\ RouterTypeOK /\ BooksOf(q)
    BY DEF ContractInv, BooksInv
  <2>2. CASE UNCHANGED vars
    BY <2>1, <2>2 DEF vars, limiterVars, routerVars, BooksOf
  <2>3. CASE LimiterStep
    BY <2>1, <2>3, BooksKeptByJobs
  <2>4. ASSUME NEW r \in Req, Reject(r) \/ Arrive(r) \/ Resume(r) \/ Cancel(r) \/ Stop(r)
        PROVE  BooksOf(q)'
    BY <2>1, <2>4, BooksKeptByOthers, BooksKeptByCoroutine
  <2> QED BY <2>2, <2>3, <2>4 DEF RouterNext
<1> QED BY <1>1, <1>2 DEF BooksInv

\* They are in order before anything happens.
LEMMA BooksStart == RouterInit => BooksInv
<1> SUFFICES ASSUME RouterInit PROVE BooksInv
  OBVIOUS
<1>1. RouterTypeOK
  BY DEF RouterInit, RouterTypeOK, Stages, Replies
<1>2. ASSUME NEW r \in Req PROVE BooksOf(r)
  <2>1. ~ Has(<< >>, "ok")
    BY DEF Has
  <2> QED BY <2>1 DEF RouterInit, LimiterInit, BooksOf, Books, Charging, Returning, Settling,
                      Releasing, ComeBack, Exhausted
<1> QED BY <1>1, <1>2 DEF BooksInv

\* The books are kept in every behaviour.
LEMMA BooksHold == RouterSpec => []BooksInv /\ []OwnerInv /\ []ContractInv
<1>1. RouterInit => OwnerInv
  BY DEF RouterInit, LimiterInit, OwnerInv, Reserving
<1> QED BY <1>1, BooksStart, BooksStep, OwnerStep, ContractHolds, PTL DEF RouterSpec

\* A provider's own outcome never becomes an error code the client sees, and the
\* router's other variables have their types (errors.py:20-27,
\* router.py:250-262).
THEOREM RouterIsTyped == RouterSpec => []RouterTypeOK
  BY BooksHold, PTL DEF BooksInv

-----------------------------------------------------------------------------
(* What is booked stays booked.                                            *)

\* A row has the stamp of the request it belongs to, so what an eviction removes
\* has left the window.
BookedInv ==
  \A r \in Req :
    /\ InLedger(r) => rows[r].created = clock[r]
    /\ at[r] = "settled" => Booked(r, charge[r])

\* No statement, failure or tick changes what a settled reservation is charged
\* before its row is out of the window.
LEMMA BookedStep ==
  TypeOK /\ LinkInv /\ BookedInv /\ [LimiterNext]_limiterVars => BookedInv'
<1> SUFFICES ASSUME TypeOK, LinkInv, BookedInv, [LimiterNext]_limiterVars,
                    NEW r \in Req
             PROVE  /\ InLedger(r)' => rows'[r].created = clock'[r]
                    /\ at'[r] = "settled" => Booked(r, charge[r])'
  BY DEF BookedInv
<1>0. /\ InLedger(r) => rows[r].created = clock[r]
      /\ at[r] = "settled" => Booked(r, charge[r])
      /\ at[r] \in NeverGranted => ~ InLedger(r)
      /\ now \in Nat /\ clock[r] \in Nat /\ clock[r] <= now /\ Window \in Nat
      /\ InLedger(r) => rows[r] \in Row
  BY WindowAssumption DEF BookedInv, LinkInv, FreshInv, ClockInv, TypeOK, InLedger
<1> DEFINE Same == /\ rows'[r] = rows[r] /\ clock'[r] = clock[r] /\ charge'[r] = charge[r]
                   /\ at'[r] = "settled" => at[r] = "settled"
                   /\ now' \in Nat /\ now <= now'
<1>1. ASSUME Same
      PROVE  /\ InLedger(r)' => rows'[r].created = clock'[r]
             /\ at'[r] = "settled" => Booked(r, charge[r])'
  BY <1>0, <1>1 DEF InLedger, Booked
<1> HIDE DEF Same
<1>2. CASE UNCHANGED limiterVars
  <2>1. Same
    BY <1>0, <1>2 DEF Same, limiterVars
  <2> QED BY <1>1, <2>1
<1>3. CASE Tick
  <2>1. Same
    BY <1>0, <1>3 DEF Same, Tick
  <2> QED BY <1>1, <2>1
<1>4. ASSUME NEW q \in Req, q # r, Call(q) \/ Work(q) \/ Raise(q) \/ JobDies(q), ~ Evict(q)
      PROVE  Same
  BY <1>0, <1>4 DEF Same, TypeOK, Goto, ledgerVars, Call, TryReserve, Settle, Release, Raise,
                    JobDies, Work, ReadClock, Begin, Select, Grant, Refuse, Hint, Update,
                    UpdateMisses, Rerecord, Delete
<1>5. ASSUME NEW q \in Req, Evict(q)
      PROVE  /\ InLedger(r)' => rows'[r].created = clock'[r]
             /\ at'[r] = "settled" => Booked(r, charge[r])'
  <2>1. /\ now' = now /\ clock' = clock /\ charge' = charge
        /\ at'[r] = "settled" => at[r] = "settled"
        /\ rows'[r] = rows[r] \/ rows'[r] = NoRow
    BY <1>5 DEF Evict, Goto, TypeOK
  <2>2. CASE rows'[r] = rows[r]
    BY <1>0, <1>1, <2>1, <2>2 DEF Same
  <2>3. CASE rows'[r] # rows[r]
    <3>1. r \in Expired(clock[q])
      BY <1>5, <2>3 DEF Evict
    <3>2. InLedger(r) /\ rows[r].created < clock[q] - Window
      BY <3>1 DEF Expired
    <3>3. clock[q] \in Nat /\ clock[q] <= now
      BY DEF TypeOK, LinkInv, ClockInv
    <3>4. clock[r] < now - Window
      BY <1>0, <3>2, <3>3
    <3>5. ~ InLedger(r)'
      BY <2>1, <2>3 DEF InLedger
    <3> QED BY <2>1, <3>4, <3>5 DEF Booked
  <2> QED BY <2>2, <2>3
<1>6. CASE Call(r) \/ Raise(r) \/ JobDies(r)
  <2>1. /\ rows' = rows /\ clock' = clock /\ at'[r] # "settled"
    <3> USE DEF Goto, ledgerVars, TypeOK, Running, Reserving, Settling, Releasing
    <3>1. CASE Call(r)
      BY <3>1 DEF Call, TryReserve, Settle, Release
    <3>2. CASE Raise(r)
      <4>1. rows' = rows /\ clock' = clock
        BY <3>2 DEF Raise
      <4>2. at'[r] \in {"reserve_failed", "settle_failed", "release_failed"}
        BY <3>2 DEF Raise
      <4> QED BY <4>1, <4>2
    <3>3. CASE JobDies(r)
      BY <3>3 DEF JobDies
    <3> QED BY <1>6, <3>1, <3>2, <3>3
  <2> QED BY <1>0, <2>1 DEF InLedger
<1>7. CASE Work(r) /\ ~ Evict(r)
  <2>1. CASE Begin(r) \/ Select(r) \/ Refuse(r) \/ Hint(r)
    <3>1. rows' = rows /\ clock' = clock /\ at'[r] # "settled"
      BY <2>1 DEF Begin, Select, Refuse, Hint, Goto, ledgerVars, TypeOK
    <3> QED BY <1>0, <3>1 DEF InLedger
  <2>2. CASE ReadClock(r) \/ UpdateMisses(r)
    <3>1. rows' = rows /\ at'[r] # "settled" /\ ~ InLedger(r)
      BY <1>0, <2>2 DEF ReadClock, UpdateMisses, Goto, ledgerVars, TypeOK, NeverGranted, Reserving
    <3> QED BY <3>1 DEF InLedger
  <2>3. CASE Grant(r)
    <3>1. rows'[r] = Hold(r) /\ clock' = clock /\ at'[r] # "settled"
      BY <2>3 DEF Grant, Goto, TypeOK
    <3> QED BY <3>1 DEF Hold
  <2>4. CASE Update(r)
    <3>1. /\ rows'[r] = [rows[r] EXCEPT !.tokens = charge[r], !.settled = TRUE]
          /\ clock' = clock /\ charge' = charge /\ rows[r] \in Row
          /\ rows[r].created = clock[r]
      BY <1>0, <2>4 DEF Update, TypeOK
    <3>2. rows'[r].created = clock'[r] /\ rows'[r].tokens = charge'[r] /\ rows'[r].settled
      BY <3>1 DEF Row
    <3>3. InLedger(r)'
      BY <3>1, NoRowAssumption, <1>0, <2>4 DEF Update, InLedger, TypeOK, Row
    <3> QED BY <3>2, <3>3 DEF Booked
  <2>5. CASE Rerecord(r)
    <3>1. PICK stamp \in clock[r] .. now :
            /\ rows'[r] = [key |-> key[r], created |-> stamp, tokens |-> charge[r],
                           settled |-> TRUE]
            /\ clock'[r] = stamp
      BY <2>5 DEF Rerecord, TypeOK
    <3>2. charge' = charge
      BY <2>5 DEF Rerecord
    <3>3. stamp \in Nat /\ rows'[r] \in Row
      BY <3>1, <1>0 DEF Row, TypeOK
    <3>4. InLedger(r)'
      BY <3>3, NoRowAssumption DEF InLedger
    <3> QED BY <3>1, <3>2, <3>4 DEF Booked
  <2>6. CASE Delete(r)
    <3>1. rows'[r] = NoRow /\ at'[r] # "settled"
      BY <2>6 DEF Delete, Goto, TypeOK
    <3> QED BY <3>1 DEF InLedger
  <2> QED BY <1>7, <2>1, <2>2, <2>3, <2>4, <2>5, <2>6 DEF Work
<1> QED BY <1>1, <1>2, <1>3, <1>4, <1>5, <1>6, <1>7 DEF LimiterNext

\* What the ledger and the calls to it say of every reservation, in the router.
LEMMA LedgerHolds == RouterSpec => [](TypeOK /\ LinkInv /\ BookedInv /\ ReconciledInv)
<1>1. LimiterInit => LinkInv /\ BookedInv /\ ReconciledInv
  BY DEF LimiterInit, LinkInv, ClockInv, FreshInv, BackedInv, BookedInv, ReconciledInv, InLedger
<1>2. RouterSpec => LimiterSpec
  BY ContractIsKept DEF KeepsContract
<1>3. LimiterSpec => [](TypeOK /\ LinkInv /\ BookedInv /\ ReconciledInv)
  BY <1>1, LinkStep, BookedStep, ReconciledStep, TypeCorrect, PTL DEF LimiterSpec
<1> QED BY <1>2, <1>3, PTL

\* A client told to come back later has been charged nothing, and when the
\* providers are to blame each of them was tried (router.py:250-262).
THEOREM RetriesAreFree == RouterSpec => []RetryableIsFree
<1>1. TypeOK /\ LinkInv /\ ReconciledInv /\ BooksInv => RetryableIsFree
  <2> SUFFICES ASSUME TypeOK, LinkInv, ReconciledInv, BooksInv, NEW r \in Req
               PROVE  /\ reply[r] \in ComeBack => ~ InLedger(r)
                      /\ reply[r] \in Exhausted => Len(attempts[r]) = Providers
    BY DEF RetryableIsFree, ComeBack, Exhausted
  <2>1. /\ reply[r] \in ComeBack => at[r] \in {"refused", "released"}
        /\ reply[r] \in Exhausted => Len(attempts[r]) = Providers
    BY DEF BooksInv, BooksOf, Books
  <2>2. at[r] \in {"refused", "released"} => ~ InLedger(r)
    BY DEF LinkInv, FreshInv, NeverGranted, ReconciledInv
  <2> QED BY <2>1, <2>2
<1> QED BY <1>1, BooksHold, LedgerHolds, PTL

\* What a finished request did to the ledger is what its attempts call for,
\* whatever the providers answered and whenever it was cancelled
\* (router.py:80-83, 163-187).
THEOREM BooksAlwaysBalance == RouterSpec => []BooksBalance
<1>1. TypeOK /\ BookedInv /\ ReconciledInv /\ OwnerInv /\ BooksInv => BooksBalance
  <2> SUFFICES ASSUME TypeOK, BookedInv, ReconciledInv, OwnerInv, BooksInv,
                      NEW r \in Req, pc[r] = "done", at[r] \in {"granted", "settled", "released"}
               PROVE  CASE Tried(r, "ok") ->
                             /\ Booked(r, charge[r])
                             /\ reply[r] = "served" => told[r] = charge[r]
                        [] ~Tried(r, "ok") /\ Tried(r, "unusable_response") -> Booked(r, ask[r])
                        [] ~Tried(r, "ok") /\ ~Tried(r, "unusable_response") ->
                             /\ ~InLedger(r)
                             /\ generated[r] > 0
                                  => "too_deep" \in Bodies /\ Tried(r, "transport_error")
    BY DEF BooksBalance
  <2>1. \A o : Tried(r, o) <=> Has(attempts[r], o)
    BY DEF Tried, Has
  <2>2. at[r] \in {"settled", "released"}
    BY DEF OwnerInv
  <2>3. /\ at[r] = "settled" => Tried(r, "ok") \/ (Tried(r, "unusable_response") /\ charge[r] = ask[r])
        /\ at[r] = "released" => ~ Tried(r, "ok") /\ ~ Tried(r, "unusable_response")
        /\ reply[r] = "served" => told[r] = charge[r]
        /\ generated[r] > 0 => \/ Tried(r, "ok") \/ Tried(r, "unusable_response")
                               \/ "too_deep" \in Bodies /\ Tried(r, "transport_error")
    BY <2>1 DEF BooksInv, BooksOf, Books, Charging, Returning
  <2>4. at[r] = "settled" => Booked(r, charge[r])
    BY DEF BookedInv
  <2>5. at[r] = "released" => ~ InLedger(r)
    BY DEF ReconciledInv
  <2> QED BY <2>2, <2>3, <2>4, <2>5
<1> QED BY <1>1, BooksHold, LedgerHolds, PTL
=============================================================================
