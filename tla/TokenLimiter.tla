----------------------------- MODULE TokenLimiter -----------------------------
(***************************************************************************)
(* The token-aware sliding-window rate limiter of                          *)
(* src/task4_model_router/limiter.py.                                      *)
(*                                                                         *)
(* Every limiter call is a job on a thread of its own that talks to one    *)
(* SQLite file shared by all threads and all worker processes.  A job is a *)
(* sequence of SQL statements; the statements of different jobs interleave *)
(* and only BEGIN IMMEDIATE .. COMMIT/ROLLBACK excludes other writers.     *)
(* One step here is one SQL statement, or the Python between two of them.  *)
(*                                                                         *)
(* A member r of Req stands for one call to try_reserve and, when that is  *)
(* granted, for the reservation (its uuid is r) and the one settle or      *)
(* release that follows.                                                   *)
(***************************************************************************)
EXTENDS TokenLedger

CONSTANTS
  Asks,        (* what a request may ask to reserve                        *)
  Reports,     (* what a provider may report as actual usage               *)
  EvictBatch,  (* _EVICTION_BATCH                                          *)
  Horizon,     (* bound on the clock: Tick stops there                     *)
  DbFaults,    (* may a statement raise sqlite3.Error?                     *)
  NoWriter     (* "nobody holds the write lock"                            *)

ASSUME AsksAssumption     == Asks \subseteq Nat \ {0}
ASSUME ReportsAssumption  == Reports \subseteq Int
ASSUME BatchAssumption    == EvictBatch \in Nat \ {0}
ASSUME HorizonAssumption  == Horizon \in Nat
ASSUME FaultsAssumption   == DbFaults \in BOOLEAN
ASSUME NoWriterAssumption == NoWriter \notin Req

VARIABLES
  writer,  (* the job holding SQLite's write lock, or NoWriter             *)
  at,      (* the statement the job of a request is about to execute       *)
  key,     (* tenant_key of the request                                    *)
  ask,     (* tokens it asked for                                          *)
  clock,   (* the job's local `now`: read once, used later                 *)
  used,    (* the job's local `used`                                       *)
  charge,  (* the clamped charge of a settle, its return value             *)
  hint,    (* retry_after of a refusal, in ticks                           *)
  silent   (* ghost: the budget a request holds or has been charged that   *)
           (* no warning in the log accounts for                           *)

ledgerVars == <<now, rows, writer>>
limiterVars == <<now, rows, writer, at, key, ask, clock, used, charge, hint, silent>>

-----------------------------------------------------------------------------
(* Where a job can be.                                                     *)

Reserving == {"queued", "evict", "begin", "select", "decide", "hint"}
Settling  == {"update", "rerecord"}
Releasing == {"delete"}
Running   == Reserving \cup Settling \cup Releasing

\* The job returned to its caller, or raised.
Answered == {"granted", "refused", "settled", "released",
             "reserve_failed", "settle_failed", "release_failed"}

\* Its thread died with the process: during a reserve, during a settle/release.
Dead == {"reserve_lost", "reconcile_lost"}

\* The reservation was never committed.
NeverGranted == {"idle", "refused", "reserve_failed", "reserve_lost"} \cup Reserving

Places == {"idle"} \cup Running \cup Answered \cup Dead

-----------------------------------------------------------------------------
(* Arithmetic of the limiter.                                              *)

Least(a, b) == IF a <= b THEN a ELSE b
Greatest(a, b) == IF a >= b THEN a ELSE b

\* max(0, min(int(actual_tokens), ceiling))
Clamp(n, reported) == Greatest(0, Least(reported, Greatest(MaxCharge, n)))

\* The rows a query over tenant k and created_ms >= cutoff visits.
InWindow(k, cutoff) ==
  {q \in Req : InLedger(q) /\ rows[q].key = k /\ rows[q].created >= cutoff}

\* SUM(tokens) OVER (ORDER BY created_ms) at c: peers of c are included.
RunningTotal(k, cutoff, c) == Cardinality({u \in RowUnits(k, cutoff) : rows[u[1]].created <= c})

\* Mutant: WHERE running > deficit.
CoveringStrictly(k, cutoff, deficit) ==
  {c \in {rows[q].created : q \in InWindow(k, cutoff)} : RunningTotal(k, cutoff, c) > deficit}

\* WHERE running >= deficit: the times by which enough tokens have been spent.
Covering(k, cutoff, deficit) ==
  {c \in {rows[q].created : q \in InWindow(k, cutoff)} : RunningTotal(k, cutoff, c) >= deficit}

\* Mutant: the clock moved on since the covering row was young enough.
RetryAfterUnbounded(n, k, cutoff, u) ==
  LET covering == Covering(k, cutoff, u + n - Limit)
  IN  IF n > Limit \/ covering = {}
      THEN Window
      ELSE (CHOOSE c \in covering : \A d \in covering : c <= d) + Window - now

\* _retry_after_sync: wait until the first such row ages out.
RetryAfter(n, k, cutoff, u) ==
  LET covering == Covering(k, cutoff, u + n - Limit)
  IN  IF n > Limit \/ covering = {}
      THEN Window
      ELSE Greatest(0, (CHOOSE c \in covering : \A d \in covering : c <= d) + Window - now)

-----------------------------------------------------------------------------
(* The caller's side: what router.py calls.                                *)

LimiterInit ==
  /\ now = 0
  /\ rows   = [r \in Req |-> NoRow]
  /\ writer = NoWriter
  /\ at     = [r \in Req |-> "idle"]
  /\ key    \in [Req -> Keys]
  /\ ask    = [r \in Req |-> 0]
  /\ clock  = [r \in Req |-> 0]
  /\ used   = [r \in Req |-> 0]
  /\ charge = [r \in Req |-> 0]
  /\ hint   = [r \in Req |-> 0]
  /\ silent = [r \in Req |-> 0]

Goto(r, place) == at' = [at EXCEPT ![r] = place]

\* try_reserve(key[r], n) is submitted to the executor.
TryReserve(r, n) ==
  /\ at[r] = "idle"
  /\ ask' = [ask EXCEPT ![r] = n]
  /\ Goto(r, "queued")
  /\ UNCHANGED <<ledgerVars, key, clock, used, charge, hint, silent>>

\* settle(reservation, reported): the clamp, then the job waits for its UPDATE.
Settle(r, reported) ==
  /\ at[r] \in Answered
  /\ charge' = [charge EXCEPT ![r] = Clamp(ask[r], reported)]
  /\ Goto(r, "update")
  /\ UNCHANGED <<ledgerVars, key, ask, clock, used, hint, silent>>

\* release(reservation)
Release(r) ==
  /\ at[r] \in Answered
  /\ Goto(r, "delete")
  /\ UNCHANGED <<ledgerVars, key, ask, clock, used, charge, hint, silent>>

-----------------------------------------------------------------------------
(* _try_reserve_sync                                                       *)

\* now = self._now_ms(): before the connection, the eviction and the lock.
ReadClock(r) ==
  /\ at[r] = "queued"
  /\ clock' = [clock EXCEPT ![r] = now]
  /\ Goto(r, "evict")
  /\ UNCHANGED <<ledgerVars, key, ask, used, charge, hint, silent>>

\* DELETE ... WHERE created_ms < cutoff LIMIT _EVICTION_BATCH: all tenants, own commit.
Evict(r) ==
  /\ at[r] = "evict"
  /\ writer = NoWriter
  /\ \E gone \in SUBSET Expired(clock[r]) :
       /\ Cardinality(gone) = Least(EvictBatch, Cardinality(Expired(clock[r])))
       /\ rows' = [q \in Req |-> IF q \in gone THEN NoRow ELSE rows[q]]
  /\ Goto(r, "begin")
  /\ UNCHANGED <<now, writer, key, ask, clock, used, charge, hint, silent>>

\* BEGIN IMMEDIATE
Begin(r) ==
  /\ at[r] = "begin"
  /\ writer = NoWriter
  /\ writer' = r
  /\ Goto(r, "select")
  /\ UNCHANGED <<now, rows, key, ask, clock, used, charge, hint, silent>>

\* used = SELECT COALESCE(SUM(tokens), 0)
Select(r) ==
  /\ at[r] = "select"
  /\ used' = [used EXCEPT ![r] = UsedSince(key[r], clock[r] - Window)]
  /\ Goto(r, "decide")
  /\ UNCHANGED <<ledgerVars, key, ask, clock, charge, hint, silent>>

Fits(r) == used[r] + ask[r] <= Limit

Hold(r) == [key |-> key[r], created |-> clock[r], tokens |-> ask[r], settled |-> FALSE]

\* INSERT; COMMIT
Grant(r) ==
  /\ at[r] = "decide"
  /\ Fits(r)
  /\ rows'   = [rows EXCEPT ![r] = Hold(r)]
  /\ silent' = [silent EXCEPT ![r] = ask[r]]
  /\ writer' = NoWriter
  /\ Goto(r, "granted")
  /\ UNCHANGED <<now, key, ask, clock, used, charge, hint>>

\* used + tokens > limit: ROLLBACK, then the hint outside the transaction.
Refuse(r) ==
  /\ at[r] = "decide"
  /\ ~Fits(r)
  /\ writer' = NoWriter
  /\ Goto(r, "hint")
  /\ UNCHANGED <<now, rows, key, ask, clock, used, charge, hint, silent>>

\* _retry_after_sync on whatever the ledger and the clock are by now; the
\* window itself when its query raises.
Hint(r) ==
  /\ at[r] = "hint"
  /\ \/ hint' = [hint EXCEPT ![r] = RetryAfter(ask[r], key[r], clock[r] - Window, used[r])]
     \/ DbFaults /\ hint' = [hint EXCEPT ![r] = Window]
  /\ Goto(r, "refused")
  /\ UNCHANGED <<ledgerVars, key, ask, clock, used, charge, silent>>

-----------------------------------------------------------------------------
(* _settle_sync and _release_sync                                          *)

\* Mutant: the settled row is stamped anew.
UpdateRestamps(r) ==
  /\ at[r] = "update"
  /\ writer = NoWriter
  /\ InLedger(r)
  /\ rows'   = [rows EXCEPT ![r] =
       [@ EXCEPT !.tokens = charge[r], !.settled = TRUE, !.created = now]]
  /\ silent' = [silent EXCEPT ![r] = Least(@, charge[r])]
  /\ Goto(r, "settled")
  /\ UNCHANGED <<now, writer, key, ask, clock, used, charge, hint>>

\* UPDATE ... SET tokens = charged, settled = 1 WHERE id = r: one row matched.
Update(r) ==
  /\ at[r] = "update"
  /\ writer = NoWriter
  /\ InLedger(r)
  /\ rows'   = [rows EXCEPT ![r] = [@ EXCEPT !.tokens = charge[r], !.settled = TRUE]]
  /\ silent' = [silent EXCEPT ![r] = Least(@, charge[r])]
  /\ Goto(r, "settled")
  /\ UNCHANGED <<now, writer, key, ask, clock, used, charge, hint>>

\* rowcount = 0: the hold was evicted.  Warn; the new row's stamp is no older than this.
UpdateMisses(r) ==
  /\ at[r] = "update"
  /\ writer = NoWriter
  /\ ~InLedger(r)
  /\ clock'  = [clock EXCEPT ![r] = now]
  /\ silent' = [silent EXCEPT ![r] = 0]
  /\ Goto(r, "rerecord")
  /\ UNCHANGED <<ledgerVars, key, ask, used, charge, hint>>

\* INSERT OR REPLACE, a statement of its own, stamped with a clock read between
\* the two statements: the insert may have to wait for the lock after it.
Rerecord(r) ==
  /\ at[r] = "rerecord"
  /\ writer = NoWriter
  /\ \E stamp \in clock[r]..now :
       /\ rows'  = [rows EXCEPT ![r] =
            [key |-> key[r], created |-> stamp, tokens |-> charge[r], settled |-> TRUE]]
       /\ clock' = [clock EXCEPT ![r] = stamp]
  /\ Goto(r, "settled")
  /\ UNCHANGED <<now, writer, key, ask, used, charge, hint, silent>>

\* DELETE ... WHERE id = r: no error when the row is gone already.
Delete(r) ==
  /\ at[r] = "delete"
  /\ writer = NoWriter
  /\ rows'   = [rows EXCEPT ![r] = NoRow]
  /\ silent' = [silent EXCEPT ![r] = 0]
  /\ Goto(r, "released")
  /\ UNCHANGED <<now, writer, key, ask, clock, used, charge, hint>>

-----------------------------------------------------------------------------
(* What goes wrong, and time.                                              *)

\* Mutant: the connection is left open inside its transaction.
KeepLock(r) == UNCHANGED writer

\* A thread that stops gives the lock back: ROLLBACK, close(), or process death.
GiveBackLock(r) == writer' = IF writer = r THEN NoWriter ELSE writer

\* Any statement may raise (locked for longer than busy_timeout, disk full...):
\* the transaction is rolled back and the call raises.
Raise(r) ==
  /\ DbFaults
  /\ at[r] \in Running \ {"hint"}
  /\ Goto(r, CASE at[r] \in Reserving -> "reserve_failed"
               [] at[r] \in Settling  -> "settle_failed"
               [] at[r] \in Releasing -> "release_failed")
  /\ GiveBackLock(r)
  /\ UNCHANGED <<now, rows, key, ask, clock, used, charge, hint, silent>>

\* The worker process dies under the job; the file keeps what was committed.
JobDies(r) ==
  /\ at[r] \in Running
  /\ Goto(r, IF at[r] \in Reserving THEN "reserve_lost" ELSE "reconcile_lost")
  /\ GiveBackLock(r)
  /\ UNCHANGED <<now, rows, key, ask, clock, used, charge, hint, silent>>

Tick ==
  /\ now < Horizon
  /\ now' = now + 1
  /\ UNCHANGED <<rows, writer, at, key, ask, clock, used, charge, hint, silent>>

-----------------------------------------------------------------------------

\* One statement of the job of r.
Work(r) ==
  \/ ReadClock(r) \/ Evict(r) \/ Begin(r) \/ Select(r)
  \/ Grant(r) \/ Refuse(r) \/ Hint(r)
  \/ Update(r) \/ UpdateMisses(r) \/ Rerecord(r) \/ Delete(r)

\* A caller that keeps the Reservation contract: settle or release, once.
Call(r) ==
  \/ \E n \in Asks : TryReserve(r, n)
  \/ at[r] = "granted" /\ \E reported \in Reports \cup {ask[r]} : Settle(r, reported)
  \/ at[r] = "granted" /\ Release(r)

LimiterNext == Tick \/ \E r \in Req : Call(r) \/ Work(r) \/ Raise(r) \/ JobDies(r)

LimiterSpec == LimiterInit /\ [][LimiterNext]_limiterVars

-----------------------------------------------------------------------------
(* Properties.                                                             *)

TypeOK ==
  /\ now \in Nat
  /\ rows \in [Req -> Row \cup {NoRow}]
  /\ writer \in Req \cup {NoWriter}
  /\ at \in [Req -> Places]
  /\ key \in [Req -> Keys]
  /\ ask \in [Req -> Nat]
  /\ clock \in [Req -> Nat]
  /\ used \in [Req -> Nat]
  /\ charge \in [Req -> Nat]
  /\ hint \in [Req -> Nat]
  /\ silent \in [Req -> Nat]

\* The units of k's budget held or charged in the last window without a warning.
SilentUnits(k) ==
  {u \in Req \X Token :
     /\ key[u[1]] = k
     /\ clock[u[1]] >= now - Window
     /\ u[2] <= silent[u[1]]}

\* No silent overspend: whatever the ledger has evicted, lost or overwritten,
\* what a tenant was granted in the trailing window and has not given back stays
\* within the limit.  Only a charge the limiter warned about (above the
\* reservation, or re-recorded after eviction) can exceed it
\* (limiter.py:302-323, "A loud overspend is recoverable; a silent one is not").
NoSilentOverspend == \A k \in Keys : Cardinality(SilentUnits(k)) <= Limit

\* The sum read inside BEGIN IMMEDIATE is still the sum when the INSERT or the
\* refusal acts on it (limiter.py:195-198).
SnapshotHolds ==
  \A r \in Req : at[r] = "decide" => used[r] = UsedSince(key[r], clock[r] - Window)

\* The answer of a hint whose query raised: a whole window (limiter.py:282-283).
IsFallback(ticks) == DbFaults /\ ticks = Window

\* The retry hint against the ledger it was computed for: after it the request
\* fits, unless more is spent meanwhile, and before it the request does not; the
\* fallback of a whole window may be late, never early (limiter.py:258-283).
HintIsExact ==
  [][\A r \in Req :
       /\ at[r] = "hint" /\ at'[r] = "refused"
       /\ ask[r] <= Limit
       /\ UsedSince(key[r], clock[r] - Window) = used[r]
       => \A t \in now .. now + Window + 1 :
            LET Fitting == UsedSince(key[r], t - Window) + ask[r] <= Limit
            IN  /\ t > now + hint'[r] => Fitting
                /\ t < now + hint'[r] /\ ~IsFallback(hint'[r]) => ~Fitting]_limiterVars

\* The stage of a reservation, as the ledger and the callers' calls show it.
Life ==
  [r \in Req |->
     IF InLedger(r) THEN IF rows[r].settled THEN "charged" ELSE "held"
     ELSE IF at[r] \in NeverGranted THEN "none"
     ELSE IF at[r] = "released" THEN "returned"
     ELSE "lapsed"]

Budget == INSTANCE TokenBudget WITH life <- Life

\* The limiter's interleaved statements implement a budget that checks and holds
\* in one step and never gives back a charge.
ImplementsBudget == Budget!BudgetSpec
=============================================================================
