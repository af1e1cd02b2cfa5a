---------------------------- MODULE LimiterRealTime ----------------------------
(***************************************************************************)
(* The limiter as a client sees it: the Retry-After header of a refusal    *)
(* (src/task4_model_router/errors.py) against the ledger that refused it.  *)
(***************************************************************************)
EXTENDS TokenLimiter

CONSTANT TicksPerSecond   (* resolution of the clock: 1000 in the code      *)

ASSUME ResolutionAssumption == TicksPerSecond \in Nat \ {0}

\* Mutant: the fraction of a second is dropped.
TruncatedHeader(ticks) == Greatest(1, ticks \div TicksPerSecond)

\* max(1, int(retry_after + 0.999)) of a hint in milliseconds.
RetryAfterHeader(ticks) == Greatest(1, (ticks + TicksPerSecond - 1) \div TicksPerSecond)

-----------------------------------------------------------------------------

\* The rounded header against the ledger its hint was computed for: after the
\* moment it names the refused request fits, and a whole second before it, when
\* that is still to come, it does not, but for the fallback, which may be late
\* (errors.py:105-112, limiter.py:258-283).
RoundedHintFits ==
  [][\A r \in Req :
       /\ at[r] = "hint" /\ at'[r] = "refused"
       /\ ask[r] <= Limit
       /\ UsedSince(key[r], clock[r] - Window) = used[r]
       => LET header   == RetryAfterHeader(hint'[r])
              comeback == now + header * TicksPerSecond
              FitsAt(t) == UsedSince(key[r], t - Window) + ask[r] <= Limit
          IN  /\ \A t \in comeback + 1 .. comeback + Window + 1 : FitsAt(t)
              /\ header > 1 /\ ~IsFallback(hint'[r]) =>
                   ~FitsAt(comeback - TicksPerSecond)]_limiterVars
=============================================================================
