------------------------------ MODULE ModelRouter ------------------------------
(***************************************************************************)
(* One request through src/task4_model_router: the coroutine of router.py  *)
(* (route, _attempt_providers, _call_provider, _release_orphan) over the   *)
(* limiter's jobs, with app.py's checks before it and the reply after it.  *)
(*                                                                         *)
(* The coroutine runs on the event loop and gives it up only at an await:  *)
(* one step here is the code from one await to the next.  The limiter's    *)
(* jobs are awaited through asyncio.shield, so a cancellation ends the     *)
(* coroutine and never the job: the two halves are separate actors.        *)
(***************************************************************************)
EXTENDS TokenLimiter, Sequences

CONSTANTS
  Providers,   (* how many providers are configured, tried in order        *)
  Statuses,    (* HTTP statuses a provider may answer with                 *)
  Bodies,      (* bodies it may send with a 2xx                            *)
  Cancels,     (* may a request be cancelled?                              *)
  Crashes      (* may the worker process stop?                             *)

\* A JSON object, other JSON, no JSON at all, JSON nested past the recursion limit.
BodyKinds == {"object", "not_object", "not_json", "too_deep"}

ASSUME ProvidersAssumption == Providers \in Nat \ {0}
ASSUME StatusesAssumption  == Statuses \subseteq 100..599
ASSUME BodiesAssumption    == Bodies \subseteq BodyKinds
ASSUME SwitchesAssumption  == Cancels \in BOOLEAN /\ Crashes \in BOOLEAN

VARIABLES
  pc,         (* the await the coroutine of a request is suspended at      *)
  attempts,   (* attempts_made: the outcomes so far                        *)
  settled,    (* the flag `settled`: a charge for a completion has begun   *)
  raising,    (* the exception an unwinding request will raise             *)
  reply,      (* what the client got: "served" or an error code            *)
  told,       (* tokens_charged in a served reply                          *)
  generated   (* ghost: how many providers sent a completion               *)

routerVars == <<pc, attempts, settled, raising, reply, told, generated>>
vars == <<limiterVars, routerVars>>

Suspended == {"reserving", "calling", "settling", "charging", "releasing", "orphaned"}
Stages    == {"idle", "done", "dead"} \cup Suspended

Outcomes == {"ok", "rate_limited", "timeout", "server_error", "transport_error",
             "unusable_response", "client_error"}
Codes    == {"rate_limit_exceeded", "upstream_timeout", "upstream_rate_limited",
             "all_providers_failed", "invalid_request", "unauthenticated",
             "internal_error", "cancelled"}
Replies  == {"none", "served"} \cup Codes

-----------------------------------------------------------------------------
(* _call_provider: what one attempt comes to.                              *)

CallerErrorStatuses == {400, 405, 406, 415, 422}

\* response.json() and isinstance(parsed, dict); RecursionError is neither an
\* httpx error nor a ValueError.
BodyOutcome(body) ==
  CASE body = "object"                     -> "ok"
    [] body \in {"not_object", "not_json"} -> "unusable_response"
    [] body = "too_deep"                   -> "transport_error"

\* Every status that is neither a success, the caller's fault nor a 429 is this
\* provider's problem: 1xx, 3xx, _FAILOVER_STATUSES, 5xx and unrecognised 4xx.
Outcome(status, body) ==
  CASE status \in 200..299             -> BodyOutcome(body)
    [] status = 429                    -> "rate_limited"
    [] status \in CallerErrorStatuses  -> "client_error"
    [] status \notin 200..299 \cup {429} \cup CallerErrorStatuses -> "server_error"

\* Mutant: only the last attempt decides.
BillableLast(made) == made # << >> /\ made[Len(made)] = "unusable_response"

\* _BILLABLE_OUTCOMES
Billable(made) == \E i \in 1..Len(made) : made[i] = "unusable_response"

AllAre(made, outcome) == \A i \in 1..Len(made) : made[i] = outcome

\* Mutant: the last attempt names the error.
CodeOfLast(made) ==
  CASE made[Len(made)] = "timeout"      -> "upstream_timeout"
    [] made[Len(made)] = "rate_limited" -> "upstream_rate_limited"
    [] made[Len(made)] \notin {"timeout", "rate_limited"} -> "all_providers_failed"

\* The error raised when no provider served the request.
ExhaustedCode(made) ==
  CASE AllAre(made, "timeout")      -> "upstream_timeout"
    [] AllAre(made, "rate_limited") -> "upstream_rate_limited"
    [] ~AllAre(made, "timeout") /\ ~AllAre(made, "rate_limited") -> "all_providers_failed"

-----------------------------------------------------------------------------

RouterInit ==
  /\ LimiterInit
  /\ pc        = [r \in Req |-> "idle"]
  /\ attempts  = [r \in Req |-> << >>]
  /\ settled   = [r \in Req |-> FALSE]
  /\ raising   = [r \in Req |-> "none"]
  /\ reply     = [r \in Req |-> "none"]
  /\ told      = [r \in Req |-> 0]
  /\ generated = [r \in Req |-> 0]

Await(r, stage) == pc' = [pc EXCEPT ![r] = stage]

\* The coroutine ends; the client gets `what`.
Answer(r, what) ==
  /\ Await(r, "done")
  /\ reply' = [reply EXCEPT ![r] = what]

\* Charge the hold when a provider generated, else give it back; then raise.
Reconcile(r, why, made) ==
  /\ raising' = [raising EXCEPT ![r] = why]
  /\ UNCHANGED reply
  /\ IF Billable(made)
     THEN Settle(r, ask[r]) /\ Await(r, "charging")
     ELSE Release(r) /\ Await(r, "releasing")

\* Mutant: no `settled` flag.
UnwindAlways(r, why, made) == at[r] \in Answered /\ Reconcile(r, why, made)

\* The `except BaseException` of route(): nothing is left to do if the charge
\* has begun.
Unwind(r, why, made) ==
  \/ settled[r] /\ Answer(r, why) /\ UNCHANGED <<limiterVars, raising>>
  \/ ~settled[r] /\ Reconcile(r, why, made)

-----------------------------------------------------------------------------
(* Reserve.                                                                *)

\* _limit_key_for, the body checks of completions(): refused before any hold.
Reject(r) ==
  /\ pc[r] = "idle"
  /\ \E code \in {"unauthenticated", "invalid_request"} : Answer(r, code)
  /\ UNCHANGED <<limiterVars, attempts, settled, raising, told, generated>>

\* The estimate is made and try_reserve is submitted, shielded.
Arrive(r) ==
  /\ pc[r] = "idle"
  /\ \E n \in Asks : TryReserve(r, n)
  /\ Await(r, "reserving")
  /\ UNCHANGED <<attempts, settled, raising, reply, told, generated>>

Admitted(r) ==
  /\ pc[r] = "reserving"
  /\ at[r] = "granted"
  /\ Await(r, "calling")
  /\ UNCHANGED <<limiterVars, attempts, settled, raising, reply, told, generated>>

\* decision.allowed is false, or try_reserve raised: its callback finds nothing.
NotAdmitted(r) ==
  /\ pc[r] = "reserving"
  /\ \/ at[r] = "refused"        /\ Answer(r, "rate_limit_exceeded")
     \/ at[r] = "reserve_failed" /\ Answer(r, "internal_error")
  /\ UNCHANGED <<limiterVars, attempts, settled, raising, told, generated>>

\* Mutant: no done-callback.
CancelReserveForgets(r) ==
  /\ Cancels
  /\ pc[r] = "reserving"
  /\ Answer(r, "cancelled")
  /\ UNCHANGED <<limiterVars, attempts, settled, raising, told, generated>>

\* Cancelled at the shield, the job perhaps finished already: a done-callback
\* is left on it and the request is over.
CancelReserve(r) ==
  /\ Cancels
  /\ pc[r] = "reserving"
  /\ Await(r, "orphaned")
  /\ reply' = [reply EXCEPT ![r] = "cancelled"]
  /\ UNCHANGED <<limiterVars, attempts, settled, raising, told, generated>>

\* _release_orphan
ReleaseOrphan(r) ==
  /\ pc[r] = "orphaned"
  /\ \/ at[r] = "granted" /\ Release(r)
     \/ at[r] \in {"refused", "reserve_failed"} /\ UNCHANGED limiterVars
  /\ Await(r, "done")
  /\ UNCHANGED <<attempts, settled, raising, reply, told, generated>>

-----------------------------------------------------------------------------
(* Attempt.                                                                *)

\* An attempt has come to `outcome`: the loop body of _attempt_providers up to
\* its next await.
Concluded(r, outcome) ==
  LET made == Append(attempts[r], outcome)
  IN  /\ attempts' = [attempts EXCEPT ![r] = made]
      /\ \/ /\ outcome = "ok"
            /\ settled' = [settled EXCEPT ![r] = TRUE]
            /\ \E reported \in Reports \cup {ask[r]} : Settle(r, reported)
            /\ Await(r, "settling")
            /\ UNCHANGED <<raising, reply>>
         \/ /\ outcome = "client_error"
            /\ Unwind(r, "invalid_request", made)
            /\ UNCHANGED settled
         \/ /\ outcome \notin {"ok", "client_error"}
            /\ IF Len(made) < Providers
               THEN UNCHANGED <<limiterVars, pc, raising, reply>>
               ELSE Unwind(r, ExhaustedCode(made), made)
            /\ UNCHANGED settled

\* The provider answered within the deadline.
ProviderAnswers(r) ==
  /\ pc[r] = "calling"
  /\ \E status \in Statuses, body \in Bodies :
       /\ generated' = IF status \in 200..299
                       THEN [generated EXCEPT ![r] = @ + 1] ELSE generated
       /\ Concluded(r, Outcome(status, body))
  /\ UNCHANGED told

\* The deadline of asyncio.timeout passed, or the connection failed.
ProviderFails(r) ==
  /\ pc[r] = "calling"
  /\ \E outcome \in {"timeout", "transport_error"} : Concluded(r, outcome)
  /\ UNCHANGED <<told, generated>>

CancelCall(r) ==
  /\ Cancels
  /\ pc[r] = "calling"
  /\ Unwind(r, "cancelled", attempts[r])
  /\ UNCHANGED <<attempts, settled, told, generated>>

-----------------------------------------------------------------------------
(* Reconcile.                                                              *)

Served(r) ==
  /\ pc[r] = "settling"
  /\ at[r] = "settled"
  /\ told' = [told EXCEPT ![r] = charge[r]]
  /\ Answer(r, "served")
  /\ UNCHANGED <<limiterVars, attempts, settled, raising, generated>>

\* settle() raised, or the request was cancelled while it ran: both unwind.
SettleInterrupted(r) ==
  /\ pc[r] = "settling"
  /\ \/ at[r] = "settle_failed" /\ Unwind(r, "internal_error", attempts[r])
     \/ Cancels /\ Unwind(r, "cancelled", attempts[r])
  /\ UNCHANGED <<attempts, settled, told, generated>>

\* The handler's settle or release is over: re-raise.  If it raised, that is
\* what the client sees; a second cancellation leaves it running.
Unwound(r) ==
  /\ pc[r] \in {"charging", "releasing"}
  /\ \/ at[r] \in {"settled", "released"} /\ Answer(r, raising[r])
     \/ at[r] \in {"settle_failed", "release_failed"} /\ Answer(r, "internal_error")
  /\ UNCHANGED <<limiterVars, attempts, settled, raising, told, generated>>

CancelUnwinding(r) ==
  /\ Cancels
  /\ pc[r] \in {"charging", "releasing"}
  /\ Answer(r, "cancelled")
  /\ UNCHANGED <<limiterVars, attempts, settled, raising, told, generated>>

\* The process stops: the coroutine is gone, its job may still reach the file.
Stop(r) ==
  /\ Crashes
  /\ pc[r] \in Suspended \/ (pc[r] = "done" /\ at[r] \in Running)
  /\ Await(r, "dead")
  /\ UNCHANGED <<limiterVars, attempts, settled, raising, reply, told, generated>>

-----------------------------------------------------------------------------

\* Whatever the limiter's threads and the clock do, the coroutines wait.
LimiterStep ==
  /\ \/ Tick
     \/ \E r \in Req : Work(r) \/ Raise(r) \/ (pc[r] = "dead" /\ JobDies(r))
  /\ UNCHANGED routerVars

\* The event loop resumes a coroutine (or runs a callback) whose await is over.
Resume(r) ==
  \/ Admitted(r) \/ NotAdmitted(r) \/ ReleaseOrphan(r)
  \/ ProviderAnswers(r) \/ ProviderFails(r)
  \/ Served(r) \/ Unwound(r)
  \/ (at[r] = "settle_failed" /\ SettleInterrupted(r))

Cancel(r) ==
  \/ CancelReserve(r) \/ CancelCall(r) \/ CancelUnwinding(r)
  \/ (at[r] # "settle_failed" /\ SettleInterrupted(r))

RouterNext ==
  \/ LimiterStep
  \/ \E r \in Req : Reject(r) \/ Arrive(r) \/ Resume(r) \/ Cancel(r) \/ Stop(r)

RouterSpec == RouterInit /\ [][RouterNext]_vars

\* Threads run (TokenLimiter), the loop resumes what is ready, and
\* asyncio.timeout ends every attempt.  Nobody has to arrive, cancel or stop.
RouterFairness ==
  \A r \in Req : /\ WF_vars(Work(r) /\ UNCHANGED routerVars)
                 /\ WF_vars(Resume(r))

FairRouterSpec == RouterSpec /\ RouterFairness

-----------------------------------------------------------------------------
(* Properties.                                                             *)

\* The ranges; in particular a client only ever sees codes of errors.py, never a
\* provider's own outcome (errors.py:20-27, router.py:250-262).
RouterTypeOK ==
  /\ pc \in [Req -> Stages]
  /\ attempts \in [Req -> Seq(Outcomes)]
  /\ settled \in [Req -> BOOLEAN]
  /\ raising \in [Req -> Codes \cup {"none"}]
  /\ reply \in [Req -> Replies]
  /\ told \in [Req -> Nat]
  /\ generated \in [Req -> Nat]

Held(r) == InLedger(r) /\ ~rows[r].settled

\* The database or the process failed while the reservation was being reconciled.
LostReconcile(r) == at[r] \in {"settle_failed", "release_failed", "reconcile_lost"}

\* A request that is over never leaves a hold behind with nobody to reconcile
\* it, wherever it was cancelled (router.py:123-136, 163-164, 182-186).
NoStrandedHold ==
  \A r \in Req : pc[r] = "done" /\ Held(r) => at[r] \in Running \/ LostReconcile(r)

Tried(r, outcome) == \E i \in DOMAIN attempts[r] : attempts[r][i] = outcome

\* The ledger charges r exactly n, or did until the row aged out.
Booked(r, n) ==
  IF InLedger(r) THEN rows[r].settled /\ rows[r].tokens = n ELSE clock[r] < now - Window

\* What a finished request did to the ledger is what its attempts call for: a
\* completion is charged what the client is told, an unusable response the whole
\* hold, and nothing else anything; and what a provider generated is not given
\* back unless its body was nested too deep to parse, which is filed as a
\* transport error (router.py:80-83, 163-187; README "Reserve, then reconcile").
BooksBalance ==
  \A r \in Req : pc[r] = "done" /\ at[r] \in {"granted", "settled", "released"} =>
    CASE Tried(r, "ok") ->
           Booked(r, charge[r]) /\ (reply[r] = "served" => told[r] = charge[r])
      [] ~Tried(r, "ok") /\ Tried(r, "unusable_response") -> Booked(r, ask[r])
      [] ~Tried(r, "ok") /\ ~Tried(r, "unusable_response") ->
           /\ ~InLedger(r)
           /\ generated[r] > 0 => "too_deep" \in Bodies /\ Tried(r, "transport_error")

\* A client told to come back later has been charged nothing, and if the
\* providers are to blame every one of them was tried (router.py:250-262).
RetryableIsFree ==
  \A r \in Req :
    /\ reply[r] \in {"rate_limit_exceeded", "upstream_timeout", "upstream_rate_limited"}
         => ~InLedger(r)
    /\ reply[r] \in {"upstream_timeout", "upstream_rate_limited", "all_providers_failed"}
         => Len(attempts[r]) = Providers

\* However requests are answered, cancelled or lost, the limiter sees a caller
\* that settles or releases each reservation at most once
\* (limiter.py:97-99, router.py:158-163).
KeepsContract == LimiterSpec

\* Every request that arrives is answered, its last limiter job returns whoever
\* held the write lock, and its hold is reconciled, also after a cancellation,
\* unless the database or the process failed under it (router.py:123-187).
EveryRequestEnds ==
  \A r \in Req :
    pc[r] # "idle" ~> /\ pc[r] \in {"done", "dead"}
                      /\ at[r] \notin Running
                      /\ Held(r) => pc[r] = "dead" \/ LostReconcile(r)
=============================================================================
