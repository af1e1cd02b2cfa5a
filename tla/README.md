# A formal model of the FDE assessment services

This directory holds TLA+ specifications of the program in `src/`, the TLC
configurations that check them on small instances, and proofs that TLAPS checks
for every value of the constants. `PROJECT.json` lists the runs, the theorems,
the mutants, the hazards, and the source lines each definition stands for.

The program is four small services. They were modelled in the order in which a
mistake would cost most: task 4 (money, concurrency, crashes) first, then the
stdio server, the gateway and the guardrail.

## 1. Inventory

### Task 4: token-aware rate limiting and model fallback (`src/task4_model_router/`)

| part | state | operations | interacts with |
|---|---|---|---|
| rate limiter, `limiter.py` | the SQLite file: rows `(id, tenant_key, created_ms, tokens, settled)`, and SQLite's write lock | `try_reserve`, `settle`, `release`; `usage` and `row_count` only read | called from the router; runs on its own thread pool; the file is shared by every worker process |
| router, `router.py` | per request: the `settled` flag, `attempts_made`, the reservation, a set of background tasks | `route`, `_attempt_providers`, `_call_provider`, `_release_orphan` | awaits the limiter's jobs through `asyncio.shield`, the providers under `asyncio.timeout` |
| front end, `app.py`, `errors.py` | none | authenticate, parse, call `route`, map errors to codes, statuses and `Retry-After` | its answer is what the client acts on |
| estimation, `tokens.py` | none | estimate of a request, reading of a provider's usage block | feeds `try_reserve` and `settle` |

Hard behaviours: statements of many jobs interleave in one file, and only
`BEGIN IMMEDIATE` excludes writers; the clock is read before the eviction and
the lock and used after them; an eviction is bounded and concerns all tenants; a
settle may find its row evicted; any statement may raise; a process may die; a
request may be cancelled at every await, while the job it waited for runs on.

What makes it correct: a tenant's spend in the window is within its limit
unless a warning said otherwise; the sum behind a decision is current; the hint
for a refusal is neither early nor late; every hold is reconciled exactly once;
what the client is told is what the ledger holds; nobody waits for ever.

### Task 1: MCP stdio server (`src/task1_mcp_server/`)

| part | state | operations |
|---|---|---|
| line recorder and protocol error pump, `server.py` | FIFO of raw lines; the inbound stream (64 entries) | read a line, pair it with a stream item, answer a malformed frame, dispatch, drain at end of input |
| drain tracker, `server.py` | a counter per request id, an idle event | `dispatched`, `answered`, `wait_idle` |
| customer store, `store.py` | balance and receipts per customer, one lock | `get`, `refund` |
| wire claim, `wire.py`, `__main__.py` | the descriptor table, `sys.stdout` | claim, restore |

Hard behaviours: end of input races work in flight; ids are reused; the pump and
the server write to one stream; a step of the claim may fail. Correct when every
dispatched request is answered before exit unless the drain timed out, a frame
of the pump never credits the drain, item and line always belong together,
receipt and balance agree, and the descriptors are what they were.

### Task 2: authenticating MCP gateway (`src/task2_mcp_gateway/`)

No state but the upstream connection of each request, out of one bounded pool. The handler authenticates,
reads a capped body, validates the envelope, screens it against the policy,
opens the upstream stream, and relays, drains or buffers the reply. Hard: what
arrives as an event stream, a timeout or a cancellation after the connection was
opened. Correct when a refused message never reaches the downstream server, a
notification never gets a body, an accepted message is sent exactly once, and
the connection is always given back.

### Task 3: streaming guardrail (`src/task3_streaming_guardrail/`)

| part | state | operations |
|---|---|---|
| redactor, `redactor.py` | held-back buffer, carried context | `feed`, `flush` |
| SSE codec, `sse.py` | byte decoder, buffer, pending CR | `feed`, `flush` |
| stream handler, `gateway.py` | a redactor per choice and field, last chunk, `completed` | per event: flush finished choices, redact, forward |

Hard: chunk boundaries anywhere, interleaved choices, finish chunks with text,
early ends. Correct when the output does not depend on the chunking, held-back
text never follows its finish chunk, exactly one terminator ends the stream, and
nothing held back is handed out when the upstream breaks.

## 2. How the project is laid out

| part of the program | model | what it is composed with, or implements | proofs |
|---|---|---|---|
| the table | `TokenLedger` | | |
| rate limiter | `TokenLimiter` | implements `TokenBudget` | `ModelRouterProofs` |
| the `Retry-After` header | `LimiterRealTime` | extends `TokenLimiter` | `ModelRouterProofs` |
| router | `ModelRouter` | extends `TokenLimiter`, and implements the caller it was specified with | `ModelRouterProofs` |
| estimate, ceiling, report | `TokenEstimate` | | `TokenEstimateProofs` |
| stdio server | `StdioFrames`, `StdioDrain` | implements `StdioContract` | `StdioDrainProofs` |
| refund store | `RefundStore` | | `RefundStoreProofs` |
| stdio wire | `WireClaim` | | `WireClaimProofs` |
| MCP gateway | `GatewayMessages`, `McpGateway` | implements `GatewayContract` | `McpGatewayProofs` |
| guardrail stream | `GuardrailStream` | | `GuardrailProofs` |
| redactor | `HoldBack` | | `GuardrailProofs` |
| SSE decoder | `SseDecoder` | | `SseDecoderProofs` |

An `MC` module gives each model its small instance. The stages planned at the start
(limiter, router and drain; the remaining components; the proofs) are done. What
would come next: the patterns of the redactor as they are rather than as finite
languages, the guardrail's pool composed with `HoldBack` instead of an
arbitrary split, and the wire claim composed with the drain.

## 3. What is modelled

### `TokenLedger`

The table and its queries. A reservation id is a member of `Req`; `rows[r]` is
its row or `NoRow`. A sum of tokens is the cardinality of a set of units
`<<r, n>>`, which makes `SUM(tokens)` an ordinary set and lets the proofs use
the library's theorems on finite sets; no recursion is needed.

### `TokenLimiter` (`limiter.py`)

One step is one SQL statement or the Python between two of them. `at[r]` is the
statement the job of `r` is about to execute.

| action | code |
|---|---|
| `TryReserve`, `Settle`, `Release` | the async surface: the job is submitted; `Settle` clamps the reported usage |
| `ReadClock` | `now = self._now_ms()`, before anything else |
| `Evict` | the bounded `DELETE`, all tenants, a commit of its own; which of the expired rows go is SQLite's choice |
| `Begin`, `Select`, `Grant` / `Refuse` | `BEGIN IMMEDIATE`, the sum, `INSERT` and `COMMIT` or `ROLLBACK` |
| `Hint` | `_retry_after_sync`, after the lock is gone; its query and the clock it reads after it (limiter.py:275-286) are one step |
| `Update`, `UpdateMisses`, `Rerecord` | the `UPDATE`; or the warning and, as a statement of its own, `INSERT OR REPLACE` with a clock read between the two |
| `Delete` | release |
| `Raise` | any statement raises: rollback, the connection is closed, the call raises |
| `JobDies` | the process dies: SQLite rolls back, the file keeps what was committed |

`silent` is a ghost: the budget a request holds or was charged that no warning
in the log accounts for. The code deliberately charges more than was reserved
when a provider reports more (limiter.py:297-313), loudly, so "the sum is within
the limit" is not what it promises. The promise is that the excess is never
silent, and the ghost says so: it follows the hold, falls to the charge when
that is less, and to zero where the code warns or gives back.

`Call` is a caller that keeps the `Reservation` contract: settle or release,
once. It is a caller's specification; `ModelRouter` is shown to implement it.

### `TokenBudget`

What the limiter promises: asking and holding are one step, a row leaves only by
being given back before it was charged, or by age, and a charge in time keeps
the window its hold was admitted to. `TokenLimiter` implements it with `life`
read off the row and the caller's place (`Life`).

### `ModelRouter` (`router.py`, with the refusals and the reply of `app.py`)

The coroutine of each request, cut at its awaits; `pc[r]` names the await. The
limiter's jobs are the actions of `TokenLimiter`, with their own program counter
`at[r]`, so a cancelled coroutine ends and its shielded job does not.
`Concluded` is the loop body after an attempt, `Unwind` the
`except BaseException` of `route`, `ReleaseOrphan` the done-callback of a
cancelled reserve, which can only run when the job is over. `Stop` is the
process going away between any two steps; its job may still reach the file.

A provider's answer is a status and a kind of body (an object, other JSON, no
JSON, JSON nested past the recursion limit); `Outcome` classifies it as
`_call_provider` does.

### `TokenEstimate` (`tokens.py`, the ceiling of `router.py`, the clamp of `settle`)

One request's caps and counts, estimated, admitted if the whole budget could hold the
estimate, forwarded with the ceiling imposed, generated within the cap the provider
reads, and charged: `Actual` is the figure the report is read as, `Settled` what
`settle` makes of it, and `charge` what is in the ledger after both. A field is an
integer of any sign or no integer; the prompt's tokens are a constant, because
counting them is data. `Imposed`, `RequestedMax`, `Multiplier`, `Sane`, `Actual` and
`Settled` are the functions of the code.

### `LimiterRealTime` (`errors.py`)

Adds the `Retry-After` header to the limiter, and what a client that obeys it may
expect.

### `StdioDrain` (task 1, `server.py`)

The recorder, the pump, the drain tracker and the server between the two pipes,
on one event loop: a step is the code of one task from an await to its next. A
line is known by its position in the input; its kind is what the SDK's parser
and the pump tell apart, its id the one that can be recovered from it. The item
the parser made of a line and the raw line the pump takes off the recorder are
kept apart (`item`, `text`), because that they belong together is a property,
not a premise.

| action | code |
|---|---|
| `ReadLine`, `EndInput` | the SDK's reader over `LineRecordingInput`: records the line, then waits until the pump has taken its item |
| `Receive`, `Screen` (`Take` and `Skip` / `Refuse` / `Pass`) | one turn of `async for message in read_stream`; a request is counted in the same step, before the next await |
| `Reply` | `untracked_send` of the pump's own error frame |
| `Forward` | `await send.send(message)`, bounded by `Buffer` (64 in the code) |
| `EndOfStream`, `Drained`, `GiveUp` | `wait_idle`: at once, by the event, or by the timeout |
| `ServerReceive`, `Execute`, `Respond`, `Credit` | a handler's task: it runs without an await, its answer is written, and credited after that |
| `Finish` | the run loop ends and cancels what is still being handled |

`wire` counts the copies of each frame that reached stdout: a client sees ids and
codes, not which line a frame was meant for, so the promise is stated on those.

### `StdioContract`

Every line gets the frame it is owed, once, and no other frame is written; the
server leaves when all are, or after a warning. `StdioDrain` implements it with
`shut <- down`. The promise is deliberately about the log: README.md:94-97 says
the process ends only when every dispatched id is answered, the code bounds the
wait (`_drain_grace_ms`, at most a minute) and then says how many are left.

### `RefundStore` (`store.py`)

Threads over one lock. Amounts are counted in fractions of a cent (`Parts` to the
cent), so an amount can lie between two cents as a float can; `Rounded` is the
nearest cent, either of two when half-way, and `Exceeds` the two comparisons the code makes, of the
amount and of its cents. `AcquireUnlocked`, which leaves the lock out, is a
mutant.

### `WireClaim` (`wire.py`, `__main__.py`)

`claim_stdio_wire` system call by system call over a table of `MaxFd + 1`
descriptors, each open on one of the three standard files, the null device, or
closed. Any call may fail; which free descriptor a `dup` returns is the lowest, as
the system does. At the start any descriptor may be closed and any of them may share
an open file: `2>&1`, a terminal on all three, copies a parent left open. `Sealed`
therefore speaks of the client's files and not of descriptors: whatever leads to one
while the server runs is the claim's own or led there before.

### `GatewayMessages`, `McpGateway` (task 2)

`GatewayMessages` has what screening tells apart of a message (kind of JSON,
version, method, id, params, name), `Screen` and the role a rule asks for, with the
case folding the code does as a function `Folded`. `McpGateway` is the handler,
cut at its awaits (`pc[r]`), over one pool of `MaxConnections`. Bodies are counted
in chunks, with `MaxBody` and `MaxReply` the two caps.

| action | code |
|---|---|
| `Arrive`, `ReceiveChunk`, `HangUp` | authentication, the declared length, the capped read of the body |
| `Decide` | parse, validate, screen: one refusal or none, before anything is sent |
| `Connect`, `Send`, `OpenFails` | `client.send(..., stream=True)`: a connection of the pool, the request on it, and every failure on the way |
| `ReplyHead` | status, notification, content type, in the code's order |
| `DrainChunk`, `Drained`, `DrainFails` | `_drain`, without a cap; a reply that does not end (`ends`) is drained for ever |
| `StartRelay`, `RelayChunk`, `Sent`, `EndRelay` | an event stream, passed on as it comes, until either side ends it; while the server sends a chunk, the generator waits at its `yield` |
| `BufferChunk`, `Buffered`, `BufferFails` | `_read_capped`, then `Build` |
| `Cancel`, `Collect` | the client's disconnect, at any await; the interpreter finalising a generator that never started, or was dropped at its `yield` (`Dropped`) |

### `GatewayContract`

What the gateway promises: the downstream server is sent a request at most once and
only if its sender may make it; a result or a stream is passed on only of a request
that succeeded, a result only under the id that was asked with; a failure bears that
id too, or none once the server has replied. The refinement counts the sends and
carries the ids and the outcome, so a second send, another's id or a failed reply
passed on would be a step the contract does not have. Who may make a request
(`Entitled`) is said without the handler: the rules, read declaratively.

### `GuardrailStream` (task 3, `gateway.py`)

One completion, from the request to the release of the provider's socket. Text is
counted in units that carry the stream and the place the model put them, so a
splice, a loss and a repetition can all be seen. A redactor is what it holds; it
may let go of as much as it likes, because how much is `HoldBack`'s business.
`KeyOf` is the key of the pool (nearest declared index and leaf), `ResidueStream`
the path `_residue_chunk` re-nests a residue at, `Finishing` the keys
`flush_choice` empties.

| action | code |
|---|---|
| `BadRequest` ... `Start` | the handler up to the status line |
| `Handle`, `HandOver`, `TakeBack` | `_handle_event`: the residue of finished choices first, then the chunk, in place or in a worker thread |
| `HandleDone`, `TooDeep` | `[DONE]`; an event nested past the recursion limit |
| `Breaks`, `Ends`, `LeavesEarly`, `Leaves` | the ways a stream is over: it breaks, it ends, the client leaves before the generator runs or while it does |
| `Finally` | the generator's `finally`, which may raise before it releases the socket if a thread is still at work |

### `HoldBack` (task 3, `redactor.py`)

`StreamingRedactor` over an abstract alphabet. A pattern is the finite language of
its expression, the characters its lookarounds forbid, and the words its
validator accepts. Scan with veto and shorter match, overlap resolution, the
rescue pass over numeric runs, the gap rescan to a fixed point, the hold-back
index, context and flush are the code's. `Preferred` is the order in which shorter
matches are tried: of a word without separators the lengths of a card number, in
their order (`Trimmed`), else those that end at a group's boundary (`Aligned`)
before the others. `Rescan` is one pass of the fixed point, `RescueRun` the rescue of
one run of digits and separators, `Candidate` the places it tries, those a fixed
way before a separator (`BackSets`) included. The reference for `ChunkInvariant`
is `redact_text` as it is in the code: the whole text fed at once, and flushed.

### `SseDecoder` (task 3, `sse.py`)

The decoder over characters that are the ones it tells apart: the two halves of a
line end, the byte order mark, a colon, the `data` field. The loops of the code are
recursive functions: `Normalise`, the lines of a block and the data fields among them,
the drain. The reference (`ReadFrom`, `Reference`) goes character by character and
has neither a buffer nor a second pass.

## 4. What the runs show

| run | question | instance |
|---|---|---|
| `limiter` | is the limit ever silently exceeded; are hint and header right; does the limiter implement the budget | three jobs of one tenant, asks of 1 and 2, limit 2, window 3, two ticks a second, clock to 4, eviction batch 1, process deaths, failing statements |
| `router` | does each request do to the ledger what its attempts call for, keep the limiter's contract, end, and have its hold reconciled | two requests, two providers, cancellation, database faults and crashes, under fairness |
| `estimate_bound` | is the ceiling reserved the ceiling forwarded; is an honest report charged as it is | every mixture of three cap fields (negative and zero ones too), `n` and `best_of`, every report from below zero to beyond what is believed; limit 8, charges up to twice that, reports believed up to 20 |
| `drain` | are the frames those owed, the counters the work, nothing lost silently; does it end by itself | three lines of every kind, two ids, buffer 1, under fairness |
| `refund_books` | do receipts, balance and refusals agree | three concurrent calls, one customer and a stranger, amounts on, between and half-way between cents |
| `wire_claim` | is the wire sealed, and given back | ten descriptors: every sharing of the standard three, closed ones included, and of two inherited ones with them, any system call failing |
| `gateway_screening` | does the server see exactly what it may, and is the client told the truth | one request that is any message with any credential, any reply, endless or not, under any id |
| `gateway_pool` | is the connection always given back; does every forward end | two requests, a pool of one, under fairness |
| `guardrail_text` | is text lost, doubled, spliced or late; does the generator release the socket | two choices, one of which finishes with text, two tool calls, an event that is no chunk, two units each, worker threads, every ending |
| `decoder_chunks` | are the events those of an unchunked reader, and at once | every body of seven characters in every chunking |
| `holdback_chunks` | is the output independent of the chunking; is what is held no more than a match needs | cards, grouped or not, whose longest match may be refused and a shorter one taken, and addresses that may end in a digit; every text of seven characters in every chunking |
| `chunk_variance` | the same with the rescue pass: **violated** | texts of six characters |

Why the bounds are enough.

- Limiter. Three jobs are what it takes for one to evict, one to hold the lock and
  one to be late. Limit 2 is full with two asks of 1 or with one of 2; the third is refused,
  and its hint may have to wait for one row or for both. The clock (`Horizon`, the only bound in
  a guard) runs past a window, so both sides of the eviction boundary are reached;
  a batch of 1 leaves a backlog. A report of 2 is more than was reserved, and every
  request may also be charged its hold or nothing; reports below zero are clamped
  before they reach the table, and are in `estimate_bound`.
- Router. Two providers are one failover; two requests compete for a limit of 1
  and for the lock; window 0 makes a row of an earlier tick an expired one. The
  providers answer with status 200 and any kind of body, time out or fail in
  transport: a billable attempt, a free one, a success and an unusable answer. Other
  statuses change only which of these an attempt counts as (`Outcome`); the theorems
  `RetriesAreFree` and `BooksAlwaysBalance` hold for every set of them.
- Drain. Two requests with one id and one more line are three lines; a buffer of 1
  is full behind any request, where the code's 64 never would be.
- Estimate. The limit is above what some mixtures are estimated at and below others;
  twice the limit lies below the largest bill and below what is believed of a report
  (20), so each of the bounds on a charge is the smaller one for some request.
- Wire. Five descriptors that may lead anywhere (three standard, one next to them, one
  behind a gap) make every duplicate land next to, between and behind what was
  there; five more are all the claim takes.
- Gateway. Every member of a message that screening reads takes every value; sizes
  go one chunk beyond both caps; two requests over a pool of one wait for each
  other; of a reply that does not end, one chunk beyond the cap is counted.
- Guardrail. Two units a stream are one let go and one held; the keys of two
  choices and of two tool calls in one of them are what can be confused, the second
  call being keyed by an index that is another choice's, and a chunk that is no
  completion has a key of its own. Every choice declares its index. One choice finishes with an empty chunk and one
  with text. Nothing comes after `[DONE]` (`Trailing`), and no two choices make a tool
  call of the same index: in both cases the statements are false of this code
  (below).
- Decoder and redactor. Seven characters hold two events or two matches with what
  comes between, and chunks of one and two cut them at every place.

`CHECK_DEADLOCK FALSE` stands where finitely many requests, calls or characters
end and the system then rests: everywhere but in the drain, which has a state
after its exit (`Over`) and is checked for deadlock. Requests are interchangeable
in the limiter's run, which therefore uses symmetry; a run with a liveness
property never does.

Every property has a mutant: a definition changed as a plausible bug would be (an
inclusive eviction, a settle that restamps, a truncated header, the last outcome
deciding for all, a lock left out, a cap checked late, a reply asked for twice,
one redactor for all choices, a stream that breaks and is flushed, a
decoder that splits early), which the property's run rejects.

### Where code and comments disagree

One disagreement has a run of its own.

- `chunk_variance`: holding back "is what makes every chunking of a stream produce
  the same output as redacting the text whole" (redactor.py:26-28). In the trace
  ` 4444)` is fed as ` 4`, `44`, `4)`. The blank goes out with the first chunk;
  `_numeric_runs` starts at the emitted text, so the run looks bare, every place in it
  is tried (redactor.py:746) and it goes out as two placeholders. Fed at once, the
  run begins with the blank, only the places derived from separators and stray
  prefixes are tried, and the digits stay. The sentence holds of the forward scan:
  `holdback_chunks` on small texts, `ForwardScanIsChunkInvariant` (section 6) for
  every text.

The others were met while modelling. The models have the behaviour of the code,
and the properties say what does hold.

- limiter.py:7-9, "the limit holds across every window": the row is stamped with a
  clock read before the eviction and the wait for the lock (limiter.py:190), so a
  slow job commits into a window it is not counted in. What holds is
  `NoSilentOverspend`, of the stamps.
- errors.py:109-110, a client that obeys the header "cannot come back a fraction of a
  second too early": the window includes its boundary, so when the hint is a whole
  number of seconds the blocking row still counts at the moment the header names.
  `RoundedHintFits` has the request fit after that moment.
- limiter.py:98, "Settle or release it - never neither": a settle or release that
  raises is not retried (router.py:170), and the hold stays until it ages out.
  `EveryRequestEnds` excepts exactly these (`LostReconcile`).
- README.md:212-213, an unusable response "is charged": a 2xx body nested past the
  recursion limit is a transport error (router.py:399) and is not. `BooksBalance`
  names the case.
- tokens.py:161, "An upper bound on what this request can cost": a cap of zero or
  below is an int, so no ceiling is imposed (router.py:300), while the estimate
  falls back to the ceiling. `CostWithinEstimate` excepts requests with such caps
  only (`OnlyUselessCaps`).
- wire.py:162-164, after the redirection a write to fd 1 is "physically incapable of
  reaching the client": fd 1 becomes a copy of fd 2 (wire.py:182), and where
  standard error is on the same file (`2>&1`, a terminal) both still lead there.
  `Sealed` excepts what led there before the claim.
- wire.py:170-171, "Everything is restored on the way out": the four
  duplicates and the null device are taken before the `try` (wire.py:174), and one
  that fails leaves the earlier ones open. `RestoredAfterwards` speaks of a claim
  that has begun to redirect.
- task 2 gateway.py:611, "A notification gets no response body": the time-out,
  transport and upstream-error answers come first (gateway.py:433).
- task 2 gateway.py:65-67, the "Cap on the downstream's response": `_drain` reads a
  failed reply, or one to a notification, without it (gateway.py:534), and an event
  stream among them for ever, since only each read has a timeout. `TypeOK` bounds what
  may be relayed, and `EveryForwardEnds` excepts an endless drain.
- task 2 gateway.py:12-13, the id is recovered "wherever possible": when reading a
  failed reply breaks off, or a reply is nested past the recursion limit, only the
  backstop answers, with a null id (gateway.py:457, 640).
- task 3 gateway.py:547-548, a client that stops at `finish_reason` "has already
  seen the redacted tail": the key of a tool call's arguments begins with the tool
  call's index (gateway.py:108), so the residue of a second parallel call is sent
  after the finish, as choice 1's; so is that of a choice that declares no
  index, whose key begins with none while its finish is looked up by position
  (gateway.py:504). A finish chunk that carries text goes through the redactor after
  the flush (gateway.py:549-557), and the tail of that text comes later still.
  `FinishIsLast` is about every other text: all that was said before the finish chunk,
  of the choice itself and of a call with the choice's index.
- task 3 gateway.py:164-166, streams "must not share a buffer or they splice": two
  choices that each make a tool call share one (gateway.py:186).
- task 3 gateway.py:521, at `[DONE]` "everything still held back is now final":
  events behind it in the same read are still fed to the pool (gateway.py:443).
- task 3 gateway.py:554-556, no "concurrent access to the pool": a cancelled
  `to_thread` leaves its thread running beside `finally` (gateway.py:557). `Finally`
  may therefore fail before the release, and `SocketReleased` excepts this ending.
- task 3 gateway.py:382-383, a provider's error "is mirrored as that status": the
  read of its body is unguarded (gateway.py:399) and may end in a framework error.
- task 3 gateway.py:467-469, a malformed stream "has to become an in-band error": an
  event nested too deep raises an exception that is not caught (gateway.py:528).
- redactor.py:43-47, at the cap "the oldest byte is released": a later comment
  (redactor.py:885-887) and `HoldsTheEnd` say that it never is, because nothing is held
  that is longer than the longest match, and `__init__` refuses a smaller cap.
- sse.py:71, the event exceeded the limit "without a terminator": the size is
  checked before the complete events are split off (sse.py:70).

## 5. Fairness

`RouterFairness`: a limiter thread executes its next statement once that is
possible, the event loop resumes a coroutine whose await is over and runs a due
callback, and an attempt ends by the code's own `asyncio.timeout`. Weak fairness is
enough for the lock, although it is contended, because there are finitely many
jobs and each takes it once; no claim is made about SQLite's queueing under an
endless stream of jobs. Failing statements, deaths, cancellations and arrivals
are never required.

The drain's `Fairness`: the event loop resumes every task whose await is over,
and the client reads what is written, so a write completes. The input need never
end, and the timeout never has to pass: `DrainsByWork` says the drain ends
because the work does.

The gateway's: the event loop resumes a handler; httpx's timeouts end every wait
for the pool or for the downstream server; the HTTP library itself closes a
connection whose call or read raised; and the interpreter finalises a response
generator that was never started or was dropped, which nobody else would. A client
need not send its body or leave, no read has to fail, and an event stream need never
end: not one that is relayed, nor one that is drained.

No fairness is assumed of the guardrail: whether its socket is released is asked of
the step that ends a request, and nothing makes up for a step that does not.

## 6. What is proved

All for every value of the constants that meets the assumptions in the modules (a
finite set of requests, a natural limit and window, positive asks; any ids, lines,
rules, replies, descriptor tables). Further assumptions of a theorem are in the
table.

| theorem | module | statement | beyond the constants |
|---|---|---|---|
| `TypeCorrect`, `SnapshotsHold` | `ModelRouterProofs` | `LimiterSpec => []TypeOK`, `[](LockInv /\ SnapshotHolds)` | |
| `OverspendIsNeverSilent` | | `LimiterSpec => []NoSilentOverspend` | |
| `BudgetIsImplemented` | | `LimiterSpec => ImplementsBudget` | |
| `HintsAreExact` | | `LimiterSpec => HintIsExact` | |
| `RoundedHintsFit` | | `LimiterSpec => RoundedHintFits` | |
| `ContractIsKept` | `ModelRouterProofs` | `RouterSpec => KeepsContract` | |
| `RouterNeverSilentlyOverspends` | | `RouterSpec => []NoSilentOverspend` | |
| `NothingIsStranded` | | `RouterSpec => []NoStrandedHold` | |
| `RouterIsTyped`, `RetriesAreFree`, `BooksAlwaysBalance` | | `RouterSpec => []RouterTypeOK`, `[]RetryableIsFree`, `[]BooksBalance` | |
| `ChargeIsPlausible`, `CostIsReserved`, `HonestyIsCharged` | `TokenEstimateProofs` | `Spec => []TypeOK`, `[]CostWithinEstimate`, `[]HonestReportIsCharged` | |
| `TypesAndPairing`, `CountersCount`, `LossIsNeverSilent`, `ContractKept` | `StdioDrainProofs` | `[](TypeOK /\ PairInv)`, `[]CounterIsWork`, `[]NothingLostSilently`, `KeepsContract` | |
| `StoreIsTyped`, `BooksBalance`, `AccountsAreConsistent`, `ChargesAreAsked` | `RefundStoreProofs` | `[]TypeOK`, `[]ReceiptsAreTheLedger`, `[]AccountIsConsistent`, `ChargedWhatWasAsked` | |
| `WireIsTyped`, `WireIsSealed`, `WireIsRestored` | `WireClaimProofs` | `[]TypeOK`, `[]Sealed`, `[]RestoredAfterwards` | |
| `GatewayIsTyped`, `ConnectionsAreGivenBack`, `ResultsAreTheirs`, `ContractIsKept` | `McpGatewayProofs` | `[]TypeOK`, `[]ConnectionGivenBack`, `[]ResultIsTheirs`, `KeepsContract` | |
| `StreamIsTyped` | `GuardrailProofs` | `Spec => []TypeOK` | |
| `TextIsAccounted`, `FinishesAreLast`, `ReleasesAreFinal` | | `[]TextAccounted`, `[]FinishIsLast`, `ReleasedWhenFinal` | `OwnKeys` |
| `EndsAreComplete` | | `[]EndsComplete` | `OwnKeys`, nothing after `[DONE]` |
| `SocketIsReleased` | | `[]SocketReleased` | |
| `HeldIsTheEnd` | | `RedactorSpec => []HoldsTheEnd` | |
| `ForwardScanIsChunkInvariant` | | `RedactorSpec => [](Settled(text) => ChunkInvariant)` | |

The argument for `OverspendIsNeverSilent` (`ModelRouterProofs`).
`NoSilentOverspend` is not inductive: a grant relies on a sum taken two
statements earlier, of rows others may delete. The strengthening `Safety` has

- `LockInv`: exactly the lock's holder is between its sum and its decision;
- `SnapshotHolds`: that sum is still the sum;
- `LinkInv`: clocks lie in the past; before its commit a job has neither row nor
  budget; and silent budget that still counts in the window is in the table, at
  least in full, under its job's stamp. The last is where the eviction's strict
  comparison matters: a row another job deletes by its older clock is out of
  every later window.

Then a grant's budget plus what the tenant silently holds lies within the summed
rows plus the grant (`SilentIsSummed`, `AddHold`, `GrantFits`), which `Fits`
bounds by the limit, and every other step only shrinks it (`SilentShrinks`).

The hints need `StageInv` besides: what a job of a given statement has read (its
clock, its sum, the rows its hint is computed from) is what the table still says
while nobody else writes. From it follow that a row counts until one window after
its stamp and not later (`StillCounted`, `AgedOut`), that the hint is the first
moment enough of them are gone (`HintIsFirst`), and that rounding it up to seconds
loses less than one (`HeaderRoundsUp`). When the query of the hint raises, the
answer is a whole window: no row is stamped later than now (`NothingFromTheFuture`),
so that is never too early, and both properties except it only from not being late
(`IsFallback`; a hint of exactly one window passes for it where the database may fail).
`BudgetIsImplemented` is a step simulation: `Grant`, `Update`, `Rerecord`,
`Delete` and `Evict` are steps of `TokenBudget`, everything else a stutter.

`ContractIsKept` (`ModelRouterProofs`) is a step simulation: under
`CoroutineInv` (a coroutine calling a provider has a granted reservation; one
that awaits its settle has set the flag) each step of the router is a step of
`LimiterSpec` or leaves the limiter alone. Everything proved of the limiter then
holds of the router. `NothingIsStranded` adds `OwnerInv` (a reservation that may
still be granted has a coroutine or a callback that will see it) and
`ReconciledInv` (a returned settle or release stays done). `BooksInv` and
`BookedInv` carry, per request, what its attempts so far call for and what
the table has of it, through the await in which the two differ; `BooksAlwaysBalance`
and `RetriesAreFree` are read off them.

The drain (`StdioDrainProofs`). The properties follow from one inductive
invariant, `SafeInv`, built in layers:

- `PairInv`: the recorder holds the line of the item in hand and that of the item
  offered, in this order, so `take` returns the right one (`Verdict` then says
  that the pump's decision and frame are those owed);
- `WorkInv`: every line the pump has decided on is in exactly one place: the
  stream to the server, once and in order, or a job;
- `CounterIsWork`, `IdleInv`: the counter of an id is the number of its requests
  between `dispatched` and `answered`, and the event is set only when all are zero;
- `WireInv`: the frames on the wire are those of the lines that have had theirs;
- `ClosedInv`: a pump that closed without a warning has left nothing unanswered.

Each write adds to `RepliedWith(f)` one line that was not in it, and that set lies
within the lines owed `f`; this gives the contract's `Answer` (`AnswerStep`), and
at the exit the two sets are equal (`AllSettled`).

The estimate (`TokenEstimateProofs`): `Stages` says what each field holds from the
phase it is filled in, and `CostWithinEstimate` is carried along, because charging
compares with what was reserved two phases earlier.

The store (`RefundStoreProofs`): `LockInv` (at most one call works, and it has the
lock), `ChargeInv` (between the check and the receipt the amount is covered, and
the balance is one charge ahead of the receipts), `BooksInv` and `AccountInv`
(receipts form a chain down from the opening balance; a count and a balance
handed out together are of one link).

The wire (`WireClaimProofs`): `TakenInv` and `OwnInv` (which descriptors the claim
has taken at each call, all different and none a standard one once the
redirections begin), `FileInv` (what they lead to) and `RestInv` (nothing else
has changed).

The gateway (`McpGatewayProofs`): one invariant per request, `Shape` and `StageOf`
(what is known of connection, request, reply and answer at each await). The
contract adds that `Screen`'s walk over the rules allows a call exactly if the
declarative `OpenTo` does; the rule that decides is the first that names the tool,
which exists by the well-foundedness of the naturals.

The guardrail (`GuardrailProofs`): `TextInv` consists of `HeldIn` (only
redactors of streams hold anything), `OrderInv` (client's text and held text of a
stream are what was said of it, less what a thread has), `FinishInv` (of a choice that
has finished nothing is held that was said before; the finish chunk's own text may be)
and `JobInv` (the chunk in a
thread is of a choice not seen to finish, and before one that finishes the redactors were
emptied). `EndInv` adds that
nothing is held once `[DONE]` is through. `OwnKeys` says of the provider's chunks
that the residue of no other stream is sent as one that the properties speak of, that
text comes with its index declared, and so does a finish but for choice 0's. The
chunks of the run satisfy it, its second tool call and its finish with text included.
The streams the properties speak of (`Given`) are the choices' own text and the tool
call whose index is its choice's, as far as both are 0; of the other calls the
statements are false of this code (above). `SocketIsReleased` needs neither
assumption: only `LeavesEarly` and a `Finally` beside a thread end a request whose
socket is open.

The redactor (`GuardrailProofs`). `HeldIsTheEnd` is about every set of patterns: any
languages, lookarounds and validators, with the constructor's check that no word
is longer than `MaxHoldback` as the only assumption about lengths. `RedactorInv` is
`HoldsTheEnd` with the types and "no more is held than was fed"; it is inductive because
an emission sees only the context and what is held, and by `HoldsTheEnd` these are the
end of the text (`FullIs`). What has to be shown is then where the hold point lies.
`HoldIs`: what follows the hold-back index may begin a word, so it is no longer than one.
`PushedIs`: a span that straddles the point moves it, towards the end of the text and
not past it, because every span is of the text (`SpansIs`). That holds of the scan
(`ScanIs`), of what the overlap resolution leaves (`ResolveIs`), of the rescue pass
(`RescueRunIs`) and of every rescan (`RescanIs`). `CutIs` gives the text cut at the
new point its context. The scans are functions that recurse from a position to later
ones: `Descent` shows once that such functions exist, and `Downwards` is induction from
the end of an interval.

When a chunk cannot show (`GuardrailProofs`). `ChunkInvariant` is false of this code in
general (`chunk_variance`), so the theorems say how far it reaches.
`ForwardScanIsChunkInvariant` puts the blame: in a text of no part of which the rescue
pass and the rescan of the gaps find more than the forward scan did (`Settled`), no
chunking shows, whatever the patterns. What makes that inductive is `Told`: what is
out, followed by what the scan makes of the rest, is what the scan makes of all,
*whatever else may come*. An emission keeps it because nothing before the hold-back
index can reach beyond the text that is there (`HeldIsFinal`), so the scan of what the
redactor sees and the scan of the whole text match the same words up to the hold point
(`MatchSame`), and what is emitted is that part of the whole's redaction
(`EmissionIs`, from the end backwards); a span that straddles the point goes out whole,
and the scan goes on behind it. The context is what makes a lookbehind see in the part
what it sees in the text (`BeginSame`). At the flush nothing more can come.

The decoder (`SseDecoderProofs`). The three properties hold of every body under every
chunking, not only of the run's seven characters. `ChunkInvariant` and
`YieldedAtOnce` speak of what was yielded; what makes them inductive is
`Following`, which says how the decoder's state stands for the reader's: the body
so far is what was read followed by the pending carriage return, the buffer has no
carriage return in it, and a reader that starts from the events yielded and reads the
buffer is where the reference is after all that was read. Each of the code's steps then
has its lemma: normalising a chunk does to the reader what the raw characters do
(`ReadsNormalised`), the order mark is taken once (`StripBomIs`), a block cut at a
blank line parses to the event the reader closes there (`BlockIs`, `ClosingIs`),
the drain finds every blank line (`SplitIs`) and leaves none (`KeptIs`). The
recursions are over texts, and the library's induction theorems take an operator
the provers cannot instantiate; `TextInduction` therefore states induction with a
set in the operator's place (a set of texts that holds the empty one and is closed under
one more character holds all), from the well-foundedness of the naturals, and
`Recursion` gives the recursive functions their existence.

Only model-checked: liveness (`EveryRequestEnds`, `DrainsByWork`,
`EveryLineAnswered`, `EveryForwardEnds`), which is out of this prover's reach. Every
other property of a passing run is stated by a theorem; `ChunkInvariant` of
`HoldBack` of texts in which the rescans find nothing of their own, for without that
it does not hold. For what patterns they never do is open: of the code's own, SSN and
card are re-anchored by the rescue pass, and an address may begin with a digit right
behind a number (the lookbehind of `email` admits it on purpose, redactor.py:266-271)
whose `(?!\d)` then refuses the number until its gap is scanned again.

## 7. Not modelled

- The schemas of the tools (`schemas.py`), the constructors of error bodies, the
  provider configuration: pure functions or constants, with no protocol. Whether
  a call is refused is an outcome of the drain's `Execute`.
- Test doubles and tooling: `mock_*.py`, `run.sh`, `src/tests/`. The models'
  environments answer anything the code must cope with.
- The regular expressions and validators of the redactor, and the keyword for bare
  SSNs (redactor.py:850-859). The code joins its patterns in one alternation, in which
  an earlier one wins at the same place; the model takes the longest of what the
  patterns find there.
- The UTF-8 decoder under the SSE decoder: a chunk that ends inside a character is
  the library's.
- The SSE encoder, header forwarding, `healthz`, the wording and `data` of errors,
  logging.
- A client's `notifications/cancelled`: whether the SDK then answers the request is
  not to be seen in this code. If it does not, the drain waits for its timeout.
- The parsing of `MCP_DRAIN_GRACE_MS` (always between 250 ms and a minute, so the
  drain is never skipped).
- The death of the stdio server's, the gateway's and the guardrail's process:
  nothing of theirs is persisted.
- A wall clock that steps back: the limiter chooses wall time knowingly
  (limiter.py:181-185), and promises nothing then.
- The schema creation's retries, the pragmas, `usage()` and `row_count()`; the size
  of the thread pool: a submitted job waits in `queued` for as long as it likes,
  which covers every size.
- The charge that is lost when the process dies between the update that found
  nothing and the insert (limiter.py:332): the code accepts it, after a warning.
- Cancelling the shielded tasks themselves at loop shutdown: the process is
  then going away (`Stop`).
