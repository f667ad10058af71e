# Quant_agent in TLA+

A model of the parts of Quant_agent whose correctness depends on the order in
which things happen: accepting an analysis job, running it once and settling it
whatever crashes, time-outs and retries occur; following it live; calling the
language model under a shared limit; executing generated back-tests in a child
process; mailing reports. TLC checks small instances; TLAPS proves every safety
property and both refinements for instances of any size, the ones that depend on the
lease outlasting the wait under that hypothesis. All paths below are relative to the
repository; `ai/ai_graph/` and `backend/app/` are left out where the
file name says enough.

## 1. Inventory

| Component | State | Operations | Interacts with | Hard part | Correct when |
|---|---|---|---|---|---|
| Analysis-job runtime (`jobs.py`, `job_repository_postgres.py`, `analysis_capacity.py`, dispatcher and lifespan of `api.py`) | job rows, dispatch outbox, semaphore, cancellation set | admit, claim, run, settle, acknowledge, release, cancel, reap | PostgreSQL; background tasks in a thread pool; provider calls | leases against waits, exceptions between two writes, restart | every job is run at most once and ends; no slot leaks; finished jobs stay finished |
| Parse-bound admission (`api.py`, `job_repository_postgres.py`, `token_auth.py`, `research_contract.py`) | process-local retry fence, parse tokens, idempotency rows, quota counters | begin / complete / discard, verify, find, charge, admit | two processes meet in PostgreSQL and Redis | races on keys and tokens, lost acknowledgements, error paths | one key one job, one token one job, a retry finds its job |
| Event buffer and SSE (`job_events.py`, `jobs.py`, `api.py` 1831-1893) | bounded event list per job, cursors | publish, close, read_since | runner thread writes, streams read and resume | trimming under a reader, close against the last write, restart | a reader gets each kept event once, in order, and is released |
| AOAI gate and client loop (`llm/concurrency_gate.py`, `llm/aoai.py`) | capacity, in flight, healthy streak, list of waiters; body, retries | acquire, release, shrink, grow; post, adjust, retry | every provider call | shrinking below what is in flight, lost wake-ups, one loop bound for two kinds of repetition | no sleeper beside a free slot, growth is earned, a call ends for a reason of its own |
| AI back-test flow (`services/ai_backtest_flow.py`, `ai_backtest_runtime.py`, `ai_backtest_subprocess_runner.py`, `db/ai_backtest_repository.py`) | request rows with leases, run, code and result records, approvals, traces, child process and its release pipe or signal file | claim, replay, fifteen steps with a write, release, settle, approve a replacement | PostgreSQL, a child process, an operator | a write that fails between two others, a lost acknowledgement of the release, a backend that dies around a living child | one execution per lease, answers match records, everything ends |
| E-mail outbox (`db/email_outbox.py`, `workers/email_delivery_worker.py`, `services/email_*.py`, `db/user_preferences.py`, `routes/email_reports.py`) | deliveries with fenced claims, settings | enqueue, resend, claim, revalidate, send, settle, release expired, opt out | mail provider, several workers | lease expiry during a submission, settings read in one transaction and written in another | bounded submissions, SENT means accepted, opt-out holds, every delivery settles |
| Research appendix outbox (`api.py` 907-955, repository 489-570) | second outbox, appendix record | claim, complete, fail | runs after the dispatcher | same as the dispatch outbox | one appendix per finished job |
| Account tokens (`token_auth.py`) | Redis cache and counters | resolve, count | admission | fail-open, window edges | limits per window |
| Sessions (`services/session_store.py`) | session and refresh records | create, rotate, revoke | Redis | concurrent rotation | a revoked session stays revoked |
| Back-test engine (`backtest_module/`) | cash, positions, trades | step through days | none | accounting at boundaries | cash and shares balance |
| Graph, nodes, other LLM code, data sources, audit, DE ingestion, web client, scripts | per-request data | sequential processing | the runtime sees "returns" or "raises" | numeric, I/O | not a matter of ordering |

`PROJECT.json` lists every component with what is and is not modelled, and the
hazards with the lines where they bite.

## 2. Plan

1. `AnalysisJobs` - the job runtime; safety, liveness, proofs. **Done.**
2. `ParseBoundAdmission`, refining `AdmissionLedger`; proofs. **Done.**
3. `BacktestFlow`, refining `ExecutionLease`; safety, liveness, proofs. **Done.**
4. `EmailOutbox` - fenced claims, settings races; safety, liveness, proofs. **Done.**
5. `AoaiGate` - condition variable, capacity, client loop; proofs. **Done.**
6. `JobEvents` - trimming, cursors, close order; liveness, proofs. **Done.**
7. Open: the research appendix outbox, which has the shape of the dispatch outbox;
   session rotation; cash and position accounting of the engine as operators.

`AnalysisJobs` takes an admitted parse-bound job as one atomic action. That is what
`AdmissionImplementsLedger` justifies: seen from the tables, admission is one step.
`JobEvents` follows the tasks of a job and the buffer they share, and sees of the
runtime only when a job can be claimed again and the order of close and verdict; a
joint model with `AnalysisJobs` multiplies two state spaces that share
nothing else.

## 3. The modules

### AnalysisJobs

Durable state: `status` and `result` of each job row, `outbox` and `stale` (the
claim is more than five minutes old) of its dispatch record. Lost in a crash: `pc`
and `work` of every dispatcher run and background task, `handled` (messages of a
dispatcher run), `free` (semaphore permits), `cancelled`. `starts` counts runs for
the property only. One action per step between two store calls:

| Code | Actions |
|---|---|
| `create_analysis_job` | `AdmitParseBoundJob`, `ReplayAdmission`, `CreateDirectJob` |
| `cancel_analysis_job` | `CancelAnalysisJob` |
| `claim_analysis_job_outbox`, the dispatcher's loop head | `ClaimAnalysisJobOutbox`, `ClaimNothing`, `FetchJob` |
| `slot()`, `run_job_sync` | `AcquireSlot`, `SlotTimeout`, `SettleTimeout` |
| `_run_analysis_job` | `StartRunning`, `ReportStage`, `RunnerReturns`, `RunnerRaises`, `RunnerCancelled`, `FinishRun`, `DirectTaskEnds` |
| the dispatcher after the run | `RereadJob`, `SettleNonTerminal`, `MarkDelivered`, `ReleaseClaim` |
| any store call that raises | `StoreFault` |
| `lifespan`, `reap_interrupted_jobs` | `Crash`, `ReapInterruptedJob`, `StartServing` |
| the lease's clock | `LeaseExpires` |

Abstractions. The load and the save of a PostgreSQL row update are one write (two
writers of one row arise only from a second claim, which is reported anyway). A
raised store call did not apply its write. Which claimable row a claim returns is
free, because of `SKIP LOCKED`. `owner_incarnation` is not kept: at startup every
row belongs to an earlier process. Branches for a missing job row are left out, the
foreign keys are `ON DELETE RESTRICT`. A row that a newer build cannot decode
(`DriftJobs`) is force-failed by the reaper, whatever its outbox says, and can then
no longer be read. A demo query (`DemoJobs`) completes where others fail. Time is
only what matters: whether the capacity wait can outlast the lease is the constant
`WaitOutlastsLease`; by default it does (1860 s against 300 s). When it does not,
a claimant whose job is still queued has passed the wait before the lease ends: the
other steps before the RUNNING write are single store calls.

### ParseBoundAdmission and AdmissionLedger

One request is one handler; `registry` is the `_CoreJobIdempotencyRegistry` of each
process, `idem`, `consumed`, `tokenLock`, `rowLock` the committed and uncommitted
rows, `used` and `reserved` Redis. The handler is a coroutine: `LoopFree` says that
within a process nothing else runs while a handler is inside its synchronous
repository call, so within a process handlers interleave at the quota's `await`
only, while two processes interleave at every SQL statement. `ConsumeToken` and
`InsertRows` wait for row locks as READ COMMITTED does; `TransactionRaises` includes
a commit that was applied although its acknowledgement was lost; `FindRaises` is the
database error that no handler catches. All rows are keyed by user, so one user is
modelled; a job is named after the request that creates it. The signature is the
predicate `DraftValid`. The in-transaction policy check of exploration jobs is one of
the causes of `TransactionRaises`. A stored job row always exists for an idempotency
row (foreign key), so the "parse_token_unavailable" branch for a missing row is out.

`AdmissionLedger` is the promise to clients: a key is bound once to one
specification and one job, a token pays once, and clients are told of bound jobs
only. The refinement mapping takes `idem` as the ledger, `consumed` as the spent
tokens, and the set of answers that named a job as what was told.

### BacktestFlow and ExecutionLease

A call is one POST; the row it may create, its run, trace and child carry its name.
`row` is `app.ai_backtest_request` (state, lease, version, stored response,
terminal evidence, run id), `exec`, `code`, `saved` the other records, `approval`
the replacement approvals; `child` and `pipe` are the runner process and its release
pipe, which outlive the backend. On Windows (`WindowsCalls`) the pipe is a signal file:
it is first created and then written ("empty"), nothing closes it when the backend
withholds the release or dies, the child polls for it, and the child has no CPU limit.

| Code | Actions |
|---|---|
| `claim_idempotent_request`, `_replay_or_conflict` | `ClaimNew`, `ClaimExisting`, `ClaimRefused`, `ClaimFails` |
| `run_generated_backtest`: sealing, generation, validation | `Begin`, `Seal`, `Generate`, `Validate` |
| `_run_execution`, `SandboxedBacktestExecutor.execute` | `CreateRun`, `Arm`, `Spawn`, `Identify`, `Authorize`, `Signal`, `Withhold`, `Await`, `RecordRun` |
| verdict, result, report, settlement | `SettleCode`, `PersistResult`, `Report`, `Complete`, `Close`, `Mark` |
| `_await_release`, the generated program | `ChildRelease`, `ChildEnd` |
| a write that raises, applied or not | `WriteFault`; for the audit `AuditFault` |
| death of the backend | `Crash` |
| operator calls | `OperatorTerminalize`, `OperatorRecordEvidence`, `OperatorIssueApproval`, `ApprovalLapses` |

Each action is one committed transaction with what the service does around it. The
claim is one step because it runs under the advisory lock of its fingerprint.
Abstractions: `subprocess.communicate` blocks the event loop, so a process serves one
executing call at a time; the model lets calls interleave at every step, as several
processes do. Cancellation of the request coroutine is not modelled: the flow's
handlers catch `Exception`, which does not include it, and the process lives on.
Error kinds of one step that end in the same state are one outcome; every error of
the claim is answered 503. No route of the repository calls the service yet: its
caller is taken to be any set of concurrent POSTs.

`ExecutionLease` is the promise: of the requests with one fingerprint at most one
holds the lease, only its program executes, once, and a lease is not given up under
a running program. `held` maps to the rows with an active or blocked lease,
`executing` to the living children that were released.

### EmailOutbox

`row` is `app.email_delivery_history`, with `epoch` counting its resends; `minted`
makes claim tokens; `prefs` the user's settings. A worker has a batch of `claims`
and a program point.

| Code | Actions |
|---|---|
| completion trigger, resend button | `CompleteReport`, `ResendRequest`, `ResendRequeue`, `CooldownEnds` |
| settings and unsubscribe, read and write apart | `PatchSettings`, `SavePatch`, `Unsubscribe`, `SaveUnsubscribe`, `DeleteReport` |
| `release_expired_claims`, `claim_next_delivery` | `ReleaseExpired`, `StartClaiming`, `ClaimNext`, `StopClaiming` |
| `_process_claim` | `CheckClaim`, `ProviderSend`, `SettleClaim` |
| time, faults, signals | `ClaimExpires`, `SendReplyLost`, `SettleFault`, `ClaimFault`, `GraceEnds`, `CrashWorker`, `StopWorker`, `StartWorker` |

Abstractions: a retry is due at any time (its backoff is not modelled), a lease runs
out freely when its worker is gone and as a counted disturbance when the worker still
means to use it; the switches of the deployment are on; rendering and signing cannot
fail differently from a failed check.

### AoaiGate

The gate's lock makes each critical section one step. `waiters` is the list inside
`threading.Condition`: `notify` takes its head, and a waiter whose wait timed out
stays on it until it has the lock again, so a notification can be spent on it
(`Unlist` is the `remove` in `Condition.wait`). `EnterGate`, `WaitTimesOut`,
`RecheckGate`, `ReleaseSlot` are `acquire_slot`; `ObserveStream` and `ObserveAnswer`
are `observe_rate_limit_headers` from the streaming loop, inside the slot, and from
the ordinary one, outside; `Decide` is what the loop of `aoai.py` does with an
answer. The deployment is taken to be consistent: it rejects a capability only in a
request that carries it, and each rejection removes one of the `Features`, of which
there are no more than `MAX_COMPATIBILITY_ADJUSTMENTS`.

### JobEvents

`events`, `dropped`, `closed` are a `JobEventBuffer`; an event is the number of its
publication. A reader is a browser tab: `ReadSince` and `SendEvent` are one turn of
`event_source`, `lastId` is what the browser sends as `Last-Event-ID`. A task is one
call of `run_job_sync`: it enters with a claim of the queued job (`EnterRun`), waits
for a slot and starts whatever the row says by then (`StartRun`). With
`WaitOutlastsLease` a second task enters while the first one waits; both use the same
buffer, and `Publish` does not look at `closed`, as the code does not. A successful
run closes its stream before it stores its result (`CloseEvents`, `StoreResult`), a
failed one after its verdict (`FailRun`, `CloseEvents`); a capacity time-out
(`GiveUpWaiting`) never closes it. `Restart` empties all buffers; the reaper fails
what was running.

## 4. Runs

| Run | Instance | Shows |
|---|---|---|
| `jobs_short_wait` | 2 parse-bound jobs (one a demo query), 1 direct job that a new build cannot decode, 2 dispatchers, 1 slot, 1 crash, 1 fault; wait shorter than the lease | all safety properties of the runtime |
| `jobs_traffic` | 1 parse-bound, 1 direct job, 2 dispatchers, default wait, 1 crash, 1 fault; requests keep arriving | `EventuallySettled`, `QueuedEventuallyLeaves` |
| `jobs_second_run` (violation) | default wait, no crash, no fault | a job waiting behind another is claimed and run twice |
| `jobs_quiet` (violation) | 1 job, 1 crash, no further traffic | a job with a fresh claim at startup is never dispatched |
| `admission_races` | 3 requests, 2 processes, 2 keys, 2 tokens of different rules, mismatching digests, 2 disturbances of any kind | refinement, one token one job, fences agree and are owned, retries find their job |
| `admission_fence` (violation) | a lookup that raises | "in progress" is answered although nothing is |
| `backtest_replacement` | 4 calls for one fingerprint, two of them with the same key, 1 approval, an operator | every further row has an approval of its own, answers and settlements stay true |
| `backtest_ends` | 2 calls, one of them served on Windows, 1 approval, an operator, 1 crash, failed or unacknowledged write | refinement of the lease, records match the response, no forgotten lease, everything ends but the orphan of a Windows backend |
| `email_claims` | 1 delivery, 2 workers, 2 attempts, 1 resend, 2 disturbances | bounded submissions, SENT means accepted, late workers settle nothing that is not theirs |
| `email_settles` | 1 delivery, 1 worker, 1 settings change, unsubscribe, 1 disturbance | opt-out holds against concurrent writes, every delivery settles |
| `aoai_gate` | 3 threads (2 streaming), capacity 1 to 2, 1 retry, 1 lacking capability, 2 troubles | no lost wake-up, the loop bound suffices, growth is earned |
| `live_events` | 1 job that 2 tasks run, up to 4 events in a buffer of 2, 2 tabs, 2 cuts or restarts; default wait | readers miss trimmed events only, "done" is said when all that is kept has been sent and holds until a second run, readers of a started run are released |

Bounds. Two dispatchers and one slot (the default) are the least that let one wait
while another runs; two jobs per dispatcher run reach both ends of the message loop.
A backlog beyond the message limit (two parse-bound jobs, one message per dispatcher run, a crash and a
fault) was checked once for both liveness properties, 305 thousand states.
Three requests are the least for a winner, a concurrent loser and a retry. Four calls
are the least for a settled row, its replacement, a call that loses the race for the
approval and one that repeats a used key; they share one fingerprint and meet no
disturbance, because either makes the instance too large for TLC: a key reused for
another fingerprint and a lost acknowledgement among rivals rest on the proofs (and,
for two calls, on `backtest_ends`). Two workers and two attempts let a lease
run out under one worker, another one submit, and the first settle late; a second
delivery only shares the batch (checked once with batches of two, one attempt and one
disturbance, 7.2 million states). Three threads over a capacity of two let one sleep,
one be roused and a newcomer take the slot. Four events over a buffer of two trim
below, at and above a reader's cursor. Disturbances are bounded in the guards by
their sum. For the safety properties and the refinements the proofs remove every
bound; the liveness properties hold on the instances above. Deadlock is not checked
where requests, calls or reports are finitely many and may all be over.

Fairness. `ProcessFairness` of the runtime is weak fairness of every task's next step
(threads are scheduled; a run has a deadline and every provider call a time-out), of
the lease's clock, of the reaper and of startup; `TrafficSpec` adds that some
parse-bound request eventually arrives, the only thing that starts another
dispatcher; `jobs_quiet` shows that the assumption is needed. Weak fairness of
`RunStep` gives a waiting task a slot or its time-out, as `Semaphore.acquire(timeout)`
does. The back-test flow has weak fairness of a claimed call's steps and of the child:
its wait for the release goes on everywhere, and its program ends because of its CPU
limit, except on Windows, which has none. The e-mail worker keeps polling and is restarted by its
supervisor, leases run out (weak fairness); that a row which stays due is claimed in
the end is strong fairness of `ClaimNext`, because the query orders by
`available_at`. An open event stream keeps polling and a started run ends (weak
fairness). Crashes, faults, cancellations, operators and requests carry none.

## 5. Proofs

`AnalysisJobsProofs` proves `Spec => []IndInv` for any number of jobs, dispatchers,
slots, crashes and faults, from `JobSets` and `Parameters` (the sets are disjoint,
the workers finite, the limits positive). `SlotConservation` is inductive with
the types and `WorkOK` (what a task works on); `QueuedIsRecoverable` needs
`StartedOK`: behind the RUNNING write and behind an acknowledgement a row never
returns to the queue; `NoStrandedRunning` needs `RunnerOK`, which says at which
program points the task behind a running row stands. Under `~WaitOutlastsLease`,
`ExclusiveInv` is inductive on top: one handler per job (`OneHandler`), whose claim
is live while the job is queued (`ClaimLive`), whose program point determines the
row's status (`PointStatus`). From it follow `SingleRun`, `SettledRecords`,
`ResultsBelongToFinished` and `TerminalRowsFinal`. The hypothesis cannot be dropped:
`jobs_second_run`.

`ParseBoundAdmissionProofs` proves `Spec => []AdmissionInv` for any number of
processes, requests, keys and tokens. Handler actions are first classified by what
they do to the database (`StepKinds`), to the fence (`FenceKinds`) and to the client
(`AnswerKinds`); each conjunct is then shown over the kinds of its own part. The
strengthening consists of `LockInv` (the locks are those of the writing
transactions, and what such a transaction has seen stays true), `OwnerInv` (a
handler at work owns its fence, alone), `RowInv` and `AnswerInv`. From it follow
`TokensPayOnce`, `FenceAgrees`, `FenceOwned`, the refinement
`AdmissionImplementsLedger` and the action property `RetriesReturnOriginal`.

`JobEventsProofs` proves `Spec => []EventsInv` for any number of jobs, readers and
events and any buffer size. A buffer is intact, and then its i-th entry is
publication `dropped + i` and `trimmed = dropped`, or it was lost in a restart, and
then its job is over and its stream never ends; this holds for any number of tasks
that publish into it and close it (`RunFacts`). For a reader, everything between the
last id it got and the next one to be sent has been trimmed (`StreamOK`). The
property itself is not inductive: it says nothing of the cursor and of what is on its
way. `BufferBounded` and `ReadersMissOnlyTrimmed` follow, and with `ClosedLast` the action
property `DoneReadersHaveEverything`: behind a close stands a task past its last
event, so whoever still publishes is a second one. Under `~WaitOutlastsLease` a job
has one task beyond "off" (`Alone`), and `ShortWaitDoneIsFinal` drops the exception.

`AoaiGateProofs` proves `Spec => []GateInv` for any finite set of threads and any
capacity range. `NoSleeperBesideFreeSlot` is not inductive: a roused waiter that
timed out may still be on the list, and the next `notify` is spent on it. The
invariant therefore counts only roused waiters that have left the list (`Notified`)
against free slots; it needs that the list has no duplicates, holds every sleeper,
and lists an awake waiter only if it timed out (`ListOK`). `LoopNeverRunsOut` rests on
`attempt + |body| <= retry_count + 1 + |Features|`, `GrowthIsEarned` on
`healthy_streak <= sinceLimit`.

`BacktestFlowProofs` proves `Spec => []FlowInv` for any number of calls, keys,
fingerprints, approvals, deaths and faults, from `FlowConstants`. A step of the
backend or of a child changes one call's part of the state, so most of the invariant
(`CallOK`) speaks of one call: `RowOK` (lease and state say the same), `StageOK` (the
state a call finds at each of its points, or that an operator took it),
`ChildOK` and `RecordsOK` (where child and pipe stand, what is on record and how often
the program ran at each point), `TraceOK`, and the safety properties themselves,
none of which is inductive alone. Each group of actions is shown to keep `CallOK`
of its own call; `Frame` carries it over for the others. Across calls look
`AnswerOK`, which stays true because a row, once there, is never removed and a stored
response never replaced, and `WarrantOK` with `RowsHaveDistinctWarrants`: an approval
that made a row is consumed, so it makes no second one. The heart of `ExecutionOwned` is
one conjunct of `ChildOK`: a living child whose pipe holds the release byte is that of
a released row with a running run, which an operator cannot settle.
`FlowImplementsLease`
shows every step to be a claim, a start, an end or a settlement of `ExecutionLease`,
or a stutter (`LeaseStep`); a crash maps to a stutter because the child lives on.

`EmailOutboxProofs` proves `Spec => []OutboxInv` for any number of deliveries,
workers, attempts, resends and disturbances, from `OutboxConstants`. The fence is the
token: minted once (`minted` bounds all of them), borne by one claim
(`ClaimsDistinct`) and submitted at most once (`PostsDistinct`, `SubmittedOnce`); a
row that bears a claim's token is the row as it was claimed (`ClaimOK`).
`SubmissionsBounded` counts, and is proved through `Windows`: the claims of one request
bear consecutive tokens, one for each attempt, so they and their submissions lie in a
window of `MaxAttempts` tokens, and an injection into that window bounds the set of
submissions. `OnceUnlessDisturbed` needs three more parts for undisturbed deliveries:
a claim of the present request owns its row (`ClaimsOwn`), what the provider accepted
for it is on the row or about to be written there (`PostsRecorded`), and that is one
submission (`AcceptedOnce`). The opt-out rests on the wish that held when the claim
was checked (`PostOK`): whoever may get action mail has wished for it (`SettingsOK`).
Actions are first classified by what they do to rows and claims
(`RowStep`, `RequeueStep`, `ClaimStep`, `DropStep`, `SettleStep`, `PostStep`), and
the invariant is shown over the kinds.

The invariants were checked with TLC on the instances of the runs before they were
proved.

Only model-checked: the liveness properties (`EventuallySettled`,
`QueuedEventuallyLeaves`, `EverythingEnds`, `EveryDeliverySettles`,
`ReadersReleased`) and the fairness they rest on, which are out of TLAPS's reach, and
the violations of section 6, which are counterexamples and need no proof.

## 6. What the violations say

* The claim lease (five minutes) is shorter than the capacity wait (31 minutes) and
  a waiting job stays `queued`, so "claim leasing selects it at most once"
  (`api.py:1775`) does not hold.
* A claim that is still fresh at startup is skipped by the only dispatcher that
  startup runs (`api.py:811`, `1238`).
* A database error in `find_parse_bound_job` (`api.py:1661`) leaves the retry fence
  pending until the next restart.

Observations without a run of their own:

* The quota is consumed before the admission (`api.py:1704`, `1711`), against the
  docstring of `RequireAuthenticatedIdentityReadOnly` (`token_auth.py:400-402`): a
  request that is then refused has been charged.
* A retry after a restart with an expired draft is refused at `api.py:1554`, before
  the durable lookup, although its job exists. `RetryReturnsOriginal` therefore
  speaks of valid drafts.
* A capacity time-out (`jobs.py:857-885`) and a restart end a job without closing its
  buffer, so its readers poll for ever, although `jobs.py:1021-1022` wants them
  released. `ReadersReleased` therefore speaks of runs that were started.
* When the backend dies after the release of a child, the run stays "running" and no
  operation records its end: the operator cannot settle the row
  (`ai_backtest_repository.py:634-657`) and its fingerprint stays blocked.
* `close` is to "mark the analysis finished so readers can stop" (`job_events.py:42`),
  but `publish` does not refuse a closed buffer. When a job is run a second time, as
  `jobs_second_run` shows, that run publishes behind the close of the first, and
  readers that were told "done" have left; those still connected get its events.
  `DoneMeansEverything` therefore ends where a second run starts.
* On Windows a child whose backend died before the release polls for its signal file
  for ever (`ai_backtest_subprocess_runner.py:29-36`), and one that was released has no
  CPU limit (`ai_backtest_runtime.py:420-426`, `869-871`): `EverythingEnds` exempts
  both. A child that finds the signal file created but not yet written
  fails a run that the row calls released; the records say so.
* An approval issued for an older request of a fingerprint also opens the way when a
  newer one has been settled since.
* `confirm_unsubscribe` writes back all settings it read: a change of the address or
  the daily switch in between is lost. The opt-out itself is safe.

## 7. Not modelled

The analysis itself (graph, nodes, prompts and parsing of LLM calls, data sources) is
sequential computation on data whose content no property here tells apart. Position
sizing, signals, performance statistics and the engine's accounting are floating-point
arithmetic. Signatures and digests, the thread pool, the limit of 500 rows of the
restart sweep, the token cache, the front-end's read models, ingestion pipelines, the
web client and the release scripts are I/O or single-threaded. The research appendix
and session rotation are left for later (section 2).
