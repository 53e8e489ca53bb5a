# Verification of the Hybrid AI Animation Studio

The repository is a factory for narrated Bible-story videos. Agents plan an
episode, paid providers generate its images, clips and voices, a local renderer
assembles them, two human gates (thumbnail, then video) approve the result, and a
controller publishes it. Money is spent by calls that cannot be repeated, most
state lives in files and SQLite databases that several processes share, and every
process may be killed at any moment. This directory holds TLA+ models of the parts
whose correctness depends on that: what may be interleaved, interrupted, repeated
or lost, and what must hold nevertheless.

Paths below are relative to the repository; `hybrid/` stands for `src/hybrid/`.

## 1. Inventory

| component | state it keeps | operations | what is hard, and what makes it correct |
|---|---|---|---|
| **Episode leases** `hybrid/lease.py` | tables `episode_leases` (one row per held episode) and `episode_lease_epochs` (last token ever granted) | `acquire`, `renew`, `assert_active`, `release` | callers pass clock readings that may be old; `release` is two transactions; rows outlive their owners. A fencing token must name one run, a superseded holder must stay fenced, a live lease must belong to its owner |
| **Durable worker** `hybrid/worker.py`, host and approval commands in `hybrid/autonomous_cli.py`, OS locks in `hybrid/locks.py` | table `episode_tasks`, the status snapshot file, a writer lock, the turns of an event loop, `runner.json` | `enqueue`, `next_pending`, `claim`, `complete`, `retry`, `unknown`, `wake_gate`, `run_once`, `serve` | row and lease are in two databases; turns, hosts and approvals interleave; heartbeats fail; shutdown has a deadline. The snapshot must not lie, an owner must own its row, terminal tasks must stay terminal, every queued episode must come to rest while a host serves |
| **Standing budget** `hybrid/standing_budget.py` | table `claims`: reservations per request, episode and month | `reserve`, `bind_provider_request_id`, `mark_unknown`, `settle`, `_settle_verified_receipt` | claims outlive the month they were booked in; the month is read before the transaction; a bill may exceed its cap. No ceiling is exceeded, no liability is reinterpreted |
| **Executor, billing snapshot, reconciler** `hybrid/execution.py`, `hybrid/billing_snapshot.py`, `hybrid/billing_reconciler.py` | table `jobs`, the ledger, `billing-status.json`, one coordinator lock and one lock per request | `prepare_and_reserve`, `Executor.run` and its checkpoint, `reconcile` | two databases and a file without a common transaction, around a POST that cannot be repeated. One POST per request, always funded; no torn pair of rows is shown as current; no deadlock between the two kinds of lock |
| **Two-gate runner** `hybrid/autonomous.py` | `runner.json`, `runner.lock`, delivery directory | `start`, `add_successors`, `resume`, `stage_delivery`, `record_human_gate`, `publish` | a bounded window of concurrent jobs over three stores; takeovers in the middle; rendering without a lock; ambiguous publication; a resume without a lease. A job is paid once, reviewers see approved work, what they approved is published, once |
| **Operational metrics** `OperationalMetricsLedger` of `hybrid/autonomous.py` | tables `observations` and `observation_conflicts`, a snapshot file, a lock | `reconcile`, `reconcile_standing_claim`, `read_snapshot` | a claim is settled between the read and the write; a writer dies anywhere. Telemetry never shows money that was not settled nor rows that were not committed |
| **Episode state machine and director** `state/machine.py`, `agents/director.py`, budget guard `budget/guard.py` | `state.json`, plan, render intent, completion and receipt, QA reports, cost ledger | `transition_to`, `start_episode`, `continue_after_approval`, dispatch, verdicts, render, final QA | async calls keep a loaded store across awaits; renders race in threads and processes; crashes anywhere. One master per episode, made of approved work; no work without an approved plan |
| **Compiled production** `hybrid/compiled.py`, `hybrid/production.py`, queues of `hybrid/throughput.py` | executor rows, two durable queues, promoted images in memory, QA reports | `dispatch_baselines`, `dispatch_remediation_wave`, `record_visual_qa`, `eligible_hero_jobs`, `render_ready` | waves of jobs with partial failure, and a pipeline object that dies with its process. A job that may be paid for is never posted again |
| **Approvals, delivery, publication** `approval/`, `delivery/controller.py`, `publishing/controller.py`, `pipeline/revision.py` | reply journal, registry, receipts, outcome and outbox tables, publication receipt | `deliver_for_approval`, `ingest_webhook`, `confirm_delivery`, `drain_once`, `stop`, `publish`, `reject_delivered_artifact` | lost answers, redelivered updates, a missed shutdown deadline, a thumbnail made again. Each artifact is shown once, and what is uploaded was shown and approved |
| **Revision pipeline** `hybrid/revision.py`, `hybrid/revision_live.py` | `revision.json`, stage outputs with their hashes, wave and QA intents, receipts | `create_plan`, `approve_plan`, `run`, `deliver`, `approve`, `authorize`, `publish`, `reject` | a command stops at any write and is repeated. Nothing paid, sent or uploaded happens twice; rejected media never come back |
| **Preproduction handoff** `hybrid/preproduction.py`, `hybrid/audio_preproduction.py`, `hybrid/audio_qualification_evidence.py` | request, revisions, packets, staging directories, compiled runner | `advance`, `compile`, `start_compiled`, three imports | commands under different locks read a revision while another rewrites it. A packet holds one advance and is never replaced; the worker resumes one complete runner only |
| **Serverless hero provider** `providers/video/runpod_serverless.py` | claim and checkpoint file, linked output | `submit`, `recover`, `recover_local`, `cancel` | a paid POST whose answer is lost; cancellation racing completion; a deadline. One POST, no terminal checkpoint without evidence, every call returns |
| **Content store** `hybrid/cas.py` | objects and metadata | `put`, `get`, `materialize` | concurrent writers; wired by the benchmark only |
| **GPU pods, durable TTS** `providers/gpu/`, `providers/` | claim and checkpoint files | `run`, `terminate_once`, `cleanup_orphans` | paid pods that outlive their process; constructed by tests only |
| **Live authority** `hybrid/budget_authorization.py`, `hybrid/live_execution*.py`, `hybrid/external_trust_root.py` | signed documents | verification | chains of hash checks over static documents |
| **Editorial, planner, media QA, benchmarks** | documents and media | document building, ffmpeg, measurement | mostly pure or outside the process |

How they interact: a *host* process runs `DurableEpisodeWorker.serve`, which leases
an episode, claims its queue row and calls the handler; the handler resumes the
two-gate runner, which reserves money in the ledger and sends jobs through the
executor; approval commands record a gate in `runner.json` and wake the queue row;
the settlement service later reconciles the provider's bill with both databases.
Beside this path there are two others to a published video: the director drives the
compiled production of an episode to a master and hands it to the Telegram gates, and the
revision harness remakes a video in a workspace of its own. Preproduction feeds the first
two with frozen packets; the hero provider is one of the executor's providers.

`PROJECT.json` lists the hazards behind these rows, each at the line where it bites,
with the properties that cover it or the reason why none does yet.

## 2. Modules

| module | models |
|---|---|
| `FencedLease` | the abstract specification of a lease: a current token, whether it is live, the last token granted |
| `EpisodeLease` | `lease.py`: rows, tombstones, clock readings, lease objects, the two steps of `release`; implements `FencedLease` |
| `EpisodeWorker` | `worker.py`, hosts, handlers, approvals; drives its leases by the actions of `FencedLease` |
| `EpisodeWorkerProofs` | theorems about `EpisodeWorker` |
| `StandingBudget` | `standing_budget.py`, each method one transaction, the month of `reserve` read before its own |
| `StandingBudgetProofs` | theorems about `StandingBudget` |
| `BillingSnapshot` | extends `StandingBudget` with the executor's rows, the coordinator, the snapshot and the reconciler |
| `TwoGateRunner` | `autonomous.py` and its compiled adapter: extends `StandingBudget` with the runner's document, its job tasks, the delivery and the gates; drives its lease by the actions of `FencedLease` |
| `TwoGateRunnerProofs` | theorems about `TwoGateRunner`, on those of the ledger |
| `OperationalMetrics` | extends `StandingBudget` with the metrics ledger that projects its claims |
| `LedgerViewsProofs` | theorems about `OperationalMetrics` and `BillingSnapshot`, on those of the ledger |
| `EpisodeState` | `state/machine.py`: the transition table and `transition_to`, as operators on a store |
| `CompiledProduction` | `compiled.py`, `production.py`, the queues of `throughput.py` and the executor's rows for one episode |
| `EpisodeDirector` | `agents/director.py`: composes `EpisodeState` and `CompiledProduction` with calls, render threads and the render's files |
| `EpisodeProofs` | theorems about `EpisodeLease`, and about `EpisodeDirector` with `CompiledProduction` |
| `DeliveryGates` | delivery, approval and publication of a master, over the stores of `EpisodeState` |
| `DeliveryGatesProofs` | theorems about `DeliveryGates` |
| `RevisionPipeline` | `revision.py` and `revision_live.py`: one workspace |
| `Preproduction` | `preproduction.py`, the importers, and the start of a compiled TEST runner |
| `PreproductionProofs` | theorems about `Preproduction` |
| `RunPodHero` | `runpod_serverless.py`: one request |
| `RevisionHeroProofs` | theorems about `RevisionPipeline` and `RunPodHero` |
| `MC*` | constants and symmetry of the instances TLC checks |

### Leases

`leases`, `epochs` are the two tables, `held[r][e]` the `EpisodeLease` object a run
keeps in memory, `read[r]` the clock reading its next call will pass. `ReadClock` and
the transaction are separate steps, so a run may act on an arbitrarily old reading.
`AcquireNew`, `Reacquire` and `Renew` are one transaction each, `release` is
`ReleaseAssert` then `ReleaseDelete`, and `Crash` loses the objects and keeps the rows.

### Worker

A mutation of the queue (`claim`, `complete`, `retry`, `unknown`) takes the writer
lock and goes through `WriterEnter` (the marker is published), `WriterCheck`
(`_active` against the lease database), `WriterCommit` (the UPDATE) and
`WriterPublish`; a crash may come after any of them, and a failed check leaves the
marker. `order` is the order of `updated_at`, which `next_pending` sorts by. A turn
holds its host's event loop except at its awaits (`AwaitPCs`), so turns of one host
interleave only there, while hosts and approvals interleave everywhere. The handler is
reduced to what `runner.json` waits for (`phase`): producing, thumbnail gate, video gate,
ready. It ends in any way at any time: with a gate, with the end, or by raising, which costs
nothing, so that a runner which raises in every call is in the model. What a turn raises ends
`serve()`, and the host waits for a signal (`"ended"`); `Signal` reaches serving and ended
hosts, and cancels turns at their awaits, a draining one for the second time, which releases its
lease while the handler's thread of control is still there. `enqueue` is one step: it holds the
writer lock and its only intermediate state is the marker. The approval command asserts its lease
or looks at the queue (`AssertWake`), and `wake_gate` then waits for the writer lock, marks,
commits and publishes in steps of its own, any of which may be its last. A worker never re-acquires
an episode under the same run id (each turn makes a fresh one), so `Reacquire` has no counterpart.

### Ledger

A row of `claims` per request, with the month it was booked in, its cap, its actual
(`Null` until reconciled), its settlement mode, remote id and coordinator generation.
Refused calls change nothing and are therefore no actions. Every method is one transaction,
but `reserve` reads the month before its own, which may wait: a reservation is made for any month
up to the present one. Money is an integer number of units; the conversion of decimals is exact in the code or raises.

### Billing

A process is in one call at a time: `Admit` (`prepare_and_reserve`), `Run`
(`run_admitted`) or `Reconcile`. Each durable write is a step. `lock` is
`.billing-status.lock`, `running[r]` the executor's lock of the request; both are
released when their process dies. `_current` compares and publishes in one step: the
fields it compares change only under the lock it holds. Abstracted: one episode per
request, the authority documents, the cache and capacity rules of `_reserve`.

### Runner

A call is one invocation of the worker's handler under a fencing token: it waits for
`runner.lock` (`Enter`), goes round the scheduler's loop (`LoopStale`, `LoopReturns`,
`LoopDispatches`, `Collect`, `Record`), projects the verdicts (`SyncQa`) and stages the
delivery (`Stage*`). `task[c][r]` is the place of `complete_one(r)` in call `c`. The code
between two awaits of an event loop is uninterrupted, but each durable write in it is a
step, since the process may die there; a task holds the loop while its place is in
`SyncPCs`. `doc` is `runner.json`, `row` the executor's table, `claims` the ledger;
`Owns(c)` is `_assert_ownership` and appears exactly where the code asserts. A task that
outlives its call stays in `task[c]` until it ends (`OrphanEnds`) or the event loop is
closed (`LoopCloses`). A media file is identified by the jobs it was rendered from, so that
showing the wrong ones to a reviewer is visible.

Abstracted: the cpu semaphore and the executor's own worker slots only delay a step; the
content cache, the metrics (see `OperationalMetrics`), policy and packet hashes and the authority documents are
left out; `invalid` is a verdict that breaks the QA contract or a technical failure. Staging
is `_stage_local_delivery` with the local renderer; the director's copy of a finished master
takes the same steps. The handler resumes a runner that is `READY`, `RUNNING` or
`MEDIA_PENDING`. Bills are settled only before the verdict on their job: the runner does not
read the claim afterwards. A successor is the durable effect of `remediate` and
`run_heroes`; on a runner wired to a lease those methods raise after that write, and the
next call of the handler produces the successor. `ResumeUnowned` is the `resume` command of the
fixture harness, which holds `runner.lock` but no lease and runs in every state. A fixture takes no
successors, and its `harness.json`, without which the command loads nothing, is written after its
delivery was staged; all that is left for the command to do is to reject a runner whose approved
results changed. The model does not tell fixtures apart: the command may resume every runner that has all its
jobs, also a compiled one, whose own adapter refuses a resume without a lease. This adds behaviours and
removes none. The staging of a fixture takes the steps of the compiled adapter.

### Metrics

A writer is the end of one job: it marks the claim unknown, reads it, and reconciles under
the metrics lock in four steps (marker, open transaction, commit, publish). The claims move
by the ledger's own actions in between. `seen` holds what identifies a billing event: how far
its amount is authenticated, and the amount. Tokens and latencies come from a frozen receipt
and are left out.

### Director and compiled production

`row`, `queue` and `reports` are on disk, `pipe` is the pipeline object in memory. A wave
holds the lock of its queue (`wave`), its items run through `task`; a crash returns both to
nothing. A caller (`call[c]`) loads the store once and saves its own copy, so that a step
that waits may save over another's. `thread[t]` is a render: the thread which the async
calls of a process share (`Flight`) or a worker's own; each of intent, master, completion,
receipt and state is a step. Files are known by the contract (closing hold, images, clips)
that they bind. `Producing` are the states in which a method of the director works.
`CLOUD_VIDEO_GENERATION` is none of them: the budget branch of `continue_after_approval` enters it,
nothing works there, and no code reaches `ANIMATION_QA` behind it; that it is entered without the two
decisions is described in section 5. Starting an episode and continuing a plan are one step up to their first durable
effect that another call can see. Research, writing and the two spoken stages are success or failure, and
`AskBudget` and `Reservable` are the guard's verdicts.

### Gates

Bytes of an artifact are a version; `posts` is what the messenger really posted and `uploads`
what reached the channel, whatever the program knows of it. A deliverer goes through the gate
lock, the intent (`attempt`), the send, the receipt and the registry; a webhook through
journal, claim, approval receipt, state, and outcome with the outbox in one transaction; a publisher
through authorisation, UPLOADING, upload, receipt and PUBLISHED. `StopDeadline` comes while the
drain waits for the gate lock, the messenger or the thread that registers; it marks the row and
cancels the task, which takes no step of its own afterwards (`At`): its post may yet be made, and its
thread ends, but it does not go on to the messenger. Two timing assumptions:
`RecoverRender` starts only while no webhook is under way (a webhook's thread does not outlive a
rebuild), and `Reject` and `Authorize`, which have no await, are one step each: nothing reads the
revision registry that `Reject` writes before it saves the state.

### Revision

One command at a time holds `revision.lock` (`proc`); every step ends with a write or an
outbound request, and `Stop` may come after any. `files` are the outputs of this revision,
`control` the document with the stage records that `load()` checks, `img[j]` how far an image
job came through executor, QA intent, decision and report. `acts` counts the outbound
acts and saturates at two.

### Preproduction

Commands are processes that share only files. A storyboard is known by the timeline it was made
from, and so are the four files derived from it: a packet that mixes two advances is therefore
visible. The director import reads the revision outside any lock and checks it again
(`Reread`, `ReadEvidence`, `CheckEvidence`) before it publishes by a rename. The queue has one
row for a request, since all its revisions compile to the same episode id; it is written by
`run_preproduction_test` (`Enqueue`) and by the command `enqueue` (`EnqueueCompiled`). The handler
looks for the one harness that names the episode (`WorkerFinds`) and later loads it and its document
(`WorkerResumes`); `worker` remembers what it found and resumed.

### Hero provider

A step runs from one await to the next. `ck` is the checkpoint file and `local[p]` the copy a
call holds, so a late save of an old copy is possible. Steps that write twice may die between.
The remote service is external: it may answer, lose its answer, end the job or not.

The status readers of queue, billing and metrics are the predicates of their snapshot
(`Readable`): whether the file would be shown, and hence must be true.

## 3. Runs

| run | instance | shows |
|---|---|---|
| `lease` | 1 episode, 3 runs, TTL 1 or 2, clock to 3, 3 tokens | `LeaseInv`, `SupersededStaysFenced`, `LiveRowIsOwners`, and that the store implements `FencedLease` |
| `worker` | 1 compiled episode, 2 hosts with 2 + 1 turns, 1 restart, 1 approval | the snapshot never lies, a live owner owns its row, claims follow tokens, terminal tasks are final |
| `worker_live` | 1 fixture episode, 2 hosts with 1 turn each, no restart | every queued episode settles unless no host serves; a gate is left only after its approval |
| `ledger` | 2 requests of 2 episodes over 2 months, amounts 1 and 2, 2 metrics writers | ceilings hold, liabilities are final; the metrics show settled money only, committed rows only, and are never rewritten |
| `billing` | 2 requests, 2 processes, 4 generations, 2 faults | one POST per request, funded; CURRENT is coherent; every call ends |
| `runner` | 2 images, a correction with a dependency, a hero clip; 2 calls at a time, 3 tokens, window 2, 1 slot, 1 fault | jobs are posted once, funded and after their dependencies; verdicts have receipts; gates show approved work; what is published was approved; decisions are final |
| `director` | a generated scene with a hero clip and an imported one, 2 finding codes, 2 callers, 2 render threads, closing holds 3 and 4, 1 fault | one master, bound by intent, completion and receipt; made of approved work; no work without an approved plan; jobs are posted once |
| `gates` | 2 deliverers, 2 publishers, 1 new thumbnail, 1 rejection, 1 fault | each artifact is shown once; what is uploaded was shown and approved; outbox rows settle once and are then dispatched by nobody |
| `revision` | 2 scenes, TEST or LIVE, 2 rejections, stops anywhere | no outbound act twice; uploads are approved and never rejected before |
| `revision_heroes` | the same with hero clips | **violation**: a stop in the hero stage leaves a workspace that cannot be loaded |
| `preproduction` | 2 processes, two TEST sources of one request with a recording each and a PREPRODUCTION source with two, 1 candidate, 1 declaration, 2 advances, 2 interrupted writes | packets bind one advance and are final; the worker resumes one complete runner of a request |
| `hero` | 2 drivers, 2 cancellers, nothing bounded | one claimed POST; terminal checkpoints have evidence; a delivered clip stays; every call returns |

Every module defines a type invariant. They are parts of the inductive invariants of section 4's
proofs and were checked while the models were built; no run lists them.

Bounds. Leases of different episodes share nothing, so one episode is enough; three
runs allow a holder, its successor and a run with an old reading, and three tokens let
a token be superseded twice. In the worker's runs only restarts and the tokens of approvals are
bounded; crashes, missed heartbeats, raising handlers and signals are free, since what fails uses up a
host that must be restarted. `worker` has a host with two turns on one event loop, so that a turn that
raises cancels another one; `worker_live` has one turn per host, which is enough for every race between processes
(two turns of one host would need an assumption on the order in which the event loop serves them). The fixture
instance with a restart (1.8 million states, safety only) and the compiled one with two gates (0.6 million, with liveness) were
explored once and showed nothing else. Two requests of amounts 1 and 2 fill every ceiling of
the ledger, from below and exactly, and two months let a claim outlive its own; the ledger
alone was also explored with three requests. Four generations let a request be admitted,
bound, forgotten and settled. In `runner`, the first call rejects one image or approves both, the
second produces correction and clip and stages them, and a takeover leaves the first call's
tasks behind; publication needs no token. One fault is a crash, a failing or overcharging
provider, a denied claim, a lost answer of the publisher, or a replaced file, at any point.
The third token is for a call that is let in once production is over (the constraint `LateCalls`): it
finds the second one rendering without a lock, its media half done, or reuses what it left. No successor
can be added during a rendering, which starts when every job is approved, and verdicts are final; that it
starts not before the clips are there is what the mutant of `GatesShowApprovedWork` takes away. An image and its clip with four
tokens and two faults (1.3 million states) were explored once and showed nothing else.
In `director`, one scene goes through baseline, correction and clip while the imported one is
never submitted; two callers and two threads suffice for every race on the store and on the render lock,
and two holds for two different contracts. Its constraint `mc_NoStaleScript` drops the states
in which a call of the script and audio stages is still open after a pipeline or a render has begun; the stale
saves of such a call are described below, and the proofs about the director cover them too. In `gates` the single new thumbnail and the single
rejection make two versions, which is what the hashes tell apart; two deliverers and two
publishers are the hosted worker and the commands. `revision` needs two rejections so that media
of the first revision can come back in the third. In `preproduction` the source with two recordings can be
advanced again while an importer reads it, or the two TEST revisions of the request are advanced once each, so that two
runners go by one episode; two interrupted writes can leave a start behind in each of them.

Symmetry is used only for interchangeable runs, turns of one
host, calls, writers, processes and requests, and only in runs without liveness.

Deadlock checking is off: the bounds stop every instance (no more tokens, generations,
months, advances), and a system in which every task rests is done.

Fairness. `worker_live`: turns and approval commands that can step do step, and handlers end (weak
fairness of each: the scheduler of the OS and of asyncio), and a lease that no living
process holds eventually expires (time passes). Nothing is assumed of crashes, signals, enqueueing,
approving, nor of the operator: nobody has to stop a host whose `serve()` has ended or start it again. A handler that
raises takes its host's `serve()` down, so a task whose runner raises in every call stays PENDING once
it has ended every `serve()`; `EpisodesSettle` therefore promises rest or that no host serves.
`billing`: a process that is alive keeps executing its call; a lock it waits for is
taken eventually because the number of calls is bounded. `hero`: the event loop resumes a
coroutine whose await has ended, every await of a driver is bounded by `wait_for` or by the poll's
delay, and the persisted deadline passes; nothing is assumed of the service.

## 4. Proofs

For every value of the constants (any number of runs, episodes, requests):

* `LeaseSafety`: `LeaseInv` is an invariant of `EpisodeLease`. It is inductive: that a
  token names one run (`TokenNamesOneRun`) needs that every lease object was granted
  from the tombstone (`HeldWasGranted`, so the next token is new to everyone), that the
  row carries the newest token (`RowIsNewest`), and that only the row's owner keeps an
  object with its token (`RowTokenIsOwners`, for the takeover of an expired row).
* `LeaseFencing`, `LeaseOwnership`: the two action properties, from `LeaseInv`.
* `LeaseRefinement`: `EpisodeLease` implements `FencedLease`, which is what entitles
  `EpisodeWorker` to use it.

* `LiabilitiesAreFinal` (and `LedgerTypes`): no method of the ledger reinterprets a claim, and
  an overrun freezes admission for good. The argument is that every method makes a *legal
  update* of one row (`UpdateIsLegal`) and that a legal update keeps every liability; it needs
  that an actual is on record only in a settled row (`ActualIsSettled`), or `mark_unknown`
  could not be shown to leave settled rows alone.
* `CeilingsHold`: the ceilings of `LedgerWithinLimits`. A sum over a set is a fold, and what a fold
  computes would need an induction over data. Instead a total is *counted*: every row is as many
  units as its exposure, and the total is the number of units (`TotalIn`), so that the library's
  theorems on cardinality give how a total changes with one row (`TotalAdds`) and that a smaller
  set of rows totals less. That the code's sum is this count is one step: both satisfy the
  equation that defines a fold. `LimitsInv` adds that finitely many rows exist at any time,
  and none of a month to come. A row of an older month than the reservation's is in the sum
  only while it is open, whence the two ceilings that survive a month read early: what each month booked,
  and all open liabilities together. `MetricsImplementLedger`: the ledger with its metrics implements the ledger
  alone, so that the ceilings hold there as well (`MetricsCeilings`), which is what run `ledger` checks.
* `PostsAreSingle`, `PostsAreFunded`, `SnapshotsAreCoherent` (and `BillingTypes`): the three
  safety properties of the billing stores, for any number of processes, requests, crashes and
  lost answers. Their common inductive invariant `BillingInv` says which locks a call holds at
  each of its places (`HoldsItsLocks`), what it therefore knows of its row until its next
  write (`KnowsItsRow`; `OnePreparer` for the fresh row, which the coordinator lock and the
  request lock protect from different sides), and what both rows and the provider agree on
  (`RowsAgree`). The ledger steps reuse the legal updates of `StandingBudgetProofs`.
  TLC has checked `BillingInv` on the instance of run `billing`.
* `SnapshotsTellTheTruth`, `OwnersOwn`, `ClaimsInOrder`, `SettledForGood`, `GatesNeedApproval`:
  all safety properties of the worker queue, for any number of hosts, turns and episodes. The
  difficulty is that row and lease are in two databases, and that a claim may commit under a
  token which was replaced after its check. `WorkerInv` explains why this is harmless: tokens
  are fresh and no row is ahead of them (`TokensFresh`); a claim that passed its check is newer
  than every turn at work on its row, and stays so until it commits, because a newer turn can
  only start to work through the writer lock (`WriterLocked`, `NewestClaim`); so a turn that
  works under the current token, live or expired, owns the row (`WorkersOwn`, which unlike
  `ActiveOwnerOwnsRow` does not break when a late renewal revives a lease). The holder of the
  lock, a turn or the approval command, is behind the marker, which keeps the snapshot true
  (`TurnWrites`, `ApproverWrites`), and an approval about to wake a task has been recorded
  (`RecordedIsApproved`).
* `ReportsAreCommitted`, `TelemetryFollows`, `EvidenceStays`: the metrics, for any number of
  requests and writers. A writer carries a payload across a lock it waits for while the claim it was
  read from may be settled. `MetricsInv` says that the payload stays true of the claim
  (`Follows`: a cap is never changed, an actual never taken back, by the legal updates of
  `StandingBudgetProofs`), that two payloads of a claim differ only after a settlement, and that a
  writer at its transaction holds the lock behind the mark (`LockedBehindMark`).
* `ShownOnce`, `UploadsWhatWasShown`, `RowsSettle`: the gates, for any number of deliverers,
  publishers, versions and faults. `GatesInv` adds that one deliverer of a kind is past its
  attempt (`OneSender`), what a deliverer knows at each of its places (`DeliverersKnow`), that
  attempt, post and receipt come in this order and the message showed a version between the
  receipt's and the one on disk (`EvidenceInOrder`), that an approval binds the delivered
  version and a consumed command (`GatesInOrder`), that one publisher is at work, on approved
  bytes that stay (`ChannelInOrder`), and how many remakes of the thumbnail are left
  (`VersionsLeft`).
* `PostsOnce`, `TerminalHasEvidence`, `DeliveriesStay`: the hero provider, for any number of
  drivers and cancellers. Calls keep copies of the checkpoint and save them late, so `HeroInv`
  describes the copies. Before the POST is answered, the file is as the claim left it and only
  the submitting driver is at work (`Unnamed`, `Posting`), because the executor's lock admits
  one driver (`OneDriver`); every copy that names a terminal state has its evidence
  (`CopiesAreEvidenced`); the claim of a cancellation is never taken back (`ClaimsAreKept`), so a
  completed job is delivered only by a driver that races no cancellation
  (`CompletionIsUnclaimed`); and after the delivery every call is idle (`DeliveredIsQuiet`).
* `RunnerPostsOnce`, `RunnerVerdictsHaveReceipts`, `RunnerShowsApprovedWork`,
  `RunnerPublishesApproved`, `RunnerDecisionsAreFinal`: the two-gate runner, for any jobs,
  dependencies, calls, tokens and faults. `RunnerInv` has four parts. A job's row in the executor
  says where the one task that may write it stands, whichever call that task belongs to, also when
  the call has gone (`JobInv`). A call that records verdicts has `runner.lock`, and judges jobs
  without a verdict only (`CallInv`). Tokens are fresh (`TokensFresh`). Rendering is the hard part,
  because it holds no lock and a superseded call may still be writing files. There is one renderer,
  since rendering starts only where no file exists. It starts only when every clip is in the
  manifest, so a successor added later is an image, which the older manifest lacks: the manifest of
  a renderer is the present one or lacks one of the present images (`Tells`). So evidence that names
  the present images was made from the present jobs (`StageInv`, `EvidenceInv`). `DocInv` binds
  gates and publication to the staged media.
* `DirectorRendersOnce`, `DirectorRendersApproved`, `DirectorIsAuthorised`, `DirectorPostsOnce`: the director with its
  compiled production, for any scenes, codes, callers, threads and faults. Four arguments that
  hardly touch: a passing verdict is final (`Stable`, over every action), so what was approved when
  a contract was closed is approved when it is rendered (`HeroesFollow`: a clip follows an image
  that was never corrected); the render lock makes intent, video, completion and receipt write-once,
  in an order each thread knows (`ThreadKnows`, `EvidenceBinds`); the plan is written once, by
  the call that started the episode, before anyone asks for its approval (`PlanIsAhead`); and a row of
  the executor is never removed, while a task goes on to its POST only from a job without one. The proof
  does without the constraint of run `director`: calls with an old store are in it.
* `RevisionPaysOnce`, `RevisionUploadsApproved`: the revision harness, for any scenes, budget and
  number of rejections, with and without heroes. "At most once" is not inductive, since commands
  stop anywhere and are repeated; `ActsAreAhead` says that as long as an act can still come, the
  files say it has not been made: a stage is STARTED before its operation, a job's progress is saved
  before its request, the upload has its intent. The hero request has no such record; it is single
  because its intent breaks the hash of the completed image stage, after which no command loads the
  workspace, which is the finding below seen from the other side. `ApprovedIsFresh` keeps rejected
  media out of artifacts and approvals, `UploadsInOrder` keeps revisions apart.
* `PreproductionPacketsBind`, `PreproductionHandsOverPackets`, `PreproductionPublishedIsFinal`: the
  handoff, for any number of commands, sources and advances. Commands share files under different
  locks: `Exclusive` says which two cannot be at their places together, `Knows` what a command knows
  of the files at each place. What it knows is not disturbed because packets and the inputs of a
  runner are final, and a runner resumed was the only one when it was found and stays persisted, while
  no second one can be found beside it; where files may change (`advance` rewrites a revision that an import reads) the
  second comparison binds them (`BindsStage`).

Each inductive invariant was checked by TLC on the instance of its run.

Assumptions are those named in the modules. Bounds, costs and amounts are naturals, there is
a request and an episode (`LedgerConstants`, `WorkerConstants`, `MetricsConstants`, `RunnerConstants`,
`LeaseBounds`, `RevisionConstants`). The functions and subsets that describe an instance are over its own sets: jobs with their
dependencies and predecessors (`RunnerConstants`), hero and imported scenes (`CompiledConstants`),
closing holds of three to five seconds and the thread of the single flight (`DirectorConstants`), sources with
their mode and timelines with their suffix (`EvidenceAssumption`). And the model values for
"nobody", "no file" and "nothing" are no process, file, checkpoint, packet, version or text
(`RunAssumption`, `HeroConstants`, `NothingIsNoValue`, `NothingIsNoFile`, `NothingIsNoPacket`, `NoControlFile`).

Every safety property that a passing run checks is also proved. Only model-checked is liveness: `EpisodesSettle`,
`CallsEnd` and `DriverReturns`, since the prover handles neither fairness nor `ENABLED`.

## 5. Findings

*A stop in the hero stage wedges the revision* (run `revision_heroes`). The image stage lists the
hero manifest among its outputs and records its hash; the hero stage appends its intent to
that file (`revision.py:1359`), and `load()` refuses a workspace whose completed stages
have changed. A stop before the stage ends leaves a workspace that no command can load (a TEST one:
LIVE verdicts raise before the stage is reached); `docs/EP8_FULLY_CONNECTED_SDD.md:66` promises that a warm
resume reuses completed work.

Observations made with the models or while reading, without a run of their own.

Disagreements with the documentation:

* *A reservation can miss the turn of the month.* `reserve` reads the month
  (`standing_budget.py:243`) before its transaction, which may wait for a writer up to 30 seconds. When the
  month turns in between, the claim is checked against the old month, although claims of the new
  one have been settled, and then weighs on the new month as an open liability:
  `current_month_effective_usd` exceeds the limit. `docs/STANDING_BUDGET_SDD.md:6` says that admission checks
  the calendar month within one transaction, and line 8 that the effective sum is the one admission uses. What
  does hold is `LedgerWithinLimits`.
* *The budget branch asks for nothing.* `continue_after_approval("budget")`
  (`director.py:1799`) takes an episode over its budget to CLOUD_VIDEO_GENERATION without reading plan,
  receipt or answer, while `docs/PRODUCTION_MEMORY.md:46` demands the explicit choice. Only tests
  call the branch and nothing works in that state, so no work follows (`ProductionAuthorised`).
* *A runner without a document can be queued.* `enqueue --request-id` discards the document that it loads
  (`autonomous_cli.py:886`), so a start that died before `runner.json` is queued, against its own
  message "enqueue requires an existing durable TEST runner" (892). The handler then raises in every
  call before it resumes anything (`WorkerRunsOnePacket`), and each host that claims the episode stops serving.
* *A fixture approval can be lost.* `approve` records the gate and looks at the queue
  afterwards (`autonomous_cli.py:1047`); a task parked after that look is never woken, and repeating the
  command raises. `docs/WORKER_SDD.md:27` promises the wake-up. Compiled episodes are safe.
* *A CURRENT billing snapshot can be old.* `Executor.run` changes the projected row outside
  the coordinator lock (`execution.py:1194`), against
  `docs/BILLING_STATUS_SNAPSHOT_SDD.md:52`.
* *The runner leaves tasks behind.* A rejection makes `_resume_parallel` return at once
  (`autonomous.py:1491`) while tasks go on without `runner.lock`, which the comment at `autonomous.py:1244`
  and `docs/ASYNC_PRODUCTION_SDD.md:16` say is held until they have unwound. Run `runner` shows that payments stay
  single; the verdict on paid work waits for a later call.
* *A rejected artifact can be approved later.* `pipeline/revision.py:3` says it is never
  eligible again, but nothing calls `register()` or `require_active()`.
* *A compiled packet can mix two advances.* `compile` verifies hashes before it takes its
  lock and reads the recording and storyboard again afterwards (`preproduction.py:1148`), while `advance`
  rewrites them under another lock; its docstring says that the receipt binds every consumed byte. The
  Director import compares again and is safe (`PacketsBindOneAdvance`).
* *Advance without a timeline can reopen TTS_REQUIRED*, after a second recording with another
  suffix or a crash before the audio is written, against `docs/AUTONOMOUS_TWO_GATE_SDD.md:6`.
* *Cancel can send twice.* The docstring at `runpod_serverless.py:404` says once; a second canceller
  and the driver's timeout send again.

Worker and billing: `finalize_unknown` (`worker.py:248`) can never succeed, since `complete` requires
RUNNING; a cancellation at the await of the `finally` block (`worker.py:361`) and an exception
of `claim` (`worker.py:320`) leave the lease to its expiry; a second cancellation releases the
lease of a turn whose handler still runs (`worker.py:345`); a failed renewal ends the heartbeat but
not the handler (`worker.py:326`), contrary to `docs/WORKER_SDD.md:21`; a host whose
`serve()` raised keeps waiting for a signal (`autonomous_cli.py:797`); a crash between the
INTENT row and PREPARED (`execution.py:951`) leaves a charged request that `run` refuses; the
checkpoint waits for the coordinator lock while it holds its request's lock, an order that
`docs/BILLING_STATUS_SNAPSHOT_SDD.md:62` forbids, although `CallsEnd` shows it harmless.

Runner and metrics: a PREPARED row whose reservation was denied or interrupted is never
reserved again (`autonomous.py:1411`), and a claim that is settled before the verdict makes
`mark_unknown` raise for ever (`autonomous.py:1452`), so both jobs stay unfinished; a
rejection for technical reasons or a broken QA contract cannot be projected
(`autonomous.py:2228`) and therefore never remediated; the dependents of a rejected job stay
blocked after its correction has passed (`autonomous.py:1505`); a scene that needed a
correction can have no hero clip (`autonomous.py:1187`); media without `evidence.json`, as a
crash leaves them, are refused for ever (`autonomous.py:2567`); a fixture `resume` turns a PUBLISHED runner into
REJECTED when an approved result changed (`autonomous.py:1341`). An UNKNOWN observation recorded
first makes the later settled amount a conflict, so that the money never reaches the report.

Director: a scene with a clip whose image was corrected can never be rendered; a call that waits
may save its old store over a later state; in LIVE a technical rejection raises in every wave and
compiled work stops at VISUAL_QA; a crash during the script, audio or storyboard stages is not
resumable, and nothing resumes PAUSED or FAILED; QA reports can be replaced between
final QA's check and its save, and sidecars made again after the evidence review.
`director.py:2356-2515` and the serial `_resume` of the runner (`autonomous.py:1600-1780`) cannot be reached.

Gates: the first reply with another text occupies the only slot of its message; the
service does not start again when a receipt no longer binds its media; a crash in UPLOADING without
a receipt is final; the outbox row is keyed by episode and cannot be queued again for a new
thumbnail.

Revision: a crash between the package's rewrite and the control file wedges `publish`; `run` at
READY_FOR_PUBLICATION or PUBLISHED rewinds the status; LIVE verdicts raise, so that LIVE
never passes its images.

Preproduction: a crash in a repeated advance, a torn source copy, or one between the directory and the
document of `start_preproduction` and `start_compiled`, blocks the revision; a new timeline after compile is
refused as a lineage conflict; interrupted staging blocks its importer until it is audited (by design); a second compiled revision
of a request makes the handler's lookup ambiguous for both (`autonomous_cli.py:644`), and neither runs again.

Hero: a cancelled download turns a paid COMPLETED job into CANCELLED; the stale save of a
failed canceller may revert CANCELLED; a crash inside the exclusive claim leaves torn JSON. Pods:
a crash between the claim of `terminate` and its save leaves a pod that cleanup never ends, and
concurrent cleanups can release a claim in flight.

## 6. Plan

1. done: leases, worker queue, ledger, metrics, billing, runner.
2. done: director, compiled production, gates, revision, preproduction, hero provider.
3. done: proofs of every safety property of the runs, and two refinements (leases, metrics).

What is left: liveness stays with TLC, and two hazards of `PROJECT.json` have no property, for
the reasons given there.

Not modelled, and why:

* GPU pods, durable TTS and the content store: only tests and the benchmark construct them.
* Live authority and policies: hash and signature checks over static documents; their
  outcome is a precondition of admission.
* Editorial and planning: pure document building; its products are versions in the models.
* Rendering, technical QA, provider transports, benchmarks: pixels, ffmpeg and HTTP; their
  outcomes are nondeterministic choices.
* The other front ends of the gates (`finishing_gate`, the hermes bridge, `telegram/approval_gate.py`), the
  executor's content cache and admission verifier, the budget guard's price table, the
  ElevenLabs readback, and the TEST audio cache of preproduction.
