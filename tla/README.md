# Formal models of ditto-screener

`ditto-screener` is the worker of a Bittensor subnet that screens the programs
miners submit. It leases one submission at a time from a platform, downloads
and builds it in an isolated Docker host, serves it, puts it through a private
policy (an LLM source review and a behavioural challenge against a fake model
gateway), uploads the image that passed, and posts a signed verdict before its
lease runs out.

This directory holds TLA+ models of that program, TLC runs that check them on
small instances, and TLAPS proofs of what holds for every value of their
constants. `PROJECT.json` maps each definition to the lines it models; paths
below are relative to `src/`.

## Inventory

| Component | State it keeps | Operations | Talks to |
|---|---|---|---|
| Screener worker (`ditto_screener/worker.py`) | active agent, stage, start of the job, last heartbeat, review-settings status, background report tasks | `run_forever`, `_sweep`, `_screen_one`, `publish_image`, `_submit_shadow_review`, heartbeats | platform client, gate |
| Platform client (`platform.py`) | effective settings, their source and age | claim, artifact, verdict (8 attempts), multipart upload (3 attempts per request, shielded abort), settings | platform over HTTP, settings cache |
| Build gate (`gate.py`) | none between screens but the policy and the reviewer; per screen: stage, deadline, review task, temporary files, container, decision, journal | `screen`, `apply_review_settings`, `pop_shadow_review` | policy engine, reviewers, Docker, fake gateway, worker's `publish_image` |
| Private policy engine (`policy.py`) | per evaluation: selector and challenge results, evidence, finding, audit | `evaluate`, `evaluate_preexecution`, modules, manifest loading | reviewer, challenge runner |
| Review settings (`review_settings.py`) | cache file | load, store, bootstrap | platform client, gate |
| Heartbeat (`heartbeat.py`) | CPU counters | collect, validate | worker |
| L1 source review (`source_review.py`) | per review: messages, steps, token and read budgets | `review` tool loop, static preflight | model provider |
| L2/L3 review (`l2_review.py`) | result cache with per-key locks, audit journal, shadow results, per-run budgets and spend | `review`, trajectories, critic and adjudicator, `LayeredSourceReviewAgent` | model provider, inert analyzer container |
| Fake model gateway (`fake_gateway.py`) | token, call counters, log | HTTP handlers | the submission under test |
| Signals and guards (`source_signals.py`, `category_guards.py`, `evidence_quality.py`, `binary_analysis.py`) | none | pure analyses | reviewers |
| Protocol (`packages/ditto-screening-protocol`) | none | request validators, signing messages | worker, platform |
| Configuration, entry point, health, readiness, signing | none after start | parsing, start-up checks | all |
| Inert L2 analyzer (`tools/l2_analyzer.py`) | none | archive to report | L2 review |
| Update and deployment scripts (`scripts/`) | release symlinks, systemd units | staged update with rollback, bootstrap | host |

How they interact: the worker's sweep is one coroutine. It fetches settings,
applies them to the gate, checks the policy version, claims, and calls
`gate.screen` with a deadline derived from the lease minus 30 s. The gate runs
stages in order and, beside build and serve, one review task; the policy engine
awaits that task when its review module is reached. On a passing decision the
gate exports the image and calls back `publish_image`, which uploads it through
the platform client under the same deadline. Stage changes start concurrent,
best-effort heartbeat tasks. The verdict is signed over the decision, the
uploaded image and the settings revision, and posted with retries.

What is hard here: the review task runs concurrently with stages that may end
the screen and delete its files; three different bounds (stage caps, the lease,
the reviewer's grace) compete; some stages are not clamped to the lease; each
platform request may be handled although its answer was lost; the upload is
cancelled by the lease and its abort must survive that; the Docker host may be
lost in any stage and must be told apart from a faulty submission; policy
results of several modules are combined under rules that must never round an
open question up to a pass; settings can be stale, cached or bootstrap.
`PROJECT.json` lists each of these hazards with its line.

What makes each component correct:

* Policy engine: a lead only a dedicated challenge may release; a clean pass
  heard every module; a hold carries the finding it rests on.
* Build gate: one image, published exactly when the outcome passes; nothing
  built under an open lead; a pass rests on its own finished review; no file
  deleted under the reader, none left behind; a journal that agrees with the
  outcome; bounded overrun; it ends.
* Platform client: a completion lists the whole image; an id that is returned
  is verified; a failed upload is aborted; the retries end; a verdict is
  applied at most once.
* Worker: at most one screen at a time, on a live lease; a claim ends in a
  verdict, a platform rejection or an expired lease; what is signed is what was
  applied; stop finishes the current item; heartbeats are ordered.
* Review settings: bounded age in enforce mode; the gate runs the settings the
  verdict names; the cache file is never torn.
* L1 review: its lease and budgets bound it, an exhausted one says by what; a
  finding that selects a hold cites a place not known to be inert, one such citation is
  enough to keep it.
* L2 review: budgets bound the calls; one computation per cache key; an
  exhausted budget is never read as clear; shadow never changes a verdict.
* Gateway and challenges: a challenge is cleared by calls made for it and tokens
  earned by calls; a harness that relays its model is not held.
* Protocol: every decision becomes a request that the platform's models accept.

## Modules

| Module | Models | Role |
|---|---|---|
| `PolicyModules` | the module kinds of `policy.py` and what each can conclude | operators, shared by the next modules |
| `PolicyEngine` | `PolicyEngine.evaluate`, one action per module evaluation | specification |
| `ScreenVerdict` | from a decision to the request posted: the amendments of `gate.py`, `_screen_one` of `worker.py`, the validators of the protocol's `models.py` | specification, EXTENDS `PolicyEngine` |
| `BuildGate` | `BuildGate.screen`, one action per stage, and the review task beside it | specification, EXTENDS `PolicyModules` |
| `ScreenContract` | what the worker relies on of one screen | abstract specification, which `BuildGate` implements |
| `ModelGateway` | `fake_gateway.py` and `BuildGate._run_private_challenge` beside a submitted harness | specification, EXTENDS `PolicyModules` |
| `ReviewFinding` | `_parse_review` of `source_review.py` | operators |
| `SourceReview` | `OpenRouterSourceReviewAgent.review` with `_run` and `_post_completion` of `source_review.py` | specification, EXTENDS `ReviewFinding` |
| `ImageUpload` | `PlatformClient.upload_screened_image` and its requests in flight | specification |
| `ScreenerWorker` | `ScreenerWorker._sweep`, `_screen_one` and `_submit_shadow_review` of `worker.py`, with `PlatformClient.submit_result` | specification |
| `AttemptLedger` | what the platform may rely on of a screener | abstract specification, which `ScreenerWorker` implements |
| `ReviewSettings` | `PlatformClient.get_review_settings` and `ReviewSettingsCache` | specification |
| `Heartbeat` | the reports of the worker and their timestamps | specification |
| `LayeredReview` | `LayeredSourceReviewAgent.resolve_lead` and `KimiSolSourceReviewAgent.review` of `l2_review.py`: the L2 and L3 stages, the cache and its lock | specification |
| `ReviewTrajectory` | `KimiSolSourceReviewAgent._run_trajectory` and `_post` of `l2_review.py`, and `IsolatedCodingHarness.run`: the turns inside those stages | specification |
| `MC...` | values for the constants of the module they name | model checking |
| `BuildGate_proofs`, `PlatformClient_proofs`, `ScreenerWorker_proofs`, `LayeredReview_proofs`, `ReviewTrajectory_proofs`, `ModelGateway_proofs`, `ScreenVerdict_proofs`, `SourceReview_proofs` | inductive invariants, theorems and two refinements; `PlatformClient_proofs` is about `ImageUpload` and `ReviewSettings`, `ScreenerWorker_proofs` about `ScreenerWorker` and `Heartbeat` | TLAPS |

`ReviewSettings` and `Heartbeat` name their variables and specifications apart
from those of `ImageUpload` and `ScreenerWorker` (`SettingsSpec`, `HeartbeatSpec`
and so on), so that the two models of `platform.py`, and the two of `worker.py`,
can be extended by one module of proofs.

### PolicyModules and PolicyEngine

A manifest is a sequence of module kinds. `PolicyModules` gives, for each kind,
the set of results its `evaluate` can return for a given review, challenge pack
or risk feed; `PolicyEngine` evaluates them in the order the code does:
selectors in manifest order, then challenges, each adding its evidence, finding
and audit to the decision under construction (`Collect`), any terminal result
deciding at once, `Conclude` deciding at the end. Evidence is the sequence of
codes, cut at `MaxEvidence`. `build_only` runs no module but the mechanical
ones. A `pass_inconclusive` without an audit is the `ValueError` of
`ScreeningDecision` (outcome `raised`).

### ScreenVerdict

The engine's variables and five more: the gate amends the decision (`Deferred`
for a preflight review that ran out of budget, `Advised` for a Dockerfile that
copies none of its context), may replace it (`StageFails`, `EndScreen`), and the
worker makes a request of it (`Request`) or refuses (`MustNotYield`). `Accepted`
is what the validators of `ScreenResultRequest` ask of outcome, audit, finding,
evidence, image and lane together. Digests, texts and ids are left out; their
fields are present or absent. `Unexpected` is the `except` block of `screen`,
where a decision that `ScreeningDecision` refuses ends.

### BuildGate and ScreenContract

`pc` is the stage of `screen`, `until` the latest time that stage can end under
its cap and the lease. `Tick` advances `now` but never past `until`, so a stage
takes any time between zero and its bound. `DockerGoesDown` may happen once, at
any time; each stage action has its outcome with the host up and with the host
down. `reviewState` is the concurrent task: it runs, answers any member of
`Reviews` or fails, may be cancelled and then drained. `files` are the
temporary files of the screen; the `finally` block is the three actions
`CancelReview`, `BeginTeardown` and `Teardown`. What an archive, a Dockerfile
or a container does is reduced to what the check concludes from it; validation,
which waits for nothing, takes no time. `journal` is what `ReviewJournal.record`
wrote, nothing if `Journals` says that no path is configured; `ResolveLead` and
`Settle` may fail after it wrote. `published` says that `publish_image` returned,
not what the platform made of it: a completion on its way when the timeout
strikes may still be handled, which `ImageUpload` and `ScreenerWorker` have.

`ScreenContract` has three variables: the lane, whether the image was published,
and what the caller saw. `BuildGate` maps to it by `buildOnly`, `published` and
`Seen`; `KeepsContract` is the refinement. `ScreenerWorker` assumes of a screen
what the contract says and nothing more, so the two compose.

A `deferred_source_review` item is a `build_only` item here: the flag changes
nothing else in the gate, and without `build_only`, which the protocol does not
issue, `evaluate` raises.

### ImageUpload

`pc` is the request `upload_screened_image` is at. A request is put in
`inflight`, and the platform handles it now, later or never, with its effect
(`Perform`) or without (`Refuse`); `answer` holds what the caller has heard. A
retry puts a second copy in flight, so duplicates and reordering are the normal
case. `Cancel` is the timeout of the lease, which in `asyncio` strikes once;
`Fail` is the `except BaseException` block, whose shielded abort is the second
caller `"abort"` and keeps running after its caller is gone. The platform side
(`Effect`, `Respond`) is external: it is modelled from the requests and answers
of the client only.

### ScreenerWorker and AttemptLedger

`pc` follows the sweep (`settings`, `policy`, `claim`, `next`) and one item
(`item`, `screen`, `decided`, `posting`, `finally`). A screen is a few steps that
keep `ScreenContract`, which `BuildGate` is proved to implement: it publishes an
image exactly when it passes. `PublishImage` may also upload without the worker learning of it, as
when the answer is lost or the lease cancels the call. A verdict is a record of
attempt, outcome, image and settings; `SubmitResult` and `RetryVerdict` put it in
`inflight`, where it stays although the process dies, and the platform handles
it at any time or never. `Die` is the end of the process, by a crash or by an
exception that is not a `PlatformError`; `Restart` is the service manager.
`applied` are the settings of the gate, `status` those the worker signs: two
copies, as in the code.

`AttemptLedger` knows only which attempts have a verified image and what was
said: an attempt is answered once, and a passing answer names an image uploaded
for that attempt before. `ScreenerWorker` maps to it by its own `uploaded` and
`posted`; `KeepsLedger` is the refinement.

### ReviewSettings

The ages stand for the clocks: `memAge` for `time.monotonic()`, `fileAge` for
`time.time()`, which `SetClockBack` sets back; `memIssued` and `fileIssued` are
the true time since the platform gave out what memory and file hold, which the
code cannot see and the properties speak of. `FetchFails` is every reason to
fall back: no answer, a refusal, one that is not valid, or one that cannot be
stored. `healthy` says that none of these happens, and that the process lives.

### Heartbeat

Stage reports are tasks: `pending` until the event loop runs them, then one of
`calls` while they wait for the platform. They start in order, because nothing
is awaited before the timestamp is taken, and before the screen goes on, which
`SetProgress` and `Beat` express. A due `Beat` may still run while the item
ends; `BeatStops` and `CloseItem` are the `finally` block of `_screen_one`.

### LayeredReview

The model is of one lead, reviewed again and again by `Workers` that share a
cache directory; the lock and the cached files of other leads have other names.
`pc` is the stage of a review, `result` its `L2RunResult` so far, reduced to the
verdict, whether it was read from the cache, and the opinions of analyst,
critic and last adjudicator. A whole trajectory of a model is one step: it fails
in any of the ways the caller tells apart, or submits one of `Opinions`, where
`firm` stands for the certificate that its role is asked for
(`_qualifies_for_direct_clear`, `_qualifies_safety_clearance`), or for a
violation whose cause is not ambiguous. What the analyzers find of the artifact
is fixed with the lead. `cache` holds what can be read: the analyst's and the
critic's opinions and the full result; `Expire` may take each away at any time,
as the time to live does, which is more often than it does. `LockFails` is a cache
directory or lock file that cannot be made. `late` says that the
deadline of a review has passed; the code looks at it while it waits for the
lock and once at the end. `Abandon` is a cancelled review and also the end of
its process, upon which the system releases the lock. A stage that was cached
before a failure stays, which is what the retries live on.

### ReviewTrajectory

What `LayeredReview` takes as one step: `pc` is the point of the loop over
`max_steps`, from the request of a turn (`post`, `request`, `backoff`) to its
answer (`reply`) and the analyzers it asks for (`tools`, `analyzing`). `path` is
the chain of trajectories of one review, each with its number of turns; a stage
read from the cache is a path that starts after it, with no usage, as in the
code. `before` and `used` are `usage_before` and the trajectory's own usage;
`total` and `cost` are histories of what the answers stated. The three budgets
on tokens and cost are two: `tokens`, priced at one each for the estimate, and
the cost the provider reports or omits. `Failure` is `L2TrajectoryError`, which
carries its usage; `Raise` is every other exception, which does not: what such a
trajectory spent is missing from the audit. An answer that is lost may have been
charged, which the code cannot see and the model does not count.

`httpx` applies the timeout of a call to each of its network operations: to
connecting, to TLS, to each write and to each chunk that is read. Nothing in the
code limits their number, so nothing bounds a call by its timeout. `SendRequest`
gives a call any number of operations, `operations` remembers it, and
`OverrunIsOneRequest` says what the code does ensure: the first operation was cut
to the deadline, only those after it can be late, and nothing is begun behind
them. `MaxOperations` bounds the number for TLC; the theorem is for every
value of it, and its bound does not depend on it. That the gate cancels a review is in
`BuildGate` and `LayeredReview`.

### ReviewFinding and SourceReview

`SourceReview` is the loop of L1: `turn` is its head, `post` a request with its
retries, `calls` the tool calls of an answer in order. `delivered` counts the
bytes of output, `shown` those that reached the model, and differ by the read
that passed the budget. `deadline` and `now` keep time only under a lease.
`operations` counts the network operations of all requests of a turn, of which
there are as many as in `ReviewTrajectory`; `RequestEnds` is their timeouts together.
`Escapes` is an exception `review` does not catch.

A review a model submits is a risk, categories and citations; a citation is a
place, the way its path is written, and a category. `Consistent` are the
invariants that refuse a review, `Cited` and `Admitted` the two filters before
and after them, `Filtered` what is kept. What exists and what can execute are
constants: the answers of `has_member`, `line_count` and `citation_admissibility`.

### ModelGateway

`request` are the requests of the harness, each with its age; the gateway makes
a mark (`Record`), holds the reply for `Low` to `High` ticks (`Due`), and answers
with the nonce or, when the nonce came back, with the oracle answer. The gate
puts one challenge after another and judges each by what it can see: the answer,
its tokens, the marks counted before and after, the time. The harness is the
environment: it calls whenever it likes and surfaces any token it was ever sent.
When `relay` is set it is an honest one, which asks the model in one or more
turns and returns the last answer. `fault` marks a run in which something broke
that is not the harness's doing: a lost reply, a request that does not parse, a
challenge that times out. A request may outlive its challenge.

## Runs

| Run | Instance | Shows |
|---|---|---|
| `policy_engine` | every manifest of at most two of the five kinds, the shipped manifests, three that list challenges first; ten review answers; packs of at most two runs; evidence cut at 4; every lead, lane and advisory | the decision rules, and that the request made of a decision is accepted and a hold shows its reason |
| `build_gate` | no lease, a lease of 4 and of 8 ticks against caps of 1 and 2, a review of up to 5; six review answers; a journal; with and without source review; full and mechanical lane | outcome, image, journal, files and time agree; the contract is kept; every screen ends |
| `image_upload` | two upload ids, two attempts per request, an image of 3 bytes in parts of 2, the file found at 2, 3 or 4 bytes and changing once | parts, completion, return, abort; the upload ends |
| `screener_worker` | two attempts, claims of up to two items in three lanes, three outcomes, two tries of a verdict, one crash | the worker implements the ledger |
| `screener_worker_settings` | one attempt in every lane with every outcome, settings of revision 0 and two versions of revision 1 | verdicts and telemetry name what their screen ran under; a stop ends the worker |
| `review_settings` | three revisions that enforce, do not, and enforce again, with ages of 1 and 2; a stale bound of 2, a request of up to 1 tick, the clock set back by 1 | age, mode and order of what is served; the platform is followed |
| `heartbeat` | two agents, three stages, six reports and the last one, a clock from 0 to 2 in both directions | what the latest report and its agent and stage say |
| `layered_review` | two workers, two reviews, two bases of a violation, three modes; nine leads that differ in one thing each from one that may be cleared directly | what a clearance rests on; what a retry and a second worker may change |
| `review_trajectory` | reviews of three trajectories, and of two after a cached analyst, of one or two turns each; answers of up to two tokens, stated or not; three calls an answer, two delays; deadlines of 0, 2 and 5 against timeouts of 3 and 1; calls of up to three operations | what the trajectories spend, report and overrun together; every review ends |
| `review_trajectory_cost` | the same, deadline 5 | unstated costs are free once one cost is stated |
| `source_review` | no lease and one of 2 ticks, two turns of at most three calls, requests of up to three operations, reads of 1 and 3 bytes against a budget of 3, two delays; submissions of one to three citations of a code line, a comment and a missing place in a plain, an advisory and a two-location category | when a review ends, what an exhausted one reports, what its finding rests on |
| `model_gateway` | an oracle and a bound challenge; four calls, a state file that holds three marks, latency of 2 to 3 ticks against a minimum of 3 and a timeout of 6, relays of up to two turns over both APIs, the `model` surface | who is cleared, and who is held |

Why these bounds are enough. A policy decision depends on which kinds came
before and after a module and on whether evidence overflowed; two modules of
every kind in every order, plus the longer lists, give every pair of a selector
and a challenge, a challenge listed before a selector, and an overflow at four
items. In the gate a lease of 4 runs out in every heavy stage, one of 8 lets a
screen end, and one without a deadline keeps all caps; caps of 1 and 2 let a
stage end early, on time, or after the lease where it is not clamped. The
upload needs two parts to have an order, two attempts to have a duplicate, two
ids to have an orphan, and file sizes on both sides of the declared one. The
worker needs two attempts for the state of one item to reach the next, in one
claim and in two, and two tries for a verdict to be repeated; the code claims
one item at a time (`limit=1`) but iterates over what it is given. Settings need
an enforcing revision before and after one that does not enforce. A property
of the layered review relates one cached stage to one answer, so two reviews, at
once or one after the other, are the case. A review of three trajectories has one
whose predecessor had one, two turns allow a nudge and its repetition, three calls
an answer reach the limit of four, and a token budget of twice the cost cap lets
unstated costs pass it. In L1 a lease of 2 ends within the first turn or between
two, three reads of an answer pass a budget of 3 with and without calls behind
them, and three citations let a category lose one of two locations. Four calls
let a harness call before, during and after a challenge and once more than the
state file holds; two challenges let the calls of one be counted for the next. Two agents
and a job of several stages give a report that is left over from another item.
`MaxCrashes`, `MaxReviews`, `MaxSetback`, `MaxWall`, `MaxReports`, `MaxOperations` and `AgeBound` cap what would
grow without end; three operations are one that was cut to the deadline and two that were not; ages beyond `AgeBound`, which is above every age a guard or a
property compares with, are not told apart.

Deadlock checking is off where the system may stop: a screen, an upload and an
evaluation end, a stopped worker is stopped, a review ends, the challenges are answered, the reviews of a lead are used up, and `Heartbeat` runs out of reports.

Fairness. `PolicyEngine`, `ScreenVerdict`, `LayeredReview`, `SourceReview`, `ModelGateway` and `Heartbeat` state safety only. In
`ReviewTrajectory` the coroutine is weakly fair as a whole, because every await
is a delay, an analyzer under a timeout, or a call of finitely many network
operations with a timeout each. The last is an assumption about the gateway: a
body that trickles in for ever would keep a review until the gate cancels it. The client of
`ImageUpload` is a coroutine whose every await returns: each network operation of a request
has an `httpx.Timeout` (`platform.py:59`), and an answer of the platform is
short, so a request is taken to be finitely many of them. In `BuildGate` the screen,
the review task and the clock are weakly fair; the review is, because a
cancelled task gets to run, and `ReviewCap` and `ReviewGrace` stand for the
requests it still waits for, under the same assumption about the gateway. Nothing is assumed of
the platform, of the Docker host or of the file on disk. In `ScreenerWorker` the
worker is weakly fair, because each of its awaits has a timeout and a screen ends
(`ScreenEnds`), and so is `Restart` (`Restart=always` in
`deploy/ditto-screener.service`); the platform is not. In `ReviewSettings` the
sweeps and the clock go on and a request is answered; whether it is answered
well is the premise `<>[]healthy` of `FollowsPlatform`.

## What the runs found

One statement of the repository is refuted by a run, which TLC ends with a
counterexample; `PROJECT.json` quotes the line. Once one answer of a review
states its cost, the answers that omit theirs count as free: the sum of reported
costs takes the place of the estimate (`l2_review.py:3826-3831`, `2833-2837`),
and the cost cap is passed.

Others were met while modelling and have no run of their own.

* A Docker host lost while the harness is probed rejects the submission
  (`gate.py:1886-1899`), where the module documentation (`gate.py:34-36`) says
  that Docker being down is reported as infrastructure. `BuildGate` has the step
  (`WaitHealthy` after `DockerGoesDown`).
* An answer of the platform that does not parse is a `ValueError`, which leaves
  `_screen_one` and the sweep loop and ends the process (`worker.py:553`,
  `platform.py:181, 231, 305`), where the docstring says "Never raises"
  (`worker.py:282`). It is a `Die` of `ScreenerWorker`.
* A behavioural challenge pack runs whether or not a selector tripped
  (`policy.py:976-1000`), where `docs/policy-modules.md:53` says "only after a
  selector trips".
* The reason code of a source-review hold is that of the last evidence item
  (`worker.py:412-418`), which is the oracle's "passed" code when the oracle ran
  after the review, where `docs/policy-modules.md:101` says that such holds use
  risk-domain codes. The evidence sent with it does show the reason of a
  selector always, and that of a challenge unless more was collected than the
  sixteen items that are kept: nine cleared oracles and a full pack of eight, or
  three packs, already are more (`HoldShowsItsReason`).
* A preflight deferral put in front of sixteen items of evidence is a
  `ValueError` (`gate.py:932-945`), so the screen ends as retryable; a manifest
  has to collect a great deal for it.
* The timeout of an L1 turn is cut to the lease once and not again for its
  retries, where the comment beside it says that the deadline bounds the whole
  review (`source_review.py:1988-1991`); `OverrunIsOneTurn` says what that costs.
* The clearance certificate of L1 counts calls, not what they returned: reads of
  missing files and calls in the same answer as `submit_review` count
  (`source_review.py:2009-2023`).
* Two citations of one line, one written with `./`, are two locations
  (`source_review.py:2266`) and meet the bar of a two-location category.
* A list where L1's model should name a risk or a category is a `TypeError`,
  which `review` does not catch (`source_review.py:1902`, `2198-2203`).
* The gateway in front of a submission serves chat completions only; a harness
  on the Responses API is answered 404 (`fake_gateway.py:228-235`,
  `test_fake_gateway.py:202`), where the docstring of the oracle counts
  Responses-API harnesses among those that pass (`policy.py:781-784`). It ends
  as a failed challenge, not as a hold (`RelayIsNeverHeld`, `ChatRelayPasses`).
* The least time of an oracle answer is 250 ms and the least latency of the
  gateway 200 ms: that a relay in one turn is not too fast rests on what the
  `docker exec` of the challenge adds (`GatewayAssumption`).
* A lead under a static integrity hold is released by the agreement of analyst,
  critic and adjudicator (`l2_review.py:1603-1627`), where
  `docs/l2-source-review.md:24-26` says that model agreement alone cannot; the
  comment beside the code says that such holds are attention only.
* The serve and challenge stages keep their own caps (`gate.py:844`, `1870`,
  `2060`), where the docstring of `screen` (`gate.py:608-610`) says that each
  heavy stage is clamped to the lease; `EndsWithinOverrun` says what that costs.
  A gateway call of a review is not bounded by the deadline either
  (`docs/l2-source-review.md:158`): only its first network operation is
  (`OverrunIsOneRequest`).
* The budgets of a review are looked at after each answer, so the "hard spend
  bound" of `docs/l2-source-review.md:68-69` is passed by up to one answer
  (`SpendIsBounded`).
* `screen()` raises when its state directory cannot be made (`gate.py:652`,
  outside the try block; the model has the step).
* An `inconclusive` result is submitted (`worker.py:377`) where
  `docs/policy-modules.md:16` says that no verdict is, as the comment beside the
  code explains.

## Proofs

`BuildGate_proofs` proves, for all caps, deadlines, manifests and review answers
that satisfy `GateAssumption`: `TypeOK`, `PublishedIffPassing`,
`NoBuildUnderOpenLead`, `PassRestsOnItsReview`, `ReviewReadsALiveTarball`,
`NoFilesLeftBehind`, `JournalAgrees`, `EndsWithinOverrun`, and `KeepsContract`,
that the screen implements `ScreenContract`. None of the safety invariants is inductive: each
speaks of the end of a screen, or of one stage. `IInv` says what every stage has
established so far, in six parts: which files exist (`FilesInv`), that a live
review has its tarball and a screen that will drain it (`ReviewInv`), how far
the image has come (`PublishInv`), what the mechanical lane can have come to (`LaneInv`), that build stages follow a
clearance (`LeadInv`), and that a decision in the making follows the finished
review (`PolicyInv`). `JournalAgrees` rests on it and on what the journal holds at
each stage, with a path and without (`JournalInv`).
The refinement needs `PublishInv`: a step that ends the screen maps to `Return`
only because the image is published by then exactly if the outcome passes. The
bounds on time rest on `LeaseInv`: when each stage must have ended if it began
within the lease (`StageDue`), how far the clock has come in it (`NowDue`; a
stage that only waits for the review is bounded by that review), and when the
review beside it must have stopped (`ReviewDue`). Each part has one lemma with a
step for every action.

`PlatformClient_proofs` proves of `ImageUpload`, for any number of attempts, any
sizes and any number of upload ids: `TypeOK`, `CompletionTilesTheImage`, `ReturnedIsVerified` and
`LeftOpenOnlyIfAbortFailed`. The invariant adds who may have a request in flight
(`CallInv`, `OwnerInv`: every request but an initiate carries the id of this
upload), that a named upload is never absent at the platform (`NameInv`), what an
answer tells (`AnswerInv`), and that the parts stored so far tile the bytes up to
`offset` (`TilesInv`, with the lemma `AppendTiles`). `AlwaysSpends` is the half of
`UploadEnds` that needs no fairness: every step of the upload, of its abort and of
the platform uses up a leg of the upload, bytes of the image, a request of a part,
an attempt or a request on its way, in lexicographic order, so no sequence of
steps goes on for ever. That a step is due while the upload is not over stays
with TLC.

Of `ReviewSettings` it proves, for any revisions and their ages, any
configuration and any bounds: `SettingsTypeOK`, `ServedInTime`,
`EnforceOutlivesOutage` and `NeverAnEarlierRevision`. What a sweep was served says
nothing of what memory and file hold; the invariant does: how far the age by each
clock can be behind the age by issue (`AgeInv`; the file's by one request and all
that the clock was set back, the memory's by more when it came out of the file),
and that memory, file and the answer on its way are all at or above the highest
revision served, and what is held at it (`RevisionInv`).

`ScreenerWorker_proofs` proves, for any attempts, lanes, settings, claim sizes,
tries and crashes: `TypeOK` and `KeepsLedger`, that the worker implements
`AttemptLedger`. A step maps to an upload or an answer of the ledger only if the
attempt was not answered before, which no single state of the item shows. `IInv`
therefore says that the item at hand and every item to come is leased and not
answered, that no attempt is queued twice (`ItemInv`, `QueueInv`), that what was
answered stays leased, so a claim cannot hand it out again (`AnsweredInv`), and
that the image the worker knows of is the one uploaded for its item
(`ImageInv`). The step of a retry repeats a verdict already said and is a stutter
of the ledger. The argument rests on the platform: a claim never hands out an
attempt id a second time. `SaysWhatItRanUnder` is proved on top of it: the two
copies of the settings agree, an attempt that was given its artifact is never
screened again under others (`Gathered`), and the settings of the item stay what
it was screened under until its verdict and its telemetry are sent
(`SettingsInv`).

Of `Heartbeat` it proves, for any agents, stages and clock: `HeartbeatTypeOK`,
`ReportsAreTrue` and `TimestampsRise`. Between items nothing is pending and no
beat is left (`JobInv`); every timestamp is at most the last one taken, which
between items is that of a polling report (`SentInv`), so a report that is late
cannot overtake it.

`LayeredReview_proofs` proves, for any workers, leads, bases and number of
reviews: `TypeOK`, `ClearanceIsCertified`, `ViolationIsNotRetriedAway`,
`NothingIsPaidTwice` and `AnswersRepeatTheCache`; it assumes that `None` is no
opinion. None of these can be seen from the answer alone: the invariant says who
is past the lock (`LockInv`), what a cached stage is worth (`CacheOK`: a cached
result was a kept one, and rests on the analyst's opinion that can still be
read), and what a worker at each stage has and cannot find in the cache
(`Fits`). A worker past the lock is alone (lemma `Alone`), so a step only has to
show that its own worker fits the cache it leaves behind (`StageStep`,
`LeaveStep`).

`ReviewTrajectory_proofs` proves, for any paths, usages, budgets, delays and
deadlines: `TypeOK`, `SpendIsBounded`, `AuditAddsUp` and `OverrunIsOneRequest`.
The first is inductive only with the attempts left at each point of a turn
(`LoopInv`), the second and third with `total = AddUsage(before, used)`
(`UsageInv`), which is where the associativity of `AddUsage` with costs that may
be missing is needed (`AddAssociates`), the last with the bound of each wait as
it was cut when it began, and for a call with the operations it was given, the
first of which was cut (`ClockInv`). `AlwaysAdvances` is the half of `ReviewEnds`
that needs no fairness: in lexicographic order every step uses up a trajectory, a
turn, a phase of it, an attempt, a call, a wait or the time of one, each bounded
by the invariant, so neither retries nor refused submissions nor failing
analyzers let a review go on for ever.

`ModelGateway_proofs` proves, for any challenges, latencies, timeouts and numbers
of calls: `TypeOK`, `ClearMeansCalled`, `RelayIsNeverHeld` and, if one call is
asked for, `ChatRelayPasses`. The count the gate takes is that of a file; that it
is the number of requests made during the challenge is the invariant `calls -
before = |CountedDuring(k)|` (lemma `CountStep`). What was heard was earned
(`HeardStep`), and a relay waits for the request it made, has heard what it says,
and has waited at least the latency (`RelayStep`).

`ScreenVerdict_proofs` proves of `VerdictSpec`, for any manifests, reviews,
challenge packs and bound on evidence that satisfy `PolicyAssumption`: `TypeOK`,
`LeadNeedsDedicatedClear`, `CleanPassHeardEveryModule`, `HoldCarriesLeadFinding`,
`RequestIsAccepted` and `HoldShowsItsReason`. It begins with what a module can return
(`SelectorResult`, `ChallengeResult`: codes behind every terminal disposition, a
finding of a review only) and what a decision keeps of it (`DecisionType`), so
that the turn of a module is one shape, `TurnOf`, whatever its kind. The decision
rules are not inductive: `SelectionInv` says that `selected` and `cleared`
remember the dispositions they stand for, `HeardInv` that a module behind has
one and an undecided one left `passInconclusive`, `FindingInv` that the finding
collected is that of a review. A request is accepted because every result the
gate may yield is one (`ResultOK`: its evidence fits, a hold has some, an
exhausted review has its audit) and every amendment keeps that (`DeferredOK`,
`AdvisedOK`), whichever the order in which they apply. `HoldShowsItsReason` needs
what stands where: selectors run first and a selector that did not clear leaves
a reason at the front, which stays when the rest is cut; a challenge that holds
leaves its reason last, which stays only if nothing is cut (`ReasonInv`). The gate
and the worker put a reason of their own in front or hand on what there is
(`HandedOnInv`).

`SourceReview_proofs` proves, for any budgets, tool outputs, leases, delays and
submitted reviews: `TypeOK`, `ExhaustionIsExact`, `FindingIsGrounded`,
`LiveClaimIsNeverCleared`, `OverrunIsOneTurn` and `AlwaysAdvances`. `FindingIsGrounded`
and `LiveClaimIsNeverCleared` are facts about the filter
(`FilterGrounds`, `FilterKeepsLiveClaims`) and an invariant that an observation
is the filtered submission (`EndInv`); `ExhaustionIsExact` needs that delivered and shown
bytes agree until the end (`ShownInv`).

`OverrunIsOneTurn` is proved by what the operations of a turn's requests and the
delays between them have taken so far, each operation at most the timeout that
was cut when the turn began (`LeaseInv`). Its bound sums the delays by a recursive
function, `Waits`. That `Waits` is what it says is shown by the least
number for which it would not be (`LeastNumber`, from the well-foundedness of the
numbers), which needs no induction rule with an operator as a parameter.
`AlwaysAdvances` is what `ReviewTrajectory` has too: every step uses up a turn, a
phase of it, an attempt or a call of its answer, so an L1 review ends, lease or
not, if its steps are taken.

Every invariant and every safety property of a step that a passing run checks is
proved. Only model-checked are the liveness properties, because liveness under
fairness and ENABLED are out of the prover's reach: `ScreenEnds`, `UploadEnds`,
`StopEnds`, `FollowsPlatform` and `ReviewEnds`. `AlwaysSpends` and the two
`AlwaysAdvances` prove of two of them, and of L1, that no run goes on for ever;
that none stops early is TLC's part. `CostCapCoversEveryTurn` is refuted by its
run. What a recursive definition computes for every input is proved of `Waits`
alone.

## Not modelled

Text and byte analyses (signals, guards, the analyzer), prompts and parsing,
Docker command lines, cryptography, configuration parsing and host provisioning
are pure computation or I/O: their results enter the models as the values they
can take. The retry of oracle requests inside one challenge is part of one
step. The embedding surface of the gateway keeps no state. The static preflight
of L1 is a bounded scan whose result is the lead of `LayeredReview` and
`ScreenVerdict`. `scripts/update-screener.sh` and its siblings are shell scripts
over systemd and Docker: nothing of the program observes their steps, and their
effects would all be external.

## Plan

In order, the most important behaviour first.

1. Done: `PolicyModules`, `PolicyEngine`, `BuildGate`, `ImageUpload`,
   `ScreenerWorker` with `AttemptLedger`, `ReviewSettings`, `Heartbeat`,
   `LayeredReview`, `ReviewTrajectory`, `ScreenContract`, `ReviewFinding`,
   `SourceReview`, `ScreenVerdict`, `ModelGateway`.
2. Done: proofs of every invariant and action property of the passing runs, and
   of the two refinements.
3. Left to prove: a bound on the time of a screen with an open lease (the sum of
   the caps, where `EndsWithinOverrun` speaks of a lease), and the part of
   `ScreenEnds` and `StopEnds` that needs no fairness, as for reviews and uploads.
4. The bounded scan of the static preflight, as operators of `SourceReview`.
