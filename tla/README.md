# Verification of Video2Api

Video2Api drives OpenAI's Sora through browser windows kept by ixBrowser. A
FastAPI process takes generation requests over HTTP, keeps them as rows of one
SQLite database, and works through them with browser windows that fail, hang and
are shared with people. This directory holds TLA+ models of the parts of it where
order, failure and concurrency matter, the TLC runs that check them on small
instances, and proofs, checked by TLAPS, of what matters most for every size.

Paths below are relative to `src/`.

## 1. The system

### Execution model

One server process is one asyncio event loop. Every database call
(`app/db/sqlite/`) is synchronous, so what a coroutine does between two `await`
points is one atomic step with respect to the other coroutines of the process.
Several processes can share the database (the lease columns and the scheduler
locks exist for that, and a restarted server overlaps the old one's leases); they
interleave between transactions. A process has no memory across a restart, and a
restarted process takes a fresh random owner name.

All models follow that rule: one action is what lies between two awaits, a crash
may fall between any two actions, and a restarted process is another member of
the set of owners.

### Components

| component | state it keeps | operations | interacts with | what is hard | what makes it correct |
|---|---|---|---|---|---|
| **Generation queue** `services/worker_runner.py`, `services/ixbrowser/sora_job_runner.py`, `sora_jobs.py`, `sora_generation_workflow.py`, `db/sqlite/sora_repo.py` | table `sora_jobs` (status, phase, error, task id, generation id, publish url, watermark status, lease, attempt), the `_sora_running` map of tasks, heartbeat tasks | create, claim, heartbeat, run the phases submit, progress, genid, publish, watermark, time out, fail, cancel, retry, retry the watermark, recover at start | workflow, overload retry, watermark parsing, SSE stream | two claims of a row, a late heartbeat, crash between claim and start, cancel against a run that does not look, retry continuing in a stored phase, one time budget over several retries | one run per job under a current lease; a completed job has its result; no phase twice; every run ends; nothing queued is forgotten |
| **Overload retry** `sora_jobs.py:315-455`, `sora_job_runner.py:255-315`, `sora_repo.py:141-215` | the retry columns of `sora_jobs` (parent, root, index) | automatic and manual retry on another account | queue, account dispatch | checks before an await and the insert after it; automatic and manual retry at once | no account tried twice along a line; bounded lines; one child per failed job |
| **Nurture batches** `services/sora_nurture_service.py`, `worker_runner.py`, `db/sqlite/nurture_repo.py`, `sora_repo.py:536-683` | tables `sora_nurture_batches`, `sora_nurture_jobs`, `_nurture_running` | create, claim, heartbeat, run over the jobs, cancel, retry, recover | shares windows with the generation queue | cancel and retry against a run under way, cached map of busy windows, counters over several runs, timeouts while a window closes | an ended batch adds up; cancellation holds; likes are not repeated |
| **Account dispatch** `services/account_dispatch_service.py` | none of its own: reads scans, jobs and failure events | rank the accounts, pick one | queue, overload retry, scans, realtime quota | quota read at different times and merged, reservations against accepted submits, cooldown against look-back | jobs that wait for their submit are reserved, but for a race of processes; an account that rests is not chosen |
| **Scans** `services/ixbrowser/scan.py`, `silent_refresh.py`, `db/sqlite/ixbrowser_repo.py` | tables `ixbrowser_scan_runs`, `ixbrowser_scan_results`, silent refresh jobs | scan a group in browsers or over the API, fall back on older results, prune runs, reuse a refresh under way, fail refreshes at start | profile windows, dispatch, schedulers | values read during minutes and stamped at the end; a fallback stamped as new; pruning by run id | the estimate of an account is its newest reading; one refresh per group |
| **Realtime quota** `services/ixbrowser/realtime_quota_service.py` | per-profile cache of the last value, subscriber queues | hear a response, record it, notify | pages of a run, scan tables | recordings overtake each other across an await | the last value heard is the one kept |
| **Schedulers** `services/scan_scheduler.py`, `services/account_recovery_scheduler.py`, `db/sqlite/locks_repo.py` | table `scheduler_locks`, fired slots, next run time | tick, take the slot's lock, scan | scans | several processes, restart within a slot, lock shorter than a slot | one scan per slot, no slot missed by an idle scheduler |
| **Profile windows** `services/ixbrowser/profiles.py`, `ixbrowser_service.py` | what ixBrowser has open | open with retry, force open, close, list, random fingerprint | queue, nurture, scans, publish | the same window opened and closed under another user; ixBrowser says open when it is not | a window in use is not closed by somebody else |
| **ixBrowser API calls** `services/ixbrowser_service.py:190-300` | two semaphores, one for reads and one for writes | call, wait out a busy ixBrowser, give up | everything that touches windows | a call that waits keeps its slot; the number of repeats changes meanwhile | listings go on while writes wait; every call ends |
| **Publish workflow** `services/ixbrowser/sora_publish_workflow.py` | page state, captured responses | find the draft, fill in, publish, read the link | queue, compat jobs | responses of several pages, draft index against task id, duplicates | a link that Sora answered with is kept; only the post of that answer is taken down |
| **Watermark parsing** `sora_job_runner.py:317-440`, `services/watermark_settings.py` | watermark columns of `sora_jobs` | attempts over official, custom and third-party parsers, fall back to the link | queue | attempt counters, partial failure, detached retry | a bounded number of attempts, a usable link at the end |
| **Compatible jobs** `sora_jobs.py:26-160`, `api/video_api.py` | table `ixbrowser_generate_jobs` | create, run, publish again, fetch the generation id, the OpenAI style view | workflow | two publish requests, no recovery after a crash | one publish at a time; a status that ends |
| **Concurrency limit** `sora_job_runner.py:25-33`, `system_settings.py` | the semaphore of run_sora_job | change the limit while runs hold it | queue, settings | a swapped semaphore forgets its holders | never more runs than the limit |
| **SSE job stream** `services/sora_job_stream_service.py`, `api/sora.py:162-245` | fingerprints, last event id, visible jobs of each client | snapshot, diff, phase events, ping | queue | an event between snapshot and first poll, a job that becomes visible late | a client's view converges to the table |
| **Group window cache** `services/ixbrowser/groups.py:195-307` | cached groups with a time stamp | list, refresh, invalidate | everything that lists windows | two refreshes at once, stale use | a bounded age |
| **Proxies** `services/proxy_service.py`, `services/ixbrowser/proxies.py`, `db/sqlite/proxy_repo.py` | table `proxies`, bindings | import, pull, push, update, check | ixBrowser, scans | half of a batch failing, pushes of stale rows | local and remote rows agree after a sync |
| **Risk summary** `services/sora_risk_service.py` | none | summarise failures per account | event log | none: a query | |
| **Browser preparation** `services/ixbrowser/browser_prep.py` | none that outlives a page | scripts and routes put into a page | every page | nothing kept | |
| **Sora HTTP client** `services/ixbrowser/sora_api.py` | none | read session, plan and quota; create a task | scans, workflow | a refusal, a challenge and a broken line look alike | what counts as a success is one |
| **Settings, auth, logging, admin pages** | settings rows, users, event log | read, write | everything | applied to running services | |

The library code under `_refs/`, the Vue front end `admin/`, scripts and build
files are not part of the verified system.

## 2. The modules

### 2.1 `SoraJobQueue`: the generation queue

`row` is table `sora_jobs`, `proc` the life of each process, `runs` the
`_run_one_sora_job` tasks (a record says where a run is suspended), `wmTasks` the
detached tasks of a manual watermark retry.

* `StartProcess`, `StopProcess`, `ExitProcess`, `Crash`: the lifespan of
  `app/main.py` and `WorkerRunner.start/stop`, with the recovery of stale running
  jobs.
* `LoopPass`, `Heartbeat`, `Tick`: `_sora_loop`, `_heartbeat_sora_job` and the
  clock against which `lease_until` is compared.
* `StartRun` to `EndRun`: `run_sora_job` phase by phase. A phase entry
  (`EnterSubmit`, `EnterProgress`, `EnterGenid`, `EnterPublish`) is the code
  between two awaits with its checks, so an entry may fail the job on the spot.
* `CancelRun`: what `asyncio` cancellation does at each suspension point.
* `CreateJob`, `CancelJob`, `RetryJob`, `RetryWatermark`: the handlers.

Data are kept as far as a property needs them: a task id, a generation id and a
publish url are set or not, an error is an overload or not, the time budget is
unset, live or spent.

`Stalling` is the set of owners whose event loop may be blocked for longer than a
lease. `Tick` waits for the heartbeat of a run whose owner is not in it, and for
nobody else's. `SingleRun` and `RunsAreLeased` are promises to the processes that
do not stall (`TimelyRuns`); they hold whatever the others do, and the lease lock
holds for all.

`LeaseLock` is the abstract lock the lease columns stand for: a key has a holder
or none, a valid lease is never taken over, it is only released or runs out.
`SoraJobQueue` and `NurtureBatch` both implement it (`ImplementsLeaseLock`).

### 2.2 `OverloadRetry`

Only what concerns submit is kept of a job's life. `call` is what
`_spawn_sora_job_on_overload` took with it when it began to wait for the list of
windows; `Spawn` is the insertion after the wait, which checks nothing again.
Window names are not blank in a listed group, so between picking an account and
inserting the child there is no further await and the two are one step. The
account that is picked is any account not excluded: ranking is not modelled here.
`Background` runs it as its part "overload".

### 2.3 `NurtureBatch`

`batch` and `job` are the two tables, `run` the batch each process works on with
the list of jobs, the cached map of busy windows and the counters the run carries.
`Advance` is the head of the loop over jobs, from the end of one job to the launch
of the next. What an account does inside a page is one choice of outcome; the
cancellation check of the engage loop is kept, because it is where a run notices.

### 2.4 What runs beside the jobs (`Background`)

| module | models | state and actions |
|---|---|---|
| `AccountDispatch` | `account_dispatch_service.py`, `sora_repo.py:333-417`, the event log it reads | `reading` is the last quota of an account with its next release, `job` the jobs, `log` the failures, `pick` what a process chose and has not inserted; `rest` and `peak` are histories: until when an account was told to rest, and its largest estimate since it last had no job of dispatch waiting. `Pick`, `Insert`, jobs that users give an account by hand or retry (nothing is checked), `Accept` (the reservation ends, the reading stays), failures, a new reading, the cleaning of the log, the clock |
| `SchedulerLock`, `ScanScheduler`, `RecoveryScheduler` | `locks_repo.py`, `scan_scheduler.py`, `account_recovery_scheduler.py` | `lock` with its time to live, `loop` and `lag` of each process, what a process fired (`fired`) or plans (`nextRun`). A tick of a loop, late or not; settings switched on and off; restarts |
| `QuotaHistory` | the saving, merging and pruning of `scan.py`, `realtime_quota_service.py`, `ixbrowser_repo.py` | `runs` is the sequence of scan runs with one result per window (a run's id is its place), `scan` the scans under way, `cache` and `pending` the listener and the recordings that wait for the list of windows. `Merged` and `Shown` are the two readers, account dispatch and the accounts page: two pieces of code for one idea, compared by `ViewsAgree` |
| `ProxyPool` | imports, edits, pulls and pushes of `proxy_service.py`, `proxy_repo.py` | `row` is the local table, `rec` the list in ixBrowser, `push` and `pull` what a request has read and not yet written. Answers get lost, the server restarts, the operator repeats |
| `ProxyCheck` | `batch_check` of `proxy_service.py` | `check` is what each request holds of each proxy. Addresses are edited while a check runs; a slot limits the checks |
| `GroupCache` | `groups.py:195-307` | `cache` with the time its listing ended, `caller` the listings under way, `failedAt` the last failure |
| `CfEvents` | `create_proxy_cf_event`, `list_proxies` | `table` of all proxies, `binding` of windows to proxies, `past` what really happened to each |

### 2.5 What runs for one job, window or page (`Services`)

| module | models | state and actions |
|---|---|---|
| `SilentRefresh` | `silent_refresh.py`, the pass of `scan.py` and the event stream of `api/ixbrowser.py` | `row` of a refresh, `task` that works on it, `stream` of a page. A restart drops tasks and streams and keeps the rows |
| `Submission` | submit loops of `sora_generation_workflow.py` and `sora_publish_workflow.py`, for both chains of jobs | `run`, the state of the page's `button`, `asked` (how often Sora was asked) and `made` (what it made) |
| `TaskPoll` | the polls for one task | `task` is what Sora holds, `poll` the poll under way with what it has read so far, `shown` the progress, `window` the browser window. Each request of a poll is a step of its own, Sora goes on in between |
| `Publisher` | `sora_publish_workflow.py` | `sora` is the generation and its post, `own` whether the run opens its `window` itself, `clean` whether the post is to be deleted again, `heard` what the listener caught, `run` the coroutine with the answer and the link it has |
| `CompatJobs` | the older jobs of `sora_jobs.py` | `maker`, `pub` and `fetch` are the coroutines on one `row`, which nothing claims |
| `ProfileWindow` | `profiles.py:90-172` | `window` as ixBrowser has it (flagged, with an address or not), `pc` and `stage` of each user of it |
| `ApiSlots` | `_post` of `ixbrowser_service.py` | `limit` on repeats, `queue` of each semaphore, `call` of each caller |
| `ProxySwitch` | `random_switch_profile_proxies` | `proxy` and `custom` are what a window has, `old`, `new`, `item` the request's |
| `JobStream` | `sora_job_stream_service.py`, `api/sora.py:162-245` | `row` and `log` are the tables, `stream` what the server remembers of a page, `page` what the page shows |
| `AccountReading` | readings of one account in `scan.py`, `sora_api.py` | `reader` is a silent reading or a full scan, over the proxy or in the shared `window` |

### 2.6 Shared conventions

* `MC*.tla` give instances for TLC; each `.cfg` is one run.
* `Background` and `Services` compose the modules of the two tables, which they
  instantiate (`Pool == INSTANCE ProxyPool ...`), with all sizes as constants. Their
  parts share no state in the code that the models keep. In every behaviour one part
  runs and the others rest (their variables are `None`), so that TLC explores the sum
  of the parts' states and not the product. Every part has its own `Spec` and could
  be checked alone. A variable name that two parts use is declared once; the parts
  never meet in it. `MCBackground` and `MCServices` add the small instance, and the
  latter the fairness and the liveness properties.
* What a part assumes of its constants is its operator `Constants`; the bundles
  assume it of their instances (`ConstantsAreRight`), TLC evaluates it.
* A property of a bundle is a conjunction over parts, each guarded by `part = ...`;
  the comment at the conjunct's definition in its own module says what it is about.
* Definitions introduced by a comment that begins with "Mutant" are slips that
  the code could contain. They are used by no specification; each property has one
  that breaks it, which shows that the property depends on the code.
* `CHECK_DEADLOCK FALSE` is said in every run because histories are finite: owner
  names, job ids, retries, ticks of a clock run out, and then nothing is left to do.

## 3. The runs

| run | instance | what it shows |
|---|---|---|
| `queue_multi` | one job, three owners of which two live at a time, one of them may stall | `SingleRun`, `RunsAreLeased`, the refinement of `LeaseLock`, `OnlyHolderReleases` |
| `queue_live` | one job, two owners in turn, two retries by hand | types, `CompletedHasResult`, `OneWatermarkRetry`, `BudgetIsTotal`, `PhaseNeverGoesBack`; `RunsEnd` and `QueuedIsServed` under fairness |
| `queue_cancel` | one job, one owner | fails: a cancelled job comes back (`CanceledIsFinal`) |
| `queue_orphan` | one job, one owner | fails: a job says running and nothing works on it (`RunningIsExecuting`) |
| `overload_twins` | three jobs | fails: automatic and manual retry make two children (`OneChild`) |
| `nurture_safe` | one batch of two jobs, two owners in turn, loops may stall | types, `EndedBatchAddsUp`, `CancelHolds`, `CompletedIsNotRepeated`, the refinement of `LeaseLock`; `RunsEnd` and `QueuedIsServed` under fairness |
| `nurture_retry` | one batch of two jobs, one owner | fails: a batch is retried under its run (`RetryWaitsForRun`) |
| `background` | sections 2.2 and 2.4, two processes, callers or proxies each | dispatch (`PicksAreRight`), retries after an overload (`AncestorsAvoided`, `LineIsBounded`, `FollowedJobIsTheLive`, `ChildIsFinal`: lines are bounded and avoid their accounts, the newest job is the live one, a child is final), schedulers (`SlotsAreServedOnce`), quota (`HistoryIsOne`, `KnownIsKept`), proxies (`ProxiesAreSingle`), what is listed and shown (`ShownIsCurrent`) |
| `dispatch_deduct` | one account, two jobs, one process | fails: a job that Sora accepts is deducted nowhere, its account looks fuller than before (`SubmitIsDeducted`) |
| `services` | section 2.5, two or three users each | reports are true (`ReportsAreTrue`), what Sora answers to a publication decides (`AnswerDecides`), windows come back, slots and proxies are shared, Sora is not asked twice, workers keep apart, nothing goes back; a page catches up and everything ends under fairness |
| `publish_canceled` | two publications of one row | fails: a publication ends and its row says running (`PublishingIsAlive`) |
| `switch_same` | two windows, three proxies | fails: a window is switched to the proxy it has (`SwitchedIsChanged`) |

The runs that fail each state what a comment, a message or a test of the source says
of the program; `PROJECT.json` quotes the line under "findings" and says what the
history is.

Why the bounds are enough:

* *Owners.* An owner name is one process life. Two suffice for a restart; a third,
  which may stall, for a stall beside two processes or a claim after a takeover.
  `LeaseTicks = 2` distinguishes a fresh lease, one that is due for renewal and one
  that has run out.
* *Jobs.* The lease, the phases and the watermark task of a job do not look at
  other jobs; two are needed for the order of claims and for a child of an
  overload. The proofs of section 5 are for any number.
* *Attempts.* `MaxAttempts` bounds how often a user asks for a retry: twice, since
  the phase that a second run continues in matters to the third.
* *Overload.* One family (`MaxRoots = 1`) of up to four jobs with four accounts:
  families share nothing but the accounts, which are not used up. A line at the limit
  of three tries needs three jobs and accounts; the fourth lets a line beyond it, or a
  twin and its child, show. Two callers are all that two children of one job need.
* *Nurture.* Two jobs are a job that has ended and one that has not, or a completed
  and a failed one.
* *Dispatch.* Two processes overbook by one; `DispatchTime = 2` is a rest of two ticks
  that begins at once and ends; the shorter kind of failure has no rest at all, so
  that it can hide the longer one.
* *Schedulers.* Slots 1 and 5 lie further apart than a lock lives, and a process may
  be late by 2 of a slot's 3 ticks. `RecoveryScheduler` sees three intervals, with a
  lock shorter than one. Both clocks end one interval after the last start.
* *Quota.* `Keep = 2` is the smallest history in which a run is pruned while
  another stays, and `MaxTime = 1` orders stamps both ways. With `Keep = 1` (the
  setting allows it) the realtime run and the scans push each other out, which is
  why nothing is claimed there.
* *Proxies.* Two keys, rows and records: one proxy that is doubled, or two that swap
  their records. `CfEvents` keeps 2 of 5 events so that each proxy trims while the
  other does not.
* *Windows and services.* Two users of one window, two attempts each: the first is
  spoilt by the other user, the second is not. One slot for reads and two for writes
  with three callers make one of them wait in each queue. A stream that lists one
  of two jobs and reads one event at a time splits every batch.
* *Polls.* Four ticks of clock cover a pending task, its draft, a challenge and a
  reconnection before the time is up.

## 4. Fairness

Liveness is checked in `queue_live`, `nurture_safe` and `services`, under the
fairness of an event loop that keeps turning and of nothing else:

* weak fairness of what the loop does by itself: the first slice of a task, the
  reaction to a cancellation, timers (`RunTimeout`, `JobTimeout`), `finally` blocks
  (`OwnStep`), a pass of the claim loop, a heartbeat, and the exit of a process that
  was told to stop;
* strong fairness of the clock of the queue, because the clock of a model waits for
  the heartbeat of a process that does not stall;
* no fairness of a browser, a site, a user or a start. A request may never be
  answered and a dead process may stay dead; `QueuedIsServed` therefore promises
  service only as long as some process serves. The Playwright driver of nurture is
  a local process that is taken to start and stop or to fail.

In `services`, weak fairness of `Due(i)` is the fairness of the part that runs: of
each coroutine's own step (an answer, an error or the time limit of the call, which
every call of these workflows has), of a clock, and of the page that polls. Only one
part runs, so five numbers are enough for all. What users, ixBrowser on its own, or
Sora may do is not fair.

"What is busy comes to rest" is written `[]<>~Busy`. Under these specifications it
is the same as `Busy ~> ~Busy`, and TLC checks all such conjuncts in one search.

That a process does not stall past a lease is an assumption about its load, not
about the code: a lease lasts 120 seconds and is renewed every 40 (180 and 60 for
nurture). Where it fails, `Stalling` (and `Timely = FALSE` for nurture) says what is
left.

## 5. Proofs

`SoraJobQueueProofs`, for any sets of jobs and owners and any limits; any `Stalling`
except in the last theorem:

* `TypeCorrect`, `CompletedCorrect`. `CompletedHasResult` is not inductive: nothing
  in it says why a run that completes a job has a task and a link. The inductive
  invariant is `TypeOK /\ DataInv`: every phase of a row presupposes what the phases
  before it produced (`RowOK`), every place where a run can be suspended presupposes
  it too (`PcOK`), and a detached watermark task presupposes a link. No step clears
  a field (`Grows`), which is what lets it survive two runs of one job on a stalled
  system. Nearly every step of a run is brought into one normal form (`Moves`), and
  the invariant is proved for the form once.
* `RunsAreLeasedCorrect`, `SingleRunCorrect`. The two properties are inductive
  together (`LeaseInv`), given the data part: a claim takes only rows without a valid
  lease, and every run of a process that does not stall has one. The step that needs
  both is `EndRun`: the lease it clears belongs to no other such run.
* `LeaseLockImplemented`: initial states map to initial states and every step maps to
  a step of `LeaseLock`, with `LeaseOwned` (only a held lease runs) as invariant.
* `OneWatermarkRetryCorrect`, where no process stalls (`Stalling = {}`). The guard of
  a watermark retry is `watermark_status = failed`, which the run that failed it
  writes before it ends. `WmInv` says what makes the guard enough: while the
  watermark has failed, or a detached task lives, the row is in phase watermark or
  done and every run of the job stands before its first slice or behind its body
  (`Late`). A run that starts then finds no branch for its phase and ends. The step
  of a run is again brought into one form (`WmMove`), and it is used that the run is
  the only one of its job, which is `SingleRun`.

`SoraJobQueueStepProofs`, on what a step may never do, from the same invariants:

* `OnlyHolderReleasesCorrect`, whoever stalls. It adds `BlankInv`: a row without a
  job is empty, so that inserting one ends no lease.
* `BudgetIsTotalCorrect`, whoever stalls. A slice of a run is brought into a form
  (`Ahead`) that says how far it may take the row and where the run stands then; the
  budget is looked at in that form, and no step outside of a run's body (`Aside`)
  enters genid or publish.
* `PhaseNeverGoesBackCorrect`, where no process stalls. The form `Ahead` is relative
  to the phase in which the run is; `PhaseInv` says that this is the phase of its
  row, which a second run of the job would break, and `SingleRun` excludes it.

`OverloadRetryProofs`, on the part "overload" of `Background`, for any number of jobs,
accounts and callers:

* `OverloadTypeCorrect`, `AncestorsAvoidedCorrect`, `LineIsBoundedCorrect`,
  `ChildIsFinalCorrect`. A child is inserted on what its caller read before the
  wait, so the inductive invariant `IInv` has a part for the callers (`CallOK`): the
  accounts they avoid cover the line of the job they act for, and the index they
  carry exceeds its index. Jobs are only added to a family, so what was true when it
  was read stays good enough.
* `FollowedJobCorrect`. The invariant `LineInv` adds that a parent has been refused
  for good, that a child is newer than its parent, and that a family in which no job
  has two children is one line whose last job is the newest.

`NurtureBatchProofs`, for any number of batches, jobs and processes:

* `TypeCorrect`, `CancelHoldsCorrect`, `LeaseLockImplemented`, however many processes
  serve and stall.
* `EndedBatchAddsUpCorrect`, `CompletedIsNotRepeatedCorrect`, with one process at a
  time, however often it is restarted (`SoloAssumption`). `SoloInv` relates the
  counters that a run carries to the jobs it has gone through: with a second process
  this fails as soon as one stalls, since both write the counters of the row from
  their own.

`BackgroundProofs`, with the proofs of dispatch, the schedulers and the quota in
`AccountProofs`, states the other properties of the run `background` for any sets of
accounts, jobs, processes, windows, proxies and records and for clocks without bound. The inductive invariant
`IInv` is that of the part that runs; each part has its own (`DispatchIInv`, ...), with
one lemma per action:

* `TypeCorrect`: from all of them.
* `PicksAreRightCorrect`. For a rest that is under way there is an event in the log that
  is as long in force (`DispatchRestIsLogged`): the cleaning and the look-back reach
  further than a rest, which is an assumption on the settings. What is booked of an
  account are the jobs of dispatch that wait for their submit and the processes that
  have chosen it and not inserted (`OverbookingIsBounded`): a process that inserts turns
  its choice into a job, so the sum stays, and while it is positive the peak only grows.
  The theorem is about what dispatch chooses. It does not say that an account never gets
  a job while it rests (a user may name it, a retry goes back to it, a choice may precede
  the failure), nor that an account is not given more jobs than it has generations: a
  job that was accepted is no longer counted and not yet deducted, as the run
  `dispatch_deduct` shows.
* `SlotsAreServedOnceCorrect`. A slot is locked from its scan to its end
  (`ScansSlotOK`), and a process that has waited since the beginning of a slot nobody
  has scanned has not looked since (`ScansWaits`), for a look would have scanned it.
  The promise is made to loops whose longest pause is shorter than a slot; in the code
  they are 20 seconds and a minute. Recovery scans: a process that waits has its next
  run ahead of it, or is about to look.
* `HistoryIsOneCorrect`, where the page is filled in from older runs
  (`Backfills \subseteq {TRUE}`: `with_fallback` is true unless a request turns it off,
  and the schedulers pass true). What
  makes the two readers agree is `HistoryGapOK`: where the page fills a gap of the last
  scan, dispatch finds the same value in the run itself, or the realtime run covers it.
* `ProxiesAreSingleCorrect`. Two things make it hold. Nobody who knows an id of
  ixBrowser, be it the list there, the table, a pull or a push that was answered,
  disagrees with another about the proxy it stands for (`PoolAgreed`). And some
  function says which pusher made each record, so that records of one proxy are from
  different pushers, and who has made one will not make another (`PoolMadeBy`): a push
  creates a record only of a row for which its list had none. The step of a pull writes
  all records at once, by a recursive function; its lemma is by induction over the ids
  (`PoolPullStep`), with an invariant of the table in the middle (`PoolTabOK`).
* `ShownIsCurrentCorrect`. A listing is kept at most one call after its windows were
  read (`GroupsKeptOK`). The newest events of a proxy that the table keeps are the
  newest it ever met (`EventsKept`): the place of an event among those of its proxy is
  the number of events since, and trimming leaves the places of those that stay. A
  success is of the address that the check read (`ChecksRowOK`, `ChecksCheckOK`).
* `KnownIsKeptCorrect`, where more than one scan is kept (`KeepScans > 1`). The setting
  allows one (`app/models/settings.py:148`); then a realtime run that is created
  deletes the scan.

`ServicesProofs`, with the proofs of the parts that carry one job in `WorkflowProofs`,
states every safety property of the run `services` likewise:

* `TypeCorrect`, `ReportsAreTrueCorrect`. The events that a page was told are those
  between its first and the one its server has read, of the jobs that never left its
  list, in order (`StreamTells`); a batch that is read is a prefix of what is left. A
  row of a refresh says what its task has counted (`RefreshTaskOK`), and a page that
  was told the end has the fingerprint of the end.
* `AnswerDecidesCorrect`. The pages a run may still visit tell whether it has an answer
  and of which kind (`PublishRunOK`).
* `WindowsAreReturnedCorrect`. A shared window that is open, and could be closed, has a
  reader that will close it (`ReadingIInv`).
* `ScarceIsSharedCorrect`. Who waits for a slot is in its queue, once, with calls of its
  own kind (`ApiQueueOK`), so that what keeps the first of them waiting is a call of
  that kind. In a switch, what is given to a window was given to no earlier one, or
  those have all that there is; the pool is the same for all windows of a request.
* `SoraIsSparedCorrect`. A reopened page allows one attempt more, and Sora was not asked
  in the attempt that ended with it: what was asked and what was added to the limit
  stay, together, within the attempts that were made (`SubmitSpent`).
* `WorkersKeepApartCorrect`. Of two refreshes of one group one is over
  (`RefreshOneOpen`). `CompatAloneInv` says why looking at the row is enough: until its
  first publication the job is not completed, and while it publishes again the row says
  so. An opening that nothing has spoilt finds the window as it left it
  (`OpeningSmooth`).
* `NothingGoesBackCorrect`: from the same invariants.

Assumptions are the named `ASSUME`s of the modules: ids are numbers, `None` and
`NoOwner` are no ids and no values, limits are positive, the jobs of all batches, the
processes, pushers and flags are finitely many. Two theorems have a hypothesis of their
own, which is said above.

Model-checked only: liveness, which is out of the prover's reach (`RunsEnd`,
`QueuedIsServed`, `PageCatchesUp`, `EverythingEnds`). Every other property of a passing
run is stated by a theorem. The runs that fail are histories of small instances and
need no more.

## 6. What is not modelled

* *Inside the browser.* A step in a page ends with a result, an error, or not at all.
  Selectors, texts and scripts (`browser_prep.py`) are the outcomes of a step.
* *The concurrency limit changing.* `MaxConcurrency` is a constant. The semaphore of
  `run_sora_job` has the same size as the worker's own limit, so it never waits;
  changing the setting swaps it (`sora_job_runner.py:24`), and runs that hold the old
  one are no longer counted by it.
* *A start whose recovery raises* (`worker_runner.py:58-67`): it logs and goes on.
* *Stop against a job that ends.* `CancelRun` may cancel a run at any point at which
  it waits, in any order with the other runs, which covers what `stop` does and a
  little more.
* *Python's own gaps.* Before 3.12, `asyncio.wait_for` may lose a cancellation that
  arrives as its inner task ends; the model has cancellation take effect.
* *A crash between two writes of one step.* The writes of a step are separate
  transactions. `NurtureBatch` has the crash inside `create_batch`; elsewhere a crash
  falls between steps. A crash between saving a scan and filling its gaps
  (`scan.py:831`) would break `ViewsAgree` until the next scan.
* *The attempts of one watermark parse* (`sora_job_runner.py:317-440`): they only
  delay its outcome.
* *Nurture:* batches of more than 500 jobs, of which only 500 are ever listed
  (`nurture_repo.py:280`), and one window in several batches.
* *Quota:* plans, proxies, account names and reset times travel with the row, and
  subscribers only hear the recordings. One scan is under way at a time.
* *Dispatch:* the scores, which order the accounts a job may go to.
* *Unused variants:* the requests over httpx and over a browser in `sora_api.py` have
  no callers; the OpenAI style API (`video_api.py`) translates rows of the queue.
* *Parsers of pasted lists*, the cleaning of logs but the event log that dispatch
  reads, settings, users, the risk summary, the front end `admin/`, `_refs/`, scripts.

Behaviours that the models or the reading of the code show and that no property
states, because nothing in the repository promises otherwise:

* a nurture run keeps the map of busy windows it read at its start
  (`sora_nurture_service.py:389`) and opens a window that became busy later;
* a batch whose run raised between two jobs (`worker_runner.py:286`) says running
  until a process starts and recovers it;
* a gap in a scan is filled with the newest older success, which may be older than
  the value the listener heard; recordings may overtake each other
  (`realtime_quota_service.py:117`);
* a token that is not found after Sora has accepted a task
  (`sora_generation_workflow.py:241`) fails the job in phase submit, and a retry
  submits once more;
* a fetch of the generation id that succeeds leaves its window open
  (`sora_generation_workflow.py:1205`);
* after a restart, rows of the older table that say running stay so;
* an event recorded between the listing of a new page and the reading of the newest
  event id is not sent to that page;
* a random switch of proxies closes windows that jobs are using;
* two pushes at once may put an older password back;
* a publication that reads a list of posts which names its generation takes the first
  link there for its own (`sora_publish_workflow.py:1673`, `:588-607`), before Sora was
  asked (`:229`) as well as after an answer without a link: the job may be completed
  with the link of another post. `AnswerDecides` promises something only from the answer
  on;
* a page of jobs is told of a change only if it touches the fields that
  `sora_job_stream_service.py:76-91` compares: a new proxy, window name or watermark
  attempt alone is not sent;
* the progress that is shown never goes back within one polling run; a run that retries
  in phase progress starts from nothing (`sora_generation_workflow.py:380`);
* an edited proxy keeps the success of its former address until the next check.

## 7. What could come next

1. Refinements of abstract specifications by parts of the bundles: the scheduler locks
   as a `LeaseLock`, a stream as a queue that loses nothing.
2. A composition of the queue with `AccountDispatch`: what is reserved between the
   choice of an account and the acceptance by Sora, over crashes.
3. `SingleRun` and `PhaseNeverGoesBack` from one invariant, to drop the hypothesis that
   no process stalls for those jobs that only the others run.
