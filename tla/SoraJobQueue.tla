---------------------------- MODULE SoraJobQueue ----------------------------
(***************************************************************************)
(* The Sora generation queue: rows of table sora_jobs, claimed under a     *)
(* lease by worker processes, driven through the phases submit, progress,  *)
(* genid, publish and watermark, cancelled and retried over HTTP, and      *)
(* recovered when a process starts after a crash or a stop.                *)
(*                                                                         *)
(* A process is one asyncio event loop and every database call in it is    *)
(* synchronous: what lies between two await points is one step here.       *)
(* A process takes a fresh random owner name when it is created, so a      *)
(* restart is another member of Owners.                                    *)
(***************************************************************************)
EXTENDS Naturals, FiniteSets

CONSTANTS
  Jobs,            \* job ids, handed out in increasing order
  Owners,          \* owner names of the processes of one history
  NoOwner,         \* lease_owner IS NULL
  LeaseTicks,      \* length of a lease, in ticks of the clock
  MaxConcurrency,  \* sora_job_max_concurrency
  MaxLive,         \* how many processes may serve one database at a time
  MaxAttempts,     \* bound: no manual retry once run_attempt reaches it
  Stalling         \* owners whose event loops may stall past their leases

ASSUME JobsAssumption == Jobs \subseteq Nat
ASSUME OwnersAssumption == NoOwner \notin Owners
ASSUME BoundsAssumption ==
  /\ LeaseTicks \in Nat \ {0}
  /\ MaxConcurrency \in Nat \ {0}
  /\ MaxLive \in Nat \ {0}
  /\ MaxAttempts \in Nat

VARIABLES
  row,     \* table sora_jobs
  proc,    \* life of each process
  runs,    \* the _run_one_sora_job tasks of all processes
  wmTasks  \* the detached sora.job.watermark.retry tasks

vars == <<row, proc, runs, wmTasks>>

Statuses == {"absent", "queued", "running", "completed", "failed", "canceled"}
Ended    == {"completed", "failed", "canceled"}
Phases   == {"queue", "submit", "progress", "genid", "publish", "watermark", "done"}
Errors   == {"none", "overload", "other"}
WmStates == {"none", "queued", "running", "failed", "completed", "fallback"}

\* budget is the total time limit counted from started_at: "spent" once
\* started_at lies further back than generate_timeout_seconds.
Row == [status    : Statuses,
        phase     : Phases,
        error     : Errors,
        task      : BOOLEAN,    \* task_id is set
        gen       : BOOLEAN,    \* generation_id is set
        published : BOOLEAN,    \* publish_url is set
        wm        : WmStates,
        budget    : {"unset", "live", "spent"},
        owner     : Owners \cup {NoOwner},
        lease     : 0 .. LeaseTicks,   \* ticks left, 0 once lease_until has passed
        attempt   : Nat]

Absent == [status |-> "absent", phase |-> "queue", error |-> "none",
           task |-> FALSE, gen |-> FALSE, published |-> FALSE, wm |-> "none",
           budget |-> "unset", owner |-> NoOwner, lease |-> 0, attempt |-> 0]

\* Where a run is suspended.  The body pcs lie inside run_sora_job; "accepted"
\* is the wait for an access token after the task id is stored, "polled" a poll
\* loop that has seen a generation id, "captured" a genid fetch about to return,
\* "exhausted" a watermark task that has given up and whose waiter has not
\* resumed, "overload" the wait for another account.
Timed == {"submit", "accepted", "progress", "polled", "genid", "captured",
          "publish", "watermark", "parsing"}
Body  == Timed \cup {"exhausted", "overload"}
PCs   == Body \cup {"spawned", "tail"}

Run    == [job : Jobs, attempt : Nat, owner : Owners, pc : PCs]
WmTask == [job : Jobs, owner : Owners, pc : {"begin", "parsing"}]

TypeOK ==
  /\ row \in [Jobs -> Row]
  /\ proc \in [Owners -> {"new", "up", "stopping", "dead"}]
  /\ runs \subseteq Run
  /\ wmTasks \subseteq WmTask

Init ==
  /\ row = [j \in Jobs |-> Absent]
  /\ proc = [o \in Owners |-> "new"]
  /\ runs = {}
  /\ wmTasks = {}

RunsOf(o) == {r \in runs : r.owner = o}
TimelyRuns == {r \in runs : r.owner \notin Stalling}
Serving   == \E o \in Owners : proc[o] = "up"

-----------------------------------------------------------------------------
(* Process life cycle *)

Leased(j) == row[j].owner # NoOwner /\ row[j].lease > 0

\* Mutant: recovery that does not look at the lease.
AnyRunning(j) == row[j].status = "running"

Stale(j)     == row[j].status = "running" /\ ~Leased(j)
Recovered(j) == [row[j] EXCEPT !.status = "failed", !.error = "other",
                               !.owner = NoOwner, !.lease = 0]

\* lifespan startup: worker_runner.start() fails the stale running jobs once.
StartProcess(o) ==
  /\ proc[o] = "new"
  /\ Cardinality({p \in Owners : proc[p] \in {"up", "stopping"}}) < MaxLive
  /\ proc' = [proc EXCEPT ![o] = "up"]
  /\ row' = [j \in Jobs |-> IF Stale(j) THEN Recovered(j) ELSE row[j]]
  /\ UNCHANGED <<runs, wmTasks>>

\* worker_runner.stop(): no pass of the loop after this, every run is canceled.
StopProcess(o) ==
  /\ proc[o] = "up"
  /\ proc' = [proc EXCEPT ![o] = "stopping"]
  /\ UNCHANGED <<row, runs, wmTasks>>

\* stop() has gathered the runs; the loop closes and drops what is detached.
ExitProcess(o) ==
  /\ proc[o] = "stopping"
  /\ RunsOf(o) = {}
  /\ proc' = [proc EXCEPT ![o] = "dead"]
  /\ wmTasks' = {w \in wmTasks : w.owner # o}
  /\ UNCHANGED <<row, runs>>

Crash(o) ==
  /\ proc[o] \in {"up", "stopping"}
  /\ proc' = [proc EXCEPT ![o] = "dead"]
  /\ runs' = runs \ RunsOf(o)
  /\ wmTasks' = {w \in wmTasks : w.owner # o}
  /\ UNCHANGED row

-----------------------------------------------------------------------------
(* The claim loop, leases and time *)

\* Mutants: a claim that ignores leases, or takes no row that has an owner.
ClaimableAlways(j)  == row[j].status = "queued"
ClaimableUnowned(j) == row[j].status = "queued" /\ row[j].owner = NoOwner

Claimable(j) == row[j].status = "queued" /\ ~Leased(j)

Claimed(j, o) == [row[j] EXCEPT !.owner = o, !.lease = LeaseTicks, !.attempt = @ + 1]

\* One pass of _sora_loop claims the oldest claimable jobs while there is room.
\* It may stop short: a database error ends the pass.  The tasks of a pass get
\* their first slice during the sleep that ends it, before the next pass.
LoopPass(o) ==
  /\ proc[o] = "up"
  /\ \A r \in RunsOf(o) : r.pc # "spawned"
  /\ \E S \in SUBSET {j \in Jobs : Claimable(j)} :
       /\ S # {}
       /\ \A j \in S, i \in Jobs : i < j /\ Claimable(i) => i \in S
       /\ Cardinality({r.job : r \in RunsOf(o)} \cup S) <= MaxConcurrency
       /\ row' = [j \in Jobs |-> IF j \in S THEN Claimed(j, o) ELSE row[j]]
       /\ runs' = runs \cup {[job |-> j, attempt |-> row[j].attempt + 1,
                              owner |-> o, pc |-> "spawned"] : j \in S}
  /\ UNCHANGED <<proc, wmTasks>>

\* _heartbeat_sora_job: renews only a lease that is still in its own name.
Heartbeat(r) ==
  /\ proc[r.owner] = "up"
  /\ r.pc \in Body
  /\ row[r.job].owner = r.owner
  /\ row' = [row EXCEPT ![r.job].lease = LeaseTicks]
  /\ UNCHANGED <<proc, runs, wmTasks>>

\* The clock.  A run whose event loop does not stall renews its lease in time.
Tick ==
  /\ \E j \in Jobs : row[j].lease > 0
  /\ \A r \in TimelyRuns : row[r.job].owner = r.owner => row[r.job].lease > 1
  /\ row' = [j \in Jobs |->
               [row[j] EXCEPT !.lease = IF @ > 0 THEN @ - 1 ELSE 0]]
  /\ UNCHANGED <<proc, runs, wmTasks>>

BudgetSpent(j) ==
  /\ row[j].budget = "live"
  /\ row' = [row EXCEPT ![j].budget = "spent"]
  /\ UNCHANGED <<proc, runs, wmTasks>>

-----------------------------------------------------------------------------
(* One run: WorkerRunner._run_one_sora_job around SoraJobRunner.run_sora_job *)

MoveTo(r, pc) == runs' = (runs \ {r}) \cup {[r EXCEPT !.pc = pc]}
\* Replace the row of r's job; nothing outside the row and the run changes.
SetRow(r, new) == row' = [row EXCEPT ![r.job] = new] /\ UNCHANGED <<proc, wmTasks>>

\* The except branch of run_sora_job on a row that is now cur: the job fails in
\* the phase the row is in; an overload in submit goes on to find an account.
FailRun(r, cur, e) ==
  /\ SetRow(r, [cur EXCEPT !.status = "failed", !.error = e])
  /\ MoveTo(r, IF cur.phase = "submit" /\ e = "overload" THEN "overload" ELSE "tail")

Complete(cur, wmState) ==
  [cur EXCEPT !.status = "completed", !.phase = "done", !.wm = wmState]

\* The phase a run enters, with its checks, for a row that is now cur.
\* Mutant: the time left is not checked.
EnterSubmitUnchecked(r, cur) == SetRow(r, cur) /\ MoveTo(r, "submit")

EnterSubmit(r, cur) ==
  IF cur.budget = "spent" THEN FailRun(r, cur, "other")
  ELSE SetRow(r, cur) /\ MoveTo(r, "submit")

EnterProgress(r, cur) ==
  IF ~cur.task \/ cur.budget = "spent" THEN FailRun(r, cur, "other")
  ELSE SetRow(r, cur) /\ MoveTo(r, "progress")

EnterPublish(r, cur, gen) ==
  IF cur.budget = "spent" \/ ~gen THEN FailRun(r, cur, "other")
  ELSE SetRow(r, [cur EXCEPT !.phase = "publish"]) /\ MoveTo(r, "publish")

\* gen is the run's own generation_id, which progress_only does not read back.
EnterGenid(r, cur, gen) ==
  IF cur.budget = "spent" \/ ~cur.task THEN FailRun(r, cur, "other")
  ELSE IF gen THEN EnterPublish(r, [cur EXCEPT !.phase = "genid"], TRUE)
  ELSE SetRow(r, [cur EXCEPT !.phase = "genid"]) /\ MoveTo(r, "genid")

\* First slice of a run: a canceled row is left alone, any other one is started.
StartRun(r) ==
  LET j   == r.job
      cur == [row[j] EXCEPT
                !.status = "running", !.error = "none",
                !.phase  = IF @ = "queue" THEN "submit" ELSE @,
                !.budget = IF @ = "unset" THEN "live" ELSE @]
  IN /\ r.pc = "spawned"
     /\ \/ /\ row[j].status = "canceled"
           /\ SetRow(r, row[j]) /\ MoveTo(r, "tail")
        \/ /\ row[j].status # "canceled"
           /\ \/ cur.phase = "submit"   /\ EnterSubmit(r, cur)
              \/ cur.phase = "progress" /\ EnterProgress(r, cur)
              \/ cur.phase = "genid"    /\ EnterGenid(r, cur, cur.gen)
              \/ cur.phase = "publish"  /\ EnterPublish(r, cur, cur.gen)
              \* no branch of run_sora_job handles a job retried in this phase
              \/ cur.phase = "watermark" /\ SetRow(r, cur) /\ MoveTo(r, "tail")
              \/ /\ cur.phase = "done"
                 /\ SetRow(r, [cur EXCEPT !.status = "completed"]) /\ MoveTo(r, "tail")

\* run_sora_submit_and_progress: Sora has taken the request.  The token that
\* polling needs came with it, or has to be fetched first.
SubmitAccepted(r) ==
  LET cur == [row[r.job] EXCEPT !.task = TRUE]
  IN /\ r.pc = "submit"
     /\ \/ SetRow(r, cur) /\ MoveTo(r, "accepted")
        \/ SetRow(r, [cur EXCEPT !.phase = "progress"]) /\ MoveTo(r, "progress")

TokenFound(r) ==
  /\ r.pc = "accepted"
  /\ SetRow(r, [row[r.job] EXCEPT !.phase = "progress"])
  /\ MoveTo(r, "progress")

\* A poll returns the generation id.
PollGeneration(r) ==
  /\ r.pc = "progress"
  /\ SetRow(r, [row[r.job] EXCEPT !.gen = TRUE])
  /\ MoveTo(r, "polled")

ProgressDone(r) ==
  /\ r.pc \in {"progress", "polled"}
  /\ EnterGenid(r, row[r.job], r.pc = "polled")

\* Only the poll loops look at the status: cancelling raises in them.
PollCanceled(r) ==
  /\ r.pc \in {"progress", "polled"}
  /\ row[r.job].status = "canceled"
  /\ FailRun(r, row[r.job], "other")

\* Mutant: the generation id is returned without being stored.
FetchGenerationUnstored(r) ==
  /\ r.pc = "genid"
  /\ SetRow(r, row[r.job])
  /\ MoveTo(r, "captured")

FetchGeneration(r) ==
  /\ r.pc = "genid"
  /\ SetRow(r, [row[r.job] EXCEPT !.gen = TRUE])
  /\ MoveTo(r, "captured")

GenidDone(r) ==
  /\ r.pc = "captured"
  /\ EnterPublish(r, row[r.job], TRUE)

\* The publish result puts the row back to "running" whatever its status is.
PublishDone(r) ==
  LET cur == [row[r.job] EXCEPT !.published = TRUE, !.status = "running",
                                !.phase = "watermark", !.wm = "queued"]
  IN /\ r.pc = "publish"
     /\ IF cur.budget = "spent" THEN FailRun(r, cur, "other")
        ELSE SetRow(r, cur) /\ MoveTo(r, "watermark")

\* run_sora_watermark begins, or finds the feature switched off, which is an
\* error that has no fallback.
WatermarkBegin(r) ==
  /\ r.pc = "watermark"
  /\ \/ /\ SetRow(r, [row[r.job] EXCEPT !.phase = "watermark", !.wm = "running"])
        /\ MoveTo(r, "parsing")
     \/ FailRun(r, row[r.job], "other")

WatermarkDone(r) ==
  /\ r.pc = "parsing"
  /\ SetRow(r, Complete(row[r.job], "completed"))
  /\ MoveTo(r, "tail")

\* All attempts failed.  run_sora_watermark runs as a task of its own under
\* wait_for: the row says "failed" before its waiter resumes.
WatermarkExhausted(r) ==
  /\ r.pc = "parsing"
  /\ SetRow(r, [row[r.job] EXCEPT !.wm = "failed"])
  /\ MoveTo(r, "exhausted")

\* Fall back to the share link if that is enabled and the error allows it.
WatermarkGiveUp(r) ==
  /\ r.pc = "exhausted"
  /\ \/ SetRow(r, Complete(row[r.job], "fallback")) /\ MoveTo(r, "tail")
     \/ FailRun(r, row[r.job], "other")

\* The browser, the network or Sora reports an error; a submit may report the
\* heavy load for which another account is tried.
RunError(r) ==
  /\ r.pc \in {"submit", "accepted", "progress", "polled", "genid", "publish"}
  /\ \/ FailRun(r, row[r.job], "other")
     \/ r.pc = "submit" /\ FailRun(r, row[r.job], "overload")

\* Mutant: only the poll loops respect the total time.
RunTimeoutInPolls(r) ==
  /\ r.pc \in {"progress", "polled"}
  /\ row[r.job].budget = "spent"
  /\ FailRun(r, row[r.job], "other")

\* wait_for runs out of the total time of the job.
RunTimeout(r) ==
  /\ r.pc \in Timed
  /\ row[r.job].budget = "spent"
  /\ FailRun(r, row[r.job], "other")

Fresh(j) == row[j].status = "absent" /\ \A i \in Jobs : i < j => row[i].status # "absent"
Queued   == [Absent EXCEPT !.status = "queued"]

\* _spawn_sora_job_on_overload, trigger auto: a child job, or no account left.
OverloadDone(r) ==
  /\ r.pc = "overload"
  /\ MoveTo(r, "tail")
  /\ \/ UNCHANGED row
     \/ \E j \in Jobs : Fresh(j) /\ row' = [row EXCEPT ![j] = Queued]
  /\ UNCHANGED <<proc, wmTasks>>

Cleared(j) == [row[j] EXCEPT !.owner = NoOwner, !.lease = 0]

\* Mutant: the clean-up does not check whose lease it clears.
EndRunUnchecked(r) ==
  /\ r.pc = "tail"
  /\ row' = [row EXCEPT ![r.job] = Cleared(r.job)]
  /\ runs' = runs \ {r}
  /\ UNCHANGED <<proc, wmTasks>>

\* The finally block: the heartbeat is gone, the lease is cleared if it is ours.
EndRun(r) ==
  /\ r.pc = "tail"
  /\ row' = [row EXCEPT ![r.job] =
               IF row[r.job].owner = r.owner THEN Cleared(r.job) ELSE row[r.job]]
  /\ runs' = runs \ {r}
  /\ UNCHANGED <<proc, wmTasks>>

\* stop() cancels the task: one that never ran just goes, one in its finally
\* block goes without clearing, any other one fails a job that has not ended.
CancelRun(r) ==
  /\ proc[r.owner] = "stopping"
  /\ \/ /\ r.pc \in {"spawned", "tail"}
        /\ runs' = runs \ {r}
        /\ UNCHANGED <<row, proc, wmTasks>>
     \/ /\ r.pc \in Body
        /\ SetRow(r, IF row[r.job].status \in Ended THEN row[r.job]
                     ELSE [row[r.job] EXCEPT !.status = "failed", !.error = "other"])
        /\ MoveTo(r, "tail")

-----------------------------------------------------------------------------
(* HTTP handlers *)

\* create_sora_job, and the child job of a manual overload retry.
CreateJob(j) ==
  /\ Serving
  /\ Fresh(j)
  /\ row' = [row EXCEPT ![j] = Queued]
  /\ UNCHANGED <<proc, runs, wmTasks>>

\* Mutant: another spelling of the status.
CancelJobMisspelt(j) ==
  /\ Serving
  /\ row[j].status \in {"queued", "running"}
  /\ row' = [row EXCEPT ![j].status = "cancelled", ![j].error = "other"]
  /\ UNCHANGED <<proc, runs, wmTasks>>

CancelJob(j) ==
  /\ Serving
  /\ row[j].status \in {"queued", "running"}
  /\ row' = [row EXCEPT ![j].status = "canceled", ![j].error = "other"]
  /\ UNCHANGED <<proc, runs, wmTasks>>

\* Mutant: a retry starts from the first phase.
RetryJobFromStart(j) ==
  /\ Serving
  /\ row[j].status = "failed"
  /\ ~(row[j].phase = "submit" /\ row[j].error = "overload")
  /\ row[j].attempt < MaxAttempts
  /\ row' = [row EXCEPT ![j].status = "queued", ![j].phase = "queue", ![j].error = "none"]
  /\ UNCHANGED <<proc, runs, wmTasks>>

\* retry_sora_job on anything but an overload in submit.  The phase, the lease
\* and started_at stay as they are.
RetryJob(j) ==
  /\ Serving
  /\ row[j].status = "failed"
  /\ ~(row[j].phase = "submit" /\ row[j].error = "overload")
  /\ row[j].attempt < MaxAttempts
  /\ row' = [row EXCEPT ![j].status = "queued", ![j].error = "none"]
  /\ UNCHANGED <<proc, runs, wmTasks>>

\* Mutant: a watermark retry is accepted whatever watermark_status is.
RetryWatermarkAlways(o, j) ==
  /\ proc[o] = "up"
  /\ row[j].published
  /\ row' = [row EXCEPT ![j].status = "running", ![j].phase = "watermark",
                        ![j].wm = "queued", ![j].error = "none"]
  /\ wmTasks' = wmTasks \cup {[job |-> j, owner |-> o, pc |-> "begin"]}
  /\ UNCHANGED <<proc, runs>>

\* retry_sora_watermark: no look at the status, no lease, a detached task.
RetryWatermark(o, j) ==
  /\ proc[o] = "up"
  /\ row[j].published /\ row[j].wm = "failed"
  /\ row' = [row EXCEPT ![j].status = "running", ![j].phase = "watermark",
                        ![j].wm = "queued", ![j].error = "none"]
  /\ wmTasks' = wmTasks \cup {[job |-> j, owner |-> o, pc |-> "begin"]}
  /\ UNCHANGED <<proc, runs>>

-----------------------------------------------------------------------------
(* The detached task run_sora_watermark_retry *)

WmFailed(cur) == [cur EXCEPT !.status = "failed", !.phase = "watermark", !.error = "other"]

\* It starts parsing, or ends at once when the feature is switched off.
WmTaskBegin(w) ==
  /\ w.pc = "begin"
  /\ \/ /\ row' = [row EXCEPT ![w.job].phase = "watermark", ![w.job].wm = "running"]
        /\ wmTasks' = (wmTasks \ {w}) \cup {[w EXCEPT !.pc = "parsing"]}
     \/ /\ row' = [row EXCEPT ![w.job] = WmFailed(@)]
        /\ wmTasks' = wmTasks \ {w}
  /\ UNCHANGED <<proc, runs>>

\* The link is parsed, or the share link stands in for it, or the job fails.
WmTaskEnd(w) ==
  /\ w.pc = "parsing"
  /\ wmTasks' = wmTasks \ {w}
  /\ \/ row' = [row EXCEPT ![w.job] = Complete(@, "completed")]
     \/ row' = [row EXCEPT ![w.job] = Complete(@, "fallback")]
     \/ row' = [row EXCEPT ![w.job] = WmFailed([@ EXCEPT !.wm = "failed"])]
  /\ UNCHANGED <<proc, runs>>

-----------------------------------------------------------------------------
Life(o) == StartProcess(o) \/ StopProcess(o) \/ ExitProcess(o) \/ Crash(o)

\* What the event loop does to a run of its own accord.
Step(r) ==
  \/ StartRun(r)
  \/ SubmitAccepted(r) \/ TokenFound(r)
  \/ PollGeneration(r) \/ ProgressDone(r) \/ PollCanceled(r)
  \/ FetchGeneration(r) \/ GenidDone(r)
  \/ PublishDone(r)
  \/ WatermarkBegin(r) \/ WatermarkDone(r) \/ WatermarkExhausted(r) \/ WatermarkGiveUp(r)
  \/ RunError(r) \/ RunTimeout(r)
  \/ OverloadDone(r) \/ EndRun(r)

WmStep(w) == WmTaskBegin(w) \/ WmTaskEnd(w)

Request(j) ==
  \/ CreateJob(j) \/ CancelJob(j) \/ RetryJob(j)
  \/ \E o \in Owners : RetryWatermark(o, j)

Next ==
  \/ \E o \in Owners : Life(o) \/ LoopPass(o)
  \/ \E r \in runs : Step(r) \/ Heartbeat(r) \/ CancelRun(r)
  \/ \E w \in wmTasks : WmStep(w)
  \/ \E j \in Jobs : Request(j) \/ BudgetSpent(j)
  \/ Tick

Spec == Init /\ [][Next]_vars

\* What happens without anybody's help: a ready callback is run, the clock
\* advances and timers fire.  No browser, no server and no user has to answer.
OwnStep(r) ==
  \/ StartRun(r) \/ PollCanceled(r) \/ GenidDone(r) \/ RunTimeout(r)
  \/ WatermarkGiveUp(r) \/ OverloadDone(r) \/ EndRun(r) \/ CancelRun(r)

Fairness ==
  /\ \A j \in Jobs : /\ WF_vars(\E r \in runs : r.job = j /\ OwnStep(r))
                      /\ WF_vars(\E r \in runs : r.job = j /\ Heartbeat(r))
                      /\ WF_vars(BudgetSpent(j))
  /\ \A o \in Owners : WF_vars(LoopPass(o)) /\ WF_vars(ExitProcess(o))
  /\ SF_vars(Tick)

FairSpec == Spec /\ Fairness

-----------------------------------------------------------------------------
(* Properties *)

\* A job never has two runs, neither in one process nor in two, of processes that
\* do not stall, whatever stalling processes do beside them: the lease that
\* claim_next_sora_job takes and the heartbeat keeps excludes a second claim for
\* as long as the first run, including its finally block, is alive.
SingleRun == \A r, s \in TimelyRuns : r.job = s.job => r = s

\* Every run of a process that does not stall works under a current lease in its
\* own owner's name.
RunsAreLeased ==
  \A r \in TimelyRuns : /\ row[r.job].owner = r.owner
                        /\ row[r.job].lease > 0
                        /\ proc[r.owner] \in {"up", "stopping"}

\* A job that says completed has everything the phases had to produce, whatever
\* crashes, timeouts, cancellations and retries it went through.
CompletedHasResult ==
  \A j \in Jobs : row[j].status = "completed" =>
    row[j].task /\ row[j].gen /\ row[j].published

\* At most one detached watermark retry per job: the only guard is that
\* watermark_status is "failed", which a live retry must never be.
OneWatermarkRetry ==
  /\ \A v, w \in wmTasks : v.job = w.job => v = w
  /\ \A w \in wmTasks : row[w.job].wm # "failed"

\* Work that Sora has been paid for is not repeated: retries, restarts and late
\* results never take a job back to an earlier phase once it left submit.
Rank(p) == CASE p = "queue" -> 0 [] p = "submit" -> 1 [] p = "progress" -> 2
             [] p = "genid" -> 3 [] p = "publish" -> 4 [] OTHER -> 5
PhaseNeverGoesBack == [][\A j \in Jobs : Rank(row[j].phase) <= Rank(row'[j].phase)]_vars

\* generate_timeout_seconds limits the whole job from its first start, over all
\* phases and retries: once it is spent no run submits, and no genid or publish
\* phase begins.
BudgetIsTotal ==
  [][\A j \in Jobs : row[j].budget = "spent" =>
       /\ row'[j].phase \in {"genid", "publish"} => row'[j].phase = row[j].phase
       /\ \A r \in runs' : r.job = j /\ r.pc = "submit" => r \in runs]_vars

\* The lease columns of sora_jobs implement the lease lock, even when processes
\* stall past their leases: no claim, heartbeat, clean-up or recovery ever takes
\* a valid lease from one owner to another.
Lock == INSTANCE LeaseLock WITH
          Keys   <- Jobs,
          holder <- [j \in Jobs |-> row[j].owner],
          valid  <- [j \in Jobs |-> row[j].lease > 0]
ImplementsLeaseLock == Lock!Spec

\* A valid lease ends early only in the finally block of a run of its holder: a
\* run that stalled past its lease clears nothing that was claimed after it.
OnlyHolderReleases ==
  [][\A j \in Jobs : Leased(j) /\ row'[j].owner = NoOwner =>
       \E r \in runs \ runs' : r.job = j /\ r.owner = row[j].owner]_vars

\* cancel_sora_job treats "canceled" as an end and retry_sora_job refuses it:
\* "任务已取消，无法重试" (sora_jobs.py:462).
CanceledIsFinal ==
  [][\A j \in Jobs : row[j].status = "canceled" => row'[j].status = "canceled"]_vars

\* retry_sora_job refuses a job that says running because "任务正在执行中", it is
\* being executed (sora_jobs.py:458): some task works on it.
RunningIsExecuting ==
  \A j \in Jobs : row[j].status = "running" /\ Serving =>
    \/ \E r \in runs : r.job = j
    \/ \E w \in wmTasks : w.job = j

\* Every run ends: with no answer from any browser or server the total timeout
\* brings it to its finally block, and a stopped process to its exit.
RunsEnd == \A j \in Jobs : (\E r \in runs : r.job = j) ~> ~(\E r \in runs : r.job = j)

\* A queued job is not forgotten: the lease of a process that died with it runs
\* out, and as long as some process serves, a pass claims and starts it.
QueuedIsServed ==
  \A j \in Jobs : row[j].status = "queued" ~> (row[j].status # "queued" \/ ~Serving)
=============================================================================
