---------------------------- MODULE NurtureBatch ----------------------------
(***************************************************************************)
(* Nurture batches: a batch is claimed under a lease by a worker process,  *)
(* which opens the windows of its jobs one after the other and lets each   *)
(* account scroll and like for a while.  Batches are cancelled and their   *)
(* failed jobs retried over HTTP, and recovered when a process starts.     *)
(*                                                                         *)
(* A process is one event loop with synchronous database calls: what lies  *)
(* between two await points is one step.  A restarted process is another   *)
(* member of Owners.                                                       *)
(***************************************************************************)
EXTENDS Naturals, FiniteSets

CONSTANTS
  Batches, Jobs,   \* ids, handed out in increasing order
  BatchOf,         \* the batch each job is made for
  Owners,          \* owner names of the processes of one history
  None,            \* no owner, no job
  LeaseTicks,      \* length of a lease, in ticks of the clock
  MaxLive,         \* how many processes may serve one database at a time
  Timely           \* does every event loop run often enough to keep its leases?

ASSUME IdsAssumption == Batches \subseteq Nat /\ Jobs \subseteq Nat /\ IsFiniteSet(Jobs)
ASSUME BatchOfAssumption == BatchOf \in [Jobs -> Batches]
ASSUME OwnersAssumption == None \notin Owners
ASSUME BoundsAssumption == LeaseTicks \in Nat \ {0} /\ MaxLive \in Nat /\ Timely \in BOOLEAN

VARIABLES
  batch,  \* table sora_nurture_batches
  job,    \* the status column of sora_nurture_jobs
  proc,   \* life of each process
  run,    \* the batch each process works on, _nurture_running
  busy    \* jobs whose window has a generation job queued or running

vars == <<batch, job, proc, run, busy>>

Terminal == {"completed", "failed", "canceled", "skipped"}
JobStatuses == {"absent", "queued", "running"} \cup Terminal
Ended == {"completed", "failed", "canceled"}

\* success_count, failed_count (with the skipped ones) and canceled_count.
Tally == [ok : Nat, bad : Nat, off : Nat]
Zero  == [ok |-> 0, bad |-> 0, off |-> 0]

Batch == [status : {"absent", "queued", "running"} \cup Ended,
          owner : Owners \cup {None}, lease : 0 .. LeaseTicks, tally : Tally]

\* todo is what is left of the list of jobs read when the run began, seen the
\* active_map read when the first job was due, tally the run's own counters.
\* "launching" is the wait for the task of a job to begin, "leaving" an engage
\* loop that has seen the cancellation, Closing a job that has ended like that
\* and whose window is being closed, "quitting" the end of playwright.
Closing == {"completed", "failed", "canceled"}
PCs == Closing \cup {"spawned", "opening", "launching", "working", "leaving",
                     "quitting", "tail"}
Run == [batch : Batches, pc : PCs, todo : SUBSET Jobs, seen : SUBSET Jobs,
        job : Jobs \cup {None}, tally : Tally]
NoRun == [pc |-> "none"]

TypeOK ==
  /\ batch \in [Batches -> Batch]
  /\ job \in [Jobs -> JobStatuses]
  /\ proc \in [Owners -> {"new", "up", "stopping", "dead"}]
  /\ run \in [Owners -> Run \cup {NoRun}]
  /\ busy \subseteq Jobs

Init ==
  /\ batch = [b \in Batches |-> [status |-> "absent", owner |-> None,
                                 lease |-> 0, tally |-> Zero]]
  /\ job = [j \in Jobs |-> "absent"]
  /\ proc = [o \in Owners |-> "new"]
  /\ run = [o \in Owners |-> NoRun]
  /\ busy = {}

Serving    == \E o \in Owners : proc[o] = "up"
JobsOf(b)  == {j \in Jobs : BatchOf[j] = b /\ job[j] # "absent"}
Leased(b)  == batch[b].owner # None /\ batch[b].lease > 0

\* Jobs with a status among S, out of the set J, under the job table jt.
With(jt, J, S) == {j \in J : jt[j] \in S}
Paint(jt, J, status) == [j \in Jobs |-> IF j \in J THEN status ELSE jt[j]]

-----------------------------------------------------------------------------
(* Process life cycle, leases and time *)

\* Mutant: the phase a job goes back to is written as its status.
RecoveredJobsMislabelled(S) ==
  Paint(job, With(job, {j \in Jobs : BatchOf[j] \in S}, {"running"}), "queue")

RecoveredJobs(S) == Paint(job, With(job, {j \in Jobs : BatchOf[j] \in S}, {"running"}), "queued")

\* worker_runner.start(): running batches without a valid lease are queued again,
\* with the jobs that were being worked on.
StartProcess(o) ==
  LET S == {b \in Batches : batch[b].status = "running" /\ ~Leased(b)}
  IN /\ proc[o] = "new"
     /\ Cardinality({p \in Owners : proc[p] \in {"up", "stopping"}}) < MaxLive
     /\ proc' = [proc EXCEPT ![o] = "up"]
     /\ batch' = [b \in Batches |->
                    IF b \in S THEN [batch[b] EXCEPT !.status = "queued", !.owner = None,
                                                     !.lease = 0]
                    ELSE batch[b]]
     /\ job' = RecoveredJobs(S)
     /\ UNCHANGED <<run, busy>>

StopProcess(o) ==
  /\ proc[o] = "up"
  /\ proc' = [proc EXCEPT ![o] = "stopping"]
  /\ UNCHANGED <<batch, job, run, busy>>

ExitProcess(o) ==
  /\ proc[o] = "stopping" /\ run[o] = NoRun
  /\ proc' = [proc EXCEPT ![o] = "dead"]
  /\ UNCHANGED <<batch, job, run, busy>>

Crash(o) ==
  /\ proc[o] \in {"up", "stopping"}
  /\ proc' = [proc EXCEPT ![o] = "dead"]
  /\ run' = [run EXCEPT ![o] = NoRun]
  /\ UNCHANGED <<batch, job, busy>>

\* Mutants: a claim that ignores leases, or takes no row that has an owner.
ClaimableAlways(b)  == batch[b].status = "queued"
ClaimableUnowned(b) == batch[b].status = "queued" /\ batch[b].owner = None

Claimable(b) == batch[b].status = "queued" /\ ~Leased(b)

\* One pass of _nurture_loop while no batch is being worked on.
Claim(o) ==
  /\ proc[o] = "up" /\ run[o] = NoRun
  /\ \E b \in Batches :
       /\ Claimable(b)
       /\ \A c \in Batches : Claimable(c) => b <= c
       /\ batch' = [batch EXCEPT ![b].owner = o, ![b].lease = LeaseTicks]
       /\ run' = [run EXCEPT ![o] = [batch |-> b, pc |-> "spawned", todo |-> {},
                                     seen |-> {}, job |-> None, tally |-> Zero]]
  /\ UNCHANGED <<job, proc, busy>>

Heartbeat(o) ==
  /\ proc[o] = "up"
  /\ run[o].pc \in PCs \ {"spawned", "tail"}
  /\ batch[run[o].batch].owner = o
  /\ batch' = [batch EXCEPT ![run[o].batch].lease = LeaseTicks]
  /\ UNCHANGED <<job, proc, run, busy>>

\* The clock.  In a timely system a run renews the lease it still has.
Tick ==
  /\ \E b \in Batches : batch[b].lease > 0
  /\ Timely => \A o \in Owners : run[o] # NoRun =>
       LET b == run[o].batch IN batch[b].owner = o => batch[b].lease > 1
  /\ batch' = [b \in Batches |->
                 [batch[b] EXCEPT !.lease = IF @ > 0 THEN @ - 1 ELSE 0]]
  /\ UNCHANGED <<job, proc, run, busy>>

\* Generation jobs come and go on the same windows (module SoraJobQueue).
GenerationChanges(j) ==
  /\ job[j] # "absent"
  /\ busy' = IF j \in busy THEN busy \ {j} ELSE busy \cup {j}
  /\ UNCHANGED <<batch, job, proc, run>>

-----------------------------------------------------------------------------
(* One run: _run_one_nurture_batch around _run_batch_impl *)

SetRun(o, r)  == run' = [run EXCEPT ![o] = r] /\ UNCHANGED <<proc, busy>>
SetBatch(b, new) == batch' = [batch EXCEPT ![b] = new]

\* _cancel_remaining_jobs, on a job table jt and a batch row bt.
CancelRemaining(b, jt, bt) ==
  LET rest == JobsOf(b) \ With(jt, JobsOf(b), Terminal)
  IN /\ job' = Paint(jt, rest, "canceled")
     /\ SetBatch(b, [bt EXCEPT !.tally.off = @ + Cardinality(rest)])

\* The head of the loop over the jobs, for a run r, a job table jt and a batch
\* row bt: stop if the batch is canceled, pass over the jobs whose window was
\* busy when the map was read, then launch the next job or leave the loop.
Advance(o, r, jt, bt) ==
  LET open    == r.todo \ r.seen
      skipped == {i \in r.todo \cap r.seen : \A k \in open : i < k}
      tally   == [r.tally EXCEPT !.bad = @ + Cardinality(skipped)]
      passed  == [r EXCEPT !.todo = @ \ skipped, !.tally = tally]
  IN IF bt.status = "canceled"
     THEN CancelRemaining(r.batch, jt, bt) /\ SetRun(o, [r EXCEPT !.pc = "quitting"])
     ELSE /\ job' = Paint(jt, skipped, "skipped")
          /\ SetBatch(r.batch, [bt EXCEPT !.tally.bad =
                                  IF skipped = {} THEN @ ELSE tally.bad])
          /\ \/ open = {} /\ SetRun(o, [passed EXCEPT !.pc = "quitting"])
             \/ \E j \in open :
                  /\ \A k \in open : j <= k
                  /\ SetRun(o, [passed EXCEPT !.pc = "launching", !.job = j,
                                              !.todo = @ \ {j}])

\* Mutant: jobs that have already ended are put on the list again.
TodoAll(b) == JobsOf(b)
Todo(b)    == JobsOf(b) \ With(job, JobsOf(b), Terminal)

\* First slice, up to the start of playwright.
BeginRun(o) ==
  LET r == run[o]  b == r.batch
  IN /\ r.pc = "spawned"
     /\ \/ /\ batch[b].status = "canceled"
           /\ CancelRemaining(b, job, batch[b]) /\ SetRun(o, [r EXCEPT !.pc = "tail"])
        \/ /\ batch[b].status \in {"running", "completed", "failed"}
           /\ SetRun(o, [r EXCEPT !.pc = "tail"]) /\ UNCHANGED <<batch, job>>
        \/ /\ batch[b].status = "queued" /\ JobsOf(b) = {}
           /\ SetBatch(b, [batch[b] EXCEPT !.status = "failed"])
           /\ SetRun(o, [r EXCEPT !.pc = "tail"]) /\ UNCHANGED job
        \/ /\ batch[b].status = "queued" /\ JobsOf(b) # {}
           /\ SetBatch(b, [batch[b] EXCEPT !.status = "running"])
           /\ SetRun(o, [r EXCEPT !.pc = "opening", !.todo = Todo(b)]) /\ UNCHANGED job

\* Playwright is up; the map of busy windows is read once for the whole batch.
Opened(o) ==
  /\ run[o].pc = "opening"
  /\ Advance(o, [run[o] EXCEPT !.seen = busy], job, batch[run[o].batch])

JobBegins(o) ==
  /\ run[o].pc = "launching"
  /\ job' = [job EXCEPT ![run[o].job] = "running"]
  /\ SetRun(o, [run[o] EXCEPT !.pc = "working"])
  /\ UNCHANGED batch

\* The engage loop looks at the batch before every post.
SeesCancel(o) ==
  /\ run[o].pc = "working"
  /\ batch[run[o].batch].status = "canceled"
  /\ SetRun(o, [run[o] EXCEPT !.pc = "leaving"])
  /\ UNCHANGED <<batch, job>>

\* The job ends one way or another and its window is still open.
JobEnds(o) ==
  /\ run[o].pc \in {"working", "leaving"}
  /\ \E s \in {IF run[o].pc = "working" THEN "completed" ELSE "canceled", "failed"} :
       /\ job' = [job EXCEPT ![run[o].job] = s]
       /\ SetRun(o, [run[o] EXCEPT !.pc = s])
  /\ UNCHANGED batch

Counted(t, s) == CASE s = "completed" -> [t EXCEPT !.ok = @ + 1]
                   [] s = "canceled"  -> [t EXCEPT !.off = @ + 1]
                   [] OTHER           -> [t EXCEPT !.bad = @ + 1]

\* The outcome s of the job is counted, the counters are written, and the loop
\* goes on with the next job.
CountJob(o, jt, s) ==
  LET r == [run[o] EXCEPT !.tally = Counted(@, s)]
  IN Advance(o, r, jt, [batch[r.batch] EXCEPT !.tally = r.tally])

JobClosed(o) ==
  /\ run[o].pc \in Closing
  /\ CountJob(o, job, run[o].pc)

\* Mutant: the time limit does not cover the closing of the window.
JobTimeoutInTime(o) ==
  /\ run[o].pc \in {"working", "leaving"}
  /\ CountJob(o, Paint(job, {run[o].job}, "failed"), "failed")

\* wait_for runs out: the job is failed whatever its row says by now.
JobTimeout(o) ==
  /\ run[o].pc \in {"working", "leaving"} \cup Closing
  /\ CountJob(o, Paint(job, {run[o].job}, "failed"), "failed")

\* An exception that no job catches: playwright does not start, the database is locked.
RunRaises(o) ==
  /\ run[o].pc \in {"opening", "quitting"} \cup Closing
  /\ SetRun(o, [run[o] EXCEPT !.pc = "tail"])
  /\ UNCHANGED <<batch, job>>

\* Mutants: the counters of this run alone are written; a cancellation is lost.
FinalRowLocal(b, t) ==
  [batch[b] EXCEPT !.tally = t,
     !.status = IF @ = "canceled" THEN @ ELSE IF t.bad > 0 THEN "failed" ELSE "completed"]
FinalRowForgetful(b, t) ==
  LET bad == Cardinality(With(job, JobsOf(b), {"failed", "skipped"}))
  IN [batch[b] EXCEPT
        !.tally = [ok |-> Cardinality(With(job, JobsOf(b), {"completed"})), bad |-> bad,
                   off |-> Cardinality(With(job, JobsOf(b), {"canceled"}))],
        !.status = IF bad > 0 THEN "failed" ELSE "completed"]

\* The batch row at the end of a run: the counts of _calc_batch_stats and the
\* status that follows from them, unless the batch is canceled.
FinalRow(b, t) ==
  LET bad == Cardinality(With(job, JobsOf(b), {"failed", "skipped"}))
  IN [batch[b] EXCEPT
        !.tally = [ok |-> Cardinality(With(job, JobsOf(b), {"completed"})), bad |-> bad,
                   off |-> Cardinality(With(job, JobsOf(b), {"canceled"}))],
        !.status = IF @ = "canceled" THEN @ ELSE IF bad > 0 THEN "failed" ELSE "completed"]

FinishRun(o) ==
  /\ run[o].pc = "quitting"
  /\ SetBatch(run[o].batch, FinalRow(run[o].batch, run[o].tally))
  /\ SetRun(o, [run[o] EXCEPT !.pc = "tail"])
  /\ UNCHANGED job

ClearLease(b, o) ==
  IF batch[b].owner = o THEN [batch[b] EXCEPT !.owner = None, !.lease = 0] ELSE batch[b]

\* The finally block of _run_one_nurture_batch.
EndRun(o) ==
  /\ run[o].pc = "tail"
  /\ SetBatch(run[o].batch, ClearLease(run[o].batch, o))
  /\ SetRun(o, NoRun)
  /\ UNCHANGED job

\* stop() cancels the task: a job stays as its row says, the lease is cleared
\* unless the task had not begun or was in its finally block.
CancelRun(o) ==
  /\ proc[o] = "stopping"
  /\ \/ run[o].pc \in {"spawned", "tail"} /\ SetRun(o, NoRun)
     \/ /\ run[o].pc \in PCs \ {"spawned", "tail"}
        /\ SetRun(o, [run[o] EXCEPT !.pc = "tail"])
  /\ UNCHANGED <<batch, job>>

-----------------------------------------------------------------------------
(* HTTP handlers *)

\* create_batch writes the batch and then its jobs one by one; the process may
\* die in between.
MadeFor(b) == {j \in Jobs : BatchOf[j] = b}
NextBatch(b) == batch[b].status = "absent" /\ \A c \in Batches : c < b => batch[c].status # "absent"

CreateBatch(b) ==
  /\ Serving /\ NextBatch(b)
  /\ SetBatch(b, [batch[b] EXCEPT !.status = "queued"])
  /\ job' = Paint(job, MadeFor(b), "queued")
  /\ UNCHANGED <<proc, run, busy>>

CrashInCreate(o, b) ==
  /\ proc[o] = "up" /\ NextBatch(b)
  /\ SetBatch(b, [batch[b] EXCEPT !.status = "queued"])
  /\ \E S \in SUBSET MadeFor(b) :
       /\ \A i \in S, k \in MadeFor(b) : k < i => k \in S
       /\ job' = Paint(job, S, "queued")
  /\ proc' = [proc EXCEPT ![o] = "dead"]
  /\ run' = [run EXCEPT ![o] = NoRun]
  /\ UNCHANGED busy

\* A running batch is only marked; a queued one loses its queued jobs at once.
CancelBatch(b) ==
  LET waiting == With(job, JobsOf(b), {"queued"})
      off     == [batch[b] EXCEPT !.status = "canceled"]
  IN /\ Serving
     /\ \/ batch[b].status = "running" /\ SetBatch(b, off) /\ UNCHANGED job
        \/ /\ batch[b].status = "queued"
           /\ SetBatch(b, [off EXCEPT !.tally.off = @ + Cardinality(waiting)])
           /\ job' = Paint(job, waiting, "canceled")
     /\ UNCHANGED <<proc, run, busy>>

\* retry_batch_failed_jobs: the failed jobs and the batch are queued again, and
\* the lease is cleared whoever has it.
RetryBatch(b) ==
  LET failed == With(job, JobsOf(b), {"failed"})
  IN /\ Serving
     /\ batch[b].status \in Ended /\ failed # {}
     /\ job' = Paint(job, failed, "queued")
     /\ SetBatch(b, [status |-> "queued", owner |-> None, lease |-> 0,
          tally |-> [ok  |-> Cardinality(With(job, JobsOf(b), {"completed"})),
                     bad |-> Cardinality(With(job, JobsOf(b), {"skipped"})),
                     off |-> Cardinality(With(job, JobsOf(b), {"canceled"}))]])
     /\ UNCHANGED <<proc, run, busy>>

-----------------------------------------------------------------------------
Life(o) == StartProcess(o) \/ StopProcess(o) \/ ExitProcess(o) \/ Crash(o)

Step(o) ==
  \/ BeginRun(o) \/ Opened(o) \/ JobBegins(o) \/ SeesCancel(o) \/ JobEnds(o)
  \/ JobClosed(o) \/ JobTimeout(o) \/ RunRaises(o) \/ FinishRun(o) \/ EndRun(o)

Request(b) ==
  \/ CreateBatch(b) \/ CancelBatch(b) \/ RetryBatch(b)
  \/ \E o \in Owners : CrashInCreate(o, b)

Next ==
  \/ \E o \in Owners : Life(o) \/ Claim(o) \/ Step(o) \/ Heartbeat(o) \/ CancelRun(o)
  \/ \E b \in Batches : Request(b)
  \/ \E j \in Jobs : GenerationChanges(j)
  \/ Tick

Spec == Init /\ [][Next]_vars

\* Callbacks and timers run, and the playwright driver, a local process, starts
\* and ends or fails to.  No window, no site and no user has to answer.
OwnStep(o) ==
  \/ BeginRun(o) \/ Opened(o) \/ JobBegins(o) \/ JobTimeout(o)
  \/ FinishRun(o) \/ EndRun(o) \/ CancelRun(o)

Fairness ==
  /\ \A o \in Owners : /\ WF_vars(OwnStep(o)) /\ WF_vars(Heartbeat(o))
                        /\ WF_vars(Claim(o)) /\ WF_vars(ExitProcess(o))
  /\ SF_vars(Tick)

FairSpec == Spec /\ Fairness

-----------------------------------------------------------------------------
(* Properties *)

\* A batch that says it has ended adds up: no job of it is still marked running,
\* the counters are those of its jobs, over all its runs, recoveries and retries,
\* and it is failed exactly if a job failed or was skipped.
EndedBatchAddsUp ==
  \A b \in Batches : batch[b].status \in {"completed", "failed"} =>
    LET N(S) == Cardinality(With(job, JobsOf(b), S))
    IN /\ N({"running"}) = 0
       /\ batch[b].tally = [ok |-> N({"completed"}), bad |-> N({"failed", "skipped"}),
                            off |-> N({"canceled"})]
       /\ JobsOf(b) # {} => (batch[b].status = "failed" <=> batch[b].tally.bad > 0)

\* A cancelled batch stays cancelled until somebody retries a failed job of it,
\* whatever the run under way writes afterwards.
CancelHolds ==
  [][\A b \in Batches : batch[b].status = "canceled" /\ batch'[b].status # "canceled" =>
       /\ batch'[b].status = "queued"
       /\ \E j \in JobsOf(b) : job[j] = "failed" /\ job'[j] = "queued"]_vars

\* Likes and follows are not repeated: no restart, recovery or retry takes a job
\* that has completed back to work.  (A timeout while its window is being closed
\* may still call it failed.)
CompletedIsNotRepeated ==
  [][\A j \in Jobs : job[j] = "completed" => job'[j] \in {"completed", "failed"}]_vars

\* The lease columns of sora_nurture_batches implement the lease lock, whether
\* or not processes stall.
Lock == INSTANCE LeaseLock WITH
          Keys    <- Batches,
          NoOwner <- None,
          holder  <- [b \in Batches |-> batch[b].owner],
          valid   <- [b \in Batches |-> batch[b].lease > 0]
ImplementsLeaseLock == Lock!Spec

\* Every run comes to its end, even if no window and no site ever answers.
RunsEnd == \A o \in Owners : run[o] # NoRun ~> run[o] = NoRun

\* A queued batch is not forgotten as long as some process serves: not the one
\* whose process died before its run began, nor the one that recovery queued.
QueuedIsServed ==
  \A b \in Batches : batch[b].status = "queued" ~> (batch[b].status # "queued" \/ ~Serving)

\* retry_batch_failed_jobs refuses a batch that is being executed: "任务组正在执行，
\* 无法重试" (sora_nurture_service.py:254).
RetryWaitsForRun ==
  [][\A b \in Batches : batch[b].status \in Ended /\ batch'[b].status = "queued" =>
       \A o \in Owners : run[o] # NoRun => run[o].batch # b \/ run[o].pc = "tail"]_vars
=============================================================================
