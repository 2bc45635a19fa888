-------------------------- MODULE AccountDispatch --------------------------
(***************************************************************************)
(* How the server chooses an account for a new job                         *)
(* (app/services/account_dispatch_service.py): from the last reading of    *)
(* the account's quota, less the jobs that wait for their submit, and from *)
(* the failures in the event log, which make an account rest.              *)
(*                                                                         *)
(* Several processes may serve one database. Choosing and inserting has no *)
(* await in between, so one process does nothing else meanwhile, but       *)
(* another may.                                                            *)
(***************************************************************************)
EXTENDS Integers, FiniteSets

CONSTANTS
  Accounts,      \* windows of the group
  Jobs,          \* job ids
  Procs,         \* server processes
  None,          \* no account, no quota, no reset time
  Kinds,         \* kinds of failure the rules tell apart
  Cooldown,      \* how long an account rests after each kind, 0 for not at all
  Lookback,      \* how far back dispatch reads failures (lookback_hours)
  LogSpan,       \* what cleaning the event log always leaves
  MinRemaining,  \* min_quota_remaining
  Grace,         \* quota_reset_grace_minutes
  Quota,         \* values a reading of the quota may have
  Releases,      \* how far ahead the next release of a reading may be
  MaxTime        \* bound on the clock

\* What the constants have to be.
QuotaIsCounted == Quota \subseteq Nat /\ Releases \subseteq Nat
SpansAreTimes ==
  /\ Cooldown \in [Kinds -> Nat]
  /\ Lookback \in Nat /\ LogSpan \in Nat /\ Grace \in Nat /\ MinRemaining \in Nat
\* No rest is longer than what dispatch reads and the log keeps. The settings allow
\* otherwise: a week of rest, an hour of lookback.
CooldownIsRemembered ==
  \A k \in Kinds : Cooldown[k] <= Lookback /\ Cooldown[k] <= LogSpan
Constants ==
  /\ IsFiniteSet(Jobs) /\ IsFiniteSet(Procs)
  /\ None \notin Accounts \cup Int
  /\ QuotaIsCounted /\ SpansAreTimes /\ CooldownIsRemembered

VARIABLES
  now,      \* clock
  reading,  \* merged scan row of an account: generations left, next release
  job,      \* table sora_jobs, without the rows that are completed or canceled
  log,      \* events "fail" of event_logs
  pick,     \* account a process has chosen and not yet inserted a job for
  rest,     \* history: until when an account was told to rest
  peak      \* history: the largest estimate there may have been of an account since
            \* it last had none of the jobs that dispatch gave it waiting

vars == <<now, reading, job, log, pick, rest, peak>>

Reading == [left : Quota \cup {None}, reset : Nat \cup {None}]
Event   == [account : Accounts, kind : Kinds, at : Nat]
Row     == [status : {"absent", "live", "failed"},
            account : Accounts \cup {None}, submitted : BOOLEAN, auto : BOOLEAN]

NoRow == [status |-> "absent", account |-> None, submitted |-> FALSE, auto |-> FALSE]

Larger(m, n) == IF m >= n THEN m ELSE n

-----------------------------------------------------------------------------
\* What dispatch computes

\* Jobs of an account that are queued or running and have no task yet.
Pending(a) == {j \in Jobs : /\ job[j].status = "live"
                            /\ job[j].account = a
                            /\ ~job[j].submitted}

ResetPassed(a) == reading[a].reset # None /\ reading[a].reset <= now

\* Mutant: the reading alone, whatever its age.
EstimateRaw(a) == reading[a].left

\* The last reading; an exhausted account whose release has come counts as one.
Estimate(a) == IF reading[a].left = 0 /\ ResetPassed(a) THEN 1 ELSE reading[a].left

\* Mutant: no reservation for jobs that wait.
EffectiveRaw(a) == Estimate(a)

Effective(a) == LET n == Estimate(a) - Cardinality(Pending(a))
                IN  IF n >= 0 THEN n ELSE 0

BlockedByQuota(a) ==
  /\ Estimate(a) # None
  /\ \/ Effective(a) = 0
     \/ /\ Effective(a) < MinRemaining
        /\ reading[a].reset # None => reading[a].reset - now > Grace

Recent == {e \in log : e.at >= now - Lookback}

\* Mutant: only the newest failure counts.
BlockedByLast(a) ==
  \E e \in Recent : /\ e.account = a /\ e.at + Cooldown[e.kind] > now
                   /\ \A f \in Recent : f.account = a => f.at <= e.at

BlockedByCooldown(a) ==
  \E e \in Recent : e.account = a /\ Cooldown[e.kind] > 0 /\ e.at + Cooldown[e.kind] > now

Selectable(a) == ~BlockedByQuota(a) /\ ~BlockedByCooldown(a)

-----------------------------------------------------------------------------
\* What dispatch may count on after a reading: a quota nobody knows does not bound it.
Bound(r) == IF r.left = None THEN Cardinality(Jobs) + 1 ELSE Larger(r.left, 1)

Init ==
  /\ now = 0
  /\ reading \in [Accounts -> [left : Quota \cup {None}, reset : Releases \cup {None}]]
  /\ job = [j \in Jobs |-> NoRow]
  /\ log = {}
  /\ pick = [p \in Procs |-> None]
  /\ rest = [a \in Accounts |-> 0]
  /\ peak = [a \in Accounts |-> Bound(reading[a])]

Tick ==
  /\ now < MaxTime
  /\ now' = now + 1
  /\ UNCHANGED <<reading, job, log, pick, rest>>

\* A scan or a response heard in a page gives a new reading.
Read(a) ==
  \E left \in Quota \cup {None}, reset \in {now + d : d \in Releases} \cup {None} :
    /\ reading' = [reading EXCEPT ![a] = [left |-> left, reset |-> reset]]
    /\ UNCHANGED <<now, job, log, pick, rest>>

\* pick_best_account: every row is read and the best account that is selectable
\* taken. Which one is best depends on scores that are not modelled.
Pick(p) ==
  /\ pick[p] = None
  /\ \E a \in Accounts : Selectable(a) /\ pick' = [pick EXCEPT ![p] = a]
  /\ UNCHANGED <<now, reading, job, log, rest>>

Inserted(j, a, auto) ==
  /\ job[j] = NoRow
  /\ job' = [job EXCEPT ![j] = [status |-> "live", account |-> a,
                                submitted |-> FALSE, auto |-> auto]]

\* The rest of create_sora_job and of the spawn after an overload.
Insert(p) ==
  /\ pick[p] # None
  /\ \E j \in Jobs : Inserted(j, pick[p], TRUE)
  /\ pick' = [pick EXCEPT ![p] = None]
  /\ UNCHANGED <<now, reading, log, rest>>

\* A user names the account; nothing is checked.
CreateManual ==
  /\ \E j \in Jobs, a \in Accounts : Inserted(j, a, FALSE)
  /\ UNCHANGED <<now, reading, log, pick, rest>>

\* Sora accepts the job: task_id is stored, and with it the reservation is gone. The
\* reading stays as it is until the next one.
Accept(j) ==
  /\ job[j].status = "live" /\ ~job[j].submitted
  /\ job' = [job EXCEPT ![j].submitted = TRUE]
  /\ UNCHANGED <<now, reading, log, pick, rest>>

\* A row that is completed or canceled is only counted in the scores.
Complete(j) ==
  /\ job[j].status = "live" /\ job[j].submitted
  /\ job' = [job EXCEPT ![j] = NoRow]
  /\ UNCHANGED <<now, reading, log, pick, rest>>

Cancel(j) ==
  /\ job[j].status = "live"
  /\ job' = [job EXCEPT ![j] = NoRow]
  /\ UNCHANGED <<now, reading, log, pick, rest>>

\* A run fails, or a start finds it stale: the failure is logged for its account.
Fail(j) ==
  /\ job[j].status = "live"
  /\ job' = [job EXCEPT ![j].status = "failed"]
  /\ \E k \in Kinds :
       LET a == job[j].account IN
       /\ log' = log \cup {[account |-> a, kind |-> k, at |-> now]}
       /\ rest' = [rest EXCEPT ![a] = Larger(@, now + Cooldown[k])]
  /\ UNCHANGED <<now, reading, pick>>

\* Mutant: the account has to be chosen again.
RetryAnywhere(j) ==
  /\ job[j].status = "failed"
  /\ job' = [job EXCEPT ![j].status = "live", ![j].account = None]
  /\ UNCHANGED <<now, reading, log, pick, rest>>

\* A retry by hand goes back to the same account; nothing is checked.
Retry(j) ==
  /\ job[j].status = "failed"
  /\ job' = [job EXCEPT ![j].status = "live", ![j].auto = FALSE]
  /\ UNCHANGED <<now, reading, log, pick, rest>>

\* cleanup_event_logs: by age, then the oldest while the log is too large.
CleanLog ==
  /\ \E cutoff \in 1 .. now - LogSpan : log' = {e \in log : e.at >= cutoff}
  /\ log' # log
  /\ UNCHANGED <<now, reading, job, pick, rest>>

\* A process dies between choosing and inserting.
Crash(p) ==
  /\ pick[p] # None
  /\ pick' = [pick EXCEPT ![p] = None]
  /\ UNCHANGED <<now, reading, job, log, rest>>

\* The jobs that dispatch gave an account and that wait for their submit, and the
\* processes that are about to give it one.
AutoPending(a) == {j \in Pending(a) : job[j].auto}
Choosing(a) == {p \in Procs : pick[p] = a}
Booked(a) == AutoPending(a) # {} \/ Choosing(a) # {}

\* The peak starts anew with the reading when nothing of an account is booked.
Remember ==
  peak' = [a \in Accounts |-> IF Booked(a)' THEN Larger(peak[a], Bound(reading'[a]))
                                            ELSE Bound(reading'[a])]

Next ==
  /\ \/ Tick
     \/ CreateManual
     \/ CleanLog
     \/ \E a \in Accounts : Read(a)
     \/ \E p \in Procs : Pick(p) \/ Insert(p) \/ Crash(p)
     \/ \E j \in Jobs : Accept(j) \/ Complete(j) \/ Cancel(j) \/ Fail(j) \/ Retry(j)
  /\ Remember

Spec == Init /\ [][Next]_vars

-----------------------------------------------------------------------------
(* Properties *)

TypeOK ==
  /\ now \in Nat
  /\ reading \in [Accounts -> Reading]
  /\ job \in [Jobs -> Row]
  /\ \A j \in Jobs : job[j].status # "absent" => job[j].account \in Accounts
  /\ log \subseteq Event
  /\ pick \in [Procs -> Accounts \cup {None}]
  /\ rest \in [Accounts -> Nat]
  /\ peak \in [Accounts -> Nat]

\* Dispatch does not choose an account between a failure that calls for rest and the
\* end of that rest, whatever was cleaned from the log and however many milder failures
\* came after. What was chosen before, a user who names the account and a retry by hand
\* are not held back by it.
RestIsRemembered == \A a \in Accounts : rest[a] > now => ~Selectable(a)

\* The reservations of dispatch are safe up to its race: as long as jobs it gave an
\* account wait for their submit, they and those about to be inserted exceed the largest
\* estimate of that time by at most one job for each other process. Jobs that Sora has
\* accepted no longer count, see SubmitIsDeducted.
OverbookingIsBounded ==
  \A a \in Accounts :
    Cardinality(AutoPending(a)) + Cardinality(Choosing(a))
      <= peak[a] + Cardinality(Procs) - 1

\* No account is lost for good: once the time of its next release has come, it can
\* be chosen again although its last reading said none were left and nobody reads
\* it again, unless it rests or its jobs wait.
ResetReopens ==
  \A a \in Accounts :
    ResetPassed(a) /\ rest[a] <= now /\ Pending(a) = {} => Selectable(a)

\* "每次任务提交时，本地立即按权重扣减估算余额" (docs/sora-quota.md:32): a submit is
\* deducted from what the account is taken to have left, so Sora accepting a job
\* never makes its account look fuller.
SubmitIsDeducted ==
  [][\A j \in Jobs : LET a == job[j].account IN
       /\ job[j].status = "live" /\ ~job[j].submitted /\ job'[j].submitted
       /\ Estimate(a) # None
       => Effective(a)' <= Effective(a)]_vars
=============================================================================
