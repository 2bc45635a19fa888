---------------------------- MODULE OverloadRetry ----------------------------
(***************************************************************************)
(* Retrying a generation on another account.  A job whose submit fails     *)
(* under heavy load is not retried on its own account: a child job is made *)
(* on an account the family has not tried.  The worker does so by itself   *)
(* when the submit fails, a user by asking for a retry; both wait for the  *)
(* list of windows between their checks and the insertion of the child.    *)
(*                                                                         *)
(* Of the life of a job only what concerns submit is kept; module          *)
(* SoraJobQueue has the rest.                                              *)
(***************************************************************************)
EXTENDS Naturals, FiniteSets

CONSTANTS
  Jobs,         \* job ids, handed out in increasing order
  None,         \* NULL, in retry_of_job_id and before a job exists
  Profiles,     \* the accounts of the group
  Callers,      \* coroutines that may be looking for an account at a time
  MaxAttempts,  \* heavy_load_retry_max_attempts, after clamping to 1 .. 10
  MaxRoots      \* bound on the jobs that are not retries of another

\* What the constants have to be.
Constants ==
  /\ Jobs \subseteq Nat /\ None \notin Jobs
  /\ MaxAttempts \in Nat \ {0}

VARIABLES
  job,         \* the rows of sora_jobs
  submitting,  \* jobs whose run is in the submit phase
  call         \* what each caller took with it when it began to wait

vars == <<job, submitting, call>>

Statuses == {"absent", "queued", "running", "overload", "failed", "canceled", "submitted"}

\* "overload" and "failed" are status failed in phase submit, with and without
\* a heavy-load error; "submitted" is whatever follows an accepted submit.
Row == [status : Statuses, profile : Profiles \cup {None},
        parent : Jobs \cup {None}, root : Jobs, idx : Nat]

Idle == [of |-> None, root |-> None, idx |-> 0, avoid |-> {}]
Wait == [of : Jobs, root : Jobs, idx : Nat, avoid : SUBSET (Profiles \cup {None})]

TypeOK ==
  /\ job \in [Jobs -> Row]
  /\ submitting \subseteq Jobs
  /\ call \in [Callers -> Wait \cup {Idle}]

Init ==
  /\ job = [j \in Jobs |-> [status |-> "absent", profile |-> None,
                            parent |-> None, root |-> j, idx |-> 0]]
  /\ submitting = {}
  /\ call = [c \in Callers |-> Idle]

Present   == {j \in Jobs : job[j].status # "absent"}
Roots     == {j \in Present : job[j].parent = None}
Fresh(j)  == j \notin Present /\ \A i \in Jobs : i < j => i \in Present

\* A root job and all that descend from it.
Family(r)   == {j \in Present : job[j].root = r}
Children(j) == {k \in Present : job[k].parent = j}
SetStatus(j, s) == job' = [job EXCEPT ![j].status = s]

-----------------------------------------------------------------------------
(* The life of a job as far as it concerns submit *)

\* create_sora_job, with the account given by hand or picked by weight.
Create(j, p) ==
  /\ Fresh(j) /\ Cardinality(Roots) < MaxRoots
  /\ job' = [job EXCEPT ![j].status = "queued", ![j].profile = p]
  /\ UNCHANGED <<submitting, call>>

Start(j) ==
  /\ job[j].status = "queued"
  /\ SetStatus(j, "running")
  /\ submitting' = submitting \cup {j}
  /\ UNCHANGED call

\* A run in submit does not notice that its row says canceled.
Cancel(j) ==
  /\ job[j].status \in {"queued", "running"}
  /\ SetStatus(j, "canceled")
  /\ UNCHANGED <<submitting, call>>

Accepted(j) ==
  /\ j \in submitting
  /\ SetStatus(j, "submitted")
  /\ submitting' = submitting \ {j}
  /\ UNCHANGED call

Fail(j) ==
  /\ j \in submitting
  /\ SetStatus(j, "failed")
  /\ submitting' = submitting \ {j}
  /\ UNCHANGED call

\* Mutant: a plain retry is allowed after an overload as well.
RetryAnyFailure(j) ==
  /\ job[j].status \in {"failed", "overload"}
  /\ SetStatus(j, "queued")
  /\ UNCHANGED <<submitting, call>>

\* retry_sora_job after any other error: the same job again.
Retry(j) ==
  /\ job[j].status = "failed"
  /\ SetStatus(j, "queued")
  /\ UNCHANGED <<submitting, call>>

-----------------------------------------------------------------------------
(* _spawn_sora_job_on_overload *)

MaxIdx(r) == CHOOSE m \in {job[k].idx : k \in Family(r)} :
               \A k \in Family(r) : job[k].idx <= m

\* Mutants: the limit is one too high, a child is made although there is one.
MaySpawnOnceMore(j)  == MaxIdx(job[j].root) < MaxAttempts /\ Children(j) = {}
MaySpawnAgain(j)     == MaxIdx(job[j].root) + 1 < MaxAttempts

\* The checks: total attempts below the limit, and no child yet; with a child
\* the call just returns it.
MaySpawn(j) == MaxIdx(job[j].root) + 1 < MaxAttempts /\ Children(j) = {}

\* Mutant: only the account that failed last is excluded.
SnapshotOwnAccount(j) == [of |-> j, root |-> job[j].root, idx |-> MaxIdx(job[j].root) + 1,
                          avoid |-> {job[j].profile}]

\* What was read before the wait and is used after it.
Snapshot(j) == [of |-> j, root |-> job[j].root, idx |-> MaxIdx(job[j].root) + 1,
                avoid |-> {job[j].profile} \cup {job[k].profile : k \in Family(job[j].root)}]

\* The submit reports heavy load: the run fails and looks for another account.
\* It does so even if the job was canceled in the meantime.
Overload(j, c) ==
  /\ j \in submitting
  /\ call[c] = Idle
  /\ SetStatus(j, "overload")
  /\ submitting' = submitting \ {j}
  /\ call' = IF MaySpawn(j) THEN [call EXCEPT ![c] = Snapshot(j)] ELSE call

\* retry_sora_job on a job that failed under heavy load.
RetryOverload(j, c) ==
  /\ job[j].status = "overload"
  /\ call[c] = Idle
  /\ MaySpawn(j)
  /\ call' = [call EXCEPT ![c] = Snapshot(j)]
  /\ UNCHANGED <<job, submitting>>

\* The windows have been listed and an account is free: the child is inserted.
\* Nothing is checked again.
Spawn(c, j, p) ==
  /\ call[c] # Idle
  /\ Fresh(j)
  /\ p \notin call[c].avoid
  /\ job' = [job EXCEPT ![j] = [status |-> "queued", profile |-> p, parent |-> call[c].of,
                                root |-> call[c].root, idx |-> call[c].idx]]
  /\ call' = [call EXCEPT ![c] = Idle]
  /\ UNCHANGED submitting

\* No account can be used, or an error.
GiveUp(c) ==
  /\ call[c] # Idle
  /\ call' = [call EXCEPT ![c] = Idle]
  /\ UNCHANGED <<job, submitting>>

\* The process stops or dies and is started again: nobody waits any more, and
\* recovery fails the running jobs whose lease has run out.
Restart ==
  /\ \E S \in SUBSET {j \in Jobs : job[j].status = "running"} :
       job' = [j \in Jobs |-> IF j \in S THEN [job[j] EXCEPT !.status = "failed"] ELSE job[j]]
  /\ submitting' = {}
  /\ call' = [c \in Callers |-> Idle]

Next ==
  \/ \E j \in Jobs :
       \/ \E p \in Profiles : Create(j, p)
       \/ Start(j) \/ Cancel(j) \/ Accepted(j) \/ Fail(j) \/ Retry(j)
       \/ \E c \in Callers :
            \/ Overload(j, c) \/ RetryOverload(j, c)
            \/ \E p \in Profiles : Spawn(c, j, p)
  \/ \E c \in Callers : GiveUp(c)
  \/ Restart

Spec == Init /\ [][Next]_vars

-----------------------------------------------------------------------------
(* Properties *)

\* A retry never goes back to an account on which an earlier attempt of its line
\* was refused: its parent, its parent's parent and so on (a set that has the
\* parent, and with a job that job's parent) all used other accounts, even when
\* several callers extend the family at the same time.
AncestorsAvoided ==
  \A j \in Present : job[j].parent # None =>
    \E S \in SUBSET Present :
      /\ job[j].parent \in S
      /\ \A k \in S : job[k].parent # None => job[k].parent \in S
      /\ \A k \in S : job[k].profile # job[j].profile

\* No line of retries is longer than heavy_load_retry_max_attempts: the index
\* grows from a job to its child and stays below the limit, whatever was stale
\* when the child was inserted.
LineIsBounded ==
  \A j \in Present :
    /\ job[j].idx < MaxAttempts
    /\ job[j].parent # None => /\ job[j].parent \in Present
                                /\ job[job[j].parent].idx < job[j].idx
                                /\ job[job[j].parent].root = job[j].root

\* get_sora_job with follow_retry shows the newest job of a family.  Unless the
\* family has branched, that is where the work goes on: every other job of it
\* has ended under heavy load for good.
Latest(r) == CHOOSE j \in Family(r) : \A k \in Family(r) : k <= j
Branched(r) == \E j, k \in Family(r) : j # k /\ job[j].parent = job[k].parent
FollowedJobIsTheLive ==
  \A r \in Present : job[r].parent = None /\ ~Branched(r) =>
    \A j \in Family(r) : j # Latest(r) => job[j].status = "overload"

\* What the check for an existing child achieves: once a job has a child and
\* nobody is waiting on its behalf, that is so for good and no child is added,
\* neither by a later retry nor by an automatic one, nor after a restart.
Final(j) == Children(j) # {} /\ \A c \in Callers : call[c].of # j
ChildIsFinal ==
  [][\A j \in Jobs : Final(j) => Final(j)' /\ Children(j)' = Children(j)]_vars

\* "幂等：同一个失败 job 若已生成 child，则直接返回 child，避免 auto+manual
\* 重复造任务" (sora_jobs.py:344): a failed job has one child at most.
OneChild == \A j \in Present : Cardinality(Children(j)) <= 1
=============================================================================
