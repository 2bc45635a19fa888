------------------------- MODULE NurtureBatchProofs -------------------------
(***************************************************************************)
(* Theorems about the nurture batches, for every number of batches, jobs,  *)
(* processes and restarts, whether or not processes keep their leases.     *)
(*                                                                         *)
(* Most steps of a run leave the status and the lease of every batch as    *)
(* they are (SameRows): what they write is jobs, counters and the run      *)
(* itself.  The steps that remain are looked at one by one.                *)
(***************************************************************************)
EXTENDS NurtureBatch, FiniteSetTheorems, TLAPS

-----------------------------------------------------------------------------
(* Types *)

\* Status and lease of every batch stay.
SameRows ==
  \A b \in Batches : /\ batch'[b].status = batch[b].status
                     /\ batch'[b].owner = batch[b].owner
                     /\ batch'[b].lease = batch[b].lease

\* The jobs of any set can be counted.
LEMMA Countable ==
  ASSUME NEW S \in SUBSET Jobs
  PROVE  Cardinality(S) \in Nat
BY IdsAssumption, FS_Subset, FS_CardinalityType

\* Jobs given one status keep the type of the table.
LEMMA PaintType ==
  ASSUME NEW jt \in [Jobs -> JobStatuses], NEW J, NEW s \in JobStatuses
  PROVE  Paint(jt, J, s) \in [Jobs -> JobStatuses]
BY DEF Paint

\* A row written over a batch keeps the type of the table, and changes that row only.
LEMMA SetBatchType ==
  ASSUME TypeOK, NEW b \in Batches, NEW x \in Batch, SetBatch(b, x)
  PROVE  /\ batch' \in [Batches -> Batch]
         /\ batch'[b] = x
         /\ \A c \in Batches : c # b => batch'[c] = batch[c]
BY DEF SetBatch, TypeOK

\* The part of the types that is about the processes.
RunsTyped ==
  /\ proc \in [Owners -> {"new", "up", "stopping", "dead"}]
  /\ run \in [Owners -> Run \cup {NoRun}]
  /\ busy \subseteq Jobs

\* A run set for a process keeps the types of what the process is.
LEMMA SetRunType ==
  ASSUME TypeOK, NEW o \in Owners, NEW r \in Run \cup {NoRun}, SetRun(o, r)
  PROVE  RunsTyped'
BY DEF SetRun, TypeOK, RunsTyped

\* A process that is somewhere in a run has one.
LEMMA RunType ==
  ASSUME TypeOK, NEW o \in Owners, run[o].pc \in PCs
  PROVE  run[o] \in Run /\ run[o].batch \in Batches /\ batch[run[o].batch] \in Batch
<1>1. run[o] \in Run \cup {NoRun}
  BY DEF TypeOK
<1>2. run[o] # NoRun
  BY DEF NoRun, PCs, Closing
<1>3. run[o] \in Run
  BY <1>1, <1>2
<1>4. run[o].batch \in Batches
  BY <1>3 DEF Run
<1>5. QED
  BY <1>3, <1>4 DEF TypeOK

\* Cancelling what is left of a batch writes its jobs and one counter.
LEMMA CancelRemainingType ==
  ASSUME TypeOK, NEW b \in Batches, NEW jt \in [Jobs -> JobStatuses], NEW bt \in Batch,
         CancelRemaining(b, jt, bt)
  PROVE  /\ batch' \in [Batches -> Batch] /\ job' \in [Jobs -> JobStatuses]
         /\ batch'[b].status = bt.status
         /\ batch'[b].owner = bt.owner /\ batch'[b].lease = bt.lease
         /\ \A c \in Batches : c # b => batch'[c] = batch[c]
<1> DEFINE rest == JobsOf(b) \ With(jt, JobsOf(b), Terminal)
           x == [bt EXCEPT !.tally.off = @ + Cardinality(rest)]
<1>1. Cardinality(rest) \in Nat
  BY Countable DEF JobsOf
<1>2. bt.tally \in Tally /\ bt.tally.off \in Nat
  BY DEF Batch, Tally
<1>3. x \in Batch /\ x.status = bt.status /\ x.owner = bt.owner /\ x.lease = bt.lease
  <2>1. [bt.tally EXCEPT !.off = @ + Cardinality(rest)] \in Tally
    BY <1>1, <1>2 DEF Tally
  <2> HIDE DEF rest
  <2>2. QED
    BY <2>1 DEF Batch
<1>4. SetBatch(b, x)
  BY DEF CancelRemaining
<1>5. job' \in [Jobs -> JobStatuses]
  BY PaintType DEF CancelRemaining, JobStatuses, Terminal
<1> HIDE DEF x
<1>6. QED
  BY <1>3, <1>4, <1>5, SetBatchType

\* What a step of a run that goes on leaves as it is, beside the types.
Goes == TypeOK' /\ SameRows

\* The head of the loop over the jobs writes jobs, counters and the run.
LEMMA AdvanceGoes ==
  ASSUME TypeOK, NEW o \in Owners, NEW r \in Run, NEW jt \in [Jobs -> JobStatuses],
         NEW bt \in Batch, Advance(o, r, jt, bt),
         bt.status = batch[r.batch].status, bt.owner = batch[r.batch].owner,
         bt.lease = batch[r.batch].lease
  PROVE  Goes
<1> DEFINE open    == r.todo \ r.seen
           skipped == {i \in r.todo \cap r.seen : \A k \in open : i < k}
           tally   == [r.tally EXCEPT !.bad = @ + Cardinality(skipped)]
           passed  == [r EXCEPT !.todo = @ \ skipped, !.tally = tally]
           x       == [bt EXCEPT !.tally.bad = IF skipped = {} THEN @ ELSE tally.bad]
<1>1. r.batch \in Batches /\ r.todo \in SUBSET Jobs /\ r.tally \in Tally
  BY DEF Run
<1>2. CASE bt.status = "canceled"
  <2>1. CancelRemaining(r.batch, jt, bt) /\ SetRun(o, [r EXCEPT !.pc = "quitting"])
    BY <1>2 DEF Advance
  <2>2. [r EXCEPT !.pc = "quitting"] \in Run \cup {NoRun}
    BY DEF Run, PCs
  <2>3. QED
    BY <1>1, <2>1, <2>2, CancelRemainingType, SetRunType DEF Goes, TypeOK, RunsTyped, SameRows
<1>3. CASE bt.status # "canceled"
  <2>1. /\ job' = Paint(jt, skipped, "skipped")
        /\ SetBatch(r.batch, x)
        /\ \/ open = {} /\ SetRun(o, [passed EXCEPT !.pc = "quitting"])
           \/ \E j \in open :
                SetRun(o, [passed EXCEPT !.pc = "launching", !.job = j, !.todo = @ \ {j}])
    BY <1>3 DEF Advance
  <2>2. skipped \in SUBSET Jobs /\ open \subseteq Jobs
    BY <1>1
  <2>3. tally \in Tally
    <3>1. Cardinality(skipped) \in Nat
      BY <2>2, Countable
    <3> HIDE DEF skipped
    <3>2. QED
      BY <1>1, <3>1 DEF Tally
  <2>4. x \in Batch /\ x.status = bt.status /\ x.owner = bt.owner /\ x.lease = bt.lease
    <3>1. bt.tally \in Tally /\ tally.bad \in Nat
      BY <2>3 DEF Batch, Tally
    <3> HIDE DEF skipped, tally
    <3>2. [bt.tally EXCEPT !.bad = IF skipped = {} THEN @ ELSE tally.bad] \in Tally
      BY <3>1 DEF Tally
    <3>3. QED
      BY <3>2 DEF Batch
  <2>5. job' \in [Jobs -> JobStatuses]
    BY <2>1, PaintType DEF JobStatuses, Terminal
  <2>6. passed \in Run
    <3>1. r.todo \ skipped \in SUBSET Jobs
      BY <1>1
    <3> HIDE DEF skipped, tally
    <3>2. QED
      BY <2>3, <3>1 DEF Run
  <2> HIDE DEF passed, x, skipped, open
  <2>7. RunsTyped'
    <3>1. CASE SetRun(o, [passed EXCEPT !.pc = "quitting"])
      <4>1. [passed EXCEPT !.pc = "quitting"] \in Run \cup {NoRun}
        BY <2>6 DEF Run, PCs
      <4>2. QED
        BY <3>1, <4>1, SetRunType
    <3>2. ASSUME NEW j \in open,
                 SetRun(o, [passed EXCEPT !.pc = "launching", !.job = j, !.todo = @ \ {j}])
          PROVE  RunsTyped'
      <4>1. [passed EXCEPT !.pc = "launching", !.job = j, !.todo = @ \ {j}] \in Run
        BY <2>2, <2>6 DEF Run, PCs
      <4>2. QED
        BY <3>2, <4>1, SetRunType
    <3>3. QED
      BY <2>1, <3>1, <3>2
  <2>8. QED
    BY <1>1, <2>1, <2>4, <2>5, <2>7, SetBatchType DEF Goes, TypeOK, RunsTyped, SameRows
<1>4. QED
  BY <1>2, <1>3

-----------------------------------------------------------------------------
(* The steps of a run *)

\* A step that leaves the batches alone and keeps the types.
LEMMA StillGoes ==
  ASSUME TypeOK, UNCHANGED batch, job' \in [Jobs -> JobStatuses], RunsTyped'
  PROVE  Goes
BY DEF Goes, TypeOK, RunsTyped, SameRows

\* The steps of a run that neither begin it nor end it.
Between(o) ==
  \/ Opened(o) \/ JobBegins(o) \/ SeesCancel(o) \/ JobEnds(o) \/ JobClosed(o)
  \/ JobTimeout(o) \/ RunRaises(o)

\* A counted job is a legal set of counters.
LEMMA CountedType ==
  ASSUME NEW t \in Tally, NEW s
  PROVE  Counted(t, s) \in Tally
BY DEF Counted, Tally

\* Counting a job goes on with the loop.
LEMMA CountJobGoes ==
  ASSUME TypeOK, NEW o \in Owners, run[o].pc \in PCs, NEW jt \in [Jobs -> JobStatuses],
         NEW s, CountJob(o, jt, s)
  PROVE  Goes
<1> DEFINE r == [run[o] EXCEPT !.tally = Counted(@, s)]
           x == [batch[r.batch] EXCEPT !.tally = r.tally]
<1>1. run[o] \in Run /\ run[o].batch \in Batches /\ batch[run[o].batch] \in Batch
  BY RunType
<1>2. run[o].tally \in Tally
  BY <1>1 DEF Run
<1>3. Counted(run[o].tally, s) \in Tally
  BY <1>2, CountedType
<1>4. r \in Run /\ r.batch = run[o].batch /\ r.tally \in Tally
  BY <1>1, <1>3 DEF Run
<1>5. Advance(o, r, jt, x)
  BY DEF CountJob
<1> HIDE DEF r
<1>6. x \in Batch /\ x.status = batch[r.batch].status /\ x.owner = batch[r.batch].owner
      /\ x.lease = batch[r.batch].lease
  BY <1>1, <1>4 DEF Batch
<1> HIDE DEF x
<1>7. QED
  BY <1>4, <1>5, <1>6, AdvanceGoes

\* What lies between the two ends of a run leaves status and lease of every batch.
LEMMA BetweenGoes ==
  ASSUME TypeOK, NEW o \in Owners, Between(o)
  PROVE  Goes
<1>1. run[o].pc \in PCs
  BY DEF Between, Opened, JobBegins, SeesCancel, JobEnds, JobClosed, JobTimeout, RunRaises,
         PCs, Closing
<1>2. run[o] \in Run /\ run[o].batch \in Batches /\ batch[run[o].batch] \in Batch
  BY <1>1, RunType
<1>3. job \in [Jobs -> JobStatuses] /\ busy \subseteq Jobs
  BY DEF TypeOK
<1>4. \A p \in PCs : [run[o] EXCEPT !.pc = p] \in Run
  BY <1>2 DEF Run
<1>5. CASE Opened(o)
  <2> DEFINE r == [run[o] EXCEPT !.seen = busy]
  <2>1. r \in Run /\ r.batch = run[o].batch
    BY <1>2, <1>3 DEF Run
  <2>2. Advance(o, r, job, batch[r.batch])
    BY <1>5, <2>1 DEF Opened
  <2> HIDE DEF r
  <2>3. QED
    BY <1>2, <1>3, <2>1, <2>2, AdvanceGoes
<1>6. CASE JobBegins(o)
  <2>1. job' \in [Jobs -> JobStatuses]
    BY <1>3, <1>6 DEF JobBegins, JobStatuses
  <2>2. [run[o] EXCEPT !.pc = "working"] \in Run
    BY <1>4 DEF PCs
  <2>3. QED
    BY <1>6, <2>1, <2>2, SetRunType, StillGoes DEF JobBegins
<1>7. CASE SeesCancel(o)
  <2>1. [run[o] EXCEPT !.pc = "leaving"] \in Run
    BY <1>4 DEF PCs
  <2>2. QED
    BY <1>3, <1>7, <2>1, SetRunType, StillGoes DEF SeesCancel
<1>8. CASE JobEnds(o)
  <2>1. PICK s \in {"completed", "canceled", "failed"} :
          job' = [job EXCEPT ![run[o].job] = s] /\ SetRun(o, [run[o] EXCEPT !.pc = s])
    BY <1>8 DEF JobEnds
  <2>2. job' \in [Jobs -> JobStatuses]
    BY <1>3, <2>1 DEF JobStatuses, Terminal
  <2>3. [run[o] EXCEPT !.pc = s] \in Run
    BY <1>4 DEF PCs, Closing
  <2>4. QED
    BY <1>8, <2>1, <2>2, <2>3, SetRunType, StillGoes DEF JobEnds
<1>9. CASE JobClosed(o)
  BY <1>1, <1>3, <1>9, CountJobGoes DEF JobClosed
<1>10. CASE JobTimeout(o)
  <2>1. Paint(job, {run[o].job}, "failed") \in [Jobs -> JobStatuses]
    BY <1>3, PaintType DEF JobStatuses, Terminal
  <2>2. QED
    BY <1>1, <1>10, <2>1, CountJobGoes DEF JobTimeout
<1>11. CASE RunRaises(o)
  <2>1. [run[o] EXCEPT !.pc = "tail"] \in Run
    BY <1>4 DEF PCs
  <2>2. QED
    BY <1>3, <1>11, <2>1, SetRunType, StillGoes DEF RunRaises
<1>12. QED
  BY <1>5, <1>6, <1>7, <1>8, <1>9, <1>10, <1>11 DEF Between

-----------------------------------------------------------------------------
(* What every step keeps *)

\* Only a held lease runs.
LeaseOwned == \A b \in Batches : batch[b].lease > 0 => batch[b].owner # None

\* The lock of a batch goes through one of its steps.
LockStep(b) ==
  \/ Lock!Acquire(b) \/ Lock!Renew(b) \/ Lock!Expire(b) \/ Lock!Release(b) \/ Lock!Keep(b)

\* A canceled batch stays so or has a failed job retried.
CancelStep(b) ==
  batch[b].status = "canceled" /\ batch'[b].status # "canceled" =>
    /\ batch'[b].status = "queued"
    /\ \E j \in JobsOf(b) : job[j] = "failed" /\ job'[j] = "queued"

Good == TypeOK' /\ \A b \in Batches : LockStep(b) /\ CancelStep(b)

\* A batch whose lease columns stay as they are keeps its lock.
LEMMA LeaseStays ==
  ASSUME NEW b \in Batches, batch'[b].owner = batch[b].owner, batch'[b].lease = batch[b].lease
  PROVE  LockStep(b)
BY DEF LockStep, Lock!Keep

\* A batch whose lease columns are empty has released its lock.
LEMMA LeaseCleared ==
  ASSUME NEW b \in Batches, batch'[b].owner = None, batch'[b].lease = 0
  PROVE  LockStep(b)
<1>1. ~(batch'[b].lease > 0)
  OBVIOUS
<1>2. Lock!Release(b)
  BY <1>1, Zenon DEF Lock!Release
<1>3. QED
  BY <1>2 DEF LockStep

\* Status and lease stay in most steps.
LEMMA GoesIsGood ==
  ASSUME Goes
  PROVE  Good
<1>1. ASSUME NEW b \in Batches
      PROVE  LockStep(b) /\ CancelStep(b)
  BY LeaseStays DEF Goes, SameRows, CancelStep
<1>2. QED
  BY <1>1 DEF Good, Goes

\* A step of a run that writes one row x over its batch, jobs and the run.
LEMMA RowIsGood ==
  ASSUME TypeOK, NEW b \in Batches, NEW x \in Batch, SetBatch(b, x),
         job' \in [Jobs -> JobStatuses], RunsTyped',
         batch[b].status = "canceled" => x.status = "canceled",
         \/ x.owner = batch[b].owner /\ x.lease = batch[b].lease
         \/ x.owner = None /\ x.lease = 0
  PROVE  Good
<1>1. /\ batch' \in [Batches -> Batch] /\ batch'[b] = x
      /\ \A c \in Batches : c # b => batch'[c] = batch[c]
  BY SetBatchType
<1>2. ASSUME NEW c \in Batches
      PROVE  LockStep(c) /\ CancelStep(c)
  BY <1>1, LeaseStays, LeaseCleared DEF CancelStep
<1>3. TypeOK'
  BY <1>1 DEF TypeOK, RunsTyped
<1>4. QED
  BY <1>2, <1>3 DEF Good

\* The first slice of a run.
LEMMA BeginRunIsGood ==
  ASSUME TypeOK, NEW o \in Owners, BeginRun(o)
  PROVE  Good
<1> DEFINE r == run[o]
           b == r.batch
<1>1. r.pc = "spawned" /\ r \in Run /\ b \in Batches /\ batch[b] \in Batch
  <2>1. run[o].pc \in PCs
    BY DEF BeginRun, PCs
  <2>2. QED
    BY <2>1, RunType DEF BeginRun
<1>2. job \in [Jobs -> JobStatuses] /\ RunsTyped
  BY DEF TypeOK, RunsTyped
<1>3. [r EXCEPT !.pc = "tail"] \in Run
  BY <1>1 DEF Run, PCs
<1>4. CASE CancelRemaining(b, job, batch[b]) /\ SetRun(o, [r EXCEPT !.pc = "tail"])
  <2>1. Goes
    BY <1>1, <1>2, <1>3, <1>4, CancelRemainingType, SetRunType
    DEF Goes, TypeOK, RunsTyped, SameRows
  <2>2. QED
    BY <2>1, GoesIsGood
<1>5. CASE SetRun(o, [r EXCEPT !.pc = "tail"]) /\ UNCHANGED <<batch, job>>
  BY <1>2, <1>3, <1>5, SetRunType, StillGoes, GoesIsGood
<1>6. CASE /\ batch[b].status = "queued" /\ SetBatch(b, [batch[b] EXCEPT !.status = "failed"])
           /\ SetRun(o, [r EXCEPT !.pc = "tail"]) /\ UNCHANGED job
  <2> DEFINE x == [batch[b] EXCEPT !.status = "failed"]
  <2>1. x \in Batch /\ x.owner = batch[b].owner /\ x.lease = batch[b].lease
    BY <1>1 DEF Batch, Ended
  <2>2. RunsTyped' /\ job' \in [Jobs -> JobStatuses]
    BY <1>2, <1>3, <1>6, SetRunType
  <2> HIDE DEF x
  <2>3. SetBatch(b, x)
    BY <1>6 DEF x
  <2>4. QED
    BY <1>1, <1>6, <2>1, <2>2, <2>3, RowIsGood
<1>7. CASE /\ batch[b].status = "queued" /\ SetBatch(b, [batch[b] EXCEPT !.status = "running"])
           /\ SetRun(o, [r EXCEPT !.pc = "opening", !.todo = Todo(b)]) /\ UNCHANGED job
  <2> DEFINE x == [batch[b] EXCEPT !.status = "running"]
  <2>1. x \in Batch /\ x.owner = batch[b].owner /\ x.lease = batch[b].lease
    BY <1>1 DEF Batch
  <2>2. [r EXCEPT !.pc = "opening", !.todo = Todo(b)] \in Run
    <3>1. Todo(b) \in SUBSET Jobs
      BY DEF Todo, JobsOf
    <3> HIDE DEF r
    <3>2. QED
      BY <1>1, <3>1 DEF Run, PCs
  <2>3. RunsTyped' /\ job' \in [Jobs -> JobStatuses]
    BY <1>2, <1>7, <2>2, SetRunType
  <2> HIDE DEF x
  <2>4. SetBatch(b, x)
    BY <1>7 DEF x
  <2>5. QED
    BY <1>1, <1>7, <2>1, <2>3, <2>4, RowIsGood
<1>8. QED
  BY <1>1, <1>4, <1>5, <1>6, <1>7 DEF BeginRun

\* The two ends of the range of a lease.
LEMMA LeaseRange == LeaseTicks \in 0 .. LeaseTicks /\ 0 \in 0 .. LeaseTicks /\ LeaseTicks > 0
BY BoundsAssumption

\* Counts of jobs of a batch are a legal set of counters.
LEMMA CountsType ==
  ASSUME NEW b \in Batches, NEW S, NEW T, NEW U
  PROVE  [ok |-> Cardinality(With(job, JobsOf(b), S)), bad |-> Cardinality(With(job, JobsOf(b), T)),
          off |-> Cardinality(With(job, JobsOf(b), U))] \in Tally
<1>1. \A V : With(job, JobsOf(b), V) \in SUBSET Jobs
  BY DEF With, JobsOf
<1>2. /\ Cardinality(With(job, JobsOf(b), S)) \in Nat
      /\ Cardinality(With(job, JobsOf(b), T)) \in Nat
      /\ Cardinality(With(job, JobsOf(b), U)) \in Nat
  BY <1>1, Countable
<1>3. QED
  BY <1>2 DEF Tally

\* The end of a run: the final row, then the lease in its own name.
LEMMA EndIsGood ==
  ASSUME TypeOK, NEW o \in Owners, FinishRun(o) \/ EndRun(o)
  PROVE  Good
<1> DEFINE r == run[o]
           b == r.batch
<1>1. run[o].pc \in PCs
  BY DEF FinishRun, EndRun, PCs
<1>2. r \in Run /\ b \in Batches /\ batch[b] \in Batch
  BY <1>1, RunType
<1>3. job \in [Jobs -> JobStatuses] /\ RunsTyped
  BY DEF TypeOK, RunsTyped
<1>4. CASE FinishRun(o)
  <2> DEFINE N(S) == Cardinality(With(job, JobsOf(b), S))
             t    == [ok |-> N({"completed"}), bad |-> N({"failed", "skipped"}),
                      off |-> N({"canceled"})]
             st   == IF batch[b].status = "canceled" THEN "canceled"
                     ELSE IF N({"failed", "skipped"}) > 0 THEN "failed" ELSE "completed"
             x    == [batch[b] EXCEPT !.tally = t, !.status = st]
  <2>1. t \in Tally
    BY <1>2, CountsType
  <2>2. st \in Ended
    BY DEF Ended
  <2>3. FinalRow(b, r.tally) = x
    BY <1>2 DEF FinalRow, Batch
  <2> HIDE DEF t
  <2>4. x \in Batch /\ x.status = st /\ x.owner = batch[b].owner /\ x.lease = batch[b].lease
    <3> HIDE DEF st
    <3>1. QED
      BY <1>2, <2>1, <2>2 DEF Batch
  <2>5. batch[b].status = "canceled" => x.status = "canceled"
    BY <2>4
  <2> HIDE DEF x, st
  <2>6. SetBatch(b, x) /\ SetRun(o, [r EXCEPT !.pc = "tail"]) /\ UNCHANGED job
    BY <1>4, <2>3 DEF FinishRun
  <2>7. [r EXCEPT !.pc = "tail"] \in Run
    BY <1>2 DEF Run, PCs
  <2>8. RunsTyped' /\ job' \in [Jobs -> JobStatuses]
    BY <1>3, <2>6, <2>7, SetRunType
  <2>9. QED
    BY <1>2, <2>4, <2>5, <2>6, <2>8, RowIsGood
<1>5. CASE EndRun(o)
  <2> DEFINE x == ClearLease(b, o)
  <2>1. /\ x \in Batch /\ x.status = batch[b].status
        /\ \/ x.owner = batch[b].owner /\ x.lease = batch[b].lease
           \/ x.owner = None /\ x.lease = 0
    <3>1. CASE batch[b].owner = o
      <4>1. x = [batch[b] EXCEPT !.owner = None, !.lease = 0]
        BY <3>1 DEF ClearLease
      <4> HIDE DEF x
      <4>2. QED
        BY <1>2, <4>1, LeaseRange DEF Batch
    <3>2. CASE batch[b].owner # o
      <4>1. x = batch[b]
        BY <3>2 DEF ClearLease
      <4> HIDE DEF x
      <4>2. QED
        BY <1>2, <4>1
    <3>3. QED
      BY <3>1, <3>2
  <2>2. SetBatch(b, x) /\ SetRun(o, NoRun) /\ UNCHANGED job
    BY <1>5 DEF EndRun
  <2>3. RunsTyped' /\ job' \in [Jobs -> JobStatuses]
    BY <1>3, <2>2, SetRunType
  <2> HIDE DEF x
  <2>4. QED
    BY <1>2, <2>1, <2>2, <2>3, RowIsGood
<1>6. QED
  BY <1>4, <1>5

\* Every step of a run.
LEMMA StepIsGood ==
  ASSUME TypeOK, NEW o \in Owners, Step(o)
  PROVE  Good
BY BetweenGoes, GoesIsGood, BeginRunIsGood, EndIsGood DEF Step, Between

\* Stopping a process takes its run to the end or away.
LEMMA CancelRunIsGood ==
  ASSUME TypeOK, NEW o \in Owners, CancelRun(o)
  PROVE  Good
<1>1. job' \in [Jobs -> JobStatuses] /\ UNCHANGED batch
  BY DEF CancelRun, TypeOK
<1>2. RunsTyped'
  <2>1. CASE SetRun(o, NoRun)
    BY <2>1, SetRunType
  <2>2. CASE run[o].pc \in PCs /\ SetRun(o, [run[o] EXCEPT !.pc = "tail"])
    <3>1. [run[o] EXCEPT !.pc = "tail"] \in Run
      BY <2>2, RunType DEF Run, PCs
    <3>2. QED
      BY <2>2, <3>1, SetRunType
  <2>3. QED
    BY <2>1, <2>2 DEF CancelRun
<1>3. QED
  BY <1>1, <1>2, StillGoes, GoesIsGood

-----------------------------------------------------------------------------
(* Processes, the clock and requests *)

\* A start recovers only batches without a lease; stops and crashes leave the table.
LEMMA LifeIsGood ==
  ASSUME TypeOK, NEW o \in Owners, Life(o)
  PROVE  Good
<1>1. CASE StartProcess(o)
  <2> DEFINE S == {b \in Batches : batch[b].status = "running" /\ ~Leased(b)}
  <2>1. batch' = [b \in Batches |->
                    IF b \in S THEN [batch[b] EXCEPT !.status = "queued", !.owner = None, !.lease = 0]
                    ELSE batch[b]]
    BY <1>1 DEF StartProcess
  <2>2. job' \in [Jobs -> JobStatuses]
    <3>1. job \in [Jobs -> JobStatuses]
      BY DEF TypeOK
    <3>2. QED
      BY <1>1, <3>1, PaintType DEF StartProcess, RecoveredJobs, JobStatuses
  <2>3. RunsTyped'
    BY <1>1 DEF StartProcess, TypeOK, RunsTyped
  <2>4. ASSUME NEW b \in Batches
        PROVE  batch'[b] \in Batch /\ LockStep(b) /\ CancelStep(b)
    <3>1. batch[b] \in Batch
      BY DEF TypeOK
    <3>2. CASE b \in S
      <4>1. batch'[b] = [batch[b] EXCEPT !.status = "queued", !.owner = None, !.lease = 0]
        BY <2>1, <3>2
      <4>2. batch'[b] \in Batch /\ batch'[b].owner = None /\ batch'[b].lease = 0
        <5> HIDE DEF S
        <5>1. QED
          BY <3>1, <4>1, LeaseRange DEF Batch
      <4>3. batch[b].status = "running"
        BY <3>2
      <4>4. QED
        BY <4>2, <4>3, LeaseCleared DEF CancelStep
    <3>3. CASE b \notin S
      <4>1. batch'[b] = batch[b]
        BY <2>1, <3>3
      <4>2. QED
        BY <3>1, <4>1, LeaseStays DEF CancelStep
    <3>4. QED
      BY <3>2, <3>3
  <2>5. batch' \in [Batches -> Batch]
    BY <2>1, <2>4
  <2>6. QED
    BY <2>2, <2>3, <2>4, <2>5 DEF Good, TypeOK, RunsTyped
<1>2. CASE StopProcess(o) \/ ExitProcess(o) \/ Crash(o)
  <2>1. UNCHANGED <<batch, job>> /\ RunsTyped'
    BY <1>2 DEF StopProcess, ExitProcess, Crash, TypeOK, RunsTyped
  <2>2. QED
    BY <2>1, StillGoes, GoesIsGood DEF TypeOK
<1>3. QED
  BY <1>1, <1>2 DEF Life

\* A claim takes a batch whose lease is free, a heartbeat renews its own.
LEMMA ClaimIsGood ==
  ASSUME TypeOK, NEW o \in Owners, Claim(o) \/ Heartbeat(o)
  PROVE  Good
<1>1. CASE Claim(o)
  <2>1. PICK b \in Batches :
          /\ Claimable(b)
          /\ batch' = [batch EXCEPT ![b].owner = o, ![b].lease = LeaseTicks]
          /\ run' = [run EXCEPT ![o] = [batch |-> b, pc |-> "spawned", todo |-> {},
                                        seen |-> {}, job |-> None, tally |-> Zero]]
    BY <1>1 DEF Claim
  <2>2. batch[b] \in Batch /\ LeaseTicks \in 0 .. LeaseTicks /\ LeaseTicks > 0
    BY BoundsAssumption DEF TypeOK
  <2>3. batch'[b] = [batch[b] EXCEPT !.owner = o, !.lease = LeaseTicks]
    BY <2>1 DEF TypeOK
  <2>4. batch'[b] \in Batch /\ batch'[b].owner = o /\ batch'[b].lease = LeaseTicks
        /\ batch'[b].status = batch[b].status
    BY <2>2, <2>3 DEF Batch
  <2>5. LockStep(b)
    <3>1. ~Leased(b)
      BY <2>1 DEF Claimable
    <3>2. Lock!Free(b)
      BY <3>1, Zenon DEF Lock!Free, Leased
    <3>3. batch'[b].lease > 0
      BY <2>2, <2>4
    <3>4. Lock!Acquire(b)
      BY <2>4, <3>2, <3>3, Zenon DEF Lock!Acquire
    <3>5. QED
      BY <3>4 DEF LockStep
  <2>6. \A c \in Batches : c # b => batch'[c] = batch[c]
    BY <2>1 DEF TypeOK
  <2>7. ASSUME NEW c \in Batches
        PROVE  LockStep(c) /\ CancelStep(c)
    BY <2>4, <2>5, <2>6, LeaseStays DEF CancelStep
  <2>8. TypeOK'
    <3>1. [batch |-> b, pc |-> "spawned", todo |-> {}, seen |-> {}, job |-> None,
           tally |-> Zero] \in Run
      BY DEF Run, PCs, Zero, Tally
    <3>2. batch' \in [Batches -> Batch]
      BY <2>1, <2>4, <2>6 DEF TypeOK
    <3>3. QED
      BY <1>1, <2>1, <3>1, <3>2 DEF Claim, TypeOK
  <2>9. QED
    BY <2>7, <2>8 DEF Good
<1>2. CASE Heartbeat(o)
  <2> DEFINE b == run[o].batch
  <2>1. b \in Batches /\ batch[b] \in Batch /\ batch[b].owner = o
    BY <1>2, RunType DEF Heartbeat
  <2>2. batch' = [batch EXCEPT ![b].lease = LeaseTicks] /\ UNCHANGED <<job, proc, run, busy>>
    BY <1>2 DEF Heartbeat
  <2> HIDE DEF b
  <2>3. batch'[b] = [batch[b] EXCEPT !.lease = LeaseTicks]
        /\ \A c \in Batches : c # b => batch'[c] = batch[c]
    BY <2>1, <2>2 DEF TypeOK
  <2>4. batch'[b] \in Batch /\ batch'[b].owner = o /\ batch'[b].lease > 0
        /\ batch'[b].status = batch[b].status
    BY <2>1, <2>3, BoundsAssumption DEF Batch
  <2>5. ASSUME NEW c \in Batches
        PROVE  LockStep(c) /\ CancelStep(c)
    <3>1. CASE c = b
      <4>1. /\ batch[c].owner = o /\ batch'[c].owner = o /\ batch'[c].lease > 0
            /\ batch'[c].status = batch[c].status
        BY <2>1, <2>4, <3>1
      <4>2. Lock!Renew(c)
        BY <4>1, Zenon DEF Lock!Renew
      <4>3. QED
        BY <4>1, <4>2 DEF LockStep, CancelStep
    <3>2. CASE c # b
      BY <2>3, <3>2, LeaseStays DEF CancelStep
    <3>3. QED
      BY <3>1, <3>2
  <2>6. TypeOK'
    BY <2>2, <2>3, <2>4 DEF TypeOK
  <2>7. QED
    BY <2>5, <2>6 DEF Good
<1>3. QED
  BY <1>1, <1>2

\* The clock lets leases run out.
LEMMA TickIsGood ==
  ASSUME TypeOK, LeaseOwned, Tick
  PROVE  Good
<1>1. ASSUME NEW b \in Batches
      PROVE  batch'[b] \in Batch /\ LockStep(b) /\ CancelStep(b)
  <2>1. /\ batch[b] \in Batch /\ batch[b].lease \in 0 .. LeaseTicks
        /\ batch'[b] = [batch[b] EXCEPT !.lease = IF @ > 0 THEN @ - 1 ELSE 0]
    BY DEF Tick, TypeOK, Batch
  <2>2. batch'[b].owner = batch[b].owner /\ batch'[b].status = batch[b].status
        /\ batch'[b].lease = IF batch[b].lease > 0 THEN batch[b].lease - 1 ELSE 0
    BY <2>1 DEF Batch
  <2>3. batch'[b].lease \in 0 .. LeaseTicks
    BY <2>1, <2>2, BoundsAssumption
  <2>4. batch'[b] \in Batch
    BY <2>1, <2>2, <2>3 DEF Batch
  <2>5. CASE batch[b].lease = 0
    <3>1. batch'[b].lease = batch[b].lease
      BY <2>2, <2>5
    <3>2. QED
      BY <2>2, <2>4, <3>1, LeaseStays DEF CancelStep
  <2>6. CASE batch[b].lease # 0
    <3>1. batch[b].owner \in Owners
      BY <2>1, <2>6 DEF LeaseOwned, Batch
    <3>2. CASE batch'[b].lease > 0
      <4>1. Lock!Renew(b)
        BY <2>2, <3>1, <3>2, Zenon DEF Lock!Renew
      <4>2. QED
        BY <2>2, <2>4, <4>1 DEF LockStep, CancelStep
    <3>3. CASE ~(batch'[b].lease > 0)
      <4>1. Lock!Expire(b)
        BY <2>2, <3>1, <3>3, Zenon DEF Lock!Expire
      <4>2. QED
        BY <2>2, <2>4, <4>1 DEF LockStep, CancelStep
    <3>4. QED
      BY <3>2, <3>3
  <2>7. QED
    BY <2>5, <2>6
<1>2. batch' \in [Batches -> Batch]
  BY <1>1 DEF Tick
<1>3. TypeOK'
  BY <1>2 DEF Tick, TypeOK
<1>4. QED
  BY <1>1, <1>3 DEF Good

\* A request writes one row, which keeps its lease or loses it.
LEMMA RequestIsGood ==
  ASSUME TypeOK, NEW b \in Batches, CreateBatch(b) \/ CancelBatch(b)
  PROVE  Good
<1>1. batch[b] \in Batch /\ job \in [Jobs -> JobStatuses] /\ RunsTyped
  BY DEF TypeOK, RunsTyped
<1>2. RunsTyped'
  BY <1>1 DEF CreateBatch, CancelBatch, RunsTyped
<1>3. \A s \in {"queued", "canceled"} : [batch[b] EXCEPT !.status = s] \in Batch
  BY <1>1 DEF Batch, Ended
<1>4. CASE CreateBatch(b)
  <2> DEFINE x == [batch[b] EXCEPT !.status = "queued"]
  <2>1. x \in Batch /\ x.owner = batch[b].owner /\ x.lease = batch[b].lease
    BY <1>1, <1>3 DEF Batch
  <2>2. SetBatch(b, x) /\ batch[b].status = "absent"
    BY <1>4 DEF CreateBatch, NextBatch
  <2>3. job' \in [Jobs -> JobStatuses]
    BY <1>1, <1>4, PaintType DEF CreateBatch, JobStatuses
  <2> HIDE DEF x
  <2>4. QED
    BY <1>2, <2>1, <2>2, <2>3, RowIsGood
<1>5. CASE CancelBatch(b)
  <2> DEFINE waiting == With(job, JobsOf(b), {"queued"})
             off     == [batch[b] EXCEPT !.status = "canceled"]
             y       == [off EXCEPT !.tally.off = @ + Cardinality(waiting)]
  <2>1. off \in Batch /\ off.owner = batch[b].owner /\ off.lease = batch[b].lease
        /\ off.status = "canceled"
    BY <1>1, <1>3 DEF Batch
  <2>2. Cardinality(waiting) \in Nat
    BY Countable DEF With, JobsOf
  <2> HIDE DEF off
  <2>3. y \in Batch /\ y.owner = off.owner /\ y.lease = off.lease /\ y.status = off.status
    <3>1. [off.tally EXCEPT !.off = @ + Cardinality(waiting)] \in Tally
      <4> HIDE DEF waiting
      <4>1. off.tally \in Tally
        BY <2>1 DEF Batch
      <4>2. QED
        BY <2>2, <4>1 DEF Tally
    <3> HIDE DEF waiting
    <3>2. QED
      BY <2>1, <3>1 DEF Batch
  <2>4. \/ SetBatch(b, off) /\ UNCHANGED job
        \/ SetBatch(b, y) /\ job' = Paint(job, waiting, "canceled")
    BY <1>5 DEF CancelBatch, off
  <2>5. job' \in [Jobs -> JobStatuses]
    BY <1>1, <2>4, PaintType DEF JobStatuses, Terminal
  <2> HIDE DEF y, waiting
  <2>6. QED
    BY <1>2, <2>1, <2>3, <2>4, <2>5, RowIsGood
<1>6. QED
  BY <1>4, <1>5

\* A process that dies while it creates a batch.
LEMMA CrashInCreateIsGood ==
  ASSUME TypeOK, NEW b \in Batches, NEW o \in Owners, CrashInCreate(o, b)
  PROVE  Good
<1> DEFINE x == [batch[b] EXCEPT !.status = "queued"]
<1>1. batch[b] \in Batch /\ job \in [Jobs -> JobStatuses]
  BY DEF TypeOK
<1>2. x \in Batch /\ x.owner = batch[b].owner /\ x.lease = batch[b].lease
  BY <1>1 DEF Batch
<1>3. SetBatch(b, x) /\ batch[b].status = "absent"
  BY DEF CrashInCreate, NextBatch
<1>4. job' \in [Jobs -> JobStatuses]
  BY <1>1, PaintType DEF CrashInCreate, JobStatuses
<1>5. RunsTyped'
  BY DEF CrashInCreate, TypeOK, RunsTyped
<1> HIDE DEF x
<1>6. QED
  BY <1>2, <1>3, <1>4, <1>5, RowIsGood

\* A retry queues failed jobs and takes the lease away, whoever has it.
LEMMA RetryIsGood ==
  ASSUME TypeOK, NEW b \in Batches, RetryBatch(b)
  PROVE  Good
<1> DEFINE failed == With(job, JobsOf(b), {"failed"})
           N(S) == Cardinality(With(job, JobsOf(b), S))
           t == [ok |-> N({"completed"}), bad |-> N({"skipped"}), off |-> N({"canceled"})]
           x == [status |-> "queued", owner |-> None, lease |-> 0, tally |-> t]
<1>1. batch[b] \in Batch /\ job \in [Jobs -> JobStatuses]
  BY DEF TypeOK
<1>2. t \in Tally
  BY CountsType
<1>3. SetBatch(b, x) /\ failed # {} /\ job' = Paint(job, failed, "queued")
  BY DEF RetryBatch
<1> HIDE DEF t
<1>4. x \in Batch /\ x.owner = None /\ x.lease = 0 /\ x.status = "queued"
  BY <1>2, LeaseRange DEF Batch
<1> HIDE DEF x
<1>5. /\ batch' \in [Batches -> Batch] /\ batch'[b] = x
      /\ \A c \in Batches : c # b => batch'[c] = batch[c]
  BY <1>3, <1>4, SetBatchType
<1>6. PICK j \in failed : TRUE
  BY <1>3
<1>7. j \in JobsOf(b) /\ j \in Jobs /\ job[j] = "failed"
  BY <1>6 DEF With, JobsOf
<1>8. job'[j] = "queued"
  BY <1>3, <1>6, <1>7 DEF Paint
<1>9. ASSUME NEW c \in Batches
      PROVE  LockStep(c) /\ CancelStep(c)
  <2>1. CASE c = b
    BY <1>4, <1>5, <1>7, <1>8, <2>1, LeaseCleared DEF CancelStep
  <2>2. CASE c # b
    BY <1>5, <2>2, LeaseStays DEF CancelStep
  <2>3. QED
    BY <2>1, <2>2
<1>10. TypeOK'
  <2>1. job' \in [Jobs -> JobStatuses]
    BY <1>1, <1>3, PaintType DEF JobStatuses
  <2>2. QED
    BY <1>5, <2>1 DEF RetryBatch, TypeOK
<1>11. QED
  BY <1>9, <1>10 DEF Good

\* Every step of the system.
LEMMA NextIsGood ==
  ASSUME TypeOK, LeaseOwned, [Next]_vars
  PROVE  Good
<1>1. ASSUME NEW o \in Owners, Life(o) \/ Claim(o) \/ Step(o) \/ Heartbeat(o) \/ CancelRun(o)
      PROVE  Good
  BY <1>1, LifeIsGood, ClaimIsGood, StepIsGood, CancelRunIsGood
<1>2. ASSUME NEW b \in Batches, Request(b)
      PROVE  Good
  BY <1>2, RequestIsGood, CrashInCreateIsGood, RetryIsGood DEF Request
<1>3. ASSUME NEW j \in Jobs, GenerationChanges(j)
      PROVE  Good
  BY <1>3, StillGoes, GoesIsGood DEF GenerationChanges, TypeOK, RunsTyped
<1>4. CASE Tick
  BY <1>4, TickIsGood
<1>5. CASE UNCHANGED vars
  BY <1>5, StillGoes, GoesIsGood DEF vars, TypeOK, RunsTyped
<1>6. QED
  BY <1>1, <1>2, <1>3, <1>4, <1>5 DEF Next

-----------------------------------------------------------------------------
(* The theorems *)

\* Nothing is leased when the system starts.
LEMMA InitIsGood ==
  ASSUME Init
  PROVE  TypeOK /\ LeaseOwned /\ Lock!Init
<1>1. TypeOK
  BY LeaseRange DEF Init, TypeOK, Batch, JobStatuses, Zero, Tally
<1>2. ASSUME NEW b \in Batches
      PROVE  batch[b].owner = None /\ batch[b].lease = 0 /\ (batch[b].lease > 0) = FALSE
  BY DEF Init
<1>3. [b \in Batches |-> batch[b].owner] = [b \in Batches |-> None]
  BY <1>2
<1>4. [b \in Batches |-> batch[b].lease > 0] = [b \in Batches |-> FALSE]
  BY <1>2, Zenon
<1>5. Lock!Init
  BY <1>3, <1>4, Zenon DEF Lock!Init
<1>6. LeaseOwned
  BY <1>2 DEF LeaseOwned
<1>7. QED
  BY <1>1, <1>5, <1>6

\* A step in which each batch goes through a step of its lock is one of the lock.
LEMMA LockOwned ==
  ASSUME LeaseOwned, Good
  PROVE  LeaseOwned' /\ Lock!Next
<1>1. ASSUME NEW b \in Batches, batch'[b].lease > 0
      PROVE  batch'[b].owner # None
  <2>1. LockStep(b)
    BY DEF Good
  <2>2. QED
    BY <1>1, <2>1, OwnersAssumption
    DEF LockStep, LeaseOwned, Lock!Acquire, Lock!Renew, Lock!Expire, Lock!Release, Lock!Keep
<1>2. Lock!Next
  BY DEF Good, LockStep, Lock!Next
<1>3. QED
  BY <1>1, <1>2 DEF LeaseOwned

\* The invariant of all runs, and what every step keeps.
LEMMA Invariance ==
  Spec => [](TypeOK /\ LeaseOwned)
<1>1. TypeOK /\ LeaseOwned /\ [Next]_vars => (TypeOK /\ LeaseOwned)'
  BY NextIsGood, LockOwned DEF Good
<1>2. QED
  BY <1>1, InitIsGood, PTL DEF Spec

\* The variables of the nurture batches keep their types for any number of batches,
\* jobs and processes, whatever crashes, stalls and is retried.
THEOREM TypeCorrect == Spec => []TypeOK
BY Invariance, PTL

\* A cancelled batch stays cancelled until a failed job of it is retried, for any
\* number of processes, and whatever the runs under way write.
THEOREM CancelHoldsCorrect == Spec => CancelHolds
<1>1. TypeOK /\ LeaseOwned /\ [Next]_vars =>
        [\A b \in Batches : CancelStep(b)]_vars
  BY NextIsGood DEF Good
<1>2. (\A b \in Batches : CancelStep(b)) =>
        \A b \in Batches : batch[b].status = "canceled" /\ batch'[b].status # "canceled" =>
          /\ batch'[b].status = "queued"
          /\ \E j \in JobsOf(b) : job[j] = "failed" /\ job'[j] = "queued"
  BY Zenon DEF CancelStep
<1>3. QED
  BY <1>1, <1>2, Invariance, PTL DEF Spec, CancelHolds

\* The lease columns of sora_nurture_batches implement the lease lock, whoever stalls.
THEOREM LeaseLockImplemented == Spec => ImplementsLeaseLock
<1>1. TypeOK /\ LeaseOwned /\ [Next]_vars => [Lock!Next]_Lock!lockVars
  BY NextIsGood, LockOwned
<1>2. QED
  BY <1>1, InitIsGood, Invariance, PTL DEF Spec, ImplementsLeaseLock, Lock!Spec

-----------------------------------------------------------------------------
(* One process at a time: what the jobs and the counters of a batch say *)

InLoop == PCs \ {"spawned", "tail"}
AtJob  == {"launching", "working", "leaving"}

\* What a run r in its loop supposes of the jobs jt: nothing on its list has
\* completed, and what is marked running is on its list or its current job.
RunOK(r, jt) ==
  /\ \A j \in r.todo : BatchOf[j] = r.batch /\ jt[j] # "completed"
  /\ r.pc \in AtJob \cup Closing =>
       r.job \in Jobs /\ BatchOf[r.job] = r.batch /\ r.job \notin r.todo
  /\ r.pc \in AtJob => jt[r.job] # "completed"
  /\ \A j \in Jobs : BatchOf[j] = r.batch /\ jt[j] = "running" =>
       r.pc # "quitting" /\ (j \in r.todo \/ (r.pc \in AtJob /\ j = r.job))

Live(o) == proc[o] \in {"up", "stopping"}
Open    == {"queued", "running", "canceled"}

\* One batch adds up.
EndedOK(b) ==
  batch[b].status \in {"completed", "failed"} =>
    LET N(S) == Cardinality(With(job, JobsOf(b), S))
    IN /\ N({"running"}) = 0
       /\ batch[b].tally = [ok |-> N({"completed"}), bad |-> N({"failed", "skipped"}),
                            off |-> N({"canceled"})]
       /\ JobsOf(b) # {} => (batch[b].status = "failed" <=> batch[b].tally.bad > 0)

\* What holds of a batch, of a process and of its run.
BatchOK(b) ==
  /\ EndedOK(b)
  /\ batch[b].status = "absent" => JobsOf(b) = {}
  /\ JobsOf(b) = {} => batch[b].tally = Zero
LoopOK(o) ==
  /\ RunOK(run[o], job)
  /\ batch[run[o].batch].status \in Open /\ JobsOf(run[o].batch) # {}
ProcOK(o) ==
  /\ run[o] # NoRun => Live(o)
  /\ run[o].pc \in InLoop => LoopOK(o)

Alone == \A o, p \in Owners : Live(o) /\ Live(p) => o = p

SoloInv ==
  /\ Alone
  /\ \A o \in Owners : ProcOK(o)
  /\ \A b \in Batches : BatchOK(b)

\* What a step may do to the jobs, those of batch b and of the others.
JobsStay(b) ==
  \A j \in Jobs : /\ BatchOf[j] # b => job'[j] = job[j]
                  /\ job[j] # "absent" => job'[j] # "absent"
                  /\ job[j] = "completed" => job'[j] \in {"completed", "failed"}

\* What every step keeps.
DoneStays == \A j \in Jobs : job[j] = "completed" => job'[j] \in {"completed", "failed"}
Solo == SoloInv' /\ DoneStays

\* Jobs that only stop running or completing do not disturb a run.
LEMMA RunOKFewer ==
  ASSUME NEW r \in Run, NEW jt, NEW ju, RunOK(r, jt),
         \A j \in Jobs : /\ ju[j] = "completed" => jt[j] = "completed"
                         /\ ju[j] = "running" => jt[j] = "running"
  PROVE  RunOK(r, ju)
<1>1. r.todo \subseteq Jobs
  BY DEF Run
<1>2. QED
  BY <1>1 DEF RunOK

\* A batch whose row and jobs stay as they are adds up as it did.
LEMMA BatchStays ==
  ASSUME NEW b \in Batches, BatchOK(b), batch'[b].status = batch[b].status,
         batch'[b].tally = batch[b].tally, \A j \in Jobs : BatchOf[j] = b => job'[j] = job[j]
  PROVE  BatchOK(b)' /\ JobsOf(b)' = JobsOf(b)
<1>1. JobsOf(b)' = JobsOf(b)
  BY DEF JobsOf
<1>2. \A S : With(job, JobsOf(b), S)' = With(job, JobsOf(b), S)
  BY <1>1 DEF With, JobsOf
<1>3. EndedOK(b)'
  <2>1. \A S : Cardinality(With(job, JobsOf(b), S))' = Cardinality(With(job, JobsOf(b), S))
    BY <1>2
  <2>2. EndedOK(b)
    BY DEF BatchOK
  <2>3. QED
    BY <1>1, <2>1, <2>2 DEF EndedOK
<1>4. QED
  BY <1>1, <1>3 DEF BatchOK

\* An open batch is only asked for its counters when it has no jobs.
LEMMA OpenBatch ==
  ASSUME NEW b \in Batches, batch'[b].status \in Open,
         JobsOf(b)' = {} => batch'[b].tally = Zero
  PROVE  BatchOK(b)'
BY DEF BatchOK, EndedOK, Open

\* Only one process has a run.
LEMMA OnlyRun ==
  ASSUME SoloInv, NEW o \in Owners, NEW p \in Owners, run[o] # NoRun, run[p] # NoRun
  PROVE  o = p
BY DEF SoloInv, Alone, ProcOK

\* A process without a run supposes nothing.
LEMMA NoRunOK ==
  ASSUME NEW o \in Owners, run'[o] = NoRun
  PROVE  ProcOK(o)'
<1>1. run'[o].pc \notin InLoop
  BY DEF NoRun, InLoop, PCs, Closing
<1>2. QED
  BY <1>1 DEF ProcOK

\* The jobs and the status of a batch stay, and the run of each process stays or
\* is in no loop.
LEMMA SoloStill ==
  ASSUME TypeOK, SoloInv, Alone', UNCHANGED job,
         \A b \in Batches : batch'[b].status = batch[b].status /\ batch'[b].tally = batch[b].tally,
         \A o \in Owners : /\ run'[o] # NoRun => Live(o)'
                           /\ run'[o].pc \in InLoop => run'[o] = run[o]
  PROVE  Solo
<1>1. ASSUME NEW b \in Batches
      PROVE  BatchOK(b)'
  BY BatchStays DEF SoloInv
<1>2. ASSUME NEW o \in Owners, run'[o].pc \in InLoop
      PROVE  LoopOK(o)'
  <2>1. run'[o] = run[o] /\ run[o].pc \in PCs
    BY <1>2 DEF InLoop
  <2>2. run[o].batch \in Batches
    BY <2>1, RunType
  <2>3. LoopOK(o)
    BY <1>2, <2>1 DEF SoloInv, ProcOK
  <2>4. RunOK(run'[o], job')
    BY <2>1, <2>3 DEF LoopOK
  <2>5. batch'[run'[o].batch].status \in Open
    BY <2>1, <2>2, <2>3 DEF LoopOK
  <2>6. (JobsOf(run[o].batch) # {})'
    BY <2>1, <2>3 DEF LoopOK, JobsOf
  <2>7. QED
    BY <2>4, <2>5, <2>6 DEF LoopOK
<1>3. ASSUME NEW o \in Owners
      PROVE  ProcOK(o)'
  BY <1>2 DEF ProcOK
<1>4. QED
  BY <1>1, <1>3 DEF SoloInv, Solo, DoneStays

\* The one run there is goes on, with its batch open.
LEMMA SoloMoves ==
  ASSUME TypeOK, SoloInv, NEW o \in Owners, run[o].pc \in PCs, NEW r \in Run, SetRun(o, r),
         r.batch = run[o].batch, JobsStay(r.batch), batch[r.batch].status \in Open,
         batch'[r.batch].status \in Open, JobsOf(r.batch) # {},
         \A c \in Batches : c # r.batch => batch'[c] = batch[c],
         r.pc \in InLoop => RunOK(r, job')
  PROVE  Solo
<1> DEFINE b == r.batch
<1>1. b \in Batches /\ run[o] # NoRun
  BY RunType DEF NoRun, PCs, Closing
<1>2. run'[o] = r /\ (\A p \in Owners : p # o => run'[p] = run[p]) /\ proc' = proc
  BY DEF SetRun, TypeOK
<1>3. JobsOf(b)' # {}
  BY DEF JobsStay, JobsOf
<1>4. ASSUME NEW c \in Batches
      PROVE  BatchOK(c)'
  <2>1. CASE c = b
    <3>1. batch'[c].status \in Open /\ (JobsOf(c)' = {} => batch'[c].tally = Zero)
      BY <1>3, <2>1
    <3>2. QED
      BY <3>1, OpenBatch
  <2>2. CASE c # b
    <3>1. batch'[c] = batch[c] /\ \A j \in Jobs : BatchOf[j] = c => job'[j] = job[j]
      BY <2>2 DEF JobsStay
    <3>2. BatchOK(c)
      BY DEF SoloInv
    <3>3. QED
      BY <3>1, <3>2, BatchStays
  <2>3. QED
    BY <2>1, <2>2
<1>5. ASSUME NEW p \in Owners
      PROVE  ProcOK(p)'
  <2>1. CASE p = o
    <3>1. Live(o)'
      BY <1>1, <1>2 DEF SoloInv, ProcOK, Live
    <3>2. ASSUME r.pc \in InLoop
          PROVE  LoopOK(o)'
      BY <1>2, <1>3, <3>2 DEF LoopOK, JobsOf
    <3>3. QED
      BY <1>2, <2>1, <3>1, <3>2 DEF ProcOK
  <2>2. CASE p # o
    <3>1. run'[p] = NoRun
      BY <1>1, <1>2, <2>2, OnlyRun
    <3>2. QED
      BY <3>1, NoRunOK
  <2>3. QED
    BY <2>1, <2>2
<1>6. Alone'
  BY <1>2 DEF SoloInv, Alone, Live
<1>7. QED
  BY <1>4, <1>5, <1>6 DEF SoloInv, Solo, DoneStays, JobsStay

\* The list of a run that is about to go on with the loop, and its job table jt.
ListOK(r, jt) ==
  /\ \A j \in r.todo : BatchOf[j] = r.batch /\ jt[j] # "completed" /\ job[j] # "completed"
  /\ \A j \in Jobs : BatchOf[j] = r.batch /\ jt[j] = "running" =>
       j \in r.todo /\ job[j] = "running"
  /\ \A j \in Jobs : /\ BatchOf[j] # r.batch => jt[j] = job[j]
                     /\ job[j] # "absent" => jt[j] # "absent"
                     /\ job[j] = "completed" => jt[j] \in {"completed", "failed"}

\* The head of the loop leaves nothing running but the job it launches.
LEMMA SoloAdvance ==
  ASSUME TypeOK, SoloInv, NEW o \in Owners, run[o].pc \in InLoop, NEW r \in Run,
         r.batch = run[o].batch, NEW jt \in [Jobs -> JobStatuses], NEW bt \in Batch,
         bt.status = batch[r.batch].status, Advance(o, r, jt, bt), ListOK(r, jt)
  PROVE  Solo
<1> DEFINE b       == r.batch
           open    == r.todo \ r.seen
           skipped == {i \in r.todo \cap r.seen : \A k \in open : i < k}
           tally   == [r.tally EXCEPT !.bad = @ + Cardinality(skipped)]
           passed  == [r EXCEPT !.todo = @ \ skipped, !.tally = tally]
           x       == [bt EXCEPT !.tally.bad = IF skipped = {} THEN @ ELSE tally.bad]
<1>1. run[o].pc \in PCs /\ b \in Batches /\ r.todo \in SUBSET Jobs /\ r.tally \in Tally
  BY DEF InLoop, Run
<1>2. batch[b].status \in Open /\ JobsOf(b) # {}
  BY DEF SoloInv, ProcOK, LoopOK
<1>3. CASE bt.status = "canceled"
  <2> DEFINE rest == JobsOf(b) \ With(jt, JobsOf(b), Terminal)
             q    == [r EXCEPT !.pc = "quitting"]
  <2>1. CancelRemaining(b, jt, bt) /\ SetRun(o, q)
    BY <1>3 DEF Advance
  <2>2. q \in Run /\ q.batch = b /\ q.todo = r.todo /\ q.pc = "quitting"
    BY DEF Run, PCs
  <2>3. /\ batch'[b].status \in Open
        /\ \A c \in Batches : c # b => batch'[c] = batch[c]
    BY <1>1, <1>2, <2>1, CancelRemainingType
  <2>4. ASSUME NEW j \in Jobs
        PROVE  /\ job'[j] \in {jt[j], "canceled"}
               /\ BatchOf[j] # b => job'[j] = jt[j]
               /\ jt[j] \in {"completed", "failed"} => job'[j] = jt[j]
               /\ BatchOf[j] = b /\ job[j] = "running" /\ jt[j] = "running" => job'[j] = "canceled"
    <3>1. job' = Paint(jt, rest, "canceled")
      BY <2>1 DEF CancelRemaining
    <3>2. job'[j] = IF j \in rest THEN "canceled" ELSE jt[j]
      BY <3>1 DEF Paint
    <3>3. j \in rest <=> BatchOf[j] = b /\ job[j] # "absent" /\ jt[j] \notin Terminal
      BY DEF JobsOf, With
    <3> HIDE DEF rest, b
    <3>4. QED
      BY <3>2, <3>3 DEF Terminal
  <2>5. JobsStay(b)
    BY <2>4 DEF JobsStay, ListOK
  <2>6. RunOK(q, job')
    BY <1>1, <2>2, <2>4 DEF RunOK, ListOK, AtJob, Closing
  <2> HIDE DEF q
  <2>7. QED
    BY <1>1, <1>2, <2>1, <2>2, <2>3, <2>5, <2>6, SoloMoves
<1>4. CASE bt.status # "canceled"
  <2>1. /\ job' = Paint(jt, skipped, "skipped")
        /\ SetBatch(b, x)
        /\ \/ open = {} /\ SetRun(o, [passed EXCEPT !.pc = "quitting"])
           \/ \E j \in open :
                SetRun(o, [passed EXCEPT !.pc = "launching", !.job = j, !.todo = @ \ {j}])
    BY <1>4 DEF Advance
  <2>2. skipped \in SUBSET r.todo /\ skipped \in SUBSET Jobs /\ open \subseteq r.todo
        /\ (open = {} => skipped = r.todo) /\ (\A j \in open : j \notin skipped)
    BY <1>1
  <2>3. tally \in Tally
    <3>1. Cardinality(skipped) \in Nat
      BY <2>2, Countable
    <3> HIDE DEF skipped
    <3>2. QED
      BY <1>1, <3>1 DEF Tally
  <2>4. x \in Batch /\ x.status = bt.status
    <3>1. bt.tally \in Tally /\ tally.bad \in Nat
      BY <2>3 DEF Batch, Tally
    <3> HIDE DEF skipped, tally
    <3>2. [bt.tally EXCEPT !.bad = IF skipped = {} THEN @ ELSE tally.bad] \in Tally
      BY <3>1 DEF Tally
    <3>3. QED
      BY <3>2 DEF Batch
  <2>5. passed \in Run /\ passed.batch = b /\ passed.todo = r.todo \ skipped
    <3>1. r.todo \ skipped \in SUBSET Jobs
      BY <1>1
    <3> HIDE DEF skipped, tally
    <3>2. QED
      BY <2>3, <3>1 DEF Run
  <2> HIDE DEF passed, x
  <2>6. batch'[b].status \in Open /\ \A c \in Batches : c # b => batch'[c] = batch[c]
    BY <1>1, <1>2, <2>1, <2>4, SetBatchType
  <2>7. \A j \in Jobs : job'[j] = IF j \in skipped THEN "skipped" ELSE jt[j]
    BY <2>1 DEF Paint
  <2> HIDE DEF skipped, open
  <2>8. JobsStay(b)
    BY <2>2, <2>7 DEF JobsStay, ListOK
  <2>9. CASE open = {} /\ SetRun(o, [passed EXCEPT !.pc = "quitting"])
    <3> DEFINE q == [passed EXCEPT !.pc = "quitting"]
    <3>1. q \in Run /\ q.batch = b /\ q.todo = {} /\ q.pc = "quitting"
      BY <2>2, <2>5, <2>9 DEF Run, PCs
    <3> HIDE DEF q
    <3>2. RunOK(q, job')
      BY <2>2, <2>7, <2>9, <3>1 DEF RunOK, ListOK, AtJob, Closing
    <3>3. SetRun(o, q)
      BY <2>9 DEF q
    <3>4. QED
      BY <1>1, <1>2, <2>6, <2>8, <3>1, <3>2, <3>3, SoloMoves
  <2>10. ASSUME NEW j \in open,
                SetRun(o, [passed EXCEPT !.pc = "launching", !.job = j, !.todo = @ \ {j}])
         PROVE  Solo
    <3> DEFINE q == [passed EXCEPT !.pc = "launching", !.job = j, !.todo = @ \ {j}]
    <3>1. q \in Run /\ q.batch = b /\ q.todo = (r.todo \ skipped) \ {j}
          /\ q.pc = "launching" /\ q.job = j
      BY <1>1, <2>2, <2>5 DEF Run, PCs
    <3> HIDE DEF q
    <3>2. RunOK(q, job')
      BY <1>1, <2>2, <2>7, <3>1 DEF RunOK, ListOK, AtJob, Closing
    <3>3. SetRun(o, q)
      BY <2>10 DEF q
    <3>4. QED
      BY <1>1, <1>2, <2>6, <2>8, <3>1, <3>2, <3>3, SoloMoves
  <2>11. QED
    BY <2>1, <2>9, <2>10
<1>5. QED
  BY <1>3, <1>4

\* A job is counted and the loop goes on.
LEMMA SoloCount ==
  ASSUME TypeOK, SoloInv, NEW o \in Owners, run[o].pc \in InLoop,
         NEW jt \in [Jobs -> JobStatuses], NEW s, CountJob(o, jt, s), ListOK(run[o], jt)
  PROVE  Solo
<1> DEFINE r == [run[o] EXCEPT !.tally = Counted(@, s)]
           x == [batch[r.batch] EXCEPT !.tally = r.tally]
<1>1. run[o] \in Run /\ run[o].batch \in Batches /\ batch[run[o].batch] \in Batch
  BY RunType DEF InLoop
<1>2. run[o].tally \in Tally
  BY <1>1 DEF Run
<1>3. Counted(run[o].tally, s) \in Tally
  BY <1>2, CountedType
<1>4. r \in Run /\ r.batch = run[o].batch /\ r.todo = run[o].todo /\ r.tally \in Tally
  BY <1>1, <1>3 DEF Run
<1>5. Advance(o, r, jt, x)
  BY DEF CountJob
<1> HIDE DEF r
<1>6. x \in Batch /\ x.status = batch[r.batch].status
  BY <1>1, <1>4 DEF Batch
<1> HIDE DEF x
<1>7. ListOK(r, jt)
  BY <1>4 DEF ListOK
<1>8. QED
  BY <1>4, <1>5, <1>6, <1>7, SoloAdvance

\* What lies between the two ends of a run.
LEMMA SoloBetween ==
  ASSUME TypeOK, SoloInv, NEW o \in Owners, Between(o)
  PROVE  Solo
<1>1. run[o].pc \in InLoop
  BY DEF Between, Opened, JobBegins, SeesCancel, JobEnds, JobClosed, JobTimeout, RunRaises,
         InLoop, PCs, Closing
<1>2. run[o].pc \in PCs /\ run[o] \in Run /\ run[o].batch \in Batches
      /\ batch[run[o].batch] \in Batch
  BY <1>1, RunType DEF InLoop
<1>3. job \in [Jobs -> JobStatuses] /\ busy \subseteq Jobs
  BY DEF TypeOK
<1>4. RunOK(run[o], job) /\ batch[run[o].batch].status \in Open /\ JobsOf(run[o].batch) # {}
  BY <1>1 DEF SoloInv, ProcOK, LoopOK
<1>5. ASSUME NEW p \in PCs
      PROVE  LET q == [run[o] EXCEPT !.pc = p]
             IN q \in Run /\ q.batch = run[o].batch /\ q.todo = run[o].todo /\ q.pc = p
                /\ q.job = run[o].job
  BY <1>2 DEF Run
<1>6. run[o].todo \in SUBSET Jobs
  BY <1>2 DEF Run
<1>7. CASE Opened(o)
  <2> DEFINE r == [run[o] EXCEPT !.seen = busy]
  <2>1. r \in Run /\ r.batch = run[o].batch /\ r.todo = run[o].todo
    BY <1>2, <1>3 DEF Run
  <2>2. Advance(o, r, job, batch[r.batch]) /\ run[o].pc = "opening"
    BY <1>7, <2>1 DEF Opened
  <2> HIDE DEF r
  <2>3. ListOK(r, job)
    BY <1>4, <2>1, <2>2 DEF RunOK, ListOK, AtJob
  <2>4. QED
    BY <1>1, <1>2, <1>3, <2>1, <2>2, <2>3, SoloAdvance
<1>8. CASE JobBegins(o)
  <2> DEFINE q == [run[o] EXCEPT !.pc = "working"]
  <2>1. q \in Run /\ q.batch = run[o].batch /\ q.todo = run[o].todo /\ q.pc = "working"
        /\ q.job = run[o].job
    BY <1>5 DEF PCs
  <2>2. SetRun(o, q) /\ run[o].pc = "launching"
        /\ job' = [job EXCEPT ![run[o].job] = "running"] /\ batch' = batch
    BY <1>8 DEF JobBegins
  <2> HIDE DEF q
  <2>3. \A j \in Jobs : job'[j] = IF j = run[o].job THEN "running" ELSE job[j]
    BY <1>3, <2>2
  <2>4. JobsStay(q.batch)
    BY <1>4, <2>1, <2>2, <2>3 DEF JobsStay, RunOK, AtJob
  <2>5. RunOK(q, job')
    BY <1>4, <1>6, <2>1, <2>2, <2>3 DEF RunOK, AtJob, Closing
  <2>6. QED
    BY <1>2, <1>4, <2>1, <2>2, <2>4, <2>5, SoloMoves
<1>9. CASE SeesCancel(o)
  <2> DEFINE q == [run[o] EXCEPT !.pc = "leaving"]
  <2>1. q \in Run /\ q.batch = run[o].batch /\ q.todo = run[o].todo /\ q.pc = "leaving"
        /\ q.job = run[o].job
    BY <1>5 DEF PCs
  <2>2. SetRun(o, q) /\ run[o].pc = "working" /\ job' = job /\ batch' = batch
    BY <1>9 DEF SeesCancel
  <2> HIDE DEF q
  <2>3. JobsStay(q.batch)
    BY <2>2 DEF JobsStay
  <2>4. RunOK(q, job')
    BY <1>4, <2>1, <2>2 DEF RunOK, AtJob, Closing
  <2>5. QED
    BY <1>2, <1>4, <2>1, <2>2, <2>3, <2>4, SoloMoves
<1>10. CASE JobEnds(o)
  <2>1. PICK s \in {"completed", "canceled", "failed"} :
          job' = [job EXCEPT ![run[o].job] = s] /\ SetRun(o, [run[o] EXCEPT !.pc = s])
    BY <1>10 DEF JobEnds
  <2> DEFINE q == [run[o] EXCEPT !.pc = s]
  <2>2. s \in PCs
    BY DEF PCs, Closing
  <2>3. q \in Run /\ q.batch = run[o].batch /\ q.todo = run[o].todo /\ q.pc = s
        /\ q.job = run[o].job
    BY <1>5, <2>2
  <2>4. SetRun(o, q) /\ run[o].pc \in {"working", "leaving"} /\ batch' = batch
    BY <1>10, <2>1 DEF JobEnds
  <2> HIDE DEF q
  <2>5. \A j \in Jobs : job'[j] = IF j = run[o].job THEN s ELSE job[j]
    BY <1>3, <2>1
  <2>6. JobsStay(q.batch)
    BY <1>4, <2>3, <2>4, <2>5 DEF JobsStay, RunOK, AtJob
  <2>7. RunOK(q, job')
    BY <1>4, <1>6, <2>3, <2>4, <2>5 DEF RunOK, AtJob, Closing
  <2>8. QED
    BY <1>2, <1>4, <2>3, <2>4, <2>6, <2>7, SoloMoves
<1>11. CASE JobClosed(o)
  <2>1. ListOK(run[o], job)
    BY <1>4, <1>11 DEF JobClosed, RunOK, ListOK, AtJob, Closing
  <2>2. QED
    BY <1>1, <1>3, <1>11, <2>1, SoloCount DEF JobClosed
<1>12. CASE JobTimeout(o)
  <2> DEFINE jt == Paint(job, {run[o].job}, "failed")
  <2>1. jt \in [Jobs -> JobStatuses]
    BY <1>3, PaintType DEF JobStatuses, Terminal
  <2>2. \A j \in Jobs : jt[j] = IF j = run[o].job THEN "failed" ELSE job[j]
    BY DEF Paint
  <2>3. run[o].pc \in AtJob \cup Closing /\ CountJob(o, jt, "failed")
    BY <1>12 DEF JobTimeout, AtJob
  <2> HIDE DEF jt
  <2>4. ListOK(run[o], jt)
    BY <1>4, <1>6, <2>2, <2>3 DEF RunOK, ListOK
  <2>5. QED
    BY <1>1, <2>1, <2>3, <2>4, SoloCount
<1>13. CASE RunRaises(o)
  <2> DEFINE q == [run[o] EXCEPT !.pc = "tail"]
  <2>1. q \in Run /\ q.batch = run[o].batch /\ q.pc = "tail"
    BY <1>5 DEF PCs
  <2>2. SetRun(o, q) /\ job' = job /\ batch' = batch
    BY <1>13 DEF RunRaises
  <2> HIDE DEF q
  <2>3. JobsStay(q.batch)
    BY <2>2 DEF JobsStay
  <2>4. QED
    BY <1>2, <1>4, <2>1, <2>2, <2>3, SoloMoves DEF InLoop
<1>14. QED
  BY <1>7, <1>8, <1>9, <1>10, <1>11, <1>12, <1>13 DEF Between

\* A run that is out of its loop leaves one row and its jobs behind.
LEMMA SoloRow ==
  ASSUME TypeOK, SoloInv, NEW o \in Owners, run[o].pc \in PCs, NEW r \in Run \cup {NoRun},
         SetRun(o, r), r.pc \notin InLoop, NEW b \in Batches, JobsStay(b),
         \A c \in Batches : c # b => batch'[c] = batch[c], BatchOK(b)'
  PROVE  Solo
<1>1. run[o] # NoRun
  BY DEF NoRun, PCs, Closing
<1>2. run'[o] = r /\ (\A p \in Owners : p # o => run'[p] = run[p]) /\ proc' = proc
  BY DEF SetRun, TypeOK
<1>3. ASSUME NEW c \in Batches
      PROVE  BatchOK(c)'
  <2>1. CASE c # b
    <3>1. batch'[c] = batch[c] /\ \A j \in Jobs : BatchOf[j] = c => job'[j] = job[j]
      BY <2>1 DEF JobsStay
    <3>2. BatchOK(c)
      BY DEF SoloInv
    <3>3. QED
      BY <3>1, <3>2, BatchStays
  <2>2. QED
    BY <2>1
<1>4. ASSUME NEW p \in Owners
      PROVE  ProcOK(p)'
  <2>1. CASE p = o
    <3>1. Live(o)'
      BY <1>1, <1>2 DEF SoloInv, ProcOK, Live
    <3>2. QED
      BY <1>2, <2>1, <3>1 DEF ProcOK
  <2>2. CASE p # o
    <3>1. run'[p] = NoRun
      BY <1>1, <1>2, <2>2, OnlyRun
    <3>2. QED
      BY <3>1, NoRunOK
  <2>3. QED
    BY <2>1, <2>2
<1>5. Alone'
  BY <1>2 DEF SoloInv, Alone, Live
<1>6. QED
  BY <1>3, <1>4, <1>5 DEF SoloInv, Solo, DoneStays, JobsStay

\* The first slice of a run.
LEMMA SoloBegin ==
  ASSUME TypeOK, SoloInv, NEW o \in Owners, BeginRun(o)
  PROVE  Solo
<1> DEFINE r == run[o]
           q == [r EXCEPT !.pc = "tail"]
<1>1. r.pc = "spawned" /\ r.pc \in PCs
  BY DEF BeginRun, PCs
<1>0. PICK b \in Batches : b = run[o].batch
  BY <1>1, RunType
<1>2. r \in Run /\ b \in Batches /\ b = r.batch /\ batch[b] \in Batch
  BY <1>0, <1>1, RunType
<1>3. job \in [Jobs -> JobStatuses]
  BY DEF TypeOK
<1>4. q \in Run \cup {NoRun} /\ q.pc \notin InLoop
  BY <1>2 DEF Run, PCs, InLoop
<1>5. BatchOK(b)
  BY <1>2 DEF SoloInv
<1> HIDE DEF q
<1>6. CASE /\ batch[b].status = "canceled"
           /\ CancelRemaining(b, job, batch[b]) /\ SetRun(o, q)
  <2> DEFINE rest == JobsOf(b) \ With(job, JobsOf(b), Terminal)
             x == [batch[b] EXCEPT !.tally.off = @ + Cardinality(rest)]
  <2>1. SetBatch(b, x) /\ job' = Paint(job, rest, "canceled")
    BY <1>6 DEF CancelRemaining
  <2>2. /\ batch'[b].status = "canceled"
        /\ \A c \in Batches : c # b => batch'[c] = batch[c]
    BY <1>2, <1>3, <1>6, CancelRemainingType
  <2>3. batch'[b] = x
    BY <1>2, <2>1 DEF SetBatch, TypeOK
  <2>4. JobsStay(b)
    BY <1>3, <2>1 DEF JobsStay, Paint, With, JobsOf, Terminal
  <2>5. JobsOf(b)' = {} => rest = {} /\ batch[b].tally = Zero
    BY <1>5, <2>4 DEF BatchOK, JobsOf, JobsStay
  <2>6. Cardinality({}) = 0
    BY FS_EmptySet
  <2> HIDE DEF rest
  <2>7. ASSUME JobsOf(b)' = {}
        PROVE  batch'[b].tally = Zero
    <3>1. x.tally = [batch[b].tally EXCEPT !.off = @ + Cardinality(rest)]
      BY <1>2 DEF Batch
    <3>2. x.tally = [Zero EXCEPT !.off = @ + 0]
      BY <2>5, <2>6, <2>7, <3>1
    <3>3. QED
      BY <2>3, <3>2 DEF Zero
  <2>8. BatchOK(b)'
    BY <1>2, <2>2, <2>7, OpenBatch DEF Open
  <2>9. QED
    BY <1>1, <1>2, <1>4, <1>6, <2>2, <2>4, <2>8, SoloRow
<1>7. CASE SetRun(o, q) /\ UNCHANGED <<batch, job>>
  <2>1. JobsStay(b)
    BY <1>7 DEF JobsStay
  <2>2. BatchOK(b)'
    BY <1>2, <1>5, <1>7, BatchStays
  <2>3. QED
    BY <1>1, <1>2, <1>4, <1>7, <2>1, <2>2, SoloRow
<1>8. CASE /\ JobsOf(b) = {} /\ SetBatch(b, [batch[b] EXCEPT !.status = "failed"])
           /\ SetRun(o, q) /\ UNCHANGED job
  <2>1. /\ batch'[b].tally = Zero /\ JobsOf(b)' = {}
        /\ \A c \in Batches : c # b => batch'[c] = batch[c]
    <3>1. batch[b].tally = Zero
      BY <1>5, <1>8 DEF BatchOK
    <3>2. batch' = [batch EXCEPT ![b] = [batch[b] EXCEPT !.status = "failed"]]
      BY <1>8 DEF SetBatch
    <3>3. batch'[b] = [batch[b] EXCEPT !.status = "failed"]
      BY <1>2, <3>2 DEF TypeOK
    <3>4. batch'[b].tally = Zero
      BY <1>2, <3>1, <3>3 DEF Batch
    <3>5. QED
      BY <1>8, <3>2, <3>4 DEF TypeOK, JobsOf
  <2>2. BatchOK(b)'
    <3>1. \A S : Cardinality(With(job', JobsOf(b)', S)) = 0
      BY <2>1, FS_EmptySet DEF With
    <3>2. \A S : Cardinality(With(job, JobsOf(b), S))' = 0
      BY <3>1
    <3>3. EndedOK(b)'
      BY <2>1, <3>2 DEF EndedOK, Zero
    <3>4. QED
      BY <2>1, <3>3 DEF BatchOK
  <2>3. JobsStay(b)
    BY <1>8 DEF JobsStay
  <2>4. QED
    BY <1>1, <1>2, <1>4, <1>8, <2>1, <2>2, <2>3, SoloRow
<1>9. CASE /\ batch[b].status = "queued" /\ JobsOf(b) # {}
           /\ SetBatch(b, [batch[b] EXCEPT !.status = "running"])
           /\ SetRun(o, [r EXCEPT !.pc = "opening", !.todo = Todo(b)]) /\ UNCHANGED job
  <2> DEFINE t == [r EXCEPT !.pc = "opening", !.todo = Todo(b)]
  <2>1. Todo(b) \in SUBSET Jobs
    BY DEF Todo, JobsOf
  <2>2. t \in Run /\ t.batch = b /\ t.pc = "opening" /\ t.todo = Todo(b)
    <3> HIDE DEF r
    <3>1. QED
      BY <1>2, <2>1 DEF Run, PCs
  <2>3. SetRun(o, t)
    BY <1>9
  <2> HIDE DEF t
  <2>4. RunOK(t, job')
    BY <1>3, <1>9, <2>2 DEF RunOK, AtJob, Closing, Todo, With, JobsOf, Terminal
  <2>5. batch'[b].status \in Open /\ batch[b].status \in Open
    BY <1>2, <1>9 DEF SetBatch, TypeOK, Open, Batch
  <2>6. \A c \in Batches : c # b => batch'[c] = batch[c]
    BY <1>9 DEF SetBatch, TypeOK
  <2>7. JobsStay(b)
    BY <1>9 DEF JobsStay
  <2>8. QED
    BY <1>0, <1>1, <1>9, <2>2, <2>3, <2>4, <2>5, <2>6, <2>7, SoloMoves
<1>10. QED
  BY <1>0, <1>1, <1>6, <1>7, <1>8, <1>9 DEF BeginRun, q

\* The counts at the end of a run.
LEMMA SoloFinish ==
  ASSUME TypeOK, SoloInv, NEW o \in Owners, FinishRun(o)
  PROVE  Solo
<1> DEFINE q == [run[o] EXCEPT !.pc = "tail"]
<1>1. run[o].pc = "quitting" /\ run[o].pc \in PCs /\ run[o].pc \in InLoop
  BY DEF FinishRun, PCs, InLoop, Closing
<1>2. PICK b \in Batches : b = run[o].batch
  BY <1>1, RunType
<1>3. run[o] \in Run /\ batch[b] \in Batch
  BY <1>1, <1>2, RunType
<1>4. q \in Run \cup {NoRun} /\ q.pc \notin InLoop
  BY <1>3 DEF Run, PCs, InLoop
<1>5. PICK t : t = run[o].tally
  OBVIOUS
<1> DEFINE x == FinalRow(b, t)
<1>6. SetBatch(b, x) /\ SetRun(o, q) /\ job' = job
  BY <1>2, <1>5 DEF FinishRun
<1> HIDE DEF q
<1>7. LoopOK(o) /\ BatchOK(b)
  BY <1>1 DEF SoloInv, ProcOK
<1>8. JobsOf(b) # {} /\ batch[b].status \in Open
  BY <1>2, <1>7 DEF LoopOK
<1>9. /\ batch'[b] = x
      /\ \A c \in Batches : c # b => batch'[c] = batch[c]
  BY <1>6 DEF SetBatch, TypeOK
<1>10. JobsStay(b)
  BY <1>6 DEF JobsStay
<1>11. EndedOK(b)'
  <2> DEFINE N(S) == Cardinality(With(job, JobsOf(b), S))
             u    == [ok |-> N({"completed"}), bad |-> N({"failed", "skipped"}),
                      off |-> N({"canceled"})]
  <2>1. With(job, JobsOf(b), {"running"}) = {}
    BY <1>1, <1>2, <1>7 DEF LoopOK, RunOK, With, JobsOf, AtJob
  <2>2. N({"running"}) = 0
    BY <2>1, FS_EmptySet
  <2>3. x.tally = u
    BY <1>3 DEF FinalRow, Batch
  <2>4. x.status \in {"completed", "failed"} =>
          (x.status = "failed" <=> N({"failed", "skipped"}) > 0)
    BY <1>3, <1>8 DEF FinalRow, Batch, Open
  <2>5. JobsOf(b)' = JobsOf(b) /\ \A S : With(job, JobsOf(b), S)' = With(job, JobsOf(b), S)
    BY <1>6 DEF JobsOf, With
  <2>6. \A S : Cardinality(With(job, JobsOf(b), S))' = N(S)
    BY <2>5
  <2> HIDE DEF x, N
  <2>7. QED
    BY <1>9, <2>2, <2>3, <2>4, <2>6 DEF EndedOK
<1>12. BatchOK(b)'
  <2>1. JobsOf(b)' = JobsOf(b)
    BY <1>6 DEF JobsOf
  <2>2. x.status # "absent"
    BY <1>3, <1>8 DEF FinalRow, Batch, Open
  <2>3. QED
    BY <1>8, <1>9, <1>11, <2>1, <2>2 DEF BatchOK
<1>13. QED
  BY <1>1, <1>4, <1>6, <1>9, <1>10, <1>12, SoloRow

\* The end of a run clears the lease and nothing else.
LEMMA SoloEnd ==
  ASSUME TypeOK, SoloInv, NEW o \in Owners, EndRun(o) \/ CancelRun(o)
  PROVE  Solo
<1>1. run[o].pc \in PCs /\ run[o] \in Run /\ job' = job
  <2>1. run[o].pc \in PCs
    BY DEF EndRun, CancelRun, PCs
  <2>2. QED
    BY <2>1, RunType DEF EndRun, CancelRun
<1>2. PICK b \in Batches : b = run[o].batch
  BY <1>1, RunType
<1>3. batch[b] \in Batch /\ BatchOK(b)
  BY DEF SoloInv, TypeOK
<1>4. PICK r \in Run \cup {NoRun} : SetRun(o, r) /\ r.pc \notin InLoop
  <2>1. NoRun \in Run \cup {NoRun} /\ NoRun.pc \notin InLoop
    BY DEF NoRun, InLoop, PCs, Closing
  <2>2. [run[o] EXCEPT !.pc = "tail"] \in Run /\ [run[o] EXCEPT !.pc = "tail"].pc \notin InLoop
    BY <1>1 DEF Run, PCs, InLoop
  <2>3. SetRun(o, NoRun) \/ SetRun(o, [run[o] EXCEPT !.pc = "tail"])
    BY DEF EndRun, CancelRun
  <2>4. QED
    BY <2>1, <2>2, <2>3
<1>5. /\ \A c \in Batches : c # b => batch'[c] = batch[c]
      /\ batch'[b].status = batch[b].status /\ batch'[b].tally = batch[b].tally
  <2>1. CASE CancelRun(o)
    BY <2>1 DEF CancelRun
  <2>2. CASE EndRun(o)
    <3> DEFINE x == ClearLease(b, o)
    <3>1. x.status = batch[b].status /\ x.tally = batch[b].tally
      BY <1>3 DEF ClearLease, Batch
    <3>2. SetBatch(b, x)
      BY <1>2, <2>2 DEF EndRun
    <3> HIDE DEF x
    <3>3. QED
      BY <3>1, <3>2 DEF SetBatch, TypeOK
  <2>3. QED
    BY <2>1, <2>2
<1>6. BatchOK(b)' /\ JobsStay(b)
  BY <1>1, <1>3, <1>5, BatchStays DEF JobsStay
<1>7. QED
  BY <1>1, <1>4, <1>5, <1>6, SoloRow

\* Every step of the process that has the run.
LEMMA SoloStep ==
  ASSUME TypeOK, SoloInv, NEW o \in Owners, Step(o) \/ CancelRun(o)
  PROVE  Solo
BY SoloBegin, SoloBetween, SoloFinish, SoloEnd DEF Step, Between

\* Stops, crashes, claims and the clock leave jobs and counters alone.
LEMMA SoloAround ==
  ASSUME TypeOK, SoloInv,
         \/ \E o \in Owners : StopProcess(o) \/ ExitProcess(o) \/ Crash(o) \/ Claim(o) \/ Heartbeat(o)
         \/ \E j \in Jobs : GenerationChanges(j)
         \/ Tick \/ UNCHANGED vars
  PROVE  Solo
<1>1. \A b \in Batches : batch[b] \in Batch
  BY DEF TypeOK
<1>2. ASSUME NEW o \in Owners, StopProcess(o) \/ ExitProcess(o) \/ Crash(o)
      PROVE  Solo
  <2>1. UNCHANGED <<job, batch>>
    BY <1>2 DEF StopProcess, ExitProcess, Crash
  <2>2. ASSUME NEW p \in Owners
        PROVE  /\ Live(p)' => Live(p)
               /\ run'[p] # NoRun => run'[p] = run[p] /\ Live(p)'
    BY <1>2 DEF StopProcess, ExitProcess, Crash, TypeOK, SoloInv, ProcOK, Live
  <2>3. Alone'
    BY <2>2 DEF SoloInv, Alone
  <2>4. ASSUME NEW p \in Owners, run'[p].pc \in InLoop
        PROVE  run'[p] = run[p]
    BY <2>2, <2>4 DEF NoRun, InLoop, PCs, Closing
  <2>5. QED
    BY <2>1, <2>2, <2>3, <2>4, SoloStill
<1>3. ASSUME NEW o \in Owners, Claim(o)
      PROVE  Solo
  <2>1. PICK b \in Batches, r \in [pc : {"spawned"}, batch : Batches, todo : {{}}, seen : {{}},
                                   job : {None}, tally : {Zero}] :
          /\ batch' = [batch EXCEPT ![b].owner = o, ![b].lease = LeaseTicks]
          /\ run' = [run EXCEPT ![o] = r]
    BY <1>3, Zenon DEF Claim
  <2>2. /\ \A c \in Batches : /\ batch'[c].status = batch[c].status
                              /\ batch'[c].tally = batch[c].tally
        /\ job' = job /\ proc' = proc /\ proc[o] = "up"
    BY <1>1, <1>3, <2>1 DEF Claim, TypeOK, Batch
  <2>3. r.pc \notin InLoop
    BY DEF InLoop
  <2>4. \A p \in Owners : IF p = o THEN run'[p] = r ELSE run'[p] = run[p]
    BY <2>1 DEF TypeOK
  <2>5. Alone' /\ \A p \in Owners : run'[p] # NoRun => Live(p)'
    BY <2>2, <2>4 DEF SoloInv, Alone, Live, ProcOK
  <2>6. QED
    BY <2>2, <2>3, <2>4, <2>5, SoloStill
<1>4. ASSUME \A b \in Batches : /\ batch'[b].status = batch[b].status
                                /\ batch'[b].tally = batch[b].tally,
             UNCHANGED <<job, proc, run>>
      PROVE  Solo
  BY <1>4, SoloStill DEF SoloInv, Alone, ProcOK, Live
<1>5. ASSUME NEW o \in Owners, Heartbeat(o)
      PROVE  Solo
  <2>1. \A b \in Batches : /\ batch'[b].status = batch[b].status
                           /\ batch'[b].tally = batch[b].tally
    BY <1>1, <1>5 DEF Heartbeat, TypeOK, Batch
  <2>2. QED
    BY <1>4, <1>5, <2>1 DEF Heartbeat
<1>6. CASE Tick
  <2>1. \A b \in Batches : /\ batch'[b].status = batch[b].status
                           /\ batch'[b].tally = batch[b].tally
    BY <1>1, <1>6 DEF Tick, Batch
  <2>2. QED
    BY <1>4, <1>6, <2>1 DEF Tick
<1>7. CASE (\E j \in Jobs : GenerationChanges(j)) \/ UNCHANGED vars
  BY <1>4, <1>7 DEF GenerationChanges, vars
<1>8. QED
  BY <1>2, <1>3, <1>5, <1>6, <1>7

\* The database may be served by one process, and there is an end of them.
SoloAssumption == MaxLive <= 1 /\ IsFiniteSet(Owners)

\* A process that starts is the only one there is.
LEMMA SoloStart ==
  ASSUME TypeOK, SoloInv, SoloAssumption, NEW o \in Owners, StartProcess(o)
  PROVE  Solo
<1> DEFINE S == {b \in Batches : batch[b].status = "running" /\ ~Leased(b)}
<1>1. \A p \in Owners : ~Live(p)
  <2> DEFINE L == {p \in Owners : proc[p] \in {"up", "stopping"}}
  <2>1. Cardinality(L) < MaxLive
    BY DEF StartProcess
  <2>2. \A p \in Owners : Live(p) => p \in L
    BY DEF Live
  <2>3. L \subseteq Owners
    OBVIOUS
  <2> HIDE DEF L
  <2>4. IsFiniteSet(L)
    BY <2>3, FS_Subset DEF SoloAssumption
  <2>5. Cardinality(L) = 0
    BY <2>1, <2>4, FS_CardinalityType, BoundsAssumption DEF SoloAssumption
  <2>6. QED
    BY <2>2, <2>4, <2>5, FS_EmptySet
<1>2. /\ \A p \in Owners : Live(p)' => p = o
      /\ \A p \in Owners : run'[p] = NoRun
  <2>1. \A p \in Owners : run[p] = NoRun
    BY <1>1 DEF SoloInv, ProcOK
  <2>2. \A p \in Owners : p # o => proc'[p] = proc[p]
    BY DEF StartProcess, TypeOK
  <2>3. QED
    BY <1>1, <2>1, <2>2 DEF StartProcess, Live
<1>3. \A j \in Jobs : /\ job'[j] \in {job[j], "queued"}
                      /\ BatchOf[j] \notin S => job'[j] = job[j]
                      /\ job[j] \in {"absent", "completed"} => job'[j] = job[j]
  BY DEF StartProcess, RecoveredJobs, Paint, With, TypeOK
<1> HIDE DEF S
<1>4. ASSUME NEW b \in Batches
      PROVE  BatchOK(b)'
  <2>1. BatchOK(b) /\ batch[b] \in Batch
    BY DEF SoloInv, TypeOK
  <2>2. CASE b \in S
    <3>1. batch'[b] = [batch[b] EXCEPT !.status = "queued", !.owner = None, !.lease = 0]
      BY <2>2 DEF StartProcess, S
    <3>2. batch'[b].status \in Open /\ batch'[b].tally = batch[b].tally
      BY <2>1, <3>1 DEF Batch, Open
    <3>3. JobsOf(b)' = {} => JobsOf(b) = {}
      BY <1>3 DEF JobsOf
    <3>4. QED
      BY <2>1, <3>2, <3>3, OpenBatch DEF BatchOK
  <2>3. CASE b \notin S
    <3>1. batch'[b] = batch[b]
      BY <2>3 DEF StartProcess, S
    <3>2. \A j \in Jobs : BatchOf[j] = b => job'[j] = job[j]
      BY <1>3, <2>3
    <3>3. QED
      BY <2>1, <3>1, <3>2, BatchStays
  <2>4. QED
    BY <2>2, <2>3
<1>5. Alone' /\ \A p \in Owners : ProcOK(p)'
  BY <1>2, NoRunOK DEF Alone
<1>6. QED
  BY <1>3, <1>4, <1>5 DEF SoloInv, Solo, DoneStays

\* A request leaves its batch open; it stops jobs, it does not start or complete any.
LEMMA SoloRequest ==
  ASSUME TypeOK, SoloInv, Alone', NEW b \in Batches,
         \A c \in Batches : c # b => batch'[c] = batch[c],
         \A j \in Jobs : BatchOf[j] # b => job'[j] = job[j],
         \A j \in Jobs : job'[j] \in {"completed", "running"} => job'[j] = job[j],
         \A j \in Jobs : job[j] = "completed" => job'[j] = "completed",
         \A j \in Jobs : job[j] # "absent" => job'[j] # "absent",
         batch'[b].status \in Open, JobsOf(b)' = {} => batch'[b].tally = Zero,
         \A o \in Owners : run'[o] # NoRun => run'[o] = run[o] /\ Live(o)'
  PROVE  Solo
<1>1. ASSUME NEW c \in Batches
      PROVE  BatchOK(c)'
  <2>1. CASE c = b
    BY <2>1, OpenBatch
  <2>2. CASE c # b
    <3>1. batch'[c] = batch[c] /\ BatchOK(c)
      BY <2>2 DEF SoloInv
    <3>2. \A j \in Jobs : BatchOf[j] = c => job'[j] = job[j]
      BY <2>2
    <3>3. QED
      BY <3>1, <3>2, BatchStays
  <2>3. QED
    BY <2>1, <2>2
<1>2. ASSUME NEW o \in Owners, run'[o].pc \in InLoop
      PROVE  LoopOK(o)'
  <2>1. run'[o] # NoRun
    BY <1>2 DEF NoRun, InLoop, PCs, Closing
  <2>2. run'[o] = run[o] /\ run[o].pc \in PCs
    BY <1>2, <2>1 DEF InLoop
  <2>3. PICK r \in Run : r = run[o]
    BY <2>2, RunType
  <2>4. LoopOK(o)
    BY <1>2, <2>2 DEF SoloInv, ProcOK
  <2>5. RunOK(r, job')
    <3>1. RunOK(r, job)
      BY <2>3, <2>4 DEF LoopOK
    <3>2. QED
      BY <3>1, RunOKFewer
  <2>6. r.batch \in Batches /\ batch'[r.batch].status \in Open
    BY <2>3, <2>4 DEF LoopOK, Run
  <2>7. (JobsOf(r.batch) # {})'
    <3>1. JobsOf(r.batch) # {}
      BY <2>3, <2>4 DEF LoopOK
    <3>2. QED
      BY <3>1 DEF JobsOf
  <2>8. r = run'[o]
    BY <2>2, <2>3
  <2>9. QED
    BY <2>5, <2>6, <2>7, <2>8 DEF LoopOK, JobsOf
<1>3. ASSUME NEW o \in Owners
      PROVE  ProcOK(o)'
  BY <1>2 DEF ProcOK
<1>4. QED
  BY <1>1, <1>3 DEF SoloInv, Solo, DoneStays

\* Creating, cancelling and retrying a batch.
LEMMA SoloAsks ==
  ASSUME TypeOK, SoloInv, NEW b \in Batches, CreateBatch(b) \/ CancelBatch(b) \/ RetryBatch(b)
  PROVE  Solo
<1>1. batch[b] \in Batch /\ BatchOK(b) /\ job \in [Jobs -> JobStatuses]
  BY DEF TypeOK, SoloInv
<1>2. UNCHANGED <<proc, run>> /\ \A c \in Batches : c # b => batch'[c] = batch[c]
  BY DEF CreateBatch, CancelBatch, RetryBatch, SetBatch, TypeOK
<1>3. Alone' /\ \A o \in Owners : run'[o] # NoRun => run'[o] = run[o] /\ Live(o)'
  BY <1>2 DEF SoloInv, Alone, Live, ProcOK
<1>4. CASE CreateBatch(b)
  <2>1. batch[b].status = "absent" /\ JobsOf(b) = {} /\ batch[b].tally = Zero
    BY <1>1, <1>4 DEF CreateBatch, NextBatch, BatchOK
  <2>2. batch'[b].status \in Open /\ batch'[b].tally = Zero
    BY <1>1, <1>4, <2>1 DEF CreateBatch, SetBatch, TypeOK, Batch, Open
  <2>3. \A j \in Jobs : job'[j] = IF BatchOf[j] = b THEN "queued" ELSE job[j]
    BY <1>4 DEF CreateBatch, MadeFor, Paint
  <2>4. \A j \in Jobs : BatchOf[j] = b => job[j] = "absent"
    BY <2>1 DEF JobsOf
  <2>5. QED
    BY <1>2, <1>3, <2>2, <2>3, <2>4, SoloRequest
<1>5. CASE CancelBatch(b)
  <2> DEFINE waiting == With(job, JobsOf(b), {"queued"})
             off     == [batch[b] EXCEPT !.status = "canceled"]
             y       == [off EXCEPT !.tally.off = @ + Cardinality(waiting)]
  <2>1. \/ SetBatch(b, off) /\ UNCHANGED job
        \/ SetBatch(b, y) /\ job' = Paint(job, waiting, "canceled")
    BY <1>5 DEF CancelBatch
  <2>2. \A j \in waiting : BatchOf[j] = b /\ job[j] = "queued"
    BY DEF With, JobsOf
  <2>3. off.status = "canceled" /\ off.tally = batch[b].tally
        /\ y.status = "canceled"
        /\ y.tally = [batch[b].tally EXCEPT !.off = @ + Cardinality(waiting)]
    BY <1>1 DEF Batch
  <2>4. JobsOf(b) = {} => off.tally = Zero /\ y.tally = Zero
    <3>1. JobsOf(b) = {} => Cardinality(waiting) = 0
      BY FS_EmptySet DEF With
    <3>2. [Zero EXCEPT !.off = @ + 0] = Zero
      BY DEF Zero
    <3>3. JobsOf(b) = {} => batch[b].tally = Zero
      BY <1>1 DEF BatchOK
    <3> HIDE DEF waiting, off, y
    <3>4. QED
      BY <2>3, <3>1, <3>2, <3>3
  <2> HIDE DEF waiting, off, y
  <2>5. batch'[b] \in {off, y}
    BY <2>1 DEF SetBatch, TypeOK
  <2>6. \A j \in Jobs : \/ job'[j] = job[j]
                        \/ job'[j] = "canceled" /\ job[j] = "queued" /\ BatchOf[j] = b
    BY <2>1, <2>2 DEF Paint
  <2>7. JobsOf(b)' = {} => JobsOf(b) = {}
    BY <2>6 DEF JobsOf
  <2>8. QED
    BY <1>2, <1>3, <2>3, <2>4, <2>5, <2>6, <2>7, SoloRequest DEF Open
<1>6. CASE RetryBatch(b)
  <2>1. PICK x : SetBatch(b, x) /\ x.status = "queued"
    BY <1>6 DEF RetryBatch
  <2>2. batch'[b].status \in Open
    BY <2>1 DEF SetBatch, TypeOK, Open
  <2>3. \A j \in Jobs : \/ job'[j] = job[j]
                        \/ job'[j] = "queued" /\ job[j] = "failed" /\ BatchOf[j] = b
    BY <1>6 DEF RetryBatch, Paint, With, JobsOf
  <2>4. JobsOf(b) # {}
    BY <1>6 DEF RetryBatch, With
  <2>5. JobsOf(b)' # {}
    BY <2>3, <2>4 DEF JobsOf
  <2>6. QED
    BY <1>2, <1>3, <2>2, <2>3, <2>5, SoloRequest
<1>7. QED
  BY <1>4, <1>5, <1>6

\* A process that dies while it creates a batch.
LEMMA SoloCrashInCreate ==
  ASSUME TypeOK, SoloInv, NEW b \in Batches, NEW o \in Owners, CrashInCreate(o, b)
  PROVE  Solo
<1>1. batch[b] \in Batch /\ BatchOK(b)
  BY DEF TypeOK, SoloInv
<1>2. batch[b].status = "absent" /\ JobsOf(b) = {} /\ batch[b].tally = Zero
  BY <1>1 DEF CrashInCreate, NextBatch, BatchOK
<1>3. batch'[b].status \in Open /\ batch'[b].tally = Zero
      /\ \A c \in Batches : c # b => batch'[c] = batch[c]
  BY <1>1, <1>2 DEF CrashInCreate, SetBatch, TypeOK, Batch, Open
<1>4. ASSUME NEW p \in Owners
      PROVE  /\ Live(p)' => Live(p)
             /\ run'[p] # NoRun => run'[p] = run[p] /\ Live(p)'
  BY DEF CrashInCreate, TypeOK, SoloInv, ProcOK, Live
<1>5. Alone'
  BY <1>4 DEF SoloInv, Alone
<1>6. \A j \in Jobs : \/ job'[j] = job[j]
                      \/ job'[j] = "queued" /\ BatchOf[j] = b
  BY DEF CrashInCreate, MadeFor, Paint
<1>7. \A j \in Jobs : BatchOf[j] = b => job[j] = "absent"
  BY <1>2 DEF JobsOf
<1>8. QED
  BY <1>3, <1>4, <1>5, <1>6, <1>7, SoloRequest

\* Every step, with one process at a time.
LEMMA NextIsSolo ==
  ASSUME TypeOK, SoloInv, SoloAssumption, [Next]_vars
  PROVE  Solo
<1>1. ASSUME NEW o \in Owners, Life(o) \/ Claim(o) \/ Step(o) \/ Heartbeat(o) \/ CancelRun(o)
      PROVE  Solo
  BY <1>1, SoloStart, SoloAround, SoloStep DEF Life
<1>2. ASSUME NEW b \in Batches, Request(b)
      PROVE  Solo
  BY <1>2, SoloAsks, SoloCrashInCreate DEF Request
<1>3. QED
  BY <1>1, <1>2, SoloAround DEF Next

\* Nothing runs when the system starts.
LEMMA InitIsSolo ==
  ASSUME Init
  PROVE  SoloInv
<1>1. Alone /\ \A o \in Owners : run[o] = NoRun
  BY DEF Init, Alone, Live
<1>2. \A o \in Owners : ProcOK(o)
  BY <1>1 DEF ProcOK, NoRun, InLoop, PCs, Closing
<1>3. \A b \in Batches : BatchOK(b)
  BY DEF Init, BatchOK, EndedOK, JobsOf
<1>4. QED
  BY <1>1, <1>2, <1>3 DEF SoloInv

\* The invariant of one process at a time.
LEMMA SoloInvariance ==
  ASSUME SoloAssumption
  PROVE  Spec => [](TypeOK /\ SoloInv)
<1>1. TypeOK /\ SoloInv /\ [Next]_vars => SoloInv'
  BY NextIsSolo DEF Solo
<1>2. QED
  BY <1>1, InitIsSolo, TypeCorrect, PTL DEF Spec

\* Where one process serves the database at a time, and however often it is restarted,
\* a batch that says it has ended adds up: for any number of batches and jobs.
THEOREM EndedBatchAddsUpCorrect ==
  ASSUME SoloAssumption
  PROVE  Spec => []EndedBatchAddsUp
<1>1. SoloInv => EndedBatchAddsUp
  BY Zenon DEF SoloInv, BatchOK, EndedOK, EndedBatchAddsUp
<1>2. QED
  BY <1>1, SoloInvariance, PTL

\* Nor does a restart, a recovery or a retry put a completed job back to work.
THEOREM CompletedIsNotRepeatedCorrect ==
  ASSUME SoloAssumption
  PROVE  Spec => CompletedIsNotRepeated
<1>1. TypeOK /\ SoloInv /\ [Next]_vars => [DoneStays]_vars
  BY NextIsSolo DEF Solo
<1>2. QED
  BY <1>1, SoloInvariance, PTL DEF Spec, CompletedIsNotRepeated, DoneStays

=============================================================================
