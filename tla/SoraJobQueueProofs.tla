------------------------- MODULE SoraJobQueueProofs -------------------------
(***************************************************************************)
(* Theorems about the generation queue, for every number of jobs, owners,  *)
(* processes and retries.                                                  *)
(*                                                                         *)
(* Data part: what a phase has produced stays in the row, and every pc of  *)
(* a run presupposes the fields of the phases before it (DataInv).  It     *)
(* holds however long processes stall, because no step clears a field.     *)
(* Lease part: every run of a process that does not stall owns a current   *)
(* lease, hence no claim or recovery can touch its job and such runs are   *)
(* unique, whatever runs of stalling processes do beside them.  The lease  *)
(* columns then implement LeaseLock, whoever stalls.                       *)
(* Watermark part: where no process stalls, a failed watermark and a live  *)
(* retry task both mean that the job's runs are on their way out (WmInv),  *)
(* so a job has one retry task at most.                                    *)
(***************************************************************************)
EXTENDS SoraJobQueue, TLAPS

-----------------------------------------------------------------------------
(* The invariant on the data *)

\* What a row's phase and status presuppose of its fields.
RowOK(x) ==
  /\ x.gen => x.task
  /\ x.published => x.gen
  /\ x.phase \in {"progress", "genid", "publish", "watermark", "done"} => x.task
  /\ x.phase \in {"publish", "watermark", "done"} => x.gen
  /\ x.phase \in {"watermark", "done"} => x.published
  /\ x.status = "completed" => x.published
  /\ x.status = "absent" => ~x.task

\* What a run suspended at pc presupposes of the row x of its job.
PcOK(x, pc) ==
  /\ pc \in {"accepted", "progress", "polled", "genid", "captured",
             "publish", "watermark", "parsing", "exhausted"} => x.task
  /\ pc \in {"polled", "captured", "publish", "watermark", "parsing", "exhausted"} => x.gen
  /\ pc \in {"watermark", "parsing", "exhausted"} => x.published

DataInv ==
  /\ \A j \in Jobs : RowOK(row[j])
  /\ \A r \in runs : row[r.job].status # "absent" /\ PcOK(row[r.job], r.pc)
  /\ \A w \in wmTasks : row[w.job].published

\* y may replace x: nothing produced is lost.
Grows(x, y) ==
  /\ x.task => y.task
  /\ x.gen => y.gen
  /\ x.published => y.published
  /\ x.status # "absent" => y.status # "absent"

\* new is a legal next row of r's job that leaves its lease alone.
Follows(r, new) ==
  /\ new \in Row
  /\ RowOK(new)
  /\ Grows(row[r.job], new)
  /\ new.owner = row[r.job].owner
  /\ new.lease = row[r.job].lease
  /\ new.status # "absent"

\* The normal form of almost every step of a run.
Moves(r) ==
  \E new \in Row, pc \in PCs :
    Follows(r, new) /\ PcOK(new, pc) /\ SetRow(r, new) /\ MoveTo(r, pc)

\* The except branch of run_sora_job moves the run.
LEMMA FailRunMoves ==
  ASSUME NEW r \in runs, NEW cur, Follows(r, cur), NEW e \in Errors, FailRun(r, cur, e)
  PROVE  Moves(r)
<1> DEFINE new == [cur EXCEPT !.status = "failed", !.error = e]
           pc  == IF cur.phase = "submit" /\ e = "overload" THEN "overload" ELSE "tail"
<1>1. new \in Row
  BY DEF Follows, Row, Statuses, Errors
<1>2. Follows(r, new)
  BY <1>1 DEF Follows, RowOK, Grows, Row
<1>3. pc \in PCs /\ PcOK(new, pc)
  BY DEF PCs, Body, PcOK
<1>4. SetRow(r, new) /\ MoveTo(r, pc)
  BY DEF FailRun
<1>5. QED
  BY <1>1, <1>2, <1>3, <1>4 DEF Moves

\* Entering the submit phase moves the run.
LEMMA EnterSubmitMoves ==
  ASSUME NEW r \in runs, NEW cur, Follows(r, cur), EnterSubmit(r, cur)
  PROVE  Moves(r)
<1>1. CASE cur.budget = "spent"
  BY <1>1, FailRunMoves DEF EnterSubmit, Errors
<1>2. CASE cur.budget # "spent"
  <2>1. "submit" \in PCs /\ PcOK(cur, "submit")
    BY DEF PCs, Body, Timed, PcOK
  <2>2. QED
    BY <1>2, <2>1 DEF EnterSubmit, Moves, Follows
<1>3. QED
  BY <1>1, <1>2

\* Entering the progress phase moves the run.
LEMMA EnterProgressMoves ==
  ASSUME NEW r \in runs, NEW cur, Follows(r, cur), EnterProgress(r, cur)
  PROVE  Moves(r)
<1>1. CASE ~cur.task \/ cur.budget = "spent"
  BY <1>1, FailRunMoves DEF EnterProgress, Errors
<1>2. CASE ~(~cur.task \/ cur.budget = "spent")
  <2>1. "progress" \in PCs /\ PcOK(cur, "progress")
    BY <1>2 DEF PCs, Body, Timed, PcOK
  <2>2. QED
    BY <1>2, <2>1 DEF EnterProgress, Moves, Follows
<1>3. QED
  BY <1>1, <1>2

\* Entering the publish phase with a stored generation id moves the run.
LEMMA EnterPublishMoves ==
  ASSUME NEW r \in runs, NEW cur, NEW gen \in BOOLEAN, Follows(r, cur),
         gen => cur.gen, EnterPublish(r, cur, gen)
  PROVE  Moves(r)
<1>1. CASE cur.budget = "spent" \/ ~gen
  BY <1>1, FailRunMoves DEF EnterPublish, Errors
<1>2. CASE ~(cur.budget = "spent" \/ ~gen)
  <2> DEFINE new == [cur EXCEPT !.phase = "publish"]
  <2>1. new \in Row
    BY DEF Follows, Row, Phases
  <2>2. Follows(r, new)
    BY <1>2, <2>1 DEF Follows, RowOK, Grows, Row
  <2>3. "publish" \in PCs /\ PcOK(new, "publish")
    BY <1>2 DEF PCs, Body, Timed, PcOK, Follows, Row, RowOK
  <2>4. QED
    BY <1>2, <2>1, <2>2, <2>3 DEF EnterPublish, Moves
<1>3. QED
  BY <1>1, <1>2

\* Entering the genid phase moves the run.
LEMMA EnterGenidMoves ==
  ASSUME NEW r \in runs, NEW cur, NEW gen \in BOOLEAN, Follows(r, cur),
         gen => cur.gen, EnterGenid(r, cur, gen)
  PROVE  Moves(r)
<1> DEFINE new == [cur EXCEPT !.phase = "genid"]
<1>1. CASE cur.budget = "spent" \/ ~cur.task
  BY <1>1, FailRunMoves DEF EnterGenid, Errors
<1>2. CASE ~(cur.budget = "spent" \/ ~cur.task)
  <2>1. new \in Row
    BY DEF Follows, Row, Phases
  <2>2. Follows(r, new)
    BY <1>2, <2>1 DEF Follows, RowOK, Grows, Row
  <2>3. CASE gen
    BY <1>2, <2>2, <2>3, EnterPublishMoves DEF EnterGenid, Follows, Row
  <2>4. CASE ~gen
    <3>1. "genid" \in PCs /\ PcOK(new, "genid")
      BY <1>2 DEF PCs, Body, Timed, PcOK, Follows, Row
    <3>2. QED
      BY <1>2, <2>1, <2>2, <2>4, <3>1 DEF EnterGenid, Moves
  <2>5. QED
    BY <2>3, <2>4
<1>3. QED
  BY <1>1, <1>2

\* The row a run works on follows itself.
LEMMA RowFollows ==
  ASSUME TypeOK, DataInv, NEW r \in runs
  PROVE  /\ r \in Run /\ r.job \in Jobs /\ r.owner \in Owners /\ r.pc \in PCs
         /\ row[r.job] \in Row
         /\ Follows(r, row[r.job])
         /\ PcOK(row[r.job], r.pc)
BY DEF TypeOK, DataInv, Run, Follows, Grows

\* The first slice of a run moves it.
LEMMA StartRunMoves ==
  ASSUME TypeOK, DataInv, NEW r \in runs, StartRun(r)
  PROVE  Moves(r)
<1> DEFINE old == row[r.job]
           cur == [old EXCEPT
                     !.status = "running", !.error = "none",
                     !.phase  = IF @ = "queue" THEN "submit" ELSE @,
                     !.budget = IF @ = "unset" THEN "live" ELSE @]
           fin == [cur EXCEPT !.status = "completed"]
<1>1. old \in Row /\ Follows(r, old)
  BY RowFollows
<1>2. cur \in Row
  BY <1>1 DEF Row, Statuses, Phases, Errors
<1>3. Follows(r, cur)
  BY <1>1, <1>2 DEF Follows, RowOK, Grows, Row
<1>4. "tail" \in PCs /\ \A x : PcOK(x, "tail")
  BY DEF PCs, PcOK
<1>5. CASE SetRow(r, old) /\ MoveTo(r, "tail")
  BY <1>1, <1>4, <1>5 DEF Moves
<1>6. CASE EnterSubmit(r, cur)
  BY <1>3, <1>6, EnterSubmitMoves
<1>7. CASE EnterProgress(r, cur)
  BY <1>3, <1>7, EnterProgressMoves
<1>8. cur.gen \in BOOLEAN
  BY <1>2 DEF Row
<1>9. CASE EnterGenid(r, cur, cur.gen)
  BY <1>3, <1>8, <1>9, EnterGenidMoves
<1>10. CASE EnterPublish(r, cur, cur.gen)
  BY <1>3, <1>8, <1>10, EnterPublishMoves
<1>11. CASE SetRow(r, cur) /\ MoveTo(r, "tail")
  BY <1>2, <1>3, <1>4, <1>11 DEF Moves
<1>12. CASE cur.phase = "done" /\ SetRow(r, fin) /\ MoveTo(r, "tail")
  <2>1. fin \in Row
    BY <1>2 DEF Row, Statuses
  <2>2. Follows(r, fin)
    BY <1>3, <1>12, <2>1 DEF Follows, RowOK, Grows, Row
  <2>3. QED
    BY <1>4, <1>12, <2>1, <2>2 DEF Moves
<1>13. QED
  BY <1>5, <1>6, <1>7, <1>9, <1>10, <1>11, <1>12 DEF StartRun

\* A step that stores what it got and suspends the run again moves it.
LEMMA StoreMoves ==
  ASSUME NEW r \in runs, NEW new \in Row, NEW pc \in PCs,
         Follows(r, new), PcOK(new, pc), SetRow(r, new), MoveTo(r, pc)
  PROVE  Moves(r)
BY DEF Moves

\* The steps of the submit and progress phases move the run.
LEMMA SubmitMoves ==
  ASSUME TypeOK, DataInv, NEW r \in runs,
         \/ SubmitAccepted(r) \/ TokenFound(r)
         \/ PollGeneration(r) \/ ProgressDone(r) \/ PollCanceled(r)
  PROVE  Moves(r)
<1> DEFINE old == row[r.job]
<1>1. old \in Row /\ Follows(r, old) /\ PcOK(old, r.pc)
  BY RowFollows
<1>2. {"accepted", "progress", "polled"} \subseteq PCs
  BY DEF PCs, Body, Timed
<1>3. CASE SubmitAccepted(r)
  <2> DEFINE cur == [old EXCEPT !.task = TRUE]
             new == [cur EXCEPT !.phase = "progress"]
  <2>1. cur \in Row /\ new \in Row
    BY <1>1 DEF Row, Phases
  <2>2. Follows(r, cur)
    BY <1>1, <2>1 DEF Follows, RowOK, Grows, Row
  <2>3. Follows(r, new)
    BY <1>1, <2>1 DEF Follows, RowOK, Grows, Row
  <2>4. PcOK(cur, "accepted") /\ PcOK(new, "progress")
    BY <1>1 DEF PcOK, Row
  <2>5. CASE SetRow(r, cur) /\ MoveTo(r, "accepted")
    BY <1>2, <2>1, <2>2, <2>4, <2>5, StoreMoves
  <2>6. CASE SetRow(r, new) /\ MoveTo(r, "progress")
    BY <1>2, <2>1, <2>3, <2>4, <2>6, StoreMoves
  <2>7. QED
    BY <1>3, <2>5, <2>6 DEF SubmitAccepted
<1>4. CASE TokenFound(r)
  <2> DEFINE new == [old EXCEPT !.phase = "progress"]
  <2>1. new \in Row /\ old.task
    BY <1>1, <1>4 DEF Row, Phases, TokenFound, PcOK
  <2>2. Follows(r, new)
    BY <1>1, <2>1 DEF Follows, RowOK, Grows, Row
  <2>3. PcOK(new, "progress")
    BY <1>1, <2>1 DEF PcOK, Row
  <2>4. QED
    BY <1>2, <1>4, <2>1, <2>2, <2>3, StoreMoves DEF TokenFound
<1>5. CASE PollGeneration(r)
  <2> DEFINE new == [old EXCEPT !.gen = TRUE]
  <2>1. new \in Row /\ old.task
    BY <1>1, <1>5 DEF Row, PollGeneration, PcOK
  <2>2. Follows(r, new)
    BY <1>1, <2>1 DEF Follows, RowOK, Grows, Row
  <2>3. PcOK(new, "polled")
    BY <1>1, <2>1 DEF PcOK, Row
  <2>4. QED
    BY <1>2, <1>5, <2>1, <2>2, <2>3, StoreMoves DEF PollGeneration
<1>6. CASE ProgressDone(r)
  <2> DEFINE gen == r.pc = "polled"
  <2>1. gen \in BOOLEAN /\ (gen => old.gen)
    BY <1>1 DEF PcOK
  <2>2. QED
    BY <1>1, <1>6, <2>1, EnterGenidMoves DEF ProgressDone
<1>7. CASE PollCanceled(r)
  BY <1>1, <1>7, FailRunMoves DEF PollCanceled, Errors
<1>8. QED
  BY <1>3, <1>4, <1>5, <1>6, <1>7

\* The steps of the genid and publish phases, errors and timeouts move the run.
LEMMA PublishMoves ==
  ASSUME TypeOK, DataInv, NEW r \in runs,
         \/ FetchGeneration(r) \/ GenidDone(r) \/ PublishDone(r)
         \/ RunError(r) \/ RunTimeout(r)
  PROVE  Moves(r)
<1> DEFINE old == row[r.job]
<1>1. old \in Row /\ Follows(r, old) /\ PcOK(old, r.pc)
  BY RowFollows
<1>2. {"captured", "watermark"} \subseteq PCs
  BY DEF PCs, Body, Timed
<1>3. CASE FetchGeneration(r)
  <2> DEFINE new == [old EXCEPT !.gen = TRUE]
  <2>1. new \in Row /\ old.task
    BY <1>1, <1>3 DEF Row, FetchGeneration, PcOK
  <2>2. Follows(r, new)
    BY <1>1, <2>1 DEF Follows, RowOK, Grows, Row
  <2>3. PcOK(new, "captured")
    BY <1>1, <2>1 DEF PcOK, Row
  <2>4. QED
    BY <1>2, <1>3, <2>1, <2>2, <2>3, StoreMoves DEF FetchGeneration
<1>4. CASE GenidDone(r)
  <2>1. old.gen
    BY <1>1, <1>4 DEF PcOK, GenidDone
  <2>2. QED
    BY <1>1, <1>4, <2>1, EnterPublishMoves DEF GenidDone
<1>5. CASE PublishDone(r)
  <2> DEFINE new == [old EXCEPT !.published = TRUE, !.status = "running",
                                !.phase = "watermark", !.wm = "queued"]
  <2>1. new \in Row /\ old.task /\ old.gen
    BY <1>1, <1>5 DEF Row, Phases, Statuses, WmStates, PublishDone, PcOK
  <2>2. Follows(r, new)
    BY <1>1, <2>1 DEF Follows, RowOK, Grows, Row
  <2>3. PcOK(new, "watermark")
    BY <1>1, <2>1 DEF PcOK, Row
  <2>4. CASE FailRun(r, new, "other")
    BY <2>2, <2>4, FailRunMoves DEF Errors
  <2>5. CASE SetRow(r, new) /\ MoveTo(r, "watermark")
    BY <1>2, <2>1, <2>2, <2>3, <2>5, StoreMoves
  <2>6. QED
    BY <1>5, <2>4, <2>5 DEF PublishDone
<1>6. CASE RunError(r)
  BY <1>1, <1>6, FailRunMoves DEF RunError, Errors
<1>7. CASE RunTimeout(r)
  BY <1>1, <1>7, FailRunMoves DEF RunTimeout, Errors
<1>8. QED
  BY <1>3, <1>4, <1>5, <1>6, <1>7

\* The steps of the watermark phase move the run.
LEMMA WatermarkMoves ==
  ASSUME TypeOK, DataInv, NEW r \in runs,
         \/ WatermarkBegin(r) \/ WatermarkDone(r)
         \/ WatermarkExhausted(r) \/ WatermarkGiveUp(r)
  PROVE  Moves(r)
<1> DEFINE old == row[r.job]
<1>1. old \in Row /\ Follows(r, old) /\ PcOK(old, r.pc)
  BY RowFollows
<1>2. {"parsing", "exhausted", "tail"} \subseteq PCs
  BY DEF PCs, Body, Timed
<1>3. old.task /\ old.gen /\ old.published
  BY <1>1 DEF PcOK, WatermarkBegin, WatermarkDone, WatermarkExhausted, WatermarkGiveUp
<1>4. \A p \in {"parsing", "exhausted", "tail"} :
        \A x : x.task /\ x.gen /\ x.published => PcOK(x, p)
  BY DEF PcOK
<1>5. CASE WatermarkBegin(r)
  <2> DEFINE new == [old EXCEPT !.phase = "watermark", !.wm = "running"]
  <2>1. new \in Row /\ Follows(r, new) /\ PcOK(new, "parsing")
    BY <1>1, <1>3, <1>4 DEF Row, Phases, WmStates, Follows, RowOK, Grows
  <2>2. CASE SetRow(r, new) /\ MoveTo(r, "parsing")
    BY <1>2, <2>1, <2>2, StoreMoves
  <2>3. CASE FailRun(r, old, "other")
    BY <1>1, <2>3, FailRunMoves DEF Errors
  <2>4. QED
    BY <1>5, <2>2, <2>3 DEF WatermarkBegin
<1>6. ASSUME NEW wmState \in {"completed", "fallback"}
      PROVE  /\ Complete(old, wmState) \in Row
             /\ Follows(r, Complete(old, wmState))
             /\ PcOK(Complete(old, wmState), "tail")
  BY <1>1, <1>3, <1>4 DEF Complete, Row, Phases, Statuses, WmStates, Follows, RowOK, Grows
<1>7. CASE WatermarkDone(r)
  BY <1>2, <1>6, <1>7, StoreMoves DEF WatermarkDone
<1>8. CASE WatermarkExhausted(r)
  <2> DEFINE new == [old EXCEPT !.wm = "failed"]
  <2>1. new \in Row /\ Follows(r, new) /\ PcOK(new, "exhausted")
    BY <1>1, <1>3, <1>4 DEF Row, WmStates, Follows, RowOK, Grows
  <2>2. QED
    BY <1>2, <1>8, <2>1, StoreMoves DEF WatermarkExhausted
<1>9. CASE WatermarkGiveUp(r)
  <2>1. CASE SetRow(r, Complete(old, "fallback")) /\ MoveTo(r, "tail")
    BY <1>2, <1>6, <2>1, StoreMoves
  <2>2. CASE FailRun(r, old, "other")
    BY <1>1, <2>2, FailRunMoves DEF Errors
  <2>3. QED
    BY <1>9, <2>1, <2>2 DEF WatermarkGiveUp
<1>10. QED
  BY <1>5, <1>7, <1>8, <1>9

\* The data invariant survives a step that loses nothing and whose new runs and
\* detached tasks have what they presuppose.
LEMMA DataKept ==
  ASSUME TypeOK, TypeOK', DataInv,
         \A j \in Jobs : RowOK(row'[j]) /\ Grows(row[j], row'[j]),
         \A r \in runs' : r \in runs \/ (row'[r.job].status # "absent" /\ PcOK(row'[r.job], r.pc)),
         \A w \in wmTasks' : (\E v \in wmTasks : v.job = w.job) \/ row'[w.job].published
  PROVE  DataInv'
<1>1. \A j \in Jobs : RowOK(row'[j])
  OBVIOUS
<1>2. ASSUME NEW r \in runs'
      PROVE  row'[r.job].status # "absent" /\ PcOK(row'[r.job], r.pc)
  <2>1. CASE r \in runs
    <3>1. r.job \in Jobs /\ row[r.job].status # "absent" /\ PcOK(row[r.job], r.pc)
      BY <2>1, RowFollows DEF DataInv
    <3>2. Grows(row[r.job], row'[r.job])
      BY <3>1
    <3>3. QED
      BY <3>1, <3>2 DEF PcOK, Grows
  <2>2. QED
    BY <2>1
<1>3. ASSUME NEW w \in wmTasks'
      PROVE  row'[w.job].published
  BY DEF TypeOK, WmTask, DataInv, Grows
<1>4. QED
  BY <1>1, <1>2, <1>3 DEF DataInv

\* What a run's own step does in normal form keeps types and data.
LEMMA MovesKeep ==
  ASSUME TypeOK, DataInv, NEW r \in runs, Moves(r)
  PROVE  TypeOK' /\ DataInv'
<1>1. PICK new \in Row, pc \in PCs :
        Follows(r, new) /\ PcOK(new, pc) /\ SetRow(r, new) /\ MoveTo(r, pc)
  BY DEF Moves
<1> DEFINE moved == [r EXCEPT !.pc = pc]
<1>2. r \in Run /\ r.job \in Jobs
  BY RowFollows
<1>3. moved \in Run /\ moved.job = r.job /\ moved.pc = pc
  BY <1>2 DEF Run
<1>4. /\ row' = [row EXCEPT ![r.job] = new]
      /\ runs' = (runs \ {r}) \cup {moved}
      /\ UNCHANGED <<proc, wmTasks>>
  BY <1>1 DEF SetRow, MoveTo
<1>5. TypeOK'
  BY <1>3, <1>4 DEF TypeOK
<1>6. \A j \in Jobs : RowOK(row'[j]) /\ Grows(row[j], row'[j])
  <2> TAKE j \in Jobs
  <2>1. CASE j = r.job
    BY <1>1, <1>2, <1>4, <2>1 DEF TypeOK, Follows
  <2>2. CASE j # r.job
    BY <1>4, <2>2 DEF TypeOK, DataInv, Grows
  <2>3. QED
    BY <2>1, <2>2
<1>7. row'[r.job] = new
  BY <1>2, <1>4 DEF TypeOK
<1>8. \A s \in runs' : s \in runs \/ (row'[s.job].status # "absent" /\ PcOK(row'[s.job], s.pc))
  BY <1>1, <1>3, <1>4, <1>7 DEF Follows
<1>9. QED
  BY <1>4, <1>5, <1>6, <1>8, DataKept

-----------------------------------------------------------------------------
(* The steps that are not in normal form *)

\* A lease may be full or empty.
LEMMA LeaseRange == LeaseTicks \in 0 .. LeaseTicks /\ 0 \in 0 .. LeaseTicks
BY BoundsAssumption

\* The two lease columns may be set to any owner and any time left.
LEMMA LeaseColumns ==
  ASSUME NEW x \in Row, NEW o \in Owners \cup {NoOwner}, NEW l \in 0 .. LeaseTicks
  PROVE  [x EXCEPT !.owner = o, !.lease = l] \in Row
BY DEF Row

\* A row that differs from x in lease, owner, attempt, budget, error or in a
\* status other than completed is a row, legal and no poorer.
LEMMA SameProduct ==
  ASSUME NEW x \in Row, RowOK(x), NEW y \in Row,
         y.task = x.task, y.gen = x.gen, y.published = x.published,
         y.phase = x.phase, y.status = "completed" => x.status = "completed",
         y.status = "absent" <=> x.status = "absent"
  PROVE  RowOK(y) /\ Grows(x, y)
BY DEF RowOK, Grows

\* A recovered row loses its lease and its status, and nothing else.
LEMMA LifeKeeps ==
  ASSUME TypeOK, DataInv, NEW o \in Owners, Life(o)
  PROVE  TypeOK' /\ DataInv'
<1>1. CASE StartProcess(o)
  <2>1. ASSUME NEW j \in Jobs, Stale(j)
        PROVE  Recovered(j) \in Row /\ RowOK(Recovered(j)) /\ Grows(row[j], Recovered(j))
    <3>1. row[j] \in Row /\ RowOK(row[j])
      BY DEF TypeOK, DataInv
    <3>2. Recovered(j) \in Row
      <4> DEFINE y == [row[j] EXCEPT !.status = "failed", !.error = "other"]
      <4>1. y \in Row
        BY <3>1 DEF Row, Statuses, Errors
      <4>2. [y EXCEPT !.owner = NoOwner, !.lease = 0] \in Row
        BY <4>1, LeaseRange, LeaseColumns
      <4>3. QED
        BY <4>2 DEF Recovered
    <3>3. QED
      BY <2>1, <3>1, <3>2, SameProduct DEF Recovered, Row, Stale
  <2>2. \A j \in Jobs : row'[j] \in Row /\ RowOK(row'[j]) /\ Grows(row[j], row'[j])
    BY <1>1, <2>1 DEF StartProcess, TypeOK, DataInv, Grows
  <2>3. TypeOK'
    BY <1>1, <2>2 DEF StartProcess, TypeOK
  <2>4. QED
    BY <1>1, <2>2, <2>3, DataKept DEF StartProcess
<1>2. ASSUME UNCHANGED row, runs' \subseteq runs, wmTasks' \subseteq wmTasks,
             proc' \in [Owners -> {"new", "up", "stopping", "dead"}]
      PROVE  TypeOK' /\ DataInv'
  <2>1. TypeOK'
    BY <1>2 DEF TypeOK
  <2>2. \A j \in Jobs : RowOK(row'[j]) /\ Grows(row[j], row'[j])
    BY <1>2 DEF DataInv, Grows
  <2>3. QED
    BY <1>2, <2>1, <2>2, DataKept
<1>3. CASE StopProcess(o)
  BY <1>2, <1>3 DEF StopProcess, TypeOK
<1>4. CASE ExitProcess(o)
  BY <1>2, <1>4 DEF ExitProcess, TypeOK
<1>5. CASE Crash(o)
  BY <1>2, <1>5 DEF Crash, TypeOK
<1>6. QED
  BY <1>1, <1>3, <1>4, <1>5 DEF Life

\* A claim writes the lease and the attempt only, and its runs start with a pc
\* that presupposes nothing.
LEMMA LoopPassKeeps ==
  ASSUME TypeOK, DataInv, NEW o \in Owners, LoopPass(o)
  PROVE  TypeOK' /\ DataInv'
<1>1. PICK S \in SUBSET {j \in Jobs : Claimable(j)} :
        /\ row' = [j \in Jobs |-> IF j \in S THEN Claimed(j, o) ELSE row[j]]
        /\ runs' = runs \cup {[job |-> j, attempt |-> row[j].attempt + 1,
                               owner |-> o, pc |-> "spawned"] : j \in S}
        /\ UNCHANGED <<proc, wmTasks>>
  BY DEF LoopPass
<1>2. ASSUME NEW j \in Jobs
      PROVE  Claimed(j, o) \in Row /\ RowOK(Claimed(j, o)) /\ Grows(row[j], Claimed(j, o))
  <2>1. row[j] \in Row /\ RowOK(row[j])
    BY DEF TypeOK, DataInv
  <2>2. Claimed(j, o) \in Row
    <3> DEFINE y == [row[j] EXCEPT !.owner = o, !.lease = LeaseTicks]
    <3>1. y \in Row
      BY <2>1, LeaseRange, LeaseColumns
    <3>2. y.attempt = row[j].attempt /\ row[j].attempt + 1 \in Nat
      BY <2>1 DEF Row
    <3>3. [y EXCEPT !.attempt = row[j].attempt + 1] \in Row
      BY <3>1, <3>2 DEF Row
    <3>4. QED
      BY <3>3 DEF Claimed
  <2>3. QED
    BY <2>1, <2>2, SameProduct DEF Claimed, Row
<1>3. \A j \in Jobs : row'[j] \in Row /\ RowOK(row'[j]) /\ Grows(row[j], row'[j])
  BY <1>1, <1>2 DEF TypeOK, DataInv, Grows
<1>4. ASSUME NEW j \in Jobs
      PROVE  [job |-> j, attempt |-> row[j].attempt + 1, owner |-> o, pc |-> "spawned"] \in Run
  BY DEF TypeOK, Row, Run, PCs
<1>5. TypeOK'
  BY <1>1, <1>3, <1>4 DEF TypeOK
<1>6. \A r \in runs' : r \in runs \/ (row'[r.job].status # "absent" /\ PcOK(row'[r.job], r.pc))
  <2>1. ASSUME NEW j \in S
        PROVE  j \in Jobs /\ row[j].status # "absent"
    BY DEF Claimable
  <2>2. QED
    BY <1>1, <1>3, <2>1 DEF PcOK, Grows
<1>7. QED
  BY <1>1, <1>3, <1>5, <1>6, DataKept

\* The clock and the heartbeat write leases and budgets only.
LEMMA ClockKeeps ==
  ASSUME TypeOK, DataInv,
         \/ Tick
         \/ \E r \in runs : Heartbeat(r)
         \/ \E j \in Jobs : BudgetSpent(j)
  PROVE  TypeOK' /\ DataInv'
<1> DEFINE Ticked(j)  == [row[j] EXCEPT !.lease = IF @ > 0 THEN @ - 1 ELSE 0]
           Renewed(j) == [row[j] EXCEPT !.lease = LeaseTicks]
           Spent(j)   == [row[j] EXCEPT !.budget = "spent"]
<1>1. ASSUME NEW j \in Jobs
      PROVE  row[j] \in Row /\ RowOK(row[j]) /\ Grows(row[j], row[j])
  BY DEF TypeOK, DataInv, Grows
<1>2. ASSUME NEW j \in Jobs, NEW y \in {Ticked(j), Renewed(j), Spent(j)}
      PROVE  y \in Row /\ RowOK(y) /\ Grows(row[j], y)
  <2>1. Ticked(j) \in Row
    BY <1>1, BoundsAssumption DEF Row
  <2>2. Renewed(j) \in Row /\ Spent(j) \in Row
    BY <1>1, BoundsAssumption DEF Row
  <2>3. QED
    BY <1>1, <2>1, <2>2, SameProduct DEF Row
<1>3. /\ row' \in [Jobs -> Row]
      /\ \A j \in Jobs : RowOK(row'[j]) /\ Grows(row[j], row'[j])
      /\ UNCHANGED <<proc, runs, wmTasks>>
  <2>1. CASE Tick
    BY <1>2, <2>1 DEF Tick, TypeOK
  <2>2. CASE \E r \in runs : Heartbeat(r)
    <3>1. PICK r \in runs : Heartbeat(r)
      BY <2>2
    <3>2. r.job \in Jobs
      BY RowFollows
    <3>3. QED
      BY <1>1, <1>2, <3>1, <3>2 DEF Heartbeat, TypeOK
  <2>3. CASE \E j \in Jobs : BudgetSpent(j)
    BY <1>1, <1>2, <2>3 DEF BudgetSpent, TypeOK
  <2>4. QED
    BY <2>1, <2>2, <2>3
<1>4. TypeOK'
  BY <1>3 DEF TypeOK
<1>5. QED
  BY <1>3, <1>4, DataKept

\* A new job is a legal row, and nothing is lost where there was no row.
LEMMA FreshKeeps ==
  ASSUME TypeOK, DataInv, NEW j \in Jobs, Fresh(j),
         row' = [row EXCEPT ![j] = Queued]
  PROVE  /\ row' \in [Jobs -> Row]
         /\ \A i \in Jobs : RowOK(row'[i]) /\ Grows(row[i], row'[i])
<1>1. Queued \in Row /\ RowOK(Queued)
  BY LeaseRange DEF Queued, Absent, Row, RowOK, Statuses, Phases, Errors, WmStates
<1>2. RowOK(row[j]) /\ ~row[j].task
  BY DEF DataInv, Fresh, RowOK
<1>3. Grows(row[j], Queued)
  BY <1>2, <1>1 DEF RowOK, Grows, Queued
<1>4. QED
  BY <1>1, <1>3 DEF TypeOK, DataInv, Grows

\* The end of a run, a cancelled run and a child job keep types and data.
LEMMA EndKeeps ==
  ASSUME TypeOK, DataInv, NEW r \in runs, OverloadDone(r) \/ EndRun(r) \/ CancelRun(r)
  PROVE  TypeOK' /\ DataInv'
<1> DEFINE old == row[r.job]
<1>1. /\ r \in Run /\ r.job \in Jobs
      /\ old \in Row /\ Follows(r, old) /\ RowOK(old) /\ old.status # "absent"
  BY RowFollows DEF Follows
<1>2. "tail" \in PCs /\ \A x : PcOK(x, "tail")
  BY DEF PCs, PcOK
<1>3. \A j \in Jobs : RowOK(row[j]) /\ Grows(row[j], row[j])
  BY DEF DataInv, Grows
<1>4. CASE OverloadDone(r)
  <2> DEFINE moved == [r EXCEPT !.pc = "tail"]
  <2>1. moved \in Run /\ moved.pc = "tail" /\ moved.job = r.job
    BY <1>1, <1>2 DEF Run
  <2>2. runs' = (runs \ {r}) \cup {moved} /\ UNCHANGED <<proc, wmTasks>>
    BY <1>4 DEF OverloadDone, MoveTo
  <2>3. /\ row' \in [Jobs -> Row]
        /\ \A i \in Jobs : RowOK(row'[i]) /\ Grows(row[i], row'[i])
    BY <1>3, <1>4, FreshKeeps DEF OverloadDone, TypeOK
  <2>4. TypeOK'
    BY <2>1, <2>2, <2>3 DEF TypeOK
  <2>5. row'[r.job].status # "absent"
    BY <1>1, <2>3 DEF Grows
  <2>6. QED
    BY <1>2, <2>1, <2>2, <2>3, <2>4, <2>5, DataKept
<1>5. CASE EndRun(r)
  <2>1. Cleared(r.job) \in Row /\ RowOK(Cleared(r.job)) /\ Grows(old, Cleared(r.job))
    <3>1. Cleared(r.job) \in Row
      BY <1>1, LeaseRange, LeaseColumns DEF Cleared
    <3>2. QED
      BY <1>1, <3>1, SameProduct DEF Cleared, Row
  <2>2. /\ row' \in [Jobs -> Row]
        /\ \A i \in Jobs : RowOK(row'[i]) /\ Grows(row[i], row'[i])
    BY <1>1, <1>3, <1>5, <2>1 DEF EndRun, TypeOK
  <2>3. runs' \subseteq runs /\ UNCHANGED <<proc, wmTasks>>
    BY <1>5 DEF EndRun
  <2>4. TypeOK'
    BY <2>2, <2>3 DEF TypeOK
  <2>5. QED
    BY <2>2, <2>3, <2>4, DataKept
<1>6. CASE CancelRun(r)
  <2>1. CASE runs' = runs \ {r} /\ UNCHANGED <<row, proc, wmTasks>>
    <3>1. TypeOK'
      BY <2>1 DEF TypeOK
    <3>2. QED
      BY <1>3, <2>1, <3>1, DataKept
  <2>2. CASE SetRow(r, old) /\ MoveTo(r, "tail")
    BY <1>1, <1>2, <2>2, StoreMoves, MovesKeep
  <2>3. CASE /\ SetRow(r, [old EXCEPT !.status = "failed", !.error = "other"])
             /\ MoveTo(r, "tail")
    <3> DEFINE new == [old EXCEPT !.status = "failed", !.error = "other"]
    <3>1. new \in Row
      BY <1>1 DEF Row, Statuses, Errors
    <3>2. Follows(r, new)
      BY <1>1, <3>1 DEF Follows, RowOK, Grows, Row
    <3>3. QED
      BY <1>2, <2>3, <3>1, <3>2, StoreMoves, MovesKeep
  <2>4. QED
    BY <1>6, <2>1, <2>2, <2>3 DEF CancelRun
<1>7. QED
  BY <1>4, <1>5, <1>6

\* The HTTP handlers keep types and data.
LEMMA RequestKeeps ==
  ASSUME TypeOK, DataInv, NEW j \in Jobs, Request(j)
  PROVE  TypeOK' /\ DataInv'
<1> DEFINE old == row[j]
<1>1. old \in Row /\ RowOK(old)
  BY DEF TypeOK, DataInv
<1>2. \A i \in Jobs : RowOK(row[i]) /\ Grows(row[i], row[i])
  BY DEF DataInv, Grows
<1>3. ASSUME NEW y \in Row, RowOK(y), Grows(old, y), row' = [row EXCEPT ![j] = y],
             UNCHANGED <<proc, runs>>, wmTasks' \subseteq WmTask,
             \A w \in wmTasks' : w \in wmTasks \/ (w.job = j /\ y.published)
      PROVE  TypeOK' /\ DataInv'
  <2>1. /\ row' \in [Jobs -> Row]
        /\ \A i \in Jobs : RowOK(row'[i]) /\ Grows(row[i], row'[i])
        /\ row'[j] = y
    BY <1>2, <1>3 DEF TypeOK
  <2>2. TypeOK'
    BY <1>3, <2>1 DEF TypeOK
  <2>3. \A w \in wmTasks' : (\E v \in wmTasks : v.job = w.job) \/ row'[w.job].published
    BY <1>3, <2>1
  <2>4. QED
    BY <1>3, <2>1, <2>2, <2>3, DataKept
<1>4. CASE CreateJob(j)
  <2>1. UNCHANGED <<proc, runs, wmTasks>>
    BY <1>4 DEF CreateJob
  <2>2. /\ row' \in [Jobs -> Row]
        /\ \A i \in Jobs : RowOK(row'[i]) /\ Grows(row[i], row'[i])
    BY <1>4, FreshKeeps DEF CreateJob
  <2>3. TypeOK'
    BY <2>1, <2>2 DEF TypeOK
  <2>4. QED
    BY <2>1, <2>2, <2>3, DataKept
<1>5. CASE CancelJob(j)
  <2> DEFINE y == [old EXCEPT !.status = "canceled", !.error = "other"]
  <2>1. y \in Row
    BY <1>1 DEF Row, Statuses, Errors
  <2>2. RowOK(y) /\ Grows(old, y)
    BY <1>1, <1>5, <2>1, SameProduct DEF CancelJob, Row
  <2>3. row' = [row EXCEPT ![j] = y] /\ UNCHANGED <<proc, runs, wmTasks>>
    BY <1>5 DEF CancelJob, TypeOK
  <2>4. QED
    BY <1>3, <2>1, <2>2, <2>3 DEF TypeOK
<1>6. CASE RetryJob(j)
  <2> DEFINE y == [old EXCEPT !.status = "queued", !.error = "none"]
  <2>1. y \in Row
    BY <1>1 DEF Row, Statuses, Errors
  <2>2. RowOK(y) /\ Grows(old, y)
    BY <1>1, <1>6, <2>1, SameProduct DEF RetryJob, Row
  <2>3. row' = [row EXCEPT ![j] = y] /\ UNCHANGED <<proc, runs, wmTasks>>
    BY <1>6 DEF RetryJob, TypeOK
  <2>4. QED
    BY <1>3, <2>1, <2>2, <2>3 DEF TypeOK
<1>7. ASSUME NEW o \in Owners, RetryWatermark(o, j)
      PROVE  TypeOK' /\ DataInv'
  <2> DEFINE y == [old EXCEPT !.status = "running", !.phase = "watermark",
                              !.wm = "queued", !.error = "none"]
             w == [job |-> j, owner |-> o, pc |-> "begin"]
  <2>1. old.published /\ old.gen /\ old.task
    BY <1>1, <1>7 DEF RetryWatermark, RowOK, Row
  <2>2. y \in Row
    BY <1>1 DEF Row, Statuses, Phases, WmStates, Errors
  <2>3. RowOK(y) /\ Grows(old, y) /\ y.published
    BY <1>1, <2>1, <2>2 DEF RowOK, Grows, Row
  <2>4. row' = [row EXCEPT ![j] = y] /\ UNCHANGED <<proc, runs>>
    BY <1>7 DEF RetryWatermark, TypeOK
  <2>5. w \in WmTask /\ w.job = j /\ wmTasks' = wmTasks \cup {w}
    BY <1>7 DEF RetryWatermark, WmTask
  <2>6. QED
    BY <1>3, <2>2, <2>3, <2>4, <2>5 DEF TypeOK
<1>8. QED
  BY <1>4, <1>5, <1>6, <1>7 DEF Request

\* The detached watermark task works on a published job and takes nothing away.
LEMMA WmKeeps ==
  ASSUME TypeOK, DataInv, NEW w \in wmTasks, WmStep(w)
  PROVE  TypeOK' /\ DataInv'
<1> DEFINE old == row[w.job]
           parsing == [w EXCEPT !.pc = "parsing"]
<1>1. w \in WmTask /\ w.job \in Jobs /\ old \in Row /\ RowOK(old)
  BY DEF TypeOK, WmTask, DataInv
<1>2. old.task /\ old.gen /\ old.published
  BY <1>1 DEF DataInv, RowOK, Row
<1>3. \A i \in Jobs : RowOK(row[i]) /\ Grows(row[i], row[i])
  BY DEF DataInv, Grows
<1>4. parsing \in WmTask /\ parsing.job = w.job
  BY <1>1 DEF WmTask
<1>5. ASSUME NEW y \in Row, y.task, y.gen, y.published,
             y.status # "absent", row' = [row EXCEPT ![w.job] = y],
             UNCHANGED <<proc, runs>>, wmTasks' \subseteq wmTasks \cup {parsing}
      PROVE  TypeOK' /\ DataInv'
  <2>1. RowOK(y) /\ Grows(old, y)
    BY <1>5 DEF RowOK, Grows
  <2>2. /\ row' \in [Jobs -> Row]
        /\ \A i \in Jobs : RowOK(row'[i]) /\ Grows(row[i], row'[i])
    BY <1>1, <1>3, <1>5, <2>1 DEF TypeOK
  <2>3. TypeOK'
    BY <1>4, <1>5, <2>2 DEF TypeOK
  <2>4. \A v \in wmTasks' : \E u \in wmTasks : u.job = v.job
    BY <1>4, <1>5
  <2>5. QED
    BY <1>5, <2>2, <2>3, <2>4, DataKept
<1>6. old.status # "absent"
  BY <1>1, <1>2 DEF RowOK
<1>7. ASSUME NEW x \in Row, x.task, x.gen, x.published,
             NEW s \in {"completed", "fallback"}
      PROVE  /\ Complete(x, s) \in Row /\ Complete(x, s).status # "absent"
             /\ Complete(x, s).task /\ Complete(x, s).gen /\ Complete(x, s).published
  BY <1>7 DEF Complete, Row, Statuses, Phases, WmStates
<1>8. ASSUME NEW x \in Row, x.task, x.gen, x.published
      PROVE  /\ WmFailed(x) \in Row /\ WmFailed(x).status # "absent"
             /\ WmFailed(x).task /\ WmFailed(x).gen /\ WmFailed(x).published
  BY <1>8 DEF WmFailed, Row, Statuses, Phases, Errors
<1>9. CASE WmTaskBegin(w)
  <2> DEFINE y == [old EXCEPT !.phase = "watermark", !.wm = "running"]
  <2>1. y \in Row /\ y.task /\ y.gen /\ y.published /\ y.status # "absent"
    BY <1>1, <1>2, <1>6 DEF Row, Phases, WmStates
  <2>2. CASE row' = [row EXCEPT ![w.job].phase = "watermark", ![w.job].wm = "running"]
             /\ wmTasks' = (wmTasks \ {w}) \cup {parsing}
    <3>1. row' = [row EXCEPT ![w.job] = y]
      BY <1>1, <2>2 DEF TypeOK
    <3>2. QED
      BY <1>5, <1>9, <2>1, <2>2, <3>1 DEF WmTaskBegin
  <2>3. CASE row' = [row EXCEPT ![w.job] = WmFailed(@)] /\ wmTasks' = wmTasks \ {w}
    BY <1>1, <1>2, <1>5, <1>8, <1>9, <2>3 DEF WmTaskBegin
  <2>4. QED
    BY <1>9, <2>2, <2>3 DEF WmTaskBegin
<1>10. CASE WmTaskEnd(w)
  <2> DEFINE failed == [old EXCEPT !.wm = "failed"]
  <2>1. wmTasks' = wmTasks \ {w} /\ UNCHANGED <<proc, runs>>
    BY <1>10 DEF WmTaskEnd
  <2>2. CASE row' = [row EXCEPT ![w.job] = Complete(@, "completed")]
    BY <1>1, <1>2, <1>5, <1>7, <2>1, <2>2
  <2>3. CASE row' = [row EXCEPT ![w.job] = Complete(@, "fallback")]
    BY <1>1, <1>2, <1>5, <1>7, <2>1, <2>3
  <2>4. CASE row' = [row EXCEPT ![w.job] = WmFailed([@ EXCEPT !.wm = "failed"])]
    <3>1. failed \in Row /\ failed.task /\ failed.gen /\ failed.published
      BY <1>1, <1>2 DEF Row, WmStates
    <3>2. QED
      BY <1>5, <1>8, <2>1, <2>4, <3>1
  <2>5. QED
    BY <1>10, <2>2, <2>3, <2>4 DEF WmTaskEnd
<1>11. QED
  BY <1>9, <1>10 DEF WmStep

-----------------------------------------------------------------------------
(* Types and results *)

\* Types and data hold at the start.
LEMMA InitData == Init => TypeOK /\ DataInv
<1> SUFFICES ASSUME Init PROVE TypeOK /\ DataInv
  OBVIOUS
<1>1. Absent \in Row /\ RowOK(Absent)
  BY LeaseRange DEF Absent, Row, RowOK, Statuses, Phases, Errors, WmStates
<1>2. QED
  BY <1>1 DEF Init, TypeOK, DataInv

\* Every step keeps types and data.
LEMMA NextData == TypeOK /\ DataInv /\ [Next]_vars => TypeOK' /\ DataInv'
<1> SUFFICES ASSUME TypeOK, DataInv, [Next]_vars PROVE TypeOK' /\ DataInv'
  OBVIOUS
<1>1. ASSUME NEW o \in Owners, Life(o) \/ LoopPass(o)
      PROVE  TypeOK' /\ DataInv'
  BY <1>1, LifeKeeps, LoopPassKeeps
<1>2. ASSUME NEW r \in runs, Step(r)
      PROVE  TypeOK' /\ DataInv'
  BY <1>2, StartRunMoves, SubmitMoves, PublishMoves, WatermarkMoves, MovesKeep, EndKeeps
  DEF Step
<1>3. ASSUME NEW r \in runs, Heartbeat(r) \/ CancelRun(r)
      PROVE  TypeOK' /\ DataInv'
  BY <1>3, ClockKeeps, EndKeeps
<1>4. ASSUME NEW w \in wmTasks, WmStep(w)
      PROVE  TypeOK' /\ DataInv'
  BY <1>4, WmKeeps
<1>5. ASSUME NEW j \in Jobs, Request(j) \/ BudgetSpent(j)
      PROVE  TypeOK' /\ DataInv'
  BY <1>5, RequestKeeps, ClockKeeps
<1>6. CASE Tick
  BY <1>6, ClockKeeps
<1>7. CASE UNCHANGED vars
  BY <1>7 DEF vars, TypeOK, DataInv
<1>8. QED
  BY <1>1, <1>2, <1>3, <1>4, <1>5, <1>6, <1>7 DEF Next

\* The variables keep their types, for every instance.
THEOREM TypeCorrect == Spec => []TypeOK
<1>1. Spec => [](TypeOK /\ DataInv)
  BY InitData, NextData, PTL DEF Spec
<1>2. QED
  BY <1>1, PTL

\* A job that says completed has a task, a generation and a published link,
\* with any number of jobs, processes, crashes, stalls and retries.
THEOREM CompletedCorrect == Spec => []CompletedHasResult
<1>1. TypeOK /\ DataInv => CompletedHasResult
  BY DEF TypeOK, DataInv, RowOK, CompletedHasResult, Row
<1>2. QED
  BY <1>1, InitData, NextData, PTL DEF Spec

-----------------------------------------------------------------------------
(* Leases of the processes that do not stall: RunsAreLeased and SingleRun  *)
(* are inductive together.  A run of a stalling process moves, ends and    *)
(* dies like any other; what matters is that it takes no lease with it.    *)

LeaseInv == RunsAreLeased /\ SingleRun

\* A step that leaves the lease columns of every row alone.
SameLeases ==
  \A j \in Jobs : row'[j].owner = row[j].owner /\ row'[j].lease = row[j].lease

\* Runs that remain, with their leases and processes, keep the invariant.
LEMMA FewerRuns ==
  ASSUME LeaseInv, runs' \subseteq runs,
         \A r \in TimelyRuns' : /\ row'[r.job].owner = row[r.job].owner
                                /\ row'[r.job].lease > 0
                                /\ proc'[r.owner] \in {"up", "stopping"}
  PROVE  LeaseInv'
BY DEF LeaseInv, RunsAreLeased, SingleRun, TimelyRuns

\* A run that only moves on keeps the invariant if no lease changes.
LEMMA MovedRun ==
  ASSUME TypeOK, LeaseInv, NEW r \in runs, NEW pc, MoveTo(r, pc), UNCHANGED proc,
         \A s \in TimelyRuns : /\ row'[s.job].owner = row[s.job].owner
                               /\ row'[s.job].lease = row[s.job].lease
  PROVE  LeaseInv'
<1> DEFINE moved == [r EXCEPT !.pc = pc]
<1>1. r \in Run
  BY DEF TypeOK
<1>2. moved.job = r.job /\ moved.owner = r.owner
  BY <1>1 DEF Run
<1>3. runs' = (runs \ {r}) \cup {moved}
  BY DEF MoveTo
<1> HIDE DEF moved
<1>4. ASSUME NEW s \in TimelyRuns'
      PROVE  \E t \in TimelyRuns : t.job = s.job /\ t.owner = s.owner
  BY <1>2, <1>3 DEF TimelyRuns
<1>5. RunsAreLeased'
  BY <1>4 DEF LeaseInv, RunsAreLeased
<1>6. SingleRun'
  <2>1. ASSUME NEW s \in TimelyRuns', NEW t \in TimelyRuns', s.job = t.job
        PROVE  s = t
    <3>1. CASE s = moved
      BY <1>2, <1>3, <2>1, <3>1 DEF LeaseInv, SingleRun, TimelyRuns
    <3>2. CASE s # moved
      BY <1>2, <1>3, <2>1, <3>2 DEF LeaseInv, SingleRun, TimelyRuns
    <3>3. QED
      BY <3>1, <3>2
  <2>2. QED
    BY <2>1 DEF SingleRun
<1>7. QED
  BY <1>5, <1>6 DEF LeaseInv

\* Steps in normal form leave every lease alone.
LEMMA MovesSame ==
  ASSUME TypeOK, DataInv, NEW r \in runs, Moves(r)
  PROVE  SameLeases
<1>1. PICK new \in Row, pc \in PCs : Follows(r, new) /\ SetRow(r, new)
  BY DEF Moves
<1>2. r.job \in Jobs
  BY RowFollows
<1>3. QED
  BY <1>1, <1>2 DEF SetRow, Follows, TypeOK, SameLeases

\* Steps in normal form keep the leases of the runs.
LEMMA MovesLease ==
  ASSUME TypeOK, DataInv, LeaseInv, NEW r \in runs, Moves(r)
  PROVE  LeaseInv'
<1>1. PICK new \in Row, pc \in PCs : SetRow(r, new) /\ MoveTo(r, pc)
  BY DEF Moves
<1>2. \A s \in TimelyRuns : /\ row'[s.job].owner = row[s.job].owner
                             /\ row'[s.job].lease = row[s.job].lease
  BY MovesSame, RowFollows DEF SameLeases, TimelyRuns
<1>3. UNCHANGED proc
  BY <1>1 DEF SetRow
<1>4. QED
  BY <1>1, <1>2, <1>3, MovedRun

\* A start recovers only rows without a lease; no run outlives its process.
LEMMA LifeLease ==
  ASSUME TypeOK, DataInv, LeaseInv, NEW o \in Owners, Life(o)
  PROVE  LeaseInv'
<1>1. ASSUME NEW r \in TimelyRuns
      PROVE  /\ r.job \in Jobs /\ r.owner \in Owners /\ row[r.job].owner = r.owner
             /\ row[r.job].lease > 0 /\ proc[r.owner] \in {"up", "stopping"}
             /\ Leased(r.job) /\ r \in runs
  BY RowFollows, OwnersAssumption DEF LeaseInv, RunsAreLeased, Leased, TimelyRuns
<1>2. CASE StartProcess(o)
  <2>1. \A r \in TimelyRuns : row'[r.job] = row[r.job]
    BY <1>1, <1>2 DEF StartProcess, Stale
  <2>2. \A r \in TimelyRuns : proc'[r.owner] \in {"up", "stopping"}
    BY <1>1, <1>2 DEF StartProcess, TypeOK
  <2>3. runs' = runs
    BY <1>2 DEF StartProcess
  <2>4. QED
    BY <1>1, <2>1, <2>2, <2>3, FewerRuns DEF TimelyRuns
<1>3. CASE StopProcess(o)
  <2>1. \A r \in TimelyRuns : proc'[r.owner] \in {"up", "stopping"}
    BY <1>1, <1>3 DEF StopProcess, TypeOK
  <2>2. QED
    BY <1>1, <1>3, <2>1, FewerRuns DEF StopProcess, TimelyRuns
<1>4. CASE ExitProcess(o)
  <2>1. \A r \in TimelyRuns : proc'[r.owner] \in {"up", "stopping"}
    BY <1>1, <1>4 DEF ExitProcess, TypeOK, RunsOf
  <2>2. QED
    BY <1>1, <1>4, <2>1, FewerRuns DEF ExitProcess, TimelyRuns
<1>5. CASE Crash(o)
  <2>1. \A r \in TimelyRuns' : r \in TimelyRuns /\ proc'[r.owner] \in {"up", "stopping"}
    BY <1>1, <1>5 DEF Crash, TypeOK, RunsOf, TimelyRuns
  <2>2. QED
    BY <1>1, <1>5, <2>1, FewerRuns DEF Crash
<1>6. QED
  BY <1>2, <1>3, <1>4, <1>5 DEF Life

\* A pass claims only jobs without a valid lease, hence without a run.
LEMMA LoopPassLease ==
  ASSUME TypeOK, DataInv, LeaseInv, NEW o \in Owners, LoopPass(o)
  PROVE  LeaseInv'
<1> DEFINE New(j) == [job |-> j, attempt |-> row[j].attempt + 1,
                      owner |-> o, pc |-> "spawned"]
<1>1. PICK S \in SUBSET {j \in Jobs : Claimable(j)} :
        /\ row' = [j \in Jobs |-> IF j \in S THEN Claimed(j, o) ELSE row[j]]
        /\ runs' = runs \cup {New(j) : j \in S}
        /\ UNCHANGED proc
  BY DEF LoopPass
<1>2. proc[o] = "up"
  BY DEF LoopPass
<1>3. ASSUME NEW r \in TimelyRuns
      PROVE  r.job \in Jobs /\ r.job \notin S
  BY RowFollows, OwnersAssumption DEF LeaseInv, RunsAreLeased, Claimable, Leased, TimelyRuns
<1>4. ASSUME NEW j \in S
      PROVE  row'[j].owner = o /\ row'[j].lease > 0
  <2>1. row[j] \in Row /\ row'[j] = Claimed(j, o)
    BY <1>1 DEF TypeOK
  <2>2. QED
    BY <2>1, BoundsAssumption DEF Claimed, Row
<1>5. \A j \in S : New(j).job = j /\ New(j).owner = o
  OBVIOUS
<1>6. ASSUME NEW r \in TimelyRuns'
      PROVE  \/ r \in TimelyRuns
             \/ r.job \in S /\ r.owner = o /\ r = New(r.job)
  BY <1>1, <1>5 DEF TimelyRuns
<1>7. RunsAreLeased'
  <2>1. ASSUME NEW r \in TimelyRuns
        PROVE  row'[r.job] = row[r.job]
    BY <1>1, <1>3
  <2>2. QED
    BY <1>1, <1>2, <1>4, <1>6, <2>1 DEF LeaseInv, RunsAreLeased
<1>8. SingleRun'
  <2>1. ASSUME NEW r \in TimelyRuns', NEW s \in TimelyRuns', r.job = s.job
        PROVE  r = s
    BY <1>3, <1>6, <2>1 DEF LeaseInv, SingleRun
  <2>2. QED
    BY <2>1 DEF SingleRun
<1>9. QED
  BY <1>7, <1>8 DEF LeaseInv

\* Handlers and detached tasks write no lease of a row that exists.
LEMMA RequestSame ==
  ASSUME TypeOK, NEW j \in Jobs,
         \/ CancelJob(j) \/ RetryJob(j) \/ BudgetSpent(j)
         \/ \E o \in Owners : RetryWatermark(o, j)
  PROVE  SameLeases /\ UNCHANGED <<proc, runs>>
<1>1. row[j] \in Row
  BY DEF TypeOK
<1>2. ASSUME NEW y, y.owner = row[j].owner, y.lease = row[j].lease,
             row' = [row EXCEPT ![j] = y]
      PROVE  SameLeases
  BY <1>2 DEF TypeOK, SameLeases
<1>3. CASE CancelJob(j)
  <2> DEFINE y == [row[j] EXCEPT !.status = "canceled", !.error = "other"]
  <2>1. row' = [row EXCEPT ![j] = y]
    BY <1>3 DEF CancelJob, TypeOK
  <2>2. QED
    BY <1>1, <1>2, <1>3, <2>1 DEF Row, CancelJob
<1>4. CASE RetryJob(j)
  <2> DEFINE y == [row[j] EXCEPT !.status = "queued", !.error = "none"]
  <2>1. row' = [row EXCEPT ![j] = y]
    BY <1>4 DEF RetryJob, TypeOK
  <2>2. QED
    BY <1>1, <1>2, <1>4, <2>1 DEF Row, RetryJob
<1>5. CASE BudgetSpent(j)
  BY <1>1, <1>5 DEF BudgetSpent, TypeOK, SameLeases, Row
<1>6. CASE \E o \in Owners : RetryWatermark(o, j)
  <2> DEFINE y == [row[j] EXCEPT !.status = "running", !.phase = "watermark",
                                 !.wm = "queued", !.error = "none"]
  <2>1. row' = [row EXCEPT ![j] = y] /\ UNCHANGED <<proc, runs>>
    BY <1>6 DEF RetryWatermark, TypeOK
  <2>2. QED
    BY <1>1, <1>2, <2>1 DEF Row
<1>7. QED
  BY <1>3, <1>4, <1>5, <1>6

\* The detached watermark task writes no lease.
LEMMA WmSame ==
  ASSUME TypeOK, NEW w \in wmTasks, WmStep(w)
  PROVE  SameLeases /\ UNCHANGED <<proc, runs>>
<1> DEFINE old == row[w.job]
<1>1. w.job \in Jobs /\ old \in Row
  BY DEF TypeOK, WmTask
<1>2. ASSUME NEW y, y.owner = old.owner, y.lease = old.lease,
             row' = [row EXCEPT ![w.job] = y]
      PROVE  SameLeases
  BY <1>1, <1>2 DEF TypeOK, SameLeases
<1>3. ASSUME NEW x \in Row, NEW s \in WmStates
      PROVE  /\ Complete(x, s).owner = x.owner /\ Complete(x, s).lease = x.lease
             /\ WmFailed(x).owner = x.owner /\ WmFailed(x).lease = x.lease
  BY DEF Complete, WmFailed, Row
<1>4. UNCHANGED <<proc, runs>>
  BY DEF WmStep, WmTaskBegin, WmTaskEnd
<1>5. ASSUME WmTaskBegin(w) PROVE SameLeases
  <2> DEFINE y == [old EXCEPT !.phase = "watermark", !.wm = "running"]
  <2>1. row' = [row EXCEPT ![w.job] = y] \/ row' = [row EXCEPT ![w.job] = WmFailed(old)]
    BY <1>1, <1>5 DEF WmTaskBegin, TypeOK
  <2>2. y.owner = old.owner /\ y.lease = old.lease
    BY <1>1 DEF Row
  <2>3. CASE row' = [row EXCEPT ![w.job] = y]
    BY <1>2, <2>2, <2>3
  <2>4. CASE row' = [row EXCEPT ![w.job] = WmFailed(old)]
    BY <1>1, <1>2, <1>3, <2>4 DEF WmStates
  <2>5. QED
    BY <2>1, <2>3, <2>4
<1>6. ASSUME WmTaskEnd(w) PROVE SameLeases
  <2> DEFINE failed == [old EXCEPT !.wm = "failed"]
  <2>1. failed \in Row /\ failed.owner = old.owner /\ failed.lease = old.lease
    BY <1>1 DEF Row, WmStates
  <2>2. CASE row' = [row EXCEPT ![w.job] = Complete(old, "completed")]
    BY <1>1, <1>2, <1>3, <2>2 DEF WmStates
  <2>3. CASE row' = [row EXCEPT ![w.job] = Complete(old, "fallback")]
    BY <1>1, <1>2, <1>3, <2>3 DEF WmStates
  <2>4. CASE row' = [row EXCEPT ![w.job] = WmFailed(failed)]
    BY <1>2, <1>3, <2>1, <2>4 DEF WmStates
  <2>5. QED
    BY <1>6, <2>2, <2>3, <2>4 DEF WmTaskEnd
<1>7. QED
  BY <1>4, <1>5, <1>6 DEF WmStep

\* A new row takes the place of none, and no run works on it.
LEMMA FreshLease ==
  ASSUME TypeOK, DataInv, LeaseInv, NEW j \in Jobs, Fresh(j),
         row' = [row EXCEPT ![j] = Queued], NEW r \in runs
  PROVE  row'[r.job] = row[r.job]
<1>1. r.job \in Jobs /\ row[r.job].status # "absent"
  BY RowFollows DEF Follows
<1>2. QED
  BY <1>1 DEF Fresh, TypeOK

\* Clock and heartbeat: no lease of a run runs out unless its process stalls.
LEMMA ClockLease ==
  ASSUME TypeOK, DataInv, LeaseInv, Tick \/ \E r \in runs : Heartbeat(r)
  PROVE  LeaseInv'
<1>1. ASSUME NEW s \in TimelyRuns
      PROVE  /\ s.job \in Jobs /\ row[s.job] \in Row /\ row[s.job].owner = s.owner
             /\ row[s.job].lease \in Nat /\ row[s.job].lease > 0
             /\ proc[s.owner] \in {"up", "stopping"}
  BY RowFollows, BoundsAssumption DEF LeaseInv, RunsAreLeased, Row, TimelyRuns
<1>2. CASE Tick
  <2>1. ASSUME NEW s \in TimelyRuns
        PROVE  row'[s.job].owner = row[s.job].owner /\ row'[s.job].lease > 0
    <3>1. row[s.job].lease > 1
      BY <1>1, <1>2 DEF Tick
    <3>2. row'[s.job] = [row[s.job] EXCEPT !.lease = IF @ > 0 THEN @ - 1 ELSE 0]
      BY <1>1, <1>2 DEF Tick
    <3>3. QED
      BY <1>1, <3>1, <3>2 DEF Row
  <2>2. UNCHANGED <<proc, runs>>
    BY <1>2 DEF Tick
  <2>3. QED
    BY <1>1, <2>1, <2>2, FewerRuns DEF TimelyRuns
<1>3. ASSUME NEW r \in runs, Heartbeat(r)
      PROVE  LeaseInv'
  <2>1. ASSUME NEW s \in TimelyRuns
        PROVE  row'[s.job].owner = row[s.job].owner /\ row'[s.job].lease > 0
    <3>1. CASE s.job = r.job
      BY <1>1, <1>3, <3>1, BoundsAssumption DEF Heartbeat, TypeOK, Row
    <3>2. CASE s.job # r.job
      BY <1>1, <1>3, <3>2 DEF Heartbeat, TypeOK
    <3>3. QED
      BY <3>1, <3>2
  <2>2. UNCHANGED <<proc, runs>>
    BY <1>3 DEF Heartbeat
  <2>3. QED
    BY <1>1, <2>1, <2>2, FewerRuns DEF TimelyRuns
<1>4. QED
  BY <1>2, <1>3

\* The lease that a run clears at its end belongs to no other run of
\* a process that does not stall.
LEMMA EndLease ==
  ASSUME TypeOK, DataInv, LeaseInv, NEW r \in runs,
         OverloadDone(r) \/ EndRun(r) \/ CancelRun(r)
  PROVE  LeaseInv'
<1>1. ASSUME NEW s \in TimelyRuns
      PROVE  /\ s \in runs /\ s.job \in Jobs /\ row[s.job].owner = s.owner
             /\ row[s.job].lease > 0 /\ proc[s.owner] \in {"up", "stopping"}
  BY RowFollows DEF LeaseInv, RunsAreLeased, TimelyRuns
<1>2. CASE OverloadDone(r)
  <2>1. \A s \in TimelyRuns : row'[s.job] = row[s.job]
    BY <1>1, <1>2, FreshLease DEF OverloadDone
  <2>2. UNCHANGED proc /\ MoveTo(r, "tail")
    BY <1>2 DEF OverloadDone
  <2>3. QED
    BY <2>1, <2>2, MovedRun
<1>3. CASE EndRun(r)
  <2>1. runs' = runs \ {r} /\ UNCHANGED proc
    BY <1>3 DEF EndRun
  <2>2. ASSUME NEW s \in TimelyRuns'
        PROVE  s \in TimelyRuns /\ row'[s.job] = row[s.job]
    <3>1. s \in TimelyRuns /\ s # r
      BY <2>1 DEF TimelyRuns
    <3>2. CASE s.job # r.job
      BY <1>1, <1>3, <3>1, <3>2 DEF EndRun, TypeOK
    <3>3. CASE s.job = r.job
      <4>1. r \notin TimelyRuns
        BY <3>1, <3>3 DEF LeaseInv, SingleRun
      <4>2. row[r.job].owner # r.owner
        BY <1>1, <3>1, <3>3, <4>1 DEF TimelyRuns
      <4>3. QED
        BY <1>1, <1>3, <3>1, <3>3, <4>2 DEF EndRun, TypeOK
    <3>4. QED
      BY <3>2, <3>3
  <2>3. QED
    BY <1>1, <2>1, <2>2, FewerRuns
<1>4. CASE CancelRun(r)
  <2>1. CASE runs' = runs \ {r} /\ UNCHANGED <<row, proc, wmTasks>>
    BY <1>1, <2>1, FewerRuns DEF TimelyRuns
  <2> DEFINE old == row[r.job]
             failed == [old EXCEPT !.status = "failed", !.error = "other"]
  <2>2. CASE /\ SetRow(r, old) \/ SetRow(r, failed)
             /\ MoveTo(r, "tail")
    <3>1. old \in Row /\ r.job \in Jobs
      BY RowFollows
    <3>2. failed.owner = old.owner /\ failed.lease = old.lease
      BY <3>1 DEF Row
    <3>3. \A s \in TimelyRuns : /\ row'[s.job].owner = row[s.job].owner
                                 /\ row'[s.job].lease = row[s.job].lease
      BY <1>1, <2>2, <3>1, <3>2 DEF SetRow, TypeOK
    <3>4. UNCHANGED proc
      BY <2>2 DEF SetRow
    <3>5. QED
      BY <2>2, <3>3, <3>4, MovedRun
  <2>3. QED
    BY <1>4, <2>1, <2>2 DEF CancelRun
<1>5. QED
  BY <1>2, <1>3, <1>4

\* Every step keeps the lease invariant.
LEMMA NextLease ==
  ASSUME TypeOK, DataInv, LeaseInv, [Next]_vars
  PROVE  LeaseInv'
<1>1. ASSUME SameLeases, UNCHANGED <<proc, runs>>
      PROVE  LeaseInv'
  <2>1. ASSUME NEW s \in TimelyRuns
        PROVE  /\ row'[s.job].owner = row[s.job].owner
               /\ row'[s.job].lease > 0
               /\ proc'[s.owner] \in {"up", "stopping"}
    BY <1>1, RowFollows DEF SameLeases, LeaseInv, RunsAreLeased, TimelyRuns
  <2>2. QED
    BY <1>1, <2>1, FewerRuns DEF TimelyRuns
<1>2. ASSUME NEW o \in Owners, Life(o) \/ LoopPass(o)
      PROVE  LeaseInv'
  BY <1>2, LifeLease, LoopPassLease
<1>3. ASSUME NEW r \in runs, Step(r) \/ CancelRun(r)
      PROVE  LeaseInv'
  BY <1>3, StartRunMoves, SubmitMoves, PublishMoves, WatermarkMoves, MovesLease, EndLease
  DEF Step
<1>4. ASSUME Tick \/ \E r \in runs : Heartbeat(r)
      PROVE  LeaseInv'
  BY <1>4, ClockLease
<1>5. ASSUME NEW w \in wmTasks, WmStep(w)
      PROVE  LeaseInv'
  BY <1>1, <1>5, WmSame
<1>6. ASSUME NEW j \in Jobs, Request(j) \/ BudgetSpent(j)
      PROVE  LeaseInv'
  <2>1. CASE CreateJob(j)
    <3>1. \A s \in TimelyRuns : row'[s.job] = row[s.job]
      BY <2>1, FreshLease DEF CreateJob, TimelyRuns
    <3>2. UNCHANGED <<proc, runs>>
      BY <2>1 DEF CreateJob
    <3>3. QED
      BY <3>1, <3>2, FewerRuns DEF LeaseInv, RunsAreLeased, TimelyRuns
  <2>2. CASE \/ CancelJob(j) \/ RetryJob(j) \/ BudgetSpent(j)
             \/ \E o \in Owners : RetryWatermark(o, j)
    BY <1>1, <2>2, RequestSame
  <2>3. QED
    BY <1>6, <2>1, <2>2 DEF Request
<1>7. CASE UNCHANGED vars
  BY <1>7 DEF vars, LeaseInv, RunsAreLeased, SingleRun, TimelyRuns
<1>8. QED
  BY <1>2, <1>3, <1>4, <1>5, <1>6, <1>7 DEF Next

\* Each run of a process that does not stall works under a current lease of that
\* process, whatever stalls, crashes or restarts beside it, for every instance.
THEOREM RunsAreLeasedCorrect == Spec => []RunsAreLeased
<1>1. Init => LeaseInv
  BY DEF Init, LeaseInv, RunsAreLeased, SingleRun, TimelyRuns
<1>2. TypeOK /\ DataInv /\ LeaseInv /\ [Next]_vars => (TypeOK /\ DataInv /\ LeaseInv)'
  BY NextData, NextLease
<1>3. LeaseInv => RunsAreLeased
  BY DEF LeaseInv
<1>4. QED
  BY <1>1, <1>2, <1>3, InitData, PTL DEF Spec

\* A job never has two runs of processes that do not stall: no restart, claim,
\* retry or recovery starts a second one while the first is alive.
THEOREM SingleRunCorrect == Spec => []SingleRun
<1>1. Init => LeaseInv
  BY DEF Init, LeaseInv, RunsAreLeased, SingleRun, TimelyRuns
<1>2. TypeOK /\ DataInv /\ LeaseInv /\ [Next]_vars => (TypeOK /\ DataInv /\ LeaseInv)'
  BY NextData, NextLease
<1>3. LeaseInv => SingleRun
  BY DEF LeaseInv
<1>4. QED
  BY <1>1, <1>2, <1>3, InitData, PTL DEF Spec

-----------------------------------------------------------------------------
(* The lease columns implement the lease lock, whoever stalls *)

\* Only a held lease runs.
LeaseOwned == \A j \in Jobs : row[j].lease > 0 => row[j].owner # NoOwner

LockStep(j) ==
  \/ Lock!Acquire(j) \/ Lock!Renew(j) \/ Lock!Expire(j) \/ Lock!Release(j) \/ Lock!Keep(j)

\* A row whose lease columns stay as they are keeps its lock.
LEMMA SameKeeps ==
  ASSUME NEW j \in Jobs, row'[j].owner = row[j].owner, row'[j].lease = row[j].lease
  PROVE  LockStep(j)
BY DEF LockStep, Lock!Keep

\* A row whose lease columns are empty has released its lock.
LEMMA EmptyReleases ==
  ASSUME NEW j \in Jobs, row'[j].owner = NoOwner, row'[j].lease = 0
  PROVE  LockStep(j)
<1>1. ~(row'[j].lease > 0)
  OBVIOUS
<1>2. Lock!Release(j)
  BY <1>1, Zenon DEF Lock!Release
<1>3. QED
  BY <1>2 DEF LockStep

\* A step in which each row goes through a step of its lock keeps LeaseOwned.
LEMMA LockOwned ==
  ASSUME LeaseOwned, \A j \in Jobs : LockStep(j)
  PROVE  LeaseOwned' /\ Lock!Next
<1>1. ASSUME NEW j \in Jobs, row'[j].lease > 0
      PROVE  row'[j].owner # NoOwner
  <2>1. LockStep(j)
    OBVIOUS
  <2>2. QED
    BY <1>1, <2>1, OwnersAssumption
    DEF LockStep, LeaseOwned, Lock!Acquire, Lock!Renew, Lock!Expire, Lock!Release, Lock!Keep
<1>2. Lock!Next
  BY DEF LockStep, Lock!Next
<1>3. QED
  BY <1>1, <1>2 DEF LeaseOwned

\* No process takes a lease that is still valid from its owner.
LEMMA ProcessLocks ==
  ASSUME TypeOK, NEW o \in Owners, Life(o) \/ LoopPass(o), NEW j \in Jobs
  PROVE  LockStep(j)
<1>1. CASE row' = row
  BY <1>1, SameKeeps
<1>2. CASE StartProcess(o)
  <2>1. CASE Stale(j)
    <3>1. row[j] \in Row /\ row'[j] = Recovered(j)
      BY <1>2, <2>1 DEF StartProcess, TypeOK
    <3>2. row'[j].owner = NoOwner /\ row'[j].lease = 0
      BY <3>1 DEF Recovered, Row
    <3>3. QED
      BY <3>2, EmptyReleases
  <2>2. CASE ~Stale(j)
    <3>1. row'[j] = row[j]
      BY <1>2, <2>2 DEF StartProcess
    <3>2. QED
      BY <3>1, SameKeeps
  <2>3. QED
    BY <2>1, <2>2
<1>3. CASE LoopPass(o)
  <2>1. PICK S \in SUBSET {i \in Jobs : Claimable(i)} :
          row' = [i \in Jobs |-> IF i \in S THEN Claimed(i, o) ELSE row[i]]
    BY <1>3 DEF LoopPass
  <2>2. CASE j \in S
    <3>1. row[j] \in Row /\ row'[j] = Claimed(j, o) /\ ~Leased(j)
      BY <2>1, <2>2 DEF TypeOK, Claimable
    <3>2. row'[j].owner = o /\ row'[j].lease > 0
      BY <3>1, BoundsAssumption DEF Claimed, Row
    <3>3. Lock!Free(j)
      BY <3>1, Zenon DEF Lock!Free, Leased
    <3>4. Lock!Acquire(j)
      BY <3>2, <3>3, Zenon DEF Lock!Acquire
    <3>5. QED
      BY <3>4 DEF LockStep
  <2>3. CASE j \notin S
    <3>1. row'[j] = row[j]
      BY <2>1, <2>3
    <3>2. QED
      BY <3>1, SameKeeps
  <2>4. QED
    BY <2>2, <2>3
<1>4. QED
  BY <1>1, <1>2, <1>3 DEF Life, StopProcess, ExitProcess, Crash

\* A new row has no lease, and takes none away.
LEMMA FreshLocks ==
  ASSUME TypeOK, NEW i \in Jobs, row' = [row EXCEPT ![i] = Queued], NEW j \in Jobs
  PROVE  LockStep(j)
<1>1. CASE j = i
  BY <1>1, EmptyReleases DEF TypeOK, Queued, Absent
<1>2. CASE j # i
  BY <1>2, SameKeeps DEF TypeOK
<1>3. QED
  BY <1>1, <1>2

\* A run renews or clears only the lease in its own name.
LEMMA RunLocks ==
  ASSUME TypeOK, DataInv, NEW r \in runs, Step(r) \/ Heartbeat(r) \/ CancelRun(r),
         NEW j \in Jobs
  PROVE  LockStep(j)
<1> DEFINE old == row[r.job]
<1>1. r.job \in Jobs /\ r.owner \in Owners /\ old \in Row
  BY RowFollows
<1>2. CASE Moves(r)
  BY <1>2, MovesSame, SameKeeps DEF SameLeases
<1>3. CASE row' = row
  BY <1>3, SameKeeps
<1>4. CASE j # r.job /\ (EndRun(r) \/ Heartbeat(r) \/ CancelRun(r))
  <2>1. row'[j] = row[j]
    BY <1>4 DEF EndRun, Heartbeat, CancelRun, SetRow, TypeOK
  <2>2. QED
    BY <2>1, SameKeeps
<1>5. CASE OverloadDone(r)
  BY <1>3, <1>5, FreshLocks DEF OverloadDone
<1>6. CASE j = r.job /\ EndRun(r)
  <2>1. CASE old.owner = r.owner
    <3>1. row'[j] = Cleared(j)
      BY <1>1, <1>6, <2>1 DEF EndRun, TypeOK
    <3>2. row'[j].owner = NoOwner /\ row'[j].lease = 0
      BY <1>1, <1>6, <3>1 DEF Cleared, Row
    <3>3. QED
      BY <3>2, EmptyReleases
  <2>2. CASE old.owner # r.owner
    <3>1. row'[j] = row[j]
      BY <1>6, <2>2 DEF EndRun, TypeOK
    <3>2. QED
      BY <3>1, SameKeeps
  <2>3. QED
    BY <2>1, <2>2
<1>7. CASE j = r.job /\ Heartbeat(r)
  <2>1. row[j].owner \in Owners /\ row'[j].owner = row[j].owner /\ row'[j].lease > 0
    BY <1>1, <1>7, BoundsAssumption DEF Heartbeat, TypeOK, Row
  <2>2. Lock!Renew(j)
    BY <2>1, Zenon DEF Lock!Renew
  <2>3. QED
    BY <2>2 DEF LockStep
<1>8. CASE j = r.job /\ CancelRun(r)
  <2> DEFINE failed == [old EXCEPT !.status = "failed", !.error = "other"]
  <2>1. row' = row \/ SetRow(r, old) \/ SetRow(r, failed)
    BY <1>8 DEF CancelRun
  <2>2. failed.owner = old.owner /\ failed.lease = old.lease
    BY <1>1 DEF Row
  <2>3. row'[j].owner = old.owner /\ row'[j].lease = old.lease
    BY <1>1, <1>8, <2>1, <2>2 DEF SetRow, TypeOK
  <2>4. QED
    BY <1>8, <2>3, SameKeeps
<1>9. QED
  BY <1>2, <1>4, <1>5, <1>6, <1>7, <1>8,
     StartRunMoves, SubmitMoves, PublishMoves, WatermarkMoves DEF Step

\* The clock lets leases run out.
LEMMA TickLocks ==
  ASSUME TypeOK, LeaseOwned, Tick, NEW j \in Jobs
  PROVE  LockStep(j)
<1>1. /\ row[j] \in Row /\ row[j].lease \in Nat
      /\ row'[j] = [row[j] EXCEPT !.lease = IF @ > 0 THEN @ - 1 ELSE 0]
  BY BoundsAssumption DEF Tick, TypeOK, Row
<1>2. row'[j].owner = row[j].owner
  BY <1>1 DEF Row
<1>3. row'[j].lease = IF row[j].lease > 0 THEN row[j].lease - 1 ELSE 0
  BY <1>1 DEF Row
<1>4. CASE row[j].lease = 0
  <2>1. row'[j].lease = row[j].lease
    BY <1>3, <1>4
  <2>2. QED
    BY <1>2, <2>1, SameKeeps
<1>5. CASE row[j].lease > 0
  <2>1. row[j].owner \in Owners
    BY <1>1, <1>5 DEF LeaseOwned, Row
  <2>2. CASE row'[j].lease > 0
    <3>1. Lock!Renew(j)
      BY <1>2, <2>1, <2>2, Zenon DEF Lock!Renew
    <3>2. QED
      BY <3>1 DEF LockStep
  <2>3. CASE ~(row'[j].lease > 0)
    <3>1. Lock!Expire(j)
      BY <1>2, <2>1, <2>3, Zenon DEF Lock!Expire
    <3>2. QED
      BY <3>1 DEF LockStep
  <2>4. QED
    BY <2>2, <2>3
<1>6. QED
  BY <1>1, <1>4, <1>5

\* Every step is a step of the lock of each row.
LEMMA NextLock ==
  ASSUME TypeOK, DataInv, LeaseOwned, [Next]_vars
  PROVE  LeaseOwned' /\ Lock!Next
<1>1. ASSUME NEW j \in Jobs
      PROVE  LockStep(j)
  <2>1. ASSUME NEW o \in Owners, Life(o) \/ LoopPass(o)
        PROVE  LockStep(j)
    BY <2>1, ProcessLocks
  <2>2. ASSUME NEW r \in runs, Step(r) \/ Heartbeat(r) \/ CancelRun(r)
        PROVE  LockStep(j)
    BY <2>2, RunLocks
  <2>3. ASSUME NEW w \in wmTasks, WmStep(w)
        PROVE  LockStep(j)
    BY <2>3, WmSame, SameKeeps DEF SameLeases
  <2>4. ASSUME NEW i \in Jobs, Request(i) \/ BudgetSpent(i)
        PROVE  LockStep(j)
    BY <2>4, RequestSame, FreshLocks, SameKeeps DEF Request, CreateJob, SameLeases
  <2>5. CASE Tick
    BY <2>5, TickLocks
  <2>6. CASE UNCHANGED vars
    BY <2>6, SameKeeps DEF vars
  <2>7. QED
    BY <2>1, <2>2, <2>3, <2>4, <2>5, <2>6 DEF Next
<1>2. QED
  BY <1>1, LockOwned

\* The lease columns of sora_jobs implement the lease lock for any number of
\* jobs and processes, however long an event loop stalls.
THEOREM LeaseLockImplemented == Spec => ImplementsLeaseLock
<1>1. Init => LeaseOwned /\ Lock!Init
  <2>1. ASSUME Init
        PROVE  LeaseOwned
    BY <2>1 DEF Init, LeaseOwned, Absent
  <2>2. ASSUME Init
        PROVE  Lock!Init
    <3>1. ASSUME NEW j \in Jobs
          PROVE  row[j].owner = NoOwner /\ (row[j].lease > 0) = FALSE
      BY <2>2 DEF Init, Absent
    <3>2. [j \in Jobs |-> row[j].owner] = [j \in Jobs |-> NoOwner]
      BY <3>1
    <3>3. [j \in Jobs |-> row[j].lease > 0] = [j \in Jobs |-> FALSE]
      BY <3>1, Zenon
    <3>4. QED
      BY <3>2, <3>3 DEF Lock!Init
  <2>3. QED
    BY <2>1, <2>2
<1>2. TypeOK /\ DataInv /\ LeaseOwned /\ [Next]_vars =>
        /\ (TypeOK /\ DataInv /\ LeaseOwned)'
        /\ [Lock!Next]_Lock!lockVars
  BY NextData, NextLock
<1>3. QED
  BY <1>1, <1>2, InitData, PTL DEF Spec, ImplementsLeaseLock, Lock!Spec

-----------------------------------------------------------------------------
(* One watermark retry at a time, where no process stalls: while a detached  *)
(* retry is alive, or could be asked for, the runs of its job are on their   *)
(* way out or have not begun.                                                *)

After == {"spawned", "exhausted", "tail"}
Late(j) ==
  /\ row[j].phase \in {"watermark", "done"}
  /\ \A r \in runs : r.job = j => r.pc \in After

WmJob(j) ==
  /\ \A v, w \in wmTasks : v.job = j /\ w.job = j => v = w
  /\ \A w \in wmTasks : w.job = j => row[j].wm # "failed" /\ Late(j)
  /\ row[j].wm = "failed" => Late(j)
  /\ \A r \in runs : r.job = j /\ r.pc = "parsing" => row[j].phase = "watermark"
WmInv == \A j \in Jobs : WmJob(j)

\* A job whose row keeps what this is about, and whose runs stay, or come to
\* stand before or behind their body.
LEMMA WmAside ==
  ASSUME NEW j \in Jobs, WmJob(j),
         row'[j].wm = row[j].wm, row'[j].phase = row[j].phase,
         \A r \in runs' : r.job = j => r \in runs \/ r.pc \in After,
         \A w \in wmTasks' : w.job = j => w \in wmTasks
  PROVE  WmJob(j)'
BY DEF WmJob, Late, After

\* What a step of a run at p does to the row x of its job, which becomes y.
WmRow(x, p, y, q) ==
  /\ y.wm = "failed" =>
       \/ x.wm = "failed"
       \/ p = "parsing" /\ q = "exhausted" /\ y.phase = x.phase
  /\ q = "parsing" => y.phase = "watermark"
  /\ x.phase \in {"watermark", "done"} /\ p \in After =>
       q \in After /\ y.phase \in {"watermark", "done"}

WmMove(r) == \E y \in Row, q \in PCs :
  SetRow(r, y) /\ MoveTo(r, q) /\ WmRow(row[r.job], r.pc, y, q)

\* The only run of a job may make such a step.
LEMMA WmMoveKeeps ==
  ASSUME TypeOK, WmInv, NEW r \in runs, WmMove(r),
         \A s \in runs : s.job = r.job => s = r
  PROVE  WmInv'
<1>1. PICK y \in Row, q \in PCs :
        SetRow(r, y) /\ MoveTo(r, q) /\ WmRow(row[r.job], r.pc, y, q)
  BY DEF WmMove
<1> DEFINE moved == [r EXCEPT !.pc = q]
<1>2. r \in Run /\ r.job \in Jobs
  BY DEF TypeOK, Run
<1>3. moved.job = r.job /\ moved.pc = q /\ runs' = (runs \ {r}) \cup {moved}
      /\ wmTasks' = wmTasks
  BY <1>1, <1>2 DEF MoveTo, SetRow, Run
<1> HIDE DEF moved
<1>4. row'[r.job] = y /\ \A j \in Jobs : j # r.job => row'[j] = row[j]
  BY <1>1, <1>2 DEF SetRow, TypeOK
<1>5. ASSUME NEW j \in Jobs, j # r.job
      PROVE  WmJob(j)'
  <2>1. WmJob(j) /\ row'[j] = row[j]
    BY <1>4, <1>5 DEF WmInv
  <2>2. QED
    BY <1>3, <1>5, <2>1, WmAside
<1>6. ASSUME NEW j \in Jobs, j = r.job
      PROVE  WmJob(j)'
  <2>1. \A s \in runs' : s.job = j => s = moved
    BY <1>3, <1>6
  <2>2. WmJob(j) /\ row'[j] = y /\ WmRow(row[j], r.pc, y, q)
    BY <1>1, <1>4, <1>6 DEF WmInv
  <2>3. Late(j) => Late(j)' /\ r.pc \in After
    BY <1>3, <1>6, <2>1, <2>2 DEF Late, WmRow
  <2>4. ASSUME NEW w \in wmTasks', w.job = j
        PROVE  y.wm # "failed" /\ Late(j)'
    <3>1. w \in wmTasks /\ row[j].wm # "failed" /\ Late(j)
      BY <1>3, <2>2, <2>4 DEF WmJob
    <3>2. r.pc \in After /\ r.pc # "parsing" /\ Late(j)'
      BY <2>3, <3>1 DEF After
    <3>3. QED
      BY <2>2, <3>1, <3>2 DEF WmRow
  <2>5. ASSUME y.wm = "failed"
        PROVE  Late(j)'
    <3>1. CASE row[j].wm = "failed"
      BY <2>2, <2>3, <3>1 DEF WmJob
    <3>2. CASE row[j].wm # "failed"
      <4>1. r.pc = "parsing" /\ q = "exhausted" /\ y.phase = row[j].phase
        BY <2>2, <2>5, <3>2 DEF WmRow
      <4>2. y.phase = "watermark"
        BY <1>6, <2>2, <4>1 DEF WmJob
      <4>3. QED
        BY <1>3, <2>1, <2>2, <4>1, <4>2 DEF Late, After
    <3>3. QED
      BY <3>1, <3>2
  <2>6. \A s \in runs' : s.job = j /\ s.pc = "parsing" => y.phase = "watermark"
    BY <1>3, <2>1, <2>2 DEF WmRow
  <2>7. \A v, w \in wmTasks' : v.job = j /\ w.job = j => v = w
    BY <1>3, <2>2 DEF WmJob
  <2>8. QED
    BY <2>2, <2>4, <2>5, <2>6, <2>7 DEF WmJob
<1>7. QED
  BY <1>5, <1>6 DEF WmInv

\* The row cur has taken over whether a watermark has failed, and r does not stand
\* where a run must not go on.
Goes(r, cur) ==
  /\ cur \in Row
  /\ cur.wm = "failed" => row[r.job].wm = "failed"
  /\ ~ (row[r.job].phase \in {"watermark", "done"} /\ r.pc \in After)

\* Such a run may move to any pc but that of the parser.
LEMMA WmGoes ==
  ASSUME NEW r \in runs, NEW cur, Goes(r, cur), NEW y \in Row, y.wm = cur.wm,
         NEW q \in PCs, q # "parsing", SetRow(r, y), MoveTo(r, q)
  PROVE  WmMove(r)
BY DEF WmMove, WmRow, Goes

\* It may fail, and enter any phase.
LEMMA WmFail ==
  ASSUME NEW r \in runs, NEW cur, Goes(r, cur), NEW e \in Errors, FailRun(r, cur, e)
  PROVE  WmMove(r)
<1> DEFINE y == [cur EXCEPT !.status = "failed", !.error = e]
           q == IF cur.phase = "submit" /\ e = "overload" THEN "overload" ELSE "tail"
<1>1. y \in Row /\ y.wm = cur.wm /\ q \in PCs /\ q # "parsing"
  BY DEF Goes, Row, Statuses, PCs, Body
<1>2. SetRow(r, y) /\ MoveTo(r, q)
  BY DEF FailRun
<1> HIDE DEF y, q
<1>3. QED
  BY <1>1, <1>2, WmGoes

LEMMA WmEnter ==
  ASSUME NEW r \in runs, NEW cur, Goes(r, cur), NEW gen \in BOOLEAN,
         \/ EnterSubmit(r, cur) \/ EnterProgress(r, cur)
         \/ EnterPublish(r, cur, gen) \/ EnterGenid(r, cur, gen)
  PROVE  WmMove(r)
<1>1. CASE \E e \in Errors : FailRun(r, cur, e)
  BY <1>1, WmFail
<1>2. CASE SetRow(r, cur) /\ \E q \in {"submit", "progress"} : MoveTo(r, q)
  BY <1>2, WmGoes DEF Goes, PCs, Body, Timed
<1>3. ASSUME NEW c, Goes(r, c), EnterPublish(r, c, gen)
      PROVE  WmMove(r)
  <2> DEFINE y == [c EXCEPT !.phase = "publish"]
  <2>1. y \in Row /\ y.wm = c.wm
    BY <1>3 DEF Goes, Row, Phases
  <2>2. CASE SetRow(r, y) /\ MoveTo(r, "publish")
    BY <1>3, <2>1, <2>2, WmGoes DEF PCs, Body, Timed
  <2>3. CASE FailRun(r, c, "other")
    BY <1>3, <2>3, WmFail DEF Errors
  <2>4. QED
    BY <1>3, <2>2, <2>3 DEF EnterPublish
<1>4. CASE EnterGenid(r, cur, gen)
  <2> DEFINE y == [cur EXCEPT !.phase = "genid"]
  <2>1. y \in Row /\ y.wm = cur.wm /\ Goes(r, y)
    BY DEF Goes, Row, Phases
  <2>2. CASE SetRow(r, y) /\ MoveTo(r, "genid")
    BY <2>1, <2>2, WmGoes DEF PCs, Body, Timed
  <2>3. CASE EnterPublish(r, y, TRUE) /\ gen = TRUE
    BY <1>3, <2>1, <2>3
  <2>4. CASE FailRun(r, cur, "other")
    BY <2>4, WmFail DEF Errors
  <2>5. QED
    BY <1>4, <2>2, <2>3, <2>4 DEF EnterGenid
<1>5. CASE EnterSubmit(r, cur) \/ EnterProgress(r, cur)
  BY <1>1, <1>2, <1>5 DEF EnterSubmit, EnterProgress, Errors
<1>6. QED
  BY <1>3, <1>4, <1>5

\* The first slice of a run goes on before the watermark phase or ends the run.
LEMMA WmStart ==
  ASSUME TypeOK, NEW r \in runs, StartRun(r)
  PROVE  WmMove(r)
<1> DEFINE x == row[r.job]
           cur == [x EXCEPT
                     !.status = "running", !.error = "none",
                     !.phase  = IF @ = "queue" THEN "submit" ELSE @,
                     !.budget = IF @ = "unset" THEN "live" ELSE @]
           fin == [cur EXCEPT !.status = "completed"]
<1>1. x \in Row /\ r.pc = "spawned" /\ "tail" \in PCs
  BY DEF TypeOK, Run, StartRun, PCs
<1>2. cur \in Row /\ cur.wm = x.wm /\ cur.phase = IF x.phase = "queue" THEN "submit" ELSE x.phase
  BY <1>1 DEF Row, Statuses, Phases, Errors
<1>3. fin \in Row /\ fin.wm = x.wm /\ fin.phase = cur.phase
  <2> HIDE DEF cur
  <2>1. fin \in Row /\ fin.wm = cur.wm /\ fin.phase = cur.phase
    BY <1>2 DEF Row, Statuses
  <2>2. QED
    BY <1>2, <2>1
<1>4. cur.gen \in BOOLEAN
  BY <1>2 DEF Row
<1>5. \/ SetRow(r, x) /\ MoveTo(r, "tail")
      \/ cur.phase = "submit"   /\ EnterSubmit(r, cur)
      \/ cur.phase = "progress" /\ EnterProgress(r, cur)
      \/ cur.phase = "genid"    /\ EnterGenid(r, cur, cur.gen)
      \/ cur.phase = "publish"  /\ EnterPublish(r, cur, cur.gen)
      \/ cur.phase = "watermark" /\ SetRow(r, cur) /\ MoveTo(r, "tail")
      \/ cur.phase = "done" /\ SetRow(r, fin) /\ MoveTo(r, "tail")
  BY DEF StartRun
<1> HIDE DEF cur, fin
<1>6. ASSUME NEW y \in {x, cur, fin}, SetRow(r, y), MoveTo(r, "tail"),
             x.phase \in {"watermark", "done"} => y.phase \in {"watermark", "done"}
      PROVE  WmMove(r)
  <2>1. y \in Row /\ WmRow(x, r.pc, y, "tail")
    BY <1>1, <1>2, <1>3, <1>6 DEF WmRow, After
  <2>2. QED
    BY <1>1, <1>6, <2>1 DEF WmMove
<1>7. CASE cur.phase \in {"submit", "progress", "genid", "publish"}
  <2>1. Goes(r, cur)
    BY <1>2, <1>7 DEF Goes
  <2>2. QED
    BY <1>4, <1>5, <1>6, <1>7, <2>1, WmEnter
<1>8. CASE cur.phase \notin {"submit", "progress", "genid", "publish"}
  BY <1>2, <1>3, <1>5, <1>6, <1>8
<1>9. QED
  BY <1>7, <1>8

\* The phases before the watermark.
LEMMA WmEarly ==
  ASSUME TypeOK, NEW r \in runs,
         \/ SubmitAccepted(r) \/ TokenFound(r) \/ PollGeneration(r) \/ ProgressDone(r)
         \/ PollCanceled(r) \/ FetchGeneration(r) \/ GenidDone(r) \/ PublishDone(r)
         \/ RunError(r) \/ RunTimeout(r)
  PROVE  WmMove(r)
<1> DEFINE x == row[r.job]
<1>1. x \in Row /\ r.pc \notin After
  BY DEF TypeOK, Run, SubmitAccepted, TokenFound, PollGeneration, ProgressDone, PollCanceled,
         FetchGeneration, GenidDone, PublishDone, RunError, RunTimeout, Timed, After
<1>2. Goes(r, x)
  BY <1>1 DEF Goes
<1>3. {"accepted", "progress", "polled", "captured", "watermark"} \subseteq PCs
  BY DEF PCs, Body, Timed
<1>4. CASE SubmitAccepted(r) \/ TokenFound(r) \/ PollGeneration(r) \/ FetchGeneration(r)
  <2>1. ASSUME NEW y, NEW q \in {"accepted", "progress", "polled", "captured"},
               SetRow(r, y), MoveTo(r, q),
               y \in {[x EXCEPT !.task = TRUE], [x EXCEPT !.phase = "progress"],
                      [x EXCEPT !.task = TRUE, !.phase = "progress"], [x EXCEPT !.gen = TRUE]}
        PROVE  WmMove(r)
    <3>1. y \in Row /\ y.wm = x.wm
      BY <1>1, <2>1 DEF Row, Phases
    <3>2. q \in PCs /\ q # "parsing"
      BY <1>3, <2>1
    <3> HIDE DEF x
    <3>3. QED
      BY <1>2, <2>1, <3>1, <3>2, WmGoes
  <2>2. CASE SubmitAccepted(r)
    <3>1. [[x EXCEPT !.task = TRUE] EXCEPT !.phase = "progress"]
            = [x EXCEPT !.task = TRUE, !.phase = "progress"]
      OBVIOUS
    <3>2. QED
      BY <2>1, <2>2, <3>1 DEF SubmitAccepted
  <2>3. CASE TokenFound(r)
    BY <2>1, <2>3 DEF TokenFound
  <2>4. CASE PollGeneration(r)
    BY <2>1, <2>4 DEF PollGeneration
  <2>5. CASE FetchGeneration(r)
    BY <2>1, <2>5 DEF FetchGeneration
  <2>6. QED
    BY <1>4, <2>2, <2>3, <2>4, <2>5
<1>5. CASE ProgressDone(r) \/ GenidDone(r)
  BY <1>2, <1>5, WmEnter DEF ProgressDone, GenidDone
<1>6. CASE PollCanceled(r) \/ RunError(r) \/ RunTimeout(r)
  BY <1>2, <1>6, WmFail DEF PollCanceled, RunError, RunTimeout, Errors
<1>7. CASE PublishDone(r)
  <2> DEFINE y == [x EXCEPT !.published = TRUE, !.status = "running",
                            !.phase = "watermark", !.wm = "queued"]
  <2>1. y \in Row /\ y.wm = "queued"
    BY <1>1 DEF Row, Phases, Statuses, WmStates
  <2>2. Goes(r, y)
    BY <1>1, <2>1 DEF Goes
  <2>3. FailRun(r, y, "other") \/ (SetRow(r, y) /\ MoveTo(r, "watermark"))
    BY <1>7 DEF PublishDone
  <2> HIDE DEF y
  <2>4. QED
    BY <1>3, <2>1, <2>2, <2>3, WmFail, WmGoes DEF Errors
<1>8. QED
  BY <1>4, <1>5, <1>6, <1>7

\* The watermark phase of a run.
LEMMA WmPhase ==
  ASSUME TypeOK, NEW r \in runs,
         WatermarkBegin(r) \/ WatermarkDone(r) \/ WatermarkExhausted(r) \/ WatermarkGiveUp(r)
  PROVE  WmMove(r)
<1> DEFINE x == row[r.job]
<1>1. x \in Row
  BY DEF TypeOK, Run
<1>2. {"parsing", "exhausted", "tail"} \subseteq PCs
  BY DEF PCs, Body, Timed
<1>3. CASE WatermarkBegin(r)
  <2> DEFINE y == [x EXCEPT !.phase = "watermark", !.wm = "running"]
  <2>1. y \in Row /\ y.wm = "running" /\ y.phase = "watermark"
    BY <1>1 DEF Row, Phases, WmStates
  <2>2. r.pc = "watermark" /\ Goes(r, x)
    BY <1>1, <1>3 DEF WatermarkBegin, Goes, After
  <2>3. FailRun(r, x, "other") \/ (SetRow(r, y) /\ MoveTo(r, "parsing"))
    BY <1>3 DEF WatermarkBegin
  <2> HIDE DEF y
  <2>4. WmRow(x, r.pc, y, "parsing")
    BY <2>1, <2>2 DEF WmRow, After
  <2>5. QED
    BY <1>2, <2>1, <2>2, <2>3, <2>4, WmFail DEF WmMove, Errors
<1>4. CASE WatermarkDone(r)
  <2> DEFINE y == Complete(x, "completed")
  <2>1. y \in Row /\ y.wm = "completed"
    BY <1>1 DEF Complete, Row, Phases, Statuses, WmStates
  <2>2. r.pc = "parsing" /\ SetRow(r, y) /\ MoveTo(r, "tail")
    BY <1>4 DEF WatermarkDone
  <2> HIDE DEF y
  <2>3. WmRow(x, r.pc, y, "tail")
    BY <2>1, <2>2 DEF WmRow, After
  <2>4. QED
    BY <1>2, <2>1, <2>2, <2>3 DEF WmMove
<1>5. CASE WatermarkExhausted(r)
  <2> DEFINE y == [x EXCEPT !.wm = "failed"]
  <2>1. y \in Row /\ y.wm = "failed" /\ y.phase = x.phase
    BY <1>1 DEF Row, WmStates
  <2>2. r.pc = "parsing" /\ SetRow(r, y) /\ MoveTo(r, "exhausted")
    BY <1>5 DEF WatermarkExhausted
  <2> HIDE DEF y
  <2>3. WmRow(x, r.pc, y, "exhausted")
    BY <2>1, <2>2 DEF WmRow, After
  <2>4. QED
    BY <1>2, <2>1, <2>2, <2>3 DEF WmMove
<1>6. CASE WatermarkGiveUp(r)
  <2>1. PICK y \in Row, q \in {"tail", "overload"} :
          /\ SetRow(r, y) /\ MoveTo(r, q)
          /\ y.wm \in {x.wm, "fallback"}
          /\ x.phase \in {"watermark", "done"} => q = "tail" /\ y.phase \in {"watermark", "done"}
    <3>1. CASE SetRow(r, Complete(x, "fallback")) /\ MoveTo(r, "tail")
      <4>1. /\ Complete(x, "fallback") \in Row /\ Complete(x, "fallback").wm = "fallback"
            /\ Complete(x, "fallback").phase = "done"
        BY <1>1 DEF Complete, Row, Phases, Statuses, WmStates
      <4>2. QED
        BY <3>1, <4>1
    <3>2. CASE FailRun(r, x, "other")
      <4> DEFINE y == [x EXCEPT !.status = "failed", !.error = "other"]
      <4>1. y \in Row /\ y.wm = x.wm /\ y.phase = x.phase
        BY <1>1 DEF Row, Statuses, Errors
      <4>2. SetRow(r, y) /\ MoveTo(r, "tail")
        BY <3>2 DEF FailRun
      <4> HIDE DEF y
      <4>3. QED
        BY <4>1, <4>2
    <3>3. QED
      BY <1>6, <3>1, <3>2 DEF WatermarkGiveUp
  <2>2. WmRow(x, r.pc, y, q) /\ q \in PCs
    BY <1>2, <2>1 DEF WmRow, After, PCs, Body
  <2>3. QED
    BY <2>1, <2>2 DEF WmMove
<1>7. QED
  BY <1>3, <1>4, <1>5, <1>6

\* A job that has no run and no task may have any row whose watermark has not failed.
LEMMA WmBlank ==
  ASSUME NEW j \in Jobs, row'[j].wm # "failed",
         \A r \in runs' : r.job # j, \A w \in wmTasks' : w.job # j
  PROVE  WmJob(j)'
BY DEF WmJob

\* A job that is created gets nothing else.
LEMMA WmFresh ==
  ASSUME TypeOK, DataInv, WmInv, NEW j \in Jobs, Fresh(j), row' = [row EXCEPT ![j] = Queued],
         UNCHANGED wmTasks,
         \A r \in runs' : r \in runs \/ (r.pc \in After /\ \E s \in runs : s.job = r.job)
  PROVE  WmInv'
<1>1. row[j] \in Row /\ row[j].status = "absent"
  BY DEF TypeOK, Fresh
<1>2. ~ row[j].published
  BY <1>1 DEF DataInv, RowOK, Row
<1>3. (\A r \in runs : r.job # j) /\ \A w \in wmTasks : w.job # j
  BY <1>1, <1>2 DEF DataInv
<1>4. row'[j] = Queued /\ \A k \in Jobs : k # j => row'[k] = row[k]
  BY DEF TypeOK
<1>5. Queued.wm = "none"
  BY DEF Queued, Absent
<1>6. WmJob(j)'
  BY <1>3, <1>4, <1>5, WmBlank
<1>7. ASSUME NEW k \in Jobs, k # j
      PROVE  WmJob(k)'
  BY <1>4, <1>7, WmAside DEF WmInv
<1>8. QED
  BY <1>6, <1>7 DEF WmInv

\* The retry of a failed watermark, and what its task does to the row.
LEMMA WmRetries ==
  ASSUME TypeOK, WmInv,
         \/ \E o \in Owners, j \in Jobs : RetryWatermark(o, j)
         \/ \E w \in wmTasks : WmStep(w)
  PROVE  WmInv'
<1>1. ASSUME NEW j \in Jobs, NEW x, Late(j), row' = [row EXCEPT ![j] = x],
             UNCHANGED runs, x.phase \in {"watermark", "done"},
             \A v \in wmTasks' : v.job = j => x.wm # "failed",
             \A v, w \in wmTasks' : v.job = j /\ w.job = j => v = w,
             \A v \in wmTasks' : v \in wmTasks \/ v.job = j
      PROVE  WmInv'
  <2>1. row'[j] = x /\ \A k \in Jobs : k # j => row'[k] = row[k]
    BY <1>1 DEF TypeOK
  <2>2. Late(j)' /\ \A r \in runs' : r.job = j => r.pc # "parsing"
    BY <1>1, <2>1 DEF Late, After
  <2>3. WmJob(j)'
    BY <1>1, <2>1, <2>2 DEF WmJob
  <2>4. ASSUME NEW k \in Jobs, k # j
        PROVE  WmJob(k)'
    BY <1>1, <2>1, <2>4, WmAside DEF WmInv
  <2>5. QED
    BY <2>3, <2>4 DEF WmInv
<1>2. ASSUME NEW o \in Owners, NEW j \in Jobs, RetryWatermark(o, j)
      PROVE  WmInv'
  <2> DEFINE x == [row[j] EXCEPT !.status = "running", !.phase = "watermark",
                                 !.wm = "queued", !.error = "none"]
             t == [job |-> j, owner |-> o, pc |-> "begin"]
  <2>1. WmJob(j) /\ row[j].wm = "failed" /\ row[j] \in Row
    BY <1>2 DEF RetryWatermark, WmInv, TypeOK
  <2>2. Late(j) /\ \A v \in wmTasks : v.job # j
    BY <2>1 DEF WmJob
  <2>3. x.phase = "watermark" /\ x.wm = "queued"
    BY <2>1 DEF Row
  <2>4. row' = [row EXCEPT ![j] = x] /\ UNCHANGED runs /\ wmTasks' = wmTasks \cup {t}
    BY <1>2 DEF RetryWatermark
  <2>5. t.job = j
    OBVIOUS
  <2> HIDE DEF x, t
  <2>6. QED
    BY <1>1, <2>2, <2>3, <2>4, <2>5
<1>3. ASSUME NEW w \in wmTasks, WmStep(w)
      PROVE  WmInv'
  <2> DEFINE j == w.job
             x == row[j]
  <2>1. j \in Jobs /\ x \in Row /\ w \in WmTask
    BY DEF TypeOK, WmTask
  <2>2. WmJob(j)
    BY <2>1 DEF WmInv
  <2>3. Late(j) /\ x.wm # "failed" /\ \A v \in wmTasks : v.job = j => v = w
    BY <2>2 DEF WmJob
  <2>4. ASSUME NEW y, row' = [row EXCEPT ![j] = y], UNCHANGED runs,
               wmTasks' = wmTasks \ {w}, y.phase \in {"watermark", "done"}
        PROVE  WmInv'
    BY <1>1, <2>1, <2>3, <2>4
  <2>5. ASSUME row' = [row EXCEPT ![j].phase = "watermark", ![j].wm = "running"],
               wmTasks' = (wmTasks \ {w}) \cup {[w EXCEPT !.pc = "parsing"]},
               UNCHANGED runs
        PROVE  WmInv'
    <3> DEFINE y == [x EXCEPT !.phase = "watermark", !.wm = "running"]
               t == [w EXCEPT !.pc = "parsing"]
    <3>1. y.phase = "watermark" /\ y.wm = "running" /\ t.job = j
      BY <2>1 DEF Row, WmTask
    <3>2. row' = [row EXCEPT ![j] = y]
      BY <2>1, <2>5 DEF TypeOK
    <3>3. wmTasks' = (wmTasks \ {w}) \cup {t}
      BY <2>5
    <3> HIDE DEF y, t, x, j
    <3>4. QED
      BY <1>1, <2>1, <2>3, <2>5, <3>1, <3>2, <3>3
  <2>6. /\ WmFailed(x).phase = "watermark"
        /\ WmFailed([x EXCEPT !.wm = "failed"]).phase = "watermark"
        /\ Complete(x, "completed").phase = "done"
        /\ Complete(x, "fallback").phase = "done"
    BY <2>1 DEF WmFailed, Complete, Row
  <2>7. CASE WmTaskBegin(w)
    BY <2>4, <2>5, <2>6, <2>7 DEF WmTaskBegin
  <2>8. CASE WmTaskEnd(w)
    BY <2>4, <2>6, <2>8 DEF WmTaskEnd
  <2>9. QED
    BY <1>3, <2>7, <2>8 DEF WmStep
<1>4. QED
  BY <1>2, <1>3

\* Rows keep what this is about, and no run comes to stand in its body.
LEMMA WmQuiet ==
  ASSUME WmInv,
         \A j \in Jobs : row'[j].wm = row[j].wm /\ row'[j].phase = row[j].phase,
         \A r \in runs' : r \in runs \/ r.pc \in After,
         wmTasks' \subseteq wmTasks
  PROVE  WmInv'
BY WmAside DEF WmInv

\* The steps that touch the status, the lease or the budget of rows alone.
LEMMA WmColumns ==
  ASSUME TypeOK, WmInv,
         \/ \E o \in Owners : Life(o) \/ LoopPass(o)
         \/ \E r \in runs : Heartbeat(r)
         \/ \E j \in Jobs : CancelJob(j) \/ RetryJob(j) \/ BudgetSpent(j)
         \/ Tick
  PROVE  WmInv'
<1>1. ASSUME \A j \in Jobs : row'[j].wm = row[j].wm /\ row'[j].phase = row[j].phase,
             runs' \subseteq runs, wmTasks' \subseteq wmTasks
      PROVE  WmInv'
  BY <1>1, WmQuiet
<1>2. \A j \in Jobs : row[j] \in Row
  BY DEF TypeOK
<1>3. ASSUME NEW o \in Owners, Life(o)
      PROVE  WmInv'
  <2>1. \A j \in Jobs : Recovered(j).wm = row[j].wm /\ Recovered(j).phase = row[j].phase
    BY <1>2 DEF Recovered, Row
  <2>2. \A j \in Jobs : row'[j].wm = row[j].wm /\ row'[j].phase = row[j].phase
    BY <1>3, <2>1 DEF Life, StartProcess, StopProcess, ExitProcess, Crash
  <2>3. runs' \subseteq runs /\ wmTasks' \subseteq wmTasks
    BY <1>3 DEF Life, StartProcess, StopProcess, ExitProcess, Crash
  <2>4. QED
    BY <1>1, <2>2, <2>3
<1>4. ASSUME NEW o \in Owners, LoopPass(o)
      PROVE  WmInv'
  <2>1. PICK S \in SUBSET Jobs :
          /\ row' = [j \in Jobs |-> IF j \in S THEN Claimed(j, o) ELSE row[j]]
          /\ runs' = runs \cup {[job |-> j, attempt |-> row[j].attempt + 1,
                                 owner |-> o, pc |-> "spawned"] : j \in S}
    BY <1>4 DEF LoopPass
  <2>2. \A j \in Jobs : Claimed(j, o).wm = row[j].wm /\ Claimed(j, o).phase = row[j].phase
    BY <1>2 DEF Claimed, Row
  <2>3. \A j \in Jobs : row'[j].wm = row[j].wm /\ row'[j].phase = row[j].phase
    BY <2>1, <2>2
  <2>4. \A r \in runs' : r \in runs \/ r.pc \in After
    BY <2>1 DEF After
  <2>5. QED
    BY <1>4, <2>3, <2>4, WmQuiet DEF LoopPass
<1>5. ASSUME NEW r \in runs, Heartbeat(r)
      PROVE  WmInv'
  <2>1. \A j \in Jobs : row'[j].wm = row[j].wm /\ row'[j].phase = row[j].phase
    BY <1>2, <1>5 DEF Heartbeat, Row, TypeOK
  <2>2. QED
    BY <1>1, <1>5, <2>1 DEF Heartbeat
<1>6. ASSUME NEW j \in Jobs, CancelJob(j) \/ RetryJob(j) \/ BudgetSpent(j)
      PROVE  WmInv'
  <2>1. \A k \in Jobs : row'[k].wm = row[k].wm /\ row'[k].phase = row[k].phase
    BY <1>2, <1>6 DEF CancelJob, RetryJob, BudgetSpent, Row, TypeOK
  <2>2. QED
    BY <1>1, <1>6, <2>1 DEF CancelJob, RetryJob, BudgetSpent
<1>7. CASE Tick
  <2>1. \A k \in Jobs : row'[k].wm = row[k].wm /\ row'[k].phase = row[k].phase
    BY <1>2, <1>7 DEF Tick, Row
  <2>2. QED
    BY <1>1, <1>7, <2>1 DEF Tick
<1>8. QED
  BY <1>3, <1>4, <1>5, <1>6, <1>7

\* A run that is cancelled, that ends, or that has looked for another account.
LEMMA WmLeaves ==
  ASSUME TypeOK, DataInv, WmInv, NEW r \in runs,
         CancelRun(r) \/ EndRun(r) \/ OverloadDone(r)
  PROVE  WmInv'
<1>1. row[r.job] \in Row /\ r \in Run /\ r.job \in Jobs
  BY DEF TypeOK, Run
<1>2. ASSUME MoveTo(r, "tail")
      PROVE  \A s \in runs' : s \in runs \/ (s.pc \in After /\ \E t \in runs : t.job = s.job)
  BY <1>1, <1>2 DEF MoveTo, Run, After
<1>3. ASSUME NEW y, row' = [row EXCEPT ![r.job] = y],
             y.wm = row[r.job].wm, y.phase = row[r.job].phase
      PROVE  \A j \in Jobs : row'[j].wm = row[j].wm /\ row'[j].phase = row[j].phase
  BY <1>1, <1>3 DEF TypeOK
<1>4. CASE CancelRun(r)
  <2>1. CASE runs' = runs \ {r} /\ UNCHANGED <<row, wmTasks>>
    BY <2>1, WmQuiet
  <2>2. CASE r.pc \in Body /\ \E y \in {row[r.job], [row[r.job] EXCEPT !.status = "failed",
                                                                    !.error = "other"]} :
               SetRow(r, y) /\ MoveTo(r, "tail")
    <3>1. PICK y \in {row[r.job], [row[r.job] EXCEPT !.status = "failed", !.error = "other"]} :
            SetRow(r, y) /\ MoveTo(r, "tail")
      BY <2>2
    <3>2. y.wm = row[r.job].wm /\ y.phase = row[r.job].phase
      BY <1>1 DEF Row
    <3>3. QED
      BY <1>2, <1>3, <3>1, <3>2, WmQuiet DEF SetRow
  <2>3. QED
    BY <1>4, <2>1, <2>2 DEF CancelRun
<1>5. CASE EndRun(r)
  <2> DEFINE y == IF row[r.job].owner = r.owner THEN Cleared(r.job) ELSE row[r.job]
  <2>1. y.wm = row[r.job].wm /\ y.phase = row[r.job].phase
    BY <1>1 DEF Cleared, Row
  <2>2. row' = [row EXCEPT ![r.job] = y] /\ runs' \subseteq runs /\ UNCHANGED wmTasks
    BY <1>5 DEF EndRun
  <2> HIDE DEF y
  <2>3. QED
    BY <1>3, <2>1, <2>2, WmQuiet
<1>6. CASE OverloadDone(r)
  <2>1. CASE UNCHANGED row
    BY <1>2, <1>6, <2>1, WmQuiet DEF OverloadDone
  <2>2. CASE \E j \in Jobs : Fresh(j) /\ row' = [row EXCEPT ![j] = Queued]
    BY <1>2, <1>6, <2>2, WmFresh DEF OverloadDone
  <2>3. QED
    BY <1>6, <2>1, <2>2 DEF OverloadDone
<1>7. QED
  BY <1>4, <1>5, <1>6

\* Every step of the queue keeps the invariant where no process stalls.
LEMMA NextWm ==
  ASSUME Stalling = {}, TypeOK, DataInv, LeaseInv, WmInv, [Next]_vars
  PROVE  WmInv'
<1>1. \A r, s \in runs : s.job = r.job => s = r
  BY DEF LeaseInv, SingleRun, TimelyRuns
<1>2. CASE UNCHANGED vars
  BY <1>2, WmQuiet DEF vars
<1>3. ASSUME NEW r \in runs, Step(r) \/ CancelRun(r)
      PROVE  WmInv'
  <2>1. CASE WmMove(r)
    BY <1>1, <2>1, WmMoveKeeps
  <2>2. CASE CancelRun(r) \/ EndRun(r) \/ OverloadDone(r)
    BY <2>2, WmLeaves
  <2>3. QED
    BY <1>3, <2>1, <2>2, WmStart, WmEarly, WmPhase DEF Step
<1>4. ASSUME NEW j \in Jobs, CreateJob(j)
      PROVE  WmInv'
  BY <1>4, WmFresh DEF CreateJob
<1>5. CASE \/ \E o \in Owners : Life(o) \/ LoopPass(o)
           \/ \E r \in runs : Heartbeat(r)
           \/ \E j \in Jobs : CancelJob(j) \/ RetryJob(j) \/ BudgetSpent(j)
           \/ Tick
  BY <1>5, WmColumns
<1>6. CASE \/ \E o \in Owners, j \in Jobs : RetryWatermark(o, j)
           \/ \E w \in wmTasks : WmStep(w)
  BY <1>6, WmRetries
<1>7. QED
  BY <1>2, <1>3, <1>4, <1>5, <1>6 DEF Next, Request

\* Where no process stalls, a job has at most one detached watermark retry, and
\* none while its watermark says failed and another one could be asked for.
THEOREM OneWatermarkRetryCorrect ==
  ASSUME Stalling = {}
  PROVE  Spec => []OneWatermarkRetry
<1>1. Init => LeaseInv /\ WmInv
  BY DEF Init, LeaseInv, RunsAreLeased, SingleRun, TimelyRuns, WmInv, WmJob, Absent
<1>2. TypeOK /\ DataInv /\ LeaseInv /\ WmInv /\ [Next]_vars =>
        (TypeOK /\ DataInv /\ LeaseInv /\ WmInv)'
  BY NextData, NextLease, NextWm
<1>3. TypeOK /\ WmInv => OneWatermarkRetry
  <2> SUFFICES ASSUME TypeOK, WmInv PROVE OneWatermarkRetry
    OBVIOUS
  <2>1. \A w \in wmTasks : w.job \in Jobs
    BY DEF TypeOK, WmTask
  <2>2. QED
    BY <2>1 DEF WmInv, WmJob, OneWatermarkRetry
<1>4. QED
  BY <1>1, <1>2, <1>3, InitData, PTL DEF Spec

=============================================================================
