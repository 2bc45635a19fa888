----------------------- MODULE SoraJobQueueStepProofs -----------------------
(***************************************************************************)
(* Theorems about what no step of the generation queue may do, for every   *)
(* number of jobs, owners, processes and retries.                          *)
(*                                                                         *)
(* Phase part: a step of a run goes forward (Ahead): it leaves a spent     *)
(* budget alone, and if the run stands in the phase of its row, so does it *)
(* after the step, in the same phase or a later one.  That every run does  *)
(* stand in the phase of its row (PhaseInv) needs that no process stalls:  *)
(* then a run has its row to itself.                                       *)
(* Lease part: a row without a job has no owner, and whatever else empties *)
(* the lease of a row is the end of a run of its owner.                    *)
(***************************************************************************)
EXTENDS SoraJobQueueProofs

-----------------------------------------------------------------------------
(* A step of a run goes forward *)

\* Where a run may stand while its row is in phase f.
InPhase(p, f) ==
  /\ p \in {"submit", "accepted"} => f = "submit"
  /\ p \in {"progress", "polled"} => f = "progress"
  /\ p \in {"genid", "captured"} => f = "genid"
  /\ p = "publish" => f = "publish"
  /\ p \in {"watermark", "parsing"} => f = "watermark"

\* What a step from p to q may do to the row x, which becomes y.
Forward(x, p, y, q) ==
  /\ InPhase(p, x.phase) => InPhase(q, y.phase) /\ Rank(x.phase) <= Rank(y.phase)
  /\ x.budget = "spent" =>
       /\ q # "submit"
       /\ y.phase \in {"genid", "publish"} => y.phase = x.phase

Ahead(r) == \E y \in Row, q \in PCs :
  SetRow(r, y) /\ MoveTo(r, q) /\ Forward(row[r.job], r.pc, y, q)

LEMMA Ranks ==
  /\ Rank("queue") = 0 /\ Rank("submit") = 1 /\ Rank("progress") = 2 /\ Rank("genid") = 3
  /\ Rank("publish") = 4 /\ Rank("watermark") = 5 /\ Rank("done") = 5
  /\ \A f \in Phases : Rank(f) \in 0 .. 5
<1>1. /\ Rank("queue") = 0 /\ Rank("submit") = 1 /\ Rank("progress") = 2 /\ Rank("genid") = 3
      /\ Rank("publish") = 4 /\ Rank("watermark") = 5 /\ Rank("done") = 5
  BY DEF Rank
<1>2. QED
  BY <1>1 DEF Phases

\* The row cur has replaced the row of r within a step.
Near(r, cur) ==
  /\ row[r.job] \in Row /\ cur \in Row
  /\ row[r.job].budget = "spent" =>
       /\ cur.budget = "spent"
       /\ cur.phase \in {"genid", "publish"} => cur.phase = row[r.job].phase
  /\ InPhase(r.pc, row[r.job].phase) => Rank(row[r.job].phase) <= Rank(cur.phase)

\* A run may stop in any phase.
LEMMA AheadFail ==
  ASSUME NEW r \in runs, NEW cur, Near(r, cur), NEW e \in Errors, FailRun(r, cur, e)
  PROVE  Ahead(r)
<1> DEFINE y == [cur EXCEPT !.status = "failed", !.error = e]
           q == IF cur.phase = "submit" /\ e = "overload" THEN "overload" ELSE "tail"
<1>1. y \in Row /\ y.phase = cur.phase /\ q \in PCs /\ q \in {"overload", "tail"}
  BY DEF Near, Row, Statuses, PCs, Body
<1>2. SetRow(r, y) /\ MoveTo(r, q)
  BY DEF FailRun
<1> HIDE DEF y, q
<1>3. Forward(row[r.job], r.pc, y, q)
  BY <1>1 DEF Forward, Near, InPhase
<1>4. QED
  BY <1>1, <1>2, <1>3 DEF Ahead

\* A run may go on in its phase, or behind its body in any.
LEMMA AheadGo ==
  ASSUME NEW r \in runs, NEW cur, Near(r, cur), NEW y \in Row, NEW q \in PCs,
         y.phase = cur.phase, SetRow(r, y), MoveTo(r, q),
         InPhase(r.pc, row[r.job].phase) => InPhase(q, cur.phase),
         q = "submit" => cur.budget # "spent"
  PROVE  Ahead(r)
<1>1. Forward(row[r.job], r.pc, y, q)
  BY DEF Forward, Near
<1>2. QED
  BY <1>1 DEF Ahead

\* A run may enter a later phase while there is time left.
LEMMA AheadEnter ==
  ASSUME NEW r \in runs, NEW cur, Near(r, cur), NEW gen \in BOOLEAN,
         LET here == InPhase(r.pc, row[r.job].phase)
         IN  \/ EnterSubmit(r, cur) /\ (here => cur.phase = "submit")
             \/ EnterProgress(r, cur) /\ (here => cur.phase = "progress")
             \/ EnterPublish(r, cur, gen) /\ (here => cur.phase \in {"genid", "publish"})
             \/ EnterGenid(r, cur, gen) /\ (here => cur.phase \in {"progress", "genid"})
  PROVE  Ahead(r)
<1> DEFINE x == row[r.job]
           here == InPhase(r.pc, x.phase)
<1>1. CASE \E e \in Errors : FailRun(r, cur, e)
  BY <1>1, AheadFail
<1>2. CASE /\ SetRow(r, cur) /\ cur.budget # "spent"
           /\ \/ MoveTo(r, "submit") /\ (here => cur.phase = "submit")
              \/ MoveTo(r, "progress") /\ (here => cur.phase = "progress")
  BY <1>2, AheadGo DEF Near, InPhase, PCs, Body, Timed
<1>3. ASSUME NEW f \in {"genid", "publish"}, NEW y, y = [cur EXCEPT !.phase = f],
             SetRow(r, y), MoveTo(r, f), cur.budget # "spent",
             here => Rank(cur.phase) <= Rank(f)
      PROVE  Ahead(r)
  <2>1. y \in Row /\ y.phase = f /\ f \in PCs /\ cur.phase \in Phases
    BY <1>3 DEF Near, Row, Phases, PCs, Body, Timed
  <2>2. here => Rank(x.phase) <= Rank(f)
    <3>1. Rank(x.phase) \in 0 .. 5 /\ Rank(cur.phase) \in 0 .. 5 /\ Rank(f) \in 0 .. 5
      BY <2>1, Ranks DEF Near, Row, Phases
    <3>2. QED
      BY <1>3, <3>1 DEF Near
  <2>3. x.budget # "spent"
    BY <1>3 DEF Near
  <2>4. Forward(x, r.pc, y, f)
    BY <2>1, <2>2, <2>3 DEF Forward, InPhase
  <2>5. QED
    BY <1>3, <2>1, <2>4 DEF Ahead
<1>4. CASE EnterSubmit(r, cur) /\ (here => cur.phase = "submit")
  BY <1>1, <1>2, <1>4 DEF EnterSubmit, Errors
<1>5. CASE EnterProgress(r, cur) /\ (here => cur.phase = "progress")
  BY <1>1, <1>2, <1>5 DEF EnterProgress, Errors
<1>6. CASE EnterPublish(r, cur, gen) /\ (here => cur.phase \in {"genid", "publish"})
  <2>1. here => Rank(cur.phase) <= Rank("publish")
    BY <1>6, Ranks
  <2>2. QED
    BY <1>1, <1>3, <1>6, <2>1 DEF EnterPublish, Errors
<1>7. CASE EnterGenid(r, cur, gen) /\ (here => cur.phase \in {"progress", "genid"})
  <2> DEFINE y == [cur EXCEPT !.phase = "genid"]
  <2>1. /\ here => Rank(cur.phase) <= Rank("genid")
        /\ here => Rank(cur.phase) <= Rank("publish")
    BY <1>7, Ranks
  <2>2. [y EXCEPT !.phase = "publish"] = [cur EXCEPT !.phase = "publish"]
        /\ y.budget = cur.budget
    BY DEF Near, Row
  <2>3. CASE EnterPublish(r, y, TRUE) /\ cur.budget # "spent"
    <3>1. SetRow(r, [cur EXCEPT !.phase = "publish"]) /\ MoveTo(r, "publish")
      BY <2>2, <2>3 DEF EnterPublish
    <3>2. QED
      BY <1>3, <2>1, <2>3, <3>1
  <2>4. QED
    BY <1>1, <1>3, <1>7, <2>1, <2>3 DEF EnterGenid, Errors
<1>8. QED
  BY <1>4, <1>5, <1>6, <1>7

\* The first slice of a run goes forward.
LEMMA AheadStart ==
  ASSUME TypeOK, NEW r \in runs, StartRun(r)
  PROVE  Ahead(r)
<1> DEFINE x == row[r.job]
           cur == [x EXCEPT
                     !.status = "running", !.error = "none",
                     !.phase  = IF @ = "queue" THEN "submit" ELSE @,
                     !.budget = IF @ = "unset" THEN "live" ELSE @]
           fin == [cur EXCEPT !.status = "completed"]
<1>1. x \in Row /\ "tail" \in PCs
  BY DEF TypeOK, Run, PCs
<1>2. /\ cur \in Row
      /\ cur.phase = IF x.phase = "queue" THEN "submit" ELSE x.phase
      /\ x.budget = "spent" => cur.budget = "spent"
  BY <1>1 DEF Row, Statuses, Phases, Errors
<1>3. \/ SetRow(r, x) /\ MoveTo(r, "tail")
      \/ cur.phase = "submit"   /\ EnterSubmit(r, cur)
      \/ cur.phase = "progress" /\ EnterProgress(r, cur)
      \/ cur.phase = "genid"    /\ EnterGenid(r, cur, cur.gen)
      \/ cur.phase = "publish"  /\ EnterPublish(r, cur, cur.gen)
      \/ SetRow(r, cur) /\ MoveTo(r, "tail")
      \/ SetRow(r, fin) /\ MoveTo(r, "tail")
  BY DEF StartRun
<1> HIDE DEF cur
<1>4. fin \in Row /\ fin.phase = cur.phase /\ cur.gen \in BOOLEAN
  BY <1>2 DEF Row, Statuses
<1> HIDE DEF fin
<1>5. Rank(x.phase) <= Rank(cur.phase)
  BY <1>1, <1>2, Ranks DEF Row
<1>6. Near(r, cur) /\ Near(r, x)
  BY <1>1, <1>2, <1>5, Ranks DEF Near, Row
<1>7. InPhase("tail", cur.phase) /\ InPhase("tail", x.phase)
  BY DEF InPhase
<1>8. CASE \E y \in {x, cur, fin} : SetRow(r, y) /\ MoveTo(r, "tail")
  BY <1>1, <1>2, <1>4, <1>6, <1>7, <1>8, AheadGo
<1>9. QED
  BY <1>3, <1>4, <1>6, <1>8, AheadEnter

\* The phases before the watermark go forward.
LEMMA AheadEarly ==
  ASSUME TypeOK, NEW r \in runs,
         \/ SubmitAccepted(r) \/ TokenFound(r) \/ PollGeneration(r) \/ ProgressDone(r)
         \/ PollCanceled(r) \/ FetchGeneration(r) \/ GenidDone(r) \/ PublishDone(r)
         \/ RunError(r) \/ RunTimeout(r)
  PROVE  Ahead(r)
<1> DEFINE x == row[r.job]
<1>1. x \in Row /\ Near(r, x)
  BY Ranks DEF TypeOK, Run, Near, Row
<1>2. {"accepted", "progress", "polled", "captured", "watermark"} \subseteq PCs
  BY DEF PCs, Body, Timed
<1>3. ASSUME NEW y, NEW q \in {"accepted", "polled", "captured"}, SetRow(r, y), MoveTo(r, q),
             y \in {[x EXCEPT !.task = TRUE], [x EXCEPT !.gen = TRUE]},
             \A f : InPhase(r.pc, f) => InPhase(q, f)
      PROVE  Ahead(r)
  <2>1. y \in Row /\ y.phase = x.phase
    BY <1>1, <1>3 DEF Row
  <2> HIDE DEF x
  <2>2. QED
    BY <1>1, <1>2, <1>3, <2>1, AheadGo DEF x
<1>4. ASSUME NEW y, SetRow(r, y), MoveTo(r, "progress"), r.pc \in {"submit", "accepted"},
             y \in {[x EXCEPT !.phase = "progress"],
                    [[x EXCEPT !.task = TRUE] EXCEPT !.phase = "progress"]}
      PROVE  Ahead(r)
  <2>1. y \in Row /\ y.phase = "progress"
    BY <1>1, <1>4 DEF Row, Phases
  <2>2. Forward(x, r.pc, y, "progress")
    BY <1>4, <2>1, Ranks DEF Forward, InPhase
  <2>3. QED
    BY <1>2, <1>4, <2>1, <2>2 DEF Ahead
<1>5. CASE SubmitAccepted(r)
  <2>1. \A f : InPhase(r.pc, f) => InPhase("accepted", f)
    BY <1>5 DEF SubmitAccepted, InPhase
  <2>2. QED
    BY <1>3, <1>4, <1>5, <2>1 DEF SubmitAccepted
<1>6. CASE TokenFound(r)
  BY <1>4, <1>6 DEF TokenFound
<1>7. CASE PollGeneration(r)
  <2>1. \A f : InPhase(r.pc, f) => InPhase("polled", f)
    BY <1>7 DEF PollGeneration, InPhase
  <2>2. QED
    BY <1>3, <1>7, <2>1 DEF PollGeneration
<1>8. CASE FetchGeneration(r)
  <2>1. \A f : InPhase(r.pc, f) => InPhase("captured", f)
    BY <1>8 DEF FetchGeneration, InPhase
  <2>2. QED
    BY <1>3, <1>8, <2>1 DEF FetchGeneration
<1>9. CASE ProgressDone(r)
  BY <1>1, <1>9, AheadEnter DEF ProgressDone, InPhase
<1>10. CASE GenidDone(r)
  BY <1>1, <1>10, AheadEnter DEF GenidDone, InPhase
<1>11. CASE PollCanceled(r) \/ RunError(r) \/ RunTimeout(r)
  BY <1>1, <1>11, AheadFail DEF PollCanceled, RunError, RunTimeout, Errors
<1>12. CASE PublishDone(r)
  <2> DEFINE y == [x EXCEPT !.published = TRUE, !.status = "running",
                            !.phase = "watermark", !.wm = "queued"]
  <2>1. y \in Row /\ y.phase = "watermark" /\ y.budget = x.budget
    BY <1>1 DEF Row, Phases, Statuses, WmStates
  <2>2. FailRun(r, y, "other") \/ (SetRow(r, y) /\ MoveTo(r, "watermark"))
    BY <1>12 DEF PublishDone
  <2> HIDE DEF y
  <2>3. Rank(x.phase) <= Rank("watermark") /\ InPhase("watermark", y.phase)
    BY <1>1, <2>1, Ranks DEF Row, InPhase
  <2>4. Near(r, y)
    BY <1>1, <2>1, <2>3 DEF Near
  <2>5. QED
    BY <1>2, <2>1, <2>2, <2>3, <2>4, AheadFail, AheadGo DEF Errors
<1>13. QED
  BY <1>5, <1>6, <1>7, <1>8, <1>9, <1>10, <1>11, <1>12

\* The watermark phase goes forward.
LEMMA AheadWatermark ==
  ASSUME TypeOK, NEW r \in runs,
         WatermarkBegin(r) \/ WatermarkDone(r) \/ WatermarkExhausted(r) \/ WatermarkGiveUp(r)
  PROVE  Ahead(r)
<1> DEFINE x == row[r.job]
<1>1. x \in Row /\ Near(r, x)
  BY Ranks DEF TypeOK, Run, Near, Row
<1>2. {"parsing", "exhausted", "tail"} \subseteq PCs
  BY DEF PCs, Body, Timed
<1>3. ASSUME NEW y \in Row, NEW q \in {"parsing", "exhausted", "tail"},
             SetRow(r, y), MoveTo(r, q), y.phase \in {"watermark", "done"},
             q # "tail" => y.phase = "watermark"
      PROVE  Ahead(r)
  <2>1. Rank(x.phase) <= Rank(y.phase)
    BY <1>1, <1>3, Ranks DEF Row
  <2>2. Forward(x, r.pc, y, q)
    BY <1>3, <2>1 DEF Forward, InPhase
  <2>3. QED
    BY <1>2, <1>3, <2>2 DEF Ahead
<1>4. CASE FailRun(r, x, "other")
  BY <1>1, <1>4, AheadFail DEF Errors
<1>5. CASE WatermarkBegin(r)
  <2> DEFINE y == [x EXCEPT !.phase = "watermark", !.wm = "running"]
  <2>1. y \in Row /\ y.phase = "watermark"
    BY <1>1 DEF Row, Phases, WmStates
  <2>2. QED
    BY <1>3, <1>4, <1>5, <2>1 DEF WatermarkBegin
<1>6. CASE WatermarkExhausted(r)
  <2> DEFINE y == [x EXCEPT !.wm = "failed"]
  <2>1. y \in Row /\ y.phase = x.phase
    BY <1>1 DEF Row, WmStates
  <2>2. \A f : InPhase(r.pc, f) => InPhase("exhausted", f)
    BY <1>6 DEF WatermarkExhausted, InPhase
  <2>3. SetRow(r, y) /\ MoveTo(r, "exhausted")
    BY <1>6 DEF WatermarkExhausted
  <2> HIDE DEF y
  <2>4. QED
    BY <1>1, <1>2, <2>1, <2>2, <2>3, AheadGo
<1>7. CASE \E w \in {"completed", "fallback"} :
             SetRow(r, Complete(x, w)) /\ MoveTo(r, "tail")
  <2>1. \A w \in {"completed", "fallback"} :
          Complete(x, w) \in Row /\ Complete(x, w).phase = "done"
    BY <1>1 DEF Complete, Row, Phases, Statuses, WmStates
  <2>2. QED
    BY <1>3, <1>7, <2>1
<1>8. QED
  BY <1>4, <1>5, <1>6, <1>7 DEF WatermarkDone, WatermarkGiveUp

-----------------------------------------------------------------------------
(* Rows, their owners and their phases over a step *)

\* A row without a job is empty.
BlankInv == \A j \in Jobs : row[j].status = "absent" => row[j] = Absent

\* No step empties a row, and only a run that ends takes a valid lease away.
Held(j) ==
  /\ row'[j].status = "absent" => row'[j] = row[j]
  /\ Leased(j) /\ row'[j].owner = NoOwner =>
       \E r \in runs \ runs' : r.job = j /\ r.owner = row[j].owner

\* What a step that is no step of a run in its body does to the phase of a row.
Aside(j) ==
  \/ row'[j].phase = row[j].phase
  \/ row'[j].phase \in {"watermark", "done"} /\ (WmInv => Late(j))

\* A row that is kept, or replaced by one of the same owner and phase.
LEMMA HeldSame ==
  ASSUME TypeOK, NEW i \in Jobs, NEW y, row' = [row EXCEPT ![i] = y],
         y.status # "absent" \/ y = row[i], y.owner = row[i].owner
  PROVE  /\ \A j \in Jobs : Held(j)
         /\ y.phase = row[i].phase => \A j \in Jobs : Aside(j)
<1>1. row'[i] = y /\ \A j \in Jobs : j # i => row'[j] = row[j]
  BY DEF TypeOK
<1>2. ASSUME NEW j \in Jobs
      PROVE  Held(j) /\ (y.phase = row[i].phase => Aside(j))
  BY <1>1, <1>2 DEF Held, Aside, Leased
<1>3. QED
  BY <1>2

LEMMA HeldStill ==
  ASSUME row' = row
  PROVE  \A j \in Jobs : Held(j) /\ Aside(j)
BY DEF Held, Aside, Leased

\* A new job takes an empty row.
LEMMA HeldFresh ==
  ASSUME TypeOK, BlankInv, NEW i \in Jobs, Fresh(i), row' = [row EXCEPT ![i] = Queued]
  PROVE  \A j \in Jobs : Held(j) /\ Aside(j)
<1>1. row'[i] = Queued /\ \A j \in Jobs : j # i => row'[j] = row[j]
  BY DEF TypeOK
<1>2. row[i] = Absent
  BY DEF BlankInv, Fresh
<1>3. Queued.status = "queued" /\ Queued.phase = Absent.phase /\ ~ (Absent.lease > 0)
  BY DEF Queued, Absent
<1>4. ASSUME NEW j \in Jobs
      PROVE  Held(j) /\ Aside(j)
  BY <1>1, <1>2, <1>3 DEF Held, Aside, Leased
<1>5. QED
  BY <1>4

\* Starts, claims and the clock.
LEMMA HeldByProcess ==
  ASSUME TypeOK, BlankInv, (\E o \in Owners : Life(o) \/ LoopPass(o)) \/ Tick
  PROVE  \A j \in Jobs : Held(j) /\ Aside(j)
<1>1. \A j \in Jobs : row[j] \in Row
  BY DEF TypeOK
<1>2. ASSUME NEW o \in Owners, StartProcess(o), NEW j \in Jobs
      PROVE  Held(j) /\ Aside(j)
  <2>1. Recovered(j).status = "failed" /\ Recovered(j).phase = row[j].phase
    BY <1>1 DEF Recovered, Row
  <2>2. row'[j] = IF Stale(j) THEN Recovered(j) ELSE row[j]
    BY <1>2 DEF StartProcess
  <2>3. QED
    BY <2>1, <2>2 DEF Held, Aside, Stale, Leased
<1>3. ASSUME NEW o \in Owners, LoopPass(o), NEW j \in Jobs
      PROVE  Held(j) /\ Aside(j)
  <2>1. PICK S \in SUBSET {i \in Jobs : Claimable(i)} :
          row' = [i \in Jobs |-> IF i \in S THEN Claimed(i, o) ELSE row[i]]
    BY <1>3 DEF LoopPass
  <2>2. CASE j \in S
    <3>1. row'[j] = Claimed(j, o) /\ row[j].status = "queued"
      BY <2>1, <2>2 DEF Claimable
    <3>2. row'[j].status = "queued" /\ row'[j].owner = o /\ row'[j].phase = row[j].phase
      BY <1>1, <3>1 DEF Claimed, Row
    <3>3. QED
      BY <3>2, OwnersAssumption DEF Held, Aside
  <2>3. CASE j \notin S
    BY <2>1, <2>3 DEF Held, Aside, Leased
  <2>4. QED
    BY <2>2, <2>3
<1>4. ASSUME Tick, NEW j \in Jobs
      PROVE  Held(j) /\ Aside(j)
  <2>1. row'[j] = [row[j] EXCEPT !.lease = IF @ > 0 THEN @ - 1 ELSE 0]
    BY <1>4 DEF Tick
  <2>2. /\ row'[j].status = row[j].status /\ row'[j].owner = row[j].owner
        /\ row'[j].phase = row[j].phase
    BY <1>1, <2>1 DEF Row
  <2>3. row[j].status = "absent" => row'[j] = row[j]
    BY <2>1 DEF BlankInv, Absent
  <2>4. QED
    BY <2>2, <2>3 DEF Held, Aside, Leased
<1>5. QED
  BY <1>2, <1>3, <1>4, HeldStill DEF Life, StopProcess, ExitProcess, Crash

\* What runs do beside their own steps, and their ends.
LEMMA HeldByRun ==
  ASSUME TypeOK, DataInv, BlankInv, NEW r \in runs,
         Heartbeat(r) \/ CancelRun(r) \/ EndRun(r) \/ OverloadDone(r)
  PROVE  \A j \in Jobs : Held(j) /\ Aside(j)
<1> DEFINE x == row[r.job]
<1>1. r.job \in Jobs /\ r.owner \in Owners /\ x \in Row /\ x.status # "absent"
  BY RowFollows DEF DataInv
<1>2. CASE Heartbeat(r)
  <2> DEFINE y == [x EXCEPT !.lease = LeaseTicks]
  <2>1. y.status = x.status /\ y.owner = x.owner /\ y.phase = x.phase
    BY <1>1 DEF Row
  <2>2. row' = [row EXCEPT ![r.job] = y]
    BY <1>1, <1>2 DEF Heartbeat, TypeOK
  <2> HIDE DEF y
  <2>3. QED
    BY <1>1, <2>1, <2>2, HeldSame
<1>3. CASE CancelRun(r)
  <2> DEFINE y == [x EXCEPT !.status = "failed", !.error = "other"]
  <2>1. y.status = "failed" /\ y.owner = x.owner /\ y.phase = x.phase
    BY <1>1 DEF Row
  <2>2. row' = row \/ row' = [row EXCEPT ![r.job] = x] \/ row' = [row EXCEPT ![r.job] = y]
    BY <1>3 DEF CancelRun, SetRow
  <2> HIDE DEF y
  <2>3. QED
    BY <1>1, <2>1, <2>2, HeldSame, HeldStill
<1>4. CASE EndRun(r)
  <2>1. CASE x.owner # r.owner
    <3>1. row' = [row EXCEPT ![r.job] = x]
      BY <1>4, <2>1 DEF EndRun
    <3>2. QED
      BY <1>1, <3>1, HeldSame
  <2>2. CASE x.owner = r.owner
    <3>1. /\ row'[r.job] = Cleared(r.job) /\ runs' = runs \ {r}
          /\ \A j \in Jobs : j # r.job => row'[j] = row[j]
      BY <1>1, <1>4, <2>2 DEF EndRun, TypeOK
    <3>2. Cleared(r.job).status = x.status /\ Cleared(r.job).phase = x.phase
      BY <1>1 DEF Cleared, Row
    <3>3. r \in runs \ runs'
      BY <3>1
    <3>4. ASSUME NEW j \in Jobs
          PROVE  Held(j) /\ Aside(j)
      <4>1. CASE j = r.job
        BY <1>1, <2>2, <3>1, <3>2, <3>3, <4>1 DEF Held, Aside
      <4>2. CASE j # r.job
        BY <3>1, <4>2 DEF Held, Aside, Leased
      <4>3. QED
        BY <4>1, <4>2
    <3>5. QED
      BY <3>4
  <2>3. QED
    BY <2>1, <2>2
<1>5. CASE OverloadDone(r)
  BY <1>5, HeldStill, HeldFresh DEF OverloadDone
<1>6. QED
  BY <1>2, <1>3, <1>4, <1>5

\* Requests, the time budget, and the detached watermark tasks.
LEMMA HeldByOther ==
  ASSUME TypeOK, DataInv, BlankInv,
         \/ \E j \in Jobs : Request(j) \/ BudgetSpent(j)
         \/ \E w \in wmTasks : WmStep(w)
  PROVE  \A j \in Jobs : Held(j) /\ Aside(j)
<1>1. \A j \in Jobs : row[j] \in Row
  BY DEF TypeOK
<1>2. ASSUME NEW i \in Jobs, CancelJob(i) \/ RetryJob(i) \/ BudgetSpent(i)
      PROVE  \A j \in Jobs : Held(j) /\ Aside(j)
  <2> DEFINE x == row[i]
  <2>1. x \in Row /\ x.status # "absent"
    BY <1>1, <1>2 DEF CancelJob, RetryJob, BudgetSpent, BlankInv, Absent
  <2>2. ASSUME NEW y, y \in {[x EXCEPT !.status = "canceled", !.error = "other"],
                             [x EXCEPT !.status = "queued", !.error = "none"],
                             [x EXCEPT !.budget = "spent"]},
               row' = [row EXCEPT ![i] = y]
        PROVE  \A j \in Jobs : Held(j) /\ Aside(j)
    <3>1. y.status # "absent" /\ y.owner = x.owner /\ y.phase = x.phase
      BY <2>1, <2>2 DEF Row
    <3> HIDE DEF x
    <3>2. QED
      BY <2>2, <3>1, HeldSame DEF x
  <2>3. CASE CancelJob(i)
    <3>1. row' = [row EXCEPT ![i] = [x EXCEPT !.status = "canceled", !.error = "other"]]
      BY <2>3 DEF CancelJob, TypeOK
    <3>2. QED
      BY <2>2, <3>1
  <2>4. CASE RetryJob(i)
    <3>1. row' = [row EXCEPT ![i] = [x EXCEPT !.status = "queued", !.error = "none"]]
      BY <2>4 DEF RetryJob, TypeOK
    <3>2. QED
      BY <2>2, <3>1
  <2>5. CASE BudgetSpent(i)
    <3>1. row' = [row EXCEPT ![i] = [x EXCEPT !.budget = "spent"]]
      BY <2>5 DEF BudgetSpent, TypeOK
    <3>2. QED
      BY <2>2, <3>1
  <2>6. QED
    BY <1>2, <2>3, <2>4, <2>5
<1>3. ASSUME NEW i \in Jobs, NEW y, row' = [row EXCEPT ![i] = y], y.status # "absent",
             y.owner = row[i].owner, y.phase \in {"watermark", "done"}, WmInv => Late(i)
      PROVE  \A j \in Jobs : Held(j) /\ Aside(j)
  <2>1. \A j \in Jobs : Held(j)
    BY <1>3, HeldSame
  <2>2. \A j \in Jobs : row'[j] = IF j = i THEN y ELSE row[j]
    BY <1>3 DEF TypeOK
  <2>3. QED
    BY <1>3, <2>1, <2>2 DEF Aside
<1>4. ASSUME NEW o \in Owners, NEW i \in Jobs, RetryWatermark(o, i)
      PROVE  \A j \in Jobs : Held(j) /\ Aside(j)
  <2> DEFINE x == row[i]
             y == [x EXCEPT !.status = "running", !.phase = "watermark",
                            !.wm = "queued", !.error = "none"]
  <2>1. row' = [row EXCEPT ![i] = y]
    BY <1>4 DEF RetryWatermark, TypeOK
  <2>2. y.status = "running" /\ y.owner = x.owner /\ y.phase = "watermark"
    BY <1>1 DEF Row
  <2>3. WmInv => Late(i)
    BY <1>4 DEF RetryWatermark, WmInv, WmJob
  <2> HIDE DEF y
  <2>4. QED
    BY <1>3, <2>1, <2>2, <2>3
<1>5. ASSUME NEW w \in wmTasks, WmStep(w)
      PROVE  \A j \in Jobs : Held(j) /\ Aside(j)
  <2> DEFINE x == row[w.job]
  <2>1. w.job \in Jobs /\ x \in Row
    BY <1>1 DEF TypeOK, WmTask
  <2>2. x.status # "absent"
    BY <2>1 DEF DataInv, RowOK, Row
  <2>3. WmInv => Late(w.job)
    BY <2>1 DEF WmInv, WmJob
  <2>4. ASSUME NEW y \in {[x EXCEPT !.phase = "watermark", !.wm = "running"],
                          WmFailed(x), WmFailed([x EXCEPT !.wm = "failed"]),
                          Complete(x, "completed"), Complete(x, "fallback")},
               row' = [row EXCEPT ![w.job] = y]
        PROVE  \A j \in Jobs : Held(j) /\ Aside(j)
    <3>1. /\ y.status \in {x.status, "failed", "completed"} /\ y.owner = x.owner
          /\ y.phase \in {"watermark", "done"}
      BY <2>1, <2>4 DEF WmFailed, Complete, Row
    <3> HIDE DEF x
    <3>2. QED
      BY <1>3, <2>1, <2>2, <2>3, <2>4, <3>1 DEF x
  <2>5. CASE WmTaskBegin(w)
    <3>1. \/ row' = [row EXCEPT ![w.job] = [x EXCEPT !.phase = "watermark", !.wm = "running"]]
          \/ row' = [row EXCEPT ![w.job] = WmFailed(x)]
      BY <2>1, <2>5 DEF WmTaskBegin, TypeOK
    <3>2. QED
      BY <2>4, <3>1
  <2>6. CASE WmTaskEnd(w)
    <3>1. \E y \in {Complete(x, "completed"), Complete(x, "fallback"),
                    WmFailed([x EXCEPT !.wm = "failed"])} : row' = [row EXCEPT ![w.job] = y]
      BY <2>1, <2>6 DEF WmTaskEnd, TypeOK
    <3>2. QED
      BY <2>4, <3>1
  <2>7. QED
    BY <1>5, <2>5, <2>6 DEF WmStep
<1>6. QED
  BY <1>2, <1>4, <1>5, HeldFresh DEF Request, CreateJob

\* A step of a run in its body.
InBody(r) ==
  \/ StartRun(r)
  \/ SubmitAccepted(r) \/ TokenFound(r) \/ PollGeneration(r) \/ ProgressDone(r)
  \/ PollCanceled(r) \/ FetchGeneration(r) \/ GenidDone(r) \/ PublishDone(r)
  \/ WatermarkBegin(r) \/ WatermarkDone(r) \/ WatermarkExhausted(r) \/ WatermarkGiveUp(r)
  \/ RunError(r) \/ RunTimeout(r)

LEMMA HeldByBody ==
  ASSUME TypeOK, DataInv, NEW r \in runs, InBody(r)
  PROVE  \A j \in Jobs : Held(j)
<1>1. Moves(r)
  BY StartRunMoves, SubmitMoves, PublishMoves, WatermarkMoves DEF InBody
<1>2. PICK y \in Row : Follows(r, y) /\ SetRow(r, y)
  BY <1>1 DEF Moves
<1>3. r.job \in Jobs /\ y.status # "absent" /\ y.owner = row[r.job].owner
  BY <1>2, RowFollows DEF Follows
<1>4. QED
  BY <1>2, <1>3, HeldSame DEF SetRow

LEMMA AheadInBody ==
  ASSUME TypeOK, NEW r \in runs, InBody(r)
  PROVE  Ahead(r)
BY AheadStart, AheadEarly, AheadWatermark DEF InBody

\* Every other step leaves the phases aside, and puts no run into its body.
LEMMA OtherSteps ==
  ASSUME TypeOK, DataInv, BlankInv, [Next]_vars, \A r \in runs : ~ InBody(r)
  PROVE  /\ \A j \in Jobs : Held(j) /\ Aside(j)
         /\ \A r \in runs' : r \in runs \/ r.pc \in After
<1>1. CASE (\E o \in Owners : Life(o) \/ LoopPass(o)) \/ Tick
  <2>1. ASSUME NEW o \in Owners, LoopPass(o)
        PROVE  \A r \in runs' : r \in runs \/ r.pc \in After
    BY <2>1 DEF LoopPass, After
  <2>2. QED
    BY <1>1, <2>1, HeldByProcess
    DEF Life, StartProcess, StopProcess, ExitProcess, Crash, Tick
<1>2. ASSUME NEW r \in runs, Step(r) \/ Heartbeat(r) \/ CancelRun(r)
      PROVE  /\ \A j \in Jobs : Held(j) /\ Aside(j)
             /\ \A s \in runs' : s \in runs \/ s.pc \in After
  <2>1. Heartbeat(r) \/ CancelRun(r) \/ EndRun(r) \/ OverloadDone(r)
    BY <1>2 DEF Step, InBody
  <2>2. r \in Run
    BY DEF TypeOK
  <2>3. \A s \in runs' : s \in runs \/ s.pc \in After
    BY <2>1, <2>2 DEF Heartbeat, CancelRun, EndRun, OverloadDone, MoveTo, Run, After
  <2>4. QED
    BY <2>1, <2>3, HeldByRun
<1>3. CASE \/ \E j \in Jobs : Request(j) \/ BudgetSpent(j)
           \/ \E w \in wmTasks : WmStep(w)
  <2>1. runs' = runs
    BY <1>3 DEF Request, CreateJob, CancelJob, RetryJob, RetryWatermark, BudgetSpent,
                WmStep, WmTaskBegin, WmTaskEnd
  <2>2. QED
    BY <1>3, <2>1, HeldByOther
<1>4. CASE UNCHANGED vars
  BY <1>4, HeldStill DEF vars
<1>5. QED
  BY <1>1, <1>2, <1>3, <1>4 DEF Next

LEMMA NextHeld ==
  ASSUME TypeOK, DataInv, BlankInv, [Next]_vars
  PROVE  BlankInv' /\ \A j \in Jobs : Held(j)
<1>1. \A j \in Jobs : Held(j)
  BY HeldByBody, OtherSteps
<1>2. QED
  BY <1>1 DEF BlankInv, Held

LEMMA InitBlank == Init => BlankInv
BY DEF Init, BlankInv

-----------------------------------------------------------------------------
(* Theorems *)

\* A valid lease ends early only in the finally block of a run of its holder, for
\* any number of processes, whoever stalls.
THEOREM OnlyHolderReleasesCorrect == Spec => OnlyHolderReleases
<1>1. TypeOK /\ DataInv /\ BlankInv /\ [Next]_vars =>
        /\ (TypeOK /\ DataInv /\ BlankInv)'
        /\ [\A j \in Jobs : Leased(j) /\ row'[j].owner = NoOwner =>
              \E r \in runs \ runs' : r.job = j /\ r.owner = row[j].owner]_vars
  BY NextData, NextHeld DEF Held
<1>2. QED
  BY <1>1, InitData, InitBlank, PTL DEF Spec, OnlyHolderReleases

\* Once the total time of a job is spent, no step of any run, however many there
\* are and whoever stalls, submits it or takes it into phase genid or publish.
THEOREM BudgetIsTotalCorrect == Spec => BudgetIsTotal
<1> DEFINE Within(j) ==
      row[j].budget = "spent" =>
        /\ row'[j].phase \in {"genid", "publish"} => row'[j].phase = row[j].phase
        /\ \A r \in runs' : r.job = j /\ r.pc = "submit" => r \in runs
<1>1. ASSUME TypeOK, NEW r \in runs, Ahead(r), NEW j \in Jobs
      PROVE  Within(j)
  <2>1. PICK y \in Row, q \in PCs :
          SetRow(r, y) /\ MoveTo(r, q) /\ Forward(row[r.job], r.pc, y, q)
    BY <1>1 DEF Ahead
  <2>2. r \in Run /\ r.job \in Jobs
    BY <1>1 DEF TypeOK, Run
  <2>3. row'[j] = IF j = r.job THEN y ELSE row[j]
    BY <1>1, <2>1, <2>2 DEF SetRow, TypeOK
  <2>4. \A s \in runs' : s \in runs \/ (s.job = r.job /\ s.pc = q)
    BY <2>1, <2>2 DEF MoveTo, Run
  <2>5. QED
    BY <2>1, <2>3, <2>4 DEF Forward
<1>2. ASSUME TypeOK, DataInv, BlankInv, [Next]_vars, NEW j \in Jobs
      PROVE  Within(j)
  <2>1. CASE \E r \in runs : InBody(r)
    BY <1>1, <1>2, <2>1, AheadInBody
  <2>2. CASE \A r \in runs : ~ InBody(r)
    BY <1>2, <2>2, OtherSteps DEF Aside, After
  <2>3. QED
    BY <2>1, <2>2
<1>3. TypeOK /\ DataInv /\ BlankInv /\ [Next]_vars =>
        (TypeOK /\ DataInv /\ BlankInv)' /\ [\A j \in Jobs : Within(j)]_vars
  BY <1>2, NextData, NextHeld
<1>4. QED
  BY <1>3, InitData, InitBlank, PTL DEF Spec, BudgetIsTotal

\* Every run stands in the phase of its row.
PhaseInv == \A r \in runs : InPhase(r.pc, row[r.job].phase)

LEMMA NextPhase ==
  ASSUME Stalling = {}, TypeOK, DataInv, LeaseInv, WmInv, BlankInv, PhaseInv, [Next]_vars
  PROVE  PhaseInv' /\ \A j \in Jobs : Rank(row[j].phase) <= Rank(row'[j].phase)
<1>1. \A j \in Jobs : row[j] \in Row /\ Rank(row[j].phase) \in 0 .. 5
  BY Ranks DEF TypeOK, Row
<1>2. ASSUME NEW r \in runs, InBody(r)
      PROVE  PhaseInv' /\ \A j \in Jobs : Rank(row[j].phase) <= Rank(row'[j].phase)
  <2>1. PICK y \in Row, q \in PCs :
          SetRow(r, y) /\ MoveTo(r, q) /\ Forward(row[r.job], r.pc, y, q)
    BY <1>2, AheadInBody DEF Ahead
  <2>2. r \in Run /\ r.job \in Jobs
    BY DEF TypeOK, Run
  <2>3. InPhase(q, y.phase) /\ Rank(row[r.job].phase) <= Rank(y.phase)
    BY <2>1 DEF Forward, PhaseInv
  <2>4. row'[r.job] = y /\ \A j \in Jobs : j # r.job => row'[j] = row[j]
    BY <2>1, <2>2 DEF SetRow, TypeOK
  <2>5. ASSUME NEW s \in runs'
        PROVE  InPhase(s.pc, row'[s.job].phase)
    <3>1. CASE s.job = r.job /\ s.pc = q
      BY <2>3, <2>4, <3>1
    <3>2. CASE s \in runs /\ s # r
      <4>1. s.job # r.job /\ s.job \in Jobs
        BY <3>2 DEF LeaseInv, SingleRun, TimelyRuns, TypeOK, Run
      <4>2. QED
        BY <2>4, <3>2, <4>1 DEF PhaseInv
    <3>3. QED
      BY <2>1, <2>2, <3>1, <3>2 DEF MoveTo, Run
  <2>6. \A j \in Jobs : Rank(row[j].phase) <= Rank(row'[j].phase)
    BY <1>1, <2>3, <2>4
  <2>7. QED
    BY <2>5, <2>6 DEF PhaseInv
<1>3. CASE \A r \in runs : ~ InBody(r)
  <2>1. /\ \A j \in Jobs : Aside(j)
        /\ \A r \in runs' : r \in runs \/ r.pc \in After
    BY <1>3, OtherSteps
  <2>2. \A p \in After : \A f : InPhase(p, f)
    BY DEF After, InPhase
  <2>3. ASSUME NEW s \in runs'
        PROVE  InPhase(s.pc, row'[s.job].phase)
    <3>1. CASE s \in runs /\ s.pc \notin After
      <4>1. s.job \in Jobs /\ ~ Late(s.job)
        BY <3>1 DEF TypeOK, Run, Late
      <4>2. row'[s.job].phase = row[s.job].phase
        BY <2>1, <4>1 DEF Aside
      <4>3. QED
        BY <3>1, <4>2 DEF PhaseInv
    <3>2. QED
      BY <2>1, <2>2, <3>1
  <2>4. \A j \in Jobs : Rank(row[j].phase) <= Rank(row'[j].phase)
    BY <1>1, <2>1, Ranks DEF Aside
  <2>5. QED
    BY <2>3, <2>4 DEF PhaseInv
<1>4. QED
  BY <1>2, <1>3

\* Where no process stalls, no retry, restart or late result takes a job back to an
\* earlier phase.
THEOREM PhaseNeverGoesBackCorrect ==
  ASSUME Stalling = {}
  PROVE  Spec => PhaseNeverGoesBack
<1>1. Init => LeaseInv /\ WmInv /\ PhaseInv
  BY DEF Init, LeaseInv, RunsAreLeased, SingleRun, TimelyRuns, WmInv, WmJob, Absent, PhaseInv
<1>2. /\ TypeOK /\ DataInv /\ LeaseInv /\ WmInv /\ BlankInv /\ PhaseInv
      /\ [Next]_vars
      => /\ (TypeOK /\ DataInv /\ LeaseInv /\ WmInv /\ BlankInv /\ PhaseInv)'
         /\ [\A j \in Jobs : Rank(row[j].phase) <= Rank(row'[j].phase)]_vars
  BY NextData, NextLease, NextWm, NextHeld, NextPhase
<1>3. QED
  BY <1>1, <1>2, InitData, InitBlank, PTL DEF Spec, PhaseNeverGoesBack

=============================================================================
