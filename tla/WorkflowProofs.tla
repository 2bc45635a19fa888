--------------------------- MODULE WorkflowProofs ---------------------------
(***************************************************************************)
(* Inductive invariants of the parts of the services that carry one job:   *)
(* the refresh of accounts, the submission, polling and publication of a   *)
(* video and the compatible jobs. Those of the others are in               *)
(* ServicesProofs, which puts all of them together. The name of a          *)
(* definition or lemma begins with the name of the part it is about.       *)
(***************************************************************************)
EXTENDS Services, FiniteSetTheorems, TLAPS

-----------------------------------------------------------------------------
(* The refresh of a group: SilentRefresh *)

\* The counts of a row are those of its task, and add up when it is over.
RefreshRowOK(r) ==
  /\ r.status = "absent" => r = Refresh!NoRow
  /\ r.processed = r.ok + r.bad /\ r.ok + r.bad <= r.total
  /\ r.status \in Refresh!Over => r.finished
  /\ r.status = "completed" => r.saved /\ r.processed = r.total

RefreshTaskOK(r, t) ==
  /\ t.pc = "none" => t = Refresh!NoTask
  /\ t.pc # "none" => r.status \in Refresh!Open /\ r.ok = t.ok /\ r.bad = t.bad
  /\ t.pc \in {"begin", "list"} => t.ok = 0 /\ t.bad = 0
  /\ t.pc \in {"next", "api", "browser"} => t.ok + t.bad <= t.total
  /\ t.pc \in {"api", "browser"} => t.ok + t.bad < t.total

\* A page follows a refresh that there is; one that was told the end has seen it.
RefreshStreamOK(s) ==
  /\ s.job # None => row[s.job].status # "absent"
  /\ s.told = "done" => s.job \in Refresh!Keys /\ Refresh!IsOver(s.job)
       /\ Refresh!Fingerprint(s.job) = s.seen

RefreshOneOpen == \A i, j \in Refresh!Keys : Refresh!IsOpen(i) /\ Refresh!IsOpen(j)
  /\ row[i].group = row[j].group => i = j

\* The inductive invariant. While the server runs what is open has a task.
RefreshIInv ==
  /\ up \in BOOLEAN /\ row \in [Refresh!Keys -> Refresh!Row]
  /\ task \in [Refresh!Keys -> Refresh!Task]
  /\ stream \in [Clients -> Refresh!Stream]
  /\ \A j \in Refresh!Keys : /\ RefreshRowOK(row[j]) /\ RefreshTaskOK(row[j], task[j])
                             /\ task[j].pc # "none" => up
                             /\ up /\ Refresh!IsOpen(j) => task[j].pc # "none"
  /\ RefreshOneOpen
  /\ \A c \in Clients : RefreshStreamOK(stream[c])

\* A row, a task and a page of no refresh.
LEMMA RefreshNothingIs ==
  /\ Refresh!NoRow \in Refresh!Row /\ RefreshRowOK(Refresh!NoRow)
  /\ Refresh!NoRow.status = "absent"
  /\ Refresh!NoTask \in Refresh!Task /\ RefreshTaskOK(Refresh!NoRow, Refresh!NoTask)
  /\ Refresh!NoTask.pc = "none"
  /\ Refresh!NoTask.ok = 0 /\ Refresh!NoTask.bad = 0 /\ Refresh!NoTask.total = 0
  /\ Refresh!NoStream \in Refresh!Stream /\ RefreshStreamOK(Refresh!NoStream)
BY DEF Refresh!NoRow, Refresh!Row, RefreshRowOK, Refresh!NoTask, Refresh!Task, RefreshTaskOK,
   Refresh!NoStream, Refresh!Stream, RefreshStreamOK, Refresh!Open, Refresh!Over

\* The invariant holds at first.
LEMMA RefreshInitIInv == ASSUME Refresh!Init PROVE RefreshIInv
<1>1. /\ row \in [Refresh!Keys -> Refresh!Row] /\ task \in [Refresh!Keys -> Refresh!Task]
      /\ stream \in [Clients -> Refresh!Stream]
      /\ \A j \in Refresh!Keys : row[j] = Refresh!NoRow /\ task[j] = Refresh!NoTask
      /\ \A c \in Clients : stream[c] = Refresh!NoStream
  BY RefreshNothingIs DEF Refresh!Init
<1>2. \A j \in Refresh!Keys : ~Refresh!IsOpen(j)
  BY <1>1, RefreshNothingIs DEF Refresh!IsOpen, Refresh!Open
<1>3. QED
  BY <1>1, <1>2, RefreshNothingIs DEF Refresh!Init, RefreshIInv, RefreshOneOpen

\* The row and the task of one refresh that is not over become others.
LEMMA RefreshMovesIInv ==
  ASSUME RefreshIInv, NEW j \in Refresh!Keys, ~Refresh!IsOver(j), NEW r \in Refresh!Row,
         NEW t \in Refresh!Task,
         r.status \in Refresh!Open \cup Refresh!Over, RefreshRowOK(r), RefreshTaskOK(r, t),
         t.pc # "none" => up, up /\ r.status \in Refresh!Open => t.pc # "none",
         r.status \in Refresh!Open => (Refresh!IsOpen(j) /\ r.group = row[j].group)
           \/ Refresh!OpenOf(r.group) = {},
         row' = [row EXCEPT ![j] = r], task' = [task EXCEPT ![j] = t],
         UNCHANGED <<up, stream>>
  PROVE  RefreshIInv'
<1>1. /\ row' \in [Refresh!Keys -> Refresh!Row] /\ task' \in [Refresh!Keys -> Refresh!Task]
      /\ row'[j] = r /\ task'[j] = t
      /\ \A i \in Refresh!Keys : i # j => row'[i] = row[i] /\ task'[i] = task[i]
  BY DEF RefreshIInv
<1>2. ASSUME NEW i \in Refresh!Keys
      PROVE  /\ RefreshRowOK(row'[i]) /\ RefreshTaskOK(row'[i], task'[i])
             /\ task'[i].pc # "none" => up
             /\ up /\ row'[i].status \in Refresh!Open => task'[i].pc # "none"
  BY <1>1 DEF RefreshIInv, Refresh!IsOpen
<1>3. ASSUME NEW i \in Refresh!Keys, NEW k \in Refresh!Keys, i # k,
             row'[i].status \in Refresh!Open, row'[k].status \in Refresh!Open,
             row'[i].group = row'[k].group
      PROVE  FALSE
  <2>1. CASE i # j /\ k # j
    BY <1>1, <1>3, <2>1 DEF RefreshIInv, RefreshOneOpen, Refresh!IsOpen
  <2>2. CASE i = j
    <3>1. row[k].status \in Refresh!Open /\ row[k].group = r.group /\ r.status \in Refresh!Open
      BY <1>1, <1>3, <2>2
    <3>2. k \in Refresh!OpenOf(r.group)
      BY <3>1 DEF Refresh!OpenOf, Refresh!IsOpen
    <3>3. QED
      BY <1>3, <2>2, <3>1, <3>2 DEF RefreshIInv, RefreshOneOpen, Refresh!IsOpen
  <2>3. CASE k = j
    <3>1. row[i].status \in Refresh!Open /\ row[i].group = r.group /\ r.status \in Refresh!Open
      BY <1>1, <1>3, <2>3
    <3>2. i \in Refresh!OpenOf(r.group)
      BY <3>1 DEF Refresh!OpenOf, Refresh!IsOpen
    <3>3. QED
      BY <1>3, <2>3, <3>1, <3>2 DEF RefreshIInv, RefreshOneOpen, Refresh!IsOpen
  <2>4. QED
    BY <2>1, <2>2, <2>3
<1>4. ASSUME NEW c \in Clients
      PROVE  RefreshStreamOK(stream[c])'
  <2>1. RefreshStreamOK(stream[c])
    BY DEF RefreshIInv
  <2>2. r.status # "absent" /\ stream[c]' = stream[c]
    BY DEF Refresh!Open, Refresh!Over
  <2>3. stream[c].job # None => row'[stream[c].job].status # "absent"
    <3>1. stream[c].job # None => stream[c].job \in Refresh!Keys
      BY DEF RefreshIInv, Refresh!Stream
    <3>2. QED
      BY <1>1, <2>1, <2>2, <3>1 DEF RefreshStreamOK
  <2>4. QED
    BY <1>1, <2>1, <2>2, <2>3 DEF RefreshStreamOK, Refresh!IsOver, Refresh!Fingerprint
<1>5. RefreshOneOpen'
  BY <1>3 DEF RefreshOneOpen, Refresh!IsOpen
<1>6. QED
  BY <1>1, <1>2, <1>4, <1>5 DEF RefreshIInv, Refresh!IsOpen

\* Ask keeps the invariant.
LEMMA RefreshAskIInv == ASSUME RefreshIInv, NEW g \in Groups, Refresh!Ask(g) PROVE RefreshIInv'
<1>1. PICK j \in Refresh!Keys :
        /\ row[j] = Refresh!NoRow
        /\ row' = [row EXCEPT ![j] = [Refresh!NoRow EXCEPT !.group = g, !.status = "queued"]]
        /\ task' = [task EXCEPT ![j].pc = "begin"]
  BY DEF Refresh!Ask
<1> DEFINE r == [Refresh!NoRow EXCEPT !.group = g, !.status = "queued"]
           t == [Refresh!NoTask EXCEPT !.pc = "begin"]
<1>2. ~Refresh!IsOver(j) /\ ~Refresh!IsOpen(j)
  BY <1>1, RefreshNothingIs DEF Refresh!IsOver, Refresh!IsOpen, Refresh!Over, Refresh!Open
<1>3. task[j] = Refresh!NoTask
  BY <1>2 DEF RefreshIInv, RefreshTaskOK, Refresh!IsOpen
<1>4. r \in Refresh!Row /\ RefreshRowOK(r) /\ r.status = "queued" /\ r.group = g
  <2>1. /\ r \in Refresh!Row /\ r.status = "queued" /\ r.group = g
        /\ r.processed = 0 /\ r.ok = 0 /\ r.bad = 0 /\ r.total = 0
    BY DEF Refresh!NoRow, Refresh!Row, Refresh!Open, Refresh!Over
  <2> HIDE DEF r
  <2>2. QED
    BY <2>1 DEF RefreshRowOK, Refresh!Over
<1>5. t \in Refresh!Task /\ RefreshTaskOK(r, t) /\ t.pc = "begin"
  BY DEF Refresh!NoRow, Refresh!NoTask, Refresh!Task, RefreshTaskOK, Refresh!Open
<1>6. up /\ Refresh!OpenOf(g) = {} /\ UNCHANGED <<up, stream>>
  BY DEF Refresh!Ask
<1>7. task' = [task EXCEPT ![j] = t]
  BY <1>1, <1>3
<1>8. QED
  <2> HIDE DEF r, t
  <2>1. row' = [row EXCEPT ![j] = r]
    BY <1>1 DEF r
  <2>2. r.status \in Refresh!Open \cup Refresh!Over
    BY <1>4 DEF Refresh!Open
  <2>3. QED
    BY <1>2, <1>4, <1>5, <1>6, <1>7, <2>1, <2>2, RefreshMovesIInv

\* What is known of a refresh that has a task.
LEMMA RefreshWorkedOn ==
  ASSUME RefreshIInv, NEW j \in Refresh!Keys, task[j].pc # "none"
  PROVE  /\ row[j] \in Refresh!Row /\ RefreshRowOK(row[j]) /\ task[j] \in Refresh!Task
         /\ RefreshTaskOK(row[j], task[j])
         /\ up /\ Refresh!IsOpen(j) /\ ~Refresh!IsOver(j)
         /\ row[j].ok = task[j].ok /\ row[j].bad = task[j].bad
         /\ task[j].ok \in Nat /\ task[j].bad \in Nat /\ task[j].total \in Nat
<1>1. /\ row[j] \in Refresh!Row /\ RefreshRowOK(row[j]) /\ task[j] \in Refresh!Task
      /\ RefreshTaskOK(row[j], task[j]) /\ up
  BY DEF RefreshIInv
<1>2. row[j].status \in Refresh!Open /\ row[j].ok = task[j].ok /\ row[j].bad = task[j].bad
  BY <1>1 DEF RefreshTaskOK
<1>3. Refresh!IsOpen(j) /\ ~Refresh!IsOver(j)
  BY <1>2 DEF Refresh!IsOpen, Refresh!IsOver, Refresh!Open, Refresh!Over
<1>4. task[j].ok \in Nat /\ task[j].bad \in Nat /\ task[j].total \in Nat
  BY <1>1 DEF Refresh!Task
<1>5. QED
  BY <1>1, <1>2, <1>3, <1>4

\* A task goes on and reports its counts.
LEMMA RefreshReportsIInv ==
  ASSUME RefreshIInv, NEW j \in Refresh!Keys, task[j].pc # "none",
         NEW t \in Refresh!Task, t.pc \in {"next", "api", "browser"}, t.ok + t.bad <= t.total,
         NEW n \in Refresh!Task, n.pc \in {"next", "api", "browser"},
         n.ok = t.ok, n.bad = t.bad, n.total = t.total,
         n.pc # "next" => n.ok + n.bad < n.total,
         row' = [row EXCEPT ![j] = Refresh!Reported(@, t, "running")],
         task' = [task EXCEPT ![j] = n],
         UNCHANGED <<up, stream>>
  PROVE  RefreshIInv'
<1> DEFINE r == Refresh!Reported(row[j], t, "running")
<1>1. /\ row[j] \in Refresh!Row /\ row \in [Refresh!Keys -> Refresh!Row] /\ up
      /\ Refresh!IsOpen(j) /\ ~Refresh!IsOver(j)
  BY RefreshWorkedOn DEF RefreshIInv
<1>2. t.ok \in Nat /\ t.bad \in Nat /\ t.total \in Nat /\ t.ok + t.bad \in Nat
  BY DEF Refresh!Task
<1>3. /\ r \in Refresh!Row /\ r.status = "running" /\ r.ok = t.ok /\ r.bad = t.bad
      /\ r.total = t.total /\ r.processed = t.ok + t.bad /\ r.group = row[j].group
  BY <1>1, <1>2 DEF Refresh!Reported, Refresh!Row, Refresh!Open, Refresh!Over
<1>4. row' = [row EXCEPT ![j] = r]
  BY <1>1
<1> HIDE DEF r
<1>5. RefreshRowOK(r)
  BY <1>2, <1>3 DEF RefreshRowOK, Refresh!Over
<1>6. RefreshTaskOK(r, n)
  BY <1>2, <1>3 DEF RefreshTaskOK, Refresh!Open
<1>7. r.status \in Refresh!Open /\ n.pc # "none"
  BY <1>3 DEF Refresh!Open
<1>8. QED
  BY <1>1, <1>3, <1>4, <1>5, <1>6, <1>7, RefreshMovesIInv

\* Begin keeps the invariant.
LEMMA RefreshBeginIInv ==
  ASSUME RefreshIInv, NEW j \in Refresh!Keys, Refresh!Begin(j)
  PROVE  RefreshIInv'
<1> DEFINE r == [row[j] EXCEPT !.status = "running"]
           t == [task[j] EXCEPT !.pc = "list"]
<1>1. task[j].pc = "begin" /\ row \in [Refresh!Keys -> Refresh!Row] /\ UNCHANGED <<up, stream>>
  BY DEF Refresh!Begin, RefreshIInv
<1>2. /\ row[j] \in Refresh!Row /\ row[j].status \in Refresh!Open /\ up /\ Refresh!IsOpen(j)
      /\ ~Refresh!IsOver(j)
  BY <1>1, RefreshWorkedOn DEF Refresh!IsOpen
<1>3. /\ r \in Refresh!Row /\ r.status = "running" /\ r.group = row[j].group
      /\ r.processed = row[j].processed /\ r.ok = row[j].ok /\ r.bad = row[j].bad
      /\ r.total = row[j].total
  BY <1>2 DEF Refresh!Row, Refresh!Open, Refresh!Over
<1>4. /\ t \in Refresh!Task /\ t.pc = "list" /\ t.ok = task[j].ok /\ t.bad = task[j].bad
  BY <1>1, RefreshWorkedOn DEF Refresh!Task
<1>5. row' = [row EXCEPT ![j] = r] /\ task' = [task EXCEPT ![j] = t]
  BY DEF Refresh!Begin
<1> HIDE DEF r, t
<1>6. RefreshRowOK(r)
  BY <1>1, <1>3, RefreshWorkedOn DEF RefreshRowOK, Refresh!Over
<1>7. RefreshTaskOK(r, t)
  BY <1>1, <1>3, <1>4, RefreshWorkedOn DEF RefreshTaskOK, Refresh!Open
<1>8. r.status \in Refresh!Open /\ t.pc # "none"
  BY <1>3, <1>4 DEF Refresh!Open
<1>9. QED
  BY <1>1, <1>2, <1>3, <1>4, <1>5, <1>6, <1>7, <1>8, RefreshMovesIInv

\* List keeps the invariant.
LEMMA RefreshListIInv ==
  ASSUME Refresh!Constants, RefreshIInv, NEW j \in Refresh!Keys, Refresh!List(j)
  PROVE  RefreshIInv'
<1>1. PICK n \in 0 .. MaxWindows :
        /\ task' = [task EXCEPT ![j] = [task[j] EXCEPT !.pc = "next", !.total = n]]
        /\ row' = [row EXCEPT ![j] = Refresh!Reported(@,
             [task[j] EXCEPT !.pc = "next", !.total = n], "running")]
  BY DEF Refresh!List
<1> DEFINE t == [task[j] EXCEPT !.pc = "next", !.total = n]
<1>2. task[j].pc = "list" /\ UNCHANGED <<up, stream>> /\ n \in Nat
  BY <1>1 DEF Refresh!List, Refresh!Constants
<1>3. task[j] \in Refresh!Task /\ task[j].ok = 0 /\ task[j].bad = 0
  BY <1>2, RefreshWorkedOn DEF RefreshTaskOK
<1>4. t \in Refresh!Task /\ t.pc = "next" /\ t.ok = 0 /\ t.bad = 0 /\ t.total = n
  BY <1>2, <1>3 DEF Refresh!Task
<1> HIDE DEF t
<1>5. /\ task' = [task EXCEPT ![j] = t]
      /\ row' = [row EXCEPT ![j] = Refresh!Reported(@, t, "running")]
  BY <1>1 DEF t
<1>6. t.ok + t.bad <= t.total
  BY <1>2, <1>4
<1>7. QED
  BY <1>2, <1>4, <1>5, <1>6, RefreshReportsIInv

\* NextWindow keeps the invariant.
LEMMA RefreshNextWindowIInv ==
  ASSUME RefreshIInv, NEW j \in Refresh!Keys, Refresh!NextWindow(j)
  PROVE  RefreshIInv'
<1>1. PICK at \in {"api", "browser"} : task' = [task EXCEPT ![j].pc = at]
  BY DEF Refresh!NextWindow
<1> DEFINE n == [task[j] EXCEPT !.pc = at]
<1>2. /\ task[j].pc = "next" /\ task[j].ok + task[j].bad < task[j].total
      /\ row' = [row EXCEPT ![j] = Refresh!Reported(@, task[j], "running")]
      /\ UNCHANGED <<up, stream>>
  BY DEF Refresh!NextWindow
<1>3. /\ task[j] \in Refresh!Task /\ task[j].ok \in Nat /\ task[j].bad \in Nat
      /\ task[j].total \in Nat
  BY <1>2, RefreshWorkedOn
<1>4. /\ n \in Refresh!Task /\ n.pc = at /\ n.ok = task[j].ok /\ n.bad = task[j].bad
      /\ n.total = task[j].total
  BY <1>3 DEF Refresh!Task
<1>5. task' = [task EXCEPT ![j] = n]
  BY <1>1
<1> HIDE DEF n
<1>6. task[j].ok + task[j].bad <= task[j].total /\ n.ok + n.bad < n.total
  BY <1>2, <1>3, <1>4
<1>7. QED
  BY <1>2, <1>3, <1>4, <1>5, <1>6, RefreshReportsIInv

\* FallBack keeps the invariant.
LEMMA RefreshFallBackIInv ==
  ASSUME RefreshIInv, NEW j \in Refresh!Keys, Refresh!FallBack(j)
  PROVE  RefreshIInv'
<1> DEFINE t == [task[j] EXCEPT !.pc = "browser"]
<1>1. task[j].pc = "api" /\ task' = [task EXCEPT ![j] = t] /\ UNCHANGED <<up, row, stream>>
  BY DEF Refresh!FallBack
<1>2. row[j] \in Refresh!Row /\ RefreshRowOK(row[j]) /\ task[j] \in Refresh!Task
        /\ RefreshTaskOK(row[j], task[j])
      /\ up /\ Refresh!IsOpen(j) /\ ~Refresh!IsOver(j)
  BY <1>1, RefreshWorkedOn
<1>3. /\ t \in Refresh!Task /\ t.pc = "browser" /\ t.ok = task[j].ok /\ t.bad = task[j].bad
      /\ t.total = task[j].total
  BY <1>2 DEF Refresh!Task
<1>4. row' = [row EXCEPT ![j] = row[j]] /\ row[j].status \in Refresh!Open \cup Refresh!Over
  BY <1>1, <1>2 DEF RefreshIInv, Refresh!IsOpen
<1> HIDE DEF t
<1>5. RefreshTaskOK(row[j], t)
  BY <1>1, <1>2, <1>3 DEF RefreshTaskOK
<1>6. QED
  BY <1>1, <1>2, <1>3, <1>4, <1>5, RefreshMovesIInv

\* WindowDone keeps the invariant.
LEMMA RefreshWindowDoneIInv ==
  ASSUME RefreshIInv, NEW j \in Refresh!Keys, Refresh!WindowDone(j)
  PROVE  RefreshIInv'
<1>1. /\ task[j].pc \in {"api", "browser"} /\ UNCHANGED <<up, stream>>
  BY DEF Refresh!WindowDone
<1>2. /\ task[j] \in Refresh!Task /\ task[j].ok \in Nat /\ task[j].bad \in Nat
      /\ task[j].total \in Nat
      /\ task[j].ok + task[j].bad < task[j].total
  BY <1>1, RefreshWorkedOn DEF RefreshTaskOK
<1>3. PICK t \in {[task[j] EXCEPT !.pc = "next", !.ok = @ + 1],
                  [task[j] EXCEPT !.pc = "next", !.bad = @ + 1]} :
        /\ task' = [task EXCEPT ![j] = t]
        /\ row' = [row EXCEPT ![j] = Refresh!Reported(@, t, "running")]
  BY DEF Refresh!WindowDone
<1>4. t \in Refresh!Task /\ t.pc = "next" /\ t.ok + t.bad <= t.total
  <2>1. CASE t = [task[j] EXCEPT !.pc = "next", !.ok = @ + 1]
    <3>0. task[j].ok + 1 \in Nat
      BY <1>2
    <3>1. /\ t \in Refresh!Task /\ t.pc = "next" /\ t.ok = task[j].ok + 1 /\ t.bad = task[j].bad
          /\ t.total = task[j].total
      BY <1>2, <2>1, <3>0 DEF Refresh!Task
    <3>2. QED
      BY <1>2, <3>1
  <2>2. CASE t = [task[j] EXCEPT !.pc = "next", !.bad = @ + 1]
    <3>0. task[j].bad + 1 \in Nat
      BY <1>2
    <3>1. /\ t \in Refresh!Task /\ t.pc = "next" /\ t.ok = task[j].ok /\ t.bad = task[j].bad + 1
          /\ t.total = task[j].total
      BY <1>2, <2>2, <3>0 DEF Refresh!Task
    <3>2. QED
      BY <1>2, <3>1
  <2>3. QED
    BY <1>3, <2>1, <2>2
<1>5. QED
  BY <1>1, <1>3, <1>4, RefreshReportsIInv

\* A refresh ends and its task with it.
LEMMA RefreshEndsIInv ==
  ASSUME RefreshIInv, NEW j \in Refresh!Keys, task[j].pc # "none", NEW r \in Refresh!Row,
         RefreshRowOK(r), r.status \in Refresh!Over,
         row' = [row EXCEPT ![j] = r], task' = [task EXCEPT ![j] = Refresh!NoTask],
         UNCHANGED <<up, stream>>
  PROVE  RefreshIInv'
<1>1. ~Refresh!IsOver(j)
  BY RefreshWorkedOn
<1>2. /\ RefreshTaskOK(r, Refresh!NoTask) /\ Refresh!NoTask \in Refresh!Task
      /\ Refresh!NoTask.pc = "none" /\ r.status \notin Refresh!Open
  BY RefreshNothingIs DEF RefreshTaskOK, Refresh!Open, Refresh!Over
<1>3. QED
  BY <1>1, <1>2, RefreshMovesIInv

\* Complete keeps the invariant.
LEMMA RefreshCompleteIInv ==
  ASSUME RefreshIInv, NEW j \in Refresh!Keys, Refresh!Complete(j)
  PROVE  RefreshIInv'
<1> DEFINE r == [Refresh!Reported(row[j], task[j], "completed") EXCEPT
                   !.processed = task[j].total, !.saved = TRUE, !.finished = TRUE]
<1>1. /\ task[j].pc = "next" /\ task[j].ok + task[j].bad = task[j].total
      /\ task' = [task EXCEPT ![j] = Refresh!NoTask] /\ UNCHANGED <<up, stream>>
  BY DEF Refresh!Complete
<1>2. /\ row[j] \in Refresh!Row /\ task[j].ok \in Nat /\ task[j].bad \in Nat
      /\ task[j].total \in Nat
      /\ row \in [Refresh!Keys -> Refresh!Row]
  BY <1>1, RefreshWorkedOn DEF RefreshIInv
<1>3. /\ r \in Refresh!Row /\ r.status = "completed" /\ r.processed = task[j].total
      /\ r.ok = task[j].ok /\ r.bad = task[j].bad /\ r.total = task[j].total
      /\ r.saved = TRUE /\ r.finished = TRUE
  BY <1>1, <1>2 DEF Refresh!Reported, Refresh!Row, Refresh!Over
<1>4. row' = [row EXCEPT ![j] = r]
  BY <1>2 DEF Refresh!Complete
<1> HIDE DEF r
<1>5. RefreshRowOK(r) /\ r.status \in Refresh!Over
  BY <1>1, <1>2, <1>3 DEF RefreshRowOK, Refresh!Over
<1>6. QED
  BY <1>1, <1>3, <1>4, <1>5, RefreshEndsIInv

\* Fail keeps the invariant.
LEMMA RefreshFailIInv ==
  ASSUME RefreshIInv, NEW j \in Refresh!Keys, Refresh!Fail(j)
  PROVE  RefreshIInv'
<1> DEFINE r == [row[j] EXCEPT !.status = "failed", !.finished = TRUE]
<1>1. /\ task[j].pc # "none" /\ task' = [task EXCEPT ![j] = Refresh!NoTask]
      /\ UNCHANGED <<up, stream>>
  BY DEF Refresh!Fail
<1>2. row[j] \in Refresh!Row /\ RefreshRowOK(row[j]) /\ row \in [Refresh!Keys -> Refresh!Row]
  BY <1>1, RefreshWorkedOn DEF RefreshIInv
<1>3. /\ r \in Refresh!Row /\ r.status = "failed" /\ r.processed = row[j].processed
      /\ r.ok = row[j].ok /\ r.bad = row[j].bad /\ r.total = row[j].total /\ r.finished = TRUE
  BY <1>2 DEF Refresh!Row, Refresh!Over
<1>4. row' = [row EXCEPT ![j] = r]
  BY <1>2 DEF Refresh!Fail
<1> HIDE DEF r
<1>5. RefreshRowOK(r) /\ r.status \in Refresh!Over
  BY <1>2, <1>3 DEF RefreshRowOK, Refresh!Over
<1>6. QED
  BY <1>1, <1>3, <1>4, <1>5, RefreshEndsIInv

-----------------------------------------------------------------------------
(* The streams, and a restart *)

\* A page follows another refresh, or sees more of the one it follows.
LEMMA RefreshStreamIInv ==
  ASSUME RefreshIInv, NEW c \in Clients, NEW s \in Refresh!Stream, RefreshStreamOK(s),
         stream' = [stream EXCEPT ![c] = s], UNCHANGED <<up, row, task>>
  PROVE  RefreshIInv'
<1>1. stream' \in [Clients -> Refresh!Stream]
  BY DEF RefreshIInv
<1>2. ASSUME NEW d \in Clients
      PROVE  RefreshStreamOK(stream[d])'
  <2>1. RefreshStreamOK(stream'[d])
    BY DEF RefreshIInv
  <2>2. QED
    BY <2>1 DEF RefreshStreamOK, Refresh!IsOver, Refresh!Fingerprint
<1>3. QED
  BY <1>1, <1>2 DEF RefreshIInv, Refresh!IsOpen, RefreshOneOpen

\* What a page can have seen of a refresh.
LEMMA RefreshFingerprintIs ==
  ASSUME RefreshIInv, NEW j \in Refresh!Keys, row[j] # Refresh!NoRow
  PROVE  Refresh!Fingerprint(j) \in Refresh!Views
<1>1. row[j] \in Refresh!Row /\ row[j].status # "absent"
  BY DEF RefreshIInv, RefreshRowOK
<1>2. QED
  BY <1>1 DEF Refresh!Fingerprint, Refresh!Views, Refresh!Row

\* What a page does keeps the invariant.
LEMMA RefreshPagesIInv ==
  ASSUME RefreshIInv, NEW c \in Clients,
         Refresh!Poll(c) \/ Refresh!Leave(c) \/ \E j \in Refresh!Keys : Refresh!Follow(c, j)
  PROVE  RefreshIInv'
<1>1. ASSUME NEW j \in Refresh!Keys, Refresh!Follow(c, j)
      PROVE  RefreshIInv'
  <2> DEFINE s == [job |-> j, seen |-> Refresh!Fingerprint(j),
                   told |-> IF Refresh!IsOver(j) THEN "done" ELSE "snapshot"]
  <2>1. /\ stream' = [stream EXCEPT ![c] = s] /\ row[j] # Refresh!NoRow
        /\ UNCHANGED <<up, row, task>>
    BY <1>1 DEF Refresh!Follow
  <2>2. row[j].status # "absent"
    BY <2>1 DEF RefreshIInv, RefreshRowOK
  <2>3. s \in Refresh!Stream
    BY <2>1, RefreshFingerprintIs DEF Refresh!Stream
  <2>4. RefreshStreamOK(s)
    BY <2>2 DEF RefreshStreamOK
  <2>5. QED
    <3> HIDE DEF s
    <3> QED
      BY <2>1, <2>3, <2>4, RefreshStreamIInv
<1>2. CASE Refresh!Poll(c)
  <2> DEFINE j == stream[c].job
             s == [stream[c] EXCEPT !.seen = Refresh!Fingerprint(j),
                                    !.told = IF Refresh!IsOver(j) THEN "done" ELSE "progress"]
  <2>1. /\ stream' = [stream EXCEPT ![c] = s] /\ stream[c] \in Refresh!Stream /\ j # None
        /\ stream[c].told # "done" /\ UNCHANGED <<up, row, task>>
    BY <1>2 DEF Refresh!Poll, Refresh!Live, RefreshIInv
  <2>2. j \in Refresh!Keys
    BY <2>1 DEF Refresh!Stream
  <2>3. row[j].status # "absent" /\ row[j] # Refresh!NoRow
    BY <2>1, <2>2, RefreshNothingIs DEF RefreshIInv, RefreshStreamOK
  <2>4. s \in Refresh!Stream /\ RefreshStreamOK(s)
    <3>1. Refresh!Fingerprint(j) \in Refresh!Views
      BY <2>2, <2>3, RefreshFingerprintIs
    <3>2. s.job = j /\ s.seen = Refresh!Fingerprint(j) /\ s.told = IF Refresh!IsOver(j)
            THEN "done" ELSE "progress"
      BY <2>1 DEF Refresh!Stream
    <3>3. s \in Refresh!Stream
      BY <2>1, <3>1 DEF Refresh!Stream
    <3> HIDE DEF s
    <3>4. RefreshStreamOK(s)
      BY <2>2, <2>3, <3>2 DEF RefreshStreamOK
    <3>5. QED
      BY <3>3, <3>4
  <2>5. QED
    <3> HIDE DEF s
    <3> QED
      BY <2>1, <2>4, RefreshStreamIInv
<1>3. CASE Refresh!Leave(c)
  BY <1>3, RefreshNothingIs, RefreshStreamIInv DEF Refresh!Leave
<1>4. QED
  BY <1>1, <1>2, <1>3

\* Stop keeps the invariant.
LEMMA RefreshStopIInv == ASSUME RefreshIInv, Refresh!Stop PROVE RefreshIInv'
<1>1. /\ up' = FALSE /\ row' = row
      /\ task' \in [Refresh!Keys -> Refresh!Task]
           /\ \A j \in Refresh!Keys : task'[j] = Refresh!NoTask
  BY RefreshNothingIs DEF Refresh!Stop
<1>2. /\ stream' \in [Clients -> Refresh!Stream]
      /\ \A c \in Clients : stream'[c] = Refresh!NoStream \/ stream'[c] = stream[c]
  BY RefreshNothingIs DEF Refresh!Stop, RefreshIInv
<1>3. ASSUME NEW c \in Clients
      PROVE  RefreshStreamOK(stream[c])'
  <2>1. RefreshStreamOK(stream'[c])
    BY <1>2, RefreshNothingIs DEF RefreshIInv
  <2>2. QED
    BY <1>1, <2>1 DEF RefreshStreamOK, Refresh!IsOver, Refresh!Fingerprint
<1>4. \A j \in Refresh!Keys : RefreshTaskOK(row[j], Refresh!NoTask)
  BY RefreshNothingIs DEF RefreshTaskOK
<1>5. QED
  BY <1>1, <1>2, <1>3, <1>4, RefreshNothingIs DEF RefreshIInv, Refresh!IsOpen, RefreshOneOpen

\* Start keeps the invariant.
LEMMA RefreshStartIInv == ASSUME RefreshIInv, Refresh!Start PROVE RefreshIInv'
<1>1. /\ up' = TRUE /\ task' = task /\ stream' = stream /\ ~up
      /\ \A j \in Refresh!Keys : task[j] = Refresh!NoTask
  BY DEF Refresh!Start, RefreshIInv, RefreshTaskOK
<1>2. ASSUME NEW j \in Refresh!Keys
      PROVE  /\ row'[j] \in Refresh!Row /\ RefreshRowOK(row'[j])
             /\ row'[j].status \notin Refresh!Open
             /\ Refresh!IsOver(j) => row'[j] = row[j]
             /\ row[j].status # "absent" => row'[j].status # "absent"
  <2>1. row[j] \in Refresh!Row /\ RefreshRowOK(row[j])
    BY DEF RefreshIInv
  <2>2. CASE Refresh!IsOpen(j)
    <3>1. row'[j] = [row[j] EXCEPT !.status = "failed", !.finished = TRUE]
      BY <2>2 DEF Refresh!Start
    <3>2. /\ row'[j] \in Refresh!Row /\ row'[j].status = "failed"
          /\ row'[j].processed = row[j].processed
          /\ row'[j].ok = row[j].ok /\ row'[j].bad = row[j].bad /\ row'[j].total = row[j].total
          /\ row'[j].finished = TRUE
      BY <2>1, <3>1 DEF Refresh!Row, Refresh!Over
    <3>3. RefreshRowOK(row'[j])
      BY <2>1, <3>2 DEF RefreshRowOK
    <3>4. QED
      BY <2>2, <3>2, <3>3 DEF Refresh!IsOpen, Refresh!IsOver, Refresh!Open, Refresh!Over
  <2>3. CASE ~Refresh!IsOpen(j)
    BY <2>1, <2>3 DEF Refresh!Start, Refresh!IsOpen
  <2>4. QED
    BY <2>2, <2>3
<1>3. row' \in [Refresh!Keys -> Refresh!Row]
  BY <1>2 DEF Refresh!Start
<1>4. ASSUME NEW c \in Clients
      PROVE  RefreshStreamOK(stream[c])'
  <2>1. RefreshStreamOK(stream[c]) /\ (stream[c].job # None => stream[c].job \in Refresh!Keys)
    BY DEF RefreshIInv, Refresh!Stream
  <2>2. QED
    BY <1>1, <1>2, <2>1 DEF RefreshStreamOK, Refresh!IsOver, Refresh!Fingerprint
<1>5. \A j \in Refresh!Keys : RefreshTaskOK(row'[j], Refresh!NoTask)
  BY RefreshNothingIs DEF RefreshTaskOK
<1>6. QED
  BY <1>1, <1>2, <1>3, <1>4, <1>5, RefreshNothingIs
     DEF RefreshIInv, Refresh!IsOpen, RefreshOneOpen

\* Every step keeps the invariant.
LEMMA RefreshNextIInv ==
  ASSUME Refresh!Constants, RefreshIInv, [Refresh!Next]_(Refresh!vars)
  PROVE  RefreshIInv'
<1>1. CASE UNCHANGED Refresh!vars
  <2>1. \A c \in Clients : RefreshStreamOK(stream[c])'
    BY <1>1 DEF Refresh!vars, RefreshIInv, RefreshStreamOK, Refresh!IsOver, Refresh!Fingerprint
  <2>2. QED
    BY <1>1, <2>1 DEF Refresh!vars, RefreshIInv, Refresh!IsOpen, RefreshOneOpen
<1>2. QED
  BY <1>1, RefreshAskIInv, RefreshBeginIInv, RefreshListIInv, RefreshNextWindowIInv,
     RefreshFallBackIInv, RefreshWindowDoneIInv, RefreshCompleteIInv,
     RefreshFailIInv, RefreshPagesIInv, RefreshStopIInv, RefreshStartIInv
       DEF Refresh!Next, Refresh!Step

-----------------------------------------------------------------------------
(* What the invariant says *)

\* What the invariant says of the properties.
LEMMA RefreshFacts ==
  ASSUME RefreshIInv
  PROVE  Refresh!TypeOK /\ Refresh!OneWorkedOn /\ Refresh!ToldTheEnd
<1>1. Refresh!TypeOK
  BY DEF RefreshIInv, Refresh!TypeOK
<1>2. Refresh!OneWorkedOn
  <2>1. ASSUME NEW i \in Refresh!Keys, NEW j \in Refresh!Keys, row[i].group = row[j].group,
               task[i].pc # "none", task[j].pc # "none"
        PROVE  i = j
    BY <2>1, RefreshWorkedOn DEF RefreshIInv, RefreshOneOpen
  <2>2. QED
    BY <2>1 DEF RefreshIInv, Refresh!OneWorkedOn, Refresh!OpenOf
<1>3. ASSUME NEW c \in Clients, stream[c].told = "done"
      PROVE  LET r == row[stream[c].job] IN
             /\ Refresh!Fingerprint(stream[c].job) = stream[c].seen /\ r.finished
             /\ r.ok + r.bad <= r.total
             /\ r.status = "completed" => r.saved /\ r.processed = r.total
                  /\ r.ok + r.bad = r.total
  <2>1. /\ stream[c].job \in Refresh!Keys /\ Refresh!IsOver(stream[c].job)
        /\ Refresh!Fingerprint(stream[c].job) = stream[c].seen
    BY <1>3 DEF RefreshIInv, RefreshStreamOK
  <2>2. RefreshRowOK(row[stream[c].job])
    BY <2>1 DEF RefreshIInv
  <2>3. QED
    BY <2>1, <2>2 DEF RefreshRowOK, Refresh!IsOver
<1>4. QED
  BY <1>1, <1>2, <1>3 DEF Refresh!ToldTheEnd

\* The counts of a row only grow, and a row that is over stays as it is.
LEMMA RefreshNextGrows ==
  ASSUME Refresh!Constants, RefreshIInv, Refresh!Next, NEW j \in Refresh!Keys
  PROVE  /\ row'[j].processed >= row[j].processed
         /\ row'[j].ok >= row[j].ok /\ row'[j].bad >= row[j].bad
         /\ Refresh!IsOver(j) => row'[j] = row[j]
<1> DEFINE Grows(r) == /\ r.processed >= row[j].processed
                       /\ r.ok >= row[j].ok /\ r.bad >= row[j].bad
                       /\ Refresh!IsOver(j) => r = row[j]
<1>1. /\ row[j] \in Refresh!Row /\ row \in [Refresh!Keys -> Refresh!Row] /\ RefreshRowOK(row[j])
      /\ row[j].processed \in Nat /\ row[j].ok \in Nat /\ row[j].bad \in Nat
  BY DEF RefreshIInv, Refresh!Row
<1>2. Grows(row[j])
  BY <1>1
<1>3. ASSUME NEW i \in Refresh!Keys, NEW r, row' = [row EXCEPT ![i] = r],
             i = j => ~Refresh!IsOver(j) /\ r.processed >= row[j].processed
                        /\ r.ok >= row[j].ok /\ r.bad >= row[j].bad
      PROVE  Grows(row'[j])
  BY <1>1, <1>2, <1>3
<1>4. ASSUME NEW g \in Groups, Refresh!Ask(g)
      PROVE  Grows(row'[j])
  <2>1. PICK i \in Refresh!Keys :
          /\ row[i] = Refresh!NoRow
          /\ row' = [row EXCEPT ![i] = [Refresh!NoRow EXCEPT !.group = g, !.status = "queued"]]
    BY <1>4 DEF Refresh!Ask
  <2> DEFINE r == [Refresh!NoRow EXCEPT !.group = g, !.status = "queued"]
  <2>2. r.processed = 0 /\ r.ok = 0 /\ r.bad = 0
        /\ Refresh!NoRow.processed = 0 /\ Refresh!NoRow.ok = 0 /\ Refresh!NoRow.bad = 0
        /\ Refresh!NoRow.status \notin Refresh!Over
    BY DEF Refresh!NoRow, Refresh!Over
  <2>3. i = j => ~Refresh!IsOver(j) /\ row[j].processed = 0 /\ row[j].ok = 0 /\ row[j].bad = 0
    BY <2>1, <2>2 DEF Refresh!IsOver
  <2>4. row' = [row EXCEPT ![i] = r]
    BY <2>1
  <2> HIDE DEF r, Grows
  <2>5. i = j => ~Refresh!IsOver(j) /\ r.processed >= row[j].processed
                   /\ r.ok >= row[j].ok /\ r.bad >= row[j].bad
    BY <2>2, <2>3
  <2>6. QED
    BY <1>3, <2>4, <2>5
<1>5. ASSUME NEW i \in Refresh!Keys, NEW t \in Refresh!Task, NEW status, task[i].pc # "none",
             t.ok >= task[i].ok, t.bad >= task[i].bad, t.ok \in Nat, t.bad \in Nat,
             row' = [row EXCEPT ![i] = Refresh!Reported(@, t, status)]
      PROVE  Grows(row'[j])
  <2> DEFINE r == Refresh!Reported(row[i], t, status)
  <2>1. /\ row[i] \in Refresh!Row /\ RefreshRowOK(row[i]) /\ ~Refresh!IsOver(i)
        /\ row[i].ok = task[i].ok /\ row[i].bad = task[i].bad
        /\ task[i].ok \in Nat /\ task[i].bad \in Nat
    BY <1>5, RefreshWorkedOn
  <2>2. r.ok = t.ok /\ r.bad = t.bad /\ r.processed = t.ok + t.bad
    BY <2>1 DEF Refresh!Reported, Refresh!Row
  <2>3. row[i].processed = row[i].ok + row[i].bad
    BY <2>1 DEF RefreshRowOK
  <2>4. row' = [row EXCEPT ![i] = r]
    BY <1>1, <1>5
  <2> HIDE DEF r, Grows
  <2>5. r.processed >= row[i].processed /\ r.ok >= row[i].ok /\ r.bad >= row[i].bad
    BY <1>5, <2>1, <2>2, <2>3
  <2>6. i = j => ~Refresh!IsOver(j) /\ r.processed >= row[j].processed
                   /\ r.ok >= row[j].ok /\ r.bad >= row[j].bad
    BY <2>1, <2>5
  <2>7. QED
    BY <1>3, <2>4, <2>6
<1>6. ASSUME NEW i \in Refresh!Keys, Refresh!Begin(i)
      PROVE  Grows(row'[j])
  <2> DEFINE r == [row[i] EXCEPT !.status = "running"]
  <2>1. row[i] \in Refresh!Row /\ ~Refresh!IsOver(i)
    BY <1>6, RefreshWorkedOn DEF Refresh!Begin
  <2>2. r.processed = row[i].processed /\ r.ok = row[i].ok /\ r.bad = row[i].bad
    BY <2>1 DEF Refresh!Row
  <2>3. row' = [row EXCEPT ![i] = r]
    BY <1>6 DEF Refresh!Begin
  <2> HIDE DEF r, Grows
  <2>4. i = j => ~Refresh!IsOver(j) /\ r.processed >= row[j].processed
                   /\ r.ok >= row[j].ok /\ r.bad >= row[j].bad
    BY <1>1, <2>1, <2>2
  <2>5. QED
    BY <1>3, <2>3, <2>4
<1>7. ASSUME NEW i \in Refresh!Keys, Refresh!Fail(i)
      PROVE  Grows(row'[j])
  <2> DEFINE r == [row[i] EXCEPT !.status = "failed", !.finished = TRUE]
  <2>1. row[i] \in Refresh!Row /\ ~Refresh!IsOver(i)
    BY <1>7, RefreshWorkedOn DEF Refresh!Fail
  <2>2. r.processed = row[i].processed /\ r.ok = row[i].ok /\ r.bad = row[i].bad
    BY <2>1 DEF Refresh!Row
  <2>3. row' = [row EXCEPT ![i] = r]
    BY <1>1, <1>7 DEF Refresh!Fail
  <2> HIDE DEF r, Grows
  <2>4. i = j => ~Refresh!IsOver(j) /\ r.processed >= row[j].processed
                   /\ r.ok >= row[j].ok /\ r.bad >= row[j].bad
    BY <1>1, <2>1, <2>2
  <2>5. QED
    BY <1>3, <2>3, <2>4
<1>8. ASSUME NEW i \in Refresh!Keys, Refresh!Complete(i)
      PROVE  Grows(row'[j])
  <2> DEFINE r == [Refresh!Reported(row[i], task[i], "completed") EXCEPT
                     !.processed = task[i].total, !.saved = TRUE, !.finished = TRUE]
  <2>1. /\ row[i] \in Refresh!Row /\ RefreshRowOK(row[i]) /\ ~Refresh!IsOver(i)
        /\ row[i].ok = task[i].ok /\ row[i].bad = task[i].bad
        /\ task[i].ok \in Nat /\ task[i].bad \in Nat /\ task[i].total \in Nat
        /\ task[i].ok + task[i].bad = task[i].total
    BY <1>8, RefreshWorkedOn DEF Refresh!Complete
  <2>2. r.processed = task[i].total /\ r.ok = task[i].ok /\ r.bad = task[i].bad
    BY <2>1 DEF Refresh!Reported, Refresh!Row
  <2>3. row' = [row EXCEPT ![i] = r]
    BY <1>1, <1>8 DEF Refresh!Complete
  <2>4. row[i].processed = row[i].ok + row[i].bad
    BY <2>1 DEF RefreshRowOK
  <2> HIDE DEF r, Grows
  <2>5. i = j => ~Refresh!IsOver(j) /\ r.processed >= row[j].processed
                   /\ r.ok >= row[j].ok /\ r.bad >= row[j].bad
    BY <2>1, <2>2, <2>4
  <2>6. QED
    BY <1>3, <2>3, <2>5
<1>9. ASSUME NEW i \in Refresh!Keys, Refresh!List(i)
      PROVE  Grows(row'[j])
  <2>1. PICK n \in 0 .. MaxWindows :
          row' = [row EXCEPT ![i] = Refresh!Reported(@,
            [task[i] EXCEPT !.pc = "next", !.total = n], "running")]
    BY <1>9 DEF Refresh!List
  <2> DEFINE t == [task[i] EXCEPT !.pc = "next", !.total = n]
  <2>2. task[i].pc = "list" /\ n \in Nat
    BY <1>9, <2>1 DEF Refresh!List, Refresh!Constants
  <2>3. task[i] \in Refresh!Task /\ task[i].ok \in Nat /\ task[i].bad \in Nat
    BY <2>2, RefreshWorkedOn
  <2>4. t \in Refresh!Task /\ t.ok = task[i].ok /\ t.bad = task[i].bad
    BY <2>2, <2>3 DEF Refresh!Task
  <2>5. row' = [row EXCEPT ![i] = Refresh!Reported(@, t, "running")]
    BY <2>1
  <2> HIDE DEF t, Grows
  <2>6. t.ok >= task[i].ok /\ t.bad >= task[i].bad /\ t.ok \in Nat /\ t.bad \in Nat
    BY <2>3, <2>4
  <2>7. QED
    BY <1>5, <2>2, <2>4, <2>5, <2>6
<1>10. ASSUME NEW i \in Refresh!Keys, Refresh!NextWindow(i)
       PROVE  Grows(row'[j])
  <2>1. /\ task[i].pc # "none"
        /\ row' = [row EXCEPT ![i] = Refresh!Reported(@, task[i], "running")]
    BY <1>10 DEF Refresh!NextWindow
  <2>2. task[i] \in Refresh!Task /\ task[i].ok \in Nat /\ task[i].bad \in Nat
    BY <2>1, RefreshWorkedOn
  <2> HIDE DEF Grows
  <2>3. task[i].ok >= task[i].ok /\ task[i].bad >= task[i].bad
    BY <2>2
  <2>4. QED
    BY <1>5, <2>1, <2>2, <2>3
<1>11. ASSUME NEW i \in Refresh!Keys, Refresh!WindowDone(i)
       PROVE  Grows(row'[j])
  <2>1. PICK t \in {[task[i] EXCEPT !.pc = "next", !.ok = @ + 1],
                    [task[i] EXCEPT !.pc = "next", !.bad = @ + 1]} :
          row' = [row EXCEPT ![i] = Refresh!Reported(@, t, "running")]
    BY <1>11 DEF Refresh!WindowDone
  <2>2. task[i].pc # "none"
    BY <1>11 DEF Refresh!WindowDone
  <2>3. /\ task[i] \in Refresh!Task /\ task[i].ok \in Nat /\ task[i].bad \in Nat
        /\ task[i].ok + 1 \in Nat /\ task[i].bad + 1 \in Nat
    BY <2>2, RefreshWorkedOn
  <2>4. /\ t \in Refresh!Task
        /\ \/ t.ok = task[i].ok + 1 /\ t.bad = task[i].bad
           \/ t.ok = task[i].ok /\ t.bad = task[i].bad + 1
    <3>1. CASE t = [task[i] EXCEPT !.pc = "next", !.ok = @ + 1]
      BY <2>3, <3>1 DEF Refresh!Task
    <3>2. CASE t = [task[i] EXCEPT !.pc = "next", !.bad = @ + 1]
      BY <2>3, <3>2 DEF Refresh!Task
    <3>3. QED
      BY <2>1, <3>1, <3>2
  <2> HIDE DEF Grows
  <2>5. t.ok >= task[i].ok /\ t.bad >= task[i].bad /\ t.ok \in Nat /\ t.bad \in Nat
    BY <2>3, <2>4
  <2>6. QED
    BY <1>5, <2>1, <2>2, <2>4, <2>5
<1>12. CASE Refresh!Start
  <2> DEFINE r == [row[j] EXCEPT !.status = "failed", !.finished = TRUE]
  <2>1. CASE Refresh!IsOpen(j)
    <3>1. row'[j] = r
      BY <1>12, <2>1 DEF Refresh!Start
    <3>2. r.processed = row[j].processed /\ r.ok = row[j].ok /\ r.bad = row[j].bad
      BY <1>1 DEF Refresh!Row
    <3>3. ~Refresh!IsOver(j)
      BY <2>1 DEF Refresh!IsOpen, Refresh!IsOver, Refresh!Open, Refresh!Over
    <3> HIDE DEF r
    <3>4. QED
      BY <1>1, <3>1, <3>2, <3>3
  <2>2. CASE ~Refresh!IsOpen(j)
    <3>1. row'[j] = row[j]
      BY <1>12, <2>2 DEF Refresh!Start
    <3>2. QED
      BY <1>2, <3>1
  <2>3. QED
    BY <2>1, <2>2
<1>13. ASSUME UNCHANGED row
       PROVE  Grows(row'[j])
  BY <1>2, <1>13
<1>14. Grows(row'[j])
  <2>1. ASSUME NEW i \in Refresh!Keys, Refresh!Step(i)
        PROVE  Grows(row'[j])
    <3> HIDE DEF Grows
    <3> QED
      BY <2>1, <1>6, <1>7, <1>8, <1>9, <1>10, <1>11, <1>13 DEF Refresh!Step, Refresh!FallBack
  <2>2. CASE Refresh!Start
    BY <1>12, <2>2
  <2>3. CASE \E g \in Groups : Refresh!Ask(g)
    <3> HIDE DEF Grows
    <3> QED
      BY <2>3, <1>4
  <2>4. ASSUME Refresh!Stop \/ (\E c \in Clients : Refresh!Poll(c) \/ Refresh!Leave(c)
               \/ \E i \in Refresh!Keys : Refresh!Follow(c, i))
        PROVE  Grows(row'[j])
    <3>1. UNCHANGED row
      BY <2>4 DEF Refresh!Stop, Refresh!Poll, Refresh!Leave, Refresh!Follow
    <3> HIDE DEF Grows
    <3>2. QED
      BY <1>13, <3>1
  <2>5. QED
    <3> HIDE DEF Grows
    <3> QED
      BY <2>1, <2>2, <2>3, <2>4 DEF Refresh!Next
<1>15. QED
  BY <1>14

-----------------------------------------------------------------------------
(* Submission: Submission *)

\* The attempts that asked and those a window opened again has granted are no more than
\* were made: an attempt that finds no script does not ask.
SubmitSpent == IF run.pc = "ask" \/ run.error = "sentinel" THEN run.attempt - 1 ELSE run.attempt

\* The inductive invariant.
SubmitIInv ==
  /\ Submit!TypeOK
  /\ run.attempt <= run.limit /\ asked + (run.limit - MaxAttempts) <= SubmitSpent
  /\ run.limit >= MaxAttempts
  /\ run.pc \in {"judge", "reopen", "token", "follow", "failed"} => ~run.fresh
  /\ run.pc = "reopen" => /\ run.error = "sentinel"
                          /\ chain = "queue" => run.attempt < run.limit
  /\ run.pc = "ask" /\ chain = "queue" => run.error # "overload"

\* A run and its record.
SubmitRuns == [pc : {"ask", "judge", "reopen", "token", "follow", "failed"},
               attempt : Nat \ {0}, limit : Nat, reopened : 0 .. MaxReopen,
               fresh : BOOLEAN, error : Submit!Errors, task : BOOLEAN]

\* The invariant holds at first.
LEMMA SubmitInitIInv == ASSUME Submit!Constants, Submit!Init PROVE SubmitIInv
<1>1. /\ run.pc = "ask" /\ run.attempt = 1 /\ run.limit = MaxAttempts /\ run.reopened = 0
      /\ run.fresh = FALSE /\ run.error = "none" /\ run.task = FALSE
  BY DEF Submit!Init
<1>2. MaxAttempts \in Nat /\ MaxAttempts >= 1 /\ MaxReopen \in Nat
  BY DEF Submit!Constants
<1>3. /\ 1 \in Nat \ {0} /\ 0 \in 0 .. MaxReopen /\ 0 \in 0 .. MaxAttempts + 1
      /\ 0 + (MaxAttempts - MaxAttempts) <= 1 - 1
  BY <1>2
<1>4. run \in SubmitRuns
  BY <1>2, <1>3 DEF Submit!Init, SubmitRuns, Submit!Errors
<1>5. /\ chain \in {"queue", "compat"} /\ button \in BOOLEAN /\ asked \in 0 .. Submit!Bound
      /\ made \in 0 .. asked
      /\ asked + (run.limit - MaxAttempts) <= SubmitSpent
  BY <1>1, <1>3 DEF Submit!Init, Submit!Bound, SubmitSpent
<1>6. QED
  BY <1>1, <1>2, <1>4, <1>5 DEF SubmitIInv, Submit!TypeOK, SubmitRuns

\* What an answer makes of the run.
LEMMA SubmitAnswerIs ==
  ASSUME run \in SubmitRuns, NEW given \in BOOLEAN, NEW error \in Submit!Errors,
         Submit!Answer(given, error)
  PROVE  /\ run' \in SubmitRuns
         /\ run'.pc = "judge" /\ run'.fresh = FALSE /\ run'.task = given /\ run'.error = error
         /\ run'.attempt = run.attempt /\ run'.limit = run.limit
BY DEF Submit!Answer, SubmitRuns

\* The counts are numbers in their bounds.
LEMMA SubmitNumbersAre ==
  ASSUME Submit!Constants, SubmitIInv
  PROVE  /\ run \in SubmitRuns /\ MaxAttempts \in Nat /\ MaxReopen \in Nat
         /\ run.attempt \in Nat /\ run.attempt >= 1 /\ run.limit \in Nat
         /\ asked \in Nat /\ made \in Nat /\ made <= asked /\ asked <= MaxAttempts
<1>1. run \in SubmitRuns
  BY DEF SubmitIInv, Submit!TypeOK, SubmitRuns
<1>2. run.attempt \in Nat \ {0} /\ run.limit \in Nat
  BY <1>1 DEF SubmitRuns
<1>3. MaxAttempts \in Nat /\ MaxReopen \in Nat
  BY DEF Submit!Constants
<1>4. asked \in Nat /\ made \in Nat /\ made <= asked
  BY <1>3 DEF SubmitIInv, Submit!TypeOK, Submit!Bound
<1>5. QED
  BY <1>1, <1>2, <1>3, <1>4 DEF SubmitIInv, SubmitSpent

\* NotAsked keeps the invariant.
LEMMA SubmitNotAskedIInv ==
  ASSUME Submit!Constants, SubmitIInv, run.pc = "ask", NEW error \in {"other", "sentinel"},
         Submit!NotAsked(error)
  PROVE  SubmitIInv'
<1>1. /\ run' \in SubmitRuns
      /\ run'.pc = "judge" /\ run'.fresh = FALSE /\ run'.error = error
      /\ run'.attempt = run.attempt /\ run'.limit = run.limit
  BY SubmitNumbersAre, SubmitAnswerIs DEF Submit!NotAsked, Submit!Errors
<1>2. UNCHANGED <<chain, button, asked, made>>
  BY DEF Submit!NotAsked
<1>3. asked' + (run'.limit - MaxAttempts) <= SubmitSpent'
  BY <1>1, <1>2, SubmitNumbersAre DEF SubmitIInv, SubmitSpent
<1>4. QED
  BY <1>1, <1>2, <1>3 DEF SubmitIInv, Submit!TypeOK, SubmitRuns, Submit!Bound

\* SoraAnswers keeps the invariant.
LEMMA SubmitSoraAnswersIInv ==
  ASSUME Submit!Constants, SubmitIInv, run.pc = "ask", Submit!SoraAnswers
  PROVE  SubmitIInv'
<1>1. PICK given \in BOOLEAN, error \in {"none", "overload", "other"} : Submit!Answer(given,
           error)
  BY DEF Submit!SoraAnswers
<1>2. /\ run' \in SubmitRuns
      /\ run'.pc = "judge" /\ run'.fresh = FALSE /\ run'.error = error
      /\ run'.attempt = run.attempt /\ run'.limit = run.limit
  BY <1>1, SubmitNumbersAre, SubmitAnswerIs DEF Submit!Errors
<1>3. asked' = asked + 1 /\ asked' \in Nat /\ asked' <= MaxAttempts + 1
  <2>1. asked < MaxAttempts + 1 /\ asked + 1 \in Nat /\ asked + 1 <= MaxAttempts + 1
    BY SubmitNumbersAre
  <2>2. QED
    BY <2>1 DEF Submit!SoraAnswers, Submit!Bound
<1>4. made' \in Nat /\ made' <= asked'
  <2>1. made' = made + asked' - asked \/ made' = made
    BY DEF Submit!SoraAnswers
  <2>2. QED
    BY <1>3, <2>1, SubmitNumbersAre
<1>5. asked' + (run'.limit - MaxAttempts) <= SubmitSpent'
  <2>1. asked + (run.limit - MaxAttempts) <= run.attempt - 1
    BY DEF SubmitIInv, SubmitSpent
  <2>2. SubmitSpent' = run.attempt
    BY <1>2 DEF SubmitSpent
  <2>3. QED
    BY <1>2, <1>3, <2>1, <2>2, SubmitNumbersAre
<1>6. UNCHANGED <<chain, button>>
  BY DEF Submit!SoraAnswers
<1>7. asked' \in 0 .. Submit!Bound /\ made' \in 0 .. asked'
  <2>1. MaxAttempts + 1 \in Nat
    BY SubmitNumbersAre
  <2>2. QED
    BY <1>3, <1>4, <2>1 DEF Submit!Bound
<1>8. QED
  BY <1>2, <1>5, <1>6, <1>7 DEF SubmitIInv, Submit!TypeOK, SubmitRuns, Submit!Bound

\* Repeat keeps the invariant.
LEMMA SubmitRepeatIInv == ASSUME Submit!Constants, SubmitIInv, Submit!Repeat PROVE SubmitIInv'
<1>1. /\ run' \in SubmitRuns /\ run'.pc = "ask" /\ run'.attempt = run.attempt + 1
      /\ run'.limit = run.limit /\ run'.error = run.error /\ run'.fresh = run.fresh
  <2>1. run.attempt + 1 \in Nat \ {0} /\ run \in SubmitRuns
    BY SubmitNumbersAre
  <2>2. QED
    BY <2>1 DEF Submit!Repeat, SubmitRuns
<1>2. run.attempt < run.limit /\ ~ (chain = "queue" /\ run.error = "overload")
  BY DEF Submit!Repeat, Submit!MayRepeat
<1>3. UNCHANGED <<chain, button, asked, made>>
  BY DEF Submit!Repeat
<1>4. asked + (run.limit - MaxAttempts) <= run.attempt
  BY SubmitNumbersAre DEF SubmitIInv, SubmitSpent
<1>5. /\ asked' + (run'.limit - MaxAttempts) <= SubmitSpent'
      /\ run'.attempt <= run'.limit
  BY <1>1, <1>2, <1>3, <1>4, SubmitNumbersAre DEF SubmitSpent
<1>6. QED
  BY <1>1, <1>2, <1>3, <1>5 DEF SubmitIInv, Submit!TypeOK, SubmitRuns, Submit!Bound

\* Reopen keeps the invariant.
LEMMA SubmitReopenIInv == ASSUME Submit!Constants, SubmitIInv, Submit!Reopen PROVE SubmitIInv'
<1>1. run.reopened \in Nat /\ run.reopened < MaxReopen /\ MaxReopen \in Nat
  BY SubmitNumbersAre DEF Submit!Reopen, Submit!CanReopen, SubmitRuns
<1>2. run.reopened + 1 \in 0 .. MaxReopen
  BY <1>1
<1>3. /\ run' \in SubmitRuns /\ run'.pc = "reopen" /\ run'.attempt = run.attempt
      /\ run'.limit = run.limit /\ run'.error = run.error /\ run'.fresh = run.fresh
  BY <1>2, SubmitNumbersAre DEF Submit!Reopen, SubmitRuns
<1>4. run.error = "sentinel" /\ (chain = "queue" => run.attempt < run.limit)
  BY DEF Submit!Reopen, Submit!CanReopen
<1>5. run.pc = "judge" /\ UNCHANGED <<chain, button, asked, made>>
  BY DEF Submit!Reopen
<1>6. asked' + (run'.limit - MaxAttempts) <= SubmitSpent'
  BY <1>3, <1>4, <1>5 DEF SubmitIInv, SubmitSpent
<1>7. QED
  BY <1>3, <1>4, <1>5, <1>6 DEF SubmitIInv, Submit!TypeOK, SubmitRuns, Submit!Bound

\* Reopened keeps the invariant.
LEMMA SubmitReopenedIInv == ASSUME Submit!Constants, SubmitIInv, Submit!Reopened PROVE SubmitIInv'
<1>1. /\ run.pc = "reopen" /\ run.error = "sentinel"
      /\ UNCHANGED <<chain, button, asked, made>>
      /\ chain \in {"queue", "compat"}
      /\ asked + (run.limit - MaxAttempts) <= run.attempt - 1
      /\ chain = "queue" => run.attempt < run.limit
  BY DEF SubmitIInv, Submit!TypeOK, Submit!Reopened, SubmitSpent
<1>2. PICK more \in {0, 1} :
        /\ run' = [run EXCEPT !.pc = "ask", !.attempt = @ + 1, !.limit = @ + more, !.fresh = TRUE]
        /\ run.attempt + 1 <= run.limit + more
  <2>1. CASE run.attempt < run.limit
    <3>1. run.limit + 0 = run.limit /\ run \in SubmitRuns
      BY SubmitNumbersAre
    <3>2. run' = [run EXCEPT !.pc = "ask", !.attempt = @ + 1, !.limit = @ + 0, !.fresh = TRUE]
      BY <2>1, <3>1 DEF Submit!Reopened, SubmitRuns
    <3>3. QED
      BY <2>1, <3>2, SubmitNumbersAre
  <2>2. CASE ~ (run.attempt < run.limit)
    <3>1. run' = [run EXCEPT !.pc = "ask", !.attempt = @ + 1, !.limit = @ + 1, !.fresh = TRUE]
      BY <1>1, <2>2 DEF Submit!Reopened
    <3>2. run.attempt + 1 <= run.limit + 1
      BY SubmitNumbersAre DEF SubmitIInv
    <3>3. QED
      BY <3>1, <3>2
  <2>3. QED
    BY <2>1, <2>2
<1>3. /\ run' \in SubmitRuns /\ run'.pc = "ask" /\ run'.attempt = run.attempt + 1
      /\ run'.limit = run.limit + more /\ run'.error = run.error
  <2>1. run.attempt + 1 \in Nat \ {0} /\ run.limit + more \in Nat /\ run \in SubmitRuns
    BY SubmitNumbersAre
  <2>2. QED
    BY <1>2, <2>1 DEF SubmitRuns
<1>4. /\ asked' + (run'.limit - MaxAttempts) <= SubmitSpent'
      /\ run'.attempt <= run'.limit /\ run'.limit >= MaxAttempts
  BY <1>1, <1>2, <1>3, SubmitNumbersAre DEF SubmitIInv, SubmitSpent
<1>5. QED
  BY <1>1, <1>3, <1>4 DEF SubmitIInv, Submit!TypeOK, SubmitRuns, Submit!Bound

\* The run goes on or ends, and nothing else changes.
LEMMA SubmitEndsIInv ==
  ASSUME Submit!Constants, SubmitIInv, NEW at \in {"token", "follow", "failed"},
         run.pc \in {"judge", "reopen", "token"},
         run' = [run EXCEPT !.pc = at], UNCHANGED <<chain, button, asked, made>>
  PROVE  SubmitIInv'
<1>1. /\ run' \in SubmitRuns /\ run'.pc = at /\ run'.attempt = run.attempt
      /\ run'.limit = run.limit /\ run'.error = run.error /\ run'.fresh = run.fresh
  BY SubmitNumbersAre DEF SubmitRuns
<1>2. asked' + (run'.limit - MaxAttempts) <= SubmitSpent'
  BY <1>1 DEF SubmitIInv, SubmitSpent
<1>3. QED
  BY <1>1, <1>2 DEF SubmitIInv, Submit!TypeOK, SubmitRuns, Submit!Bound

\* Every step keeps the invariant.
LEMMA SubmitNextIInv ==
  ASSUME Submit!Constants, SubmitIInv, [Submit!Next]_(Submit!vars)
  PROVE  SubmitIInv'
<1>1. CASE UNCHANGED Submit!vars
  BY <1>1 DEF Submit!vars, SubmitIInv, Submit!TypeOK, SubmitSpent, Submit!Bound
<1>2. CASE Submit!NoImage \/ Submit!NotFilled \/ Submit!NotReady \/ Submit!NotSent
  BY <1>2, SubmitNotAskedIInv
     DEF Submit!NoImage, Submit!NotFilled, Submit!NotReady, Submit!NotSent
<1>3. CASE Submit!Press \/ Submit!Send
  BY <1>3, SubmitSoraAnswersIInv DEF Submit!Press, Submit!Send
<1>4. CASE Submit!Accepted \/ Submit!GiveUp \/ Submit!NotReopened \/ Submit!Token
  BY <1>4, SubmitEndsIInv DEF Submit!Accepted, Submit!GiveUp, Submit!NotReopened, Submit!Token
<1>5. QED
  BY <1>1, <1>2, <1>3, <1>4, SubmitRepeatIInv, SubmitReopenIInv, SubmitReopenedIInv
     DEF Submit!Next

\* What the invariant says of the properties.
LEMMA SubmitFacts ==
  ASSUME Submit!Constants, SubmitIInv
  PROVE  Submit!AskedInBounds /\ Submit!ReopenedIsUsed
BY SubmitNumbersAre DEF SubmitIInv, Submit!AskedInBounds, Submit!ReopenedIsUsed

\* An overload is the end of the asking.
LEMMA SubmitNextSpares ==
  ASSUME SubmitIInv, Submit!Next, chain = "queue", run.error = "overload"
  PROVE  asked' = asked
BY DEF SubmitIInv, Submit!Next, Submit!NoImage, Submit!NotFilled, Submit!NotReady, Submit!NotSent,
   Submit!NotAsked, Submit!Press, Submit!Send, Submit!Accepted, Submit!Reopen,
       Submit!Repeat, Submit!GiveUp, Submit!Reopened, Submit!NotReopened, Submit!Token

-----------------------------------------------------------------------------
(* The polls of a task: TaskPoll *)

PollPolls == [pc : {"start", "wait", "v2", "v1", "drafts", "sleep", "reconnect", "over"},
              via : {"proxy", "page"}, read : Poll!Progress \cup {None},
              try : 0 .. DraftTries - 1, reconnects : 0 .. MaxReconnects]
PollEnds  == {"none", "completed", "failed", "timeout", "canceled", "lost"}

\* What has left the list of pending tasks was finished there.
PollIsFinished == task.at \in {"gone", "draft", "drafted", "rejected"} => task.progress = Full

\* The inductive invariant. What a poll has read is no more than there is.
PollIInv ==
  /\ Poll!TypeOK /\ PollIsFinished /\ Poll!EndIsTrue /\ Poll!ShownIsTrue /\ Poll!WindowIsFree
  /\ poll.read # None => poll.read <= task.progress
  /\ poll.pc = "reconnect" => poll.via = "page"

\* The times and counts are numbers in their bounds.
LEMMA PollNumbersAre ==
  ASSUME Poll!Constants, PollIInv
  PROVE  /\ MaxTime \in Nat /\ MaxTime >= 1 /\ Full \in Nat /\ Full >= 1
         /\ DraftTries \in Nat /\ DraftTries >= 1 /\ MaxReconnects \in Nat
         /\ clock \in Nat /\ clock <= MaxTime /\ shown \in Nat /\ shown <= Full
         /\ task.progress \in Nat /\ task.progress <= Full
         /\ poll \in PollPolls /\ window \in BOOLEAN /\ end \in PollEnds
<1>1. /\ MaxTime \in Nat /\ MaxTime >= 1 /\ Full \in Nat /\ Full >= 1
      /\ DraftTries \in Nat /\ DraftTries >= 1 /\ MaxReconnects \in Nat
  BY DEF Poll!Constants
<1>2. clock \in 0 .. MaxTime /\ shown \in 0 .. Full /\ task.progress \in 0 .. Full
  BY DEF PollIInv, Poll!TypeOK, Poll!Progress
<1>3. poll \in PollPolls /\ window \in BOOLEAN /\ end \in PollEnds
  BY DEF PollIInv, Poll!TypeOK, PollPolls, PollEnds
<1>4. QED
  BY <1>1, <1>2, <1>3

\* The invariant holds at first.
LEMMA PollInitIInv == ASSUME Poll!Constants, Poll!Init PROVE PollIInv
<1>1. /\ 0 \in 0 .. Full /\ 0 \in 0 .. DraftTries - 1 /\ 0 \in 0 .. MaxReconnects
      /\ 0 \in 0 .. MaxTime /\ Full # 0
  BY DEF Poll!Constants
<1>2. poll \in PollPolls /\ task \in [at : {"new", "pending", "failed", "gone", "draft",
        "drafted", "rejected"},
                                      progress : Poll!Progress]
  BY <1>1 DEF Poll!Init, PollPolls, Poll!Progress
<1>3. Poll!TypeOK
  BY <1>1, <1>2 DEF Poll!Init, Poll!TypeOK, PollPolls, Poll!Progress
<1>4. QED
  BY <1>1, <1>3
     DEF Poll!Init, PollIInv, PollIsFinished, Poll!EndIsTrue, Poll!ShownIsTrue, Poll!WindowIsFree

-----------------------------------------------------------------------------
(* The estimate *)

\* Before the end of the time less than the whole is estimated.
LEMMA PollEstimateIs ==
  ASSUME Poll!Constants, PollIInv
  PROVE  Poll!Estimate \in Nat /\ Poll!Estimate < Full
<1> DEFINE q == (clock * Full) \div MaxTime
<1>1. CASE clock < MaxTime
  <2>1. /\ clock * Full \in Nat /\ q \in Int
        /\ MaxTime * q <= clock * Full /\ clock * Full < MaxTime * (q + 1)
    BY PollNumbersAre
  <2>2. clock * Full < MaxTime * Full
    BY <1>1, PollNumbersAre
  <2>3. MaxTime * q < MaxTime * Full
    BY <2>1, <2>2, PollNumbersAre
  <2>4. q < Full
    BY <2>1, <2>3, PollNumbersAre
  <2>5. q >= 0
    BY <2>1, PollNumbersAre
  <2>6. QED
    BY <1>1, <2>1, <2>4, <2>5, PollNumbersAre DEF Poll!Estimate
<1>2. CASE ~ (clock < MaxTime)
  BY <1>2, PollNumbersAre DEF Poll!Estimate
<1>3. QED
  BY <1>1, <1>2

\* What is shown does not fall, and is the whole only if that is so.
LEMMA PollShowIs ==
  ASSUME Poll!Constants, PollIInv, NEW read \in Poll!Progress \cup {None},
         read # None => read <= task.progress, Poll!Show(read)
  PROVE  shown' \in Poll!Progress /\ shown' >= shown /\ (shown' = Full => task.progress = Full)
<1> DEFINE v == IF read = None THEN Poll!Estimate ELSE read
<1>1. v \in Nat /\ v <= Full /\ (v = Full => task.progress = Full)
  <2>1. CASE read = None
    BY <2>1, PollEstimateIs, PollNumbersAre
  <2>2. CASE read # None
    <3>1. read \in 0 .. Full
      BY <2>2 DEF Poll!Progress
    <3>2. QED
      BY <2>2, <3>1, PollNumbersAre
  <2>3. QED
    BY <2>1, <2>2
<1>2. shown = Full => task.progress = Full
  BY DEF PollIInv, Poll!ShownIsTrue
<1>3. shown' = IF shown > v THEN shown ELSE v
  BY DEF Poll!Show, Poll!Higher
<1>4. /\ shown' \in Nat /\ shown' <= Full /\ shown' >= shown
      /\ (shown' = Full => task.progress = Full)
  <2> HIDE DEF v
  <2> QED
    BY <1>1, <1>2, <1>3, PollNumbersAre
<1>5. QED
  BY <1>4, PollNumbersAre DEF Poll!Progress

-----------------------------------------------------------------------------
(* The steps *)

\* What Sora and the users do keeps the invariant.
LEMMA PollOthersIInv ==
  ASSUME Poll!Constants, PollIInv, Poll!Tick \/ Poll!Cancel \/ Poll!ClosedByAnother
  PROVE  PollIInv'
<1>1. UNCHANGED <<task, poll, shown, end>> /\ window' \in {window, FALSE}
  BY DEF Poll!Tick, Poll!Cancel, Poll!ClosedByAnother
<1>2. clock' \in 0 .. MaxTime
  <2>1. clock' = clock \/ (clock < MaxTime /\ clock' = clock + 1)
    BY DEF Poll!Tick, Poll!Cancel, Poll!ClosedByAnother
  <2>2. QED
    BY <2>1, PollNumbersAre
<1>3. canceled' \in BOOLEAN
  BY DEF PollIInv, Poll!TypeOK, Poll!Tick, Poll!Cancel, Poll!ClosedByAnother
<1>4. Poll!TypeOK'
  BY <1>1, <1>2, <1>3 DEF PollIInv, Poll!TypeOK
<1>5. QED
  <2>1. PollIsFinished' /\ Poll!EndIsTrue' /\ Poll!ShownIsTrue'
    BY <1>1 DEF PollIInv, PollIsFinished, Poll!EndIsTrue, Poll!ShownIsTrue
  <2>2. Poll!WindowIsFree'
    BY <1>1 DEF PollIInv, Poll!WindowIsFree
  <2>3. QED
    BY <1>1, <1>4, <2>1, <2>2 DEF PollIInv

\* SoraGoesOn keeps the invariant.
LEMMA PollSoraGoesOnIInv == ASSUME Poll!Constants, PollIInv, Poll!SoraGoesOn PROVE PollIInv'
<1> DEFINE Tasks == [at : {"new", "pending", "failed", "gone", "draft", "drafted", "rejected"},
                     progress : Poll!Progress]
<1>1. task \in Tasks /\ UNCHANGED <<canceled, clock, window, poll, shown, end>>
  BY DEF PollIInv, Poll!TypeOK, Poll!SoraGoesOn
<1>2. task.progress + 1 \in Poll!Progress \/ task.progress >= Full
  BY PollNumbersAre DEF Poll!Progress
<1>3. PICK a \in {"pending", "gone", "failed", "draft", "rejected", "drafted"} :
        \/ /\ task' = [task EXCEPT !.at = a] /\ task.at \notin {"failed", "drafted", "rejected"}
           /\ a \in {"gone", "draft", "drafted", "rejected"} => task.progress = Full
        \/ /\ task' = [task EXCEPT !.progress = @ + 1]
           /\ task.progress < Full /\ task.at = "pending"
  BY DEF Poll!SoraGoesOn, PollIInv, PollIsFinished
<1>4. /\ task' \in Tasks /\ task'.progress \in Nat
      /\ task'.progress >= task.progress /\ task'.progress <= Full
      /\ task'.at # task.at => task.at \notin {"failed", "drafted", "rejected"}
      /\ PollIsFinished'
  <2>1. CASE /\ task' = [task EXCEPT !.at = a] /\ task.at \notin {"failed", "drafted", "rejected"}
             /\ a \in {"gone", "draft", "drafted", "rejected"} => task.progress = Full
    BY <1>1, <2>1, PollNumbersAre DEF PollIsFinished
  <2>2. CASE /\ task' = [task EXCEPT !.progress = @ + 1]
             /\ task.progress < Full /\ task.at = "pending"
    <3>1. /\ task.progress + 1 \in Nat /\ task.progress + 1 <= Full
          /\ task.progress + 1 >= task.progress
      BY <2>2, PollNumbersAre
    <3>2. task.progress + 1 \in Poll!Progress
      BY <3>1, PollNumbersAre DEF Poll!Progress
    <3>3. task' \in Tasks /\ task'.progress = task.progress + 1 /\ task'.at = task.at
      BY <1>1, <2>2, <3>2
    <3>4. QED
      BY <2>2, <3>1, <3>3 DEF PollIsFinished
  <2>3. QED
    BY <1>3, <2>1, <2>2
<1>5. Poll!TypeOK'
  BY <1>1, <1>4 DEF PollIInv, Poll!TypeOK
<1>6. Poll!EndIsTrue'
  BY <1>1, <1>4 DEF PollIInv, Poll!EndIsTrue
<1>7. Poll!ShownIsTrue'
  BY <1>1, <1>4, PollNumbersAre DEF PollIInv, Poll!ShownIsTrue
<1>8. poll'.read # None => poll'.read <= task'.progress
  <2>1. poll.read # None => poll.read \in 0 .. Full
    BY PollNumbersAre DEF PollPolls, Poll!Progress
  <2>2. QED
    BY <1>1, <1>4, <2>1, PollNumbersAre DEF PollIInv
<1>9. QED
  BY <1>1, <1>4, <1>5, <1>6, <1>7, <1>8 DEF PollIInv, Poll!WindowIsFree

\* A step of the coroutine, and what has to be known of it.
LEMMA PollStepsIInv ==
  ASSUME Poll!Constants, PollIInv, UNCHANGED <<task, canceled, clock>>,
         poll' \in PollPolls, poll'.read # None => poll'.read <= task.progress,
         shown' \in Poll!Progress, shown' = Full => task.progress = Full,
         window' \in BOOLEAN, end' \in PollEnds,
         end' = "completed" => task.at = "drafted",
         end' = "failed" => task.at \in {"failed", "rejected"},
         poll'.pc # "start" /\ (poll'.via = "proxy" \/ poll'.pc = "over") => ~window',
         poll'.pc = "reconnect" => poll'.via = "page"
  PROVE  PollIInv'
BY DEF PollIInv, Poll!TypeOK, PollIsFinished, Poll!EndIsTrue, Poll!ShownIsTrue, Poll!WindowIsFree,
   PollPolls, PollEnds

\* The polls end, and for a reason.
LEMMA PollOverIInv ==
  ASSUME Poll!Constants, PollIInv, UNCHANGED <<task, canceled, clock>>, NEW e \in PollEnds,
         Poll!Over(e),
         shown' \in Poll!Progress, shown' = Full => task.progress = Full,
         e = "completed" => task.at = "drafted",
         e = "failed" => task.at \in {"failed", "rejected"}
  PROVE  PollIInv'
<1>1. poll' \in PollPolls /\ poll'.read = poll.read /\ poll'.pc = "over"
  BY PollNumbersAre DEF Poll!Over, PollPolls
<1>2. end' = e /\ window' = FALSE
  BY DEF Poll!Over
<1>3. poll'.read # None => poll'.read <= task.progress
  BY <1>1 DEF PollIInv
<1>4. QED
  BY <1>1, <1>2, <1>3, PollStepsIInv

\* The polls go on in the same window or without one.
LEMMA PollGoOnIInv ==
  ASSUME Poll!Constants, PollIInv, UNCHANGED <<task, canceled, clock>>, Poll!GoOn,
         poll' \in PollPolls, poll'.read # None => poll'.read <= task.progress,
         poll.pc # "start", poll.via = "proxy" \/ poll'.via = "page", poll'.pc # "over",
         poll'.pc = "reconnect" => poll'.via = "page",
         shown' \in Poll!Progress, shown' = Full => task.progress = Full
  PROVE  PollIInv'
<1>1. window' = window /\ end' = end /\ window \in BOOLEAN /\ end \in PollEnds
  BY PollNumbersAre DEF Poll!GoOn
<1>2. poll'.via = "proxy" => ~window'
  <2>1. poll'.via = "proxy" => poll.via = "proxy"
    OBVIOUS
  <2>2. QED
    BY <1>1, <2>1 DEF PollIInv, Poll!WindowIsFree
<1>3. /\ end' = "completed" => task.at = "drafted"
      /\ end' = "failed" => task.at \in {"failed", "rejected"}
  BY <1>1 DEF PollIInv, Poll!EndIsTrue
<1>4. QED
  BY <1>1, <1>2, <1>3, PollStepsIInv

\* Whatever is read or shown is no further than the task.
LEMMA PollReadIs ==
  ASSUME Poll!Constants, PollIInv
  PROVE  /\ poll.read \in Poll!Progress \cup {None}
         /\ (poll.read # None => poll.read <= task.progress)
         /\ task.progress \in Poll!Progress /\ task.progress <= task.progress
         /\ Full \in Poll!Progress /\ 0 \in Poll!Progress /\ 0 <= task.progress
         /\ shown \in Poll!Progress /\ (shown = Full => task.progress = Full)
<1>1. poll.read \in Poll!Progress \cup {None}
  BY PollNumbersAre DEF PollPolls
<1>2. QED
  BY <1>1, PollNumbersAre DEF PollIInv, Poll!ShownIsTrue, Poll!Progress

\* StillWorking keeps the invariant.
LEMMA PollStillWorkingIInv ==
  ASSUME Poll!Constants, PollIInv, UNCHANGED <<task, canceled, clock>>, poll.pc # "start",
         NEW read \in Poll!Progress \cup {None}, read # None => read <= task.progress,
         Poll!StillWorking(read)
  PROVE  PollIInv'
<1>1. Poll!Show(read) /\ Poll!GoOn /\ poll' = [poll EXCEPT !.pc = "sleep"]
  BY DEF Poll!StillWorking
<1>2. /\ poll' \in PollPolls /\ poll'.read = poll.read /\ poll'.via = poll.via
      /\ poll'.pc = "sleep"
  BY <1>1, PollNumbersAre DEF PollPolls
<1>3. shown' \in Poll!Progress /\ (shown' = Full => task.progress = Full)
  BY <1>1, PollShowIs
<1>4. poll.via = "proxy" \/ poll.via = "page"
  BY PollNumbersAre DEF PollPolls
<1>5. QED
  BY <1>1, <1>2, <1>3, <1>4, PollReadIs, PollGoOnIInv

\* Failed keeps the invariant.
LEMMA PollFailedIInv ==
  ASSUME Poll!Constants, PollIInv, UNCHANGED <<task, canceled, clock>>,
         NEW read \in Poll!Progress \cup {None}, read # None => read <= task.progress,
         Poll!Failed(read), task.at \in {"failed", "rejected"}
  PROVE  PollIInv'
<1>1. shown' \in Poll!Progress /\ (shown' = Full => task.progress = Full)
  BY PollShowIs DEF Poll!Failed
<1>2. QED
  BY <1>1, PollOverIInv DEF Poll!Failed, PollEnds

\* Completed keeps the invariant.
LEMMA PollCompletedIInv ==
  ASSUME Poll!Constants, PollIInv, UNCHANGED <<task, canceled, clock>>, Poll!Completed,
         task.at = "drafted"
  PROVE  PollIInv'
<1>1. task.progress = Full
  BY DEF PollIInv, PollIsFinished
<1>2. Full # None /\ Full <= task.progress
  BY <1>1, PollNumbersAre DEF Poll!Constants
<1>3. shown' \in Poll!Progress /\ (shown' = Full => task.progress = Full)
  BY <1>1, <1>2, PollReadIs, PollShowIs DEF Poll!Completed
<1>4. QED
  BY <1>3, PollOverIInv DEF Poll!Completed, PollEnds

\* The poll goes on elsewhere, and nothing new is shown.
LEMMA PollMovesIInv ==
  ASSUME Poll!Constants, PollIInv, UNCHANGED <<task, canceled, clock, shown>>, Poll!GoOn,
         poll.pc # "start",
         poll' \in PollPolls, poll'.read = poll.read,
         poll.via = "proxy" \/ poll'.via = "page", poll'.pc # "over",
         poll'.pc = "reconnect" => poll'.via = "page"
  PROVE  PollIInv'
BY PollReadIs, PollGoOnIInv

\* Challenged keeps the invariant.
LEMMA PollChallengedIInv ==
  ASSUME Poll!Constants, PollIInv, UNCHANGED <<task, canceled, clock>>, poll.pc # "start",
         Poll!Challenged
  PROVE  PollIInv'
<1>1. CASE /\ poll.via = "proxy" /\ Poll!GoOn /\ UNCHANGED shown
           /\ poll' = [poll EXCEPT !.pc = "reconnect", !.via = "page", !.reconnects = 0]
  <2>1. 0 \in 0 .. MaxReconnects
    BY PollNumbersAre
  <2>2. /\ poll' \in PollPolls /\ poll'.read = poll.read /\ poll'.via = "page"
        /\ poll'.pc = "reconnect"
    BY <1>1, <2>1, PollNumbersAre DEF PollPolls
  <2>3. QED
    BY <1>1, <2>2, PollMovesIInv
<1>2. CASE Poll!StillWorking(IF poll.read = None THEN 0 ELSE poll.read)
  <2> DEFINE read == IF poll.read = None THEN 0 ELSE poll.read
  <2>1. read \in Poll!Progress \cup {None} /\ read <= task.progress
    BY PollReadIs
  <2>2. QED
    <3>1. Poll!StillWorking(read)
      BY <1>2
    <3> HIDE DEF read
    <3>2. QED
      BY <2>1, <3>1, PollStillWorkingIInv
<1>3. QED
  BY <1>1, <1>2 DEF Poll!Challenged

\* PageLost keeps the invariant.
LEMMA PollPageLostIInv ==
  ASSUME Poll!Constants, PollIInv, UNCHANGED <<task, canceled, clock>>, poll.pc # "start",
         Poll!PageIsGone, Poll!PageLost
  PROVE  PollIInv'
<1>1. CASE poll.reconnects < MaxReconnects /\ Poll!GoOn
             /\ poll' = [poll EXCEPT !.pc = "reconnect", !.reconnects = @ + 1]
  <2>1. poll.reconnects + 1 \in 0 .. MaxReconnects
    <3>1. poll.reconnects \in 0 .. MaxReconnects
      BY PollNumbersAre DEF PollPolls
    <3>2. QED
      BY <1>1, <3>1, PollNumbersAre
  <2>2. /\ poll' \in PollPolls /\ poll'.read = poll.read /\ poll'.via = poll.via
        /\ poll'.pc = "reconnect"
    BY <1>1, <2>1, PollNumbersAre DEF PollPolls
  <2>3. poll'.via = "page" /\ UNCHANGED shown
    BY <2>2 DEF Poll!PageLost, Poll!PageIsGone
  <2>4. QED
    BY <1>1, <2>2, <2>3, PollMovesIInv
<1>2. CASE Poll!Over("lost") /\ UNCHANGED shown
  BY <1>2, PollReadIs, PollOverIInv DEF PollEnds
<1>3. QED
  BY <1>1, <1>2 DEF Poll!PageLost

\* AskAgain keeps the invariant.
LEMMA PollAskAgainIInv ==
  ASSUME Poll!Constants, PollIInv, UNCHANGED <<task, canceled, clock>>, poll.pc # "start",
         Poll!AskAgain(poll.read)
  PROVE  PollIInv'
<1>1. CASE poll.try + 1 < DraftTries
  <2>1. poll.try + 1 \in 0 .. DraftTries - 1
    <3>1. poll.try \in 0 .. DraftTries - 1
      BY PollNumbersAre DEF PollPolls
    <3>2. QED
      BY <1>1, <3>1, PollNumbersAre
  <2>2. poll' = [poll EXCEPT !.try = @ + 1, !.read = poll.read] /\ Poll!GoOn /\ UNCHANGED shown
    BY <1>1 DEF Poll!AskAgain
  <2>3. /\ poll' \in PollPolls /\ poll'.read = poll.read /\ poll'.via = poll.via
        /\ poll'.pc = poll.pc
    BY <2>1, <2>2, PollNumbersAre DEF PollPolls
  <2>4. QED
    BY <2>2, <2>3
       DEF PollIInv, Poll!TypeOK, PollIsFinished, Poll!EndIsTrue, Poll!ShownIsTrue,
           Poll!WindowIsFree, PollPolls, Poll!GoOn
<1>2. CASE ~ (poll.try + 1 < DraftTries)
  BY <1>2, PollReadIs, PollStillWorkingIInv DEF Poll!AskAgain
<1>3. QED
  BY <1>1, <1>2

\* NextPoll keeps the invariant.
LEMMA PollNextPollIInv == ASSUME Poll!Constants, PollIInv, Poll!NextPoll PROVE PollIInv'
<1>1. UNCHANGED <<task, canceled, clock, shown>> /\ poll.pc = "wait"
  BY DEF Poll!NextPoll
<1>2. ASSUME NEW e \in {"canceled", "timeout"}, Poll!Over(e)
      PROVE  PollIInv'
  BY <1>1, <1>2, PollReadIs, PollOverIInv DEF PollEnds
<1>3. ASSUME Poll!GoOn, poll' = [poll EXCEPT !.pc = "v2", !.read = None]
      PROVE  PollIInv'
  <2>1. poll' \in PollPolls /\ poll'.read = None /\ poll'.via = poll.via /\ poll'.pc = "v2"
        /\ poll.via \in {"proxy", "page"}
    BY <1>3, PollNumbersAre DEF PollPolls
  <2>2. QED
    BY <1>1, <1>3, <2>1, PollReadIs, PollGoOnIInv
<1>4. QED
  BY <1>2, <1>3 DEF Poll!NextPoll

\* AfterPending keeps the invariant.
LEMMA PollAfterPendingIInv ==
  ASSUME Poll!Constants, PollIInv, UNCHANGED <<task, canceled, clock, shown>>, Poll!GoOn,
         poll.pc \in {"v2", "v1"},
         NEW read \in Poll!Progress \cup {None}, read # None => read <= task.progress,
         Poll!AfterPending(read)
  PROVE  PollIInv'
<1>1. 0 \in 0 .. DraftTries - 1
  BY PollNumbersAre
<1>2. /\ poll' \in PollPolls /\ poll'.read = read /\ poll'.via = poll.via
      /\ poll'.pc \in {"v1", "drafts"} /\ poll.via \in {"proxy", "page"}
  BY <1>1, PollNumbersAre DEF Poll!AfterPending, PollPolls
<1>3. QED
  BY <1>2, PollReadIs, PollGoOnIInv

\* AskPending keeps the invariant.
LEMMA PollAskPendingIInv == ASSUME Poll!Constants, PollIInv, Poll!AskPending PROVE PollIInv'
<1>1. UNCHANGED <<task, canceled, clock>> /\ poll.pc \in {"v2", "v1"} /\ poll.pc # "start"
  BY DEF Poll!AskPending
<1>2. CASE Poll!ReadPending
  <2>1. CASE task.at = "failed" /\ Poll!Failed(task.progress)
    BY <1>1, <2>1, PollReadIs, PollFailedIInv
  <2>2. CASE Poll!StillWorking(task.progress)
    BY <1>1, <2>2, PollReadIs, PollStillWorkingIInv
  <2>3. CASE Poll!AfterPending(task.progress) /\ Poll!GoOn /\ UNCHANGED shown
    BY <1>1, <2>3, PollReadIs, PollAfterPendingIInv
  <2>4. QED
    BY <1>2, <2>1, <2>2, <2>3 DEF Poll!ReadPending
<1>3. CASE Poll!AfterPending(poll.read) /\ Poll!GoOn /\ UNCHANGED shown
  BY <1>1, <1>3, PollReadIs, PollAfterPendingIInv
<1>4. QED
  BY <1>1, <1>2, <1>3, PollChallengedIInv DEF Poll!AskPending

\* AskDrafts keeps the invariant.
LEMMA PollAskDraftsIInv == ASSUME Poll!Constants, PollIInv, Poll!AskDrafts PROVE PollIInv'
<1>1. UNCHANGED <<task, canceled, clock>> /\ poll.pc = "drafts"
  BY DEF Poll!AskDrafts
<1>2. CASE task.at = "rejected" /\ Poll!Failed(poll.read)
  BY <1>1, <1>2, PollReadIs, PollFailedIInv
<1>3. CASE task.at = "drafted" /\ Poll!Completed
  BY <1>1, <1>3, PollCompletedIInv
<1>4. CASE Poll!AskAgain(poll.read)
  BY <1>1, <1>4, PollAskAgainIInv
<1>5. QED
  BY <1>1, <1>2, <1>3, <1>4, PollPageLostIInv, PollChallengedIInv
     DEF Poll!AskDrafts, Poll!ReadDraft

\* Begin, Sleep and Reconnect keep the invariant.
LEMMA PollWaitsIInv ==
  ASSUME Poll!Constants, PollIInv, Poll!Begin \/ Poll!Sleep \/ Poll!Reconnect
  PROVE  PollIInv'
<1>1. UNCHANGED <<task, canceled, clock>>
  BY DEF Poll!Begin, Poll!Sleep, Poll!Reconnect
<1>2. CASE Poll!Begin
  <2>1. /\ poll' \in PollPolls /\ poll'.read = poll.read /\ poll'.pc = "wait"
        /\ window' = FALSE /\ end' = end /\ shown' = shown
    BY <1>2, PollNumbersAre DEF Poll!Begin, PollPolls
  <2>2. Poll!EndIsTrue
    BY DEF PollIInv
  <2>3. QED
    BY <1>1, <2>1, <2>2, PollReadIs, PollNumbersAre, PollStepsIInv DEF Poll!EndIsTrue
<1>3. CASE Poll!Sleep /\ Poll!PageIsGone
  BY <1>1, <1>3, PollPageLostIInv DEF Poll!Sleep
<1>4. CASE Poll!Sleep /\ ~Poll!PageIsGone
  <2>1. /\ poll' \in PollPolls /\ poll'.read = poll.read /\ poll'.via = poll.via
        /\ poll'.pc = "wait"
        /\ poll.via \in {"proxy", "page"} /\ poll.pc # "start" /\ Poll!GoOn /\ UNCHANGED shown
    BY <1>4, PollNumbersAre DEF Poll!Sleep, PollPolls
  <2>2. QED
    BY <1>1, <2>1, PollMovesIInv
<1>5. CASE Poll!Reconnect /\ Poll!Over("lost")
  BY <1>1, <1>5, PollReadIs, PollOverIInv DEF Poll!Reconnect, PollEnds
<1>6. CASE Poll!Reconnect /\ window' = TRUE /\ poll' = [poll EXCEPT !.pc = "wait"]
           /\ UNCHANGED end
  <2>1. poll.via = "page"
    BY <1>6 DEF PollIInv, Poll!Reconnect
  <2>2. /\ poll' \in PollPolls /\ poll'.read = poll.read /\ poll'.via = "page"
        /\ poll'.pc = "wait"
        /\ UNCHANGED shown
    BY <1>6, <2>1, PollNumbersAre DEF PollPolls, Poll!Reconnect
  <2>3. QED
    BY <1>1, <1>6, <2>2, PollReadIs, PollNumbersAre, PollStepsIInv DEF PollIInv, Poll!EndIsTrue
<1>7. QED
  BY <1>2, <1>3, <1>4, <1>5, <1>6 DEF Poll!Reconnect

\* Every step keeps the invariant.
LEMMA PollNextIInv == ASSUME Poll!Constants, PollIInv, [Poll!Next]_(Poll!vars) PROVE PollIInv'
<1>1. CASE UNCHANGED Poll!vars
  BY <1>1
     DEF Poll!vars, PollIInv, Poll!TypeOK, PollIsFinished, Poll!EndIsTrue, Poll!ShownIsTrue,
         Poll!WindowIsFree
<1>2. QED
  BY <1>1, PollOthersIInv, PollSoraGoesOnIInv, PollNextPollIInv, PollAskPendingIInv,
     PollAskDraftsIInv, PollWaitsIInv
     DEF Poll!Next, Poll!Step

\* No step shows less than before.
LEMMA PollNextGrows == ASSUME Poll!Constants, PollIInv, Poll!Next PROVE shown' >= shown
<1>1. ASSUME NEW read \in Poll!Progress \cup {None}, Poll!Show(read)
      PROVE  shown' >= shown
  <2> DEFINE v == IF read = None THEN Poll!Estimate ELSE read
  <2>1. v \in Nat
    BY PollEstimateIs, PollNumbersAre DEF Poll!Progress
  <2>2. shown' = IF shown > v THEN shown ELSE v
    BY <1>1 DEF Poll!Show, Poll!Higher
  <2>3. QED
    <3> HIDE DEF v
    <3> QED
      BY <2>1, <2>2, PollNumbersAre
<1>2. shown' = shown \/ \E read \in Poll!Progress \cup {None} : Poll!Show(read)
  <2>1. ASSUME NEW read \in Poll!Progress \cup {None},
               Poll!StillWorking(read) \/ Poll!Failed(read)
        PROVE  Poll!Show(read)
    BY <2>1 DEF Poll!StillWorking, Poll!Failed
  <2>2. ASSUME Poll!Completed
        PROVE  Poll!Show(Full)
    BY <2>2 DEF Poll!Completed
  <2>3. ASSUME Poll!AskAgain(poll.read)
        PROVE  shown' = shown \/ Poll!Show(poll.read)
    BY <2>3 DEF Poll!AskAgain, Poll!StillWorking
  <2>4. ASSUME Poll!Challenged
        PROVE  shown' = shown \/ \E read \in Poll!Progress \cup {None} : Poll!Show(read)
    BY <2>4, PollReadIs DEF Poll!Challenged, Poll!StillWorking
  <2>5. CASE Poll!AskPending
    BY <2>1, <2>4, <2>5, PollReadIs DEF Poll!AskPending, Poll!ReadPending
  <2>6. CASE Poll!AskDrafts
    BY <2>1, <2>2, <2>3, <2>4, <2>6, PollReadIs DEF Poll!AskDrafts, Poll!ReadDraft, Poll!PageLost
  <2>7. CASE ~Poll!AskPending /\ ~Poll!AskDrafts
    BY <2>7
       DEF Poll!Next, Poll!Step, Poll!SoraGoesOn, Poll!Tick, Poll!Cancel, Poll!ClosedByAnother,
           Poll!Begin, Poll!NextPoll, Poll!Sleep,
                Poll!PageLost, Poll!Reconnect
  <2>8. QED
    BY <2>5, <2>6, <2>7
<1>3. QED
  BY <1>1, <1>2, PollNumbersAre

-----------------------------------------------------------------------------
(* The publication of a video: Publisher *)

PublishAsking  == {"open", "begin", "drafts", "resolve", "detail", "post"}
PublishLooking == {"wait", "search", "lists", "page", "share", "press", "final"}
PublishNoLink  == {"duplicate", "not_ready", "error"}
PublishRuns ==
  [pc : PublishAsking \cup PublishLooking \cup {"delete", "over"}, known : BOOLEAN,
   attempt : 1 .. PostAttempts, endpoint : 1 .. 2, answer : PublishNoLink \cup {"none", "link"},
   link : Publish!Links \cup {None}, end : {"none", "unopened", "link", "nothing", "error",
     "canceled"}]

PublishTyped ==
  /\ sora \in [draft : {"no", "draft", "generation"}, ready : BOOLEAN,
               post : {"no", "up", "deleted"}]
  /\ own \in BOOLEAN /\ clean \in BOOLEAN /\ window \in BOOLEAN
  /\ heard \in Publish!Links \cup {None, "dropped"}
  /\ run \in PublishRuns

\* The type invariant, in the form the provers take.
LEMMA PublishTypedIsTypeOK == PublishTyped => Publish!TypeOK
BY DEF PublishTyped, Publish!TypeOK, PublishRuns, PublishAsking, PublishLooking, PublishNoLink

\* A run that has an answer with a link only deletes the post and returns that link; one
\* that has none has no link before it ends, and looks elsewhere only after an answer.
PublishRunOK(r) ==
  /\ r.answer = "link" => r.link \in Publish!Links /\ r.pc \in {"delete", "over"}
  /\ r.answer # "link" /\ r.pc # "over" => r.link = None
  /\ r.pc = "delete" => r.answer = "link"
  /\ r.pc \in PublishLooking => r.answer \in PublishNoLink
  /\ r.answer = "link" /\ r.pc = "over" => r.end = "link"

\* The page a run is given stays open.
PublishWindowOK ==
  /\ ~own => window /\ run.pc # "open"
  /\ run.pc = "over" /\ run.end # "unopened" => window = ~own

\* The inductive invariant.
PublishIInv == PublishTyped /\ PublishRunOK(run) /\ PublishWindowOK

\* The invariant holds at first.
LEMMA PublishInitIInv ==
  ASSUME Publish!Constants
  PROVE  Publish!Init => PublishIInv
<1> SUFFICES ASSUME Publish!Init PROVE PublishIInv
  OBVIOUS
<1>1. own \in BOOLEAN /\ clean \in BOOLEAN /\ window = ~own /\ heard = None
  BY DEF Publish!Init
<1>2. PICK known \in BOOLEAN :
        /\ run = [pc |-> IF own THEN "open" ELSE "begin", known |-> known, attempt |-> 1,
                  endpoint |-> 1, answer |-> "none", link |-> None, end |-> "none"]
        /\ sora \in [draft : IF known THEN {"generation"} ELSE {"no", "draft", "generation"},
                     ready : {FALSE}, post : {"no"}]
  BY DEF Publish!Init
<1>3. run \in PublishRuns
  <2>1. 1 \in 1 .. PostAttempts /\ 1 \in 1 .. 2
    BY DEF Publish!Constants
  <2>2. (IF own THEN "open" ELSE "begin") \in PublishAsking
    BY DEF PublishAsking
  <2>3. QED
    BY <1>2, <2>1, <2>2 DEF PublishRuns
<1>4. PublishRunOK(run)
  BY <1>2 DEF PublishRunOK, PublishLooking
<1>5. PublishWindowOK
  BY <1>1, <1>2 DEF PublishWindowOK
<1>6. sora \in [draft : {"no", "draft", "generation"}, ready : BOOLEAN,
                post : {"no", "up", "deleted"}]
  BY <1>2
<1>7. QED
  BY <1>1, <1>3, <1>4, <1>5, <1>6 DEF PublishIInv, PublishTyped

-----------------------------------------------------------------------------
(* The two forms of a step of the run: it goes on, or it ends *)

PublishOnward ==
  /\ run.pc \notin {"open", "over"} /\ run'.pc \notin {"open", "over"}
  /\ run' \in PublishRuns /\ PublishRunOK(run') /\ window' = window

PublishEnding ==
  /\ run.pc \notin {"open", "over"} /\ run'.pc = "over"
  /\ run' \in PublishRuns /\ PublishRunOK(run') /\ window' = (window /\ ~own)

\* A run that goes to another step goes on.
LEMMA PublishGoes ==
  ASSUME Publish!Constants, PublishIInv, NEW at, Publish!GoTo(at), run.pc # "open",
         \/ run.pc \in PublishAsking /\ at \in PublishAsking \ {"open"}
         \/ run.pc \in PublishLooking /\ at \in PublishLooking
  PROVE  PublishOnward
<1>1. run \in PublishRuns /\ PublishRunOK(run)
  BY DEF PublishIInv, PublishTyped
<1>2. run' = [run EXCEPT !.pc = at] /\ window' = window
  BY DEF Publish!GoTo
<1>3. run' \in PublishRuns /\ run'.pc = at /\ run'.link = run.link /\ run'.answer = run.answer
  BY <1>1, <1>2 DEF PublishRuns, PublishAsking, PublishLooking
<1>4. run.pc # "over" /\ at \notin {"over", "delete", "open"}
  BY DEF PublishAsking, PublishLooking
<1>5. PublishRunOK(run')
  BY <1>1, <1>3, <1>4 DEF PublishRunOK, PublishAsking, PublishLooking, PublishNoLink
<1>6. QED
  BY <1>2, <1>3, <1>4, <1>5 DEF PublishOnward

\* A run that leaves with the link of its answer, or without one that has none, ends as
\* it should.
LEMMA PublishEnds ==
  ASSUME Publish!Constants, PublishIInv, run.pc \notin {"open", "over"},
         NEW how \in {"link", "nothing", "error", "canceled"},
         NEW link \in Publish!Links \cup {None}, Publish!Leave(how, link),
         run.answer = "link" => how = "link" /\ link = run.link
  PROVE  PublishEnding
<1>1. run \in PublishRuns /\ PublishRunOK(run)
  BY DEF PublishIInv, PublishTyped
<1>2. /\ run' = [run EXCEPT !.pc = "over", !.end = how, !.link = link]
      /\ window' = (window /\ ~own)
  BY DEF Publish!Leave
<1>3. /\ run' \in PublishRuns /\ run'.pc = "over" /\ run'.link = link /\ run'.end = how
      /\ run'.answer = run.answer
  BY <1>1, <1>2 DEF PublishRuns
<1>4. PublishRunOK(run')
  BY <1>1, <1>3 DEF PublishRunOK, PublishLooking
<1>5. QED
  BY <1>2, <1>3, <1>4 DEF PublishEnding

\* A run without an answer that has a link may return whatever it finds.
LEMMA PublishFinds ==
  ASSUME Publish!Constants, PublishIInv,
         run.pc \in (PublishAsking \ {"open"}) \cup PublishLooking,
         NEW link \in Publish!Links, Publish!Found(link)
  PROVE  PublishEnding
<1>1. run.answer # "link" /\ run.pc \notin {"open", "over"}
  BY DEF PublishIInv, PublishRunOK, PublishAsking, PublishLooking
<1>2. QED
  BY <1>1, PublishEnds DEF Publish!Found

\* A run that leaves without a link ends as it should.
LEMMA PublishFails ==
  ASSUME Publish!Constants, PublishIInv,
         run.pc \in (PublishAsking \ {"open"}) \cup PublishLooking,
         NEW how \in {"nothing", "error", "canceled"}, Publish!Leave(how, None)
  PROVE  PublishEnding
<1>1. run.answer # "link" /\ run.pc # "over"
  BY DEF PublishIInv, PublishRunOK, PublishAsking, PublishLooking
<1>2. None \in Publish!Links \cup {None}
  OBVIOUS
<1>3. run.pc \notin {"open", "over"} /\ how \in {"link", "nothing", "error", "canceled"}
  BY <1>1 DEF PublishLooking
<1>4. QED
  BY <1>1, <1>2, <1>3, PublishEnds

\* Answered is a step of one of the forms.
LEMMA PublishAnsweredForm ==
  ASSUME Publish!Constants, PublishIInv, run.pc = "post", NEW text, Publish!Answered(text),
         text.link \in Publish!Links \cup {None}, window' = window
  PROVE  PublishOnward
<1> DEFINE answer == Publish!Read(text)
           link   == text.link
           again  == answer = "not_ready" /\ run.attempt < PostAttempts
           tried  == IF again THEN run.attempt + 1 ELSE run.attempt
           at     == CASE answer = "link" -> "delete"
                       [] answer = "duplicate" -> "wait"
                       [] again -> "post"
                       [] OTHER -> "page"
<1>1. run \in PublishRuns /\ PostAttempts \in Nat
  BY DEF PublishIInv, PublishTyped, Publish!Constants
<1>2. /\ answer \in PublishNoLink \cup {"link"}
      /\ answer = "link" <=> link # None
  BY DEF Publish!Read, PublishNoLink
<1>3. /\ answer = "link" => at = "delete"
      /\ answer \in PublishNoLink => at \in {"wait", "post", "page"}
  BY <1>2 DEF PublishNoLink
<1>4. run' = [run EXCEPT !.answer = answer, !.endpoint = 1, !.link = link,
                         !.attempt = tried, !.pc = at]
  BY DEF Publish!Answered
<1>5. tried \in 1 .. PostAttempts /\ link \in Publish!Links \cup {None}
  <2>1. run.attempt \in 1 .. PostAttempts
    BY <1>1 DEF PublishRuns
  <2>2. run.attempt < PostAttempts => run.attempt + 1 \in 1 .. PostAttempts
    BY <1>1, <2>1
  <2>3. QED
    BY <2>1, <2>2
<1> HIDE DEF answer, link, again, tried, at
<1>6. run' \in PublishRuns /\ run'.answer = answer /\ run'.pc = at
        /\ run'.link = link
  <2>1. at \in PublishAsking \cup PublishLooking \cup {"delete", "over"}
    BY <1>2, <1>3 DEF PublishAsking, PublishLooking
  <2>2. 1 \in 1 .. 2
    OBVIOUS
  <2>3. QED
    BY <1>1, <1>2, <1>4, <1>5, <2>1, <2>2 DEF PublishRuns
<1>7. PublishRunOK(run')
  <2>1. CASE answer = "link"
    <3>1. at = "delete" /\ link \in Publish!Links
      BY <1>2, <1>3, <1>5, <2>1
    <3>2. QED
      BY <1>6, <2>1, <3>1 DEF PublishRunOK, PublishLooking
  <2>2. CASE answer \in PublishNoLink
    <3>1. link = None /\ at \in {"wait", "post", "page"} /\ answer # "link"
      BY <1>2, <1>3, <2>2 DEF PublishNoLink
    <3>2. QED
      BY <1>6, <2>2, <3>1 DEF PublishRunOK, PublishLooking
  <2>3. QED
    BY <1>2, <2>1, <2>2
<1>8. QED
  BY <1>2, <1>3, <1>6, <1>7 DEF PublishOnward, PublishNoLink

\* What stands in a text is a link, or none.
LEMMA PublishTexts ==
  /\ Publish!LinksInText \subseteq Publish!Links \cup {None}
  /\ \A t \in Publish!Refusals : t.link \in Publish!Links \cup {None}
  /\ \A l, says : Publish!Text(l, says).link = l
<1>1. Publish!LinksInText \subseteq Publish!Links \cup {None}
  BY DEF Publish!LinksInText, Publish!Links
<1>2. \A l, says : Publish!Text(l, says).link = l
  BY DEF Publish!Text
<1>3. \A t \in Publish!Refusals : t.link \in Publish!Links \cup {None}
  BY <1>1, <1>2 DEF Publish!Refusals
<1>4. QED
  BY <1>1, <1>2, <1>3

-----------------------------------------------------------------------------
(* Every step of a run that has its window has one of the forms *)

\* The steps before the post is asked for go on or end as they should.
LEMMA PublishAskingSteps ==
  ASSUME Publish!Constants, PublishIInv,
         Publish!Begin \/ Publish!AwaitDraft \/ Publish!Resolve \/ Publish!Lookup
  PROVE  PublishOnward \/ PublishEnding
<1>1. /\ run.pc \in PublishAsking \ {"open"}
      /\ run.pc \in (PublishAsking \ {"open"}) \cup PublishLooking
  BY DEF Publish!Begin, Publish!AwaitDraft, Publish!Resolve, Publish!Lookup, PublishAsking
<1>2. \A l \in Publish!LinksInText : l = None \/ l \in Publish!Links
  BY PublishTexts
<1>3. ASSUME NEW at \in {"drafts", "resolve", "detail", "post"}, Publish!GoTo(at)
      PROVE  PublishOnward
  BY <1>1, <1>3, PublishGoes DEF PublishAsking
<1>4. CASE Publish!Begin
  BY <1>3, <1>4 DEF Publish!Begin
<1>5. CASE Publish!AwaitDraft
  BY <1>1, <1>2, <1>3, <1>5, PublishFinds DEF Publish!AwaitDraft
<1>6. CASE Publish!Resolve
  BY <1>1, <1>2, <1>3, <1>6, PublishFinds, PublishFails DEF Publish!Resolve
<1>7. CASE Publish!Lookup
  BY <1>1, <1>2, <1>3, <1>7, PublishFinds DEF Publish!Lookup
<1>8. QED
  BY <1>4, <1>5, <1>6, <1>7

\* So do the steps of the post.
LEMMA PublishPostSteps ==
  ASSUME Publish!Constants, PublishIInv, Publish!Post \/ Publish!PostLost \/ Publish!Delete
  PROVE  PublishOnward \/ PublishEnding
<1>1. run \in PublishRuns /\ PublishRunOK(run) /\ PostAttempts \in Nat
  BY DEF PublishIInv, PublishTyped, Publish!Constants
<1>2. ASSUME run.pc = "post", window' = window,
             \/ run' = [run EXCEPT !.endpoint = 2]
             \/ run.attempt < PostAttempts
                  /\ run' = [run EXCEPT !.attempt = @ + 1, !.endpoint = 1]
      PROVE  PublishOnward
  <2>1. run.attempt \in 1 .. PostAttempts /\ 1 \in 1 .. 2 /\ 2 \in 1 .. 2
    <3>1. run.attempt \in 1 .. PostAttempts
      BY <1>1 DEF PublishRuns
    <3>2. 1 \in 1 .. 2 /\ 2 \in 1 .. 2
      OBVIOUS
    <3>3. QED
      BY <3>1, <3>2
  <2>2. run' \in PublishRuns
    <3>1. CASE run' = [run EXCEPT !.endpoint = 2]
      BY <1>1, <2>1, <3>1 DEF PublishRuns
    <3>2. CASE run.attempt < PostAttempts /\ run' = [run EXCEPT !.attempt = @ + 1, !.endpoint = 1]
      <4>1. run.attempt + 1 \in 1 .. PostAttempts
        BY <1>1, <2>1, <3>2
      <4>2. QED
        BY <1>1, <2>1, <3>2, <4>1 DEF PublishRuns
    <3>3. QED
      BY <1>2, <3>1, <3>2
  <2>3. run'.pc = "post" /\ run'.link = run.link /\ run'.answer = run.answer
    BY <1>1, <1>2 DEF PublishRuns
  <2>4. QED
    BY <1>1, <1>2, <2>2, <2>3 DEF PublishOnward, PublishRunOK, PublishLooking
<1>3. CASE Publish!Post
  <2>1. run.pc = "post" /\ window' = window
    BY <1>3 DEF Publish!Post
  <2>2. ASSUME NEW l \in Publish!LinksInText \cup {"post"}, Publish!Answered(Publish!Text(l, {}))
        PROVE  PublishOnward
    <3>1. Publish!Text(l, {}).link \in Publish!Links \cup {None}
      BY PublishTexts DEF Publish!Links
    <3>2. QED
      BY <2>1, <2>2, <3>1, PublishAnsweredForm
  <2>3. ASSUME NEW t \in Publish!Refusals, Publish!Answered(t)
        PROVE  PublishOnward
    BY <2>1, <2>3, PublishTexts, PublishAnsweredForm
  <2>4. QED
    BY <1>2, <1>3, <2>1, <2>2, <2>3 DEF Publish!Post
<1>4. CASE Publish!PostLost
  <2>1. run.pc \in (PublishAsking \ {"open"}) \cup PublishLooking
    BY <1>4 DEF Publish!PostLost, PublishAsking
  <2>2. ASSUME run.pc = "post", window' = window, Publish!Answered(Publish!Text(None, {}))
        PROVE  PublishOnward
    <3>1. Publish!Text(None, {}).link \in Publish!Links \cup {None}
      BY PublishTexts
    <3>2. QED
      BY <2>2, <3>1, PublishAnsweredForm
  <2>3. QED
    BY <1>2, <1>4, <2>1, <2>2, PublishFails DEF Publish!PostLost
<1>5. CASE Publish!Delete
  <2>1. run.pc = "delete" /\ Publish!Leave("link", run.link)
    BY <1>5 DEF Publish!Delete, Publish!Found
  <2>2. run.link \in Publish!Links \cup {None} /\ run.pc \notin {"open", "over"}
    BY <1>1, <2>1 DEF PublishRunOK
  <2>3. QED
    BY <2>1, <2>2, PublishEnds
<1>6. QED
  BY <1>3, <1>4, <1>5

\* So do the steps that look for the link.
LEMMA PublishLookingSteps ==
  ASSUME Publish!Constants, PublishIInv,
         Publish!Wait \/ Publish!Search \/ Publish!SearchLists \/ Publish!SearchPage
           \/ Publish!Share \/ Publish!Press \/ Publish!Final
  PROVE  PublishOnward \/ PublishEnding
<1>1. /\ run.pc \in PublishLooking /\ run.pc \in (PublishAsking \ {"open"}) \cup PublishLooking
      /\ run.pc # "open"
  BY DEF Publish!Wait, Publish!Search, Publish!SearchLists, Publish!SearchPage,
     Publish!Share, Publish!Press, Publish!Final, PublishLooking
<1>2. \A l \in Publish!LinksInText : l = None \/ l \in Publish!Links
  BY PublishTexts
<1>3. ASSUME NEW at \in {"search", "lists", "page", "share", "press", "final"}, Publish!GoTo(at)
      PROVE  PublishOnward
  BY <1>1, <1>3, PublishGoes DEF PublishLooking
<1>4. CASE Publish!Wait
  BY <1>1, <1>2, <1>3, <1>4, PublishFinds DEF Publish!Wait
<1>5. CASE Publish!Search
  BY <1>1, <1>2, <1>3, <1>5, PublishFinds DEF Publish!Search
<1>10. CASE Publish!SearchLists
  BY <1>1, <1>2, <1>3, <1>10, PublishFinds DEF Publish!SearchLists
<1>6. CASE Publish!SearchPage
  BY <1>1, <1>2, <1>3, <1>6, PublishFinds DEF Publish!SearchPage
<1>7. CASE Publish!Share
  BY <1>1, <1>2, <1>3, <1>7, PublishFinds DEF Publish!Share
<1>8. CASE Publish!Press
  BY <1>1, <1>3, <1>8, PublishFails DEF Publish!Press
<1>9. CASE Publish!Final
  <2>1. heard \in Publish!Links \cup {None, "dropped"}
    BY DEF PublishIInv, PublishTyped
  <2>2. CASE heard = "dropped"
    BY <1>1, <1>9, <2>2, PublishFails DEF Publish!Final, Publish!Constants
  <2>3. CASE heard = None
    BY <1>1, <1>2, <1>9, <2>3, PublishFinds, PublishFails
       DEF Publish!Final, Publish!Constants
  <2>4. CASE heard \in Publish!Links
    BY <1>1, <1>9, <2>4, PublishFinds DEF Publish!Final, Publish!Constants, Publish!Links
  <2>5. QED
    BY <2>1, <2>2, <2>3, <2>4
<1>11. QED
  BY <1>4, <1>5, <1>6, <1>7, <1>8, <1>9, <1>10

\* Breaks is a step of one of the forms.
LEMMA PublishBreaksForm ==
  ASSUME Publish!Constants, PublishIInv, Publish!Breaks
  PROVE  PublishEnding
<1>1. /\ run \in PublishRuns /\ run.pc \notin {"open", "delete", "over"}
      /\ Publish!Leave("error", None)
  BY DEF Publish!Breaks, PublishIInv, PublishTyped
<1>2. run.pc \in (PublishAsking \ {"open"}) \cup PublishLooking
  BY <1>1 DEF PublishRuns, PublishAsking, PublishLooking
<1>3. QED
  BY <1>1, <1>2, PublishFails

-----------------------------------------------------------------------------
(* The invariant *)

\* What Sora, its users, the page and the listener may become.
LEMMA PublishWorldTyped ==
  ASSUME Publish!Constants, PublishIInv, Publish!Next
  PROVE  /\ sora' \in [draft : {"no", "draft", "generation"}, ready : BOOLEAN,
                       post : {"no", "up", "deleted"}]
         /\ heard' \in Publish!Links \cup {None, "dropped"} /\ UNCHANGED <<own, clean>>
<1>1. /\ sora \in [draft : {"no", "draft", "generation"}, ready : BOOLEAN,
                   post : {"no", "up", "deleted"}]
      /\ heard \in Publish!Links \cup {None, "dropped"}
  BY DEF PublishIInv, PublishTyped
<1>2. UNCHANGED <<own, clean>>
  BY DEF Publish!Next, Publish!SoraGoesOn, Publish!OthersPost, Publish!Hear, Publish!Step,
     Publish!Open, Publish!Begin, Publish!AwaitDraft, Publish!Resolve, Publish!Lookup,
         Publish!Post, Publish!PostLost, Publish!Delete, Publish!Wait, Publish!Search,
         Publish!SearchLists, Publish!SearchPage, Publish!Share, Publish!Press, Publish!Final,
         Publish!Breaks
<1>3. \/ UNCHANGED sora
      \/ \E p \in {"up", "deleted"} : sora' = [sora EXCEPT !.post = p]
      \/ \E d \in {"draft", "generation"} : sora' = [sora EXCEPT !.draft = d]
      \/ sora' = [sora EXCEPT !.ready = TRUE]
  BY DEF Publish!Next, Publish!SoraGoesOn, Publish!OthersPost, Publish!Hear, Publish!Step,
     Publish!Open, Publish!Begin, Publish!AwaitDraft, Publish!Resolve, Publish!Lookup,
         Publish!Post, Publish!PostLost, Publish!Delete, Publish!Wait, Publish!Search,
         Publish!SearchLists, Publish!SearchPage, Publish!Share, Publish!Press, Publish!Final,
         Publish!Breaks,
         Publish!MayBePosted, Publish!Posted
<1>4. heard' \in Publish!Links \cup {None, "dropped"}
  BY <1>1
     DEF Publish!Next, Publish!SoraGoesOn, Publish!OthersPost, Publish!Hear, Publish!Step,
         Publish!Open, Publish!Begin, Publish!AwaitDraft, Publish!Resolve,
         Publish!Lookup, Publish!Post, Publish!PostLost, Publish!Delete, Publish!Wait,
         Publish!Search, Publish!SearchLists, Publish!SearchPage, Publish!Share,
         Publish!Press, Publish!Final, Publish!Breaks, Publish!Links, Publish!LinksInText
<1>5. QED
  BY <1>1, <1>2, <1>3, <1>4

\* Every step keeps the invariant.
LEMMA PublishNextIInv ==
  ASSUME Publish!Constants, PublishIInv, [Publish!Next]_(Publish!vars)
  PROVE  PublishIInv'
<1>1. own \in BOOLEAN /\ clean \in BOOLEAN /\ window \in BOOLEAN /\ run \in PublishRuns
        /\ PublishRunOK(run) /\ PublishWindowOK
  BY DEF PublishIInv, PublishTyped
<1>2. /\ run' \in PublishRuns /\ PublishRunOK(run') /\ window' \in BOOLEAN
      /\ (Publish!Next => PublishWindowOK')
  <2>1. CASE PublishOnward /\ UNCHANGED own
    BY <1>1, <2>1 DEF PublishOnward, PublishWindowOK
  <2>2. CASE PublishEnding /\ UNCHANGED own
    BY <1>1, <2>2 DEF PublishEnding, PublishWindowOK
  <2>3. CASE Publish!Open /\ UNCHANGED own
    <3>1. \/ window' = TRUE /\ run' = [run EXCEPT !.pc = "begin"]
          \/ window' \in BOOLEAN /\ run' = [run EXCEPT !.pc = "over", !.end = "unopened"]
      BY <2>3 DEF Publish!Open
    <3>2. run.pc = "open" /\ own
      BY <1>1, <2>3 DEF Publish!Open, PublishWindowOK
    <3>3. /\ run' \in PublishRuns /\ run'.link = run.link /\ run'.answer = run.answer
          /\ run'.pc = "begin" \/ (run'.pc = "over" /\ run'.end = "unopened")
      BY <1>1, <3>1 DEF PublishRuns, PublishAsking
    <3>4. PublishRunOK(run')
      BY <1>1, <3>2, <3>3 DEF PublishRunOK, PublishAsking, PublishLooking
    <3>5. QED
      BY <1>1, <2>3, <3>1, <3>2, <3>3, <3>4 DEF PublishWindowOK
  <2>4. CASE UNCHANGED <<run, window, own>>
    BY <1>1, <2>4 DEF PublishWindowOK
  <2>5. ASSUME Publish!Step
        PROVE  PublishOnward \/ PublishEnding \/ Publish!Open
    BY <2>5, PublishAskingSteps, PublishPostSteps, PublishLookingSteps, PublishBreaksForm
       DEF Publish!Step
  <2>6. ASSUME Publish!SoraGoesOn \/ Publish!OthersPost \/ Publish!Hear \/ UNCHANGED Publish!vars
        PROVE  UNCHANGED <<run, window, own>>
    BY <2>6 DEF Publish!SoraGoesOn, Publish!OthersPost, Publish!Hear, Publish!vars
  <2>7. QED
    BY <2>1, <2>2, <2>3, <2>4, <2>5, <2>6, PublishWorldTyped DEF Publish!Next
<1>3. CASE Publish!Next
  BY <1>1, <1>2, <1>3, PublishWorldTyped DEF PublishIInv, PublishTyped
<1>4. CASE UNCHANGED Publish!vars
  BY <1>4 DEF Publish!vars, PublishIInv, PublishTyped, PublishWindowOK
<1>5. QED
  BY <1>3, <1>4

\* What the invariant says of the properties.
LEMMA PublishFacts ==
  ASSUME PublishIInv
  PROVE  /\ Publish!TypeOK /\ Publish!AnswerIsReturned /\ Publish!WindowIsReturned
BY PublishTypedIsTypeOK
   DEF PublishIInv, PublishRunOK, PublishWindowOK, Publish!AnswerIsReturned,
       Publish!WindowIsReturned

\* Once Sora has answered with a link, only the cleaning up is left: the step keeps the
\* answer and its link.
LEMMA PublishNextKeepsLink ==
  ASSUME PublishIInv, Publish!Next
  PROVE  Publish!LinkIsKept
<1> SUFFICES ASSUME run.answer = "link" PROVE run'.answer = "link" /\ run'.link = run.link
  BY DEF Publish!LinkIsKept
<1>1. run \in PublishRuns /\ run.pc \in {"delete", "over"}
  BY DEF PublishIInv, PublishTyped, PublishRunOK
<1>2. CASE Publish!Delete
  BY <1>1, <1>2 DEF Publish!Delete, Publish!Found, Publish!Leave, PublishRuns
<1>3. ASSUME Publish!Step
      PROVE  Publish!Delete
  BY <1>1, <1>3
     DEF Publish!Step, Publish!Open, Publish!Begin, Publish!AwaitDraft, Publish!Resolve,
         Publish!Lookup, Publish!Post, Publish!PostLost, Publish!Wait, Publish!Search,
         Publish!SearchLists, Publish!SearchPage, Publish!Share, Publish!Press,
         Publish!Final, Publish!Breaks
<1>4. CASE Publish!SoraGoesOn \/ Publish!OthersPost \/ Publish!Hear
  BY <1>4 DEF Publish!SoraGoesOn, Publish!OthersPost, Publish!Hear
<1>5. QED
  BY <1>2, <1>3, <1>4 DEF Publish!Next

\* No step of a run takes a post down but the cleaning up after an answer with its link.
LEMMA PublishNextSpares ==
  ASSUME PublishIInv, Publish!Next
  PROVE  Publish!OnlyAnsweredIsDeleted
<1> SUFFICES ASSUME run' # run, sora.post = "up", sora'.post # "up"
             PROVE  clean /\ run.answer = "link" /\ run.link = "post"
  BY DEF Publish!OnlyAnsweredIsDeleted
<1>1. sora \in [draft : {"no", "draft", "generation"}, ready : BOOLEAN,
                post : {"no", "up", "deleted"}]
  BY DEF PublishIInv, PublishTyped
<1>2. ~ Publish!Posted /\ ~ UNCHANGED sora
  BY <1>1 DEF Publish!Posted
<1>3. Publish!Step
  BY DEF Publish!Next, Publish!SoraGoesOn, Publish!OthersPost, Publish!Hear
<1>4. Publish!Delete
  BY <1>2, <1>3
     DEF Publish!Step, Publish!Open, Publish!Begin, Publish!AwaitDraft, Publish!Resolve,
         Publish!Lookup, Publish!Post, Publish!PostLost, Publish!Wait, Publish!Search,
         Publish!SearchLists, Publish!SearchPage, Publish!Share, Publish!Press,
         Publish!Final, Publish!Breaks, Publish!MayBePosted
<1>5. run.answer = "link"
  BY <1>4 DEF Publish!Delete, PublishIInv, PublishRunOK
<1>6. QED
  BY <1>2, <1>4, <1>5 DEF Publish!Delete

-----------------------------------------------------------------------------
(* One job of the older interface: CompatJobs *)

CompatStates == {"queued", "running", "completed", "failed"}
CompatRows   == [status : CompatStates, task : BOOLEAN, gen : BOOLEAN, publish : CompatStates,
                 url : Compat!Links \cup {None}]
CompatMakers == [pc : {"spawned", "run", "publish", "again", "over"}, try : 0 .. MaxTries,
                 gen : BOOLEAN]
CompatEnds   == [pc : {"spawned", "try", "over"}, try : 0 .. MaxTries]
CompatSearch == [pc : {"search", "over"}, page : BOOLEAN, mine : BOOLEAN, late : BOOLEAN]

CompatTyped ==
  /\ row \in CompatRows /\ maker \in CompatMakers /\ pub \in [Pubs -> CompatEnds]
  /\ fetch \in CompatSearch
  /\ window \in BOOLEAN /\ restarts \in 0 .. MaxRestarts

\* The type invariant, in the form the provers take.
LEMMA CompatTypedIsTypeOK == CompatTyped <=> Compat!TypeOK
BY DEF CompatTyped, Compat!TypeOK, CompatRows, CompatStates, CompatMakers, CompatEnds,
   CompatSearch

\* No user publishes.
CompatQuiet == \A p \in Pubs : pub[p].pc = "over"

\* Why a user who looks at the row never publishes beside the job: until its first
\* publication the job is not completed, and while it publishes the row says so.
CompatAloneInv ==
  /\ maker.pc \in {"spawned", "run", "publish"} => row.status # "completed" /\ CompatQuiet
  /\ maker.pc = "again" => row.publish = "running" /\ CompatQuiet

\* The inductive invariant.
CompatIInv == CompatTyped /\ CompatAloneInv /\ Compat!CompletedHasLink

\* A link of a post is kept from this step to the next.
CompatKeeps == row.url = "post" => row'.url # None

\* The invariant holds at first.
LEMMA CompatInitIInv ==
  ASSUME Compat!Constants
  PROVE  Compat!Init => CompatIInv
<1> SUFFICES ASSUME Compat!Init PROVE CompatIInv
  OBVIOUS
<1>1. row \in CompatRows
  BY DEF Compat!Init, CompatRows, CompatStates
<1>2. maker \in CompatMakers /\ restarts \in 0 .. MaxRestarts
  BY DEF Compat!Constants, Compat!Init, CompatMakers
<1>3. Compat!Resting \in CompatEnds /\ Compat!NoSearch \in CompatSearch
  BY DEF Compat!Constants, CompatEnds, Compat!Resting, CompatSearch, Compat!NoSearch
<1>4. pub \in [Pubs -> CompatEnds] /\ fetch \in CompatSearch /\ window \in BOOLEAN
  BY <1>3 DEF Compat!Init
<1>5. CompatQuiet
  BY DEF Compat!Init, CompatQuiet, Compat!Resting
<1>6. CompatAloneInv /\ Compat!CompletedHasLink
  BY <1>5 DEF Compat!Init, CompatAloneInv, Compat!CompletedHasLink
<1>7. QED
  BY <1>1, <1>2, <1>4, <1>6 DEF CompatIInv, CompatTyped

-----------------------------------------------------------------------------
(* One try of a publication *)

\* What a try may leave in the row: where it ends, and what it leaves of the link.
LEMMA CompatTryRow ==
  ASSUME Compat!Constants, CompatIInv, NEW this, NEW next, Compat!TryEnds(this, next)
  PROVE  /\ row' \in CompatRows /\ Compat!CompletedHasLink' /\ CompatKeeps
         /\ row'.status = row.status
<1> USE DEF Compat!Constants, CompatIInv, CompatTyped, CompatRows, CompatStates, Compat!Links,
            Compat!CompletedHasLink, CompatKeeps
<1>1. CASE \E l \in Compat!Links : row' = [row EXCEPT !.publish = "completed", !.url = l]
  BY <1>1
<1>2. CASE \E s \in {"failed", "running"} : row' = [row EXCEPT !.publish = s]
  BY <1>2
<1>3. CASE UNCHANGED row
  BY <1>3
<1>4. QED
  BY <1>1, <1>2, <1>3 DEF Compat!TryEnds

\* How it goes on: another try, which the row says, or none.
LEMMA CompatTryNext ==
  ASSUME Compat!Constants, CompatIInv, NEW this, NEW next, Compat!TryEnds(this, next),
         this \in CompatMakers \/ this \in CompatEnds
  PROVE  /\ this \in CompatMakers => next \in CompatMakers
         /\ this \in CompatEnds => next \in CompatEnds
         /\ next.pc = "over" \/ (next.pc = this.pc /\ row'.publish = "running")
<1> USE DEF Compat!Constants, CompatMakers, CompatEnds
<1>1. CASE next = [this EXCEPT !.pc = "over"]
  BY <1>1
<1>2. CASE /\ this.try < MaxTries /\ next = [this EXCEPT !.try = @ + 1]
           /\ row' = [row EXCEPT !.publish = "running"]
  <2>1. this.try + 1 \in 0 .. MaxTries
    BY <1>2
  <2>2. row'.publish = "running"
    BY <1>2 DEF CompatIInv, CompatTyped, CompatRows
  <2>3. QED
    BY <1>2, <2>1, <2>2
<1>3. QED
  BY <1>1, <1>2 DEF Compat!TryEnds

-----------------------------------------------------------------------------
(* The steps of the job *)

\* Make keeps the invariant.
LEMMA CompatMakeIInv ==
  ASSUME Compat!Constants, CompatIInv, Compat!Make
  PROVE  CompatIInv' /\ CompatKeeps
<1>1. row' \in CompatRows /\ Compat!CompletedHasLink' /\ CompatKeeps
  <2> USE DEF Compat!Constants, CompatIInv, CompatTyped, CompatRows, CompatStates, Compat!Links,
              Compat!CompletedHasLink, CompatKeeps
  <2>1. CASE Compat!Begin \/ Compat!Submit \/ Compat!Generated
    BY <2>1 DEF Compat!Begin, Compat!Submit, Compat!Generated
  <2>2. CASE Compat!Fail
    <3>1. row.status # "completed" /\ maker.gen \in BOOLEAN
      BY <2>2 DEF Compat!Fail, CompatAloneInv, CompatMakers
    <3>2. QED
      BY <2>2, <3>1 DEF Compat!Fail
  <2>3. CASE Compat!FirstPublication
    <3>1. CASE \E l \in Compat!Links :
            row' = [row EXCEPT !.status = "completed", !.publish = "completed", !.url = l]
      BY <3>1
    <3>2. CASE \E s \in {"failed", "running"} :
            row' = [row EXCEPT !.status = "completed", !.publish = s]
      BY <3>2
    <3>3. CASE UNCHANGED row
      BY <3>3
    <3>4. QED
      BY <2>3, <3>1, <3>2, <3>3 DEF Compat!FirstPublication
  <2>4. CASE Compat!PublishAgain
    BY <2>4, CompatTryRow DEF Compat!PublishAgain
  <2>5. QED
    BY <2>1, <2>2, <2>3, <2>4 DEF Compat!Make
<1>2. UNCHANGED <<pub, fetch, restarts>> /\ window' \in BOOLEAN
  BY DEF Compat!Make, Compat!Begin, Compat!Submit, Compat!Generated, Compat!Fail,
     Compat!FirstPublication, Compat!PublishAgain, CompatIInv, CompatTyped
<1>3. maker' \in CompatMakers
  <2>1. maker \in CompatMakers /\ 1 \in 0 .. MaxTries
    BY DEF Compat!Constants, CompatIInv, CompatTyped
  <2>2. CASE Compat!PublishAgain
    BY <2>1, <2>2, CompatTryNext DEF Compat!PublishAgain
  <2>3. CASE Compat!Begin \/ Compat!Submit \/ Compat!Generated \/ Compat!Fail
             \/ Compat!FirstPublication
    BY <2>1, <2>3
       DEF Compat!Begin, Compat!Submit, Compat!Generated, Compat!Fail, Compat!FirstPublication,
           CompatMakers
  <2>4. QED
    BY <2>2, <2>3 DEF Compat!Make
<1>4. CompatAloneInv'
  <2>1. maker \in CompatMakers /\ row \in CompatRows /\ (CompatQuiet <=> CompatQuiet')
    BY <1>2 DEF CompatIInv, CompatTyped, CompatQuiet
  <2>2. CASE Compat!Begin \/ Compat!Submit \/ Compat!Generated
    BY <2>1, <2>2
       DEF Compat!Begin, Compat!Submit, Compat!Generated, CompatIInv, CompatAloneInv,
           CompatMakers, CompatRows
  <2>3. CASE Compat!Fail
    BY <2>1, <2>3 DEF Compat!Fail, CompatAloneInv, CompatMakers
  <2>4. CASE Compat!FirstPublication
    BY <2>1, <2>4
       DEF Compat!FirstPublication, CompatIInv, CompatAloneInv, CompatMakers, CompatRows
  <2>5. CASE Compat!PublishAgain
    <3>1. CompatQuiet /\ maker.pc = "again"
      BY <2>5 DEF Compat!PublishAgain, CompatIInv, CompatAloneInv
    <3>2. maker'.pc = "over" \/ (maker'.pc = "again" /\ row'.publish = "running")
      BY <2>1, <2>5, <3>1, CompatTryNext DEF Compat!PublishAgain
    <3>3. QED
      BY <2>1, <3>1, <3>2 DEF CompatAloneInv
  <2>6. QED
    BY <2>2, <2>3, <2>4, <2>5 DEF Compat!Make
<1>5. QED
  BY <1>1, <1>2, <1>3, <1>4 DEF CompatIInv, CompatTyped

-----------------------------------------------------------------------------
(* The steps of users, of a search and of the process *)

\* What users do keeps the invariant.
LEMMA CompatUsersIInv ==
  ASSUME Compat!Constants, CompatIInv, NEW p \in Pubs,
         Compat!Publish(p) \/ Compat!Retry(p) \/ Compat!BeginRetry(p)
  PROVE  CompatIInv' /\ CompatKeeps
<1>1. maker.pc = "over"
  BY DEF Compat!Publish, Compat!Retry, Compat!MayRetry, Compat!BeginRetry, CompatIInv,
     CompatTyped, CompatMakers, CompatAloneInv, CompatQuiet
<1>2. UNCHANGED <<maker, fetch, restarts>> /\ window' \in BOOLEAN
  BY DEF Compat!Publish, Compat!Retry, Compat!BeginRetry, CompatIInv, CompatTyped
<1>3. row' \in CompatRows /\ Compat!CompletedHasLink' /\ CompatKeeps
  <2>1. CASE Compat!Publish(p)
    BY <2>1, CompatTryRow DEF Compat!Publish
  <2>2. CASE Compat!Retry(p)
    BY <2>2
       DEF Compat!Retry, Compat!Valid, Compat!Constants, CompatIInv, CompatTyped, CompatRows,
           CompatStates, Compat!Links, Compat!CompletedHasLink, CompatKeeps
  <2>3. CASE Compat!BeginRetry(p)
    BY <2>3
       DEF Compat!BeginRetry, Compat!Constants, CompatIInv, CompatTyped, CompatRows, CompatStates,
           Compat!Links, Compat!CompletedHasLink, CompatKeeps
  <2>4. QED
    BY <2>1, <2>2, <2>3
<1>4. pub' \in [Pubs -> CompatEnds]
  <2>1. pub \in [Pubs -> CompatEnds]
    BY DEF CompatIInv, CompatTyped
  <2>2. CASE Compat!Publish(p)
    BY <2>1, <2>2 DEF Compat!Publish, CompatEnds
  <2>3. CASE Compat!Retry(p)
    BY <2>1, <2>3 DEF Compat!Retry, CompatEnds, Compat!Constants
  <2>4. CASE Compat!BeginRetry(p)
    <3>1. 1 \in 0 .. MaxTries
      BY DEF Compat!Constants
    <3>2. \E e \in CompatEnds : pub' = [pub EXCEPT ![p] = e]
      BY <2>1, <2>4, <3>1 DEF Compat!BeginRetry, CompatEnds
    <3>3. QED
      BY <2>1, <3>2
  <2>5. QED
    BY <2>2, <2>3, <2>4
<1>5. CompatAloneInv'
  BY <1>1, <1>2 DEF CompatAloneInv
<1>6. QED
  BY <1>2, <1>3, <1>4, <1>5 DEF CompatIInv, CompatTyped

\* The other steps keep the invariant.
LEMMA CompatOthersIInv ==
  ASSUME Compat!Constants, CompatIInv,
         Compat!Restart \/ Compat!Tick \/ Compat!FetchAsked \/ Compat!FetchConnects
           \/ Compat!FetchFinds \/ Compat!FetchLosesPage
           \/ Compat!FetchGivesUp \/ UNCHANGED Compat!vars
  PROVE  CompatIInv' /\ CompatKeeps
<1>1. row' \in CompatRows /\ row'.status = row.status /\ row'.publish = row.publish
        /\ row'.url = row.url
  <2>1. CASE row' = [row EXCEPT !.gen = TRUE]
    BY <2>1 DEF CompatIInv, CompatTyped, CompatRows
  <2>2. CASE UNCHANGED row
    BY <2>2 DEF CompatIInv, CompatTyped
  <2>3. QED
    BY <2>1, <2>2
       DEF Compat!Restart, Compat!Tick, Compat!FetchAsked, Compat!FetchConnects,
           Compat!FetchFinds, Compat!FetchLosesPage,
                      Compat!FetchGivesUp, Compat!vars
<1>2. fetch' \in CompatSearch
  <2>1. fetch \in CompatSearch /\ Compat!NoSearch \in CompatSearch
    BY DEF CompatIInv, CompatTyped, CompatSearch, Compat!NoSearch
  <2>2. QED
    BY <2>1
       DEF Compat!Restart, Compat!Tick, Compat!FetchAsked, Compat!FetchConnects,
           Compat!FetchFinds, Compat!FetchLosesPage,
                Compat!FetchGivesUp, Compat!vars, CompatSearch, Compat!NoSearch
<1>3. window' \in BOOLEAN /\ restarts' \in 0 .. MaxRestarts
  <2>1. window \in BOOLEAN /\ restarts \in 0 .. MaxRestarts
    BY DEF CompatIInv, CompatTyped
  <2>2. CASE Compat!Restart
    BY <2>1, <2>2 DEF Compat!Restart, Compat!Constants
  <2>3. CASE UNCHANGED restarts /\ (UNCHANGED window \/ window' = TRUE \/ Compat!FetchGivesUp)
    BY <2>1, <2>3 DEF Compat!FetchGivesUp
  <2>4. QED
    BY <2>2, <2>3
       DEF Compat!Tick, Compat!FetchAsked, Compat!FetchConnects, Compat!FetchFinds,
           Compat!FetchLosesPage,
                      Compat!FetchGivesUp, Compat!vars
<1>4. maker' \in CompatMakers /\ pub' \in [Pubs -> CompatEnds] /\ CompatAloneInv'
  <2>1. CASE Compat!Restart
    <3>1. Compat!Resting \in CompatEnds
      BY DEF Compat!Resting, CompatEnds, Compat!Constants
    <3>2. QED
      BY <2>1, <3>1 DEF Compat!Restart, CompatIInv, CompatTyped, CompatMakers, CompatAloneInv
  <2>2. CASE UNCHANGED <<maker, pub>>
    BY <1>1, <2>2 DEF CompatIInv, CompatTyped, CompatAloneInv, CompatQuiet
  <2>3. QED
    BY <2>1, <2>2
       DEF Compat!Tick, Compat!FetchAsked, Compat!FetchConnects, Compat!FetchFinds,
           Compat!FetchLosesPage,
                      Compat!FetchGivesUp, Compat!vars
<1>5. Compat!CompletedHasLink' /\ CompatKeeps
  BY <1>1 DEF Compat!Constants, Compat!Links, CompatIInv, Compat!CompletedHasLink, CompatKeeps
<1>6. QED
  BY <1>1, <1>2, <1>3, <1>4, <1>5 DEF CompatIInv, CompatTyped

\* Every step keeps the invariant.
LEMMA CompatNextIInv ==
  ASSUME Compat!Constants, CompatIInv, [Compat!Next]_(Compat!vars)
  PROVE  CompatIInv' /\ CompatKeeps
BY CompatMakeIInv, CompatUsersIInv, CompatOthersIInv DEF Compat!Next

\* What the invariant says of the properties.
LEMMA CompatFacts ==
  ASSUME CompatIInv
  PROVE  Compat!TypeOK /\ Compat!MakerPublishesAlone /\ Compat!CompletedHasLink
BY CompatTypedIsTypeOK DEF CompatIInv, CompatAloneInv, CompatQuiet, Compat!MakerPublishesAlone
=============================================================================
