--------------------------- MODULE SilentRefresh ---------------------------
(***************************************************************************)
(* Refreshing the accounts of a group in the background                    *)
(* (app/services/ixbrowser/silent_refresh.py, scan.py) and the event       *)
(* stream on which pages follow a refresh (app/api/ixbrowser.py).          *)
(*                                                                         *)
(* One server process; its tasks interleave where they await. A restart    *)
(* drops the tasks and the streams and keeps the table.                    *)
(***************************************************************************)
EXTENDS Naturals

CONSTANTS
  Groups,      \* groups of windows
  MaxJobs,     \* bound on the refreshes asked for
  MaxWindows,  \* bound on the windows of a group
  Clients,     \* open pages
  None         \* no group, no run, nothing seen

Constants == MaxJobs \in Nat /\ MaxWindows \in Nat

VARIABLES
  up,     \* is the server running
  row,    \* table ixbrowser_silent_refresh_jobs
  task,   \* _run_silent_refresh_job of a row, and its local counters
  stream  \* event stream of a client: what it follows, saw and was told last

vars == <<up, row, task, stream>>

Keys == 1 .. MaxJobs
Open == {"queued", "running"}
Over == {"completed", "failed"}

Row ==
  [group : Groups \cup {None}, status : {"absent"} \cup Open \cup Over,
   total : Nat, processed : Nat, ok : Nat, bad : Nat, saved : BOOLEAN, finished : BOOLEAN]
Task ==
  [pc : {"none", "begin", "list", "next", "api", "browser", "save"},
   total : Nat, ok : Nat, bad : Nat]
Views == [status : Open \cup Over, processed : Nat, ok : Nat, bad : Nat, saved : BOOLEAN]
Stream ==
  [job : Keys \cup {None}, seen : {None} \cup Views,
   told : {"none", "snapshot", "progress", "done"}]

NoRow    == [group |-> None, status |-> "absent", total |-> 0, processed |-> 0,
             ok |-> 0, bad |-> 0, saved |-> FALSE, finished |-> FALSE]
NoTask   == [pc |-> "none", total |-> 0, ok |-> 0, bad |-> 0]
NoStream == [job |-> None, seen |-> None, told |-> "none"]

IsOpen(j) == row[j].status \in Open
IsOver(j) == row[j].status \in Over

Init ==
  /\ up = TRUE
  /\ row = [j \in Keys |-> NoRow]
  /\ task = [j \in Keys |-> NoTask]
  /\ stream = [c \in Clients |-> NoStream]

-----------------------------------------------------------------------------
\* start_silent_refresh: nothing is awaited between the look for an open refresh of
\* the group and the insertion of a new one. An open one is handed out again, which
\* changes nothing.
\* Mutant: only refreshes that have begun are found.
RunningOf(g) == {j \in Keys : row[j].group = g /\ row[j].status = "running"}

OpenOf(g) == {j \in Keys : row[j].group = g /\ IsOpen(j)}

Ask(g) ==
  /\ up /\ OpenOf(g) = {}
  /\ \E j \in Keys :
       /\ row[j] = NoRow /\ \A i \in 1 .. j - 1 : row[i] # NoRow
       /\ row' = [row EXCEPT ![j] = [NoRow EXCEPT !.group = g, !.status = "queued"]]
       /\ task' = [task EXCEPT ![j].pc = "begin"]
  /\ UNCHANGED <<up, stream>>

\* The task begins.
Begin(j) ==
  /\ task[j].pc = "begin"
  /\ row' = [row EXCEPT ![j].status = "running"]
  /\ task' = [task EXCEPT ![j].pc = "list"]
  /\ UNCHANGED <<up, stream>>

\* _apply_progress: the status and the counters are written whatever the row says.
Reported(r, t, status) ==
  [r EXCEPT !.status = status, !.total = t.total, !.processed = t.ok + t.bad,
            !.ok = t.ok, !.bad = t.bad]

\* The windows of the group have been listed; there may be none.
List(j) ==
  /\ task[j].pc = "list"
  /\ \E n \in 0 .. MaxWindows :
       LET t == [task[j] EXCEPT !.pc = "next", !.total = n] IN
       /\ task' = [task EXCEPT ![j] = t]
       /\ row' = [row EXCEPT ![j] = Reported(@, t, "running")]
  /\ UNCHANGED <<up, stream>>

\* The next window: it is asked over HTTP if a token is known, else opened.
NextWindow(j) ==
  /\ task[j].pc = "next" /\ task[j].ok + task[j].bad < task[j].total
  /\ row' = [row EXCEPT ![j] = Reported(@, task[j], "running")]
  /\ \E pc \in {"api", "browser"} : task' = [task EXCEPT ![j].pc = pc]
  /\ UNCHANGED <<up, stream>>

\* A challenge page or a token that is refused sends the window to the browser.
FallBack(j) ==
  /\ task[j].pc = "api"
  /\ task' = [task EXCEPT ![j].pc = "browser"]
  /\ UNCHANGED <<up, row, stream>>

\* Any answer but 200 with a session, and any error, is a failed window.
WindowDone(j) ==
  /\ task[j].pc \in {"api", "browser"}
  /\ \E t \in {[task[j] EXCEPT !.pc = "next", !.ok = @ + 1],
               [task[j] EXCEPT !.pc = "next", !.bad = @ + 1]} :
       /\ task' = [task EXCEPT ![j] = t]
       /\ row' = [row EXCEPT ![j] = Reported(@, t, "running")]
  /\ UNCHANGED <<up, stream>>

\* All windows are read: save a scan, fill its gaps, report, and write the final row.
\* From the saving to the final row nothing is awaited.
Complete(j) ==
  /\ task[j].pc = "next" /\ task[j].ok + task[j].bad = task[j].total
  /\ row' = [row EXCEPT ![j] = [Reported(@, task[j], "completed") EXCEPT
                                  !.processed = task[j].total,
                                  !.saved = TRUE, !.finished = TRUE]]
  /\ task' = [task EXCEPT ![j] = NoTask]
  /\ UNCHANGED <<up, stream>>

\* ixBrowser does not answer, the group is unknown, Playwright does not start, the
\* scan cannot be saved.
Fail(j) ==
  /\ task[j].pc \notin {"none", "begin"}
  /\ row' = [row EXCEPT ![j].status = "failed", ![j].finished = TRUE]
  /\ task' = [task EXCEPT ![j] = NoTask]
  /\ UNCHANGED <<up, stream>>

-----------------------------------------------------------------------------
\* The event stream

\* What the stream compares. It also compares the time of the last write, in seconds;
\* the total is written together with it and is not compared itself.
Fingerprint(j) ==
  [status |-> row[j].status, processed |-> row[j].processed, ok |-> row[j].ok,
   bad |-> row[j].bad, saved |-> row[j].saved]

Follow(c, j) ==
  /\ up /\ stream[c].job = None /\ row[j] # NoRow
  /\ stream' = [stream EXCEPT ![c] =
       [job |-> j, seen |-> Fingerprint(j),
        told |-> IF IsOver(j) THEN "done" ELSE "snapshot"]]
  /\ UNCHANGED <<up, row, task>>

Live(c) == stream[c].job # None /\ stream[c].told # "done"

\* Mutant: the end is told when all windows are counted.
PollByCount(c) ==
  /\ Live(c)
  /\ LET j == stream[c].job IN
     /\ Fingerprint(j) # stream[c].seen
     /\ stream' = [stream EXCEPT ![c].seen = Fingerprint(j),
                                 ![c].told = IF IsOver(j) \/ row[j].processed = row[j].total
                                             THEN "done" ELSE "progress"]
  /\ UNCHANGED <<up, row, task>>

\* Mutant: a refresh that failed does not end the stream.
PollCompleted(c) ==
  /\ Live(c)
  /\ LET j == stream[c].job IN
     /\ Fingerprint(j) # stream[c].seen
     /\ stream' = [stream EXCEPT ![c].seen = Fingerprint(j),
                                 ![c].told = IF row[j].status = "completed" THEN "done" ELSE "progress"]
  /\ UNCHANGED <<up, row, task>>

Poll(c) ==
  /\ Live(c)
  /\ LET j == stream[c].job IN
     /\ Fingerprint(j) # stream[c].seen
     /\ stream' = [stream EXCEPT ![c].seen = Fingerprint(j),
                                 ![c].told = IF IsOver(j) THEN "done" ELSE "progress"]
  /\ UNCHANGED <<up, row, task>>

Leave(c) ==
  /\ stream[c].job # None
  /\ stream' = [stream EXCEPT ![c] = NoStream]
  /\ UNCHANGED <<up, row, task>>

-----------------------------------------------------------------------------
\* The process stops or dies: tasks and connections are gone.
Stop ==
  /\ up /\ up' = FALSE
  /\ task' = [j \in Keys |-> NoTask]
  /\ stream' = [c \in Clients |-> IF Live(c) THEN NoStream ELSE stream[c]]
  /\ UNCHANGED row

\* Mutant: every row is failed.
StartFailsAll ==
  /\ ~up /\ up' = TRUE
  /\ row' = [j \in Keys |-> IF row[j] = NoRow THEN NoRow
                            ELSE [row[j] EXCEPT !.status = "failed", !.finished = TRUE]]
  /\ UNCHANGED <<task, stream>>

\* Startup fails every open row, before requests are served.
Start ==
  /\ ~up /\ up' = TRUE
  /\ row' = [j \in Keys |-> IF IsOpen(j)
                            THEN [row[j] EXCEPT !.status = "failed", !.finished = TRUE]
                            ELSE row[j]]
  /\ UNCHANGED <<task, stream>>

Step(j) == Begin(j) \/ List(j) \/ NextWindow(j) \/ FallBack(j) \/ WindowDone(j)
             \/ Complete(j) \/ Fail(j)

Next ==
  \/ Stop \/ Start
  \/ \E g \in Groups : Ask(g)
  \/ \E j \in Keys : Step(j) \/ \E c \in Clients : Follow(c, j)
  \/ \E c \in Clients : Poll(c) \/ Leave(c)

Spec == Init /\ [][Next]_vars

\* The event loop goes on; requests to Sora and the opening of a window have timeouts.
Fairness ==
  /\ \A j \in Keys : WF_vars(Step(j))
  /\ \A c \in Clients : WF_vars(Poll(c))
FairSpec == Spec /\ Fairness

-----------------------------------------------------------------------------
(* Properties *)

TypeOK ==
  /\ up \in BOOLEAN
  /\ \A j \in Keys : row[j] \in Row /\ task[j] \in Task
  /\ \A c \in Clients : stream[c] \in Stream

\* One refresh of a group at a time, and none that nobody works on: a request is
\* never handed a refresh that cannot end.
OneWorkedOn ==
  \A g \in Groups :
    /\ up => \A j \in OpenOf(g) : task[j].pc # "none"
    /\ \A i, j \in Keys :
         row[i].group = g /\ row[j].group = g /\ task[i].pc # "none" /\ task[j].pc # "none"
           => i = j

\* A page that was told the end has seen the end: the row does not change any more,
\* and its counters add up.
ToldTheEnd ==
  \A c \in Clients : stream[c].told = "done" =>
    LET r == row[stream[c].job] IN
    /\ Fingerprint(stream[c].job) = stream[c].seen /\ r.finished
    /\ r.ok + r.bad <= r.total
    /\ r.status = "completed" => r.saved /\ r.processed = r.total /\ r.ok + r.bad = r.total

\* What is shown of a refresh only grows, over failures and restarts.
ProgressGrows ==
  [][\A j \in Keys : /\ row'[j].processed >= row[j].processed
                     /\ row'[j].ok >= row[j].ok /\ row'[j].bad >= row[j].bad
                     /\ IsOver(j) => row'[j] = row[j]]_vars

\* A page that stays is told the end.
StreamEnds == \A c \in Clients : Live(c) ~> ~Live(c)
=============================================================================
