------------------------------ MODULE TaskPoll ------------------------------
(***************************************************************************)
(* Following one task at Sora from its acceptance to its end               *)
(* (app/services/ixbrowser/sora_generation_workflow.py and the polls of    *)
(* sora_publish_workflow.py).                                              *)
(*                                                                         *)
(* A poll is several requests, between which Sora goes on: two lists of    *)
(* pending tasks, then the drafts, asked again after growing pauses. It is *)
(* made over the proxy of the account with the window closed, until Sora   *)
(* answers with a challenge; from then on in a page of the window, which   *)
(* other users of the window may close.                                    *)
(***************************************************************************)
EXTENDS Integers

CONSTANTS
  MaxTime,        \* generate_timeout_seconds
  DraftTries,     \* how often the drafts are asked in one poll
  MaxReconnects,  \* pages opened again before the task is given up
  Full,           \* progress of a finished task; Sora counts 0, 1, ..., Full
  None            \* no progress in the answer

Constants == MaxTime \in Nat \ {0} /\ DraftTries \in Nat \ {0}
               /\ MaxReconnects \in Nat /\ Full \in Nat \ {0} /\ None \notin Int

VARIABLES
  task,      \* the task at Sora: where it is listed, how far it is
  canceled,  \* has a user canceled the job
  clock,     \* time since the polls began
  window,    \* is the window of the account open
  poll,      \* the coroutine: next request, way, what this poll has read
  shown,     \* progress of the job's row
  end        \* how the polls ended

vars == <<task, canceled, clock, window, poll, shown, end>>

Progress == 0 .. Full
Higher(a, b) == IF a > b THEN a ELSE b

Init ==
  /\ task = [at |-> "new", progress |-> 0]
  /\ canceled = FALSE /\ clock = 0 /\ window = TRUE /\ shown = 0 /\ end = "none"
  /\ poll = [pc |-> "start", via |-> "proxy", read |-> None, try |-> 0, reconnects |-> 0]

-----------------------------------------------------------------------------
(* Sora and the rest of the world *)

\* Accepted, listed as pending, gone from there, a draft, a draft with a generation.
\* It may fail while pending, and the draft may be one of a rejected video.
SoraGoesOn ==
  /\ \/ task.at = "new" /\ task' = [task EXCEPT !.at = "pending"]
     \/ /\ task.at = "pending"
        /\ \/ task.progress < Full /\ task' = [task EXCEPT !.progress = @ + 1]
           \/ task.progress = Full /\ task' = [task EXCEPT !.at = "gone"]
           \/ task' = [task EXCEPT !.at = "failed"]
     \/ task.at = "gone" /\ \E a \in {"draft", "rejected"} : task' = [task EXCEPT !.at = a]
     \/ task.at = "draft" /\ task' = [task EXCEPT !.at = "drafted"]
  /\ UNCHANGED <<canceled, clock, window, poll, shown, end>>

Tick ==
  /\ clock < MaxTime /\ clock' = clock + 1
  /\ UNCHANGED <<task, canceled, window, poll, shown, end>>

Cancel ==
  /\ canceled' = TRUE
  /\ UNCHANGED <<task, clock, window, poll, shown, end>>

\* A scan or a publication that used the same window has closed it.
ClosedByAnother ==
  /\ poll.via = "page" /\ window /\ window' = FALSE
  /\ UNCHANGED <<task, canceled, clock, poll, shown, end>>

-----------------------------------------------------------------------------
(* How a poll ends *)

\* The window is closed however the coroutine ends.
Over(e) ==
  /\ poll' = [poll EXCEPT !.pc = "over"] /\ end' = e /\ window' = FALSE

GoOn == end' = end /\ window' = window

\* Mutant: the estimate reaches the end.
EstimateAll == (clock * Full) \div MaxTime

\* Without an answer the time that has passed is shown, at most 95 percent.
Estimate == IF clock < MaxTime THEN (clock * Full) \div MaxTime ELSE Full - 1

\* Mutant: what was read.
ShowRaw(read) == shown' = IF read = None THEN Estimate ELSE read

\* What was read, or the estimate, but never less than before.
Show(read) == shown' = Higher(shown, IF read = None THEN Estimate ELSE read)

StillWorking(read) == Show(read) /\ poll' = [poll EXCEPT !.pc = "sleep"] /\ GoOn
Failed(read)       == Show(read) /\ Over("failed")
Completed          == Show(Full) /\ Over("completed")

\* A challenge moves the polls from the proxy into a page; in a page it is ignored.
Challenged ==
  \/ /\ poll.via = "proxy"
     /\ poll' = [poll EXCEPT !.pc = "reconnect", !.via = "page", !.reconnects = 0]
     /\ GoOn /\ UNCHANGED shown
  \/ /\ poll.via = "page"
     /\ StillWorking(IF poll.read = None THEN 0 ELSE poll.read)

\* The page is gone: it is opened again, a few times.
PageLost ==
  /\ UNCHANGED shown
  /\ \/ /\ poll.reconnects < MaxReconnects
        /\ poll' = [poll EXCEPT !.pc = "reconnect", !.reconnects = @ + 1]
        /\ GoOn
     \/ poll.reconnects >= MaxReconnects /\ Over("lost")

PageIsGone == poll.via = "page" /\ ~window

-----------------------------------------------------------------------------
(* The coroutine *)

\* Mutant: the window is kept.
BeginInWindow ==
  /\ poll.pc = "start"
  /\ poll' = [poll EXCEPT !.pc = "wait"]
  /\ UNCHANGED <<window, task, canceled, clock, shown, end>>

\* While the proxy serves, the window is left to others.
Begin ==
  /\ poll.pc = "start"
  /\ poll' = [poll EXCEPT !.pc = "wait"]
  /\ window' = FALSE
  /\ UNCHANGED <<task, canceled, clock, shown, end>>

\* Mutant: an off-by-one in the comparison.
TimedOutLate == clock > MaxTime

TimedOut == clock >= MaxTime

\* The top of the loop. The flag fetch_drafts that is computed here changes nothing:
\* the drafts are asked exactly when no unfinished task was found.
NextPoll ==
  /\ poll.pc = "wait"
  /\ \/ canceled /\ Over("canceled")
     \/ ~canceled /\ TimedOut /\ Over("timeout")
     \/ ~canceled /\ ~TimedOut /\ GoOn /\ poll' = [poll EXCEPT !.pc = "v2", !.read = None]
  /\ UNCHANGED <<task, canceled, clock, shown>>

Listed == task.at \in {"pending", "failed"}

AfterPending(read) ==
  poll' = [poll EXCEPT !.pc = IF poll.pc = "v2" THEN "v1" ELSE "drafts",
                       !.read = read, !.try = 0]

\* Mutant: one that is finished there has a generation.
ReadPendingDone ==
  \/ task.at = "failed" /\ Failed(task.progress)
  \/ task.at = "pending" /\ task.progress < Full /\ StillWorking(task.progress)
  \/ task.at = "pending" /\ task.progress = Full /\ Completed

\* The task stands in the list. One that is finished is looked for among the drafts.
ReadPending ==
  \/ task.at = "failed" /\ Failed(task.progress)
  \/ task.at = "pending" /\ task.progress < Full /\ StillWorking(task.progress)
  \/ task.at = "pending" /\ task.progress = Full
       /\ AfterPending(task.progress) /\ GoOn /\ UNCHANGED shown

\* An answer without the task, an error, and a page that is gone tell nothing.
AskPending ==
  /\ poll.pc \in {"v2", "v1"}
  /\ \/ Listed /\ ~PageIsGone /\ ReadPending
     \/ ~PageIsGone /\ Challenged
     \/ AfterPending(poll.read) /\ GoOn /\ UNCHANGED shown
  /\ UNCHANGED <<task, canceled, clock>>

AskAgain(read) ==
  IF poll.try + 1 < DraftTries
  THEN poll' = [poll EXCEPT !.try = @ + 1, !.read = read] /\ GoOn /\ UNCHANGED shown
  ELSE StillWorking(read)

\* A draft without a generation is asked for again.
ReadDraft ==
  \/ task.at = "rejected" /\ Failed(poll.read)
  \/ task.at = "drafted" /\ Completed
  \/ task.at = "draft" /\ AskAgain(poll.read)

AskDrafts ==
  /\ poll.pc = "drafts"
  /\ \/ PageIsGone /\ PageLost
     \/ /\ ~PageIsGone
        /\ \/ ReadDraft
           \/ AskAgain(poll.read)
           \/ poll.via = "proxy" /\ Challenged
  /\ UNCHANGED <<task, canceled, clock>>

Sleep ==
  /\ poll.pc = "sleep"
  /\ \/ PageIsGone /\ PageLost
     \/ ~PageIsGone /\ poll' = [poll EXCEPT !.pc = "wait"] /\ GoOn /\ UNCHANGED shown
  /\ UNCHANGED <<task, canceled, clock>>

\* _reconnect_sora_page: the window is opened or shared; any error ends the job.
Reconnect ==
  /\ poll.pc = "reconnect"
  /\ \/ window' = TRUE /\ poll' = [poll EXCEPT !.pc = "wait"] /\ UNCHANGED end
     \/ Over("lost")
  /\ UNCHANGED <<task, canceled, clock, shown>>

Step == Begin \/ NextPoll \/ AskPending \/ AskDrafts \/ Sleep \/ Reconnect

Next == SoraGoesOn \/ Tick \/ Cancel \/ ClosedByAnother \/ Step

Spec == Init /\ [][Next]_vars

\* Time passes and every request has a timeout; Sora may leave a task where it is.
Fairness == WF_vars(Tick) /\ WF_vars(Step)
FairSpec == Spec /\ Fairness

-----------------------------------------------------------------------------
(* Properties *)

TypeOK ==
  /\ task \in [at : {"new", "pending", "failed", "gone", "draft", "drafted", "rejected"},
               progress : Progress]
  /\ canceled \in BOOLEAN /\ clock \in 0 .. MaxTime /\ window \in BOOLEAN
  /\ poll \in [pc : {"start", "wait", "v2", "v1", "drafts", "sleep", "reconnect", "over"},
               via : {"proxy", "page"}, read : Progress \cup {None},
               try : 0 .. DraftTries - 1, reconnects : 0 .. MaxReconnects]
  /\ shown \in Progress
  /\ end \in {"none", "completed", "failed", "timeout", "canceled", "lost"}

\* A task is only reported finished when its generation exists, and only reported
\* failed when Sora failed it, whatever was read before or could not be read.
EndIsTrue ==
  /\ end = "completed" => task.at = "drafted"
  /\ end = "failed" => task.at \in {"failed", "rejected"}

\* A job at 100 percent has been generated.
ShownIsTrue == shown = Full => task.progress = Full

\* The window is free while the proxy serves and when the polls are over.
WindowIsFree == poll.pc # "start" /\ (poll.via = "proxy" \/ poll.pc = "over") => ~window

\* The progress of a job never falls.
ShownGrows == [][shown' >= shown]_vars

\* Every job that was accepted ends.
PollsEnd == poll.pc = "start" ~> poll.pc = "over"
=============================================================================
