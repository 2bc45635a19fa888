----------------------------- MODULE Submission -----------------------------
(***************************************************************************)
(* Handing a prompt to Sora (sora_generation_workflow.py and the submit    *)
(* part of sora_publish_workflow.py).                                      *)
(*                                                                         *)
(* An attempt either presses the button of the page or sends the request   *)
(* from it, which needs the Sentinel script to be loaded. Sora may accept  *)
(* a request whose answer is lost, so an attempt after an error may make a *)
(* second task. Both chains of jobs submit, with loops of their own.       *)
(***************************************************************************)
EXTENDS Naturals

CONSTANTS
  MaxAttempts,  \* attempts of a run
  MaxReopen     \* windows opened again for a missing Sentinel script

Constants == MaxAttempts \in Nat \ {0} /\ MaxReopen \in Nat

VARIABLES
  chain,   \* "queue" or "compat": which chain of jobs submits
  button,  \* sora_submit_priority: the page's button, or a request
  run,     \* the coroutine
  asked,   \* requests that reached Sora, counted to one more than a run may send
  made     \* tasks Sora made of them

vars == <<chain, button, run, asked, made>>

Bound == MaxAttempts + 1

Errors == {"none", "sentinel", "overload", "other"}

Init ==
  /\ chain \in {"queue", "compat"} /\ button \in BOOLEAN
  /\ run = [pc |-> "ask", attempt |-> 1, limit |-> MaxAttempts,
            reopened |-> 0, fresh |-> FALSE, error |-> "none", task |-> FALSE]
  /\ asked = 0 /\ made = 0

-----------------------------------------------------------------------------
(* One attempt *)

Answer(task, error) ==
  run' = [run EXCEPT !.pc = "judge", !.fresh = FALSE, !.task = task, !.error = error]

NotAsked(error) == Answer(FALSE, error) /\ UNCHANGED <<chain, button, asked, made>>

\* The picture of the job cannot be loaded, or is none.
NoImage == run.pc = "ask" /\ NotAsked("other")

\* The page asks for a login, has no field for the prompt or no button, or does not
\* take the picture.
NotFilled == run.pc = "ask" /\ button /\ NotAsked("other")

\* The script is missing, also after the page was loaded again. The runs allow no
\* change to the page's button (strict_priority).
NotReady == run.pc = "ask" /\ ~button /\ NotAsked("sentinel")

\* No session, no token of the script, a picture that is not taken.
NotSent == run.pc = "ask" /\ ~button /\ NotAsked("other")

\* Sora makes a task, and its answer arrives or is lost; or it refuses.
SoraAnswers ==
  /\ asked' = IF asked < Bound THEN asked + 1 ELSE asked
  /\ \/ made' = made + asked' - asked /\ Answer(TRUE, "none")
     \/ made' = made + asked' - asked /\ Answer(FALSE, "other")
     \/ made' = made /\ \E e \in {"overload", "other"} : Answer(FALSE, e)
  /\ UNCHANGED <<chain, button>>

Press == run.pc = "ask" /\ button /\ SoraAnswers
Send  == run.pc = "ask" /\ ~button /\ SoraAnswers

-----------------------------------------------------------------------------
(* The loop around it *)

\* Mutant: the window is opened again for the last attempt, too.
CanReopenLate == run.error = "sentinel" /\ ~button /\ run.reopened < MaxReopen

\* The queue does not open the window again when no attempt is left; the other chain
\* grants one.
CanReopen ==
  /\ run.error = "sentinel" /\ ~button /\ run.reopened < MaxReopen
  /\ chain = "queue" => run.attempt < run.limit

\* Mutant: an off-by-one.
MayRepeatLate == run.attempt <= run.limit
\* Mutant: an overload is an error as any other.
MayRepeatOverload == run.attempt < run.limit

\* An overload is left to the change of the account, in the queue.
MayRepeat == run.attempt < run.limit /\ ~(chain = "queue" /\ run.error = "overload")

Accepted ==
  /\ run.pc = "judge" /\ run.task
  /\ run' = [run EXCEPT !.pc = "token"]
  /\ UNCHANGED <<chain, button, asked, made>>

Reopen ==
  /\ run.pc = "judge" /\ ~run.task /\ CanReopen
  /\ run' = [run EXCEPT !.pc = "reopen", !.reopened = @ + 1]
  /\ UNCHANGED <<chain, button, asked, made>>

\* Mutant: the attempt is not counted.
RepeatUncounted ==
  /\ run.pc = "judge" /\ ~run.task /\ ~CanReopen /\ MayRepeat
  /\ run' = [run EXCEPT !.pc = "ask"]
  /\ UNCHANGED <<chain, button, asked, made>>

Repeat ==
  /\ run.pc = "judge" /\ ~run.task /\ ~CanReopen /\ MayRepeat
  /\ run' = [run EXCEPT !.pc = "ask", !.attempt = @ + 1]
  /\ UNCHANGED <<chain, button, asked, made>>

GiveUp ==
  /\ run.pc = "judge" /\ ~run.task /\ ~CanReopen /\ ~MayRepeat
  /\ run' = [run EXCEPT !.pc = "failed"]
  /\ UNCHANGED <<chain, button, asked, made>>

\* _reopen_submit_page: close, open, go to the drafts; an error ends the submission.
Reopened ==
  /\ run.pc = "reopen"
  /\ run' = IF run.attempt < run.limit
            THEN [run EXCEPT !.pc = "ask", !.attempt = @ + 1, !.fresh = TRUE]
            ELSE IF chain = "compat"
                 THEN [run EXCEPT !.pc = "ask", !.attempt = @ + 1, !.limit = @ + 1, !.fresh = TRUE]
                 ELSE [run EXCEPT !.pc = "failed", !.fresh = TRUE]
  /\ UNCHANGED <<chain, button, asked, made>>

NotReopened ==
  /\ run.pc = "reopen"
  /\ run' = [run EXCEPT !.pc = "failed"]
  /\ UNCHANGED <<chain, button, asked, made>>

\* Sora has the task; without an access token it cannot be followed.
Token ==
  /\ run.pc = "token"
  /\ \E pc \in {"follow", "failed"} : run' = [run EXCEPT !.pc = pc]
  /\ UNCHANGED <<chain, button, asked, made>>

Next == NoImage \/ NotFilled \/ NotReady \/ NotSent \/ Press \/ Send
          \/ Accepted \/ Reopen \/ Repeat \/ GiveUp \/ Reopened \/ NotReopened \/ Token

Spec == Init /\ [][Next]_vars

\* Pages and requests have timeouts.
FairSpec == Spec /\ WF_vars(Next)

-----------------------------------------------------------------------------
(* Properties *)

TypeOK ==
  /\ chain \in {"queue", "compat"} /\ button \in BOOLEAN
  /\ run \in [pc : {"ask", "judge", "reopen", "token", "follow", "failed"},
              attempt : Nat \ {0}, limit : Nat, reopened : 0 .. MaxReopen,
              fresh : BOOLEAN, error : Errors, task : BOOLEAN]
  /\ asked \in 0 .. Bound /\ made \in 0 .. asked

\* Sora is asked at most as often as a run has attempts, also where a window opened
\* again grants a further one; so no run makes more tasks than that.
AskedInBounds == made <= asked /\ asked <= MaxAttempts

\* A window is not opened again for nothing.
ReopenedIsUsed == run.pc = "failed" => ~run.fresh

\* The queue does not ask an overloaded account again in the same run.
OverloadIsFinal ==
  [][chain = "queue" /\ run.error = "overload" => asked' = asked]_vars

\* A submission ends.
SubmissionEnds == <>(run.pc \in {"follow", "failed"})
=============================================================================
