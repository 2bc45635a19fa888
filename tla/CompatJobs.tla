----------------------------- MODULE CompatJobs -----------------------------
(***************************************************************************)
(* One job of the older interface (ixbrowser/sora_jobs.py and the second   *)
(* half of sora_generation_workflow.py): its row, the coroutine that makes *)
(* and publishes the video, and the coroutines that users start on the row *)
(* later: further publications, and searches for the generation.           *)
(*                                                                         *)
(* Nothing claims the row: the coroutines are kept apart by what the row   *)
(* says when a request looks at it. They live in one process and end with  *)
(* it; the row stays as it is.                                             *)
(***************************************************************************)
EXTENDS Naturals

CONSTANTS
  Pubs,         \* publications users may start
  MaxTries,     \* tries of a publication while ixBrowser is busy
  MaxRestarts,  \* bound on restarts
  None

\* A link is one of a post, or something a page showed that is none.
Links == {"post", "odd"}

Constants == MaxTries \in Nat \ {0} /\ MaxRestarts \in Nat /\ None \notin Links

VARIABLES
  row,       \* the row of the job
  maker,     \* the coroutine of the job
  pub,       \* the coroutine of each publication
  fetch,     \* the search for the generation
  window,    \* is the window of the account open
  restarts

vars == <<row, maker, pub, fetch, window, restarts>>

\* Is a link one of a post?
Valid(link) == link = "post"

Resting  == [pc |-> "over", try |-> 0]
NoSearch == [pc |-> "over", page |-> FALSE, mine |-> FALSE, late |-> FALSE]

Init ==
  /\ row = [status |-> "queued", task |-> FALSE, gen |-> FALSE,
            publish |-> "queued", url |-> None]
  /\ maker = [pc |-> "spawned", try |-> 0, gen |-> FALSE]
  /\ pub = [p \in Pubs |-> Resting]
  /\ fetch = NoSearch /\ window = FALSE /\ restarts = 0

-----------------------------------------------------------------------------
(* Making the video *)

Begin ==
  /\ maker.pc = "spawned"
  /\ maker' = [maker EXCEPT !.pc = "run"]
  /\ row' = [row EXCEPT !.status = "running"]
  /\ UNCHANGED <<pub, fetch, window, restarts>>

Submit ==
  /\ maker.pc = "run" /\ ~row.task
  /\ row' = [row EXCEPT !.task = TRUE]
  /\ window' \in BOOLEAN
  /\ UNCHANGED <<maker, pub, fetch, restarts>>

\* The polls told of the end, and of the generation.
Generated ==
  /\ maker.pc = "run" /\ row.task
  /\ maker' = [maker EXCEPT !.pc = "publish", !.gen = TRUE]
  /\ row' = [row EXCEPT !.gen = TRUE]
  /\ UNCHANGED <<pub, fetch, window, restarts>>

\* An error, or a video that failed. What this coroutine knows of the generation
\* is written over what another has found.
Fail ==
  /\ maker.pc = "run"
  /\ maker' = [maker EXCEPT !.pc = "over"]
  /\ \/ row' = [row EXCEPT !.status = "failed"]
     \/ row.task /\ row' = [row EXCEPT !.status = "failed", !.gen = maker.gen]
  /\ window' = FALSE
  /\ UNCHANGED <<pub, fetch, restarts>>

\* The publication that belongs to the job: a link, an error, nothing; or it was
\* canceled from within, which no handler sees.
FirstPublication ==
  /\ maker.pc = "publish"
  /\ window' = FALSE
  /\ \/ \E l \in Links :
          /\ row' = [row EXCEPT !.status = "completed", !.publish = "completed", !.url = l]
          /\ maker' = [maker EXCEPT !.pc = "over"]
     \/ /\ row' = [row EXCEPT !.status = "completed", !.publish = "failed"]
        /\ maker' = [maker EXCEPT !.pc = "over"]
     \/ /\ row' = [row EXCEPT !.status = "completed", !.publish = "running"]
        /\ maker' = [maker EXCEPT !.pc = "again", !.try = 1]
     \/ /\ UNCHANGED row
        /\ maker' = [maker EXCEPT !.pc = "over"]
  /\ UNCHANGED <<pub, fetch, restarts>>

-----------------------------------------------------------------------------
(* run_sora_publish_job, for the job itself or for a user *)

\* Mutant: tries are not counted.
TryEndsUncounted(this, next) ==
  \/ \E l \in Links : row' = [row EXCEPT !.publish = "completed", !.url = l]
                        /\ next = [this EXCEPT !.pc = "over"]
  \/ row' = [row EXCEPT !.publish = "failed"] /\ next = [this EXCEPT !.pc = "over"]
  \/ row' = [row EXCEPT !.publish = "running"] /\ next = this
  \/ UNCHANGED row /\ next = [this EXCEPT !.pc = "over"]

\* A link; an error or no link; ixBrowser is busy and it is tried again; canceled.
TryEnds(this, next) ==
  \/ \E l \in Links : row' = [row EXCEPT !.publish = "completed", !.url = l]
                        /\ next = [this EXCEPT !.pc = "over"]
  \/ row' = [row EXCEPT !.publish = "failed"] /\ next = [this EXCEPT !.pc = "over"]
  \/ /\ this.try < MaxTries
     /\ row' = [row EXCEPT !.publish = "running"] /\ next = [this EXCEPT !.try = @ + 1]
  \/ UNCHANGED row /\ next = [this EXCEPT !.pc = "over"]

PublishAgain ==
  /\ maker.pc = "again"
  /\ TryEnds(maker, maker') /\ window' = FALSE
  /\ UNCHANGED <<pub, fetch, restarts>>

Publish(p) ==
  /\ pub[p].pc = "try"
  /\ \E next \in [pc : {"try", "over"}, try : 0 .. MaxTries] :
       TryEnds(pub[p], next) /\ pub' = [pub EXCEPT ![p] = next]
  /\ window' = FALSE
  /\ UNCHANGED <<maker, fetch, restarts>>

\* Mutant: a publication under way does not prevent another one.
MayRetryAlways ==
  row.status = "completed" /\ ~(row.publish = "completed" /\ Valid(row.url))

MayRetry ==
  /\ row.status = "completed" /\ row.publish # "running"
  /\ ~(row.publish = "completed" /\ Valid(row.url))

\* Mutant: the link is always cleared.
RetryCleared(p) ==
  /\ MayRetry /\ pub[p].pc = "over"
  /\ row' = [row EXCEPT !.publish = "queued", !.url = None]
  /\ pub' = [pub EXCEPT ![p] = [pc |-> "spawned", try |-> 0]]
  /\ UNCHANGED <<maker, fetch, window, restarts>>

\* Mutant: the row is only queued if its publication failed.
RetryUnqueued(p) ==
  /\ MayRetry /\ pub[p].pc = "over"
  /\ row' = [row EXCEPT !.publish = IF @ = "failed" THEN "queued" ELSE @,
                       !.url = IF @ # None /\ Valid(@) THEN @ ELSE None]
  /\ pub' = [pub EXCEPT ![p] = [pc |-> "spawned", try |-> 0]]
  /\ UNCHANGED <<maker, fetch, window, restarts>>

\* A user asks for a publication; the coroutine begins later.
Retry(p) ==
  /\ MayRetry /\ pub[p].pc = "over"
  /\ row' = [row EXCEPT !.publish = "queued", !.url = IF @ # None /\ Valid(@) THEN @ ELSE None]
  /\ pub' = [pub EXCEPT ![p] = [pc |-> "spawned", try |-> 0]]
  /\ UNCHANGED <<maker, fetch, window, restarts>>

BeginRetry(p) ==
  /\ pub[p].pc = "spawned"
  /\ IF row.publish = "completed" /\ Valid(row.url)
     THEN pub' = [pub EXCEPT ![p].pc = "over"] /\ UNCHANGED row
     ELSE /\ pub' = [pub EXCEPT ![p] = [pc |-> "try", try |-> 1]]
          /\ row' = [row EXCEPT !.publish = "running"]
  /\ UNCHANGED <<maker, fetch, window, restarts>>

-----------------------------------------------------------------------------
(* run_sora_fetch_generation_id *)

FetchAsked ==
  /\ ~row.gen /\ row.task /\ fetch.pc = "over"
  /\ fetch' = [NoSearch EXCEPT !.pc = "search"]
  /\ UNCHANGED <<row, maker, pub, window, restarts>>

\* An open window is shared, a closed one is opened; an error is followed by a pause.
FetchConnects ==
  /\ fetch.pc = "search" /\ ~fetch.page /\ ~fetch.late
  /\ \/ window /\ fetch' = [fetch EXCEPT !.page = TRUE] /\ UNCHANGED window
     \/ ~window /\ window' = TRUE /\ \E c \in BOOLEAN :
          fetch' = [fetch EXCEPT !.mine = TRUE, !.page = c]
     \/ UNCHANGED <<fetch, window>>
  /\ UNCHANGED <<row, maker, pub, restarts>>

\* By the listener or by asking. The window stays open.
FetchFinds ==
  /\ fetch.pc = "search" /\ fetch.page
  /\ fetch' = [fetch EXCEPT !.pc = "over"]
  /\ row' = [row EXCEPT !.gen = TRUE]
  /\ UNCHANGED <<maker, pub, window, restarts>>

FetchLosesPage ==
  /\ fetch.pc = "search" /\ fetch.page /\ ~window
  /\ fetch' = [fetch EXCEPT !.page = FALSE]
  /\ UNCHANGED <<row, maker, pub, window, restarts>>

Tick ==
  /\ fetch.pc = "search" /\ ~fetch.late
  /\ fetch' = [fetch EXCEPT !.late = TRUE]
  /\ UNCHANGED <<row, maker, pub, window, restarts>>

FetchGivesUp ==
  /\ fetch.pc = "search" /\ fetch.late
  /\ fetch' = [fetch EXCEPT !.pc = "over"]
  /\ window' = (window /\ ~fetch.mine)
  /\ UNCHANGED <<row, maker, pub, restarts>>

-----------------------------------------------------------------------------
\* The process ends and starts again: nothing looks at the rows.
Restart ==
  /\ restarts < MaxRestarts /\ restarts' = restarts + 1
  /\ maker' = [maker EXCEPT !.pc = "over"]
  /\ pub' = [p \in Pubs |-> Resting]
  /\ fetch' = NoSearch
  /\ UNCHANGED <<row, window>>

Make == Begin \/ Submit \/ Generated \/ Fail \/ FirstPublication \/ PublishAgain

Next ==
  \/ Make \/ Restart \/ Tick
  \/ \E p \in Pubs : Publish(p) \/ Retry(p) \/ BeginRetry(p)
  \/ FetchAsked \/ FetchConnects \/ FetchFinds \/ FetchLosesPage \/ FetchGivesUp

Spec == Init /\ [][Next]_vars

\* Coroutines go on, time passes.
Fairness ==
  /\ WF_vars(Make) /\ WF_vars(Tick) /\ WF_vars(FetchGivesUp)
  /\ \A p \in Pubs : WF_vars(Publish(p) \/ BeginRetry(p))

FairSpec == Spec /\ Fairness

-----------------------------------------------------------------------------
(* Properties *)

TypeOK ==
  /\ row \in [status : {"queued", "running", "completed", "failed"}, task : BOOLEAN,
              gen : BOOLEAN, publish : {"queued", "running", "completed", "failed"},
              url : Links \cup {None}]
  /\ maker \in [pc : {"spawned", "run", "publish", "again", "over"}, try : 0 .. MaxTries,
                gen : BOOLEAN]
  /\ pub \in [Pubs -> [pc : {"spawned", "try", "over"}, try : 0 .. MaxTries]]
  /\ fetch \in [pc : {"search", "over"}, page : BOOLEAN, mine : BOOLEAN, late : BOOLEAN]
  /\ window \in BOOLEAN /\ restarts \in 0 .. MaxRestarts

\* A publication that is called completed has a link, whichever coroutine wrote last.
CompletedHasLink == row.publish = "completed" => row.url # None

\* The job and a user never publish at the same time.
MakerPublishesAlone ==
  maker.pc \in {"publish", "again"} => \A p \in Pubs : pub[p].pc = "over"

\* A link of a post is never taken from the row.
LinkIsKept == [][row.url = "post" => row'.url # None]_vars

\* Every coroutine ends.
CoroutinesEnd ==
  <>(maker.pc = "over") /\ (fetch.pc = "search" ~> fetch.pc = "over")
    /\ \A p \in Pubs : pub[p].pc = "spawned" ~> pub[p].pc = "over"

\* "Publishing, please try again later": a row that says so is being published.
PublishingIsAlive ==
  row.publish = "running" =>
    maker.pc = "again" \/ \E p \in Pubs : pub[p].pc = "try"
=============================================================================
