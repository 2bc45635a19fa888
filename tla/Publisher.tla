----------------------------- MODULE Publisher -----------------------------
(***************************************************************************)
(* Publishing one generated video and finding the link of its post         *)
(* (app/services/ixbrowser/sora_publish_workflow.py).                      *)
(*                                                                         *)
(* The run first looks for a generation of its task, then for a post of    *)
(* it, and asks Sora to make one if it finds none. When Sora refuses, or   *)
(* its answer is lost, every place is searched where a link may stand, and *)
(* at last the button of the page is pressed. All the while a listener     *)
(* keeps the first link any response of the page holds. Whatever is read   *)
(* is searched for the first thing that looks like a link: nowhere is it   *)
(* checked that it is the link of this post. Users and other runs post and *)
(* delete, too.                                                            *)
(***************************************************************************)
EXTENDS Naturals

CONSTANTS
  MaxAttempts,  \* requests to make the post
  None

\* A link is that of this post, of another one, or of no post at all: an id that only
\* looks like one, or what stands in the page.
Links == {"post", "other", "odd"}

Constants == MaxAttempts \in Nat \ {0} /\ None \notin Links \cup {"dropped"}

VARIABLES
  sora,    \* the generation in the list of drafts, and its post
  own,     \* does the run open its window itself, or is it given a page
  clean,   \* auto_delete_published_post
  window,  \* is the window open
  heard,   \* the listener: nothing, a link, or "dropped" after a wait in vain
  run      \* the coroutine

vars == <<sora, own, clean, window, heard, run>>

Init ==
  /\ own \in BOOLEAN /\ clean \in BOOLEAN /\ window = ~own /\ heard = None
  /\ \E known \in BOOLEAN :
       /\ run = [pc |-> IF own THEN "open" ELSE "begin", known |-> known, attempt |-> 1,
                 endpoint |-> 1, answer |-> "none", link |-> None, end |-> "none"]
       /\ sora \in [draft : IF known THEN {"generation"} ELSE {"no", "draft", "generation"},
                    ready : {FALSE}, post : {"no"}]

\* The first link in a text, or the first id that looks like one. A text that names
\* the post may name others before it, and one that does not may name others, too.
LinksInText == {None, "other", "odd"} \cup (IF sora.post = "up" THEN {"post"} ELSE {})

-----------------------------------------------------------------------------
(* Sora, its users, and the page *)

SoraGoesOn ==
  /\ \/ sora.draft = "no" /\ sora' = [sora EXCEPT !.draft = "draft"]
     \/ sora.draft = "draft" /\ sora' = [sora EXCEPT !.draft = "generation"]
     \/ sora.draft = "generation" /\ ~sora.ready /\ sora' = [sora EXCEPT !.ready = TRUE]
  /\ UNCHANGED <<own, clean, window, heard, run>>

CanPost == sora.ready /\ sora.post # "up"
Posted  == sora' = [sora EXCEPT !.post = "up"]

OthersPost ==
  /\ \/ CanPost /\ Posted
     \/ sora.post = "up" /\ sora' = [sora EXCEPT !.post = "deleted"]
  /\ UNCHANGED <<own, clean, window, heard, run>>

\* _watch_publish_url: the first link in any response.
Hear ==
  /\ run.pc \notin {"open", "begin", "over"} /\ heard = None
  /\ heard' \in LinksInText \ {None}
  /\ UNCHANGED <<sora, own, clean, window, run>>

-----------------------------------------------------------------------------
(* How the run goes on and ends *)

GoTo(pc) == run' = [run EXCEPT !.pc = pc] /\ UNCHANGED window

\* Mutant: the window is closed when a link has been found.
LeaveOpen(end, link) ==
  /\ run' = [run EXCEPT !.pc = "over", !.end = end, !.link = link]
  /\ window' = (window /\ ~(own /\ end = "link"))

\* The window is closed however the run ends, if the run has opened it.
Leave(end, link) ==
  /\ run' = [run EXCEPT !.pc = "over", !.end = end, !.link = link]
  /\ window' = (window /\ ~own)

\* The account's quota is read once more; an error in that changes nothing.
Found(link) == Leave("link", link)

\* A page that went away, a timeout, a script that failed. Waiting for the listener
\* and deleting the post catch such errors.
Breaks ==
  /\ run.pc \notin {"open", "wait", "delete", "over"}
  /\ Leave("error", None)
  /\ UNCHANGED <<sora, own, clean, heard>>

\* Without an address, or without a connection to it, the window stays as it is.
Open ==
  /\ run.pc = "open"
  /\ \/ window' = TRUE /\ run' = [run EXCEPT !.pc = "begin"]
     \/ window' \in BOOLEAN /\ run' = [run EXCEPT !.pc = "over", !.end = "unopened"]
  /\ UNCHANGED <<sora, own, clean, heard>>

-----------------------------------------------------------------------------
(* The generation *)

Begin ==
  /\ run.pc = "begin"
  /\ GoTo(IF run.known THEN "detail" ELSE "drafts")
  /\ UNCHANGED <<sora, own, clean, heard>>

\* An item with a generation is noticed; or twenty minutes pass.
AwaitDraft ==
  /\ run.pc = "drafts"
  /\ \/ /\ sora.draft = "generation"
        /\ \E l \in LinksInText : IF l = None THEN GoTo("detail") ELSE Found(l)
     \/ GoTo("resolve")
  /\ UNCHANGED <<sora, own, clean, heard>>

\* The drafts are read, first from the page, then from another one.
Resolve ==
  /\ run.pc = "resolve"
  /\ \/ /\ sora.draft # "no"
        /\ \E l \in LinksInText :
             IF l # None THEN Found(l)
             ELSE IF sora.draft = "generation" THEN GoTo("detail") ELSE Leave("error", None)
     \/ Leave("error", None)
  /\ UNCHANGED <<sora, own, clean, heard>>

-----------------------------------------------------------------------------
(* The post *)

\* Mutant: a post that was found is cleaned up like one that was made.
LookupCleaned ==
  /\ run.pc = "detail"
  /\ \E l \in LinksInText :
       IF l = None THEN GoTo("post")
       ELSE run' = [run EXCEPT !.pc = "delete", !.link = l] /\ UNCHANGED window
  /\ UNCHANGED <<sora, own, clean, heard>>

\* The caption is emptied. A list of posts that names the generation is taken for its
\* post, and so is every answer to a question about it; the first link there is it.
Lookup ==
  /\ run.pc = "detail"
  /\ \E l \in LinksInText : IF l = None THEN GoTo("post") ELSE Found(l)
  /\ UNCHANGED <<sora, own, clean, heard>>

\* A link anywhere in the text counts as success, whatever the status.
Read(text) ==
  IF text.link # None THEN "link"
  ELSE IF "duplicate" \in text.says THEN "duplicate"
  ELSE IF "invalid_request" \in text.says THEN "not_ready"
  ELSE "error"

\* Mutant: attempts are not counted.
AnsweredUncounted(text) ==
  run' = [run EXCEPT !.answer = Read(text), !.endpoint = 1, !.link = text.link,
            !.pc = CASE Read(text) = "link" -> "delete"
                     [] Read(text) = "duplicate" -> "wait"
                     [] Read(text) = "not_ready" -> "post"
                     [] OTHER -> "page"]

\* Only a generation that is not ready is asked for again.
Answered(text) ==
  LET answer == Read(text)
      again  == answer = "not_ready" /\ run.attempt < MaxAttempts
  IN run' = [run EXCEPT !.answer = answer, !.endpoint = 1, !.link = text.link,
               !.attempt = IF again THEN @ + 1 ELSE @,
               !.pc = CASE answer = "link" -> "delete"
                        [] answer = "duplicate" -> "wait"
                        [] again -> "post"
                        [] OTHER -> "page"]

Text(link, says) == [link |-> link, says |-> says]

\* What Sora says when it makes no post, or makes one and fails then: it may name the
\* post there is already, or another one.
Refusals ==
  {Text(l, {}) : l \in LinksInText}
    \cup (IF sora.post = "up" THEN {Text(None, {"duplicate"})} ELSE {})
    \cup (IF ~sora.ready THEN {Text(None, {"invalid_request"})} ELSE {})

MayBePosted == UNCHANGED sora \/ (CanPost /\ Posted)

\* The request goes to two addresses of Sora, to the second one if the first refused.
Post ==
  /\ run.pc = "post"
  /\ \/ CanPost /\ Posted /\ \E l \in LinksInText \cup {"post"} : Answered(Text(l, {}))
     \/ /\ MayBePosted
        /\ \E t \in Refusals :
             IF run.endpoint = 1 THEN run' = [run EXCEPT !.endpoint = 2] ELSE Answered(t)
  /\ UNCHANGED <<own, clean, window, heard>>

\* The request was sent, and no answer came; or the page was loaded anew below it.
PostLost ==
  /\ run.pc = "post"
  /\ MayBePosted
  /\ \/ Answered(Text(None, {})) /\ UNCHANGED window
     \/ IF run.attempt < MaxAttempts
        THEN run' = [run EXCEPT !.attempt = @ + 1, !.endpoint = 1] /\ UNCHANGED window
        ELSE Leave("error", None)
  /\ UNCHANGED <<own, clean, heard>>

\* Mutant: a post that could not be deleted is an error.
DeleteStrict ==
  /\ run.pc = "delete"
  /\ \/ clean /\ UNCHANGED sora /\ Leave("error", None)
     \/ Found(run.link) /\ UNCHANGED sora
  /\ UNCHANGED <<own, clean, heard>>

\* The post whose link Sora answered with is deleted again, if so set; errors are
\* ignored. Another post that may go that way is not modelled.
Delete ==
  /\ run.pc = "delete"
  /\ \/ UNCHANGED sora
     \/ clean /\ run.link = "post" /\ sora.post = "up" /\ sora' = [sora EXCEPT !.post = "deleted"]
  /\ Found(run.link)
  /\ UNCHANGED <<own, clean, heard>>

-----------------------------------------------------------------------------
(* The search for the link *)

\* Waiting for the listener in vain cancels what it would have told.
Wait ==
  /\ run.pc = "wait"
  /\ IF heard \in Links
     THEN Found(heard) /\ UNCHANGED heard
     ELSE /\ heard' = "dropped"
          /\ \E l \in LinksInText : IF l = None THEN GoTo("search") ELSE Found(l)
  /\ UNCHANGED <<sora, own, clean>>

\* The item of the draft: by generation, by task, or by its prompt, which another draft
\* may share.
Search ==
  /\ run.pc = "search"
  /\ \E l \in LinksInText : IF l = None THEN GoTo("lists") ELSE Found(l)
  /\ UNCHANGED <<sora, own, clean, heard>>

\* The lists of posts again, and the record of the generation.
SearchLists ==
  /\ run.pc = "lists"
  /\ \E l \in LinksInText : IF l = None THEN GoTo("page") ELSE Found(l)
  /\ UNCHANGED <<sora, own, clean, heard>>

\* The page's own text and attributes.
SearchPage ==
  /\ run.pc = "page"
  /\ \E l \in LinksInText : IF l = None THEN GoTo("share") ELSE Found(l)
  /\ UNCHANGED <<sora, own, clean, heard>>

\* The menu of the page is opened to copy the link; its entry may publish as well.
Share ==
  /\ run.pc = "share"
  /\ MayBePosted
  /\ \E l \in LinksInText : IF l = None THEN GoTo("press") ELSE Found(l)
  /\ UNCHANGED <<own, clean, heard>>

\* The button is looked for during a minute.
Press ==
  /\ run.pc = "press"
  /\ \/ MayBePosted /\ GoTo("final")
     \/ UNCHANGED sora /\ Leave("error", None)
  /\ UNCHANGED <<own, clean, heard>>

\* To wait again for a listener that was dropped is to be canceled.
Final ==
  /\ run.pc = "final"
  /\ CASE heard = "dropped" -> Leave("canceled", None)
       [] heard = None -> \E l \in LinksInText :
                            IF l = None THEN Leave("nothing", None) ELSE Found(l)
       [] OTHER -> Found(heard)
  /\ UNCHANGED <<sora, own, clean, heard>>

\* One action per page of the two bodies, which do the same from "begin" on.
Step == Open \/ Begin \/ AwaitDraft \/ Resolve \/ Lookup \/ Post \/ PostLost \/ Delete
          \/ Wait \/ Search \/ SearchLists \/ SearchPage \/ Share \/ Press \/ Final \/ Breaks

Next == SoraGoesOn \/ OthersPost \/ Hear \/ Step

Spec == Init /\ [][Next]_vars

\* Every request and every wait has a timeout.
FairSpec == Spec /\ WF_vars(Step)

-----------------------------------------------------------------------------
(* Properties *)

TypeOK ==
  /\ sora \in [draft : {"no", "draft", "generation"}, ready : BOOLEAN,
               post : {"no", "up", "deleted"}]
  /\ own \in BOOLEAN /\ clean \in BOOLEAN /\ window \in BOOLEAN
  /\ heard \in Links \cup {None, "dropped"}
  /\ run \in [pc : {"open", "begin", "drafts", "resolve", "detail", "post", "delete", "wait",
                    "search", "lists", "page", "share", "press", "final", "over"},
              known : BOOLEAN, attempt : 1 .. MaxAttempts, endpoint : 1 .. 2,
              answer : {"none", "link", "duplicate", "not_ready", "error"},
              link : Links \cup {None},
              end : {"none", "unopened", "link", "nothing", "error", "canceled"}]

\* When Sora has answered with a link, the run returns a link: neither deleting the
\* post nor reading the quota afterwards can turn a published video into a failure.
AnswerIsReturned == run.answer = "link" /\ run.pc = "over" => run.end = "link"

\* A step keeps the link Sora answered with, whatever is heard or found besides.
LinkIsKept == run.answer = "link" => run'.answer = "link" /\ run'.link = run.link

\* A step of the run deletes the post only if that is set and Sora answered the run's
\* own request with the link of it: never a post that the run has merely found.
OnlyAnsweredIsDeleted ==
  run' # run /\ sora.post = "up" /\ sora'.post # "up" =>
    clean /\ run.answer = "link" /\ run.link = "post"

\* A window the run opened and worked in is closed when it is over; a given one is left.
WindowIsReturned ==
  run.pc = "over" /\ run.end # "unopened" => window = ~own

\* A publication ends.
PublicationEnds == <>(run.pc = "over")
=============================================================================
