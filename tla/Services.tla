------------------------------ MODULE Services ------------------------------
(***************************************************************************)
(* What a server does for one job, one window or one page: the refresh of  *)
(* accounts, the submission, polling and publication of a video, the       *)
(* compatible jobs, the opening and reading of a window, calls to          *)
(* ixBrowser, the switching of proxies, the stream of jobs.                *)
(* These parts share no state, so in every behaviour one of them runs and  *)
(* the others rest: the states are the sum of those of the parts, not the  *)
(* product.                                                                *)
(***************************************************************************)
EXTENDS Integers, Sequences, FiniteSets

CONSTANTS
  None,           \* nothing, in every part
  (* SilentRefresh *)
  Groups, MaxJobs, MaxWindows, Clients,
  (* TaskPoll *)
  MaxTime, DraftTries, MaxReconnects, Full,
  (* Submission and Publisher *)
  MaxAttempts, MaxReopen, PostAttempts,
  (* CompatJobs *)
  Pubs, MaxTries, MaxRestarts,
  (* ProfileWindow *)
  Users, Attempts,
  (* ApiSlots *)
  Callers, Slots, MaxBusy,
  (* ProxySwitch *)
  Windows, Proxies, SwitchSlots,
  (* JobStream *)
  Jobs, Phases, Shown, Limit, Batch, MaxEvents,
  (* AccountReading *)
  Readers, Tries

VARIABLES
  part,                                   \* the part that runs
  up,                                     \* SilentRefresh
  canceled, clock, poll, shown, end,      \* TaskPoll
  chain, button, asked, made,             \* Submission
  sora, own, clean, heard,                \* Publisher
  maker, pub, fetch, restarts,            \* CompatJobs
  pc, stage, attempt, reset, spoilt,      \* ProfileWindow
  limit, queue, call,                     \* ApiSlots
  proxy, custom, tested, old, new, item,  \* ProxySwitch
  log, page, since, missed,               \* JobStream
  jammed, reader,                         \* AccountReading
  row,                                    \* of Refresh, Compat, Stream
  task,                                   \* SilentRefresh and TaskPoll
  stream,                                 \* SilentRefresh and JobStream
  window,                                 \* of Poll, Publish, Compat, Opening, Reading
  run                                     \* Submission and Publisher

refreshVars == <<up>>
pollVars    == <<canceled, clock, poll, shown, end>>
submitVars  == <<chain, button, asked, made>>
publishVars == <<sora, own, clean, heard>>
compatVars  == <<maker, pub, fetch, restarts>>
openingVars == <<pc, stage, attempt, reset, spoilt>>
apiVars     == <<limit, queue, call>>
switchVars  == <<proxy, custom, tested, old, new, item>>
streamVars  == <<log, page, since, missed>>
readingVars == <<jammed, reader>>
rowVars     == <<row>>
taskVars    == <<task>>
seenVars    == <<stream>>
windowVars  == <<window>>
runVars     == <<run>>

vars == <<part, refreshVars, pollVars, submitVars, publishVars, compatVars, openingVars,
          apiVars, switchVars, streamVars, readingVars, rowVars, taskVars,
          seenVars, windowVars, runVars>>

Refresh == INSTANCE SilentRefresh
Poll    == INSTANCE TaskPoll
Submit  == INSTANCE Submission
Publish == INSTANCE Publisher WITH MaxAttempts <- PostAttempts
Compat  == INSTANCE CompatJobs
Opening == INSTANCE ProfileWindow
Api     == INSTANCE ApiSlots
Switch  == INSTANCE ProxySwitch WITH Slots <- SwitchSlots
Stream  == INSTANCE JobStream
Reading == INSTANCE AccountReading

ASSUME ConstantsAreRight ==
  /\ Refresh!Constants /\ Poll!Constants /\ Submit!Constants /\ Publish!Constants /\ Compat!Constants
  /\ Opening!Constants /\ Api!Constants /\ Switch!Constants /\ Stream!Constants /\ Reading!Constants

-----------------------------------------------------------------------------
(* A part rests *)

NoRefresh == up = None
NoPoll    == canceled = None /\ clock = None /\ poll = None /\ shown = None /\ end = None
NoSubmit  == chain = None /\ button = None /\ asked = None /\ made = None
NoPublish == sora = None /\ own = None /\ clean = None /\ heard = None
NoCompat  == maker = None /\ pub = None /\ fetch = None /\ restarts = None
NoOpening == pc = None /\ stage = None /\ attempt = None /\ reset = None /\ spoilt = None
NoApi     == limit = None /\ queue = None /\ call = None
NoSwitch  == proxy = None /\ custom = None /\ tested = None /\ old = None /\ new = None /\ item = None
NoStream  == log = None /\ page = None /\ since = None /\ missed = None
NoReading == jammed = None /\ reader = None
NoRow     == row = None
NoTask    == task = None
NoSeen    == stream = None
NoWindow  == window = None
NoRun     == run = None

(* A part runs alone *)

OnlyRefresh ==
  UNCHANGED <<part, pollVars, submitVars, publishVars, compatVars, openingVars, apiVars,
              switchVars, streamVars, readingVars, windowVars, runVars>>
OnlyPoll ==
  UNCHANGED <<part, refreshVars, submitVars, publishVars, compatVars, openingVars, apiVars,
              switchVars, streamVars, readingVars, rowVars, seenVars, runVars>>
OnlySubmit ==
  UNCHANGED <<part, refreshVars, pollVars, publishVars, compatVars, openingVars, apiVars,
              switchVars, streamVars, readingVars, rowVars, taskVars, seenVars,
              windowVars>>
OnlyPublish ==
  UNCHANGED <<part, refreshVars, pollVars, submitVars, compatVars, openingVars, apiVars,
              switchVars, streamVars, readingVars, rowVars, taskVars, seenVars>>
OnlyCompat ==
  UNCHANGED <<part, refreshVars, pollVars, submitVars, publishVars, openingVars, apiVars,
              switchVars, streamVars, readingVars, taskVars, seenVars, runVars>>
OnlyOpening ==
  UNCHANGED <<part, refreshVars, pollVars, submitVars, publishVars, compatVars, apiVars,
              switchVars, streamVars, readingVars, rowVars, taskVars, seenVars,
              runVars>>
OnlyApi ==
  UNCHANGED <<part, refreshVars, pollVars, submitVars, publishVars, compatVars, openingVars,
              switchVars, streamVars, readingVars, rowVars, taskVars, seenVars,
              windowVars, runVars>>
OnlySwitch ==
  UNCHANGED <<part, refreshVars, pollVars, submitVars, publishVars, compatVars, openingVars,
              apiVars, streamVars, readingVars, rowVars, taskVars, seenVars,
              windowVars, runVars>>
OnlyStream ==
  UNCHANGED <<part, refreshVars, pollVars, submitVars, publishVars, compatVars, openingVars,
              apiVars, switchVars, readingVars, taskVars, windowVars, runVars>>
OnlyReading ==
  UNCHANGED <<part, refreshVars, pollVars, submitVars, publishVars, compatVars, openingVars,
              apiVars, switchVars, streamVars, rowVars, taskVars, seenVars,
              runVars>>

Init ==
  \/ /\ part = "refresh" /\ Refresh!Init
     /\ NoPoll /\ NoSubmit /\ NoPublish /\ NoCompat /\ NoOpening /\ NoApi /\ NoSwitch
     /\ NoStream /\ NoReading /\ NoWindow /\ NoRun
  \/ /\ part = "poll" /\ Poll!Init
     /\ NoRefresh /\ NoSubmit /\ NoPublish /\ NoCompat /\ NoOpening /\ NoApi /\ NoSwitch
     /\ NoStream /\ NoReading /\ NoRow /\ NoSeen /\ NoRun
  \/ /\ part = "submit" /\ Submit!Init
     /\ NoRefresh /\ NoPoll /\ NoPublish /\ NoCompat /\ NoOpening /\ NoApi /\ NoSwitch
     /\ NoStream /\ NoReading /\ NoRow /\ NoTask /\ NoSeen /\ NoWindow
  \/ /\ part = "publish" /\ Publish!Init
     /\ NoRefresh /\ NoPoll /\ NoSubmit /\ NoCompat /\ NoOpening /\ NoApi /\ NoSwitch
     /\ NoStream /\ NoReading /\ NoRow /\ NoTask /\ NoSeen
  \/ /\ part = "compat" /\ Compat!Init
     /\ NoRefresh /\ NoPoll /\ NoSubmit /\ NoPublish /\ NoOpening /\ NoApi /\ NoSwitch
     /\ NoStream /\ NoReading /\ NoTask /\ NoSeen /\ NoRun
  \/ /\ part = "opening" /\ Opening!Init
     /\ NoRefresh /\ NoPoll /\ NoSubmit /\ NoPublish /\ NoCompat /\ NoApi /\ NoSwitch
     /\ NoStream /\ NoReading /\ NoRow /\ NoTask /\ NoSeen /\ NoRun
  \/ /\ part = "api" /\ Api!Init
     /\ NoRefresh /\ NoPoll /\ NoSubmit /\ NoPublish /\ NoCompat /\ NoOpening /\ NoSwitch
     /\ NoStream /\ NoReading /\ NoRow /\ NoTask /\ NoSeen /\ NoWindow /\ NoRun
  \/ /\ part = "switch" /\ Switch!Init
     /\ NoRefresh /\ NoPoll /\ NoSubmit /\ NoPublish /\ NoCompat /\ NoOpening /\ NoApi
     /\ NoStream /\ NoReading /\ NoRow /\ NoTask /\ NoSeen /\ NoWindow /\ NoRun
  \/ /\ part = "stream" /\ Stream!Init
     /\ NoRefresh /\ NoPoll /\ NoSubmit /\ NoPublish /\ NoCompat /\ NoOpening /\ NoApi
     /\ NoSwitch /\ NoReading /\ NoTask /\ NoWindow /\ NoRun
  \/ /\ part = "reading" /\ Reading!Init
     /\ NoRefresh /\ NoPoll /\ NoSubmit /\ NoPublish /\ NoCompat /\ NoOpening /\ NoApi
     /\ NoSwitch /\ NoStream /\ NoRow /\ NoTask /\ NoSeen /\ NoRun

Next ==
  \/ part = "refresh" /\ Refresh!Next /\ OnlyRefresh
  \/ part = "poll" /\ Poll!Next /\ OnlyPoll
  \/ part = "submit" /\ Submit!Next /\ OnlySubmit
  \/ part = "publish" /\ Publish!Next /\ OnlyPublish
  \/ part = "compat" /\ Compat!Next /\ OnlyCompat
  \/ part = "opening" /\ Opening!Next /\ OnlyOpening
  \/ part = "api" /\ Api!Next /\ OnlyApi
  \/ part = "switch" /\ Switch!Next /\ OnlySwitch
  \/ part = "stream" /\ Stream!Next /\ OnlyStream
  \/ part = "reading" /\ Reading!Next /\ OnlyReading

Spec == Init /\ [][Next]_vars

-----------------------------------------------------------------------------
(* Properties: those of the parts *)

Parts == {"refresh", "poll", "submit", "publish", "compat",
          "opening", "api", "switch", "stream", "reading"}

TypeOK ==
  /\ part \in Parts
  /\ part = "refresh" => Refresh!TypeOK
  /\ part = "poll"    => Poll!TypeOK
  /\ part = "submit"  => Submit!TypeOK
  /\ part = "publish" => Publish!TypeOK
  /\ part = "compat"  => Compat!TypeOK
  /\ part = "opening" => Opening!TypeOK
  /\ part = "api"     => Api!TypeOK
  /\ part = "switch"  => Switch!TypeOK
  /\ part = "stream"  => Stream!TypeOK
  /\ part = "reading" => Reading!TypeOK

\* What a job, a page or an account is told is true: a page that was told the end
\* of a refresh has seen it, a task is called finished, failed or at 100 percent only
\* if it is, a publication is called completed only with a link, a page
\* of jobs is told every event of the jobs that stay in its list, in order and once,
\* and a reading over the proxy is a success only if nothing was refused or challenged.
ReportsAreTrue ==
  /\ part = "refresh" => Refresh!ToldTheEnd
  /\ part = "poll"    => Poll!EndIsTrue /\ Poll!ShownIsTrue
  /\ part = "compat"  => Compat!CompletedHasLink
  /\ part = "stream"  => Stream!NoEventIsLost
  /\ part = "reading" => Reading!SuccessIsTrusted

\* Windows are given back: while the proxy serves the polls, when a publication is
\* over and when nobody reads an account, unless the window could not be closed.
WindowsAreReturned ==
  /\ part = "poll"    => Poll!WindowIsFree
  /\ part = "publish" => Publish!WindowIsReturned
  /\ part = "reading" => Reading!NoWindowIsLeft

\* What is scarce is shared: windows can be listed while writes wait for a busy
\* ixBrowser, and two windows are given one proxy only when there are no more.
ScarceIsShared ==
  /\ part = "api"    => Api!ReadsGoOn
  /\ part = "switch" => Switch!SharedOnlyIfScarce

\* Sora is asked at most as often as a run has attempts, a window is not opened again
\* for nothing, and an overloaded account is not asked again in the same run.
SoraIsSpared ==
  /\ [](part = "submit" => Submit!AskedInBounds /\ Submit!ReopenedIsUsed)
  /\ [][part = "submit" /\ chain = "queue" /\ run.error = "overload" => asked' = asked]_vars

\* Nobody disturbs another: a group has one refresh, which somebody works on, the job
\* and a user never publish at the same time, and an opening that no other worker
\* and no refusal spoils gets its window in the first attempt.
WorkersKeepApart ==
  /\ [](part = "refresh" => Refresh!OneWorkedOn)
  /\ [](part = "compat" => Compat!MakerPublishesAlone)
  /\ [][part = "opening" =>
          \A u \in Users :
            pc[u] \in Opening!Opening /\ pc'[u] \in {"idle", "pause"} => spoilt'[u]]_vars

\* What Sora answers to a publication decides: the link it answered with is what the run
\* returns, whatever else is heard, found or fails; and only the post it answered with is
\* deleted again, never one the run has merely found. Before Sora is asked, or when it
\* gives no link, the run takes the first link it finds, which may be another post's.
AnswerDecides ==
  /\ [](part = "publish" => Publish!AnswerIsReturned)
  /\ [][part = "publish" => Publish!LinkIsKept /\ Publish!OnlyAnsweredIsDeleted]_vars

\* Nothing goes back: the counts and the end of a refresh, the progress that one polling
\* run shows, the link of a post in the row of a job.
NothingGoesBack ==
  /\ [][part = "refresh" =>
          \A j \in Refresh!Keys :
            /\ row'[j].processed >= row[j].processed
            /\ row'[j].ok >= row[j].ok /\ row'[j].bad >= row[j].bad
            /\ Refresh!IsOver(j) => row'[j] = row[j]]_vars
  /\ [][part = "poll" => shown' >= shown]_vars
  /\ [][part = "compat" /\ row.url = "post" => row'.url # None]_vars
=============================================================================
