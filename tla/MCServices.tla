----------------------------- MODULE MCServices -----------------------------
(***************************************************************************)
(* A small instance of each part of Services for TLC, with the fairness of *)
(* each and what must happen under it.                                     *)
(***************************************************************************)
EXTENDS Services, TLC

\* One slot for reads, two for writes.
Gates == [read |-> 1, write |-> 2]

\* What the fairness of the parts is about, numbered. Only one part runs, so weak
\* fairness of these five actions is the fairness of the part that runs.
Due(i) ==
  \/ part = "refresh" /\ i \in 1 .. 2 /\ Refresh!Step(i) /\ OnlyRefresh
  \/ part = "refresh" /\ i = 3 /\ Refresh!Poll("page") /\ OnlyRefresh
  \/ part = "poll" /\ i = 1 /\ Poll!Tick /\ OnlyPoll
  \/ part = "poll" /\ i = 2 /\ Poll!Step /\ OnlyPoll
  \/ part = "submit" /\ i = 1 /\ Submit!Next /\ OnlySubmit
  \/ part = "publish" /\ i = 1 /\ Publish!Step /\ OnlyPublish
  \/ part = "compat" /\ i = 1 /\ Compat!Make /\ OnlyCompat
  \/ part = "compat" /\ i = 2 /\ Compat!Tick /\ OnlyCompat
  \/ part = "compat" /\ i = 3 /\ Compat!FetchGivesUp /\ OnlyCompat
  \/ part = "compat" /\ i = 4 /\ (Compat!Publish("p") \/ Compat!BeginRetry("p")) /\ OnlyCompat
  \/ part = "compat" /\ i = 5 /\ (Compat!Publish("q") \/ Compat!BeginRetry("q")) /\ OnlyCompat
  \/ part = "opening" /\ i = 1 /\ Opening!Step("a") /\ OnlyOpening
  \/ part = "opening" /\ i = 2 /\ Opening!Step("b") /\ OnlyOpening
  \/ part = "api" /\ i = 1 /\ Api!Step("a") /\ OnlyApi
  \/ part = "api" /\ i = 2 /\ Api!Step("b") /\ OnlyApi
  \/ part = "api" /\ i = 3 /\ Api!Step("c") /\ OnlyApi
  \/ part = "switch" /\ i \in 1 .. 2 /\ Switch!Step(i) /\ OnlySwitch
  \/ part = "stream" /\ i = 1 /\ Stream!Poll /\ OnlyStream
  \/ part = "reading" /\ i = 1 /\ Reading!Step("a") /\ OnlyReading
  \/ part = "reading" /\ i = 2 /\ Reading!Step("b") /\ OnlyReading

FairSpec == Spec /\ \A i \in 1 .. 5 : WF_vars(Due(i))

-----------------------------------------------------------------------------
(* Liveness. That what is busy comes to rest, Busy ~> ~Busy, is written       *)
(* []<>~Busy, which TLC checks for all of them in one search.                 *)

\* When nothing changes any more a page comes to show the list, and every event of
\* the jobs that never left it.
PageCatchesUp ==
  <>[](part = "stream" =>
         /\ page.jobs = Stream!List
         /\ \A e \in since + 1 .. Len(log) :
              log[e] \in missed \/ \E n \in DOMAIN page.events : page.events[n] = e)

\* Every job, publication, opening, call and reading ends, every page that stays is
\* told the end of its refresh, and every window of a switch is reported.
EverythingEnds ==
  /\ []<>(part = "refresh" => ~Refresh!Live("page"))
  /\ []<>(part = "poll" => poll.pc = "over")
  /\ []<>(part = "submit" => run.pc \in {"follow", "failed"})
  /\ []<>(part = "publish" => run.pc = "over")
  /\ []<>(part = "compat" => maker.pc = "over")
  /\ []<>(part = "compat" => fetch.pc = "over")
  /\ \A p \in {"p", "q"} : []<>(part = "compat" => pub[p].pc = "over")
  /\ \A u \in {"a", "b"} : []<>(part = "opening" => pc[u] \in {"idle", "use"})
  /\ \A c \in {"a", "b", "c"} : []<>(part = "api" => call[c].state = "idle")
  /\ \A w \in {1, 2} : []<>(part = "switch" => item[w] \in Switch!Results \cup {None})
  /\ \A r \in {"a", "b"} : []<>(part = "reading" => reader[r].pc = "idle")
=============================================================================
