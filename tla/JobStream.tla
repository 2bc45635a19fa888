----------------------------- MODULE JobStream -----------------------------
(***************************************************************************)
(* The event stream of the job list (app/services/sora_job_stream_service  *)
(* and GET /sora/jobs/stream in app/api/sora.py).                          *)
(*                                                                         *)
(* A stream polls two tables that other processes write between any two of *)
(* its queries: the jobs, of which it sends differences, and the log of    *)
(* phase events, of which it sends those of listed jobs.                   *)
(***************************************************************************)
EXTENDS Integers, Sequences, FiniteSets

CONSTANTS
  Jobs,       \* job ids
  Phases,     \* what a row may look like; those in Shown pass the filter
  Shown,
  Limit,      \* jobs in a list
  Batch,      \* phase events in one poll
  MaxEvents,  \* bound on what happens to jobs
  None        \* no such job

Constants == Jobs \subseteq Nat /\ Shown \subseteq Phases /\ Limit \in Nat \ {0}
               /\ Batch \in Nat \ {0} /\ MaxEvents \in Nat /\ None \notin Phases

VARIABLES
  row,      \* [Jobs -> None or how the row looks]
  log,      \* phase events, in the order of their ids: the job of each
  stream,   \* the generator: next query, fingerprints, last event id
  page,     \* what the page has been told of: jobs and events
  since,    \* the last event when the stream began
  missed    \* jobs that were not in some list of the stream

vars == <<row, log, stream, page, since, missed>>

Init ==
  /\ row \in [Jobs -> Phases \cup {None}] /\ log = <<>>
  /\ stream = [pc |-> "snapshot", seen |-> [j \in Jobs |-> None], last |-> 0]
  /\ page = [jobs |-> [j \in Jobs |-> None], events |-> <<>>]
  /\ since = 0 /\ missed = {}

-----------------------------------------------------------------------------
\* A job is created, or goes on, and logs it.
Change(j, p) ==
  /\ Len(log) < MaxEvents /\ row[j] # p
  /\ row' = [row EXCEPT ![j] = p]
  /\ log' = Append(log, j)
  /\ UNCHANGED <<stream, page, since, missed>>

-----------------------------------------------------------------------------
\* The newest jobs that pass the filter, as they look.
Matching == {j \in Jobs : row[j] \in Shown}
Listed   == {j \in Matching : Cardinality({i \in Matching : i > j}) < Limit}
List     == [j \in Jobs |-> IF j \in Listed THEN row[j] ELSE None]

Snapshot ==
  /\ stream.pc = "snapshot"
  /\ stream' = [stream EXCEPT !.pc = "latest", !.seen = List]
  /\ missed' = Jobs \ Listed
  /\ UNCHANGED <<row, log, page, since>>

\* get_latest_phase_event_id, after the list; then the page gets the snapshot.
Latest ==
  /\ stream.pc = "latest"
  /\ stream' = [stream EXCEPT !.pc = "jobs", !.last = Len(log)]
  /\ since' = Len(log)
  /\ page' = [page EXCEPT !.jobs = stream.seen]
  /\ UNCHANGED <<row, log, missed>>

\* Mutant: jobs that left the list are not removed.
DiffUnremoved(jobs) ==
  [j \in Jobs |-> IF List[j] # None /\ List[j] # stream.seen[j] THEN List[j] ELSE jobs[j]]

\* diff_jobs: a job that looks different is sent, one that left is removed; what
\* does not differ from the last list is left as the page has it. The code compares
\* fingerprints (sora_job_stream_service.py:76-91): a look stands for the fields that
\* are in them, not for the proxy, the window's name or the watermark attempt, which
\* a page may show as they were.
Diff(jobs) == [j \in Jobs |-> IF List[j] # stream.seen[j] THEN List[j] ELSE jobs[j]]

PollJobs ==
  /\ stream.pc = "jobs"
  /\ page' = [page EXCEPT !.jobs = Diff(@)]
  /\ stream' = [stream EXCEPT !.seen = List, !.pc = "events"]
  /\ missed' = missed \cup (Jobs \ Listed)
  /\ UNCHANGED <<row, log, since>>

\* How many events are read, at most a batch of them, and their ids.
More(last) == IF Batch < Len(log) - last THEN Batch ELSE Len(log) - last
Read(last) == last + 1 .. last + More(last)

\* Mutant: events beyond the batch are passed over.
LastReadSkipping(last) == Len(log)

LastRead(last) == last + More(last)

\* The numbers of a set in their order (ORDER BY id).
InOrder(S) == [n \in 1 .. Cardinality(S) |-> CHOOSE e \in S : Cardinality({f \in S : f <= e}) = n]

\* list_phase_events_since: those of listed jobs are sent.
PollEvents ==
  /\ stream.pc = "events"
  /\ page' = [page EXCEPT !.events =
                @ \o InOrder({e \in Read(stream.last) : stream.seen[log[e]] # None})]
  /\ stream' = [stream EXCEPT !.last = LastRead(@), !.pc = "jobs"]
  /\ UNCHANGED <<row, log, since, missed>>

Poll == Snapshot \/ Latest \/ PollJobs \/ PollEvents

Next == Poll \/ \E j \in Jobs, p \in Phases : Change(j, p)

Spec == Init /\ [][Next]_vars

\* The loop sleeps and polls for as long as the page is connected.
FairSpec == Spec /\ WF_vars(Poll)

-----------------------------------------------------------------------------
(* Properties *)

TypeOK ==
  /\ row \in [Jobs -> Phases \cup {None}] /\ log \in Seq(Jobs)
  /\ stream \in [pc : {"snapshot", "latest", "jobs", "events"},
                 seen : [Jobs -> Shown \cup {None}], last : Nat]
  /\ page.jobs \in [Jobs -> Shown \cup {None}] /\ page.events \in Seq(Nat)
  /\ since \in Nat /\ missed \subseteq Jobs

\* The page is told every event of a job that stays in the list, in order and once,
\* however many happen between two polls.
NoEventIsLost ==
  LET told == page.events IN
  /\ \A m, n \in DOMAIN told : m < n => told[m] < told[n]
  /\ \A e \in since + 1 .. stream.last :
       log[e] \in missed \/ \E n \in DOMAIN told : told[n] = e

\* When nothing changes any more the page comes to show the list, and the event of
\* every job that never left it.
PageCatchesUp ==
  <>[](/\ page.jobs = List
       /\ \A e \in since + 1 .. Len(log) :
            log[e] \in missed \/ \E n \in DOMAIN page.events : page.events[n] = e)
=============================================================================
