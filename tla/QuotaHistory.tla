---------------------------- MODULE QuotaHistory ----------------------------
(***************************************************************************)
(* How the server comes to know how many videos an account has left.       *)
(* Scans open the windows of a group one by one and save what they read as *)
(* a new run of ixbrowser_scan_runs when they are through; a listener on   *)
(* every page hears the quota in passing and records it in a run of its    *)
(* own, the realtime run; account dispatch and the accounts page merge the *)
(* latest scan with the realtime run.                                      *)
(*                                                                         *)
(* One server process and one group.  Runs are numbered by their place in  *)
(* the sequence: only the order of the ids matters.                        *)
(***************************************************************************)
EXTENDS Naturals, Sequences, FiniteSets

CONSTANTS
  Profiles,   \* the windows of the group
  Scanners,   \* coroutines that may be scanning at a time
  None,       \* NULL, no row
  Quota,      \* what an account can have left
  Keep,       \* scan_history_limit
  CacheTtl,   \* how long a value that was heard is not recorded again
  Backfills,  \* values of with_fallback that the callers use
  MaxTime     \* bound on the clock

\* A row of ixbrowser_scan_results: quota_remaining_count, success, scanned_at.
Cell    == [val : Quota \cup {None}, ok : BOOLEAN, at : 0 .. MaxTime]
Results == [Profiles -> Cell \cup {None}]
Run     == [realtime : BOOLEAN, res : Results]

Constants ==
  /\ None \notin Quota \cup Cell /\ Keep \in Nat \ {0}
  /\ CacheTtl \in Nat /\ MaxTime \in Nat /\ Backfills \subseteq BOOLEAN

VARIABLES
  now,      \* the clock, in the seconds of scanned_at
  runs,     \* ixbrowser_scan_runs with their results, oldest first
  scan,     \* the scans under way
  cache,    \* _quota_cache of the listener
  pending   \* record_realtime_quota coroutines waiting for the list of windows

vars == <<now, runs, scan, cache, pending>>

\* only: the windows to scan; old: what the others had when the scan began;
\* todo: the windows not read yet; got: what was read of the others.
Reading == [val : Quota \cup {None}, ok : BOOLEAN]
Scan    == [only : SUBSET Profiles, old : Results, todo : SUBSET Profiles,
            got : [Profiles -> Reading]]
Unread  == [val |-> None, ok |-> FALSE]

Heard == [profile : Profiles, val : Quota]

TypeOK ==
  /\ now \in 0 .. MaxTime
  /\ runs \in Seq(Run) /\ Len(runs) <= Keep
  /\ scan \in [Scanners -> Scan \cup {None}]
  /\ cache \in [Profiles -> [val : Quota, at : 0 .. MaxTime] \cup {None}]
  /\ pending \subseteq Heard

Init ==
  /\ now = 0
  /\ runs = <<>>
  /\ scan = [c \in Scanners |-> None]
  /\ cache = [p \in Profiles |-> None]
  /\ pending = {}

-----------------------------------------------------------------------------
(* Reading the tables *)

Newest(I) == IF I = {} THEN 0 ELSE CHOOSE i \in I : \A k \in I : k <= i

ScanRuns(s)     == {i \in DOMAIN s : ~s[i].realtime}

RealtimeRuns(s) == {i \in DOMAIN s : s[i].realtime}

\* The latest run that is not the realtime one, or else the realtime one.
Base(s) == Newest(IF ScanRuns(s) # {} THEN ScanRuns(s) ELSE RealtimeRuns(s))
Rt(s)   == Newest(RealtimeRuns(s))

\* A realtime row counts unless it is older than the row of the scan.
Overrules(r, b) == r # None /\ (b = None \/ r.at >= b.at)

\* Mutant: the realtime run only counts when it was made after the scan.
MergedByAge(s, p) ==
  IF s = <<>> THEN None
  ELSE LET b == s[Base(s)].res[p]
       IN IF Rt(s) <= Base(s) \/ ~Overrules(s[Rt(s)].res[p], b) THEN b
          ELSE IF b = None THEN s[Rt(s)].res[p] ELSE [b EXCEPT !.val = s[Rt(s)].res[p].val]

\* _load_latest_scan_map: the row of p that dispatch works with.
Merged(s, p) ==
  IF s = <<>> THEN None
  ELSE LET b == s[Base(s)].res[p]
       IN IF Rt(s) \in {0, Base(s)} THEN b
          ELSE LET r == s[Rt(s)].res[p]
               IN IF ~Overrules(r, b) THEN b
                  ELSE IF b = None THEN r ELSE [b EXCEPT !.val = r.val]

\* get_ixbrowser_latest_success_results_before_run: p in the newest run before
\* the n-th in which p succeeded.
Backfill(s, n, p) ==
  LET i == Newest({k \in 1 .. n - 1 : s[k].res[p] # None /\ s[k].res[p].ok})
  IN IF i = 0 THEN None ELSE s[i].res[p].val

\* _apply_fallback_from_history on the row b of p in the n-th run.
Filled(s, n, p, b) ==
  IF b # None /\ b.val = None THEN [b EXCEPT !.val = Backfill(s, n, p)] ELSE b

\* get_latest_sora_scan: the row of p that the accounts page shows and that a
\* scan of some windows copies for the others.
Shown(s, p) ==
  IF s = <<>> THEN None
  ELSE LET b == Filled(s, Base(s), p, s[Base(s)].res[p])
       IN IF Rt(s) \in {0, Base(s)} \/ b = None THEN b
          ELSE LET r == s[Rt(s)].res[p]
               IN IF Overrules(r, b) THEN [b EXCEPT !.val = r.val, !.at = r.at] ELSE b

ValueOf(cell) == IF cell = None THEN None ELSE cell.val
Estimate(p)   == ValueOf(Merged(runs, p))

\* Mutant: the oldest runs are not deleted.
AddedForGood(s, run) == Append(s, run)

\* create_ixbrowser_scan_run: the run is added, the oldest ones are deleted.
Added(s, run) ==
  LET t == Append(s, run)
  IN IF Len(t) > Keep THEN SubSeq(t, Len(t) - Keep + 1, Len(t)) ELSE t

-----------------------------------------------------------------------------
(* Time *)

Tick ==
  /\ now < MaxTime
  /\ now' = now + 1
  /\ UNCHANGED <<runs, scan, cache, pending>>

-----------------------------------------------------------------------------
(* Scans *)

\* scan_group_sora_sessions, for all windows or for some.
StartScan(c) ==
  /\ scan[c] = None
  /\ \E S \in SUBSET Profiles \ {{}} :
       scan' = [scan EXCEPT ![c] =
         [only |-> S, todo |-> S, got |-> [p \in Profiles |-> Unread],
          old  |-> [p \in Profiles |-> IF S = Profiles THEN None ELSE Shown(runs, p)]]]
  /\ UNCHANGED <<now, runs, cache, pending>>

\* One window: it does not open or has no session, or it has a session and its
\* quota is read or not.  Videos are made and quota comes back all the time, so a
\* reading may be any value.
ReadWindow(c, p) ==
  /\ scan[c] # None /\ p \in scan[c].todo
  /\ \E r \in {Unread} \cup [val : Quota \cup {None}, ok : {TRUE}] :
       scan' = [scan EXCEPT ![c].todo = @ \ {p}, ![c].got[p] = r]
  /\ UNCHANGED <<now, runs, cache, pending>>

\* The windows that were read are stamped now, when the scan is saved.
SavedRow(c, p) ==
  IF p \in scan[c].only \/ scan[c].old[p] = None
  THEN [val |-> scan[c].got[p].val, ok |-> scan[c].got[p].ok, at |-> now]
  ELSE scan[c].old[p]

Saved(c) ==
  Added(runs, [realtime |-> FALSE, res |-> [p \in Profiles |-> SavedRow(c, p)]])

\* All windows are done: the run is saved, then its gaps are filled.
SaveScan(c) ==
  /\ scan[c] # None /\ scan[c].todo = {}
  /\ \E backfill \in Backfills :
       LET s == Saved(c)  n == Len(s)
       IN runs' = IF backfill
                  THEN [s EXCEPT ![n].res = [p \in Profiles |-> Filled(s, n, p, @[p])]]
                  ELSE s
  /\ scan' = [scan EXCEPT ![c] = None]
  /\ UNCHANGED <<now, cache, pending>>

\* The browser driver fails: nothing is saved.
AbandonScan(c) ==
  /\ scan[c] # None
  /\ scan' = [scan EXCEPT ![c] = None]
  /\ UNCHANGED <<now, runs, cache, pending>>

-----------------------------------------------------------------------------
(* The listener *)

\* handle_response: a value that was heard a moment ago is not recorded again.
\* Bound: of equal recordings of an account one is under way at a time.
Hear(p, n) ==
  /\ ~(cache[p] # None /\ cache[p].val = n /\ now - cache[p].at < CacheTtl)
  /\ [profile |-> p, val |-> n] \notin pending
  /\ cache' = [cache EXCEPT ![p] = [val |-> n, at |-> now]]
  /\ pending' = pending \cup {[profile |-> p, val |-> n]}
  /\ UNCHANGED <<now, runs, scan>>

\* Mutant: every recording makes a run of its own.
RecordAnew(h) ==
  LET s == Added(runs, [realtime |-> TRUE, res |-> [p \in Profiles |-> None]])
  IN /\ runs' = [s EXCEPT ![Len(s)].res[h.profile] = [val |-> h.val, ok |-> TRUE, at |-> now]]
     /\ pending' = pending \ {h}
     /\ UNCHANGED <<now, scan, cache>>

\* record_realtime_quota, after the list of windows is there: the row of p in the
\* realtime run, which is made if there is none.
Record(h) ==
  LET s == IF RealtimeRuns(runs) # {} THEN runs
           ELSE Added(runs, [realtime |-> TRUE, res |-> [p \in Profiles |-> None]])
  IN /\ runs' = [s EXCEPT ![Rt(s)].res[h.profile] = [val |-> h.val, ok |-> TRUE, at |-> now]]
     /\ pending' = pending \ {h}
     /\ UNCHANGED <<now, scan, cache>>

\* The process is stopped, or dies where a coroutine waits, and is started again.
Restart ==
  /\ scan' = [c \in Scanners |-> None]
  /\ cache' = [p \in Profiles |-> None]
  /\ pending' = {}
  /\ UNCHANGED <<now, runs>>

Next ==
  \/ Tick
  \/ \E p \in Profiles, n \in Quota : Hear(p, n)
  \/ \E c \in Scanners :
       \/ StartScan(c) \/ SaveScan(c) \/ AbandonScan(c)
       \/ \E p \in Profiles : ReadWindow(c, p)
  \/ \E h \in pending : Record(h)
  \/ Restart

Spec == Init /\ [][Next]_vars

-----------------------------------------------------------------------------
(* Properties *)

\* Recordings that overlap share one realtime run: looking it up and making it
\* lie on the same side of the wait for the list of windows.
OneRealtimeRun == Cardinality(RealtimeRuns(runs)) <= 1

\* A value heard of one account leaves the estimates of all others alone, even
\* when the realtime run has to be made anew and an old run is deleted for it.
RecordingIsLocal ==
  [][\A p \in Profiles : pending' # pending /\ pending' \subseteq pending /\ scan' = scan
       /\ (\A h \in pending \ pending' : h.profile # p)
       => Estimate(p)' = Estimate(p)]_vars

\* Dispatch and the accounts page, which merge the runs in different code, show
\* the same quota as long as gaps are always filled: the page fills them anew when
\* it reads, from runs that changed or went away since, and dispatch does not.
ViewsAgree == \A p \in Profiles : Estimate(p) = ValueOf(Shown(runs, p))
=============================================================================
