---------------------------- MODULE Background ----------------------------
(***************************************************************************)
(* What a server does around the runs of its jobs: the dispatch of         *)
(* accounts and the retry on another one, the two schedulers, the quota    *)
(* history, the pool of proxies and its checks, the listing of groups, the *)
(* record of challenges. These parts share no state, so in every behaviour *)
(* one of them runs and the others rest: the states are the sum of those   *)
(* of the parts, not the product.                                          *)
(***************************************************************************)
EXTENDS Integers, FiniteSets

CONSTANTS
  None,          \* nothing, in every part
  Procs,         \* server processes, callers, requests
  (* AccountDispatch *)
  Accounts, Jobs, Kinds, Cooldown, Lookback, LogSpan, MinRemaining, Grace, Quota, Releases,
  DispatchTime,  \* bound on its clock, as in the other parts below
  (* OverloadRetry *)
  RetryJobs, RetryAccounts, MaxTries, MaxRoots,
  (* ScanScheduler and RecoveryScheduler *)
  ScanSlots, SlotLen, ScanTTL, ScanTime, Interval, RecoveryTTL, RecoveryTime,
  MaxLag,        \* of the loops of both
  (* QuotaHistory *)
  Profiles, Scanners, QuotaHeard, KeepScans, CacheTtl, Backfills, HistoryTime,
  (* ProxyPool *)
  Keys, Passwords, RowIds, IxIds, Pushers,
  (* GroupCache *)
  GroupTTL, Short, MaxCall, GroupTime,
  (* CfEvents *)
  Windows, Proxies, KeepEvents, MaxEvents,
  (* ProxyCheck *)
  Checked,       \* its proxies
  CheckSlots, Reuse, CheckTime, Flags, Penalty, Risks

VARIABLES
  part,                                   \* the part that runs
  now,                                    \* clock
  reading, job, log, pick, rest, peak,    \* AccountDispatch
  retry, submitting, call,                \* OverloadRetry: the jobs, their runs, the callers
  stored, on, loop, lag, lock, awake,     \* the schedulers
  fired, scans,                           \* ScanScheduler
  nextRun, lastScan,                      \* RecoveryScheduler
  runs, scan, pending,                    \* QuotaHistory
  cache,                                  \* QuotaHistory and GroupCache
  row, edited,                            \* ProxyPool and ProxyCheck
  rec, lastIx, push, pull,                \* ProxyPool
  check,                                  \* ProxyCheck
  failedAt, caller, given,                \* GroupCache
  binding, table, past                    \* CfEvents

dispatchVars  == <<reading, job, log, pick, rest, peak>>
retryVars     == <<retry, submitting, call>>
schedulerVars == <<stored, on, loop, lag, lock, awake>>
scansVars     == <<fired, scans>>
recoveryVars  == <<nextRun, lastScan>>
historyVars   == <<runs, scan, pending>>
cacheVars     == <<cache>>
rowVars       == <<row, edited>>
poolVars      == <<rec, lastIx, push, pull>>
checkVars     == <<check>>
groupsVars    == <<failedAt, caller, given>>
eventsVars    == <<binding, table, past>>

vars == <<part, now, dispatchVars, retryVars, schedulerVars, scansVars, recoveryVars,
          historyVars, cacheVars, rowVars, poolVars, checkVars, groupsVars, eventsVars>>

Dispatch == INSTANCE AccountDispatch WITH MaxTime <- DispatchTime

Overload == INSTANCE OverloadRetry WITH
  Jobs <- RetryJobs, Profiles <- RetryAccounts, Callers <- Procs, MaxAttempts <- MaxTries,
  job <- retry

Scans == INSTANCE ScanScheduler WITH Slots <- ScanSlots, TTL <- ScanTTL, MaxTime <- ScanTime

Recovery == INSTANCE RecoveryScheduler WITH TTL <- RecoveryTTL, MaxTime <- RecoveryTime

History == INSTANCE QuotaHistory WITH
  Quota <- QuotaHeard, Keep <- KeepScans, MaxTime <- HistoryTime

Pool == INSTANCE ProxyPool

Groups == INSTANCE GroupCache WITH
  Callers <- Procs, TTL <- GroupTTL, MaxTime <- GroupTime, clock <- now

Events == INSTANCE CfEvents WITH Profiles <- Windows, Keep <- KeepEvents

Checks == INSTANCE ProxyCheck WITH
  Proxies <- Checked, Requests <- Procs, Slots <- CheckSlots, MaxTime <- CheckTime, clock <- now

\* What the constants have to be. The loop of the scheduler looks three times in a minute.
ASSUME ConstantsAreRight ==
  /\ Dispatch!Constants /\ Overload!Constants /\ Scans!Constants /\ Recovery!Constants
  /\ Pool!Constants /\ Groups!Constants /\ Events!Constants /\ Checks!Constants /\ History!Constants
  /\ MaxLag < SlotLen

-----------------------------------------------------------------------------
(* A part rests *)

NoDispatch  == reading = None /\ job = None /\ log = None /\ pick = None /\ rest = None /\ peak = None
NoRetry     == retry = None /\ submitting = None /\ call = None
NoScheduler == stored = None /\ on = None /\ loop = None /\ lag = None /\ lock = None /\ awake = None
NoScans     == fired = None /\ scans = None
NoRecovery  == nextRun = None /\ lastScan = None
NoHistory   == runs = None /\ scan = None /\ pending = None
NoCache     == cache = None
NoRow       == row = None /\ edited = None
NoPool      == rec = None /\ lastIx = None /\ push = None /\ pull = None
NoCheck     == check = None
NoGroups    == failedAt = None /\ caller = None /\ given = None
NoEvents    == binding = None /\ table = None /\ past = None

Init ==
  \/ /\ part = "dispatch" /\ Dispatch!Init
     /\ NoRetry /\ NoScheduler /\ NoScans /\ NoRecovery /\ NoHistory /\ NoCache /\ NoRow
     /\ NoPool /\ NoCheck /\ NoGroups /\ NoEvents
  \/ /\ part = "overload" /\ Overload!Init
     /\ NoDispatch /\ NoScheduler /\ NoScans /\ NoRecovery /\ NoHistory /\ NoCache /\ NoRow
     /\ NoPool /\ NoCheck /\ NoGroups /\ NoEvents /\ now = None
  \/ /\ part = "scans" /\ Scans!Init
     /\ NoDispatch /\ NoRetry /\ NoRecovery /\ NoHistory /\ NoCache /\ NoRow /\ NoPool
     /\ NoCheck /\ NoGroups /\ NoEvents
  \/ /\ part = "recovery" /\ Recovery!Init
     /\ NoDispatch /\ NoRetry /\ NoScans /\ NoHistory /\ NoCache /\ NoRow /\ NoPool
     /\ NoCheck /\ NoGroups /\ NoEvents
  \/ /\ part = "history" /\ History!Init
     /\ NoDispatch /\ NoRetry /\ NoScheduler /\ NoScans /\ NoRecovery /\ NoRow /\ NoPool
     /\ NoCheck /\ NoGroups /\ NoEvents
  \/ /\ part = "pool" /\ Pool!Init
     /\ NoDispatch /\ NoRetry /\ NoScheduler /\ NoScans /\ NoRecovery /\ NoHistory /\ NoCache
     /\ NoCheck /\ NoGroups /\ NoEvents /\ now = None
  \/ /\ part = "groups" /\ Groups!Init
     /\ NoDispatch /\ NoRetry /\ NoScheduler /\ NoScans /\ NoRecovery /\ NoHistory /\ NoRow
     /\ NoPool /\ NoCheck /\ NoEvents
  \/ /\ part = "events" /\ Events!Init
     /\ NoDispatch /\ NoRetry /\ NoScheduler /\ NoScans /\ NoRecovery /\ NoHistory /\ NoCache
     /\ NoRow /\ NoPool /\ NoCheck /\ NoGroups /\ now = None
  \/ /\ part = "checks" /\ Checks!Init
     /\ NoDispatch /\ NoRetry /\ NoScheduler /\ NoScans /\ NoRecovery /\ NoHistory /\ NoCache
     /\ NoPool /\ NoGroups /\ NoEvents

Next ==
  /\ UNCHANGED part
  /\ \/ /\ part = "dispatch" /\ Dispatch!Next
        /\ UNCHANGED <<retryVars, schedulerVars, scansVars, recoveryVars, historyVars,
                       cacheVars, rowVars, poolVars, checkVars, groupsVars, eventsVars>>
     \/ /\ part = "overload" /\ Overload!Next
        /\ UNCHANGED <<dispatchVars, schedulerVars, scansVars, recoveryVars, historyVars,
                       cacheVars, rowVars, poolVars, checkVars, groupsVars, eventsVars, now>>
     \/ /\ part = "scans" /\ Scans!Next
        /\ UNCHANGED <<dispatchVars, retryVars, recoveryVars, historyVars, cacheVars, rowVars,
                       poolVars, checkVars, groupsVars, eventsVars>>
     \/ /\ part = "recovery" /\ Recovery!Next
        /\ UNCHANGED <<dispatchVars, retryVars, scansVars, historyVars, cacheVars, rowVars,
                       poolVars, checkVars, groupsVars, eventsVars>>
     \/ /\ part = "history" /\ History!Next
        /\ UNCHANGED <<dispatchVars, retryVars, schedulerVars, scansVars, recoveryVars,
                       rowVars, poolVars, checkVars, groupsVars, eventsVars>>
     \/ /\ part = "pool" /\ Pool!Next
        /\ UNCHANGED <<dispatchVars, retryVars, schedulerVars, scansVars, recoveryVars,
                       historyVars, cacheVars, checkVars, groupsVars, eventsVars, now>>
     \/ /\ part = "groups" /\ Groups!Next
        /\ UNCHANGED <<dispatchVars, retryVars, schedulerVars, scansVars, recoveryVars,
                       historyVars, rowVars, poolVars, checkVars, eventsVars>>
     \/ /\ part = "events" /\ Events!Next
        /\ UNCHANGED <<dispatchVars, retryVars, schedulerVars, scansVars, recoveryVars,
                       historyVars, cacheVars, rowVars, poolVars, checkVars, groupsVars, now>>
     \/ /\ part = "checks" /\ Checks!Next
        /\ UNCHANGED <<dispatchVars, retryVars, schedulerVars, scansVars, recoveryVars,
                       historyVars, cacheVars, poolVars, groupsVars, eventsVars>>

Spec == Init /\ [][Next]_vars

-----------------------------------------------------------------------------
(* Properties: those of the parts *)

Parts == {"dispatch", "overload", "scans", "recovery", "history", "pool", "groups",
          "events", "checks"}

TypeOK ==
  /\ part \in Parts
  /\ part = "dispatch" => Dispatch!TypeOK
  /\ part = "overload" => Overload!TypeOK
  /\ part = "scans"    => Scans!TypeOK
  /\ part = "recovery" => Recovery!TypeOK
  /\ part = "history"  => History!TypeOK
  /\ part = "pool"     => Pool!TypeOK
  /\ part = "groups"   => Groups!TypeOK
  /\ part = "events"   => Events!TypeOK
  /\ part = "checks"   => Checks!TypeOK

\* Picks are right: dispatch does not choose an account while it rests after a failure;
\* the jobs it gave an account that still wait for their submit, with those about to be
\* inserted, exceed the largest estimate since they began to wait by at most one for each
\* further process; and an exhausted account can be chosen again after its next release.
PicksAreRight ==
  part = "dispatch" =>
    Dispatch!RestIsRemembered /\ Dispatch!OverbookingIsBounded /\ Dispatch!ResetReopens

\* A retry never goes back to an account on which an earlier attempt of its line was
\* refused, even when several callers extend the family at the same time.
AncestorsAvoided == part = "overload" => Overload!AncestorsAvoided

\* No line of retries is longer than heavy_load_retry_max_attempts, whatever was stale
\* when a child was inserted.
LineIsBounded == part = "overload" => Overload!LineIsBounded

\* What get_sora_job shows with follow_retry is where the work goes on, unless the family
\* has branched.
FollowedJobIsTheLive == part = "overload" => Overload!FollowedJobIsTheLive

\* Once a job has a child and nobody is waiting on its behalf, no child is added any more.
ChildIsFinal ==
  [][part = "overload" =>
       \A j \in RetryJobs : Overload!Final(j) =>
         Overload!Final(j)' /\ Overload!Children(j)' = Overload!Children(j)]_vars

\* No slot of the scan is served twice or missed by all that waited for it, and no
\* process waits for its recovery scan in vain.
SlotsAreServedOnce ==
  /\ part = "scans"    => Scans!OneScanPerSlot /\ Scans!SlotIsServed
  /\ part = "recovery" => Recovery!RecoveryIsRegular

\* Recordings that overlap share one realtime run, and dispatch and the accounts page
\* show the same quota.
HistoryIsOne == part = "history" => History!OneRealtimeRun /\ History!ViewsAgree

\* No two rows of the pool are about one proxy, as long as nobody edits one, and
\* pushing does not put a proxy into ixBrowser twice.
ProxiesAreSingle == part = "pool" => Pool!OneRowPerKey /\ Pool!OneRecordPerKey

\* What is shown is true and not too old: a listing of windows, the marks of a proxy,
\* a success that was stored, and one that is reported without a check.
ShownIsCurrent ==
  /\ part = "groups" => Groups!GivenIsFresh
  /\ part = "events" => Events!ShownIsTrue
  /\ part = "checks" => Checks!SuccessIsOfTheAddress /\ Checks!GivenIsRecent

\* What is known is kept: a value heard of one account leaves the estimates of all
\* others alone, and only a check that failed takes the success of a proxy away.
KnownIsKept ==
  /\ [][part = "history" =>
          \A p \in Profiles : pending' # pending /\ pending' \subseteq pending /\ scan' = scan
            /\ (\A h \in pending \ pending' : h.profile # p)
            => History!Estimate(p)' = History!Estimate(p)]_vars
  /\ [][part = "checks" =>
          \A p \in Checked : row[p].status = "success" /\ row'[p].status # "success" =>
            \E q \in Procs : check[q][p] # check'[q][p] /\ check'[q][p].pc = "failed"]_vars
=============================================================================
