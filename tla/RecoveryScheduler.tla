------------------------- MODULE RecoveryScheduler -------------------------
(***************************************************************************)
(* The scheduler that scans the accounts again and again at an interval    *)
(* (app/services/account_recovery_scheduler.py), in every process that     *)
(* serves the database. Its lock is named by the interval's number since   *)
(* the epoch, and does not live as long.                                   *)
(*                                                                         *)
(* A tick is the 10 seconds a loop sleeps; the loop may be late.           *)
(***************************************************************************)
EXTENDS Integers

CONSTANTS
  Procs,     \* server processes
  Interval,  \* auto_scan_interval_minutes
  TTL,       \* how long a lock holds
  MaxLag,    \* the most ticks between two looks of a loop that is not scanning
  None,      \* no time
  MaxTime    \* bound on the clock

\* What the constants have to be.
Constants ==
  /\ Interval \in Nat \ {0} /\ TTL \in Nat /\ MaxLag \in Nat /\ MaxTime \in Nat
  /\ None \notin Nat

VARIABLES
  now,      \* clock
  stored,   \* the setting in the database: is the scheduler enabled
  on,       \* the setting a process works with
  loop,     \* what the loop of a process does
  lag,      \* ticks since its last look
  nextRun,  \* _next_run_at
  lock,     \* locked_until of each interval
  lastScan, \* history: when the last recovery scan began
  awake     \* history: since when a loop is enabled and idle, its time not put off

vars == <<now, stored, on, loop, lag, nextRun, lock, lastScan, awake>>

Locks == INSTANCE SchedulerLock

Larger(m, n) == IF m >= n THEN m ELSE n
TimeSlot == now \div Interval

-----------------------------------------------------------------------------
Init ==
  /\ now = 0
  /\ stored \in BOOLEAN
  /\ on = [p \in Procs |-> FALSE]
  /\ loop = [p \in Procs |-> "down"]
  /\ lag = [p \in Procs |-> 0]
  /\ nextRun = [p \in Procs |-> 0]
  /\ lock = [s \in 0 .. MaxTime \div Interval |-> None]
  /\ lastScan = 0
  /\ awake = [p \in Procs |-> None]

\* No idle loop sleeps past its next look.
Tick ==
  /\ now < MaxTime
  /\ \A p \in Procs : loop[p] = "idle" => lag[p] < MaxLag
  /\ now' = now + 1
  /\ lag' = [p \in Procs |-> IF loop[p] = "idle" THEN lag[p] + 1 ELSE 0]
  /\ UNCHANGED <<stored, on, loop, nextRun, lock, lastScan, awake>>

\* Startup reads the setting; the loop looks at once, but a first scan has to wait.
Start(p) ==
  /\ loop[p] = "down"
  /\ loop' = [loop EXCEPT ![p] = "idle"]
  /\ lag' = [lag EXCEPT ![p] = MaxLag]
  /\ on' = [on EXCEPT ![p] = stored]
  /\ nextRun' = [nextRun EXCEPT ![p] = now + Interval]
  /\ awake' = [awake EXCEPT ![p] = IF stored THEN now ELSE None]
  /\ UNCHANGED <<now, stored, lock, lastScan>>

Stop(p) ==
  /\ loop[p] # "down"
  /\ loop' = [loop EXCEPT ![p] = "down"]
  /\ lag' = [lag EXCEPT ![p] = 0]
  /\ on' = [on EXCEPT ![p] = FALSE]
  /\ nextRun' = [nextRun EXCEPT ![p] = 0]
  /\ awake' = [awake EXCEPT ![p] = None]
  /\ UNCHANGED <<now, stored, lock, lastScan>>

\* Any save of the system settings is applied here, in the process that serves the
\* request only, and puts its next recovery scan off by a whole interval.
Save(p, enabled) ==
  /\ loop[p] # "down"
  /\ stored' = enabled
  /\ on' = [on EXCEPT ![p] = enabled]
  /\ nextRun' = [nextRun EXCEPT ![p] = IF enabled THEN now + Interval ELSE 0]
  /\ awake' = [awake EXCEPT ![p] = IF enabled /\ loop[p] = "idle" THEN now ELSE None]
  /\ UNCHANGED <<now, loop, lag, lock, lastScan>>

\* AccountRecoveryScheduler._tick
Looks(p) ==
  /\ loop[p] = "idle" /\ lag[p] > 0
  /\ lag' = [lag EXCEPT ![p] = 0]
  /\ UNCHANGED <<now, stored, on>>

Due(p) == on[p] /\ now >= nextRun[p]

Skip(p) ==
  /\ Looks(p) /\ ~Due(p)
  /\ UNCHANGED <<loop, nextRun, lock, lastScan, awake>>

\* Mutant: a conflict counts as a scan.
WaitLong(p) ==
  /\ Looks(p) /\ Due(p) /\ ~Locks!Free(TimeSlot)
  /\ nextRun' = [nextRun EXCEPT ![p] = now + Interval]
  /\ UNCHANGED <<loop, lock, lastScan, awake>>

\* The lock is taken: try again in five seconds, that is at the next look.
Wait(p) ==
  /\ Looks(p) /\ Due(p) /\ ~Locks!Free(TimeSlot)
  /\ nextRun' = [nextRun EXCEPT ![p] = now + 1]
  /\ UNCHANGED <<loop, lock, lastScan, awake>>

Scan(p) ==
  /\ Looks(p) /\ Due(p) /\ Locks!Free(TimeSlot) /\ Locks!Grant(TimeSlot)
  /\ nextRun' = [nextRun EXCEPT ![p] = now + Interval]
  /\ lastScan' = now
  /\ loop' = [loop EXCEPT ![p] = "scanning"]
  /\ awake' = [awake EXCEPT ![p] = None]

\* The scan ends well or badly; the loop sleeps and goes on.
Finish(p) ==
  /\ loop[p] = "scanning"
  /\ loop' = [loop EXCEPT ![p] = "idle"]
  /\ lag' = [lag EXCEPT ![p] = 0]
  /\ awake' = [awake EXCEPT ![p] = IF on[p] THEN now ELSE None]
  /\ UNCHANGED <<now, stored, on, nextRun, lock, lastScan>>

Next ==
  \/ Tick
  \/ \E p \in Procs :
       \/ Start(p) \/ Stop(p) \/ Skip(p) \/ Wait(p) \/ Scan(p) \/ Finish(p)
       \/ \E enabled \in BOOLEAN : Save(p, enabled)

Spec == Init /\ [][Next]_vars

-----------------------------------------------------------------------------
(* Properties *)

TypeOK ==
  /\ now \in Nat
  /\ stored \in BOOLEAN
  /\ on \in [Procs -> BOOLEAN]
  /\ loop \in [Procs -> {"down", "idle", "scanning"}]
  /\ lag \in [Procs -> 0 .. MaxLag]
  /\ nextRun \in [Procs -> Nat]
  /\ lock \in [0 .. MaxTime \div Interval -> Nat \cup {None}]
  /\ lastScan \in Nat
  /\ awake \in [Procs -> Nat \cup {None}]

\* While a process waits for its recovery scan, another can only keep it waiting by
\* scanning: the accounts are never left for longer than an interval, or the life of
\* a lock after the last scan, and two looks.
RecoveryIsRegular ==
  \A p \in Procs : awake[p] # None =>
    now <= Larger(awake[p] + Interval, lastScan + TTL + 1) + MaxLag
=============================================================================
