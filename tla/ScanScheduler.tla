--------------------------- MODULE ScanScheduler ---------------------------
(***************************************************************************)
(* The scheduler that scans the group at the minutes of the day an         *)
(* administrator chose (app/services/scan_scheduler.py), in every process  *)
(* that serves the database.                                               *)
(*                                                                         *)
(* A slot is a chosen minute of one day, named by its first tick. A tick   *)
(* is the 20 seconds a loop sleeps; the loop may be late.                  *)
(***************************************************************************)
EXTENDS Integers

CONSTANTS
  Procs,     \* server processes
  Slots,     \* minutes at which a scan is due
  SlotLen,   \* how long a slot lasts
  TTL,       \* how long a lock holds
  MaxLag,    \* the most ticks between two looks of a loop that is not scanning
  None,      \* no time
  MaxTime    \* bound on the clock

\* What the constants have to be.
SlotsAreApart ==
  /\ Slots \subseteq Nat /\ SlotLen \in Nat \ {0}
  /\ \A s, t \in Slots : s < t => s + SlotLen <= t
LockOutlivesSlot == TTL \in Nat /\ SlotLen <= TTL
Constants ==
  SlotsAreApart /\ LockOutlivesSlot /\ MaxLag \in Nat \ {0} /\ None \notin Nat

VARIABLES
  now,     \* clock
  stored,  \* the setting in the database: is the scheduler enabled
  on,      \* the setting a process works with
  loop,    \* what the loop of a process does
  lag,     \* ticks since its last look
  fired,   \* _fired_slot_keys: slots a process has scanned, in memory only
  lock,    \* locked_until of each slot
  scans,   \* history: scans begun for each slot
  awake    \* history: since when a loop is enabled and idle

vars == <<now, stored, on, loop, lag, fired, lock, scans, awake>>

Locks == INSTANCE SchedulerLock

-----------------------------------------------------------------------------
Init ==
  /\ now = 0
  /\ stored \in BOOLEAN
  /\ on = [p \in Procs |-> FALSE]
  /\ loop = [p \in Procs |-> "down"]
  /\ lag = [p \in Procs |-> 0]
  /\ fired = [p \in Procs |-> {}]
  /\ lock = [s \in Slots |-> None]
  /\ scans = [s \in Slots |-> 0]
  /\ awake = [p \in Procs |-> None]

\* No idle loop sleeps past its next look.
Tick ==
  /\ now < MaxTime
  /\ \A p \in Procs : loop[p] = "idle" => lag[p] < MaxLag
  /\ now' = now + 1
  /\ lag' = [p \in Procs |-> IF loop[p] = "idle" THEN lag[p] + 1 ELSE 0]
  /\ UNCHANGED <<stored, on, loop, fired, lock, scans, awake>>

\* Startup reads the setting; the loop looks at once.
Start(p) ==
  /\ loop[p] = "down"
  /\ loop' = [loop EXCEPT ![p] = "idle"]
  /\ lag' = [lag EXCEPT ![p] = MaxLag]
  /\ on' = [on EXCEPT ![p] = stored]
  /\ awake' = [awake EXCEPT ![p] = IF stored THEN now ELSE None]
  /\ UNCHANGED <<now, stored, fired, lock, scans>>

\* A process stops or dies, and what it remembers with it.
Stop(p) ==
  /\ loop[p] # "down"
  /\ loop' = [loop EXCEPT ![p] = "down"]
  /\ lag' = [lag EXCEPT ![p] = 0]
  /\ on' = [on EXCEPT ![p] = FALSE]
  /\ fired' = [fired EXCEPT ![p] = {}]
  /\ awake' = [awake EXCEPT ![p] = None]
  /\ UNCHANGED <<now, stored, lock, scans>>

\* The setting is saved, and applied in the process that serves the request only.
Save(p, enabled) ==
  /\ loop[p] # "down"
  /\ stored' = enabled
  /\ on' = [on EXCEPT ![p] = enabled]
  /\ awake' = [awake EXCEPT ![p] = IF ~enabled \/ loop[p] # "idle" THEN None
                                   ELSE IF on[p] THEN @ ELSE now]
  /\ UNCHANGED <<now, loop, lag, fired, lock, scans>>

\* ScanScheduler._tick
Looks(p) ==
  /\ loop[p] = "idle" /\ lag[p] > 0
  /\ lag' = [lag EXCEPT ![p] = 0]
  /\ UNCHANGED <<now, stored, on>>

\* Mutant: the loop has to hit the time itself.
DueNow(p) == IF on[p] THEN {s \in Slots : s = now} \ fired[p] ELSE {}

Due(p) == IF on[p] THEN {s \in Slots : s <= now /\ now < s + SlotLen} \ fired[p] ELSE {}

Skip(p) ==
  /\ Looks(p)
  /\ \A s \in Due(p) : ~Locks!Free(s)
  /\ UNCHANGED <<loop, fired, lock, scans, awake>>

Scan(p) ==
  /\ Looks(p)
  /\ \E s \in Due(p) :
       /\ Locks!Free(s) /\ Locks!Grant(s)
       /\ fired' = [fired EXCEPT ![p] = @ \cup {s}]
       /\ scans' = [scans EXCEPT ![s] = @ + 1]
  /\ loop' = [loop EXCEPT ![p] = "scanning"]
  /\ awake' = [awake EXCEPT ![p] = None]

\* The scan ends well or badly; the loop sleeps and goes on.
Finish(p) ==
  /\ loop[p] = "scanning"
  /\ loop' = [loop EXCEPT ![p] = "idle"]
  /\ lag' = [lag EXCEPT ![p] = 0]
  /\ awake' = [awake EXCEPT ![p] = IF on[p] THEN now ELSE None]
  /\ UNCHANGED <<now, stored, on, fired, lock, scans>>

Next ==
  \/ Tick
  \/ \E p \in Procs :
       \/ Start(p) \/ Stop(p) \/ Skip(p) \/ Scan(p) \/ Finish(p)
       \/ \E enabled \in BOOLEAN : Save(p, enabled)

Spec == Init /\ [][Next]_vars

-----------------------------------------------------------------------------
(* Properties *)

TypeOK ==
  /\ now \in Nat
  /\ stored \in BOOLEAN
  /\ on \in [Procs -> BOOLEAN]
  /\ loop \in [Procs -> {"down", "idle", "scanning"}]
  /\ lag \in [Procs -> 0 .. MaxLag]
  /\ fired \in [Procs -> SUBSET Slots]
  /\ lock \in [Slots -> Nat \cup {None}]
  /\ scans \in [Slots -> Nat]
  /\ awake \in [Procs -> Nat \cup {None}]

\* However many processes run, and however often they restart and forget what they
\* fired, a slot is scanned at most once.
OneScanPerSlot == \A s \in Slots : scans[s] <= 1

\* A slot is not missed if some process waited for it from its beginning: no lock
\* of another slot, and nothing a process remembers, is in the way.
SlotIsServed ==
  \A s \in Slots, p \in Procs :
    awake[p] # None /\ awake[p] <= s /\ now >= s + SlotLen => scans[s] > 0
=============================================================================
