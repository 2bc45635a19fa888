--------------------------- MODULE SchedulerLock ---------------------------
(***************************************************************************)
(* Locks that expire, by which the schedulers of several processes keep    *)
(* out of each other's way (app/db/sqlite/locks_repo.py). A lock is never  *)
(* released.                                                               *)
(***************************************************************************)
EXTENDS Integers

CONSTANTS
  TTL,   \* how long a lock holds (ttl_seconds=120)
  None   \* the key has no row

VARIABLES
  now,   \* clock
  lock   \* table scheduler_locks: locked_until of each key

\* try_acquire_scheduler_lock. A key that was locked until this very second still is.
Free(k)  == lock[k] # None => lock[k] < now
\* Mutant: the lock is let go when the loop has looked.
GrantBriefly(k) == lock' = [lock EXCEPT ![k] = now]
Grant(k) == lock' = [lock EXCEPT ![k] = now + TTL]
=============================================================================
