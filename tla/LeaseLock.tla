----------------------------- MODULE LeaseLock ------------------------------
(***************************************************************************)
(* What the lease columns of a queue table promise, for every row at once: *)
(* a lease that is still valid is only renewed or given up by its holder,  *)
(* and a row changes hands only when its lease is free or has run out.     *)
(* The columns lease_owner and lease_until of sora_jobs and of             *)
(* sora_nurture_batches are meant to implement it.                         *)
(***************************************************************************)
CONSTANTS Keys, Owners, NoOwner

VARIABLES
  holder,  \* lease_owner of each row
  valid    \* has lease_until of the row not passed yet?

lockVars == <<holder, valid>>

Init ==
  /\ holder = [k \in Keys |-> NoOwner]
  /\ valid = [k \in Keys |-> FALSE]

Free(k) == holder[k] = NoOwner \/ ~valid[k]

\* What one row may go through in a step.
Acquire(k) == Free(k) /\ holder'[k] \in Owners /\ valid'[k]
Renew(k)   == holder[k] \in Owners /\ holder'[k] = holder[k] /\ valid'[k]
Expire(k)  == holder[k] \in Owners /\ holder'[k] = holder[k] /\ ~valid'[k]
Release(k) == holder'[k] = NoOwner /\ ~valid'[k]
Keep(k)    == holder'[k] = holder[k] /\ valid'[k] = valid[k]

Next == \A k \in Keys : Acquire(k) \/ Renew(k) \/ Expire(k) \/ Release(k) \/ Keep(k)

Spec == Init /\ [][Next]_lockVars
=============================================================================
