------------------------------ MODULE ApiSlots ------------------------------
(***************************************************************************)
(* The slots for calls to ixBrowser's local API (IXBrowserService._post):  *)
(* reads and writes each have a semaphore of their own, and a call keeps   *)
(* its slot while it waits out a busy ixBrowser (1008).  How often a busy  *)
(* call is repeated is a setting that may change while calls wait.         *)
(***************************************************************************)
EXTENDS Integers, Sequences, FiniteSets

CONSTANTS
  Callers,   \* coroutines that call the API
  Slots,     \* [{"read", "write"} -> slots]
  MaxBusy    \* bound: the largest busy_retry_max that is set

VARIABLES
  limit,     \* ixbrowser_busy_retry_max
  queue,     \* [{"read", "write"} -> callers waiting for a slot, in order]
  call       \* [Callers -> state, kind of path, calls sent, calls it may send]

vars == <<limit, queue, call>>

Kinds == {"read", "write"}
Constants == Slots \in [Kinds -> Nat \ {0}] /\ MaxBusy \in Nat

Idle == [state |-> "idle", kind |-> "read", sent |-> 0, turns |-> 0]

Init == limit = MaxBusy /\ queue = [k \in Kinds |-> <<>>] /\ call = [c \in Callers |-> Idle]

Holders(k) == {c \in Callers : call[c].kind = k /\ call[c].state \in {"sent", "busy"}}

\* Profile and proxy lists are reads, all else is a write.
Ask(c, k) ==
  /\ call[c].state = "idle"
  /\ queue' = [queue EXCEPT ![k] = Append(@, c)]
  /\ call' = [call EXCEPT ![c] = [Idle EXCEPT !.state = "queued", !.kind = k]]
  /\ UNCHANGED limit

\* Mutant: one semaphore for reads and writes.
MayEnterShared(c) ==
  /\ call[c].state = "queued" /\ Head(queue[call[c].kind]) = c
  /\ Cardinality(UNION {Holders(k) : k \in Kinds}) < Slots[call[c].kind]

\* Mutant: a slot too many.
MayEnterMore(c) ==
  LET k == call[c].kind
  IN  call[c].state = "queued" /\ Head(queue[k]) = c /\ Cardinality(Holders(k)) <= Slots[k]

\* The first in its queue takes a free slot,
MayEnter(c) ==
  LET k == call[c].kind
  IN  call[c].state = "queued" /\ Head(queue[k]) = c /\ Cardinality(Holders(k)) < Slots[k]

\* and sends its request; the number of turns of its loop is fixed here.
Enter(c) ==
  /\ MayEnter(c)
  /\ queue' = [queue EXCEPT ![call[c].kind] = Tail(@)]
  /\ call' = [call EXCEPT ![c].state = "sent", ![c].sent = 1, ![c].turns = limit + 1]
  /\ UNCHANGED limit

\* An answer, an error, no connection: the slot is free again.
Answer(c) ==
  /\ call[c].state = "sent"
  /\ call' = [call EXCEPT ![c] = Idle]
  /\ UNCHANGED <<limit, queue>>

\* Busy: the call sleeps in its slot if the setting, as it is now, lets it;
\* else it has been answered.
Busy(c) ==
  /\ call[c].state = "sent" /\ call[c].sent - 1 < limit
  /\ call' = [call EXCEPT ![c].state = "busy"]
  /\ UNCHANGED <<limit, queue>>

\* Mutant: the repetitions are not counted.
RepeatUncounted(c) ==
  /\ call[c].state = "busy"
  /\ call' = [call EXCEPT ![c].state = "sent"]
  /\ UNCHANGED <<limit, queue>>

\* The loop goes on, or its turns are used up: 1008 is raised.
Repeat(c) ==
  LET r == call[c] IN
  /\ r.state = "busy"
  /\ call' = [call EXCEPT ![c] =
       IF r.sent < r.turns THEN [r EXCEPT !.state = "sent", !.sent = @ + 1] ELSE Idle]
  /\ UNCHANGED <<limit, queue>>

\* update_ixbrowser_settings.
Save == /\ limit' \in 0..MaxBusy /\ limit' # limit
        /\ UNCHANGED <<queue, call>>

Step(c) == Enter(c) \/ Answer(c) \/ Busy(c) \/ Repeat(c)
Next == Save \/ \E c \in Callers : Step(c) \/ \E k \in Kinds : Ask(c, k)

Spec == Init /\ [][Next]_vars

\* Requests time out, sleeps end, semaphores wake their first waiter.
FairSpec == Spec /\ \A c \in Callers : WF_vars(Step(c))

-----------------------------------------------------------------------------
(* Properties *)

TypeOK ==
  /\ limit \in 0..MaxBusy
  /\ call \in [Callers -> [state : {"idle", "queued", "sent", "busy"}, kind : Kinds,
                           sent : 0..MaxBusy + 1, turns : 0..MaxBusy + 1]]
  /\ \A k \in Kinds :
       /\ {queue[k][i] : i \in DOMAIN queue[k]}
            = {c \in Callers : call[c].state = "queued" /\ call[c].kind = k}
       /\ Cardinality(Holders(k)) <= Slots[k]

\* Windows can be listed while every write slot is taken by a call that waits
\* for a busy ixBrowser: a read waits for reads only (_is_ixbrowser_read_path).
ReadsGoOn == \A c \in Callers :
  (call[c].state = "queued" /\ call[c].kind = "read" /\ ~MayEnter(c)) =>
     \E d \in Callers \ {c} : call[d].kind = "read" /\ call[d].state # "idle"

\* A busy call ends, though the number of its repetitions is raised again and
\* again while it waits.
CallEnds == \A c \in Callers : call[c].state # "idle" ~> call[c].state = "idle"
=============================================================================
