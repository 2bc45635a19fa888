----------------------------- MODULE GroupCache -----------------------------
(***************************************************************************)
(* The windows of ixBrowser as a server knows them (GroupsMixin,           *)
(* src/app/services/ixbrowser/groups.py): groups and windows are listed by *)
(* two calls, one after the other, and kept with the time at which the     *)
(* listing ended.  Several coroutines list at the same time; the listing   *)
(* that ends last is the one that stays, even if it began first.  While    *)
(* ixBrowser does not answer, the kept listing is given out for a while.   *)
(* What windows there are is not modelled, only when they were read.       *)
(***************************************************************************)
EXTENDS Integers

CONSTANTS
  Callers,
  TTL,       \* _group_windows_cache_ttl
  Short,     \* max_age_sec of list_group_windows_cached
  MaxCall,   \* a call to ixBrowser takes no longer: its timeout
  MaxTime,   \* bound on the clock
  None

VARIABLES
  clock,
  cache,      \* None, or the listing kept: when its windows were read, and when it was kept
  failedAt,   \* _proxy_binding_last_failed_at
  caller,     \* [Callers -> None or the listing under way]
  given       \* None, or the age of the windows given last, and what was asked for

vars == <<clock, cache, failedAt, caller, given>>

Constants == TTL \in Nat /\ Short \in 0..TTL /\ MaxCall \in Nat /\ MaxTime \in Nat

Init ==
  /\ clock = 0 /\ cache = None /\ failedAt = None
  /\ caller = [c \in Callers |-> None] /\ given = None

\* A listing younger than age is kept.
Young(age) == cache # None /\ clock - cache.at < age

Give(why, listing) == given' = [age |-> clock - listing.read, why |-> why]

\* list_group_windows calls ixBrowser.
Starts(c, why) ==
  /\ caller[c] = None
  /\ caller' = [caller EXCEPT ![c] =
                  [why |-> why, call |-> "groups", began |-> clock, asked |-> clock, read |-> 0]]
  /\ UNCHANGED <<clock, cache, failedAt, given>>

List(c) == Starts(c, "list")

ListCached(c) == ~Young(Short) /\ Starts(c, "cached")
FromCache(c) ==
  /\ caller[c] = None /\ Young(Short)
  /\ Give("cached", cache)
  /\ UNCHANGED <<clock, cache, failedAt, caller>>

\* Bindings are fetched if they are not known and the last attempt has not
\* just failed.
EnsureBindings(c) ==
  /\ ~Young(TTL)
  /\ failedAt # None => clock - failedAt >= TTL
  /\ Starts(c, "ensure")

GroupsRead(c) ==
  /\ caller[c] # None /\ caller[c].call = "groups"
  /\ caller' = [caller EXCEPT ![c].call = "windows", ![c].asked = clock]
  /\ UNCHANGED <<clock, cache, failedAt, given>>

\* ixBrowser answers the second call with the windows as they are then,
WindowsRead(c) ==
  /\ caller[c] # None /\ caller[c].call = "windows"
  /\ caller' = [caller EXCEPT ![c].call = "answered", ![c].read = clock]
  /\ UNCHANGED <<clock, cache, failedAt, given>>

Ended(c) ==
  /\ failedAt' = IF caller[c].why = "ensure" THEN None ELSE failedAt
  /\ caller' = [caller EXCEPT ![c] = None]

\* and its answer arrives: listing, time and bindings are replaced together.
Built(c) ==
  /\ caller[c] # None /\ caller[c].call = "answered"
  /\ cache' = [read |-> caller[c].read, at |-> clock]
  /\ Give(caller[c].why, cache')
  /\ Ended(c) /\ UNCHANGED clock

\* Mutant: the listing given out in need is kept as a new one.
FallsBackRenewed(c) ==
  /\ caller[c] # None /\ Young(TTL)
  /\ Give("list", cache) /\ Ended(c)
  /\ cache' = [cache EXCEPT !.at = clock]
  /\ UNCHANGED clock

\* A call fails, but a listing is kept that is young enough.
FallsBack(c) ==
  /\ caller[c] # None /\ Young(TTL)
  /\ Give("list", cache)
  /\ Ended(c) /\ UNCHANGED <<clock, cache>>

\* A call fails; fetching of bindings is put off from when it began.
Fails(c) ==
  /\ caller[c] # None /\ ~Young(TTL)
  /\ failedAt' = IF caller[c].why = "ensure" THEN caller[c].began ELSE failedAt
  /\ caller' = [caller EXCEPT ![c] = None]
  /\ given' = None
  /\ UNCHANGED <<clock, cache>>

\* Time passes, though not beyond the timeout of a call.
Tick ==
  /\ clock < MaxTime /\ clock' = clock + 1
  /\ \A c \in Callers : caller[c] # None => clock' - caller[c].asked <= MaxCall
  /\ given' = None
  /\ UNCHANGED <<cache, failedAt, caller>>

Next ==
  \/ Tick
  \/ \E c \in Callers :
       \/ List(c) \/ ListCached(c) \/ FromCache(c) \/ EnsureBindings(c)
       \/ GroupsRead(c) \/ WindowsRead(c) \/ Built(c) \/ FallsBack(c) \/ Fails(c)

Spec == Init /\ [][Next]_vars

-----------------------------------------------------------------------------
(* Properties *)

Times == 0..MaxTime
TypeOK ==
  /\ clock \in Times /\ failedAt \in Times \cup {None}
  /\ cache # None => /\ cache.at \in Times /\ cache.read \in Times
                     /\ cache.read <= cache.at /\ cache.at <= clock
  /\ \A c \in Callers :
       /\ caller[c] # None =>
            /\ caller[c].why \in {"list", "cached", "ensure"} /\ caller[c].call \in {"groups", "windows", "answered"}
            /\ caller[c].began \in Times /\ caller[c].began <= caller[c].asked
            /\ caller[c].call = "answered" => caller[c].read \in caller[c].asked..clock
            /\ clock - caller[c].asked \in 0..MaxCall
  /\ given # None => given.age \in Times /\ given.why \in {"list", "cached", "ensure"}

\* Nobody is given windows that are older than the time to live and one call,
\* however long ixBrowser does not answer and in whatever order the listings
\* of several coroutines end; and nobody who would have a listing of the last
\* three seconds, and whose calls did not fail, gets one that is older than
\* these and one call (list_group_windows, list_group_windows_cached).
GivenIsFresh == given # None =>
  /\ given.age <= TTL + MaxCall
  /\ given.why = "cached" => given.age <= Short + MaxCall
=============================================================================
