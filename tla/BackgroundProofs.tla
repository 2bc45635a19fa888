-------------------------- MODULE BackgroundProofs --------------------------
(***************************************************************************)
(* Inductive invariants of the other parts of the background: the listing  *)
(* of groups, the record of challenges, the checks of proxies and their    *)
(* pool. The theorems are at the end: what the runs of a server do to its  *)
(* accounts and proxies, for any number of processes, accounts, windows,   *)
(* proxies and rows, and without a bound on any clock. The part that       *)
(* retries a job on another account is proved in OverloadRetryProofs.      *)
(***************************************************************************)
EXTENDS AccountProofs, OverloadRetryProofs

\* Natural numbers that hold 0 and, with each, the next are all.
LEMMA AllNaturals ==
  ASSUME NEW N \in SUBSET Nat, 0 \in N, \A n \in N : n + 1 \in N
  PROVE  N = Nat
<1> DEFINE T == Nat \ N
           R == {p \in Nat \X Nat : p[1] < p[2]}
<1> SUFFICES ASSUME T # {}
             PROVE  FALSE
  OBVIOUS
<1>1. PICK k \in T : \A j \in T : ~ (<<j, k>> \in OpToRel(<, Nat))
  <2>1. T \subseteq Nat /\ T # {}
    OBVIOUS
  <2> HIDE DEF T
  <2>2. QED
    BY <2>1, WFMin, NatLessThanWellFounded, Zenon
<1>2. OpToRel(<, Nat) = R
  BY Zenon DEF OpToRel
<1>3. \A i, j \in Nat : i < j => <<i, j>> \in R
  BY SMT
<1>4. k \in Nat /\ k # 0
  BY <1>1
<1>5. k - 1 \in Nat /\ k - 1 < k /\ k - 1 + 1 = k
  BY <1>4
<1>6. k - 1 \notin T
  <2> HIDE DEF T, R
  <2> QED
    BY <1>1, <1>2, <1>3, <1>4, <1>5
<1>7. QED
  BY <1>1, <1>5, <1>6

-----------------------------------------------------------------------------
(* The listing of groups: GroupCache *)

GroupsReasons == {"list", "cached", "ensure"}
GroupsCalls   == [why : GroupsReasons, call : {"groups", "windows", "answered"},
                  began : Groups!Times, asked : Groups!Times, read : Groups!Times]
GroupsKept    == [read : Groups!Times, at : Groups!Times]
GroupsGifts   == [age : Groups!Times, why : GroupsReasons]

\* A call under way was made in time, after the listing began; its answer came later.
GroupsCallOK(k) ==
  /\ k \in GroupsCalls /\ k.began <= k.asked /\ k.asked <= now /\ now - k.asked <= MaxCall
  /\ k.call = "answered" => k.asked <= k.read /\ k.read <= now

\* A listing was kept at most one call after its windows were read.
GroupsKeptOK(l) == l \in GroupsKept /\ l.read <= l.at /\ l.at <= now /\ l.at - l.read <= MaxCall

\* What was given is young enough for what was asked.
GroupsGiftOK(g) ==
  /\ g \in GroupsGifts /\ g.age <= GroupTTL + MaxCall
  /\ g.why = "cached" => g.age <= Short + MaxCall

\* The inductive invariant.
GroupsIInv ==
  /\ now \in Groups!Times /\ failedAt \in Groups!Times \cup {None}
  /\ cache # None => GroupsKeptOK(cache)
  /\ caller \in [Procs -> GroupsCalls \cup {None}]
  /\ \A c \in Procs : caller[c] # None => GroupsCallOK(caller[c])
  /\ given # None => GroupsGiftOK(given)

\* The invariant holds at first.
LEMMA GroupsInitIInv ==
  ASSUME Groups!Constants
  PROVE  Groups!Init => GroupsIInv
BY DEF Groups!Constants, Groups!Init, GroupsIInv, Groups!Times

\* What was read within one call of being kept is young when what was kept is.
LEMMA GroupsGiveKept ==
  ASSUME Groups!Constants, GroupsIInv, NEW why \in GroupsReasons, NEW age \in {GroupTTL, Short},
         cache # None,
         now - cache.at < age, Groups!Give(why, cache), why = "cached" => age = Short
  PROVE  GroupsGiftOK(given')
<1>1. /\ GroupTTL \in Nat /\ Short \in Nat /\ Short <= GroupTTL /\ MaxCall \in Nat
      /\ GroupTime \in Nat
      /\ now \in Groups!Times /\ GroupsKeptOK(cache)
  BY DEF Groups!Constants, GroupsIInv
<1>2. PICK a : a = now - cache.read
  OBVIOUS
<1>3. a \in Groups!Times /\ a <= age + MaxCall
  BY <1>1, <1>2 DEF GroupsKeptOK, GroupsKept, Groups!Times
<1>4. given' = [age |-> a, why |-> why]
  BY <1>2 DEF Groups!Give
<1>5. a <= GroupTTL + MaxCall /\ (why = "cached" => a <= Short + MaxCall)
  BY <1>1, <1>3 DEF Groups!Times
<1>6. QED
  BY <1>3, <1>4, <1>5 DEF GroupsGiftOK, GroupsGifts

-----------------------------------------------------------------------------
(* One lemma per kind of step *)

\* A call that changes no cache keeps the invariant.
LEMMA GroupsCallsIInv ==
  ASSUME Groups!Constants, GroupsIInv, NEW c \in Procs, NEW why \in GroupsReasons,
         Groups!Starts(c, why) \/ Groups!GroupsRead(c) \/ Groups!WindowsRead(c)
  PROVE  GroupsIInv'
<1>1. UNCHANGED <<now, cache, failedAt, given>>
  BY DEF Groups!Starts, Groups!GroupsRead, Groups!WindowsRead
<1>2. now \in Groups!Times /\ MaxCall \in Nat /\ GroupTime \in Nat
        /\ caller \in [Procs -> GroupsCalls \cup {None}]
  BY DEF Groups!Constants, GroupsIInv
<1>3. \E k \in GroupsCalls : GroupsCallOK(k) /\ caller' = [caller EXCEPT ![c] = k]
  <2>1. CASE Groups!Starts(c, why)
    <3>1. [why |-> why, call |-> "groups", began |-> now, asked |-> now, read |-> 0]
            \in GroupsCalls
      BY <1>2 DEF GroupsCalls, Groups!Times
    <3>2. \A k \in GroupsCalls : k.began = now /\ k.asked = now /\ k.call = "groups"
                              => GroupsCallOK(k)
      BY <1>2 DEF GroupsCallOK, Groups!Times
    <3>3. QED
      BY <2>1, <3>1, <3>2 DEF Groups!Starts
  <2>2. CASE Groups!GroupsRead(c) \/ Groups!WindowsRead(c)
    <3>1. caller[c] # None /\ GroupsCallOK(caller[c])
      BY <2>2 DEF Groups!GroupsRead, Groups!WindowsRead, GroupsIInv
    <3>2. CASE Groups!GroupsRead(c)
      <4> DEFINE k == [caller[c] EXCEPT !.call = "windows", !.asked = now]
      <4>1. k \in GroupsCalls /\ k.began = caller[c].began /\ k.asked = now /\ k.call = "windows"
        BY <1>2, <3>1 DEF GroupsCallOK, GroupsCalls
      <4>2. k.began <= now
        BY <1>2, <3>1, <4>1 DEF GroupsCallOK, GroupsCalls, Groups!Times
      <4>3. GroupsCallOK(k)
        BY <1>2, <4>1, <4>2 DEF GroupsCallOK, Groups!Times
      <4>4. QED
        BY <3>2, <4>1, <4>3 DEF Groups!GroupsRead
    <3>3. CASE Groups!WindowsRead(c)
      <4> DEFINE k == [caller[c] EXCEPT !.call = "answered", !.read = now]
      <4>1. k \in GroupsCalls /\ k.began = caller[c].began /\ k.asked = caller[c].asked
              /\ k.read = now
        BY <1>2, <3>1 DEF GroupsCallOK, GroupsCalls
      <4>2. GroupsCallOK(k)
        BY <1>2, <3>1, <4>1 DEF GroupsCallOK, Groups!Times
      <4>3. QED
        BY <3>3, <4>1, <4>2 DEF Groups!WindowsRead
    <3>4. QED
      BY <2>2, <3>2, <3>3
  <2>3. QED
    BY <2>1, <2>2
<1>4. GroupsCallOK(caller'[c]) /\ caller' \in [Procs -> GroupsCalls \cup {None}]
  BY <1>2, <1>3
<1>5. \A d \in Procs : caller'[d] # None => GroupsCallOK(caller'[d])
  BY <1>2, <1>3, <1>4 DEF GroupsIInv
<1>6. QED
  BY <1>1, <1>4, <1>5 DEF GroupsIInv, GroupsCallOK, GroupsKeptOK, GroupsGiftOK

\* The end of a call keeps the invariant.
LEMMA GroupsEndsIInv ==
  ASSUME Groups!Constants, GroupsIInv, NEW c \in Procs,
         Groups!Built(c) \/ Groups!FallsBack(c) \/ Groups!Fails(c)
  PROVE  GroupsIInv'
<1>1. /\ UNCHANGED now /\ caller' = [caller EXCEPT ![c] = None]
      /\ caller[c] # None /\ GroupsCallOK(caller[c])
  BY DEF Groups!Built, Groups!FallsBack, Groups!Fails, Groups!Ended, GroupsIInv
<1>2. /\ caller' \in [Procs -> GroupsCalls \cup {None}]
      /\ \A d \in Procs : caller'[d] # None => GroupsCallOK(caller'[d])
  BY <1>1 DEF GroupsIInv
<1>3. failedAt' \in Groups!Times \cup {None}
  BY <1>1
     DEF Groups!Built, Groups!FallsBack, Groups!Fails, Groups!Ended, GroupsIInv, GroupsCallOK,
         GroupsCalls
<1>4. (cache' # None => GroupsKeptOK(cache')) /\ (given' # None => GroupsGiftOK(given'))
  <2>1. CASE Groups!Built(c)
    <3>1. cache' = [read |-> caller[c].read, at |-> now] /\ now \in Groups!Times
            /\ MaxCall \in Nat /\ GroupTime \in Nat /\ caller[c].call = "answered"
      BY <2>1 DEF Groups!Built, Groups!Constants, GroupsIInv
    <3>2. /\ caller[c].read \in Groups!Times /\ caller[c].asked \in Groups!Times
          /\ caller[c].read <= now /\ now - caller[c].read <= MaxCall
      BY <1>1, <3>1 DEF GroupsCallOK, GroupsCalls, Groups!Times
    <3>3. GroupsKeptOK(cache')
      <4>1. cache' \in GroupsKept /\ cache'.read = caller[c].read /\ cache'.at = now
        BY <3>1, <3>2 DEF GroupsKept
      <4>2. QED
        BY <1>1, <3>1, <3>2, <4>1 DEF GroupsKeptOK, Groups!Times
    <3>4. PICK a : a = now - caller[c].read
      OBVIOUS
    <3>5. a \in Groups!Times /\ a <= MaxCall
      BY <3>1, <3>2, <3>4 DEF Groups!Times
    <3>6. given' = [age |-> a, why |-> caller[c].why] /\ caller[c].why \in GroupsReasons
      BY <1>1, <2>1, <3>1, <3>4 DEF Groups!Built, Groups!Give, GroupsCallOK, GroupsCalls
    <3>7. a <= GroupTTL + MaxCall /\ a <= Short + MaxCall
      BY <3>1, <3>5 DEF Groups!Constants, Groups!Times
    <3>8. QED
      BY <3>3, <3>5, <3>6, <3>7 DEF GroupsGiftOK, GroupsGifts
  <2>2. CASE Groups!FallsBack(c)
    <3>1. /\ cache # None /\ now - cache.at < GroupTTL /\ Groups!Give("list", cache)
          /\ UNCHANGED cache
      BY <2>2 DEF Groups!FallsBack, Groups!Young
    <3>2. GroupsGiftOK(given')
      BY <3>1, GroupsGiveKept DEF GroupsReasons
    <3>3. QED
      BY <3>1, <3>2 DEF GroupsIInv
  <2>3. CASE Groups!Fails(c)
    BY <2>3 DEF Groups!Fails, GroupsIInv
  <2>4. QED
    BY <2>1, <2>2, <2>3
<1>5. QED
  BY <1>1, <1>2, <1>3, <1>4 DEF GroupsIInv, GroupsCallOK, GroupsKeptOK, GroupsGiftOK

\* Tick keeps the invariant.
LEMMA GroupsTickIInv ==
  ASSUME Groups!Constants, GroupsIInv, Groups!Tick
  PROVE  GroupsIInv'
<1>1. now \in Groups!Times /\ GroupTime \in Nat /\ MaxCall \in Nat
  BY DEF Groups!Constants, GroupsIInv
<1>2. now' = now + 1 /\ now' \in Groups!Times /\ UNCHANGED <<cache, failedAt, caller>>
        /\ given' = None
  BY <1>1 DEF Groups!Tick, Groups!Times
<1>3. ASSUME cache # None
      PROVE  GroupsKeptOK(cache)'
  <2>1. GroupsKeptOK(cache)
    BY <1>3 DEF GroupsIInv
  <2>2. QED
    BY <1>1, <1>2, <2>1 DEF GroupsKeptOK, GroupsKept, Groups!Times
<1>4. ASSUME NEW c \in Procs, caller[c] # None
      PROVE  GroupsCallOK(caller[c])'
  <2>1. GroupsCallOK(caller[c]) /\ now' - caller[c].asked <= MaxCall
    BY <1>4 DEF GroupsIInv, Groups!Tick
  <2>2. QED
    BY <1>1, <1>2, <2>1 DEF GroupsCallOK, GroupsCalls, Groups!Times
<1>5. QED
  BY <1>2, <1>3, <1>4 DEF GroupsIInv

\* Every step keeps the invariant.
LEMMA GroupsNextIInv ==
  ASSUME Groups!Constants, GroupsIInv, [Groups!Next]_(Groups!vars)
  PROVE  GroupsIInv'
<1>1. CASE \E c \in Procs : Groups!List(c) \/ Groups!ListCached(c) \/ Groups!EnsureBindings(c)
  BY <1>1, GroupsCallsIInv
     DEF Groups!List, Groups!ListCached, Groups!EnsureBindings, GroupsReasons
<1>2. CASE \E c \in Procs : Groups!GroupsRead(c) \/ Groups!WindowsRead(c)
  BY <1>2, GroupsCallsIInv DEF GroupsReasons
<1>3. CASE \E c \in Procs : Groups!FromCache(c)
  <2>1. /\ cache # None /\ now - cache.at < Short /\ Groups!Give("cached", cache)
        /\ UNCHANGED <<now, cache, failedAt, caller>>
    BY <1>3 DEF Groups!FromCache, Groups!Young
  <2>2. GroupsGiftOK(given')
    BY <2>1, GroupsGiveKept DEF GroupsReasons
  <2>3. QED
    BY <2>1, <2>2 DEF GroupsIInv, GroupsCallOK, GroupsKeptOK, GroupsGiftOK
<1>4. CASE UNCHANGED Groups!vars
  BY <1>4 DEF Groups!vars, GroupsIInv, GroupsCallOK, GroupsKeptOK, GroupsGiftOK
<1>5. QED
  BY <1>1, <1>2, <1>3, <1>4, GroupsEndsIInv, GroupsTickIInv DEF Groups!Next

\* The invariant has the types of the model.
LEMMA GroupsTyped ==
  ASSUME Groups!Constants, GroupsIInv
  PROVE  Groups!TypeOK
<1>1. MaxCall \in Nat /\ GroupTime \in Nat /\ now \in Nat
  BY DEF Groups!Constants, GroupsIInv, Groups!Times
<1>2. cache # None => /\ cache.at \in Groups!Times /\ cache.read \in Groups!Times
                      /\ cache.read <= cache.at /\ cache.at <= now
  BY DEF GroupsIInv, GroupsKeptOK, GroupsKept
<1>3. ASSUME NEW c \in Procs, caller[c] # None
      PROVE  /\ caller[c].why \in GroupsReasons
             /\ caller[c].call \in {"groups", "windows", "answered"}
             /\ caller[c].began \in Groups!Times /\ caller[c].began <= caller[c].asked
             /\ caller[c].call = "answered" => caller[c].read \in caller[c].asked .. now
             /\ now - caller[c].asked \in 0 .. MaxCall
  <2>1. GroupsCallOK(caller[c])
    BY <1>3 DEF GroupsIInv
  <2>2. /\ caller[c].why \in GroupsReasons /\ caller[c].call \in {"groups", "windows", "answered"}
        /\ caller[c].began \in Groups!Times /\ caller[c].asked \in Groups!Times
        /\ caller[c].read \in Groups!Times
    BY <2>1 DEF GroupsCallOK, GroupsCalls
  <2>3. caller[c].asked \in Nat /\ caller[c].read \in Nat
    BY <2>2 DEF Groups!Times
  <2>4. QED
    BY <1>1, <2>1, <2>2, <2>3 DEF GroupsCallOK
<1>4. given # None => given.age \in Groups!Times /\ given.why \in GroupsReasons
  BY DEF GroupsIInv, GroupsGiftOK, GroupsGifts
<1>5. QED
  BY <1>2, <1>3, <1>4 DEF GroupsIInv, Groups!TypeOK, GroupsReasons

\* Nobody is given windows older than the time to live and one call.
LEMMA GroupsFresh == ASSUME GroupsIInv PROVE Groups!GivenIsFresh
BY DEF GroupsIInv, GroupsGiftOK, Groups!GivenIsFresh

-----------------------------------------------------------------------------
(* The record of challenges: CfEvents *)

\* Its sets are counted as ours are.
LEMMA EventsSets ==
  /\ \A S : Events!Cardinality(S) = Cardinality(S)
  /\ \A S : Events!IsFiniteSet(S) <=> IsFiniteSet(S)
BY DEF Events!Cardinality, Cardinality, Events!IsFiniteSet, IsFiniteSet

\* Rows that have ids of their own.
EventsListed(S) == Events!IsFiniteSet(S) /\ (\A e \in S : e.id \in Int)
  /\ \A e, f \in S : e.id = f.id => e = f

\* The rows from e on, the last n, and as many as there are up to n.
EventsSince(S, e) == {f \in S : f.id >= e.id}
EventsLast(S, n)  == {e \in S : Events!Place(S, e) <= n}
EventsUpTo(S, n)  == IF n <= Events!Cardinality(S) THEN n ELSE Events!Cardinality(S)

\* Of each proxy the table has the last Keep rows of all that were recorded.
EventsKept(p) == Events!Of(table, p) = Events!Recent(past, p, KeepEvents)

\* The inductive invariant.
EventsIInv == /\ Events!TypeOK
              /\ Events!IsFiniteSet(past) /\ \A e \in past : e.id <= Events!Cardinality(past)
              /\ \A p \in Events!Owners : EventsKept(p)

-----------------------------------------------------------------------------
(* The places of rows *)

\* The place of an event is the number of events since.
LEMMA EventsSinceIs ==
  ASSUME NEW S, EventsListed(S), NEW e \in S
  PROVE  /\ Events!IsFiniteSet(EventsSince(S, e)) /\ EventsSince(S, e) \in SUBSET S
         /\ e \in EventsSince(S, e)
         /\ Events!Cardinality(S) \in Nat /\ Events!Place(S, e) \in 1 .. Events!Cardinality(S)
         /\ Events!Place(S, e) = Events!Cardinality(EventsSince(S, e))
<1>1. Events!IsFiniteSet(S) /\ Events!Cardinality(S) \in Nat
  BY EventsSets, FS_CardinalityType DEF EventsListed
<1>2. EventsSince(S, e) \in SUBSET S
  BY DEF EventsSince
<1>3. e \in EventsSince(S, e)
  <2>1. e.id \in Int
    BY DEF EventsListed
  <2>2. QED
    BY <2>1 DEF EventsSince
<1>4. /\ Events!IsFiniteSet(EventsSince(S, e))
      /\ Events!Cardinality(EventsSince(S, e)) <= Events!Cardinality(S)
  BY <1>1, <1>2, EventsSets, FS_Subset
<1>5. Events!Cardinality(EventsSince(S, e)) \in Nat /\ Events!Cardinality(EventsSince(S, e)) # 0
  BY <1>3, <1>4, EventsSets, FS_CardinalityType, FS_EmptySet
<1>6. Events!Place(S, e) = Events!Cardinality(EventsSince(S, e))
  BY DEF Events!Place, EventsSince
<1>7. QED
  BY <1>1, <1>2, <1>3, <1>4, <1>5, <1>6

\* The newer a row the earlier its place, so that no two rows have one place.
LEMMA EventsPlaceOrder ==
  ASSUME NEW S, EventsListed(S), NEW e \in S, NEW f \in S, e.id > f.id
  PROVE  Events!Place(S, e) < Events!Place(S, f)
<1>1. e.id \in Int /\ f.id \in Int /\ \A g \in S : g.id \in Int
  BY DEF EventsListed
<1>2. EventsSince(S, e) \in SUBSET EventsSince(S, f) /\ f \notin EventsSince(S, e)
  BY <1>1 DEF EventsSince
<1>3. /\ Events!IsFiniteSet(EventsSince(S, f)) /\ f \in EventsSince(S, f)
      /\ Events!Place(S, f) = Events!Cardinality(EventsSince(S, f))
      /\ Events!Place(S, e) = Events!Cardinality(EventsSince(S, e))
      /\ Events!Place(S, f) \in Int /\ Events!Place(S, e) \in Int
  BY EventsSinceIs
<1>4. /\ Events!Cardinality(EventsSince(S, e)) <= Events!Cardinality(EventsSince(S, f))
      /\ Events!Cardinality(EventsSince(S, e)) # Events!Cardinality(EventsSince(S, f))
  BY <1>2, <1>3, EventsSets, FS_Subset
<1>5. QED
  BY <1>3, <1>4

\* No two events have one place.
LEMMA EventsPlaceOnce ==
  ASSUME NEW S, EventsListed(S), NEW e \in S, NEW f \in S, Events!Place(S, e) = Events!Place(S, f)
  PROVE  e = f
<1>1. e.id \in Int /\ f.id \in Int /\ (e.id = f.id => e = f)
  BY DEF EventsListed
<1>2. Events!Place(S, e) \in Int /\ Events!Place(S, f) \in Int
  BY EventsSinceIs
<1>3. CASE e.id > f.id
  BY <1>2, <1>3, EventsPlaceOrder
<1>4. CASE f.id > e.id
  BY <1>2, <1>4, EventsPlaceOrder
<1>5. QED
  BY <1>1, <1>3, <1>4

\* Each place is that of a row.
LEMMA EventsPlaceTaken ==
  ASSUME NEW S, EventsListed(S), NEW k \in 1 .. Events!Cardinality(S)
  PROVE  \E e \in S : Events!Place(S, e) = k
<1> DEFINE n == Events!Cardinality(S)
           f == [e \in S |-> Events!Place(S, e)]
<1>1. Events!IsFiniteSet(S) /\ n \in Nat
  BY EventsSets, FS_CardinalityType DEF EventsListed
<1>2. f \in [S -> 1 .. n]
  BY EventsSinceIs
<1>3. \A d, e \in S : f[d] = f[e] => d = e
  BY EventsPlaceOnce
<1> HIDE DEF f
<1>4. f \in Injection(S, 1 .. n)
  BY <1>2, <1>3 DEF Injection, IsInjective
<1>5. Events!IsFiniteSet(1 .. n) /\ Events!Cardinality(1 .. n) = n
  BY <1>1, EventsSets, FS_Interval
<1>6. f \in Surjection(S, 1 .. n)
  BY <1>4, <1>5, EventsSets, FS_Injection
<1>7. \E e \in S : f[e] = k
  BY <1>6 DEF Surjection
<1>8. QED
  BY <1>7 DEF f

\* How many the last n are.
LEMMA EventsLastIs ==
  ASSUME NEW S, EventsListed(S), NEW n \in Nat
  PROVE  /\ Events!IsFiniteSet(EventsLast(S, n))
         /\ Events!Cardinality(EventsLast(S, n)) = EventsUpTo(S, n)
         /\ Events!Cardinality(S) \in Nat /\ EventsUpTo(S, n) \in Nat
<1> DEFINE m == EventsUpTo(S, n)
           f == [e \in EventsLast(S, n) |-> Events!Place(S, e)]
<1>1. Events!IsFiniteSet(S) /\ Events!Cardinality(S) \in Nat /\ m \in Nat
  BY EventsSets, FS_CardinalityType DEF EventsListed, EventsUpTo
<1>2. Events!IsFiniteSet(EventsLast(S, n)) /\ \A e \in EventsLast(S, n) : e \in S
  <2>1. EventsLast(S, n) \in SUBSET S
    BY DEF EventsLast
  <2>2. QED
    BY <1>1, <2>1, EventsSets, FS_Subset
<1>3. ASSUME NEW e \in S
      PROVE  e \in EventsLast(S, n) <=> Events!Place(S, e) \in 1 .. m
  <2>1. Events!Place(S, e) \in 1 .. Events!Cardinality(S)
    BY EventsSinceIs
  <2>2. QED
    BY <1>1, <2>1 DEF EventsLast, EventsUpTo
<1>4. f \in [EventsLast(S, n) -> 1 .. m]
  BY <1>2, <1>3
<1>5. \A d, e \in EventsLast(S, n) : f[d] = f[e] => d = e
  BY <1>2, EventsPlaceOnce
<1>6. \A k \in 1 .. m : \E e \in EventsLast(S, n) : f[e] = k
  <2>1. ASSUME NEW k \in 1 .. m
        PROVE  \E e \in EventsLast(S, n) : Events!Place(S, e) = k
    <3>1. k \in 1 .. Events!Cardinality(S)
      BY <1>1 DEF EventsUpTo
    <3>2. PICK e \in S : Events!Place(S, e) = k
      BY <3>1, EventsPlaceTaken
    <3>3. QED
      BY <1>3, <3>2
  <2>2. QED
    BY <2>1
<1> HIDE DEF f
<1>7. ExistsBijection(EventsLast(S, n), 1 .. m)
  BY <1>4, <1>5, <1>6 DEF ExistsBijection, Bijection, Injection, Surjection, IsInjective
<1>8. Events!Cardinality(1 .. m) = m
  BY <1>1, EventsSets, FS_Interval
<1>9. Events!Cardinality(EventsLast(S, n)) = m
  BY <1>2, <1>7, <1>8, EventsSets, FS_Bijection
<1>10. QED
  BY <1>1, <1>2, <1>9

\* What leaves the last n rows in leaves the last n rows as they are.
LEMMA EventsLastSame ==
  ASSUME NEW P, EventsListed(P), NEW T \in SUBSET P, NEW n \in Nat, EventsLast(P, n) \subseteq T
  PROVE  /\ EventsListed(T) /\ EventsLast(T, n) = EventsLast(P, n)
         /\ \A e \in EventsLast(P, n) : Events!Place(T, e) = Events!Place(P, e)
<1>1. EventsListed(T)
  <2>1. Events!IsFiniteSet(T)
    BY EventsSets, FS_Subset DEF EventsListed
  <2>2. QED
    BY <2>1 DEF EventsListed
<1>2. \A e \in P : e.id \in Int /\ Events!Place(P, e) \in Int
        /\ Events!IsFiniteSet(EventsSince(P, e))
  BY EventsSinceIs DEF EventsListed
<1>3. ASSUME NEW e \in EventsLast(P, n)
      PROVE  Events!Place(T, e) = Events!Place(P, e)
  <2>1. e \in P /\ Events!Place(P, e) <= n
    BY DEF EventsLast
  <2>2. ASSUME NEW f \in P, f.id >= e.id
        PROVE  f \in T
    <3>1. f.id > e.id \/ f = e
      BY <1>2, <2>1, <2>2 DEF EventsListed
    <3>2. f.id > e.id => Events!Place(P, f) < Events!Place(P, e)
      BY <2>1, EventsPlaceOrder
    <3>3. Events!Place(P, f) <= n
      BY <1>2, <2>1, <3>1, <3>2
    <3>4. QED
      BY <3>3 DEF EventsLast
  <2>3. {f \in T : f.id >= e.id} = {f \in P : f.id >= e.id}
    BY <2>2
  <2>4. QED
    BY <2>3 DEF Events!Place
<1>4. ASSUME NEW e \in T, Events!Place(T, e) <= n, ~ (Events!Place(P, e) <= n)
      PROVE  FALSE
  <2>1. ASSUME NEW f \in EventsLast(P, n)
        PROVE  f \in EventsSince(T, e) \ {e}
    <3>1. f \in T /\ f \in P /\ Events!Place(P, f) <= n /\ e \in P
      BY DEF EventsLast
    <3>2. f # e
      BY <1>4, <3>1
    <3>3. e.id > f.id => Events!Place(P, e) < Events!Place(P, f)
      BY <3>1, EventsPlaceOrder
    <3>4. f.id >= e.id
      BY <1>2, <1>4, <3>1, <3>3
    <3>5. QED
      BY <3>1, <3>2, <3>4 DEF EventsSince
  <2>2. /\ Events!IsFiniteSet(EventsSince(T, e)) /\ e \in EventsSince(T, e)
        /\ Events!Place(T, e) = Events!Cardinality(EventsSince(T, e))
        /\ Events!Place(T, e) \in Int
    BY <1>1, EventsSinceIs
  <2>3. /\ Events!IsFiniteSet(EventsSince(T, e) \ {e})
        /\ Events!Cardinality(EventsSince(T, e) \ {e}) = Events!Place(T, e) - 1
    BY <2>2, EventsSets, FS_RemoveElement
  <2>4. Events!Cardinality(EventsLast(P, n)) <= Events!Place(T, e) - 1
    <3>1. EventsLast(P, n) \in SUBSET (EventsSince(T, e) \ {e})
      BY <2>1
    <3>2. QED
      BY <2>3, <3>1, EventsSets, FS_Subset
  <2>5. Events!Cardinality(EventsLast(P, n)) = n
    <3>1. Events!Place(P, e) \in 1 .. Events!Cardinality(P) /\ Events!Cardinality(P) \in Nat
      BY EventsSinceIs
    <3>2. n <= Events!Cardinality(P)
      BY <1>4, <3>1
    <3>3. QED
      BY <3>2, EventsLastIs DEF EventsUpTo
  <2>6. QED
    BY <1>4, <2>2, <2>4, <2>5
<1>5. ASSUME NEW e
      PROVE  e \in EventsLast(T, n) <=> e \in EventsLast(P, n)
  BY <1>3, <1>4 DEF EventsLast
<1>6. QED
  BY <1>1, <1>3, <1>5

-----------------------------------------------------------------------------
(* The invariant *)

\* The events of a proxy are listed.
LEMMA EventsPastListed ==
  ASSUME Events!TypeOK, Events!IsFiniteSet(past), NEW p
  PROVE  EventsListed(Events!Of(past, p))
<1>1. Events!IsFiniteSet(Events!Of(past, p))
  <2>1. Events!Of(past, p) \in SUBSET past
    BY DEF Events!Of
  <2>2. QED
    BY <2>1, EventsSets, FS_Subset
<1>2. \A e \in past : e.id \in Int
  BY DEF Events!TypeOK, Events!Event
<1>3. QED
  BY <1>1, <1>2 DEF Events!TypeOK, EventsListed, Events!Of

\* The invariant holds at first.
LEMMA EventsInitIInv == ASSUME Events!Constants, Events!Init PROVE EventsIInv
<1>1. table = {} /\ past = {} /\ binding \in [Windows -> Events!Owners]
  BY DEF Events!Init
<1>2. Events!Cardinality({}) = 0 /\ Events!IsFiniteSet({}) /\ 0 <= KeepEvents
  BY EventsSets, FS_EmptySet DEF Events!Constants
<1>3. \A p : Events!Of({}, p) = {}
  BY DEF Events!Of
<1>4. Events!TypeOK
  BY <1>1, <1>2, <1>3 DEF Events!TypeOK
<1>5. \A p \in Events!Owners : EventsKept(p)
  BY <1>1, <1>3 DEF EventsKept, Events!Recent
<1>6. QED
  BY <1>1, <1>2, <1>4, <1>5 DEF EventsIInv

\* Rebind keeps the invariant.
LEMMA EventsRebindIInv ==
  ASSUME EventsIInv, NEW w \in Windows, NEW p \in Events!Owners, Events!Rebind(w, p)
  PROVE  EventsIInv'
<1>1. Events!TypeOK'
  BY DEF EventsIInv, Events!TypeOK, Events!Rebind, Events!Of
<1>2. (\A q \in Events!Owners : EventsKept(q))'
  BY DEF EventsIInv, EventsKept, Events!Rebind, Events!Recent, Events!Place, Events!Of
<1>3. QED
  BY <1>1, <1>2 DEF EventsIInv, Events!Rebind

\* Record keeps the invariant.
LEMMA EventsRecordIInv ==
  ASSUME Events!Constants, EventsIInv, NEW w \in Windows, NEW cf \in BOOLEAN,
         NEW chained \in BOOLEAN,
         Events!Record(w, cf, chained)
  PROVE  EventsIInv'
<1> DEFINE o == binding[w]
           n == Events!Cardinality(past)
           e == [id |-> n + 1, proxy |-> o, cf |-> cf]
           P == past \cup {e}
           T == table \cup {e}
<1>1. o \in Events!Owners /\ past \subseteq Events!Event /\ table \subseteq past
  BY DEF EventsIInv, Events!TypeOK
<1>2. n \in Nat /\ n + 1 \in 1 .. MaxEvents
  <2>1. n \in Nat /\ n < MaxEvents
    BY EventsSets, FS_CardinalityType DEF EventsIInv, Events!Record
  <2>2. QED
    BY <2>1 DEF Events!Constants
<1>3. e \in Events!Event /\ e.id = n + 1 /\ e.proxy = o
  BY <1>1, <1>2 DEF Events!Event
<1>4. past' = P /\ table' = Events!Trimmed(T, o) /\ binding' = binding
  BY DEF Events!Record
<1>5. \A f \in past : f.id \in Int /\ f.id <= n
  BY <1>1 DEF EventsIInv, Events!Event
<1> HIDE DEF e, n, o
<1>6. e \notin past
  BY <1>2, <1>3, <1>5
<1>7. Events!IsFiniteSet(P) /\ Events!Cardinality(P) = n + 1
  BY <1>6, EventsSets, FS_AddElement DEF EventsIInv, n
<1>8. \A f \in P : f.id <= n + 1 /\ f.id \in Int
  BY <1>2, <1>3, <1>5
<1>9. \A f, g \in P : f.id = g.id => f = g
  BY <1>2, <1>3, <1>5 DEF EventsIInv, Events!TypeOK
<1>10. ASSUME NEW p
       PROVE  EventsListed(Events!Of(P, p))
  <2>1. Events!Of(P, p) \in SUBSET P
    BY DEF Events!Of
  <2>2. Events!IsFiniteSet(Events!Of(P, p))
    BY <1>7, <2>1, EventsSets, FS_Subset
  <2>3. QED
    BY <1>8, <1>9, <2>1, <2>2 DEF EventsListed
<1>11. Events!Recent(P, o, KeepEvents) = Events!Recent(T, o, KeepEvents)
  <2> DEFINE A == Events!Of(P, o)
             B == Events!Of(T, o)
             C == Events!Of(past, o)
  <2>1. B \in SUBSET A /\ EventsListed(A) /\ EventsListed(C) /\ KeepEvents \in Nat
    BY <1>1, <1>10, EventsPastListed DEF Events!Of, EventsIInv, Events!Constants
  <2>2. A = C \cup {e} /\ B = Events!Of(table, o) \cup {e}
    BY <1>3 DEF Events!Of
  <2>3. Events!Of(table, o) = EventsLast(C, KeepEvents)
    BY <1>1 DEF EventsIInv, EventsKept, Events!Recent, EventsLast
  <2> HIDE DEF A, B, C
  <2>4. ASSUME NEW f \in EventsLast(A, KeepEvents)
        PROVE  f \in B
    <3>1. CASE f = e
      BY <2>2, <3>1
    <3>2. CASE f # e
      <4>1. f \in A /\ f \in C /\ Events!Place(A, f) <= KeepEvents
        BY <2>2, <3>2 DEF EventsLast
      <4>2. EventsSince(C, f) \in SUBSET EventsSince(A, f)
        BY <2>2 DEF EventsSince
      <4>3. /\ Events!IsFiniteSet(EventsSince(A, f))
            /\ Events!Place(A, f) = Events!Cardinality(EventsSince(A, f))
            /\ Events!Place(C, f) = Events!Cardinality(EventsSince(C, f))
            /\ Events!Place(A, f) \in Int /\ Events!Place(C, f) \in Int
        BY <2>1, <4>1, EventsSinceIs
      <4>4. Events!Place(C, f) <= Events!Place(A, f)
        BY <4>2, <4>3, EventsSets, FS_Subset
      <4>5. Events!Place(C, f) <= KeepEvents
        BY <2>1, <4>1, <4>3, <4>4
      <4>6. QED
        BY <2>2, <2>3, <4>1, <4>5 DEF EventsLast
    <3>3. QED
      BY <3>1, <3>2
  <2>5. EventsLast(B, KeepEvents) = EventsLast(A, KeepEvents)
    BY <2>1, <2>4, EventsLastSame
  <2>6. QED
    BY <2>5 DEF EventsLast, Events!Recent, A, B
<1>12. \A f \in Events!Trimmed(T, o) : f \in T
  BY DEF Events!Trimmed, Events!Recent, Events!Of
<1>13. Events!Of(Events!Trimmed(T, o), o) = Events!Recent(T, o, KeepEvents)
  BY DEF Events!Trimmed, Events!Recent, Events!Of
<1>14. ASSUME NEW p, p # o
       PROVE  /\ Events!Of(Events!Trimmed(T, o), p) = Events!Of(table, p)
              /\ Events!Of(P, p) = Events!Of(past, p)
  BY <1>3, <1>14 DEF Events!Trimmed, Events!Recent, Events!Of
<1>15. ASSUME NEW p \in Events!Owners
       PROVE  Events!Of(Events!Trimmed(T, o), p) = Events!Recent(P, p, KeepEvents)
  <2>1. CASE p = o
    BY <1>11, <1>13, <2>1
  <2>2. CASE p # o
    BY <1>14, <2>2 DEF EventsIInv, EventsKept, Events!Recent
  <2>3. QED
    BY <2>1, <2>2
<1>16. ASSUME NEW p \in Events!Owners
       PROVE  Events!Cardinality(Events!Of(Events!Trimmed(T, o), p)) <= KeepEvents
  <2> DEFINE A == Events!Of(P, p)
  <2>1. EventsListed(A) /\ KeepEvents \in Nat
    BY <1>10 DEF Events!Constants
  <2>2. Events!Recent(P, p, KeepEvents) = EventsLast(A, KeepEvents)
    BY DEF Events!Recent, EventsLast
  <2> HIDE DEF A
  <2>3. /\ Events!Cardinality(EventsLast(A, KeepEvents)) = EventsUpTo(A, KeepEvents)
        /\ Events!Cardinality(A) \in Nat
    BY <2>1, EventsLastIs
  <2>4. QED
    BY <1>15, <2>1, <2>2, <2>3 DEF EventsUpTo
<1>17. Events!TypeOK'
  <2>1. binding' \in [Windows -> Events!Owners]
    BY <1>4 DEF EventsIInv, Events!TypeOK
  <2>2. past' \subseteq Events!Event /\ table' \subseteq past'
    BY <1>1, <1>3, <1>4, <1>12
  <2>3. (\A f, g \in past : f.id = g.id => f = g)'
    BY <1>4, <1>9
  <2>4. (\A p \in Events!Owners : Events!Cardinality(Events!Of(table, p)) <= KeepEvents)'
    <3>1. table' = Events!Trimmed(T, o)
      BY <1>4
    <3> HIDE DEF T
    <3>2. QED
      BY <1>16, <3>1 DEF Events!Of
  <2>5. QED
    BY <2>1, <2>2, <2>3, <2>4 DEF Events!TypeOK
<1>18. (\A p \in Events!Owners : EventsKept(p))'
  <2>1. table' = Events!Trimmed(T, o) /\ past' = P
    BY <1>4
  <2> HIDE DEF T, P
  <2>2. QED
    BY <1>15, <2>1 DEF EventsKept, Events!Recent, Events!Place, Events!Of
<1>19. (Events!IsFiniteSet(past) /\ \A f \in past : f.id <= Events!Cardinality(past))'
  BY <1>4, <1>7, <1>8
<1>20. QED
  BY <1>17, <1>18, <1>19 DEF EventsIInv

\* Every step keeps the invariant.
LEMMA EventsNextIInv == ASSUME Events!Constants, EventsIInv, Events!Next PROVE EventsIInv'
BY EventsRecordIInv, EventsRebindIInv DEF Events!Next

\* A step in which nothing changes keeps the invariant.
LEMMA EventsStaysIInv == ASSUME EventsIInv, UNCHANGED Events!vars PROVE EventsIInv'
BY DEF EventsIInv, Events!vars, Events!TypeOK, EventsKept

-----------------------------------------------------------------------------
(* What is shown *)

\* The event at the place of an event is this event.
LEMMA EventsAtIs ==
  ASSUME NEW rows, NEW p, EventsListed(Events!Of(rows, p)), NEW e \in Events!Of(rows, p)
  PROVE  Events!At(rows, p, Events!Place(Events!Of(rows, p), e)) = e
<1>1. \A f \in Events!Of(rows, p) : Events!Place(Events!Of(rows, p), f)
        = Events!Place(Events!Of(rows, p), e) => f = e
  BY EventsPlaceOnce
<1>2. QED
  BY <1>1 DEF Events!At

\* What the invariant says of ShownIsTrue.
LEMMA EventsShownFacts == ASSUME Events!Constants, EventsIInv PROVE Events!ShownIsTrue
<1> SUFFICES ASSUME NEW p \in Events!Owners, NEW n \in 1 .. KeepEvents
             PROVE  /\ \A k \in 1 .. n :
                         Events!Heat(p, n)[n + 1 - k]
                           = IF k > Events!Cardinality(Events!Of(past, p)) THEN "-"
                                                        ELSE Events!Cell(Events!At(past, p, k).cf)
                    /\ Events!Challenged(p, n)
                         = Events!Cardinality({i \in 1 .. n : Events!Heat(p, n)[i] = "C"})
  BY DEF Events!ShownIsTrue
<1> DEFINE P == Events!Of(past, p)
           T == Events!Of(table, p)
           R == EventsLast(T, n)
           heat == Events!Heat(p, n)
<1>1. n \in Nat /\ KeepEvents \in Nat /\ n <= KeepEvents
  BY DEF Events!Constants
<1>2. EventsListed(P) /\ T \in SUBSET P /\ T = EventsLast(P, KeepEvents)
  BY EventsPastListed
     DEF EventsIInv, Events!TypeOK, Events!Of, EventsKept, Events!Recent, EventsLast
<1>3. Events!Recent(table, p, n) = R
  BY DEF Events!Recent, EventsLast
<1>4. Events!Total(p, n) = Events!Cardinality(R)
  BY <1>3 DEF Events!Total
<1>5. /\ heat = [i \in 1 .. n |-> IF n + 1 - i > Events!Total(p, n) THEN "-"
                                  ELSE Events!Cell(Events!At(table, p, n + 1 - i).cf)]
      /\ Events!Challenged(p, n) = Events!Cardinality({e \in R : e.cf})
  BY <1>3 DEF Events!Heat, Events!Challenged
<1>6. ASSUME NEW e \in P, EventsListed(P)
      PROVE  Events!At(past, p, Events!Place(P, e)) = e
  BY <1>6, EventsAtIs
<1>7. ASSUME NEW e \in T, EventsListed(T)
      PROVE  Events!At(table, p, Events!Place(T, e)) = e
  BY <1>7, EventsAtIs
<1> HIDE DEF P, T, R, heat
<1>8. \A e \in P : Events!Place(P, e) \in 1 .. Events!Cardinality(P)
        /\ Events!Cardinality(P) \in Nat
  BY <1>2, EventsSinceIs
<1>9. EventsLast(P, n) \subseteq T
  <2>1. \A e \in EventsLast(P, n) : e \in P /\ Events!Place(P, e) \in Int
          /\ Events!Place(P, e) <= n
    BY <1>8 DEF EventsLast
  <2>2. QED
    BY <1>1, <1>2, <2>1 DEF EventsLast
<1>10. EventsListed(T) /\ R = EventsLast(P, n)
         /\ \A e \in R : Events!Place(T, e) = Events!Place(P, e)
  BY <1>1, <1>2, <1>9, EventsLastSame DEF R
<1>11. /\ Events!Cardinality(R) = IF n <= Events!Cardinality(P) THEN n ELSE Events!Cardinality(P)
       /\ Events!Cardinality(R) \in Nat /\ Events!Cardinality(P) \in Nat /\ Events!IsFiniteSet(R)
  BY <1>1, <1>2, <1>10, EventsLastIs DEF EventsUpTo
<1>12. ASSUME NEW k \in 1 .. n, k <= Events!Cardinality(R)
       PROVE  \E e \in R : Events!Place(T, e) = k /\ Events!At(table, p, k) = e
              /\ Events!At(past, p, k) = e
  <2>1. k \in 1 .. Events!Cardinality(P)
    BY <1>11, <1>12
  <2>2. PICK e \in P : Events!Place(P, e) = k
    BY <1>2, <2>1, EventsPlaceTaken
  <2>3. e \in R /\ e \in T
    BY <1>9, <1>10, <2>2 DEF EventsLast
  <2>4. QED
    BY <1>2, <1>6, <1>7, <1>10, <2>2, <2>3
<1>13. ASSUME NEW k \in 1 .. n
       PROVE  /\ n + 1 - k \in 1 .. n
              /\ heat[n + 1 - k] = IF k > Events!Cardinality(R) THEN "-"
                   ELSE Events!Cell(Events!At(table, p, k).cf)
  <2>1. n + 1 - k \in 1 .. n /\ n + 1 - (n + 1 - k) = k
    BY <1>1
  <2>2. QED
    BY <1>4, <1>5, <2>1
<1>14. ASSUME NEW k \in 1 .. n
       PROVE  heat[n + 1 - k] = IF k > Events!Cardinality(P) THEN "-"
              ELSE Events!Cell(Events!At(past, p, k).cf)
  <2>1. k > Events!Cardinality(P) <=> k > Events!Cardinality(R)
    BY <1>1, <1>11
  <2>2. CASE k > Events!Cardinality(R)
    BY <1>13, <2>1, <2>2
  <2>3. CASE ~ (k > Events!Cardinality(R))
    <3>1. k <= Events!Cardinality(R)
      BY <1>11, <2>3
    <3>2. Events!At(table, p, k) = Events!At(past, p, k)
      BY <1>12, <3>1
    <3>3. QED
      BY <1>13, <2>1, <2>3, <3>2
  <2>4. QED
    BY <2>2, <2>3
<1> DEFINE C == {e \in R : e.cf}
           I == {i \in 1 .. n : heat[i] = "C"}
           f == [e \in C |-> n + 1 - Events!Place(T, e)]
<1>15. ASSUME NEW e \in R
       PROVE  /\ e \in T /\ Events!Place(T, e) \in 1 .. n /\ Events!Place(T, e) \in Int
              /\ n + 1 - Events!Place(T, e) \in 1 .. n
              /\ heat[n + 1 - Events!Place(T, e)] = Events!Cell(e.cf) /\ e.cf \in BOOLEAN
  <2>1. /\ e \in T /\ Events!Place(T, e) \in 1 .. Events!Cardinality(T)
        /\ Events!Cardinality(T) \in Nat /\ Events!Place(T, e) <= n
    BY <1>10, EventsSinceIs DEF R, EventsLast
  <2>2. Events!Place(T, e) \in 1 .. n
    BY <1>1, <2>1
  <2>3. Events!At(table, p, Events!Place(T, e)) = e
    BY <1>7, <1>10, <2>1
  <2>4. Events!Place(T, e) <= Events!Cardinality(R)
    <3>1. Events!Place(T, e) <= Events!Cardinality(P)
      BY <1>2, <1>8, <1>10, <2>1 DEF EventsLast
    <3>2. QED
      BY <1>11, <2>2, <3>1
  <2>5. ~ (Events!Place(T, e) > Events!Cardinality(R))
    BY <1>11, <2>2, <2>4
  <2>6. e.cf \in BOOLEAN
    BY <1>2, <2>1 DEF EventsIInv, Events!TypeOK, Events!Event, Events!Of, P
  <2>7. QED
    BY <1>13, <2>1, <2>2, <2>3, <2>5, <2>6
<1>16. f \in [C -> I]
  BY <1>15 DEF Events!Cell
<1>17. ASSUME NEW d \in C, NEW e \in C, f[d] = f[e]
       PROVE  d = e
  <2>1. Events!Place(T, d) = Events!Place(T, e) /\ d \in T /\ e \in T
    BY <1>15, <1>17
  <2>2. QED
    BY <1>10, <2>1, EventsPlaceOnce
<1>18. ASSUME NEW i \in I
       PROVE  \E e \in C : f[e] = i
  <2> DEFINE k == n + 1 - i
  <2>1. k \in 1 .. n /\ n + 1 - k = i
    BY <1>1
  <2> HIDE DEF k
  <2>2. heat[n + 1 - k] = "C"
    BY <2>1
  <2>3. ~ (k > Events!Cardinality(R)) /\ Events!Cell(Events!At(table, p, k).cf) = "C"
    BY <1>13, <2>1, <2>2
  <2>4. k <= Events!Cardinality(R)
    BY <1>11, <2>1, <2>3
  <2>5. PICK e \in R : Events!Place(T, e) = k /\ Events!At(table, p, k) = e
    BY <1>12, <2>1, <2>4
  <2>6. e.cf
    BY <1>15, <2>3, <2>5 DEF Events!Cell
  <2>7. QED
    BY <2>1, <2>5, <2>6
<1> HIDE DEF f
<1>19. ExistsBijection(C, I)
  <2> HIDE DEF C, I
  <2> QED
    BY <1>16, <1>17, <1>18 DEF ExistsBijection, Bijection, Injection, Surjection, IsInjective
<1>20. Events!IsFiniteSet(C)
  BY <1>11, EventsSets, FS_Subset
<1>21. Events!Cardinality(I) = Events!Cardinality(C)
  BY <1>19, <1>20, EventsSets, FS_Bijection
<1>22. QED
  BY <1>5, <1>14, <1>21 DEF heat, P

-----------------------------------------------------------------------------
(* The checks of proxies: ProxyCheck *)

\* Its sets are counted as ours are.
LEMMA ChecksSets ==
  /\ \A S : Checks!Cardinality(S) = Cardinality(S)
  /\ \A S : Checks!IsFiniteSet(S) <=> IsFiniteSet(S)
BY DEF Checks!Cardinality, Cardinality, Checks!IsFiniteSet, IsFiniteSet

\* What is stored of a proxy is not from later than now, a success has a time, and it
\* is one of the address unless that was edited.
ChecksRowOK(p) ==
  /\ row[p].at # None => row[p].at <= now
  /\ row[p].status = "success" => row[p].at # None /\ (row[p].addr = "good" \/ p \in edited)

\* A check goes on to the second service behind an address that answers only, and
\* what is given again was recent then.
ChecksCheckOK(q, p) ==
  check[q][p] # None =>
    /\ check[q][p].at <= now
    /\ check[q][p].pc = "reputation" => check[q][p].addr = "good"
    /\ check[q][p].pc = "given" => check[q][p].age <= Reuse

\* The inductive invariant.
ChecksIInv == /\ Checks!TypeOK
              /\ \A p \in Checked : ChecksRowOK(p)
              /\ \A q \in Procs, p \in Checked : ChecksCheckOK(q, p)

-----------------------------------------------------------------------------
(* The sum of what findings take off the score *)

\* The first that is summed, and one step of the sum.
ChecksFirst(S) == CHOOSE f \in S : TRUE
ChecksSums(g, S) == IF S = {} THEN 0 ELSE Penalty[ChecksFirst(S)] + g[S \ {ChecksFirst(S)}]

\* A sum that is right of sets of at most n findings.
ChecksRightTo(g, n) == \A S \in SUBSET Flags : Checks!Cardinality(S) <= n
  => g[S] = ChecksSums(g, S)

\* A set of marks that is not empty has a first one, and the others are fewer.
LEMMA ChecksFirstIs ==
  ASSUME Checks!IsFiniteSet(Flags), NEW S \in SUBSET Flags, S # {}
  PROVE  /\ ChecksFirst(S) \in S /\ ChecksFirst(S) \in Flags
         /\ S \ {ChecksFirst(S)} \in SUBSET Flags
         /\ Checks!Cardinality(S) \in Nat /\ Checks!Cardinality(S) > 0
         /\ Checks!Cardinality(S \ {ChecksFirst(S)}) = Checks!Cardinality(S) - 1
<1>1. ChecksFirst(S) \in S
  BY DEF ChecksFirst
<1>2. Checks!IsFiniteSet(S)
  BY ChecksSets, FS_Subset
<1>3. Checks!Cardinality(S) \in Nat /\ Checks!Cardinality(S) # 0
  BY <1>2, ChecksSets, FS_CardinalityType, FS_EmptySet
<1>4. Checks!Cardinality(S \ {ChecksFirst(S)}) = Checks!Cardinality(S) - 1
  BY <1>1, <1>2, ChecksSets, FS_RemoveElement
<1>5. QED
  BY <1>1, <1>3, <1>4

\* A set without members is empty.
LEMMA ChecksNothingIs ==
  ASSUME Checks!IsFiniteSet(Flags), NEW S \in SUBSET Flags, Checks!Cardinality(S) <= 0
  PROVE  S = {}
<1>1. S # {} => Checks!Cardinality(S) \in Nat /\ Checks!Cardinality(S) > 0
  BY ChecksFirstIs
<1>2. QED
  BY <1>1

\* There is a sum: what findings take off is a number.
LEMMA ChecksSumExists ==
  ASSUME Checks!Constants
  PROVE  \E g \in [SUBSET Flags -> Nat] : \A S \in SUBSET Flags : g[S] = ChecksSums(g, S)
<1> DEFINE N == {n \in Nat : \E g \in [SUBSET Flags -> Nat] : ChecksRightTo(g, n)}
<1>1. Checks!IsFiniteSet(Flags) /\ Penalty \in [Flags -> Nat]
  BY DEF Checks!Constants
<1>2. 0 \in N
  <2> DEFINE g == [S \in SUBSET Flags |-> 0]
  <2>1. ASSUME NEW S \in SUBSET Flags, Checks!Cardinality(S) <= 0
        PROVE  S = {}
    BY <1>1, <2>1, ChecksNothingIs
  <2>2. ChecksRightTo(g, 0) /\ g \in [SUBSET Flags -> Nat]
    BY <2>1 DEF ChecksRightTo, ChecksSums
  <2>3. QED
    <3> HIDE DEF g
    <3> QED
      BY <2>2
<1>3. ASSUME NEW n \in N
      PROVE  n + 1 \in N
  <2>1. PICK g \in [SUBSET Flags -> Nat] : ChecksRightTo(g, n)
    OBVIOUS
  <2> DEFINE h == [S \in SUBSET Flags |-> ChecksSums(g, S)]
  <2>2. ASSUME NEW S \in SUBSET Flags
        PROVE  h[S] = ChecksSums(g, S) /\ h[S] \in Nat
    <3>1. CASE S = {}
      BY <3>1 DEF ChecksSums
    <3>2. CASE S # {}
      <4>1. Penalty[ChecksFirst(S)] \in Nat /\ g[S \ {ChecksFirst(S)}] \in Nat
        BY <1>1, <3>2, ChecksFirstIs
      <4>2. QED
        BY <3>2, <4>1 DEF ChecksSums
    <3>3. QED
      BY <3>1, <3>2
  <2>3. h \in [SUBSET Flags -> Nat]
    BY <2>2
  <2> HIDE DEF h
  <2>4. ASSUME NEW S \in SUBSET Flags, Checks!Cardinality(S) <= n + 1
        PROVE  h[S] = ChecksSums(h, S)
    <3>1. CASE S = {}
      BY <2>2, <3>1 DEF ChecksSums
    <3>2. CASE S # {}
      <4> DEFINE T == S \ {ChecksFirst(S)}
      <4>1. T \in SUBSET Flags /\ Checks!Cardinality(T) <= n
        BY <1>1, <2>4, <3>2, ChecksFirstIs
      <4>2. h[T] = ChecksSums(g, T) /\ g[T] = ChecksSums(g, T)
        BY <2>1, <2>2, <4>1 DEF ChecksRightTo
      <4>3. QED
        BY <2>2, <3>2, <4>2 DEF ChecksSums
    <3>3. QED
      BY <3>1, <3>2
  <2>5. ChecksRightTo(h, n + 1)
    BY <2>4 DEF ChecksRightTo
  <2>6. n + 1 \in Nat
    OBVIOUS
  <2>7. QED
    BY <2>3, <2>5, <2>6
<1>4. N = Nat
  <2>1. N \in SUBSET Nat
    OBVIOUS
  <2> HIDE DEF N
  <2>2. QED
    BY <1>2, <1>3, <2>1, AllNaturals
<1>5. Checks!Cardinality(Flags) \in Nat
  BY <1>1, ChecksSets, FS_CardinalityType
<1>6. PICK g \in [SUBSET Flags -> Nat] : ChecksRightTo(g, Checks!Cardinality(Flags))
  BY <1>4, <1>5
<1>7. \A S \in SUBSET Flags : Checks!Cardinality(S) <= Checks!Cardinality(Flags)
  BY <1>1, ChecksSets, FS_Subset
<1>8. QED
  BY <1>6, <1>7 DEF ChecksRightTo

\* The sum of the marks is a number.
LEMMA ChecksSumIs ==
  ASSUME Checks!Constants, NEW S \in SUBSET Flags
  PROVE  Checks!SumOf[S] \in Nat
<1> DEFINE Eq(f) == f = [T \in SUBSET Flags |->
                         IF T = {} THEN 0 ELSE LET x == CHOOSE x \in T : TRUE
                                               IN  Penalty[x] + f[T \ {x}]]
<1>1. PICK g \in [SUBSET Flags -> Nat] : \A T \in SUBSET Flags : g[T] = ChecksSums(g, T)
  BY ChecksSumExists
<1>2. Eq(g)
  BY <1>1 DEF ChecksSums, ChecksFirst
<1>3. Checks!SumOf = CHOOSE f : Eq(f)
  BY DEF Checks!SumOf
<1>4. Eq(Checks!SumOf)
  <2> HIDE DEF Eq
  <2> QED
    BY <1>2, <1>3
<1>5. \A T \in SUBSET Flags : Checks!SumOf[T] = ChecksSums(Checks!SumOf, T)
  BY <1>4 DEF ChecksSums, ChecksFirst
<1> DEFINE N == {n \in Nat : \A T \in SUBSET Flags : Checks!Cardinality(T) <= n
      => Checks!SumOf[T] \in Nat}
<1>6. Checks!IsFiniteSet(Flags) /\ Penalty \in [Flags -> Nat]
  BY DEF Checks!Constants
<1>7. 0 \in N
  <2>1. ASSUME NEW T \in SUBSET Flags, Checks!Cardinality(T) <= 0
        PROVE  Checks!SumOf[T] \in Nat
    <3>1. T = {}
      BY <1>6, <2>1, ChecksNothingIs
    <3>2. Checks!SumOf[T] = 0
      BY <1>5, <3>1 DEF ChecksSums
    <3>3. QED
      BY <3>2
  <2>2. QED
    BY <2>1
<1>8. ASSUME NEW n \in N
      PROVE  n + 1 \in N
  <2>1. ASSUME NEW T \in SUBSET Flags, Checks!Cardinality(T) <= n + 1
        PROVE  Checks!SumOf[T] \in Nat
    <3>1. CASE T = {}
      <4>1. Checks!SumOf[T] = 0
        BY <1>5, <3>1 DEF ChecksSums
      <4>2. QED
        BY <4>1
    <3>2. CASE T # {}
      <4>1. /\ Penalty[ChecksFirst(T)] \in Nat /\ T \ {ChecksFirst(T)} \in SUBSET Flags
            /\ Checks!Cardinality(T \ {ChecksFirst(T)}) <= n
        BY <1>6, <2>1, <3>2, ChecksFirstIs
      <4>2. Checks!SumOf[T \ {ChecksFirst(T)}] \in Nat
        BY <4>1
      <4>3. QED
        BY <1>5, <3>2, <4>1, <4>2 DEF ChecksSums
    <3>3. QED
      BY <3>1, <3>2
  <2>2. QED
    BY <2>1
<1>9. N = Nat
  <2>1. N \in SUBSET Nat
    OBVIOUS
  <2> HIDE DEF N
  <2>2. QED
    BY <1>7, <1>8, <2>1, AllNaturals
<1>10. Checks!IsFiniteSet(S)
  BY <1>6, ChecksSets, FS_Subset
<1>11. Checks!Cardinality(S) \in Nat /\ Checks!Cardinality(S) <= Checks!Cardinality(S)
  BY <1>10, ChecksSets, FS_CardinalityType
<1>12. QED
  BY <1>9, <1>11

\* The score stays between 0 and 100.
LEMMA ChecksScoreIs ==
  ASSUME Checks!Constants, NEW flags \in SUBSET Flags, NEW risk \in Risks
  PROVE  Checks!Score(flags, risk) \in 0 .. 100
<1>1. Checks!SumOf[flags] \in Int /\ risk \in Int
  BY ChecksSumIs DEF Checks!Constants
<1>2. Checks!RiskPenalty(risk) \in Int
  BY <1>1 DEF Checks!RiskPenalty, Checks!Lower
<1> DEFINE x == 100 - Checks!SumOf[flags] - Checks!RiskPenalty(risk)
<1>3. x \in Int
  BY <1>1, <1>2
<1>4. QED
  <2> HIDE DEF x
  <2>1. Checks!Higher(0, Checks!Lower(100, x)) \in 0 .. 100
    BY <1>3 DEF Checks!Higher, Checks!Lower
  <2>2. QED
    BY <2>1 DEF Checks!Score, x

-----------------------------------------------------------------------------
(* Rows and checks *)

\* The fields of a row.
LEMMA ChecksRowIs ==
  ASSUME NEW r \in Checks!Row
  PROVE  /\ r.addr \in Checks!Addresses /\ r.status \in Checks!Verdicts
         /\ r.at \in 0 .. CheckTime \cup {None} /\ r.score \in 0 .. 100 \cup {None}
BY DEF Checks!Row

\* A row with a result keeps its address.
LEMMA ChecksResultIs ==
  ASSUME NEW r \in Checks!Row, NEW s \in Checks!Verdicts, NEW t \in 0 .. CheckTime,
         NEW score \in 0 .. 100 \cup {None}
  PROVE  /\ Checks!Result(r, s, t, score) \in Checks!Row
         /\ Checks!Result(r, s, t, score).addr = r.addr
         /\ Checks!Result(r, s, t, score).status = s /\ Checks!Result(r, s, t, score).at = t
BY DEF Checks!Result, Checks!Row

\* A check that goes on.
ChecksGone(c, pc) == [c EXCEPT !.pc = pc]

\* A check that goes on keeps its address and times.
LEMMA ChecksGoneIs ==
  ASSUME NEW c \in Checks!Check, NEW pc \in Checks!Over \cup {"waits", "address", "reputation"}
  PROVE  /\ ChecksGone(c, pc) \in Checks!Check /\ ChecksGone(c, pc).pc = pc
         /\ ChecksGone(c, pc).addr = c.addr /\ ChecksGone(c, pc).at = c.at
         /\ ChecksGone(c, pc).age = c.age
BY DEF ChecksGone, Checks!Check

\* The fields of a check.
LEMMA ChecksCheckIs ==
  ASSUME NEW c \in Checks!Check
  PROVE  /\ c.pc \in Checks!Over \cup {"waits", "address", "reputation"}
         /\ c.addr \in Checks!Addresses
         /\ c.at \in 0 .. CheckTime /\ c.age \in Nat
BY DEF Checks!Check

\* One check goes on, and the others stay where they are.
LEMMA ChecksGoesIs ==
  ASSUME Checks!TypeOK, NEW q \in Procs, NEW p \in Checked, check[q][p] # None,
         NEW pc \in Checks!Over \cup {"waits", "address", "reputation"}, Checks!Goes(q, p, pc)
  PROVE  /\ check' \in [Procs -> [Checked -> Checks!Check \cup {None}]]
         /\ check'[q][p] = ChecksGone(check[q][p], pc) /\ check[q][p] \in Checks!Check
         /\ \A k \in Procs, x \in Checked :
              ~ (k = q /\ x = p) => check'[k][x] = check[k][x]
<1>1. check \in [Procs -> [Checked -> Checks!Check \cup {None}]] /\ check[q][p] \in Checks!Check
  BY DEF Checks!TypeOK
<1> DEFINE new == ChecksGone(check[q][p], pc)
<1>2. new \in Checks!Check
  BY <1>1, ChecksGoneIs
<1>3. check' = [check EXCEPT ![q] = [check[q] EXCEPT ![p] = new]]
  BY DEF Checks!Goes, ChecksGone
<1> HIDE DEF new
<1>4. [check[q] EXCEPT ![p] = new] \in [Checked -> Checks!Check \cup {None}]
  BY <1>1, <1>2
<1>5. QED
  BY <1>1, <1>3, <1>4 DEF new

-----------------------------------------------------------------------------
(* The invariant *)

\* The invariant holds at first.
LEMMA ChecksInitIInv == ASSUME Checks!Constants, Checks!Init PROVE ChecksIInv
<1>1. \A p \in Checked : row[p] \in Checks!Row /\ row[p].at = None /\ row[p].status = "none"
  BY DEF Checks!Init, Checks!Row, Checks!Addresses, Checks!Verdicts
<1>2. now \in 0 .. CheckTime
  BY DEF Checks!Init, Checks!Constants
<1>3. row \in [Checked -> Checks!Row]
  BY <1>1 DEF Checks!Init
<1>4. Checks!TypeOK
  BY <1>2, <1>3 DEF Checks!Init, Checks!TypeOK
<1>5. QED
  BY <1>1, <1>4 DEF Checks!Init, ChecksIInv, ChecksRowOK, ChecksCheckOK

\* A check goes on and no row changes.
LEMMA ChecksGoesIInv ==
  ASSUME Checks!Constants, ChecksIInv, NEW q \in Procs, NEW p \in Checked, check[q][p] # None,
         NEW pc \in Checks!Over \cup {"waits", "address", "reputation"}, Checks!Goes(q, p, pc),
         pc = "reputation" => check[q][p].addr = "good", pc # "given",
         UNCHANGED <<now, row, edited>>
  PROVE  ChecksIInv'
<1>1. /\ check' \in [Procs -> [Checked -> Checks!Check \cup {None}]]
      /\ check'[q][p] = ChecksGone(check[q][p], pc) /\ check[q][p] \in Checks!Check
      /\ \A k \in Procs, x \in Checked :
           ~ (k = q /\ x = p) => check'[k][x] = check[k][x]
  BY ChecksGoesIs DEF ChecksIInv
<1>2. Checks!TypeOK'
  BY <1>1 DEF ChecksIInv, Checks!TypeOK
<1>3. \A k \in Procs, x \in Checked : ChecksCheckOK(k, x)'
  BY <1>1, ChecksGoneIs DEF ChecksIInv, ChecksCheckOK
<1>4. \A x \in Checked : ChecksRowOK(x)'
  BY DEF ChecksIInv, ChecksRowOK
<1>5. QED
  BY <1>2, <1>3, <1>4 DEF ChecksIInv

\* A check has its verdict.
LEMMA ChecksWriteIInv ==
  ASSUME Checks!Constants, ChecksIInv, NEW q \in Procs, NEW p \in Checked,
         NEW status \in {"success", "failed"}, NEW score \in 0 .. 100 \cup {None},
         check[q][p] # None, status = "success" => check[q][p].addr = "good",
         Checks!Write(q, p, status, score), Checks!Goes(q, p, status), UNCHANGED now
  PROVE  ChecksIInv'
<1>1. /\ check' \in [Procs -> [Checked -> Checks!Check \cup {None}]]
      /\ check'[q][p] = ChecksGone(check[q][p], status) /\ check[q][p] \in Checks!Check
      /\ \A k \in Procs, x \in Checked :
           ~ (k = q /\ x = p) => check'[k][x] = check[k][x]
  BY ChecksGoesIs DEF ChecksIInv, Checks!Over
<1> DEFINE at == check[q][p].at
           new == Checks!Result(row[p], status, at, score)
<1>2. /\ at \in 0 .. CheckTime /\ at <= now /\ row[p] \in Checks!Row /\ status \in Checks!Verdicts
      /\ row \in [Checked -> Checks!Row]
  BY <1>1, ChecksCheckIs DEF ChecksIInv, ChecksCheckOK, Checks!TypeOK, Checks!Verdicts
<1>3. new \in Checks!Row /\ new.addr = row[p].addr /\ new.status = status /\ new.at = at
  <2> HIDE DEF at, new
  <2> DEFINE r == row[p]
  <2>1. r \in Checks!Row /\ at \in 0 .. CheckTime /\ status \in Checks!Verdicts
    BY <1>2
  <2>2. new = Checks!Result(r, status, at, score)
    BY DEF new
  <2> HIDE DEF r
  <2>3. score \in 0 .. 100 \cup {None}
    OBVIOUS
  <2>4. new \in Checks!Row /\ new.addr = r.addr /\ new.status = status /\ new.at = at
    BY <2>1, <2>2, <2>3 DEF Checks!Result, Checks!Row
  <2>5. QED
    BY <2>4 DEF r
<1>4. /\ row' = [row EXCEPT ![p] = new]
      /\ edited' = IF check[q][p].addr = row[p].addr THEN edited \ {p} ELSE edited \cup {p}
  BY DEF Checks!Write, Checks!Verdict
<1> HIDE DEF at, new
<1>5. Checks!TypeOK'
  BY <1>1, <1>2, <1>3, <1>4 DEF ChecksIInv, Checks!TypeOK
<1>6. \A k \in Procs, x \in Checked : ChecksCheckOK(k, x)'
  BY <1>1, ChecksGoneIs DEF ChecksIInv, ChecksCheckOK, Checks!Over
<1>7. ASSUME NEW x \in Checked
      PROVE  ChecksRowOK(x)'
  <2>1. CASE x = p
    <3>1. row'[x] = new
      BY <1>2, <1>4, <2>1
    <3>2. new.at # None
      <4>1. at \in Int
        BY <1>2
      <4>2. QED
        BY <1>3, <4>1 DEF Checks!Constants
    <3>3. status = "success" => new.addr = "good" \/ p \in edited'
      BY <1>3, <1>4
    <3>4. QED
      BY <1>2, <1>3, <2>1, <3>1, <3>2, <3>3 DEF ChecksRowOK
  <2>2. CASE x # p
    BY <1>2, <1>4, <2>2 DEF ChecksRowOK, ChecksIInv
  <2>3. QED
    BY <2>1, <2>2
<1>8. QED
  BY <1>5, <1>6, <1>7 DEF ChecksIInv

\* Step keeps the invariant.
LEMMA ChecksStepIInv ==
  ASSUME Checks!Constants, ChecksIInv, NEW q \in Procs, Checks!Step(q)
  PROVE  ChecksIInv'
<1>1. CASE Checks!Respond(q)
  <2>1. Checks!TypeOK'
    BY <1>1 DEF ChecksIInv, Checks!TypeOK, Checks!Respond
  <2>2. ASSUME NEW k \in Procs, NEW p \in Checked
        PROVE  check'[k][p] = None \/ check'[k][p] = check[k][p]
    BY <1>1 DEF ChecksIInv, Checks!TypeOK, Checks!Respond
  <2>3. \A k \in Procs, p \in Checked : ChecksCheckOK(k, p)'
    BY <1>1, <2>2 DEF ChecksIInv, ChecksCheckOK, Checks!Respond
  <2>4. \A p \in Checked : ChecksRowOK(p)'
    BY <1>1 DEF ChecksIInv, ChecksRowOK, Checks!Respond
  <2>5. QED
    BY <2>1, <2>3, <2>4 DEF ChecksIInv
<1>2. ASSUME NEW p \in Checked, Checks!Enter(q, p)
      PROVE  ChecksIInv'
  BY <1>2, ChecksGoesIInv DEF Checks!Enter, Checks!At
<1>3. ASSUME NEW p \in Checked, Checks!Reached(q, p)
      PROVE  ChecksIInv'
  BY <1>3, ChecksGoesIInv DEF Checks!Reached, Checks!At
<1>4. ASSUME NEW p \in Checked, Checks!Limited(q, p)
      PROVE  ChecksIInv'
  BY <1>4, ChecksGoesIInv DEF Checks!Limited, Checks!At, Checks!Over
<1>5. ASSUME NEW p \in Checked, Checks!Fails(q, p)
      PROVE  ChecksIInv'
  BY <1>5, ChecksWriteIInv DEF Checks!Fails, Checks!At
<1>6. ASSUME NEW p \in Checked, Checks!Scored(q, p)
      PROVE  ChecksIInv'
  <2>1. PICK flags \in SUBSET Flags, risk \in Risks : Checks!Write(q, p, "success",
             Checks!Score(flags, risk))
    BY <1>6 DEF Checks!Scored
  <2>2. Checks!Score(flags, risk) \in 0 .. 100 \cup {None}
    BY ChecksScoreIs
  <2>3. /\ check[q][p] # None /\ check[q][p].addr = "good"
        /\ Checks!Goes(q, p, "success") /\ UNCHANGED now
    BY <1>6 DEF Checks!Scored, Checks!At, ChecksIInv, ChecksCheckOK
  <2>4. QED
    BY <2>1, <2>2, <2>3, ChecksWriteIInv
<1>7. QED
  BY <1>1, <1>2, <1>3, <1>4, <1>5, <1>6 DEF Checks!Step

\* What a request makes of a row and of a check of its own.
ChecksRowAtOnce(p, S) == IF p \in S /\ row[p].addr = "ssh"
                         THEN Checks!Result(row[p], "failed", now, None) ELSE row[p]
ChecksCheckAtOnce(p, again) ==
  [pc |-> IF row[p].addr = "ssh" THEN "failed" ELSE IF p \in again THEN "given" ELSE "waits",
   addr |-> row[p].addr, at |-> now,
   age |-> IF p \in again THEN now - row[p].at ELSE 0]

\* A request gives at once what it may and makes the other checks wait.
LEMMA ChecksRequestIs ==
  ASSUME NEW q \in Procs, NEW S \in SUBSET Checked, NEW force \in BOOLEAN,
         Checks!Request(q, S, force)
  PROVE  \E again \in SUBSET {p \in S : Checks!Reusable(p)} :
           /\ row' = [p \in Checked |-> ChecksRowAtOnce(p, S)]
           /\ check' = [check EXCEPT ![q] = [p \in Checked |->
                          IF p \notin S THEN None ELSE ChecksCheckAtOnce(p, again)]]
           /\ edited' = edited \ {p \in S : row[p].addr = "ssh"}
           /\ UNCHANGED now
<1> DEFINE again == IF force THEN {} ELSE {p \in S : row[p].addr # "ssh" /\ Checks!Reusable(p)}
<1>1. again \in SUBSET {p \in S : Checks!Reusable(p)}
  OBVIOUS
<1>2. /\ row' = [p \in Checked |-> ChecksRowAtOnce(p, S)]
      /\ check' = [check EXCEPT ![q] = [p \in Checked |->
                      IF p \notin S THEN None ELSE ChecksCheckAtOnce(p, again)]]
      /\ edited' = edited \ {p \in S : row[p].addr = "ssh"}
      /\ UNCHANGED now
  BY DEF Checks!Request, ChecksRowAtOnce, ChecksCheckAtOnce
<1>3. QED
  <2> HIDE DEF again
  <2> QED
    BY <1>1, <1>2

\* Request keeps the invariant.
LEMMA ChecksRequestIInv ==
  ASSUME Checks!Constants, ChecksIInv, NEW q \in Procs, NEW S \in SUBSET Checked,
         NEW force \in BOOLEAN,
         Checks!Request(q, S, force)
  PROVE  ChecksIInv'
<1>1. PICK again \in SUBSET {p \in S : Checks!Reusable(p)} :
        /\ row' = [p \in Checked |-> ChecksRowAtOnce(p, S)]
        /\ check' = [check EXCEPT ![q] = [p \in Checked |->
                       IF p \notin S THEN None ELSE ChecksCheckAtOnce(p, again)]]
        /\ edited' = edited \ {p \in S : row[p].addr = "ssh"}
        /\ UNCHANGED now
  BY ChecksRequestIs
<1>2. /\ now \in 0 .. CheckTime /\ now \in Int /\ now # None /\ now <= now
      /\ "failed" \in Checks!Verdicts /\ None \in 0 .. 100 \cup {None}
  BY DEF ChecksIInv, Checks!TypeOK, Checks!Constants, Checks!Verdicts
<1>3. ASSUME NEW p \in Checked
      PROVE  row[p] \in Checks!Row /\ ChecksRowOK(p)
  BY DEF ChecksIInv, Checks!TypeOK
<1>4. ASSUME NEW p \in Checked
      PROVE  ChecksRowAtOnce(p, S) \in Checks!Row /\ ChecksRowOK(p)'
  <2>1. CASE p \in S /\ row[p].addr = "ssh"
    <3> DEFINE new == Checks!Result(row[p], "failed", now, None)
    <3>1. new \in Checks!Row /\ new.status = "failed" /\ new.at = now
      BY <1>2, <1>3 DEF Checks!Result, Checks!Row, Checks!Verdicts
    <3>2. ChecksRowAtOnce(p, S) = new
      BY <2>1 DEF ChecksRowAtOnce
    <3> HIDE DEF new
    <3>3. QED
      BY <1>1, <1>2, <3>1, <3>2 DEF ChecksRowOK
  <2>2. CASE ~ (p \in S /\ row[p].addr = "ssh")
    <3>1. ChecksRowAtOnce(p, S) = row[p]
      BY <2>2 DEF ChecksRowAtOnce
    <3>2. row'[p] = row[p] /\ (p \in edited' <=> p \in edited)
      BY <1>1, <2>2, <3>1
    <3>3. QED
      BY <1>1, <1>3, <3>1, <3>2 DEF ChecksRowOK
  <2>3. QED
    BY <2>1, <2>2
<1>5. ASSUME NEW p \in S
      PROVE  /\ ChecksCheckAtOnce(p, again) \in Checks!Check
             /\ ChecksCheckAtOnce(p, again).at = now
             /\ ChecksCheckAtOnce(p, again).pc # "reputation"
             /\ ChecksCheckAtOnce(p, again).pc = "given"
                  => ChecksCheckAtOnce(p, again).age <= Reuse
  <2>1. p \in again => now - row[p].at \in Nat /\ now - row[p].at <= Reuse
    <3>1. ASSUME p \in again
          PROVE  /\ row[p].at \in 0 .. CheckTime /\ row[p].at <= now
                 /\ row[p].at >= now - Reuse
      BY <1>3, <3>1, ChecksRowIs DEF Checks!Reusable, ChecksRowOK
    <3>2. QED
      BY <1>2, <3>1 DEF Checks!Constants
  <2>2. row[p].addr \in Checks!Addresses
    BY <1>3, ChecksRowIs
  <2> DEFINE age == IF p \in again THEN now - row[p].at ELSE 0
             pc == IF row[p].addr = "ssh" THEN "failed" ELSE IF p \in again THEN "given"
               ELSE "waits"
  <2>3. age \in Nat /\ (pc = "given" => age <= Reuse)
    BY <2>1
  <2>4. pc \in Checks!Over \cup {"waits", "address", "reputation"} /\ pc # "reputation"
    BY DEF Checks!Over
  <2>5. ChecksCheckAtOnce(p, again) = [pc |-> pc, addr |-> row[p].addr, at |-> now, age |-> age]
    BY DEF ChecksCheckAtOnce
  <2> HIDE DEF age, pc
  <2>6. QED
    BY <1>2, <2>2, <2>3, <2>4, <2>5 DEF Checks!Check
<1>6. \A k \in Procs, p \in Checked :
        check'[k][p] = IF k = q THEN IF p \notin S THEN None ELSE ChecksCheckAtOnce(p, again)
                       ELSE check[k][p]
  BY <1>1 DEF ChecksIInv, Checks!TypeOK
<1>7. check' \in [Procs -> [Checked -> Checks!Check \cup {None}]]
  <2> DEFINE new == [p \in Checked |-> IF p \notin S THEN None ELSE ChecksCheckAtOnce(p, again)]
  <2>1. new \in [Checked -> Checks!Check \cup {None}]
    BY <1>5
  <2>2. check' = [check EXCEPT ![q] = new]
    BY <1>1
  <2> HIDE DEF new
  <2>3. QED
    BY <2>1, <2>2 DEF ChecksIInv, Checks!TypeOK
<1>8. row' \in [Checked -> Checks!Row]
  BY <1>1, <1>4
<1>9. Checks!TypeOK'
  BY <1>1, <1>7, <1>8 DEF ChecksIInv, Checks!TypeOK
<1>10. ASSUME NEW k \in Procs, NEW p \in Checked
       PROVE  ChecksCheckOK(k, p)'
  <2>1. CASE k = q /\ p \in S
    BY <1>1, <1>2, <1>5, <1>6, <2>1 DEF ChecksCheckOK
  <2>2. CASE k = q /\ p \notin S
    BY <1>6, <2>2 DEF ChecksCheckOK
  <2>3. CASE k # q
    BY <1>1, <1>6, <2>3 DEF ChecksCheckOK, ChecksIInv
  <2>4. QED
    BY <2>1, <2>2, <2>3
<1>11. QED
  BY <1>4, <1>9, <1>10 DEF ChecksIInv

\* Edit keeps the invariant.
LEMMA ChecksEditIInv ==
  ASSUME Checks!Constants, ChecksIInv, NEW p \in Checked, NEW a \in Checks!Addresses,
         Checks!Edit(p, a) PROVE ChecksIInv'
<1> DEFINE new == [row[p] EXCEPT !.addr = a]
<1>1. row[p] \in Checks!Row /\ row \in [Checked -> Checks!Row]
  BY DEF ChecksIInv, Checks!TypeOK
<1>2. new \in Checks!Row /\ new.status = row[p].status /\ new.at = row[p].at
  BY <1>1 DEF Checks!Row
<1>3. row' = [row EXCEPT ![p] = new] /\ edited' = edited \cup {p} /\ UNCHANGED <<now, check>>
  BY DEF Checks!Edit
<1> HIDE DEF new
<1>4. Checks!TypeOK'
  BY <1>1, <1>2, <1>3 DEF ChecksIInv, Checks!TypeOK
<1>5. ASSUME NEW x \in Checked
      PROVE  ChecksRowOK(x)'
  BY <1>1, <1>2, <1>3 DEF ChecksRowOK, ChecksIInv
<1>6. QED
  BY <1>3, <1>4, <1>5 DEF ChecksIInv, ChecksCheckOK

\* Tick keeps the invariant.
LEMMA ChecksTickIInv == ASSUME Checks!Constants, ChecksIInv, Checks!Tick PROVE ChecksIInv'
<1>1. /\ now \in Nat /\ now' = now + 1 /\ now' \in 0 .. CheckTime
      /\ UNCHANGED <<row, check, edited>>
  BY DEF ChecksIInv, Checks!TypeOK, Checks!Tick, Checks!Constants
<1>2. \A t \in 0 .. CheckTime : t <= now => t <= now'
  BY <1>1 DEF Checks!Constants
<1>3. Checks!TypeOK'
  BY <1>1 DEF ChecksIInv, Checks!TypeOK
<1>4. ASSUME NEW p \in Checked
      PROVE  ChecksRowOK(p)'
  <2>1. row[p].at # None => row[p].at \in 0 .. CheckTime
    BY ChecksRowIs DEF ChecksIInv, Checks!TypeOK
  <2>2. QED
    BY <1>1, <1>2, <2>1 DEF ChecksIInv, ChecksRowOK
<1>5. ASSUME NEW q \in Procs, NEW p \in Checked
      PROVE  ChecksCheckOK(q, p)'
  <2>1. check[q][p] # None => check[q][p].at \in 0 .. CheckTime
    BY ChecksCheckIs DEF ChecksIInv, Checks!TypeOK
  <2>2. QED
    BY <1>1, <1>2, <2>1 DEF ChecksIInv, ChecksCheckOK
<1>6. QED
  BY <1>3, <1>4, <1>5 DEF ChecksIInv

\* Every step keeps the invariant.
LEMMA ChecksNextIInv == ASSUME Checks!Constants, ChecksIInv, Checks!Next PROVE ChecksIInv'
BY ChecksTickIInv, ChecksEditIInv, ChecksStepIInv, ChecksRequestIInv DEF Checks!Next

\* A step in which nothing changes keeps the invariant.
LEMMA ChecksStaysIInv == ASSUME ChecksIInv, UNCHANGED Checks!vars PROVE ChecksIInv'
BY DEF ChecksIInv, Checks!vars, Checks!TypeOK, ChecksRowOK, ChecksCheckOK

\* What the invariant says of the properties.
LEMMA ChecksCheckFacts ==
  ASSUME ChecksIInv
  PROVE  Checks!SuccessIsOfTheAddress /\ Checks!GivenIsRecent
BY DEF ChecksIInv, ChecksRowOK, ChecksCheckOK, Checks!SuccessIsOfTheAddress, Checks!GivenIsRecent,
   Checks!At

\* Only a check that failed takes a success away.
LEMMA ChecksNextKeeps ==
  ASSUME Checks!Constants, ChecksIInv, Checks!Next, NEW p \in Checked,
         row[p].status = "success", row'[p].status # "success"
  PROVE  \E q \in Procs : check[q][p] # check'[q][p] /\ check'[q][p].pc = "failed"
<1>1. row \in [Checked -> Checks!Row] /\ row'[p] # row[p]
  BY DEF ChecksIInv, Checks!TypeOK
<1>2. ASSUME NEW q \in Procs, NEW x \in Checked, NEW status, NEW score,
             Checks!Write(q, x, status, score), status # "success"
      PROVE  x = p
  BY <1>1, <1>2 DEF Checks!Write
<1>3. ASSUME NEW q \in Procs, NEW x \in Checked, NEW score, Checks!Write(q, x, "success", score)
      PROVE  FALSE
  BY <1>1, <1>3 DEF Checks!Write, Checks!Result, Checks!Row
<1>4. ASSUME NEW x \in Checked, NEW a \in Checks!Addresses, Checks!Edit(x, a)
      PROVE  FALSE
  BY <1>1, <1>4 DEF Checks!Edit, Checks!Row
<1>5. ASSUME NEW q \in Procs, NEW x \in Checked, Checks!Fails(q, x)
      PROVE  check[q][x] # check'[q][x] /\ check'[q][x].pc = "failed"
  <2>1. check[q][x] # None /\ check[q][x].pc # "failed" /\ Checks!Goes(q, x, "failed")
    BY <1>5 DEF Checks!Fails, Checks!At
  <2>2. check'[q][x] = ChecksGone(check[q][x], "failed") /\ check[q][x] \in Checks!Check
    BY <2>1, ChecksGoesIs DEF ChecksIInv, Checks!Over
  <2>3. QED
    BY <2>1, <2>2, ChecksGoneIs DEF Checks!Over
<1>6. ASSUME NEW q \in Procs, NEW S \in SUBSET Checked, NEW force \in BOOLEAN,
             Checks!Request(q, S, force)
      PROVE  check[q][p] # check'[q][p] /\ check'[q][p].pc = "failed"
  <2>1. PICK again \in SUBSET {x \in S : Checks!Reusable(x)} :
          /\ row' = [x \in Checked |-> ChecksRowAtOnce(x, S)]
          /\ check' = [check EXCEPT ![q] = [x \in Checked |->
                         IF x \notin S THEN None ELSE ChecksCheckAtOnce(x, again)]]
          /\ edited' = edited \ {x \in S : row[x].addr = "ssh"}
          /\ UNCHANGED now
    BY <1>6, ChecksRequestIs
  <2>2. p \in S /\ row[p].addr = "ssh"
    BY <1>1, <2>1 DEF ChecksRowAtOnce
  <2>3. check'[q][p] = ChecksCheckAtOnce(p, again)
    BY <2>1, <2>2 DEF ChecksIInv, Checks!TypeOK
  <2>4. ChecksCheckAtOnce(p, again).pc = "failed"
    BY <2>2 DEF ChecksCheckAtOnce
  <2>5. check[q][p] = None
    BY <1>6 DEF Checks!Request, Checks!Free
  <2>6. check'[q][p] \in Checks!Check
    <3>1. ChecksIInv'
      BY <1>6, ChecksRequestIInv
    <3>2. check'[q][p] \in Checks!Check \cup {None}
      BY <3>1 DEF ChecksIInv, Checks!TypeOK
    <3> DEFINE age == IF p \in again THEN now - row[p].at ELSE 0
    <3>3. ChecksCheckAtOnce(p, again) = [pc |-> "failed", addr |-> "ssh", at |-> now, age |-> age]
      BY <2>2 DEF ChecksCheckAtOnce
    <3>4. age \in Nat
      <4>1. p \in again => row[p].at \in 0 .. CheckTime /\ row[p].at <= now
        BY ChecksRowIs DEF ChecksIInv, Checks!TypeOK, ChecksRowOK, Checks!Reusable
      <4>2. QED
        BY <4>1 DEF ChecksIInv, Checks!TypeOK, Checks!Constants
    <3> HIDE DEF age
    <3>5. QED
      BY <2>3, <3>3, <3>4
         DEF Checks!Check, Checks!Over, Checks!Addresses, ChecksIInv, Checks!TypeOK
  <2>7. QED
    BY <2>3, <2>4, <2>5, <2>6 DEF Checks!Constants
<1>7. \/ \E q \in Procs : Checks!Fails(q, p)
      \/ \E q \in Procs, S \in SUBSET Checked, force \in BOOLEAN : Checks!Request(q, S, force)
  BY <1>1, <1>2, <1>3, <1>4
     DEF Checks!Next, Checks!Tick, Checks!Step, Checks!Respond, Checks!Enter, Checks!Reached,
         Checks!Scored, Checks!Fails, Checks!Limited
<1>8. QED
  BY <1>5, <1>6, <1>7

-----------------------------------------------------------------------------
(* The pool of proxies: ProxyPool *)

\* Its sets are counted as ours are.
LEMMA PoolSets ==
  /\ \A S : Pool!Cardinality(S) = Cardinality(S)
  /\ \A S : Pool!IsFiniteSet(S) <=> IsFiniteSet(S)
BY DEF Pool!Cardinality, Cardinality, Pool!IsFiniteSet, IsFiniteSet

\* A row or a record, as it is or as it was read, says that the id x is of a proxy with
\* key k, or an answer will.
PoolHasId(rows, x, k)  == \E r \in Pool!Used(rows) : x # 0 /\ rows[r].ix = x /\ rows[r].key = k
PoolHasRec(recs, x, k) == x \in Pool!Used(recs) /\ recs[x].key = k

PoolPushSays(p, x, k) ==
  \/ p.call # "list" /\ PoolHasRec(p.recs, x, k)
  \/ PoolHasId(p.rows, x, k)
  \/ p.call = "created" /\ p.ix = x /\ p.rows[p.at].key = k

PoolSays(x, k) ==
  \/ PoolHasRec(rec, x, k)
  \/ PoolHasId(row, x, k)
  \/ pull # None /\ PoolHasRec(pull, x, k)
  \/ \E u \in Pushers : push[u] # None /\ PoolPushSays(push[u], x, k)

PoolIdsGiven == \A x \in IxIds, k \in Keys : PoolSays(x, k) => x <= lastIx
PoolAgreed   == \A x \in IxIds, k, l \in Keys : PoolSays(x, k) /\ PoolSays(x, l) => k = l

\* The rows a push has read are still there, with the keys they had unless some were
\* edited, and its call is about one of them that it has taken up.
PoolCalling == {"create", "created", "update", "updated"}
PoolPushFits(p, rows, ed) ==
  /\ Pool!Used(p.rows) \subseteq Pool!Used(rows)
  /\ ~ ed => \A r \in Pool!Used(p.rows) : rows[r].key = p.rows[r].key
  /\ p.call \in PoolCalling => p.at \in Pool!Used(p.rows) /\ p.at \notin p.todo
  /\ p.call \in {"created", "update"} => p.ix \in IxIds
  /\ p.call = "create" => Pool!RecordsOf(p, p.at) = {}
  /\ p.call = "update" /\ ~ ed => PoolHasRec(p.recs, p.ix, p.rows[p.at].key)

\* A push may still create a record for r.
PoolMayCreate(p, r) ==
  /\ p.call # "list" /\ r \in Pool!Used(p.rows) /\ Pool!RecordsOf(p, r) = {}
  /\ r \in p.todo \/ (p.call = "create" /\ p.at = r)

\* Records of one key are from different pushers, and who has made one does not make
\* another.
PoolMadeBy(f, recs, pushes) ==
  /\ \A x, y \in Pool!Used(recs) : recs[x].key = recs[y].key /\ f[x] = f[y] => x = y
  /\ \A u \in Pushers, r \in RowIds : pushes[u] # None /\ PoolMayCreate(pushes[u], r) =>
       \A x \in Pool!Used(recs) : f[x] = u => recs[x].key # pushes[u].rows[r].key

PoolKeysOnce(rows)  == \A r, s \in Pool!Used(rows) : rows[r].key = rows[s].key => r = s
PoolBoundOnce(rows) == \A r, s \in Pool!Used(rows) : rows[r].ix = rows[s].ix /\ rows[r].ix # 0
  => r = s

\* The inductive invariant.
PoolIInv ==
  /\ Pool!TypeOK
  /\ \A u \in Pushers : push[u] # None => PoolPushFits(push[u], row, edited)
  /\ PoolIdsGiven
  /\ ~ edited => /\ PoolAgreed /\ PoolKeysOnce(row)
                 /\ \E f \in [IxIds -> Pushers] : PoolMadeBy(f, rec, push)

-----------------------------------------------------------------------------
(* The first and the last of some numbers *)

\* A set of numbers that is not empty has a first one, a set of places a last one.
LEMMA PoolMinIs ==
  ASSUME NEW S \in SUBSET Nat, S # {}
  PROVE  Pool!Min(S) \in S
<1> DEFINE R == {p \in Nat \X Nat : p[1] < p[2]}
<1>1. PICK k \in S : \A j \in S : ~ (<<j, k>> \in OpToRel(<, Nat))
  BY WFMin, NatLessThanWellFounded, Zenon
<1>2. OpToRel(<, Nat) = R
  BY Zenon DEF OpToRel
<1>3. \A i, j \in Nat : i < j => <<i, j>> \in R
  BY SMT
<1>4. \A j \in S : ~ (j < k)
  <2> HIDE DEF R
  <2> QED
    BY <1>1, <1>2, <1>3, Zenon
<1>5. \A j \in S : k <= j
  <2>1. k \in Nat /\ \A j \in S : j \in Nat
    OBVIOUS
  <2>2. QED
    BY <1>4, <2>1
<1>6. QED
  BY <1>5 DEF Pool!Min

\* The largest of a set of numbers.
LEMMA PoolMaxIs ==
  ASSUME NEW n \in Nat, NEW I \in SUBSET (1 .. n), I # {}
  PROVE  Pool!Max(I) \in I /\ \A x \in I : x <= Pool!Max(I)
<1>1. PICK m \in I : \A x \in I : x <= m
  BY LastExists
<1>2. \A x \in I : x \in Int
  OBVIOUS
<1>3. \A x \in I : m >= x
  BY <1>1, <1>2
<1>4. Pool!Max(I) \in I /\ \A x \in I : Pool!Max(I) >= x
  BY <1>3 DEF Pool!Max
<1>5. QED
  BY <1>2, <1>4

-----------------------------------------------------------------------------
(* Rows, records and pushes *)

PoolTable   == [RowIds -> Pool!Rows \cup {None}]
PoolListing == [IxIds -> Pool!Recs \cup {None}]

\* The fields of the rows of the pool.
LEMMA PoolTableIs ==
  ASSUME NEW t \in PoolTable
  PROVE  /\ Pool!Used(t) \in SUBSET RowIds
         /\ \A r \in RowIds : r \in Pool!Used(t) <=> t[r] # None
         /\ \A r \in Pool!Used(t) : /\ t[r] \in Pool!Rows /\ t[r].key \in Keys
                                    /\ t[r].password \in Passwords /\ t[r].ix \in IxIds \cup {0}
<1>1. DOMAIN t = RowIds /\ \A r \in RowIds : t[r] \in Pool!Rows \cup {None}
  BY DEF PoolTable
<1>2. \A w \in Pool!Rows : w.key \in Keys /\ w.password \in Passwords /\ w.ix \in IxIds \cup {0}
  BY DEF Pool!Rows
<1>3. QED
  BY <1>1, <1>2 DEF Pool!Used

\* The fields of the records of ixBrowser.
LEMMA PoolListingIs ==
  ASSUME NEW t \in PoolListing
  PROVE  /\ Pool!Used(t) \in SUBSET IxIds
         /\ \A x \in IxIds : x \in Pool!Used(t) <=> t[x] # None
         /\ \A x \in Pool!Used(t) : /\ t[x] \in Pool!Recs /\ t[x].key \in Keys
                                    /\ t[x].password \in Passwords
<1>1. DOMAIN t = IxIds /\ \A r \in IxIds : t[r] \in Pool!Recs \cup {None}
  BY DEF PoolListing
<1>2. \A w \in Pool!Recs : w.key \in Keys /\ w.password \in Passwords
  BY DEF Pool!Recs
<1>3. QED
  BY <1>1, <1>2 DEF Pool!Used

\* The fields of a push.
LEMMA PoolPushIs ==
  ASSUME NEW p \in Pool!Push
  PROVE  /\ p.todo \in SUBSET RowIds /\ p.rows \in PoolTable /\ p.recs \in PoolListing \cup {None}
         /\ p.call \in Pool!Calls /\ p.at \in RowIds \cup {0} /\ p.ix \in IxIds \cup {0}
BY DEF Pool!Push, PoolTable, PoolListing

\* The ids are positive numbers, finitely many.
LEMMA PoolIdsAre ==
  ASSUME Pool!Constants
  PROVE  /\ RowIds \in SUBSET Nat /\ IxIds \in SUBSET Nat /\ 0 \notin RowIds /\ 0 \notin IxIds
         /\ Pool!IsFiniteSet(RowIds) /\ Pool!IsFiniteSet(IxIds)
<1>1. Pool!Cardinality(RowIds) \in Nat /\ Pool!Cardinality(IxIds) \in Nat
  BY PoolSets, FS_CardinalityType DEF Pool!Constants
<1> DEFINE m == Pool!Cardinality(RowIds)
           n == Pool!Cardinality(IxIds)
<1>2. RowIds = 1 .. m /\ IxIds = 1 .. n
  BY DEF Pool!Constants
<1> HIDE DEF m, n
<1>3. QED
  BY <1>1, <1>2 DEF Pool!Constants, m, n

\* What is known of a push that is under way.
PoolPushTyped(p) == /\ p \in Pool!Push /\ p.todo \subseteq Pool!Used(p.rows)
                    /\ p.call # "list" => p.recs \in PoolListing

\* What the invariant says of one push.
LEMMA PoolOldPush ==
  ASSUME PoolIInv, NEW u \in Pushers, push[u] # None
  PROVE  /\ PoolPushTyped(push[u]) /\ PoolPushFits(push[u], row, edited)
         /\ \A x \in IxIds, k \in Keys : PoolPushSays(push[u], x, k) => PoolSays(x, k)
<1>1. push[u] \in Pool!Push
  BY DEF PoolIInv, Pool!TypeOK
<1>2. PoolPushTyped(push[u])
  BY <1>1 DEF PoolIInv, Pool!TypeOK, PoolPushTyped, PoolListing
<1>3. QED
  BY <1>2 DEF PoolIInv, PoolSays

\* What the invariant says of the types.
LEMMA PoolTyping ==
  ASSUME PoolIInv
  PROVE  /\ row \in PoolTable /\ rec \in PoolListing /\ lastIx \in IxIds \cup {0}
         /\ edited \in BOOLEAN
         /\ pull = None \/ pull \in PoolListing
         /\ push \in [Pushers -> Pool!Push \cup {None}]
         /\ PoolBoundOnce(row)
BY DEF PoolIInv, Pool!TypeOK, PoolTable, PoolListing, PoolBoundOnce

-----------------------------------------------------------------------------
(* The steps in general: rows and records become others, and so does the push of u *)

\* One push moves, with the table and the records: what has to be seen for the invariant.
LEMMA PoolMoves ==
  ASSUME Pool!Constants, PoolIInv, NEW u \in Pushers, NEW p \in Pool!Push \cup {None},
         NEW rows \in PoolTable, NEW recs \in PoolListing, NEW l \in IxIds \cup {0},
         row' = rows, rec' = recs, lastIx' = l, push' = [push EXCEPT ![u] = p],
         pull' \in {pull, rec, None}, edited' \in BOOLEAN, edited => edited',
         lastIx <= l, PoolBoundOnce(rows), Pool!Used(row) \subseteq Pool!Used(rows),
         ~ edited' => PoolKeysOnce(rows) /\ \A r \in Pool!Used(row) : rows[r].key = row[r].key,
         p # None => PoolPushTyped(p) /\ PoolPushFits(p, rows, edited'),
         \A x \in IxIds, k \in Keys :
           PoolHasRec(recs, x, k) \/ PoolHasId(rows, x, k)
             \/ (p # None /\ PoolPushSays(p, x, k)) =>
             /\ x <= l
             /\ ~ edited' => PoolSays(x, k) \/ (x > lastIx /\ k = p.rows[p.at].key),
         ~ edited' => \E f \in [IxIds -> Pushers] : PoolMadeBy(f, recs, [push EXCEPT ![u] = p])
  PROVE  PoolIInv'
<1>1. /\ push \in [Pushers -> Pool!Push \cup {None}] /\ lastIx \in IxIds \cup {0}
      /\ \A v \in Pushers : push'[v] = IF v = u THEN p ELSE push[v]
  BY PoolTyping
<1>2. \A v \in Pushers : push'[v] # None => PoolPushTyped(push'[v])
  BY <1>1, PoolOldPush
<1>3. Pool!TypeOK'
  <2>1. /\ row' \in [RowIds -> Pool!Rows \cup {None}] /\ rec' \in [IxIds -> Pool!Recs \cup {None}]
        /\ lastIx' \in IxIds \cup {0} /\ edited' \in BOOLEAN
    BY DEF PoolTable, PoolListing
  <2>2. pull' = None \/ pull' \in [IxIds -> Pool!Recs \cup {None}]
    BY PoolTyping DEF PoolListing
  <2>3. push' \in [Pushers -> Pool!Push \cup {None}]
    BY <1>1
  <2>4. \A v \in Pushers : push'[v] # None =>
          /\ push'[v].todo \subseteq Pool!Used(push'[v].rows)
          /\ push'[v].call # "list" => push'[v].recs \in [IxIds -> Pool!Recs \cup {None}]
    BY <1>2 DEF PoolPushTyped, PoolListing
  <2>5. \A r, s \in Pool!Used(row') : row'[r].ix = row'[s].ix /\ row'[r].ix # 0 => r = s
    BY DEF PoolBoundOnce
  <2>6. QED
    BY <2>1, <2>2, <2>3, <2>4, <2>5 DEF Pool!TypeOK, Pool!Used
<1>4. ASSUME NEW v \in Pushers, push'[v] # None
      PROVE  PoolPushFits(push'[v], rows, edited')
  <2>1. CASE v = u
    BY <1>1, <1>4, <2>1
  <2>2. CASE v # u
    <3>1. push'[v] = push[v] /\ PoolPushFits(push[v], row, edited)
      BY <1>1, <1>4, <2>2, PoolOldPush
    <3>2. QED
      BY <3>1 DEF PoolPushFits
  <2>3. QED
    BY <2>1, <2>2
<1>5. (\A v \in Pushers : push[v] # None => PoolPushFits(push[v], row, edited))'
  <2>1. ASSUME NEW v \in Pushers, push'[v] # None
        PROVE  PoolPushFits(push[v], row, edited)'
    <3>1. row' = rows /\ PoolPushFits(push'[v], rows, edited')
      BY <1>4, <2>1
    <3>2. PoolPushFits(push'[v], row', edited')
      BY <3>1, Zenon
    <3>3. QED
      BY <3>2 DEF PoolPushFits, Pool!Used, Pool!RecordsOf, Pool!ByKey, PoolHasRec
  <2>2. QED
    BY <2>1, Zenon
<1> DEFINE Now(x, k) == \/ PoolHasRec(recs, x, k) \/ PoolHasId(rows, x, k)
                        \/ (p # None /\ PoolPushSays(p, x, k)) \/ PoolSays(x, k)
<1>6. ASSUME NEW x \in IxIds, NEW k \in Keys, PoolSays(x, k)'
      PROVE  Now(x, k)
  <2>1. \/ PoolHasRec(recs, x, k)
        \/ PoolHasId(rows, x, k)
        \/ pull' # None /\ PoolHasRec(pull', x, k)
        \/ \E v \in Pushers : push'[v] # None /\ PoolPushSays(push'[v], x, k)
    BY <1>6 DEF PoolSays, PoolHasRec, PoolHasId, PoolPushSays, Pool!Used
  <2>2. pull' # None /\ PoolHasRec(pull', x, k) => PoolSays(x, k)
    BY DEF PoolSays
  <2>3. ASSUME NEW v \in Pushers, push'[v] # None, PoolPushSays(push'[v], x, k)
        PROVE  Now(x, k)
    BY <1>1, <2>3 DEF PoolSays
  <2>4. QED
    BY <2>1, <2>2, <2>3
<1>7. \A x \in IxIds, k \in Keys : PoolSays(x, k) => x <= lastIx
  BY DEF PoolIInv, PoolIdsGiven
<1>8. ASSUME NEW x \in IxIds, NEW k \in Keys, Now(x, k)
      PROVE  x <= l /\ (~ edited' => PoolSays(x, k) \/ (x > lastIx /\ k = p.rows[p.at].key))
  <2>1. x \in Int /\ lastIx \in Int /\ l \in Int
    BY <1>1, PoolIdsAre
  <2>2. QED
    BY <1>7, <1>8, <2>1
<1> HIDE DEF Now
<1>9. PoolIdsGiven'
  BY <1>6, <1>8 DEF PoolIdsGiven
<1>10. ASSUME ~ edited'
       PROVE  (PoolAgreed /\ PoolKeysOnce(row)
              /\ \E f \in [IxIds -> Pushers] : PoolMadeBy(f, rec, push))'
  <2>1. ASSUME NEW x \in IxIds, NEW k \in Keys, NEW m \in Keys, PoolSays(x, k)', PoolSays(x, m)'
        PROVE  k = m
    <3>1. /\ PoolSays(x, k) \/ (x > lastIx /\ k = p.rows[p.at].key)
          /\ PoolSays(x, m) \/ (x > lastIx /\ m = p.rows[p.at].key)
      BY <1>6, <1>8, <1>10, <2>1
    <3>2. x \in Int /\ lastIx \in Int /\ (x > lastIx => ~ (x <= lastIx))
      BY <1>1, PoolIdsAre
    <3>3. PoolAgreed
      BY <1>10 DEF PoolIInv
    <3>4. QED
      BY <1>7, <3>1, <3>2, <3>3 DEF PoolAgreed
  <2>2. PoolAgreed'
    BY <2>1 DEF PoolAgreed
  <2>3. PoolKeysOnce(row)'
    BY <1>10 DEF PoolKeysOnce, Pool!Used
  <2>4. (\E f \in [IxIds -> Pushers] : PoolMadeBy(f, rec, push))'
    <3>1. PICK f \in [IxIds -> Pushers] : PoolMadeBy(f, recs, [push EXCEPT ![u] = p])
      BY <1>10
    <3>2. PoolMadeBy(f, rec', push')
      BY <3>1
    <3>3. QED
      BY <3>2 DEF PoolMadeBy, PoolMayCreate, Pool!Used, Pool!RecordsOf, Pool!ByKey
  <2>5. QED
    BY <2>2, <2>3, <2>4
<1>11. QED
  BY <1>3, <1>5, <1>9, <1>10 DEF PoolIInv

-----------------------------------------------------------------------------
(* What pushers have made stays made, and moves of one side *)

\* Records that were made by other pushers stay so when this one makes no record.
LEMMA PoolMadeKept ==
  ASSUME PoolIInv, ~ edited, NEW u \in Pushers, NEW p \in Pool!Push \cup {None},
         NEW recs \in PoolListing,
         \A x \in Pool!Used(recs) : x \in Pool!Used(rec) /\ recs[x].key = rec[x].key,
         \A r \in RowIds : p # None /\ PoolMayCreate(p, r) =>
           \/ push[u] # None /\ PoolMayCreate(push[u], r) /\ push[u].rows[r].key = p.rows[r].key
           \/ \A x \in Pool!Used(recs) : recs[x].key # p.rows[r].key
  PROVE  \E f \in [IxIds -> Pushers] : PoolMadeBy(f, recs, [push EXCEPT ![u] = p])
<1>1. PICK f \in [IxIds -> Pushers] : PoolMadeBy(f, rec, push)
  BY DEF PoolIInv
<1> DEFINE q == [push EXCEPT ![u] = p]
<1>2. \A v \in Pushers : q[v] = IF v = u THEN p ELSE push[v]
  BY PoolTyping
<1> HIDE DEF q
<1>3. \A x, y \in Pool!Used(recs) : recs[x].key = recs[y].key /\ f[x] = f[y] => x = y
  BY <1>1 DEF PoolMadeBy
<1>4. ASSUME NEW v \in Pushers, NEW r \in RowIds, q[v] # None, PoolMayCreate(q[v], r),
             NEW x \in Pool!Used(recs), f[x] = v
      PROVE  recs[x].key # q[v].rows[r].key
  <2>1. CASE v = u /\ \A z \in Pool!Used(recs) : recs[z].key # p.rows[r].key
    BY <1>2, <2>1
  <2>2. CASE v = u /\ push[u] # None /\ PoolMayCreate(push[u], r)
             /\ push[u].rows[r].key = p.rows[r].key
    BY <1>1, <1>2, <1>4, <2>2 DEF PoolMadeBy
  <2>3. CASE v # u
    BY <1>1, <1>2, <1>4, <2>3 DEF PoolMadeBy
  <2>4. QED
    BY <1>2, <1>4, <2>1, <2>2, <2>3
<1>5. PoolMadeBy(f, recs, q)
  BY <1>3, <1>4 DEF PoolMadeBy
<1>6. QED
  BY <1>5 DEF q

\* A push tells of no id that ixBrowser has not given yet.
LEMMA PoolSaidIds ==
  ASSUME Pool!Constants, PoolIInv, NEW x \in IxIds, NEW k \in Keys, PoolSays(x, k)
  PROVE  x <= lastIx
BY DEF PoolIInv, PoolIdsGiven

\* Only the push of u changes.
LEMMA PoolPushMoves ==
  ASSUME Pool!Constants, PoolIInv, NEW u \in Pushers, NEW p \in Pool!Push \cup {None},
         row' = row, rec' = rec, lastIx' = lastIx, pull' = pull, edited' = edited,
         push' = [push EXCEPT ![u] = p],
         p # None => /\ PoolPushTyped(p) /\ PoolPushFits(p, row, edited)
                     /\ \A x \in IxIds, k \in Keys : PoolPushSays(p, x, k) => PoolSays(x, k),
         ~ edited => \A r \in RowIds : p # None /\ PoolMayCreate(p, r) =>
           \/ push[u] # None /\ PoolMayCreate(push[u], r) /\ push[u].rows[r].key = p.rows[r].key
           \/ \A x \in Pool!Used(rec) : rec[x].key # p.rows[r].key
  PROVE  PoolIInv'
<1>1. /\ row \in PoolTable /\ rec \in PoolListing /\ lastIx \in IxIds \cup {0}
      /\ edited \in BOOLEAN
      /\ PoolBoundOnce(row)
  BY PoolTyping
<1>2. lastIx <= lastIx
  BY <1>1, PoolIdsAre
<1>3. ~ edited => PoolKeysOnce(row)
  BY DEF PoolIInv
<1>4. \A x \in IxIds, k \in Keys :
        PoolHasRec(rec, x, k) \/ PoolHasId(row, x, k) \/ (p # None /\ PoolPushSays(p, x, k)) =>
          x <= lastIx /\ PoolSays(x, k)
  BY PoolSaidIds DEF PoolSays
<1>5. ~ edited => \E f \in [IxIds -> Pushers] : PoolMadeBy(f, rec, [push EXCEPT ![u] = p])
  BY <1>1, PoolMadeKept
<1>6. QED
  BY <1>1, <1>2, <1>3, <1>4, <1>5, PoolMoves

\* Only the rows change, and what has been pulled.
LEMMA PoolRowsMove ==
  ASSUME Pool!Constants, PoolIInv, NEW rows \in PoolTable,
         row' = rows, rec' = rec, lastIx' = lastIx, push' = push,
         pull' \in {pull, rec, None}, edited' \in BOOLEAN, edited => edited',
         PoolBoundOnce(rows), Pool!Used(row) \subseteq Pool!Used(rows),
         ~ edited' => PoolKeysOnce(rows) /\ \A r \in Pool!Used(row) : rows[r].key = row[r].key,
         \A x \in IxIds, k \in Keys : PoolHasId(rows, x, k) =>
           x <= lastIx /\ (~ edited' => PoolSays(x, k))
  PROVE  PoolIInv'
<1>1. PICK u \in Pushers : TRUE
  BY DEF Pool!Constants
<1>2. /\ rec \in PoolListing /\ lastIx \in IxIds \cup {0} /\ edited \in BOOLEAN
      /\ push \in [Pushers -> Pool!Push \cup {None}]
  BY PoolTyping
<1>3. push[u] \in Pool!Push \cup {None} /\ push = [push EXCEPT ![u] = push[u]]
  BY <1>2
<1> DEFINE p == push[u]
<1>4. push' = [push EXCEPT ![u] = p] /\ p \in Pool!Push \cup {None}
  BY <1>3
<1>5. ASSUME p # None
      PROVE  PoolPushTyped(p) /\ PoolPushFits(p, rows, edited')
  <2>1. PoolPushTyped(p) /\ PoolPushFits(p, row, edited)
    BY <1>5, PoolOldPush
  <2>2. PoolPushFits(p, rows, edited')
    BY <2>1 DEF PoolPushFits
  <2>3. QED
    BY <2>1, <2>2
<1>6. \A x \in IxIds, k \in Keys : p # None /\ PoolPushSays(p, x, k) => PoolSays(x, k)
  BY DEF PoolSays
<1>7. ~ edited' => \E f \in [IxIds -> Pushers] : PoolMadeBy(f, rec, [push EXCEPT ![u] = p])
  BY <1>3 DEF PoolIInv
<1> HIDE DEF p
<1>8. \A x \in IxIds, k \in Keys :
        PoolHasRec(rec, x, k) \/ PoolHasId(rows, x, k) \/ (p # None /\ PoolPushSays(p, x, k)) =>
          x <= lastIx /\ (~ edited' => PoolSays(x, k))
  BY <1>6, PoolSaidIds DEF PoolSays
<1>9. lastIx <= lastIx
  BY <1>2, PoolIdsAre
<1>10. QED
  BY <1>2, <1>4, <1>5, <1>7, <1>8, <1>9, PoolMoves

-----------------------------------------------------------------------------
(* The actions *)

\* The invariant holds at first.
LEMMA PoolInitIInv ==
  ASSUME Pool!Constants, Pool!Init
  PROVE  PoolIInv
<1>1. PICK b \in BOOLEAN, k \in Keys, p \in Passwords, n \in {0, 1} :
        rec = [i \in IxIds |-> IF i = n THEN Pool!Rec(k, p, b) ELSE None] /\ lastIx = n
  BY DEF Pool!Init
<1>2. RowIds \in SUBSET Nat /\ IxIds \in SUBSET Nat /\ 1 \in IxIds
  <2>1. Pool!Cardinality(IxIds) \in Nat /\ Pool!Cardinality(IxIds) # 0
    BY PoolSets, FS_CardinalityType, FS_EmptySet DEF Pool!Constants
  <2>2. IxIds = 1 .. Pool!Cardinality(IxIds)
    BY DEF Pool!Constants
  <2>3. 1 \in 1 .. Pool!Cardinality(IxIds)
    BY <2>1
  <2>4. QED
    BY <2>2, <2>3, PoolIdsAre
<1>3. /\ row = [r \in RowIds |-> None] /\ push = [u \in Pushers |-> None] /\ pull = None
      /\ edited = FALSE
  BY DEF Pool!Init
<1>4. Pool!Used(row) = {} /\ \A x \in Pool!Used(rec) : x = n /\ x \in IxIds
  <2>1. Pool!Used(row) = {}
    BY <1>3 DEF Pool!Used
  <2>2. \A x \in Pool!Used(rec) : x = n /\ x \in IxIds
    BY <1>1 DEF Pool!Used
  <2>3. QED
    BY <2>1, <2>2
<1>5. Pool!TypeOK
  <2>1. Pool!Rec(k, p, b) \in Pool!Recs
    BY DEF Pool!Rec, Pool!Recs
  <2>2. rec \in [IxIds -> Pool!Recs \cup {None}] /\ lastIx \in IxIds \cup {0}
    BY <1>1, <1>2, <2>1
  <2>3. QED
    BY <1>3, <1>4, <2>2 DEF Pool!TypeOK
<1>6. \A x \in IxIds, m \in Keys : PoolSays(x, m) => x = n /\ PoolHasRec(rec, x, m)
  BY <1>3, <1>4 DEF PoolSays, PoolHasRec, PoolHasId
<1>7. PoolIdsGiven
  BY <1>1, <1>2, <1>6 DEF PoolIdsGiven
<1>8. PoolAgreed
  BY <1>6 DEF PoolAgreed, PoolHasRec
<1>9. PoolKeysOnce(row)
  BY <1>4 DEF PoolKeysOnce
<1>10. PICK u \in Pushers : TRUE
  BY DEF Pool!Constants
<1>11. \E f \in [IxIds -> Pushers] : PoolMadeBy(f, rec, push)
  <2> DEFINE g == [x \in IxIds |-> u]
  <2>1. g \in [IxIds -> Pushers]
    OBVIOUS
  <2>2. PoolMadeBy(g, rec, push)
    BY <1>3, <1>4 DEF PoolMadeBy
  <2> HIDE DEF g
  <2>3. QED
    BY <2>1, <2>2
<1>12. QED
  BY <1>3, <1>5, <1>7, <1>8, <1>9, <1>11 DEF PoolIInv

\* A row gets another id or key.
LEMMA PoolRowIs ==
  ASSUME NEW rows \in PoolTable, NEW r \in RowIds, NEW w \in Pool!Rows, Pool!Constants
  PROVE  /\ [rows EXCEPT ![r] = w] \in PoolTable
         /\ Pool!Used([rows EXCEPT ![r] = w]) = Pool!Used(rows) \cup {r}
         /\ [rows EXCEPT ![r] = w][r] = w
         /\ \A s \in RowIds \ {r} : [rows EXCEPT ![r] = w][s] = rows[s]
<1>1. w # None
  BY DEF Pool!Constants
<1>2. QED
  BY <1>1 DEF PoolTable, Pool!Used

\* Import keeps the invariant.
LEMMA PoolImportKeeps ==
  ASSUME Pool!Constants, PoolIInv, NEW k \in Keys, NEW p \in Passwords, Pool!Import(k, p)
  PROVE  PoolIInv'
<1>1. row \in PoolTable /\ edited \in BOOLEAN /\ PoolBoundOnce(row) /\ RowIds \in SUBSET Nat
  BY PoolTyping, PoolIdsAre
<1>2. (~ edited => PoolKeysOnce(row)) /\ edited' = edited
  BY DEF PoolIInv, Pool!Import
<1>3. \A x \in IxIds, m \in Keys : PoolHasId(row, x, m) => x <= lastIx /\ PoolSays(x, m)
  BY PoolSaidIds DEF PoolSays
<1>4. CASE Pool!ByKey(row, k) # {}
  <2> DEFINE r == Pool!Min(Pool!ByKey(row, k))
             w == [row[r] EXCEPT !.password = p]
             rows == [row EXCEPT ![r] = w]
  <2>1. Pool!ByKey(row, k) \in SUBSET RowIds /\ \A s \in Pool!ByKey(row, k) : s \in Pool!Used(row)
          /\ row[s].key = k
    BY <1>1, PoolTableIs DEF Pool!ByKey
  <2>2. r \in Pool!ByKey(row, k)
    BY <1>1, <1>4, <2>1, PoolMinIs
  <2>3. row' = rows
    BY <1>4 DEF Pool!Import
  <2> HIDE DEF r
  <2>4. row[r] \in Pool!Rows /\ r \in RowIds /\ row[r].key = k
    BY <1>1, <2>1, <2>2, PoolTableIs
  <2>5. w \in Pool!Rows /\ w.key = k /\ w.ix = row[r].ix
    BY <2>4 DEF Pool!Rows
  <2> HIDE DEF w
  <2>6. /\ rows \in PoolTable /\ Pool!Used(rows) = Pool!Used(row)
        /\ \A s \in Pool!Used(row) : rows[s].key = row[s].key /\ rows[s].ix = row[s].ix
    <3>1. r \in Pool!Used(row) /\ Pool!Used(row) \in SUBSET RowIds
      BY <1>1, <2>1, <2>2, PoolTableIs
    <3>2. rows \in PoolTable /\ Pool!Used(rows) = Pool!Used(row) \cup {r}
      BY <1>1, <2>4, <2>5, PoolRowIs
    <3>3. rows[r] = w /\ \A s \in RowIds \ {r} : rows[s] = row[s]
      BY <1>1, <2>4 DEF PoolTable
    <3> HIDE DEF rows
    <3>4. Pool!Used(rows) = Pool!Used(row)
      BY <3>1, <3>2
    <3>5. \A s \in Pool!Used(row) : s # r => rows[s] = row[s]
      BY <3>1, <3>3
    <3>6. \A s \in Pool!Used(row) : rows[s].key = row[s].key /\ rows[s].ix = row[s].ix
      BY <2>4, <2>5, <3>3, <3>5
    <3>7. QED
      BY <3>2, <3>4, <3>6
  <2> HIDE DEF rows
  <2>7. PoolBoundOnce(rows) /\ (~ edited => PoolKeysOnce(rows))
    BY <1>1, <1>2, <2>6 DEF PoolBoundOnce, PoolKeysOnce
  <2>8. \A x \in IxIds, m \in Keys : PoolHasId(rows, x, m) => PoolHasId(row, x, m)
    BY <2>6 DEF PoolHasId
  <2>9. QED
    BY <1>1, <1>2, <1>3, <2>3, <2>6, <2>7, <2>8, PoolRowsMove DEF Pool!Import
<1>5. CASE Pool!ByKey(row, k) = {}
  <2> DEFINE r == Pool!Min(Pool!NewIds(row))
             w == Pool!Row(k, p, 0)
             rows == [row EXCEPT ![r] = w]
  <2>1. Pool!NewIds(row) # {} /\ row' = rows
    BY <1>5 DEF Pool!Import
  <2>2. Pool!NewIds(row) \in SUBSET RowIds
    BY <1>1 DEF Pool!NewIds, PoolTable
  <2>3. r \in Pool!NewIds(row)
    BY <1>1, <2>1, <2>2, PoolMinIs
  <2> HIDE DEF r
  <2>4. r \in RowIds /\ r \notin Pool!Used(row)
    BY <2>2, <2>3 DEF Pool!NewIds
  <2>5. w \in Pool!Rows /\ w.ix = 0 /\ w.key = k
    BY DEF Pool!Row, Pool!Rows
  <2> HIDE DEF w
  <2>6. /\ rows \in PoolTable /\ Pool!Used(rows) = Pool!Used(row) \cup {r}
        /\ rows[r].ix = 0 /\ rows[r].key = k
        /\ \A s \in Pool!Used(row) : rows[s] = row[s]
    <3>1. Pool!Used(row) \in SUBSET RowIds
      BY <1>1, PoolTableIs
    <3>2. rows \in PoolTable /\ Pool!Used(rows) = Pool!Used(row) \cup {r}
      BY <1>1, <2>4, <2>5, PoolRowIs
    <3>3. rows[r] = w /\ \A s \in RowIds \ {r} : rows[s] = row[s]
      BY <1>1, <2>4 DEF PoolTable
    <3>4. QED
      BY <2>4, <2>5, <3>1, <3>2, <3>3
  <2> HIDE DEF rows
  <2>7. PoolBoundOnce(rows)
    BY <1>1, <2>6 DEF PoolBoundOnce
  <2>8. ~ edited => PoolKeysOnce(rows)
    <3>1. \A s \in Pool!Used(row) : row[s].key # k
      BY <1>5 DEF Pool!ByKey
    <3>2. QED
      BY <1>2, <2>6, <3>1 DEF PoolKeysOnce
  <2>9. \A x \in IxIds, m \in Keys : PoolHasId(rows, x, m) => PoolHasId(row, x, m)
    BY <2>6 DEF PoolHasId
  <2>10. QED
    BY <1>1, <1>2, <1>3, <2>1, <2>6, <2>7, <2>8, <2>9, PoolRowsMove DEF Pool!Import
<1>6. QED
  BY <1>4, <1>5

\* The rows after a batch update.
LEMMA PoolChangedIs ==
  ASSUME Pool!Constants, PoolIInv, NEW S \in SUBSET RowIds, S \subseteq Pool!Used(row),
         NEW k \in Keys \cup {None},
         NEW p \in Passwords, NEW ed, ed
           = (edited \/ \E r \in S : Pool!Changed(S, k, p)[r].key # row[r].key)
  PROVE  /\ Pool!Changed(S, k, p) \in PoolTable
         /\ Pool!Used(Pool!Changed(S, k, p)) = Pool!Used(row)
         /\ ed \in BOOLEAN /\ (edited => ed)
         /\ PoolBoundOnce(Pool!Changed(S, k, p))
         /\ ~ ed => /\ PoolKeysOnce(Pool!Changed(S, k, p))
                    /\ \A r \in Pool!Used(row) : Pool!Changed(S, k, p)[r].key = row[r].key
         /\ \A x \in IxIds, m \in Keys : PoolHasId(Pool!Changed(S, k, p), x, m) =>
              x <= lastIx /\ (~ ed => PoolSays(x, m))
<1> DEFINE rows == Pool!Changed(S, k, p)
<1>1. row \in PoolTable /\ edited \in BOOLEAN /\ PoolBoundOnce(row)
  BY PoolTyping
<1>2. ASSUME NEW r \in S
      PROVE  rows[r] \in Pool!Rows /\ rows[r].ix = row[r].ix
  <2>1. row[r] \in Pool!Rows
    BY <1>1, PoolTableIs
  <2>2. rows[r] = [row[r] EXCEPT !.password = p, !.key = IF k = None THEN @ ELSE k]
    BY DEF Pool!Changed
  <2>3. CASE k = None
    BY <2>1, <2>2, <2>3 DEF Pool!Rows
  <2>4. CASE k # None
    BY <2>1, <2>2, <2>4 DEF Pool!Rows
  <2>5. QED
    BY <2>3, <2>4
<1>3. DOMAIN rows = RowIds /\ rows = [r \in RowIds |-> rows[r]]
        /\ \A r \in RowIds \ S : rows[r] = row[r]
  BY DEF Pool!Changed
<1>4. \A w \in Pool!Rows : w # None
  BY DEF Pool!Constants
<1> HIDE DEF rows
<1>5. rows \in PoolTable /\ Pool!Used(rows) = Pool!Used(row)
  <2>1. \A r \in RowIds : rows[r] \in Pool!Rows \cup {None}
    BY <1>1, <1>2, <1>3 DEF PoolTable
  <2>2. rows \in PoolTable
    BY <1>3, <2>1 DEF PoolTable
  <2>3. QED
    BY <1>1, <1>2, <1>3, <1>4, <2>2, PoolTableIs
<1>6. Pool!Used(row) \in SUBSET RowIds /\ \A r \in Pool!Used(row) : rows[r].ix = row[r].ix
  BY <1>1, <1>2, <1>3, PoolTableIs
<1>7. ~ ed => \A r \in Pool!Used(row) : rows[r].key = row[r].key
  BY <1>3, <1>6 DEF rows
<1>8. PoolBoundOnce(rows)
  BY <1>1, <1>5, <1>6 DEF PoolBoundOnce
<1>9. ~ ed => PoolKeysOnce(rows)
  <2>1. ~ ed => PoolKeysOnce(row)
    BY DEF PoolIInv
  <2>2. QED
    BY <1>5, <1>7, <2>1 DEF PoolKeysOnce
<1>10. ASSUME NEW x \in IxIds, NEW m \in Keys, PoolHasId(rows, x, m)
       PROVE  x <= lastIx /\ (~ ed => PoolSays(x, m))
  <2>1. PICK r \in Pool!Used(row) : x # 0 /\ rows[r].ix = x /\ rows[r].key = m
    BY <1>5, <1>10 DEF PoolHasId
  <2>2. PoolHasId(row, x, row[r].key) /\ row[r].key \in Keys
    BY <1>1, <1>6, <2>1, PoolTableIs DEF PoolHasId
  <2>3. PoolSays(x, row[r].key)
    BY <2>2 DEF PoolSays
  <2>4. QED
    BY <1>7, <2>1, <2>2, <2>3, PoolSaidIds
<1>11. ed \in BOOLEAN /\ (edited => ed)
  BY <1>1
<1>12. QED
  BY <1>5, <1>7, <1>8, <1>9, <1>10, <1>11 DEF rows

\* BatchUpdate keeps the invariant.
LEMMA PoolBatchUpdateKeeps ==
  ASSUME Pool!Constants, PoolIInv, NEW S \in SUBSET RowIds, NEW k \in Keys \cup {None},
         NEW p \in Passwords,
         Pool!BatchUpdate(S, k, p)
  PROVE  PoolIInv'
<1> DEFINE rows == Pool!Changed(S, k, p)
           ed == edited \/ \E r \in S : rows[r].key # row[r].key
<1>1. S \subseteq Pool!Used(row) /\ row' = rows /\ edited' = ed
  BY DEF Pool!BatchUpdate
<1>2. /\ rows \in PoolTable /\ Pool!Used(rows) = Pool!Used(row) /\ ed \in BOOLEAN
      /\ (edited => ed) /\ PoolBoundOnce(rows)
      /\ ~ ed => PoolKeysOnce(rows) /\ \A r \in Pool!Used(row) : rows[r].key = row[r].key
      /\ \A x \in IxIds, m \in Keys : PoolHasId(rows, x, m)
           => x <= lastIx /\ (~ ed => PoolSays(x, m))
  BY <1>1, PoolChangedIs
<1>3. rec' = rec /\ lastIx' = lastIx /\ push' = push /\ pull' = pull
  BY DEF Pool!BatchUpdate
<1> HIDE DEF rows, ed
<1>4. QED
  BY <1>1, <1>2, <1>3, PoolRowsMove

\* A push that reads rows.
LEMMA PoolReadIs ==
  ASSUME Pool!Constants, NEW rows \in PoolTable, NEW S \in SUBSET RowIds,
         S \subseteq Pool!Used(rows), NEW ed
  PROVE  /\ Pool!Read(rows, S) \in Pool!Push /\ Pool!Read(rows, S).call = "list"
         /\ PoolPushTyped(Pool!Read(rows, S)) /\ PoolPushFits(Pool!Read(rows, S), rows, ed)
         /\ \A x \in IxIds, k \in Keys : PoolPushSays(Pool!Read(rows, S), x, k)
              => PoolHasId(rows, x, k)
<1> DEFINE read == [r \in RowIds |-> IF r \in S THEN rows[r] ELSE None]
           p == Pool!Read(rows, S)
<1>1. read \in PoolTable
  BY DEF PoolTable
<1>2. p.todo = S /\ p.rows = read /\ p.call = "list"
  BY DEF Pool!Read
<1>3. p \in Pool!Push
  BY <1>1 DEF Pool!Read, Pool!Push, PoolTable, Pool!Calls
<1>4. Pool!Used(read) = S /\ \A r \in S : read[r] = rows[r]
  <2>1. \A r \in S : rows[r] # None
    BY PoolTableIs
  <2>2. QED
    BY <2>1 DEF Pool!Used
<1> HIDE DEF read, p
<1>5. PoolPushTyped(p) /\ PoolPushFits(p, rows, ed)
  BY <1>2, <1>3, <1>4 DEF PoolPushTyped, PoolPushFits, PoolCalling
<1>6. \A x \in IxIds, k \in Keys : PoolPushSays(p, x, k) => PoolHasId(rows, x, k)
  BY <1>2, <1>4 DEF PoolPushSays, PoolHasId
<1>7. QED
  BY <1>2, <1>3, <1>5, <1>6 DEF p

\* BatchUpdateAndPush keeps the invariant.
LEMMA PoolBatchUpdateAndPushKeeps ==
  ASSUME Pool!Constants, PoolIInv, NEW u \in Pushers, NEW S \in SUBSET RowIds,
         NEW k \in Keys \cup {None},
         NEW p \in Passwords, Pool!BatchUpdateAndPush(u, S, k, p)
  PROVE  PoolIInv'
<1> DEFINE rows == Pool!Changed(S, k, p)
           ed == edited \/ \E r \in S : rows[r].key # row[r].key
           q == Pool!Read(rows, S)
<1>1. S \subseteq Pool!Used(row) /\ row' = rows /\ edited' = ed /\ push' = [push EXCEPT ![u] = q]
  BY DEF Pool!BatchUpdateAndPush
<1>2. /\ rows \in PoolTable /\ Pool!Used(rows) = Pool!Used(row) /\ ed \in BOOLEAN
      /\ (edited => ed) /\ PoolBoundOnce(rows)
      /\ ~ ed => PoolKeysOnce(rows) /\ \A r \in Pool!Used(row) : rows[r].key = row[r].key
      /\ \A x \in IxIds, m \in Keys : PoolHasId(rows, x, m)
           => x <= lastIx /\ (~ ed => PoolSays(x, m))
  BY <1>1, PoolChangedIs
<1>3. rec' = rec /\ lastIx' = lastIx /\ pull' = pull
  BY DEF Pool!BatchUpdateAndPush
<1> HIDE DEF rows, ed
<1>4. /\ q \in Pool!Push /\ q.call = "list" /\ PoolPushTyped(q) /\ PoolPushFits(q, rows, ed)
      /\ \A x \in IxIds, m \in Keys : PoolPushSays(q, x, m) => PoolHasId(rows, x, m)
  BY <1>1, <1>2, PoolReadIs
<1> HIDE DEF q
<1>5. rec \in PoolListing /\ lastIx \in IxIds \cup {0} /\ lastIx <= lastIx
  BY PoolTyping, PoolIdsAre
<1>6. \A x \in IxIds, m \in Keys :
        PoolHasRec(rec, x, m) \/ PoolHasId(rows, x, m) \/ (q # None /\ PoolPushSays(q, x, m)) =>
          x <= lastIx /\ (~ ed => PoolSays(x, m))
  BY <1>2, <1>4, PoolSaidIds DEF PoolSays
<1>7. ~ ed => \E f \in [IxIds -> Pushers] : PoolMadeBy(f, rec, [push EXCEPT ![u] = q])
  <2>1. \A r \in RowIds : ~ PoolMayCreate(q, r)
    BY <1>4 DEF PoolMayCreate
  <2>2. QED
    BY <1>2, <1>4, <1>5, <2>1, PoolMadeKept
<1>8. QED
  BY <1>1, <1>2, <1>3, <1>4, <1>5, <1>6, <1>7, PoolMoves

\* A pull that reads the records, or fails, keeps the invariant.
LEMMA PoolPullReadsOrFails ==
  ASSUME Pool!Constants, PoolIInv, Pool!PullReads \/ Pool!PullFails
  PROVE  PoolIInv'
<1>1. row \in PoolTable /\ edited \in BOOLEAN /\ PoolBoundOnce(row)
  BY PoolTyping
<1>2. /\ row' = row /\ rec' = rec /\ lastIx' = lastIx /\ push' = push /\ edited' = edited
      /\ pull' \in {pull, rec, None}
  BY DEF Pool!PullReads, Pool!PullFails
<1>3. (~ edited => PoolKeysOnce(row)) /\
      \A x \in IxIds, k \in Keys : PoolHasId(row, x, k) => x <= lastIx /\ PoolSays(x, k)
  BY PoolSaidIds DEF PoolIInv, PoolSays
<1>4. QED
  BY <1>1, <1>2, <1>3, PoolRowsMove

\* Removed keeps the invariant.
LEMMA PoolRemovedKeeps ==
  ASSUME Pool!Constants, PoolIInv, NEW x \in IxIds, Pool!Removed(x)
  PROVE  PoolIInv'
<1> DEFINE recs == [rec EXCEPT ![x] = None]
<1>1. /\ row \in PoolTable /\ rec \in PoolListing /\ lastIx \in IxIds \cup {0}
      /\ edited \in BOOLEAN
      /\ PoolBoundOnce(row) /\ push \in [Pushers -> Pool!Push \cup {None}] /\ lastIx <= lastIx
  BY PoolTyping, PoolIdsAre
<1>2. PICK u \in Pushers : TRUE
  BY DEF Pool!Constants
<1>3. /\ rec' = recs /\ row' = row /\ lastIx' = lastIx /\ push' = push /\ pull' = pull
      /\ edited' = edited
  BY DEF Pool!Removed
<1>4. recs \in PoolListing /\ \A y \in Pool!Used(recs) : y \in Pool!Used(rec) /\ recs[y] = rec[y]
  BY <1>1 DEF PoolListing, Pool!Used
<1> HIDE DEF recs
<1> DEFINE p == push[u]
<1>5. push' = [push EXCEPT ![u] = p] /\ p \in Pool!Push \cup {None}
  BY <1>1, <1>3
<1>6. p # None => PoolPushTyped(p) /\ PoolPushFits(p, row, edited)
                  /\ \A y \in IxIds, k \in Keys : PoolPushSays(p, y, k) => PoolSays(y, k)
  BY PoolOldPush
<1>7. ~ edited => \E f \in [IxIds -> Pushers] : PoolMadeBy(f, recs, [push EXCEPT ![u] = p])
  BY <1>4, <1>5, PoolMadeKept
<1> HIDE DEF p
<1>8. \A y \in IxIds, k \in Keys :
        PoolHasRec(recs, y, k) \/ PoolHasId(row, y, k) \/ (p # None /\ PoolPushSays(p, y, k)) =>
          y <= lastIx /\ PoolSays(y, k)
  BY <1>4, <1>6, PoolSaidIds DEF PoolSays, PoolHasRec
<1>9. ~ edited => PoolKeysOnce(row)
  BY DEF PoolIInv
<1>10. QED
  BY <1>1, <1>3, <1>4, <1>5, <1>6, <1>7, <1>8, <1>9, PoolMoves

-----------------------------------------------------------------------------
(* A push *)

\* PushBegins keeps the invariant.
LEMMA PoolPushBeginsKeeps ==
  ASSUME Pool!Constants, PoolIInv, NEW u \in Pushers, NEW S \in SUBSET RowIds,
         Pool!PushBegins(u, S)
  PROVE  PoolIInv'
<1> DEFINE q == Pool!Read(row, S)
<1>1. /\ S \subseteq Pool!Used(row) /\ push' = [push EXCEPT ![u] = q]
      /\ row' = row /\ rec' = rec /\ lastIx' = lastIx /\ pull' = pull /\ edited' = edited
  BY DEF Pool!PushBegins
<1>2. /\ q \in Pool!Push /\ q.call = "list" /\ PoolPushTyped(q) /\ PoolPushFits(q, row, edited)
      /\ \A x \in IxIds, m \in Keys : PoolPushSays(q, x, m) => PoolHasId(row, x, m)
  BY <1>1, PoolTyping, PoolReadIs
<1> HIDE DEF q
<1>3. \A x \in IxIds, m \in Keys : PoolPushSays(q, x, m) => PoolSays(x, m)
  BY <1>2 DEF PoolSays
<1>4. \A r \in RowIds : ~ PoolMayCreate(q, r)
  BY <1>2 DEF PoolMayCreate
<1>5. QED
  BY <1>1, <1>2, <1>3, <1>4, PoolPushMoves

\* A push that ends or breaks off keeps the invariant.
LEMMA PoolPushStops ==
  ASSUME Pool!Constants, PoolIInv, NEW u \in Pushers, Pool!PushEnds(u) \/ Pool!PushBreaks(u)
  PROVE  PoolIInv'
<1>1. /\ push' = [push EXCEPT ![u] = None] /\ None \in Pool!Push \cup {None}
      /\ row' = row /\ rec' = rec /\ lastIx' = lastIx /\ pull' = pull /\ edited' = edited
  BY DEF Pool!PushEnds, Pool!PushBreaks
<1>2. QED
  BY <1>1, PoolPushMoves

\* A push after a step of its own.
PoolListed(p, recs)   == [p EXCEPT !.recs = recs, !.call = "next"]
PoolAsks(p, r)        == [p EXCEPT !.todo = @ \ {r}, !.at = r, !.call = "create"]
PoolRewrites(p, r, x) == [p EXCEPT !.todo = @ \ {r}, !.at = r, !.call = "update", !.ix = x]
PoolPasses(p, r)      == [p EXCEPT !.todo = @ \ {r}]
PoolRests(p)          == [p EXCEPT !.call = "next", !.at = 0, !.ix = 0]
PoolUpdated(p)        == [p EXCEPT !.call = "updated"]
PoolCreated(p, x)     == [p EXCEPT !.call = "created", !.ix = x]

\* A push that has the records of ixBrowser is a push.
LEMMA PoolListedIs ==
  ASSUME NEW p \in Pool!Push, NEW recs \in PoolListing
  PROVE  /\ PoolListed(p, recs) \in Pool!Push /\ PoolListed(p, recs).todo = p.todo
         /\ PoolListed(p, recs).rows = p.rows /\ PoolListed(p, recs).recs = recs
         /\ PoolListed(p, recs).call = "next"
BY DEF PoolListed, Pool!Push, PoolListing, Pool!Calls

\* A push that asks for a record to be created is a push.
LEMMA PoolAsksIs ==
  ASSUME NEW p \in Pool!Push, NEW r \in RowIds
  PROVE  /\ PoolAsks(p, r) \in Pool!Push /\ PoolAsks(p, r).todo = p.todo \ {r}
         /\ PoolAsks(p, r).rows = p.rows
         /\ PoolAsks(p, r).recs = p.recs /\ PoolAsks(p, r).call = "create"
         /\ PoolAsks(p, r).at = r
BY DEF PoolAsks, Pool!Push, Pool!Calls

\* A push that asks for a record to be updated is a push.
LEMMA PoolRewritesIs ==
  ASSUME NEW p \in Pool!Push, NEW r \in RowIds, NEW x \in IxIds
  PROVE  /\ PoolRewrites(p, r, x) \in Pool!Push /\ PoolRewrites(p, r, x).todo = p.todo \ {r}
         /\ PoolRewrites(p, r, x).rows = p.rows /\ PoolRewrites(p, r, x).recs = p.recs
         /\ PoolRewrites(p, r, x).call = "update" /\ PoolRewrites(p, r, x).at = r
         /\ PoolRewrites(p, r, x).ix = x
BY DEF PoolRewrites, Pool!Push, Pool!Calls

\* A push that passes over a row is a push.
LEMMA PoolPassesIs ==
  ASSUME NEW p \in Pool!Push, NEW r \in RowIds
  PROVE  /\ PoolPasses(p, r) \in Pool!Push /\ PoolPasses(p, r).todo = p.todo \ {r}
         /\ PoolPasses(p, r).rows = p.rows
         /\ PoolPasses(p, r).recs = p.recs /\ PoolPasses(p, r).call = p.call
         /\ PoolPasses(p, r).at = p.at
         /\ PoolPasses(p, r).ix = p.ix
BY DEF PoolPasses, Pool!Push

\* A push that is done with a row is a push.
LEMMA PoolRestsIs ==
  ASSUME NEW p \in Pool!Push
  PROVE  /\ PoolRests(p) \in Pool!Push /\ PoolRests(p).todo = p.todo /\ PoolRests(p).rows = p.rows
         /\ PoolRests(p).recs = p.recs /\ PoolRests(p).call = "next"
BY DEF PoolRests, Pool!Push, Pool!Calls

\* A push whose update was answered is a push.
LEMMA PoolUpdatedIs ==
  ASSUME NEW p \in Pool!Push
  PROVE  /\ PoolUpdated(p) \in Pool!Push /\ PoolUpdated(p).todo = p.todo
         /\ PoolUpdated(p).rows = p.rows
         /\ PoolUpdated(p).recs = p.recs /\ PoolUpdated(p).call = "updated"
         /\ PoolUpdated(p).at = p.at
         /\ PoolUpdated(p).ix = p.ix
BY DEF PoolUpdated, Pool!Push, Pool!Calls

\* A push whose record was created is a push.
LEMMA PoolCreatedIs ==
  ASSUME NEW p \in Pool!Push, NEW x \in IxIds
  PROVE  /\ PoolCreated(p, x) \in Pool!Push /\ PoolCreated(p, x).todo = p.todo
         /\ PoolCreated(p, x).rows = p.rows
         /\ PoolCreated(p, x).recs = p.recs /\ PoolCreated(p, x).call = "created"
         /\ PoolCreated(p, x).at = p.at
         /\ PoolCreated(p, x).ix = x
BY DEF PoolCreated, Pool!Push, Pool!Calls

\* Two pushes that have read the same find the same records.
LEMMA PoolSameRecords ==
  ASSUME NEW p, NEW q, p.rows = q.rows, p.recs = q.recs
  PROVE  \A r : Pool!RecordsOf(p, r) = Pool!RecordsOf(q, r)
BY DEF Pool!RecordsOf

\* PushLists keeps the invariant.
LEMMA PoolPushListsKeeps ==
  ASSUME Pool!Constants, PoolIInv, NEW u \in Pushers, Pool!PushLists(u)
  PROVE  PoolIInv'
<1> DEFINE p == push[u]
           q == PoolListed(p, rec)
<1>1. p # None /\ p.call = "list"
  BY DEF Pool!PushLists
<1>2. /\ p \in Pool!Push /\ PoolPushTyped(p) /\ PoolPushFits(p, row, edited)
      /\ \A x \in IxIds, k \in Keys : PoolPushSays(p, x, k) => PoolSays(x, k)
  BY <1>1, PoolOldPush DEF PoolPushTyped
<1>3. rec \in PoolListing /\ push \in [Pushers -> Pool!Push \cup {None}]
  BY PoolTyping
<1>4. push' = [push EXCEPT ![u] = q]
  BY <1>3 DEF Pool!PushLists, PoolListed
<1>5. /\ row' = row /\ rec' = rec /\ lastIx' = lastIx /\ pull' = pull /\ edited' = edited
  BY DEF Pool!PushLists
<1>6. /\ p.at \in RowIds \cup {0} /\ p.ix \in IxIds \cup {0} /\ "next" \in Pool!Calls
      /\ p.rows \in PoolTable
  BY <1>2, PoolPushIs DEF Pool!Calls
<1>7. /\ q \in Pool!Push /\ q.todo = p.todo /\ q.rows = p.rows /\ q.recs = rec /\ q.call = "next"
  <2> HIDE DEF p
  <2>1. QED
    BY <1>2, <1>3, <1>6, PoolListedIs
<1> HIDE DEF q, p
<1>8. PoolPushTyped(q) /\ PoolPushFits(q, row, edited)
  BY <1>2, <1>3, <1>7 DEF PoolPushTyped, PoolPushFits, PoolCalling
<1>9. \A x \in IxIds, k \in Keys : PoolPushSays(q, x, k) => PoolSays(x, k)
  BY <1>2, <1>7 DEF PoolPushSays, PoolSays
<1>10. ASSUME NEW r \in RowIds, PoolMayCreate(q, r)
       PROVE  \A x \in Pool!Used(rec) : rec[x].key # q.rows[r].key
  <2>1. Pool!RecordsOf(q, r) = {}
    BY <1>10 DEF PoolMayCreate
  <2>2. Pool!ByKey(rec, q.rows[r].key) = {}
    BY <1>7, <2>1 DEF Pool!RecordsOf
  <2>3. QED
    BY <2>2 DEF Pool!ByKey
<1>11. q \in Pool!Push \cup {None}
  BY <1>7
<1>12. QED
  BY <1>4, <1>5, <1>8, <1>9, <1>10, <1>11, PoolPushMoves

\* Missing keeps the invariant.
LEMMA PoolMissingKeeps ==
  ASSUME Pool!Constants, PoolIInv, NEW u \in Pushers, NEW r \in RowIds, Pool!Missing(u, r)
  PROVE  PoolIInv'
<1> DEFINE p == push[u]
           q == PoolAsks(p, r)
<1>1. p # None /\ p.call = "next" /\ r \in p.todo /\ Pool!RecordsOf(p, r) = {}
  BY DEF Pool!Missing
<1>2. /\ p \in Pool!Push /\ PoolPushTyped(p) /\ PoolPushFits(p, row, edited)
      /\ \A x \in IxIds, k \in Keys : PoolPushSays(p, x, k) => PoolSays(x, k)
  BY <1>1, PoolOldPush DEF PoolPushTyped
<1>3. push \in [Pushers -> Pool!Push \cup {None}]
  BY PoolTyping
<1>4. push' = [push EXCEPT ![u] = q]
  BY <1>3 DEF Pool!Missing, PoolAsks
<1>5. /\ row' = row /\ rec' = rec /\ lastIx' = lastIx /\ pull' = pull /\ edited' = edited
  BY DEF Pool!Missing
<1>6. /\ p.ix \in IxIds \cup {0} /\ "create" \in Pool!Calls /\ p.recs \in PoolListing
      /\ p.rows \in PoolTable
  BY <1>1, <1>2, PoolPushIs DEF Pool!Calls, PoolPushTyped
<1>7. /\ q \in Pool!Push /\ q.todo = p.todo \ {r} /\ q.rows = p.rows /\ q.recs = p.recs
      /\ q.call = "create" /\ q.at = r
  <2> HIDE DEF p
  <2>1. QED
    BY <1>2, <1>6, PoolAsksIs
<1> HIDE DEF q, p
<1>8. \A s : Pool!RecordsOf(q, s) = Pool!RecordsOf(p, s)
  BY <1>7, PoolSameRecords
<1>9. PoolPushTyped(q)
  BY <1>2, <1>6, <1>7 DEF PoolPushTyped
<1>10. PoolPushFits(q, row, edited)
  BY <1>1, <1>2, <1>7, <1>8 DEF PoolPushTyped, PoolPushFits, PoolCalling
<1>11. \A x \in IxIds, k \in Keys : PoolPushSays(q, x, k) => PoolSays(x, k)
  BY <1>1, <1>2, <1>7 DEF PoolPushSays
<1>12. \A s \in RowIds : PoolMayCreate(q, s)
         => PoolMayCreate(p, s) /\ p.rows[s].key = q.rows[s].key
  BY <1>1, <1>7, <1>8 DEF PoolMayCreate
<1>13. q \in Pool!Push \cup {None}
  BY <1>7
<1>14. QED
  BY <1>1, <1>4, <1>5, <1>9, <1>10, <1>11, <1>12, <1>13, PoolPushMoves DEF p

\* CallFails keeps the invariant.
LEMMA PoolCallFailsKeeps ==
  ASSUME Pool!Constants, PoolIInv, NEW u \in Pushers, Pool!CallFails(u)
  PROVE  PoolIInv'
<1> DEFINE p == push[u]
           q == PoolRests(p)
<1>1. p # None /\ p.call # "list"
  BY DEF Pool!CallFails
<1>2. /\ p \in Pool!Push /\ PoolPushTyped(p) /\ PoolPushFits(p, row, edited)
      /\ \A x \in IxIds, k \in Keys : PoolPushSays(p, x, k) => PoolSays(x, k)
  BY <1>1, PoolOldPush DEF PoolPushTyped
<1>3. push \in [Pushers -> Pool!Push \cup {None}]
  BY PoolTyping
<1>4. push' = [push EXCEPT ![u] = q]
  BY <1>3 DEF Pool!CallFails, PoolRests
<1>5. /\ row' = row /\ rec' = rec /\ lastIx' = lastIx /\ pull' = pull /\ edited' = edited
  BY DEF Pool!CallFails
<1>6. "next" \in Pool!Calls /\ p.recs \in PoolListing /\ p.rows \in PoolTable
  BY <1>1, <1>2, PoolPushIs DEF Pool!Calls, PoolPushTyped
<1>7. /\ q \in Pool!Push /\ q.todo = p.todo /\ q.rows = p.rows /\ q.recs = p.recs
      /\ q.call = "next"
  <2> HIDE DEF p
  <2>1. QED
    BY <1>2, <1>6, PoolRestsIs
<1> HIDE DEF q, p
<1>8. \A s : Pool!RecordsOf(q, s) = Pool!RecordsOf(p, s)
  BY <1>7, PoolSameRecords
<1>9. PoolPushTyped(q)
  BY <1>2, <1>6, <1>7 DEF PoolPushTyped
<1>10. PoolPushFits(q, row, edited)
  BY <1>2, <1>7 DEF PoolPushFits, PoolCalling
<1>11. \A x \in IxIds, k \in Keys : PoolPushSays(q, x, k) => PoolSays(x, k)
  BY <1>1, <1>2, <1>7 DEF PoolPushSays
<1>12. \A s \in RowIds : PoolMayCreate(q, s)
         => PoolMayCreate(p, s) /\ p.rows[s].key = q.rows[s].key
  BY <1>1, <1>7, <1>8 DEF PoolMayCreate
<1>13. q \in Pool!Push \cup {None}
  BY <1>7
<1>14. QED
  BY <1>1, <1>4, <1>5, <1>9, <1>10, <1>11, <1>12, <1>13, PoolPushMoves DEF p

\* The record of a row is one of those that were read, and has its key unless some key
\* was edited.
LEMMA PoolRecordIs ==
  ASSUME Pool!Constants, PoolIInv, NEW p, PoolPushTyped(p), p.call # "list",
         NEW r \in Pool!Used(p.rows),
         \A x \in IxIds, k \in Keys : PoolPushSays(p, x, k) => PoolSays(x, k),
         Pool!RecordsOf(p, r) # {}
  PROVE  /\ Pool!Max(Pool!RecordsOf(p, r)) \in IxIds
         /\ Pool!Max(Pool!RecordsOf(p, r)) \in Pool!Used(p.recs)
         /\ PoolSays(Pool!Max(Pool!RecordsOf(p, r)), p.recs[Pool!Max(Pool!RecordsOf(p, r))].key)
         /\ ~ edited => PoolHasRec(p.recs, Pool!Max(Pool!RecordsOf(p, r)), p.rows[r].key)
<1> DEFINE S == Pool!RecordsOf(p, r)
           x == Pool!Max(S)
<1>1. p.recs \in PoolListing /\ p \in Pool!Push /\ p.rows \in PoolTable
  BY PoolPushIs DEF PoolPushTyped
<1>2. Pool!Used(p.recs) \in SUBSET IxIds /\ \A y \in Pool!Used(p.recs) : p.recs[y].key \in Keys
  BY <1>1, PoolListingIs
<1>3. S \subseteq Pool!Used(p.recs)
  BY DEF Pool!RecordsOf, Pool!ByKey
<1> DEFINE n == Pool!Cardinality(IxIds)
<1>4. n \in Nat /\ IxIds = 1 .. n
  BY PoolSets, FS_CardinalityType DEF Pool!Constants
<1> HIDE DEF S, n
<1>5. S # {}
  BY DEF S
<1>6. x \in S
  BY <1>2, <1>3, <1>4, <1>5, PoolMaxIs
<1> HIDE DEF x
<1>7. x \in IxIds /\ x \in Pool!Used(p.recs) /\ p.recs[x].key \in Keys
  BY <1>2, <1>3, <1>6
<1>8. PoolSays(x, p.recs[x].key)
  <2>1. PoolHasRec(p.recs, x, p.recs[x].key)
    BY <1>7 DEF PoolHasRec
  <2>2. PoolPushSays(p, x, p.recs[x].key)
    BY <2>1 DEF PoolPushSays
  <2>3. QED
    BY <1>7, <2>2
<1>9. ASSUME ~ edited
      PROVE  p.recs[x].key = p.rows[r].key
  <2>1. CASE p.rows[r].ix \in Pool!Used(p.recs)
    <3>1. x = p.rows[r].ix
      BY <1>6, <2>1 DEF S, Pool!RecordsOf
    <3>2. p.rows[r].key \in Keys
      BY <1>1, PoolTableIs
    <3>3. 0 \notin IxIds
      BY PoolIdsAre
    <3>4. PoolHasId(p.rows, x, p.rows[r].key)
      BY <1>7, <3>1, <3>3 DEF PoolHasId
    <3>5. PoolSays(x, p.rows[r].key)
      BY <1>7, <3>2, <3>4 DEF PoolPushSays
    <3>6. PoolAgreed
      BY <1>9 DEF PoolIInv
    <3>7. QED
      BY <1>7, <1>8, <3>2, <3>5, <3>6 DEF PoolAgreed
  <2>2. CASE p.rows[r].ix \notin Pool!Used(p.recs)
    BY <1>6, <2>2 DEF S, Pool!RecordsOf, Pool!ByKey
  <2>3. QED
    BY <2>1, <2>2
<1>10. QED
  BY <1>7, <1>8, <1>9 DEF PoolHasRec, x, S

\* A row is bound.
LEMMA PoolBinds ==
  ASSUME Pool!Constants, PoolIInv, NEW r \in Pool!Used(row), NEW x \in IxIds,
         Pool!Bound(row, x) \subseteq {r},
         x <= lastIx, ~ edited => PoolSays(x, row[r].key)
  PROVE  /\ [row EXCEPT ![r].ix = x] \in PoolTable
         /\ Pool!Used([row EXCEPT ![r].ix = x]) = Pool!Used(row)
         /\ PoolBoundOnce([row EXCEPT ![r].ix = x])
         /\ \A s \in Pool!Used(row) : [row EXCEPT ![r].ix = x][s].key = row[s].key
         /\ ~ edited => PoolKeysOnce([row EXCEPT ![r].ix = x])
         /\ \A y \in IxIds, k \in Keys : PoolHasId([row EXCEPT ![r].ix = x], y, k) =>
              y <= lastIx /\ (~ edited => PoolSays(y, k))
<1> DEFINE w == [row[r] EXCEPT !.ix = x]
           rows == [row EXCEPT ![r] = w]
<1>1. row \in PoolTable /\ PoolBoundOnce(row) /\ Pool!Used(row) \in SUBSET RowIds
  BY PoolTyping, PoolTableIs
<1>2. row[r] \in Pool!Rows /\ r \in RowIds
  BY <1>1, PoolTableIs
<1>3. w \in Pool!Rows /\ w.ix = x /\ w.key = row[r].key
  BY <1>2 DEF Pool!Rows
<1>4. rows = [row EXCEPT ![r].ix = x]
  OBVIOUS
<1> HIDE DEF w
<1>5. rows \in PoolTable /\ Pool!Used(rows) = Pool!Used(row)
  BY <1>1, <1>2, <1>3, PoolRowIs
<1>6. rows[r] = w /\ \A s \in Pool!Used(row) : s # r => rows[s] = row[s]
  BY <1>1, <1>2 DEF PoolTable
<1> HIDE DEF rows
<1>7. PoolBoundOnce(rows)
  <2>1. \A s \in Pool!Used(row) : row[s].ix = x => s = r
    BY DEF Pool!Bound
  <2>2. QED
    BY <1>1, <1>3, <1>5, <1>6, <2>1 DEF PoolBoundOnce
<1>8. \A s \in Pool!Used(row) : rows[s].key = row[s].key
  BY <1>3, <1>6
<1>9. ~ edited => PoolKeysOnce(rows)
  BY <1>5, <1>8 DEF PoolIInv, PoolKeysOnce
<1>10. ASSUME NEW y \in IxIds, NEW k \in Keys, PoolHasId(rows, y, k)
       PROVE  y <= lastIx /\ (~ edited => PoolSays(y, k))
  <2>1. PICK s \in Pool!Used(row) : y # 0 /\ rows[s].ix = y /\ rows[s].key = k
    BY <1>5, <1>10 DEF PoolHasId
  <2>2. CASE s = r
    BY <1>3, <1>6, <2>1, <2>2
  <2>3. CASE s # r
    <3>1. PoolHasId(row, y, k)
      BY <1>6, <2>1, <2>3 DEF PoolHasId
    <3>2. QED
      BY <3>1, PoolSaidIds DEF PoolSays
  <2>4. QED
    BY <2>2, <2>3
<1>11. QED
  BY <1>4, <1>5, <1>7, <1>8, <1>9, <1>10

\* Matched keeps the invariant.
LEMMA PoolMatchedKeeps ==
  ASSUME Pool!Constants, PoolIInv, NEW u \in Pushers, NEW r \in RowIds, Pool!Matched(u, r)
  PROVE  PoolIInv'
<1> DEFINE p == push[u]
           x == Pool!Max(Pool!RecordsOf(p, r))
<1>1. p # None /\ p.call = "next" /\ r \in p.todo /\ Pool!RecordsOf(p, r) # {}
  BY DEF Pool!Matched
<1>2. /\ p \in Pool!Push /\ PoolPushTyped(p) /\ PoolPushFits(p, row, edited)
      /\ \A y \in IxIds, k \in Keys : PoolPushSays(p, y, k) => PoolSays(y, k)
  BY <1>1, PoolOldPush DEF PoolPushTyped
<1>3. push \in [Pushers -> Pool!Push \cup {None}] /\ row \in PoolTable
  BY PoolTyping
<1>4. r \in Pool!Used(p.rows) /\ r \in Pool!Used(row) /\ p.recs \in PoolListing
  BY <1>1, <1>2 DEF PoolPushTyped, PoolPushFits
<1>5. /\ x \in IxIds /\ x \in Pool!Used(p.recs) /\ PoolSays(x, p.recs[x].key)
      /\ p.recs[x].key \in Keys
      /\ ~ edited => PoolHasRec(p.recs, x, p.rows[r].key)
  BY <1>1, <1>2, <1>4, PoolRecordIs, PoolListingIs
<1>6. rec' = rec /\ lastIx' = lastIx /\ pull' = pull /\ edited' = edited
  BY DEF Pool!Matched
<1>7. CASE ~ (Pool!Bound(row, x) \subseteq {r}) \/ p.recs[x].bought
  <2> DEFINE q == PoolPasses(p, r)
  <2>1. push' = [push EXCEPT ![u] = q]
    BY <1>3, <1>7 DEF Pool!Matched, PoolPasses
  <2>2. row' = row \/ (Pool!Bound(row, x) \subseteq {r} /\ row' = [row EXCEPT ![r].ix = x])
    BY <1>7 DEF Pool!Matched
  <2>3. /\ q \in Pool!Push /\ q.todo = p.todo \ {r} /\ q.rows = p.rows /\ q.recs = p.recs
        /\ q.call = "next"
    <3> HIDE DEF p
    <3>1. QED
      BY <1>1, <1>2, PoolPassesIs
  <2> HIDE DEF p, q, x
  <2>4. PoolPushTyped(q) /\ q \in Pool!Push \cup {None}
    BY <1>2, <1>4, <2>3 DEF PoolPushTyped
  <2>5. \A s \in RowIds : PoolMayCreate(q, s)
          => PoolMayCreate(p, s) /\ p.rows[s].key = q.rows[s].key
    BY <1>1, <2>3, PoolSameRecords DEF PoolMayCreate
  <2>6. \A y \in IxIds, k \in Keys : PoolPushSays(q, y, k) => PoolSays(y, k)
    BY <1>1, <1>2, <2>3 DEF PoolPushSays
  <2>7. CASE row' = row
    <3>1. PoolPushFits(q, row, edited)
      BY <1>2, <2>3 DEF PoolPushFits, PoolCalling
    <3>2. QED
      BY <1>1, <1>6, <2>1, <2>4, <2>5, <2>6, <2>7, <3>1, PoolPushMoves DEF p
  <2>8. CASE Pool!Bound(row, x) \subseteq {r} /\ row' = [row EXCEPT ![r].ix = x]
    <3> DEFINE rows == [row EXCEPT ![r].ix = x]
    <3>1. x <= lastIx /\ (~ edited => PoolSays(x, row[r].key))
      <4>1. ~ edited => p.rows[r].key = row[r].key /\ p.recs[x].key = p.rows[r].key
        BY <1>2, <1>4, <1>5 DEF PoolPushFits, PoolHasRec
      <4>2. QED
        BY <1>5, <4>1, PoolSaidIds
    <3>2. /\ rows \in PoolTable /\ Pool!Used(rows) = Pool!Used(row) /\ PoolBoundOnce(rows)
          /\ \A s \in Pool!Used(row) : rows[s].key = row[s].key
          /\ ~ edited => PoolKeysOnce(rows)
          /\ \A y \in IxIds, k \in Keys : PoolHasId(rows, y, k)
               => y <= lastIx /\ (~ edited => PoolSays(y, k))
      BY <1>4, <1>5, <2>8, <3>1, PoolBinds
    <3> HIDE DEF rows
    <3>3. PoolPushFits(q, rows, edited)
      BY <1>2, <2>3, <3>2 DEF PoolPushFits, PoolCalling
    <3>4. /\ rec \in PoolListing /\ lastIx \in IxIds \cup {0} /\ edited \in BOOLEAN
          /\ lastIx <= lastIx
      BY PoolTyping, PoolIdsAre
    <3>5. ~ edited => \E f \in [IxIds -> Pushers] : PoolMadeBy(f, rec, [push EXCEPT ![u] = q])
      BY <1>1, <2>4, <2>5, <3>4, PoolMadeKept DEF p
    <3>6. \A y \in IxIds, k \in Keys :
            PoolHasRec(rec, y, k) \/ PoolHasId(rows, y, k)
              \/ (q # None /\ PoolPushSays(q, y, k)) =>
              y <= lastIx /\ (~ edited => PoolSays(y, k))
      BY <2>6, <3>2, PoolSaidIds DEF PoolSays
    <3>7. row' = rows
      BY <2>8 DEF rows
    <3>8. QED
      BY <1>6, <2>1, <2>4, <3>2, <3>3, <3>4, <3>5, <3>6, <3>7, PoolMoves
  <2>9. QED
    BY <2>2, <2>7, <2>8
<1>8. CASE Pool!Bound(row, x) \subseteq {r} /\ ~ p.recs[x].bought
  <2> DEFINE q == PoolRewrites(p, r, x)
             rows == [row EXCEPT ![r].ix = x]
  <2>1. push' = [push EXCEPT ![u] = q] /\ row' = rows
    BY <1>3, <1>8 DEF Pool!Matched, PoolRewrites
  <2>2. /\ q \in Pool!Push /\ q.todo = p.todo \ {r} /\ q.rows = p.rows /\ q.recs = p.recs
        /\ q.call = "update" /\ q.at = r /\ q.ix = x
    <3> HIDE DEF p, x
    <3>1. QED
      BY <1>2, <1>5, PoolRewritesIs
  <2> HIDE DEF p, q, x
  <2>3. PoolPushTyped(q) /\ q \in Pool!Push \cup {None}
    BY <1>2, <1>4, <2>2 DEF PoolPushTyped
  <2>4. \A s \in RowIds : PoolMayCreate(q, s)
          => PoolMayCreate(p, s) /\ p.rows[s].key = q.rows[s].key
    BY <1>1, <2>2, PoolSameRecords DEF PoolMayCreate
  <2>5. \A y \in IxIds, k \in Keys : PoolPushSays(q, y, k) => PoolSays(y, k)
    BY <1>1, <1>2, <2>2 DEF PoolPushSays
  <2>6. x <= lastIx /\ (~ edited => PoolSays(x, row[r].key))
    <3>1. ~ edited => p.rows[r].key = row[r].key /\ p.recs[x].key = p.rows[r].key
      BY <1>2, <1>4, <1>5 DEF PoolPushFits, PoolHasRec
    <3>2. QED
      BY <1>5, <3>1, PoolSaidIds
  <2>7. /\ rows \in PoolTable /\ Pool!Used(rows) = Pool!Used(row) /\ PoolBoundOnce(rows)
        /\ \A s \in Pool!Used(row) : rows[s].key = row[s].key
        /\ ~ edited => PoolKeysOnce(rows)
        /\ \A y \in IxIds, k \in Keys : PoolHasId(rows, y, k)
             => y <= lastIx /\ (~ edited => PoolSays(y, k))
    BY <1>4, <1>5, <1>8, <2>6, PoolBinds
  <2> HIDE DEF rows
  <2>8. PoolPushFits(q, rows, edited)
    <3>1. /\ Pool!Used(q.rows) \subseteq Pool!Used(rows)
          /\ (~ edited => \A s \in Pool!Used(q.rows) : rows[s].key = q.rows[s].key)
      BY <1>2, <2>2, <2>7 DEF PoolPushFits
    <3>2. q.at \in Pool!Used(q.rows) /\ q.at \notin q.todo /\ q.ix \in IxIds /\ q.call = "update"
      BY <1>4, <1>5, <2>2
    <3>3. ~ edited => PoolHasRec(q.recs, q.ix, q.rows[q.at].key)
      BY <1>5, <2>2
    <3>4. QED
      BY <3>1, <3>2, <3>3 DEF PoolPushFits
  <2>9. /\ rec \in PoolListing /\ lastIx \in IxIds \cup {0} /\ edited \in BOOLEAN
        /\ lastIx <= lastIx
    BY PoolTyping, PoolIdsAre
  <2>10. ~ edited => \E f \in [IxIds -> Pushers] : PoolMadeBy(f, rec, [push EXCEPT ![u] = q])
    BY <1>1, <2>3, <2>4, <2>9, PoolMadeKept DEF p
  <2>11. \A y \in IxIds, k \in Keys :
          PoolHasRec(rec, y, k) \/ PoolHasId(rows, y, k) \/ (q # None /\ PoolPushSays(q, y, k)) =>
            y <= lastIx /\ (~ edited => PoolSays(y, k))
    BY <2>5, <2>7, PoolSaidIds DEF PoolSays
  <2>12. QED
    BY <1>6, <2>1, <2>3, <2>7, <2>8, <2>9, <2>10, <2>11, PoolMoves
<1>9. QED
  BY <1>7, <1>8

\* What a call writes.
LEMMA PoolPayloadIs ==
  ASSUME Pool!Constants, PoolIInv, NEW u \in Pushers, push[u] # None, push[u].call \in PoolCalling
  PROVE  /\ Pool!Payload(u) \in Pool!Recs /\ Pool!Payload(u) # None
         /\ Pool!Payload(u).key = push[u].rows[push[u].at].key
<1>1. push[u].at \in Pool!Used(push[u].rows) /\ push[u].rows \in PoolTable
  BY PoolOldPush, PoolPushIs DEF PoolPushFits, PoolPushTyped
<1> DEFINE k == push[u].rows[push[u].at].key
           p == push[u].rows[push[u].at].password
<1>2. k \in Keys /\ p \in Passwords
  BY <1>1, PoolTableIs
<1>3. Pool!Payload(u) = Pool!Rec(k, p, FALSE)
  BY DEF Pool!Payload
<1> HIDE DEF k, p
<1>4. Pool!Payload(u) \in Pool!Recs /\ Pool!Payload(u).key = k
  BY <1>2, <1>3 DEF Pool!Rec, Pool!Recs
<1>5. None \notin Pool!Recs
  BY DEF Pool!Constants
<1>6. QED
  BY <1>4, <1>5 DEF k

\* Updates keeps the invariant.
LEMMA PoolUpdatesKeeps ==
  ASSUME Pool!Constants, PoolIInv, NEW u \in Pushers, Pool!Updates(u)
  PROVE  PoolIInv'
<1> DEFINE p == push[u]
           x == p.ix
           q == PoolUpdated(p)
           w == Pool!Payload(u)
           recs == [rec EXCEPT ![x] = w]
           k == p.rows[p.at].key
<1>1. p # None /\ p.call = "update" /\ x \in Pool!Used(rec)
  BY DEF Pool!Updates
<1>2. /\ p \in Pool!Push /\ PoolPushTyped(p) /\ PoolPushFits(p, row, edited)
      /\ \A y \in IxIds, m \in Keys : PoolPushSays(p, y, m) => PoolSays(y, m)
  BY <1>1, PoolOldPush DEF PoolPushTyped
<1>3. /\ row \in PoolTable /\ rec \in PoolListing /\ lastIx \in IxIds \cup {0}
      /\ edited \in BOOLEAN
      /\ PoolBoundOnce(row) /\ push \in [Pushers -> Pool!Push \cup {None}] /\ lastIx <= lastIx
  BY PoolTyping, PoolIdsAre
<1>4. rec' = recs /\ push' = [push EXCEPT ![u] = q]
  BY <1>3 DEF Pool!Updates, PoolUpdated
<1>5. row' = row /\ lastIx' = lastIx /\ pull' = pull /\ edited' = edited
  BY DEF Pool!Updates
<1>6. w \in Pool!Recs /\ w # None /\ w.key = k
  BY <1>1, PoolPayloadIs DEF PoolCalling
<1>7. /\ q \in Pool!Push /\ q.todo = p.todo /\ q.rows = p.rows /\ q.recs = p.recs
      /\ q.call = "updated" /\ q.at = p.at /\ q.ix = x
  <2> HIDE DEF p
  <2>1. QED
    BY <1>2, PoolUpdatedIs
<1>8. p.at \in Pool!Used(p.rows) /\ x \in IxIds /\ k \in Keys /\ p.at \notin p.todo
  <2>1. p.at \in Pool!Used(p.rows) /\ x \in IxIds /\ p.at \notin p.todo
    BY <1>1, <1>2 DEF PoolPushFits, PoolCalling
  <2>2. p.rows \in PoolTable
    BY <1>2, PoolPushIs
  <2>3. QED
    BY <2>1, <2>2, PoolTableIs
<1>9. ~ edited => PoolSays(x, k) /\ rec[x].key = k
  <2>1. ~ edited => PoolHasRec(p.recs, x, k)
    BY <1>1, <1>2 DEF PoolPushFits
  <2>2. ~ edited => PoolSays(x, k)
    BY <1>1, <1>2, <1>8, <2>1 DEF PoolPushSays
  <2>3. PoolSays(x, rec[x].key) /\ rec[x].key \in Keys
    BY <1>1, <1>3, PoolListingIs DEF PoolSays, PoolHasRec
  <2>4. ~ edited => PoolAgreed
    BY DEF PoolIInv
  <2>5. QED
    BY <1>8, <2>2, <2>3, <2>4 DEF PoolAgreed
<1> HIDE DEF q, w, p, x, k
<1>10. /\ recs \in PoolListing /\ Pool!Used(recs) = Pool!Used(rec) /\ recs[x] = w
       /\ \A y \in IxIds \ {x} : recs[y] = rec[y]
  BY <1>1, <1>3, <1>6, <1>8 DEF PoolListing, Pool!Used
<1> HIDE DEF recs
<1>11. Pool!Used(rec) \in SUBSET IxIds
  BY <1>3, PoolListingIs
<1>12. PoolPushTyped(q) /\ q \in Pool!Push \cup {None} /\ PoolPushFits(q, row, edited)
  <2>1. PoolPushTyped(q)
    BY <1>1, <1>2, <1>7 DEF PoolPushTyped
  <2>2. PoolPushFits(q, row, edited)
    BY <1>1, <1>2, <1>7, <1>8 DEF PoolPushFits
  <2>3. QED
    BY <1>7, <2>1, <2>2
<1>13. \A y \in IxIds, m \in Keys : PoolPushSays(q, y, m) => PoolSays(y, m)
  BY <1>1, <1>2, <1>7 DEF PoolPushSays
<1>14. \A r \in RowIds : PoolMayCreate(q, r)
         => PoolMayCreate(p, r) /\ p.rows[r].key = q.rows[r].key
  BY <1>1, <1>7, PoolSameRecords DEF PoolMayCreate
<1>15. ASSUME NEW y \in IxIds, NEW m \in Keys, PoolHasRec(recs, y, m)
       PROVE  y <= lastIx /\ (~ edited => PoolSays(y, m))
  <2>1. CASE y = x
    <3>1. m = k
      BY <1>6, <1>10, <1>15, <2>1 DEF PoolHasRec
    <3>2. PoolSays(x, rec[x].key) /\ rec[x].key \in Keys
      BY <1>1, <1>3, PoolListingIs DEF PoolSays, PoolHasRec
    <3>3. QED
      BY <1>9, <2>1, <3>1, <3>2, PoolSaidIds
  <2>2. CASE y # x
    <3>1. PoolHasRec(rec, y, m)
      BY <1>10, <1>15, <2>2 DEF PoolHasRec
    <3>2. QED
      BY <3>1, PoolSaidIds DEF PoolSays
  <2>3. QED
    BY <2>1, <2>2
<1>16. \A y \in IxIds, m \in Keys :
         PoolHasRec(recs, y, m) \/ PoolHasId(row, y, m) \/ (q # None /\ PoolPushSays(q, y, m)) =>
           y <= lastIx /\ (~ edited => PoolSays(y, m))
  BY <1>13, <1>15, PoolSaidIds DEF PoolSays
<1>17. ~ edited => \A y \in Pool!Used(recs) : y \in Pool!Used(rec) /\ recs[y].key = rec[y].key
  BY <1>6, <1>9, <1>10, <1>11
<1>18. ~ edited => \E f \in [IxIds -> Pushers] : PoolMadeBy(f, recs, [push EXCEPT ![u] = q])
  BY <1>1, <1>10, <1>12, <1>14, <1>17, PoolMadeKept DEF p
<1>19. ~ edited => PoolKeysOnce(row)
  BY DEF PoolIInv
<1>20. QED
  BY <1>3, <1>4, <1>5, <1>10, <1>12, <1>16, <1>18, <1>19, PoolMoves

\* Creates keeps the invariant.
LEMMA PoolCreatesKeeps ==
  ASSUME Pool!Constants, PoolIInv, NEW u \in Pushers, Pool!Creates(u)
  PROVE  PoolIInv'
<1> DEFINE p == push[u]
           x == lastIx + 1
           q == PoolCreated(p, x)
           w == Pool!Payload(u)
           recs == [rec EXCEPT ![x] = w]
           k == p.rows[p.at].key
           pushes == [push EXCEPT ![u] = q]
<1>1. p # None /\ p.call = "create" /\ x \in IxIds
  BY DEF Pool!Creates
<1>2. /\ p \in Pool!Push /\ PoolPushTyped(p) /\ PoolPushFits(p, row, edited)
      /\ \A y \in IxIds, m \in Keys : PoolPushSays(p, y, m) => PoolSays(y, m)
  BY <1>1, PoolOldPush DEF PoolPushTyped
<1>3. /\ row \in PoolTable /\ rec \in PoolListing /\ lastIx \in IxIds \cup {0}
      /\ edited \in BOOLEAN
      /\ PoolBoundOnce(row) /\ push \in [Pushers -> Pool!Push \cup {None}]
  BY PoolTyping
<1>4. lastIx' = x /\ rec' = recs /\ push' = pushes
  BY <1>3 DEF Pool!Creates, PoolCreated
<1>5. row' = row /\ pull' = pull /\ edited' = edited
  BY DEF Pool!Creates
<1>6. w \in Pool!Recs /\ w # None /\ w.key = k
  BY <1>1, PoolPayloadIs DEF PoolCalling
<1>7. lastIx \in Int /\ x > lastIx /\ lastIx <= x /\ ~ (x <= lastIx) /\ \A y \in IxIds : y \in Int
  BY <1>3, PoolIdsAre
<1> HIDE DEF x
<1>8. /\ q \in Pool!Push /\ q.todo = p.todo /\ q.rows = p.rows /\ q.recs = p.recs
      /\ q.call = "created" /\ q.at = p.at /\ q.ix = x
  <2> HIDE DEF p
  <2>1. QED
    BY <1>1, <1>2, PoolCreatedIs
<1>9. /\ p.at \in Pool!Used(p.rows) /\ k \in Keys /\ p.at \notin p.todo
      /\ Pool!RecordsOf(p, p.at) = {}
  <2>1. p.at \in Pool!Used(p.rows) /\ p.at \notin p.todo /\ Pool!RecordsOf(p, p.at) = {}
    BY <1>1, <1>2 DEF PoolPushFits, PoolCalling
  <2>2. p.rows \in PoolTable
    BY <1>2, PoolPushIs
  <2>3. QED
    BY <2>1, <2>2, PoolTableIs
<1> HIDE DEF q, w, p, k
<1>10. pushes[u] = q /\ \A v \in Pushers : v # u => pushes[v] = push[v]
  BY <1>3
<1> HIDE DEF pushes
<1>11. /\ recs \in PoolListing /\ Pool!Used(recs) = Pool!Used(rec) \cup {x} /\ recs[x] = w
       /\ \A y \in IxIds \ {x} : recs[y] = rec[y]
  BY <1>1, <1>3, <1>6 DEF PoolListing, Pool!Used
<1> HIDE DEF recs
<1>12. Pool!Used(rec) \in SUBSET IxIds /\ x \notin Pool!Used(rec)
  <2>1. Pool!Used(rec) \in SUBSET IxIds
    BY <1>3, PoolListingIs
  <2>2. ASSUME x \in Pool!Used(rec)
        PROVE  FALSE
    <3>1. PoolSays(x, rec[x].key) /\ rec[x].key \in Keys
      BY <1>3, <2>2, PoolListingIs DEF PoolSays, PoolHasRec
    <3>2. QED
      BY <1>1, <1>7, <3>1, PoolSaidIds
  <2>3. QED
    BY <2>1, <2>2
<1>13. PoolPushTyped(q) /\ q \in Pool!Push \cup {None} /\ PoolPushFits(q, row, edited)
  <2>1. PoolPushTyped(q)
    BY <1>1, <1>2, <1>8 DEF PoolPushTyped
  <2>2. PoolPushFits(q, row, edited)
    BY <1>1, <1>2, <1>8, <1>9 DEF PoolPushFits
  <2>3. QED
    BY <1>8, <2>1, <2>2
<1>14. ASSUME NEW y \in IxIds, NEW m \in Keys, PoolPushSays(q, y, m)
       PROVE  PoolSays(y, m) \/ (y = x /\ m = k)
  <2>1. PoolPushSays(p, y, m) \/ (y = x /\ m = k)
    BY <1>1, <1>8, <1>14 DEF PoolPushSays, k
  <2>2. QED
    BY <1>2, <2>1
<1>15. ASSUME NEW y \in IxIds, NEW m \in Keys, PoolHasRec(recs, y, m)
       PROVE  PoolSays(y, m) \/ (y = x /\ m = k)
  <2>1. CASE y = x
    BY <1>6, <1>11, <1>15, <2>1 DEF PoolHasRec
  <2>2. CASE y # x
    <3>1. PoolHasRec(rec, y, m)
      BY <1>11, <1>15, <2>2 DEF PoolHasRec
    <3>2. QED
      BY <3>1 DEF PoolSays
  <2>3. QED
    BY <2>1, <2>2
<1>16. ASSUME NEW y \in IxIds, NEW m \in Keys,
              PoolHasRec(recs, y, m) \/ PoolHasId(row, y, m)
                \/ (q # None /\ PoolPushSays(q, y, m))
       PROVE  y <= x /\ (~ edited => PoolSays(y, m) \/ (y > lastIx /\ m = k))
  <2>1. PoolSays(y, m) \/ (y = x /\ m = k)
    BY <1>14, <1>15, <1>16 DEF PoolSays
  <2>2. CASE PoolSays(y, m)
    <3>1. y <= lastIx
      BY <2>2, PoolSaidIds
    <3>2. x \in Int
      BY <1>1, <1>7
    <3>3. QED
      BY <1>7, <2>2, <3>1, <3>2
  <2>3. CASE y = x /\ m = k
    BY <1>1, <1>7, <2>3
  <2>4. QED
    BY <2>1, <2>2, <2>3
<1>17. ASSUME ~ edited
       PROVE  \E f \in [IxIds -> Pushers] : PoolMadeBy(f, recs, pushes)
  <2>1. PICK f \in [IxIds -> Pushers] : PoolMadeBy(f, rec, push)
    BY <1>17 DEF PoolIInv
  <2> DEFINE g == [f EXCEPT ![x] = u]
  <2>2. g \in [IxIds -> Pushers] /\ g[x] = u /\ \A y \in IxIds : y # x => g[y] = f[y]
    BY <1>1
  <2> HIDE DEF g
  <2>3. PoolMayCreate(p, p.at)
    BY <1>1, <1>9 DEF PoolMayCreate
  <2>4. \A y \in Pool!Used(rec) : f[y] = u => rec[y].key # k
    <3>1. p.at \in RowIds
      BY <1>2, <1>9, PoolPushIs, PoolTableIs
    <3>2. QED
      BY <1>1, <2>1, <2>3, <3>1 DEF PoolMadeBy, p, k
  <2>5. ASSUME NEW y \in Pool!Used(recs), NEW z \in Pool!Used(recs), recs[y].key = recs[z].key,
               g[y] = g[z]
        PROVE  y = z
    <3>1. CASE y # x /\ z # x
      BY <1>11, <1>12, <2>1, <2>2, <2>5, <3>1 DEF PoolMadeBy
    <3>2. CASE y = x /\ z # x
      BY <1>6, <1>11, <1>12, <2>2, <2>4, <2>5, <3>2
    <3>3. CASE y # x /\ z = x
      BY <1>6, <1>11, <1>12, <2>2, <2>4, <2>5, <3>3
    <3>4. QED
      BY <3>1, <3>2, <3>3
  <2>6. ASSUME NEW v \in Pushers, NEW r \in RowIds, pushes[v] # None, PoolMayCreate(pushes[v], r),
               NEW y \in Pool!Used(recs), g[y] = v
        PROVE  recs[y].key # pushes[v].rows[r].key
    <3>1. CASE v # u
      <4>1. y # x /\ y \in Pool!Used(rec) /\ f[y] = v /\ recs[y] = rec[y]
        BY <1>11, <1>12, <2>2, <2>6, <3>1
      <4>2. QED
        BY <1>10, <2>1, <2>6, <3>1, <4>1 DEF PoolMadeBy
    <3>2. CASE v = u
      <4>1. PoolMayCreate(p, r) /\ r \in p.todo /\ r \in Pool!Used(p.rows)
        BY <1>1, <1>8, <1>10, <2>6, <3>2, PoolSameRecords DEF PoolMayCreate
      <4>2. CASE y # x
        <5>1. y \in Pool!Used(rec) /\ f[y] = u /\ recs[y] = rec[y]
          BY <1>11, <1>12, <2>2, <2>6, <3>2, <4>2
        <5>2. rec[y].key # p.rows[r].key
          BY <1>1, <2>1, <4>1, <5>1 DEF PoolMadeBy, p
        <5>3. QED
          BY <1>8, <1>10, <3>2, <5>1, <5>2
      <4>3. CASE y = x
        <5>1. r # p.at /\ PoolKeysOnce(row)
          BY <1>9, <1>17, <4>1 DEF PoolIInv
        <5>2. /\ r \in Pool!Used(row) /\ p.at \in Pool!Used(row) /\ row[r].key = p.rows[r].key
              /\ row[p.at].key = k
          BY <1>2, <1>9, <1>17, <4>1 DEF PoolPushFits, k
        <5>3. p.rows[r].key # k
          BY <5>1, <5>2 DEF PoolKeysOnce
        <5>4. QED
          BY <1>6, <1>8, <1>10, <1>11, <3>2, <4>3, <5>3
      <4>4. QED
        BY <4>2, <4>3
    <3>3. QED
      BY <3>1, <3>2
  <2>7. PoolMadeBy(g, recs, pushes)
    BY <2>5, <2>6 DEF PoolMadeBy
  <2>8. QED
    BY <2>2, <2>7
<1>18. ~ edited => PoolKeysOnce(row)
  BY DEF PoolIInv
<1>19. x \in IxIds \cup {0}
  BY <1>1
<1>20. \A y \in IxIds, m \in Keys :
         PoolHasRec(recs, y, m) \/ PoolHasId(row, y, m) \/ (q # None /\ PoolPushSays(q, y, m)) =>
           /\ y <= x
           /\ ~ edited' => PoolSays(y, m) \/ (y > lastIx /\ m = q.rows[q.at].key)
  BY <1>5, <1>8, <1>16 DEF k
<1>21. push' = [push EXCEPT ![u] = q]
  BY <1>4 DEF pushes
<1>22. ~ edited' => \E f \in [IxIds -> Pushers] : PoolMadeBy(f, recs, [push EXCEPT ![u] = q])
  BY <1>5, <1>17 DEF pushes
<1>23. /\ pull' \in {pull, rec, None} /\ edited' \in BOOLEAN /\ (edited => edited')
       /\ ~ edited' => PoolKeysOnce(row) /\ \A r \in Pool!Used(row) : row[r].key = row[r].key
       /\ q # None => PoolPushTyped(q) /\ PoolPushFits(q, row, edited')
  BY <1>3, <1>5, <1>13, <1>18
<1>24. QED
  <2>1. /\ row' = row /\ rec' = recs /\ lastIx' = x /\ lastIx <= x /\ row \in PoolTable
        /\ recs \in PoolListing
        /\ PoolBoundOnce(row) /\ Pool!Used(row) \subseteq Pool!Used(row)
        /\ q \in Pool!Push \cup {None}
    BY <1>3, <1>4, <1>5, <1>7, <1>11, <1>13
  <2>2. QED
    BY <1>19, <1>20, <1>21, <1>22, <1>23, <2>1, PoolMoves

\* Answered keeps the invariant.
LEMMA PoolAnsweredKeeps ==
  ASSUME Pool!Constants, PoolIInv, NEW u \in Pushers, Pool!Answered(u)
  PROVE  PoolIInv'
<1> DEFINE p == push[u]
           q == PoolRests(p)
           r == p.at
           x == p.ix
<1>1. p # None /\ p.call \in {"updated", "created"}
  BY DEF Pool!Answered
<1>2. /\ p \in Pool!Push /\ PoolPushTyped(p) /\ PoolPushFits(p, row, edited)
      /\ \A y \in IxIds, m \in Keys : PoolPushSays(p, y, m) => PoolSays(y, m)
  BY <1>1, PoolOldPush DEF PoolPushTyped
<1>3. push \in [Pushers -> Pool!Push \cup {None}]
  BY PoolTyping
<1>4. push' = [push EXCEPT ![u] = q]
  BY <1>3 DEF Pool!Answered, PoolRests
<1>5. rec' = rec /\ lastIx' = lastIx /\ pull' = pull /\ edited' = edited
  BY DEF Pool!Answered
<1>6. \/ row' = row
      \/ /\ p.call = "created" /\ Pool!Bound(row, x) \subseteq {r}
         /\ row' = [row EXCEPT ![r].ix = x]
  BY DEF Pool!Answered
<1>7. /\ q \in Pool!Push /\ q.todo = p.todo /\ q.rows = p.rows /\ q.recs = p.recs
      /\ q.call = "next"
  <2> HIDE DEF p
  <2>1. QED
    BY <1>2, PoolRestsIs
<1> HIDE DEF q
<1>8. PoolPushTyped(q) /\ q \in Pool!Push \cup {None}
  BY <1>1, <1>2, <1>7 DEF PoolPushTyped
<1>9. \A y \in IxIds, m \in Keys : PoolPushSays(q, y, m) => PoolSays(y, m)
  BY <1>1, <1>2, <1>7 DEF PoolPushSays
<1>10. \A s \in RowIds : PoolMayCreate(q, s)
         => PoolMayCreate(p, s) /\ p.rows[s].key = q.rows[s].key
  BY <1>1, <1>7, PoolSameRecords DEF PoolMayCreate
<1>11. CASE row' = row
  <2>1. PoolPushFits(q, row, edited)
    BY <1>2, <1>7 DEF PoolPushFits, PoolCalling
  <2>2. QED
    BY <1>1, <1>4, <1>5, <1>8, <1>9, <1>10, <1>11, <2>1, PoolPushMoves
<1>12. CASE p.call = "created" /\ Pool!Bound(row, x) \subseteq {r}
            /\ row' = [row EXCEPT ![r].ix = x]
  <2> DEFINE rows == [row EXCEPT ![r].ix = x]
  <2>1. r \in Pool!Used(p.rows) /\ r \in Pool!Used(row) /\ x \in IxIds /\ p.rows[r].key \in Keys
    <3>1. r \in Pool!Used(p.rows) /\ r \in Pool!Used(row) /\ x \in IxIds
      BY <1>2, <1>12 DEF PoolPushFits, PoolCalling
    <3>2. p.rows \in PoolTable
      BY <1>2, PoolPushIs
    <3>3. QED
      BY <3>1, <3>2, PoolTableIs
  <2>2. PoolSays(x, p.rows[r].key) /\ (~ edited => row[r].key = p.rows[r].key)
    <3>1. PoolPushSays(p, x, p.rows[r].key)
      BY <1>12 DEF PoolPushSays
    <3>2. QED
      BY <1>2, <2>1, <3>1 DEF PoolPushFits
  <2>3. x <= lastIx /\ (~ edited => PoolSays(x, row[r].key))
    BY <2>1, <2>2, PoolSaidIds
  <2> HIDE DEF r, x
  <2>4. /\ rows \in PoolTable /\ Pool!Used(rows) = Pool!Used(row) /\ PoolBoundOnce(rows)
        /\ \A s \in Pool!Used(row) : rows[s].key = row[s].key
        /\ ~ edited => PoolKeysOnce(rows)
        /\ \A y \in IxIds, k \in Keys : PoolHasId(rows, y, k)
             => y <= lastIx /\ (~ edited => PoolSays(y, k))
    BY <1>12, <2>1, <2>3, PoolBinds
  <2>5. row' = rows
    BY <1>12
  <2> HIDE DEF rows
  <2>6. PoolPushFits(q, rows, edited)
    BY <1>2, <1>7, <2>4 DEF PoolPushFits, PoolCalling
  <2>7. /\ rec \in PoolListing /\ lastIx \in IxIds \cup {0} /\ edited \in BOOLEAN
        /\ lastIx <= lastIx
    BY PoolTyping, PoolIdsAre
  <2>8. ~ edited => \E f \in [IxIds -> Pushers] : PoolMadeBy(f, rec, [push EXCEPT ![u] = q])
    BY <1>1, <1>8, <1>10, <2>7, PoolMadeKept
  <2>9. \A y \in IxIds, k \in Keys :
          PoolHasRec(rec, y, k) \/ PoolHasId(rows, y, k) \/ (q # None /\ PoolPushSays(q, y, k)) =>
            y <= lastIx /\ (~ edited => PoolSays(y, k))
    BY <1>9, <2>4, PoolSaidIds DEF PoolSays
  <2>10. QED
    BY <1>4, <1>5, <1>8, <2>4, <2>5, <2>6, <2>7, <2>8, <2>9, PoolMoves
<1>13. QED
  BY <1>6, <1>11, <1>12

-----------------------------------------------------------------------------
(* A pull, record by record *)

\* The step of Pulled.
PoolStepped(g, i) ==
  IF i = 0 THEN row
  ELSE IF pull[i] # None
    THEN [g[i - 1] EXCEPT ![Pool!RowOf(g[i - 1], i, pull[i])]
      = Pool!Row(pull[i].key, pull[i].password, i)]
    ELSE g[i - 1]

PoolSteppedTo(g, n) ==
  /\ g = [i \in IxIds \cup {0} |-> g[i]]
  /\ \A i \in IxIds \cup {0} : i <= n => g[i] = PoolStepped(g, i)

\* The table after the first i records of a pull.
LEMMA PoolPulledIs ==
  ASSUME Pool!Constants
  PROVE  \A i \in IxIds \cup {0} : Pool!Pulled[i] = PoolStepped(Pool!Pulled, i)
<1> DEFINE N == {n \in Nat : \E g : PoolSteppedTo(g, n)}
           c == Pool!Cardinality(IxIds)
<1>1. c \in Nat /\ IxIds = 1 .. c
  BY PoolSets, FS_CardinalityType DEF Pool!Constants
<1>2. 0 \in N
  <2> DEFINE g == [i \in IxIds \cup {0} |-> row]
  <2>1. ASSUME NEW i \in IxIds \cup {0}, i <= 0
        PROVE  i = 0
    <3> HIDE DEF c
    <3> QED
      BY <1>1, <2>1
  <2>2. PoolSteppedTo(g, 0)
    BY <2>1 DEF PoolSteppedTo, PoolStepped
  <2>3. QED
    <3> HIDE DEF g
    <3> QED
      BY <2>2
<1>3. ASSUME NEW n \in N
      PROVE  n + 1 \in N
  <2>1. PICK g : PoolSteppedTo(g, n)
    OBVIOUS
  <2> DEFINE h == [i \in IxIds \cup {0} |-> PoolStepped(g, i)]
  <2>2. h = [i \in IxIds \cup {0} |-> h[i]] /\ \A i \in IxIds \cup {0} : h[i] = PoolStepped(g, i)
    OBVIOUS
  <2> HIDE DEF h, c
  <2>3. ASSUME NEW i \in IxIds \cup {0}, i <= n + 1
        PROVE  h[i] = PoolStepped(h, i)
    <3>1. CASE i = 0
      BY <2>2, <3>1 DEF PoolStepped
    <3>2. CASE i # 0
      <4>1. i - 1 \in IxIds \cup {0} /\ i - 1 <= n
        BY <1>1, <2>3, <3>2
      <4>2. h[i - 1] = g[i - 1]
        BY <2>1, <2>2, <4>1 DEF PoolSteppedTo
      <4>3. PoolStepped(h, i) = PoolStepped(g, i)
        BY <3>2, <4>2 DEF PoolStepped
      <4>4. QED
        BY <2>2, <4>3
    <3>3. QED
      BY <3>1, <3>2
  <2>4. PoolSteppedTo(h, n + 1)
    BY <2>2, <2>3 DEF PoolSteppedTo
  <2>5. QED
    BY <2>4
<1>4. N = Nat
  <2>1. N \in SUBSET Nat
    OBVIOUS
  <2> HIDE DEF N
  <2>2. QED
    BY <1>2, <1>3, <2>1, AllNaturals
<1>5. PICK g : PoolSteppedTo(g, c)
  <2> HIDE DEF c
  <2>1. c \in N
    BY <1>1, <1>4
  <2>2. QED
    BY <2>1
<1>6. \A i \in IxIds \cup {0} : i <= c
  <2> HIDE DEF c
  <2> QED
    BY <1>1
<1>7. \A i \in IxIds \cup {0} : g[i] = PoolStepped(g, i)
  BY <1>5, <1>6 DEF PoolSteppedTo
<1> DEFINE Eq(f) == f = [i \in IxIds \cup {0} |->
                         IF i = 0 THEN row
                         ELSE IF pull[i] # None
                           THEN [f[i - 1] EXCEPT ![Pool!RowOf(f[i - 1], i, pull[i])]
                             = Pool!Row(pull[i].key, pull[i].password, i)]
                           ELSE f[i - 1]]
<1>8. Eq(g)
  <2>1. g = [i \in IxIds \cup {0} |-> g[i]]
    BY <1>5 DEF PoolSteppedTo
  <2>2. g = [i \in IxIds \cup {0} |-> PoolStepped(g, i)]
    BY <1>7, <2>1
  <2>3. QED
    BY <2>2 DEF PoolStepped
<1>9. Pool!Pulled = CHOOSE f : Eq(f)
  BY DEF Pool!Pulled
<1>10. Eq(Pool!Pulled)
  <2> HIDE DEF Eq
  <2> QED
    BY <1>8, <1>9
<1>11. QED
  BY <1>10 DEF PoolStepped

PoolAfter(i) == {j \in Pool!Used(pull) : j > i}

\* What holds of the table when the records up to i are written.
PoolTabOK(t, i) ==
  /\ t \in PoolTable /\ PoolBoundOnce(t) /\ Pool!Used(row) \subseteq Pool!Used(t)
  /\ Pool!Cardinality(PoolAfter(i)) <= Pool!Cardinality(Pool!NewIds(t))
  /\ \A x \in IxIds, k \in Keys : PoolHasId(t, x, k) => x <= lastIx
  /\ ~ edited => /\ PoolKeysOnce(t) /\ \A r \in Pool!Used(row) : t[r].key = row[r].key
                 /\ \A x \in IxIds, k \in Keys : PoolHasId(t, x, k) => PoolSays(x, k)

\* The ids that are not used yet are finitely many.
LEMMA PoolNewIdsAre ==
  ASSUME Pool!Constants, NEW t \in PoolTable
  PROVE  /\ Pool!NewIds(t) = RowIds \ Pool!Used(t) /\ Pool!IsFiniteSet(Pool!NewIds(t))
         /\ Pool!Cardinality(Pool!NewIds(t)) \in Nat
         /\ Pool!NewIds(t) \in SUBSET Nat
<1>1. Pool!NewIds(t) = RowIds \ Pool!Used(t) /\ Pool!NewIds(t) \subseteq RowIds
  BY DEF Pool!NewIds, PoolTable
<1>2. Pool!IsFiniteSet(Pool!NewIds(t))
  BY <1>1, PoolIdsAre, PoolSets, FS_Subset
<1>3. QED
  BY <1>1, <1>2, PoolIdsAre, PoolSets, FS_CardinalityType

\* One record less is left to pull.
LEMMA PoolAfterIs ==
  ASSUME Pool!Constants, PoolIInv, pull # None, NEW i \in IxIds
  PROVE  /\ Pool!IsFiniteSet(PoolAfter(i - 1)) /\ Pool!Cardinality(PoolAfter(i - 1)) \in Nat
         /\ i \notin Pool!Used(pull) => PoolAfter(i) = PoolAfter(i - 1)
         /\ i \in Pool!Used(pull) => /\ i \in PoolAfter(i - 1)
                                     /\ Pool!Cardinality(PoolAfter(i))
                                          = Pool!Cardinality(PoolAfter(i - 1)) - 1
<1>1. Pool!Used(pull) \in SUBSET IxIds
  BY PoolTyping, PoolListingIs
<1>2. IxIds \in SUBSET Nat /\ Pool!IsFiniteSet(IxIds)
  BY PoolIdsAre
<1>3. \A j \in Pool!Used(pull) : (j > i - 1) <=> (j > i \/ j = i)
  <2>1. ASSUME NEW j \in Pool!Used(pull)
        PROVE  (j > i - 1) <=> (j > i \/ j = i)
    <3>1. j \in Nat /\ i \in Nat
      BY <1>1, <1>2
    <3>2. QED
      BY <3>1
  <2>2. QED
    BY <2>1
<1>4. Pool!IsFiniteSet(PoolAfter(i - 1))
  BY <1>1, <1>2, PoolSets, FS_Subset DEF PoolAfter
<1>5. ~ (i > i)
  BY <1>2
<1>6. i \notin Pool!Used(pull) => PoolAfter(i) = PoolAfter(i - 1)
  BY <1>3 DEF PoolAfter
<1>7. i \in Pool!Used(pull) => i \in PoolAfter(i - 1) /\ PoolAfter(i) = PoolAfter(i - 1) \ {i}
  BY <1>3, <1>5 DEF PoolAfter
<1>8. QED
  BY <1>4, <1>6, <1>7, PoolSets, FS_RemoveElement, FS_CardinalityType

\* One record is pulled into the table.
LEMMA PoolPullStep ==
  ASSUME Pool!Constants, PoolIInv, pull # None, NEW i \in Pool!Used(pull), NEW t,
         PoolTabOK(t, i - 1)
  PROVE  PoolTabOK([t EXCEPT ![Pool!RowOf(t, i, pull[i])]
         = Pool!Row(pull[i].key, pull[i].password, i)], i)
<1> DEFINE k == pull[i].key
           w == Pool!Row(k, pull[i].password, i)
           r == Pool!RowOf(t, i, pull[i])
           s == [t EXCEPT ![r] = w]
<1>1. /\ t \in PoolTable /\ PoolBoundOnce(t) /\ Pool!Used(row) \subseteq Pool!Used(t)
      /\ Pool!Cardinality(PoolAfter(i - 1)) <= Pool!Cardinality(Pool!NewIds(t))
      /\ \A x \in IxIds, m \in Keys : PoolHasId(t, x, m) => x <= lastIx
  BY DEF PoolTabOK
<1>2. ~ edited => /\ PoolKeysOnce(t) /\ \A q \in Pool!Used(row) : t[q].key = row[q].key
                  /\ \A x \in IxIds, m \in Keys : PoolHasId(t, x, m) => PoolSays(x, m)
  BY DEF PoolTabOK
<1>3. pull \in PoolListing /\ i \in IxIds /\ k \in Keys /\ pull[i].password \in Passwords
  BY PoolTyping, PoolListingIs
<1>4. w \in Pool!Rows /\ w.key = k /\ w.ix = i
  BY <1>3 DEF Pool!Row, Pool!Rows
<1>5. PoolSays(i, k) /\ i <= lastIx
  <2>1. PoolSays(i, k)
    BY DEF PoolSays, PoolHasRec
  <2>2. QED
    BY <1>3, <2>1, PoolSaidIds
<1>6. /\ Pool!Cardinality(PoolAfter(i - 1)) \in Nat
      /\ Pool!Cardinality(PoolAfter(i)) = Pool!Cardinality(PoolAfter(i - 1)) - 1
      /\ PoolAfter(i - 1) # {} /\ Pool!IsFiniteSet(PoolAfter(i - 1))
  BY <1>3, PoolAfterIs
<1>7. /\ Pool!NewIds(t) = RowIds \ Pool!Used(t) /\ Pool!IsFiniteSet(Pool!NewIds(t))
      /\ Pool!Cardinality(Pool!NewIds(t)) \in Nat
      /\ Pool!NewIds(t) \in SUBSET Nat
  BY <1>1, PoolNewIdsAre
<1>8. Pool!NewIds(t) # {}
  <2>1. Pool!Cardinality(PoolAfter(i - 1)) # 0
    BY <1>6, PoolSets, FS_EmptySet
  <2>2. Pool!Cardinality(Pool!NewIds(t)) # 0
    BY <1>1, <1>6, <1>7, <2>1
  <2>3. QED
    BY <2>2, PoolSets, FS_EmptySet
<1>9. Pool!Used(t) \in SUBSET RowIds /\ RowIds \in SUBSET Nat
        /\ \A q \in Pool!Used(t) : t[q].key \in Keys
  BY <1>1, PoolTableIs, PoolIdsAre
<1>10. \/ r \in Pool!Bound(t, i)
       \/ Pool!Bound(t, i) = {} /\ r \in Pool!ByKey(t, k)
       \/ Pool!Bound(t, i) = {} /\ Pool!ByKey(t, k) = {} /\ r \in Pool!NewIds(t)
  <2>1. Pool!Bound(t, i) \in SUBSET Nat /\ Pool!ByKey(t, k) \in SUBSET Nat
    BY <1>9 DEF Pool!Bound, Pool!ByKey
  <2>2. CASE Pool!Bound(t, i) # {}
    <3>1. r = Pool!Min(Pool!Bound(t, i))
      BY <2>2 DEF Pool!RowOf
    <3>2. QED
      BY <2>1, <2>2, <3>1, PoolMinIs
  <2>3. CASE Pool!Bound(t, i) = {} /\ Pool!ByKey(t, k) # {}
    <3>1. r = Pool!Min(Pool!ByKey(t, k))
      BY <2>3 DEF Pool!RowOf
    <3>2. QED
      BY <2>1, <2>3, <3>1, PoolMinIs
  <2>4. CASE Pool!Bound(t, i) = {} /\ Pool!ByKey(t, k) = {}
    <3>1. r = Pool!Min(Pool!NewIds(t))
      BY <2>4 DEF Pool!RowOf
    <3>2. QED
      BY <1>7, <1>8, <2>4, <3>1, PoolMinIs
  <2>5. QED
    BY <2>2, <2>3, <2>4
<1> HIDE DEF r, w
<1>11. r \in RowIds
  BY <1>7, <1>9, <1>10 DEF Pool!Bound, Pool!ByKey
<1>12. s \in PoolTable /\ Pool!Used(s) = Pool!Used(t) \cup {r}
  BY <1>1, <1>4, <1>11, PoolRowIs
<1>13. s[r] = w /\ \A q \in RowIds \ {r} : s[q] = t[q]
  BY <1>1, <1>11 DEF PoolTable
<1> HIDE DEF s
<1>14. \A q \in Pool!Used(t) : q # r => t[q].ix # i
  BY <1>1, <1>3, <1>10, PoolIdsAre DEF Pool!Bound, PoolBoundOnce
<1>15. PoolBoundOnce(s)
  BY <1>1, <1>4, <1>9, <1>12, <1>13, <1>14 DEF PoolBoundOnce
<1>16. Pool!Cardinality(PoolAfter(i)) <= Pool!Cardinality(Pool!NewIds(s))
  <2>1. Pool!NewIds(s) = RowIds \ Pool!Used(s)
    BY <1>12, PoolNewIdsAre
  <2>2. CASE r \in Pool!Used(t)
    <3>1. Pool!NewIds(s) = Pool!NewIds(t)
      BY <1>7, <1>12, <2>1, <2>2
    <3>2. QED
      BY <1>1, <1>6, <1>7, <3>1
  <2>3. CASE r \in Pool!NewIds(t)
    <3>1. Pool!NewIds(s) = Pool!NewIds(t) \ {r}
      BY <1>7, <1>12, <2>1, <2>3
    <3>2. Pool!Cardinality(Pool!NewIds(s)) = Pool!Cardinality(Pool!NewIds(t)) - 1
      BY <1>7, <2>3, <3>1, PoolSets, FS_RemoveElement
    <3>3. QED
      BY <1>1, <1>6, <1>7, <3>2
  <2>4. QED
    BY <1>10, <2>2, <2>3 DEF Pool!Bound, Pool!ByKey
<1>17. ASSUME NEW x \in IxIds, NEW m \in Keys, PoolHasId(s, x, m)
       PROVE  (x = i /\ m = k) \/ PoolHasId(t, x, m)
  <2>1. PICK q \in Pool!Used(s) : x # 0 /\ s[q].ix = x /\ s[q].key = m
    BY <1>17 DEF PoolHasId
  <2>2. QED
    BY <1>4, <1>9, <1>12, <1>13, <2>1 DEF PoolHasId
<1>18. ASSUME ~ edited
       PROVE  /\ PoolKeysOnce(s) /\ \A q \in Pool!Used(row) : s[q].key = row[q].key
              /\ \A x \in IxIds, m \in Keys : PoolHasId(s, x, m) => PoolSays(x, m)
  <2>1. r \in Pool!Used(t) => t[r].key = k
    <3>1. CASE r \in Pool!Bound(t, i)
      <4>1. r \in Pool!Used(t) /\ PoolHasId(t, i, t[r].key) /\ t[r].key \in Keys
        BY <1>3, <1>9, <3>1, PoolIdsAre DEF Pool!Bound, PoolHasId
      <4>2. PoolSays(i, t[r].key) /\ PoolAgreed
        BY <1>2, <1>3, <1>18, <4>1 DEF PoolIInv
      <4>3. QED
        BY <1>3, <1>5, <4>1, <4>2 DEF PoolAgreed
    <3>2. CASE r \in Pool!ByKey(t, k)
      BY <3>2 DEF Pool!ByKey
    <3>3. CASE r \in Pool!NewIds(t)
      BY <1>7, <3>3
    <3>4. QED
      BY <1>10, <3>1, <3>2, <3>3
  <2>2. r \notin Pool!Used(t) => \A q \in Pool!Used(t) : t[q].key # k
    BY <1>10 DEF Pool!Bound, Pool!ByKey
  <2>3. PoolKeysOnce(s)
    <3>1. \A q \in Pool!Used(t) : q # r => t[q].key # k
      BY <1>2, <1>18, <2>1, <2>2 DEF PoolKeysOnce
    <3>2. \A q \in Pool!Used(s) : q = r \/ (q \in Pool!Used(t) /\ q # r /\ s[q] = t[q])
      BY <1>9, <1>12, <1>13
    <3>3. s[r].key = k
      BY <1>4, <1>13
    <3>4. PoolKeysOnce(t)
      BY <1>2, <1>18
    <3> HIDE DEF k
    <3>5. QED
      BY <3>1, <3>2, <3>3, <3>4 DEF PoolKeysOnce
  <2>4. \A q \in Pool!Used(row) : s[q].key = row[q].key
    BY <1>1, <1>2, <1>4, <1>9, <1>13, <1>18, <2>1
  <2>5. \A x \in IxIds, m \in Keys : PoolHasId(s, x, m) => PoolSays(x, m)
    BY <1>2, <1>5, <1>17, <1>18
  <2>6. QED
    BY <2>3, <2>4, <2>5
<1>19. PoolTabOK(s, i)
  BY <1>1, <1>5, <1>12, <1>15, <1>16, <1>17, <1>18 DEF PoolTabOK
<1>20. QED
  BY <1>19 DEF s, r, w

\* PullWrites keeps the invariant.
LEMMA PoolPullWritesKeeps ==
  ASSUME Pool!Constants, PoolIInv, Pool!PullWrites
  PROVE  PoolIInv'
<1> DEFINE c == Pool!Cardinality(IxIds)
           N == {n \in Nat : n \in IxIds \cup {0} => PoolTabOK(Pool!Pulled[n], n)}
<1>1. c \in Nat /\ IxIds = 1 .. c /\ IxIds # {}
  BY PoolSets, FS_CardinalityType DEF Pool!Constants
<1>2. pull # None /\ Pool!Cardinality(Pool!Used(pull)) <= Pool!Cardinality(Pool!NewIds(row))
  BY DEF Pool!PullWrites
<1>3. /\ row \in PoolTable /\ PoolBoundOnce(row) /\ edited \in BOOLEAN
  BY PoolTyping
<1>4. \A x \in IxIds, k \in Keys : PoolHasId(row, x, k) => x <= lastIx /\ PoolSays(x, k)
  BY PoolSaidIds DEF PoolSays
<1>5. 0 \in N
  <2>1. Pool!Pulled[0] = row
    BY PoolPulledIs DEF PoolStepped
  <2>2. Pool!Used(pull) \in SUBSET IxIds
    BY <1>2, PoolTyping, PoolListingIs
  <2>3. \A j \in IxIds : j > 0
    <3> HIDE DEF c
    <3> QED
      BY <1>1
  <2>4. PoolAfter(0) = Pool!Used(pull)
    BY <2>2, <2>3 DEF PoolAfter
  <2>5. PoolTabOK(row, 0)
    BY <1>2, <1>3, <1>4, <2>4 DEF PoolTabOK, PoolIInv
  <2>6. QED
    BY <2>1, <2>5
<1>6. ASSUME NEW n \in N
      PROVE  n + 1 \in N
  <2>1. ASSUME n + 1 \in IxIds \cup {0}
        PROVE  PoolTabOK(Pool!Pulled[n + 1], n + 1)
    <3>1. n \in Nat
      OBVIOUS
    <3>2. n \in IxIds \cup {0} /\ n + 1 \in IxIds /\ n + 1 # 0 /\ n + 1 - 1 = n
      <4> HIDE DEF c, N
      <4> QED
        BY <1>1, <2>1, <3>1
    <3>3. PoolTabOK(Pool!Pulled[n], n)
      BY <3>2
    <3> DEFINE i == n + 1
    <3>4. /\ i \in IxIds /\ i # 0 /\ i - 1 = n
      BY <3>2
    <3> HIDE DEF i, N
    <3>5. Pool!Pulled[i] = PoolStepped(Pool!Pulled, i)
      BY <3>4, PoolPulledIs
    <3>6. CASE i \in Pool!Used(pull)
      <4>1. pull[i] # None
        BY <3>6 DEF Pool!Used
      <4>2. Pool!Pulled[i] = [Pool!Pulled[n] EXCEPT ![Pool!RowOf(Pool!Pulled[n], i, pull[i])]
              = Pool!Row(pull[i].key, pull[i].password, i)]
        BY <3>4, <3>5, <4>1 DEF PoolStepped
      <4>3. PoolTabOK(Pool!Pulled[n], i - 1)
        BY <3>3, <3>4
      <4>4. PoolTabOK([Pool!Pulled[n] EXCEPT ![Pool!RowOf(Pool!Pulled[n], i, pull[i])]
              = Pool!Row(pull[i].key, pull[i].password, i)], i)
        BY <1>2, <3>6, <4>3, PoolPullStep
      <4>5. QED
        BY <4>2, <4>4 DEF i
    <3>7. CASE i \notin Pool!Used(pull)
      <4>1. pull[i] = None
        BY <1>2, <3>4, <3>7, PoolTyping, PoolListingIs
      <4>2. Pool!Pulled[i] = Pool!Pulled[n]
        BY <3>4, <3>5, <4>1 DEF PoolStepped
      <4>3. PoolAfter(i) = PoolAfter(n)
        BY <1>2, <3>4, <3>7, PoolAfterIs
      <4>4. PoolTabOK(Pool!Pulled[n], i)
        BY <3>3, <4>3 DEF PoolTabOK
      <4>5. QED
        BY <4>2, <4>4 DEF i
    <3>8. QED
      BY <3>6, <3>7
  <2>2. QED
    BY <2>1
<1>7. N = Nat
  <2>1. N \in SUBSET Nat
    OBVIOUS
  <2> HIDE DEF N
  <2>2. QED
    BY <1>5, <1>6, <2>1, AllNaturals
<1>8. Pool!Max(IxIds) \in IxIds /\ Pool!Max(IxIds) \in Nat
  <2> HIDE DEF c
  <2>1. Pool!Max(IxIds) \in IxIds
    BY <1>1, PoolMaxIs
  <2>2. QED
    BY <2>1, PoolIdsAre
<1>9. PoolTabOK(Pool!Pulled[Pool!Max(IxIds)], Pool!Max(IxIds))
  BY <1>7, <1>8
<1> DEFINE rows == Pool!Pulled[Pool!Max(IxIds)]
<1>10. /\ row' = rows /\ rec' = rec /\ lastIx' = lastIx /\ push' = push /\ pull' = None
       /\ edited' = edited
  BY DEF Pool!PullWrites
<1> HIDE DEF rows, N, c
<1>11. /\ rows \in PoolTable /\ PoolBoundOnce(rows) /\ Pool!Used(row) \subseteq Pool!Used(rows)
       /\ \A x \in IxIds, k \in Keys : PoolHasId(rows, x, k) => x <= lastIx
       /\ ~ edited => /\ PoolKeysOnce(rows) /\ \A r \in Pool!Used(row) : rows[r].key = row[r].key
                      /\ \A x \in IxIds, k \in Keys : PoolHasId(rows, x, k) => PoolSays(x, k)
  BY <1>9 DEF PoolTabOK, rows
<1>12. QED
  BY <1>3, <1>10, <1>11, PoolRowsMove

-----------------------------------------------------------------------------

\* Every step keeps the invariant.
LEMMA PoolNextIInv ==
  ASSUME Pool!Constants, PoolIInv, Pool!Next
  PROVE  PoolIInv'
<1>1. ASSUME NEW k \in Keys, NEW p \in Passwords, Pool!Import(k, p)
      PROVE  PoolIInv'
  BY <1>1, PoolImportKeeps
<1>2. ASSUME NEW S \in SUBSET RowIds, NEW k \in Keys \cup {None}, NEW p \in Passwords,
             Pool!BatchUpdate(S, k, p) \/ \E u \in Pushers : Pool!BatchUpdateAndPush(u, S, k, p)
      PROVE  PoolIInv'
  BY <1>2, PoolBatchUpdateKeeps, PoolBatchUpdateAndPushKeeps
<1>3. CASE Pool!PullReads \/ Pool!PullFails
  BY <1>3, PoolPullReadsOrFails
<1>4. CASE Pool!PullWrites
  BY <1>4, PoolPullWritesKeeps
<1>5. ASSUME NEW u \in Pushers,
             \/ \E S \in SUBSET RowIds : Pool!PushBegins(u, S)
             \/ \E r \in RowIds : Pool!Missing(u, r) \/ Pool!Matched(u, r)
             \/ Pool!PushLists(u) \/ Pool!Updates(u) \/ Pool!Creates(u) \/ Pool!Answered(u)
                  \/ Pool!CallFails(u)
             \/ Pool!PushEnds(u) \/ Pool!PushBreaks(u)
      PROVE  PoolIInv'
  BY <1>5, PoolPushBeginsKeeps, PoolMissingKeeps, PoolMatchedKeeps, PoolPushListsKeeps,
     PoolUpdatesKeeps, PoolCreatesKeeps,
     PoolAnsweredKeeps, PoolCallFailsKeeps, PoolPushStops
<1>6. ASSUME NEW x \in IxIds, Pool!Removed(x)
      PROVE  PoolIInv'
  BY <1>6, PoolRemovedKeeps
<1>7. QED
  BY <1>1, <1>2, <1>3, <1>4, <1>5, <1>6 DEF Pool!Next

\* A step in which nothing changes keeps the invariant.
LEMMA PoolStaysIInv == ASSUME PoolIInv, UNCHANGED Pool!vars PROVE PoolIInv'
BY DEF PoolIInv, Pool!vars, Pool!TypeOK, PoolIdsGiven, PoolAgreed, PoolSays

\* A key has one row at most, and no more records than there are pushers.
LEMMA PoolSingleFacts ==
  ASSUME Pool!Constants, PoolIInv
  PROVE  Pool!OneRowPerKey /\ Pool!OneRecordPerKey
<1>1. Pool!OneRowPerKey
  BY DEF PoolIInv, Pool!OneRowPerKey, PoolKeysOnce
<1>2. ASSUME ~ edited, NEW k \in Keys
      PROVE  Pool!Cardinality(Pool!ByKey(rec, k)) <= Pool!Cardinality(Pushers)
  <2>1. PICK f \in [IxIds -> Pushers] : PoolMadeBy(f, rec, push)
    BY <1>2 DEF PoolIInv
  <2>2. Pool!ByKey(rec, k) \in SUBSET IxIds
    BY PoolTyping, PoolListingIs DEF Pool!ByKey
  <2> DEFINE S == Pool!ByKey(rec, k)
             g == [x \in S |-> f[x]]
  <2>3. g \in [S -> Pushers]
    BY <2>2
  <2>4. \A x, y \in S : g[x] = g[y] => x = y
    BY <2>1 DEF PoolMadeBy, Pool!ByKey
  <2>5. g \in Injection(S, Pushers)
    <3> HIDE DEF g, S
    <3> QED
      BY <2>3, <2>4 DEF Injection, IsInjective
  <2>6. Pool!IsFiniteSet(Pushers)
    BY DEF Pool!Constants
  <2>7. QED
    <3> HIDE DEF g, S
    <3>1. Pool!Cardinality(S) <= Pool!Cardinality(Pushers)
      BY <2>5, <2>6, PoolSets, FS_Injection
    <3>2. QED
      BY <3>1 DEF S
<1>3. QED
  BY <1>1, <1>2 DEF Pool!OneRecordPerKey

-----------------------------------------------------------------------------
(* All parts: Background *)

\* The part that runs has its inductive invariant.
IInv ==
  /\ part \in Parts
  /\ part = "dispatch" => DispatchIInv
  /\ part = "overload" => OverloadIInv
  /\ part = "scans"    => ScansIInv
  /\ part = "recovery" => RecoveryIInv
  /\ part = "history"  => HistoryIInv
  /\ part = "pool"     => PoolIInv
  /\ part = "groups"   => GroupsIInv
  /\ part = "events"   => EventsIInv
  /\ part = "checks"   => ChecksIInv

\* The invariant holds at first.
LEMMA InitIInv == Init => IInv
BY ConstantsAreRight, DispatchInitIInv, OverloadInitOK, ScansInitIInv, RecoveryInitIInv, HistoryInitIInv,
   PoolInitIInv, GroupsInitIInv, EventsInitIInv, ChecksInitIInv DEF Init, IInv, Parts

\* A step in which nothing changes keeps the invariant.
LEMMA RestingIInv == ASSUME IInv, UNCHANGED vars PROVE IInv'
<1>1. part' = part /\ part \in Parts
  BY DEF vars, IInv
<1>2. CASE part = "dispatch"
  <2>1. UNCHANGED Dispatch!vars
    BY DEF vars, dispatchVars, Dispatch!vars
  <2>2. DispatchIInv'
    BY <1>2, <2>1, ConstantsAreRight, DispatchNextIInv DEF IInv
  <2>3. QED
    BY <1>1, <1>2, <2>2 DEF IInv
<1>3. CASE part = "scans"
  <2>1. UNCHANGED Scans!vars
    BY DEF vars, schedulerVars, scansVars, Scans!vars
  <2>2. ScansIInv'
    BY <1>3, <2>1, ConstantsAreRight, ScansNextIInv DEF IInv
  <2>3. QED
    BY <1>1, <1>3, <2>2 DEF IInv
<1>4. CASE part = "recovery"
  <2>1. UNCHANGED Recovery!vars
    BY DEF vars, schedulerVars, recoveryVars, Recovery!vars
  <2>2. RecoveryIInv'
    BY <1>4, <2>1, ConstantsAreRight, RecoveryNextIInv DEF IInv
  <2>3. QED
    BY <1>1, <1>4, <2>2 DEF IInv
<1>5. CASE part = "history"
  <2>1. UNCHANGED History!vars
    BY DEF vars, historyVars, cacheVars, History!vars
  <2>2. HistoryIInv'
    BY <1>5, <2>1, HistoryStaysIInv DEF IInv
  <2>3. QED
    BY <1>1, <1>5, <2>2 DEF IInv
<1>6. CASE part = "pool"
  <2>1. UNCHANGED Pool!vars
    BY DEF vars, rowVars, poolVars, Pool!vars
  <2>2. PoolIInv'
    BY <1>6, <2>1, PoolStaysIInv DEF IInv
  <2>3. QED
    BY <1>1, <1>6, <2>2 DEF IInv
<1>7. CASE part = "groups"
  <2>1. UNCHANGED Groups!vars
    BY DEF vars, cacheVars, groupsVars, Groups!vars
  <2>2. GroupsIInv'
    BY <1>7, <2>1, ConstantsAreRight, GroupsNextIInv DEF IInv
  <2>3. QED
    BY <1>1, <1>7, <2>2 DEF IInv
<1>8. CASE part = "events"
  <2>1. UNCHANGED Events!vars
    BY DEF vars, eventsVars, Events!vars
  <2>2. EventsIInv'
    BY <1>8, <2>1, EventsStaysIInv DEF IInv
  <2>3. QED
    BY <1>1, <1>8, <2>2 DEF IInv
<1>9. CASE part = "checks"
  <2>1. UNCHANGED Checks!vars
    BY DEF vars, rowVars, checkVars, Checks!vars
  <2>2. ChecksIInv'
    BY <1>9, <2>1, ChecksStaysIInv DEF IInv
  <2>3. QED
    BY <1>1, <1>9, <2>2 DEF IInv
<1>10. CASE part = "overload"
  <2>1. UNCHANGED Overload!vars
    BY DEF vars, retryVars, Overload!vars
  <2>2. OverloadIInv'
    BY <1>10, <2>1, OverloadNextStep DEF IInv
  <2>3. QED
    BY <1>1, <1>10, <2>2 DEF IInv
<1>11. QED
  BY <1>1, <1>2, <1>3, <1>4, <1>5, <1>6, <1>7, <1>8, <1>9, <1>10 DEF Parts

\* Every step keeps the invariant.
LEMMA NextIInv == ASSUME IInv, Next PROVE IInv'
<1>1. part' = part /\ part \in Parts
  BY DEF Next, IInv
<1>2. CASE part = "dispatch" /\ Dispatch!Next
  BY <1>1, <1>2, ConstantsAreRight, DispatchNextIInv DEF IInv
<1>3. CASE part = "scans" /\ Scans!Next
  BY <1>1, <1>3, ConstantsAreRight, ScansNextIInv DEF IInv
<1>4. CASE part = "recovery" /\ Recovery!Next
  BY <1>1, <1>4, ConstantsAreRight, RecoveryNextIInv DEF IInv
<1>5. CASE part = "history" /\ History!Next
  BY <1>1, <1>5, ConstantsAreRight, HistoryNextIInv DEF IInv
<1>6. CASE part = "pool" /\ Pool!Next
  BY <1>1, <1>6, ConstantsAreRight, PoolNextIInv DEF IInv
<1>7. CASE part = "groups" /\ Groups!Next
  BY <1>1, <1>7, ConstantsAreRight, GroupsNextIInv DEF IInv
<1>8. CASE part = "events" /\ Events!Next
  BY <1>1, <1>8, ConstantsAreRight, EventsNextIInv DEF IInv
<1>9. CASE part = "checks" /\ Checks!Next
  BY <1>1, <1>9, ConstantsAreRight, ChecksNextIInv DEF IInv
<1>10. CASE part = "overload" /\ Overload!Next
  BY <1>1, <1>10, OverloadNextStep DEF IInv
<1>11. QED
  BY <1>2, <1>3, <1>4, <1>5, <1>6, <1>7, <1>8, <1>9, <1>10 DEF Next

\* The invariant holds always.
LEMMA AlwaysIInv == Spec => []IInv
<1>1. IInv /\ [Next]_vars => IInv'
  BY RestingIInv, NextIInv
<1>2. QED
  BY <1>1, InitIInv, PTL DEF Spec

-----------------------------------------------------------------------------
(* Theorems *)

\* Every variable of the part that runs keeps its type.
THEOREM TypeCorrect == Spec => []TypeOK
<1>1. ASSUME IInv
      PROVE  TypeOK
  <2>1. /\ part = "dispatch" => Dispatch!TypeOK
        /\ part = "overload" => Overload!TypeOK
        /\ part = "scans"    => Scans!TypeOK
        /\ part = "recovery" => Recovery!TypeOK
        /\ part = "history"  => History!TypeOK
    BY <1>1 DEF IInv, DispatchIInv, OverloadIInv, ScansIInv, RecoveryIInv, HistoryIInv
  <2>2. /\ part = "pool"   => Pool!TypeOK
        /\ part = "groups" => Groups!TypeOK
        /\ part = "events" => Events!TypeOK
        /\ part = "checks" => Checks!TypeOK
    BY <1>1, ConstantsAreRight, GroupsTyped DEF IInv, PoolIInv, EventsIInv, ChecksIInv
  <2>3. QED
    BY <1>1, <2>1, <2>2 DEF IInv, Parts, TypeOK
<1>2. QED
  BY <1>1, AlwaysIInv, PTL

\* Dispatch never chooses an account while it rests after a failure, whatever was cleaned
\* from the log. The jobs it gave an account that wait for their submit, with those about
\* to be inserted, exceed the largest estimate since the first of them came by at most one
\* for each further process, although rows are read and inserted in different transactions.
\* An exhausted account can be chosen again once its release has come. Jobs that Sora has
\* accepted, that a user created or retried by hand are not counted here.
THEOREM PicksAreRightCorrect == Spec => []PicksAreRight
<1>1. IInv => PicksAreRight
  BY ConstantsAreRight, DispatchRemembers, DispatchReopens DEF IInv, PicksAreRight, DispatchIInv
<1>2. QED
  BY <1>1, AlwaysIInv, PTL

\* A loop that looks more often than a slot is long scans no slot twice, whatever other
\* processes do and however often they restart, and misses none for which some process
\* has waited from its beginning. A process that waits for a recovery scan gets it in time.
THEOREM SlotsAreServedOnceCorrect == Spec => []SlotsAreServedOnce
<1>1. IInv => SlotsAreServedOnce
  BY ConstantsAreRight, ScansServed, RecoveryRegular DEF IInv, SlotsAreServedOnce
<1>2. QED
  BY <1>1, AlwaysIInv, PTL

\* There is one realtime run at most, whatever recordings overlap, and dispatch and the
\* accounts page show the same quota, where the page is filled in from older runs.
THEOREM HistoryIsOneCorrect ==
  ASSUME Backfills \subseteq {TRUE}
  PROVE  Spec => []HistoryIsOne
<1>1. IInv => HistoryIsOne
  BY ConstantsAreRight, HistoryHistoryFacts DEF IInv, HistoryIsOne
<1>2. QED
  BY <1>1, AlwaysIInv, PTL

\* As long as nobody edits a row, no two rows of the pool are about one proxy, and
\* ixBrowser has no more records of one than there are pushers, in whatever order they
\* list, update and create and whatever calls fail.
THEOREM ProxiesAreSingleCorrect == Spec => []ProxiesAreSingle
<1>1. IInv => ProxiesAreSingle
  BY ConstantsAreRight, PoolSingleFacts DEF IInv, ProxiesAreSingle
<1>2. QED
  BY <1>1, AlwaysIInv, PTL

\* Nobody is given windows older than the time to live and one call; the marks of a proxy
\* are those of its latest events although old ones are dropped; a success is one of the
\* address that was checked, and one that is given again was recent.
THEOREM ShownIsCurrentCorrect == Spec => []ShownIsCurrent
<1>1. IInv => ShownIsCurrent
  BY ConstantsAreRight, GroupsFresh, EventsShownFacts, ChecksCheckFacts DEF IInv, ShownIsCurrent
<1>2. QED
  BY <1>1, AlwaysIInv, PTL

\* A value heard of one account leaves the estimates of the others alone, even when the
\* recording drops the oldest scan, and only a check that failed takes the success of a
\* proxy away.
THEOREM KnownIsKeptCorrect ==
  ASSUME KeepScans > 1
  PROVE  Spec => KnownIsKept
<1>1. ASSUME IInv, Next
      PROVE  part = "history" =>
               \A p \in Profiles : pending' # pending /\ pending' \subseteq pending
                 /\ scan' = scan
                 /\ (\A h \in pending \ pending' : h.profile # p)
                 => History!Estimate(p)' = History!Estimate(p)
  <2>1. CASE part = "history"
    <3>1. HistoryIInv /\ History!Next
      BY <1>1, <2>1 DEF IInv, Next
    <3>2. QED
      BY <3>1, ConstantsAreRight, HistoryNextLocal
  <2>2. QED
    BY <2>1
<1>2. ASSUME IInv, Next
      PROVE  part = "checks" =>
               \A p \in Checked : row[p].status = "success" /\ row'[p].status # "success" =>
                 \E q \in Procs : check[q][p] # check'[q][p] /\ check'[q][p].pc = "failed"
  <2>1. CASE part = "checks"
    <3>1. ChecksIInv /\ Checks!Next
      BY <1>2, <2>1 DEF IInv, Next
    <3>2. QED
      BY <3>1, ConstantsAreRight, ChecksNextKeeps
  <2>2. QED
    BY <2>1
<1>3. QED
  BY <1>1, <1>2, AlwaysIInv, PTL DEF Spec, KnownIsKept
=============================================================================
