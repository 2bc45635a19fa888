--------------------------- MODULE AccountProofs ---------------------------
(***************************************************************************)
(* Inductive invariants of four parts of the background: the dispatch of   *)
(* accounts, the two schedulers and the quota history. Those of the others *)
(* are in BackgroundProofs, which puts all of them together. The name of a *)
(* definition or lemma begins with the name of the part it is about.       *)
(***************************************************************************)
EXTENDS Background, FiniteSetTheorems, SequenceTheorems, WellFoundedInduction, TLAPS

\* A set of numbers up to n has a largest one.
LEMMA LastExists ==
  ASSUME NEW n \in Nat, NEW I \in SUBSET (1 .. n), NEW y \in I
  PROVE  \E m \in I : \A x \in I : x <= m
<1> DEFINE T == {k \in Nat : \E x \in I : k = n - x}
           R == {p \in Nat \X Nat : p[1] < p[2]}
<1>1. T \subseteq Nat /\ T # {}
  BY n - y \in T
<1>2. \E k \in T : \A j \in T : ~ (<<j, k>> \in OpToRel(<, Nat))
  <2> HIDE DEF T
  <2> QED
    BY <1>1, WFMin, NatLessThanWellFounded, Zenon
<1>3. OpToRel(<, Nat) = R
  BY Zenon DEF OpToRel
<1>4. \A k, j \in Nat : k < j => <<k, j>> \in R
  BY SMT
<1>5. PICK k \in T : \A j \in T : ~ (j < k)
  <2> HIDE DEF T, R
  <2> QED
    BY <1>1, <1>2, <1>3, <1>4, Zenon
<1>6. PICK m \in I : k = n - m
  BY <1>5
<1>7. ASSUME NEW x \in I
      PROVE  x <= m
  <2>1. n - x \in T /\ x \in Int /\ m \in Int
    OBVIOUS
  <2>2. ~ (n - x < n - m)
    <3> HIDE DEF T
    <3> QED
      BY <1>5, <1>6, <2>1
  <2>3. QED
    BY <2>1, <2>2
<1>8. QED
  BY <1>7

-----------------------------------------------------------------------------
(* The dispatch of accounts: AccountDispatch *)

\* Its sets are counted as ours are.
LEMMA DispatchSets ==
  /\ \A S : Dispatch!Cardinality(S) = Cardinality(S)
  /\ \A S : Dispatch!IsFiniteSet(S) <=> IsFiniteSet(S)
BY DEF Dispatch!Cardinality, Cardinality, Dispatch!IsFiniteSet, IsFiniteSet

\* A rest that goes on is written in the log: its failure was one of this account.
DispatchRestIsLogged(a) ==
  rest[a] > now =>
    \E e \in log : e.account = a /\ e.at <= now /\ e.at + Cooldown[e.kind] >= rest[a]

\* No failure calls for a longer rest than the account was told.
DispatchLogIsRest(e) == e.at + Cooldown[e.kind] <= rest[e.account]

\* The peak is no less than what the last reading lets dispatch count on.
DispatchPeakCovers(a) == peak[a] >= Dispatch!Bound(reading[a])

\* The inductive invariant.
DispatchIInv ==
  /\ Dispatch!TypeOK
  /\ \A a \in Accounts : DispatchRestIsLogged(a) /\ DispatchPeakCovers(a)
  /\ \A e \in log : DispatchLogIsRest(e)
  /\ Dispatch!OverbookingIsBounded

\* What the assumptions say of the constants.
LEMMA DispatchFacts ==
  ASSUME Dispatch!Constants
  PROVE  /\ Dispatch!IsFiniteSet(Jobs) /\ Dispatch!IsFiniteSet(Procs)
         /\ Dispatch!Cardinality(Jobs) \in Nat /\ Dispatch!Cardinality(Procs) \in Nat
         /\ None \notin Accounts /\ None \notin Int
         /\ Quota \subseteq Nat /\ Releases \subseteq Nat
         /\ Lookback \in Nat /\ LogSpan \in Nat /\ Grace \in Nat /\ MinRemaining \in Nat
         /\ \A k \in Kinds : /\ Cooldown[k] \in Nat
                             /\ Cooldown[k] <= Lookback /\ Cooldown[k] <= LogSpan
BY DispatchSets, FS_CardinalityType
   DEF Dispatch!Constants, Dispatch!QuotaIsCounted, Dispatch!SpansAreTimes,
       Dispatch!CooldownIsRemembered

\* What is counted are parts of finite sets.
LEMMA DispatchCounted ==
  ASSUME Dispatch!Constants, NEW a \in Accounts
  PROVE  /\ Dispatch!IsFiniteSet(Dispatch!Pending(a))
         /\ Dispatch!IsFiniteSet(Dispatch!AutoPending(a))
         /\ Dispatch!IsFiniteSet(Dispatch!Choosing(a))
         /\ Dispatch!Cardinality(Dispatch!Pending(a)) \in Nat
         /\ Dispatch!Cardinality(Dispatch!AutoPending(a)) \in Nat
         /\ Dispatch!Cardinality(Dispatch!Choosing(a)) \in Nat
         /\ Dispatch!Cardinality(Dispatch!AutoPending(a))
              <= Dispatch!Cardinality(Dispatch!Pending(a))
         /\ Dispatch!Cardinality(Dispatch!Pending(a)) <= Dispatch!Cardinality(Jobs)
         /\ Dispatch!Cardinality(Dispatch!Choosing(a)) <= Dispatch!Cardinality(Procs)
<1>1. /\ Dispatch!Pending(a) \subseteq Jobs
      /\ Dispatch!AutoPending(a) \subseteq Dispatch!Pending(a)
      /\ Dispatch!Choosing(a) \subseteq Procs
  BY DEF Dispatch!Pending, Dispatch!AutoPending, Dispatch!Choosing
<1>2. /\ Dispatch!IsFiniteSet(Dispatch!Pending(a))
      /\ Dispatch!Cardinality(Dispatch!Pending(a)) <= Dispatch!Cardinality(Jobs)
      /\ Dispatch!IsFiniteSet(Dispatch!Choosing(a))
      /\ Dispatch!Cardinality(Dispatch!Choosing(a)) <= Dispatch!Cardinality(Procs)
  BY <1>1, DispatchSets, FS_Subset, DispatchFacts
<1>3. /\ Dispatch!IsFiniteSet(Dispatch!AutoPending(a))
      /\ Dispatch!Cardinality(Dispatch!AutoPending(a))
           <= Dispatch!Cardinality(Dispatch!Pending(a))
  BY <1>1, <1>2, DispatchSets, FS_Subset
<1>4. QED
  BY <1>2, <1>3, DispatchSets, FS_CardinalityType

\* The same after a step.
LEMMA DispatchCountedNext ==
  ASSUME Dispatch!Constants, NEW a \in Accounts
  PROVE  /\ Dispatch!IsFiniteSet(Dispatch!AutoPending(a)')
         /\ Dispatch!IsFiniteSet(Dispatch!Choosing(a)')
         /\ Dispatch!Cardinality(Dispatch!AutoPending(a)') \in Nat
         /\ Dispatch!Cardinality(Dispatch!Choosing(a)') \in Nat
         /\ Dispatch!Cardinality(Dispatch!Choosing(a)') <= Dispatch!Cardinality(Procs)
<1>1. Dispatch!AutoPending(a)' \subseteq Jobs /\ Dispatch!Choosing(a)' \subseteq Procs
  BY DEF Dispatch!Pending, Dispatch!AutoPending, Dispatch!Choosing
<1>2. QED
  BY <1>1, DispatchSets, FS_Subset, FS_CardinalityType, DispatchFacts

\* A bound is a number, positive, and no less than the reading and than one.
LEMMA DispatchBoundIs ==
  ASSUME Dispatch!Constants, NEW r \in Dispatch!Reading
  PROVE  /\ Dispatch!Bound(r) \in Nat /\ Dispatch!Bound(r) >= 1
         /\ r.left = None => Dispatch!Bound(r) = Dispatch!Cardinality(Jobs) + 1
         /\ r.left # None => r.left \in Nat /\ Dispatch!Bound(r) >= r.left
BY DispatchFacts DEF Dispatch!Reading, Dispatch!Bound, Dispatch!Larger

\* The invariant holds at first.
LEMMA DispatchInitIInv ==
  ASSUME Dispatch!Constants
  PROVE  Dispatch!Init => DispatchIInv
<1> SUFFICES ASSUME Dispatch!Init PROVE DispatchIInv
  OBVIOUS
<1>1. reading \in [Accounts -> Dispatch!Reading]
  <2>1. Releases \cup {None} \subseteq Nat \cup {None}
    BY DispatchFacts
  <2>2. [left : Quota \cup {None}, reset : Releases \cup {None}] \subseteq Dispatch!Reading
    BY <2>1 DEF Dispatch!Reading
  <2>3. QED
    BY <2>2 DEF Dispatch!Init
<1>2. \A a \in Accounts : peak[a] = Dispatch!Bound(reading[a]) /\ peak[a] \in Nat /\ peak[a] >= 1
  BY <1>1, DispatchBoundIs DEF Dispatch!Init
<1>3. Dispatch!TypeOK
  <2>1. Dispatch!NoRow \in Dispatch!Row /\ Dispatch!NoRow.status = "absent"
    BY DEF Dispatch!NoRow, Dispatch!Row
  <2>2. peak \in [Accounts -> Nat]
    BY <1>2 DEF Dispatch!Init
  <2>3. QED
    BY <1>1, <2>1, <2>2 DEF Dispatch!Init, Dispatch!TypeOK
<1>4. \A a \in Accounts : DispatchRestIsLogged(a) /\ DispatchPeakCovers(a)
  BY <1>2 DEF Dispatch!Init, DispatchRestIsLogged, DispatchPeakCovers
<1>5. \A e \in log : DispatchLogIsRest(e)
  BY DEF Dispatch!Init
<1>6. ASSUME NEW a \in Accounts
      PROVE  Dispatch!Cardinality(Dispatch!AutoPending(a)) + Dispatch!Cardinality(Dispatch!Choosing(a))
               <= peak[a] + Dispatch!Cardinality(Procs) - 1
  <2>1. Dispatch!AutoPending(a) = {} /\ Dispatch!Choosing(a) = {}
    BY DispatchFacts
       DEF Dispatch!Init, Dispatch!AutoPending, Dispatch!Pending, Dispatch!Choosing,
           Dispatch!NoRow
  <2>2. Dispatch!Cardinality({}) = 0
    BY DispatchSets, FS_EmptySet
  <2>3. QED
    BY <1>2, <2>1, <2>2, DispatchFacts
<1>7. QED
  BY <1>3, <1>4, <1>5, <1>6 DEF DispatchIInv, Dispatch!OverbookingIsBounded

-----------------------------------------------------------------------------
(* What an account is chosen for *)

\* Dispatch gives an account a job only while fewer wait than it might do at most.
LEMMA DispatchChosenHasRoom ==
  ASSUME Dispatch!Constants, DispatchIInv, NEW a \in Accounts, Dispatch!Selectable(a)
  PROVE  Dispatch!Cardinality(Dispatch!AutoPending(a)) <= peak[a] - 1
<1>1. /\ reading[a] \in Dispatch!Reading /\ peak[a] \in Nat /\ DispatchPeakCovers(a)
  BY DEF DispatchIInv, Dispatch!TypeOK
<1>2. /\ Dispatch!Cardinality(Dispatch!AutoPending(a)) \in Nat
      /\ Dispatch!Cardinality(Dispatch!Pending(a)) \in Nat
      /\ Dispatch!Cardinality(Dispatch!AutoPending(a))
           <= Dispatch!Cardinality(Dispatch!Pending(a))
      /\ Dispatch!Cardinality(Dispatch!Pending(a)) <= Dispatch!Cardinality(Jobs)
      /\ Dispatch!Cardinality(Jobs) \in Nat
  BY DispatchCounted, DispatchFacts
<1>3. Dispatch!Bound(reading[a]) \in Nat /\ peak[a] >= Dispatch!Bound(reading[a])
  BY <1>1, DispatchBoundIs DEF DispatchPeakCovers
<1>4. CASE reading[a].left = None
  BY <1>1, <1>2, <1>3, <1>4, DispatchBoundIs
<1>5. CASE reading[a].left # None
  <2>1. /\ reading[a].left \in Nat /\ Dispatch!Bound(reading[a]) >= reading[a].left
        /\ Dispatch!Bound(reading[a]) >= 1
    BY <1>1, <1>5, DispatchBoundIs
  <2>2. Dispatch!Estimate(a) \in Nat /\ Dispatch!Estimate(a) <= Dispatch!Bound(reading[a])
    BY <1>3, <2>1 DEF Dispatch!Estimate
  <2>3. Dispatch!Effective(a) # 0
    BY <2>2, DispatchFacts DEF Dispatch!Selectable, Dispatch!BlockedByQuota
  <2>4. Dispatch!Estimate(a) - Dispatch!Cardinality(Dispatch!Pending(a)) > 0
    BY <1>2, <2>2, <2>3 DEF Dispatch!Effective
  <2>5. QED
    BY <1>1, <1>2, <1>3, <2>2, <2>4
<1>6. QED
  BY <1>4, <1>5

-----------------------------------------------------------------------------
(* The steps *)

\* What a step remembers: peaks cover the readings, fall only where nothing is booked,
\* and there the bound holds anyway.
LEMMA DispatchRemembered ==
  ASSUME Dispatch!Constants, DispatchIInv, Dispatch!Remember,
         reading' \in [Accounts -> Dispatch!Reading]
  PROVE  /\ peak' \in [Accounts -> Nat]
         /\ \A a \in Accounts : DispatchPeakCovers(a)' /\ peak'[a] >= 1
         /\ \A a \in Accounts : Dispatch!Booked(a)' => peak'[a] >= peak[a]
         /\ \A a \in Accounts : ~ Dispatch!Booked(a)' =>
              Dispatch!Cardinality(Dispatch!AutoPending(a)') + Dispatch!Cardinality(Dispatch!Choosing(a)')
                <= peak'[a] + Dispatch!Cardinality(Procs) - 1
<1>1. peak' = [a \in Accounts |->
                 IF Dispatch!Booked(a)' THEN Dispatch!Larger(peak[a], Dispatch!Bound(reading'[a]))
                                        ELSE Dispatch!Bound(reading'[a])]
  BY DEF Dispatch!Remember
<1>2. ASSUME NEW a \in Accounts
      PROVE  /\ peak'[a] \in Nat /\ peak'[a] >= 1 /\ peak'[a] >= Dispatch!Bound(reading'[a])
             /\ Dispatch!Booked(a)' => peak'[a] >= peak[a]
  <2>1. /\ peak[a] \in Nat /\ reading'[a] \in Dispatch!Reading
    BY DEF DispatchIInv, Dispatch!TypeOK
  <2>2. Dispatch!Bound(reading'[a]) \in Nat /\ Dispatch!Bound(reading'[a]) >= 1
    BY <2>1, DispatchBoundIs
  <2>3. CASE Dispatch!Booked(a)'
    <3>1. peak'[a] = Dispatch!Larger(peak[a], Dispatch!Bound(reading'[a]))
      BY <1>1, <2>3, Zenon
    <3>2. QED
      BY <2>1, <2>2, <3>1 DEF Dispatch!Larger
  <2>4. CASE ~ Dispatch!Booked(a)'
    <3>1. peak'[a] = Dispatch!Bound(reading'[a])
      BY <1>1, <2>4, Zenon
    <3>2. QED
      BY <2>2, <2>4, <3>1
  <2>5. QED
    BY <2>3, <2>4
<1>3. peak' \in [Accounts -> Nat]
  BY <1>1, <1>2
<1>4. \A a \in Accounts : DispatchPeakCovers(a)'
  BY <1>2 DEF DispatchPeakCovers, Dispatch!Bound
<1>5. ASSUME NEW a \in Accounts, ~ Dispatch!Booked(a)'
      PROVE  Dispatch!Cardinality(Dispatch!AutoPending(a)') + Dispatch!Cardinality(Dispatch!Choosing(a)')
               <= peak'[a] + Dispatch!Cardinality(Procs) - 1
  <2>1. Dispatch!AutoPending(a)' = {} /\ Dispatch!Choosing(a)' = {}
    BY <1>5 DEF Dispatch!Booked
  <2>2. Dispatch!Cardinality({}) = 0
    BY DispatchSets, FS_EmptySet
  <2>3. QED
    BY <1>2, <2>1, <2>2, DispatchFacts
<1>6. QED
  BY <1>2, <1>3, <1>4, <1>5

\* Where only parts of what was booked remain, the bound remains.
LEMMA DispatchFewerAreBooked ==
  ASSUME Dispatch!Constants, DispatchIInv, Dispatch!Remember,
         reading' \in [Accounts -> Dispatch!Reading], NEW a \in Accounts,
         Dispatch!AutoPending(a)' \subseteq Dispatch!AutoPending(a),
         Dispatch!Choosing(a)' \subseteq Dispatch!Choosing(a)
  PROVE  Dispatch!Cardinality(Dispatch!AutoPending(a)') + Dispatch!Cardinality(Dispatch!Choosing(a)')
           <= peak'[a] + Dispatch!Cardinality(Procs) - 1
<1>1. /\ Dispatch!Cardinality(Dispatch!AutoPending(a)')
           <= Dispatch!Cardinality(Dispatch!AutoPending(a))
      /\ Dispatch!Cardinality(Dispatch!Choosing(a)') <= Dispatch!Cardinality(Dispatch!Choosing(a))
  BY DispatchCounted, DispatchSets, FS_Subset
<1>2. Dispatch!Cardinality(Dispatch!AutoPending(a)) + Dispatch!Cardinality(Dispatch!Choosing(a))
        <= peak[a] + Dispatch!Cardinality(Procs) - 1
  BY DEF DispatchIInv, Dispatch!OverbookingIsBounded
<1>3. peak[a] \in Nat /\ peak'[a] \in Nat
  BY DispatchRemembered DEF DispatchIInv, Dispatch!TypeOK
<1>4. CASE Dispatch!Booked(a)'
  <2>1. peak'[a] >= peak[a]
    BY <1>4, DispatchRemembered
  <2>2. QED
    BY <1>1, <1>2, <1>3, <2>1, DispatchCounted, DispatchCountedNext, DispatchFacts
<1>5. CASE ~ Dispatch!Booked(a)'
  BY <1>5, DispatchRemembered
<1>6. QED
  BY <1>4, <1>5

\* A step that leaves failures, rests and readings alone needs its types and bounds only.
LEMMA DispatchQuietIInv ==
  ASSUME Dispatch!Constants, DispatchIInv, Dispatch!TypeOK', Dispatch!OverbookingIsBounded',
         Dispatch!Remember, UNCHANGED <<now, reading, log, rest>>
  PROVE  DispatchIInv'
<1>1. \A a \in Accounts : DispatchPeakCovers(a)'
  BY DispatchRemembered DEF DispatchIInv, Dispatch!TypeOK
<1>2. /\ \A a \in Accounts : DispatchRestIsLogged(a)'
      /\ \A e \in log' : DispatchLogIsRest(e)'
  BY DEF DispatchIInv, DispatchRestIsLogged, DispatchLogIsRest
<1>3. QED
  BY <1>1, <1>2 DEF DispatchIInv

\* A step on the row of one job that puts nothing more on an account.
LEMMA DispatchRowIInv ==
  ASSUME Dispatch!Constants, DispatchIInv, NEW j \in Jobs, NEW r \in Dispatch!Row,
         r.status # "absent" => r.account \in Accounts,
         r.status = "live" /\ r.auto /\ ~ r.submitted =>
           /\ job[j].status = "live" /\ job[j].auto /\ ~ job[j].submitted
           /\ job[j].account = r.account,
         job' = [job EXCEPT ![j] = r], Dispatch!Remember,
         UNCHANGED <<now, reading, log, pick, rest>>
  PROVE  DispatchIInv'
<1>1. /\ Dispatch!TypeOK /\ job'[j] = r /\ \A i \in Jobs \ {j} : job'[i] = job[i]
      /\ reading' \in [Accounts -> Dispatch!Reading] /\ peak' \in [Accounts -> Nat]
  BY DispatchRemembered DEF DispatchIInv, Dispatch!TypeOK
<1>2. Dispatch!TypeOK'
  <2>1. job' \in [Jobs -> Dispatch!Row]
    BY <1>1 DEF Dispatch!TypeOK
  <2>2. \A i \in Jobs : job'[i].status # "absent" => job'[i].account \in Accounts
    BY <1>1 DEF Dispatch!TypeOK
  <2>3. QED
    BY <1>1, <2>1, <2>2 DEF Dispatch!TypeOK
<1>3. ASSUME NEW a \in Accounts
      PROVE  /\ Dispatch!AutoPending(a)' \subseteq Dispatch!AutoPending(a)
             /\ Dispatch!Choosing(a)' = Dispatch!Choosing(a)
  BY <1>1 DEF Dispatch!AutoPending, Dispatch!Pending, Dispatch!Choosing
<1>4. Dispatch!OverbookingIsBounded'
  BY <1>1, <1>3, DispatchFewerAreBooked DEF Dispatch!OverbookingIsBounded
<1>5. QED
  BY <1>2, <1>4, DispatchQuietIInv

\* Tick keeps the invariant.
LEMMA DispatchTickIInv ==
  ASSUME Dispatch!Constants, DispatchIInv, Dispatch!Tick, Dispatch!Remember
  PROVE  DispatchIInv'
<1>1. /\ now' = now + 1 /\ UNCHANGED <<reading, job, log, pick, rest>> /\ now \in Nat
      /\ reading' \in [Accounts -> Dispatch!Reading]
  BY DEF Dispatch!Tick, DispatchIInv, Dispatch!TypeOK
<1>2. Dispatch!TypeOK'
  BY <1>1, DispatchRemembered DEF DispatchIInv, Dispatch!TypeOK
<1>3. Dispatch!OverbookingIsBounded'
  <2>1. \A a \in Accounts : Dispatch!AutoPending(a)' = Dispatch!AutoPending(a)
          /\ Dispatch!Choosing(a)' = Dispatch!Choosing(a)
    BY <1>1 DEF Dispatch!AutoPending, Dispatch!Pending, Dispatch!Choosing
  <2>2. QED
    BY <1>1, <2>1, DispatchFewerAreBooked DEF Dispatch!OverbookingIsBounded
<1>4. ASSUME NEW a \in Accounts
      PROVE  DispatchRestIsLogged(a)' /\ DispatchPeakCovers(a)'
  <2>1. DispatchPeakCovers(a)'
    BY <1>1, DispatchRemembered
  <2>2. rest[a] \in Nat /\ \A e \in log : e.at \in Nat
    BY DEF DispatchIInv, Dispatch!TypeOK, Dispatch!Event
  <2>3. DispatchRestIsLogged(a)'
    BY <1>1, <2>2 DEF DispatchIInv, DispatchRestIsLogged
  <2>4. QED
    BY <2>1, <2>3
<1>5. \A e \in log' : DispatchLogIsRest(e)'
  BY <1>1 DEF DispatchIInv, DispatchLogIsRest
<1>6. QED
  BY <1>2, <1>3, <1>4, <1>5 DEF DispatchIInv

\* Read keeps the invariant.
LEMMA DispatchReadIInv ==
  ASSUME Dispatch!Constants, DispatchIInv, NEW a \in Accounts, Dispatch!Read(a), Dispatch!Remember
  PROVE  DispatchIInv'
<1>1. PICK left \in Quota \cup {None}, reset \in {now + d : d \in Releases} \cup {None} :
        /\ reading' = [reading EXCEPT ![a] = [left |-> left, reset |-> reset]]
        /\ UNCHANGED <<now, job, log, pick, rest>>
  BY DEF Dispatch!Read
<1>2. Dispatch!TypeOK
  BY DEF DispatchIInv
<1>3. reset \in Nat \cup {None}
  BY <1>2, DispatchFacts DEF Dispatch!TypeOK
<1>4. reading'[a] \in Dispatch!Reading /\ reading' \in [Accounts -> Dispatch!Reading]
  BY <1>1, <1>2, <1>3 DEF Dispatch!TypeOK, Dispatch!Reading
<1>5. Dispatch!TypeOK'
  BY <1>1, <1>2, <1>4, DispatchRemembered DEF Dispatch!TypeOK
<1>6. ASSUME NEW b \in Accounts
      PROVE  /\ Dispatch!AutoPending(b)' = Dispatch!AutoPending(b)
             /\ Dispatch!Choosing(b)' = Dispatch!Choosing(b)
  BY <1>1 DEF Dispatch!AutoPending, Dispatch!Pending, Dispatch!Choosing
<1>7. Dispatch!OverbookingIsBounded'
  BY <1>4, <1>6, DispatchFewerAreBooked DEF Dispatch!OverbookingIsBounded
<1>8. \A b \in Accounts : DispatchRestIsLogged(b)' /\ DispatchPeakCovers(b)'
  BY <1>1, <1>4, DispatchRemembered DEF DispatchIInv, DispatchRestIsLogged
<1>9. \A e \in log' : DispatchLogIsRest(e)'
  BY <1>1 DEF DispatchIInv, DispatchLogIsRest
<1>10. QED
  BY <1>5, <1>7, <1>8, <1>9 DEF DispatchIInv

\* Pick keeps the invariant.
LEMMA DispatchPickIInv ==
  ASSUME Dispatch!Constants, DispatchIInv, NEW p \in Procs, Dispatch!Pick(p), Dispatch!Remember
  PROVE  DispatchIInv'
<1>1. PICK a \in Accounts : Dispatch!Selectable(a) /\ pick' = [pick EXCEPT ![p] = a]
  BY DEF Dispatch!Pick
<1>2. /\ Dispatch!TypeOK /\ UNCHANGED <<now, reading, job, log, rest>>
      /\ reading' \in [Accounts -> Dispatch!Reading]
  BY DEF Dispatch!Pick, DispatchIInv, Dispatch!TypeOK
<1>3. Dispatch!TypeOK'
  BY <1>1, <1>2, DispatchRemembered DEF Dispatch!TypeOK
<1>4. ASSUME NEW b \in Accounts
      PROVE  Dispatch!Cardinality(Dispatch!AutoPending(b)') + Dispatch!Cardinality(Dispatch!Choosing(b)')
               <= peak'[b] + Dispatch!Cardinality(Procs) - 1
  <2>1. /\ Dispatch!AutoPending(b)' = Dispatch!AutoPending(b)
        /\ peak[b] \in Nat /\ peak'[b] \in Nat
    BY <1>2, <1>3 DEF Dispatch!AutoPending, Dispatch!Pending, Dispatch!TypeOK
  <2>2. CASE b = a
    <3>1. Dispatch!Cardinality(Dispatch!AutoPending(b)) <= peak[b] - 1
      BY <1>1, <2>2, DispatchChosenHasRoom
    <3>2. p \in Dispatch!Choosing(b)'
      BY <1>1, <1>2, <2>2 DEF Dispatch!Choosing, Dispatch!TypeOK
    <3>3. Dispatch!Booked(b)'
      BY <3>2 DEF Dispatch!Booked
    <3>4. peak'[b] >= peak[b]
      BY <1>2, <3>3, DispatchRemembered
    <3>5. QED
      BY <2>1, <3>1, <3>4, DispatchCounted, DispatchCountedNext, DispatchFacts
  <2>3. CASE b # a
    <3>1. Dispatch!Choosing(b)' \subseteq Dispatch!Choosing(b)
      BY <1>1, <1>2, <2>3 DEF Dispatch!Choosing, Dispatch!TypeOK
    <3>2. QED
      BY <1>2, <2>1, <3>1, DispatchFewerAreBooked
  <2>4. QED
    BY <2>2, <2>3
<1>5. QED
  BY <1>2, <1>3, <1>4, DispatchQuietIInv DEF Dispatch!OverbookingIsBounded

\* A job that is new waits, for the account it names.
LEMMA DispatchInsertedIs ==
  ASSUME Dispatch!Constants, DispatchIInv, NEW j \in Jobs, NEW a \in Accounts,
         NEW auto \in BOOLEAN,
         Dispatch!Inserted(j, a, auto)
  PROVE  /\ job' \in [Jobs -> Dispatch!Row]
         /\ \A i \in Jobs : job'[i].status # "absent" => job'[i].account \in Accounts
         /\ j \notin Dispatch!AutoPending(a)
         /\ Dispatch!AutoPending(a)' = IF auto THEN Dispatch!AutoPending(a) \cup {j}
              ELSE Dispatch!AutoPending(a)
         /\ \A b \in Accounts \ {a} : Dispatch!AutoPending(b)' = Dispatch!AutoPending(b)
<1> DEFINE r == [status |-> "live", account |-> a, submitted |-> FALSE, auto |-> auto]
<1>1. r \in Dispatch!Row
  BY DEF Dispatch!Row
<1>2. /\ job' = [job EXCEPT ![j] = r] /\ job[j] = Dispatch!NoRow /\ job \in [Jobs -> Dispatch!Row]
      /\ \A i \in Jobs : job[i].status # "absent" => job[i].account \in Accounts
  BY DEF Dispatch!Inserted, DispatchIInv, Dispatch!TypeOK
<1>3. job'[j] = r /\ \A i \in Jobs \ {j} : job'[i] = job[i]
  BY <1>2
<1>4. job[j].status = "absent"
  BY <1>2 DEF Dispatch!NoRow
<1>5. j \notin Dispatch!AutoPending(a) /\ \A b \in Accounts : j \notin Dispatch!AutoPending(b)
  BY <1>4 DEF Dispatch!AutoPending, Dispatch!Pending
<1>6. \A b \in Accounts : \A i \in Jobs \ {j} : i \in Dispatch!AutoPending(b)' <=> i \in Dispatch!AutoPending(b)
  BY <1>3 DEF Dispatch!AutoPending, Dispatch!Pending
<1>7. \A b \in Accounts : j \in Dispatch!AutoPending(b)' <=> (b = a /\ auto)
  BY <1>3 DEF Dispatch!AutoPending, Dispatch!Pending
<1>8. \A b \in Accounts : Dispatch!AutoPending(b) \subseteq Jobs
        /\ Dispatch!AutoPending(b)' \subseteq Jobs
  BY DEF Dispatch!AutoPending, Dispatch!Pending
<1>9. Dispatch!AutoPending(a)' = IF auto THEN Dispatch!AutoPending(a) \cup {j}
        ELSE Dispatch!AutoPending(a)
  BY <1>5, <1>6, <1>7, <1>8
<1>10. ASSUME NEW b \in Accounts \ {a}
       PROVE  Dispatch!AutoPending(b)' = Dispatch!AutoPending(b)
  <2>1. \A i \in Jobs : i \in Dispatch!AutoPending(b)' <=> i \in Dispatch!AutoPending(b)
    BY <1>5, <1>6, <1>7
  <2>2. QED
    BY <1>8, <2>1
<1>11. job' \in [Jobs -> Dispatch!Row]
  BY <1>1, <1>2
<1>12. \A i \in Jobs : job'[i].status # "absent" => job'[i].account \in Accounts
  BY <1>2, <1>3
<1>13. QED
  BY <1>5, <1>9, <1>10, <1>11, <1>12

\* Insert keeps the invariant.
LEMMA DispatchInsertIInv ==
  ASSUME Dispatch!Constants, DispatchIInv, NEW p \in Procs, Dispatch!Insert(p), Dispatch!Remember
  PROVE  DispatchIInv'
<1>1. PICK j \in Jobs : Dispatch!Inserted(j, pick[p], TRUE)
  BY DEF Dispatch!Insert
<1> DEFINE a == pick[p]
<1>2. /\ Dispatch!TypeOK /\ UNCHANGED <<now, reading, log, rest>> /\ a \in Accounts
      /\ pick' = [pick EXCEPT ![p] = None]
      /\ reading' \in [Accounts -> Dispatch!Reading]
  BY DEF Dispatch!Insert, DispatchIInv, Dispatch!TypeOK
<1>3. Dispatch!TypeOK'
  BY <1>1, <1>2, DispatchInsertedIs, DispatchRemembered DEF Dispatch!TypeOK
<1>4. ASSUME NEW b \in Accounts
      PROVE  Dispatch!Cardinality(Dispatch!AutoPending(b)') + Dispatch!Cardinality(Dispatch!Choosing(b)')
               <= peak'[b] + Dispatch!Cardinality(Procs) - 1
  <2>1. peak[b] \in Nat /\ peak'[b] \in Nat
    BY <1>2, <1>3 DEF Dispatch!TypeOK
  <2>2. CASE b = a
    <3>1. /\ Dispatch!AutoPending(b)' = Dispatch!AutoPending(b) \cup {j}
          /\ j \notin Dispatch!AutoPending(b)
      BY <1>1, <1>2, <2>2, DispatchInsertedIs
    <3>2. Dispatch!Choosing(b)' = Dispatch!Choosing(b) \ {p} /\ p \in Dispatch!Choosing(b)
      BY <1>2, <2>2, DispatchFacts DEF Dispatch!Choosing, Dispatch!TypeOK
    <3>3. Dispatch!Cardinality(Dispatch!AutoPending(b)')
            = Dispatch!Cardinality(Dispatch!AutoPending(b)) + 1
      BY <3>1, DispatchSets, FS_AddElement, DispatchCounted
    <3>4. Dispatch!Cardinality(Dispatch!Choosing(b)')
            = Dispatch!Cardinality(Dispatch!Choosing(b)) - 1
      BY <3>2, DispatchSets, FS_RemoveElement, DispatchCounted
    <3>5. Dispatch!Cardinality(Dispatch!AutoPending(b)) + Dispatch!Cardinality(Dispatch!Choosing(b)) <= peak[b] + Dispatch!Cardinality(Procs) - 1
      BY DEF DispatchIInv, Dispatch!OverbookingIsBounded
    <3>6. Dispatch!Booked(b)'
      BY <3>1 DEF Dispatch!Booked
    <3>7. peak'[b] >= peak[b]
      BY <1>2, <3>6, DispatchRemembered
    <3>8. QED
      BY <2>1, <3>3, <3>4, <3>5, <3>7, DispatchCounted, DispatchFacts
  <2>3. CASE b # a
    <3>1. Dispatch!AutoPending(b)' = Dispatch!AutoPending(b)
      BY <1>1, <1>2, <2>3, DispatchInsertedIs
    <3>2. Dispatch!Choosing(b)' \subseteq Dispatch!Choosing(b)
      BY <1>2, DispatchFacts DEF Dispatch!Choosing, Dispatch!TypeOK
    <3>3. QED
      BY <1>2, <2>1, <3>1, <3>2, DispatchFewerAreBooked
  <2>4. QED
    BY <2>2, <2>3
<1>5. QED
  BY <1>2, <1>3, <1>4, DispatchQuietIInv DEF Dispatch!OverbookingIsBounded

\* CreateManual keeps the invariant.
LEMMA DispatchCreateManualIInv ==
  ASSUME Dispatch!Constants, DispatchIInv, Dispatch!CreateManual, Dispatch!Remember
  PROVE  DispatchIInv'
<1>1. PICK j \in Jobs, a \in Accounts : Dispatch!Inserted(j, a, FALSE)
  BY DEF Dispatch!CreateManual
<1>2. /\ Dispatch!TypeOK /\ UNCHANGED <<now, reading, log, pick, rest>>
      /\ reading' \in [Accounts -> Dispatch!Reading]
  BY DEF Dispatch!CreateManual, DispatchIInv, Dispatch!TypeOK
<1>3. Dispatch!TypeOK'
  BY <1>1, <1>2, DispatchInsertedIs, DispatchRemembered DEF Dispatch!TypeOK
<1>4. \A b \in Accounts : Dispatch!AutoPending(b)' = Dispatch!AutoPending(b)
        /\ Dispatch!Choosing(b)' = Dispatch!Choosing(b)
  BY <1>1, <1>2, DispatchInsertedIs DEF Dispatch!Choosing
<1>5. Dispatch!OverbookingIsBounded'
  BY <1>2, <1>4, DispatchFewerAreBooked DEF Dispatch!OverbookingIsBounded
<1>6. QED
  BY <1>2, <1>3, <1>5, DispatchQuietIInv

\* Crash keeps the invariant.
LEMMA DispatchCrashIInv ==
  ASSUME Dispatch!Constants, DispatchIInv, NEW p \in Procs, Dispatch!Crash(p), Dispatch!Remember
  PROVE  DispatchIInv'
<1>1. /\ Dispatch!TypeOK /\ UNCHANGED <<now, reading, job, log, rest>>
      /\ pick' = [pick EXCEPT ![p] = None]
      /\ reading' \in [Accounts -> Dispatch!Reading]
  BY DEF Dispatch!Crash, DispatchIInv, Dispatch!TypeOK
<1>2. Dispatch!TypeOK'
  BY <1>1, DispatchRemembered DEF Dispatch!TypeOK
<1>3. \A b \in Accounts : Dispatch!AutoPending(b)' = Dispatch!AutoPending(b)
        /\ Dispatch!Choosing(b)' \subseteq Dispatch!Choosing(b)
  BY <1>1, DispatchFacts
     DEF Dispatch!AutoPending, Dispatch!Pending, Dispatch!Choosing, Dispatch!TypeOK
<1>4. Dispatch!OverbookingIsBounded'
  BY <1>1, <1>3, DispatchFewerAreBooked DEF Dispatch!OverbookingIsBounded
<1>5. QED
  BY <1>1, <1>2, <1>4, DispatchQuietIInv

\* The steps of a job keep the invariant.
LEMMA DispatchJobIInv ==
  ASSUME Dispatch!Constants, DispatchIInv, NEW j \in Jobs,
         Dispatch!Accept(j) \/ Dispatch!Complete(j) \/ Dispatch!Cancel(j) \/ Dispatch!Retry(j),
         Dispatch!Remember
  PROVE  DispatchIInv'
<1>1. /\ job \in [Jobs -> Dispatch!Row] /\ job[j] \in Dispatch!Row
      /\ job[j].status # "absent" => job[j].account \in Accounts
      /\ UNCHANGED <<now, reading, log, pick, rest>>
  BY DEF DispatchIInv, Dispatch!TypeOK, Dispatch!Accept, Dispatch!Complete, Dispatch!Cancel,
     Dispatch!Retry
<1>2. CASE Dispatch!Accept(j)
  <2> DEFINE r == [job[j] EXCEPT !.submitted = TRUE]
  <2>1. job' = [job EXCEPT ![j] = r]
    BY <1>2 DEF Dispatch!Accept
  <2>2. /\ r \in Dispatch!Row /\ r.submitted /\ r.status = job[j].status
        /\ r.account = job[j].account
    BY <1>1 DEF Dispatch!Row
  <2>3. QED
    BY <1>1, <2>1, <2>2, DispatchRowIInv
<1>3. CASE Dispatch!Complete(j) \/ Dispatch!Cancel(j)
  <2>1. Dispatch!NoRow \in Dispatch!Row /\ Dispatch!NoRow.status = "absent"
    BY DEF Dispatch!NoRow, Dispatch!Row
  <2>2. QED
    BY <1>1, <1>3, <2>1, DispatchRowIInv DEF Dispatch!Complete, Dispatch!Cancel
<1>4. CASE Dispatch!Retry(j)
  <2> DEFINE r == [job[j] EXCEPT !.status = "live", !.auto = FALSE]
  <2>1. job' = [job EXCEPT ![j] = r] /\ job[j].status = "failed"
    BY <1>4 DEF Dispatch!Retry
  <2>2. r \in Dispatch!Row /\ ~ r.auto /\ r.account = job[j].account
    BY <1>1 DEF Dispatch!Row
  <2>3. QED
    BY <1>1, <2>1, <2>2, DispatchRowIInv
<1>5. QED
  BY <1>2, <1>3, <1>4

\* Fail keeps the invariant.
LEMMA DispatchFailIInv ==
  ASSUME Dispatch!Constants, DispatchIInv, NEW j \in Jobs, Dispatch!Fail(j), Dispatch!Remember
  PROVE  DispatchIInv'
<1> DEFINE a == job[j].account
           r == [job[j] EXCEPT !.status = "failed"]
<1>1. PICK k \in Kinds :
        /\ log' = log \cup {[account |-> a, kind |-> k, at |-> now]}
        /\ rest' = [rest EXCEPT ![a] = Dispatch!Larger(@, now + Cooldown[k])]
  BY DEF Dispatch!Fail
<1> DEFINE f == [account |-> a, kind |-> k, at |-> now]
<1>2. /\ Dispatch!TypeOK /\ UNCHANGED <<now, reading, pick>> /\ now \in Nat
      /\ reading' \in [Accounts -> Dispatch!Reading]
      /\ job' = [job EXCEPT ![j] = r] /\ job[j] \in Dispatch!Row /\ a \in Accounts
      /\ Cooldown[k] \in Nat
  BY DispatchFacts DEF Dispatch!Fail, DispatchIInv, Dispatch!TypeOK
<1>3. r \in Dispatch!Row /\ r.status = "failed" /\ r.account = a
  BY <1>2 DEF Dispatch!Row
<1>4. f \in Dispatch!Event /\ f.account = a /\ f.kind = k /\ f.at = now
  BY <1>2 DEF Dispatch!Event
<1>5. /\ \A b \in Accounts : rest[b] \in Nat /\ rest'[b] \in Nat /\ rest'[b] >= rest[b]
      /\ rest'[a] >= now + Cooldown[k]
      /\ rest'[a] = rest[a] \/ rest'[a] = now + Cooldown[k]
      /\ \A b \in Accounts \ {a} : rest'[b] = rest[b]
  BY <1>1, <1>2 DEF Dispatch!TypeOK, Dispatch!Larger
<1>6. Dispatch!TypeOK'
  <2>1. job' \in [Jobs -> Dispatch!Row]
    BY <1>2, <1>3 DEF Dispatch!TypeOK
  <2>2. \A i \in Jobs : job'[i].status # "absent" => job'[i].account \in Accounts
    BY <1>2, <1>3 DEF Dispatch!TypeOK
  <2>3. rest' \in [Accounts -> Nat]
    BY <1>1, <1>2, <1>5 DEF Dispatch!TypeOK
  <2>4. log' \subseteq Dispatch!Event
    BY <1>1, <1>2, <1>4 DEF Dispatch!TypeOK
  <2>5. QED
    BY <1>2, <2>1, <2>2, <2>3, <2>4, DispatchRemembered DEF Dispatch!TypeOK
<1>7. Dispatch!OverbookingIsBounded'
  <2>1. job'[j] = r /\ \A i \in Jobs \ {j} : job'[i] = job[i]
    BY <1>2 DEF Dispatch!TypeOK
  <2>2. \A b \in Accounts : Dispatch!AutoPending(b)' \subseteq Dispatch!AutoPending(b)
          /\ Dispatch!Choosing(b)' = Dispatch!Choosing(b)
    BY <1>2, <1>3, <2>1 DEF Dispatch!AutoPending, Dispatch!Pending, Dispatch!Choosing
  <2>3. QED
    BY <1>2, <2>2, DispatchFewerAreBooked DEF Dispatch!OverbookingIsBounded
<1>8. ASSUME NEW b \in Accounts
      PROVE  DispatchRestIsLogged(b)'
  <2>1. CASE rest'[b] = rest[b]
    BY <1>1, <1>2, <2>1 DEF DispatchIInv, DispatchRestIsLogged
  <2>2. CASE rest'[b] # rest[b]
    <3>1. b = a /\ rest'[b] = now + Cooldown[k]
      BY <1>5, <2>2
    <3>2. f \in log' /\ f.account = b /\ f.at <= now' /\ f.at + Cooldown[f.kind] >= rest'[b]
      BY <1>1, <1>2, <1>4, <3>1
    <3>3. QED
      BY <3>2 DEF DispatchRestIsLogged
  <2>3. QED
    BY <2>1, <2>2
<1>9. ASSUME NEW b \in Accounts
      PROVE  DispatchPeakCovers(b)'
  BY <1>2, DispatchRemembered
<1>10. ASSUME NEW e \in log'
       PROVE  DispatchLogIsRest(e)'
  <2>1. CASE e = f
    BY <1>4, <1>5, <2>1 DEF DispatchLogIsRest
  <2>2. CASE e \in log
    <3>1. /\ DispatchLogIsRest(e) /\ e.account \in Accounts /\ e.at \in Nat
          /\ Cooldown[e.kind] \in Nat
      BY <1>2, <2>2, DispatchFacts DEF DispatchIInv, Dispatch!TypeOK, Dispatch!Event
    <3>2. QED
      BY <1>5, <3>1 DEF DispatchLogIsRest
  <2>3. QED
    BY <1>1, <2>1, <2>2
<1>11. QED
  BY <1>6, <1>7, <1>8, <1>9, <1>10 DEF DispatchIInv

\* CleanLog keeps the invariant.
LEMMA DispatchCleanLogIInv ==
  ASSUME Dispatch!Constants, DispatchIInv, Dispatch!CleanLog, Dispatch!Remember
  PROVE  DispatchIInv'
<1>1. PICK cutoff \in 1 .. now - LogSpan : log' = {e \in log : e.at >= cutoff}
  BY DEF Dispatch!CleanLog
<1>2. /\ Dispatch!TypeOK /\ UNCHANGED <<now, reading, job, pick, rest>> /\ now \in Nat
      /\ reading' \in [Accounts -> Dispatch!Reading]
  BY DEF Dispatch!CleanLog, DispatchIInv, Dispatch!TypeOK
<1>3. Dispatch!TypeOK'
  BY <1>1, <1>2, DispatchRemembered DEF Dispatch!TypeOK
<1>4. Dispatch!OverbookingIsBounded'
  <2>1. \A a \in Accounts : Dispatch!AutoPending(a)' = Dispatch!AutoPending(a)
          /\ Dispatch!Choosing(a)' = Dispatch!Choosing(a)
    BY <1>2 DEF Dispatch!AutoPending, Dispatch!Pending, Dispatch!Choosing
  <2>2. QED
    BY <1>2, <2>1, DispatchFewerAreBooked DEF Dispatch!OverbookingIsBounded
<1>5. ASSUME NEW b \in Accounts, rest'[b] > now'
      PROVE  \E e \in log' : e.account = b /\ e.at <= now' /\ e.at + Cooldown[e.kind] >= rest'[b]
  <2>1. PICK e \in log : e.account = b /\ e.at <= now /\ e.at + Cooldown[e.kind] >= rest[b]
    BY <1>2, <1>5 DEF DispatchIInv, DispatchRestIsLogged
  <2>2. /\ e.at \in Nat /\ Cooldown[e.kind] \in Nat /\ Cooldown[e.kind] <= LogSpan
        /\ rest[b] \in Nat /\ LogSpan \in Nat /\ rest[b] > now
    BY <1>2, <1>5, <2>1, DispatchFacts DEF Dispatch!TypeOK, Dispatch!Event
  <2>3. e.at >= cutoff
    BY <1>1, <1>2, <2>1, <2>2
  <2>4. QED
    BY <1>1, <1>2, <2>1, <2>3
<1>6. \A b \in Accounts : DispatchRestIsLogged(b)' /\ DispatchPeakCovers(b)'
  BY <1>2, <1>5, DispatchRemembered DEF DispatchIInv, DispatchRestIsLogged
<1>7. \A e \in log' : DispatchLogIsRest(e)'
  BY <1>1, <1>2 DEF DispatchIInv, DispatchLogIsRest
<1>8. QED
  BY <1>3, <1>4, <1>6, <1>7 DEF DispatchIInv

\* Every step keeps the invariant.
LEMMA DispatchNextIInv ==
  ASSUME Dispatch!Constants, DispatchIInv, [Dispatch!Next]_(Dispatch!vars)
  PROVE  DispatchIInv'
<1>1. CASE UNCHANGED Dispatch!vars
  <2>1. Dispatch!TypeOK'
    BY <1>1 DEF Dispatch!vars, DispatchIInv, Dispatch!TypeOK
  <2>2. Dispatch!OverbookingIsBounded'
    BY <1>1
       DEF Dispatch!vars, DispatchIInv, Dispatch!OverbookingIsBounded, Dispatch!AutoPending,
           Dispatch!Pending, Dispatch!Choosing
  <2>3. QED
    BY <1>1, <2>1, <2>2
       DEF Dispatch!vars, DispatchIInv, DispatchRestIsLogged, DispatchPeakCovers,
           Dispatch!Bound, DispatchLogIsRest
<1>2. QED
  BY <1>1, DispatchTickIInv, DispatchReadIInv, DispatchPickIInv, DispatchInsertIInv,
     DispatchCreateManualIInv, DispatchCrashIInv, DispatchJobIInv,
     DispatchFailIInv, DispatchCleanLogIInv DEF Dispatch!Next

-----------------------------------------------------------------------------
(* What the invariant says *)

\* What the invariant says of RestIsRemembered.
LEMMA DispatchRemembers ==
  ASSUME Dispatch!Constants, DispatchIInv
  PROVE  Dispatch!RestIsRemembered
<1>1. ASSUME NEW a \in Accounts, rest[a] > now
      PROVE  Dispatch!BlockedByCooldown(a)
  <2>1. PICK e \in log : e.account = a /\ e.at <= now /\ e.at + Cooldown[e.kind] >= rest[a]
    BY <1>1 DEF DispatchIInv, DispatchRestIsLogged
  <2>2. /\ e.at \in Nat /\ Cooldown[e.kind] \in Nat /\ Cooldown[e.kind] <= Lookback
        /\ rest[a] \in Nat /\ now \in Nat /\ Lookback \in Nat
    BY DispatchFacts DEF DispatchIInv, Dispatch!TypeOK, Dispatch!Event
  <2>3. /\ e.at >= now - Lookback /\ Cooldown[e.kind] > 0
        /\ e.at + Cooldown[e.kind] > now
    BY <1>1, <2>1, <2>2
  <2>4. QED
    BY <2>1, <2>3 DEF Dispatch!BlockedByCooldown, Dispatch!Recent
<1>2. QED
  BY <1>1 DEF Dispatch!RestIsRemembered, Dispatch!Selectable

\* What the invariant says of ResetReopens.
LEMMA DispatchReopens ==
  ASSUME Dispatch!Constants, DispatchIInv
  PROVE  Dispatch!ResetReopens
<1>1. ASSUME NEW a \in Accounts, Dispatch!ResetPassed(a), rest[a] <= now, Dispatch!Pending(a) = {}
      PROVE  Dispatch!Selectable(a)
  <2>1. /\ reading[a] \in Dispatch!Reading /\ now \in Nat /\ rest[a] \in Nat
        /\ Grace \in Nat /\ reading[a].reset # None /\ reading[a].reset <= now
    BY <1>1, DispatchFacts DEF DispatchIInv, Dispatch!TypeOK, Dispatch!ResetPassed
  <2>2. ~ Dispatch!BlockedByCooldown(a)
    <3>1. ASSUME NEW e \in log, e.account = a
          PROVE  ~ (e.at + Cooldown[e.kind] > now)
      <4>1. e.at \in Nat /\ Cooldown[e.kind] \in Nat /\ e.at + Cooldown[e.kind] <= rest[a]
        BY <3>1, DispatchFacts
           DEF DispatchIInv, DispatchLogIsRest, Dispatch!TypeOK, Dispatch!Event
      <4>2. QED
        BY <1>1, <2>1, <4>1
    <3>2. QED
      BY <3>1 DEF Dispatch!BlockedByCooldown, Dispatch!Recent
  <2>3. CASE reading[a].left = None
    BY <1>1, <2>2, <2>3, DispatchFacts
       DEF Dispatch!Selectable, Dispatch!BlockedByQuota, Dispatch!Estimate
  <2>4. CASE reading[a].left # None
    <3>1. Dispatch!Estimate(a) \in Nat /\ Dispatch!Estimate(a) >= 1
      BY <1>1, <2>1, <2>4, DispatchBoundIs DEF Dispatch!Estimate
    <3>2. Dispatch!Effective(a) = Dispatch!Estimate(a)
      <4>1. Dispatch!Cardinality(Dispatch!Pending(a)) = 0
        BY <1>1, DispatchSets, FS_EmptySet
      <4>2. QED
        BY <3>1, <4>1 DEF Dispatch!Effective
    <3>3. reading[a].reset \in Nat /\ ~ (reading[a].reset - now > Grace)
      BY <2>1 DEF Dispatch!Reading
    <3>4. ~ Dispatch!BlockedByQuota(a)
      BY <2>1, <3>1, <3>2, <3>3 DEF Dispatch!BlockedByQuota
    <3>5. QED
      BY <2>2, <3>4 DEF Dispatch!Selectable
  <2>5. QED
    BY <2>3, <2>4
<1>2. QED
  BY <1>1 DEF Dispatch!ResetReopens

-----------------------------------------------------------------------------
(* The slots of the scan: ScanScheduler *)

\* A slot is locked from its scan to its end at least, and not before.
ScansSlotOK(s) ==
  \/ scans[s] = 0 /\ lock[s] = None
  \/ scans[s] = 1 /\ lock[s] \in Nat /\ s + SlotLen <= lock[s]

\* A process only remembers to have scanned what was scanned, and one that waits is
\* enabled and idle.
ScansLoopOK(p) ==
  /\ \A s \in fired[p] : scans[s] > 0
  /\ awake[p] # None => on[p] /\ loop[p] = "idle" /\ awake[p] <= now

\* A process that has waited since the beginning of a slot nobody has scanned has not
\* looked since then: it would have scanned it.
ScansWaits(p, s) ==
  awake[p] # None /\ awake[p] <= s /\ s <= now /\ scans[s] = 0 => now - s <= lag[p]

\* The inductive invariant.
ScansIInv ==
  /\ Scans!TypeOK
  /\ \A s \in ScanSlots : ScansSlotOK(s)
  /\ \A p \in Procs : ScansLoopOK(p) /\ \A s \in ScanSlots : ScansWaits(p, s)

\* What the assumptions say of the constants.
ScansConstantsFacts ==
  /\ ScanSlots \subseteq Nat /\ SlotLen \in Nat /\ SlotLen > 0 /\ ScanTTL \in Nat
  /\ SlotLen <= ScanTTL
  /\ MaxLag \in Nat /\ MaxLag > 0 /\ None \notin Nat
  /\ \A s, t \in ScanSlots : s < t => s + SlotLen <= t

\* The constants as the provers need them.
LEMMA ScansFacts ==
  ASSUME Scans!Constants
  PROVE  ScansConstantsFacts
BY DEF Scans!Constants, Scans!SlotsAreApart, Scans!LockOutlivesSlot, ScansConstantsFacts

\* The invariant holds at first.
LEMMA ScansInitIInv ==
  ASSUME Scans!Constants
  PROVE  Scans!Init => ScansIInv
<1> SUFFICES ASSUME Scans!Init PROVE ScansIInv
  OBVIOUS
<1>1. Scans!TypeOK
  BY ScansFacts DEF Scans!Init, Scans!TypeOK, ScansConstantsFacts
<1>2. \A s \in ScanSlots : ScansSlotOK(s)
  BY DEF Scans!Init, ScansSlotOK
<1>3. \A p \in Procs : ScansLoopOK(p) /\ \A s \in ScanSlots : ScansWaits(p, s)
  BY DEF Scans!Init, ScansLoopOK, ScansWaits
<1>4. QED
  BY <1>1, <1>2, <1>3 DEF ScansIInv

-----------------------------------------------------------------------------
(* A look in an unscanned slot scans it *)

\* A slot that began while a process waited and is not scanned yet is due, and its lock free.
LEMMA ScansUnscannedIsDue ==
  ASSUME Scans!Constants, ScansIInv, MaxLag < SlotLen, NEW p \in Procs, NEW s \in ScanSlots,
         awake[p] # None, awake[p] <= s, s <= now, scans[s] = 0
  PROVE  s \in Scans!Due(p) /\ Scans!Locks!Free(s)
<1>1. on[p] /\ s \notin fired[p] /\ now - s <= lag[p]
  BY ScansFacts DEF ScansIInv, ScansLoopOK, ScansWaits
<1>2. lag[p] \in 0 .. MaxLag /\ s \in Nat /\ now \in Nat /\ SlotLen \in Nat /\ MaxLag \in Nat
  BY ScansFacts DEF ScansIInv, Scans!TypeOK, ScansConstantsFacts
<1>3. now < s + SlotLen
  BY <1>1, <1>2
<1>4. lock[s] = None
  BY DEF ScansIInv, ScansSlotOK
<1>5. QED
  BY <1>1, <1>3, <1>4 DEF Scans!Due, Scans!Locks!Free

-----------------------------------------------------------------------------
(* The steps *)

\* Tick keeps the invariant.
LEMMA ScansTickIInv ==
  ASSUME Scans!Constants, ScansIInv, Scans!Tick
  PROVE  ScansIInv'
<1>1. /\ now \in Nat /\ MaxLag \in Nat /\ ScanSlots \subseteq Nat /\ None \notin Nat
      /\ now' = now + 1 /\ UNCHANGED <<stored, on, loop, fired, lock, scans, awake>>
      /\ lag' = [p \in Procs |-> IF loop[p] = "idle" THEN lag[p] + 1 ELSE 0]
  BY ScansFacts DEF ScansIInv, Scans!TypeOK, ScansConstantsFacts, Scans!Tick
<1>2. ASSUME NEW p \in Procs
      PROVE  /\ lag[p] \in 0 .. MaxLag /\ lag'[p] \in 0 .. MaxLag
             /\ loop[p] = "idle" => lag'[p] = lag[p] + 1
  BY <1>1 DEF ScansIInv, Scans!TypeOK, Scans!Tick
<1>3. Scans!TypeOK'
  BY <1>1, <1>2 DEF ScansIInv, Scans!TypeOK
<1>4. \A s \in ScanSlots : ScansSlotOK(s)'
  BY <1>1 DEF ScansIInv, ScansSlotOK
<1>5. ASSUME NEW p \in Procs
      PROVE  ScansLoopOK(p)'
  BY <1>1 DEF ScansIInv, ScansLoopOK, Scans!TypeOK
<1>6. ASSUME NEW p \in Procs, NEW s \in ScanSlots
      PROVE  ScansWaits(p, s)'
  <2>1. ScansLoopOK(p) /\ ScansWaits(p, s) /\ s \in Nat
    BY <1>1 DEF ScansIInv
  <2>2. CASE s <= now
    BY <1>1, <1>2, <2>1, <2>2 DEF ScansLoopOK, ScansWaits
  <2>3. CASE ~ (s <= now)
    <3>1. s <= now' => now' - s = 0
      BY <1>1, <2>1, <2>3
    <3>2. QED
      BY <1>2, <3>1 DEF ScansWaits
  <2>4. QED
    BY <2>2, <2>3
<1>7. QED
  BY <1>3, <1>4, <1>5, <1>6 DEF ScansIInv

\* A step of one process that scans nothing: it starts or goes on to wait now, or
\* waits as before and has not looked, or does not wait.
LEMMA ScansQuietIInv ==
  ASSUME Scans!Constants, ScansIInv, NEW p \in Procs,
         UNCHANGED <<now, lock, scans>>,
         Scans!TypeOK',
         \A q \in Procs \ {p} : /\ on'[q] = on[q] /\ loop'[q] = loop[q] /\ lag'[q] = lag[q]
                                /\ fired'[q] = fired[q] /\ awake'[q] = awake[q],
         fired'[p] \subseteq fired[p],
         awake'[p] # None => on'[p] /\ loop'[p] = "idle",
         \/ awake'[p] \in {None, now}
         \/ awake'[p] = awake[p] /\ lag'[p] = lag[p]
  PROVE  ScansIInv'
<1>1. /\ now \in Nat /\ ScanSlots \subseteq Nat /\ now' = now /\ lag'[p] \in 0 .. MaxLag
      /\ MaxLag \in Nat
  BY ScansFacts DEF ScansIInv, Scans!TypeOK, ScansConstantsFacts
<1>2. \A s \in ScanSlots : ScansSlotOK(s)'
  BY DEF ScansIInv, ScansSlotOK
<1>3. ASSUME NEW q \in Procs, NEW s \in ScanSlots
      PROVE  ScansLoopOK(q)' /\ ScansWaits(q, s)'
  <2>1. CASE q # p
    BY <2>1 DEF ScansIInv, ScansLoopOK, ScansWaits
  <2>2. CASE q = p
    <3>1. ScansLoopOK(p)'
      BY <1>1 DEF ScansIInv, ScansLoopOK
    <3>2. CASE awake'[p] = now
      <4>1. s \in Nat
        BY <1>1
      <4>2. now <= s /\ s <= now => now - s = 0
        BY <1>1, <4>1
      <4>3. QED
        BY <1>1, <2>2, <3>1, <3>2, <4>2 DEF ScansWaits
    <3>3. CASE awake'[p] = None
      BY <2>2, <3>1, <3>3 DEF ScansWaits
    <3>4. CASE awake'[p] = awake[p] /\ lag'[p] = lag[p]
      BY <2>2, <3>1, <3>4 DEF ScansIInv, ScansWaits
    <3>5. QED
      BY <3>2, <3>3, <3>4
  <2>3. QED
    BY <2>1, <2>2
<1>4. \A q \in Procs : ScansLoopOK(q)'
  <2>1. ASSUME NEW q \in Procs
        PROVE  ScansLoopOK(q)'
    <3>1. CASE q # p
      BY <3>1 DEF ScansIInv, ScansLoopOK
    <3>2. CASE q = p
      BY <1>1, <3>2 DEF ScansIInv, ScansLoopOK
    <3>3. QED
      BY <3>1, <3>2
  <2>2. QED
    BY <2>1
<1>5. QED
  BY <1>2, <1>3, <1>4 DEF ScansIInv

\* The steps of a process that scan nothing keep the invariant.
LEMMA ScansProcessIInv ==
  ASSUME Scans!Constants, ScansIInv, NEW p \in Procs,
         Scans!Start(p) \/ Scans!Stop(p) \/ Scans!Finish(p)
           \/ \E enabled \in BOOLEAN : Scans!Save(p, enabled)
  PROVE  ScansIInv'
<1>1. /\ Scans!TypeOK /\ ScansLoopOK(p) /\ MaxLag \in Nat /\ now \in Nat
      /\ MaxLag \in 0 .. MaxLag /\ 0 \in 0 .. MaxLag
  BY ScansFacts DEF ScansIInv, Scans!TypeOK, ScansConstantsFacts
<1>2. CASE Scans!Start(p)
  <2>1. Scans!TypeOK'
    BY <1>1, <1>2 DEF Scans!Start, Scans!TypeOK
  <2>2. QED
    BY <1>1, <1>2, <2>1, ScansQuietIInv DEF Scans!Start, Scans!TypeOK
<1>3. CASE Scans!Stop(p)
  <2>1. Scans!TypeOK'
    BY <1>1, <1>3 DEF Scans!Stop, Scans!TypeOK
  <2>2. QED
    BY <1>1, <1>3, <2>1, ScansQuietIInv DEF Scans!Stop, Scans!TypeOK
<1>4. CASE Scans!Finish(p)
  <2>1. Scans!TypeOK'
    BY <1>1, <1>4 DEF Scans!Finish, Scans!TypeOK
  <2>2. QED
    BY <1>1, <1>4, <2>1, ScansQuietIInv DEF Scans!Finish, Scans!TypeOK
<1>5. ASSUME NEW enabled \in BOOLEAN, Scans!Save(p, enabled)
      PROVE  ScansIInv'
  <2>1. Scans!TypeOK'
    BY <1>1, <1>5 DEF Scans!Save, Scans!TypeOK
  <2>2. /\ UNCHANGED <<now, loop, lag, fired, lock, scans>>
        /\ on' = [on EXCEPT ![p] = enabled]
        /\ \A q \in Procs \ {p} : awake'[q] = awake[q]
        /\ awake'[p] \in {None, now} \/ awake'[p] = awake[p]
        /\ awake'[p] # None => enabled /\ loop[p] = "idle"
    BY <1>1, <1>5 DEF Scans!Save, Scans!TypeOK
  <2>3. QED
    BY <1>1, <2>1, <2>2, ScansQuietIInv DEF Scans!TypeOK
<1>6. QED
  BY <1>2, <1>3, <1>4, <1>5

\* Looks keeps the invariant.
LEMMA ScansLooksIInv ==
  ASSUME Scans!Constants, ScansIInv, MaxLag < SlotLen, NEW p \in Procs,
         Scans!Skip(p) \/ Scans!Scan(p)
  PROVE  ScansIInv'
<1>1. /\ Scans!TypeOK /\ MaxLag \in Nat /\ now \in Nat /\ 0 \in 0 .. MaxLag /\ ScanTTL \in Nat
      /\ SlotLen \in Nat /\ ScanSlots \subseteq Nat /\ None \notin Nat /\ SlotLen <= ScanTTL
  BY ScansFacts DEF ScansIInv, Scans!TypeOK, ScansConstantsFacts
<1>2. CASE Scans!Skip(p)
  <2>1. UNCHANGED <<now, stored, on, loop, fired, lock, scans, awake>>
          /\ lag' = [lag EXCEPT ![p] = 0]
    BY <1>2 DEF Scans!Skip, Scans!Looks
  <2>2. Scans!TypeOK'
    BY <1>1, <2>1 DEF Scans!TypeOK
  <2>3. ASSUME NEW s \in ScanSlots
        PROVE  ~ (awake[p] # None /\ awake[p] <= s /\ s <= now /\ scans[s] = 0)
    BY <1>2, ScansUnscannedIsDue DEF Scans!Skip
  <2>4. ASSUME NEW q \in Procs
        PROVE  ScansLoopOK(q)' /\ \A s \in ScanSlots : ScansWaits(q, s)'
    <3>1. ScansLoopOK(q)'
      BY <2>1 DEF ScansIInv, ScansLoopOK
    <3>2. CASE q = p
      BY <2>1, <2>3, <3>1, <3>2 DEF ScansWaits
    <3>3. CASE q # p
      <4>1. lag'[q] = lag[q]
        BY <1>1, <2>1, <3>3 DEF Scans!TypeOK
      <4>2. QED
        BY <2>1, <3>1, <4>1 DEF ScansIInv, ScansWaits
    <3>4. QED
      BY <3>2, <3>3
  <2>5. \A s \in ScanSlots : ScansSlotOK(s)'
    BY <2>1 DEF ScansIInv, ScansSlotOK
  <2>6. QED
    BY <2>2, <2>4, <2>5 DEF ScansIInv
<1>3. CASE Scans!Scan(p)
  <2>1. PICK s \in Scans!Due(p) :
          /\ Scans!Locks!Free(s) /\ Scans!Locks!Grant(s)
          /\ fired' = [fired EXCEPT ![p] = @ \cup {s}]
          /\ scans' = [scans EXCEPT ![s] = @ + 1]
    BY <1>3 DEF Scans!Scan
  <2>2. /\ UNCHANGED <<now, stored, on>> /\ lag' = [lag EXCEPT ![p] = 0]
        /\ loop' = [loop EXCEPT ![p] = "scanning"] /\ awake' = [awake EXCEPT ![p] = None]
    BY <1>3 DEF Scans!Scan, Scans!Looks
  <2>3. s \in ScanSlots /\ s \in Nat /\ s <= now /\ now < s + SlotLen
    BY <1>1 DEF Scans!Due
  <2>4. lock' = [lock EXCEPT ![s] = now + ScanTTL] /\ (lock[s] # None => lock[s] < now)
    BY <2>1 DEF Scans!Locks!Free, Scans!Locks!Grant
  <2>5. scans[s] = 0
    <3>1. ScansSlotOK(s)
      BY <2>3 DEF ScansIInv
    <3>2. CASE lock[s] \in Nat /\ s + SlotLen <= lock[s]
      BY <1>1, <2>3, <2>4, <3>2
    <3>3. QED
      BY <3>1, <3>2 DEF ScansSlotOK
  <2>6. now + ScanTTL \in Nat /\ s + SlotLen <= now + ScanTTL
    BY <1>1, <2>3
  <2>7. scans'[s] = 1 /\ lock'[s] = now + ScanTTL
    BY <1>1, <2>1, <2>3, <2>4, <2>5 DEF Scans!TypeOK
  <2>8. \A t \in ScanSlots : t # s => scans'[t] = scans[t] /\ lock'[t] = lock[t]
    BY <1>1, <2>1, <2>4 DEF Scans!TypeOK
  <2>9. Scans!TypeOK'
    <3>1. scans' \in [ScanSlots -> Nat] /\ lock' \in [ScanSlots -> Nat \cup {None}]
      BY <1>1, <2>1, <2>3, <2>4, <2>6 DEF Scans!TypeOK
    <3>2. fired' \in [Procs -> SUBSET ScanSlots] /\ lag' \in [Procs -> 0 .. MaxLag]
      BY <1>1, <2>1, <2>2, <2>3 DEF Scans!TypeOK
    <3>3. QED
      BY <1>1, <2>2, <3>1, <3>2 DEF Scans!TypeOK
  <2>10. ASSUME NEW t \in ScanSlots
         PROVE  /\ ScansSlotOK(t)' /\ (scans[t] > 0 => scans'[t] > 0)
                /\ (scans'[t] = 0 => scans[t] = 0)
    <3>1. CASE t = s
      BY <2>5, <2>6, <2>7, <3>1 DEF ScansSlotOK
    <3>2. CASE t # s
      BY <2>8, <3>2 DEF ScansIInv, ScansSlotOK
    <3>3. QED
      BY <3>1, <3>2
  <2>11. ASSUME NEW q \in Procs
         PROVE  ScansLoopOK(q)' /\ \A t \in ScanSlots : ScansWaits(q, t)'
    <3>1. fired[q] \subseteq ScanSlots /\ fired'[q] \subseteq fired[q] \cup {s}
      BY <1>1, <2>1 DEF Scans!TypeOK
    <3>2. \A t \in fired'[q] : scans'[t] > 0
      <4>1. \A t \in fired[q] : t \in ScanSlots /\ scans[t] > 0
        BY <3>1 DEF ScansIInv, ScansLoopOK
      <4>2. scans'[s] > 0
        BY <2>7
      <4>3. QED
        BY <2>10, <3>1, <4>1, <4>2
    <3>3. CASE q = p
      <4>1. awake'[q] = None
        BY <1>1, <2>2, <3>3 DEF Scans!TypeOK
      <4>2. QED
        BY <3>2, <4>1 DEF ScansLoopOK, ScansWaits
    <3>4. CASE q # p
      <4>1. awake'[q] = awake[q] /\ on'[q] = on[q] /\ loop'[q] = loop[q] /\ lag'[q] = lag[q]
        BY <1>1, <2>2, <3>4 DEF Scans!TypeOK
      <4>2. QED
        BY <2>2, <2>10, <3>2, <4>1 DEF ScansIInv, ScansLoopOK, ScansWaits
    <3>5. QED
      BY <3>3, <3>4
  <2>12. QED
    BY <2>9, <2>10, <2>11 DEF ScansIInv
<1>4. QED
  BY <1>2, <1>3

\* Every step keeps the invariant.
LEMMA ScansNextIInv ==
  ASSUME Scans!Constants, MaxLag < SlotLen, ScansIInv, [Scans!Next]_(Scans!vars)
  PROVE  ScansIInv'
<1>1. CASE UNCHANGED Scans!vars
  BY <1>1 DEF Scans!vars, ScansIInv, Scans!TypeOK, ScansSlotOK, ScansLoopOK, ScansWaits
<1>2. QED
  BY <1>1, ScansTickIInv, ScansProcessIInv, ScansLooksIInv DEF Scans!Next

\* No slot is scanned twice, and none is missed for which some process has waited from
\* its beginning.
LEMMA ScansServed ==
  ASSUME Scans!Constants, MaxLag < SlotLen, ScansIInv
  PROVE  Scans!TypeOK /\ Scans!OneScanPerSlot /\ Scans!SlotIsServed
<1>1. Scans!OneScanPerSlot
  BY DEF ScansIInv, ScansSlotOK, Scans!OneScanPerSlot
<1>2. ASSUME NEW s \in ScanSlots, NEW p \in Procs,
             awake[p] # None, awake[p] <= s, now >= s + SlotLen
      PROVE  scans[s] > 0
  <2>1. s \in Nat /\ now \in Nat /\ SlotLen \in Nat /\ scans[s] \in Nat
    BY ScansFacts DEF ScansIInv, Scans!TypeOK, ScansConstantsFacts
  <2>2. CASE scans[s] = 0
    <3>1. s <= now
      BY <1>2, <2>1
    <3>2. s \in Scans!Due(p)
      BY <1>2, <2>2, <3>1, ScansUnscannedIsDue
    <3>3. QED
      BY <1>2, <2>1, <3>2 DEF Scans!Due
  <2>3. QED
    BY <2>1, <2>2
<1>3. QED
  BY <1>1, <1>2 DEF ScansIInv, Scans!SlotIsServed

-----------------------------------------------------------------------------
(* The recovery scans: RecoveryScheduler *)

\* The latest time at which a loop that waits since since scans.
RecoveryLatest(since) == Recovery!Larger(since + Interval, lastScan + RecoveryTTL + 1)

\* No lock outlives the last scan by more than its life.
RecoveryLocksOK == \A s \in 0 .. RecoveryTime \div Interval : lock[s] # None
  => lock[s] <= lastScan + RecoveryTTL

\* A loop that waits is enabled and idle, its time comes no later than that, and when
\* that is over it has not looked since.
RecoveryWaitOK(p) ==
  /\ nextRun[p] <= now + Interval
  /\ awake[p] # None =>
       /\ on[p] /\ loop[p] = "idle" /\ awake[p] <= now
       /\ nextRun[p] <= RecoveryLatest(awake[p])
       /\ now <= RecoveryLatest(awake[p]) + lag[p]

\* The inductive invariant.
RecoveryIInv ==
  /\ Recovery!TypeOK
  /\ now <= RecoveryTime /\ lastScan <= now /\ RecoveryLocksOK
  /\ \A p \in Procs : RecoveryWaitOK(p)

\* What the invariant and the assumptions say of the numbers.
LEMMA RecoveryNumbers ==
  ASSUME Recovery!Constants, RecoveryIInv
  PROVE  /\ Interval \in Nat /\ Interval > 0 /\ RecoveryTTL \in Nat /\ MaxLag \in Nat
         /\ RecoveryTime \in Nat
         /\ None \notin Nat /\ now \in Nat /\ lastScan \in Nat
         /\ 0 \in 0 .. MaxLag /\ MaxLag \in 0 .. MaxLag
BY DEF Recovery!Constants, RecoveryIInv, Recovery!TypeOK

\* The numbers of the intervals grow with the clock.
LEMMA RecoverySlotsInOrder ==
  ASSUME NEW a \in Nat, NEW b \in Nat, NEW n \in Nat, n > 0, a <= b
  PROVE  a \div n \in 0 .. (b \div n)
<1>1. a \div n \in Int /\ b \div n \in Int
  OBVIOUS
<1>2. /\ n * (a \div n) <= a /\ a < n * (a \div n) + n
      /\ n * (b \div n) <= b /\ b < n * (b \div n) + n
  OBVIOUS
<1>3. a \div n >= 0
  BY <1>1, <1>2
<1>4. a \div n <= b \div n
  BY <1>1, <1>2
<1>5. QED
  BY <1>1, <1>3, <1>4

\* The invariant holds at first.
LEMMA RecoveryInitIInv ==
  ASSUME Recovery!Constants
  PROVE  Recovery!Init => RecoveryIInv
<1> SUFFICES ASSUME Recovery!Init PROVE RecoveryIInv
  OBVIOUS
<1>1. /\ Interval \in Nat /\ RecoveryTTL \in Nat /\ MaxLag \in Nat /\ RecoveryTime \in Nat
      /\ 0 \in 0 .. MaxLag
  BY DEF Recovery!Constants
<1>2. Recovery!TypeOK
  BY <1>1 DEF Recovery!Init, Recovery!TypeOK
<1>3. now <= RecoveryTime /\ lastScan <= now /\ RecoveryLocksOK
  BY <1>1 DEF Recovery!Init, RecoveryLocksOK
<1>4. ASSUME NEW p \in Procs
      PROVE  RecoveryWaitOK(p)
  <2>1. now = 0 /\ nextRun[p] = 0 /\ awake[p] = None
    BY DEF Recovery!Init
  <2>2. 0 <= 0 + Interval
    BY <1>1
  <2>3. QED
    BY <2>1, <2>2 DEF RecoveryWaitOK
<1>5. QED
  BY <1>2, <1>3, <1>4 DEF RecoveryIInv

-----------------------------------------------------------------------------
(* The steps *)

\* Tick keeps the invariant.
LEMMA RecoveryTickIInv ==
  ASSUME Recovery!Constants, RecoveryIInv, Recovery!Tick
  PROVE  RecoveryIInv'
<1>1. /\ now < RecoveryTime /\ now' = now + 1
      /\ \A p \in Procs : loop[p] = "idle" => lag[p] < MaxLag
      /\ lag' = [p \in Procs |-> IF loop[p] = "idle" THEN lag[p] + 1 ELSE 0]
      /\ UNCHANGED <<stored, on, loop, nextRun, lock, lastScan, awake>>
  BY DEF Recovery!Tick
<1>2. lag' \in [Procs -> 0 .. MaxLag]
  BY <1>1, RecoveryNumbers DEF RecoveryIInv, Recovery!TypeOK
<1>3. Recovery!TypeOK'
  BY <1>1, <1>2, RecoveryNumbers DEF RecoveryIInv, Recovery!TypeOK
<1>4. now' <= RecoveryTime /\ lastScan' <= now' /\ RecoveryLocksOK'
  BY <1>1, RecoveryNumbers DEF RecoveryIInv, RecoveryLocksOK
<1>5. ASSUME NEW p \in Procs
      PROVE  RecoveryWaitOK(p)'
  <2>1. /\ RecoveryWaitOK(p) /\ nextRun[p] \in Nat /\ lag[p] \in Nat
        /\ awake[p] # None => awake[p] \in Nat
    BY RecoveryNumbers DEF RecoveryIInv, Recovery!TypeOK
  <2>2. loop[p] = "idle" => lag'[p] = lag[p] + 1
    BY <1>1
  <2>3. QED
    BY <1>1, <2>1, <2>2, RecoveryNumbers DEF RecoveryWaitOK, RecoveryLatest, Recovery!Larger
<1>6. QED
  BY <1>3, <1>4, <1>5 DEF RecoveryIInv

\* A step of one process that scans nothing and keeps its own wait in order.
LEMMA RecoveryQuietIInv ==
  ASSUME Recovery!Constants, RecoveryIInv, NEW p \in Procs,
         UNCHANGED <<now, lock, lastScan>>,
         Recovery!TypeOK', RecoveryWaitOK(p)',
         \A q \in Procs \ {p} : /\ on'[q] = on[q] /\ loop'[q] = loop[q] /\ lag'[q] = lag[q]
                                /\ nextRun'[q] = nextRun[q] /\ awake'[q] = awake[q]
  PROVE  RecoveryIInv'
<1>1. ASSUME NEW q \in Procs, q # p
      PROVE  RecoveryWaitOK(q)'
  BY <1>1 DEF RecoveryIInv, RecoveryWaitOK, RecoveryLatest
<1>2. QED
  BY <1>1 DEF RecoveryIInv, RecoveryLocksOK

\* A loop that begins to wait, or stops waiting, and the time it may be given.
LEMMA RecoveryBeginsToWait ==
  ASSUME Recovery!Constants, RecoveryIInv, NEW p \in Procs,
         UNCHANGED <<now, lastScan>>, nextRun'[p] \in Nat, lag'[p] \in Nat,
         nextRun'[p] <= now + Interval,
         \/ awake'[p] = None
         \/ awake'[p] = now /\ on'[p] /\ loop'[p] = "idle"
  PROVE  RecoveryWaitOK(p)'
BY RecoveryNumbers DEF RecoveryWaitOK, RecoveryLatest, Recovery!Larger

\* The steps of a process keep the invariant.
LEMMA RecoveryProcessIInv ==
  ASSUME Recovery!Constants, RecoveryIInv, NEW p \in Procs,
         Recovery!Start(p) \/ Recovery!Stop(p) \/ Recovery!Finish(p)
           \/ \E enabled \in BOOLEAN : Recovery!Save(p, enabled)
  PROVE  RecoveryIInv'
<1>1. Recovery!TypeOK /\ RecoveryWaitOK(p) /\ now + Interval \in Nat
  BY RecoveryNumbers DEF RecoveryIInv
<1>2. CASE Recovery!Start(p)
  <2>1. Recovery!TypeOK'
    BY <1>1, <1>2, RecoveryNumbers DEF Recovery!Start, Recovery!TypeOK
  <2>2. RecoveryWaitOK(p)'
    BY <1>1, <1>2, <2>1, RecoveryNumbers, RecoveryBeginsToWait DEF Recovery!Start, Recovery!TypeOK
  <2>3. QED
    BY <1>1, <1>2, <2>1, <2>2, RecoveryQuietIInv DEF Recovery!Start, Recovery!TypeOK
<1>3. CASE Recovery!Stop(p)
  <2>1. Recovery!TypeOK'
    BY <1>1, <1>3, RecoveryNumbers DEF Recovery!Stop, Recovery!TypeOK
  <2>2. RecoveryWaitOK(p)'
    BY <1>1, <1>3, <2>1, RecoveryNumbers, RecoveryBeginsToWait DEF Recovery!Stop, Recovery!TypeOK
  <2>3. QED
    BY <1>1, <1>3, <2>1, <2>2, RecoveryQuietIInv DEF Recovery!Stop, Recovery!TypeOK
<1>4. CASE Recovery!Finish(p)
  <2>1. Recovery!TypeOK'
    BY <1>1, <1>4, RecoveryNumbers DEF Recovery!Finish, Recovery!TypeOK
  <2>2. RecoveryWaitOK(p)'
    <3>1. nextRun[p] \in Nat /\ nextRun[p] <= now + Interval
      BY <1>1 DEF Recovery!TypeOK, RecoveryWaitOK
    <3>2. /\ UNCHANGED <<now, lastScan, nextRun>> /\ lag'[p] = 0 /\ loop'[p] = "idle"
          /\ awake'[p] = IF on[p] THEN now ELSE None
          /\ on'[p] = on[p]
      BY <1>1, <1>4 DEF Recovery!Finish, Recovery!TypeOK
    <3>3. QED
      BY <3>1, <3>2, RecoveryBeginsToWait
  <2>3. QED
    BY <1>1, <1>4, <2>1, <2>2, RecoveryQuietIInv DEF Recovery!Finish, Recovery!TypeOK
<1>5. ASSUME NEW enabled \in BOOLEAN, Recovery!Save(p, enabled)
      PROVE  RecoveryIInv'
  <2>1. Recovery!TypeOK'
    BY <1>1, <1>5, RecoveryNumbers DEF Recovery!Save, Recovery!TypeOK
  <2>2. /\ UNCHANGED <<now, loop, lag, lock, lastScan>> /\ on'[p] = enabled
        /\ nextRun'[p] = IF enabled THEN now + Interval ELSE 0
        /\ awake'[p] = IF enabled /\ loop[p] = "idle" THEN now ELSE None
    BY <1>1, <1>5 DEF Recovery!Save, Recovery!TypeOK
  <2>3. RecoveryWaitOK(p)'
    <3>1. lag'[p] \in Nat /\ nextRun'[p] \in Nat /\ nextRun'[p] <= now + Interval
      BY <1>1, <2>1, <2>2, RecoveryNumbers DEF Recovery!TypeOK
    <3>2. \/ awake'[p] = None
          \/ awake'[p] = now /\ on'[p] /\ loop'[p] = "idle"
      BY <2>2
    <3>3. QED
      BY <2>2, <3>1, <3>2, RecoveryBeginsToWait
  <2>4. QED
    BY <1>1, <1>5, <2>1, <2>3, RecoveryQuietIInv DEF Recovery!Save, Recovery!TypeOK
<1>6. QED
  BY <1>2, <1>3, <1>4, <1>5

\* Looks keeps the invariant.
LEMMA RecoveryLooksIInv ==
  ASSUME Recovery!Constants, RecoveryIInv, NEW p \in Procs, Recovery!Skip(p) \/ Recovery!Wait(p)
  PROVE  RecoveryIInv'
<1>1. /\ Recovery!TypeOK /\ RecoveryWaitOK(p) /\ now + 1 \in Nat /\ now \in Nat
      /\ nextRun[p] \in Nat
      /\ awake[p] # None => awake[p] \in Nat
  BY RecoveryNumbers DEF RecoveryIInv, Recovery!TypeOK
<1>2. /\ UNCHANGED <<now, stored, on, loop, lock, lastScan, awake>>
      /\ lag' = [lag EXCEPT ![p] = 0]
  BY DEF Recovery!Skip, Recovery!Wait, Recovery!Looks
<1>3. CASE Recovery!Skip(p)
  <2>1. nextRun' = nextRun /\ (on[p] => now < nextRun[p])
    BY <1>1, <1>3 DEF Recovery!Skip, Recovery!Due
  <2>2. Recovery!TypeOK'
    BY <1>1, <1>2, <2>1, RecoveryNumbers DEF Recovery!TypeOK
  <2>3. lag'[p] = 0
    BY <1>1, <1>2 DEF Recovery!TypeOK
  <2>4. RecoveryWaitOK(p)'
    BY <1>1, <1>2, <2>1, <2>3, RecoveryNumbers DEF RecoveryWaitOK, RecoveryLatest, Recovery!Larger
  <2>5. QED
    BY <1>1, <1>2, <2>1, <2>2, <2>4, RecoveryQuietIInv DEF Recovery!TypeOK
<1>4. CASE Recovery!Wait(p)
  <2>1. nextRun' = [nextRun EXCEPT ![p] = now + 1] /\ ~ Recovery!Locks!Free(Recovery!TimeSlot)
    BY <1>4 DEF Recovery!Wait
  <2>2. Recovery!TypeOK'
    BY <1>1, <1>2, <2>1, RecoveryNumbers DEF Recovery!TypeOK
  <2>3. lag'[p] = 0 /\ nextRun'[p] = now + 1
    BY <1>1, <1>2, <2>1 DEF Recovery!TypeOK
  <2>4. now <= lastScan + RecoveryTTL
    <3>1. Recovery!TimeSlot \in 0 .. RecoveryTime \div Interval
      BY RecoveryNumbers, RecoverySlotsInOrder DEF RecoveryIInv, Recovery!TimeSlot
    <3>2. lock[Recovery!TimeSlot] # None /\ ~ (lock[Recovery!TimeSlot] < now)
      BY <2>1 DEF Recovery!Locks!Free
    <3>3. lock[Recovery!TimeSlot] \in Nat /\ lock[Recovery!TimeSlot] <= lastScan + RecoveryTTL
      BY <1>1, <3>1, <3>2 DEF RecoveryIInv, RecoveryLocksOK, Recovery!TypeOK
    <3>4. QED
      BY <3>2, <3>3, RecoveryNumbers
  <2>5. RecoveryWaitOK(p)'
    BY <1>1, <1>2, <2>3, <2>4, RecoveryNumbers DEF RecoveryWaitOK, RecoveryLatest, Recovery!Larger
  <2>6. QED
    BY <1>1, <1>2, <2>1, <2>2, <2>5, RecoveryQuietIInv DEF Recovery!TypeOK
<1>5. QED
  BY <1>3, <1>4

\* Scan keeps the invariant.
LEMMA RecoveryScanIInv ==
  ASSUME Recovery!Constants, RecoveryIInv, NEW p \in Procs, Recovery!Scan(p)
  PROVE  RecoveryIInv'
<1>1. /\ Recovery!TypeOK /\ now + Interval \in Nat /\ now + RecoveryTTL \in Nat /\ lastScan <= now
  BY RecoveryNumbers DEF RecoveryIInv
<1>2. /\ UNCHANGED <<now, stored, on>> /\ lastScan' = now
      /\ lag' = [lag EXCEPT ![p] = 0] /\ awake' = [awake EXCEPT ![p] = None]
      /\ nextRun' = [nextRun EXCEPT ![p] = now + Interval]
      /\ loop' = [loop EXCEPT ![p] = "scanning"]
      /\ lock' = [lock EXCEPT ![Recovery!TimeSlot] = now + RecoveryTTL]
  BY DEF Recovery!Scan, Recovery!Looks, Recovery!Locks!Grant
<1>3. Recovery!TypeOK'
  <2>1. lock' \in [0 .. RecoveryTime \div Interval -> Nat \cup {None}]
    BY <1>1, <1>2 DEF Recovery!TypeOK
  <2>2. QED
    BY <1>1, <1>2, <2>1, RecoveryNumbers DEF Recovery!TypeOK
<1>4. RecoveryLocksOK'
  <2>1. ASSUME NEW s \in 0 .. RecoveryTime \div Interval
        PROVE  lock'[s] # None => lock'[s] <= now + RecoveryTTL
    <3>1. lock[s] # None => lock[s] \in Nat /\ lock[s] <= lastScan + RecoveryTTL
      BY <1>1 DEF RecoveryIInv, RecoveryLocksOK, Recovery!TypeOK
    <3>2. lock'[s] = lock[s] \/ lock'[s] = now + RecoveryTTL
      BY <1>1, <1>2 DEF Recovery!TypeOK
    <3>3. QED
      BY <1>1, <3>1, <3>2, RecoveryNumbers
  <2>2. QED
    BY <1>2, <2>1 DEF RecoveryLocksOK
<1>5. ASSUME NEW q \in Procs
      PROVE  RecoveryWaitOK(q)'
  <2>1. CASE q = p
    BY <1>1, <1>2, <2>1, RecoveryNumbers DEF Recovery!TypeOK, RecoveryWaitOK
  <2>2. CASE q # p
    <3>1. /\ awake'[q] = awake[q] /\ nextRun'[q] = nextRun[q] /\ lag'[q] = lag[q]
          /\ loop'[q] = loop[q]
      BY <1>1, <1>2, <2>2 DEF Recovery!TypeOK
    <3>2. /\ RecoveryWaitOK(q) /\ nextRun[q] \in Nat /\ lag[q] \in Nat
          /\ awake[q] # None => awake[q] \in Nat
      BY RecoveryNumbers DEF RecoveryIInv, Recovery!TypeOK
    <3>3. QED
      BY <1>1, <1>2, <3>1, <3>2, RecoveryNumbers
         DEF RecoveryWaitOK, RecoveryLatest, Recovery!Larger
  <2>3. QED
    BY <2>1, <2>2
<1>6. QED
  BY <1>1, <1>2, <1>3, <1>4, <1>5, RecoveryNumbers DEF RecoveryIInv

\* Every step keeps the invariant.
LEMMA RecoveryNextIInv ==
  ASSUME Recovery!Constants, RecoveryIInv, [Recovery!Next]_(Recovery!vars)
  PROVE  RecoveryIInv'
<1>1. CASE UNCHANGED Recovery!vars
  BY <1>1
     DEF Recovery!vars, RecoveryIInv, Recovery!TypeOK, RecoveryLocksOK, RecoveryWaitOK,
         RecoveryLatest
<1>2. QED
  BY <1>1, RecoveryTickIInv, RecoveryProcessIInv, RecoveryLooksIInv, RecoveryScanIInv
     DEF Recovery!Next

\* What the invariant says of RecoveryIsRegular.
LEMMA RecoveryRegular ==
  ASSUME Recovery!Constants, RecoveryIInv
  PROVE  Recovery!RecoveryIsRegular
<1>1. ASSUME NEW p \in Procs, awake[p] # None
      PROVE  now <= RecoveryLatest(awake[p]) + MaxLag
  <2>1. /\ awake[p] \in Nat /\ lag[p] \in 0 .. MaxLag
        /\ now <= RecoveryLatest(awake[p]) + lag[p]
    BY <1>1 DEF RecoveryIInv, Recovery!TypeOK, RecoveryWaitOK
  <2>2. QED
    BY <2>1, RecoveryNumbers DEF RecoveryLatest, Recovery!Larger
<1>2. QED
  BY <1>1 DEF Recovery!RecoveryIsRegular, RecoveryLatest

-----------------------------------------------------------------------------
(* The quota history: QuotaHistory *)

\* Its sets are counted as ours are.
LEMMA HistorySets ==
  /\ \A S : History!Cardinality(S) = Cardinality(S)
  /\ \A S : History!IsFiniteSet(S) <=> IsFiniteSet(S)
BY DEF History!Cardinality, Cardinality, History!IsFiniteSet, IsFiniteSet

\* There is one realtime run at most, and nothing in a run or remembered by a scan is
\* from later than now.
HistoryRealtimeIsOne(s) == \A i, k \in History!RealtimeRuns(s) : i = k
HistoryNoLaterThanNow(s, p) == \A i \in DOMAIN s : s[i].res[p] # None => s[i].res[p].at <= now
HistoryOldIsOld(c, p) == scan[c] # None /\ scan[c].old[p] # None => scan[c].old[p].at <= now

\* A scan says something of every account, the realtime run only what was heard.
HistoryRowOK(run, p) == IF run.realtime THEN run.res[p] # None => run.res[p].val # None
                                        ELSE run.res[p] # None
HistoryRowsOK(s, p) == \A i \in DOMAIN s : HistoryRowOK(s[i], p)

\* A gap in the latest scan has nothing before it to be filled with, unless something
\* was heard since.
HistoryGapOK(s, p) ==
  History!ScanRuns(s) # {} =>
    LET b == s[History!Base(s)].res[p]
    IN  \/ b.val # None
        \/ History!Backfill(s, History!Base(s), p) = None
        \/ History!Rt(s) # 0 /\ History!Overrules(s[History!Rt(s)].res[p], b)

\* The inductive invariant.
HistoryRunsOK(s) ==
  /\ s \in Seq(History!Run) /\ Len(s) <= KeepScans
  /\ HistoryRealtimeIsOne(s)
  /\ \A p \in Profiles : HistoryNoLaterThanNow(s, p) /\ HistoryRowsOK(s, p)

HistoryIInv ==
  /\ History!TypeOK
  /\ HistoryRunsOK(runs)
  /\ \A c \in Scanners, p \in Profiles : HistoryOldIsOld(c, p)
  /\ Backfills \subseteq {TRUE} => \A p \in Profiles : HistoryGapOK(runs, p)

-----------------------------------------------------------------------------
(* The newest of some runs *)

\* The newest of a set of runs is one of them, and 0 when there is none.
LEMMA HistoryNewestIs ==
  ASSUME NEW n \in Nat, NEW I \in SUBSET (1 .. n)
  PROVE  /\ I = {} => History!Newest(I) = 0
         /\ I # {} => /\ History!Newest(I) \in I /\ History!Newest(I) # 0
                      /\ \A k \in I : k <= History!Newest(I)
<1>1. CASE I = {}
  BY <1>1 DEF History!Newest
<1>2. CASE I # {}
  <2>1. \E m \in I : \A k \in I : k <= m
    BY <1>2, LastExists
  <2>2. History!Newest(I) = CHOOSE m \in I : \A k \in I : k <= m
    BY <1>2 DEF History!Newest
  <2>3. History!Newest(I) \in I /\ \A k \in I : k <= History!Newest(I)
    BY <2>1, <2>2
  <2>4. History!Newest(I) # 0
    BY <2>3
  <2>5. QED
    BY <1>2, <2>3, <2>4
<1>3. QED
  BY <1>1, <1>2

\* What is no older than any is the newest.
LEMMA HistoryNewestEq ==
  ASSUME NEW n \in Nat, NEW I \in SUBSET (1 .. n), NEW i \in I, \A k \in I : k <= i
  PROVE  History!Newest(I) = i
<1>1. History!Newest(I) \in I /\ i <= History!Newest(I) /\ History!Newest(I) <= i
  BY HistoryNewestIs
<1>2. i \in Int /\ History!Newest(I) \in Int
  <2>1. \A k \in I : k \in Int
    OBVIOUS
  <2>2. QED
    BY <1>1, <2>1
<1>3. QED
  BY <1>1, <1>2

-----------------------------------------------------------------------------
(* Runs and their rows *)

\* A row of a run is a cell or missing.
LEMMA HistoryRowIs ==
  ASSUME NEW s \in Seq(History!Run), NEW i \in 1 .. Len(s), NEW p \in Profiles
  PROVE  /\ s[i] \in History!Run /\ s[i].realtime \in BOOLEAN
         /\ s[i].res \in History!Results /\ s[i].res[p] \in History!Cell \cup {None}
<1>1. s[i] \in History!Run
  BY ElementOfSeq
<1>2. s[i].realtime \in BOOLEAN /\ s[i].res \in History!Results
  BY <1>1 DEF History!Run
<1>3. QED
  BY <1>1, <1>2 DEF History!Results

\* A cell, and one with another value, or value and time, in it.
HistoryWithVal(c, v) == [c EXCEPT !.val = v]
HistoryWithBoth(c, v, t) == [c EXCEPT !.val = v, !.at = t]

\* The fields of a result.
LEMMA HistoryCellIs ==
  ASSUME NEW c \in History!Cell
  PROVE  /\ c.val \in QuotaHeard \cup {None} /\ c.ok \in BOOLEAN /\ c.at \in 0 .. HistoryTime
BY DEF History!Cell

\* A result that is filled in is a result.
LEMMA HistoryWithValIs ==
  ASSUME History!Constants, NEW c \in History!Cell, NEW v \in QuotaHeard \cup {None}
  PROVE  /\ HistoryWithVal(c, v) \in History!Cell /\ HistoryWithVal(c, v) # None
         /\ HistoryWithVal(c, v).val = v /\ HistoryWithVal(c, v).at = c.at
<1>1. /\ HistoryWithVal(c, v) \in History!Cell /\ HistoryWithVal(c, v).val = v
      /\ HistoryWithVal(c, v).at = c.at
  BY DEF History!Cell, HistoryWithVal
<1>2. QED
  BY <1>1 DEF History!Constants

\* A result with a realtime value is a result.
LEMMA HistoryWithBothIs ==
  ASSUME History!Constants, NEW c \in History!Cell, NEW v \in QuotaHeard \cup {None},
         NEW t \in 0 .. HistoryTime
  PROVE  /\ HistoryWithBoth(c, v, t) \in History!Cell /\ HistoryWithBoth(c, v, t) # None
         /\ HistoryWithBoth(c, v, t).val = v /\ HistoryWithBoth(c, v, t).at = t
<1>1. /\ HistoryWithBoth(c, v, t) \in History!Cell /\ HistoryWithBoth(c, v, t).val = v
      /\ HistoryWithBoth(c, v, t).at = t
  BY DEF History!Cell, HistoryWithBoth
<1>2. QED
  BY <1>1 DEF History!Constants

\* The same with what another cell says.
LEMMA HistoryOverruledIs ==
  ASSUME History!Constants, NEW b \in History!Cell, NEW r \in History!Cell
  PROVE  /\ HistoryWithVal(b, r.val) # None /\ HistoryWithVal(b, r.val).val = r.val
         /\ HistoryWithBoth(b, r.val, r.at) \in History!Cell
         /\ HistoryWithBoth(b, r.val, r.at) # None
         /\ HistoryWithBoth(b, r.val, r.at).val = r.val
         /\ HistoryWithBoth(b, r.val, r.at).at = r.at
<1>1. r.val \in QuotaHeard \cup {None} /\ r.at \in 0 .. HistoryTime
  BY HistoryCellIs
<1>2. QED
  BY <1>1, HistoryWithValIs, HistoryWithBothIs

\* Where the tables are read.
LEMMA HistoryPlacesAre ==
  ASSUME NEW s \in Seq(History!Run)
  PROVE  /\ DOMAIN s = 1 .. Len(s) /\ Len(s) \in Nat
         /\ History!ScanRuns(s) \in SUBSET (1 .. Len(s))
         /\ History!RealtimeRuns(s) \in SUBSET (1 .. Len(s))
         /\ History!Rt(s) = 0 <=> History!RealtimeRuns(s) = {}
         /\ History!Rt(s) # 0 => History!Rt(s) \in History!RealtimeRuns(s)
              /\ History!Rt(s) \in 1 .. Len(s)
         /\ History!ScanRuns(s) # {} => /\ History!Base(s) \in History!ScanRuns(s)
              /\ History!Base(s) \in 1 .. Len(s)
                                        /\ History!Base(s) # History!Rt(s)
         /\ s # <<>> => History!Base(s) \in 1 .. Len(s)
         /\ s # <<>> /\ History!ScanRuns(s) = {} => History!Base(s) = History!Rt(s)
<1>1. DOMAIN s = 1 .. Len(s) /\ Len(s) \in Nat
  BY LenProperties
<1>2. /\ History!ScanRuns(s) \in SUBSET (1 .. Len(s))
      /\ History!RealtimeRuns(s) \in SUBSET (1 .. Len(s))
  BY <1>1 DEF History!ScanRuns, History!RealtimeRuns
<1>3. /\ History!Rt(s) = 0 <=> History!RealtimeRuns(s) = {}
      /\ History!Rt(s) # 0 => History!Rt(s) \in History!RealtimeRuns(s)
           /\ History!Rt(s) \in 1 .. Len(s)
  BY <1>1, <1>2, HistoryNewestIs DEF History!Rt
<1>4. History!ScanRuns(s) # {} => History!Base(s) \in History!ScanRuns(s)
        /\ History!Base(s) \in 1 .. Len(s)
  BY <1>1, <1>2, HistoryNewestIs DEF History!Base
<1>5. History!ScanRuns(s) # {} => History!Base(s) # History!Rt(s)
  <2>1. \A i \in History!ScanRuns(s) : i \notin History!RealtimeRuns(s) /\ i # 0
    BY <1>1 DEF History!ScanRuns, History!RealtimeRuns
  <2>2. QED
    BY <1>3, <1>4, <2>1
<1>6. s # <<>> => History!ScanRuns(s) # {} \/ History!RealtimeRuns(s) # {}
  <2>1. ASSUME s # <<>>
        PROVE  1 \in DOMAIN s
    BY <1>1, <2>1, EmptySeq
  <2>2. QED
    BY <2>1 DEF History!ScanRuns, History!RealtimeRuns
<1>7. s # <<>> /\ History!ScanRuns(s) = {} => History!Base(s) = History!Rt(s)
  BY DEF History!Base, History!Rt
<1>8. s # <<>> => History!Base(s) \in 1 .. Len(s)
  BY <1>3, <1>4, <1>6, <1>7
<1>9. QED
  BY <1>1, <1>2, <1>3, <1>4, <1>5, <1>7, <1>8

\* Where gaps are filled from.
HistorySuccesses(s, n, p) == {k \in 1 .. n - 1 : s[k].res[p] # None /\ s[k].res[p].ok}

\* What is filled in is the value of the last success before, if there is one.
LEMMA HistoryBackfillIs ==
  ASSUME NEW s \in Seq(History!Run), NEW n \in 1 .. Len(s), NEW p \in Profiles
  PROVE  /\ History!Backfill(s, n, p) \in QuotaHeard \cup {None}
         /\ HistorySuccesses(s, n, p) = {} => History!Backfill(s, n, p) = None
         /\ \A i \in HistorySuccesses(s, n, p) :
              (\A k \in HistorySuccesses(s, n, p) : k <= i)
                => History!Backfill(s, n, p) = s[i].res[p].val
         /\ HistorySuccesses(s, n, p) # {} =>
              \E i \in HistorySuccesses(s, n, p) : /\ \A k \in HistorySuccesses(s, n, p) : k <= i
                                                   /\ History!Backfill(s, n, p) = s[i].res[p].val
<1> DEFINE I == HistorySuccesses(s, n, p)
<1>1. Len(s) \in Nat /\ I \in SUBSET (1 .. Len(s))
  BY HistoryPlacesAre DEF HistorySuccesses
<1>2. History!Backfill(s, n, p) = IF History!Newest(I) = 0 THEN None
        ELSE s[History!Newest(I)].res[p].val
  BY DEF History!Backfill, HistorySuccesses
<1>3. CASE I = {}
  BY <1>1, <1>2, <1>3, HistoryNewestIs
<1>4. CASE I # {}
  <2>1. History!Newest(I) \in I /\ History!Newest(I) # 0 /\ \A k \in I : k <= History!Newest(I)
    BY <1>1, <1>4, HistoryNewestIs
  <2>2. History!Backfill(s, n, p) = s[History!Newest(I)].res[p].val
    BY <1>2, <2>1
  <2>3. s[History!Newest(I)].res[p] \in History!Cell
    <3>1. History!Newest(I) \in 1 .. Len(s) /\ s[History!Newest(I)].res[p] # None
      BY <1>1, <2>1 DEF HistorySuccesses
    <3>2. QED
      BY <3>1, HistoryRowIs
  <2>4. \A i \in I : (\A k \in I : k <= i) => History!Newest(I) = i
    BY <1>1, HistoryNewestEq
  <2>5. QED
    BY <1>4, <2>1, <2>2, <2>3, <2>4, HistoryCellIs
<1>5. QED
  BY <1>3, <1>4

\* Filling in changes a result that has no value only.
LEMMA HistoryFilledIs ==
  ASSUME History!Constants, NEW s \in Seq(History!Run), NEW n \in 1 .. Len(s), NEW p \in Profiles,
         NEW b \in History!Cell \cup {None}
  PROVE  /\ History!Filled(s, n, p, b) \in History!Cell \cup {None}
         /\ History!Filled(s, n, p, b) = None <=> b = None
         /\ b # None => /\ History!Filled(s, n, p, b).at = b.at
                        /\ History!Filled(s, n, p, b).val =
                             IF b.val = None THEN History!Backfill(s, n, p) ELSE b.val
<1>1. CASE b = None
  BY <1>1 DEF History!Filled
<1>2. CASE b # None /\ b.val # None
  BY <1>2 DEF History!Filled
<1>3. CASE b # None /\ b.val = None
  <2>1. b \in History!Cell /\ History!Backfill(s, n, p) \in QuotaHeard \cup {None}
    BY <1>3, HistoryBackfillIs
  <2>2. History!Filled(s, n, p, b) = HistoryWithVal(b, History!Backfill(s, n, p))
    BY <1>3 DEF History!Filled, HistoryWithVal
  <2>3. HistoryWithVal(b, History!Backfill(s, n, p)) # None
    BY <2>1, HistoryWithValIs
  <2>4. QED
    BY <1>3, <2>1, <2>2, <2>3, HistoryWithValIs
<1>4. QED
  BY <1>1, <1>2, <1>3

\* What the page shows of an account is a result no later than now.
LEMMA HistoryShownIs ==
  ASSUME History!Constants, now \in 0 .. HistoryTime,
         NEW s \in Seq(History!Run), NEW p \in Profiles, HistoryNoLaterThanNow(s, p)
  PROVE  /\ History!Shown(s, p) \in History!Cell \cup {None}
         /\ History!Shown(s, p) # None => History!Shown(s, p).at <= now
<1>1. CASE s = <<>>
  BY <1>1 DEF History!Shown
<1>2. CASE s # <<>>
  <2> DEFINE b == History!Filled(s, History!Base(s), p, s[History!Base(s)].res[p])
             r == s[History!Rt(s)].res[p]
  <2>1. /\ History!Base(s) \in 1 .. Len(s) /\ DOMAIN s = 1 .. Len(s)
        /\ History!Rt(s) # 0 => History!Rt(s) \in 1 .. Len(s)
    BY <1>2, HistoryPlacesAre
  <2>2. /\ s[History!Base(s)].res[p] \in History!Cell \cup {None}
        /\ s[History!Base(s)].res[p] # None => s[History!Base(s)].res[p].at <= now
    BY <2>1, HistoryRowIs DEF HistoryNoLaterThanNow
  <2>3. b \in History!Cell \cup {None} /\ (b # None => b.at <= now)
    <3>1. b \in History!Cell \cup {None} /\ (b = None <=> s[History!Base(s)].res[p] = None)
      BY <2>1, <2>2, HistoryFilledIs
    <3>2. b # None => b.at = s[History!Base(s)].res[p].at
      BY <2>1, <2>2, HistoryFilledIs
    <3>3. QED
      BY <2>2, <3>1, <3>2
  <2>4. \/ History!Shown(s, p) = b
        \/ /\ History!Rt(s) # 0 /\ b # None /\ History!Overrules(r, b)
           /\ History!Shown(s, p) = [b EXCEPT !.val = r.val, !.at = r.at]
    BY <1>2 DEF History!Shown
  <2>5. CASE History!Shown(s, p) = b
    BY <2>3, <2>5
  <2>6. CASE /\ History!Rt(s) # 0 /\ b # None /\ History!Overrules(r, b)
             /\ History!Shown(s, p) = [b EXCEPT !.val = r.val, !.at = r.at]
    <3>1. r \in History!Cell /\ r.at <= now
      BY <2>1, <2>6, HistoryRowIs DEF HistoryNoLaterThanNow, History!Overrules
    <3>2. b \in History!Cell /\ History!Shown(s, p) = HistoryWithBoth(b, r.val, r.at)
      BY <2>3, <2>6 DEF HistoryWithBoth
    <3>3. r.val \in QuotaHeard \cup {None} /\ r.at \in 0 .. HistoryTime
      BY <3>1, HistoryCellIs
    <3>4. History!Shown(s, p) \in History!Cell /\ History!Shown(s, p).at = r.at
      <4> HIDE DEF b, r
      <4>1. b \in History!Cell /\ r \in History!Cell
        BY <3>1, <3>2
      <4>2. /\ HistoryWithBoth(b, r.val, r.at) \in History!Cell
            /\ HistoryWithBoth(b, r.val, r.at).at = r.at
        BY <4>1, HistoryOverruledIs
      <4>3. QED
        BY <3>2, <4>2
    <3>5. QED
      BY <3>1, <3>4
  <2>7. QED
    BY <2>4, <2>5, <2>6
<1>3. QED
  BY <1>1, <1>2

\* Dispatch and the page agree on runs whose gaps are filled.
LEMMA HistoryAgree ==
  ASSUME History!Constants, NEW s \in Seq(History!Run), NEW p \in Profiles, HistoryRowsOK(s, p),
         HistoryGapOK(s, p)
  PROVE  History!ValueOf(History!Merged(s, p)) = History!ValueOf(History!Shown(s, p))
<1>1. CASE s = <<>>
  BY <1>1 DEF History!Merged, History!Shown
<1>2. CASE s # <<>>
  <2> DEFINE b == s[History!Base(s)].res[p]
             f == History!Filled(s, History!Base(s), p, b)
             r == s[History!Rt(s)].res[p]
  <2>1. /\ History!Base(s) \in 1 .. Len(s) /\ DOMAIN s = 1 .. Len(s)
        /\ History!Rt(s) # 0 => History!Rt(s) \in 1 .. Len(s)
        /\ b \in History!Cell \cup {None}
        /\ History!Rt(s) # 0 => r \in History!Cell \cup {None}
    BY <1>2, HistoryPlacesAre, HistoryRowIs
  <2>2. /\ f \in History!Cell \cup {None} /\ (f = None <=> b = None)
        /\ b # None => f.at = b.at /\ f.val = IF b.val = None
             THEN History!Backfill(s, History!Base(s), p) ELSE b.val
    BY <2>1, HistoryFilledIs
  <2>3. CASE History!ScanRuns(s) = {}
    <3>1. History!Base(s) = History!Rt(s) /\ s[History!Base(s)].realtime
      BY <1>2, <2>1, <2>3, HistoryPlacesAre DEF History!RealtimeRuns
    <3>2. b # None => b.val # None
      BY <2>1, <3>1 DEF HistoryRowsOK, HistoryRowOK
    <3>3. History!Merged(s, p) = b /\ History!Shown(s, p) = f
      BY <1>2, <3>1 DEF History!Merged, History!Shown
    <3>4. QED
      BY <2>2, <3>2, <3>3 DEF History!ValueOf
  <2>4. CASE History!ScanRuns(s) # {}
    <3>1. b # None /\ History!Base(s) # History!Rt(s)
      BY <2>1, <2>4, HistoryPlacesAre DEF HistoryRowsOK, HistoryRowOK, History!ScanRuns
    <3>2. \/ b.val # None
          \/ History!Backfill(s, History!Base(s), p) = None
          \/ History!Rt(s) # 0 /\ History!Overrules(r, b)
      BY <2>4 DEF HistoryGapOK
    <3>3. CASE History!Rt(s) # 0 /\ History!Overrules(r, b)
      <4>1. r \in History!Cell /\ b \in History!Cell /\ f \in History!Cell /\ f # None
              /\ r.val \in QuotaHeard \cup {None}
            /\ r.at \in 0 .. HistoryTime
        BY <2>1, <2>2, <3>1, <3>3, HistoryCellIs DEF History!Overrules
      <4>2. History!Overrules(r, f)
        BY <2>2, <3>1, <3>3 DEF History!Overrules
      <4>3. History!Merged(s, p) = HistoryWithVal(b, r.val)
        BY <1>2, <3>1, <3>3 DEF History!Merged, HistoryWithVal
      <4>4. History!Shown(s, p) = HistoryWithBoth(f, r.val, r.at)
        BY <1>2, <3>1, <3>3, <4>1, <4>2 DEF History!Shown, HistoryWithBoth
      <4>5. /\ HistoryWithVal(b, r.val) # None /\ HistoryWithVal(b, r.val).val = r.val
            /\ HistoryWithBoth(f, r.val, r.at) # None
            /\ HistoryWithBoth(f, r.val, r.at).val = r.val
        <5> HIDE DEF b, f, r
        <5> QED
          BY <4>1, HistoryWithValIs, HistoryWithBothIs
      <4>6. QED
        BY <4>3, <4>4, <4>5 DEF History!ValueOf
    <3>4. CASE ~ (History!Rt(s) # 0 /\ History!Overrules(r, b))
      <4>1. f # None /\ f.val = b.val
        BY <2>2, <3>1, <3>2, <3>4
      <4>2. History!Rt(s) # 0 => ~ History!Overrules(r, f)
        BY <2>2, <3>1, <3>4 DEF History!Overrules
      <4>3. History!Merged(s, p) = b
        BY <1>2, <3>1, <3>4 DEF History!Merged
      <4>4. History!Shown(s, p) = f
        BY <1>2, <4>1, <4>2 DEF History!Shown
      <4>5. QED
        BY <3>1, <4>1, <4>3, <4>4 DEF History!ValueOf
    <3>5. QED
      BY <3>3, <3>4
  <2>5. QED
    BY <2>3, <2>4
<1>3. QED
  BY <1>1, <1>2

-----------------------------------------------------------------------------
(* Adding a run *)

\* How many runs are deleted for one more.
HistoryDropped(s) == IF Len(s) = KeepScans THEN 1 ELSE 0

\* A run is put after the others, which move by the number of runs that are dropped.
LEMMA HistoryAddedIs ==
  ASSUME History!Constants, NEW s \in Seq(History!Run), Len(s) <= KeepScans,
         NEW run \in History!Run
  PROVE  /\ History!Added(s, run) \in Seq(History!Run)
         /\ Len(s) \in Nat /\ Len(History!Added(s, run)) \in 1 .. KeepScans
         /\ HistoryDropped(s) \in Nat /\ HistoryDropped(s) <= Len(s)
         /\ Len(History!Added(s, run)) = Len(s) + 1 - HistoryDropped(s)
         /\ History!Added(s, run)[Len(History!Added(s, run))] = run
         /\ \A i \in 1 .. Len(History!Added(s, run)) - 1 :
              i + HistoryDropped(s) \in 1 .. Len(s)
                /\ History!Added(s, run)[i] = s[i + HistoryDropped(s)]
<1> DEFINE t == Append(s, run)
           u == SubSeq(t, Len(t) - KeepScans + 1, Len(t))
<1>1. Len(s) \in Nat /\ KeepScans \in Nat /\ KeepScans > 0
  BY LenProperties DEF History!Constants
<1>2. /\ t \in Seq(History!Run) /\ Len(t) = Len(s) + 1 /\ t[Len(t)] = run
      /\ \A i \in 1 .. Len(s) : t[i] = s[i]
  BY <1>1
<1>3. CASE Len(s) = KeepScans
  <2>1. Len(t) = KeepScans + 1 /\ Len(t) - KeepScans + 1 = 2 /\ HistoryDropped(s) = 1
    BY <1>1, <1>2, <1>3 DEF HistoryDropped
  <2>2. History!Added(s, run) = u
    BY <1>1, <2>1 DEF History!Added
  <2>3. \A i \in 2 .. KeepScans + 1 : t[i] \in History!Run
    BY <1>1, <1>2, <2>1, ElementOfSeq
  <2>4. u = SubSeq(t, 2, KeepScans + 1)
    BY <2>1
  <2>5. /\ u \in Seq(History!Run) /\ Len(u) = KeepScans
        /\ \A i \in 1 .. KeepScans : u[i] = t[i + 1]
    <3> HIDE DEF t, u
    <3>1. /\ u \in Seq(History!Run) /\ Len(u) = IF 2 <= KeepScans + 1 THEN KeepScans + 1 - 2 + 1
               ELSE 0
          /\ \A i \in 1 .. KeepScans + 1 - 2 + 1 : u[i] = t[2 + i - 1]
      BY <1>1, <2>3, <2>4, SubSeqProperties
    <3>2. \A i \in 1 .. KeepScans : i \in 1 .. KeepScans + 1 - 2 + 1 /\ 2 + i - 1 = i + 1
      BY <1>1
    <3>3. QED
      BY <1>1, <3>1, <3>2
  <2>6. u[KeepScans] = run
    <3> HIDE DEF t, u
    <3> QED
      BY <1>1, <1>2, <2>1, <2>5
  <2>7. \A i \in 1 .. KeepScans - 1 : i + 1 \in 1 .. Len(s) /\ u[i] = s[i + 1]
    <3> HIDE DEF t, u
    <3> QED
      BY <1>1, <1>2, <1>3, <2>5
  <2>8. KeepScans \in 1 .. KeepScans
    BY <1>1
  <2>9. QED
    <3> HIDE DEF t, u
    <3> QED
      BY <1>1, <1>3, <2>1, <2>2, <2>5, <2>6, <2>7, <2>8
<1>4. CASE Len(s) < KeepScans
  <2>1. History!Added(s, run) = t /\ HistoryDropped(s) = 0
    BY <1>1, <1>2, <1>4 DEF History!Added, HistoryDropped
  <2>2. QED
    <3> HIDE DEF t, u
    <3> QED
      BY <1>1, <1>2, <1>4, <2>1
<1>5. QED
  BY <1>1, <1>3, <1>4

\* A scan that is added is the base of what is shown.
LEMMA HistoryScanAdded ==
  ASSUME History!Constants, NEW u \in Seq(History!Run), u # <<>>, ~ u[Len(u)].realtime
  PROVE  History!ScanRuns(u) # {} /\ History!Base(u) = Len(u)
<1>1. DOMAIN u = 1 .. Len(u) /\ Len(u) \in Nat /\ Len(u) # 0
  BY HistoryPlacesAre, EmptySeq
<1>2. Len(u) \in History!ScanRuns(u) /\ History!ScanRuns(u) \in SUBSET (1 .. Len(u))
  BY <1>1 DEF History!ScanRuns
<1>3. \A k \in History!ScanRuns(u) : k <= Len(u)
  BY <1>1, <1>2
<1>4. QED
  BY <1>1, <1>2, <1>3, HistoryNewestEq DEF History!Base

\* A realtime run that is added to scans leaves the newest of them the base.
LEMMA HistoryRealtimeAdded ==
  ASSUME History!Constants, NEW u \in Seq(History!Run), u # <<>>, u[Len(u)].realtime,
         \A i \in 1 .. Len(u) - 1 : ~ u[i].realtime
  PROVE  /\ History!Rt(u) = Len(u) /\ History!RealtimeRuns(u) = {Len(u)}
         /\ History!ScanRuns(u) # {} <=> Len(u) > 1
         /\ Len(u) > 1 => History!Base(u) = Len(u) - 1
         /\ Len(u) = 1 => History!Base(u) = 1
<1>1. DOMAIN u = 1 .. Len(u) /\ Len(u) \in Nat /\ Len(u) # 0
  BY HistoryPlacesAre, EmptySeq
<1>2. History!RealtimeRuns(u) = {Len(u)} /\ History!ScanRuns(u) = 1 .. Len(u) - 1
  BY <1>1 DEF History!RealtimeRuns, History!ScanRuns
<1>3. History!Rt(u) = Len(u)
  <2>1. /\ History!RealtimeRuns(u) \in SUBSET (1 .. Len(u)) /\ Len(u) \in History!RealtimeRuns(u)
        /\ \A k \in History!RealtimeRuns(u) : k <= Len(u)
    BY <1>1, <1>2
  <2>2. QED
    BY <1>1, <2>1, HistoryNewestEq DEF History!Rt
<1>4. ASSUME Len(u) > 1
      PROVE  History!Base(u) = Len(u) - 1
  <2>1. /\ History!ScanRuns(u) \in SUBSET (1 .. Len(u)) /\ Len(u) - 1 \in History!ScanRuns(u)
        /\ \A k \in History!ScanRuns(u) : k <= Len(u) - 1
    BY <1>1, <1>2, <1>4
  <2>2. QED
    BY <1>1, <2>1, HistoryNewestEq DEF History!Base
<1>5. History!ScanRuns(u) # {} <=> Len(u) > 1
  <2>1. Len(u) > 1 => 1 \in 1 .. Len(u) - 1
    BY <1>1
  <2>2. ~ (Len(u) > 1) => 1 .. Len(u) - 1 = {}
    BY <1>1
  <2>3. QED
    BY <1>2, <2>1, <2>2
<1>6. Len(u) = 1 => History!Base(u) = 1
  BY <1>2, <1>3, <1>5 DEF History!Base, History!Rt
<1>7. QED
  BY <1>2, <1>3, <1>4, <1>5, <1>6

\* What gaps are filled with depends on the earlier rows of the account only.
LEMMA HistoryBackfillSame ==
  ASSUME NEW s \in Seq(History!Run), NEW v \in Seq(History!Run), NEW n \in 1 .. Len(s),
         n \in 1 .. Len(v),
         NEW p \in Profiles, \A i \in 1 .. n - 1 : s[i].res[p] = v[i].res[p]
  PROVE  History!Backfill(v, n, p) = History!Backfill(s, n, p)
<1>1. HistorySuccesses(s, n, p) = HistorySuccesses(v, n, p)
  BY DEF HistorySuccesses
<1>2. CASE HistorySuccesses(s, n, p) = {}
  BY <1>1, <1>2, HistoryBackfillIs
<1>3. CASE HistorySuccesses(s, n, p) # {}
  <2>1. PICK i \in HistorySuccesses(s, n, p) : /\ \A k \in HistorySuccesses(s, n, p) : k <= i
                                               /\ History!Backfill(s, n, p) = s[i].res[p].val
    BY <1>3, HistoryBackfillIs
  <2>2. History!Backfill(v, n, p) = v[i].res[p].val
    BY <1>1, <2>1, HistoryBackfillIs
  <2>3. i \in 1 .. n - 1
    BY DEF HistorySuccesses
  <2>4. QED
    BY <2>1, <2>2, <2>3
<1>4. QED
  BY <1>2, <1>3

-----------------------------------------------------------------------------
(* The realtime run is made anew *)

HistoryBlank == [realtime |-> TRUE, res |-> [p \in Profiles |-> None]]

\* A new realtime run has no results.
LEMMA HistoryBlankIs ==
  /\ HistoryBlank \in History!Run /\ HistoryBlank.realtime
       /\ \A p \in Profiles : HistoryBlank.res[p] = None
BY DEF HistoryBlank, History!Run, History!Results

\* A realtime run is made: where the runs are that were there.
LEMMA HistoryAnewIs ==
  ASSUME History!Constants, HistoryRunsOK(runs), History!RealtimeRuns(runs) = {}
  PROVE  LET u == History!Added(runs, HistoryBlank)
             d == HistoryDropped(runs)
         IN  /\ u \in Seq(History!Run) /\ u # <<>> /\ Len(u) \in 1 .. KeepScans
             /\ d \in Nat /\ d <= Len(runs) /\ Len(runs) = Len(u) - 1 + d /\ Len(runs) \in Nat
             /\ u[Len(u)] = HistoryBlank
             /\ \A i \in 1 .. Len(u) - 1 :
                  i + d \in 1 .. Len(runs) /\ u[i] = runs[i + d] /\ ~ u[i].realtime
<1> DEFINE u == History!Added(runs, HistoryBlank)
           d == HistoryDropped(runs)
<1>1. /\ u \in Seq(History!Run) /\ Len(runs) \in Nat /\ Len(u) \in 1 .. KeepScans
      /\ d \in Nat /\ d <= Len(runs) /\ Len(u) = Len(runs) + 1 - d /\ u[Len(u)] = HistoryBlank
      /\ \A i \in 1 .. Len(u) - 1 : i + d \in 1 .. Len(runs) /\ u[i] = runs[i + d]
  BY HistoryAddedIs, HistoryBlankIs DEF HistoryRunsOK
<1>2. \A i \in 1 .. Len(runs) : ~ runs[i].realtime
  BY HistoryPlacesAre DEF HistoryRunsOK, History!RealtimeRuns
<1>3. u # <<>>
  BY <1>1, EmptySeq
<1>4. Len(runs) = Len(u) - 1 + d
  <2> HIDE DEF u, d
  <2> QED
    BY <1>1
<1>5. /\ u \in Seq(History!Run) /\ u # <<>> /\ Len(u) \in 1 .. KeepScans
      /\ d \in Nat /\ d <= Len(runs) /\ Len(runs) = Len(u) - 1 + d /\ Len(runs) \in Nat
      /\ u[Len(u)] = HistoryBlank
      /\ \A i \in 1 .. Len(u) - 1 :
           i + d \in 1 .. Len(runs) /\ u[i] = runs[i + d] /\ ~ u[i].realtime
  <2> HIDE DEF u, d
  <2>1. \A i \in 1 .. Len(u) - 1 : ~ u[i].realtime
    BY <1>1, <1>2
  <2>2. QED
    BY <1>1, <1>3, <1>4, <2>1
<1>6. QED
  BY <1>5, Zenon

\* The runs stay right when a realtime run is made.
LEMMA HistoryAnewRunsOK ==
  ASSUME History!Constants, HistoryRunsOK(runs), History!RealtimeRuns(runs) = {}
  PROVE  HistoryRunsOK(History!Added(runs, HistoryBlank))
<1> DEFINE u == History!Added(runs, HistoryBlank)
           d == HistoryDropped(runs)
<1>1. /\ u \in Seq(History!Run) /\ u # <<>> /\ Len(u) \in 1 .. KeepScans /\ KeepScans \in Nat
      /\ d \in Nat
      /\ u[Len(u)] = HistoryBlank
      /\ \A i \in 1 .. Len(u) - 1 :
           i + d \in 1 .. Len(runs) /\ u[i] = runs[i + d] /\ ~ u[i].realtime
  BY HistoryAnewIs DEF History!Constants
<1> HIDE DEF u, d
<1>2. HistoryRealtimeIsOne(u)
  <2>1. History!RealtimeRuns(u) = {Len(u)}
    BY <1>1, HistoryRealtimeAdded, HistoryBlankIs
  <2>2. QED
    BY <2>1 DEF HistoryRealtimeIsOne
<1>3. DOMAIN u = 1 .. Len(u) /\ DOMAIN runs = 1 .. Len(runs)
  BY <1>1, HistoryPlacesAre DEF HistoryRunsOK
<1>4. ASSUME NEW p \in Profiles, NEW i \in DOMAIN u
      PROVE  (u[i].res[p] # None => u[i].res[p].at <= now) /\ HistoryRowOK(u[i], p)
  <2>1. CASE i = Len(u)
    BY <1>1, <2>1, HistoryBlankIs DEF HistoryRowOK
  <2>2. CASE i # Len(u)
    <3>1. i \in 1 .. Len(u) - 1
      BY <1>1, <1>3, <2>2
    <3>2. i + d \in DOMAIN runs /\ u[i] = runs[i + d]
      BY <1>1, <1>3, <3>1
    <3>3. QED
      BY <3>2 DEF HistoryRunsOK, HistoryNoLaterThanNow, HistoryRowsOK
  <2>3. QED
    BY <2>1, <2>2
<1>5. QED
  BY <1>1, <1>2, <1>4 DEF HistoryRunsOK, HistoryNoLaterThanNow, HistoryRowsOK, u

\* What dispatch and page disagree about does not change when a realtime run is made.
LEMMA HistoryAnewGapOK ==
  ASSUME History!Constants, HistoryRunsOK(runs), History!RealtimeRuns(runs) = {},
         NEW p \in Profiles, HistoryGapOK(runs, p)
  PROVE  HistoryGapOK(History!Added(runs, HistoryBlank), p)
<1> DEFINE u == History!Added(runs, HistoryBlank)
           d == HistoryDropped(runs)
           n == Len(u) - 1
           m == Len(runs)
<1>1. /\ u \in Seq(History!Run) /\ u # <<>> /\ Len(u) \in 1 .. KeepScans /\ KeepScans \in Nat
      /\ d \in Nat
      /\ m = n + d /\ m \in Nat
      /\ u[Len(u)] = HistoryBlank
      /\ \A i \in 1 .. Len(u) - 1 :
           i + d \in 1 .. m /\ u[i] = runs[i + d] /\ ~ u[i].realtime
  BY HistoryAnewIs DEF History!Constants
<1> HIDE DEF u, d
<1> SUFFICES ASSUME History!ScanRuns(u) # {}
             PROVE  u[History!Base(u)].res[p].val # None
                    \/ History!Backfill(u, History!Base(u), p) = None
  BY DEF HistoryGapOK, u
<1>2. n \in 1 .. Len(u) /\ n + 1 = Len(u) /\ History!Base(u) = n /\ n \in Nat
  BY <1>1, HistoryRealtimeAdded, HistoryBlankIs
<1>3. m \in 1 .. m /\ runs # <<>> /\ runs \in Seq(History!Run)
  BY <1>1, <1>2, EmptySeq DEF HistoryRunsOK
<1>4. /\ ~ runs[m].realtime /\ History!ScanRuns(runs) # {} /\ History!Base(runs) = m
      /\ History!Rt(runs) = 0
  <2>1. ~ runs[m].realtime
    BY <1>3, HistoryPlacesAre DEF History!RealtimeRuns
  <2>2. QED
    BY <1>3, <2>1, HistoryScanAdded, HistoryPlacesAre
<1>5. u[n] = runs[m]
  BY <1>1, <1>2
<1>6. runs[m].res[p].val # None \/ History!Backfill(runs, m, p) = None
  BY <1>4 DEF HistoryGapOK
<1>7. ASSUME History!Backfill(runs, m, p) = None
      PROVE  History!Backfill(u, n, p) = None
  <2>1. CASE HistorySuccesses(u, n, p) = {}
    BY <1>1, <1>2, <2>1, HistoryBackfillIs
  <2>2. CASE HistorySuccesses(u, n, p) # {}
    <3>1. PICK i \in HistorySuccesses(u, n, p) : /\ \A k \in HistorySuccesses(u, n, p) : k <= i
                                                 /\ History!Backfill(u, n, p) = u[i].res[p].val
      BY <1>1, <1>2, <2>2, HistoryBackfillIs
    <3>2. /\ i \in 1 .. n - 1 /\ i \in 1 .. Len(u) - 1 /\ u[i] = runs[i + d]
          /\ i + d \in 1 .. m - 1
      BY <1>1, <1>2 DEF HistorySuccesses
    <3>3. i + d \in HistorySuccesses(runs, m, p)
      BY <3>2 DEF HistorySuccesses
    <3>4. ASSUME NEW k \in HistorySuccesses(runs, m, p)
          PROVE  k <= i + d
      <4>1. k \in 1 .. m - 1
        BY DEF HistorySuccesses
      <4>2. CASE k <= d
        BY <1>1, <3>2, <4>1, <4>2
      <4>3. CASE k > d
        <5>1. /\ k - d \in 1 .. n - 1 /\ k - d \in 1 .. Len(u) - 1 /\ (k - d) + d = k
          BY <1>1, <1>2, <4>1, <4>3
        <5>2. u[k - d] = runs[k]
          BY <1>1, <5>1
        <5>3. k - d \in HistorySuccesses(u, n, p)
          BY <5>1, <5>2 DEF HistorySuccesses
        <5>4. QED
          BY <1>1, <3>1, <3>2, <4>1, <5>1, <5>3
      <4>4. QED
        BY <1>1, <4>1, <4>2, <4>3
    <3>5. History!Backfill(runs, m, p) = runs[i + d].res[p].val
      BY <1>3, <3>3, <3>4, HistoryBackfillIs
    <3>6. QED
      BY <1>7, <3>1, <3>2, <3>5
  <2>3. QED
    BY <2>1, <2>2
<1>8. QED
  BY <1>2, <1>5, <1>6, <1>7

-----------------------------------------------------------------------------
(* A value is written into the realtime run *)

\* The place and the row of what was heard.
HistoryHeardIn(s, v, q, cell) ==
  /\ v \in Seq(History!Run) /\ Len(v) = Len(s)
  /\ \A i \in 1 .. Len(s) : v[i].realtime = s[i].realtime
  /\ \A i \in 1 .. Len(s), p \in Profiles :
       v[i].res[p] = IF i = History!Rt(s) /\ p = q THEN cell ELSE s[i].res[p]

\* A result is written to the realtime run, and to no other.
LEMMA HistoryWrittenIs ==
  ASSUME NEW s \in Seq(History!Run), History!Rt(s) # 0, NEW q \in Profiles,
         NEW cell \in History!Cell
  PROVE  HistoryHeardIn(s, [s EXCEPT ![History!Rt(s)].res[q] = cell], q, cell)
<1> DEFINE k == History!Rt(s)
           new == [s[k] EXCEPT !.res[q] = cell]
           v == [s EXCEPT ![k].res[q] = cell]
<1>1. k \in 1 .. Len(s)
  BY HistoryPlacesAre
<1>2. s[k] \in History!Run
  BY <1>1, ElementOfSeq
<1>3. /\ new \in History!Run /\ new.realtime = s[k].realtime
      /\ \A p \in Profiles : new.res[p] = IF p = q THEN cell ELSE s[k].res[p]
  BY <1>2 DEF History!Run, History!Results
<1>4. v = [s EXCEPT ![k] = new]
  OBVIOUS
<1>5. /\ v \in Seq(History!Run) /\ Len(v) = Len(s)
      /\ \A i \in 1 .. Len(s) : v[i] = IF i = k THEN new ELSE s[i]
  <2> HIDE DEF new, k, v
  <2> QED
    BY <1>1, <1>3, <1>4, ExceptSeq
<1>6. \A i \in 1 .. Len(s), p \in Profiles :
        v[i].realtime = s[i].realtime
        /\ v[i].res[p] = IF i = k /\ p = q THEN cell ELSE s[i].res[p]
  <2> HIDE DEF new, k, v
  <2> QED
    BY <1>3, <1>5
<1>7. \A i \in 1 .. Len(s) : v[i].realtime = s[i].realtime
  <2> HIDE DEF new, k, v
  <2> QED
    BY <1>3, <1>5
<1>8. HistoryHeardIn(s, v, q, cell)
  <2> HIDE DEF new, v
  <2> QED
    BY <1>5, <1>6, <1>7 DEF HistoryHeardIn
<1>9. QED
  BY <1>8

\* Writing a result moves no run.
LEMMA HistoryHeardPlaces ==
  ASSUME NEW s \in Seq(History!Run), NEW v, NEW q \in Profiles, NEW cell \in History!Cell,
         HistoryHeardIn(s, v, q, cell)
  PROVE  /\ History!ScanRuns(v) = History!ScanRuns(s)
         /\ History!RealtimeRuns(v) = History!RealtimeRuns(s)
         /\ History!Base(v) = History!Base(s) /\ History!Rt(v) = History!Rt(s)
         /\ DOMAIN v = DOMAIN s /\ (v = <<>> <=> s = <<>>)
<1>1. DOMAIN v = 1 .. Len(s) /\ DOMAIN s = 1 .. Len(s) /\ v \in Seq(History!Run)
  BY HistoryPlacesAre DEF HistoryHeardIn
<1>2. /\ History!ScanRuns(v) = History!ScanRuns(s)
      /\ History!RealtimeRuns(v) = History!RealtimeRuns(s)
  BY <1>1 DEF HistoryHeardIn, History!ScanRuns, History!RealtimeRuns
<1>3. v = <<>> <=> s = <<>>
  BY EmptySeq DEF HistoryHeardIn
<1>4. QED
  BY <1>1, <1>2, <1>3 DEF History!Base, History!Rt

\* The runs stay right when a result is written.
LEMMA HistoryHeardRunsOK ==
  ASSUME History!Constants, NEW s, HistoryRunsOK(s), History!Rt(s) # 0, NEW v, NEW q \in Profiles,
         NEW cell \in History!Cell, cell.at = now, cell.val # None, now \in 0 .. HistoryTime,
         HistoryHeardIn(s, v, q, cell)
  PROVE  HistoryRunsOK(v)
<1>1. s \in Seq(History!Run) /\ v \in Seq(History!Run) /\ Len(v) = Len(s) /\ Len(s) <= KeepScans
  BY DEF HistoryRunsOK, HistoryHeardIn
<1>2. HistoryRealtimeIsOne(v)
  BY <1>1, HistoryHeardPlaces DEF HistoryRunsOK, HistoryRealtimeIsOne
<1>3. DOMAIN v = 1 .. Len(s) /\ DOMAIN s = 1 .. Len(s) /\ now <= now
  BY <1>1, HistoryPlacesAre DEF History!Constants
<1>4. ASSUME NEW p \in Profiles, NEW i \in DOMAIN v
      PROVE  (v[i].res[p] # None => v[i].res[p].at <= now) /\ HistoryRowOK(v[i], p)
  <2>1. v[i].realtime = s[i].realtime
    BY <1>3 DEF HistoryHeardIn
  <2>2. CASE i = History!Rt(s) /\ p = q
    <3>1. v[i].res[p] = cell
      BY <1>3, <2>2 DEF HistoryHeardIn
    <3>2. s[i].realtime
      BY <1>1, <2>2, HistoryPlacesAre DEF History!RealtimeRuns
    <3>3. QED
      BY <1>3, <2>1, <3>1, <3>2 DEF HistoryRowOK
  <2>3. CASE ~ (i = History!Rt(s) /\ p = q)
    <3>1. v[i].res[p] = s[i].res[p]
      BY <1>3, <2>3 DEF HistoryHeardIn
    <3>2. QED
      BY <1>3, <2>1, <3>1 DEF HistoryRunsOK, HistoryNoLaterThanNow, HistoryRowsOK, HistoryRowOK
  <2>4. QED
    BY <2>2, <2>3
<1>5. QED
  BY <1>1, <1>2, <1>4 DEF HistoryRunsOK, HistoryNoLaterThanNow, HistoryRowsOK

\* Dispatch and page agree about what is written.
LEMMA HistoryHeardGapOK ==
  ASSUME History!Constants, NEW s, HistoryRunsOK(s), History!Rt(s) # 0, NEW v, NEW q \in Profiles,
         NEW cell \in History!Cell, cell # None, cell.at = now, now \in 0 .. HistoryTime,
         HistoryHeardIn(s, v, q, cell), NEW p \in Profiles, HistoryGapOK(s, p)
  PROVE  HistoryGapOK(v, p)
<1>1. s \in Seq(History!Run) /\ v \in Seq(History!Run) /\ Len(v) = Len(s)
  BY DEF HistoryRunsOK, HistoryHeardIn
<1> SUFFICES ASSUME History!ScanRuns(v) # {}
             PROVE  \/ v[History!Base(v)].res[p].val # None
                    \/ History!Backfill(v, History!Base(v), p) = None
                    \/ History!Rt(v) # 0
                         /\ History!Overrules(v[History!Rt(v)].res[p], v[History!Base(v)].res[p])
  BY DEF HistoryGapOK
<1>2. /\ History!Base(v) = History!Base(s) /\ History!Rt(v) = History!Rt(s)
      /\ History!ScanRuns(s) # {}
      /\ History!Base(s) \in 1 .. Len(s) /\ History!Base(s) # History!Rt(s)
      /\ History!Rt(s) \in 1 .. Len(s)
      /\ DOMAIN s = 1 .. Len(s) /\ Len(s) \in Nat
  BY <1>1, HistoryHeardPlaces, HistoryPlacesAre
<1>3. v[History!Base(v)].res[p] = s[History!Base(s)].res[p]
  BY <1>2 DEF HistoryHeardIn
<1>4. CASE p = q
  <2>1. v[History!Rt(v)].res[p] = cell
    BY <1>2, <1>4 DEF HistoryHeardIn
  <2>2. s[History!Base(s)].res[p] # None => now >= s[History!Base(s)].res[p].at
    <3>1. s[History!Base(s)].res[p] # None => s[History!Base(s)].res[p].at <= now
      BY <1>2 DEF HistoryRunsOK, HistoryNoLaterThanNow
    <3>2. QED
      BY <3>1
  <2>3. QED
    BY <1>2, <1>3, <2>1, <2>2 DEF History!Overrules
<1>5. CASE p # q
  <2>1. \A i \in 1 .. Len(s) : v[i].res[p] = s[i].res[p]
    BY <1>5 DEF HistoryHeardIn
  <2>2. History!Backfill(v, History!Base(s), p) = History!Backfill(s, History!Base(s), p)
    <3>1. \A i \in 1 .. History!Base(s) - 1 : s[i].res[p] = v[i].res[p]
      BY <1>2, <2>1
    <3>2. QED
      BY <1>1, <1>2, <3>1, HistoryBackfillSame
  <2>3. QED
    BY <1>2, <1>3, <2>1, <2>2 DEF HistoryGapOK
<1>6. QED
  BY <1>4, <1>5

-----------------------------------------------------------------------------
(* A scan is saved *)

HistorySavedRun(c) == [realtime |-> FALSE, res |-> [p \in Profiles |-> History!SavedRow(c, p)]]

\* A place that is not the last comes before it.
LEMMA HistoryBeforeLast ==
  ASSUME NEW n \in Nat, NEW i \in 1 .. n, i # n
  PROVE  i \in 1 .. n - 1 /\ i \in Int
OBVIOUS

\* What a scan saves is a run, of results no later than now.
LEMMA HistorySavedRunIs ==
  ASSUME History!Constants, HistoryIInv, NEW c \in Scanners, scan[c] # None
  PROVE  /\ HistorySavedRun(c) \in History!Run /\ ~ HistorySavedRun(c).realtime
         /\ \A p \in Profiles : /\ HistorySavedRun(c).res[p] \in History!Cell
                                /\ HistorySavedRun(c).res[p].at <= now
<1>1. scan[c] \in History!Scan /\ now \in 0 .. HistoryTime /\ now <= now
  BY DEF HistoryIInv, History!TypeOK, History!Constants
<1>2. ASSUME NEW p \in Profiles
      PROVE  History!SavedRow(c, p) \in History!Cell /\ History!SavedRow(c, p).at <= now
  <2>1. CASE p \in scan[c].only \/ scan[c].old[p] = None
    <3>1. scan[c].got[p] \in History!Reading
      BY <1>1 DEF History!Scan
    <3>2. scan[c].got[p].val \in QuotaHeard \cup {None} /\ scan[c].got[p].ok \in BOOLEAN
      BY <3>1 DEF History!Reading
    <3>3. History!SavedRow(c, p) = [val |-> scan[c].got[p].val, ok |-> scan[c].got[p].ok,
            at |-> now]
      BY <2>1 DEF History!SavedRow
    <3>4. QED
      BY <1>1, <3>2, <3>3 DEF History!Cell
  <2>2. CASE p \notin scan[c].only /\ scan[c].old[p] # None
    <3>1. History!SavedRow(c, p) = scan[c].old[p]
      BY <2>2 DEF History!SavedRow
    <3>2. scan[c].old \in History!Results
      BY <1>1 DEF History!Scan
    <3>3. scan[c].old[p] \in History!Cell
      BY <2>2, <3>2 DEF History!Results
    <3>4. QED
      BY <2>2, <3>1, <3>3 DEF HistoryIInv, HistoryOldIsOld
  <2>3. QED
    BY <2>1, <2>2
<1>3. [p \in Profiles |-> History!SavedRow(c, p)] \in History!Results
  BY <1>2 DEF History!Results
<1>4. QED
  BY <1>2, <1>3 DEF HistorySavedRun, History!Run

\* A scan with rows of its own at the end of runs that are all right.
LEMMA HistoryScanRunsOK ==
  ASSUME History!Constants, HistoryRunsOK(runs), NEW d \in Nat,
         NEW u \in Seq(History!Run), u # <<>>, Len(u) <= KeepScans, ~ u[Len(u)].realtime,
         \A i \in 1 .. Len(u) - 1 : i + d \in 1 .. Len(runs) /\ u[i] = runs[i + d],
         \A p \in Profiles : u[Len(u)].res[p] # None /\ u[Len(u)].res[p].at <= now
  PROVE  HistoryRunsOK(u)
<1>1. /\ DOMAIN u = 1 .. Len(u) /\ Len(u) \in Nat /\ Len(u) # 0
      /\ DOMAIN runs = 1 .. Len(runs) /\ Len(runs) \in Nat
  BY HistoryPlacesAre, EmptySeq DEF HistoryRunsOK
<1>2. \A i \in 1 .. Len(u) : i # Len(u) => i \in 1 .. Len(u) - 1 /\ i \in Int
  BY <1>1, HistoryBeforeLast
<1>3. HistoryRealtimeIsOne(u)
  <2>1. ASSUME NEW i \in History!RealtimeRuns(u)
        PROVE  i \in Int /\ i + d \in History!RealtimeRuns(runs)
    <3>1. i \in 1 .. Len(u) /\ u[i].realtime
      BY <1>1 DEF History!RealtimeRuns
    <3>2. i \in 1 .. Len(u) - 1 /\ i \in Int
      BY <1>2, <3>1
    <3>3. QED
      BY <1>1, <3>1, <3>2 DEF History!RealtimeRuns
  <2>2. ASSUME NEW i \in History!RealtimeRuns(u), NEW k \in History!RealtimeRuns(u)
        PROVE  i = k
    <3>1. i + d = k + d
      BY <2>1 DEF HistoryRunsOK, HistoryRealtimeIsOne
    <3>2. QED
      BY <2>1, <3>1
  <2>3. QED
    BY <2>2 DEF HistoryRealtimeIsOne
<1>4. ASSUME NEW p \in Profiles, NEW i \in DOMAIN u
      PROVE  (u[i].res[p] # None => u[i].res[p].at <= now) /\ HistoryRowOK(u[i], p)
  <2>1. CASE i = Len(u)
    BY <2>1 DEF HistoryRowOK
  <2>2. CASE i # Len(u)
    <3>1. i \in 1 .. Len(u) - 1
      BY <1>1, <1>2, <2>2
    <3>2. i + d \in DOMAIN runs /\ u[i] = runs[i + d]
      BY <1>1, <3>1
    <3>3. QED
      BY <3>2 DEF HistoryRunsOK, HistoryNoLaterThanNow, HistoryRowsOK
  <2>3. QED
    BY <2>1, <2>2
<1>5. QED
  BY <1>3, <1>4 DEF HistoryRunsOK, HistoryNoLaterThanNow, HistoryRowsOK

\* The gaps of the run that was added last are filled.
HistoryFilledIn(s, n) == [s EXCEPT ![n].res = [p \in Profiles |-> History!Filled(s, n, p, @[p])]]

\* Filling in the results of one run leaves the others alone.
LEMMA HistoryFilledInIs ==
  ASSUME History!Constants, NEW s \in Seq(History!Run), NEW n \in 1 .. Len(s)
  PROVE  /\ HistoryFilledIn(s, n) \in Seq(History!Run) /\ Len(HistoryFilledIn(s, n)) = Len(s)
         /\ \A i \in 1 .. Len(s) : i # n => HistoryFilledIn(s, n)[i] = s[i]
         /\ HistoryFilledIn(s, n)[n].realtime = s[n].realtime
         /\ \A p \in Profiles : HistoryFilledIn(s, n)[n].res[p]
              = History!Filled(s, n, p, s[n].res[p])
<1> DEFINE rows == [p \in Profiles |-> History!Filled(s, n, p, s[n].res[p])]
           new == [s[n] EXCEPT !.res = rows]
<1>1. s[n] \in History!Run /\ \A p \in Profiles : s[n].res[p] \in History!Cell \cup {None}
  BY HistoryRowIs
<1>2. rows \in History!Results
  BY <1>1, HistoryFilledIs DEF History!Results
<1>3. new \in History!Run /\ new.realtime = s[n].realtime /\ new.res = rows
  <2> HIDE DEF rows
  <2> QED
    BY <1>1, <1>2 DEF History!Run
<1>4. HistoryFilledIn(s, n) = [s EXCEPT ![n] = new]
  BY DEF HistoryFilledIn
<1>5. /\ HistoryFilledIn(s, n) \in Seq(History!Run) /\ Len(HistoryFilledIn(s, n)) = Len(s)
      /\ \A i \in 1 .. Len(s) : HistoryFilledIn(s, n)[i] = IF i = n THEN new ELSE s[i]
  <2> HIDE DEF new
  <2> QED
    BY <1>3, <1>4, ExceptSeq
<1>6. \A p \in Profiles : rows[p] = History!Filled(s, n, p, s[n].res[p])
  OBVIOUS
<1>7. QED
  <2> HIDE DEF new, rows
  <2> QED
    BY <1>3, <1>5, <1>6

\* Then the accounts page and dispatch see the same.
LEMMA HistoryFilledGapOK ==
  ASSUME History!Constants, NEW s \in Seq(History!Run), s # <<>>, ~ s[Len(s)].realtime,
         NEW p \in Profiles,
         s[Len(s)].res[p] \in History!Cell
  PROVE  HistoryGapOK(HistoryFilledIn(s, Len(s)), p)
<1> DEFINE n == Len(s)
           u == HistoryFilledIn(s, n)
<1>1. n \in Nat /\ n \in 1 .. Len(s)
  BY HistoryPlacesAre, EmptySeq
<1>2. /\ u \in Seq(History!Run) /\ Len(u) = n
      /\ \A i \in 1 .. n : i # n => u[i] = s[i]
      /\ u[n].realtime = s[n].realtime
      /\ u[n].res[p] = History!Filled(s, n, p, s[n].res[p])
  BY <1>1, HistoryFilledInIs
<1> HIDE DEF u
<1>3. u # <<>>
  BY <1>1, <1>2, EmptySeq
<1>4. History!Base(u) = n
  BY <1>2, <1>3, HistoryScanAdded
<1>5. History!Backfill(u, n, p) = History!Backfill(s, n, p)
  <2>1. \A i \in 1 .. n - 1 : i \in 1 .. n /\ i # n
    BY <1>1
  <2>2. \A i \in 1 .. n - 1 : s[i].res[p] = u[i].res[p]
    BY <1>2, <2>1
  <2>3. QED
    BY <1>1, <1>2, <2>2, HistoryBackfillSame
<1>6. u[n].res[p].val = IF s[n].res[p].val = None THEN History!Backfill(s, n, p)
        ELSE s[n].res[p].val
  <2>1. s[n].res[p] # None
    BY DEF History!Constants
  <2>2. QED
    BY <1>1, <1>2, <2>1, HistoryFilledIs
<1>7. QED
  BY <1>4, <1>5, <1>6 DEF HistoryGapOK, u

-----------------------------------------------------------------------------
(* The invariant *)

\* The invariant holds at first.
LEMMA HistoryInitIInv == ASSUME History!Constants, History!Init PROVE HistoryIInv
<1>1. now \in 0 .. HistoryTime /\ now = 0
  BY DEF History!Constants, History!Init
<1>2. /\ runs = <<>> /\ runs \in Seq(History!Run) /\ Len(runs) = 0 /\ DOMAIN runs = {}
      /\ Len(runs) <= KeepScans
  BY HistoryPlacesAre, EmptySeq DEF History!Constants, History!Init
<1>3. History!TypeOK
  BY <1>1, <1>2 DEF History!Init, History!TypeOK
<1>4. History!RealtimeRuns(runs) = {} /\ History!ScanRuns(runs) = {}
  BY <1>2 DEF History!RealtimeRuns, History!ScanRuns
<1>5. HistoryRunsOK(runs)
  BY <1>2, <1>4 DEF HistoryRunsOK, HistoryRealtimeIsOne, HistoryNoLaterThanNow, HistoryRowsOK
<1>6. \A p \in Profiles : HistoryGapOK(runs, p)
  BY <1>4 DEF HistoryGapOK
<1>7. QED
  BY <1>3, <1>5, <1>6 DEF HistoryIInv, HistoryOldIsOld, History!Init

\* Tick keeps the invariant.
LEMMA HistoryTickIInv == ASSUME History!Constants, HistoryIInv, History!Tick PROVE HistoryIInv'
<1>1. now \in Nat /\ now' = now + 1 /\ now' \in 0 .. HistoryTime
  BY DEF HistoryIInv, History!TypeOK, History!Tick, History!Constants
<1>2. History!TypeOK'
  BY <1>1 DEF HistoryIInv, History!TypeOK, History!Tick
<1>3. \A c \in History!Cell : c.at <= now => c.at <= now'
  <2>1. \A t \in 0 .. HistoryTime : t <= now => t <= now'
    BY <1>1 DEF History!Constants
  <2>2. QED
    BY <2>1, HistoryCellIs
<1>4. ASSUME NEW p \in Profiles
      PROVE  HistoryNoLaterThanNow(runs, p)'
  <2>1. \A i \in DOMAIN runs : runs[i].res[p] \in History!Cell \cup {None}
    BY HistoryPlacesAre, HistoryRowIs DEF HistoryIInv, HistoryRunsOK
  <2>2. HistoryNoLaterThanNow(runs, p)
    BY DEF HistoryIInv, HistoryRunsOK
  <2>3. QED
    BY <1>3, <2>1, <2>2 DEF HistoryNoLaterThanNow, History!Tick
<1>5. HistoryRunsOK(runs)'
  BY <1>4 DEF HistoryIInv, HistoryRunsOK, HistoryRealtimeIsOne, HistoryRowsOK, History!Tick
<1>6. ASSUME NEW c \in Scanners, NEW p \in Profiles
      PROVE  HistoryOldIsOld(c, p)'
  <2>1. CASE scan[c] # None /\ scan[c].old[p] # None
    <3>1. scan[c].old \in History!Results
      BY <2>1 DEF HistoryIInv, History!TypeOK, History!Scan
    <3>2. scan[c].old[p] \in History!Cell
      BY <2>1, <3>1 DEF History!Results
    <3>3. QED
      BY <1>3, <2>1, <3>2 DEF HistoryIInv, HistoryOldIsOld, History!Tick
  <2>2. QED
    BY <2>1 DEF HistoryOldIsOld, History!Tick
<1>7. (Backfills \subseteq {TRUE} => \A p \in Profiles : HistoryGapOK(runs, p))'
  BY DEF HistoryIInv, HistoryGapOK, History!Tick
<1>8. QED
  BY <1>2, <1>5, <1>6, <1>7 DEF HistoryIInv

\* What changes neither the clock nor the runs nor what the scans remember.
HistoryRestSame == /\ UNCHANGED <<now, runs>>
                   /\ \A c \in Scanners : scan'[c] # None
                        => scan[c] # None /\ scan'[c].old = scan[c].old

\* The steps that change no run keep the invariant.
LEMMA HistoryRestIInv ==
  ASSUME History!Constants, HistoryIInv, HistoryRestSame, History!TypeOK'
  PROVE  HistoryIInv'
<1>1. HistoryRunsOK(runs)'
  BY DEF HistoryIInv, HistoryRunsOK, HistoryRealtimeIsOne, HistoryNoLaterThanNow, HistoryRowsOK,
     HistoryRestSame
<1>2. (\A c \in Scanners, p \in Profiles : HistoryOldIsOld(c, p))'
  BY DEF HistoryIInv, HistoryOldIsOld, HistoryRestSame
<1>3. (Backfills \subseteq {TRUE} => \A p \in Profiles : HistoryGapOK(runs, p))'
  BY DEF HistoryIInv, HistoryGapOK, HistoryRestSame
<1>4. QED
  BY <1>1, <1>2, <1>3 DEF HistoryIInv

\* StartScan keeps the invariant.
LEMMA HistoryStartScanIInv ==
  ASSUME History!Constants, HistoryIInv, NEW c \in Scanners, History!StartScan(c)
         PROVE HistoryIInv'
<1>1. PICK S \in SUBSET Profiles \ {{}} :
        scan' = [scan EXCEPT ![c] =
         [only |-> S, todo |-> S, got |-> [p \in Profiles |-> History!Unread],
          old  |-> [p \in Profiles |-> IF S = Profiles THEN None ELSE History!Shown(runs, p)]]]
  BY DEF History!StartScan
<1> DEFINE old == [p \in Profiles |-> IF S = Profiles THEN None ELSE History!Shown(runs, p)]
           got == [p \in Profiles |-> History!Unread]
           new == [only |-> S, todo |-> S, got |-> got, old |-> old]
<1>2. UNCHANGED <<now, runs, cache, pending>> /\ scan \in [Scanners -> History!Scan \cup {None}]
  BY DEF History!StartScan, HistoryIInv, History!TypeOK
<1>3. \A p \in Profiles : /\ History!Shown(runs, p) \in History!Cell \cup {None}
                          /\ History!Shown(runs, p) # None => History!Shown(runs, p).at <= now
  BY HistoryShownIs DEF HistoryIInv, History!TypeOK, HistoryRunsOK
<1>4. old \in History!Results /\ \A p \in Profiles : old[p] # None => old[p].at <= now
  BY <1>3 DEF History!Results
<1>5. got \in [Profiles -> History!Reading]
  BY DEF History!Unread, History!Reading
<1>6. new \in History!Scan /\ new.old = old
  <2> HIDE DEF old, got
  <2> QED
    BY <1>4, <1>5 DEF History!Scan
<1>7. scan' = [scan EXCEPT ![c] = new]
  BY <1>1
<1> HIDE DEF new, old
<1>8. History!TypeOK'
  BY <1>2, <1>6, <1>7 DEF HistoryIInv, History!TypeOK
<1>9. HistoryRunsOK(runs)'
  BY <1>2
     DEF HistoryIInv, HistoryRunsOK, HistoryRealtimeIsOne, HistoryNoLaterThanNow, HistoryRowsOK
<1>10. ASSUME NEW k \in Scanners, NEW p \in Profiles
       PROVE  HistoryOldIsOld(k, p)'
  <2>1. CASE k = c
    BY <1>2, <1>4, <1>6, <1>7, <2>1 DEF HistoryOldIsOld
  <2>2. CASE k # c
    BY <1>2, <1>7, <2>2 DEF HistoryOldIsOld, HistoryIInv
  <2>3. QED
    BY <2>1, <2>2
<1>11. (Backfills \subseteq {TRUE} => \A p \in Profiles : HistoryGapOK(runs, p))'
  BY <1>2 DEF HistoryIInv, HistoryGapOK
<1>12. QED
  BY <1>8, <1>9, <1>10, <1>11 DEF HistoryIInv

\* ReadWindow keeps the invariant.
LEMMA HistoryReadWindowIInv ==
  ASSUME History!Constants, HistoryIInv, NEW c \in Scanners, NEW p \in Profiles,
         History!ReadWindow(c, p) PROVE HistoryIInv'
<1>1. PICK r \in {History!Unread} \cup [val : QuotaHeard \cup {None}, ok : {TRUE}] :
        scan' = [scan EXCEPT ![c].todo = @ \ {p}, ![c].got[p] = r]
  BY DEF History!ReadWindow
<1>2. r \in History!Reading
  <2>1. History!Unread \in History!Reading
    BY DEF History!Unread, History!Reading
  <2>2. ASSUME NEW w \in [val : QuotaHeard \cup {None}, ok : {TRUE}]
        PROVE  w \in History!Reading
    <3>1. w = [val |-> w.val, ok |-> w.ok] /\ w.val \in QuotaHeard \cup {None} /\ w.ok \in BOOLEAN
      OBVIOUS
    <3>2. QED
      BY <3>1, Zenon DEF History!Reading
  <2>3. QED
    BY <2>1, <2>2
<1> DEFINE todo == scan[c].todo \ {p}
           got == [scan[c].got EXCEPT ![p] = r]
           new == [scan[c] EXCEPT !.todo = todo, !.got = got]
<1>3. /\ UNCHANGED <<now, runs, cache, pending>> /\ scan[c] # None
      /\ scan \in [Scanners -> History!Scan \cup {None}] /\ scan[c] \in History!Scan
  BY DEF History!ReadWindow, HistoryIInv, History!TypeOK
<1>4. todo \in SUBSET Profiles /\ got \in [Profiles -> History!Reading]
  BY <1>2, <1>3 DEF History!Scan
<1>5. new \in History!Scan /\ new.old = scan[c].old
  <2> HIDE DEF todo, got
  <2> QED
    BY <1>3, <1>4 DEF History!Scan
<1>6. scan' = [scan EXCEPT ![c] = new]
  BY <1>1, <1>3
<1> HIDE DEF new
<1>7. History!TypeOK'
  BY <1>3, <1>5, <1>6 DEF HistoryIInv, History!TypeOK
<1>8. HistoryRestSame
  BY <1>3, <1>5, <1>6 DEF HistoryRestSame
<1>9. QED
  BY <1>7, <1>8, HistoryRestIInv

\* AbandonScan keeps the invariant.
LEMMA HistoryAbandonScanIInv ==
  ASSUME History!Constants, HistoryIInv, NEW c \in Scanners, History!AbandonScan(c)
         PROVE HistoryIInv'
<1>1. History!TypeOK'
  BY DEF HistoryIInv, History!TypeOK, History!AbandonScan
<1>2. HistoryRestSame
  BY DEF HistoryRestSame, History!AbandonScan, HistoryIInv, History!TypeOK
<1>3. QED
  BY <1>1, <1>2, HistoryRestIInv

\* Hear keeps the invariant.
LEMMA HistoryHearIInv ==
  ASSUME History!Constants, HistoryIInv, NEW p \in Profiles, NEW n \in QuotaHeard,
         History!Hear(p, n) PROVE HistoryIInv'
<1>1. [val |-> n, at |-> now] \in [val : QuotaHeard, at : 0 .. HistoryTime]
  BY DEF HistoryIInv, History!TypeOK
<1>2. [profile |-> p, val |-> n] \in History!Heard
  BY DEF History!Heard
<1>3. History!TypeOK'
  BY <1>1, <1>2 DEF HistoryIInv, History!TypeOK, History!Hear
<1>4. HistoryRestSame
  BY DEF HistoryRestSame, History!Hear
<1>5. QED
  BY <1>3, <1>4, HistoryRestIInv

\* Restart keeps the invariant.
LEMMA HistoryRestartIInv ==
  ASSUME History!Constants, HistoryIInv, History!Restart
  PROVE  HistoryIInv'
<1>1. History!TypeOK'
  BY DEF HistoryIInv, History!TypeOK, History!Restart
<1>2. HistoryRestSame
  BY DEF HistoryRestSame, History!Restart
<1>3. QED
  BY <1>1, <1>2, HistoryRestIInv

\* SaveScan keeps the invariant.
LEMMA HistorySaveScanIInv ==
  ASSUME History!Constants, HistoryIInv, NEW c \in Scanners, History!SaveScan(c)
         PROVE HistoryIInv'
<1> DEFINE s == History!Saved(c)
           d == HistoryDropped(runs)
<1>1. /\ s \in Seq(History!Run) /\ Len(runs) \in Nat /\ Len(s) \in 1 .. KeepScans
      /\ d \in Nat
      /\ s[Len(s)] = HistorySavedRun(c)
      /\ \A i \in 1 .. Len(s) - 1 : i + d \in 1 .. Len(runs) /\ s[i] = runs[i + d]
  <2>1. s = History!Added(runs, HistorySavedRun(c))
    BY DEF History!Saved, HistorySavedRun
  <2>2. HistorySavedRun(c) \in History!Run
    BY HistorySavedRunIs DEF History!SaveScan
  <2>3. runs \in Seq(History!Run) /\ Len(runs) <= KeepScans
    BY DEF HistoryIInv, HistoryRunsOK
  <2> HIDE DEF s, d
  <2>4. QED
    BY <2>1, <2>2, <2>3, HistoryAddedIs DEF d
<1>2. /\ ~ HistorySavedRun(c).realtime
      /\ \A p \in Profiles : HistorySavedRun(c).res[p] \in History!Cell
           /\ HistorySavedRun(c).res[p].at <= now
  BY HistorySavedRunIs DEF History!SaveScan
<1>3. /\ KeepScans \in Nat /\ Len(s) \in Nat /\ Len(s) \in 1 .. Len(s) /\ Len(s) <= KeepScans
      /\ s # <<>>
  <2> HIDE DEF s
  <2>1. KeepScans \in Nat
    BY DEF History!Constants
  <2>2. QED
    BY <1>1, <2>1, EmptySeq
<1>4. PICK backfill \in Backfills : runs' = IF backfill THEN HistoryFilledIn(s, Len(s)) ELSE s
  BY DEF History!SaveScan, HistoryFilledIn
<1> HIDE DEF s, d
<1>5. /\ UNCHANGED <<now, cache, pending>>
      /\ scan' = [scan EXCEPT ![c] = None]
  BY DEF History!SaveScan
<1>6. ASSUME backfill
      PROVE  /\ HistoryRunsOK(runs)'
             /\ (Backfills \subseteq {TRUE} => \A p \in Profiles : HistoryGapOK(runs, p))'
  <2> DEFINE u == HistoryFilledIn(s, Len(s))
  <2>1. runs' = u
    BY <1>4, <1>6
  <2>2. /\ u \in Seq(History!Run) /\ Len(u) = Len(s)
        /\ \A i \in 1 .. Len(s) : i # Len(s) => u[i] = s[i]
        /\ u[Len(s)].realtime = s[Len(s)].realtime
        /\ \A p \in Profiles : u[Len(s)].res[p] = History!Filled(s, Len(s), p, s[Len(s)].res[p])
    BY <1>1, <1>3, HistoryFilledInIs
  <2>3. \A p \in Profiles : HistoryGapOK(u, p)
    BY <1>1, <1>2, <1>3, HistoryFilledGapOK
  <2> HIDE DEF u
  <2>4. ASSUME NEW p \in Profiles
        PROVE  u[Len(u)].res[p] # None /\ u[Len(u)].res[p].at <= now
    <3>1. HistorySavedRun(c).res[p] # None
      BY <1>2 DEF History!Constants
    <3>2. QED
      BY <1>1, <1>2, <1>3, <2>2, <3>1, HistoryFilledIs
  <2>5. \A i \in 1 .. Len(u) - 1 : i + d \in 1 .. Len(runs) /\ u[i] = runs[i + d]
    <3>1. \A i \in 1 .. Len(s) - 1 : i \in 1 .. Len(s) /\ i # Len(s)
      BY <1>3
    <3>2. QED
      BY <1>1, <2>2, <3>1
  <2>6. u # <<>> /\ Len(u) <= KeepScans /\ ~ u[Len(u)].realtime
    BY <1>1, <1>2, <1>3, <2>2, EmptySeq
  <2>7. HistoryRunsOK(u)
    BY <1>1, <2>2, <2>4, <2>5, <2>6, HistoryScanRunsOK DEF HistoryIInv
  <2>8. HistoryRunsOK(runs)'
    BY <1>5, <2>1, <2>7 DEF HistoryRunsOK, HistoryNoLaterThanNow
  <2>9. (\A p \in Profiles : HistoryGapOK(runs, p))'
    BY <2>1, <2>3 DEF HistoryGapOK
  <2>10. QED
    BY <2>8, <2>9
<1>7. ASSUME ~ backfill
      PROVE  /\ HistoryRunsOK(runs)'
             /\ (Backfills \subseteq {TRUE} => \A p \in Profiles : HistoryGapOK(runs, p))'
  <2>1. runs' = s
    BY <1>4, <1>7
  <2>2. ASSUME NEW p \in Profiles
        PROVE  s[Len(s)].res[p] # None /\ s[Len(s)].res[p].at <= now
    <3>1. HistorySavedRun(c).res[p] # None
      BY <1>2 DEF History!Constants
    <3>2. QED
      BY <1>1, <1>2, <3>1
  <2>3. HistoryRunsOK(s)
    BY <1>1, <1>2, <1>3, <2>2, HistoryScanRunsOK DEF HistoryIInv
  <2>4. HistoryRunsOK(runs)'
    BY <1>5, <2>1, <2>3 DEF HistoryRunsOK, HistoryNoLaterThanNow
  <2>5. ~ (Backfills \subseteq {TRUE})
    BY <1>7
  <2>6. QED
    BY <2>4, <2>5
<1>8. /\ HistoryRunsOK(runs)'
      /\ (Backfills \subseteq {TRUE} => \A p \in Profiles : HistoryGapOK(runs, p))'
  BY <1>6, <1>7
<1>9. History!TypeOK'
  BY <1>5, <1>8 DEF HistoryIInv, History!TypeOK, HistoryRunsOK
<1>10. (\A k \in Scanners, p \in Profiles : HistoryOldIsOld(k, p))'
  BY <1>5 DEF HistoryIInv, History!TypeOK, HistoryOldIsOld
<1>11. QED
  BY <1>8, <1>9, <1>10 DEF HistoryIInv

\* The runs that a recording writes into.
HistoryWrittenRuns == IF History!RealtimeRuns(runs) # {} THEN runs
  ELSE History!Added(runs, HistoryBlank)
HistoryCellOf(h) == [val |-> h.val, ok |-> TRUE, at |-> now]

\* There is a realtime run when a value is written.
LEMMA HistoryWrittenRunsAre ==
  ASSUME History!Constants, HistoryIInv
  PROVE  /\ HistoryRunsOK(HistoryWrittenRuns) /\ History!Rt(HistoryWrittenRuns) # 0
         /\ HistoryWrittenRuns \in Seq(History!Run)
         /\ Backfills \subseteq {TRUE} => \A p \in Profiles : HistoryGapOK(HistoryWrittenRuns, p)
<1>1. CASE History!RealtimeRuns(runs) # {}
  <2>1. HistoryWrittenRuns = runs /\ HistoryRunsOK(runs) /\ runs \in Seq(History!Run)
    BY <1>1 DEF HistoryWrittenRuns, HistoryIInv, HistoryRunsOK
  <2>2. History!Rt(runs) # 0
    BY <1>1, <2>1, HistoryPlacesAre
  <2>3. QED
    BY <2>1, <2>2 DEF HistoryIInv
<1>2. CASE History!RealtimeRuns(runs) = {}
  <2> DEFINE u == History!Added(runs, HistoryBlank)
  <2>1. HistoryWrittenRuns = u
    BY <1>2 DEF HistoryWrittenRuns
  <2>2. HistoryRunsOK(u) /\ u \in Seq(History!Run)
    BY <1>2, HistoryAnewRunsOK DEF HistoryIInv, HistoryRunsOK
  <2>3. Backfills \subseteq {TRUE} => \A p \in Profiles : HistoryGapOK(u, p)
    BY <1>2, HistoryAnewGapOK DEF HistoryIInv
  <2>4. History!Rt(u) # 0
    <3>1. /\ u # <<>> /\ u[Len(u)].realtime
          /\ \A i \in 1 .. Len(u) - 1 : ~ u[i].realtime
      BY <1>2, HistoryAnewIs, HistoryBlankIs DEF HistoryIInv
    <3> HIDE DEF u
    <3>2. History!RealtimeRuns(u) = {Len(u)}
      BY <2>2, <3>1, HistoryRealtimeAdded
    <3>3. QED
      BY <2>2, <3>2, HistoryPlacesAre
  <2>5. QED
    BY <2>1, <2>2, <2>3, <2>4
<1>3. QED
  BY <1>1, <1>2

\* A recording writes the value it has heard, with the time of now.
LEMMA HistoryRecordIs ==
  ASSUME History!Constants, HistoryIInv, NEW h \in pending, History!Record(h)
  PROVE  /\ h.profile \in Profiles /\ h.val \in QuotaHeard
         /\ HistoryCellOf(h) \in History!Cell /\ HistoryCellOf(h) # None
         /\ HistoryCellOf(h).at = now
         /\ HistoryCellOf(h).val # None /\ HistoryCellOf(h).val = h.val
         /\ HistoryHeardIn(HistoryWrittenRuns, runs', h.profile, HistoryCellOf(h))
<1>1. h.profile \in Profiles /\ h.val \in QuotaHeard
  BY DEF HistoryIInv, History!TypeOK, History!Heard
<1>2. now \in 0 .. HistoryTime
  BY DEF HistoryIInv, History!TypeOK
<1>3. /\ HistoryCellOf(h) \in History!Cell /\ HistoryCellOf(h).at = now
      /\ HistoryCellOf(h).val = h.val
  BY <1>1, <1>2 DEF HistoryCellOf, History!Cell
<1>4. HistoryCellOf(h) # None /\ HistoryCellOf(h).val # None
  BY <1>1, <1>3 DEF History!Constants
<1>5. runs' = [HistoryWrittenRuns EXCEPT ![History!Rt(HistoryWrittenRuns)].res[h.profile]
        = HistoryCellOf(h)]
  BY DEF History!Record, HistoryWrittenRuns, HistoryBlank, HistoryCellOf
<1>6. HistoryHeardIn(HistoryWrittenRuns, runs', h.profile, HistoryCellOf(h))
  <2>1. HistoryWrittenRuns \in Seq(History!Run) /\ History!Rt(HistoryWrittenRuns) # 0
    BY HistoryWrittenRunsAre
  <2>2. QED
    BY <1>1, <1>3, <1>5, <2>1, HistoryWrittenIs
<1>7. QED
  BY <1>1, <1>3, <1>4, <1>6

\* Record keeps the invariant.
LEMMA HistoryRecordIInv ==
  ASSUME History!Constants, HistoryIInv, NEW h \in pending, History!Record(h)
  PROVE  HistoryIInv'
<1> DEFINE s == HistoryWrittenRuns
           q == h.profile
           cell == HistoryCellOf(h)
<1>1. /\ q \in Profiles /\ cell \in History!Cell /\ cell # None /\ cell.at = now
      /\ cell.val # None
      /\ HistoryHeardIn(s, runs', q, cell)
  BY HistoryRecordIs
<1>2. /\ HistoryRunsOK(s) /\ History!Rt(s) # 0
      /\ Backfills \subseteq {TRUE} => \A p \in Profiles : HistoryGapOK(s, p)
  BY HistoryWrittenRunsAre
<1>3. now \in 0 .. HistoryTime /\ UNCHANGED <<now, scan, cache>> /\ pending' = pending \ {h}
  BY DEF HistoryIInv, History!TypeOK, History!Record
<1> HIDE DEF s, q, cell
<1> DEFINE v == runs'
<1>4. HistoryHeardIn(s, v, q, cell)
  BY <1>1
<1>5. runs' = v
  OBVIOUS
<1> HIDE DEF v
<1>6. HistoryRunsOK(v)
  BY <1>1, <1>2, <1>3, <1>4, HistoryHeardRunsOK
<1>7. Backfills \subseteq {TRUE} => \A p \in Profiles : HistoryGapOK(v, p)
  BY <1>1, <1>2, <1>3, <1>4, HistoryHeardGapOK
<1>8. HistoryRunsOK(runs)'
  BY <1>3, <1>5, <1>6 DEF HistoryRunsOK, HistoryNoLaterThanNow
<1>9. (Backfills \subseteq {TRUE} => \A p \in Profiles : HistoryGapOK(runs, p))'
  BY <1>5, <1>7 DEF HistoryGapOK
<1>10. History!TypeOK'
  BY <1>3, <1>8 DEF HistoryIInv, History!TypeOK, HistoryRunsOK
<1>11. QED
  BY <1>3, <1>8, <1>9, <1>10 DEF HistoryIInv, HistoryOldIsOld

\* Every step keeps the invariant.
LEMMA HistoryNextIInv == ASSUME History!Constants, HistoryIInv, History!Next PROVE HistoryIInv'
BY HistoryTickIInv, HistoryHearIInv, HistoryStartScanIInv, HistorySaveScanIInv,
   HistoryAbandonScanIInv, HistoryReadWindowIInv,
   HistoryRecordIInv, HistoryRestartIInv DEF History!Next

\* A step in which nothing changes keeps the invariant.
LEMMA HistoryStaysIInv == ASSUME HistoryIInv, UNCHANGED History!vars PROVE HistoryIInv'
BY DEF HistoryIInv, History!vars, History!TypeOK, HistoryRunsOK, HistoryOldIsOld,
   HistoryNoLaterThanNow

\* What the invariant says of the properties.
LEMMA HistoryHistoryFacts ==
  ASSUME History!Constants, HistoryIInv
  PROVE  History!OneRealtimeRun /\ (Backfills \subseteq {TRUE} => History!ViewsAgree)
<1>1. History!OneRealtimeRun
  <2>1. CASE History!RealtimeRuns(runs) = {}
    <3>1. History!Cardinality(History!RealtimeRuns(runs)) = 0
      BY <2>1, HistorySets, FS_EmptySet
    <3>2. QED
      BY <3>1 DEF History!OneRealtimeRun
  <2>2. CASE History!RealtimeRuns(runs) # {}
    <3>1. PICK i \in History!RealtimeRuns(runs) : History!RealtimeRuns(runs) = {i}
      BY <2>2 DEF HistoryIInv, HistoryRunsOK, HistoryRealtimeIsOne
    <3>2. History!Cardinality(History!RealtimeRuns(runs)) = 1
      BY <3>1, HistorySets, FS_Singleton
    <3>3. QED
      BY <3>2 DEF History!OneRealtimeRun
  <2>3. QED
    BY <2>1, <2>2
<1>2. Backfills \subseteq {TRUE} => History!ViewsAgree
  BY HistoryAgree DEF HistoryIInv, HistoryRunsOK, History!ViewsAgree, History!Estimate
<1>3. QED
  BY <1>1, <1>2

\* What dispatch reads of an account that a recording does not concern.
LEMMA HistoryMergedSame ==
  ASSUME NEW s \in Seq(History!Run), NEW v, NEW q \in Profiles, NEW cell \in History!Cell,
         HistoryHeardIn(s, v, q, cell), NEW p \in Profiles, p # q
  PROVE  History!Merged(v, p) = History!Merged(s, p)
<1>1. /\ History!Base(v) = History!Base(s) /\ History!Rt(v) = History!Rt(s)
      /\ (v = <<>> <=> s = <<>>)
  BY HistoryHeardPlaces
<1>2. CASE s = <<>>
  BY <1>1, <1>2 DEF History!Merged
<1>3. CASE s # <<>>
  <2>1. History!Base(s) \in 1 .. Len(s) /\ (History!Rt(s) # 0 => History!Rt(s) \in 1 .. Len(s))
    BY <1>3, HistoryPlacesAre
  <2>2. /\ v[History!Base(s)].res[p] = s[History!Base(s)].res[p]
        /\ History!Rt(s) # 0 => v[History!Rt(s)].res[p] = s[History!Rt(s)].res[p]
    BY <2>1 DEF HistoryHeardIn
  <2>3. QED
    BY <1>1, <1>3, <2>2 DEF History!Merged
<1>4. QED
  BY <1>2, <1>3

\* A new realtime run does not change what is estimated, unless one run is all that is kept.
LEMMA HistoryAnewMergedSame ==
  ASSUME History!Constants, HistoryRunsOK(runs), History!RealtimeRuns(runs) = {}, KeepScans > 1,
         NEW p \in Profiles
  PROVE  History!Merged(History!Added(runs, HistoryBlank), p) = History!Merged(runs, p)
<1> DEFINE u == History!Added(runs, HistoryBlank)
           d == HistoryDropped(runs)
           m == Len(runs)
<1>1. /\ u \in Seq(History!Run) /\ u # <<>> /\ Len(u) \in 1 .. KeepScans /\ KeepScans \in Nat
      /\ d \in Nat
      /\ m = Len(u) - 1 + d /\ m \in Nat
      /\ u[Len(u)] = HistoryBlank /\ u[Len(u)].realtime
      /\ \A i \in 1 .. Len(u) - 1 :
           i + d \in 1 .. m /\ u[i] = runs[i + d] /\ ~ u[i].realtime
  BY HistoryAnewIs, HistoryBlankIs DEF History!Constants
<1>2. d = IF m = KeepScans THEN 1 ELSE 0
  BY DEF HistoryDropped
<1> HIDE DEF u, d
<1>3. /\ History!Rt(u) = Len(u)
      /\ Len(u) > 1 => History!Base(u) = Len(u) - 1
      /\ Len(u) = 1 => History!Base(u) = 1
  BY <1>1, HistoryRealtimeAdded
<1>4. u[History!Rt(u)].res[p] = None /\ History!Rt(u) # 0
  BY <1>1, <1>3, HistoryBlankIs
<1>5. runs \in Seq(History!Run) /\ DOMAIN runs = 1 .. m
  BY HistoryPlacesAre DEF HistoryRunsOK
<1>6. CASE m = 0
  <2>1. Len(u) = 1 /\ runs = <<>>
    BY <1>1, <1>2, <1>5, <1>6, EmptySeq
  <2>2. History!Merged(u, p) = None
    BY <1>1, <1>3, <1>4, <2>1 DEF History!Merged
  <2>3. QED
    BY <2>1, <2>2 DEF History!Merged, u
<1>7. CASE m # 0
  <2>1. Len(u) > 1 /\ Len(u) - 1 \in 1 .. Len(u) - 1 /\ Len(u) - 1 + d = m
    <3> HIDE DEF m
    <3>1. Len(u) \in Nat /\ Len(u) = m + 1 - d
      BY <1>1
    <3>2. Len(u) > 1
      BY <1>1, <1>2, <1>7, <3>1
    <3>3. QED
      BY <1>1, <3>1, <3>2
  <2>2. /\ History!Base(u) = Len(u) - 1 /\ u[History!Base(u)] = runs[m]
        /\ History!Rt(u) # History!Base(u)
    BY <1>1, <1>3, <2>1
  <2>3. runs # <<>> /\ m \in 1 .. m
    BY <1>1, <1>5, <1>7, EmptySeq
  <2>4. History!Base(runs) = m /\ History!Rt(runs) = 0
    <3>1. ~ runs[m].realtime
      BY <1>5, <2>3 DEF History!RealtimeRuns
    <3>2. QED
      BY <1>5, <2>3, <3>1, HistoryScanAdded, HistoryPlacesAre
  <2>5. History!Merged(u, p) = runs[m].res[p]
    BY <1>1, <1>4, <2>2 DEF History!Merged, History!Overrules
  <2>6. History!Merged(runs, p) = runs[m].res[p]
    BY <2>3, <2>4 DEF History!Merged
  <2>7. QED
    BY <2>5, <2>6 DEF u
<1>8. QED
  BY <1>6, <1>7

\* A recording leaves the estimates of the other accounts alone.
LEMMA HistoryRecordLocal ==
  ASSUME History!Constants, KeepScans > 1, HistoryIInv, NEW h \in pending, History!Record(h),
         NEW p \in Profiles, p # h.profile
  PROVE  History!Estimate(p)' = History!Estimate(p)
<1>1. HistoryHeardIn(HistoryWrittenRuns, runs', h.profile, HistoryCellOf(h))
        /\ HistoryCellOf(h) \in History!Cell
      /\ h.profile \in Profiles /\ HistoryWrittenRuns \in Seq(History!Run)
  BY HistoryRecordIs, HistoryWrittenRunsAre
<1>2. History!Merged(runs', p) = History!Merged(HistoryWrittenRuns, p)
  BY <1>1, HistoryMergedSame
<1>3. History!Merged(HistoryWrittenRuns, p) = History!Merged(runs, p)
  <2>1. CASE History!RealtimeRuns(runs) # {}
    BY <2>1 DEF HistoryWrittenRuns
  <2>2. CASE History!RealtimeRuns(runs) = {}
    BY <2>2, HistoryAnewMergedSame DEF HistoryWrittenRuns, HistoryIInv
  <2>3. QED
    BY <2>1, <2>2
<1>4. History!Merged(runs, p)' = History!Merged(runs', p)
  BY DEF History!Merged, History!Base, History!Rt, History!ScanRuns, History!RealtimeRuns,
     History!Newest, History!Overrules
<1>5. QED
  BY <1>2, <1>3, <1>4 DEF History!Estimate

\* A recording changes the estimate of its own account only.
LEMMA HistoryNextLocal ==
  ASSUME History!Constants, KeepScans > 1, HistoryIInv, History!Next, NEW p \in Profiles,
         pending' # pending, pending' \subseteq pending, scan' = scan,
         \A h \in pending \ pending' : h.profile # p
  PROVE  History!Estimate(p)' = History!Estimate(p)
<1>1. \/ \E h \in pending : History!Record(h) /\ h \notin pending'
      \/ UNCHANGED runs
  BY DEF History!Next, History!Tick, History!Hear, History!StartScan, History!SaveScan,
     History!AbandonScan, History!ReadWindow, History!Record, History!Restart
<1>2. CASE UNCHANGED runs
  BY <1>2
     DEF History!Estimate, History!Merged, History!Base, History!Rt, History!ScanRuns,
         History!RealtimeRuns
<1>3. QED
  BY <1>1, <1>2, HistoryRecordLocal
=============================================================================
