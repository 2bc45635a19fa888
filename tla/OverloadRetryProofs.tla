------------------------- MODULE OverloadRetryProofs -------------------------
(***************************************************************************)
(* Proofs about the overload retry, the part "overload" of Background, for *)
(* any number of jobs, accounts and callers, any limit and any number of   *)
(* families: the lines of retries are bounded and never go back to an      *)
(* account, although a child is inserted on what was read before the wait. *)
(***************************************************************************)
EXTENDS Background, WellFoundedInduction, TLAPS

\* What the constants of this part are.
LEMMA OverloadConstantsHold ==
  RetryJobs \subseteq Nat /\ None \notin RetryJobs /\ MaxTries \in Nat \ {0}
BY ConstantsAreRight DEF Overload!Constants

-----------------------------------------------------------------------------
(* The inductive invariant *)

\* A row before its job exists.
OverloadBlank(j) == retry[j].parent = None /\ retry[j].root = j /\ retry[j].idx = 0

\* S has the parent of each of its jobs.
OverloadClosed(S) == \A k \in S : retry[k].parent # None => retry[k].parent \in S

\* j follows on its parent and on an account its line has not used.
OverloadJobOK(j) ==
  /\ retry[j].idx < MaxTries
  /\ retry[j].parent # None =>
       /\ retry[j].parent \in Overload!Present
       /\ retry[retry[j].parent].idx < retry[j].idx
       /\ retry[retry[j].parent].root = retry[j].root
       /\ \E S \in SUBSET Overload!Present :
            /\ retry[j].parent \in S
            /\ OverloadClosed(S)
            /\ \A k \in S : retry[k].profile # retry[j].profile

\* What a caller took with it is good enough for the child it will insert.
OverloadCallOK(c) ==
  call[c] # Overload!Idle =>
    /\ call[c].of \in Overload!Present
    /\ call[c].root = retry[call[c].of].root
    /\ retry[call[c].of].idx < call[c].idx
    /\ call[c].idx < MaxTries
    /\ \E S \in SUBSET Overload!Present :
         /\ call[c].of \in S
         /\ OverloadClosed(S)
         /\ \A k \in S : retry[k].profile \in call[c].avoid

OverloadIInv ==
  /\ Overload!TypeOK
  /\ submitting \subseteq Overload!Present
  /\ \A j \in RetryJobs \ Overload!Present : OverloadBlank(j)
  /\ \A j \in Overload!Present : OverloadJobOK(j)
  /\ \A c \in Procs : OverloadCallOK(c)

-----------------------------------------------------------------------------
(* The greatest index of a family *)

\* A bounded set of natural numbers that is not empty has a greatest element.
LEMMA OverloadMaxExists ==
  ASSUME NEW b \in Nat, NEW S \in SUBSET Nat, NEW y \in S, \A x \in S : x < b
  PROVE  \E m \in S : \A x \in S : x <= m
<1> DEFINE T == {n \in Nat : \E x \in S : n = b - x}
           R == {p \in Nat \X Nat : p[1] < p[2]}
<1>1. T \subseteq Nat /\ T # {}
  BY b - y \in T
<1>2. \E n \in T : \A k \in T : ~ (<<k, n>> \in OpToRel(<, Nat))
  <2> HIDE DEF T
  <2> QED BY <1>1, WFMin, NatLessThanWellFounded, Zenon
<1>3. OpToRel(<, Nat) = R
  BY Zenon DEF OpToRel
<1>4. \A k, n \in Nat : k < n => <<k, n>> \in R
  BY SMT
<1>5. PICK n \in T : \A k \in T : ~ (k < n)
  <2> HIDE DEF T, R
  <2> QED BY <1>1, <1>2, <1>3, <1>4, Zenon
<1>6. PICK m \in S : n = b - m
  BY <1>5
<1> QED BY <1>5, <1>6

\* MaxIdx is the greatest index of a family that has a job.
LEMMA OverloadMaxIdxIsMax ==
  ASSUME OverloadIInv, NEW j \in Overload!Present
  PROVE  /\ Overload!MaxIdx(retry[j].root) \in Nat
         /\ \E k \in Overload!Family(retry[j].root) : Overload!MaxIdx(retry[j].root)
              = retry[k].idx
         /\ \A k \in Overload!Family(retry[j].root) : retry[k].idx
              <= Overload!MaxIdx(retry[j].root)
<1> DEFINE r == retry[j].root
           I == {retry[k].idx : k \in Overload!Family(r)}
<1>1. I \in SUBSET Nat /\ retry[j].idx \in I
  BY DEF OverloadIInv, Overload!TypeOK, Overload!Row, Overload!Family, Overload!Present
<1>2. \A x \in I : x < MaxTries
  BY DEF OverloadIInv, OverloadJobOK, Overload!Family
<1>3. MaxTries \in Nat
  BY OverloadConstantsHold
<1>4. \E m \in I : \A x \in I : x <= m
  <2> HIDE DEF I
  <2> QED BY <1>1, <1>2, <1>3, OverloadMaxExists
<1>5. \E m \in I : \A k \in Overload!Family(r) : retry[k].idx <= m
  BY <1>4
<1>6. Overload!MaxIdx(r) \in I /\ \A k \in Overload!Family(r) : retry[k].idx <= Overload!MaxIdx(r)
  BY <1>5 DEF Overload!MaxIdx
<1> QED BY <1>1, <1>6

\* What a call begins with satisfies the invariant.
LEMMA OverloadSnapshotOK ==
  ASSUME OverloadIInv, NEW j \in Overload!Present, Overload!MaySpawn(j)
  PROVE  LET s == Overload!Snapshot(j) IN
           /\ s \in Overload!Wait
           /\ s.of = j /\ s.root = retry[j].root
           /\ retry[j].idx < s.idx /\ s.idx < MaxTries
           /\ \E S \in SUBSET Overload!Present :
                /\ j \in S
                /\ OverloadClosed(S)
                /\ \A k \in S : retry[k].profile \in s.avoid
<1> DEFINE r == retry[j].root
           F == Overload!Family(r)
<1>1. j \in F /\ F \subseteq Overload!Present /\ r \in RetryJobs /\ j \in RetryJobs
  BY DEF Overload!Family, Overload!Present, OverloadIInv, Overload!TypeOK, Overload!Row
<1>2. Overload!MaxIdx(r) \in Nat /\ retry[j].idx <= Overload!MaxIdx(r) /\ retry[j].idx \in Nat
  BY <1>1, OverloadMaxIdxIsMax DEF OverloadIInv, Overload!TypeOK, Overload!Row
<1>3. Overload!MaxIdx(r) + 1 < MaxTries
  BY DEF Overload!MaySpawn
<1>4. OverloadClosed(F)
  BY DEF OverloadClosed, Overload!Family, OverloadIInv, OverloadJobOK
<1>5. \A k \in RetryJobs : retry[k].profile \in RetryAccounts \cup {None}
  BY DEF OverloadIInv, Overload!TypeOK, Overload!Row
<1>6. Overload!Snapshot(j) \in Overload!Wait
  BY <1>1, <1>2, <1>5 DEF Overload!Snapshot, Overload!Wait, Overload!Family, Overload!Present
<1>7. \A k \in F : retry[k].profile \in Overload!Snapshot(j).avoid
  BY DEF Overload!Snapshot
<1> QED BY <1>1, <1>2, <1>3, <1>4, <1>6, <1>7, OverloadConstantsHold DEF Overload!Snapshot

-----------------------------------------------------------------------------
(* Jobs and calls that a step leaves alone *)

\* Jobs are only added, and what a job was made with never changes.
OverloadGrows ==
  /\ Overload!Present \subseteq Overload!Present'
  /\ \A k \in Overload!Present : /\ retry'[k].profile = retry[k].profile
                                 /\ retry'[k].parent = retry[k].parent
                                 /\ retry'[k].root = retry[k].root
                                 /\ retry'[k].idx = retry[k].idx

\* Such a step keeps what the invariant says of the jobs and the calls there were.
LEMMA OverloadPersist ==
  ASSUME OverloadIInv, OverloadGrows
  PROVE  /\ \A j \in Overload!Present : OverloadJobOK(j)'
         /\ \A c \in Procs : call'[c] = call[c] => OverloadCallOK(c)'
<1>1. ASSUME NEW S \in SUBSET Overload!Present, OverloadClosed(S)
      PROVE  S \in SUBSET Overload!Present' /\ OverloadClosed(S)'
  BY <1>1 DEF OverloadClosed, OverloadGrows
<1>2. ASSUME NEW j \in Overload!Present PROVE OverloadJobOK(j)'
  <2>1. OverloadJobOK(j)
    BY <1>2 DEF OverloadIInv
  <2>2. CASE retry[j].parent = None
    BY <2>1, <2>2, <1>2 DEF OverloadJobOK, OverloadGrows
  <2>3. CASE retry[j].parent # None
    <3>1. PICK S \in SUBSET Overload!Present :
            /\ retry[j].parent \in S
            /\ OverloadClosed(S)
            /\ \A k \in S : retry[k].profile # retry[j].profile
      BY <2>1, <2>3 DEF OverloadJobOK
    <3>2. S \in SUBSET Overload!Present' /\ OverloadClosed(S)'
      BY <1>1, <3>1
    <3>3. retry'[j].parent \in S /\ \A k \in S : retry'[k].profile # retry'[j].profile
      BY <3>1, <1>2 DEF OverloadGrows
    <3>4. /\ retry[j].parent \in Overload!Present
          /\ retry[retry[j].parent].idx < retry[j].idx
          /\ retry[retry[j].parent].root = retry[j].root
          /\ retry[j].idx < MaxTries
      BY <2>1, <2>3 DEF OverloadJobOK
    <3>5. /\ retry'[j].parent \in Overload!Present'
          /\ retry'[retry'[j].parent].idx < retry'[j].idx
          /\ retry'[retry'[j].parent].root = retry'[j].root
          /\ retry'[j].idx < MaxTries
      BY <3>4, <1>2 DEF OverloadGrows
    <3> QED BY <3>2, <3>3, <3>5 DEF OverloadJobOK
  <2> QED BY <2>2, <2>3
<1>3. ASSUME NEW c \in Procs, call'[c] = call[c] PROVE OverloadCallOK(c)'
  <2>1. OverloadCallOK(c)
    BY <1>3 DEF OverloadIInv
  <2>2. CASE call[c] = Overload!Idle
    BY <2>2, <1>3 DEF OverloadCallOK, Overload!Idle
  <2>3. CASE call[c] # Overload!Idle
    <3>1. PICK S \in SUBSET Overload!Present :
            /\ call[c].of \in S
            /\ OverloadClosed(S)
            /\ \A k \in S : retry[k].profile \in call[c].avoid
      BY <2>1, <2>3 DEF OverloadCallOK
    <3>2. S \in SUBSET Overload!Present' /\ OverloadClosed(S)'
      BY <1>1, <3>1
    <3>3. call'[c].of \in S /\ \A k \in S : retry'[k].profile \in call'[c].avoid
      BY <3>1, <1>3 DEF OverloadGrows
    <3>4. /\ call[c].of \in Overload!Present
          /\ call[c].root = retry[call[c].of].root
          /\ retry[call[c].of].idx < call[c].idx
          /\ call[c].idx < MaxTries
      BY <2>1, <2>3 DEF OverloadCallOK
    <3>5. /\ call'[c].of \in Overload!Present'
          /\ call'[c].root = retry'[call'[c].of].root
          /\ retry'[call'[c].of].idx < call'[c].idx
          /\ call'[c].idx < MaxTries
      BY <3>4, <1>3 DEF OverloadGrows
    <3> QED BY <3>2, <3>3, <3>5 DEF OverloadCallOK
  <2> QED BY <2>2, <2>3
<1> QED BY <1>2, <1>3

\* A step that moves jobs between statuses only.
OverloadMoves ==
  /\ Overload!Present' = Overload!Present
  /\ \A k \in RetryJobs : /\ retry'[k].profile = retry[k].profile
                          /\ retry'[k].parent = retry[k].parent
                          /\ retry'[k].root = retry[k].root
                          /\ retry'[k].idx = retry[k].idx

\* Setting the status of a job that exists is such a step, and keeps the types.
LEMMA OverloadSetStatusMoves ==
  ASSUME Overload!TypeOK, NEW j \in Overload!Present, NEW s \in Overload!Statuses \ {"absent"},
         Overload!SetStatus(j, s)
  PROVE  OverloadMoves /\ retry' \in [RetryJobs -> Overload!Row]
<1>1. j \in RetryJobs /\ retry \in [RetryJobs -> Overload!Row]
  BY DEF Overload!Present, Overload!TypeOK
<1>2. retry' = [retry EXCEPT ![j].status = s]
  BY DEF Overload!SetStatus
<1>3. \A k \in RetryJobs : retry'[k] = IF k = j THEN [retry[j] EXCEPT !.status = s] ELSE retry[k]
  BY <1>1, <1>2
<1>4. retry' \in [RetryJobs -> Overload!Row]
  BY <1>1, <1>2 DEF Overload!Row
<1>5. OverloadMoves
  BY <1>1, <1>3 DEF OverloadMoves, Overload!Present, Overload!Row
<1> QED BY <1>4, <1>5

\* It keeps the invariant if every call there is was there before.
LEMMA OverloadMovesKeep ==
  ASSUME OverloadIInv, OverloadMoves, Overload!TypeOK', submitting' \subseteq Overload!Present,
         \A c \in Procs : call'[c] \in {call[c], Overload!Idle}
  PROVE  OverloadIInv'
<1>1. OverloadGrows
  BY DEF OverloadMoves, OverloadGrows, Overload!Present
<1>2. \A j \in Overload!Present' : OverloadJobOK(j)'
  BY <1>1, OverloadPersist DEF OverloadMoves
<1>3. \A c \in Procs : OverloadCallOK(c)'
  BY <1>1, OverloadPersist DEF OverloadCallOK, Overload!Idle
<1>4. \A j \in RetryJobs \ Overload!Present' : OverloadBlank(j)'
  BY DEF OverloadMoves, OverloadIInv, OverloadBlank
<1> QED BY <1>2, <1>3, <1>4 DEF OverloadIInv, OverloadMoves

\* It keeps the invariant if a caller begins on a job that may have a child.
LEMMA OverloadCallBegins ==
  ASSUME OverloadIInv, OverloadMoves, Overload!TypeOK', submitting' \subseteq Overload!Present,
         NEW j \in Overload!Present, Overload!MaySpawn(j), NEW c \in Procs,
         call' = [call EXCEPT ![c] = Overload!Snapshot(j)]
  PROVE  OverloadIInv'
<1>1. OverloadGrows
  BY DEF OverloadMoves, OverloadGrows, Overload!Present
<1>2. \A i \in Overload!Present' : OverloadJobOK(i)'
  BY <1>1, OverloadPersist DEF OverloadMoves
<1>3. call \in [Procs -> Overload!Wait \cup {Overload!Idle}]
  BY DEF OverloadIInv, Overload!TypeOK
<1>4. OverloadCallOK(c)'
  <2>1. call'[c] = Overload!Snapshot(j)
    BY <1>3
  <2>2. PICK S \in SUBSET Overload!Present :
          /\ j \in S
          /\ OverloadClosed(S)
          /\ \A k \in S : retry[k].profile \in Overload!Snapshot(j).avoid
    BY OverloadSnapshotOK
  <2>3. S \in SUBSET Overload!Present' /\ OverloadClosed(S)'
    BY <2>2 DEF OverloadMoves, OverloadClosed, Overload!Present
  <2>4. \A k \in S : retry'[k].profile \in Overload!Snapshot(j).avoid
    BY <2>2 DEF OverloadMoves, Overload!Present
  <2>5. /\ Overload!Snapshot(j).of = j /\ Overload!Snapshot(j).root = retry[j].root
        /\ retry[j].idx < Overload!Snapshot(j).idx /\ Overload!Snapshot(j).idx < MaxTries
    BY OverloadSnapshotOK
  <2>6. retry'[j].root = retry[j].root /\ retry'[j].idx = retry[j].idx /\ j \in Overload!Present'
    BY DEF OverloadMoves, Overload!Present
  <2> QED BY <2>1, <2>2, <2>3, <2>4, <2>5, <2>6 DEF OverloadCallOK
<1>5. \A d \in Procs \ {c} : OverloadCallOK(d)'
  BY <1>1, <1>3, OverloadPersist
<1>6. \A i \in RetryJobs \ Overload!Present' : OverloadBlank(i)'
  BY DEF OverloadMoves, OverloadIInv, OverloadBlank
<1> QED BY <1>2, <1>4, <1>5, <1>6 DEF OverloadIInv, OverloadMoves

-----------------------------------------------------------------------------
(* The steps that make jobs *)

\* A new root job starts a family of its own.
LEMMA OverloadCreateStep ==
  ASSUME OverloadIInv, NEW j \in RetryJobs, NEW p \in RetryAccounts, Overload!Create(j, p)
  PROVE  OverloadIInv'
<1>1. retry \in [RetryJobs -> Overload!Row] /\ j \notin Overload!Present
  BY DEF OverloadIInv, Overload!TypeOK, Overload!Create, Overload!Fresh
<1>2. retry' = [retry EXCEPT ![j] = [retry[j] EXCEPT !.status = "queued", !.profile = p]]
  BY <1>1 DEF Overload!Create
<1>3. \A k \in RetryJobs : k # j => retry'[k] = retry[k]
  BY <1>1, <1>2
<1>4. /\ retry'[j].status = "queued" /\ retry'[j].profile = p
      /\ retry'[j].parent = retry[j].parent /\ retry'[j].root = retry[j].root
      /\ retry'[j].idx = retry[j].idx
  BY <1>1, <1>2 DEF Overload!Row
<1>5. retry' \in [RetryJobs -> Overload!Row]
  BY <1>1, <1>2 DEF Overload!Row, Overload!Statuses
<1>6. Overload!Present' = Overload!Present \cup {j}
  BY <1>1, <1>3, <1>4 DEF Overload!Present
<1>7. OverloadGrows
  BY <1>1, <1>3, <1>6 DEF OverloadGrows, Overload!Present
<1>8. OverloadBlank(j)
  BY <1>1 DEF OverloadIInv
<1>9. OverloadJobOK(j)'
  BY <1>4, <1>8, OverloadConstantsHold DEF OverloadJobOK, OverloadBlank
<1>10. call' = call /\ submitting' = submitting
  BY DEF Overload!Create
<1>11. \A k \in Overload!Present' : OverloadJobOK(k)'
  BY <1>6, <1>7, <1>9, OverloadPersist
<1>12. \A c \in Procs : OverloadCallOK(c)'
  BY <1>7, <1>10, OverloadPersist
<1>13. \A k \in RetryJobs \ Overload!Present' : OverloadBlank(k)'
  BY <1>3, <1>6 DEF OverloadIInv, OverloadBlank
<1>14. Overload!TypeOK'
  BY <1>5, <1>10 DEF OverloadIInv, Overload!TypeOK
<1> QED BY <1>6, <1>10, <1>11, <1>12, <1>13, <1>14 DEF OverloadIInv

\* The child is right because what the call took with it is still right.
LEMMA OverloadSpawnStep ==
  ASSUME OverloadIInv, NEW c \in Procs, NEW j \in RetryJobs, NEW p \in RetryAccounts,
         Overload!Spawn(c, j, p)
  PROVE  OverloadIInv'
<1> DEFINE child == [status |-> "queued", profile |-> p, parent |-> call[c].of,
                     root |-> call[c].root, idx |-> call[c].idx]
<1>1. /\ retry \in [RetryJobs -> Overload!Row] /\ j \notin Overload!Present
      /\ call[c] # Overload!Idle
  BY DEF OverloadIInv, Overload!TypeOK, Overload!Spawn, Overload!Fresh
<1>2. call[c] \in Overload!Wait /\ call \in [Procs -> Overload!Wait \cup {Overload!Idle}]
  BY <1>1 DEF OverloadIInv, Overload!TypeOK
<1>3. retry' = [retry EXCEPT ![j] = child] /\ retry'[j] = child
  BY <1>1 DEF Overload!Spawn
<1>4. \A k \in RetryJobs : k # j => retry'[k] = retry[k]
  BY <1>1, <1>3
<1>5. retry' \in [RetryJobs -> Overload!Row]
  BY <1>1, <1>2, <1>3 DEF Overload!Row, Overload!Wait, Overload!Statuses
<1>6. Overload!Present' = Overload!Present \cup {j}
  BY <1>3, <1>4 DEF Overload!Present
<1>7. OverloadGrows
  BY <1>1, <1>4, <1>6 DEF OverloadGrows, Overload!Present
<1>8. PICK S \in SUBSET Overload!Present :
        /\ call[c].of \in S
        /\ OverloadClosed(S)
        /\ \A k \in S : retry[k].profile \in call[c].avoid
  BY <1>1 DEF OverloadIInv, OverloadCallOK
<1>9. OverloadJobOK(j)'
  <2>1. /\ call[c].of \in Overload!Present /\ call[c].of # j
        /\ call[c].root = retry[call[c].of].root
        /\ retry[call[c].of].idx < call[c].idx
        /\ call[c].idx < MaxTries
    BY <1>1 DEF OverloadIInv, OverloadCallOK
  <2>2. S \in SUBSET Overload!Present' /\ j \notin S
    BY <1>1, <1>6
  <2>3. OverloadClosed(S)'
    BY <1>8, <1>4, <2>2 DEF OverloadClosed, Overload!Present
  <2>4. \A k \in S : retry'[k].profile # p
    BY <1>8, <1>4, <2>2 DEF Overload!Present, Overload!Spawn
  <2>5. retry'[call[c].of] = retry[call[c].of] /\ call[c].of \in Overload!Present'
    BY <2>1, <1>4, <1>6 DEF Overload!Present
  <2>6. /\ retry'[j].idx < MaxTries
        /\ retry'[j].parent \in Overload!Present' /\ retry'[j].parent \in S
        /\ retry'[retry'[j].parent].idx < retry'[j].idx
        /\ retry'[retry'[j].parent].root = retry'[j].root
        /\ retry'[j].profile = p
    BY <1>3, <1>8, <2>1, <2>5
  <2> QED BY <2>2, <2>3, <2>4, <2>6 DEF OverloadJobOK
<1>10. call' = [call EXCEPT ![c] = Overload!Idle] /\ submitting' = submitting
  BY DEF Overload!Spawn
<1>11. \A k \in Overload!Present' : OverloadJobOK(k)'
  BY <1>6, <1>7, <1>9, OverloadPersist
<1>12. \A d \in Procs : OverloadCallOK(d)'
  BY <1>2, <1>7, <1>10, OverloadPersist DEF OverloadCallOK
<1>13. \A k \in RetryJobs \ Overload!Present' : OverloadBlank(k)'
  BY <1>4, <1>6 DEF OverloadIInv, OverloadBlank
<1>14. Overload!TypeOK'
  BY <1>2, <1>5, <1>10 DEF OverloadIInv, Overload!TypeOK
<1> QED BY <1>6, <1>10, <1>11, <1>12, <1>13, <1>14 DEF OverloadIInv

-----------------------------------------------------------------------------
(* The other steps *)

LEMMA OverloadInitOK == Overload!Init => OverloadIInv
<1> SUFFICES ASSUME Overload!Init PROVE OverloadIInv
  OBVIOUS
<1>1. Overload!TypeOK
  BY DEF Overload!Init, Overload!TypeOK, Overload!Row, Overload!Statuses
<1>2. Overload!Present = {} /\ submitting = {}
  BY DEF Overload!Init, Overload!Present
<1>3. \A j \in RetryJobs : OverloadBlank(j)
  BY DEF Overload!Init, OverloadBlank
<1>4. \A c \in Procs : call[c] = Overload!Idle
  BY DEF Overload!Init
<1> QED BY <1>1, <1>2, <1>3, <1>4 DEF OverloadIInv, OverloadCallOK

\* A step that sets the status of one job and starts no call.
LEMMA OverloadStatusStep ==
  ASSUME OverloadIInv, NEW j \in Overload!Present, NEW s \in Overload!Statuses \ {"absent"},
         Overload!SetStatus(j, s),
         submitting' \subseteq submitting \cup {j}, UNCHANGED call
  PROVE  OverloadIInv'
<1>1. OverloadMoves /\ retry' \in [RetryJobs -> Overload!Row]
  BY OverloadSetStatusMoves DEF OverloadIInv
<1>2. submitting' \subseteq Overload!Present
  BY DEF OverloadIInv
<1>3. Overload!TypeOK'
  BY <1>1, <1>2 DEF OverloadIInv, Overload!TypeOK, Overload!Present
<1> QED BY <1>1, <1>2, <1>3, OverloadMovesKeep

LEMMA OverloadRefusedStep ==
  ASSUME OverloadIInv, NEW j \in RetryJobs, NEW c \in Procs, Overload!Overload(j, c)
  PROVE  OverloadIInv'
<1>1. /\ j \in Overload!Present /\ Overload!SetStatus(j, "overload")
      /\ submitting' \subseteq submitting
  BY DEF Overload!Overload, OverloadIInv
<1>2. OverloadMoves /\ retry' \in [RetryJobs -> Overload!Row]
  BY <1>1, OverloadSetStatusMoves DEF OverloadIInv, Overload!Statuses
<1>3. submitting' \subseteq Overload!Present
  BY <1>1 DEF OverloadIInv
<1>4. CASE Overload!MaySpawn(j)
  <2>1. call' = [call EXCEPT ![c] = Overload!Snapshot(j)]
    BY <1>4 DEF Overload!Overload
  <2>2. Overload!TypeOK'
    BY <1>1, <1>2, <1>3, <1>4, <2>1, OverloadSnapshotOK
       DEF OverloadIInv, Overload!TypeOK, Overload!Present
  <2> QED BY <1>1, <1>2, <1>3, <1>4, <2>1, <2>2, OverloadCallBegins
<1>5. CASE ~Overload!MaySpawn(j)
  <2>1. call' = call
    BY <1>5 DEF Overload!Overload
  <2>2. Overload!TypeOK'
    BY <1>2, <1>3, <2>1 DEF OverloadIInv, Overload!TypeOK, Overload!Present
  <2> QED BY <1>2, <1>3, <2>1, <2>2, OverloadMovesKeep
<1> QED BY <1>4, <1>5

LEMMA OverloadRetryStep ==
  ASSUME OverloadIInv, NEW j \in RetryJobs, NEW c \in Procs, Overload!RetryOverload(j, c)
  PROVE  OverloadIInv'
<1>1. j \in Overload!Present /\ Overload!MaySpawn(j) /\ retry' = retry /\ submitting' = submitting
  BY DEF Overload!RetryOverload, Overload!Present
<1>2. call' = [call EXCEPT ![c] = Overload!Snapshot(j)]
  BY DEF Overload!RetryOverload
<1>3. Overload!TypeOK'
  BY <1>1, <1>2, OverloadSnapshotOK DEF OverloadIInv, Overload!TypeOK
<1>4. OverloadMoves /\ submitting' \subseteq Overload!Present
  BY <1>1 DEF OverloadMoves, Overload!Present, OverloadIInv
<1> QED BY <1>1, <1>2, <1>3, <1>4, OverloadCallBegins

LEMMA OverloadRestartStep ==
  ASSUME OverloadIInv, Overload!Restart
  PROVE  OverloadIInv'
<1>1. PICK S \in SUBSET {j \in RetryJobs : retry[j].status = "running"} :
        retry' = [j \in RetryJobs |-> IF j \in S THEN [retry[j] EXCEPT !.status = "failed"]
          ELSE retry[j]]
  BY DEF Overload!Restart
<1>2. retry \in [RetryJobs -> Overload!Row]
  BY DEF OverloadIInv, Overload!TypeOK
<1>3. retry' \in [RetryJobs -> Overload!Row]
  BY <1>1, <1>2 DEF Overload!Row, Overload!Statuses
<1>4. OverloadMoves
  BY <1>1, <1>2 DEF OverloadMoves, Overload!Present, Overload!Row
<1>5. submitting' = {} /\ call' = [c \in Procs |-> Overload!Idle]
  BY DEF Overload!Restart
<1>6. Overload!TypeOK'
  BY <1>3, <1>5 DEF Overload!TypeOK
<1> QED BY <1>4, <1>5, <1>6, OverloadMovesKeep

LEMMA OverloadNextStep ==
  ASSUME OverloadIInv, [Overload!Next]_(Overload!vars)
  PROVE  OverloadIInv'
<1>1. ASSUME NEW j \in RetryJobs, Overload!Start(j) \/ Overload!Cancel(j) \/ Overload!Accepted(j)
             \/ Overload!Fail(j) \/ Overload!Retry(j)
      PROVE  OverloadIInv'
  <2>1. j \in Overload!Present
    BY <1>1
       DEF Overload!Start, Overload!Cancel, Overload!Accepted, Overload!Fail, Overload!Retry,
           Overload!Present, OverloadIInv
  <2>2. PICK s \in Overload!Statuses \ {"absent"} : Overload!SetStatus(j, s)
    BY <1>1
       DEF Overload!Start, Overload!Cancel, Overload!Accepted, Overload!Fail, Overload!Retry,
           Overload!Statuses
  <2>3. submitting' \subseteq submitting \cup {j} /\ UNCHANGED call
    BY <1>1 DEF Overload!Start, Overload!Cancel, Overload!Accepted, Overload!Fail, Overload!Retry
  <2> QED BY <2>1, <2>2, <2>3, OverloadStatusStep
<1>2. ASSUME NEW c \in Procs, Overload!GiveUp(c) PROVE OverloadIInv'
  <2>1. /\ OverloadMoves /\ submitting' \subseteq Overload!Present
        /\ \A d \in Procs : call'[d] \in {call[d], Overload!Idle}
    BY <1>2 DEF Overload!GiveUp, OverloadMoves, Overload!Present, OverloadIInv, Overload!TypeOK
  <2>2. Overload!TypeOK'
    BY <1>2 DEF Overload!GiveUp, OverloadIInv, Overload!TypeOK
  <2> QED BY <2>1, <2>2, OverloadMovesKeep
<1>3. CASE UNCHANGED Overload!vars
  <2>1. /\ OverloadMoves /\ submitting' \subseteq Overload!Present /\ call' = call
        /\ Overload!TypeOK'
    BY <1>3 DEF Overload!vars, OverloadMoves, Overload!Present, OverloadIInv, Overload!TypeOK
  <2> QED BY <2>1, OverloadMovesKeep
<1> QED
  BY <1>1, <1>2, <1>3, OverloadCreateStep, OverloadSpawnStep, OverloadRefusedStep,
     OverloadRetryStep, OverloadRestartStep
  DEF Overload!Next

-----------------------------------------------------------------------------
(* Children are final *)

\* Steps that only move jobs between statuses add no child.
LEMMA OverloadMovesChildren ==
  ASSUME OverloadMoves
  PROVE  \A j : Overload!Children(j)' = Overload!Children(j)
BY DEF OverloadMoves, Overload!Children, Overload!Present

\* A job that is made adds a child of its own parent alone.
LEMMA OverloadFreshChildren ==
  ASSUME Overload!TypeOK, NEW n \in RetryJobs, Overload!Fresh(n), NEW x \in Overload!Row,
         retry' = [retry EXCEPT ![n] = x],
         NEW j \in RetryJobs, x.parent # j
  PROVE  Overload!Children(j)' = Overload!Children(j)
<1>1. retry \in [RetryJobs -> Overload!Row] /\ n \notin Overload!Present
  BY DEF Overload!TypeOK, Overload!Fresh
<1>2. \A k \in RetryJobs : retry'[k] = IF k = n THEN x ELSE retry[k]
  BY <1>1
<1>3. ASSUME NEW k
      PROVE  k \in Overload!Children(j)' <=> k \in Overload!Children(j)
  BY <1>1, <1>2 DEF Overload!Children, Overload!Present
<1> QED BY <1>3

\* Once a job has a child and nobody waits on its behalf, no step makes another
\* child of it or begins to wait for one.
LEMMA OverloadFinalStep ==
  ASSUME OverloadIInv, [Overload!Next]_(Overload!vars), NEW j \in RetryJobs, Overload!Final(j)
  PROVE  Overload!Final(j)' /\ Overload!Children(j)' = Overload!Children(j)
<1>1. Overload!Children(j) # {} /\ \A c \in Procs : call[c].of # j
  BY DEF Overload!Final
<1>2. SUFFICES /\ Overload!Children(j)' = Overload!Children(j)
               /\ \A c \in Procs : call'[c].of # j
  BY <1>1 DEF Overload!Final
<1>3. Overload!Idle.of # j
  BY OverloadConstantsHold DEF Overload!Idle
<1>4. ASSUME NEW i \in RetryJobs, Overload!Start(i) \/ Overload!Cancel(i) \/ Overload!Accepted(i)
             \/ Overload!Fail(i) \/ Overload!Retry(i)
      PROVE  Overload!Children(j)' = Overload!Children(j) /\ call' = call
  <2>1. i \in Overload!Present
    BY <1>4
       DEF Overload!Start, Overload!Cancel, Overload!Accepted, Overload!Fail, Overload!Retry,
           Overload!Present, OverloadIInv
  <2>2. PICK s \in Overload!Statuses \ {"absent"} : Overload!SetStatus(i, s)
    BY <1>4
       DEF Overload!Start, Overload!Cancel, Overload!Accepted, Overload!Fail, Overload!Retry,
           Overload!Statuses
  <2>3. OverloadMoves
    BY <2>1, <2>2, OverloadSetStatusMoves DEF OverloadIInv
  <2> QED BY <1>4, <2>3, OverloadMovesChildren
        DEF Overload!Start, Overload!Cancel, Overload!Accepted, Overload!Fail, Overload!Retry
<1>5. ASSUME NEW i \in RetryJobs, NEW p \in RetryAccounts, Overload!Create(i, p)
      PROVE  Overload!Children(j)' = Overload!Children(j) /\ call' = call
  <2> DEFINE x == [retry[i] EXCEPT !.status = "queued", !.profile = p]
  <2>1. retry \in [RetryJobs -> Overload!Row] /\ i \in RetryJobs \ Overload!Present
    BY <1>5 DEF Overload!Create, Overload!Fresh, OverloadIInv, Overload!TypeOK
  <2>2. retry' = [retry EXCEPT ![i] = x] /\ Overload!Fresh(i)
    BY <1>5, <2>1 DEF Overload!Create
  <2>3. x \in Overload!Row /\ x.parent = retry[i].parent
    <3>1. retry[i] \in Overload!Row /\ p \in RetryAccounts \cup {None}
      BY <2>1
    <3> QED BY <3>1 DEF Overload!Row, Overload!Statuses
  <2>4. x.parent # j
    BY <2>1, <2>3, OverloadConstantsHold DEF OverloadIInv, OverloadBlank
  <2> QED BY <1>5, <2>2, <2>3, <2>4, OverloadFreshChildren DEF Overload!Create, OverloadIInv
<1>6. ASSUME NEW i \in RetryJobs, NEW p \in RetryAccounts, NEW c \in Procs,
             Overload!Spawn(c, i, p)
      PROVE  Overload!Children(j)' = Overload!Children(j) /\ \A d \in Procs : call'[d].of # j
  <2> DEFINE x == [status |-> "queued", profile |-> p, parent |-> call[c].of,
                   root |-> call[c].root, idx |-> call[c].idx]
  <2>1. call[c] \in Overload!Wait
    BY <1>6 DEF Overload!Spawn, OverloadIInv, Overload!TypeOK
  <2>2. x \in Overload!Row /\ x.parent # j
    BY <1>1, <2>1 DEF Overload!Row, Overload!Wait, Overload!Statuses
  <2>3. Overload!Children(j)' = Overload!Children(j)
    BY <1>6, <2>2, OverloadFreshChildren DEF Overload!Spawn, OverloadIInv
  <2>4. \A d \in Procs : call'[d] = call[d] \/ call'[d] = Overload!Idle
    BY <1>6 DEF Overload!Spawn, OverloadIInv, Overload!TypeOK
  <2> QED BY <1>1, <1>3, <2>3, <2>4
<1>7. ASSUME NEW i \in RetryJobs, NEW c \in Procs, Overload!Overload(i, c)
      PROVE  Overload!Children(j)' = Overload!Children(j) /\ \A d \in Procs : call'[d].of # j
  <2>1. i \in Overload!Present /\ Overload!SetStatus(i, "overload")
    BY <1>7 DEF Overload!Overload, OverloadIInv
  <2>2. OverloadMoves
    BY <2>1, OverloadSetStatusMoves DEF OverloadIInv, Overload!Statuses
  <2>3. Overload!MaySpawn(i) => i # j
    BY <1>1 DEF Overload!MaySpawn
  <2>4. \A d \in Procs : call'[d] = call[d] \/ (Overload!MaySpawn(i) /\ call'[d].of = i)
    BY <1>7 DEF Overload!Overload, Overload!Snapshot, OverloadIInv, Overload!TypeOK
  <2> QED BY <1>1, <2>2, <2>3, <2>4, OverloadMovesChildren
<1>8. ASSUME NEW i \in RetryJobs, NEW c \in Procs, Overload!RetryOverload(i, c)
      PROVE  Overload!Children(j)' = Overload!Children(j) /\ \A d \in Procs : call'[d].of # j
  <2>1. i # j /\ retry' = retry
    BY <1>1, <1>8 DEF Overload!RetryOverload, Overload!MaySpawn
  <2>2. \A d \in Procs : call'[d] = call[d] \/ call'[d].of = i
    BY <1>8 DEF Overload!RetryOverload, Overload!Snapshot, OverloadIInv, Overload!TypeOK
  <2> QED BY <1>1, <2>1, <2>2 DEF Overload!Children, Overload!Present
<1>9. ASSUME NEW c \in Procs, Overload!GiveUp(c)
      PROVE  Overload!Children(j)' = Overload!Children(j) /\ \A d \in Procs : call'[d].of # j
  <2>1. retry' = retry /\ \A d \in Procs : call'[d] = call[d] \/ call'[d] = Overload!Idle
    BY <1>9 DEF Overload!GiveUp, OverloadIInv, Overload!TypeOK
  <2> QED BY <1>1, <1>3, <2>1 DEF Overload!Children, Overload!Present
<1>10. ASSUME Overload!Restart
       PROVE  Overload!Children(j)' = Overload!Children(j) /\ \A d \in Procs : call'[d].of # j
  <2>1. PICK S \in SUBSET {i \in RetryJobs : retry[i].status = "running"} :
          retry' = [i \in RetryJobs |-> IF i \in S THEN [retry[i] EXCEPT !.status = "failed"]
            ELSE retry[i]]
    BY <1>10 DEF Overload!Restart
  <2>2. OverloadMoves
    BY <2>1 DEF OverloadMoves, Overload!Present, Overload!Row, OverloadIInv, Overload!TypeOK
  <2>3. \A d \in Procs : call'[d] = Overload!Idle
    BY <1>10 DEF Overload!Restart
  <2> QED BY <1>3, <2>2, <2>3, OverloadMovesChildren
<1>11. CASE UNCHANGED Overload!vars
  BY <1>1, <1>11 DEF Overload!vars, Overload!Children, Overload!Present
<1> QED
  BY <1>1, <1>4, <1>5, <1>6, <1>7, <1>8, <1>9, <1>10, <1>11 DEF Overload!Next

-----------------------------------------------------------------------------
(* A family that has not branched is a line *)

\* Ids are handed out in order, and the root of a family is there before it.
OverloadOrdered ==
  /\ \A j \in Overload!Present : \A i \in RetryJobs : i < j => i \in Overload!Present
  /\ \A j \in Overload!Present : retry[j].root \in Overload!Present

\* Who has been refused for good: nobody submits it, and it is what callers wait
\* for and what has children.
OverloadRefused(j) == retry[j].status = "overload"
OverloadRefusedInv ==
  /\ \A j \in submitting : retry[j].status \in {"running", "canceled"}
  /\ \A c \in Procs : call[c] # Overload!Idle => OverloadRefused(call[c].of)
  /\ \A k \in Overload!Present : retry[k].parent # None => OverloadRefused(retry[k].parent)

\* Every job of the family of r but its newest has a child.
OverloadNewest(j, r) == \A k \in Overload!Family(r) : k <= j
OverloadLine(r) == \A j \in Overload!Family(r) : OverloadNewest(j, r) \/ Overload!Children(j) # {}

OverloadLineInv == OverloadOrdered /\ OverloadRefusedInv
  /\ \A r \in RetryJobs : Overload!Branched(r) \/ OverloadLine(r)

\* Steps that move jobs between statuses keep it if the refused ones stay refused.
LEMMA OverloadMovesLine ==
  ASSUME OverloadIInv, OverloadLineInv, OverloadMoves,
         \A j \in Overload!Present : OverloadRefused(j) => OverloadRefused(j)',
         \A j \in submitting' : retry'[j].status \in {"running", "canceled"},
         \A c \in Procs : call'[c] # Overload!Idle =>
           \/ call'[c] = call[c]
           \/ call'[c].of \in Overload!Present /\ retry'[call'[c].of].status = "overload"
  PROVE  OverloadLineInv'
<1>1. /\ \A r \in RetryJobs : Overload!Family(r)' = Overload!Family(r)
      /\ \A j \in RetryJobs : Overload!Children(j)' = Overload!Children(j)
  <2>1. \A k \in Overload!Present' : retry'[k].root = retry[k].root
          /\ retry'[k].parent = retry[k].parent
    BY DEF OverloadMoves, Overload!Present
  <2>2. QED
    BY <2>1 DEF OverloadMoves, Overload!Family, Overload!Children
<1>2. OverloadOrdered'
  BY DEF OverloadLineInv, OverloadOrdered, OverloadMoves, Overload!Present
<1>3. OverloadRefusedInv'
  <2>1. ASSUME NEW c \in Procs, call'[c] # Overload!Idle
        PROVE  retry'[call'[c].of].status = "overload"
    <3>1. CASE call'[c] = call[c]
      <4>1. call[c].of \in Overload!Present /\ OverloadRefused(call[c].of)
        BY <2>1, <3>1 DEF OverloadIInv, OverloadCallOK, OverloadLineInv, OverloadRefusedInv
      <4>2. QED
        BY <3>1, <4>1 DEF OverloadRefused
    <3>2. QED
      BY <2>1, <3>1 DEF OverloadRefused
  <2>2. ASSUME NEW k \in Overload!Present', retry'[k].parent # None
        PROVE  retry'[retry'[k].parent].status = "overload"
    <3>1. k \in Overload!Present /\ retry'[k].parent = retry[k].parent
      BY DEF OverloadMoves, Overload!Present
    <3>2. retry[k].parent \in Overload!Present /\ OverloadRefused(retry[k].parent)
      BY <2>2, <3>1 DEF OverloadIInv, OverloadJobOK, OverloadLineInv, OverloadRefusedInv
    <3>3. QED
      BY <3>1, <3>2 DEF OverloadRefused
  <2>3. QED
    BY <2>1, <2>2 DEF OverloadRefusedInv, OverloadRefused
<1>4. ASSUME NEW r \in RetryJobs
      PROVE  (Overload!Branched(r) \/ OverloadLine(r))'
  <2>1. \A j \in Overload!Family(r) : j \in RetryJobs /\ retry'[j].parent = retry[j].parent
    BY DEF Overload!Family, Overload!Present, OverloadMoves
  <2>2. Overload!Branched(r) => Overload!Branched(r)'
    BY <1>1, <2>1 DEF Overload!Branched
  <2>3. OverloadLine(r) => OverloadLine(r)'
    BY <1>1, <2>1 DEF OverloadLine, OverloadNewest
  <2>4. QED
    BY <2>2, <2>3 DEF OverloadLineInv
<1>5. QED
  BY <1>2, <1>3, <1>4 DEF OverloadLineInv

\* A new job n is its own root or follows on a refused job of its family.
LEMMA OverloadFreshLine ==
  ASSUME OverloadIInv, OverloadLineInv, OverloadIInv', NEW n \in RetryJobs, Overload!Fresh(n),
         Overload!Present' = Overload!Present \cup {n},
         \A k \in RetryJobs : k # n => retry'[k] = retry[k],
         \/ retry'[n].parent = None /\ retry'[n].root = n
         \/ /\ retry'[n].parent \in Overload!Present /\ OverloadRefused(retry'[n].parent)
            /\ retry'[n].root = retry[retry'[n].parent].root,
         submitting' = submitting, \A c \in Procs : call'[c] \in {call[c], Overload!Idle}
  PROVE  OverloadLineInv'
<1> DEFINE p == retry'[n].parent
<1>1. n \notin Overload!Present /\ \A i \in RetryJobs : i < n => i \in Overload!Present
  BY DEF Overload!Fresh
<1>2. RetryJobs \subseteq Nat /\ None \notin RetryJobs /\ Overload!Present \subseteq RetryJobs
  BY OverloadConstantsHold DEF Overload!Present
<1>3. \A k \in Overload!Present : k < n /\ k \in RetryJobs /\ k # n
  <2>1. ASSUME NEW k \in Overload!Present, n < k
        PROVE  FALSE
    BY <1>1, <2>1 DEF OverloadLineInv, OverloadOrdered
  <2>2. QED
    BY <1>1, <1>2, <2>1
<1>4. \A k \in Overload!Present : retry'[k] = retry[k]
  BY <1>3
<1>5. p = None \/ p \in Overload!Present
  OBVIOUS
<1>6. OverloadOrdered'
  BY <1>1, <1>2, <1>3, <1>4 DEF OverloadLineInv, OverloadOrdered
<1>7. OverloadRefusedInv'
  <2>1. \A j \in submitting' : retry'[j].status \in {"running", "canceled"}
    BY <1>4 DEF OverloadLineInv, OverloadRefusedInv, OverloadIInv
  <2>2. ASSUME NEW c \in Procs, call'[c] # Overload!Idle
        PROVE  retry'[call'[c].of].status = "overload"
    <3>1. call[c] # Overload!Idle /\ call'[c] = call[c]
      BY <2>2
    <3>2. call[c].of \in Overload!Present /\ OverloadRefused(call[c].of)
      BY <3>1 DEF OverloadIInv, OverloadCallOK, OverloadLineInv, OverloadRefusedInv
    <3>3. QED
      BY <1>4, <3>1, <3>2 DEF OverloadRefused
  <2>3. ASSUME NEW k \in Overload!Present', retry'[k].parent # None
        PROVE  retry'[retry'[k].parent].status = "overload"
    <3>1. retry'[k].parent \in Overload!Present /\ OverloadRefused(retry'[k].parent)
      BY <1>4, <2>3 DEF OverloadIInv, OverloadJobOK, OverloadLineInv, OverloadRefusedInv
    <3>2. QED
      BY <1>4, <3>1 DEF OverloadRefused
  <2>4. QED
    BY <2>1, <2>2, <2>3 DEF OverloadRefusedInv, OverloadRefused
<1>8. ASSUME NEW r \in RetryJobs, ~Overload!Branched(r)'
      PROVE  OverloadLine(r)'
  <2>1. \A k \in Overload!Present : k \in Overload!Family(r) => k \in Overload!Family(r)'
    BY <1>4 DEF Overload!Family
  <2>2. \A k \in Overload!Family(r)' : k # n => k \in Overload!Family(r) /\ k \in Overload!Present
    BY <1>4 DEF Overload!Family
  <2>3. ~Overload!Branched(r)
    BY <1>4, <1>8, <2>1 DEF Overload!Branched, Overload!Family
  <2>4. OverloadLine(r)
    BY <2>3 DEF OverloadLineInv
  <2>5. \A j \in Overload!Present : Overload!Children(j) # {} => Overload!Children(j)' # {}
    BY <1>4 DEF Overload!Children
  <2>6. ASSUME NEW j \in Overload!Family(r)'
        PROVE  OverloadNewest(j, r)' \/ Overload!Children(j)' # {}
    <3>1. CASE j = n
      <4>1. n <= n /\ \A k \in Overload!Present : k <= n
        BY <1>2, <1>3
      <4>2. QED
        BY <2>2, <3>1, <4>1 DEF OverloadNewest
    <3>2. CASE j # n /\ Overload!Children(j) # {}
      BY <2>2, <2>5, <3>2
    <3>3. CASE j # n /\ Overload!Children(j) = {} /\ n \notin Overload!Family(r)'
      <4>1. OverloadNewest(j, r)
        BY <2>2, <2>4, <3>3 DEF OverloadLine
      <4>2. QED
        BY <2>2, <3>3, <4>1 DEF OverloadNewest
    <3>4. CASE j # n /\ Overload!Children(j) = {} /\ n \in Overload!Family(r)' /\ p = j
      <4>1. n \in Overload!Children(j)'
        BY <3>4 DEF Overload!Children
      <4>2. QED
        BY <4>1
    <3>5. CASE j # n /\ Overload!Children(j) = {} /\ n \in Overload!Family(r)' /\ p # j
      <4>1. /\ retry'[n].root = r /\ retry[j].root = r /\ j \in Overload!Present
            /\ OverloadNewest(j, r)
        BY <2>2, <2>4, <3>5 DEF Overload!Family, OverloadLine
      <4>2. p \in Overload!Present
        <5>1. r \in Overload!Present
          BY <4>1 DEF OverloadLineInv, OverloadOrdered
        <5>2. QED
          BY <1>1, <4>1, <5>1
      <4>3. p \in Overload!Family(r) /\ p # j
        BY <1>1, <3>5, <4>1, <4>2, <1>2 DEF Overload!Family
      <4>4. PICK k \in Overload!Children(p) : TRUE
        <5>1. ~OverloadNewest(p, r)
          <6>1. p <= j /\ j \in Overload!Family(r)
            BY <4>1, <4>3 DEF OverloadNewest, Overload!Family
          <6>2. p \in Nat /\ j \in Nat /\ p # j
            BY <1>2, <4>1, <4>2, <4>3
          <6> HIDE DEF p
          <6>3. ~(j <= p)
            BY <6>1, <6>2
          <6>4. QED
            BY <6>1, <6>3 DEF OverloadNewest
        <5>2. QED
          BY <2>4, <4>3, <5>1 DEF OverloadLine
      <4>5. k \in Overload!Present /\ retry[k].parent = p /\ p # None
        BY <1>2, <4>2 DEF Overload!Children
      <4>6. retry[k].root = retry[p].root
        BY <4>5 DEF OverloadIInv, OverloadJobOK
      <4>7. k \in Overload!Family(r)' /\ retry'[k].parent = p /\ k # n
        BY <1>3, <1>4, <2>1, <4>3, <4>5, <4>6 DEF Overload!Family
      <4>8. Overload!Branched(r)'
        BY <3>5, <4>7 DEF Overload!Branched
      <4>9. QED
        BY <1>8, <4>8
    <3>6. QED
      BY <3>1, <3>2, <3>3, <3>4, <3>5
  <2>7. QED
    BY <2>6 DEF OverloadLine
<1>9. QED
  BY <1>6, <1>7, <1>8 DEF OverloadLineInv

\* Every step keeps families that have not branched lines.
LEMMA OverloadNextLine ==
  ASSUME OverloadIInv, OverloadIInv', OverloadLineInv, [Overload!Next]_(Overload!vars)
  PROVE  OverloadLineInv'
<1>1. /\ retry \in [RetryJobs -> Overload!Row]
      /\ call \in [Procs -> Overload!Wait \cup {Overload!Idle}]
      /\ submitting \subseteq Overload!Present /\ Overload!Present \subseteq RetryJobs
      /\ \A j \in submitting : retry[j].status \in {"running", "canceled"}
  BY DEF OverloadIInv, Overload!TypeOK, Overload!Present, OverloadLineInv, OverloadRefusedInv
<1>2. ASSUME NEW i \in RetryJobs, NEW p \in RetryAccounts, Overload!Create(i, p)
      PROVE  OverloadLineInv'
  <2>1. i \notin Overload!Present /\ Overload!Fresh(i)
    BY <1>2 DEF Overload!Create, Overload!Fresh
  <2>2. retry' = [retry EXCEPT ![i] = [retry[i] EXCEPT !.status = "queued", !.profile = p]]
    BY <1>1, <1>2 DEF Overload!Create
  <2>3. retry'[i].status = "queued" /\ retry'[i].parent = retry[i].parent
          /\ retry'[i].root = retry[i].root
        /\ \A k \in RetryJobs : k # i => retry'[k] = retry[k]
    BY <1>1, <2>2 DEF Overload!Row
  <2>4. Overload!Present' = Overload!Present \cup {i}
    BY <2>3 DEF Overload!Present
  <2>5. retry'[i].parent = None /\ retry'[i].root = i
    BY <2>1, <2>3 DEF OverloadIInv, OverloadBlank
  <2>6. submitting' = submitting /\ call' = call
    BY <1>2 DEF Overload!Create
  <2>7. QED
    BY <2>1, <2>3, <2>4, <2>5, <2>6, OverloadFreshLine
<1>3. ASSUME NEW i \in RetryJobs, NEW p \in RetryAccounts, NEW c \in Procs,
             Overload!Spawn(c, i, p)
      PROVE  OverloadLineInv'
  <2> DEFINE x == [status |-> "queued", profile |-> p, parent |-> call[c].of,
                   root |-> call[c].root, idx |-> call[c].idx]
  <2>1. Overload!Fresh(i) /\ call[c] # Overload!Idle /\ retry' = [retry EXCEPT ![i] = x]
    BY <1>3 DEF Overload!Spawn
  <2>2. retry'[i] = x /\ \A k \in RetryJobs : k # i => retry'[k] = retry[k]
    BY <1>1, <2>1
  <2>3. Overload!Present' = Overload!Present \cup {i}
    BY <2>2 DEF Overload!Present
  <2>4. /\ call[c].of \in Overload!Present /\ call[c].root = retry[call[c].of].root
        /\ OverloadRefused(call[c].of)
    BY <2>1 DEF OverloadIInv, OverloadCallOK, OverloadLineInv, OverloadRefusedInv
  <2>5. retry'[i].parent \in Overload!Present /\ OverloadRefused(retry'[i].parent)
        /\ retry'[i].root = retry[retry'[i].parent].root
    BY <2>2, <2>4
  <2>6. submitting' = submitting /\ \A d \in Procs : call'[d] \in {call[d], Overload!Idle}
    BY <1>1, <1>3 DEF Overload!Spawn
  <2> HIDE DEF x
  <2>7. QED
    BY <2>1, <2>2, <2>3, <2>5, <2>6, OverloadFreshLine
<1>4. ASSUME NEW i \in RetryJobs,
             Overload!Start(i) \/ Overload!Cancel(i) \/ Overload!Accepted(i) \/ Overload!Fail(i)
               \/ Overload!Retry(i)
      PROVE  OverloadLineInv'
  <2>1. i \in Overload!Present /\ ~OverloadRefused(i) /\ UNCHANGED call
    BY <1>1, <1>4
       DEF Overload!Start, Overload!Cancel, Overload!Accepted, Overload!Fail, Overload!Retry,
           Overload!Present, OverloadRefused
  <2>2. PICK s \in Overload!Statuses \ {"absent"} :
          /\ Overload!SetStatus(i, s)
          /\ \/ s \in {"running", "canceled"} /\ submitting' \subseteq submitting \cup {i}
             \/ submitting' = submitting \ {i}
             \/ submitting' = submitting /\ i \notin submitting
    BY <1>1, <1>4
       DEF Overload!Start, Overload!Cancel, Overload!Accepted, Overload!Fail, Overload!Retry,
           Overload!Statuses
  <2>3. OverloadMoves
    BY <2>1, <2>2, OverloadSetStatusMoves DEF OverloadIInv
  <2>4. \A k \in RetryJobs : retry'[k].status = IF k = i THEN s ELSE retry[k].status
    BY <1>1, <2>2 DEF Overload!SetStatus, Overload!Row
  <2>5. \A j \in Overload!Present : OverloadRefused(j) => OverloadRefused(j)'
    BY <1>1, <2>1, <2>4 DEF OverloadRefused
  <2>6. \A j \in submitting' : retry'[j].status \in {"running", "canceled"}
    BY <1>1, <2>2, <2>4
  <2>7. QED
    BY <2>1, <2>3, <2>5, <2>6, OverloadMovesLine
<1>5. ASSUME NEW i \in RetryJobs, NEW c \in Procs, Overload!Overload(i, c)
      PROVE  OverloadLineInv'
  <2>1. /\ i \in Overload!Present /\ Overload!SetStatus(i, "overload")
        /\ submitting' = submitting \ {i}
    BY <1>1, <1>5 DEF Overload!Overload
  <2>2. OverloadMoves
    BY <2>1, OverloadSetStatusMoves DEF OverloadIInv, Overload!Statuses
  <2>3. \A k \in RetryJobs : retry'[k].status = IF k = i THEN "overload" ELSE retry[k].status
    BY <1>1, <2>1 DEF Overload!SetStatus, Overload!Row
  <2>4. \A d \in Procs : call'[d] = call[d] \/ call'[d].of = i
    BY <1>1, <1>5 DEF Overload!Overload, Overload!Snapshot
  <2>5. \A j \in Overload!Present : OverloadRefused(j) => OverloadRefused(j)'
    BY <1>1, <2>3 DEF OverloadRefused
  <2>6. \A j \in submitting' : retry'[j].status \in {"running", "canceled"}
    BY <1>1, <2>1, <2>3
  <2>7. OverloadRefused(i)'
    BY <1>1, <2>1, <2>3 DEF OverloadRefused
  <2>8. QED
    BY <2>1, <2>2, <2>4, <2>5, <2>6, <2>7, OverloadMovesLine DEF OverloadRefused
<1>6. ASSUME NEW i \in RetryJobs, NEW c \in Procs, Overload!RetryOverload(i, c)
      PROVE  OverloadLineInv'
  <2>1. i \in Overload!Present /\ OverloadRefused(i) /\ retry' = retry /\ submitting' = submitting
    BY <1>6 DEF Overload!RetryOverload, Overload!Present, OverloadRefused
  <2>2. \A d \in Procs : call'[d] = call[d] \/ call'[d].of = i
    BY <1>1, <1>6 DEF Overload!RetryOverload, Overload!Snapshot
  <2>3. OverloadMoves
    BY <2>1 DEF OverloadMoves, Overload!Present
  <2>4. QED
    BY <1>1, <2>1, <2>2, <2>3, OverloadMovesLine DEF OverloadRefused
<1>7. ASSUME NEW c \in Procs, Overload!GiveUp(c)
      PROVE  OverloadLineInv'
  <2>1. retry' = retry /\ submitting' = submitting
          /\ \A d \in Procs : call'[d] \in {call[d], Overload!Idle}
    BY <1>1, <1>7 DEF Overload!GiveUp
  <2>2. OverloadMoves
    BY <2>1 DEF OverloadMoves, Overload!Present
  <2>3. QED
    BY <1>1, <2>1, <2>2, OverloadMovesLine DEF OverloadRefused
<1>8. CASE Overload!Restart
  <2>1. PICK S \in SUBSET {i \in RetryJobs : retry[i].status = "running"} :
          retry' = [i \in RetryJobs |-> IF i \in S THEN [retry[i] EXCEPT !.status = "failed"]
            ELSE retry[i]]
    BY <1>8 DEF Overload!Restart
  <2>2. submitting' = {} /\ \A d \in Procs : call'[d] = Overload!Idle
    BY <1>8 DEF Overload!Restart
  <2>3. OverloadMoves
    BY <1>1, <2>1 DEF OverloadMoves, Overload!Present, Overload!Row
  <2>4. \A j \in Overload!Present : OverloadRefused(j) => OverloadRefused(j)'
    BY <1>1, <2>1 DEF OverloadRefused
  <2>5. QED
    BY <2>2, <2>3, <2>4, OverloadMovesLine
<1>9. CASE UNCHANGED Overload!vars
  <2>1. retry' = retry /\ submitting' = submitting /\ call' = call
    BY <1>9 DEF Overload!vars
  <2>2. OverloadMoves
    BY <2>1 DEF OverloadMoves, Overload!Present
  <2>3. QED
    BY <1>1, <2>1, <2>2, OverloadMovesLine DEF OverloadRefused
<1>10. QED
  BY <1>2, <1>3, <1>4, <1>5, <1>6, <1>7, <1>8, <1>9 DEF Overload!Next

\* There is no job at first.
LEMMA OverloadInitLine == Overload!Init => OverloadLineInv
BY DEF Overload!Init, OverloadLineInv, OverloadOrdered, OverloadRefusedInv, OverloadLine,
   Overload!Family, Overload!Present

\* The newest job of a line is the one shown, and every other has been refused.
LEMMA OverloadLatestIsNewest ==
  ASSUME OverloadIInv, NEW r \in RetryJobs, NEW j \in Overload!Family(r), OverloadNewest(j, r)
  PROVE  j = Overload!Latest(r)
<1>1. \A k \in Overload!Family(r) : k \in Nat
  BY OverloadConstantsHold DEF Overload!Family, Overload!Present
<1>2. Overload!Latest(r) \in Overload!Family(r)
        /\ \A k \in Overload!Family(r) : k <= Overload!Latest(r)
  BY Zenon DEF Overload!Latest, OverloadNewest
<1>3. /\ j <= Overload!Latest(r) /\ Overload!Latest(r) <= j /\ j \in Nat
      /\ Overload!Latest(r) \in Nat
  BY <1>1, <1>2 DEF OverloadNewest
<1>4. QED
  BY <1>3

-----------------------------------------------------------------------------
(* The part in the whole *)

\* The invariant of the part holds whenever it runs.
OverloadInv == part = "overload" => OverloadIInv /\ OverloadLineInv

\* It holds at first, and every step keeps it.
LEMMA OverloadHolds == Spec => []OverloadInv
<1>1. Init => OverloadInv
  BY OverloadInitOK, OverloadInitLine DEF Init, OverloadInv
<1>2. OverloadInv /\ [Next]_vars => OverloadInv'
  <2> SUFFICES ASSUME OverloadInv, [Next]_vars, part' = "overload"
               PROVE  OverloadIInv' /\ OverloadLineInv'
    BY DEF OverloadInv
  <2>1. part = "overload" /\ [Overload!Next]_(Overload!vars)
    BY DEF Next, vars, retryVars, Overload!vars
  <2>2. OverloadIInv /\ OverloadLineInv
    BY <2>1 DEF OverloadInv
  <2>3. OverloadIInv'
    BY <2>1, <2>2, OverloadNextStep
  <2>4. QED
    BY <2>1, <2>2, <2>3, OverloadNextLine
<1>3. QED
  BY <1>1, <1>2, PTL DEF Spec

-----------------------------------------------------------------------------
(* The theorems *)

\* The variables of the overload retry keep their types.
THEOREM OverloadTypeCorrect == Spec => [](part = "overload" => Overload!TypeOK)
<1>1. OverloadInv => (part = "overload" => Overload!TypeOK)
  BY DEF OverloadInv, OverloadIInv
<1>2. QED
  BY <1>1, OverloadHolds, PTL

\* No line of retries goes back to an account it has been refused on, although
\* the account is chosen from what was read before the wait.
THEOREM AncestorsAvoidedCorrect == Spec => []AncestorsAvoided
<1>1. OverloadInv => AncestorsAvoided
  BY DEF OverloadInv, OverloadIInv, OverloadJobOK, OverloadClosed, AncestorsAvoided,
     Overload!AncestorsAvoided
<1>2. QED
  BY <1>1, OverloadHolds, PTL

\* No line of retries is longer than the limit, however many callers extend the
\* same family at a time.
THEOREM LineIsBoundedCorrect == Spec => []LineIsBounded
<1>1. OverloadInv => LineIsBounded
  BY DEF OverloadInv, OverloadIInv, OverloadJobOK, LineIsBounded, Overload!LineIsBounded
<1>2. QED
  BY <1>1, OverloadHolds, PTL

\* A child is final: with any number of callers, retries and restarts.
THEOREM ChildIsFinalCorrect == Spec => ChildIsFinal
<1>1. OverloadInv /\ [Next]_vars =>
        [part = "overload" =>
           \A j \in RetryJobs : Overload!Final(j) =>
             Overload!Final(j)' /\ Overload!Children(j)' = Overload!Children(j)]_vars
  <2> SUFFICES ASSUME OverloadInv, [Next]_vars, part = "overload", vars' # vars,
                      NEW j \in RetryJobs, Overload!Final(j)
               PROVE  Overload!Final(j)' /\ Overload!Children(j)' = Overload!Children(j)
    OBVIOUS
  <2>1. Overload!Next
    BY DEF Next
  <2>2. QED
    BY <2>1, OverloadFinalStep DEF OverloadInv
<1>2. QED
  BY <1>1, OverloadHolds, PTL DEF Spec, ChildIsFinal

\* Unless a family has branched, every job of it but the one that is shown has ended
\* under heavy load for good, for any number of jobs, accounts and callers.
THEOREM FollowedJobCorrect == Spec => []FollowedJobIsTheLive
<1>1. ASSUME OverloadIInv, OverloadLineInv, NEW r \in Overload!Present,
             ~Overload!Branched(r), NEW j \in Overload!Family(r), j # Overload!Latest(r)
      PROVE  retry[j].status = "overload"
  <2>1. r \in RetryJobs /\ j \in Overload!Present
    BY DEF Overload!Present, Overload!Family
  <2>2. ~OverloadNewest(j, r)
    BY <1>1, <2>1, OverloadLatestIsNewest
  <2>3. PICK k \in Overload!Children(j) : TRUE
    BY <1>1, <2>1, <2>2 DEF OverloadLineInv, OverloadLine
  <2>4. k \in Overload!Present /\ retry[k].parent = j /\ j # None
    BY <2>1, <2>3, OverloadConstantsHold DEF Overload!Children, Overload!Present
  <2>5. QED
    BY <1>1, <2>4 DEF OverloadLineInv, OverloadRefusedInv, OverloadRefused
<1>2. OverloadInv => FollowedJobIsTheLive
  BY <1>1 DEF OverloadInv, FollowedJobIsTheLive, Overload!FollowedJobIsTheLive
<1>3. QED
  BY <1>2, OverloadHolds, PTL
=============================================================================
