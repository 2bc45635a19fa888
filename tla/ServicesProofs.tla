--------------------------- MODULE ServicesProofs ---------------------------
(***************************************************************************)
(* Inductive invariants of the other parts of the services: the opening    *)
(* and reading of a window, the slots for calls to ixBrowser, the switch   *)
(* of proxies and the stream of jobs. The theorems are at the end: what    *)
(* one job, one window or one page can rely on, for any number of          *)
(* windows, callers, pages, proxies, jobs and events, and without a bound  *)
(* on tries.                                                               *)
(***************************************************************************)
EXTENDS WorkflowProofs

-----------------------------------------------------------------------------
(* The opening of a window: ProfileWindow *)

\* Where an opening that nothing has spoilt can be: it never has to pause, nobody but it
\* starts the window, and once the state is reset the window opens.
OpeningSmooth(w, p, s, r) ==
  /\ p # "pause"
  /\ w = "starting" => p = "starting"
  /\ r => p = "reset" \/ s = "again"
  /\ p = "reset" => w \in {"stale", "mute", "closed"}
  /\ s = "again" => p \in {"call", "starting"}
  /\ s = "again" /\ p = "call" => w = "closed"

\* The inductive invariant.
OpeningIInv ==
  /\ Opening!TypeOK
  /\ \A u \in Users : /\ pc[u] = "pause" => attempt[u] < Attempts
                      /\ ~spoilt[u] /\ pc[u] \in Opening!Opening
                           => OpeningSmooth(window, pc[u], stage[u], reset[u])

\* The invariant holds at first.
LEMMA OpeningInitIInv == ASSUME Opening!Constants, Opening!Init PROVE OpeningIInv
BY DEF Opening!Constants, Opening!Init, OpeningIInv, Opening!TypeOK, Opening!WindowStates,
   Opening!Opening, Opening!Stages

\* One user moves. The openings of the others are spoilt if the window changes.
OpeningMoves(u, p, s, a, r) ==
  /\ window' \in Opening!WindowStates /\ p \in Opening!Opening \cup {"idle", "use"}
  /\ s \in Opening!Stages
  /\ a \in 0 .. Attempts /\ r \in BOOLEAN /\ spoilt' \in [Users -> BOOLEAN]
  /\ pc' = [pc EXCEPT ![u] = p] /\ stage' = [stage EXCEPT ![u] = s]
  /\ attempt' = [attempt EXCEPT ![u] = a] /\ reset' = [reset EXCEPT ![u] = r]
  /\ \A v \in Users \ {u} : /\ ~spoilt'[v] => ~spoilt[v]
                            /\ window' # window /\ pc[v] \in Opening!Opening => spoilt'[v]
  /\ p = "pause" => a < Attempts
  /\ ~spoilt'[u] /\ p \in Opening!Opening => OpeningSmooth(window', p, s, r)
  /\ window' = "starting" => p = "starting" \/ (window = "starting" /\ pc[u] # "starting")

\* What has to be seen of the step of a user.
LEMMA OpeningMovesIInv ==
  ASSUME OpeningIInv, NEW u \in Users, NEW p, NEW s, NEW a, NEW r, OpeningMoves(u, p, s, a, r)
  PROVE  OpeningIInv'
<1> USE DEF OpeningMoves
<1>1. /\ window \in Opening!WindowStates /\ pc \in [Users -> Opening!Opening \cup {"idle", "use"}]
      /\ stage \in [Users -> Opening!Stages] /\ attempt \in [Users -> 0 .. Attempts]
      /\ reset \in [Users -> BOOLEAN] /\ spoilt \in [Users -> BOOLEAN]
      /\ window = "starting" => \E v \in Users : pc[v] = "starting"
  BY DEF OpeningIInv, Opening!TypeOK
<1>2. /\ pc' \in [Users -> Opening!Opening \cup {"idle", "use"}]
      /\ stage' \in [Users -> Opening!Stages]
      /\ attempt' \in [Users -> 0 .. Attempts] /\ reset' \in [Users -> BOOLEAN]
  BY <1>1
<1>3. pc'[u] = p /\ stage'[u] = s /\ attempt'[u] = a /\ reset'[u] = r
  BY <1>1
<1>4. \A v \in Users \ {u} : /\ pc'[v] = pc[v] /\ stage'[v] = stage[v]
                             /\ attempt'[v] = attempt[v] /\ reset'[v] = reset[v]
  BY <1>1
<1>5. window' = "starting" => \E v \in Users : pc'[v] = "starting"
  <2>1. CASE p = "starting"
    BY <1>3, <2>1
  <2>2. CASE window = "starting" /\ pc[u] # "starting"
    BY <1>1, <1>4, <2>2
  <2>3. QED
    BY <2>1, <2>2
<1>6. Opening!TypeOK'
  BY <1>2, <1>5 DEF Opening!TypeOK
<1>7. ASSUME NEW v \in Users
      PROVE  /\ pc'[v] = "pause" => attempt'[v] < Attempts
             /\ ~spoilt'[v] /\ pc'[v] \in Opening!Opening
                  => OpeningSmooth(window', pc'[v], stage'[v], reset'[v])
  <2>1. CASE v = u
    BY <1>3, <2>1
  <2>2. CASE v # u
    <3>1. pc'[v] = "pause" => attempt'[v] < Attempts
      BY <1>4, <2>2 DEF OpeningIInv
    <3>2. ASSUME ~spoilt'[v], pc'[v] \in Opening!Opening
          PROVE  OpeningSmooth(window', pc'[v], stage'[v], reset'[v])
      <4>1. window' = window /\ ~spoilt[v] /\ pc[v] \in Opening!Opening
        BY <1>4, <2>2, <3>2
      <4>2. OpeningSmooth(window, pc[v], stage[v], reset[v])
        BY <4>1 DEF OpeningIInv
      <4>3. QED
        BY <1>4, <2>2, <4>1, <4>2
    <3>3. QED
      BY <3>1, <3>2
  <2>3. QED
    BY <2>1, <2>2
<1>8. QED
  BY <1>6, <1>7 DEF OpeningIInv

\* What is known of a user.
LEMMA OpeningUserIs ==
  ASSUME OpeningIInv, NEW u \in Users
  PROVE  /\ window \in Opening!WindowStates /\ pc[u] \in Opening!Opening \cup {"idle", "use"}
         /\ stage[u] \in Opening!Stages
         /\ attempt[u] \in 0 .. Attempts /\ reset[u] \in BOOLEAN /\ spoilt[u] \in BOOLEAN
         /\ pc[u] = "pause" => attempt[u] < Attempts
         /\ ~spoilt[u] /\ pc[u] \in Opening!Opening
              => OpeningSmooth(window, pc[u], stage[u], reset[u])
         /\ stage = [stage EXCEPT ![u] = stage[u]]
         /\ attempt = [attempt EXCEPT ![u] = attempt[u]]
         /\ reset = [reset EXCEPT ![u] = reset[u]]
         /\ spoilt \in [Users -> BOOLEAN]
BY DEF OpeningIInv, Opening!TypeOK

\* What becomes of the openings.
LEMMA OpeningSpoilIs ==
  ASSUME OpeningIInv, NEW u \in Users, Opening!Spoil(u)
  PROVE  /\ spoilt' \in [Users -> BOOLEAN] /\ spoilt'[u] = spoilt[u]
         /\ \A v \in Users \ {u} : /\ ~spoilt'[v] => ~spoilt[v]
                                   /\ pc[v] \in Opening!Opening => spoilt'[v]
BY DEF Opening!Spoil, OpeningIInv, Opening!TypeOK

\* A fault spoils one opening.
LEMMA OpeningFaultyIs ==
  ASSUME OpeningIInv, NEW u \in Users, Opening!Faulty(u)
  PROVE  /\ spoilt' \in [Users -> BOOLEAN] /\ spoilt'[u]
         /\ \A v \in Users \ {u} : spoilt'[v] = spoilt[v]
BY DEF Opening!Faulty, OpeningIInv, Opening!TypeOK

\* A change of the window by somebody else spoils every opening.
LEMMA OpeningAllSpoiltIs ==
  ASSUME OpeningIInv, spoilt' = [v \in Users |-> spoilt[v] \/ pc[v] \in Opening!Opening]
  PROVE  /\ spoilt' \in [Users -> BOOLEAN]
         /\ \A v \in Users : /\ ~spoilt'[v] => ~spoilt[v]
                             /\ pc[v] \in Opening!Opening => spoilt'[v]
BY DEF OpeningIInv, Opening!TypeOK

\* Begin keeps the invariant.
LEMMA OpeningBeginIInv ==
  ASSUME Opening!Constants, OpeningIInv, NEW u \in Users, Opening!Begin(u)
  PROVE  OpeningIInv'
<1>1. /\ pc[u] = "idle" /\ pc' = [pc EXCEPT ![u] = "look"] /\ window' = window
      /\ attempt' = [attempt EXCEPT ![u] = 1] /\ reset' = [reset EXCEPT ![u] = FALSE]
      /\ stage' = [stage EXCEPT ![u] = "open"]
      /\ spoilt' = [spoilt EXCEPT ![u] = \E v \in Users \ {u} : pc[v] # "idle"]
  BY DEF Opening!Begin, Opening!Goto
<1>2. /\ spoilt' \in [Users -> BOOLEAN]
      /\ \A v \in Users \ {u} : spoilt'[v] = spoilt[v]
      /\ ~spoilt'[u] => \A v \in Users \ {u} : pc[v] = "idle"
  BY <1>1, OpeningUserIs
<1>3. ~spoilt'[u] => window # "starting"
  BY <1>1, <1>2 DEF OpeningIInv, Opening!TypeOK
<1>4. ~spoilt'[u] => OpeningSmooth(window, "look", "open", FALSE)
  BY <1>3 DEF OpeningSmooth
<1>5. /\ window \in Opening!WindowStates /\ "look" \in Opening!Opening /\ "open" \in Opening!Stages
      /\ 1 \in 0 .. Attempts
  BY OpeningUserIs DEF Opening!Opening, Opening!Stages, Opening!Constants
<1>6. OpeningMoves(u, "look", "open", 1, FALSE)
  BY <1>1, <1>2, <1>4, <1>5 DEF OpeningMoves
<1>7. QED
  BY <1>6, OpeningMovesIInv

\* Attach keeps the invariant.
LEMMA OpeningAttachIInv ==
  ASSUME OpeningIInv, NEW u \in Users, Opening!Attach(u)
  PROVE  OpeningIInv'
<1>1. /\ pc' = [pc EXCEPT ![u] = "use"] /\ window = "open"
      /\ UNCHANGED <<window, spoilt, stage, attempt, reset>>
  BY DEF Opening!Attach, Opening!Goto, Opening!Kept
<1>2. "use" \notin Opening!Opening /\ window # "starting"
  BY <1>1 DEF Opening!Opening
<1>3. /\ stage' = [stage EXCEPT ![u] = stage[u]] /\ attempt' = [attempt EXCEPT ![u] = attempt[u]]
      /\ reset' = [reset EXCEPT ![u] = reset[u]] /\ spoilt' \in [Users -> BOOLEAN]
  BY <1>1, OpeningUserIs
<1>4. OpeningMoves(u, "use", stage[u], attempt[u], reset[u])
  BY <1>1, <1>2, <1>3, OpeningUserIs DEF OpeningMoves
<1>5. QED
  BY <1>4, OpeningMovesIInv

\* An opening that is not spoilt does not give up when it finds no address.
LEMMA OpeningMissGoesOn ==
  ASSUME OpeningIInv, NEW u \in Users, ~spoilt[u], window # "open",
         pc[u] \in {"look", "refused", "wait"}
  PROVE  /\ Opening!WithoutAddress(u) \in Opening!Opening
         /\ OpeningSmooth(window, Opening!WithoutAddress(u), stage[u],
              reset[u] \/ Opening!WithoutAddress(u) = "reset")
<1>1. /\ OpeningSmooth(window, pc[u], stage[u], reset[u]) /\ stage[u] \in Opening!Stages
      /\ window \in Opening!WindowStates
      /\ reset[u] \in BOOLEAN
  BY OpeningUserIs DEF Opening!Opening
<1>2. window \in {"closed", "mute", "stale"} /\ stage[u] \in {"open", "reopen"} /\ ~reset[u]
  BY <1>1 DEF OpeningSmooth, Opening!Stages, Opening!WindowStates
<1>3. CASE pc[u] = "look"
  BY <1>2, <1>3 DEF Opening!WithoutAddress, Opening!Opening, OpeningSmooth
<1>4. CASE pc[u] = "wait"
  BY <1>2, <1>4 DEF Opening!WithoutAddress, Opening!Opening, OpeningSmooth
<1>5. CASE pc[u] = "refused"
  BY <1>2, <1>5 DEF Opening!WithoutAddress, Opening!AfterRefusal, Opening!Opening, OpeningSmooth
<1>6. QED
  BY <1>3, <1>4, <1>5

\* Miss keeps the invariant.
LEMMA OpeningMissIInv == ASSUME OpeningIInv, NEW u \in Users, Opening!Miss(u) PROVE OpeningIInv'
<1> DEFINE p == Opening!WithoutAddress(u)
           r == reset[u] \/ p = "reset"
<1>1. /\ pc[u] \in {"look", "refused", "wait"} /\ pc' = [pc EXCEPT ![u] = p]
      /\ reset' = [reset EXCEPT ![u] = r] /\ window' = window /\ stage' = stage
      /\ attempt' = attempt
      /\ IF window = "open" THEN Opening!Faulty(u) ELSE UNCHANGED spoilt
  BY DEF Opening!Miss, Opening!Goto
<1>2. /\ spoilt' \in [Users -> BOOLEAN]
      /\ \A v \in Users \ {u} : spoilt'[v] = spoilt[v]
      /\ ~spoilt'[u] => ~spoilt[u] /\ window # "open"
  BY <1>1, OpeningFaultyIs, OpeningUserIs
<1>3. p \in Opening!Opening \cup {"idle", "use"} /\ (p = "pause" => attempt[u] < Attempts)
  BY DEF Opening!WithoutAddress, Opening!AfterRefusal, Opening!NextAttempt, Opening!Opening
<1>4. ~spoilt'[u] => OpeningSmooth(window, p, stage[u], r)
  BY <1>1, <1>2, OpeningMissGoesOn
<1>5. /\ stage' = [stage EXCEPT ![u] = stage[u]] /\ attempt' = [attempt EXCEPT ![u] = attempt[u]]
      /\ window \in Opening!WindowStates /\ stage[u] \in Opening!Stages
      /\ attempt[u] \in 0 .. Attempts /\ r \in BOOLEAN
  BY <1>1, OpeningUserIs
<1> HIDE DEF p, r
<1>6. OpeningMoves(u, p, stage[u], attempt[u], r)
  BY <1>1, <1>2, <1>3, <1>4, <1>5 DEF OpeningMoves
<1>7. QED
  BY <1>6, OpeningMovesIInv

\* OpenRefused keeps the invariant.
LEMMA OpeningOpenRefusedIInv ==
  ASSUME OpeningIInv, NEW u \in Users, Opening!OpenRefused(u)
  PROVE  OpeningIInv'
<1>1. /\ pc[u] = "call" /\ window # "closed" /\ pc' = [pc EXCEPT ![u] = "refused"]
      /\ UNCHANGED <<window, spoilt, stage, attempt, reset>>
  BY DEF Opening!OpenRefused, Opening!Refused, Opening!Goto, Opening!Kept
<1>2. /\ stage' = [stage EXCEPT ![u] = stage[u]] /\ attempt' = [attempt EXCEPT ![u] = attempt[u]]
      /\ reset' = [reset EXCEPT ![u] = reset[u]] /\ spoilt' \in [Users -> BOOLEAN]
  BY <1>1, OpeningUserIs
<1>3. "refused" \in Opening!Opening /\ pc[u] \in Opening!Opening
  BY <1>1 DEF Opening!Opening
<1>4. ~spoilt'[u] => OpeningSmooth(window, "refused", stage[u], reset[u])
  <2>1. ~spoilt[u] => OpeningSmooth(window, pc[u], stage[u], reset[u])
    BY <1>3, OpeningUserIs
  <2>2. QED
    BY <1>1, <2>1 DEF OpeningSmooth
<1>5. OpeningMoves(u, "refused", stage[u], attempt[u], reset[u])
  BY <1>1, <1>2, <1>3, <1>4, OpeningUserIs DEF OpeningMoves
<1>6. QED
  BY <1>5, OpeningMovesIInv

\* OpenStarts keeps the invariant.
LEMMA OpeningOpenStartsIInv ==
  ASSUME OpeningIInv, NEW u \in Users, Opening!OpenStarts(u)
  PROVE  OpeningIInv'
<1>1. /\ pc[u] = "call" /\ pc' = [pc EXCEPT ![u] = "starting"] /\ window' = "starting"
      /\ Opening!Spoil(u) /\ UNCHANGED <<stage, attempt, reset>>
  BY DEF Opening!OpenStarts, Opening!Goto, Opening!Kept
<1>2. /\ stage' = [stage EXCEPT ![u] = stage[u]] /\ attempt' = [attempt EXCEPT ![u] = attempt[u]]
      /\ reset' = [reset EXCEPT ![u] = reset[u]]
  BY <1>1, OpeningUserIs
<1>3. /\ "starting" \in Opening!Opening /\ pc[u] \in Opening!Opening
      /\ "starting" \in Opening!WindowStates
  BY <1>1 DEF Opening!Opening, Opening!WindowStates
<1>4. ~spoilt'[u] => OpeningSmooth("starting", "starting", stage[u], reset[u])
  <2>1. ~spoilt[u] => OpeningSmooth(window, pc[u], stage[u], reset[u])
    BY <1>3, OpeningUserIs
  <2>2. QED
    BY <1>1, <2>1, OpeningSpoilIs DEF OpeningSmooth
<1>5. OpeningMoves(u, "starting", stage[u], attempt[u], reset[u])
  BY <1>1, <1>2, <1>3, <1>4, OpeningUserIs, OpeningSpoilIs DEF OpeningMoves
<1>6. QED
  BY <1>5, OpeningMovesIInv

\* Opened keeps the invariant.
LEMMA OpeningOpenedIInv ==
  ASSUME OpeningIInv, NEW u \in Users, Opening!Opened(u)
  PROVE  OpeningIInv'
<1>1. /\ pc[u] = "starting" /\ UNCHANGED <<stage, attempt, reset>>
  BY DEF Opening!Opened, Opening!Kept
<1>2. /\ stage' = [stage EXCEPT ![u] = stage[u]] /\ attempt' = [attempt EXCEPT ![u] = attempt[u]]
      /\ reset' = [reset EXCEPT ![u] = reset[u]]
  BY <1>1, OpeningUserIs
<1>3. /\ "use" \notin Opening!Opening /\ pc[u] \in Opening!Opening
      /\ {"open", "mute"} \subseteq Opening!WindowStates
  BY <1>1 DEF Opening!Opening, Opening!WindowStates
<1>4. CASE window' = "open" /\ Opening!Goto(u, "use") /\ Opening!Spoil(u)
  <2>1. pc' = [pc EXCEPT ![u] = "use"] /\ window' = "open"
    BY <1>4 DEF Opening!Goto
  <2>2. OpeningMoves(u, "use", stage[u], attempt[u], reset[u])
    BY <1>2, <1>3, <1>4, <2>1, OpeningUserIs, OpeningSpoilIs DEF OpeningMoves
  <2>3. QED
    BY <2>2, OpeningMovesIInv
<1>5. CASE /\ window' = "mute"
           /\ Opening!Goto(u, IF stage[u] = "open" THEN "use" ELSE Opening!NextAttempt(u))
           /\ spoilt' = [v \in Users |-> spoilt[v] \/ pc[v] \in Opening!Opening]
  <2> DEFINE p == IF stage[u] = "open" THEN "use" ELSE Opening!NextAttempt(u)
  <2>1. pc' = [pc EXCEPT ![u] = p] /\ window' = "mute"
    BY <1>5 DEF Opening!Goto
  <2>2. p \in Opening!Opening \cup {"idle", "use"} /\ (p = "pause" => attempt[u] < Attempts)
    BY DEF Opening!NextAttempt, Opening!Opening
  <2> HIDE DEF p
  <2>3. /\ spoilt' \in [Users -> BOOLEAN] /\ spoilt'[u]
        /\ \A v \in Users \ {u} : /\ ~spoilt'[v] => ~spoilt[v]
                                  /\ pc[v] \in Opening!Opening => spoilt'[v]
    BY <1>3, <1>5, OpeningAllSpoiltIs
  <2>4. OpeningMoves(u, p, stage[u], attempt[u], reset[u])
    BY <1>2, <1>3, <2>1, <2>2, <2>3, OpeningUserIs DEF OpeningMoves
  <2>5. QED
    BY <2>4, OpeningMovesIInv
<1>6. QED
  BY <1>4, <1>5 DEF Opening!Opened

\* OpenFails keeps the invariant.
LEMMA OpeningOpenFailsIInv ==
  ASSUME OpeningIInv, NEW u \in Users, Opening!OpenFails(u)
  PROVE  OpeningIInv'
<1>1. /\ pc[u] \in {"call", "starting"} /\ pc' = [pc EXCEPT ![u] = Opening!NextAttempt(u)]
      /\ spoilt' = [v \in Users |-> spoilt[v] \/ pc[v] \in Opening!Opening]
      /\ UNCHANGED <<stage, attempt, reset>>
      /\ window' = "starting" => window = "starting" /\ pc[u] # "starting"
      /\ window' \in Opening!WindowStates
  BY OpeningUserIs DEF Opening!OpenFails, Opening!Goto, Opening!Kept
<1>2. /\ stage' = [stage EXCEPT ![u] = stage[u]] /\ attempt' = [attempt EXCEPT ![u] = attempt[u]]
      /\ reset' = [reset EXCEPT ![u] = reset[u]]
  BY <1>1, OpeningUserIs
<1>3. /\ Opening!NextAttempt(u) \in Opening!Opening \cup {"idle", "use"}
      /\ Opening!NextAttempt(u) = "pause" => attempt[u] < Attempts
      /\ pc[u] \in Opening!Opening
  BY <1>1 DEF Opening!NextAttempt, Opening!Opening
<1>4. /\ spoilt' \in [Users -> BOOLEAN] /\ spoilt'[u]
      /\ \A v \in Users \ {u} : /\ ~spoilt'[v] => ~spoilt[v]
                                /\ pc[v] \in Opening!Opening => spoilt'[v]
  BY <1>1, <1>3, OpeningAllSpoiltIs
<1>5. OpeningMoves(u, Opening!NextAttempt(u), stage[u], attempt[u], reset[u])
  BY <1>1, <1>2, <1>3, <1>4, OpeningUserIs DEF OpeningMoves
<1>6. QED
  BY <1>5, OpeningMovesIInv

\* Shut keeps the invariant.
LEMMA OpeningShutIInv == ASSUME OpeningIInv, NEW u \in Users, Opening!Shut(u) PROVE OpeningIInv'
<1>1. /\ pc[u] = "shut" /\ pc' = [pc EXCEPT ![u] = "gone"]
      /\ stage' = [stage EXCEPT ![u] = "reopen"] /\ UNCHANGED <<attempt, reset>>
  BY DEF Opening!Shut, Opening!Goto
<1>2. /\ attempt' = [attempt EXCEPT ![u] = attempt[u]] /\ reset' = [reset EXCEPT ![u] = reset[u]]
  BY <1>1, OpeningUserIs
<1>3. "gone" \in Opening!Opening /\ pc[u] \in Opening!Opening /\ "reopen" \in Opening!Stages
  BY <1>1 DEF Opening!Opening, Opening!Stages
<1>4. CASE window' = (IF window = "stale" THEN "stale" ELSE "closed") /\ Opening!Spoil(u)
  <2>1. window' \in {"stale", "closed"} /\ window' \in Opening!WindowStates
    BY <1>4 DEF Opening!WindowStates
  <2>2. ~spoilt'[u] => OpeningSmooth(window', "gone", "reopen", reset[u])
    <3>1. ~spoilt[u] => OpeningSmooth(window, pc[u], stage[u], reset[u])
      BY <1>3, OpeningUserIs
    <3>2. QED
      BY <1>1, <1>4, <2>1, <3>1, OpeningSpoilIs DEF OpeningSmooth
  <2>3. window' # "starting"
    BY <2>1
  <2>4. OpeningMoves(u, "gone", "reopen", attempt[u], reset[u])
    BY <1>1, <1>2, <1>3, <1>4, <2>1, <2>2, <2>3, OpeningUserIs, OpeningSpoilIs DEF OpeningMoves
  <2>5. QED
    BY <2>4, OpeningMovesIInv
<1>5. CASE UNCHANGED window /\ Opening!Faulty(u)
  <2>1. OpeningMoves(u, "gone", "reopen", attempt[u], reset[u])
    BY <1>1, <1>2, <1>3, <1>5, OpeningUserIs, OpeningFaultyIs DEF OpeningMoves
  <2>2. QED
    BY <2>1, OpeningMovesIInv
<1>6. QED
  BY <1>4, <1>5 DEF Opening!Shut

\* Gone keeps the invariant.
LEMMA OpeningGoneIInv == ASSUME OpeningIInv, NEW u \in Users, Opening!Gone(u) PROVE OpeningIInv'
<1>1. /\ pc[u] = "gone" /\ pc' = [pc EXCEPT ![u] = "call"]
      /\ UNCHANGED <<window, spoilt, stage, attempt, reset>>
  BY DEF Opening!Gone, Opening!Goto, Opening!Kept
<1>2. /\ stage' = [stage EXCEPT ![u] = stage[u]] /\ attempt' = [attempt EXCEPT ![u] = attempt[u]]
      /\ reset' = [reset EXCEPT ![u] = reset[u]] /\ spoilt' \in [Users -> BOOLEAN]
  BY <1>1, OpeningUserIs
<1>3. "call" \in Opening!Opening /\ pc[u] \in Opening!Opening
  BY <1>1 DEF Opening!Opening
<1>4. ~spoilt'[u] => OpeningSmooth(window, "call", stage[u], reset[u])
  <2>1. ~spoilt[u] => OpeningSmooth(window, pc[u], stage[u], reset[u])
    BY <1>3, OpeningUserIs
  <2>2. QED
    BY <1>1, <2>1 DEF OpeningSmooth
<1>5. OpeningMoves(u, "call", stage[u], attempt[u], reset[u])
  BY <1>1, <1>2, <1>3, <1>4, OpeningUserIs DEF OpeningMoves
<1>6. QED
  BY <1>5, OpeningMovesIInv

\* Reset keeps the invariant.
LEMMA OpeningResetIInv == ASSUME OpeningIInv, NEW u \in Users, Opening!Reset(u) PROVE OpeningIInv'
<1>1. pc[u] = "reset" /\ UNCHANGED <<attempt, reset>>
  BY DEF Opening!Reset
<1>2. /\ attempt' = [attempt EXCEPT ![u] = attempt[u]] /\ reset' = [reset EXCEPT ![u] = reset[u]]
  BY <1>1, OpeningUserIs
<1>3. /\ "call" \in Opening!Opening /\ pc[u] \in Opening!Opening /\ "again" \in Opening!Stages
      /\ Opening!NextAttempt(u) \in Opening!Opening \cup {"idle", "use"}
      /\ Opening!NextAttempt(u) = "pause" => attempt[u] < Attempts
  BY <1>1 DEF Opening!Opening, Opening!Stages, Opening!NextAttempt
<1>4. CASE /\ window' = (IF window \in {"stale", "mute"} THEN "closed" ELSE window)
           /\ Opening!Goto(u, "call") /\ Opening!Spoil(u)
           /\ stage' = [stage EXCEPT ![u] = "again"]
  <2>1. /\ window' \in Opening!WindowStates /\ (window' = "starting" => window = "starting")
        /\ window \in {"stale", "mute", "closed"} => window' = "closed"
    BY <1>4, OpeningUserIs DEF Opening!WindowStates
  <2>2. ~spoilt'[u] => OpeningSmooth(window', "call", "again", reset[u])
    <3>1. ~spoilt[u] => OpeningSmooth(window, pc[u], stage[u], reset[u])
      BY <1>3, OpeningUserIs
    <3>2. QED
      BY <1>1, <1>4, <2>1, <3>1, OpeningSpoilIs DEF OpeningSmooth
  <2>3. pc' = [pc EXCEPT ![u] = "call"]
    BY <1>4 DEF Opening!Goto
  <2>4. OpeningMoves(u, "call", "again", attempt[u], reset[u])
    BY <1>1, <1>2, <1>3, <1>4, <2>1, <2>2, <2>3, OpeningUserIs, OpeningSpoilIs DEF OpeningMoves
  <2>5. QED
    BY <2>4, OpeningMovesIInv
<1>5. CASE Opening!Goto(u, Opening!NextAttempt(u)) /\ Opening!Faulty(u)
           /\ UNCHANGED <<window, stage>>
  <2>1. pc' = [pc EXCEPT ![u] = Opening!NextAttempt(u)] /\ stage' = [stage EXCEPT ![u] = stage[u]]
    BY <1>5, OpeningUserIs DEF Opening!Goto
  <2>2. OpeningMoves(u, Opening!NextAttempt(u), stage[u], attempt[u], reset[u])
    BY <1>1, <1>2, <1>3, <1>5, <2>1, OpeningUserIs, OpeningFaultyIs DEF OpeningMoves
  <2>3. QED
    BY <2>2, OpeningMovesIInv
<1>6. QED
  BY <1>4, <1>5 DEF Opening!Reset

\* Again keeps the invariant.
LEMMA OpeningAgainIInv ==
  ASSUME Opening!Constants, OpeningIInv, NEW u \in Users, Opening!Again(u)
  PROVE  OpeningIInv'
<1>1. /\ pc[u] = "pause" /\ pc' = [pc EXCEPT ![u] = "look"]
      /\ attempt' = [attempt EXCEPT ![u] = attempt[u] + 1]
      /\ stage' = [stage EXCEPT ![u] = "open"] /\ UNCHANGED <<window, reset, spoilt>>
  BY DEF Opening!Again, Opening!Goto
<1>2. attempt[u] + 1 \in 0 .. Attempts
  BY <1>1, OpeningUserIs DEF Opening!Constants
<1>3. /\ reset' = [reset EXCEPT ![u] = reset[u]] /\ spoilt' \in [Users -> BOOLEAN]
      /\ "look" \in Opening!Opening /\ "open" \in Opening!Stages /\ pc[u] \in Opening!Opening
  BY <1>1, OpeningUserIs DEF Opening!Opening, Opening!Stages
<1>4. spoilt'[u]
  BY <1>1, <1>3, OpeningUserIs DEF OpeningSmooth
<1>5. OpeningMoves(u, "look", "open", attempt[u] + 1, reset[u])
  BY <1>1, <1>2, <1>3, <1>4, OpeningUserIs DEF OpeningMoves
<1>6. QED
  BY <1>5, OpeningMovesIInv

\* Leave keeps the invariant.
LEMMA OpeningLeaveIInv == ASSUME OpeningIInv, NEW u \in Users, Opening!Leave(u) PROVE OpeningIInv'
<1>1. /\ pc[u] = "use" /\ pc' = [pc EXCEPT ![u] = "idle"] /\ UNCHANGED <<stage, attempt, reset>>
  BY DEF Opening!Leave, Opening!Goto, Opening!Kept
<1>2. /\ stage' = [stage EXCEPT ![u] = stage[u]] /\ attempt' = [attempt EXCEPT ![u] = attempt[u]]
      /\ reset' = [reset EXCEPT ![u] = reset[u]] /\ "idle" \notin Opening!Opening
  BY <1>1, OpeningUserIs DEF Opening!Opening
<1>3. CASE window' = (IF window = "stale" THEN "stale" ELSE "closed") /\ Opening!Spoil(u)
  <2>1. window' \in Opening!WindowStates /\ window' # "starting"
    BY <1>3 DEF Opening!WindowStates
  <2>2. OpeningMoves(u, "idle", stage[u], attempt[u], reset[u])
    BY <1>1, <1>2, <1>3, <2>1, OpeningUserIs, OpeningSpoilIs DEF OpeningMoves
  <2>3. QED
    BY <2>2, OpeningMovesIInv
<1>4. CASE UNCHANGED <<window, spoilt>>
  <2>1. OpeningMoves(u, "idle", stage[u], attempt[u], reset[u])
    BY <1>1, <1>2, <1>4, OpeningUserIs DEF OpeningMoves
  <2>2. QED
    BY <2>1, OpeningMovesIInv
<1>5. QED
  BY <1>3, <1>4 DEF Opening!Leave

\* Every step keeps the invariant.
LEMMA OpeningNextIInv ==
  ASSUME Opening!Constants, OpeningIInv, [Opening!Next]_(Opening!vars)
  PROVE  OpeningIInv'
<1>1. CASE UNCHANGED Opening!vars
  BY <1>1 DEF Opening!vars, OpeningIInv, Opening!TypeOK
<1>2. QED
  BY <1>1, OpeningBeginIInv, OpeningAttachIInv, OpeningMissIInv, OpeningOpenRefusedIInv,
     OpeningOpenStartsIInv, OpeningOpenedIInv,
     OpeningOpenFailsIInv, OpeningShutIInv, OpeningGoneIInv, OpeningResetIInv, OpeningAgainIInv,
     OpeningLeaveIInv DEF Opening!Next, Opening!Step

\* An opening gives up or pauses only when something spoilt it.
LEMMA OpeningUndisturbedGoesOn ==
  ASSUME OpeningIInv, Opening!Next, NEW u \in Users, pc[u] \in Opening!Opening,
         pc'[u] \in {"idle", "pause"}
  PROVE  spoilt'[u]
<1>1. /\ pc \in [Users -> Opening!Opening \cup {"idle", "use"}] /\ spoilt \in [Users -> BOOLEAN]
      /\ spoilt[u] \/ pc[u] # "pause"
  BY OpeningUserIs DEF OpeningIInv, Opening!TypeOK, OpeningSmooth
<1>2. PICK v \in Users : Opening!Begin(v) \/ Opening!Step(v) \/ Opening!Leave(v)
  BY DEF Opening!Next
<1>3. CASE v # u
  <2>1. spoilt[u] => spoilt'[u]
    <3>1. spoilt' = spoilt \/ Opening!Spoil(v) \/ Opening!Faulty(v)
             \/ (\E b \in BOOLEAN : spoilt' = [spoilt EXCEPT ![v] = b])
             \/ spoilt' = [w \in Users |-> spoilt[w] \/ pc[w] \in Opening!Opening]
      BY <1>2
         DEF Opening!Begin, Opening!Step, Opening!Attach, Opening!Miss, Opening!OpenRefused,
             Opening!OpenStarts, Opening!Opened, Opening!OpenFails, Opening!Shut,
                  Opening!Gone, Opening!Reset, Opening!Again, Opening!Leave
    <3>2. QED
      BY <1>1, <1>3, <3>1 DEF Opening!Spoil, Opening!Faulty
  <2>2. \E p : pc' = [pc EXCEPT ![v] = p]
    BY <1>2
       DEF Opening!Begin, Opening!Step, Opening!Attach, Opening!Miss, Opening!OpenRefused,
           Opening!OpenStarts, Opening!Opened, Opening!OpenFails, Opening!Shut,
                Opening!Gone, Opening!Reset, Opening!Again, Opening!Leave, Opening!Goto
  <2>3. pc'[u] = pc[u]
    BY <1>1, <1>3, <2>2
  <2>4. pc[u] = "pause"
    BY <2>3 DEF Opening!Opening
  <2>5. QED
    BY <1>1, <2>1, <2>4
<1>4. CASE v = u
  <2>1. Opening!Step(u)
    BY <1>2, <1>4 DEF Opening!Begin, Opening!Leave, Opening!Opening
  <2>2. CASE Opening!Miss(u)
    <3>1. pc[u] \in {"look", "refused", "wait"} /\ pc'[u] = Opening!WithoutAddress(u)
      BY <1>1, <2>2 DEF Opening!Miss, Opening!Goto
    <3>2. ASSUME ~spoilt[u], window # "open"
          PROVE  FALSE
      <4>1. /\ OpeningSmooth(window, pc[u], stage[u], reset[u])
            /\ Opening!WithoutAddress(u) \in Opening!Opening
        BY <3>1, <3>2, OpeningMissGoesOn, OpeningUserIs
      <4>2. OpeningSmooth(window, Opening!WithoutAddress(u), stage[u],
              reset[u] \/ Opening!WithoutAddress(u) = "reset")
        BY <3>1, <3>2, OpeningMissGoesOn
      <4>3. QED
        BY <3>1, <4>1, <4>2 DEF OpeningSmooth, Opening!Opening
    <3>3. QED
      BY <1>1, <2>2, <3>2 DEF Opening!Miss, Opening!Faulty
  <2>3. CASE Opening!Attach(u) \/ Opening!OpenRefused(u) \/ Opening!OpenStarts(u)
             \/ Opening!Shut(u) \/ Opening!Gone(u) \/ Opening!Again(u)
    BY <1>1, <2>3
       DEF Opening!Attach, Opening!OpenRefused, Opening!OpenStarts, Opening!Shut, Opening!Gone,
           Opening!Again, Opening!Goto
  <2>4. CASE Opening!Opened(u) \/ Opening!OpenFails(u)
    BY <1>1, <2>4 DEF Opening!Opened, Opening!OpenFails, Opening!Goto
  <2>5. CASE Opening!Reset(u)
    BY <1>1, <2>5 DEF Opening!Reset, Opening!Goto, Opening!Faulty
  <2>6. QED
    BY <2>1, <2>2, <2>3, <2>4, <2>5 DEF Opening!Step
<1>5. QED
  BY <1>3, <1>4

-----------------------------------------------------------------------------
(* The reading of an account: AccountReading *)

ReadingRecords ==
  [pc : {"idle"} \cup Reading!OverProxy \cup Reading!InWindow, try : 0 .. Tries,
   not : SUBSET Reading!OverProxy, unheard : BOOLEAN, session : BOOLEAN,
   quota : BOOLEAN, via : {"none", "proxy", "window"}, success : BOOLEAN]

\* Nothing is said before the end, and what was read over the proxy is forgotten unless
\* it is trusted: a reading that was distrusted ends without a session.
ReadingRecordOK(m) ==
  /\ m.pc # "idle" => ~m.success
  /\ m.pc # "idle" /\ m.via = "proxy" => ~m.quota
  /\ m.pc \in Reading!OverProxy => ~m.quota
  /\ m.pc = "close" /\ m.via = "proxy" => ~m.session
  /\ m.pc \in {"page", "plan page", "quota page"} => m.via = "window"
  /\ m.pc = "idle" /\ m.via = "proxy" /\ (m.success \/ m.quota) => m.not = {}

\* The inductive invariant. An open window that could be closed has a reading that will
\* close it.
ReadingIInv ==
  /\ Reading!TypeOK
  /\ \A r \in Readers : ReadingRecordOK(reader[r])
  /\ window /\ ~jammed => \E r \in Readers : reader[r].pc \in Reading!InWindow \ {"open"}

\* The invariant holds at first.
LEMMA ReadingInitIInv == ASSUME Reading!Constants, Reading!Init PROVE ReadingIInv
<1>1. 0 \in 0 .. Tries
  BY DEF Reading!Constants
<1>2. Reading!Idle \in ReadingRecords /\ ReadingRecordOK(Reading!Idle)
  BY <1>1 DEF Reading!Idle, ReadingRecords, ReadingRecordOK, Reading!OverProxy
<1>3. QED
  BY <1>2 DEF Reading!Init, ReadingIInv, Reading!TypeOK, ReadingRecords

\* One reading goes on. If the window is left open someone will close it.
LEMMA ReadingGoesIInv ==
  ASSUME ReadingIInv, NEW r \in Readers, NEW m \in ReadingRecords, ReadingRecordOK(m),
         reader' = [reader EXCEPT ![r] = m],
         window' \in BOOLEAN, jammed' \in BOOLEAN,
         window' /\ ~jammed' =>
           \/ m.pc \in Reading!InWindow \ {"open"}
           \/ window /\ ~jammed /\ reader[r].pc \notin Reading!InWindow \ {"open"}
  PROVE  ReadingIInv'
<1>1. reader \in [Readers -> ReadingRecords]
  BY DEF ReadingIInv, Reading!TypeOK, ReadingRecords
<1>2. reader' \in [Readers -> ReadingRecords] /\ reader'[r] = m
      /\ \A q \in Readers : q # r => reader'[q] = reader[q]
  BY <1>1
<1>3. Reading!TypeOK'
  BY <1>2 DEF Reading!TypeOK, ReadingRecords
<1>4. \A q \in Readers : ReadingRecordOK(reader'[q])
  BY <1>2 DEF ReadingIInv
<1>5. ASSUME window', ~jammed'
      PROVE  \E q \in Readers : reader'[q].pc \in Reading!InWindow \ {"open"}
  <2>1. CASE m.pc \in Reading!InWindow \ {"open"}
    BY <1>2, <2>1
  <2>2. CASE window /\ ~jammed /\ reader[r].pc \notin Reading!InWindow \ {"open"}
    <3>1. PICK q \in Readers : reader[q].pc \in Reading!InWindow \ {"open"}
      BY <2>2 DEF ReadingIInv
    <3>2. QED
      BY <1>2, <2>2, <3>1
  <2>3. QED
    BY <1>5, <2>1, <2>2
<1>6. QED
  BY <1>3, <1>4, <1>5 DEF ReadingIInv, ReadingRecordOK

\* The fields of a reader.
LEMMA ReadingRecordsAre ==
  ASSUME Reading!Constants, ReadingIInv, NEW r \in Readers
  PROVE  /\ reader[r] \in ReadingRecords /\ ReadingRecordOK(reader[r])
         /\ Tries \in Nat /\ Tries >= 1 /\ reader[r].try \in Nat
         /\ window \in BOOLEAN /\ jammed \in BOOLEAN
<1>1. reader[r] \in ReadingRecords /\ window \in BOOLEAN /\ jammed \in BOOLEAN
  BY DEF ReadingIInv, Reading!TypeOK, ReadingRecords
<1>2. Tries \in Nat /\ Tries >= 1
  BY DEF Reading!Constants
<1>3. reader[r].try \in 0 .. Tries
  BY <1>1 DEF ReadingRecords
<1>4. QED
  BY <1>1, <1>2, <1>3 DEF ReadingIInv

\* A reader that begins keeps the invariant.
LEMMA ReadingBeginsIInv ==
  ASSUME Reading!Constants, ReadingIInv, NEW r \in Readers, Reading!Silent(r) \/ Reading!Scan(r)
  PROVE  ReadingIInv'
<1> DEFINE s == [Reading!Idle EXCEPT !.pc = "session", !.try = 1, !.via = "proxy"]
           o == [Reading!Idle EXCEPT !.pc = "open", !.try = 1, !.via = "window"]
<1>1. 0 \in 0 .. Tries /\ 1 \in 0 .. Tries
  BY DEF Reading!Constants
<1>2. s \in ReadingRecords /\ ReadingRecordOK(s) /\ o \in ReadingRecords /\ ReadingRecordOK(o)
  BY <1>1 DEF Reading!Idle, ReadingRecords, ReadingRecordOK, Reading!OverProxy, Reading!InWindow
<1>3. PICK m \in {s, o} : reader' = [reader EXCEPT ![r] = m]
  BY DEF Reading!Silent, Reading!Scan
<1>4. UNCHANGED <<window, jammed>> /\ reader[r].pc \notin Reading!InWindow \ {"open"}
  BY DEF Reading!Silent, Reading!Scan, Reading!InWindow
<1>5. m \in ReadingRecords /\ ReadingRecordOK(m) /\ window \in BOOLEAN /\ jammed \in BOOLEAN
  BY <1>2, <1>3, ReadingRecordsAre
<1>6. QED
  <2> HIDE DEF s, o
  <2> QED
    BY <1>3, <1>4, <1>5, ReadingGoesIInv

\* Whatever is answered, what a reader does next is right.
LEMMA ReadingAfterIs ==
  ASSUME Reading!Constants, ReadingIInv, NEW r \in Readers, NEW a \in Reading!Answers,
         reader[r].pc \in Reading!OverProxy
  PROVE  /\ [Reading!After(r, a) EXCEPT !.try = 1] \in ReadingRecords
         /\ ReadingRecordOK([Reading!After(r, a) EXCEPT !.try = 1])
<1> DEFINE m  == reader[r]
           no == IF a = "no" THEN {m.pc} ELSE {}
<1>1. 1 \in 0 .. Tries /\ m \in ReadingRecords /\ ReadingRecordOK(m)
  BY ReadingRecordsAre
<1>2. no \in SUBSET Reading!OverProxy
  OBVIOUS
<1>3. ~m.success /\ ~m.quota
  BY <1>1 DEF ReadingRecordOK, Reading!OverProxy
<1>4. CASE m.pc = "session"
  BY <1>1, <1>2, <1>3, <1>4
     DEF Reading!After, ReadingRecords, ReadingRecordOK, Reading!OverProxy, Reading!InWindow
<1>5. CASE m.pc = "me"
  BY <1>1, <1>2, <1>3, <1>5
     DEF Reading!After, ReadingRecords, ReadingRecordOK, Reading!OverProxy, Reading!InWindow
<1>6. CASE m.pc = "plan"
  BY <1>1, <1>2, <1>3, <1>6
     DEF Reading!After, ReadingRecords, ReadingRecordOK, Reading!OverProxy, Reading!InWindow
<1>7. CASE m.pc = "quota" /\ Reading!Distrusted(m.not \cup no)
  BY <1>1, <1>2, <1>3, <1>7
     DEF Reading!After, ReadingRecords, ReadingRecordOK, Reading!OverProxy, Reading!InWindow
<1>8. CASE m.pc = "quota" /\ ~Reading!Distrusted(m.not \cup no)
  BY <1>1, <1>2, <1>3, <1>8
     DEF Reading!After, ReadingRecords, ReadingRecordOK, Reading!OverProxy, Reading!InWindow,
         Reading!Distrusted
<1>9. QED
  BY <1>4, <1>5, <1>6, <1>7, <1>8 DEF Reading!OverProxy

\* OverProxy keeps the invariant.
LEMMA ReadingOverProxyIInv ==
  ASSUME Reading!Constants, ReadingIInv, NEW r \in Readers,
         Reading!Repeat(r) \/ Reading!Breaks(r) \/ \E a \in Reading!Answers : Reading!Hear(r, a)
  PROVE  ReadingIInv'
<1>1. /\ reader[r].pc \in Reading!OverProxy /\ UNCHANGED <<window, jammed>>
      /\ reader[r].pc \notin Reading!InWindow \ {"open"}
  BY DEF Reading!Repeat, Reading!Breaks, Reading!Hear, Reading!OverProxy, Reading!InWindow
<1>2. CASE Reading!Repeat(r)
  <2> DEFINE m == [reader[r] EXCEPT !.try = @ + 1]
  <2>1. reader[r].try + 1 \in 0 .. Tries
    BY <1>2, ReadingRecordsAre DEF Reading!Repeat
  <2>2. m \in ReadingRecords /\ ReadingRecordOK(m)
    BY <2>1, ReadingRecordsAre DEF ReadingRecords, ReadingRecordOK
  <2>3. reader' = [reader EXCEPT ![r] = m]
    BY <1>2 DEF Reading!Repeat
  <2>4. QED
    <3> HIDE DEF m
    <3> QED
      BY <1>1, <2>2, <2>3, ReadingRecordsAre, ReadingGoesIInv
<1>3. CASE Reading!Breaks(r)
  <2> DEFINE m == [reader[r] EXCEPT !.pc = "idle", !.session = FALSE]
  <2>1. m \in ReadingRecords /\ ReadingRecordOK(m)
    <3>1. reader[r] \in ReadingRecords /\ ReadingRecordOK(reader[r])
      BY ReadingRecordsAre
    <3>2. /\ m \in ReadingRecords /\ m.pc = "idle" /\ ~m.session
          /\ m.via = reader[r].via /\ m.quota = reader[r].quota
          /\ m.success = reader[r].success /\ m.not = reader[r].not
      BY <3>1 DEF ReadingRecords
    <3>3. ~reader[r].success /\ ~reader[r].quota
      BY <1>1, <3>1 DEF ReadingRecordOK, Reading!OverProxy
    <3>4. "idle" \notin Reading!OverProxy
      BY DEF Reading!OverProxy
    <3>5. ReadingRecordOK(m)
      BY <3>2, <3>3, <3>4 DEF ReadingRecordOK
    <3>6. QED
      BY <3>2, <3>5
  <2>2. reader' = [reader EXCEPT ![r] = m]
    BY <1>3 DEF Reading!Breaks
  <2>3. QED
    <3> HIDE DEF m
    <3> QED
      BY <1>1, <2>1, <2>2, ReadingRecordsAre, ReadingGoesIInv
<1>4. ASSUME NEW a \in Reading!Answers, Reading!Hear(r, a)
      PROVE  ReadingIInv'
  <2>1. reader' = [reader EXCEPT ![r] = [Reading!After(r, a) EXCEPT !.try = 1]]
    BY <1>4 DEF Reading!Hear
  <2>2. QED
    BY <1>1, <2>1, ReadingRecordsAre, ReadingAfterIs, ReadingGoesIInv
<1>5. QED
  BY <1>2, <1>3, <1>4

\* InWindow keeps the invariant.
LEMMA ReadingInWindowIInv ==
  ASSUME Reading!Constants, ReadingIInv, NEW r \in Readers,
         Reading!Open(r) \/ Reading!Lost(r) \/ Reading!Waits(r) \/ Reading!Session(r)
           \/ Reading!Plan(r) \/ Reading!Quota(r)
  PROVE  ReadingIInv'
<1>1. PICK m \in ReadingRecords :
        /\ reader' = [reader EXCEPT ![r] = m]
        /\ ReadingRecordOK(m) /\ m.pc \in Reading!InWindow \ {"open"}
  <2>1. CASE Reading!Open(r)
    <3> DEFINE m == [Reading!Idle EXCEPT !.pc = "page", !.try = 1, !.via = "window"]
    <3>1. 0 \in 0 .. Tries /\ 1 \in 0 .. Tries
      BY DEF Reading!Constants
    <3>2. m \in ReadingRecords /\ ReadingRecordOK(m) /\ m.pc \in Reading!InWindow \ {"open"}
      BY <3>1
         DEF Reading!Idle, ReadingRecords, ReadingRecordOK, Reading!OverProxy, Reading!InWindow
    <3>3. reader' = [reader EXCEPT ![r] = m]
      BY <2>1 DEF Reading!Open
    <3>4. QED
      BY <3>2, <3>3
  <2>2. CASE Reading!Lost(r)
    <3> DEFINE m == [reader[r] EXCEPT !.pc = "close", !.session = FALSE]
    <3>1. m \in ReadingRecords /\ ReadingRecordOK(m) /\ m.pc \in Reading!InWindow \ {"open"}
      BY <2>2, ReadingRecordsAre
         DEF Reading!Lost, ReadingRecords, ReadingRecordOK, Reading!OverProxy, Reading!InWindow
    <3>2. reader' = [reader EXCEPT ![r] = m]
      BY <2>2 DEF Reading!Lost
    <3>3. QED
      BY <3>1, <3>2
  <2>3. CASE Reading!Waits(r)
    <3> DEFINE m == [reader[r] EXCEPT !.try = @ + 1]
    <3>1. reader[r].try + 1 \in 0 .. Tries
      BY <2>3, ReadingRecordsAre DEF Reading!Waits
    <3>2. m \in ReadingRecords /\ ReadingRecordOK(m) /\ m.pc \in Reading!InWindow \ {"open"}
      BY <2>3, <3>1, ReadingRecordsAre
         DEF Reading!Waits, ReadingRecords, ReadingRecordOK, Reading!OverProxy, Reading!InWindow
    <3>3. reader' = [reader EXCEPT ![r] = m]
      BY <2>3 DEF Reading!Waits
    <3>4. QED
      BY <3>2, <3>3
  <2>4. CASE Reading!Session(r)
    <3>1. PICK ok \in BOOLEAN :
            reader' = [reader EXCEPT ![r] = [@ EXCEPT !.session = ok, !.pc = "plan page"]]
      BY <2>4 DEF Reading!Session
    <3> DEFINE m == [reader[r] EXCEPT !.session = ok, !.pc = "plan page"]
    <3>2. m \in ReadingRecords /\ ReadingRecordOK(m) /\ m.pc \in Reading!InWindow \ {"open"}
      BY <2>4, ReadingRecordsAre
         DEF Reading!Session, ReadingRecords, ReadingRecordOK, Reading!OverProxy, Reading!InWindow
    <3>3. QED
      BY <3>1, <3>2
  <2>5. CASE Reading!Plan(r)
    <3> DEFINE m == [reader[r] EXCEPT !.pc = "quota page", !.try = 1]
    <3>1. 1 \in 0 .. Tries
      BY DEF Reading!Constants
    <3>2. m \in ReadingRecords /\ ReadingRecordOK(m) /\ m.pc \in Reading!InWindow \ {"open"}
      BY <2>5, <3>1, ReadingRecordsAre
         DEF Reading!Plan, ReadingRecords, ReadingRecordOK, Reading!OverProxy, Reading!InWindow
    <3>3. reader' = [reader EXCEPT ![r] = m]
      BY <2>5 DEF Reading!Plan, Reading!Goes
    <3>4. QED
      BY <3>2, <3>3
  <2>6. CASE Reading!Quota(r)
    <3>1. PICK q \in {FALSE, window} :
            reader' = [reader EXCEPT ![r] = [@ EXCEPT !.quota = q, !.pc = "close"]]
      BY <2>6 DEF Reading!Quota
    <3> DEFINE m == [reader[r] EXCEPT !.quota = q, !.pc = "close"]
    <3>2. q \in BOOLEAN
      BY <3>1, ReadingRecordsAre
    <3>3. m \in ReadingRecords /\ ReadingRecordOK(m) /\ m.pc \in Reading!InWindow \ {"open"}
      BY <2>6, <3>2, ReadingRecordsAre
         DEF Reading!Quota, ReadingRecords, ReadingRecordOK, Reading!OverProxy, Reading!InWindow
    <3>4. QED
      BY <3>1, <3>3
  <2>7. QED
    BY <2>1, <2>2, <2>3, <2>4, <2>5, <2>6
<1>2. window' \in BOOLEAN /\ jammed' \in BOOLEAN
  BY ReadingRecordsAre
     DEF Reading!Open, Reading!Lost, Reading!Waits, Reading!Session, Reading!Plan, Reading!Quota
<1>3. QED
  BY <1>1, <1>2, ReadingGoesIInv

\* Close keeps the invariant.
LEMMA ReadingCloseIInv ==
  ASSUME Reading!Constants, ReadingIInv, NEW r \in Readers, Reading!Close(r)
  PROVE  ReadingIInv'
<1> DEFINE m == [reader[r] EXCEPT !.pc = "idle", !.session = FALSE, !.success = reader[r].session]
<1>1. m \in ReadingRecords /\ ReadingRecordOK(m)
  BY ReadingRecordsAre
     DEF Reading!Close, ReadingRecords, ReadingRecordOK, Reading!OverProxy, Reading!InWindow
<1>2. reader' = [reader EXCEPT ![r] = m]
  BY DEF Reading!Close
<1>3. window' \in BOOLEAN /\ jammed' \in BOOLEAN /\ ~ (window' /\ ~jammed')
  BY ReadingRecordsAre DEF Reading!Close
<1>4. QED
  <2> HIDE DEF m
  <2> QED
    BY <1>1, <1>2, <1>3, ReadingGoesIInv

\* Every step keeps the invariant.
LEMMA ReadingNextIInv ==
  ASSUME Reading!Constants, ReadingIInv, [Reading!Next]_(Reading!vars)
  PROVE  ReadingIInv'
<1>1. CASE UNCHANGED Reading!vars
  BY <1>1 DEF Reading!vars, ReadingIInv, Reading!TypeOK, ReadingRecordOK
<1>2. QED
  BY <1>1, ReadingBeginsIInv, ReadingOverProxyIInv, ReadingInWindowIInv, ReadingCloseIInv
     DEF Reading!Next, Reading!Step

\* What the invariant says of the properties.
LEMMA ReadingFacts == ASSUME ReadingIInv PROVE Reading!SuccessIsTrusted /\ Reading!NoWindowIsLeft
BY DEF ReadingIInv, ReadingRecordOK, Reading!SuccessIsTrusted, Reading!NoWindowIsLeft,
   Reading!InWindow

-----------------------------------------------------------------------------
(* The slots for calls to ixBrowser: ApiSlots *)

\* Its sets are counted as ours are.
LEMMA ApiSets ==
  /\ \A S : Api!Cardinality(S) = Cardinality(S)
  /\ \A S : Api!IsFiniteSet(S) <=> IsFiniteSet(S)
BY DEF Api!Cardinality, Cardinality, Api!IsFiniteSet, IsFiniteSet

\* Every call that waits is in the queue of its kind, once; the slots are not exceeded.
ApiQueueOK(k) ==
  /\ \A i, j \in 1 .. Len(queue[k]) : queue[k][i] = queue[k][j] => i = j
  /\ \A i \in 1 .. Len(queue[k]) :
       call[queue[k][i]].state = "queued" /\ call[queue[k][i]].kind = k
  /\ \A c \in Callers : call[c].state = "queued" /\ call[c].kind = k
                          => \E i \in 1 .. Len(queue[k]) : queue[k][i] = c
ApiSlotsOK(k) == Api!IsFiniteSet(Api!Holders(k)) /\ Api!Cardinality(Api!Holders(k)) <= Slots[k]

ApiCall == [state : {"idle", "queued", "sent", "busy"}, kind : Api!Kinds,
            sent : 0 .. MaxBusy + 1, turns : 0 .. MaxBusy + 1]

\* The inductive invariant.
ApiIInv ==
  /\ limit \in 0 .. MaxBusy /\ call \in [Callers -> ApiCall]
  /\ queue \in [Api!Kinds -> Seq(Callers)]
  /\ \A k \in Api!Kinds : ApiQueueOK(k) /\ ApiSlotsOK(k)

\* The invariant holds at first.
LEMMA ApiInitIInv == ASSUME Api!Constants, Api!Init PROVE ApiIInv
<1>1. 0 \in 0 .. MaxBusy + 1 /\ MaxBusy \in 0 .. MaxBusy /\ \A k \in Api!Kinds : Slots[k] >= 1
  BY DEF Api!Constants
<1>2. Api!Idle \in ApiCall /\ Api!Idle.state = "idle"
  BY <1>1 DEF Api!Idle, ApiCall, Api!Kinds
<1>3. /\ limit = MaxBusy /\ call \in [Callers -> ApiCall]
           /\ \A c \in Callers : call[c].state = "idle"
  BY <1>2 DEF Api!Init
<1>4. queue \in [Api!Kinds -> Seq(Callers)] /\ \A k \in Api!Kinds : queue[k] = <<>>
  BY DEF Api!Init
<1>5. ASSUME NEW k \in Api!Kinds
      PROVE  ApiQueueOK(k) /\ ApiSlotsOK(k)
  <2>1. ApiQueueOK(k)
    BY <1>3, <1>4 DEF ApiQueueOK
  <2>2. Api!Holders(k) = {}
    BY <1>3 DEF Api!Holders
  <2>3. ApiSlotsOK(k)
    BY <1>1, <2>2, ApiSets, FS_EmptySet DEF ApiSlotsOK, Api!Constants
  <2>4. QED
    BY <2>1, <2>3
<1>6. QED
  BY <1>1, <1>3, <1>4, <1>5 DEF ApiIInv

\* What is known of a call.
LEMMA ApiCallIs ==
  ASSUME ApiIInv, NEW c \in Callers
  PROVE  /\ call[c] \in ApiCall /\ call[c].kind \in Api!Kinds /\ call \in [Callers -> ApiCall]
         /\ call[c].sent \in 0 .. MaxBusy + 1 /\ call[c].turns \in 0 .. MaxBusy + 1
BY DEF ApiIInv, ApiCall

\* A call that holds a slot goes on with it or gives it back.
LEMMA ApiHoldsIInv ==
  ASSUME Api!Constants, ApiIInv, NEW c \in Callers, NEW r \in ApiCall,
         call[c].state \in {"sent", "busy"}, r.state # "queued",
         r.state # "idle" => r.kind = call[c].kind,
         call' = [call EXCEPT ![c] = r], UNCHANGED <<limit, queue>>
  PROVE  ApiIInv'
<1>1. /\ call' \in [Callers -> ApiCall] /\ call'[c] = r
      /\ \A d \in Callers : d # c => call'[d] = call[d]
  BY ApiCallIs
<1>2. ASSUME NEW k \in Api!Kinds
      PROVE  ApiQueueOK(k)'
  <2>1. ApiQueueOK(k) /\ queue' = queue /\ queue[k] \in Seq(Callers)
    BY DEF ApiIInv
  <2>2. \A i \in 1 .. Len(queue[k]) : queue[k][i] \in Callers /\ queue[k][i] # c
    BY <2>1 DEF ApiQueueOK
  <2>3. QED
    BY <1>1, <2>1, <2>2 DEF ApiQueueOK
<1>3. ASSUME NEW k \in Api!Kinds
      PROVE  ApiSlotsOK(k)'
  <2>1. Api!Holders(k)' \in SUBSET Api!Holders(k)
    BY <1>1 DEF Api!Holders
  <2>2. /\ Api!IsFiniteSet(Api!Holders(k)) /\ Api!Cardinality(Api!Holders(k)) <= Slots[k]
        /\ Slots[k] \in Nat
    BY DEF ApiIInv, ApiSlotsOK, Api!Constants
  <2>3. /\ Api!IsFiniteSet(Api!Holders(k)')
        /\ Api!Cardinality(Api!Holders(k)') <= Api!Cardinality(Api!Holders(k))
    BY <2>1, <2>2, ApiSets, FS_Subset
  <2>4. Api!Cardinality(Api!Holders(k)) \in Nat /\ Api!Cardinality(Api!Holders(k)') \in Nat
    BY <2>2, <2>3, ApiSets, FS_CardinalityType
  <2>5. Api!Cardinality(Api!Holders(k)') <= Slots[k]
    BY <2>2, <2>3, <2>4
  <2>6. QED
    BY <2>3, <2>5 DEF ApiSlotsOK
<1>4. QED
  BY <1>1, <1>2, <1>3 DEF ApiIInv

\* Answer keeps the invariant.
LEMMA ApiAnswerIInv ==
  ASSUME Api!Constants, ApiIInv, NEW c \in Callers, Api!Answer(c)
  PROVE  ApiIInv'
<1>1. 0 \in 0 .. MaxBusy + 1
  BY DEF Api!Constants
<1>2. Api!Idle \in ApiCall /\ Api!Idle.state = "idle"
  BY <1>1 DEF Api!Idle, ApiCall, Api!Kinds
<1>3. QED
  BY <1>2, ApiHoldsIInv DEF Api!Answer

\* Busy keeps the invariant.
LEMMA ApiBusyIInv == ASSUME Api!Constants, ApiIInv, NEW c \in Callers, Api!Busy(c) PROVE ApiIInv'
<1> DEFINE r == [call[c] EXCEPT !.state = "busy"]
<1>1. call[c].state = "sent" /\ call' = [call EXCEPT ![c] = r] /\ UNCHANGED <<limit, queue>>
  BY DEF Api!Busy
<1>2. r \in ApiCall /\ r.state = "busy" /\ r.kind = call[c].kind
  BY ApiCallIs DEF ApiCall
<1> HIDE DEF r
<1>3. QED
  BY <1>1, <1>2, ApiHoldsIInv

\* Repeat keeps the invariant.
LEMMA ApiRepeatIInv ==
  ASSUME Api!Constants, ApiIInv, NEW c \in Callers, Api!Repeat(c)
  PROVE  ApiIInv'
<1> DEFINE n == [call[c] EXCEPT !.state = "sent", !.sent = @ + 1]
<1>1. call[c].state = "busy" /\ UNCHANGED <<limit, queue>>
  BY DEF Api!Repeat
<1>6. call' = [call EXCEPT ![c] = IF call[c].sent < call[c].turns THEN n ELSE Api!Idle]
  BY DEF Api!Repeat
<1>2. 0 \in 0 .. MaxBusy + 1
  BY DEF Api!Constants
<1>3. Api!Idle \in ApiCall /\ Api!Idle.state = "idle"
  BY <1>2 DEF Api!Idle, ApiCall, Api!Kinds
<1>4. CASE call[c].sent < call[c].turns
  <2>1. call[c].sent + 1 \in 0 .. MaxBusy + 1
    BY <1>4, ApiCallIs DEF Api!Constants
  <2>2. n \in ApiCall /\ n.state = "sent" /\ n.kind = call[c].kind
    BY <2>1, ApiCallIs DEF ApiCall
  <2> HIDE DEF n
  <2>3. QED
    BY <1>1, <1>4, <1>6, <2>2, ApiHoldsIInv
<1>5. CASE ~(call[c].sent < call[c].turns)
  BY <1>1, <1>3, <1>5, <1>6, ApiHoldsIInv
<1>7. QED
  BY <1>4, <1>5

\* Ask keeps the invariant.
LEMMA ApiAskIInv ==
  ASSUME Api!Constants, ApiIInv, NEW c \in Callers, NEW k \in Api!Kinds, Api!Ask(c, k)
  PROVE  ApiIInv'
<1> DEFINE r == [Api!Idle EXCEPT !.state = "queued", !.kind = k]
           q == Append(queue[k], c)
<1>1. /\ call[c].state = "idle" /\ call' = [call EXCEPT ![c] = r]
      /\ queue' = [queue EXCEPT ![k] = q] /\ limit' = limit
  BY DEF Api!Ask
<1>2. 0 \in 0 .. MaxBusy + 1
  BY DEF Api!Constants
<1>3. r \in ApiCall /\ r.state = "queued" /\ r.kind = k
  BY <1>2 DEF Api!Idle, ApiCall
<1>4. queue \in [Api!Kinds -> Seq(Callers)] /\ queue[k] \in Seq(Callers)
  BY DEF ApiIInv
<1>5. /\ q \in Seq(Callers) /\ Len(q) = Len(queue[k]) + 1 /\ q[Len(queue[k]) + 1] = c
      /\ \A i \in 1 .. Len(queue[k]) : q[i] = queue[k][i]
      /\ Len(queue[k]) \in Nat
  BY <1>4
<1> HIDE DEF r, q
<1>6. /\ call' \in [Callers -> ApiCall] /\ call'[c] = r
      /\ \A d \in Callers : d # c => call'[d] = call[d]
  BY <1>1, <1>3, ApiCallIs
<1>7. /\ queue' \in [Api!Kinds -> Seq(Callers)] /\ queue'[k] = q
      /\ \A l \in Api!Kinds : l # k => queue'[l] = queue[l]
  BY <1>1, <1>4, <1>5
<1>8. ASSUME NEW l \in Api!Kinds, NEW i \in 1 .. Len(queue[l])
      PROVE  queue[l][i] \in Callers /\ queue[l][i] # c
  BY <1>1, <1>8 DEF ApiIInv, ApiQueueOK
<1>9. ASSUME NEW l \in Api!Kinds
      PROVE  ApiQueueOK(l)'
  <2>1. ApiQueueOK(l)
    BY DEF ApiIInv
  <2>2. CASE l # k
    <3>1. queue'[l] = queue[l]
      BY <1>7, <2>2
    <3>2. QED
      BY <1>3, <1>6, <1>8, <2>1, <2>2, <3>1 DEF ApiQueueOK
  <2>3. CASE l = k
    <3>1. ASSUME NEW i \in 1 .. Len(q), NEW j \in 1 .. Len(q), q[i] = q[j]
          PROVE  i = j
      <4>1. i \in 1 .. Len(queue[k]) \/ i = Len(queue[k]) + 1
        BY <1>5, <3>1
      <4>2. j \in 1 .. Len(queue[k]) \/ j = Len(queue[k]) + 1
        BY <1>5, <3>1
      <4>3. QED
        BY <1>5, <1>8, <2>1, <2>3, <3>1, <4>1, <4>2 DEF ApiQueueOK
    <3>2. ASSUME NEW i \in 1 .. Len(q)
          PROVE  call'[q[i]].state = "queued" /\ call'[q[i]].kind = k
      <4>1. i \in 1 .. Len(queue[k]) \/ i = Len(queue[k]) + 1
        BY <1>5, <3>2
      <4>2. CASE i \in 1 .. Len(queue[k])
        BY <1>5, <1>6, <1>8, <2>1, <2>3, <4>2 DEF ApiQueueOK
      <4>3. CASE i = Len(queue[k]) + 1
        BY <1>3, <1>5, <1>6, <4>3
      <4>4. QED
        BY <4>1, <4>2, <4>3
    <3>3. ASSUME NEW d \in Callers, call'[d].state = "queued", call'[d].kind = k
          PROVE  \E i \in 1 .. Len(q) : q[i] = d
      <4>1. CASE d = c
        <5>1. Len(queue[k]) + 1 \in 1 .. Len(q)
          BY <1>5
        <5>2. QED
          BY <1>5, <4>1, <5>1
      <4>2. CASE d # c
        <5>1. call[d].state = "queued" /\ call[d].kind = k
          BY <1>6, <3>3, <4>2
        <5>2. PICK i \in 1 .. Len(queue[k]) : queue[k][i] = d
          BY <2>1, <2>3, <5>1 DEF ApiQueueOK
        <5>3. i \in 1 .. Len(q) /\ q[i] = d
          BY <1>5, <5>2
        <5>4. QED
          BY <5>3
      <4>3. QED
        BY <4>1, <4>2
    <3>4. QED
      BY <1>7, <2>3, <3>1, <3>2, <3>3 DEF ApiQueueOK
  <2>4. QED
    BY <2>2, <2>3
<1>10. ASSUME NEW l \in Api!Kinds
       PROVE  ApiSlotsOK(l)'
  <2>1. Api!Holders(l)' = Api!Holders(l)
    BY <1>1, <1>3, <1>6 DEF Api!Holders
  <2>2. QED
    BY <2>1 DEF ApiIInv, ApiSlotsOK
<1>11. QED
  BY <1>1, <1>6, <1>7, <1>9, <1>10 DEF ApiIInv

\* Enter keeps the invariant.
LEMMA ApiEnterIInv ==
  ASSUME Api!Constants, ApiIInv, NEW c \in Callers, Api!Enter(c)
  PROVE  ApiIInv'
<1>0. PICK k \in Api!Kinds : k = call[c].kind
  BY ApiCallIs
<1> DEFINE r == [call[c] EXCEPT !.state = "sent", !.sent = 1, !.turns = limit + 1]
           q == Tail(queue[k])
<1>1. /\ call[c].state = "queued" /\ Head(queue[k]) = c
      /\ Api!Cardinality(Api!Holders(k)) < Slots[k]
      /\ call' = [call EXCEPT ![c] = r] /\ queue' = [queue EXCEPT ![k] = q] /\ limit' = limit
  BY <1>0 DEF Api!Enter, Api!MayEnter
<1>2. call[c] \in ApiCall
  BY ApiCallIs
<1>3. /\ queue \in [Api!Kinds -> Seq(Callers)] /\ queue[k] \in Seq(Callers) /\ ApiQueueOK(k)
      /\ limit + 1 \in 0 .. MaxBusy + 1 /\ 1 \in 0 .. MaxBusy + 1
  BY DEF ApiIInv, Api!Constants
<1>4. r \in ApiCall /\ r.state = "sent" /\ r.kind = k
  BY <1>0, <1>2, <1>3 DEF ApiCall
<1>5. \E i \in 1 .. Len(queue[k]) : queue[k][i] = c
  BY <1>0, <1>1, <1>3 DEF ApiQueueOK
<1>6. /\ q \in Seq(Callers) /\ Len(queue[k]) \in Nat /\ Len(q) = Len(queue[k]) - 1
      /\ \A i \in 1 .. Len(q) : q[i] = queue[k][i + 1]
      /\ queue[k][1] = c /\ Len(queue[k]) >= 1
  BY <1>1, <1>3, <1>5
<1> HIDE DEF r, q
<1>7. /\ call' \in [Callers -> ApiCall] /\ call'[c] = r
      /\ \A d \in Callers : d # c => call'[d] = call[d]
  BY <1>1, <1>4, ApiCallIs
<1>8. /\ queue' \in [Api!Kinds -> Seq(Callers)] /\ queue'[k] = q
      /\ \A l \in Api!Kinds : l # k => queue'[l] = queue[l]
  BY <1>1, <1>3, <1>6
<1>9. ASSUME NEW l \in Api!Kinds
      PROVE  ApiQueueOK(l)'
  <2>1. ApiQueueOK(l) /\ queue[l] \in Seq(Callers)
    BY DEF ApiIInv
  <2>2. CASE l # k
    <3>1. queue'[l] = queue[l]
      BY <1>8, <2>2
    <3>2. \A i \in 1 .. Len(queue[l]) : queue[l][i] \in Callers /\ queue[l][i] # c
      BY <1>0, <2>1, <2>2 DEF ApiQueueOK
    <3>3. QED
      BY <1>4, <1>7, <2>1, <2>2, <3>1, <3>2 DEF ApiQueueOK
  <2>3. CASE l = k
    <3>1. ASSUME NEW i \in 1 .. Len(q)
          PROVE  /\ i + 1 \in 1 .. Len(queue[k]) /\ i + 1 # 1
                 /\ q[i] = queue[k][i + 1] /\ q[i] \in Callers /\ q[i] # c
      <4>1. i + 1 \in 1 .. Len(queue[k]) /\ i + 1 # 1 /\ 1 \in 1 .. Len(queue[k])
        BY <1>6
      <4>2. q[i] = queue[k][i + 1] /\ queue[k][i + 1] \in Callers
        BY <1>3, <1>6, <4>1
      <4>3. QED
        BY <1>3, <1>6, <4>1, <4>2 DEF ApiQueueOK
    <3>2. ASSUME NEW i \in 1 .. Len(q), NEW j \in 1 .. Len(q), q[i] = q[j]
          PROVE  i = j
      <4>1. i + 1 = j + 1
        BY <1>3, <3>1, <3>2 DEF ApiQueueOK
      <4>2. QED
        BY <1>6, <4>1
    <3>3. ASSUME NEW i \in 1 .. Len(q)
          PROVE  call'[q[i]].state = "queued" /\ call'[q[i]].kind = k
      BY <1>3, <1>7, <3>1 DEF ApiQueueOK
    <3>4. ASSUME NEW d \in Callers, call'[d].state = "queued", call'[d].kind = k
          PROVE  \E i \in 1 .. Len(q) : q[i] = d
      <4>1. d # c /\ call[d].state = "queued" /\ call[d].kind = k
        BY <1>4, <1>7, <3>4
      <4>2. PICK i \in 1 .. Len(queue[k]) : queue[k][i] = d
        BY <1>3, <4>1 DEF ApiQueueOK
      <4>3. i # 1
        BY <1>6, <4>1, <4>2
      <4>4. i - 1 \in 1 .. Len(q) /\ (i - 1) + 1 = i
        BY <1>6, <4>3
      <4>5. q[i - 1] = d
        BY <1>6, <4>2, <4>4
      <4>6. QED
        BY <4>4, <4>5
    <3>5. QED
      BY <1>8, <2>3, <3>2, <3>3, <3>4 DEF ApiQueueOK
  <2>4. QED
    BY <2>2, <2>3
<1>10. ASSUME NEW l \in Api!Kinds
       PROVE  ApiSlotsOK(l)'
  <2>1. Api!IsFiniteSet(Api!Holders(l)) /\ Api!Cardinality(Api!Holders(l)) <= Slots[l]
    BY DEF ApiIInv, ApiSlotsOK
  <2>2. CASE l # k
    <3>1. Api!Holders(l)' = Api!Holders(l)
      BY <1>0, <1>1, <1>4, <1>7, <2>2 DEF Api!Holders
    <3>2. QED
      BY <2>1, <3>1 DEF ApiSlotsOK
  <2>3. CASE l = k
    <3>1. Api!Holders(k)' = Api!Holders(k) \cup {c} /\ c \notin Api!Holders(k)
      BY <1>1, <1>4, <1>7 DEF Api!Holders
    <3>2. /\ Api!IsFiniteSet(Api!Holders(k)')
          /\ Api!Cardinality(Api!Holders(k)') = Api!Cardinality(Api!Holders(k)) + 1
      BY <2>1, <2>3, <3>1, ApiSets, FS_AddElement
    <3>3. Api!Cardinality(Api!Holders(k)) \in Nat /\ Slots[k] \in Nat
      BY <2>1, <2>3, ApiSets, FS_CardinalityType DEF Api!Constants
    <3>4. Api!Cardinality(Api!Holders(k)') <= Slots[k]
      BY <1>1, <3>2, <3>3
    <3>5. QED
      BY <2>3, <3>2, <3>4 DEF ApiSlotsOK
  <2>4. QED
    BY <2>2, <2>3
<1>11. limit' \in 0 .. MaxBusy
  BY <1>1 DEF ApiIInv
<1>12. QED
  BY <1>7, <1>8, <1>9, <1>10, <1>11 DEF ApiIInv

\* Every step keeps the invariant.
LEMMA ApiNextIInv == ASSUME Api!Constants, ApiIInv, [Api!Next]_(Api!vars) PROVE ApiIInv'
<1>1. ASSUME limit' \in 0 .. MaxBusy, UNCHANGED <<queue, call>>
      PROVE  ApiIInv'
  <2>1. ASSUME NEW k \in Api!Kinds
        PROVE  ApiQueueOK(k)' /\ ApiSlotsOK(k)'
    <3>1. ApiQueueOK(k) /\ ApiSlotsOK(k)
      BY DEF ApiIInv
    <3>2. Api!Holders(k)' = Api!Holders(k)
      BY <1>1 DEF Api!Holders
    <3>3. QED
      BY <1>1, <3>1, <3>2 DEF ApiQueueOK, ApiSlotsOK
  <2>2. QED
    BY <1>1, <2>1 DEF ApiIInv
<1>2. CASE UNCHANGED Api!vars \/ Api!Save
  BY <1>1, <1>2 DEF Api!vars, Api!Save, ApiIInv
<1>3. QED
  BY <1>2, ApiAskIInv, ApiEnterIInv, ApiAnswerIInv, ApiBusyIInv, ApiRepeatIInv
     DEF Api!Next, Api!Step

\* Reads go on while writes wait for a busy ixBrowser.
LEMMA ApiFacts == ASSUME Api!Constants, ApiIInv PROVE Api!TypeOK /\ Api!ReadsGoOn
<1>1. Api!TypeOK
  <2>1. ASSUME NEW k \in Api!Kinds
        PROVE  /\ {queue[k][i] : i \in DOMAIN queue[k]}
                    = {c \in Callers : call[c].state = "queued" /\ call[c].kind = k}
               /\ Api!Cardinality(Api!Holders(k)) <= Slots[k]
    <3>1. ApiQueueOK(k) /\ ApiSlotsOK(k) /\ queue[k] \in Seq(Callers)
      BY DEF ApiIInv
    <3>2. DOMAIN queue[k] = 1 .. Len(queue[k])
            /\ \A i \in 1 .. Len(queue[k]) : queue[k][i] \in Callers
      BY <3>1
    <3>3. QED
      BY <3>1, <3>2 DEF ApiQueueOK, ApiSlotsOK
  <2>2. QED
    BY <2>1 DEF ApiIInv, Api!TypeOK, ApiCall
<1>2. ASSUME NEW c \in Callers, call[c].state = "queued", call[c].kind = "read", ~Api!MayEnter(c)
      PROVE  \E d \in Callers \ {c} : call[d].kind = "read" /\ call[d].state # "idle"
  <2>1. /\ "read" \in Api!Kinds /\ ApiQueueOK("read") /\ ApiSlotsOK("read")
        /\ queue["read"] \in Seq(Callers)
    BY DEF ApiIInv, Api!Kinds
  <2>2. PICK i \in 1 .. Len(queue["read"]) : queue["read"][i] = c
    BY <1>2, <2>1 DEF ApiQueueOK
  <2>3. CASE Head(queue["read"]) # c
    <3>1. 1 \in 1 .. Len(queue["read"]) /\ Head(queue["read"]) = queue["read"][1]
      BY <2>1, <2>2
    <3>2. queue["read"][1] \in Callers \ {c}
      BY <2>1, <2>3, <3>1
    <3>3. QED
      BY <2>1, <3>1, <3>2 DEF ApiQueueOK
  <2>4. CASE Head(queue["read"]) = c
    <3>1. ~(Api!Cardinality(Api!Holders("read")) < Slots["read"])
      BY <1>2, <2>4 DEF Api!MayEnter
    <3>2. Slots["read"] \in Nat /\ Slots["read"] # 0
      BY <2>1 DEF Api!Constants
    <3>3. Api!Holders("read") # {}
      <4>1. Api!Cardinality({}) = 0
        BY ApiSets, FS_EmptySet
      <4>2. Api!Holders("read") = {} => Api!Cardinality(Api!Holders("read")) = 0
        BY <4>1, Zenon
      <4>3. QED
        BY <3>1, <3>2, <4>2
    <3>4. QED
      BY <1>2, <3>3 DEF Api!Holders
  <2>5. QED
    BY <2>3, <2>4
<1>3. QED
  BY <1>1, <1>2 DEF Api!ReadsGoOn

-----------------------------------------------------------------------------
(* The switch of proxies: ProxySwitch *)

\* Its sets are counted as ours are.
LEMMA SwitchSets ==
  /\ \A S : Switch!Cardinality(S) = Cardinality(S)
  /\ \A S : Switch!IsFiniteSet(S) <=> IsFiniteSet(S)
BY DEF Switch!Cardinality, Cardinality, Switch!IsFiniteSet, IsFiniteSet

SwitchItems == Switch!Results \cup {None, "waiting", "closing", "switching"}

\* The inductive invariant.
SwitchIInv ==
  /\ proxy \in [Windows -> Proxies] /\ custom \in [Windows -> BOOLEAN] /\ tested \subseteq Proxies
  /\ old \in [Windows -> Proxies \cup {None}] /\ new \in [Windows -> Proxies \cup {None}]
  /\ item \in [Windows -> SwitchItems]
  /\ Switch!IsFiniteSet(Switch!Going) /\ Switch!Cardinality(Switch!Going) <= SwitchSlots
  /\ \A w \in Windows : item[w] \in {"waiting", "closing", "switching"} => new[w] # None
  /\ Switch!SharedOnlyIfScarce

\* The invariant holds at first.
LEMMA SwitchInitIInv == ASSUME Switch!Constants, Switch!Init PROVE SwitchIInv
<1>1. /\ proxy \in [Windows -> Proxies] /\ custom \in [Windows -> BOOLEAN]
      /\ tested \subseteq Proxies
      /\ old \in [Windows -> Proxies \cup {None}] /\ new \in [Windows -> Proxies \cup {None}]
      /\ item \in [Windows -> SwitchItems]
  BY DEF Switch!Init, SwitchItems
<1>2. Switch!Going = {}
  BY DEF Switch!Init, Switch!Going, Switch!Constants
<1>3. Switch!IsFiniteSet(Switch!Going) /\ Switch!Cardinality(Switch!Going) <= SwitchSlots
  BY <1>2, SwitchSets, FS_EmptySet DEF Switch!Constants
<1>4. Switch!SharedOnlyIfScarce
  BY DEF Switch!Init, Switch!SharedOnlyIfScarce
<1>5. \A w \in Windows : item[w] \notin {"waiting", "closing", "switching"}
  BY DEF Switch!Init, Switch!Constants
<1>6. QED
  BY <1>1, <1>3, <1>4, <1>5 DEF SwitchIInv

\* When no proxy of a pool is left but one, at most one more was in it.
LEMMA SwitchNothingIsLeft ==
  ASSUME NEW P, NEW G, NEW x, Switch!IsFiniteSet(P), Switch!IsFiniteSet(G), P \ {x} \subseteq G
  PROVE  Switch!Cardinality(G) >= Switch!Cardinality(P) - 1
<1>1. Switch!IsFiniteSet(G \cup {x}) /\ Switch!Cardinality(G \cup {x})
        <= Switch!Cardinality(G) + 1
      /\ Switch!Cardinality(G) \in Nat /\ Switch!Cardinality(P) \in Nat
      /\ Switch!Cardinality(G \cup {x}) \in Nat
  <2>1. /\ Switch!IsFiniteSet(G \cup {x}) /\ Switch!Cardinality(G) \in Nat
        /\ Switch!Cardinality(P) \in Nat
    BY SwitchSets, FS_AddElement, FS_CardinalityType
  <2>2. Switch!Cardinality(G \cup {x}) = IF x \in G THEN Switch!Cardinality(G)
          ELSE Switch!Cardinality(G) + 1
    BY SwitchSets, FS_AddElement
  <2>3. Switch!Cardinality(G \cup {x}) <= Switch!Cardinality(G) + 1
    BY <2>1, <2>2
  <2>4. Switch!Cardinality(G \cup {x}) \in Nat
    BY <2>1, SwitchSets, FS_CardinalityType
  <2>5. QED
    BY <2>1, <2>3, <2>4
<1>2. P \in SUBSET (G \cup {x})
  OBVIOUS
<1>3. Switch!Cardinality(P) <= Switch!Cardinality(G \cup {x})
  BY <1>1, <1>2, SwitchSets, FS_Subset
<1>4. QED
  BY <1>1, <1>3

\* A window of a request gets the proxy of an earlier one only when nothing else is left.
LEMMA SwitchRequestShares ==
  ASSUME Switch!Constants, SwitchIInv, NEW S \in SUBSET Windows, Switch!Request(S)
  PROVE  Switch!SharedOnlyIfScarce'
<1>1. \A w \in Windows : old'[w] = IF w \in S THEN proxy[w] ELSE None
  BY DEF Switch!Request
<1>2. S = {w \in Windows : old'[w] # None}
  <2>1. \A w \in Windows : proxy[w] \in Proxies /\ proxy[w] # None
    BY DEF SwitchIInv, Switch!Constants
  <2>2. \A w \in Windows : old'[w] # None <=> w \in S
    BY <1>1, <2>1
  <2>3. QED
    BY <2>2
<1>3. /\ Switch!Pool(S)' = Switch!Pool(S) /\ Switch!Pool(S) \subseteq Proxies
      /\ Switch!IsFiniteSet(Switch!Pool(S))
  <2>1. Switch!Pool(S)' = Switch!Pool(S) /\ Switch!Pool(S) \in SUBSET Proxies
    BY DEF Switch!Request, Switch!Pool, SwitchIInv
  <2>2. QED
    BY <2>1, SwitchSets, FS_Subset DEF Switch!Constants
<1>4. /\ new' \in [Windows -> Proxies \cup {None}]
      /\ \A w \in Windows : IF w \in S /\ Switch!Candidates(w, S) # {}
                            THEN new'[w] \in Switch!Choices(w, S, new') ELSE new'[w] = None
  BY DEF Switch!Request, Switch!Picks
<1>5. ASSUME NEW v \in Windows, NEW w \in Windows, v < w, new'[v] = new'[w], new'[w] # None
      PROVE  Switch!Cardinality({new'[u] : u \in {u \in Windows : u < w}} \ {None})
               >= Switch!Cardinality(Switch!Pool(S)) - 1
  <2> DEFINE G == {new'[u] : u \in {u \in Windows : u < w}} \ {None}
             E == {new'[u] : u \in {u \in S : u < w}}
  <2>1. v \in S /\ w \in S /\ new'[w] \in Switch!Choices(w, S, new')
    BY <1>4, <1>5
  <2>2. G \in SUBSET Proxies
    BY <1>4
  <2>3. Switch!IsFiniteSet(G)
    <3> HIDE DEF G
    <3> QED
      BY <2>2, SwitchSets, FS_Subset DEF Switch!Constants
  <2>4. new'[w] \in E
    BY <1>5, <2>1
  <2>5. Switch!Candidates(w, S) \ E = {}
    <3>1. new'[w] \in IF Switch!Candidates(w, S) \ E # {} THEN Switch!Candidates(w, S) \ E
            ELSE Switch!Candidates(w, S)
      BY <2>1 DEF Switch!Choices
    <3> HIDE DEF E
    <3>2. QED
      BY <2>4, <3>1
  <2>6. Switch!Pool(S) \ {Switch!Recognised(w)} \subseteq G
    <3>1. ASSUME NEW q \in Switch!Pool(S) \ {Switch!Recognised(w)}
          PROVE  q \in G
      <4>1. q \in E
        <5> HIDE DEF E
        <5> QED
          BY <2>5, <3>1 DEF Switch!Candidates
      <4>2. q \in Proxies /\ q # None
        BY <1>3 DEF Switch!Constants
      <4>3. QED
        BY <4>1, <4>2
    <3>2. QED
      BY <3>1
  <2>7. QED
    <3> HIDE DEF G
    <3>1. Switch!Cardinality(G) >= Switch!Cardinality(Switch!Pool(S)) - 1
      BY <1>3, <2>3, <2>6, SwitchNothingIsLeft
    <3>2. QED
      BY <3>1 DEF G
<1>6. QED
  <2>1. Switch!Pool({u \in Windows : old[u] # None})' = Switch!Pool(S)
    BY <1>2, <1>3 DEF Switch!Pool
  <2>2. QED
    BY <1>5, <2>1 DEF Switch!SharedOnlyIfScarce

\* Request keeps the invariant.
LEMMA SwitchRequestIInv ==
  ASSUME Switch!Constants, SwitchIInv, NEW S \in SUBSET Windows, Switch!Request(S)
  PROVE  SwitchIInv'
<1>1. Switch!SharedOnlyIfScarce'
  BY SwitchRequestShares
<1>2. /\ old' = [w \in Windows |-> IF w \in S THEN proxy[w] ELSE None]
      /\ new' \in [Windows -> Proxies \cup {None}]
      /\ item' = [w \in Windows |-> IF w \notin S THEN None
                                    ELSE IF new'[w] = None THEN "no proxy" ELSE "waiting"]
      /\ UNCHANGED <<proxy, custom, tested>>
  BY DEF Switch!Request, Switch!Picks
<1>3. old' \in [Windows -> Proxies \cup {None}]
  BY <1>2 DEF SwitchIInv
<1>4. item' \in [Windows -> SwitchItems]
  BY <1>2 DEF SwitchItems, Switch!Results
<1>5. Switch!Going' = {}
  BY <1>2 DEF Switch!Going, Switch!Constants
<1>6. Switch!IsFiniteSet(Switch!Going') /\ Switch!Cardinality(Switch!Going') <= SwitchSlots
  BY <1>5, SwitchSets, FS_EmptySet DEF Switch!Constants
<1>7. \A w \in Windows : item'[w] \in {"waiting", "closing", "switching"} => new'[w] # None
  BY <1>2 DEF Switch!Constants
<1>8. QED
  BY <1>1, <1>2, <1>3, <1>4, <1>6, <1>7 DEF SwitchIInv

\* What was picked stays.
LEMMA SwitchSharedStays ==
  ASSUME SwitchIInv, UNCHANGED <<tested, old, new>>
  PROVE  Switch!SharedOnlyIfScarce'
BY DEF SwitchIInv, Switch!SharedOnlyIfScarce, Switch!Pool

\* A window that is not being switched begins only when there is a slot for it.
LEMMA SwitchItemIInv ==
  ASSUME Switch!Constants, SwitchIInv, NEW w \in Windows, NEW i \in SwitchItems,
         item' = [item EXCEPT ![w] = i], i # "waiting",
         i \in {"closing", "switching"} => w \in Switch!Going,
         proxy' \in [Windows -> Proxies], custom' \in [Windows -> BOOLEAN],
         UNCHANGED <<tested, old, new>>
  PROVE  SwitchIInv'
<1>1. item' \in [Windows -> SwitchItems]
  BY DEF SwitchIInv
<1>2. Switch!Going' \in SUBSET Switch!Going
  BY DEF Switch!Going, SwitchIInv
<1>3. /\ Switch!IsFiniteSet(Switch!Going')
      /\ Switch!Cardinality(Switch!Going') <= Switch!Cardinality(Switch!Going)
  BY <1>2, SwitchSets, FS_Subset DEF SwitchIInv
<1>4. /\ Switch!Cardinality(Switch!Going') \in Nat /\ Switch!Cardinality(Switch!Going) \in Nat
      /\ SwitchSlots \in Nat
  BY <1>3, SwitchSets, FS_CardinalityType DEF SwitchIInv, Switch!Constants
<1>5. Switch!Cardinality(Switch!Going') <= SwitchSlots
  BY <1>3, <1>4 DEF SwitchIInv
<1>6. \A v \in Windows : item'[v] \in {"waiting", "closing", "switching"} => new'[v] # None
  BY DEF SwitchIInv, Switch!Going
<1>7. QED
  BY <1>1, <1>3, <1>5, <1>6, SwitchSharedStays DEF SwitchIInv

\* Close keeps the invariant.
LEMMA SwitchCloseIInv ==
  ASSUME Switch!Constants, SwitchIInv, NEW w \in Windows, Switch!Close(w)
  PROVE  SwitchIInv'
<1>1. /\ item[w] = "waiting" /\ Switch!Cardinality(Switch!Going) < SwitchSlots
      /\ item' = [item EXCEPT ![w] = "closing"] /\ UNCHANGED <<proxy, custom, tested, old, new>>
  BY DEF Switch!Close
<1>2. item' \in [Windows -> SwitchItems]
  BY <1>1 DEF SwitchIInv, SwitchItems
<1>3. Switch!Going' = Switch!Going \cup {w} /\ w \notin Switch!Going
  BY <1>1 DEF Switch!Going, SwitchIInv
<1>4. Switch!IsFiniteSet(Switch!Going) /\ SwitchSlots \in Nat
  BY DEF SwitchIInv, Switch!Constants
<1>5. /\ Switch!IsFiniteSet(Switch!Going')
      /\ Switch!Cardinality(Switch!Going') = Switch!Cardinality(Switch!Going) + 1
  BY <1>3, <1>4, SwitchSets, FS_AddElement
<1>6. Switch!Cardinality(Switch!Going) \in Nat
  BY <1>4, SwitchSets, FS_CardinalityType
<1>7. Switch!Cardinality(Switch!Going') <= SwitchSlots
  BY <1>1, <1>4, <1>5, <1>6
<1>8. \A v \in Windows : item'[v] \in {"waiting", "closing", "switching"} => new'[v] # None
  BY <1>1 DEF SwitchIInv
<1>9. QED
  BY <1>1, <1>2, <1>5, <1>7, <1>8, SwitchSharedStays DEF SwitchIInv

\* Step keeps the invariant.
LEMMA SwitchStepIInv ==
  ASSUME Switch!Constants, SwitchIInv, NEW w \in Windows,
         Switch!NotClosed(w) \/ Switch!Switch(w) \/ Switch!Answered(w) \/ Switch!NotSwitched(w)
           \/ \E p \in Proxies : Switch!SetByHand(w, p)
  PROVE  SwitchIInv'
<1>1. "failed" \in SwitchItems /\ "switched" \in SwitchItems /\ "switching" \in SwitchItems
        /\ None \in SwitchItems
      /\ "failed" \notin {"closing", "switching"} /\ "switched" \notin {"closing", "switching"}
      /\ None \notin {"waiting", "closing", "switching"}
  BY DEF SwitchItems, Switch!Results, Switch!Constants
<1>2. /\ proxy \in [Windows -> Proxies] /\ custom \in [Windows -> BOOLEAN]
      /\ new \in [Windows -> Proxies \cup {None}]
  BY DEF SwitchIInv
<1>3. CASE Switch!NotClosed(w)
  BY <1>1, <1>2, <1>3, SwitchItemIInv DEF Switch!NotClosed
<1>4. CASE Switch!Switch(w)
  <2>1. /\ w \in Switch!Going /\ item' = [item EXCEPT ![w] = "switching"]
        /\ proxy' = [proxy EXCEPT ![w] = new[w]] /\ custom' = [custom EXCEPT ![w] = TRUE]
        /\ UNCHANGED <<tested, old, new>>
    BY <1>4 DEF Switch!Switch, Switch!Going
  <2>2. new[w] \in Proxies
    BY <1>4 DEF SwitchIInv, Switch!Switch
  <2>3. proxy' \in [Windows -> Proxies] /\ custom' \in [Windows -> BOOLEAN]
    BY <1>2, <2>1, <2>2
  <2>4. QED
    BY <1>1, <2>1, <2>3, SwitchItemIInv
<1>5. CASE Switch!Answered(w)
  BY <1>1, <1>2, <1>5, SwitchItemIInv DEF Switch!Answered
<1>6. CASE Switch!NotSwitched(w)
  BY <1>1, <1>2, <1>6, SwitchItemIInv DEF Switch!NotSwitched
<1>7. ASSUME NEW p \in Proxies, Switch!SetByHand(w, p)
      PROVE  SwitchIInv'
  <2>1. /\ item' = [item EXCEPT ![w] = None] /\ UNCHANGED <<tested, old, new>>
        /\ proxy' \in [Windows -> Proxies] /\ custom' \in [Windows -> BOOLEAN]
    BY <1>2, <1>7 DEF Switch!SetByHand
  <2>2. QED
    BY <1>1, <2>1, SwitchItemIInv
<1>8. QED
  BY <1>3, <1>4, <1>5, <1>6, <1>7

\* Every step keeps the invariant.
LEMMA SwitchNextIInv ==
  ASSUME Switch!Constants, SwitchIInv, [Switch!Next]_(Switch!vars)
  PROVE  SwitchIInv'
<1>1. CASE UNCHANGED Switch!vars
  <2>1. Switch!Going' = Switch!Going
    BY <1>1 DEF Switch!vars, Switch!Going
  <2>2. QED
    BY <1>1, <2>1, SwitchSharedStays DEF Switch!vars, SwitchIInv
<1>2. QED
  BY <1>1, SwitchRequestIInv, SwitchCloseIInv, SwitchStepIInv DEF Switch!Next, Switch!Step

\* What the invariant says of the properties.
LEMMA SwitchFacts == ASSUME SwitchIInv PROVE Switch!TypeOK /\ Switch!SharedOnlyIfScarce
BY DEF SwitchIInv, Switch!TypeOK, SwitchItems

-----------------------------------------------------------------------------
(* The stream of the job list: JobStream *)

\* Its sets are counted as ours are.
LEMMA StreamSets ==
  /\ \A S : Stream!Cardinality(S) = Cardinality(S)
  /\ \A S : Stream!IsFiniteSet(S) <=> IsFiniteSet(S)
BY DEF Stream!Cardinality, Cardinality, Stream!IsFiniteSet, IsFiniteSet

(* Numbers in their order *)

StreamUpTo(S, e) == {f \in S : f <= e}
StreamRank(S, e) == Stream!Cardinality(StreamUpTo(S, e))

\* The rank of a number in a set is the number of members up to it.
LEMMA StreamRankIs ==
  ASSUME NEW S \in SUBSET Int, Stream!IsFiniteSet(S), NEW e \in S
  PROVE  /\ Stream!IsFiniteSet(StreamUpTo(S, e)) /\ e \in StreamUpTo(S, e)
         /\ Stream!Cardinality(S) \in Nat /\ StreamRank(S, e) \in 1 .. Stream!Cardinality(S)
<1>1. StreamUpTo(S, e) \in SUBSET S /\ e \in StreamUpTo(S, e)
  BY DEF StreamUpTo
<1>2. /\ Stream!IsFiniteSet(StreamUpTo(S, e))
      /\ Stream!Cardinality(StreamUpTo(S, e)) <= Stream!Cardinality(S)
  BY <1>1, StreamSets, FS_Subset
<1>3. /\ Stream!Cardinality(S) \in Nat /\ Stream!Cardinality(StreamUpTo(S, e)) \in Nat
      /\ Stream!Cardinality(StreamUpTo(S, e)) # 0
  BY <1>1, <1>2, StreamSets, FS_CardinalityType, FS_EmptySet
<1>4. QED
  BY <1>1, <1>2, <1>3 DEF StreamRank

\* The larger a number the larger its rank.
LEMMA StreamRankOrder ==
  ASSUME NEW S \in SUBSET Int, Stream!IsFiniteSet(S), NEW e \in S, NEW f \in S, e < f
  PROVE  StreamRank(S, e) < StreamRank(S, f)
<1>0. e \in Int /\ f \in Int
  OBVIOUS
<1>1. StreamUpTo(S, e) \in SUBSET StreamUpTo(S, f) /\ f \notin StreamUpTo(S, e)
  <2>1. ASSUME NEW g \in S, g <= e
        PROVE  g <= f
    <3>1. g \in Int
      OBVIOUS
    <3>2. QED
      BY <1>0, <2>1, <3>1
  <2>2. ~(f <= e)
    BY <1>0
  <2>3. QED
    BY <2>1, <2>2 DEF StreamUpTo
<1>2. /\ Stream!IsFiniteSet(StreamUpTo(S, f)) /\ f \in StreamUpTo(S, f)
      /\ Stream!Cardinality(StreamUpTo(S, e)) \in Int
      /\ Stream!Cardinality(StreamUpTo(S, f)) \in Int
  BY StreamRankIs DEF StreamRank
<1>3. /\ Stream!Cardinality(StreamUpTo(S, e)) <= Stream!Cardinality(StreamUpTo(S, f))
      /\ Stream!Cardinality(StreamUpTo(S, e)) # Stream!Cardinality(StreamUpTo(S, f))
  BY <1>1, <1>2, StreamSets, FS_Subset
<1>4. QED
  BY <1>2, <1>3 DEF StreamRank

\* No two numbers have one rank.
LEMMA StreamRankOnce ==
  ASSUME NEW S \in SUBSET Int, Stream!IsFiniteSet(S), NEW e \in S, NEW f \in S,
         StreamRank(S, e) = StreamRank(S, f)
  PROVE  e = f
<1>1. StreamRank(S, e) \in Int /\ StreamRank(S, f) \in Int
  BY StreamRankIs
<1>2. CASE e < f
  BY <1>1, <1>2, StreamRankOrder
<1>3. CASE f < e
  BY <1>1, <1>3, StreamRankOrder
<1>4. QED
  BY <1>2, <1>3

\* Each rank is that of a number.
LEMMA StreamRankTaken ==
  ASSUME NEW S \in SUBSET Int, Stream!IsFiniteSet(S), NEW k \in 1 .. Stream!Cardinality(S)
  PROVE  \E e \in S : StreamRank(S, e) = k
<1> DEFINE n == Stream!Cardinality(S)
           f == [e \in S |-> StreamRank(S, e)]
<1>1. n \in Nat
  BY StreamSets, FS_CardinalityType
<1>2. f \in [S -> 1 .. n]
  BY StreamRankIs
<1>3. \A d, e \in S : f[d] = f[e] => d = e
  BY StreamRankOnce
<1> HIDE DEF f
<1>4. f \in Injection(S, 1 .. n)
  BY <1>2, <1>3 DEF Injection, IsInjective
<1>5. Stream!IsFiniteSet(1 .. n) /\ Stream!Cardinality(1 .. n) = n
  BY <1>1, StreamSets, FS_Interval
<1>6. f \in Surjection(S, 1 .. n)
  BY <1>4, <1>5, StreamSets, FS_Injection
<1>7. \E e \in S : f[e] = k
  BY <1>6 DEF Surjection
<1>8. QED
  BY <1>7 DEF f

\* A set in order has every member, once, from the smallest on.
LEMMA StreamInOrderIs ==
  ASSUME NEW S \in SUBSET Nat, Stream!IsFiniteSet(S), NEW q, q = Stream!InOrder(S)
  PROVE  /\ q \in Seq(Nat) /\ DOMAIN q = 1 .. Len(q) /\ Len(q) \in Nat
         /\ \A n \in 1 .. Len(q) : q[n] \in S
         /\ \A m, n \in 1 .. Len(q) : m < n => q[m] < q[n]
         /\ \A e \in S : \E n \in 1 .. Len(q) : q[n] = e
<1> DEFINE c == Stream!Cardinality(S)
<1>1. c \in Nat /\ S \in SUBSET Int
  BY StreamSets, FS_CardinalityType
<1>2. q = [n \in 1 .. c |-> CHOOSE e \in S : StreamRank(S, e) = n]
  BY DEF Stream!InOrder, StreamRank, StreamUpTo
<1>3. ASSUME NEW n \in 1 .. c
      PROVE  q[n] \in S /\ StreamRank(S, q[n]) = n
  <2>1. \E e \in S : StreamRank(S, e) = n
    BY <1>1, StreamRankTaken
  <2>2. q[n] = CHOOSE e \in S : StreamRank(S, e) = n
    BY <1>2
  <2>3. QED
    BY <2>1, <2>2
<1>4. q \in [1 .. c -> Nat]
  BY <1>2, <1>3
<1> HIDE DEF c
<1>5. q \in Seq(Nat) /\ Len(q) = c /\ DOMAIN q = 1 .. c
  BY <1>1, <1>4
<1>6. ASSUME NEW m \in 1 .. c, NEW n \in 1 .. c, m < n
      PROVE  q[m] < q[n]
  <2>1. /\ q[m] \in S /\ q[n] \in S /\ StreamRank(S, q[m]) = m /\ StreamRank(S, q[n]) = n
        /\ q[m] \in Int /\ q[n] \in Int
    BY <1>1, <1>3
  <2>2. CASE q[n] < q[m]
    <3>1. StreamRank(S, q[n]) < StreamRank(S, q[m])
      BY <1>1, <2>1, <2>2, StreamRankOrder
    <3>2. QED
      BY <1>6, <2>1, <3>1
  <2>3. CASE q[n] = q[m]
    BY <1>6, <2>1, <2>3
  <2>4. QED
    BY <2>1, <2>2, <2>3
<1>7. ASSUME NEW e \in S
      PROVE  \E n \in 1 .. c : q[n] = e
  <2>1. StreamRank(S, e) \in 1 .. c
    BY <1>1, StreamRankIs DEF c
  <2>2. q[StreamRank(S, e)] \in S /\ StreamRank(S, q[StreamRank(S, e)]) = StreamRank(S, e)
    BY <1>3, <2>1
  <2>3. q[StreamRank(S, e)] = e
    BY <1>1, <2>2, StreamRankOnce
  <2>4. QED
    BY <2>1, <2>3
<1>8. QED
  BY <1>1, <1>3, <1>5, <1>6, <1>7

-----------------------------------------------------------------------------
(* What the page is told *)

StreamGenerator == [pc : {"snapshot", "latest", "jobs", "events"},
                    seen : [Jobs -> Shown \cup {None}], last : Nat]
StreamPage == [jobs : [Jobs -> Shown \cup {None}], events : Seq(Nat)]

StreamIncreases(told) == \A m, n \in 1 .. Len(told) : m < n => told[m] < told[n]
StreamTold(told, e)   == \E n \in 1 .. Len(told) : told[n] = e

\* Of the events between the beginning and the last one read the page was told all
\* but those of jobs that were missing from a list.
StreamTells(told, first, last, l, out) ==
  /\ StreamIncreases(told)
  /\ \A n \in 1 .. Len(told) : told[n] \in first + 1 .. last
  /\ \A e \in first + 1 .. last : l[e] \in out \/ StreamTold(told, e)

\* The inductive invariant.
StreamIInv ==
  /\ row \in [Jobs -> Phases \cup {None}] /\ log \in Seq(Jobs)
  /\ stream \in StreamGenerator /\ page \in StreamPage /\ since \in Nat /\ missed \subseteq Jobs
  /\ since <= stream.last /\ stream.last <= Len(log)
  /\ stream.pc \in {"snapshot", "latest"} => page.events = <<>> /\ stream.last = since
  /\ stream.pc # "snapshot" => \A j \in Jobs : stream.seen[j] = None => j \in missed
  /\ StreamTells(page.events, since, stream.last, log, missed)

\* Without events between, nothing has to be told.
LEMMA StreamNothingToTell ==
  ASSUME NEW n \in Nat, NEW l, NEW out
  PROVE  StreamTells(<<>>, n, n, l, out)
BY DEF StreamTells, StreamIncreases, StreamTold

\* The invariant holds at first.
LEMMA StreamInitIInv == ASSUME Stream!Init PROVE StreamIInv
<1>1. stream \in StreamGenerator /\ stream.last = 0 /\ stream.pc = "snapshot"
  BY DEF Stream!Init, StreamGenerator
<1>2. page \in StreamPage /\ page.events = <<>>
  BY DEF Stream!Init, StreamPage
<1>3. log = <<>> /\ Len(log) = 0 /\ log \in Seq(Jobs) /\ since = 0
  BY DEF Stream!Init
<1>4. StreamTells(page.events, since, stream.last, log, missed)
  BY <1>1, <1>2, <1>3, StreamNothingToTell
<1>5. QED
  BY <1>1, <1>2, <1>3, <1>4 DEF Stream!Init, StreamIInv

\* The list has the jobs that are shown.
LEMMA StreamListIs ==
  ASSUME Stream!Constants, StreamIInv
  PROVE  /\ Stream!List \in [Jobs -> Shown \cup {None}]
         /\ \A j \in Jobs : Stream!List[j] = None => j \in Jobs \ Stream!Listed
<1>1. \A j \in Stream!Listed : row[j] \in Shown /\ row[j] # None
  BY DEF Stream!Listed, Stream!Matching, Stream!Constants
<1>2. QED
  BY <1>1 DEF Stream!List

\* Change keeps the invariant.
LEMMA StreamChangeIInv ==
  ASSUME StreamIInv, NEW j \in Jobs, NEW p \in Phases, Stream!Change(j, p)
  PROVE  StreamIInv'
<1>1. /\ row' = [row EXCEPT ![j] = p] /\ log' = Append(log, j)
      /\ UNCHANGED <<stream, page, since, missed>>
  BY DEF Stream!Change
<1>2. /\ log \in Seq(Jobs) /\ row \in [Jobs -> Phases \cup {None}] /\ stream.last \in Nat
      /\ stream.last <= Len(log) /\ Len(log) \in Nat /\ since \in Nat
  BY DEF StreamIInv, StreamGenerator
<1>3. /\ log' \in Seq(Jobs) /\ Len(log') = Len(log) + 1
      /\ \A e \in 1 .. Len(log) : log'[e] = log[e]
  BY <1>1, <1>2
<1>4. row' \in [Jobs -> Phases \cup {None}]
  BY <1>1, <1>2
<1>5. stream.last <= Len(log')
  BY <1>2, <1>3
<1>6. \A e \in since + 1 .. stream.last : log'[e] = log[e]
  BY <1>2, <1>3
<1>7. StreamTells(page.events, since, stream.last, log', missed)
  BY <1>6 DEF StreamIInv, StreamTells
<1>8. QED
  BY <1>1, <1>3, <1>4, <1>5, <1>7 DEF StreamIInv

\* Snapshot keeps the invariant.
LEMMA StreamSnapshotIInv == ASSUME Stream!Constants, StreamIInv, Stream!Snapshot PROVE StreamIInv'
<1>1. /\ stream.pc = "snapshot" /\ stream' = [stream EXCEPT !.pc = "latest", !.seen = Stream!List]
      /\ missed' = Jobs \ Stream!Listed /\ UNCHANGED <<row, log, page, since>>
  BY DEF Stream!Snapshot
<1>2. stream \in StreamGenerator /\ page.events = <<>> /\ stream.last = since
  BY <1>1 DEF StreamIInv
<1>3. /\ stream' \in StreamGenerator /\ stream'.pc = "latest" /\ stream'.seen = Stream!List
      /\ stream'.last = stream.last
  BY <1>1, <1>2, StreamListIs DEF StreamGenerator
<1>4. StreamTells(page.events, since, stream.last, log, missed')
  BY <1>2, StreamNothingToTell DEF StreamIInv
<1>5. \A j \in Jobs : Stream!List[j] = None => j \in missed'
  BY <1>1, StreamListIs
<1>6. QED
  BY <1>1, <1>2, <1>3, <1>4, <1>5 DEF StreamIInv

\* Latest keeps the invariant.
LEMMA StreamLatestIInv == ASSUME StreamIInv, Stream!Latest PROVE StreamIInv'
<1>1. /\ stream.pc = "latest" /\ stream' = [stream EXCEPT !.pc = "jobs", !.last = Len(log)]
      /\ since' = Len(log) /\ page' = [page EXCEPT !.jobs = stream.seen]
      /\ UNCHANGED <<row, log, missed>>
  BY DEF Stream!Latest
<1>2. /\ stream \in StreamGenerator /\ page \in StreamPage /\ page.events = <<>>
      /\ Len(log) \in Nat
      /\ stream.seen \in [Jobs -> Shown \cup {None}]
  BY <1>1 DEF StreamIInv, StreamGenerator
<1>3. /\ stream' \in StreamGenerator /\ stream'.pc = "jobs" /\ stream'.seen = stream.seen
      /\ stream'.last = Len(log)
  BY <1>1, <1>2 DEF StreamGenerator
<1>4. page' \in StreamPage /\ page'.events = <<>>
  BY <1>1, <1>2 DEF StreamPage
<1>5. StreamTells(page'.events, since', stream'.last, log, missed)
  BY <1>1, <1>2, <1>3, <1>4, StreamNothingToTell
<1>6. since' \in Nat /\ since' <= stream'.last /\ stream'.last <= Len(log)
  BY <1>1, <1>2, <1>3
<1>7. QED
  BY <1>1, <1>3, <1>4, <1>5, <1>6 DEF StreamIInv

\* PollJobs keeps the invariant.
LEMMA StreamPollJobsIInv == ASSUME Stream!Constants, StreamIInv, Stream!PollJobs PROVE StreamIInv'
<1>1. /\ stream.pc = "jobs" /\ page' = [page EXCEPT !.jobs = Stream!Diff(page.jobs)]
      /\ stream' = [stream EXCEPT !.seen = Stream!List, !.pc = "events"]
      /\ missed' = missed \cup (Jobs \ Stream!Listed) /\ UNCHANGED <<row, log, since>>
  BY DEF Stream!PollJobs
<1>2. /\ stream \in StreamGenerator /\ page \in StreamPage
      /\ page.jobs \in [Jobs -> Shown \cup {None}]
      /\ StreamTells(page.events, since, stream.last, log, missed)
  BY DEF StreamIInv, StreamPage
<1>3. /\ stream' \in StreamGenerator /\ stream'.pc = "events" /\ stream'.seen = Stream!List
      /\ stream'.last = stream.last
  BY <1>1, <1>2, StreamListIs DEF StreamGenerator
<1>4. Stream!Diff(page.jobs) \in [Jobs -> Shown \cup {None}]
  BY <1>2, StreamListIs DEF Stream!Diff
<1>5. page' \in StreamPage /\ page'.events = page.events
  BY <1>1, <1>2, <1>4 DEF StreamPage
<1>6. StreamTells(page.events, since, stream.last, log, missed')
  BY <1>1, <1>2 DEF StreamTells
<1>7. \A j \in Jobs : Stream!List[j] = None => j \in missed'
  BY <1>1, StreamListIs
<1>8. missed' \subseteq Jobs
  BY <1>1 DEF StreamIInv
<1>9. QED
  BY <1>1, <1>3, <1>5, <1>6, <1>7, <1>8 DEF StreamIInv

\* What is read next is told after what was read before.
LEMMA StreamTellsMore ==
  ASSUME NEW s \in Seq(Nat), NEW q \in Seq(Nat), NEW first \in Nat, NEW last \in Nat,
         NEW next \in Nat,
         NEW l, NEW out, first <= last, last <= next, StreamTells(s, first, last, l, out),
         StreamIncreases(q),
         \A n \in 1 .. Len(q) : q[n] \in last + 1 .. next,
         \A e \in last + 1 .. next : l[e] \in out \/ StreamTold(q, e)
  PROVE  s \o q \in Seq(Nat) /\ StreamTells(s \o q, first, next, l, out)
<1> DEFINE t == s \o q
<1>1. /\ t \in Seq(Nat) /\ Len(t) = Len(s) + Len(q) /\ Len(s) \in Nat /\ Len(q) \in Nat
      /\ \A n \in 1 .. Len(s) : t[n] = s[n]
      /\ \A n \in Len(s) + 1 .. Len(s) + Len(q) : t[n] = q[n - Len(s)]
  OBVIOUS
<1> HIDE DEF t
<1>2. ASSUME NEW n \in 1 .. Len(s)
      PROVE  n \in 1 .. Len(t) /\ t[n] = s[n] /\ s[n] \in first + 1 .. last
  BY <1>1, <1>2 DEF StreamTells
<1>3. ASSUME NEW n \in 1 .. Len(q)
      PROVE  Len(s) + n \in 1 .. Len(t) /\ t[Len(s) + n] = q[n]
  <2>1. Len(s) + n \in Len(s) + 1 .. Len(s) + Len(q) /\ (Len(s) + n) - Len(s) = n
    BY <1>1
  <2>2. t[Len(s) + n] = q[(Len(s) + n) - Len(s)]
    BY <1>1, <2>1
  <2>3. Len(s) + n \in 1 .. Len(t)
    BY <1>1
  <2>4. QED
    BY <2>1, <2>2, <2>3
<1>4. ASSUME NEW n \in 1 .. Len(t)
      PROVE  \/ n \in 1 .. Len(s) /\ t[n] = s[n] /\ t[n] \in first + 1 .. last
             \/ n - Len(s) \in 1 .. Len(q) /\ t[n] = q[n - Len(s)] /\ t[n] \in last + 1 .. next
  <2>1. CASE n \in 1 .. Len(s)
    BY <1>2, <2>1
  <2>2. CASE n \notin 1 .. Len(s)
    <3>1. n - Len(s) \in 1 .. Len(q) /\ t[n] = q[n - Len(s)]
      BY <1>1, <2>2
    <3>2. QED
      BY <3>1
  <2>3. QED
    BY <2>1, <2>2
<1>5. ASSUME NEW m \in 1 .. Len(t), NEW n \in 1 .. Len(t), m < n
      PROVE  t[m] < t[n]
  <2>1. CASE n \in 1 .. Len(s)
    <3>1. m \in 1 .. Len(s)
      BY <1>1, <1>5, <2>1
    <3>2. QED
      BY <1>2, <1>5, <2>1, <3>1 DEF StreamTells, StreamIncreases
  <2>2. CASE n \notin 1 .. Len(s) /\ m \in 1 .. Len(s)
    <3>1. t[m] \in first + 1 .. last /\ t[n] \in last + 1 .. next
      BY <1>2, <1>4, <2>2
    <3>2. QED
      BY <3>1
  <2>3. CASE n \notin 1 .. Len(s) /\ m \notin 1 .. Len(s)
    <3>1. /\ n - Len(s) \in 1 .. Len(q) /\ t[n] = q[n - Len(s)]
          /\ m - Len(s) \in 1 .. Len(q) /\ t[m] = q[m - Len(s)]
      BY <1>4, <2>3
    <3>2. m - Len(s) < n - Len(s)
      BY <1>1, <1>5
    <3>3. QED
      BY <3>1, <3>2 DEF StreamIncreases
  <2>4. QED
    BY <2>1, <2>2, <2>3
<1>6. ASSUME NEW n \in 1 .. Len(t)
      PROVE  t[n] \in first + 1 .. next
  BY <1>4
<1>7. ASSUME NEW e \in first + 1 .. next
      PROVE  l[e] \in out \/ StreamTold(t, e)
  <2>1. CASE e \in first + 1 .. last
    <3>1. CASE StreamTold(s, e)
      BY <1>2, <3>1 DEF StreamTold
    <3>2. QED
      BY <2>1, <3>1 DEF StreamTells
  <2>2. CASE e \in last + 1 .. next
    <3>1. CASE StreamTold(q, e)
      BY <1>3, <3>1 DEF StreamTold
    <3>2. QED
      BY <2>2, <3>1
  <2>3. QED
    BY <2>1, <2>2
<1>8. StreamTells(t, first, next, l, out)
  BY <1>5, <1>6, <1>7 DEF StreamTells, StreamIncreases
<1>9. QED
  BY <1>1, <1>8 DEF t

\* PollEvents keeps the invariant.
LEMMA StreamPollEventsIInv ==
  ASSUME Stream!Constants, StreamIInv, Stream!PollEvents
  PROVE  StreamIInv'
<1> DEFINE last == stream.last
           next == Stream!LastRead(last)
           E == {e \in Stream!Read(last) : stream.seen[log[e]] # None}
           q == Stream!InOrder(E)
<1>1. /\ stream.pc = "events" /\ page' = [page EXCEPT !.events = page.events \o q]
      /\ stream' = [stream EXCEPT !.last = next, !.pc = "jobs"]
      /\ UNCHANGED <<row, log, since, missed>>
  BY DEF Stream!PollEvents
<1>2. /\ stream \in StreamGenerator /\ page \in StreamPage /\ log \in Seq(Jobs) /\ since \in Nat
      /\ last \in Nat /\ page.events \in Seq(Nat) /\ since <= last /\ last <= Len(log)
      /\ Len(log) \in Nat
      /\ \A j \in Jobs : stream.seen[j] = None => j \in missed
      /\ StreamTells(page.events, since, last, log, missed)
  BY <1>1 DEF StreamIInv, StreamGenerator, StreamPage
<1>3. next \in Nat /\ last <= next /\ next <= Len(log) /\ Stream!Read(last) = last + 1 .. next
  BY <1>2 DEF Stream!LastRead, Stream!More, Stream!Read, Stream!Constants
<1>4. E \in SUBSET Nat /\ Stream!IsFiniteSet(E) /\ E \in SUBSET (last + 1 .. next)
  <2>1. E \in SUBSET (last + 1 .. next)
    BY <1>3
  <2> HIDE DEF E, q, next, last
  <2>2. last + 1 \in Int /\ next \in Int /\ last + 1 .. next \subseteq Nat
    BY <1>2, <1>3
  <2>3. Stream!IsFiniteSet(last + 1 .. next)
    BY <2>2, StreamSets, FS_Interval
  <2>4. Stream!IsFiniteSet(E)
    BY <2>1, <2>3, StreamSets, FS_Subset
  <2>5. QED
    BY <2>1, <2>2, <2>4
<1>5. ASSUME NEW e \in last + 1 .. next
      PROVE  log[e] \in missed \/ e \in E
  <2>1. e \in 1 .. Len(log) /\ log[e] \in Jobs
    BY <1>2, <1>3
  <2>2. QED
    BY <1>2, <1>3, <2>1
<1> HIDE DEF E, q, next, last
<1>6. /\ q \in Seq(Nat) /\ StreamIncreases(q)
      /\ \A n \in 1 .. Len(q) : q[n] \in last + 1 .. next
      /\ \A e \in E : StreamTold(q, e)
  BY <1>4, StreamInOrderIs DEF q, StreamIncreases, StreamTold
<1>7. page.events \o q \in Seq(Nat) /\ StreamTells(page.events \o q, since, next, log, missed)
  BY <1>2, <1>3, <1>5, <1>6, StreamTellsMore
<1>8. page' \in StreamPage /\ page'.events = page.events \o q
  BY <1>1, <1>2, <1>7 DEF StreamPage
<1>9. /\ stream' \in StreamGenerator /\ stream'.pc = "jobs" /\ stream'.last = next
      /\ stream'.seen = stream.seen
  BY <1>1, <1>2, <1>3 DEF StreamGenerator
<1>10. since <= next
  BY <1>2, <1>3
<1>11. QED
  BY <1>1, <1>2, <1>3, <1>7, <1>8, <1>9, <1>10 DEF StreamIInv

\* Every step keeps the invariant.
LEMMA StreamNextIInv ==
  ASSUME Stream!Constants, StreamIInv, [Stream!Next]_(Stream!vars)
  PROVE  StreamIInv'
<1>1. CASE UNCHANGED Stream!vars
  BY <1>1 DEF Stream!vars, StreamIInv
<1>2. QED
  BY <1>1, StreamChangeIInv, StreamSnapshotIInv, StreamLatestIInv, StreamPollJobsIInv,
     StreamPollEventsIInv DEF Stream!Next, Stream!Poll

\* No event of a job that stays in the list is lost, and none is told twice.
LEMMA StreamFacts == ASSUME StreamIInv PROVE Stream!TypeOK /\ Stream!NoEventIsLost
<1>1. Stream!TypeOK
  BY DEF StreamIInv, Stream!TypeOK, StreamGenerator, StreamPage
<1>2. page.events \in Seq(Nat) /\ DOMAIN page.events = 1 .. Len(page.events)
  BY DEF StreamIInv, StreamPage
<1>3. Stream!NoEventIsLost
  BY <1>2 DEF StreamIInv, StreamTells, StreamIncreases, StreamTold, Stream!NoEventIsLost
<1>4. QED
  BY <1>1, <1>3

-----------------------------------------------------------------------------
(* All parts: Services *)

\* The part that runs has its inductive invariant.
IInv ==
  /\ part \in Parts
  /\ part = "refresh"  => RefreshIInv
  /\ part = "poll"     => PollIInv
  /\ part = "submit"   => SubmitIInv
  /\ part = "publish"  => PublishIInv
  /\ part = "compat"   => CompatIInv
  /\ part = "opening"  => OpeningIInv
  /\ part = "api"      => ApiIInv
  /\ part = "switch"   => SwitchIInv
  /\ part = "stream"   => StreamIInv
  /\ part = "reading"  => ReadingIInv

\* The invariant holds at first.
LEMMA InitIInv == Init => IInv
BY ConstantsAreRight, RefreshInitIInv, PollInitIInv, SubmitInitIInv, PublishInitIInv,
   CompatInitIInv,
   OpeningInitIInv, ApiInitIInv, SwitchInitIInv, StreamInitIInv, ReadingInitIInv
   DEF Init, IInv, Parts

\* A step in which nothing changes keeps the invariant.
LEMMA RestingIInv == ASSUME IInv, UNCHANGED vars PROVE IInv'
<1>1. part' = part /\ part \in Parts
  BY DEF vars, IInv
<1>2. CASE part = "refresh"
  <2>1. UNCHANGED Refresh!vars
    BY DEF vars, refreshVars, rowVars, taskVars, seenVars, Refresh!vars
  <2>2. RefreshIInv'
    BY <1>2, <2>1, ConstantsAreRight, RefreshNextIInv DEF IInv
  <2>3. QED
    BY <1>1, <1>2, <2>2 DEF IInv
<1>3. CASE part = "poll"
  <2>1. UNCHANGED Poll!vars
    BY DEF vars, pollVars, taskVars, windowVars, Poll!vars
  <2>2. PollIInv'
    BY <1>3, <2>1, ConstantsAreRight, PollNextIInv DEF IInv
  <2>3. QED
    BY <1>1, <1>3, <2>2 DEF IInv
<1>4. CASE part = "submit"
  <2>1. UNCHANGED Submit!vars
    BY DEF vars, submitVars, runVars, Submit!vars
  <2>2. SubmitIInv'
    BY <1>4, <2>1, ConstantsAreRight, SubmitNextIInv DEF IInv
  <2>3. QED
    BY <1>1, <1>4, <2>2 DEF IInv
<1>5. CASE part = "publish"
  <2>1. UNCHANGED Publish!vars
    BY DEF vars, publishVars, windowVars, runVars, Publish!vars
  <2>2. PublishIInv'
    BY <1>5, <2>1, ConstantsAreRight, PublishNextIInv DEF IInv
  <2>3. QED
    BY <1>1, <1>5, <2>2 DEF IInv
<1>6. CASE part = "compat"
  <2>1. UNCHANGED Compat!vars
    BY DEF vars, compatVars, rowVars, windowVars, Compat!vars
  <2>2. CompatIInv'
    BY <1>6, <2>1, ConstantsAreRight, CompatNextIInv DEF IInv
  <2>3. QED
    BY <1>1, <1>6, <2>2 DEF IInv
<1>7. CASE part = "opening"
  <2>1. UNCHANGED Opening!vars
    BY DEF vars, openingVars, windowVars, Opening!vars
  <2>2. OpeningIInv'
    BY <1>7, <2>1, ConstantsAreRight, OpeningNextIInv DEF IInv
  <2>3. QED
    BY <1>1, <1>7, <2>2 DEF IInv
<1>8. CASE part = "api"
  <2>1. UNCHANGED Api!vars
    BY DEF vars, apiVars, Api!vars
  <2>2. ApiIInv'
    BY <1>8, <2>1, ConstantsAreRight, ApiNextIInv DEF IInv
  <2>3. QED
    BY <1>1, <1>8, <2>2 DEF IInv
<1>9. CASE part = "switch"
  <2>1. UNCHANGED Switch!vars
    BY DEF vars, switchVars, Switch!vars
  <2>2. SwitchIInv'
    BY <1>9, <2>1, ConstantsAreRight, SwitchNextIInv DEF IInv
  <2>3. QED
    BY <1>1, <1>9, <2>2 DEF IInv
<1>10. CASE part = "stream"
  <2>1. UNCHANGED Stream!vars
    BY DEF vars, streamVars, rowVars, seenVars, Stream!vars
  <2>2. StreamIInv'
    BY <1>10, <2>1, ConstantsAreRight, StreamNextIInv DEF IInv
  <2>3. QED
    BY <1>1, <1>10, <2>2 DEF IInv
<1>11. CASE part = "reading"
  <2>1. UNCHANGED Reading!vars
    BY DEF vars, readingVars, windowVars, Reading!vars
  <2>2. ReadingIInv'
    BY <1>11, <2>1, ConstantsAreRight, ReadingNextIInv DEF IInv
  <2>3. QED
    BY <1>1, <1>11, <2>2 DEF IInv
<1>12. QED
  BY <1>1, <1>2, <1>3, <1>4, <1>5, <1>6, <1>7, <1>8, <1>9, <1>10, <1>11 DEF Parts

\* Every step keeps the invariant.
LEMMA NextIInv == ASSUME IInv, Next PROVE IInv'
<1>1. part' = part /\ part \in Parts
  BY DEF Next, IInv, OnlyRefresh, OnlyPoll, OnlySubmit, OnlyPublish, OnlyCompat, OnlyOpening,
         OnlyApi, OnlySwitch, OnlyStream, OnlyReading
<1>2. CASE part = "refresh" /\ Refresh!Next
  BY <1>1, <1>2, ConstantsAreRight, RefreshNextIInv DEF IInv
<1>3. CASE part = "poll" /\ Poll!Next
  BY <1>1, <1>3, ConstantsAreRight, PollNextIInv DEF IInv
<1>4. CASE part = "submit" /\ Submit!Next
  BY <1>1, <1>4, ConstantsAreRight, SubmitNextIInv DEF IInv
<1>5. CASE part = "publish" /\ Publish!Next
  BY <1>1, <1>5, ConstantsAreRight, PublishNextIInv DEF IInv
<1>6. CASE part = "compat" /\ Compat!Next
  BY <1>1, <1>6, ConstantsAreRight, CompatNextIInv DEF IInv
<1>7. CASE part = "opening" /\ Opening!Next
  BY <1>1, <1>7, ConstantsAreRight, OpeningNextIInv DEF IInv
<1>8. CASE part = "api" /\ Api!Next
  BY <1>1, <1>8, ConstantsAreRight, ApiNextIInv DEF IInv
<1>9. CASE part = "switch" /\ Switch!Next
  BY <1>1, <1>9, ConstantsAreRight, SwitchNextIInv DEF IInv
<1>10. CASE part = "stream" /\ Stream!Next
  BY <1>1, <1>10, ConstantsAreRight, StreamNextIInv DEF IInv
<1>11. CASE part = "reading" /\ Reading!Next
  BY <1>1, <1>11, ConstantsAreRight, ReadingNextIInv DEF IInv
<1>12. QED
  BY <1>2, <1>3, <1>4, <1>5, <1>6, <1>7, <1>8, <1>9, <1>10, <1>11 DEF Next

\* The invariant holds always.
LEMMA AlwaysIInv == Spec => []IInv
<1>1. IInv /\ [Next]_vars => IInv'
  BY RestingIInv, NextIInv
<1>2. QED
  BY <1>1, InitIInv, PTL DEF Spec

-----------------------------------------------------------------------------
(* Theorems *)

\* Every variable of the part that runs keeps its type.
THEOREM TypeCorrect == Spec => []TypeOK
<1>1. ASSUME IInv
      PROVE  TypeOK
  <2>1. /\ part = "refresh" => Refresh!TypeOK
        /\ part = "poll"    => Poll!TypeOK
        /\ part = "submit"  => Submit!TypeOK
        /\ part = "publish" => Publish!TypeOK
        /\ part = "compat"  => Compat!TypeOK
    BY <1>1, RefreshFacts, PublishFacts, CompatFacts DEF IInv, PollIInv, SubmitIInv
  <2>2. /\ part = "opening" => Opening!TypeOK
        /\ part = "api"     => Api!TypeOK
        /\ part = "switch"  => Switch!TypeOK
        /\ part = "stream"  => Stream!TypeOK
        /\ part = "reading" => Reading!TypeOK
    BY <1>1, ConstantsAreRight, ApiFacts, SwitchFacts, StreamFacts
       DEF IInv, OpeningIInv, ReadingIInv
  <2>3. QED
    BY <1>1, <2>1, <2>2 DEF IInv, Parts, TypeOK
<1>2. QED
  BY <1>1, AlwaysIInv, PTL

\* A page that was told the end of a refresh has seen it, whatever restarts come between;
\* a task is called finished or failed only if it is, and shown no further than it may
\* be; a publication is called completed only with a link, whichever coroutine wrote last;
\* a page of jobs is told every event of the jobs that stay in its list, in order and
\* once, however many happen between two polls; a reading over the proxy is a success
\* only if nothing was refused or challenged.
THEOREM ReportsAreTrueCorrect == Spec => []ReportsAreTrue
<1>1. ASSUME IInv
      PROVE  ReportsAreTrue
  <2>1. /\ part = "refresh" => Refresh!ToldTheEnd
        /\ part = "poll"    => Poll!EndIsTrue /\ Poll!ShownIsTrue
        /\ part = "compat"  => Compat!CompletedHasLink
    BY <1>1, RefreshFacts, CompatFacts DEF IInv, PollIInv
  <2>2. /\ part = "stream"  => Stream!NoEventIsLost
        /\ part = "reading" => Reading!SuccessIsTrusted
    BY <1>1, StreamFacts, ReadingFacts DEF IInv
  <2>3. QED
    BY <2>1, <2>2 DEF ReportsAreTrue
<1>2. QED
  BY <1>1, AlwaysIInv, PTL

\* The window is closed while the proxy serves the polls, is as the run found it when a
\* publication is over, and is not left open by readers unless a call to close it failed.
THEOREM WindowsAreReturnedCorrect == Spec => []WindowsAreReturned
<1>1. IInv => WindowsAreReturned
  BY PublishFacts, ReadingFacts DEF IInv, WindowsAreReturned, PollIInv
<1>2. QED
  BY <1>1, AlwaysIInv, PTL

\* A call that reads waits for reads only, however many writes wait for a busy ixBrowser,
\* and two windows are given one proxy only when the pool is used up.
THEOREM ScarceIsSharedCorrect == Spec => []ScarceIsShared
<1>1. IInv => ScarceIsShared
  BY ConstantsAreRight, ApiFacts, SwitchFacts DEF IInv, ScarceIsShared
<1>2. QED
  BY <1>1, AlwaysIInv, PTL

\* Sora is asked at most as often as a run has attempts, a window is not opened again
\* for nothing, and an overloaded account is not asked again in the same run.
THEOREM SoraIsSparedCorrect == Spec => SoraIsSpared
<1>1. IInv => (part = "submit" => Submit!AskedInBounds /\ Submit!ReopenedIsUsed)
  BY ConstantsAreRight, SubmitFacts DEF IInv
<1>2. ASSUME IInv, Next
      PROVE  part = "submit" /\ chain = "queue" /\ run.error = "overload" => asked' = asked
  <2>1. CASE part = "submit"
    <3>1. SubmitIInv /\ Submit!Next
      BY <1>2, <2>1 DEF IInv, Next
    <3>2. QED
      BY <3>1, SubmitNextSpares
  <2>2. QED
    BY <2>1
<1>3. QED
  BY <1>1, <1>2, AlwaysIInv, PTL DEF Spec, SoraIsSpared

\* A group has one refresh, which somebody works on; the job and a user never publish at
\* the same time; an opening that no other worker and no refusal spoils gets its window
\* in the first attempt, whatever state the window was left in.
THEOREM WorkersKeepApartCorrect == Spec => WorkersKeepApart
<1>1. IInv => (part = "refresh" => Refresh!OneWorkedOn)
  BY RefreshFacts DEF IInv
<1>2. IInv => (part = "compat" => Compat!MakerPublishesAlone)
  BY CompatFacts DEF IInv
<1>3. ASSUME IInv, Next
      PROVE  part = "opening" =>
               \A u \in Users :
                 pc[u] \in Opening!Opening /\ pc'[u] \in {"idle", "pause"} => spoilt'[u]
  <2>1. CASE part = "opening"
    <3>1. OpeningIInv /\ Opening!Next
      BY <1>3, <2>1 DEF IInv, Next
    <3>2. QED
      BY <3>1, OpeningUndisturbedGoesOn
  <2>2. QED
    BY <2>1
<1>4. QED
  BY <1>1, <1>2, <1>3, AlwaysIInv, PTL DEF Spec, WorkersKeepApart

\* A link that Sora answered a publication with is what the run returns, whatever answers
\* are lost, whatever links of other posts are heard or stand in the page, and whatever
\* others post and delete; and the only post a run takes down is the one of that link.
THEOREM AnswerDecidesCorrect == Spec => AnswerDecides
<1>1. IInv => (part = "publish" => Publish!AnswerIsReturned)
  BY PublishFacts DEF IInv
<1>2. ASSUME IInv, Next
      PROVE  part = "publish" => Publish!LinkIsKept /\ Publish!OnlyAnsweredIsDeleted
  <2>1. CASE part = "publish"
    <3>1. PublishIInv /\ Publish!Next
      BY <1>2, <2>1 DEF IInv, Next
    <3>2. QED
      BY <3>1, PublishNextKeepsLink, PublishNextSpares
  <2>2. QED
    BY <2>1
<1>3. QED
  BY <1>1, <1>2, AlwaysIInv, PTL DEF Spec, AnswerDecides

\* The counts and the end of a refresh, the progress of a job and the link of a post in
\* the row of a job are not taken back, over failures, lost connections and restarts.
THEOREM NothingGoesBackCorrect == Spec => NothingGoesBack
<1>1. ASSUME IInv, Next
      PROVE  part = "refresh" =>
               \A j \in Refresh!Keys :
                 /\ row'[j].processed >= row[j].processed
                 /\ row'[j].ok >= row[j].ok /\ row'[j].bad >= row[j].bad
                 /\ Refresh!IsOver(j) => row'[j] = row[j]
  <2>1. CASE part = "refresh"
    <3>1. RefreshIInv /\ Refresh!Next
      BY <1>1, <2>1 DEF IInv, Next
    <3>2. QED
      BY <3>1, ConstantsAreRight, RefreshNextGrows
  <2>2. QED
    BY <2>1
<1>2. ASSUME IInv, Next
      PROVE  part = "poll" => shown' >= shown
  <2>1. CASE part = "poll"
    <3>1. PollIInv /\ Poll!Next
      BY <1>2, <2>1 DEF IInv, Next
    <3>2. QED
      BY <3>1, ConstantsAreRight, PollNextGrows
  <2>2. QED
    BY <2>1
<1>3. ASSUME IInv, Next
      PROVE  part = "compat" /\ row.url = "post" => row'.url # None
  <2>1. CASE part = "compat"
    <3>1. CompatIInv /\ Compat!Next
      BY <1>3, <2>1 DEF IInv, Next
    <3>2. QED
      BY <3>1, ConstantsAreRight, CompatNextIInv DEF CompatKeeps
  <2>2. QED
    BY <2>1
<1>4. QED
  BY <1>1, <1>2, <1>3, AlwaysIInv, PTL DEF Spec, NothingGoesBack
=============================================================================
