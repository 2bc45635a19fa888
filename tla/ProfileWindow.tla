--------------------------- MODULE ProfileWindow ---------------------------
(***************************************************************************)
(* One browser window of ixBrowser and the coroutines that open and close  *)
(* it (ProfilesMixin, src/app/services/ixbrowser/profiles.py).             *)
(*                                                                         *)
(* ixBrowser refuses to open a window it believes to be open (111003), and *)
(* its belief may be wrong: a window may be flagged as open while no       *)
(* process answers for it, and closing it need not remove the flag.  An    *)
(* opening therefore attaches to a window that has an address, else waits  *)
(* for an address, closes the window, opens it again, has the flag reset   *)
(* and opens it once more, and all of it again in its next attempt.        *)
(* Nothing tells two coroutines of each other: either may close the window *)
(* the other is opening or using.                                          *)
(***************************************************************************)
EXTENDS Integers

CONSTANTS
  Users,      \* coroutines that use the window
  Attempts    \* max_attempts of an opening

VARIABLES
  window,   \* what ixBrowser holds of the window
  pc,       \* [Users -> where a user is in its opening]
  stage,    \* [Users -> which of the three opens of an attempt comes next]
  attempt,  \* [Users -> attempts begun]
  reset,    \* [Users -> BOOLEAN], open_state_reset_attempted
  spoilt    \* [Users -> BOOLEAN]: during this opening a call failed or another user acted

vars == <<window, pc, stage, attempt, reset, spoilt>>

Constants == Attempts \in Nat \ {0}

\* "mute": open, without an address.  "stale": flagged as open, without a process.
WindowStates == {"closed", "starting", "open", "mute", "stale"}
Opening == {"look", "call", "starting", "refused", "wait", "shut", "gone", "reset", "pause"}
Stages  == {"open", "reopen", "again"}

\* A window ixBrowser will not open: 111003.
Refused == window # "closed"

Init ==
  /\ window \in WindowStates \ {"starting"}
  /\ pc = [u \in Users |-> "idle"] /\ stage = [u \in Users |-> "open"]
  /\ attempt = [u \in Users |-> 0] /\ reset = [u \in Users |-> FALSE]
  /\ spoilt = [u \in Users |-> FALSE]

-----------------------------------------------------------------------------
Goto(u, s) == pc' = [pc EXCEPT ![u] = s]

\* u changed the window under the openings of the others.
Spoil(u) == spoilt' = [v \in Users |-> spoilt[v] \/ (v # u /\ pc[v] \in Opening)]
\* A call of u went wrong.
Faulty(u) == spoilt' = [spoilt EXCEPT ![u] = TRUE]

Kept == UNCHANGED <<stage, attempt, reset>>

Begin(u) ==
  /\ pc[u] = "idle" /\ Goto(u, "look")
  /\ attempt' = [attempt EXCEPT ![u] = 1] /\ reset' = [reset EXCEPT ![u] = FALSE]
  /\ stage' = [stage EXCEPT ![u] = "open"]
  /\ spoilt' = [spoilt EXCEPT ![u] = \E v \in Users \ {u} : pc[v] # "idle"]
  /\ UNCHANGED window

\* _get_opened_profile finds an address.  It is asked first in every attempt,
\* after every refusal, and while a refused opening waits.
Attach(u) ==
  /\ pc[u] \in {"look", "refused", "wait"} /\ window = "open"
  /\ Goto(u, "use")
  /\ Kept /\ UNCHANGED <<window, spoilt>>

\* Where an opening goes that finds no address: to the open call; to the 2.8
\* seconds of waiting; to the reset, once per opening; out.
NextAttempt(u) == IF attempt[u] < Attempts THEN "pause" ELSE "idle"
\* Mutant: the state is never reset.
AfterRefusalUnreset(u) ==
  IF stage[u] = "open" THEN "wait"
  ELSE IF stage[u] = "reopen" THEN NextAttempt(u) ELSE "idle"

AfterRefusal(u) ==
  IF stage[u] = "open" THEN "wait"
  ELSE IF stage[u] = "again" THEN "idle"
  ELSE IF reset[u] THEN NextAttempt(u) ELSE "reset"

WithoutAddress(u) ==
  IF pc[u] = "look" THEN "call"
  ELSE IF pc[u] = "wait" THEN "shut" ELSE AfterRefusal(u)

\* No address is found.  A list that could not be read counts as an empty one.
Miss(u) ==
  /\ pc[u] \in {"look", "refused", "wait"}
  /\ Goto(u, WithoutAddress(u))
  /\ reset' = [reset EXCEPT ![u] = @ \/ WithoutAddress(u) = "reset"]
  /\ IF window = "open" THEN Faulty(u) ELSE UNCHANGED spoilt
  /\ UNCHANGED <<window, stage, attempt>>

OpenRefused(u) ==
  /\ pc[u] = "call" /\ Refused
  /\ Goto(u, "refused")
  /\ Kept /\ UNCHANGED <<window, spoilt>>

OpenStarts(u) ==
  /\ pc[u] = "call" /\ ~Refused
  /\ window' = "starting" /\ Goto(u, "starting") /\ Spoil(u) /\ Kept

\* The open call returns.  A window without an address will do for the first
\* open of an attempt only.
Opened(u) ==
  /\ pc[u] = "starting" /\ window = "starting"
  /\ \/ window' = "open" /\ Goto(u, "use") /\ Spoil(u)
     \/ /\ window' = "mute"
        /\ Goto(u, IF stage[u] = "open" THEN "use" ELSE NextAttempt(u))
        /\ spoilt' = [v \in Users |-> spoilt[v] \/ pc[v] \in Opening]
  /\ Kept

\* The open call fails otherwise than by 111003, whatever became of the window,
\* or the window was closed while it started.
OpenFails(u) ==
  /\ pc[u] \in {"call", "starting"}
  /\ IF pc[u] = "starting" /\ window = "starting"
       THEN window' \in WindowStates \ {"starting"} ELSE UNCHANGED window
  /\ Goto(u, NextAttempt(u))
  /\ spoilt' = [v \in Users |-> spoilt[v] \/ pc[v] \in Opening] /\ Kept

\* _ensure_profile_closed: the window is closed, which leaves a stale flag, or
\* the call fails, which is ignored.
Shut(u) ==
  /\ pc[u] = "shut" /\ Goto(u, "gone")
  /\ \/ window' = (IF window = "stale" THEN "stale" ELSE "closed") /\ Spoil(u)
     \/ UNCHANGED window /\ Faulty(u)
  /\ stage' = [stage EXCEPT ![u] = "reopen"]
  /\ UNCHANGED <<attempt, reset>>

\* The window is no longer listed, the list cannot be read, or 8 s are over.
Gone(u) ==
  /\ pc[u] = "gone" /\ Goto(u, "call")
  /\ Kept /\ UNCHANGED <<window, spoilt>>

\* _reset_profile_open_state; when it fails the attempt is over.
Reset(u) ==
  /\ pc[u] = "reset"
  /\ \/ /\ window' = (IF window \in {"stale", "mute"} THEN "closed" ELSE window)
        /\ Goto(u, "call") /\ Spoil(u) /\ stage' = [stage EXCEPT ![u] = "again"]
     \/ /\ Goto(u, NextAttempt(u)) /\ Faulty(u)
        /\ UNCHANGED <<window, stage>>
  /\ UNCHANGED <<attempt, reset>>

\* Mutant: attempts are not counted.
AgainUncounted(u) ==
  /\ pc[u] = "pause" /\ Goto(u, "look")
  /\ stage' = [stage EXCEPT ![u] = "open"]
  /\ UNCHANGED <<window, attempt, reset, spoilt>>

Again(u) ==
  /\ pc[u] = "pause" /\ Goto(u, "look")
  /\ attempt' = [attempt EXCEPT ![u] = @ + 1] /\ stage' = [stage EXCEPT ![u] = "open"]
  /\ UNCHANGED <<window, reset, spoilt>>

\* The user is done: it closes the window (1009, no such process, counts as
\* closed), or leaves it open, or cannot close it.
Leave(u) ==
  /\ pc[u] = "use" /\ Goto(u, "idle")
  /\ \/ window' = (IF window = "stale" THEN "stale" ELSE "closed") /\ Spoil(u)
     \/ UNCHANGED <<window, spoilt>>
  /\ Kept

Step(u) ==
  \/ Attach(u) \/ Miss(u) \/ OpenRefused(u) \/ OpenStarts(u) \/ Opened(u) \/ OpenFails(u)
  \/ Shut(u) \/ Gone(u) \/ Reset(u) \/ Again(u)

Next == \E u \in Users : Begin(u) \/ Step(u) \/ Leave(u)

Spec == Init /\ [][Next]_vars

\* Calls to ixBrowser time out and pauses end; users need not open the window.
FairSpec == Spec /\ \A u \in Users : WF_vars(Step(u))

-----------------------------------------------------------------------------
(* Properties *)

TypeOK ==
  /\ window \in WindowStates
  /\ pc \in [Users -> Opening \cup {"idle", "use"}]
  /\ stage \in [Users -> Stages]
  /\ attempt \in [Users -> 0..Attempts]
  /\ reset \in [Users -> BOOLEAN]
  /\ spoilt \in [Users -> BOOLEAN]
  /\ window = "starting" => \E u \in Users : pc[u] = "starting"

\* Whatever state a window was left in, stale flag included, an opening
\* that no failing call and no other user disturbs gets the window, and in its
\* first attempt (_open_profile_with_retry).
UndisturbedSucceeds == [][\A u \in Users :
  pc[u] \in Opening /\ pc'[u] \in {"idle", "pause"} => spoilt'[u]]_vars

\* Two openings that close each other's windows give up or succeed: none goes
\* on for ever.
OpeningEnds == \A u \in Users : pc[u] \in Opening ~> pc[u] \in {"idle", "use"}
=============================================================================
