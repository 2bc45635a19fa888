---------------------------- MODULE ProxySwitch ----------------------------
(***************************************************************************)
(* The random switch of the proxies of chosen windows                      *)
(* (random_switch_profile_proxies, src/app/services/ixbrowser/proxies.py). *)
(* The windows are listed, each is given a proxy at random, another than   *)
(* its own and, as far as they go round, another than the windows before   *)
(* it; then the windows are closed and switched, a few at a time.          *)
(*                                                                         *)
(* A window's own proxy is recognised by the id of the local row.  The     *)
(* listing has that id only for a window that is set to a proxy of         *)
(* ixBrowser's list; a window that was switched before has a custom proxy, *)
(* which has no such id.                                                   *)
(***************************************************************************)
EXTENDS Integers, FiniteSets

CONSTANTS
  Windows,   \* chosen windows, numbered in the order of the request
  Proxies,   \* valid local proxies
  Slots,     \* max_concurrency
  None

VARIABLES
  proxy,    \* [Windows -> the proxy ixBrowser has for a window]
  custom,   \* [Windows -> BOOLEAN]: set as a custom proxy, not from the list
  tested,   \* local proxies whose last check succeeded
  old,      \* [Windows -> None or the proxy a window had when the request listed it]
  new,      \* [Windows -> None or the proxy picked for it]
  item      \* [Windows -> what has become of it in the request]

vars == <<proxy, custom, tested, old, new, item>>

Constants ==
  /\ Windows \subseteq Nat \ {0} /\ Slots \in Nat \ {0} /\ IsFiniteSet(Proxies)
  /\ None \notin Proxies /\ None \notin {"waiting", "closing", "switching"}

Results == {"switched", "failed", "no proxy"}

Init ==
  /\ proxy \in [Windows -> Proxies] /\ custom = [w \in Windows |-> FALSE]
  /\ tested \in SUBSET Proxies
  /\ old = [w \in Windows |-> None] /\ new = [w \in Windows |-> None]
  /\ item = [w \in Windows |-> None]

\* The signature of a window's proxy is one of a local row.
Recognised(w) == IF custom[w] THEN None ELSE proxy[w]

\* Tested proxies will do if they are as many as the windows.
Pool(S) == IF Cardinality(tested) >= Cardinality(S) THEN tested ELSE Proxies

\* The proxies w may be given: any but its own,
Candidates(w, S) == Pool(S) \ {Recognised(w)}

\* Mutant: proxies given to earlier windows are not left out.
ChoicesAny(w, S, pick) == Candidates(w, S)

\* and one that was not given to a window before it, if there is any.
Choices(w, S, pick) ==
  LET fresh == Candidates(w, S) \ {pick[v] : v \in {v \in S : v < w}}
  IN  IF fresh # {} THEN fresh ELSE Candidates(w, S)

\* Every way to pick, in the order of the request.
Picks(S) == {pick \in [Windows -> Proxies \cup {None}] : \A w \in Windows :
  IF w \in S /\ Candidates(w, S) # {} THEN pick[w] \in Choices(w, S, pick) ELSE pick[w] = None}

\* The request for windows S, whose windows and proxies are read and picked
\* without a pause.
Request(S) ==
  /\ S # {} /\ \A w \in Windows : item[w] \in Results \cup {None}
  /\ old' = [w \in Windows |-> IF w \in S THEN proxy[w] ELSE None]
  /\ new' \in Picks(S)
  /\ item' = [w \in Windows |-> IF w \notin S THEN None
                                ELSE IF new'[w] = None THEN "no proxy" ELSE "waiting"]
  /\ UNCHANGED <<proxy, custom, tested>>

\* Mutant: the slot of a failed window is not given back.
GoingForEver == {w \in Windows : item[w] \in {"closing", "switching", "failed"}}

Going == {w \in Windows : item[w] \in {"closing", "switching"}}

\* A slot is free: the window is closed (ProfileWindow), which may fail.
Close(w) ==
  /\ item[w] = "waiting" /\ Cardinality(Going) < Slots
  /\ item' = [item EXCEPT ![w] = "closing"]
  /\ UNCHANGED <<proxy, custom, tested, old, new>>

NotClosed(w) ==
  /\ item[w] = "closing" /\ item' = [item EXCEPT ![w] = "failed"]
  /\ UNCHANGED <<proxy, custom, tested, old, new>>

\* ixBrowser sets the proxy, and its answer arrives or is lost.
Switch(w) ==
  /\ item[w] = "closing"
  /\ proxy' = [proxy EXCEPT ![w] = new[w]] /\ custom' = [custom EXCEPT ![w] = TRUE]
  /\ item' = [item EXCEPT ![w] = "switching"]
  /\ UNCHANGED <<tested, old, new>>
Answered(w) ==
  /\ item[w] = "switching" /\ item' = [item EXCEPT ![w] = "switched"]
  /\ UNCHANGED <<proxy, custom, tested, old, new>>

NotSwitched(w) ==
  /\ item[w] \in {"closing", "switching"} /\ item' = [item EXCEPT ![w] = "failed"]
  /\ UNCHANGED <<proxy, custom, tested, old, new>>

\* External: the operator sets a window to a proxy of ixBrowser's list.
SetByHand(w, p) ==
  /\ item[w] \in Results \cup {None}
  /\ proxy' = [proxy EXCEPT ![w] = p] /\ custom' = [custom EXCEPT ![w] = FALSE]
  /\ item' = [item EXCEPT ![w] = None]
  /\ UNCHANGED <<tested, old, new>>

Step(w) == Close(w) \/ NotClosed(w) \/ Switch(w) \/ Answered(w) \/ NotSwitched(w)
Next ==
  \/ \E S \in SUBSET Windows : Request(S)
  \/ \E w \in Windows : Step(w) \/ \E p \in Proxies : SetByHand(w, p)

Spec == Init /\ [][Next]_vars

\* Calls to ixBrowser time out.
FairSpec == Spec /\ \A w \in Windows : WF_vars(Step(w))

-----------------------------------------------------------------------------
(* Properties *)

TypeOK ==
  /\ proxy \in [Windows -> Proxies] /\ custom \in [Windows -> BOOLEAN] /\ tested \subseteq Proxies
  /\ old \in [Windows -> Proxies \cup {None}] /\ new \in [Windows -> Proxies \cup {None}]
  /\ item \in [Windows -> Results \cup {None, "waiting", "closing", "switching"}]
  /\ Cardinality(Going) <= Slots

\* Two windows of a request are given the same proxy only when, but for the
\* later one's own, all proxies of the pool had been given out.
SharedOnlyIfScarce == \A v, w \in Windows :
  v < w /\ new[v] = new[w] /\ new[w] # None =>
    Cardinality({new[u] : u \in {u \in Windows : u < w}} \ {None})
      >= Cardinality(Pool({u \in Windows : old[u] # None})) - 1

\* A window that was switched has another proxy than before.
SwitchedIsChanged == \A w \in Windows : item[w] = "switched" => proxy[w] # old[w]

\* A failure of one window does not keep the others from being switched or
\* reported.
EveryWindowIsReported == \A w \in Windows :
  item[w] \in {"waiting", "closing", "switching"} ~> item[w] \in Results \cup {None}
=============================================================================
