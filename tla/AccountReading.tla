--------------------------- MODULE AccountReading ---------------------------
(***************************************************************************)
(* Reading one account at Sora: is it logged in, on which plan, with what  *)
(* quota (app/services/ixbrowser/scan.py and sora_api.py).                 *)
(*                                                                         *)
(* A silent reading asks Sora over the account's proxy with the token that *)
(* the last scans have left, and opens the account's window only if there  *)
(* is no token or Sora does not take it. A full scan opens the window at   *)
(* once. Readings of one account share its window without knowing of each  *)
(* other: a reading closes the window under another.                       *)
(***************************************************************************)
EXTENDS Naturals

CONSTANTS
  Readers,  \* readings that may be under way at once
  Tries     \* how often one request is sent

Constants == Tries \in Nat \ {0}

VARIABLES
  window,  \* is the window open
  jammed,  \* has a call to close it failed
  reader   \* [Readers -> the reading, or what came of the last one]

vars == <<window, jammed, reader>>

OverProxy == {"session", "me", "plan", "quota"}
InWindow  == {"open", "page", "plan page", "quota page", "close"}
\* The last answer to a request: taken, the token refused or a challenge, any other
\* status, no answer.
Answers == {"ok", "no", "odd", "lost"}

\* try: how often the present request was sent; not: the requests that were answered
\* with "no"; unheard: the first request for a session was not answered.
Idle == [pc |-> "idle", try |-> 0, not |-> {}, unheard |-> FALSE, session |-> FALSE,
         quota |-> FALSE, via |-> "none", success |-> FALSE]

Init ==
  /\ window = FALSE /\ jammed = FALSE
  /\ reader = [r \in Readers |-> Idle]

-----------------------------------------------------------------------------
Goes(r, pc) == reader' = [reader EXCEPT ![r].pc = pc, ![r].try = 1]

\* With a token of an earlier scan, or without one.
Silent(r) ==
  /\ reader[r].pc = "idle"
  /\ \E m \in {[Idle EXCEPT !.pc = "session", !.try = 1, !.via = "proxy"],
               [Idle EXCEPT !.pc = "open", !.try = 1, !.via = "window"]} :
       reader' = [reader EXCEPT ![r] = m]
  /\ UNCHANGED <<window, jammed>>

Scan(r) ==
  /\ reader[r].pc = "idle"
  /\ reader' = [reader EXCEPT ![r] = [Idle EXCEPT !.pc = "open", !.try = 1, !.via = "window"]]
  /\ UNCHANGED <<window, jammed>>

-----------------------------------------------------------------------------
(* Over the proxy *)

\* Mutant: tries are not counted.
RepeatUncounted(r) ==
  /\ reader[r].pc \in OverProxy
  /\ reader' = [reader EXCEPT ![r].try = IF @ < Tries THEN @ + 1 ELSE 1]
  /\ UNCHANGED <<window, jammed>>

\* 403, 408, 429, 5xx, a challenge and no answer are tried again.
Repeat(r) ==
  /\ reader[r].pc \in OverProxy /\ reader[r].try < Tries
  /\ reader' = [reader EXCEPT ![r].try = @ + 1]
  /\ UNCHANGED <<window, jammed>>

\* Mutant: what became of the quota does not count.
DistrustedUnquoted(not) == not \cap {"session", "plan"} # {}

\* A "no" sends the reading to the window.
Distrusted(not) == not # {}

\* A session that was not had is asked for at a second address. Its answer counts if
\* it is the session, or if the first address did not answer.
After(r, a) ==
  LET m  == reader[r]
      pc == m.pc
      no == IF a = "no" THEN {pc} ELSE {}
  IN  IF pc = "session"
      THEN [m EXCEPT !.pc = IF a = "ok" THEN "plan" ELSE "me",
                     !.session = (a = "ok"), !.not = no, !.unheard = (a = "lost")]
      ELSE IF pc = "me"
      THEN [m EXCEPT !.pc = "plan", !.session = (a = "ok"),
                     !.not = IF a = "ok" THEN {} ELSE IF m.unheard THEN no ELSE @]
      ELSE IF pc = "plan"
      THEN [m EXCEPT !.pc = "quota", !.not = @ \cup no]
      ELSE IF Distrusted(m.not \cup no)
      THEN [m EXCEPT !.pc = "open", !.not = @ \cup no]
      ELSE [m EXCEPT !.pc = "idle", !.not = @ \cup no, !.session = FALSE,
                     !.quota = (a = "ok"), !.success = m.session]

\* The answer to the last try of a request.
Hear(r, a) ==
  /\ reader[r].pc \in OverProxy /\ a \in Answers
  /\ a = "lost" => reader[r].try = Tries
  /\ reader' = [reader EXCEPT ![r] = [After(r, a) EXCEPT !.try = 1]]
  /\ UNCHANGED <<window, jammed>>

\* Anything unforeseen ends the reading.
Breaks(r) ==
  /\ reader[r].pc \in OverProxy
  /\ reader' = [reader EXCEPT ![r].pc = "idle", ![r].session = FALSE]
  /\ UNCHANGED <<window, jammed>>

-----------------------------------------------------------------------------
(* In the window *)

\* The window is opened, or an open one is shared (ProfileWindow). What was read over
\* the proxy is forgotten.
Open(r) ==
  /\ reader[r].pc = "open" /\ window' = TRUE
  /\ reader' = [reader EXCEPT ![r] =
                  [Idle EXCEPT !.pc = "page", !.try = 1, !.via = "window"]]
  /\ UNCHANGED jammed

\* Mutant: a window that could not be driven is not closed.
LostUnclosed(r) ==
  /\ reader[r].pc \in {"open", "page"}
  /\ window' \in {window, reader[r].pc = "open" \/ window}
  /\ reader' = [reader EXCEPT ![r].pc = "idle", ![r].session = FALSE]
  /\ UNCHANGED jammed

\* It does not open, or opens but cannot be driven, or is closed under the reading:
\* the window is closed all the same.
Lost(r) ==
  /\ reader[r].pc \in {"open", "page"}
  /\ window' \in {window, reader[r].pc = "open" \/ window}
  /\ reader' = [reader EXCEPT ![r].pc = "close", ![r].session = FALSE]
  /\ UNCHANGED jammed

\* A challenge, 403 and 429 are waited for.
Waits(r) ==
  /\ reader[r].pc = "page" /\ reader[r].try < Tries
  /\ reader' = [reader EXCEPT ![r].try = @ + 1]
  /\ UNCHANGED <<window, jammed>>

\* The session of the window, with a token if the account is logged in.
Session(r) ==
  /\ reader[r].pc = "page" /\ window
  /\ \E ok \in BOOLEAN : reader' = [reader EXCEPT ![r].session = ok, ![r].pc = "plan page"]
  /\ UNCHANGED <<window, jammed>>

\* The plan is a hint: without an answer the reading goes on.
Plan(r) ==
  /\ reader[r].pc = "plan page" /\ Goes(r, "quota page")
  /\ UNCHANGED <<window, jammed>>

\* The quota is asked for with the token of the session; not having it is no failure.
Quota(r) ==
  /\ reader[r].pc = "quota page"
  /\ \E q \in {FALSE, window} :
       reader' = [reader EXCEPT ![r].quota = q, ![r].pc = "close"]
  /\ UNCHANGED <<window, jammed>>

\* The window is closed however the reading went, or the call fails.
Close(r) ==
  /\ reader[r].pc = "close"
  /\ \/ window' = FALSE /\ jammed' = FALSE
     \/ UNCHANGED window /\ jammed' = TRUE
  /\ reader' = [reader EXCEPT ![r].pc = "idle", ![r].session = FALSE,
                               ![r].success = reader[r].session]

Step(r) ==
  \/ Repeat(r) \/ Breaks(r) \/ (\E a \in Answers : Hear(r, a))
  \/ Open(r) \/ Lost(r) \/ Waits(r) \/ Session(r) \/ Plan(r) \/ Quota(r) \/ Close(r)

Next == \E r \in Readers : Silent(r) \/ Scan(r) \/ Step(r)

Spec == Init /\ [][Next]_vars

\* Every request and every call to a window has a timeout.
FairSpec == Spec /\ \A r \in Readers : WF_vars(Step(r))

-----------------------------------------------------------------------------
(* Properties *)

TypeOK ==
  /\ window \in BOOLEAN /\ jammed \in BOOLEAN
  /\ reader \in [Readers ->
       [pc : {"idle"} \cup OverProxy \cup InWindow, try : 0 .. Tries,
        not : SUBSET OverProxy, unheard : BOOLEAN, session : BOOLEAN,
        quota : BOOLEAN, via : {"none", "proxy", "window"}, success : BOOLEAN]]

\* A reading over the proxy is a success only if nothing was refused or challenged:
\* such a token is looked at in the window.
SuccessIsTrusted ==
  \A r \in Readers :
    reader[r].pc = "idle" /\ (reader[r].success \/ reader[r].quota) /\ reader[r].via = "proxy"
      => reader[r].not = {}

\* No window is left open when nobody reads, unless it could not be closed.
NoWindowIsLeft == (\A r \in Readers : reader[r].pc = "idle") /\ window => jammed

\* Every reading ends.
ReadingEnds == \A r \in Readers : reader[r].pc # "idle" ~> reader[r].pc = "idle"
=============================================================================
