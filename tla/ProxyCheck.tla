----------------------------- MODULE ProxyCheck -----------------------------
(***************************************************************************)
(* Checking proxies (batch_check of app/services/proxy_service.py).        *)
(*                                                                         *)
(* A check asks one service through the proxy for its address and another  *)
(* for the reputation of that address, and writes a health score into the  *)
(* proxy's row. Rows are read once, when a request begins; requests run    *)
(* side by side, and rows are edited while they run.                       *)
(***************************************************************************)
EXTENDS Integers, FiniteSets

CONSTANTS
  Proxies,   \* rows
  Requests,  \* requests that may be under way at once
  Slots,     \* checks of one request that may be under way at once
  Reuse,     \* CHECK_REUSE_DAYS
  MaxTime,   \* bound on the clock
  Flags,     \* findings of the first service, and what each takes off the score
  Penalty,
  Risks,     \* risks that the second service may report, 0 to 100
  None       \* no score, no check

Addresses == {"good", "bad", "ssh"}
Verdicts  == {"none", "success", "failed"}
Over      == {"given", "success", "failed", "limited"}

\* A row, and the check of one proxy in a request.
Row   == [addr : Addresses, status : Verdicts, at : 0 .. MaxTime \cup {None},
          score : 0 .. 100 \cup {None}]
Check == [pc : Over \cup {"waits", "address", "reputation"}, addr : Addresses,
          at : 0 .. MaxTime, age : Nat]

Constants == /\ Slots \in Nat \ {0} /\ Reuse \in Nat /\ MaxTime \in Nat
             /\ None \notin Int \cup Check
             /\ IsFiniteSet(Flags) /\ Penalty \in [Flags -> Nat] /\ Risks \subseteq 0 .. 100

VARIABLES
  clock,
  row,      \* [Proxies -> address, result, time and score of the last check]
  check,    \* [Requests -> [Proxies -> None or the check]]
  edited    \* proxies whose address was changed since, or while, it was checked last

vars == <<clock, row, check, edited>>

Init ==
  /\ clock = 0 /\ edited = {}
  /\ row \in [Proxies -> {[addr |-> a, status |-> "none", at |-> None, score |-> None]
                            : a \in Addresses}]
  /\ check = [q \in Requests |-> [p \in Proxies |-> None]]

-----------------------------------------------------------------------------
(* The score *)

Lower(a, b)  == IF a < b THEN a ELSE b
Higher(a, b) == IF a > b THEN a ELSE b

SumOf[S \in SUBSET Flags] ==
  IF S = {} THEN 0 ELSE LET f == CHOOSE f \in S : TRUE IN Penalty[f] + SumOf[S \ {f}]

\* round(risk * 0.4): no risk lies halfway between two scores.
RiskPenalty(risk) == Lower(40, (4 * risk + 5) \div 10)

Score(flags, risk) == Higher(0, Lower(100, 100 - SumOf[flags] - RiskPenalty(risk)))

-----------------------------------------------------------------------------
Free(q) == \A p \in Proxies : check[q][p] = None

\* Mutant: an old success is as good as a new one.
ReusableEver(p) == row[p].status = "success"

\* _is_recent_success_check
Reusable(p) == row[p].status = "success" /\ row[p].at >= clock - Reuse

Result(r, status, at, score) == [r EXCEPT !.status = status, !.at = at, !.score = score]

\* A request for the proxies S. What needs no call is done at once: a proxy of a kind
\* that cannot be checked has failed, a recent success is given again, unless the
\* request forces a check.
Request(q, S, force) ==
  /\ Free(q) /\ S # {}
  /\ LET given == IF force THEN {} ELSE {p \in S : row[p].addr # "ssh" /\ Reusable(p)}
     IN  /\ row' = [p \in Proxies |-> IF p \in S /\ row[p].addr = "ssh"
                                     THEN Result(row[p], "failed", clock, None) ELSE row[p]]
         /\ check' = [check EXCEPT ![q] = [p \in Proxies |->
              IF p \notin S THEN None
              ELSE [pc |-> IF row[p].addr = "ssh" THEN "failed"
                           ELSE IF p \in given THEN "given" ELSE "waits",
                    addr |-> row[p].addr, at |-> clock,
                    age |-> IF p \in given THEN clock - row[p].at ELSE 0]]]
         /\ edited' = edited \ {p \in S : row[p].addr = "ssh"}
  /\ UNCHANGED clock

Goes(q, p, pc) == check' = [check EXCEPT ![q][p].pc = pc]
At(q, p, pc)   == check[q][p] # None /\ check[q][p].pc = pc

Going(q) == {p \in Proxies : At(q, p, "address") \/ At(q, p, "reputation")}

Enter(q, p) ==
  /\ At(q, p, "waits") /\ Cardinality(Going(q)) < Slots
  /\ Goes(q, p, "address")
  /\ UNCHANGED <<clock, row, edited>>

\* The first service answers through the proxy with its address.
Reached(q, p) ==
  /\ At(q, p, "address") /\ check[q][p].addr = "good"
  /\ Goes(q, p, "reputation")
  /\ UNCHANGED <<clock, row, edited>>

\* The check has its verdict on the address it began with.
Verdict(q, p) ==
  edited' = IF check[q][p].addr = row[p].addr THEN edited \ {p} ELSE edited \cup {p}

\* Mutant: a failure does not overwrite a success.
WriteBest(q, p, status, score) ==
  /\ row' = [row EXCEPT ![p] = IF status = "failed" /\ @.status = "success" THEN @
                               ELSE Result(@, status, check[q][p].at, score)]
  /\ Verdict(q, p)

\* update_proxy_check_result writes whatever has become of the row. The time is that
\* of the request.
Write(q, p, status, score) ==
  /\ row' = [row EXCEPT ![p] = Result(@, status, check[q][p].at, score)]
  /\ Verdict(q, p)

\* The second service answers.
Scored(q, p) ==
  /\ At(q, p, "reputation")
  /\ \E flags \in SUBSET Flags, risk \in Risks : Write(q, p, "success", Score(flags, risk))
  /\ Goes(q, p, "success") /\ UNCHANGED clock

\* Either service is not reached or its answer makes no sense.
Fails(q, p) ==
  /\ At(q, p, "address") \/ At(q, p, "reputation")
  /\ Write(q, p, "failed", None)
  /\ Goes(q, p, "failed") /\ UNCHANGED clock

\* Mutant: a check that could not be made counts as failed.
LimitedFails(q, p) ==
  /\ At(q, p, "address") \/ At(q, p, "reputation")
  /\ Write(q, p, "failed", None)
  /\ Goes(q, p, "limited") /\ UNCHANGED clock

\* Either service takes no more requests: what is known of the proxy is kept.
Limited(q, p) ==
  /\ At(q, p, "address") \/ At(q, p, "reputation")
  /\ Goes(q, p, "limited")
  /\ UNCHANGED <<clock, row, edited>>

\* All have been answered: the response is given.
Respond(q) ==
  /\ ~Free(q) /\ \A p \in Proxies : check[q][p] # None => check[q][p].pc \in Over
  /\ check' = [check EXCEPT ![q] = [p \in Proxies |-> None]]
  /\ UNCHANGED <<clock, row, edited>>

-----------------------------------------------------------------------------
\* External: a row gets another address (batch_update, ProxyPool); what is known of
\* the old address stays in it.
Edit(p, a) ==
  /\ row[p].addr # a
  /\ row' = [row EXCEPT ![p].addr = a]
  /\ edited' = edited \cup {p}
  /\ UNCHANGED <<clock, check>>

Tick == clock < MaxTime /\ clock' = clock + 1 /\ UNCHANGED <<row, check, edited>>

Step(q) ==
  \/ Respond(q)
  \/ \E p \in Proxies :
       Enter(q, p) \/ Reached(q, p) \/ Scored(q, p) \/ Fails(q, p) \/ Limited(q, p)

Next ==
  \/ Tick
  \/ \E p \in Proxies, a \in Addresses : Edit(p, a)
  \/ \E q \in Requests :
       Step(q) \/ \E S \in SUBSET Proxies, force \in BOOLEAN : Request(q, S, force)

Spec == Init /\ [][Next]_vars

-----------------------------------------------------------------------------
(* Properties *)

TypeOK ==
  /\ clock \in 0 .. MaxTime /\ edited \subseteq Proxies
  /\ row \in [Proxies -> Row]
  /\ check \in [Requests -> [Proxies -> Check \cup {None}]]

\* A proxy that is shown as working has worked at its present address, unless the
\* address was edited since, or while it was checked.
SuccessIsOfTheAddress ==
  \A p \in Proxies : row[p].status = "success" => row[p].addr = "good" \/ p \in edited

\* A result that is given again is not old.
GivenIsRecent == \A q \in Requests, p \in Proxies : At(q, p, "given") => check[q][p].age <= Reuse

\* A service that takes no more requests costs no result: a proxy loses its success
\* only when a check of it has failed.
SuccessIsKept ==
  [][\A p \in Proxies : row[p].status = "success" /\ row'[p].status # "success" =>
       \E q \in Requests : check[q][p] # check'[q][p] /\ check'[q][p].pc = "failed"]_vars
=============================================================================
