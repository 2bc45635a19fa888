------------------------------ MODULE CfEvents ------------------------------
(***************************************************************************)
(* The log of Cloudflare challenges met behind each proxy                  *)
(* (_record_proxy_cf_event, create_proxy_cf_event) and what the list of    *)
(* proxies shows of it (ProxyService.list_proxies): of each proxy its last *)
(* requests, how many of them were challenged, and a strip of their        *)
(* outcomes with the oldest left.  All proxies share one table, and each   *)
(* insert removes what is too old of its own proxy.                        *)
(***************************************************************************)
EXTENDS Integers, FiniteSets

CONSTANTS
  Profiles,   \* windows
  Proxies,    \* ids of local proxies
  Keep,       \* keep_per_proxy
  MaxEvents,  \* bound on recorded events
  None        \* no proxy is known

VARIABLES
  binding,    \* [Profiles -> the proxy the cached listing has for a window]
  table,      \* proxy_cf_events
  past        \* all that was ever recorded

vars == <<binding, table, past>>

Constants == Keep \in Nat \ {0} /\ MaxEvents \in Nat

Owners == Proxies \cup {None}
Event  == [id : 1 .. MaxEvents, proxy : Owners, cf : BOOLEAN]

Init == binding \in [Profiles -> Owners] /\ table = {} /\ past = {}

Of(rows, p) == {e \in rows : e.proxy = p}

\* The place of e among the rows of its proxy, the newest is the first.
Place(own, e) == Cardinality({f \in own : f.id >= e.id})

\* The newest n rows of p.
Recent(rows, p, n) == {e \in Of(rows, p) : Place(Of(rows, p), e) <= n}

\* Mutant: the last rows of all proxies are kept.
TrimmedAcross(rows, p) == {e \in rows : e.proxy # p \/ Place(rows, e) <= Keep}

\* The rows of p that are not among its last Keep ones are deleted, others stay.
Trimmed(rows, p) == {e \in rows : e.proxy # p} \cup Recent(rows, p, Keep)

\* A request of window w ended, challenged or not.  Without a known proxy it is
\* recorded under none, or, if the request may have gone past it, not at all.
Record(w, cf, chained) ==
  /\ Cardinality(past) < MaxEvents
  /\ binding[w] # None \/ chained
  /\ LET e == [id |-> Cardinality(past) + 1, proxy |-> binding[w], cf |-> cf] IN
     /\ past' = past \cup {e}
     /\ table' = Trimmed(table \cup {e}, binding[w])
  /\ UNCHANGED binding

\* The windows are listed again.
Rebind(w, p) ==
  /\ binding' = [binding EXCEPT ![w] = p] /\ UNCHANGED <<table, past>>

Next == \E w \in Profiles :
  \/ \E cf, chained \in BOOLEAN : Record(w, cf, chained)
  \/ \E p \in Owners : Rebind(w, p)

Spec == Init /\ [][Next]_vars

-----------------------------------------------------------------------------
(* What is shown of a proxy, for a window of n events *)

At(rows, p, k) == CHOOSE e \in Of(rows, p) : Place(Of(rows, p), e) = k
Cell(cf)       == IF cf THEN "C" ELSE "P"

\* How many of the last n there are, and how many of them were challenged.
Total(p, n)      == Cardinality(Recent(table, p, n))
Challenged(p, n) == Cardinality({e \in Recent(table, p, n) : e.cf})

\* The strip: the newest to the right, "-" to the left where there are too few.
Heat(p, n) ==
  [i \in 1 .. n |-> IF n + 1 - i > Total(p, n) THEN "-" ELSE Cell(At(table, p, n + 1 - i).cf)]

-----------------------------------------------------------------------------
(* Properties *)

TypeOK ==
  /\ binding \in [Profiles -> Owners]
  /\ past \subseteq Event /\ table \subseteq past
  /\ \A e, f \in past : e.id = f.id => e = f
  /\ \A p \in Owners : Cardinality(Of(table, p)) <= Keep

\* What is deleted is never missed: the strip and the count shown of a proxy
\* are those of all it ever met, also when another proxy, or requests without
\* a known proxy, fill the table.
ShownIsTrue == \A p \in Owners, n \in 1 .. Keep :
  /\ \A k \in 1 .. n :
       Heat(p, n)[n + 1 - k] = IF k > Cardinality(Of(past, p)) THEN "-"
                               ELSE Cell(At(past, p, k).cf)
  /\ Challenged(p, n) = Cardinality({i \in 1 .. n : Heat(p, n)[i] = "C"})
=============================================================================
