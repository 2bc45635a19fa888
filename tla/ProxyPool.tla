----------------------------- MODULE ProxyPool -----------------------------
(***************************************************************************)
(* The local table of proxies and ixBrowser's own list of proxies, kept in *)
(* step by hand: proxies are imported from text, edited, pulled from and   *)
(* pushed to ixBrowser (ProxyService, src/app/services/proxy_service.py;   *)
(* SQLiteProxyRepo, src/app/db/sqlite/proxy_repo.py).                      *)
(*                                                                         *)
(* A proxy is known on both sides by its key (type, address, port, user);  *)
(* a row is bound to a record of ixBrowser by its ix_id.  A push reads the *)
(* rows, then the records, and then works through the rows with one call   *)
(* to ixBrowser each: others act in between, answers get lost, the server  *)
(* is restarted, and the operator pushes again.                            *)
(***************************************************************************)
EXTENDS Integers, FiniteSets, FiniteSetsExt

CONSTANTS
  Keys,       \* keys of proxies
  Passwords,  \* what else a row holds
  RowIds,     \* bound: ids of rows, 1..n
  IxIds,      \* bound: ids of records, 1..n
  Pushers,    \* requests that push at the same time
  None

VARIABLES
  row,      \* [RowIds -> None or key, password, ix_id (0: not bound)]
  rec,      \* [IxIds -> None or key, password, whether bought from ixBrowser]
  lastIx,   \* the last id ixBrowser has given; ids are not given twice
  push,     \* [Pushers -> None or the push under way]
  pull,     \* None, or the records a pull has read
  edited    \* whether a batch update has changed the key of a row

vars == <<row, rec, lastIx, push, pull, edited>>

Rows  == [key : Keys, password : Passwords, ix : IxIds \cup {0}]
Recs  == [key : Keys, password : Passwords, bought : BOOLEAN]
Calls == {"list", "next", "create", "created", "update", "updated"}
Push  == [todo : SUBSET RowIds, rows : [RowIds -> Rows \cup {None}],
          recs : [IxIds -> Recs \cup {None}] \cup {None},
          call : Calls, at : RowIds \cup {0}, ix : IxIds \cup {0}]

Constants == /\ None \notin Rows \cup Recs
             /\ IsFiniteSet(RowIds) /\ RowIds = 1 .. Cardinality(RowIds)
             /\ IsFiniteSet(IxIds) /\ IxIds = 1 .. Cardinality(IxIds) /\ IxIds # {}
             /\ IsFiniteSet(Pushers) /\ Pushers # {}

Used(f) == {i \in DOMAIN f : f[i] # None}
ByKey(f, k) == {i \in Used(f) : f[i].key = k}
Bound(rows, x) == {r \in Used(rows) : rows[r].ix = x}
NewIds(f) == DOMAIN f \ Used(f)

Row(k, p, x) == [key |-> k, password |-> p, ix |-> x]
Rec(k, p, b) == [key |-> k, password |-> p, bought |-> b]

Init ==
  /\ row = [r \in RowIds |-> None]
  /\ \E b \in BOOLEAN, k \in Keys, p \in Passwords, n \in {0, 1} :
       rec = [i \in IxIds |-> IF i = n THEN Rec(k, p, b) ELSE None] /\ lastIx = n
  /\ push = [u \in Pushers |-> None] /\ pull = None /\ edited = FALSE

-----------------------------------------------------------------------------
(* The local table *)

\* One line of an import: the first row of its key gets the password, or a new
\* row is inserted.  The import is one transaction.
Import(k, p) ==
  /\ LET known == ByKey(row, k) IN
     IF known # {} THEN row' = [row EXCEPT ![Min(known)].password = p]
     ELSE NewIds(row) # {} /\ row' = [row EXCEPT ![Min(NewIds(row))] = Row(k, p, 0)]
  /\ UNCHANGED <<rec, lastIx, push, pull, edited>>

\* A push begins with the rows as they are.
Read(rows, S) == [todo |-> S, rows |-> [r \in RowIds |-> IF r \in S THEN rows[r] ELSE None],
                  recs |-> None, call |-> "list", at |-> 0, ix |-> 0]

\* Fields of rows are changed; the type or the user change the key.
Changed(S, k, p) ==
  [r \in RowIds |-> IF r \in S THEN [row[r] EXCEPT !.password = p, !.key = IF k = None THEN @ ELSE k]
                    ELSE row[r]]
BatchUpdate(S, k, p) ==
  /\ S \subseteq Used(row) /\ S # {}
  /\ row' = Changed(S, k, p)
  /\ edited' = (edited \/ \E r \in S : row'[r].key # row[r].key)
  /\ UNCHANGED <<rec, lastIx, push, pull>>

\* The same with sync_to_ixbrowser: the rows are read for the push at once.
BatchUpdateAndPush(u, S, k, p) ==
  /\ S \subseteq Used(row) /\ S # {} /\ push[u] = None
  /\ row' = Changed(S, k, p)
  /\ edited' = (edited \/ \E r \in S : row'[r].key # row[r].key)
  /\ push' = [push EXCEPT ![u] = Read(row', S)]
  /\ UNCHANGED <<rec, lastIx, pull>>

-----------------------------------------------------------------------------
(* Pull: ixBrowser's records are read, then written in one transaction *)

PullReads ==
  /\ pull = None /\ pull' = rec
  /\ UNCHANGED <<row, rec, lastIx, push, edited>>

\* Mutant: a record is looked up by its id alone.
RowOfById(rows, x, r) == IF Bound(rows, x) # {} THEN Min(Bound(rows, x)) ELSE Min(NewIds(rows))

\* The row a record belongs to: the row bound to it, else one of its key, else
\* a new one.
RowOf(rows, x, r) ==
  CASE Bound(rows, x) # {}    -> Min(Bound(rows, x))
    [] Bound(rows, x) = {} /\ ByKey(rows, r.key) # {} -> Min(ByKey(rows, r.key))
    [] OTHER -> Min(NewIds(rows))

\* The table after the records up to id i.
Pulled[i \in IxIds \cup {0}] ==
  IF i = 0 THEN row
  ELSE IF pull[i] # None
    THEN [Pulled[i - 1] EXCEPT ![RowOf(Pulled[i - 1], i, pull[i])] = Row(pull[i].key, pull[i].password, i)]
    ELSE Pulled[i - 1]

PullWrites ==
  /\ pull # None
  /\ Cardinality(Used(pull)) <= Cardinality(NewIds(row))   \* bound
  /\ row' = Pulled[Max(IxIds)]
  /\ pull' = None
  /\ UNCHANGED <<rec, lastIx, push, edited>>

PullFails == pull # None /\ pull' = None /\ UNCHANGED <<row, rec, lastIx, push, edited>>

-----------------------------------------------------------------------------
(* Push *)

\* All rows, or those that were chosen.
PushBegins(u, S) ==
  /\ push[u] = None /\ S \subseteq Used(row) /\ S # {}
  /\ push' = [push EXCEPT ![u] = Read(row, S)]
  /\ UNCHANGED <<row, rec, lastIx, pull, edited>>

\* ixBrowser's records are read after the rows.
PushLists(u) ==
  /\ push[u] # None /\ push[u].call = "list"
  /\ push' = [push EXCEPT ![u].recs = rec, ![u].call = "next"]
  /\ UNCHANGED <<row, rec, lastIx, pull, edited>>

\* Mutant: no look at the key.
RecordsOfById(p, r) == Used(p.recs) \cap {p.rows[r].ix}

\* The record of a row as they were read: by ix_id, else by key.
RecordsOf(p, r) ==
  IF p.rows[r].ix \in Used(p.recs) THEN {p.rows[r].ix} ELSE ByKey(p.recs, p.rows[r].key)

\* A row without a record: one is to be created.
Missing(u, r) ==
  /\ push[u] # None /\ push[u].call = "next" /\ r \in push[u].todo
  /\ RecordsOf(push[u], r) = {}
  /\ push' = [push EXCEPT ![u].todo = @ \ {r}, ![u].at = r, ![u].call = "create"]
  /\ UNCHANGED <<row, rec, lastIx, pull, edited>>

\* A row is bound to its record, which fails when another row is.  A record
\* that was bought is left as it is, others are to be updated.
Matched(u, r) ==
  /\ push[u] # None /\ push[u].call = "next" /\ r \in push[u].todo
  /\ RecordsOf(push[u], r) # {}
  /\ LET x == Max(RecordsOf(push[u], r)) IN
     IF Bound(row, x) \subseteq {r}
       THEN /\ row' = [row EXCEPT ![r].ix = x]
            /\ push' = IF push[u].recs[x].bought THEN [push EXCEPT ![u].todo = @ \ {r}]
                       ELSE [push EXCEPT ![u].todo = @ \ {r}, ![u].at = r, ![u].call = "update", ![u].ix = x]
       ELSE push' = [push EXCEPT ![u].todo = @ \ {r}] /\ UNCHANGED row
  /\ UNCHANGED <<rec, lastIx, pull, edited>>

Payload(u) == Rec(push[u].rows[push[u].at].key, push[u].rows[push[u].at].password, FALSE)

\* ixBrowser does what the call asks for.
Updates(u) ==
  /\ push[u] # None /\ push[u].call = "update" /\ push[u].ix \in Used(rec)
  /\ rec' = [rec EXCEPT ![push[u].ix] = Payload(u)]
  /\ push' = [push EXCEPT ![u].call = "updated"]
  /\ UNCHANGED <<row, lastIx, pull, edited>>
Creates(u) ==
  /\ push[u] # None /\ push[u].call = "create" /\ lastIx + 1 \in IxIds
  /\ lastIx' = lastIx + 1
  /\ rec' = [rec EXCEPT ![lastIx'] = Payload(u)]
  /\ push' = [push EXCEPT ![u].call = "created", ![u].ix = lastIx']
  /\ UNCHANGED <<row, pull, edited>>

\* Its answer arrives: a new record is bound, unless another row is bound to it.
Answered(u) ==
  /\ push[u] # None /\ push[u].call \in {"updated", "created"}
  /\ LET r == push[u].at
         x == push[u].ix
         binds == push[u].call = "created" /\ Bound(row, x) \subseteq {r}
     IN  /\ row' = IF binds THEN [row EXCEPT ![r].ix = x] ELSE row
         /\ push' = [push EXCEPT ![u].call = "next", ![u].at = 0, ![u].ix = 0]
  /\ UNCHANGED <<rec, lastIx, pull, edited>>

\* Or the call fails, before or after ixBrowser has acted.
CallFails(u) ==
  /\ push[u] # None /\ push[u].call \in {"update", "create", "updated", "created"}
  /\ push' = [push EXCEPT ![u].call = "next", ![u].at = 0, ![u].ix = 0]
  /\ UNCHANGED <<row, rec, lastIx, pull, edited>>

PushEnds(u) ==
  /\ push[u] # None /\ push[u].call = "next" /\ push[u].todo = {}
  /\ push' = [push EXCEPT ![u] = None]
  /\ UNCHANGED <<row, rec, lastIx, pull, edited>>

\* The list cannot be read, or the server stops: what the push had left to do
\* is not done.
PushBreaks(u) ==
  /\ push[u] # None
  /\ push' = [push EXCEPT ![u] = None]
  /\ UNCHANGED <<row, rec, lastIx, pull, edited>>

\* External: the operator removes a proxy in ixBrowser.
Removed(x) ==
  /\ x \in Used(rec) /\ rec' = [rec EXCEPT ![x] = None]
  /\ UNCHANGED <<row, lastIx, push, pull, edited>>

Next ==
  \/ \E k \in Keys, p \in Passwords : Import(k, p)
  \/ \E S \in SUBSET RowIds, k \in Keys \cup {None}, p \in Passwords :
        BatchUpdate(S, k, p) \/ \E u \in Pushers : BatchUpdateAndPush(u, S, k, p)
  \/ PullReads \/ PullWrites \/ PullFails
  \/ \E u \in Pushers :
       \/ \E S \in SUBSET RowIds : PushBegins(u, S)
       \/ \E r \in RowIds : Missing(u, r) \/ Matched(u, r)
       \/ PushLists(u) \/ Updates(u) \/ Creates(u) \/ Answered(u) \/ CallFails(u)
       \/ PushEnds(u) \/ PushBreaks(u)
  \/ \E x \in IxIds : Removed(x)

Spec == Init /\ [][Next]_vars

-----------------------------------------------------------------------------
(* Properties *)

TypeOK ==
  /\ row \in [RowIds -> Rows \cup {None}]
  /\ rec \in [IxIds -> Recs \cup {None}]
  /\ lastIx \in IxIds \cup {0}
  /\ edited \in BOOLEAN
  /\ pull = None \/ pull \in [IxIds -> Recs \cup {None}]
  /\ push \in [Pushers -> Push \cup {None}]
  /\ \A u \in Pushers : push[u] # None =>
       /\ push[u].todo \subseteq Used(push[u].rows)
       /\ push[u].call # "list" => push[u].recs \in [IxIds -> Recs \cup {None}]
  /\ \A r, s \in Used(row) : row[r].ix = row[s].ix /\ row[r].ix # 0 => r = s

\* As long as nobody edits keys, pulls and imports never enter a proxy twice,
\* however often they are repeated and whatever a broken push has left
\* (upsert_proxies_from_ixbrowser, upsert_proxies_from_batch_import).
OneRowPerKey == ~edited => \A r, s \in Used(row) : row[r].key = row[s].key => r = s

\* A push that is repeated after a lost answer or a restart does not create
\* the proxy again: there are no more records of a key than pushes at the same
\* time (sync_push_to_ixbrowser).
OneRecordPerKey == ~edited => \A k \in Keys : Cardinality(ByKey(rec, k)) <= Cardinality(Pushers)
=============================================================================
