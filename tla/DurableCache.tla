---------------------------- MODULE DurableCache ----------------------------
(***************************************************************************)
(* SqlAlchemySnapshotCache on SQLite: get and put as they run in worker    *)
(* threads, each with a session of its own (the wholesale cache has the    *)
(* same code over its own table).                                          *)
(*                                                                         *)
(* The session does not flush before it queries, and pysqlite opens the    *)
(* transaction at the first DELETE, INSERT or UPDATE.  So the lookups that *)
(* begin a put or a get see what is committed at that moment, and the rest *)
(* (cleanup, trim, flush, commit) is one serialized write transaction that *)
(* works on the row object of the earlier lookup.                          *)
(*                                                                         *)
(* A snapshot is its search, a number that stands for search_id and for    *)
(* collected_at: unique and increasing.  A caller is a run of the search   *)
(* pipeline: it gets, searches unless it was served, stores the snapshot   *)
(* of its search, and stores the snapshot it holds once more when an       *)
(* analysis was asked for.  Any time may pass between its calls.           *)
(***************************************************************************)
EXTENDS Integers, FiniteSets

CONSTANTS Callers,      \* concurrent runs of the pipeline
          Keys,         \* cache keys
          MaxEntries,   \* max_entries
          CacheTTL,     \* ttl_seconds of every put
          MaxClock,     \* bound: the clock stops here
          MaxSearches   \* bound: searches started

ASSUME EntriesAssumption == MaxEntries \in Nat \ {0}
ASSUME TTLAssumption == CacheTTL \in Nat \ {0}
ASSUME KeysAssumption == Keys # {} /\ IsFiniteSet(Keys)
ASSUME BoundsAssumption == MaxClock \in Nat /\ MaxSearches \in Nat

VARIABLES clock,
          rows,      \* the table: stored searches
          made,      \* key -> searches made for it so far
          searches,  \* searches made so far
          pc,        \* caller -> where it is
          job        \* caller -> its key, its snapshot and its row object

vars == <<clock, rows, made, searches, pc, job>>
-----------------------------------------------------------------------------
NoRow == -1      \* the lookup found nothing
Legacy == 0      \* a row written by an earlier release, unreadable by now

Row == [search : Nat, key : Keys, expires_at : Nat]

\* now is read when put begins; found is the primary key of the row object;
\* final tells the put that follows an analysis.
Job == [key : Keys, search : Nat, now : Nat, found : Nat \cup {NoRow}, final : BOOLEAN]
NoJob == [key |-> CHOOSE k \in Keys : TRUE, search |-> 0, now |-> 0,
          found |-> NoRow, final |-> FALSE]

(* missed: get returned None or a refresh was asked for; collecting: the   *)
(* search runs; holding: has a snapshot that is or was in the cache.       *)
PCs == {"idle", "deleting", "missed", "collecting", "holding", "writing", "raised"}

TypeOK ==
  /\ clock \in Nat \ {0}
  /\ rows \in SUBSET Row
  /\ made \in [Keys -> SUBSET Nat]
  /\ searches \in Nat
  /\ pc \in [Callers -> PCs]
  /\ job \in [Callers -> Job]

Init ==
  /\ clock = 1
  /\ rows \in {{}} \cup {{[search |-> Legacy, key |-> k, expires_at |-> 2]} : k \in Keys}
  /\ made = [k \in Keys |-> {}]
  /\ searches = 0
  /\ pc = [w \in Callers |-> "idle"]
  /\ job = [w \in Callers |-> NoJob]

Searches(table) == {row.search : row \in table}
RowsOf(k) == {row \in rows : row.key = k}
Idle(w) == pc[w] \in {"idle", "raised"}
-----------------------------------------------------------------------------
(* get *)

Readable(row) == row.expires_at > clock /\ row.search # Legacy

Returned(w, k, s) ==
  /\ job' = [job EXCEPT ![w] = [NoJob EXCEPT !.key = k, !.search = s]]
  /\ UNCHANGED <<clock, rows, made, searches>>

GetMisses(w, k) ==
  /\ Idle(w)
  /\ RowsOf(k) = {}
  /\ pc' = [pc EXCEPT ![w] = "missed"]
  /\ Returned(w, k, 0)

\* A live, valid row: the caller takes it, or searches anew (refresh).
GetHits(w, k) ==
  /\ Idle(w)
  /\ \E row \in RowsOf(k) : Readable(row) /\ Returned(w, k, row.search)
  /\ \E next \in {"missed", "holding"} : pc' = [pc EXCEPT ![w] = next]

\* The row has expired or fails validation: delete it and return None.
GetFindsUnusable(w, k) ==
  /\ Idle(w)
  /\ \E row \in RowsOf(k) :
       /\ ~Readable(row)
       /\ job' = [job EXCEPT ![w] = [NoJob EXCEPT !.key = k, !.found = row.search]]
  /\ pc' = [pc EXCEPT ![w] = "deleting"]
  /\ UNCHANGED <<clock, rows, made, searches>>

\* DELETE by primary key; that it matches no row any more is not an error.
GetDeletes(w) ==
  /\ pc[w] = "deleting"
  /\ rows' = {row \in rows : row.search # job[w].found}
  /\ pc' = [pc EXCEPT ![w] = "missed"]
  /\ job' = [job EXCEPT ![w].found = NoRow]
  /\ UNCHANGED <<clock, made, searches>>
-----------------------------------------------------------------------------
(* put *)

\* The row object a put works on: by cache key, else by primary key.
Lookup(k, s) ==
  LET byKey == {row.search : row \in RowsOf(k)}
  IN  IF byKey # {} THEN CHOOSE i \in byKey : TRUE
      ELSE IF s \in Searches(rows) THEN s ELSE NoRow

\* Not part of the cache: the caller starts to collect a new snapshot.
Collect(w) ==
  /\ pc[w] = "missed"
  /\ searches < MaxSearches
  /\ searches' = searches + 1
  /\ made' = [made EXCEPT ![job[w].key] = @ \cup {searches + 1}]
  /\ job' = [job EXCEPT ![w].search = searches + 1]
  /\ pc' = [pc EXCEPT ![w] = "collecting"]
  /\ UNCHANGED <<clock, rows>>

PutBegins(w) ==
  /\ pc[w] \in {"collecting", "holding"}
  /\ pc' = [pc EXCEPT ![w] = "writing"]
  /\ job' = [job EXCEPT ![w].now = clock,
                        ![w].found = Lookup(job[w].key, job[w].search),
                        ![w].final = (pc[w] = "holding")]
  /\ UNCHANGED <<clock, rows, made, searches>>

\* Not part of the cache: the caller returns without another put.
Leave(w) ==
  /\ pc[w] \in {"missed", "collecting", "holding"}
  /\ pc' = [pc EXCEPT ![w] = "idle"]
  /\ job' = [job EXCEPT ![w] = NoJob]
  /\ UNCHANGED <<clock, rows, made, searches>>

\* Mutant: the cleanup compares with the expiry of the new row.
UnexpiredLater(w) == {row \in rows : row.expires_at >= job[w].now + CacheTTL}

\* DELETE ... WHERE expires_at <= now, the time the put began.
Unexpired(w) == {row \in rows : row.expires_at > job[w].now}

Newer(table, row) == {other \in table : other.search > row.search}

\* Mutant: off by one, the row at the bound is kept too.
TrimmedOneLess(table) ==
  {row \in table : Cardinality(Newer(table, row)) > MaxEntries}

\* _trim: what is beyond the max_entries most recently collected rows.  It
\* queries the table, which the pending row has not reached yet.
Trimmed(table) == {row \in table : Cardinality(Newer(table, row)) >= MaxEntries}

\* Mutant: the search_id of the row found is not overwritten.
NewRowKeepingId(w, k) == [search |-> job[w].found, key |-> k,
                          expires_at |-> job[w].now + CacheTTL]

NewRow(w, k) == [search |-> job[w].search, key |-> k,
                 expires_at |-> job[w].now + CacheTTL]

\* Mutant: cache_key is not unique.
MayInsertDuplicate(w, table) == job[w].search \notin Searches(table)

\* flush of a new row: both unique constraints must hold.
MayInsert(w, table) ==
  /\ job[w].search \notin Searches(table)
  /\ \A row \in table : row.key # job[w].key

\* Mutant: an UPDATE that matches no row goes unnoticed.
MayUpdateUnmatched(w, table) ==
  job[w].search = job[w].found \/ job[w].search \notin Searches(table)

\* flush of a changed row: UPDATE ... WHERE search_id = found has to match
\* one row, and the new primary key must be free.
MayUpdate(w, table) ==
  /\ job[w].found \in Searches(table)
  /\ job[w].search = job[w].found \/ job[w].search \notin Searches(table)

\* The row object was among the trimmed ones: it is deleted, not updated.
TrimsOwnRow(w, table) == job[w].found \in Searches(Trimmed(table))

\* The key column of an existing row is not assigned by put.
Updated(w, table) ==
  {row \in table : row.search # job[w].found}
    \cup {NewRow(w, row.key) : row \in {r \in table : r.search = job[w].found}}

Commit(w, table) ==
  /\ rows' = table
  /\ pc' = [pc EXCEPT ![w] = IF job[w].final THEN "idle" ELSE "holding"]
  /\ job' = [job EXCEPT ![w] = IF job[w].final THEN NoJob
                               ELSE [NoJob EXCEPT !.key = job[w].key,
                                                  !.search = job[w].search]]
  /\ UNCHANGED <<clock, made, searches>>

PutInserts(w) ==
  /\ pc[w] = "writing"
  /\ job[w].found = NoRow
  /\ MayInsert(w, Unexpired(w))
  /\ Commit(w, (Unexpired(w) \ Trimmed(Unexpired(w))) \cup {NewRow(w, job[w].key)})

PutUpdates(w) ==
  /\ pc[w] = "writing"
  /\ job[w].found # NoRow
  /\ ~TrimsOwnRow(w, Unexpired(w))
  /\ MayUpdate(w, Unexpired(w))
  /\ Commit(w, Updated(w, Unexpired(w) \ Trimmed(Unexpired(w))))

PutTrimsItself(w) ==
  /\ pc[w] = "writing"
  /\ job[w].found # NoRow
  /\ TrimsOwnRow(w, Unexpired(w))
  /\ Commit(w, Unexpired(w) \ Trimmed(Unexpired(w)))

\* StaleDataError or IntegrityError: the transaction is rolled back and the
\* exception goes to the caller.
PutRaises(w) ==
  /\ pc[w] = "writing"
  /\ IF job[w].found = NoRow
       THEN ~MayInsert(w, Unexpired(w))
       ELSE ~TrimsOwnRow(w, Unexpired(w)) /\ ~MayUpdate(w, Unexpired(w))
  /\ pc' = [pc EXCEPT ![w] = "raised"]
  /\ job' = [job EXCEPT ![w] = NoJob]
  /\ UNCHANGED <<clock, rows, made, searches>>
-----------------------------------------------------------------------------
Tick ==
  /\ clock < MaxClock
  /\ clock' = clock + 1
  /\ UNCHANGED <<rows, made, searches, pc, job>>

\* The process stops: threads end between their steps, the table stays.
Restart ==
  /\ pc' = [w \in Callers |-> "idle"]
  /\ job' = [w \in Callers |-> NoJob]
  /\ UNCHANGED <<clock, rows, made, searches>>

Get(w) ==
  \/ \E k \in Keys : GetMisses(w, k) \/ GetHits(w, k) \/ GetFindsUnusable(w, k)
  \/ GetDeletes(w)

Write(w) == PutInserts(w) \/ PutUpdates(w) \/ PutTrimsItself(w) \/ PutRaises(w)

Next ==
  \/ \E w \in Callers : Get(w) \/ Collect(w) \/ PutBegins(w) \/ Write(w) \/ Leave(w)
  \/ Tick
  \/ Restart

Spec == Init /\ [][Next]_vars
-----------------------------------------------------------------------------
(* Properties. *)

(* The table has one row per key and per search, and the row of a key      *)
(* holds a snapshot made for that key: no interleaving of puts that find   *)
(* rows by key or by search and rewrite their primary key serves one query *)
(* the offers of another (persistence/cache.py:60-81).                     *)
RowsBelongToTheirKey ==
  /\ \A row, other \in rows :
       row.key = other.key \/ row.search = other.search => row = other
  /\ \A row \in rows : row.search = Legacy \/ row.search \in made[row.key]

(* The trim runs before the new row is flushed, so the table may exceed    *)
(* max_entries, against deploy/README.md:64, but never by more than one    *)
(* row (88, 91-99).                                                        *)
AtMostOneOver == Cardinality(rows) <= MaxEntries + 1

(* A put that ends without an exception has stored its snapshot, unless    *)
(* the trim took the very row it was refreshing: with MaxEntries live ones *)
(* of newer searches, which takes a table over its bound (76-99).          *)
Ends(w) == pc[w] = "writing" /\ Write(w) /\ pc'[w] # "raised"
QuietPutStores ==
  [][\A w \in Callers :
       Ends(w) =>
         \/ \E row \in rows' : /\ row.search = job[w].search
                               /\ row.key = job[w].key
                               /\ row.expires_at = job[w].now + CacheTTL
         \/ \E row \in rows :
              /\ row.search = job[w].found
              /\ Cardinality({other \in Newer(rows, row) : other.expires_at > job[w].now})
                   >= MaxEntries]_vars

(* A write never drops a live row while the table is within its bound,     *)
(* except the row of the key being written: cleanup and trim take only     *)
(* what is expired or in excess.                                           *)
NoLiveRowLost ==
  [][Cardinality(rows) <= MaxEntries /\ (\E w \in Callers : Ends(w)) =>
       \A row \in rows :
         \/ row.expires_at <= clock
         \/ row.search = Legacy
         \/ \E other \in rows' : other.key = row.key]_vars

(* What docs/architecture.md:37 says of a put: the durable cache persists  *)
(* the snapshot.                                                           *)
PutPersists == \A w \in Callers : pc[w] # "raised"
=============================================================================
