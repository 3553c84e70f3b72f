------------------------- MODULE DurableCacheProofs -------------------------
(***************************************************************************)
(* Theorems about DurableCache, for any callers, keys, bounds and TTLs.    *)
(*                                                                         *)
(* That a row belongs to its key is not inductive: a put overwrites the    *)
(* primary key of a row it looked up before other puts committed.  The     *)
(* invariant adds that every search was made for one key only, and that    *)
(* the row object of a put can by then only be a row of the put's key.     *)
(***************************************************************************)
EXTENDS DurableCache, FiniteSetTheorems, WellFoundedInduction, TLAPS

\* Both unique constraints of the table.
Unique(table) ==
  \A row, other \in table :
    row.key = other.key \/ row.search = other.search => row = other

\* Every search was made for one key, and only searches so far were made.
MadeSound ==
  /\ \A k \in Keys : \A s \in made[k] : 0 < s /\ s <= searches
  /\ \A k, l \in Keys : \A s \in made[k] : s \in made[l] => k = l

\* The snapshot of a caller is one of its key, and so is the row it found.
JobSound(w) ==
  /\ job[w].now <= clock
  /\ pc[w] \in {"collecting", "holding", "writing"} =>
       job[w].search \in made[job[w].key]
  /\ pc[w] = "writing" =>
       /\ job[w].found \in {NoRow, Legacy} \cup made[job[w].key]
       /\ job[w].found = Legacy =>
            \A row \in rows : row.search = Legacy => row.key = job[w].key

Inductive ==
  /\ TypeOK
  /\ IsFiniteSet(rows)
  /\ RowsBelongToTheirKey
  /\ AtMostOneOver
  /\ MadeSound
  /\ \A w \in Callers : JobSound(w)
-----------------------------------------------------------------------------
(* Tables. *)

\* In a table without duplicates the oldest row of any part exists.
LEMMA OldestExists ==
  ASSUME NEW table, table \subseteq Row, IsFiniteSet(table), table # {}
  PROVE  \E oldest \in table : \A row \in table : oldest.search <= row.search
<1> DEFINE upTo(row) == {other \in table : other.search <= row.search}
           parts == {upTo(row) : row \in table}
<1>1. \A part \in parts : part \in FiniteSubsetsOf(table)
  BY FS_Subset DEF FiniteSubsetsOf
<1>2. IsWellFoundedOn(StrictSubsetOrdering(table), FiniteSubsetsOf(table))
  BY FS_StrictSubsetOrderingWellFounded
<1>3. parts \subseteq FiniteSubsetsOf(table) /\ parts # {}
  BY <1>1
<1>4. PICK x \in parts : \A y \in parts : <<y, x>> \notin StrictSubsetOrdering(table)
  <2> HIDE DEF parts
  <2> QED BY <1>2, <1>3, WFMin
<1>5. PICK oldest \in table : x = upTo(oldest)
  BY <1>4
<1>6. ASSUME NEW row \in table
      PROVE  oldest.search <= row.search
  <2>1. oldest.search \in Nat /\ row.search \in Nat
    BY DEF Row
  <2>2. SUFFICES ASSUME row.search < oldest.search PROVE FALSE
    BY <2>1
  <2>3. upTo(row) \subseteq upTo(oldest)
    BY <2>1, <2>2 DEF Row
  <2>4. oldest \in upTo(oldest) /\ oldest \notin upTo(row)
    BY <2>1, <2>2
  <2>5. <<upTo(row), upTo(oldest)>> \in StrictSubsetOrdering(table)
    <3> DEFINE a == upTo(row)
               b == upTo(oldest)
    <3>1. a \in SUBSET table /\ b \in SUBSET table /\ a \subseteq b /\ a # b
      BY <2>3, <2>4
    <3> HIDE DEF a, b
    <3>2. <<a, b>> \in StrictSubsetOrdering(table)
      BY <3>1 DEF StrictSubsetOrdering
    <3> QED BY <3>2 DEF a, b
  <2>6. upTo(row) \in parts
    OBVIOUS
  <2> QED BY <1>4, <1>5, <2>5, <2>6
<1> QED BY <1>6

\* What the trim leaves has at most max_entries rows.
LEMMA TrimBounds ==
  ASSUME NEW table, table \subseteq Row, IsFiniteSet(table), Unique(table)
  PROVE  Cardinality(table \ Trimmed(table)) <= MaxEntries
<1> DEFINE kept == table \ Trimmed(table)
<1>1. IsFiniteSet(kept) /\ Cardinality(kept) \in Nat /\ kept \subseteq table
  BY FS_Subset, FS_CardinalityType
<1>2. CASE kept = {}
  BY <1>2, FS_EmptySet, EntriesAssumption
<1>3. CASE kept # {}
  <2>1. PICK oldest \in kept : \A row \in kept : oldest.search <= row.search
    <3> HIDE DEF kept
    <3> QED BY <1>1, <1>3, OldestExists
  <2>2. kept \ {oldest} \subseteq Newer(table, oldest)
    <3> SUFFICES ASSUME NEW row \in kept, row # oldest
                 PROVE  row.search > oldest.search
      BY <1>1 DEF Newer
    <3>1. row.search # oldest.search
      BY <1>1, <2>1 DEF Unique
    <3>2. row.search \in Nat /\ oldest.search \in Nat
      BY <1>1, <2>1 DEF Row
    <3> QED BY <2>1, <3>1, <3>2
  <2>3. /\ IsFiniteSet(Newer(table, oldest))
        /\ Cardinality(Newer(table, oldest)) \in Nat
    BY FS_Subset, FS_CardinalityType DEF Newer
  <2>4. Cardinality(Newer(table, oldest)) < MaxEntries
    BY <2>1, <2>3, EntriesAssumption DEF Trimmed
  <2>5. Cardinality(kept \ {oldest}) <= Cardinality(Newer(table, oldest))
    BY <2>2, <2>3, FS_Subset
  <2>6. Cardinality(kept \ {oldest}) = Cardinality(kept) - 1
    <3> HIDE DEF kept
    <3> QED BY <1>1, <2>1, FS_RemoveElement
  <2> QED BY <1>1, <2>3, <2>4, <2>5, <2>6, EntriesAssumption
<1> QED BY <1>2, <1>3

\* The trim takes nothing from a table within its bound.
LEMMA NothingTrimmed ==
  ASSUME NEW table, table \subseteq Row, IsFiniteSet(table),
         Cardinality(table) <= MaxEntries
  PROVE  Trimmed(table) = {}
<1> SUFFICES ASSUME NEW row \in table
             PROVE  Cardinality(Newer(table, row)) < MaxEntries
  BY FS_Subset, FS_CardinalityType, EntriesAssumption DEF Trimmed, Newer
<1>1. Newer(table, row) \subseteq table \ {row}
  BY DEF Newer, Row
<1>2. /\ IsFiniteSet(table \ {row})
      /\ Cardinality(table \ {row}) = Cardinality(table) - 1
  BY FS_RemoveElement
<1>3. Cardinality(Newer(table, row)) <= Cardinality(table \ {row})
  BY <1>1, <1>2, FS_Subset
<1>4. IsFiniteSet(Newer(table, row))
  BY <1>1, <1>2, FS_Subset
<1>5. Cardinality(Newer(table, row)) \in Nat /\ Cardinality(table) \in Nat
  BY <1>4, FS_CardinalityType
<1> QED BY <1>2, <1>3, <1>5, EntriesAssumption

\* One more row than the trim leaves.
LEMMA OneMore ==
  ASSUME NEW table, table \subseteq Row, IsFiniteSet(table), Unique(table),
         NEW new, NEW result, result \subseteq (table \ Trimmed(table)) \cup {new}
  PROVE  IsFiniteSet(result) /\ Cardinality(result) <= MaxEntries + 1
<1> DEFINE kept == table \ Trimmed(table)
<1>1. IsFiniteSet(kept) /\ Cardinality(kept) \in Nat
  BY FS_Subset, FS_CardinalityType
<1>2. Cardinality(kept) <= MaxEntries
  BY TrimBounds
<1> HIDE DEF kept
<1>3. /\ IsFiniteSet(kept \cup {new})
      /\ Cardinality(kept \cup {new}) <= Cardinality(kept) + 1
  BY <1>1, FS_AddElement
<1>4. result \subseteq kept \cup {new}
  BY DEF kept
<1>5. IsFiniteSet(result) /\ Cardinality(result) <= Cardinality(kept \cup {new})
  BY <1>3, <1>4, FS_Subset
<1>6. Cardinality(result) \in Nat /\ Cardinality(kept \cup {new}) \in Nat
  BY <1>3, <1>5, FS_CardinalityType
<1> QED BY <1>1, <1>2, <1>3, <1>5, <1>6, EntriesAssumption
-----------------------------------------------------------------------------
(* The steps. *)

LEMMA NoJobSound == NoJob \in Job /\ NoJob.now = 0
<1>1. (CHOOSE k \in Keys : TRUE) \in Keys
  BY KeysAssumption
<1> QED BY <1>1 DEF NoJob, Job, NoRow

LEMMA InitInductive == Init => Inductive
<1> SUFFICES ASSUME Init PROVE Inductive
  OBVIOUS
<1>1. \E k \in Keys : rows \subseteq {[search |-> Legacy, key |-> k, expires_at |-> 2]}
  BY KeysAssumption DEF Init
<1>2. PICK k \in Keys : rows \subseteq {[search |-> Legacy, key |-> k, expires_at |-> 2]}
  BY <1>1
<1>3. TypeOK
  BY <1>2, NoJobSound DEF Init, TypeOK, Row, Legacy, PCs
<1>4. IsFiniteSet(rows) /\ Cardinality(rows) <= 1
  <2> DEFINE one == {[search |-> Legacy, key |-> k, expires_at |-> 2]}
  <2>1. IsFiniteSet(one) /\ Cardinality(one) = 1
    BY FS_Singleton
  <2> HIDE DEF one
  <2>2. rows \subseteq one
    BY <1>2 DEF one
  <2> QED BY <2>1, <2>2, FS_Subset
<1>5. AtMostOneOver
  BY <1>4, FS_CardinalityType, EntriesAssumption DEF AtMostOneOver
<1>6. RowsBelongToTheirKey
  BY <1>2 DEF RowsBelongToTheirKey
<1>7. MadeSound /\ \A w \in Callers : JobSound(w)
  BY NoJobSound DEF Init, MadeSound, JobSound
<1> QED BY <1>3, <1>4, <1>5, <1>6, <1>7 DEF Inductive

\* A caller's step that leaves the table alone and touches only its own job.
LEMMA JobStep ==
  ASSUME Inductive, NEW w \in Callers,
         NEW step \in PCs, NEW new \in Job,
         pc' = [pc EXCEPT ![w] = step], job' = [job EXCEPT ![w] = new],
         UNCHANGED <<clock, rows, made, searches>>,
         new.now <= clock,
         step \in {"collecting", "holding", "writing"} => new.search \in made[new.key],
         step = "writing" =>
           /\ new.found \in {NoRow, Legacy} \cup made[new.key]
           /\ new.found = Legacy =>
                \A row \in rows : row.search = Legacy => row.key = new.key
  PROVE  Inductive'
<1>1. TypeOK'
  BY DEF Inductive, TypeOK
<1>2. (RowsBelongToTheirKey /\ AtMostOneOver /\ MadeSound)' /\ IsFiniteSet(rows')
  BY DEF Inductive, RowsBelongToTheirKey, AtMostOneOver, MadeSound
<1>3. ASSUME NEW v \in Callers PROVE JobSound(v)'
  <2>1. JobSound(v)
    BY DEF Inductive
  <2>2. CASE v = w
    BY <2>2 DEF JobSound, Inductive, TypeOK
  <2>3. CASE v # w
    BY <2>1, <2>3 DEF JobSound, Inductive, TypeOK
  <2> QED BY <2>2, <2>3
<1> QED BY <1>1, <1>2, <1>3 DEF Inductive

\* A write that ends with a table of rows that belong to their keys.
LEMMA CommitKeeps ==
  ASSUME Inductive, NEW w \in Callers, pc[w] = "writing",
         NEW table, table \subseteq Row, IsFiniteSet(table), Unique(table),
         \A row \in table : row.search = Legacy \/ row.search \in made[row.key],
         \A row \in table : row.search = Legacy => row \in rows,
         Cardinality(table) <= MaxEntries + 1,
         Commit(w, table)
  PROVE  Inductive'
<1>1. /\ job[w] \in Job
      /\ job[w].search \in made[job[w].key]
  BY DEF Inductive, TypeOK, JobSound
<1>2. [NoJob EXCEPT !.key = job[w].key, !.search = job[w].search] \in Job
  BY <1>1, NoJobSound DEF Job
<1>3. TypeOK'
  BY <1>2, NoJobSound DEF Commit, Inductive, TypeOK, PCs
<1>4. RowsBelongToTheirKey' /\ AtMostOneOver' /\ IsFiniteSet(rows')
  BY DEF Commit, Unique, RowsBelongToTheirKey, AtMostOneOver
<1>5. MadeSound'
  BY DEF Commit, Inductive, MadeSound
<1>6. ASSUME NEW v \in Callers PROVE JobSound(v)'
  <2>1. JobSound(v)
    BY DEF Inductive
  <2>2. CASE v = w
    <3>1. job'[w].now = 0 /\ clock' = clock /\ clock \in Nat /\ made' = made
      BY <1>2, NoJobSound DEF Commit, Inductive, TypeOK, NoJob
    <3>2. CASE job[w].final
      BY <2>2, <3>1, <3>2 DEF Commit, JobSound, Inductive, TypeOK
    <3>3. CASE ~job[w].final
      <4>1. /\ pc'[w] = "holding"
            /\ job'[w].key = job[w].key
            /\ job'[w].search = job[w].search
        BY <3>3 DEF Commit, Inductive, TypeOK, NoJob
      <4> QED BY <1>1, <2>2, <3>1, <4>1 DEF JobSound
    <3> QED BY <3>2, <3>3
  <2>3. CASE v # w
    BY <2>1, <2>3 DEF Commit, JobSound, Inductive, TypeOK
  <2> QED BY <2>2, <2>3
<1> QED BY <1>3, <1>4, <1>5, <1>6 DEF Inductive

\* What the cleanup leaves is a sound table.
LEMMA UnexpiredSound ==
  ASSUME Inductive, NEW w \in Callers
  PROVE  /\ Unexpired(w) \subseteq rows
         /\ Unexpired(w) \subseteq Row
         /\ IsFiniteSet(Unexpired(w))
         /\ Unique(Unexpired(w))
         /\ \A row \in Unexpired(w) :
              row.search = Legacy \/ row.search \in made[row.key]
         /\ Cardinality(Unexpired(w)) <= Cardinality(rows)
<1>1. Unexpired(w) \subseteq rows /\ rows \subseteq Row /\ IsFiniteSet(rows)
  BY DEF Unexpired, Inductive, TypeOK
<1>2. IsFiniteSet(Unexpired(w)) /\ Cardinality(Unexpired(w)) <= Cardinality(rows)
  BY <1>1, FS_Subset
<1>3. RowsBelongToTheirKey
  BY DEF Inductive
<1> QED BY <1>1, <1>2, <1>3 DEF RowsBelongToTheirKey, Unique

\* The row a put writes.
LEMMA NewRowSound ==
  ASSUME Inductive, NEW w \in Callers, pc[w] = "writing"
  PROVE  /\ job[w] \in Job
         /\ NewRow(w, job[w].key) \in Row
         /\ job[w].search \in made[job[w].key]
         /\ job[w].search # Legacy
<1>1. job[w] \in Job /\ job[w].search \in made[job[w].key]
  BY DEF Inductive, TypeOK, JobSound
<1>2. job[w].search # Legacy
  BY <1>1 DEF Inductive, MadeSound, Job, Legacy
<1> QED BY <1>1, <1>2, TTLAssumption DEF NewRow, Row, Job

LEMMA InsertStep ==
  ASSUME Inductive, NEW w \in Callers, PutInserts(w)
  PROVE  Inductive'
<1> DEFINE old == Unexpired(w)
           new == NewRow(w, job[w].key)
           table == (old \ Trimmed(old)) \cup {new}
<1>1. /\ pc[w] = "writing"
      /\ MayInsert(w, old)
      /\ Commit(w, table)
  BY DEF PutInserts
<1>2. /\ old \subseteq rows /\ old \subseteq Row /\ IsFiniteSet(old) /\ Unique(old)
      /\ \A row \in old : row.search = Legacy \/ row.search \in made[row.key]
  BY UnexpiredSound
<1>3. /\ new \in Row /\ new.search = job[w].search /\ new.key = job[w].key
      /\ new.search \in made[new.key] /\ new.search # Legacy
  BY <1>1, NewRowSound DEF NewRow
<1>4. \A row \in old : row.search # new.search /\ row.key # new.key
  BY <1>1, <1>3 DEF MayInsert, Searches
<1> HIDE DEF old, new
<1>5. table \subseteq Row /\ Unique(table)
  BY <1>2, <1>3, <1>4 DEF Unique
<1>6. IsFiniteSet(table) /\ Cardinality(table) <= MaxEntries + 1
  BY <1>2, OneMore
<1>7. /\ \A row \in table : row.search = Legacy \/ row.search \in made[row.key]
      /\ \A row \in table : row.search = Legacy => row \in rows
  BY <1>2, <1>3
<1> HIDE DEF table
<1> QED BY <1>1, <1>5, <1>6, <1>7, CommitKeeps

\* A row with the primary key a put has found is a row of the put's key.
LEMMA FoundRowOfKey ==
  ASSUME Inductive, NEW w \in Callers, pc[w] = "writing",
         NEW row \in rows, row.search = job[w].found
  PROVE  row.key = job[w].key
<1>1. /\ job[w].found \in {NoRow, Legacy} \cup made[job[w].key]
      /\ job[w].found = Legacy => row.key = job[w].key
      /\ row.search = Legacy \/ row.search \in made[row.key]
      /\ row.search \in Nat /\ row.key \in Keys /\ job[w].key \in Keys
  BY DEF Inductive, JobSound, RowsBelongToTheirKey, TypeOK, Row, Job
<1>2. CASE row.search = Legacy
  BY <1>1, <1>2
<1>3. CASE row.search # Legacy
  <2>1. row.search \in made[row.key] /\ row.search \in made[job[w].key]
    BY <1>1, <1>3 DEF NoRow
  <2> QED BY <1>1, <2>1 DEF Inductive, MadeSound
<1> QED BY <1>2, <1>3

LEMMA UpdateStep ==
  ASSUME Inductive, NEW w \in Callers, PutUpdates(w)
  PROVE  Inductive'
<1> DEFINE old == Unexpired(w)
           kept == old \ Trimmed(old)
           new == NewRow(w, job[w].key)
           table == Updated(w, kept)
<1>1. pc[w] = "writing" /\ MayUpdate(w, old) /\ Commit(w, table)
  BY DEF PutUpdates
<1>2. /\ old \subseteq rows /\ old \subseteq Row /\ IsFiniteSet(old) /\ Unique(old)
      /\ \A row \in old : row.search = Legacy \/ row.search \in made[row.key]
  BY UnexpiredSound
<1>3. /\ new \in Row /\ new.search = job[w].search /\ new.key = job[w].key
      /\ new.search \in made[new.key] /\ new.search # Legacy
  BY <1>1, NewRowSound DEF NewRow
<1>4. \A row \in old : row.search = job[w].found => row.key = job[w].key
  BY <1>1, <1>2, FoundRowOfKey
<1>5. \A row \in table : \/ row \in kept /\ row.search # job[w].found
                         \/ /\ row = new
                            /\ \E r \in kept : r.search = job[w].found
  <2> SUFFICES ASSUME NEW row \in table, ~(row \in kept /\ row.search # job[w].found)
               PROVE  row = new /\ \E r \in kept : r.search = job[w].found
    OBVIOUS
  <2>1. PICK r \in kept : r.search = job[w].found /\ row = NewRow(w, r.key)
    BY DEF Updated
  <2>2. r.key = job[w].key
    BY <1>4, <2>1
  <2> QED BY <2>1, <2>2
<1>6. \A row \in old : row.search # job[w].found => row.search # new.search
  BY <1>1, <1>3 DEF MayUpdate, Searches
<1> HIDE DEF old, new, table
<1>7. table \subseteq Row
  BY <1>2, <1>3, <1>5
<1>8. Unique(table)
  <2> SUFFICES ASSUME NEW row \in table, NEW other \in table,
                      row.key = other.key \/ row.search = other.search
               PROVE  row = other
    BY DEF Unique
  <2>1. ASSUME NEW a \in kept, a.search # job[w].found,
               \E r \in kept : r.search = job[w].found
        PROVE  a.key # new.key /\ a.search # new.search
    <3>1. PICK r \in kept : r.search = job[w].found
      BY <2>1
    <3>2. r.key = new.key
      BY <1>3, <1>4, <3>1
    <3> QED BY <1>2, <1>6, <2>1, <3>1, <3>2 DEF Unique
  <2> QED BY <1>2, <1>5, <2>1 DEF Unique
<1>9. table \subseteq (old \ Trimmed(old)) \cup {new}
  BY <1>5
<1>10. IsFiniteSet(table) /\ Cardinality(table) <= MaxEntries + 1
  BY <1>2, <1>9, OneMore
<1>11. /\ \A row \in table : row.search = Legacy \/ row.search \in made[row.key]
       /\ \A row \in table : row.search = Legacy => row \in rows
  BY <1>2, <1>3, <1>5
<1> QED BY <1>1, <1>7, <1>8, <1>10, <1>11, CommitKeeps

LEMMA TrimItselfStep ==
  ASSUME Inductive, NEW w \in Callers, PutTrimsItself(w)
  PROVE  Inductive'
<1> DEFINE old == Unexpired(w)
           table == old \ Trimmed(old)
<1>1. pc[w] = "writing" /\ Commit(w, table)
  BY DEF PutTrimsItself
<1>2. /\ old \subseteq rows /\ old \subseteq Row /\ IsFiniteSet(old) /\ Unique(old)
      /\ \A row \in old : row.search = Legacy \/ row.search \in made[row.key]
  BY UnexpiredSound
<1> HIDE DEF old
<1>3. /\ table \subseteq Row /\ Unique(table)
      /\ \A row \in table : row.search = Legacy \/ row.search \in made[row.key]
      /\ \A row \in table : row.search = Legacy => row \in rows
  BY <1>2 DEF Unique
<1>4. IsFiniteSet(table) /\ Cardinality(table) <= MaxEntries + 1
  <2> DEFINE any == CHOOSE x : TRUE
  <2>1. table \subseteq (old \ Trimmed(old)) \cup {any}
    OBVIOUS
  <2> HIDE DEF table, any
  <2> QED BY <1>2, <2>1, OneMore
<1> HIDE DEF table
<1> QED BY <1>1, <1>3, <1>4, CommitKeeps

LEMMA GetStep ==
  ASSUME Inductive, NEW w \in Callers, Get(w)
  PROVE  Inductive'
<1>0. NoJob \in Job /\ NoJob.now = 0 /\ clock \in Nat
  BY NoJobSound DEF Inductive, TypeOK
<1>1. ASSUME NEW k \in Keys, GetMisses(w, k) PROVE Inductive'
  <2>1. PICK new : new = [NoJob EXCEPT !.key = k, !.search = 0]
    OBVIOUS
  <2>2. new \in Job /\ new.now <= clock
    <3>1. [NoJob EXCEPT !.key = k, !.search = 0] \in Job
      BY <1>0 DEF Job
    <3>2. new.now = NoJob.now
      BY <1>0, <2>1 DEF Job
    <3> QED BY <1>0, <2>1, <3>1, <3>2
  <2>3. PICK step \in {"missed"} : pc' = [pc EXCEPT ![w] = step]
    BY <1>1 DEF GetMisses
  <2>4. job' = [job EXCEPT ![w] = new] /\ UNCHANGED <<clock, rows, made, searches>>
    BY <1>1, <2>1 DEF GetMisses, Returned
  <2> QED BY <2>2, <2>3, <2>4, JobStep DEF PCs
<1>2. ASSUME NEW k \in Keys, GetHits(w, k) PROVE Inductive'
  <2>1. PICK row \in RowsOf(k) : Readable(row) /\ Returned(w, k, row.search)
    BY <1>2 DEF GetHits
  <2>2. PICK step \in {"missed", "holding"} : pc' = [pc EXCEPT ![w] = step]
    BY <1>2 DEF GetHits
  <2>3. row \in rows /\ row \in Row /\ row.key = k /\ row.search \in made[k]
    BY <2>1 DEF RowsOf, Readable, Inductive, TypeOK, RowsBelongToTheirKey
  <2>4. PICK new : new = [NoJob EXCEPT !.key = k, !.search = row.search]
    OBVIOUS
  <2>5. new \in Job /\ new.now <= clock /\ new.search \in made[new.key]
    <3>1. [NoJob EXCEPT !.key = k, !.search = row.search] \in Job
      BY <1>0, <2>3 DEF Job, Row
    <3>2. new.now = NoJob.now /\ new.search = row.search /\ new.key = k
      BY <1>0, <2>4 DEF Job
    <3> QED BY <1>0, <2>3, <2>4, <3>1, <3>2
  <2>6. job' = [job EXCEPT ![w] = new] /\ UNCHANGED <<clock, rows, made, searches>>
    BY <2>1, <2>4 DEF Returned
  <2> QED BY <2>2, <2>5, <2>6, JobStep DEF PCs
<1>3. ASSUME NEW k \in Keys, GetFindsUnusable(w, k) PROVE Inductive'
  <2>1. PICK row \in RowsOf(k) :
             job' = [job EXCEPT ![w] = [NoJob EXCEPT !.key = k, !.found = row.search]]
    BY <1>3 DEF GetFindsUnusable
  <2>2. PICK new : new = [NoJob EXCEPT !.key = k, !.found = row.search]
    OBVIOUS
  <2>3. new \in Job /\ new.now <= clock
    <3>1. row.search \in Nat
      BY <2>1 DEF RowsOf, Row, Inductive, TypeOK
    <3>2. [NoJob EXCEPT !.key = k, !.found = row.search] \in Job
      BY <1>0, <3>1 DEF Job
    <3>3. new.now = NoJob.now
      BY <1>0, <2>2 DEF Job
    <3> QED BY <1>0, <2>2, <3>2, <3>3
  <2>4. PICK step \in {"deleting"} : pc' = [pc EXCEPT ![w] = step]
    BY <1>3 DEF GetFindsUnusable
  <2>5. job' = [job EXCEPT ![w] = new] /\ UNCHANGED <<clock, rows, made, searches>>
    BY <1>3, <2>1, <2>2 DEF GetFindsUnusable
  <2> QED BY <2>3, <2>4, <2>5, JobStep DEF PCs
<1>4. ASSUME GetDeletes(w) PROVE Inductive'
  <2>1. /\ rows' \subseteq rows /\ pc' = [pc EXCEPT ![w] = "missed"]
        /\ job' = [job EXCEPT ![w].found = NoRow]
        /\ UNCHANGED <<clock, made, searches>>
    BY <1>4 DEF GetDeletes
  <2>2. TypeOK'
    BY <2>1 DEF Inductive, TypeOK, Job, PCs
  <2>3. IsFiniteSet(rows) /\ Cardinality(rows) <= MaxEntries + 1
    BY DEF Inductive, AtMostOneOver
  <2>4. IsFiniteSet(rows') /\ Cardinality(rows') <= Cardinality(rows)
    BY <2>1, <2>3, FS_Subset
  <2>5. AtMostOneOver'
    BY <2>3, <2>4, FS_CardinalityType, EntriesAssumption DEF AtMostOneOver
  <2>6. RowsBelongToTheirKey' /\ MadeSound'
    BY <2>1 DEF Inductive, RowsBelongToTheirKey, MadeSound
  <2>7. ASSUME NEW v \in Callers PROVE JobSound(v)'
    <3>1. JobSound(v)
      BY DEF Inductive
    <3>2. CASE v = w
      BY <2>1, <3>1, <3>2 DEF JobSound, Inductive, TypeOK
    <3>3. CASE v # w
      BY <2>1, <3>1, <3>3 DEF JobSound, Inductive, TypeOK
    <3> QED BY <3>2, <3>3
  <2> QED BY <2>2, <2>4, <2>5, <2>6, <2>7 DEF Inductive
<1> QED BY <1>1, <1>2, <1>3, <1>4 DEF Get

LEMMA CollectStep ==
  ASSUME Inductive, NEW w \in Callers, Collect(w)
  PROVE  Inductive'
<1> DEFINE k == job[w].key
           s == searches + 1
<1>1. /\ pc[w] = "missed" /\ searches' = s
      /\ made' = [made EXCEPT ![k] = @ \cup {s}]
      /\ job' = [job EXCEPT ![w].search = s]
      /\ pc' = [pc EXCEPT ![w] = "collecting"]
      /\ UNCHANGED <<clock, rows>>
  BY DEF Collect
<1>2. k \in Keys /\ s \in Nat /\ s > searches /\ searches \in Nat
      /\ made \in [Keys -> SUBSET Nat]
  BY DEF Inductive, TypeOK, Job
<1> HIDE DEF s, k
<1>3. TypeOK'
  BY <1>1, <1>2 DEF Inductive, TypeOK, Job, PCs
<1>4. \A l \in Keys : /\ made[l] \subseteq made'[l]
                      /\ made'[l] \subseteq made[l] \cup {s}
                      /\ s \in made'[l] => l = k
  <2>1. \A l \in Keys : s \notin made[l]
    BY <1>2 DEF Inductive, MadeSound
  <2> QED BY <1>1, <1>2, <2>1
<1>5. MadeSound'
  <2>1. ASSUME NEW l \in Keys, NEW i \in made'[l] PROVE 0 < i /\ i <= searches'
    BY <1>1, <1>2, <1>4 DEF Inductive, MadeSound
  <2>2. ASSUME NEW l \in Keys, NEW m \in Keys, NEW i \in made'[l], i \in made'[m]
        PROVE  l = m
    BY <1>4, <2>2 DEF Inductive, MadeSound
  <2> QED BY <2>1, <2>2 DEF MadeSound
<1>6. RowsBelongToTheirKey' /\ AtMostOneOver' /\ IsFiniteSet(rows')
  BY <1>1, <1>4 DEF Inductive, RowsBelongToTheirKey, AtMostOneOver, TypeOK, Row
<1>7. ASSUME NEW v \in Callers PROVE JobSound(v)'
  <2>1. JobSound(v) /\ job[v] \in Job
    BY DEF Inductive, TypeOK
  <2>2. CASE v = w
    <3>1. /\ pc'[w] = "collecting" /\ job'[w].search = s
          /\ job'[w].key = k /\ job'[w].now = job[w].now /\ clock' = clock
      BY <1>1 DEF Inductive, TypeOK, Job, k
    <3>2. s \in made'[k]
      BY <1>1, <1>2
    <3> QED BY <2>1, <2>2, <3>1, <3>2 DEF JobSound
  <2>3. CASE v # w
    <3>1. pc'[v] = pc[v] /\ job'[v] = job[v] /\ rows' = rows /\ clock' = clock
      BY <1>1, <2>3 DEF Inductive, TypeOK
    <3>2. made[job[v].key] \subseteq made'[job[v].key]
      BY <1>4, <2>1 DEF Job
    <3> QED BY <2>1, <3>1, <3>2 DEF JobSound
  <2> QED BY <2>2, <2>3
<1> QED BY <1>3, <1>5, <1>6, <1>7 DEF Inductive

LEMMA PutBeginsStep ==
  ASSUME Inductive, NEW w \in Callers, PutBegins(w)
  PROVE  Inductive'
<1> DEFINE k == job[w].key
           s == job[w].search
           started == [job[w] EXCEPT !.now = clock, !.found = Lookup(k, s),
                                     !.final = (pc[w] = "holding")]
<1>1. /\ pc[w] \in {"collecting", "holding"}
      /\ pc' = [pc EXCEPT ![w] = "writing"]
      /\ UNCHANGED <<clock, rows, made, searches>>
  BY DEF PutBegins
<1>2. job' = [job EXCEPT ![w] = started]
  BY DEF PutBegins, Inductive, TypeOK
<1>3. job[w] \in Job /\ k \in Keys /\ s \in made[k] /\ s \in Nat /\ clock \in Nat
  BY <1>1 DEF Inductive, TypeOK, JobSound, Job
<1>4. /\ Lookup(k, s) \in Nat \cup {NoRow}
      /\ Lookup(k, s) \in {NoRow, Legacy} \cup made[k]
      /\ Lookup(k, s) = Legacy =>
           \A row \in rows : row.search = Legacy => row.key = k
  <2> DEFINE byKey == {row.search : row \in RowsOf(k)}
  <2>1. CASE byKey # {}
    <3>1. Lookup(k, s) \in byKey
      BY <2>1 DEF Lookup
    <3>2. PICK row \in rows : row.key = k /\ Lookup(k, s) = row.search
      BY <3>1 DEF RowsOf
    <3>3. row \in Row /\ (row.search = Legacy \/ row.search \in made[k])
      BY <3>2 DEF Inductive, TypeOK, RowsBelongToTheirKey
    <3>4. \A other \in rows : other.search = row.search => other.key = k
      BY <3>2 DEF Inductive, RowsBelongToTheirKey
    <3> QED BY <3>2, <3>3, <3>4 DEF Row
  <2>2. CASE byKey = {} /\ s \in Searches(rows)
    <3>1. Lookup(k, s) = s
      BY <2>2 DEF Lookup
    <3>2. s # Legacy
      BY <1>3 DEF Inductive, MadeSound, Legacy
    <3> QED BY <1>3, <3>1, <3>2
  <2>3. CASE byKey = {} /\ s \notin Searches(rows)
    <3>1. Lookup(k, s) = NoRow
      BY <2>3 DEF Lookup
    <3> QED BY <3>1 DEF NoRow, Legacy
  <2> QED BY <2>1, <2>2, <2>3
<1>5. /\ started \in Job /\ started.now = clock /\ started.key = k
      /\ started.search = s /\ started.found = Lookup(k, s)
  BY <1>3, <1>4 DEF Job
<1> HIDE DEF started, k, s
<1>6. PICK new \in Job : /\ job' = [job EXCEPT ![w] = new]
                        /\ new.now = clock /\ new.key = k /\ new.search = s
                        /\ new.found = Lookup(k, s)
  BY <1>2, <1>5
<1>7. /\ new.search \in made[new.key]
      /\ new.found \in {NoRow, Legacy} \cup made[new.key]
      /\ new.found = Legacy =>
           \A row \in rows : row.search = Legacy => row.key = new.key
  BY <1>3, <1>4, <1>6
<1>8. PICK step \in {"writing"} : pc' = [pc EXCEPT ![w] = step]
  BY <1>1
<1>9. new.now <= clock
  BY <1>3, <1>6
<1> QED BY <1>1, <1>6, <1>7, <1>8, <1>9, JobStep DEF PCs

LEMMA LeaveOrRaiseStep ==
  ASSUME Inductive, NEW w \in Callers, Leave(w) \/ PutRaises(w)
  PROVE  Inductive'
<1>1. PICK step \in {"idle", "raised"} :
           /\ pc' = [pc EXCEPT ![w] = step]
           /\ job' = [job EXCEPT ![w] = NoJob]
           /\ UNCHANGED <<clock, rows, made, searches>>
  BY DEF Leave, PutRaises
<1>2. NoJob \in Job /\ NoJob.now <= clock
  BY NoJobSound DEF Inductive, TypeOK
<1> QED BY <1>1, <1>2, JobStep DEF PCs

LEMMA EnvironmentStep ==
  ASSUME Inductive, Tick \/ Restart \/ UNCHANGED vars
  PROVE  Inductive'
<1>1. CASE Tick
  <2>1. /\ clock' = clock + 1 /\ clock \in Nat
        /\ UNCHANGED <<rows, made, searches, pc, job>>
    BY <1>1 DEF Tick, Inductive, TypeOK
  <2>2. ASSUME NEW w \in Callers PROVE JobSound(w)'
    <3>1. JobSound(w) /\ job[w].now \in Nat
      BY DEF Inductive, TypeOK, Job
    <3> QED BY <2>1, <3>1 DEF JobSound
  <2> QED BY <2>1, <2>2 DEF Inductive, TypeOK, RowsBelongToTheirKey, AtMostOneOver,
                           MadeSound
<1>2. CASE Restart
  <2>1. /\ pc' = [w \in Callers |-> "idle"] /\ job' = [w \in Callers |-> NoJob]
        /\ UNCHANGED <<clock, rows, made, searches>>
    BY <1>2 DEF Restart
  <2>2. ASSUME NEW w \in Callers PROVE JobSound(w)'
    BY <2>1, NoJobSound DEF JobSound, Inductive, TypeOK
  <2> QED BY <2>1, <2>2, NoJobSound DEF Inductive, TypeOK, RowsBelongToTheirKey,
                                       AtMostOneOver, MadeSound, PCs
<1>3. CASE UNCHANGED vars
  BY <1>3 DEF vars, Inductive, TypeOK, RowsBelongToTheirKey, AtMostOneOver, MadeSound,
              JobSound
<1> QED BY <1>1, <1>2, <1>3

LEMMA NextKeepsInductive == Inductive /\ [Next]_vars => Inductive'
<1> SUFFICES ASSUME Inductive, [Next]_vars PROVE Inductive'
  OBVIOUS
<1>1. ASSUME NEW w \in Callers, Write(w) PROVE Inductive'
  BY <1>1, InsertStep, UpdateStep, TrimItselfStep, LeaveOrRaiseStep DEF Write
<1>2. ASSUME NEW w \in Callers,
             Get(w) \/ Collect(w) \/ PutBegins(w) \/ Write(w) \/ Leave(w)
      PROVE  Inductive'
  BY <1>1, <1>2, GetStep, CollectStep, PutBeginsStep, LeaveOrRaiseStep
<1>3. CASE Tick \/ Restart \/ UNCHANGED vars
  BY <1>3, EnvironmentStep
<1> QED BY <1>2, <1>3 DEF Next

LEMMA InductiveAlways == Spec => []Inductive
BY InitInductive, NextKeepsInductive, PTL DEF Spec
-----------------------------------------------------------------------------
(* Every variable keeps its type, for any callers, keys and bounds         *)
(* (persistence/cache.py:22-99).                                           *)
THEOREM TypeCorrect == Spec => []TypeOK
<1>1. Inductive => TypeOK
  BY DEF Inductive
<1> QED BY <1>1, InductiveAlways, PTL

(* No interleaving of puts stores a snapshot under the key of another      *)
(* query, or two rows for one key (persistence/cache.py:60-81).            *)
THEOREM RowsBelong == Spec => []RowsBelongToTheirKey
<1>1. Inductive => RowsBelongToTheirKey
  BY DEF Inductive
<1> QED BY <1>1, InductiveAlways, PTL

(* However many puts run at a time, the table never has more than one row  *)
(* above max_entries (persistence/cache.py:88, 91-99).                     *)
THEOREM TableAtMostOneOver == Spec => []AtMostOneOver
<1>1. Inductive => AtMostOneOver
  BY DEF Inductive
<1> QED BY <1>1, InductiveAlways, PTL
-----------------------------------------------------------------------------
\* Within its bound, a put that ends without an exception stores its row.
LEMMA QuietEnd ==
  ASSUME Inductive, NEW w \in Callers, Ends(w), Cardinality(rows) <= MaxEntries
  PROVE  /\ Trimmed(Unexpired(w)) = {}
         /\ PutInserts(w) \/ PutUpdates(w)
         /\ NewRow(w, job[w].key) \in rows'
<1>1. /\ Unexpired(w) \subseteq rows /\ Unexpired(w) \subseteq Row
      /\ IsFiniteSet(Unexpired(w))
      /\ Cardinality(Unexpired(w)) <= Cardinality(rows)
      /\ pc[w] = "writing" /\ w \in DOMAIN pc
  BY UnexpiredSound DEF Ends, Inductive, TypeOK
<1>2. Cardinality(Unexpired(w)) \in Nat /\ Cardinality(rows) \in Nat
  BY <1>1, FS_CardinalityType DEF Inductive
<1>3. Trimmed(Unexpired(w)) = {}
  BY <1>1, <1>2, NothingTrimmed, EntriesAssumption
<1>4. ~PutTrimsItself(w) /\ ~PutRaises(w)
  BY <1>1, <1>3 DEF PutTrimsItself, TrimsOwnRow, Searches, PutRaises, Ends
<1>5. CASE PutInserts(w)
  BY <1>3, <1>5 DEF PutInserts, Commit
<1>6. CASE PutUpdates(w)
  <2>1. PICK row \in Unexpired(w) : row.search = job[w].found
    BY <1>6 DEF PutUpdates, MayUpdate, Searches
  <2>2. row.key = job[w].key
    BY <1>1, <2>1, FoundRowOfKey
  <2>3. rows' = Updated(w, Unexpired(w))
    BY <1>3, <1>6 DEF PutUpdates, Commit
  <2> QED BY <1>3, <1>6, <2>1, <2>2, <2>3 DEF Updated
<1> QED BY <1>3, <1>4, <1>5, <1>6 DEF Ends, Write

(* A put that ends without an exception has stored its snapshot, unless    *)
(* the trim took the row it was refreshing (persistence/cache.py:60-99).   *)
THEOREM QuietPutsStore == Spec => QuietPutStores
<1> DEFINE Stored(w) == \E row \in rows' : /\ row.search = job[w].search
                                          /\ row.key = job[w].key
                                          /\ row.expires_at = job[w].now + CacheTTL
           Excess(w) == \E row \in rows :
                          /\ row.search = job[w].found
                          /\ Cardinality({other \in Newer(rows, row) : other.expires_at > job[w].now})
                               >= MaxEntries
<1>1. ASSUME Inductive, NEW w \in Callers, Ends(w)
      PROVE  Stored(w) \/ Excess(w)
  <2>1. ~PutRaises(w)
    BY <1>1 DEF Ends, PutRaises, Inductive, TypeOK
  <2>2. CASE PutInserts(w)
    <3>1. NewRow(w, job[w].key) \in rows'
      BY <2>2 DEF PutInserts, Commit
    <3> QED BY <3>1 DEF NewRow
  <2>3. CASE PutUpdates(w)
    <3>1. PICK row \in Unexpired(w) : row.search = job[w].found
      BY <2>3 DEF PutUpdates, MayUpdate, Searches
    <3>2. row \notin Trimmed(Unexpired(w))
      BY <2>3, <3>1 DEF PutUpdates, TrimsOwnRow, Searches
    <3>3. row.key = job[w].key
      BY <1>1, <3>1, FoundRowOfKey DEF Ends, Unexpired
    <3>4. NewRow(w, row.key) \in rows'
      BY <2>3, <3>1, <3>2 DEF PutUpdates, Commit, Updated
    <3> QED BY <3>3, <3>4 DEF NewRow
  <2>4. CASE PutTrimsItself(w)
    <3>1. PICK row \in Trimmed(Unexpired(w)) : row.search = job[w].found
      BY <2>4 DEF PutTrimsItself, TrimsOwnRow, Searches
    <3>2. row \in rows /\ Cardinality(Newer(Unexpired(w), row)) >= MaxEntries
      BY <3>1 DEF Trimmed, Unexpired
    <3>3. Newer(Unexpired(w), row) = {other \in Newer(rows, row) : other.expires_at > job[w].now}
      BY DEF Newer, Unexpired
    <3> QED BY <3>1, <3>2, <3>3
  <2> QED BY <1>1, <2>1, <2>2, <2>3, <2>4 DEF Ends, Write
<1>2. Inductive => [\A w \in Callers :
         Ends(w) =>
           \/ \E row \in rows' : /\ row.search = job[w].search
                                 /\ row.key = job[w].key
                                 /\ row.expires_at = job[w].now + CacheTTL
           \/ \E row \in rows :
                /\ row.search = job[w].found
                /\ Cardinality({other \in Newer(rows, row) : other.expires_at > job[w].now})
                     >= MaxEntries]_vars
  BY <1>1
<1> QED BY <1>2, InductiveAlways, PTL DEF QuietPutStores

(* A write drops no live row of another key while the table is within its  *)
(* bound (persistence/cache.py:82-99).                                     *)
THEOREM LiveRowsStay == Spec => NoLiveRowLost
<1>1. ASSUME Inductive, Cardinality(rows) <= MaxEntries, NEW w \in Callers, Ends(w),
             NEW row \in rows, ~(row.expires_at <= clock)
      PROVE  \E other \in rows' : other.key = row.key
  <2>1. /\ Trimmed(Unexpired(w)) = {}
        /\ PutInserts(w) \/ PutUpdates(w)
        /\ NewRow(w, job[w].key) \in rows'
    BY <1>1, QuietEnd
  <2>2. job[w].now \in Nat /\ job[w].now <= clock /\ clock \in Nat
        /\ row.expires_at \in Nat
    BY <1>1 DEF Inductive, TypeOK, JobSound, Job, Row
  <2>3. row \in Unexpired(w)
    BY <1>1, <2>2 DEF Unexpired
  <2>4. CASE row.search # job[w].found \/ PutInserts(w)
    BY <2>1, <2>3, <2>4 DEF PutInserts, PutUpdates, Commit, Updated
  <2>5. CASE row.search = job[w].found
    <3>1. row.key = job[w].key
      BY <1>1, <2>5, FoundRowOfKey DEF Ends
    <3>2. NewRow(w, job[w].key).key = row.key
      BY <3>1 DEF NewRow
    <3> QED BY <2>1, <3>2
  <2> QED BY <2>4, <2>5
<1>2. Inductive => [Cardinality(rows) <= MaxEntries /\ (\E w \in Callers : Ends(w)) =>
         \A row \in rows :
           \/ row.expires_at <= clock
           \/ row.search = Legacy
           \/ \E other \in rows' : other.key = row.key]_vars
  BY <1>1
<1> QED BY <1>2, InductiveAlways, PTL DEF NoLiveRowLost
=============================================================================
