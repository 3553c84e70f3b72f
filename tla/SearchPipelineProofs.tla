------------------------ MODULE SearchPipelineProofs ------------------------
(***************************************************************************)
(* For any marketplaces, queries, concurrent requests, thresholds and      *)
(* time limits: the pipeline is type correct, its circuit breakers are     *)
(* sound, every snapshot is honest about the age of its offers, and a      *)
(* search that found nothing is not cached as it is.                       *)
(***************************************************************************)
EXTENDS SearchPipeline, TLAPS

USE DEF NoData, NotDisabled

\* A snapshot of one of the first n searches, with offers no newer than it.
Good(snapshot, n) ==
  /\ snapshot \in Snapshot
  /\ snapshot.search <= n
  /\ \A s \in Sources : snapshot.data[s] <= snapshot.search
  /\ Honest(snapshot)

EmptyFailure(snapshot) ==
  snapshot.search # 0 /\ snapshot.status = "failed" /\ snapshot.ai = "none"

CacheGood(entries, n) ==
  /\ entries \in [Keys -> Entry]
  /\ \A k \in Keys : /\ Good(entries[k].snapshot, n)
                     /\ ~EmptyFailure(entries[k].snapshot)

\* What a collector reports in each of its steps.
CollectorSound(outcome) ==
  /\ outcome.state # "stale"
  /\ outcome.step = "ok" => outcome.state = "ready"
  /\ outcome.step = "unused" => outcome.state = "not_configured"

\* A collecting request is newer than what it read, and collects from the
\* configured sources only.
RequestSound(r) ==
  /\ search[r] <= searches
  /\ \A s \in Sources : CollectorSound(collector[r][s])
  /\ pc[r] = "collecting" =>
       /\ previous[r].search < search[r]
       /\ \A s \in Sources \ configured : collector[r][s] = Unused

Inductive ==
  /\ TypeOK
  /\ BreakersSound
  /\ CacheGood(cache, searches)
  /\ \A r \in Requests : /\ Good(previous[r], searches)
                         /\ Good(result[r], searches)
                         /\ RequestSound(r)
-----------------------------------------------------------------------------
(* The health record. *)

LEMMA NewRecordSound ==
  ASSUME NEW now \in Nat
  PROVE  NewRecord \in HealthRecord /\ SoundRecord(NewRecord, now)
BY ThresholdAssumption, CooldownAssumption DEF NewRecord, HealthRecord, SoundRecord

LEMMA ReleasedSound ==
  ASSUME NEW now \in Nat, NEW record \in HealthRecord, SoundRecord(record, now)
  PROVE  Released(record, now) \in HealthRecord /\ SoundRecord(Released(record, now), now)
BY NewRecordSound DEF Released

LEMMA AfterFailureSound ==
  ASSUME NEW now \in Nat \ {0}, NEW record \in HealthRecord, SoundRecord(record, now)
  PROVE  /\ AfterFailure(record, now) \in HealthRecord
         /\ SoundRecord(AfterFailure(record, now), now)
BY ThresholdAssumption, CooldownAssumption DEF AfterFailure, HealthRecord, SoundRecord

LEMMA LaterSound ==
  ASSUME NEW now \in Nat, NEW record \in HealthRecord, SoundRecord(record, now)
  PROVE  SoundRecord(record, now + 1)
BY CooldownAssumption DEF HealthRecord, SoundRecord
-----------------------------------------------------------------------------
(* Snapshots. *)

LEMMA NoSnapshotGood ==
  ASSUME NEW n \in Nat
  PROVE  Good(NoSnapshot, n) /\ ~EmptyFailure(NoSnapshot) /\ NoSnapshot.search = 0
BY DEF Good, NoSnapshot, Snapshot, EmptyFailure, Honest, Old, SourceStates, Statuses, AIStates

LEMMA LaterGood ==
  ASSUME NEW n \in Nat, NEW m \in Nat, n <= m, NEW snapshot, Good(snapshot, n)
  PROVE  Good(snapshot, m)
BY DEF Good, Snapshot

LEMMA AnalyzedGood ==
  ASSUME NEW n \in Nat, NEW snapshot, Good(snapshot, n),
         NEW ai \in AIStates \ {"none"}
  PROVE  /\ Good([snapshot EXCEPT !.ai = ai], n)
         /\ ~EmptyFailure([snapshot EXCEPT !.ai = ai])
BY DEF Good, Snapshot, EmptyFailure, Honest, Old, AIStates

LEMMA CallTypes == NoCall \in Calls
BY KeysAssumption DEF NoCall, Calls

LEMMA PutGood ==
  ASSUME NEW n \in Nat, NEW entries, CacheGood(entries, n), clock \in Nat,
         NEW k \in Keys, NEW snapshot, Good(snapshot, n), ~EmptyFailure(snapshot)
  PROVE  CacheGood(Put(entries, k, snapshot), n)
BY TTLAssumption DEF CacheGood, Put, Entry, Good

LEMMA CachedGood ==
  ASSUME NEW n \in Nat, CacheGood(cache, n), NEW k \in Keys
  PROVE  Good(Cached(k), n) /\ CacheGood(AfterGet(k), n)
<1>1. NoEntry \in Entry /\ NoEntry.snapshot = NoSnapshot
  BY NoSnapshotGood DEF NoEntry, Entry, Good
<1>2. QED
  BY <1>1, NoSnapshotGood DEF Cached, AfterGet, CacheGood

(* Merging fresh results with those of an honest, older snapshot gives an  *)
(* honest snapshot.                                                        *)
LEMMA MergedGood ==
  ASSUME Inductive, NEW r \in Requests, pc[r] = "collecting"
  PROVE  /\ Good(Merged(r), searches)
         /\ Fresh(r) \cup Reused(r) # {} => ~EmptyFailure(Merged(r))
<1> USE DEF Inductive
<1>0. /\ previous[r] \in Snapshot
      /\ search[r] \in Nat /\ searches \in Nat
      /\ collector[r] \in [Sources -> Collector]
      /\ previous[r].search \in Nat
      /\ previous[r].data \in [Sources -> Nat]
      /\ previous[r].search < search[r]
      /\ search[r] <= searches
      /\ \A s \in Sources : previous[r].data[s] <= previous[r].search
  BY DEF TypeOK, Good, RequestSound, Snapshot
<1>1. Merged(r) \in Snapshot
  <2>1. CollectionStatus(r) \in Statuses
    BY DEF CollectionStatus, Statuses
  <2>2. QED
    BY <1>0, <2>1 DEF Merged, MergedData, MergedState, Snapshot, Collector, SourceStates, AIStates
<1>2. \A s \in Sources : Merged(r).data[s] <= search[r]
  BY <1>0 DEF Merged, MergedData, MergedState
<1>3. \A s \in Sources : Old(Merged(r), s) <=> s \in Reused(r)
  BY <1>0 DEF Merged, MergedData, MergedState, Old, Reused, Fresh
<1>4. \A s \in Sources : Merged(r).state[s] = "stale" <=> s \in Reused(r)
  BY <1>0 DEF Merged, MergedData, MergedState, RequestSound, CollectorSound
<1>5. \A s \in Reused(r) : /\ Merged(r).data[s] <= Merged(r).stale_from[s]
                           /\ Merged(r).stale_from[s] < Merged(r).search
  BY <1>0 DEF Merged, MergedData, MergedState, Reused, Fresh
<1>6. Merged(r).stale <=> \E s \in Sources : Old(Merged(r), s)
  BY <1>3 DEF Merged, MergedData, MergedState, Reused
<1>7. Merged(r).status = "complete" =>
        \A s \in Sources : Merged(r).state[s] \in {"ready", "not_configured"}
  <2> SUFFICES ASSUME CollectionStatus(r) = "complete", NEW s \in Sources
               PROVE  Merged(r).state[s] \in {"ready", "not_configured"}
    BY DEF Merged, MergedData, MergedState
  <2>1. /\ configured \subseteq Fresh(r)
        /\ Reused(r) = {}
        /\ \A u \in configured : collector[r][u].step # "partial"
    BY DEF CollectionStatus
  <2>2. Merged(r).state[s] = collector[r][s].state
    BY <2>1 DEF Merged, MergedData, MergedState
  <2>3. CASE s \in configured
    BY <2>1, <2>2, <2>3 DEF Fresh, Succeeded, RequestSound, CollectorSound
  <2>4. CASE s \notin configured
    BY <2>2, <2>4 DEF RequestSound, CollectorSound, Unused, Outcome
  <2>5. QED
    BY <2>3, <2>4
<1>8. Merged(r).status = "failed" => Fresh(r) \cup Reused(r) = {}
  BY DEF Merged, MergedData, MergedState, CollectionStatus
<1>9. Merged(r).status = "failed" => \A s \in Sources : Merged(r).data[s] = NoData
  BY <1>8 DEF Merged, MergedData, MergedState, Reused
<1>10. Merged(r).status # "no_sources_configured"
  BY DEF Merged, MergedData, MergedState, CollectionStatus
<1>11. Honest(Merged(r))
  BY <1>3, <1>4, <1>5, <1>6, <1>7, <1>9, <1>10 DEF Honest
<1>12. Merged(r).search = search[r]
  BY DEF Merged, MergedData, MergedState
<1>13. QED
  BY <1>0, <1>1, <1>2, <1>8, <1>11, <1>12 DEF Good, EmptyFailure

LEMMA WithoutAdaptersGood ==
  ASSUME NEW n \in Nat, NEW found, Good(found, n)
  PROVE  /\ Good(WithoutAdapters(found, n + 1), n + 1)
         /\ ~EmptyFailure(WithoutAdapters(found, n + 1))
<1> DEFINE new == WithoutAdapters(found, n + 1)
           reused == {s \in Sources : found.data[s] # NoData}
<1>0. /\ found.search \in Nat /\ found.search <= n
      /\ found.data \in [Sources -> Nat]
      /\ \A s \in Sources : found.data[s] <= found.search
  BY DEF Good, Snapshot
<1>1. /\ new.search = n + 1
      /\ new.data = found.data
      /\ new.state = [s \in Sources |-> IF s \in reused THEN "stale" ELSE "not_configured"]
      /\ new.stale_from = [s \in Sources |-> IF s \in reused THEN found.search ELSE NoData]
      /\ new.status = "no_sources_configured"
      /\ new.stale = (reused # {})
  BY DEF WithoutAdapters
<1>2. new \in Snapshot
  BY <1>0 DEF WithoutAdapters, Snapshot, SourceStates, Statuses, AIStates
<1>3. \A s \in Sources : new.data[s] <= n /\ (Old(new, s) <=> s \in reused)
  BY <1>0, <1>1 DEF Old
<1>4. Honest(new)
  <2>1. \A s \in Sources : new.state[s] = "stale" <=> s \in reused
    BY <1>1
  <2>2. \A s \in Sources :
          s \in reused => new.data[s] <= new.stale_from[s] /\ new.stale_from[s] < new.search
    BY <1>0, <1>1
  <2>3. new.stale <=> \E s \in Sources : s \in reused
    BY <1>1
  <2>4. \A s \in Sources : new.data[s] # new.search
    BY <1>0, <1>1, <1>3
  <2>5. QED
    BY <1>1, <1>3, <2>1, <2>2, <2>3, <2>4 DEF Honest
<1>5. QED
  BY <1>0, <1>1, <1>2, <1>3, <1>4 DEF Good, EmptyFailure
-----------------------------------------------------------------------------
(* The end of a request. *)

\* What the last steps of a request keep: typed, good results and cache.
Kept(n) ==
  /\ CacheGood(cache', n)
  /\ result' \in [Requests -> Snapshot]
  /\ \A r \in Requests : Good(result'[r], n)
  /\ pc' \in [Requests -> PCs]
  /\ call' \in [Requests -> Calls]

LEMMA ReturnKeeps ==
  ASSUME NEW n \in Nat, TypeOK, \A q \in Requests : Good(result[q], n),
         NEW r \in Requests, NEW entries, CacheGood(entries, n),
         NEW snapshot, Good(snapshot, n),
         Return(r, entries, snapshot)
  PROVE  Kept(n)
<1>1. result' = [result EXCEPT ![r] = snapshot] /\ snapshot \in Snapshot
  BY DEF Return, Good
<1>2. \A q \in Requests : result'[q] = IF q = r THEN snapshot ELSE result[q]
  BY <1>1 DEF TypeOK
<1>3. \A q \in Requests : Good(result'[q], n)
  BY <1>2
<1>4. CacheGood(cache', n)
  BY DEF Return
<1>5. QED
  BY <1>1, <1>3, <1>4, CallTypes DEF Return, Kept, TypeOK, PCs

LEMMA MaybeAnalyzeKeeps ==
  ASSUME NEW n \in Nat, TypeOK, \A q \in Requests : Good(result[q], n),
         NEW r \in Requests, NEW c \in Calls,
         NEW entries, CacheGood(entries, n),
         NEW snapshot, Good(snapshot, n),
         MaybeAnalyze(r, c, entries, snapshot)
  PROVE  Kept(n) /\ (\A q \in Requests : pc'[q] = "collecting" => q # r /\ pc[q] = "collecting")
<1>1. CASE Return(r, entries, snapshot)
  BY <1>1, ReturnKeeps DEF Return, TypeOK
<1>2. ASSUME NEW analyzed, analyzed = [snapshot EXCEPT !.ai = "disabled"],
             Return(r, Put(entries, c.key, analyzed), analyzed)
      PROVE  Kept(n) /\ (\A q \in Requests : pc'[q] = "collecting" => q # r /\ pc[q] = "collecting")
  <2>1. Good(analyzed, n) /\ ~EmptyFailure(analyzed)
    BY <1>2, AnalyzedGood DEF AIStates
  <2>2. c.key \in Keys /\ clock \in Nat
    BY DEF Calls, TypeOK
  <2>3. CacheGood(Put(entries, c.key, analyzed), n)
    BY <2>1, <2>2, PutGood
  <2>4. QED
    BY <1>2, <2>1, <2>3, ReturnKeeps DEF Return, TypeOK
<1>3. ASSUME result' = [result EXCEPT ![r] = snapshot],
             cache' = entries,
             pc' = [pc EXCEPT ![r] = "analyzing"],
             call' = [call EXCEPT ![r] = c]
      PROVE  Kept(n) /\ (\A q \in Requests : pc'[q] = "collecting" => q # r /\ pc[q] = "collecting")
  <2>1. \A q \in Requests : result'[q] = IF q = r THEN snapshot ELSE result[q]
    BY <1>3 DEF TypeOK
  <2>2. \A q \in Requests : Good(result'[q], n)
    BY <2>1
  <2>3. CacheGood(cache', n)
    BY <1>3
  <2>4. QED
    BY <1>3, <2>2, <2>3 DEF Kept, TypeOK, PCs, Good
<1>4. QED
  BY <1>1, <1>2, <1>3 DEF MaybeAnalyze
LEMMA LaterCacheGood ==
  ASSUME NEW n \in Nat, NEW m \in Nat, n <= m, NEW entries, CacheGood(entries, n)
  PROVE  CacheGood(entries, m)
BY LaterGood DEF CacheGood
-----------------------------------------------------------------------------
(* The inductive invariant. *)

LEMMA InitInductive == Init => Inductive
<1> SUFFICES ASSUME Init PROVE Inductive
  OBVIOUS
<1>1. Good(NoSnapshot, 0) /\ ~EmptyFailure(NoSnapshot) /\ NoSnapshot \in Snapshot
  BY NoSnapshotGood DEF Good
<1>2. NewRecord \in HealthRecord /\ SoundRecord(NewRecord, 1)
  BY NewRecordSound
<1>3. Unused \in Collector /\ CollectorSound(Unused)
  BY DEF Unused, Outcome, Collector, CollectorSteps, SourceStates, CollectorSound
<1>4. TypeOK
  BY <1>1, <1>2, <1>3, CallTypes DEF Init, TypeOK, NoEntry, Entry, PCs
<1>5. BreakersSound
  BY <1>2 DEF Init, BreakersSound
<1>6. CacheGood(cache, searches)
  BY <1>1, <1>4 DEF Init, CacheGood, NoEntry, TypeOK
<1>7. QED
  BY <1>1, <1>3, <1>4, <1>5, <1>6 DEF Init, Inductive, RequestSound

(* A call that ends or waits without a search of its own keeps everything. *)
LEMMA ServeStep ==
  ASSUME Inductive, NEW r \in Requests, NEW c \in Calls, ServeFromCache(r, c)
  PROVE  Inductive'
<1> USE DEF Inductive
<1>1. searches \in Nat /\ c.key \in Keys
  BY DEF TypeOK, Calls
<1>2. Good(Cached(c.key), searches)
  BY <1>1, CachedGood
<1>3. /\ Kept(searches)
      /\ \A q \in Requests : pc'[q] = "collecting" => q # r /\ pc[q] = "collecting"
  BY <1>1, <1>2, MaybeAnalyzeKeeps DEF ServeFromCache
<1>4. TypeOK'
  BY <1>3 DEF ServeFromCache, TypeOK, Kept, CacheGood
<1>5. BreakersSound'
  BY DEF ServeFromCache, BreakersSound
<1>6. CacheGood(cache, searches)' /\ \A q \in Requests : Good(result[q], searches)'
  BY <1>3 DEF ServeFromCache, Kept
<1>7. \A q \in Requests : Good(previous[q], searches)' /\ RequestSound(q)'
  BY <1>3 DEF ServeFromCache, RequestSound
<1>8. QED
  BY <1>4, <1>5, <1>6, <1>7

LEMMA StartStep ==
  ASSUME Inductive, NEW r \in Requests, NEW c \in Calls, StartCollection(r, c)
  PROVE  Inductive'
<1> USE DEF Inductive
<1>1. searches \in Nat /\ searches + 1 \in Nat /\ c.key \in Keys
  BY DEF TypeOK, Calls
<1>2. Good(Cached(c.key), searches) /\ CacheGood(AfterGet(c.key), searches)
  BY <1>1, CachedGood
<1>3. /\ Good(Cached(c.key), searches + 1)
      /\ CacheGood(AfterGet(c.key), searches + 1)
      /\ Good(NoSnapshot, searches + 1)
      /\ \A q \in Requests : /\ Good(previous[q], searches + 1)
                             /\ Good(result[q], searches + 1)
  BY <1>1, <1>2, LaterGood, LaterCacheGood, NoSnapshotGood
<1>4. /\ Unused \in Collector /\ CollectorSound(Unused)
      /\ Waiting \in Collector /\ CollectorSound(Waiting)
  BY DEF Unused, Waiting, Outcome, Collector, CollectorSteps, SourceStates, CollectorSound
<1>5. TypeOK'
  BY <1>1, <1>3, <1>4 DEF StartCollection, TypeOK, CacheGood, Good, PCs
<1>6. BreakersSound'
  BY DEF StartCollection, BreakersSound
<1>7. CacheGood(cache, searches)'
  BY <1>3 DEF StartCollection
<1>8. \A q \in Requests : Good(previous[q], searches)' /\ Good(result[q], searches)'
  BY <1>3 DEF StartCollection, TypeOK
<1>9. \A q \in Requests : RequestSound(q)'
  <2>1. ASSUME NEW q \in Requests, q # r PROVE RequestSound(q)'
    BY <1>1, <2>1 DEF StartCollection, RequestSound, TypeOK, CollectorSound
  <2>2. Cached(c.key).search < searches + 1
    BY <1>1, <1>2 DEF Good, Snapshot
  <2>3. RequestSound(r)'
    BY <1>1, <1>4, <2>2 DEF StartCollection, RequestSound, TypeOK, CollectorSound
  <2>4. QED
    BY <2>1, <2>3
<1>10. QED
  BY <1>5, <1>6, <1>7, <1>8, <1>9

LEMMA WithoutAdaptersStep ==
  ASSUME Inductive, NEW r \in Requests, NEW c \in Calls, AnswerWithoutAdapters(r, c)
  PROVE  Inductive'
<1> DEFINE n == searches + 1
           new == WithoutAdapters(Cached(c.key), n)
<1> USE DEF Inductive
<1>1. searches \in Nat /\ n \in Nat /\ searches <= n /\ c.key \in Keys /\ clock \in Nat
  BY DEF TypeOK, Calls
<1>2. Good(Cached(c.key), searches) /\ CacheGood(AfterGet(c.key), searches)
  BY <1>1, CachedGood
<1>3. /\ CacheGood(AfterGet(c.key), n)
      /\ \A q \in Requests : Good(previous[q], n) /\ Good(result[q], n)
  BY <1>1, <1>2, LaterGood, LaterCacheGood
<1>4. Good(new, n) /\ ~EmptyFailure(new)
  BY <1>1, <1>2, WithoutAdaptersGood
<1>5. CacheGood(Put(AfterGet(c.key), c.key, new), n)
  BY <1>1, <1>3, <1>4, PutGood
<1>6. /\ Kept(n)
      /\ \A q \in Requests : pc'[q] = "collecting" => q # r /\ pc[q] = "collecting"
  <2>1. MaybeAnalyze(r, c, Put(AfterGet(c.key), c.key, new), new)
    BY DEF AnswerWithoutAdapters
  <2> HIDE DEF n, new
  <2>2. QED
    BY <1>1, <1>3, <1>4, <1>5, <2>1, MaybeAnalyzeKeeps
<1>7. TypeOK'
  BY <1>1, <1>6 DEF AnswerWithoutAdapters, TypeOK, Kept, CacheGood
<1>8. BreakersSound'
  BY DEF AnswerWithoutAdapters, BreakersSound
<1>9. CacheGood(cache, searches)' /\ \A q \in Requests : Good(result[q], searches)'
  BY <1>6 DEF AnswerWithoutAdapters, Kept
<1>10. \A q \in Requests : Good(previous[q], searches)' /\ RequestSound(q)'
  BY <1>1, <1>3, <1>6 DEF AnswerWithoutAdapters, RequestSound, TypeOK
<1>11. QED
  BY <1>7, <1>8, <1>9, <1>10
\* A step of one collector writes one outcome and the record of its source.
LEMMA CollectedStep ==
  ASSUME Inductive, NEW r \in Requests, NEW s \in Sources,
         NEW step \in CollectorSteps, NEW offers \in BOOLEAN, NEW state \in SourceStates,
         CollectorSound(Outcome(step, offers, state)),
         pc[r] = "collecting", collector[r][s].step \in {"waiting", "searching"},
         NEW record \in HealthRecord, SoundRecord(record, clock),
         health' = [health EXCEPT ![s] = record],
         Collected(r, s, step, offers, state)
  PROVE  Inductive'
<1> USE DEF Inductive
<1>1. Outcome(step, offers, state) \in Collector
  BY DEF Outcome, Collector
<1>2. TypeOK'
  BY <1>1 DEF Collected, TypeOK
<1>3. BreakersSound'
  BY DEF Collected, BreakersSound, TypeOK
<1>4. CacheGood(cache, searches)'
  BY DEF Collected
<1>5. \A q \in Requests : Good(previous[q], searches)' /\ Good(result[q], searches)'
  BY DEF Collected
<1>6. s \in configured
  BY DEF RequestSound, Unused, Outcome
<1>7. \A q \in Requests, u \in Sources :
        collector'[q][u] = IF q = r /\ u = s THEN Outcome(step, offers, state)
                                            ELSE collector[q][u]
  BY DEF Collected, TypeOK
<1>8. \A q \in Requests : RequestSound(q)'
  BY <1>6, <1>7 DEF Collected, RequestSound, CollectorSound
<1>9. QED
  BY <1>2, <1>3, <1>4, <1>5, <1>8

LEMMA CollectStep ==
  ASSUME Inductive, NEW r \in Requests, NEW s \in Sources, Collect(r, s)
  PROVE  Inductive'
<1>1. /\ clock \in Nat \ {0}
      /\ health[s] \in HealthRecord /\ SoundRecord(health[s], clock)
  BY DEF Inductive, TypeOK, BreakersSound
<1>2. /\ Released(health[s], clock) \in HealthRecord
      /\ SoundRecord(Released(health[s], clock), clock)
  BY <1>1, ReleasedSound
<1>3. /\ AfterFailure(health[s], clock) \in HealthRecord
      /\ SoundRecord(AfterFailure(health[s], clock), clock)
  BY <1>1, AfterFailureSound
<1>4. /\ AfterSuccess(health[s]) \in HealthRecord
      /\ SoundRecord(AfterSuccess(health[s]), clock)
      /\ ReportedState(AfterSuccess(health[s]), clock, "ready") = "ready"
  BY <1>1, NewRecordSound DEF AfterSuccess, ReportedState, Open, NewRecord
<1> USE DEF CollectorSteps, SourceStates, CollectorSound, Outcome
<1>5. CASE Refuse(r, s)
  BY <1>2, <1>5, CollectedStep DEF Refuse, MayEnter
<1>6. CASE Admit(r, s)
  BY <1>2, <1>6, CollectedStep DEF Admit, MayEnter
<1>7. CASE SearchFails(r, s)
  <2>1. ReportedState(AfterFailure(health[s], clock), clock, "unavailable")
          \in {"unavailable", "rate_limited"}
    BY DEF ReportedState
  <2>2. QED
    BY <1>3, <1>7, <2>1, CollectedStep DEF SearchFails, Collecting
<1>8. ASSUME NEW offers \in BOOLEAN, CollectAll(r, s, offers) PROVE Inductive'
  BY <1>4, <1>8, CollectedStep DEF CollectAll, Collecting
<1>9. CASE CollectPartly(r, s)
  <2>1. ReportedState(AfterFailure(health[s], clock), clock, "ready")
          \in {"ready", "rate_limited"}
    BY DEF ReportedState
  <2>2. QED
    BY <1>3, <1>9, <2>1, CollectedStep DEF CollectPartly, Collecting
<1>10. CASE CollectorRaises(r, s)
  <2>1. health' = [health EXCEPT ![s] = health[s]]
    BY <1>10 DEF CollectorRaises, Inductive, TypeOK
  <2>2. QED
    BY <1>1, <1>10, <2>1, CollectedStep DEF CollectorRaises, Collecting
<1>11. QED
  BY <1>5, <1>6, <1>7, <1>8, <1>9, <1>10 DEF Collect

LEMMA AssembleStep ==
  ASSUME Inductive, NEW r \in Requests, Assemble(r)
  PROVE  Inductive'
<1> DEFINE entries == IF Fresh(r) \cup Reused(r) # {}
                        THEN Put(cache, call[r].key, Merged(r))
                        ELSE cache
<1> USE DEF Inductive
<1>1. /\ searches \in Nat /\ clock \in Nat
      /\ call[r] \in Calls /\ call[r].key \in Keys
      /\ pc[r] = "collecting"
  BY DEF TypeOK, Calls, Assemble
<1>2. /\ Good(Merged(r), searches)
      /\ Fresh(r) \cup Reused(r) # {} => ~EmptyFailure(Merged(r))
  BY <1>1, MergedGood
<1>3. CacheGood(entries, searches)
  BY <1>1, <1>2, PutGood
<1>4. MaybeAnalyze(r, call[r], entries, Merged(r))
  BY DEF Assemble
<1>5. /\ Kept(searches)
      /\ \A q \in Requests : pc'[q] = "collecting" => q # r /\ pc[q] = "collecting"
  <2> HIDE DEF entries
  <2>1. QED
    BY <1>1, <1>2, <1>3, <1>4, MaybeAnalyzeKeeps
<1>6. /\ Good(NoSnapshot, searches) /\ NoSnapshot \in Snapshot
      /\ Unused \in Collector /\ CollectorSound(Unused)
  BY <1>1, NoSnapshotGood
     DEF Good, Unused, Outcome, Collector, CollectorSteps, SourceStates, CollectorSound
<1>7. TypeOK'
  BY <1>5, <1>6 DEF Assemble, TypeOK, Kept, CacheGood
<1>8. BreakersSound'
  BY DEF Assemble, BreakersSound
<1>9. CacheGood(cache, searches)' /\ \A q \in Requests : Good(result[q], searches)'
  BY <1>5 DEF Assemble, Kept
<1>10. \A q \in Requests : Good(previous[q], searches)'
  BY <1>6 DEF Assemble, TypeOK
<1>11. \A q \in Requests : RequestSound(q)'
  BY <1>1, <1>5, <1>6 DEF Assemble, RequestSound, TypeOK
<1>12. QED
  BY <1>7, <1>8, <1>9, <1>10, <1>11

\* A run that raises only clears its slot.
LEMMA AbandonStep ==
  ASSUME Inductive, NEW r \in Requests, Abandon(r)
  PROVE  Inductive'
<1> USE DEF Inductive
<1>1. searches \in Nat
  BY DEF TypeOK
<1>2. /\ Good(NoSnapshot, searches) /\ NoSnapshot \in Snapshot
      /\ Unused \in Collector /\ CollectorSound(Unused)
  BY <1>1, NoSnapshotGood
     DEF Good, Unused, Outcome, Collector, CollectorSteps, SourceStates, CollectorSound
<1>3. TypeOK'
  BY <1>2, CallTypes DEF Abandon, TypeOK, PCs
<1>4. BreakersSound' /\ CacheGood(cache, searches)'
  BY DEF Abandon, BreakersSound
<1>5. \A q \in Requests : Good(result[q], searches)' /\ Good(previous[q], searches)'
  BY <1>2 DEF Abandon, TypeOK
<1>6. \A q \in Requests : RequestSound(q)'
  BY <1>1, <1>2 DEF Abandon, RequestSound, TypeOK
<1>7. QED
  BY <1>3, <1>4, <1>5, <1>6

LEMMA AnalysisStep ==
  ASSUME Inductive, NEW r \in Requests, NEW ai \in {"failed", "result"},
         AnalysisAnswers(r, ai)
  PROVE  Inductive'
<1> DEFINE analyzed == [result[r] EXCEPT !.ai = ai]
<1> USE DEF Inductive
<1>1. searches \in Nat /\ clock \in Nat /\ call[r].key \in Keys
  BY DEF TypeOK, Calls
<1>2. Good(analyzed, searches) /\ ~EmptyFailure(analyzed)
  BY <1>1, AnalyzedGood DEF AIStates
<1>3. CacheGood(Put(cache, call[r].key, analyzed), searches)
  BY <1>1, <1>2, PutGood
<1>4. Return(r, Put(cache, call[r].key, analyzed), analyzed)
  BY DEF AnalysisAnswers
<1>5. Kept(searches)
  <2> HIDE DEF analyzed
  <2>1. QED
    BY <1>1, <1>2, <1>3, <1>4, ReturnKeeps
<1>6. TypeOK'
  BY <1>5 DEF AnalysisAnswers, TypeOK, Kept, CacheGood
<1>7. BreakersSound'
  BY DEF AnalysisAnswers, BreakersSound
<1>8. CacheGood(cache, searches)' /\ \A q \in Requests : Good(result[q], searches)'
  BY <1>5 DEF AnalysisAnswers, Kept
<1>9. \A q \in Requests : Good(previous[q], searches)' /\ RequestSound(q)'
  BY <1>4 DEF AnalysisAnswers, Return, RequestSound, TypeOK
<1>10. QED
  BY <1>6, <1>7, <1>8, <1>9

LEMMA TickStep == Inductive /\ Tick => Inductive'
<1> SUFFICES ASSUME Inductive, Tick PROVE Inductive'
  OBVIOUS
<1> USE DEF Inductive, Tick
<1>1. TypeOK'
  BY DEF TypeOK
<1>2. BreakersSound'
  BY LaterSound DEF BreakersSound, TypeOK
<1>3. CacheGood(cache, searches)'
  OBVIOUS
<1>4. \A q \in Requests : /\ Good(previous[q], searches)'
                         /\ Good(result[q], searches)'
                         /\ RequestSound(q)'
  BY DEF RequestSound
<1>5. QED
  BY <1>1, <1>2, <1>3, <1>4

LEMMA RestartStep == Inductive /\ Restart => Inductive'
<1> SUFFICES ASSUME Inductive, Restart PROVE Inductive'
  OBVIOUS
<1> USE DEF Inductive, Restart
<1>1. /\ searches \in Nat /\ clock \in Nat
      /\ Good(NoSnapshot, searches) /\ NoSnapshot \in Snapshot /\ ~EmptyFailure(NoSnapshot)
  BY NoSnapshotGood DEF TypeOK, Good
<1>2. /\ NewRecord \in HealthRecord /\ SoundRecord(NewRecord, clock)
      /\ Unused \in Collector /\ CollectorSound(Unused)
  BY <1>1, NewRecordSound
     DEF Unused, Outcome, Collector, CollectorSteps, SourceStates, CollectorSound
<1>3. CacheGood(cache, searches)'
  BY <1>1 DEF CacheGood, NoEntry, Entry
<1>4. TypeOK'
  BY <1>1, <1>2, <1>3, CallTypes DEF TypeOK, PCs, CacheGood
<1>5. BreakersSound'
  BY <1>2 DEF BreakersSound
<1>6. \A q \in Requests : /\ Good(previous[q], searches)'
                         /\ Good(result[q], searches)'
                         /\ RequestSound(q)'
  BY <1>1, <1>2 DEF RequestSound
<1>7. QED
  BY <1>3, <1>4, <1>5, <1>6

LEMMA InductiveStep == Inductive /\ [Next]_vars => Inductive'
<1> SUFFICES ASSUME Inductive, [Next]_vars PROVE Inductive'
  OBVIOUS
<1>1. ASSUME NEW r \in Requests, NEW c \in Calls, Arrive(r, c) PROVE Inductive'
  BY <1>1, ServeStep, StartStep, WithoutAdaptersStep DEF Arrive
<1>2. ASSUME NEW r \in Requests, Step(r) PROVE Inductive'
  BY <1>2, CollectStep, AssembleStep, AbandonStep, AnalysisStep DEF Step
<1>3. CASE UNCHANGED vars
  <2>1. TypeOK' /\ BreakersSound'
    BY <1>3 DEF Inductive, vars, TypeOK, BreakersSound
  <2>2. CacheGood(cache, searches)'
    BY <1>3 DEF Inductive, vars
  <2>3. \A q \in Requests : /\ Good(previous[q], searches)'
                           /\ Good(result[q], searches)'
                           /\ RequestSound(q)'
    BY <1>3 DEF Inductive, vars, RequestSound
  <2>4. QED
    BY <2>1, <2>2, <2>3 DEF Inductive
<1>4. QED
  BY <1>1, <1>2, <1>3, TickStep, RestartStep DEF Next

LEMMA InductiveInvariant == Spec => []Inductive
BY InitInductive, InductiveStep, PTL DEF Spec
-----------------------------------------------------------------------------
(* The pipeline is type correct (search_pipeline.py:83-317).               *)
THEOREM TypeCorrect == Spec => []TypeOK
<1>1. Inductive => TypeOK
  BY DEF Inductive
<1>2. QED
  BY <1>1, InductiveInvariant, PTL

(* A breaker is open exactly when its failures have reached the threshold, *)
(* for at most one cooldown (source_health.py:51-105).                     *)
THEOREM BreakersAreSound == Spec => []BreakersSound
<1>1. Inductive => BreakersSound
  BY DEF Inductive
<1>2. QED
  BY <1>1, InductiveInvariant, PTL

(* Every snapshot cached or returned tells truthfully which of its offers  *)
(* are old and how old they may be (search_pipeline.py:125-188, 319-378).  *)
THEOREM SnapshotsAreHonest == Spec => []SnapshotsHonest
<1>1. Inductive => SnapshotsHonest
  BY DEF Inductive, CacheGood, Good, SnapshotsHonest
<1>2. QED
  BY <1>1, InductiveInvariant, PTL

(* A search that failed everywhere is not cached unless an analysis put it *)
(* there (search_pipeline.py:186-187, 209).                                *)
THEOREM EmptyFailuresAreNotCached == Spec => []EmptyFailuresNotCached
<1>1. Inductive => EmptyFailuresNotCached
  BY DEF Inductive, CacheGood, EmptyFailure, EmptyFailuresNotCached
<1>2. QED
  BY <1>1, InductiveInvariant, PTL

-----------------------------------------------------------------------------
(* What no step of the pipeline ever does: close a breaker early, search behind
   an open one, answer with something older than what was read, or take cached
   offers away because of a failure.  All follow from the inductive invariant,
   the last one from Identified as well. *)

\* The body of BreakerHolds for one source.
Holds(s) ==
  Open(health[s], clock) =>
    /\ \A r \in Requests :
         collector'[r][s].step = "searching" => collector[r][s].step = "searching"
    /\ \/ Open(health'[s], clock')
       \/ clock' >= health[s].temporary_disabled_until
       \/ restarts' # restarts
       \/ \E r \in Requests : Collecting(r, s) /\ collector'[r][s].step = "ok"

LEMMA OpenRefuses ==
  ASSUME NEW now \in Nat, NEW record \in HealthRecord, Open(record, now)
  PROVE  Released(record, now) = record /\ ~CanRequest(record, now)
BY DEF Open, Released, CanRequest, HealthRecord

LEMMA OpenExtended ==
  ASSUME NEW now \in Nat, NEW record \in HealthRecord, SoundRecord(record, now),
         Open(record, now)
  PROVE  Open(AfterFailure(record, now), now)
BY ThresholdAssumption, CooldownAssumption
   DEF Open, AfterFailure, HealthRecord, SoundRecord

\* One collector's step, for its own source and for the others.
LEMMA CollectHolds ==
  ASSUME Inductive, NEW r \in Requests, NEW s \in Sources, Collect(r, s),
         NEW other \in Sources
  PROVE  Holds(other)
<1>1. /\ clock \in Nat /\ health[other] \in HealthRecord
      /\ SoundRecord(health[other], clock)
      /\ health \in [Sources -> HealthRecord]
      /\ collector \in [Requests -> [Sources -> Collector]]
  BY DEF Inductive, TypeOK, BreakersSound
<1>2. SUFFICES ASSUME Open(health[other], clock)
      PROVE  /\ \A q \in Requests : collector'[q][other].step = "searching" =>
                                      collector[q][other].step = "searching"
             /\ \/ Open(health'[other], clock')
                \/ \E q \in Requests : /\ Collecting(q, other)
                                       /\ collector'[q][other].step = "ok"
  BY DEF Holds
<1>3. /\ Released(health[other], clock) = health[other]
      /\ ~CanRequest(health[other], clock)
      /\ Open(AfterFailure(health[other], clock), clock)
  BY <1>1, <1>2, OpenRefuses, OpenExtended
<1>4. CASE Refuse(r, s)
  BY <1>1, <1>2, <1>3, <1>4 DEF Refuse, Collected, Outcome
<1>5. CASE Admit(r, s)
  BY <1>1, <1>2, <1>3, <1>5 DEF Admit, Collected, Outcome
<1>6. CASE SearchFails(r, s)
  BY <1>1, <1>2, <1>3, <1>6 DEF SearchFails, Collected, Outcome
<1>7. ASSUME NEW offers \in BOOLEAN, CollectAll(r, s, offers)
      PROVE  /\ \A q \in Requests : collector'[q][other].step = "searching" =>
                                      collector[q][other].step = "searching"
             /\ \/ Open(health'[other], clock')
                \/ \E q \in Requests : /\ Collecting(q, other)
                                       /\ collector'[q][other].step = "ok"
  BY <1>1, <1>2, <1>7 DEF CollectAll, Collected, Outcome
<1>8. CASE CollectPartly(r, s)
  BY <1>1, <1>2, <1>3, <1>8 DEF CollectPartly, Collected, Outcome
<1>9. CASE CollectorRaises(r, s)
  BY <1>1, <1>2, <1>9 DEF CollectorRaises, Collected, Outcome
<1> QED BY <1>4, <1>5, <1>6, <1>7, <1>8, <1>9 DEF Collect

LEMMA NextHolds ==
  ASSUME Inductive, [Next]_vars, NEW s \in Sources
  PROVE  Holds(s)
<1>1. /\ clock \in Nat /\ restarts \in Nat /\ health[s] \in HealthRecord
      /\ collector \in [Requests -> [Sources -> Collector]]
  BY DEF Inductive, TypeOK
<1>2. ASSUME UNCHANGED <<health, clock>>,
             \A r \in Requests : collector'[r][s].step = "searching" =>
                                   collector[r][s].step = "searching"
      PROVE  Holds(s)
  BY <1>2 DEF Holds, Open
<1>3. ASSUME NEW r \in Requests, NEW c \in Calls, Arrive(r, c) PROVE Holds(s)
  BY <1>1, <1>2, <1>3
     DEF Arrive, ServeFromCache, StartCollection, AnswerWithoutAdapters, Unused,
         Waiting, Outcome
<1>4. ASSUME NEW r \in Requests, Step(r) PROVE Holds(s)
  <2>1. CASE Assemble(r)
    BY <1>1, <1>2, <2>1 DEF Assemble, Unused, Outcome
  <2>2. ASSUME NEW ai \in {"failed", "result"}, AnalysisAnswers(r, ai) PROVE Holds(s)
    BY <1>2, <2>2 DEF AnalysisAnswers
  <2>3. CASE Abandon(r)
    BY <1>1, <1>2, <2>3 DEF Abandon, Unused, Outcome
  <2> QED BY <1>4, <2>1, <2>2, <2>3, CollectHolds DEF Step
<1>5. CASE Tick
  BY <1>1, <1>5 DEF Tick, Holds, Open, HealthRecord
<1>6. CASE Restart
  BY <1>1, <1>6 DEF Restart, Holds, Unused, Outcome
<1>7. CASE UNCHANGED vars
  BY <1>2, <1>7 DEF vars
<1> QED BY <1>3, <1>4, <1>5, <1>6, <1>7 DEF Next

(* Until its cooldown is over, an open breaker lets no search start, and   *)
(* only a success of a search that was already running or a restart closes *)
(* it (source_health.py:51-105, search_pipeline.py:218-225).               *)
THEOREM BreakersHold == Spec => BreakerHolds
<1>1. Inductive /\ [Next]_vars => [\A s \in Sources :
         Open(health[s], clock) =>
           /\ \A r \in Requests :
                collector'[r][s].step = "searching" =>
                  collector[r][s].step = "searching"
           /\ \/ Open(health'[s], clock')
              \/ clock' >= health[s].temporary_disabled_until
              \/ restarts' # restarts
              \/ \E r \in Requests : /\ Collecting(r, s)
                                     /\ collector'[r][s].step = "ok"]_vars
  BY NextHolds DEF Holds
<1> QED BY <1>1, InductiveInvariant, PTL DEF Spec, BreakerHolds
-----------------------------------------------------------------------------
\* The body of NeverOlderThanRead for one request.
Newer(r) ==
  /\ Assembles(r) => result'[r].search > previous[r].search
  /\ Running(r) /\ ~Running(r)' /\ restarts' = restarts =>
       \A k \in Keys : \/ cache'[k] = cache[k]
                       \/ k = call[r].key /\ cache'[k].snapshot = result'[r]

\* These entries differ from the cache at most at key k.
DifferAt(k, entries) ==
  /\ DOMAIN entries = Keys
  /\ \A other \in Keys : entries[other] = cache[other] \/ other = k

\* A call that has just arrived, and a request that stays where it is.
LEMMA IdleNewer ==
  ASSUME NEW r \in Requests, pc[r] = "idle" \/ pc'[r] = pc[r]
  PROVE  Newer(r)
BY DEF Newer, Assembles, Running

LEMMA OthersStay ==
  ASSUME TypeOK, NEW r \in Requests, NEW c, NEW entries, NEW snapshot,
         MaybeAnalyze(r, c, entries, snapshot), NEW q \in Requests, q # r
  PROVE  pc'[q] = pc[q]
BY DEF MaybeAnalyze, Return, TypeOK

LEMMA ReturnNewer ==
  ASSUME TypeOK, NEW r \in Requests,
         NEW entries,
         NEW snapshot, pc[r] = "collecting" => snapshot.search > previous[r].search,
         \A k \in Keys : \/ entries[k] = cache[k]
                         \/ k = call[r].key /\ entries[k].snapshot = snapshot,
         Return(r, entries, snapshot)
  PROVE  Newer(r)
<1>1. result'[r] = snapshot /\ cache' = entries
  BY DEF Return, TypeOK
<1> QED BY <1>1 DEF Newer, Assembles, Running

LEMMA PutDiffers ==
  ASSUME NEW k, NEW entries, DifferAt(k, entries), NEW snapshot
  PROVE  \A other \in Keys :
           LET stored == Put(entries, k, snapshot)[other]
           IN  \/ stored = cache[other]
               \/ other = k /\ stored.snapshot = snapshot
BY DEF Put, DifferAt

LEMMA AssembleNewer ==
  ASSUME Inductive, NEW r \in Requests, Assemble(r)
  PROVE  Newer(r)
<1>0. /\ TypeOK /\ pc[r] = "collecting" /\ call[r].key \in Keys
      /\ cache \in [Keys -> Entry]
      /\ previous[r].search < search[r]
      /\ previous[r].search \in Nat /\ search[r] \in Nat
  BY DEF Inductive, TypeOK, Calls, Assemble, RequestSound, Snapshot
<1>1. PICK merged : merged = Merged(r)
  OBVIOUS
<1>2. merged \in Snapshot /\ merged.search = search[r]
  BY <1>0, <1>1, MergedGood DEF Good, Merged
<1>3. PICK entries : entries = IF Fresh(r) \cup Reused(r) # {}
                                 THEN Put(cache, call[r].key, merged) ELSE cache
  OBVIOUS
<1>4. MaybeAnalyze(r, call[r], entries, merged)
  BY <1>1, <1>3 DEF Assemble
<1>5. /\ DifferAt(call[r].key, cache)
      /\ DifferAt(call[r].key, entries)
  BY <1>0, <1>3 DEF DifferAt, Put
<1>6. \A k \in Keys : \/ entries[k] = cache[k]
                      \/ k = call[r].key /\ entries[k].snapshot = merged
  BY <1>3, <1>5, PutDiffers
<1>7. CASE Return(r, entries, merged)
  BY <1>0, <1>2, <1>6, <1>7, ReturnNewer
<1>8. ASSUME NEW disabled, disabled = [merged EXCEPT !.ai = "disabled"],
             Return(r, Put(entries, call[r].key, disabled), disabled)
      PROVE  Newer(r)
  <2>1. disabled.search = merged.search
    BY <1>2, <1>8 DEF Snapshot
  <2>2. disabled.search > previous[r].search
    BY <1>0, <1>2, <2>1
  <2>3. PICK stored : stored = Put(entries, call[r].key, disabled)
    OBVIOUS
  <2>4. \A k \in Keys : \/ stored[k] = cache[k]
                        \/ k = call[r].key /\ stored[k].snapshot = disabled
    BY <1>5, <2>3, PutDiffers
  <2>5. Return(r, stored, disabled)
    BY <1>8, <2>3
  <2> QED BY <1>0, <2>2, <2>4, <2>5, ReturnNewer
<1>9. ASSUME result' = [result EXCEPT ![r] = merged],
             pc' = [pc EXCEPT ![r] = "analyzing"]
      PROVE  Newer(r)
  <2>1. result'[r] = merged /\ pc'[r] = "analyzing"
    BY <1>0, <1>9 DEF TypeOK
  <2> QED BY <1>0, <1>2, <2>1 DEF Newer, Running
<1> QED BY <1>4, <1>7, <1>8, <1>9 DEF MaybeAnalyze

LEMMA AnalysisNewer ==
  ASSUME Inductive, NEW r \in Requests, NEW ai, AnalysisAnswers(r, ai)
  PROVE  Newer(r)
<1>1. TypeOK /\ pc[r] = "analyzing" /\ DifferAt(call[r].key, cache)
  BY DEF Inductive, TypeOK, AnalysisAnswers, DifferAt
<1>2. PICK analyzed : analyzed = [result[r] EXCEPT !.ai = ai]
  OBVIOUS
<1>3. Return(r, Put(cache, call[r].key, analyzed), analyzed)
  BY <1>2 DEF AnalysisAnswers
<1> QED BY <1>1, <1>3, PutDiffers, ReturnNewer

LEMMA NextNewer ==
  ASSUME Inductive, [Next]_vars, NEW q \in Requests
  PROVE  Newer(q)
<1>0. TypeOK
  BY DEF Inductive
<1>1. ASSUME NEW r \in Requests, NEW c \in Calls, Arrive(r, c) PROVE Newer(q)
  <2>1. pc[r] = "idle"
    BY <1>1 DEF Arrive, ServeFromCache, StartCollection, AnswerWithoutAdapters
  <2>2. CASE StartCollection(r, c)
    BY <1>0, <2>1, <2>2, IdleNewer DEF StartCollection, TypeOK
  <2>3. CASE ServeFromCache(r, c) \/ AnswerWithoutAdapters(r, c)
    <3>1. PICK entries, snapshot : MaybeAnalyze(r, c, entries, snapshot)
      BY <2>3 DEF ServeFromCache, AnswerWithoutAdapters
    <3> QED BY <1>0, <2>1, <3>1, OthersStay, IdleNewer
  <2> QED BY <1>1, <2>2, <2>3 DEF Arrive
<1>2. ASSUME NEW r \in Requests, Step(r) PROVE Newer(q)
  <2>1. ASSUME NEW s \in Sources, Collect(r, s) PROVE pc' = pc
    BY <2>1 DEF Collect, Refuse, Admit, SearchFails, CollectAll, CollectPartly,
                CollectorRaises, Collected
  <2>2. CASE Assemble(r)
    <3>1. PICK entries, snapshot : MaybeAnalyze(r, call[r], entries, snapshot)
      BY <2>2 DEF Assemble
    <3> QED BY <1>0, <2>2, <3>1, AssembleNewer, OthersStay, IdleNewer
  <2>3. ASSUME NEW ai, AnalysisAnswers(r, ai) PROVE Newer(q)
    <3>1. q # r => pc'[q] = pc[q]
      BY <1>0, <2>3 DEF AnalysisAnswers, Return, TypeOK
    <3> QED BY <2>3, <3>1, AnalysisNewer, IdleNewer
  <2>4. CASE Abandon(r)
    <3>1. q # r => pc'[q] = pc[q]
      BY <1>0, <2>4 DEF Abandon, TypeOK
    <3>2. Newer(r)
      BY <2>4 DEF Abandon, Newer, Assembles
    <3> QED BY <3>1, <3>2, IdleNewer
  <2> QED BY <1>2, <2>1, <2>2, <2>3, <2>4, IdleNewer DEF Step
<1>3. CASE Tick \/ UNCHANGED vars
  BY <1>3, IdleNewer DEF Tick, vars
<1>4. CASE Restart
  BY <1>0, <1>4 DEF Restart, Newer, Assembles, TypeOK
<1> QED BY <1>1, <1>2, <1>3, <1>4 DEF Next

(* For every interleaving of requests, ticks and restarts, a search answers *)
(* with something newer than it read, and a request that ends leaves the    *)
(* cache alone or stores its own answer under its own key                   *)
(* (search_pipeline.py:92-98, 186-188, 208-210).                            *)
THEOREM AnswersNeverOlder == Spec => NeverOlderThanRead
<1>1. Inductive /\ [Next]_vars => [\A r \in Requests :
         /\ Assembles(r) => result'[r].search > previous[r].search
         /\ Running(r) /\ ~Running(r)' /\ restarts' = restarts =>
              \A k \in Keys : \/ cache'[k] = cache[k]
                              \/ k = call[r].key /\ cache'[k].snapshot = result'[r]]_vars
  BY NextNewer DEF Newer
<1> QED BY <1>1, InductiveInvariant, PTL DEF Spec, NeverOlderThanRead
-----------------------------------------------------------------------------
(* That failures lose no offers depends on more than Inductive: a snapshot *)
(* that the cache has by now must be the one the request read if it is of  *)
(* the same search.                                                        *)

Seen == {cache[k].snapshot : k \in Keys} \cup {result[r] : r \in Requests}
        \cup {previous[r] : r \in Requests}

\* A search makes one snapshot, and none while it collects.
Identified ==
  /\ \A x, y \in Seen : x.search = y.search => x.data = y.data
  /\ \A r \in Requests : pc[r] = "collecting" =>
       /\ result[r] = NoSnapshot
       /\ \A x \in Seen : x.search # search[r]
       /\ \A q \in Requests \ {r} : pc[q] = "collecting" => search[q] # search[r]
  /\ \A r \in Requests : pc[r] # "collecting" => previous[r] = NoSnapshot
  /\ \A r \in Requests : \A s \in Sources :
       collector[r][s].step = "partial" => collector[r][s].offers

LEMMA SeenTypes ==
  ASSUME Inductive
  PROVE  /\ searches \in Nat
         /\ \A x \in Seen : /\ x.search \in Nat /\ x.search <= searches
                            /\ x.search = 0 => x.data = NoSnapshot.data
         /\ \A r \in Requests : /\ search[r] \in Nat /\ search[r] <= searches
                                /\ pc[r] = "collecting" => search[r] # 0
<1>1. searches \in Nat
  BY DEF Inductive, TypeOK
<1>2. ASSUME NEW x \in Seen
      PROVE  /\ x.search \in Nat /\ x.search <= searches
             /\ x.search = 0 => x.data = NoSnapshot.data
  <2>1. Good(x, searches)
    BY DEF Inductive, CacheGood, Seen
  <2>2. x.search \in Nat /\ x.search <= searches /\ x.data \in [Sources -> Nat]
    BY <2>1 DEF Good, Snapshot
  <2>3. ASSUME x.search = 0 PROVE x.data = [s \in Sources |-> 0]
    <3>1. \A s \in Sources : x.data[s] = 0
      BY <2>1, <2>2, <2>3 DEF Good
    <3>2. QED
      BY <2>2, <3>1
  <2>4. QED
    BY <2>2, <2>3 DEF NoSnapshot, NoData
<1>3. ASSUME NEW r \in Requests
      PROVE  /\ search[r] \in Nat /\ search[r] <= searches
             /\ pc[r] = "collecting" => search[r] # 0
  <2>1. search[r] \in Nat /\ previous[r].search \in Nat /\ RequestSound(r)
    BY DEF Inductive, TypeOK, Snapshot
  <2>2. QED
    BY <2>1 DEF RequestSound
<1>4. QED
  BY <1>1, <1>2, <1>3

\* Nothing is wrong with a snapshot of search n with data d.
Fits(r, n, d) ==
  /\ \A x \in Seen : x.search = n => x.data = d
  /\ n = 0 => d = NoSnapshot.data
  /\ \A q \in Requests \ {r} : pc[q] = "collecting" => search[q] # n

\* All that a step shows was seen before, is nothing, or is of search n.
Shows(n, d) ==
  \A x \in Seen' : \/ x \in Seen
                   \/ x.search = 0 /\ x.data = NoSnapshot.data
                   \/ x.search = n /\ x.data = d

LEMMA ShowsIdentified ==
  ASSUME Inductive, Identified, NEW r \in Requests, NEW n, NEW d, Fits(r, n, d), Shows(n, d),
         pc'[r] # "collecting", previous'[r] = NoSnapshot,
         \A q \in Requests \ {r} : /\ pc'[q] = pc[q] /\ search'[q] = search[q]
                                   /\ result'[q] = result[q] /\ previous'[q] = previous[q],
         \A q \in Requests : \A s \in Sources :
           collector'[q][s].step = "partial" => collector'[q][s].offers
  PROVE  Identified'
<1>1. \A x \in Seen : x.search = 0 => x.data = NoSnapshot.data
  BY SeenTypes
<1>2. \A x, y \in Seen' : x.search = y.search => x.data = y.data
  BY <1>1 DEF Identified, Fits, Shows
<1>3. ASSUME NEW q \in Requests, pc'[q] = "collecting"
      PROVE  /\ result'[q] = NoSnapshot
             /\ \A x \in Seen' : x.search # search'[q]
             /\ \A o \in Requests \ {q} : pc'[o] = "collecting" => search'[o] # search'[q]
  <2>1. q \in Requests \ {r} /\ pc[q] = "collecting" /\ search'[q] = search[q]
    BY <1>3
  <2>2. result'[q] = NoSnapshot
    BY <2>1 DEF Identified
  <2>3. search[q] # 0
    BY <2>1, SeenTypes
  <2>4. \A x \in Seen' : x.search # search[q]
    BY <2>1, <2>3 DEF Identified, Fits, Shows
  <2>5. \A o \in Requests \ {q} : pc'[o] = "collecting" => search'[o] # search'[q]
    BY <2>1 DEF Identified
  <2>6. QED
    BY <2>1, <2>2, <2>4, <2>5
<1>4. \A q \in Requests : pc'[q] # "collecting" => previous'[q] = NoSnapshot
  BY DEF Identified
<1>5. QED
  BY <1>2, <1>3, <1>4 DEF Identified

\* What the end of a request does: it stores and answers a snapshot of search
\* n with data d, or leaves the entry as it is or as a get has left it.
Ends(r, key, got, n, d) ==
  /\ \A k \in Keys :
       \/ cache'[k] = cache[k]
       \/ k \in got /\ ~Live(k) /\ cache'[k] = NoEntry
       \/ k = key /\ cache'[k].snapshot.search = n /\ cache'[k].snapshot.data = d
  /\ result'[r].search = n /\ result'[r].data = d
  /\ pc'[r] # "collecting"
  /\ \A q \in Requests \ {r} : result'[q] = result[q] /\ pc'[q] = pc[q]

\* The entries a request ends with.
Left(key, got, entries, n, d) ==
  /\ DOMAIN entries = Keys
  /\ \A k \in Keys :
       \/ entries[k] = cache[k]
       \/ k \in got /\ ~Live(k) /\ entries[k] = NoEntry
       \/ k = key /\ entries[k].snapshot.search = n /\ entries[k].snapshot.data = d

LEMMA LeftBySteps ==
  ASSUME TypeOK, NEW key \in Keys, NEW n, NEW d
  PROVE  /\ Left(key, {}, cache, n, d) /\ Left(key, {key}, AfterGet(key), n, d)
         /\ \A got, entries, snapshot :
              /\ Left(key, got, entries, n, d) /\ snapshot.search = n /\ snapshot.data = d
              => Left(key, got, Put(entries, key, snapshot), n, d)
<1>1. DOMAIN cache = Keys
  BY DEF TypeOK
<1>2. Left(key, {}, cache, n, d) /\ Left(key, {key}, AfterGet(key), n, d)
  BY <1>1 DEF Left, AfterGet
<1>3. ASSUME NEW got, NEW entries, NEW snapshot, Left(key, got, entries, n, d),
             snapshot.search = n, snapshot.data = d
      PROVE  Left(key, got, Put(entries, key, snapshot), n, d)
  BY <1>3 DEF Left, Put
<1>4. QED
  BY <1>2, <1>3

LEMMA ReturnEnds ==
  ASSUME TypeOK, NEW r \in Requests, NEW key \in Keys, NEW got, NEW entries, NEW snapshot,
         Left(key, got, entries, snapshot.search, snapshot.data), Return(r, entries, snapshot)
  PROVE  Ends(r, key, got, snapshot.search, snapshot.data)
<1>1. /\ result' = [result EXCEPT ![r] = snapshot] /\ cache' = entries
      /\ pc' = [pc EXCEPT ![r] = "idle"]
  BY DEF Return
<1>2. QED
  BY <1>1 DEF Ends, Left, TypeOK

LEMMA AnalyzedSame ==
  ASSUME NEW snapshot \in Snapshot, NEW ai
  PROVE  /\ [snapshot EXCEPT !.ai = ai].search = snapshot.search
         /\ [snapshot EXCEPT !.ai = ai].data = snapshot.data
BY DEF Snapshot

LEMMA MaybeAnalyzeEnds ==
  ASSUME TypeOK, NEW r \in Requests, NEW c, c.key \in Keys, NEW got, NEW entries,
         NEW snapshot \in Snapshot, Left(c.key, got, entries, snapshot.search, snapshot.data),
         MaybeAnalyze(r, c, entries, snapshot)
  PROVE  Ends(r, c.key, got, snapshot.search, snapshot.data)
<1>1. CASE Return(r, entries, snapshot)
  BY <1>1, ReturnEnds
<1>2. ASSUME NEW analyzed, analyzed = [snapshot EXCEPT !.ai = "disabled"],
             Return(r, Put(entries, c.key, analyzed), analyzed)
      PROVE  Ends(r, c.key, got, snapshot.search, snapshot.data)
  <2>1. analyzed.search = snapshot.search /\ analyzed.data = snapshot.data
    BY <1>2, AnalyzedSame
  <2>2. Left(c.key, got, Put(entries, c.key, analyzed), analyzed.search, analyzed.data)
    BY <2>1, LeftBySteps
  <2>3. QED
    BY <1>2, <2>1, <2>2, ReturnEnds
<1>3. ASSUME result' = [result EXCEPT ![r] = snapshot], cache' = entries,
             pc' = [pc EXCEPT ![r] = "analyzing"]
      PROVE  Ends(r, c.key, got, snapshot.search, snapshot.data)
  BY <1>3 DEF Ends, Left, TypeOK
<1>4. QED
  BY <1>1, <1>2, <1>3 DEF MaybeAnalyze

LEMMA EndsShow ==
  ASSUME NEW r \in Requests, NEW key, NEW got, NEW n, NEW d, Ends(r, key, got, n, d),
         \A q \in Requests : previous'[q] = previous[q] \/ previous'[q] = NoSnapshot
  PROVE  Shows(n, d)
<1>1. NoSnapshot.search = 0 /\ NoEntry.snapshot = NoSnapshot
  BY DEF NoSnapshot, NoEntry
<1>2. \A k \in Keys : \/ cache'[k].snapshot = cache[k].snapshot
                      \/ cache'[k].snapshot = NoSnapshot
                      \/ cache'[k].snapshot.search = n /\ cache'[k].snapshot.data = d
  BY <1>1 DEF Ends
<1>3. \A q \in Requests : result'[q] = result[q] \/ (result'[q].search = n /\ result'[q].data = d)
  BY DEF Ends
<1>4. QED
  BY <1>1, <1>2, <1>3 DEF Shows, Seen

-----------------------------------------------------------------------------
(* When an entry may lose offers, as OffersOutliveFailures says. *)

Loses(k, s) ==
  cache[k].snapshot.data[s] # NoData /\ cache'[k].snapshot.data[s] = NoData

Excused(k, s) ==
  \/ cache[k].expires_at <= clock /\ searches' # searches
  \/ ~DurableCache /\ restarts' # restarts
  \/ \E r \in Requests : /\ Assembles(r) /\ call[r].key = k
                         /\ collector[r][s].step = "ok"
                         /\ ~collector[r][s].offers
  \/ \E r \in Requests : Overtaken(r, k, s)

Outlives == \A k \in Keys, s \in Sources : Loses(k, s) => Excused(k, s)

LEMMA EntryTypes ==
  ASSUME Inductive, NEW k \in Keys
  PROVE  /\ cache[k].snapshot \in Seen
         /\ \A s \in Sources : cache[k].snapshot.data[s] # NoData => cache[k].snapshot.search # 0
<1>1. cache[k].snapshot \in Seen
  BY DEF Seen
<1>2. cache[k].snapshot.search = 0 => cache[k].snapshot.data = NoSnapshot.data
  BY <1>1, SeenTypes
<1>3. \A s \in Sources : NoSnapshot.data[s] = NoData
  BY DEF NoSnapshot
<1>4. QED
  BY <1>1, <1>2, <1>3

\* A get drops nothing but what has expired.
LEMMA DroppedExpired ==
  ASSUME Inductive, NEW k \in Keys, ~Live(k), NEW s \in Sources,
         cache[k].snapshot.data[s] # NoData
  PROVE  cache[k].expires_at <= clock
<1>1. cache[k].snapshot.search # 0
  BY EntryTypes
<1>2. cache[k].expires_at \in Nat /\ clock \in Nat
  BY DEF Inductive, TypeOK, Entry
<1>3. QED
  BY <1>1, <1>2 DEF Live

\* A call that arrives and ends at once, with a snapshot that has the data of
\* the one it found: a search of its own may have found the entry expired.
LEMMA ArrivalEnds ==
  ASSUME Inductive, NEW r \in Requests, NEW key \in Keys, NEW got, NEW n,
         Ends(r, key, got, n, Cached(key).data),
         searches' # searches \/ (got = {} /\ Live(key))
  PROVE  Outlives
<1>1. ASSUME NEW k \in Keys, NEW s \in Sources, Loses(k, s)
      PROVE  cache[k].expires_at <= clock /\ searches' # searches
  <2>1. ~Live(k)
    <3>1. SUFFICES ASSUME Live(k) PROVE FALSE
      OBVIOUS
    <3>2. k = key /\ cache'[k].snapshot.data = Cached(key).data
      BY <1>1, <3>1 DEF Ends, Loses
    <3>3. Cached(key).data = cache[k].snapshot.data
      BY <3>1, <3>2 DEF Cached
    <3>4. QED
      BY <1>1, <3>2, <3>3 DEF Loses
  <2>2. cache[k].expires_at <= clock
    BY <1>1, <2>1, DroppedExpired DEF Loses
  <2>3. searches' # searches
    <3>1. SUFFICES ASSUME got = {}, Live(key) PROVE FALSE
      OBVIOUS
    <3>2. k # key
      BY <2>1, <3>1
    <3>3. QED
      BY <1>1, <3>1, <3>2 DEF Ends, Loses
  <2>4. QED
    BY <2>2, <2>3
<1>2. QED
  BY <1>1 DEF Outlives, Excused

\* What is in the entry of a call fits.
LEMMA CachedFits ==
  ASSUME Inductive, Identified, NEW r \in Requests, NEW key \in Keys
  PROVE  /\ Cached(key) \in Snapshot
         /\ Fits(r, Cached(key).search, Cached(key).data)
<1>1. CASE Cached(key) = NoSnapshot
  <2>1. NoSnapshot \in Snapshot /\ NoSnapshot.search = 0
    BY <1>1 DEF NoSnapshot, Snapshot, NoData, SourceStates, Statuses, AIStates
  <2>2. Fits(r, 0, NoSnapshot.data)
    BY SeenTypes DEF Fits
  <2>3. QED
    BY <1>1, <2>1, <2>2
<1>2. CASE Cached(key) = cache[key].snapshot
  <2>1. cache[key].snapshot \in Seen /\ cache[key].snapshot \in Snapshot
    BY EntryTypes DEF Inductive, TypeOK, Entry
  <2>2. Fits(r, cache[key].snapshot.search, cache[key].snapshot.data)
    BY <2>1, SeenTypes DEF Fits, Identified
  <2>3. QED
    BY <1>2, <2>1, <2>2
<1>3. QED
  BY <1>1, <1>2 DEF Cached

LEMMA ServeOutlives ==
  ASSUME Inductive, Identified, NEW r \in Requests, NEW c \in Calls, ServeFromCache(r, c)
  PROVE  Identified' /\ Outlives
<1>1. TypeOK /\ c.key \in Keys /\ pc[r] = "idle" /\ UNCHANGED <<previous, search, collector>>
  BY DEF Inductive, Calls, ServeFromCache
<1>2. PICK found \in Snapshot : found = Cached(c.key) /\ Fits(r, found.search, found.data)
  BY <1>1, CachedFits
<1>3. Ends(r, c.key, {}, found.search, found.data)
  <2>1. MaybeAnalyze(r, c, cache, found)
    BY <1>2 DEF ServeFromCache
  <2>2. Left(c.key, {}, cache, found.search, found.data)
    BY <1>1, LeftBySteps
  <2>3. QED
    BY <1>1, <2>1, <2>2, MaybeAnalyzeEnds
<1>4. Shows(found.search, found.data)
  BY <1>1, <1>3, EndsShow
<1>5. Identified'
  <2>1. previous'[r] = NoSnapshot /\ pc'[r] # "collecting"
    BY <1>1, <1>3 DEF Identified, Ends
  <2>2. \A q \in Requests : \A s \in Sources :
          collector'[q][s].step = "partial" => collector'[q][s].offers
    BY <1>1 DEF Identified
  <2>3. QED
    BY <1>1, <1>2, <1>3, <1>4, <2>1, <2>2, ShowsIdentified DEF Ends
<1>6. Outlives
  <2>1. Live(c.key)
    BY DEF ServeFromCache, Hit, Cached
  <2>2. QED
    BY <1>1, <1>2, <1>3, <2>1, ArrivalEnds
<1>7. QED
  BY <1>5, <1>6

LEMMA WithoutAdaptersOutlives ==
  ASSUME Inductive, Identified, NEW r \in Requests, NEW c \in Calls, AnswerWithoutAdapters(r, c)
  PROVE  Identified' /\ Outlives
<1>1. /\ TypeOK /\ c.key \in Keys /\ pc[r] = "idle" /\ UNCHANGED <<previous, search, collector>>
      /\ searches \in Nat
  BY DEF Inductive, TypeOK, Calls, AnswerWithoutAdapters
<1>2. Good(Cached(c.key), searches)
  BY <1>1, CachedGood DEF Inductive
<1>3. PICK made : made = WithoutAdapters(Cached(c.key), searches + 1)
  OBVIOUS
<1>4. /\ made \in Snapshot /\ made.search = searches + 1 /\ made.data = Cached(c.key).data
  BY <1>1, <1>2, <1>3, WithoutAdaptersGood DEF Good, WithoutAdapters
<1>5. Ends(r, c.key, {c.key}, made.search, made.data)
  <2>1. PICK entries : entries = Put(AfterGet(c.key), c.key, made)
    OBVIOUS
  <2>2. MaybeAnalyze(r, c, entries, made)
    BY <1>3, <2>1 DEF AnswerWithoutAdapters
  <2>3. Left(c.key, {c.key}, entries, made.search, made.data)
    BY <1>1, <2>1, LeftBySteps
  <2>4. QED
    BY <1>1, <1>4, <2>2, <2>3, MaybeAnalyzeEnds
<1>6. Shows(made.search, made.data)
  BY <1>1, <1>5, EndsShow
<1>7. Fits(r, made.search, made.data)
  <2>1. \A x \in Seen : x.search # searches + 1
    BY <1>1, SeenTypes
  <2>2. \A q \in Requests : search[q] # searches + 1
    BY <1>1, SeenTypes
  <2>3. QED
    BY <1>1, <1>4, <2>1, <2>2 DEF Fits
<1>8. Identified'
  <2>1. previous'[r] = NoSnapshot /\ pc'[r] # "collecting"
    BY <1>1, <1>5 DEF Identified, Ends
  <2>2. \A q \in Requests : \A s \in Sources :
          collector'[q][s].step = "partial" => collector'[q][s].offers
    BY <1>1 DEF Identified
  <2>3. QED
    BY <1>1, <1>5, <1>6, <1>7, <2>1, <2>2, ShowsIdentified DEF Ends
<1>9. Outlives
  <2>1. searches' # searches
    BY <1>1 DEF AnswerWithoutAdapters
  <2>2. QED
    BY <1>1, <1>4, <1>5, <2>1, ArrivalEnds
<1>10. QED
  BY <1>8, <1>9

LEMMA GetLeaves ==
  ASSUME TypeOK, NEW key \in Keys
  PROVE  \A k \in Keys : \/ AfterGet(key)[k] = cache[k]
                         \/ k = key /\ ~Live(k) /\ AfterGet(key)[k] = NoEntry
BY DEF AfterGet, TypeOK

LEMMA StartOutlives ==
  ASSUME Inductive, Identified, NEW r \in Requests, NEW c \in Calls, StartCollection(r, c)
  PROVE  Identified' /\ Outlives
<1>1. /\ TypeOK /\ c.key \in Keys /\ pc[r] = "idle" /\ searches \in Nat
      /\ cache' = AfterGet(c.key) /\ pc'[r] = "collecting" /\ search'[r] = searches + 1
      /\ previous'[r] = Cached(c.key) /\ result'[r] = NoSnapshot
  <2>1. TypeOK /\ c.key \in Keys /\ pc[r] = "idle" /\ searches \in Nat
    BY DEF Inductive, TypeOK, Calls, StartCollection
  <2>2. /\ cache' = AfterGet(c.key) /\ pc'[r] = "collecting" /\ search'[r] = searches + 1
        /\ previous'[r] = Cached(c.key) /\ result'[r] = NoSnapshot
    BY <2>1 DEF StartCollection, TypeOK
  <2>3. QED
    BY <2>1, <2>2
<1>2. ASSUME NEW q \in Requests \ {r}
      PROVE  /\ pc'[q] = pc[q] /\ search'[q] = search[q]
             /\ previous'[q] = previous[q] /\ result'[q] = result[q]
  BY <1>1 DEF StartCollection, TypeOK
<1>3. ASSUME NEW q \in Requests, NEW s \in Sources, collector'[q][s].step = "partial"
      PROVE  collector'[q][s].offers
  <2>1. CASE q = r
    <3>1. collector'[q][s] \in {Waiting, Unused}
      BY <1>1, <2>1 DEF StartCollection, TypeOK
    <3>2. QED
      BY <1>3, <3>1 DEF Waiting, Unused, Outcome
  <2>2. CASE q # r
    <3>1. collector'[q] = collector[q]
      BY <1>1, <2>2 DEF StartCollection, TypeOK
    <3>2. QED
      BY <1>3, <3>1 DEF Identified
  <2>3. QED
    BY <2>1, <2>2
<1>4. \A k \in Keys : \/ cache'[k] = cache[k]
                      \/ k = c.key /\ ~Live(k) /\ cache'[k] = NoEntry
  BY <1>1, GetLeaves
<1>5. \A x \in Seen' : x \in Seen \/ x = NoSnapshot
  <2>1. NoEntry.snapshot = NoSnapshot
    BY DEF NoEntry
  <2>2. Cached(c.key) \in Seen \/ Cached(c.key) = NoSnapshot
    BY <1>1 DEF Cached, Seen
  <2>3. QED
    BY <1>1, <1>2, <1>4, <2>1, <2>2 DEF Seen
<1>6. NoSnapshot.search = 0
  BY DEF NoSnapshot
<1>7. \A x, y \in Seen' : x.search = y.search => x.data = y.data
  BY <1>5, <1>6, SeenTypes DEF Identified
<1>8. /\ \A x \in Seen' : x.search # searches + 1
      /\ \A q \in Requests : search[q] # searches + 1
  BY <1>1, <1>5, <1>6, SeenTypes
<1>9. ASSUME NEW q \in Requests, pc'[q] = "collecting"
      PROVE  /\ result'[q] = NoSnapshot
             /\ \A x \in Seen' : x.search # search'[q]
             /\ \A o \in Requests \ {q} : pc'[o] = "collecting" => search'[o] # search'[q]
  <2>1. CASE q = r
    BY <1>1, <1>2, <1>8, <2>1
  <2>2. CASE q # r
    <3>1. pc[q] = "collecting" /\ search[q] # 0 /\ search'[q] = search[q] /\ result'[q] = NoSnapshot
      BY <1>2, <1>9, <2>2, SeenTypes DEF Identified
    <3>2. \A x \in Seen' : x.search # search[q]
      BY <1>5, <1>6, <3>1 DEF Identified
    <3>3. \A o \in Requests \ {q} : pc'[o] = "collecting" => search'[o] # search[q]
      BY <1>1, <1>2, <1>8, <3>1 DEF Identified
    <3>4. QED
      BY <3>1, <3>2, <3>3
  <2>3. QED
    BY <2>1, <2>2
<1>10. Identified'
  <2>1. \A q \in Requests : pc'[q] # "collecting" => previous'[q] = NoSnapshot
    BY <1>1, <1>2 DEF Identified
  <2>2. QED
    BY <1>3, <1>7, <1>9, <2>1 DEF Identified
<1>11. Outlives
  <2>1. searches' # searches
    BY <1>1 DEF StartCollection
  <2>2. ASSUME NEW k \in Keys, NEW s \in Sources, Loses(k, s) PROVE cache[k].expires_at <= clock
    BY <1>4, <2>2, DroppedExpired DEF Loses
  <2>3. QED
    BY <2>1, <2>2 DEF Outlives, Excused
<1>12. QED
  BY <1>10, <1>11

PartialsOffer ==
  \A q \in Requests : \A t \in Sources :
    collector'[q][t].step = "partial" => collector'[q][t].offers

LEMMA CollectedOffers ==
  ASSUME Inductive, Identified, NEW r \in Requests, NEW s \in Sources,
         NEW step, NEW offers, NEW state, step # "partial" \/ offers = TRUE,
         Collected(r, s, step, offers, state)
  PROVE  PartialsOffer
<1>1. /\ collector' = [collector EXCEPT ![r][s] = Outcome(step, offers, state)]
      /\ collector \in [Requests -> [Sources -> Collector]]
  BY DEF Collected, Inductive, TypeOK
<1>2. ASSUME NEW q \in Requests, NEW t \in Sources, collector'[q][t].step = "partial"
      PROVE  collector'[q][t].offers = TRUE \/ collector'[q][t].offers
  <2>1. CASE q = r /\ t = s
    BY <1>1, <1>2, <2>1 DEF Outcome
  <2>2. CASE ~(q = r /\ t = s)
    <3>1. collector'[q][t] = collector[q][t]
      BY <1>1, <2>2
    <3>2. QED
      BY <1>2, <3>1 DEF Identified
  <2>3. QED
    BY <2>1, <2>2
<1>3. QED
  BY <1>2 DEF PartialsOffer

LEMMA CollectOutlives ==
  ASSUME Inductive, Identified, NEW r \in Requests, NEW s \in Sources, Collect(r, s)
  PROVE  Identified' /\ Outlives
<1>1. UNCHANGED <<cache, pc, previous, search, result>>
  BY DEF Collect, Refuse, Admit, SearchFails, CollectAll, CollectPartly, CollectorRaises,
         Collected
<1>2. PartialsOffer
  <2>1. CASE Refuse(r, s)
    BY <2>1, CollectedOffers DEF Refuse
  <2>2. CASE Admit(r, s)
    <3>1. Collected(r, s, "searching", FALSE, "not_configured")
      BY <2>2 DEF Admit
    <3>2. QED
      BY <3>1, CollectedOffers
  <2>3. CASE SearchFails(r, s)
    <3>1. PICK state : Collected(r, s, "failed", FALSE, state)
      BY <2>3 DEF SearchFails
    <3>2. QED
      BY <3>1, CollectedOffers
  <2>4. ASSUME NEW offers \in BOOLEAN, CollectAll(r, s, offers) PROVE PartialsOffer
    <3>1. PICK state : Collected(r, s, "ok", offers, state)
      BY <2>4 DEF CollectAll
    <3>2. QED
      BY <3>1, CollectedOffers
  <2>5. CASE CollectPartly(r, s)
    BY <2>5, CollectedOffers DEF CollectPartly
  <2>6. CASE CollectorRaises(r, s)
    <3>1. Collected(r, s, "raised", FALSE, "not_configured")
      BY <2>6 DEF CollectorRaises
    <3>2. QED
      BY <3>1, CollectedOffers
  <2>7. QED
    BY <2>1, <2>2, <2>3, <2>4, <2>5, <2>6 DEF Collect
<1>3. Identified'
  BY <1>1, <1>2 DEF Identified, Seen, PartialsOffer
<1>4. QED
  BY <1>1, <1>3 DEF Outlives, Loses

LEMMA AssembleOutlives ==
  ASSUME Inductive, Identified, NEW r \in Requests, Assemble(r)
  PROVE  Identified' /\ Outlives
<1>1. /\ TypeOK /\ pc[r] = "collecting" /\ call[r].key \in Keys /\ RequestSound(r)
      /\ UNCHANGED restarts
      /\ previous'[r] = NoSnapshot
      /\ \A q \in Requests \ {r} : /\ previous'[q] = previous[q] /\ search'[q] = search[q]
                                   /\ collector'[q] = collector[q]
      /\ \A t \in Sources : collector'[r][t].step # "partial"
  BY DEF Inductive, TypeOK, Calls, Assemble, Unused, Outcome
<1>2. PICK merged : merged = Merged(r)
  OBVIOUS
<1>3. /\ merged \in Snapshot /\ merged.search = search[r]
      /\ \A t \in Sources : merged.data[t] = MergedData(r, t)
  BY <1>1, <1>2, MergedGood DEF Good, Merged
<1>4. Ends(r, call[r].key, {}, merged.search, merged.data)
  <2>1. PICK entries : entries = IF Fresh(r) \cup Reused(r) # {}
                                   THEN Put(cache, call[r].key, merged) ELSE cache
    OBVIOUS
  <2>2. MaybeAnalyze(r, call[r], entries, merged)
    BY <1>2, <2>1 DEF Assemble
  <2>3. Left(call[r].key, {}, entries, merged.search, merged.data)
    BY <1>1, <2>1, LeftBySteps
  <2>4. QED
    BY <1>1, <1>3, <2>2, <2>3, MaybeAnalyzeEnds
<1>5. Fits(r, merged.search, merged.data)
  BY <1>1, <1>3, SeenTypes DEF Fits, Identified
<1>6. Identified'
  <2>1. \A q \in Requests : \A t \in Sources :
          collector'[q][t].step = "partial" => collector'[q][t].offers
    BY <1>1 DEF Identified
  <2>2. Shows(merged.search, merged.data)
    BY <1>1, <1>4, EndsShow
  <2>3. QED
    BY <1>1, <1>4, <1>5, <2>1, <2>2, ShowsIdentified DEF Ends
<1>7. Assembles(r)
  BY <1>1, <1>4 DEF Ends, Assemble, Assembles
<1>8. ASSUME NEW k \in Keys, NEW s \in Sources, Loses(k, s), ~Overtaken(r, k, s)
      PROVE  /\ call[r].key = k
             /\ collector[r][s].step = "ok" /\ ~collector[r][s].offers
  <2>1. NoEntry.snapshot.data[s] = NoData /\ NoSnapshot.search = 0
    BY DEF NoEntry, NoSnapshot
  <2>2. k = call[r].key /\ ~(cache'[k] = cache[k])
    BY <1>4, <1>8 DEF Ends, Loses
  <2>3. cache[k].snapshot.search # 0 /\ cache[k].snapshot \in Seen
    BY <1>8, EntryTypes DEF Loses
  <2>4. previous[r].data[s] # NoData \/ cache[k].snapshot.search = previous[r].search
    BY <1>7, <1>8, <2>2 DEF Overtaken
  <2>5. previous[r].data[s] # NoData
    <3>1. previous[r] \in Seen
      BY DEF Seen
    <3>2. ASSUME cache[k].snapshot.search = previous[r].search
          PROVE  cache[k].snapshot.data = previous[r].data
      BY <2>3, <3>1, <3>2 DEF Identified
    <3>3. QED
      BY <1>8, <2>4, <3>2 DEF Loses
  <2>6. MergedData(r, s) = NoData
    BY <1>3, <1>4, <1>8, <2>2 DEF Ends, Loses
  <2>7. s \in Fresh(r) /\ ~collector[r][s].offers
    <3>1. search[r] # 0
      BY <1>1, SeenTypes
    <3>2. QED
      BY <2>5, <2>6, <3>1 DEF MergedData, NoData
  <2>8. QED
    BY <2>2, <2>7 DEF Fresh, Succeeded, Identified
<1>9. Outlives
  BY <1>7, <1>8 DEF Outlives, Excused
<1>10. QED
  BY <1>6, <1>9

LEMMA AnalysisOutlives ==
  ASSUME Inductive, Identified, NEW r \in Requests, NEW ai, AnalysisAnswers(r, ai)
  PROVE  Identified' /\ Outlives
<1>1. /\ TypeOK /\ call[r].key \in Keys /\ pc[r] = "analyzing" /\ result[r] \in Snapshot
      /\ UNCHANGED <<previous, search, collector>>
      /\ previous[r] = NoSnapshot
  BY DEF Inductive, Identified, TypeOK, Calls, AnalysisAnswers
<1>2. PICK analyzed : analyzed = [result[r] EXCEPT !.ai = ai]
  OBVIOUS
<1>3. analyzed.search = result[r].search /\ analyzed.data = result[r].data
  BY <1>1, <1>2, AnalyzedSame
<1>4. Ends(r, call[r].key, {}, result[r].search, result[r].data)
  <2>1. Return(r, Put(cache, call[r].key, analyzed), analyzed)
    BY <1>2 DEF AnalysisAnswers
  <2>2. Left(call[r].key, {}, Put(cache, call[r].key, analyzed), analyzed.search, analyzed.data)
    BY <1>1, <1>3, LeftBySteps
  <2>3. QED
    BY <1>1, <1>3, <2>1, <2>2, ReturnEnds
<1>5. result[r] \in Seen
  BY DEF Seen
<1>6. Identified'
  <2>1. Fits(r, result[r].search, result[r].data)
    BY <1>5, SeenTypes DEF Fits, Identified
  <2>2. Shows(result[r].search, result[r].data)
    BY <1>1, <1>4, EndsShow
  <2>3. \A q \in Requests : \A s \in Sources :
          collector'[q][s].step = "partial" => collector'[q][s].offers
    BY <1>1 DEF Identified
  <2>4. QED
    BY <1>1, <1>4, <2>1, <2>2, <2>3, ShowsIdentified DEF Ends
<1>7. ASSUME NEW k \in Keys, NEW s \in Sources, Loses(k, s) PROVE Overtaken(r, k, s)
  <2>1. k = call[r].key /\ cache'[k].snapshot.data = result[r].data
    BY <1>4, <1>7 DEF Ends, Loses
  <2>2. cache[k].snapshot.search # 0 /\ cache[k].snapshot \in Seen
    BY <1>7, EntryTypes DEF Loses
  <2>3. cache[k].snapshot.search # result[r].search
    BY <1>5, <1>7, <2>1, <2>2 DEF Identified, Loses
  <2>4. Answers(r)
    BY <1>1 DEF Answers, AnalysisAnswers, Return, TypeOK
  <2>5. QED
    BY <2>1, <2>3, <2>4 DEF Overtaken
<1>8. Outlives
  BY <1>7 DEF Outlives, Excused
<1>9. QED
  BY <1>6, <1>8

LEMMA AbandonOutlives ==
  ASSUME Inductive, Identified, NEW r \in Requests, Abandon(r)
  PROVE  Identified' /\ Outlives
<1>1. /\ pc'[r] # "collecting" /\ previous'[r] = NoSnapshot /\ UNCHANGED <<cache, result>>
      /\ \A q \in Requests \ {r} : /\ pc'[q] = pc[q] /\ search'[q] = search[q]
                                   /\ previous'[q] = previous[q]
                                   /\ collector'[q] = collector[q]
      /\ \A s \in Sources : collector'[r][s].step # "partial"
  BY DEF Abandon, Inductive, TypeOK, Unused, Outcome
<1>2. Fits(r, 0, NoSnapshot.data)
  BY SeenTypes DEF Fits
<1>3. Shows(0, NoSnapshot.data)
  <2>1. NoSnapshot.search = 0
    BY DEF NoSnapshot
  <2>2. \A x \in Seen' : x \in Seen \/ x = NoSnapshot
    BY <1>1 DEF Seen
  <2>3. QED
    BY <2>1, <2>2 DEF Shows
<1>4. \A q \in Requests : \A s \in Sources :
        collector'[q][s].step = "partial" => collector'[q][s].offers
  BY <1>1 DEF Identified
<1>5. Identified'
  BY <1>1, <1>2, <1>3, <1>4, ShowsIdentified
<1>6. QED
  BY <1>1, <1>5 DEF Outlives, Loses

LEMMA EnvironmentOutlives ==
  ASSUME Inductive, Identified, Tick \/ Restart \/ UNCHANGED vars
  PROVE  Identified' /\ Outlives
<1>1. CASE Tick \/ UNCHANGED vars
  <2>1. UNCHANGED <<cache, pc, previous, search, collector, result>>
    BY <1>1 DEF Tick, vars
  <2>2. QED
    BY <2>1 DEF Identified, Seen, Outlives, Loses
<1>2. CASE Restart
  <2>1. /\ \A q \in Requests : /\ pc'[q] = "idle" /\ previous'[q] = NoSnapshot
                               /\ result'[q] = NoSnapshot
        /\ \A q \in Requests : \A s \in Sources : collector'[q][s] = Unused
    BY <1>2 DEF Restart
  <2>2. \A k \in Keys : cache'[k] = cache[k] \/ cache'[k] = NoEntry
    BY <1>2 DEF Restart, Inductive, TypeOK
  <2>3. \A x \in Seen' : x \in Seen \/ x = NoSnapshot
    BY <2>1, <2>2 DEF Seen, NoEntry
  <2>4. NoSnapshot.search = 0 /\ Unused.step = "unused"
    BY DEF NoSnapshot, Unused, Outcome
  <2>5. \A x, y \in Seen' : x.search = y.search => x.data = y.data
    BY <2>3, <2>4, SeenTypes DEF Identified
  <2>6. Identified'
    BY <2>1, <2>4, <2>5 DEF Identified
  <2>7. Outlives
    <3>1. CASE DurableCache
      BY <1>2, <3>1 DEF Restart, Outlives, Loses
    <3>2. CASE ~DurableCache
      <4>1. restarts' # restarts
        BY <1>2 DEF Restart, Inductive, TypeOK
      <4>2. QED
        BY <3>2, <4>1 DEF Outlives, Excused
    <3>3. QED
      BY <3>1, <3>2
  <2>8. QED
    BY <2>6, <2>7
<1>3. QED
  BY <1>1, <1>2

LEMMA NextOutlives ==
  ASSUME Inductive, Identified, [Next]_vars
  PROVE  Identified' /\ Outlives
<1>1. ASSUME NEW r \in Requests, NEW c \in Calls, Arrive(r, c) PROVE Identified' /\ Outlives
  BY <1>1, ServeOutlives, StartOutlives, WithoutAdaptersOutlives DEF Arrive
<1>2. ASSUME NEW r \in Requests, NEW s \in Sources, Collect(r, s) PROVE Identified' /\ Outlives
  BY <1>2, CollectOutlives
<1>3. ASSUME NEW r \in Requests, Assemble(r) PROVE Identified' /\ Outlives
  BY <1>3, AssembleOutlives
<1>4. ASSUME NEW r \in Requests, NEW ai, AnalysisAnswers(r, ai) PROVE Identified' /\ Outlives
  BY <1>4, AnalysisOutlives
<1>5. ASSUME NEW r \in Requests, Abandon(r) PROVE Identified' /\ Outlives
  BY <1>5, AbandonOutlives
<1>6. CASE Tick \/ Restart \/ UNCHANGED vars
  BY <1>6, EnvironmentOutlives
<1>7. QED
  BY <1>1, <1>2, <1>3, <1>4, <1>5, <1>6 DEF Next, Step

LEMMA InitIdentified ==
  ASSUME Init
  PROVE  Identified
<1>1. Unused.step = "unused" /\ NoEntry.snapshot = NoSnapshot
  BY DEF Unused, Outcome, NoEntry
<1>2. \A x \in Seen : x = NoSnapshot
  BY <1>1 DEF Init, Seen
<1>3. QED
  BY <1>1, <1>2 DEF Init, Identified

(* Refreshes that fail, are refused, raise or run without an adapter,      *)
(* analyses and restarts of a durable cache take no cached offers away,    *)
(* whatever the number of requests, sources, searches and restarts.  Only  *)
(* the request that stores in the step may take them, because its own      *)
(* search of the source found nothing or because another request has       *)
(* stored offers it never read (search_pipeline.py:92, 133-155, 186-187,   *)
(* 319-354).                                                               *)
THEOREM FailuresLoseNothing == Spec => OffersOutliveFailures
<1>1. Init => Identified
  BY InitIdentified
<1>2. Inductive /\ Identified /\ [Next]_vars => Identified' /\ Outlives
  BY NextOutlives
<1>3. Outlives => [\A k \in Keys, s \in Sources :
       cache[k].snapshot.data[s] # NoData /\ cache'[k].snapshot.data[s] = NoData =>
         \/ cache[k].expires_at <= clock /\ searches' # searches
         \/ ~DurableCache /\ restarts' # restarts
         \/ \E r \in Requests : /\ Assembles(r) /\ call[r].key = k
                                /\ collector[r][s].step = "ok"
                                /\ ~collector[r][s].offers
         \/ \E r \in Requests : Overtaken(r, k, s)]_vars
  BY DEF Outlives, Loses, Excused
<1>4. QED
  BY InductiveInvariant, <1>1, <1>2, <1>3, PTL DEF Spec, OffersOutliveFailures
=============================================================================
