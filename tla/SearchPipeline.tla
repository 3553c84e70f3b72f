--------------------------- MODULE SearchPipeline ---------------------------
(***************************************************************************)
(* SearchPipeline.run and everything it awaits, for any number of          *)
(* concurrent requests of one process: the snapshot cache, the collectors  *)
(* of the configured marketplaces behind the per-request semaphore, the    *)
(* shared circuit breakers, the merge with the previous snapshot, and the  *)
(* optional analysis that stores its snapshot a second time.               *)
(*                                                                         *)
(* An action is a maximal run of code between two awaits that really       *)
(* suspend.  The in-memory cache and the health tracker never suspend, so  *)
(* their calls belong to the action that makes them; a marketplace answer  *)
(* and an answer of the analysis service are where other requests come in. *)
(*                                                                         *)
(* Snapshots are abstracted to what the properties tell apart.  search is  *)
(* the position of the search among all searches started: it stands for    *)
(* search_id (unique) and for collected_at (increasing).  The offers of a  *)
(* source are abstracted to the search that fetched them, NoData if there  *)
(* is none.                                                                *)
(***************************************************************************)
EXTENDS SourceHealth, FiniteSets

CONSTANTS Sources,            \* marketplaces known to the pipeline
          Requests,           \* slots for concurrent calls of run
          Keys,               \* cache keys, one per normalized query
          SourceConcurrency,  \* width of the per-request source gate
          CacheTTL,           \* cache_ttl_seconds
          AIEnabled,          \* a Gemini key is configured
          DurableCache,       \* the cache survives a restart
          MaxClock,           \* bound: the clock stops here
          MaxSearches,        \* bound: searches started
          MaxRestarts         \* bound: restarts of the process

ASSUME SourcesAssumption == IsFiniteSet(Sources)
ASSUME ConcurrencyAssumption == SourceConcurrency \in Nat \ {0}
ASSUME TTLAssumption == CacheTTL \in Nat
ASSUME FlagsAssumption == AIEnabled \in BOOLEAN /\ DurableCache \in BOOLEAN
ASSUME KeysAssumption == Keys # {}
ASSUME BoundsAssumption == {MaxClock, MaxSearches, MaxRestarts} \subseteq Nat

VARIABLES clock,       \* wall clock, starts at 1
          restarts,    \* restarts so far
          configured,  \* sources with a registered adapter
          searches,    \* searches started so far
          cache,       \* key -> entry of the snapshot cache
          health,      \* source -> record of the health tracker
          pc,          \* request -> where its run is suspended
          call,        \* request -> arguments of its run
          previous,    \* request -> snapshot it read, while it collects
          search,      \* request -> its search, while it collects
          collector,   \* request -> source -> outcome of _collect_source
          result       \* request -> snapshot it analyzes or last returned

vars == <<clock, restarts, configured, searches, cache, health, pc, call,
          previous, search, collector, result>>
-----------------------------------------------------------------------------
(* Data. *)

NoData == 0

SourceStates == {"ready", "not_configured", "unavailable", "rate_limited", "stale"}
Statuses == {"complete", "partial", "failed", "no_sources_configured"}
AIStates == {"none", "disabled", "failed", "result"}

Snapshot == [search : Nat,
             data : [Sources -> Nat],
             state : [Sources -> SourceStates],
             stale_from : [Sources -> Nat],   \* stale_data_timestamp
             status : Statuses,
             stale : BOOLEAN,
             ai : AIStates]

\* Stands for None: no search has position 0.
NoSnapshot == [search |-> 0,
               data |-> [s \in Sources |-> NoData],
               state |-> [s \in Sources |-> "not_configured"],
               stale_from |-> [s \in Sources |-> NoData],
               status |-> "failed",
               stale |-> FALSE,
               ai |-> "none"]

Entry == [snapshot : Snapshot, expires_at : Nat]
NoEntry == [snapshot |-> NoSnapshot, expires_at |-> 0]

\* What _collect_source has done for one source of one request.
CollectorSteps == {"unused", "waiting", "searching",
                   "ok", "partial", "failed", "refused", "raised"}
Collector == [step : CollectorSteps,
              offers : BOOLEAN,        \* it found offers
              state : SourceStates]    \* the state in its SourceStatus

Outcome(step, offers, state) == [step |-> step, offers |-> offers, state |-> state]
Unused == Outcome("unused", FALSE, "not_configured")
Waiting == Outcome("waiting", FALSE, "not_configured")
Searching == Outcome("searching", FALSE, "not_configured")

Succeeded == {"ok", "partial"}
Finished == Succeeded \cup {"failed", "refused", "raised"}

Calls == [key : Keys, refresh : BOOLEAN, analyze : BOOLEAN]
NoCall == [key |-> CHOOSE k \in Keys : TRUE, refresh |-> FALSE, analyze |-> FALSE]
PCs == {"idle", "collecting", "analyzing"}

TypeOK ==
  /\ clock \in Nat \ {0}
  /\ restarts \in Nat
  /\ configured \in SUBSET Sources
  /\ searches \in Nat
  /\ cache \in [Keys -> Entry]
  /\ health \in [Sources -> HealthRecord]
  /\ pc \in [Requests -> PCs]
  /\ call \in [Requests -> Calls]
  /\ previous \in [Requests -> Snapshot]
  /\ search \in [Requests -> Nat]
  /\ collector \in [Requests -> [Sources -> Collector]]
  /\ result \in [Requests -> Snapshot]

Init ==
  /\ clock = 1
  /\ restarts = 0
  /\ configured \in SUBSET Sources
  /\ searches = 0
  /\ cache = [k \in Keys |-> NoEntry]
  /\ health = [s \in Sources |-> NewRecord]
  /\ pc = [r \in Requests |-> "idle"]
  /\ call = [r \in Requests |-> NoCall]
  /\ previous = [r \in Requests |-> NoSnapshot]
  /\ search = [r \in Requests |-> 0]
  /\ collector = [r \in Requests |-> [s \in Sources |-> Unused]]
  /\ result = [r \in Requests |-> NoSnapshot]
-----------------------------------------------------------------------------
(* The cache. *)

Live(k) == cache[k].snapshot.search # 0 /\ cache[k].expires_at > clock

\* get: the snapshot if it has not expired.
Cached(k) == IF Live(k) THEN cache[k].snapshot ELSE NoSnapshot

\* get also drops an entry it finds expired.
AfterGet(k) == IF Live(k) THEN cache ELSE [cache EXCEPT ![k] = NoEntry]

Put(entries, k, snapshot) ==
  [entries EXCEPT ![k] = [snapshot |-> snapshot, expires_at |-> clock + CacheTTL]]

Return(r, entries, snapshot) ==
  /\ result' = [result EXCEPT ![r] = snapshot]
  /\ cache' = entries
  /\ pc' = [pc EXCEPT ![r] = "idle"]
  /\ call' = [call EXCEPT ![r] = NoCall]

(* The end of run, on the snapshot it read or made: return it as it is,    *)
(* mark it disabled and store it again, or wait for the analysis service.  *)
MaybeAnalyze(r, c, entries, snapshot) ==
  \/ /\ ~c.analyze \/ snapshot.ai = "result"
     /\ Return(r, entries, snapshot)
  \/ /\ c.analyze /\ snapshot.ai # "result" /\ ~AIEnabled
     /\ LET analyzed == [snapshot EXCEPT !.ai = "disabled"]
        IN  Return(r, Put(entries, c.key, analyzed), analyzed)
  \/ /\ c.analyze /\ snapshot.ai # "result" /\ AIEnabled
     /\ result' = [result EXCEPT ![r] = snapshot]
     /\ cache' = entries
     /\ pc' = [pc EXCEPT ![r] = "analyzing"]
     /\ call' = [call EXCEPT ![r] = c]
-----------------------------------------------------------------------------
(* The snapshot a request makes of its collectors and the previous one. *)

Fresh(r) == {s \in Sources : collector[r][s].step \in Succeeded}

\* Sources that did not succeed and of which the previous snapshot has offers.
Reused(r) == {s \in Sources \ Fresh(r) : previous[r].data[s] # NoData}

\* Mutant: failed detail requests are forgotten in the status.
CollectionStatusWithoutDetails(r) ==
  IF configured \subseteq Fresh(r) /\ Reused(r) = {}
    THEN "complete"
    ELSE IF Fresh(r) \cup Reused(r) # {} THEN "partial" ELSE "failed"

CollectionStatus(r) ==
  IF /\ configured \subseteq Fresh(r)
     /\ Reused(r) = {}
     /\ \A s \in configured : collector[r][s].step # "partial"
    THEN "complete"
    ELSE IF Fresh(r) \cup Reused(r) # {} THEN "partial" ELSE "failed"

\* Mutant: a source behind an open breaker loses its previous offers.
MergedDataUnlessRefused(r, s) ==
  IF s \in Fresh(r) THEN IF collector[r][s].offers THEN search[r] ELSE NoData
  ELSE IF collector[r][s].step = "refused" THEN NoData ELSE previous[r].data[s]

\* What a succeeded source found, or else what the previous snapshot has of it.
MergedData(r, s) ==
  IF s \in Fresh(r) THEN IF collector[r][s].offers THEN search[r] ELSE NoData
  ELSE previous[r].data[s]

\* Mutant: only sources with an adapter are marked as stale.
MergedStateIfConfigured(r, s) ==
  IF s \in Reused(r) \cap configured THEN "stale" ELSE collector[r][s].state

MergedState(r, s) == IF s \in Reused(r) THEN "stale" ELSE collector[r][s].state

Merged(r) ==
  [search |-> search[r],
   data |-> [s \in Sources |-> MergedData(r, s)],
   state |-> [s \in Sources |-> MergedState(r, s)],
   stale_from |-> [s \in Sources |->
                     IF s \in Reused(r) THEN previous[r].search ELSE NoData],
   status |-> CollectionStatus(r),
   stale |-> Reused(r) # {},
   ai |-> "none"]

\* Mutant: nothing is carried over once no adapter is left.
WithoutAdaptersForgets(found, id) ==
  [NoSnapshot EXCEPT !.search = id, !.status = "no_sources_configured"]

\* _snapshot_without_adapters: every offer comes from the previous snapshot.
WithoutAdapters(found, id) ==
  LET reused == {s \in Sources : found.data[s] # NoData}
  IN  [search |-> id,
       data |-> found.data,
       state |-> [s \in Sources |->
                    IF s \in reused THEN "stale" ELSE "not_configured"],
       stale_from |-> [s \in Sources |->
                    IF s \in reused THEN found.search ELSE NoData],
       status |-> "no_sources_configured",
       stale |-> reused # {},
       ai |-> "none"]
-----------------------------------------------------------------------------
(* A call of run arrives. *)

Hit(c) == Cached(c.key) # NoSnapshot /\ ~c.refresh

ServeFromCache(r, c) ==
  /\ pc[r] = "idle"
  /\ Hit(c)
  /\ MaybeAnalyze(r, c, cache, Cached(c.key))
  /\ UNCHANGED <<clock, restarts, configured, searches, health, previous,
                 search, collector>>

StartCollection(r, c) ==
  /\ pc[r] = "idle"
  /\ ~Hit(c)
  /\ configured # {}
  /\ searches < MaxSearches
  /\ call' = [call EXCEPT ![r] = c]
  /\ previous' = [previous EXCEPT ![r] = Cached(c.key)]
  /\ cache' = AfterGet(c.key)
  /\ searches' = searches + 1
  /\ search' = [search EXCEPT ![r] = searches + 1]
  /\ collector' = [collector EXCEPT ![r] =
                     [s \in Sources |-> IF s \in configured THEN Waiting ELSE Unused]]
  /\ pc' = [pc EXCEPT ![r] = "collecting"]
  /\ result' = [result EXCEPT ![r] = NoSnapshot]
  /\ UNCHANGED <<clock, restarts, configured, health>>

AnswerWithoutAdapters(r, c) ==
  /\ pc[r] = "idle"
  /\ ~Hit(c)
  /\ configured = {}
  /\ searches < MaxSearches
  /\ LET snapshot == WithoutAdapters(Cached(c.key), searches + 1)
     IN  MaybeAnalyze(r, c, Put(AfterGet(c.key), c.key, snapshot), snapshot)
  /\ searches' = searches + 1
  /\ UNCHANGED <<clock, restarts, configured, health, previous, search,
                 collector>>
-----------------------------------------------------------------------------
(* The collectors of a request: _collect_source behind the source gate.    *)

\* Mutant: a collector that is refused returns without leaving the gate.
InGateWhenRefused(r) ==
  {s \in Sources : collector[r][s].step \in {"searching", "refused"}}

\* Collectors that hold a slot of the request's semaphore.
InGate(r) == {s \in Sources : collector[r][s].step = "searching"}

MayEnter(r, s) ==
  /\ pc[r] = "collecting"
  /\ collector[r][s].step = "waiting"
  /\ Cardinality(InGate(r)) < SourceConcurrency

Collected(r, s, step, offers, state) ==
  /\ collector' = [collector EXCEPT ![r][s] = Outcome(step, offers, state)]
  /\ UNCHANGED <<clock, restarts, configured, searches, cache, pc, call,
                 previous, search, result>>

\* can_request is false: the collector gives up and leaves the gate at once.
Refuse(r, s) ==
  /\ MayEnter(r, s)
  /\ ~CanRequest(health[s], clock)
  /\ health' = [health EXCEPT ![s] = Released(@, clock)]
  /\ Collected(r, s, "refused", FALSE, "rate_limited")

Admit(r, s) ==
  /\ MayEnter(r, s)
  /\ CanRequest(health[s], clock)
  /\ health' = [health EXCEPT ![s] = Released(@, clock)]
  /\ Collected(r, s, "searching", FALSE, "not_configured")

Collecting(r, s) == pc[r] = "collecting" /\ collector[r][s].step = "searching"

\* The limiter or the search raised, or the search timed out.
SearchFails(r, s) ==
  /\ Collecting(r, s)
  /\ health' = [health EXCEPT ![s] = AfterFailure(@, clock)]
  /\ Collected(r, s, "failed", FALSE,
               ReportedState(AfterFailure(health[s], clock), clock, "unavailable"))

\* The search and all selected detail requests succeeded.
CollectAll(r, s, offers) ==
  /\ Collecting(r, s)
  /\ health' = [health EXCEPT ![s] = AfterSuccess(@)]
  /\ Collected(r, s, "ok", offers,
               ReportedState(AfterSuccess(health[s]), clock, "ready"))

(* The search succeeded but a detail request failed: its candidate becomes *)
(* an offer, and the tracker records a failure.                            *)
CollectPartly(r, s) ==
  /\ Collecting(r, s)
  /\ health' = [health EXCEPT ![s] = AfterFailure(@, clock)]
  /\ Collected(r, s, "partial", TRUE,
               ReportedState(AfterFailure(health[s], clock), clock, "ready"))

(* A title without words cannot become an offer: the exception leaves      *)
(* _collect_source past the tracker (OfferFlow has what leads to it).      *)
CollectorRaises(r, s) ==
  /\ Collecting(r, s)
  /\ UNCHANGED health
  /\ Collected(r, s, "raised", FALSE, "not_configured")

AllDone(r) == \A s \in configured : collector[r][s].step \in Finished
Raised(r) == \E s \in Sources : collector[r][s].step = "raised"

\* Mutant: the snapshot is stored even if no source answered.
AssembleStoringAlways(r) ==
  /\ pc[r] = "collecting"
  /\ AllDone(r) /\ ~Raised(r)
  /\ MaybeAnalyze(r, call[r], Put(cache, call[r].key, Merged(r)), Merged(r))
  /\ previous' = [previous EXCEPT ![r] = NoSnapshot]
  /\ search' = [search EXCEPT ![r] = 0]
  /\ collector' = [collector EXCEPT ![r] = [s \in Sources |-> Unused]]
  /\ UNCHANGED <<clock, restarts, configured, searches, health>>

\* gather returns: merge the results, store the snapshot unless all failed.
Assemble(r) ==
  /\ pc[r] = "collecting"
  /\ AllDone(r) /\ ~Raised(r)
  /\ LET snapshot == Merged(r)
     IN  MaybeAnalyze(r, call[r],
                      IF Fresh(r) \cup Reused(r) # {}
                        THEN Put(cache, call[r].key, snapshot)
                        ELSE cache,
                      snapshot)
  /\ previous' = [previous EXCEPT ![r] = NoSnapshot]
  /\ search' = [search EXCEPT ![r] = 0]
  /\ collector' = [collector EXCEPT ![r] = [s \in Sources |-> Unused]]
  /\ UNCHANGED <<clock, restarts, configured, searches, health>>

(* gather has raised what a collector raised and run has ended with it,    *)
(* nothing merged and nothing stored; its other collectors went on to      *)
(* their ends, for which the slot is kept.                                 *)
Abandon(r) ==
  /\ pc[r] = "collecting"
  /\ AllDone(r) /\ Raised(r)
  /\ pc' = [pc EXCEPT ![r] = "idle"]
  /\ call' = [call EXCEPT ![r] = NoCall]
  /\ previous' = [previous EXCEPT ![r] = NoSnapshot]
  /\ search' = [search EXCEPT ![r] = 0]
  /\ collector' = [collector EXCEPT ![r] = [s \in Sources |-> Unused]]
  /\ UNCHANGED <<clock, restarts, configured, searches, cache, health, result>>

\* Mutant: the envelope is stored on the snapshot that is cached by now.
AnalysisAnswersForCached(r, ai) ==
  /\ pc[r] = "analyzing"
  /\ Return(r, Put(cache, call[r].key, [cache[call[r].key].snapshot EXCEPT !.ai = ai]),
            [result[r] EXCEPT !.ai = ai])
  /\ UNCHANGED <<clock, restarts, configured, searches, health, previous,
                 search, collector>>

(* The analysis service answers.  Its envelope is put on the snapshot the  *)
(* request held all along, whatever the cache holds by now.                *)
AnalysisAnswers(r, ai) ==
  /\ pc[r] = "analyzing"
  /\ LET analyzed == [result[r] EXCEPT !.ai = ai]
     IN  Return(r, Put(cache, call[r].key, analyzed), analyzed)
  /\ UNCHANGED <<clock, restarts, configured, searches, health, previous,
                 search, collector>>
-----------------------------------------------------------------------------
(* The environment. *)

Tick ==
  /\ clock < MaxClock
  /\ clock' = clock + 1
  /\ UNCHANGED <<restarts, configured, searches, cache, health, pc, call,
                 previous, search, collector, result>>

(* The process stops and starts again, possibly with other adapters        *)
(* enabled: running requests are lost, the tracker and an in-memory cache  *)
(* start empty, a durable cache keeps its entries.                         *)
Restart ==
  /\ restarts < MaxRestarts
  /\ restarts' = restarts + 1
  /\ configured' \in SUBSET Sources
  /\ cache' = IF DurableCache THEN cache ELSE [k \in Keys |-> NoEntry]
  /\ health' = [s \in Sources |-> NewRecord]
  /\ pc' = [r \in Requests |-> "idle"]
  /\ call' = [r \in Requests |-> NoCall]
  /\ previous' = [r \in Requests |-> NoSnapshot]
  /\ search' = [r \in Requests |-> 0]
  /\ collector' = [r \in Requests |-> [s \in Sources |-> Unused]]
  /\ result' = [r \in Requests |-> NoSnapshot]
  /\ UNCHANGED <<clock, searches>>

Collect(r, s) ==
  \/ Refuse(r, s)
  \/ Admit(r, s)
  \/ SearchFails(r, s)
  \/ \E offers \in BOOLEAN : CollectAll(r, s, offers)
  \/ CollectPartly(r, s)
  \/ CollectorRaises(r, s)

Arrive(r, c) ==
  \/ ServeFromCache(r, c)
  \/ StartCollection(r, c)
  \/ AnswerWithoutAdapters(r, c)

\* The steps of a running request.
Step(r) ==
  \/ \E s \in Sources : Collect(r, s)
  \/ Assemble(r)
  \/ Abandon(r)
  \/ \E ai \in {"failed", "result"} : AnalysisAnswers(r, ai)

Next ==
  \/ \E r \in Requests : (\E c \in Calls : Arrive(r, c)) \/ Step(r)
  \/ Tick
  \/ Restart

Spec == Init /\ [][Next]_vars

(* Every await of a running request ends: searches, detail pages and the   *)
(* analysis are bounded by timeouts, and the event loop runs what is ready. *)
FairSpec == Spec /\ \A r \in Requests : WF_vars(Step(r))
-----------------------------------------------------------------------------
(* Properties. *)

\* Offers of source s in the snapshot come from an earlier search.
Old(snapshot, s) == snapshot.data[s] \notin {NoData, snapshot.search}

(* A snapshot is honest about the age of its offers: the stale flag, the   *)
(* source states and the stale timestamps tell exactly which sources show  *)
(* offers of an earlier search, complete means that nothing is stale or    *)
(* missing, and failed and no_sources_configured show nothing new.         *)
Honest(snapshot) ==
  /\ \A s \in Sources :
       /\ snapshot.state[s] = "stale" <=> Old(snapshot, s)
       /\ Old(snapshot, s) => /\ snapshot.data[s] <= snapshot.stale_from[s]
                              /\ snapshot.stale_from[s] < snapshot.search
  /\ snapshot.stale <=> \E s \in Sources : Old(snapshot, s)
  /\ snapshot.status = "complete" =>
       \A s \in Sources : snapshot.state[s] \in {"ready", "not_configured"}
  /\ snapshot.status = "failed" =>
       \A s \in Sources : snapshot.data[s] = NoData
  /\ snapshot.status = "no_sources_configured" =>
       \A s \in Sources : snapshot.data[s] # snapshot.search

(* Every snapshot in the cache and every snapshot of a request is honest,  *)
(* through any chain of refreshes, failures, analyses and restarts         *)
(* (search_pipeline.py:125-188).                                           *)
SnapshotsHonest ==
  /\ \A k \in Keys : Honest(cache[k].snapshot)
  /\ \A r \in Requests : Honest(result[r]) /\ Honest(previous[r])

Running(r) == pc[r] # "idle"

\* Request r merges its collectors in this step.
Assembles(r) ==
  pc[r] = "collecting" /\ pc'[r] # "collecting" /\ restarts' = restarts /\ ~Raised(r)

\* The analysis of request r is answered in this step.
Answers(r) == pc[r] = "analyzing" /\ pc'[r] # "analyzing" /\ restarts' = restarts

(* Request r, which ends an await of its own in this step, has been        *)
(* overtaken for key k: by now the entry is of another search than what r  *)
(* read, when it merges, or than what it has had analyzed.  Of the offers  *)
(* of source s it read none.                                               *)
Overtaken(r, k, s) ==
  /\ call[r].key = k
  /\ \/ /\ Assembles(r) /\ previous[r].data[s] = NoData
        /\ cache[k].snapshot.search # previous[r].search
     \/ Answers(r) /\ cache[k].snapshot.search # result[r].search

(* Failures lose nothing that is cached.  From its first search on, a      *)
(* source keeps offers in the entry of a key through refreshes that fail,  *)
(* are refused, raise, or run without its adapter, and through analyses    *)
(* and restarts.  They go when a search that starts finds the entry        *)
(* expired, when an in-memory cache restarts, when the source's own search *)
(* for that key finds nothing, or when the very request that stores has    *)
(* been overtaken (92, 133-155, 186-187, 319-354).                         *)
OffersOutliveFailures ==
  [][\A k \in Keys, s \in Sources :
       cache[k].snapshot.data[s] # NoData /\ cache'[k].snapshot.data[s] = NoData =>
         \/ cache[k].expires_at <= clock /\ searches' # searches
         \/ ~DurableCache /\ restarts' # restarts
         \/ \E r \in Requests : /\ Assembles(r) /\ call[r].key = k
                                /\ collector[r][s].step = "ok"
                                /\ ~collector[r][s].offers
         \/ \E r \in Requests : Overtaken(r, k, s)]_vars

(* The breaker of a source is open exactly when its failures have reached  *)
(* the threshold, and never for longer than one cooldown, whichever order  *)
(* concurrent searches of the source end in (source_health.py:51-105).     *)
BreakersSound == \A s \in Sources : SoundRecord(health[s], clock)

(* An open breaker closes again only because its cooldown is over, because *)
(* a search that was already running succeeded, or by a restart; until     *)
(* then no search of the source starts.                                    *)
BreakerHolds ==
  [][\A s \in Sources :
       Open(health[s], clock) =>
         /\ \A r \in Requests :
              collector'[r][s].step = "searching" =>
                collector[r][s].step = "searching"
         /\ \/ Open(health'[s], clock')
            \/ clock' >= health[s].temporary_disabled_until
            \/ restarts' # restarts
            \/ \E r \in Requests : /\ Collecting(r, s)
                                   /\ collector'[r][s].step = "ok"]_vars

(* A search that produced nothing is never stored as it is: a later        *)
(* request searches again unless an analysis stored the empty snapshot     *)
(* (186-187, 209).                                                         *)
EmptyFailuresNotCached ==
  \A k \in Keys :
    LET snapshot == cache[k].snapshot
    IN  snapshot.search # 0 /\ snapshot.status = "failed" => snapshot.ai # "none"

(* A search never answers with or stores anything older than what it read *)
(* from the cache when it started, and what a request stores while it ends *)
(* is what it answers (92-98, 186-188, 208-210).                           *)
NeverOlderThanRead ==
  [][\A r \in Requests :
       /\ Assembles(r) => result'[r].search > previous[r].search
       /\ Running(r) /\ ~Running(r)' /\ restarts' = restarts =>
            \A k \in Keys : \/ cache'[k] = cache[k]
                            \/ k = call[r].key /\ cache'[k].snapshot = result'[r]]_vars

(* Every running request ends: none waits for a slot of its gate for ever, *)
(* and neither failures nor an open breaker keep it from its answer.       *)
EveryRequestEnds == \A r \in Requests : Running(r) ~> ~Running(r)

(* What docs/architecture.md:39 says: on refresh, the pipeline reuses the  *)
(* last cached offers for a failed or disabled source.  So a request must  *)
(* not fall back on offers older than those the live cache entry has for   *)
(* that source when it merges.                                             *)
LastCachedOffersReused ==
  [][\A r \in Requests :
       Assembles(r) =>
         \A s \in Reused(r) :
           result'[r].data[s] >= Cached(call[r].key).data[s]]_vars
=============================================================================
