# A verification project for price-analyst

TLA+ modules of the price-analyst backend, the TLC configurations that check
them on small instances, and theorems about them that TLAPS checks for every
value of the constants.  Paths below are relative to the repository; `BP`
stands for `backend/src/price_analyst`.

    tlc -workers 2 -config PipelineRaces.cfg MCSearchPipeline.tla
    tlapm SearchPipelineProofs.tla

## 1. Inventory

price-analyst searches marketplaces for a product, keeps the offers in a
snapshot cache, analyses them deterministically and, on request, lets Gemini
interpret them.  One asyncio process serves all requests; the durable cache
works in threads.

| Component (code) | State | Operations | Interacts with |
|---|---|---|---|
| Search pipeline (`BP/application/search_pipeline.py`) | none of its own between requests; per request the previous snapshot, the source gate, one collector per source | `run`, `_collect_source`, `_fetch_details`, `_maybe_analyze` | snapshot cache, health tracker, limiter, adapters, AI service |
| Health tracker (`BP/application/source_health.py`) | per source: failure count, `temporary_disabled_until` | `can_request`, `record_success`, `record_failure`, `status` | all concurrent collectors of all requests |
| Snapshot cache, in memory (`BP/cache/in_memory.py`) | key -> snapshot, expiry | `get` (drops what is expired), `put` | pipeline |
| Snapshot cache, durable (`BP/persistence/cache.py`, `models.py`) | table with unique `search_id` and `cache_key` | `_get`, `_put`, `_trim`, in worker threads | pipeline, SQLite |
| AI analysis service (`BP/ai/service.py`) | in-flight task table, request gate, time of the last request | `analyze_snapshot`, `_coalesced_analysis`, `_run_and_cache`, done callbacks | AI result cache, Gemini client |
| AI result cache (`BP/ai/cache.py`) | bounded LRU with TTL | `get`, `put` | AI service |
| Compact dataset, token budget (`BP/ai/compact_dataset.py`, `token_budget.py`) | pure | selection, hashing, estimate | AI service |
| Gemini client (`BP/ai/client.py`) | none | `analyze` | HTTP |
| Limiter, retries, HTTP (`BP/collectors/rate_limit.py`, `retry.py`, `http.py`) | per source: next allowed time, lock | `acquire`, `run_with_retry`, `get_with_retry` | adapters, pipeline |
| Wholesale service (`BP/application/wholesale_service.py`) | own cache | `run` | wholesale adapters, limiter |
| Matching, local analysis (`BP/matching`, `BP/analysis`) | pure | deduplication, matching, statistics, classification, opportunities | pipeline |
| Query normalization (`BP/normalization`) | pure | `normalize_query` | pipeline, wholesale |
| Marketplace adapters (`BP/collectors/sources`) | none | `search`, `fetch_details` | HTTP, limiter |
| Wiring and API (`BP/main.py`, `BP/api`) | the objects above, made at start-up | lifespan, routes | all |
| Flutter client (`frontend/lib/core/state`) | the current search state | `search`, `analyze` | API |
| Web UI and launcher (`webui/`) | child process, current results | proxying, start, wait for readiness, stop | API |

What is hard about it:

- **Reads before awaits.**  A request reads the previous snapshot, awaits all
  its searches and then merges with what it read; an analysis is awaited
  between two puts of one snapshot.  Other requests run in between.
- **Shared breakers.**  Searches of different requests to one source end in any
  order, also after the breaker has opened.
- **Several paths for one failure.**  A failed search, a refusal by the
  breaker, a failed detail page and a disabled adapter all keep old offers or
  not, each along another path.
- **Coalescing.**  Done callbacks, resumed callers, cancelled callers and new
  callers touch the in-flight table in any order.
- **Threads and a database.**  A durable put works on a row object of a lookup
  made before its own cleanup, its trim and the writes of other threads.
- **Restarts** lose the breakers and the in-memory caches, keep the durable
  table, and may change the set of adapters.
- **One limiter, many calls.**  The details of several searches queue at the
  lock of their source while its holder sleeps; deadlines start after the wait,
  retries do not come back to the lock, and timers fire late.
- **The data itself.**  A product takes one of several ways from a page to an
  offer (schema or card, search page or product page, failed page); statistics
  are made of deduplicated offers and charts of all of them; currencies differ by
  a factor of ten; two limits and a budget cut what Gemini sees.

## 2. Modules

| Module | Models | Checked by | Proved in |
|---|---|---|---|
| `SourceHealth` | the record of the health tracker and its methods | through `SearchPipeline` | `SearchPipelineProofs` |
| `SearchPipeline` | `SearchPipeline` with cache, breakers, concurrent requests, restarts | `MCSearchPipeline` | `SearchPipelineProofs` |
| `SingleFlight` | the abstract promise about provider calls | as `FlightSpec` | `AIAnalysisProofs` |
| `AIAnalysisService` | `AIAnalysisService`, its tasks and callbacks | `MCAIAnalysisService` | `AIAnalysisProofs` |
| `DurableCache` | `SqlAlchemySnapshotCache` on SQLite | `MCDurableCache` | `DurableCacheProofs` |
| `RequestPacing` | the abstract promise of the limiter | as `PacesRequests` | `SourceRequestsProofs` |
| `SourceRequests` | limiter, retries, deadlines and details of all calls to one marketplace | itself | `SourceRequestsProofs` |
| `Wholesale` | `WholesaleService` with its cache, feeds and restarts | `MCWholesale` | `WholesaleProofs` |
| `Selections` | what comprehensions, dictionaries and `sorted` do with sequences | `MCOfferFlow`, against the community modules | `SelectionLemmas` |
| `Offers` | money, offers, attributes of a text | through `OfferFlow` | `OfferLemmas` |
| `MarketplacePages` | the parsers of the four marketplaces | through `OfferFlow` | `OfferLemmas` |
| `LocalAnalysis` | matching, deduplication, statistics, classes, charts, opportunities | through `OfferFlow` | `OfferLemmas` |
| `CompactDataset` | selection of offers and the token budget | through `OfferFlow` | `OfferLemmas`, `OfferFlowProofs` |
| `OfferFlow` | candidates, details, merge, analysis and dataset of one search | `MCOfferFlow` | `OfferFlowProofs` |

`SelectionLemmas` also holds the facts about least and greatest numbers that the
proofs of `SourceRequests` and `Wholesale` cite.  `OfferFlow` and `SearchPipeline` are two views of one collector:
`SearchPipeline` has the requests, caches and breakers and no data, `OfferFlow` the
data of a search and no past.  `SourceRequests` is what both mean by an answer
that comes or does not come.

The definitions whose comment begins with *Mutant* are not part of a model:
each is a plausible bug, and PROJECT.json says which definition it would
replace and which property must then fail.

### SearchPipeline

An action is the code between two awaits that really suspend.

| Action | Code (`search_pipeline.py`) |
|---|---|
| `ServeFromCache` | `run` 90-94: hit and no refresh, then `_maybe_analyze` |
| `StartCollection` | 92-127: the previous snapshot is read, one collector per adapter starts |
| `AnswerWithoutAdapters` | 104-107 and `_snapshot_without_adapters` |
| `Refuse`, `Admit` | the collector has a slot of the gate (122) and asks `can_request` (218) |
| `SearchFails` | 240-254: limiter, search or timeout raised |
| `CollectAll`, `CollectPartly` | 256-301: all details arrived, or at least one failed |
| `CollectorRaises` | 271, 275: a candidate cannot be made into an offer, the exception leaves the collector |
| `Abandon` | 125: gather raises and `run` ends with 422 (`api/routes/searches.py`) |
| `Assemble` | 128-188: merge, status, put unless all failed, `_maybe_analyze` |
| `AnalysisAnswers` | 207-210 |
| `Restart` | the lifespan of `main.py`: new tracker, new in-memory cache, other adapters |

`pc` says where a request is suspended, `previous` and `search` are its locals,
`collector[r][s]` the `_SourceCollection` of a source (or that it raised), `health` and `cache` the
shared state.  A snapshot is abstracted to the search that made it (a position
that stands for `search_id` and `collected_at`), the search that fetched each
source's offers, the source states, stale timestamps, statuses and the state of
the AI envelope.  Candidates, ranking, deduplication and local analysis are data
that no property tells apart.  The two kinds of a detail that is kept as a search
candidate (no details, failed details) differ only in the failure they record.
The other collectors of a request whose gather has raised run on to their ends, for
which `Abandon` waits; they store nothing but what the tracker records.
With `DurableCache = TRUE` the entries survive a restart; get and put are still
one step here, what their threads may do in between is the subject of
`DurableCache`.

### AIAnalysisService

`stage` says how far a task of `_run_and_cache` is: queued at the gate, past it,
sleeping with the rate lock held, calling, done.  `callbacks` are the done
callbacks the event loop has yet to run.  `JoinTask`, `CreateTask`, `Resume`,
`Cancel`, `DropFinished` and `RunCallback` are `_coalesced_analysis` 186-201;
`EnterGate`, `Pace`, `CallProvider` and `Finish` are 203-222.  The cache lookup
and the table lookup are one step because neither suspends: the in-memory cache
awaits nothing and the in-flight lock is never held across an await.  Time is
relative to the last request and stops counting at the interval.  `Evict`
abstracts TTL and LRU order.

### DurableCache

A put is two steps: `PutBegins` (clock and the two lookups, 56-64) and one
serialized write transaction (76-89).  That is what the code does on SQLite: the
sessions have `autoflush` off, so nothing is written before the cleanup DELETE,
which opens the transaction and takes the write lock.  A get that finds an
expired or unreadable row deletes it by primary key in a second step.
`PutInserts`, `PutUpdates`, `PutTrimsItself` and `PutRaises` are the outcomes of
the flush.  `Collect` and `Leave` are the pipeline around the cache.  A row
written by an earlier release whose payload no longer validates is an initial
state (`Legacy`).  A TTL of zero, which the settings allow
(`BP/infrastructure/config.py:39`), is left out (`TTLAssumption`): an entry then expires as
it is written, so that every get misses, and the DELETE of a put, which SQLAlchemy also
evaluates on the objects of the session, drops the object the put has just assigned;
such a put ends quietly and stores nothing, and `QuietPutStores` does not speak of it.

### SourceRequests

All calls of concurrent searches to one source; `Collectors` are the searches,
call 0 of each is its search, the others are its details.

| Action | Code |
|---|---|
| `Start`, `AnswerSearch`, `Finish` | `_collect_source` and the gather of `_fetch_details` (`search_pipeline.py`) |
| `Acquire`, `TakeLock`, `Wake` | `SourceRateLimiter.acquire` up to, at and after its suspensions (`rate_limit.py`) |
| `AnswerDetail`, `FailForGood`, `FailAttempt`, `Retry` | `with_retry` and `is_retryable` (`retry.py`, `http.py`) |
| `Expire` | `asyncio.wait_for` around the adapter's call |
| `Tick` | the clock |

Time is discrete.  The clock stands still while a task can go on without a timer,
because a tick stands for more time than the event loop needs for its ready
tasks; a timer fires between its due time and `Lag` ticks later.  Answers may come
at any time or never.  `granted`, `arrived` and `ahead` are history variables.
The delays are the code's, without jitter.  With the shipped settings the timeout of an
HTTP attempt equals the deadline of its call, which started earlier: a timed-out
attempt is then never retried, as `Expire` comes first.

### Wholesale

`AnswerFromCache`, `BeginWithoutFeeds`, `Collect`, `Merge`, `Reject` and `Store` are
`run`; `Admit`, `FeedAnswers` and `FeedFails` are `_collect_source` behind the semaphore, with the feed adapter inside `Parsed`; `Expire` and `Restart` are the TTL and the
lifespan.  A snapshot keeps for each listing its feed and the time it was
collected.  One query is modelled: the service shares nothing between queries.
The snapshot is validated when it is made (`Reject`), so a limit above the
contract's 100 turns a large answer into a 422.

Seen while modelling, and allowed by the properties: a status counts the listings
of its feed before duplicates and the limit cut them; a refresh in which all feeds
fail stores the stale listings again and so renews their TTL; a restart without
feeds answers with nothing and replaces cached listings.

### Offers, MarketplacePages, LocalAnalysis, CompactDataset, OfferFlow

`MarketplacePages` starts from what the selectors of a parser find: JSON-LD
payloads, links with their texts and cards.  It keeps the order in which the
parser tries them, the conversions of prices (signs, labels, scaled words,
grouped digits), the ids in URLs and the fallbacks when one is missing.  A text is
the set of its words; the empty set is a text of punctuation or symbols alone, and
a missing or blank text is `None`.  The parsers take any title that is there.  What
reads the attributes of a title without words raises (`Unreadable`, `Readable`: the
search or the page then fails, inside a `try`), and so does making an offer of a
candidate with one, which is outside any `try` (`CollectRaises`).  `LocalAnalysis` computes in exact arithmetic: quartiles in quarter
units, percentages as products, margins rounded to the code's six decimals, so that
a comparison of the code's floats at an exact threshold or tie is the only
difference.  `CompactDataset` measures a prompt by
fixed sizes of its parts; the budget loop, its order of reductions and its last
resort are the code's.  `Selections` says by the positions of its elements what a
sorted, filtered, joined or deduplicated sequence is; the community modules compute
the same recursively, which the provers cannot unfold, and
`SelectionsCompute` in `MCOfferFlow` has TLC compare the two on all short
sequences.  `OfferFlow` lets the collectors of a registry run
concurrently: `SearchAnswers`, `SearchFails`, `DetailAnswers`, `DetailFails`,
`Collect` and `CollectRaises` are `_collect_source` and `_fetch_details`, `Merge` is the end of `run` with
`analyze_offers`, `Compact` is `_build_budgeted_dataset`
of the AI service.

## 3. Runs

| Run | Question | Bounds | Result |
|---|---|---|---|
| `pipeline_races` | two requests for one query race over one source, with analyses | 3 searches, clock to 3, 1 restart, threshold 2 | passes, 1.7 M states |
| `pipeline_sources` | two sources behind a gate of width one, adapters switched by a restart, liveness | 1 request at a time, 3 searches, threshold 1 | passes, 0.2 M states |
| `pipeline_last_cached` | are the *last* cached offers reused? | as `pipeline_races` | violated |
| `ai_coalescing` | coalescing, pacing, refinement of `SingleFlight` | 2 callers, 2 datasets, 3 tasks, gate 2, interval 1 | passes, 0.6 M states |
| `ai_liveness` | is every caller answered, does the table empty? | 2 callers, 2 datasets, 2 tasks, gate 1 | passes, 0.1 M states |
| `durable_cache` | two runs get and put three keys in a table of one | 3 searches, TTL 2, clock to 3 | passes, 0.3 M states |
| `durable_put_persists` | does every put store its snapshot? | 1 caller | violated |
| `source_requests` | two searches with two details each share the limiter of a source; liveness; refinement of `RequestPacing` | interval 4, timeout 3, 3 attempts, delays 1 and 2, lag 1, clock to 34 | passes, 0.2 M states |
| `requests_spaced` | are *requests*, retries included, spaced by the interval? | 1 detail each, 2 attempts | violated |
| `wholesale` | two wholesale requests over no, one or two feeds | 3 ids, feeds of 2, limits 2 and 3, contract limit 2, 2 collections | passes, 0.4 M states |
| `offer_flow` | two marketplaces, every combination and order of answers and failures | 4 registries, 3 candidates, 2 details, contract limit 7, 6 budgets | passes, 59 k states |
| `offer_flow_isolation` | does a failure of one source leave the offers of the others alone? | as `offer_flow` | violated |

Why the bounds are enough.  Three searches give a snapshot, a refresh that
overlaps with it and a third that reads what the two left, which is the longest
chain on which `stale_from`, `data` and `search` can all differ.  The clock
passes one expiry of an entry and one cooldown.  Threshold 2 separates the count
from the breaker; threshold 1 in `pipeline_sources` lets one failure refuse
the next request.  Two sources are needed for a gate with a queue and for
partial results; two requests for races.  Three task slots allow a finished task
with a pending callback next to the two tasks of the gate.  Three keys and a
table of one entry let the table grow to its bound and one over it, and would
let it grow further if the trim were wrong.  The proofs of section 5 do not
depend on any of these bounds.

Two searches of three calls each bring up to four details to the limiter at a time,
one that sleeps with the lock and three behind it.
With the interval above the timeout a deadline ends before the next call is let
through, and with three attempts and growing delays it can end in an attempt or in
a delay.  34 ticks are enough for all six calls, late timers included, which
`EverySearchEnds` confirms.  In `wholesale` the limit is once within and once above the
contract, two feeds have three ids to share, and two collections make the stale
listings of a stale snapshot; the proof covers longer chains.  The pages of
`offer_flow` are chosen for their differences: each way a parser can find a
title, a price or an id is taken by some page, each marketplace has titles without
words in a search and on a product page, and the budgets run from plenty to
less than the bare instruction.  The four registries have each parser at
least once, and Torob, whose parser is its own, next to each of the others.

The pipeline's runs switch the deadlock check off: `MaxSearches` and `MaxClock`
bound the model, and a process without requests is idle.  `source_requests` and
`requests_spaced` stop when all searches have ended, `wholesale` when its
collections are used up, `offer_flow` after its one search.

### Properties

- `SnapshotsHonest`: through any chain of refreshes, failures, analyses and
  restarts, the stale flag, source states and stale timestamps of every snapshot
  tell exactly which offers are old; complete means nothing stale, nothing missing.
- `OffersOutliveFailures`: what the cache has of a source is lost only when
  its own search finds nothing, the entry has expired, an in-memory cache
  restarts, or the very request that stores has been overtaken: the entry it
  replaces is of another search than the snapshot it read, which had no offers of
  the source, or than the one it has had analysed.  An idle request excuses nothing,
  and the first refresh without adapters after a restart keeps everything.
- `NeverOlderThanRead`: a request answers with something newer than it read,
  and stores what it answers.
- `EmptyFailuresNotCached`: a search without any result is cached only by an
  analysis.
- `BreakersSound`, `BreakerHolds`: count and deadline agree in every
  interleaving; an open breaker stays closed to new searches until its cooldown is
  over, an older search succeeds, or a restart.
- `EveryRequestEnds`: no request is stuck at its gate.
- `RunningTaskInTable`, `NoCallForCachedResult`, `CallsPaced`, `FlightSpec`,
  `FinishedTaskLeavesTable`, `EveryCallerAnswered`: one paced provider call per
  dataset at a time, none for a cached result, no outcome replayed for ever,
  nobody left waiting.
- `RowsBelongToTheirKey`, `AtMostOneOver`, `QuietPutStores`, `NoLiveRowLost`:
  puts that find rows by key or by search and rewrite primary keys never mix up
  queries, never exceed the bound by more than one, store what they say unless the trim
  takes their own row, and take no live rows of others.

- `PacesRequests`, `LetThroughInTime`: the limiter implements `RequestPacing`
  however late timers fire, and serves its queue in FIFO time.
- `AttemptsBackOff`, `CallsUnderWayBounded`: attempts of a call keep the growing
  delays, and spacing and deadline together bound the calls under way.
- `EverySearchEnds`: every search ends, even at a marketplace that never answers.
- `SnapshotsTellTheTruth`, `FailureKeepsListings`, `RejectedOnlyOverContract`: a
  wholesale snapshot tells which listings are stale, a refresh that fails keeps
  them, and only more listings than the contract admits fail a request.
- `EveryProductShown`: a product that a search found is in the snapshot whichever
  way its page and its offers take.
- `ChartsAgreeWithReports`: charts, statistics and classes, made of differently
  deduplicated lists, contradict each other nowhere.
- `AnalysisIgnoresOrder`, `CurrenciesApart`, `OpportunitiesAreCheap`: the analysis
  depends on the set of offers only, never mixes currencies, and an opportunity is
  cheap among real offers, ties and rounding included.
- `DatasetKeepsSources`, `DatasetFits`: the cut keeps a matching offer of each
  source when there is room, and the budget loop ends with a prompt that fits
  or with nothing left to take away.

### Disagreements with the documentation

1. `docs/architecture.md:39` promises the *last* cached offers on a refresh.
   The pipeline reuses the snapshot it read before its searches
   (`search_pipeline.py:92`, 140), so a request overtaken by another falls back
   on older offers and overwrites the newer entry (`pipeline_last_cached`).
2. `docs/architecture.md:37`: the durable cache persists snapshots.  A refresh
   whose row expires while the search runs deletes that row by its own cleanup
   and then updates it: StaleDataError reaches the caller (`durable_put_persists`).
   The same exception, or IntegrityError, ends one of two concurrent puts of a key.
3. `docs/architecture.md:39`: requests use retries *and a per-source minimum
   interval*.  The limiter is asked once per call (`search_pipeline.py:232`, 308);
   with the shipped 0.25 s for both the interval and the base delay, a retry is
   sent at the very moment another call is let through (`requests_spaced`).
4. `docs/architecture.md:39`: source failures *never abort a search for other
   sources*.  A parser takes a title that consists of punctuation or symbols alone;
   nothing is left of it when `_candidate_to_offer` normalizes it
   (`search_pipeline.py:388`), `domain/offers.py:39` asks for one character, and the
   exception ends the search of all sources with 422 (`offer_flow_isolation`).

Smaller ones, which no run states as a property of its own: `deploy/README.md:64` calls the
table bounded by the maximum of entries, but the trim precedes the flush, so that it
holds one row more (`AtMostOneOver` is the exact bound); `docs/architecture.md:27` says that the
dataset is reduced until it fits and prefers opportunities and matches before
diversity of sources; the code takes sources in turn first, does not reduce an
empty snapshot, and stops at one character of the product's name even if the
prompt is still too long (`DatasetFits` says exactly when).  A setting of more than 100
offers makes the analysis of a larger snapshot fail (422).  A listing whose URL has
no id and whose page names none gets the id `unknown`, under which two products are one
(`EveryProductShown` excludes them).

## 4. Fairness

- `SearchPipeline!FairSpec`: weak fairness of the steps of each request.  Each
  search and each detail page is under `asyncio.wait_for`, the Gemini call has a
  timeout, and the event loop runs ready tasks.  Collectors of a request leave the
  gate by their own steps, so weak fairness is enough.
- `AIAnalysisService!FairSpec`: weak fairness for resumed callers, callbacks
  and time; strong fairness for tasks, because a task waits for the semaphore and
  the lock together with others, and asyncio hands both out first come, first
  served.  No fairness for new calls, cancellation or evictions.

- `SourceRequests!FairSpec`: weak fairness for the clock, for the limiter, timers and
  deadlines of each call and for the end of a collector: the event loop runs ready
  tasks and fires timers.  Nothing makes a marketplace answer.

`Wholesale` and `OfferFlow` state safety only.

## 5. Proofs

All theorems hold for every value of the constants that satisfies the named
assumptions (`ThresholdAssumption`, `CooldownAssumption`, `SourcesAssumption`,
..., each evaluated by TLC in the runs).

`SearchPipelineProofs` proves `TypeCorrect`, `BreakersAreSound`,
`SnapshotsAreHonest` and `EmptyFailuresAreNotCached`.  `SnapshotsHonest` is not
inductive: that a merged snapshot is honest depends on the snapshot the
request read long before, on the collectors' states matching their steps, and on
the search being later than whatever was read.  The inductive invariant
`Inductive` therefore adds: every snapshot in the cache, in `result` and in
`previous` is a well-typed honest snapshot of a search already started; the
search of a collecting request is later than its previous snapshot; each
collector's reported state fits its step; only configured sources collect.  The
lemmas follow the operators: `ReleasedSound`, `AfterFailureSound` and `LaterSound`
for the health record, `PutGood`, `CachedGood`, `MergedGood` and
`WithoutAdaptersGood` for snapshots, `ReturnKeeps` and `MaybeAnalyzeKeeps` for the end
of a request, then one lemma per action.

`AIAnalysisProofs` proves `TypeCorrect`, `RunningTasksAreInTable`,
`CachedResultsAreNotRequested`, `CallsArePaced` and `Implements`
(`Spec => FlightSpec`).  Uniqueness of calls is the table entry of every running
task; pacing needs that at most one task sleeps and that its remaining delay and
the elapsed time add up to the interval.  The refinement maps running tasks' keys to
`flying` and cached keys to `stored`: creating a task launches, finishing lands or
crashes, everything else stutters.

`SearchPipelineProofs` also proves three action properties from the same
invariant.  `BreakersHold`: an open record refuses (`OpenRefuses`) and a failure
keeps it open (`OpenExtended`), so only the success of a search that ran
already, time or a restart can close it.  `AnswersNeverOlder`: the merged snapshot
has the request's own search, which the invariant puts after the one it read, and
what the end of a request stores differs from the cache only at its key
(`PutDiffers`, `ReturnNewer`).  `FailuresLoseNothing` (`OffersOutliveFailures`) needs
more: the merge falls back on what the request read, so the entry it overwrites
must have the same data unless this very request was overtaken.  The invariant
`Identified` adds that snapshots of one search agree in their data wherever they
are (cache, `result`, `previous`), and that the search of a collecting request is
its own and not yet in any snapshot.  `ShowsIdentified` and `EndsShow` preserve it for all
ends of a request at once.

`DurableCacheProofs` proves `TypeCorrect`, `RowsBelong`, `TableAtMostOneOver`,
`QuietPutsStore` and `LiveRowsStay`.  A put overwrites the primary key of a row
it looked up before others committed, so that rows belong to their key is not
inductive: the invariant adds that every search was made for one key only
(`MadeSound`) and that the row object a put holds can only be a row of the put's
key (`JobSound`).  The bound needs an argument about cardinality: in a table with
unique searches every non-empty part has an oldest row (`OldestExists`, by
well-foundedness of strict inclusion on finite sets), hence the trim leaves at most
`MaxEntries` rows (`TrimBounds`), the insert that follows adds one (`OneMore`), and a
table within its bound loses nothing to the trim (`NothingTrimmed`).

`SourceRequestsProofs` proves `TypeCorrect` and `LimiterPaces` (`PacesRequests`): the
lock is held exactly by the one call that pauses, the queue holds exactly the
queued calls (`LockSound`, `OrderSound`), and `nextAllowed` is one interval after
the last call let through (`ClocksSound`); letting a call through is a `Grant` of
`RequestPacing`, the clock its `TimePasses`, and the rest stutters.
It also proves `CallsAreLetThrough` (`LetThroughInTime`), `CallsAreBounded`
(`CallsUnderWayBounded`) and `AttemptsAreApart` (`AttemptsBackOff`).  The first needs for each position in the
queue when its turn is due at the latest (`TurnsSound`), the second an
argument by counting: the calls let through since a given one are spaced over the
time from its start to the last grant, and its deadline bounds that time
(`SpacingSound`); the bound is that of the oldest call under way.  The third compares the time of an
attempt with a sum of growing delays, which is a recursive function: that it exists
(for a finite number of attempts by taking the longest prefix on which it does) and
what one more attempt adds to it is proved first, then that each attempt comes no
sooner than the sum of the delays before it.

`WholesaleProofs` proves `TypeCorrect`, `SnapshotsAreTruthful`,
`RejectionsAreJustified` and `FailuresKeepListings`, for chains of refreshes of any
length.  The invariant says of the cached snapshot, of every result and of every
previous snapshot that it is well-typed, honest and collected no later than now, and of
a collecting request that what its feeds answered was collected after it started
and what it read before (`RequestSound`); `CutBounds` is the lemma about the limit: the
cut has at most `limit` listings and loses none if it has fewer.

`OfferFlowProofs` proves all eight properties of `OfferFlow`, for any registry, pages,
limits, budgets and query.  The inductive invariant `FlowOK` says what each collector
has done so far (`SourcesOK`: what it found are candidates of one search page, each id
once; what it got are answers of the pages of its ranked candidates; what it
contributes is what `Collect` makes of both) and that snapshot and dataset are what
merge, analysis and budget make of the collectors' offers (`ResultsOK`).  It is needed
because `Merge` reads what several collectors left and `Compact` what `Merge` left, in
steps long before.  Everything else is about the operators, and `OfferLemmas` has
those facts for any pages and any sequence of offers with distinct ids:

- `OffersWellTyped` (`TypeOK`): parser by parser, whatever a page contains, titles
  without words included, `SearchCandidatesType` and `ProductOffersType` show that it
  yields candidates, and offers the models of `domain/` admit; that a candidate
  shown as it was found has a title with words is the guard of `Collect`, whose
  other outcome is the exception (`CollectRaises`), and `Presentable` keeps it.
- `DatasetAlwaysFits`: the halving of the product's name is a recursive function whose
  existence is proved (`HalvesExists`); `BudgetIsKept` follows the loop.
- `DatasetAlwaysKeepsSources`: opportunities are matches (`OpportunitiesMatch`), so
  the first offer of a source in the ranking matches if any does, and with room for
  one offer of each source none of them is cut (`SelectionKeepsSources`).
- `AnalysisAlwaysIgnoresOrder` and `CurrenciesStayApart`: the sorted prices of a market
  are determined by its offers (`PricesAlike`: if one order were below another
  somewhere, too many prices would stand in too few places), the orders of ids,
  ranks, points and opportunities are strict and total (`IdOrder`, `GainsRanked`), and
  deduplication keeps the best of each kind whatever the order (`UniqueAsSet`).
- `EveryProductIsShown`: each offer is traced to the candidate it came from
  (`OfferOrigin`); an offer can only give way to one with its id, which is the same
  product's (`OneProduct`).
- `OpportunitiesAreAlwaysCheap` and `ChartsAlwaysAgree`: deduplication keeps all
  merged offers (`AllKept`), so the offers of a report are those of its market; a
  price below the first quartile is among the first quarter (`CheapQuarter`), the
  rounded median is at most the greatest price, and the points of a chart are
  the market from its least price to its greatest (`PointsOfMarket`).

The last three theorems state what the code relies on and cannot ensure: the ids of a
marketplace.  `PagesApart`: the pages of two products do not state offers with one id,
where these are not made of the product's own id; an offer with an id that is taken is
dropped by `_deduplicate_offers`.  `OnePagePerProduct`: results of a search that lead
to one URL without an id are one product; otherwise two offers could have one
fingerprint, and statistics would be made of fewer offers than the charts.  Both are
evaluated by TLC on the pages of `MCOfferFlow` (`MarketplacesIdentify`), so that they hold
of the instance the run checks; the other five theorems need neither.

Only model-checked: liveness (`EveryRequestEnds`, `EveryCallerAnswered`,
`FinishedTaskLeavesTable`, `EverySearchEnds`), which with ENABLED is out of the prover's
reach.  Every other property of a passing run is a theorem.

## 6. Not modelled

- The order of eviction of the AI result cache: `AIAnalysisService` evicts any
  entry at any time, so its properties hold for every order.
- The Gemini client: one HTTP call whose outcomes are those of a task.
- Query normalization beyond brands, capacities, colours and the set of words:
  Unicode forms and the splitting of a text into words.
- Parsers: the CSS selectors themselves, images, conditions and metadata.  Seen
  while reading, outside the properties: Torob's parser keeps only the digits of a
  text, so a sign or a decimal point there is lost; a candidate without a
  capacity matches a query with another one on the search page of Torob and Basalam and
  no longer on the product page; where marketplaces tell products apart by their
  URLs the fingerprint never removes an offer that the ids have left (`AllKept`).
- Means, standard deviations, wording and the printed score of the analysis.
- API schemas and health endpoints, which keep no state.
- The Flutter client: its controllers keep the answer that comes last, also when it
  belongs to an earlier search.  The web UI and its launcher, a development script.
- Migrations, deployment and backup scripts.
