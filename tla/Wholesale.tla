------------------------------ MODULE Wholesale ------------------------------
(***************************************************************************)
(* The wholesale flow (application/wholesale_service.py): for one query, a *)
(* request answers from its own cache or asks every configured feed, at    *)
(* most Concurrency at a time, falls back to the cached listings of the    *)
(* feeds that fail, and caches the result.  Unlike the retail pipeline it  *)
(* has no circuit breaker, drops what it knew when no feed is configured,  *)
(* and validates its result against a contract of its own                  *)
(* (domain/wholesale.py) that the configured limit may exceed.             *)
(***************************************************************************)
EXTENDS Naturals, Sequences, FiniteSets, SequencesExt

CONSTANTS
  Sources,        \* the feeds there may be
  Registries,     \* the registries a start may configure: sequences of feeds
  Ids,            \* listing_id, in their sorted order
  Requests,       \* concurrent requests for the query
  Concurrency,    \* wholesale_concurrency
  Limits,         \* the settings of max_wholesale_listings, within 1 .. 1000
  ContractLimit,  \* WholesaleSnapshot.listings admits 100
  FeedSize,       \* bound: records of a feed
  MaxClock,       \* bound: requests that collect
  Nothing         \* no snapshot

ASSUME WholesaleAssumption ==
  /\ Ids \subseteq Nat
  /\ Concurrency \in Nat \ {0} /\ Limits \subseteq Nat \ {0}
  /\ ContractLimit \in Nat \ {0} /\ FeedSize \in Nat /\ MaxClock \in Nat
  /\ \A reg \in Registries : reg \in Seq(Sources) /\ IsInjective(reg)

\* A listing: the feed it is attributed to and when it was collected; its id
\* is the key it is stored under.
Listing == [source : Sources, seen : Nat]
NoListings == [id \in {} |-> Nothing]

States == {"ready", "stale", "unavailable"}
Outcomes == {"complete", "partial", "failed", "no_sources_configured"}

\* stale_data_timestamp is Nothing unless the state is "stale".
Status == [state : States, count : Nat, since : Nat \cup {Nothing}]
Steps == {"none", "waiting", "asking", "failed", "ok"}
PCs == {"idle", "collecting", "storing", "answered", "rejected"}

VARIABLES
  clock,     \* counts the requests that collected
  registry,  \* the configured feeds, in order
  limit,     \* the configured max_listings
  cache,     \* the cached snapshot, or Nothing
  live,      \* its TTL is not over
  pc,        \* where each request is
  started,   \* the clock of a request that collects
  previous,  \* the snapshot it found in the cache, or Nothing
  step,      \* per request and feed: the collector
  found,     \* what the feed answered
  result     \* the snapshot the request is about to store or answers, or Nothing

vars == <<clock, registry, limit, cache, live, pc, started, previous, step, found, result>>

Init ==
  /\ clock = 0
  /\ registry \in Registries
  /\ limit \in Limits
  /\ cache = Nothing
  /\ live = FALSE
  /\ pc = [r \in Requests |-> "idle"]
  /\ started = [r \in Requests |-> 0]
  /\ previous = [r \in Requests |-> Nothing]
  /\ step = [r \in Requests |-> [s \in Sources |-> "none"]]
  /\ found = [r \in Requests |-> [s \in Sources |-> NoListings]]
  /\ result = [r \in Requests |-> Nothing]

-----------------------------------------------------------------------------
(* One feed *)

\* The listings of a feed: its first limit records, the first of those
\* with the same id.
Parsed(s, feed) ==
  [id \in {feed[i] : i \in {k \in DOMAIN feed : k <= limit}}
     |-> [source |-> s, seen |-> clock]]

\* Mutant: no limit on the merged listings.
Unbounded(listings) == listings

\* The listings with the smallest ids, up to the limit.
Bounded(listings) ==
  LET ids == DOMAIN listings
  IN  [id \in {i \in ids : Cardinality({j \in ids : j < i}) < limit} |-> listings[id]]

\* Mutant: the old listings of every feed.
OfAnySource(snapshot, s) ==
  IF snapshot = Nothing THEN NoListings ELSE snapshot.listings

\* _listings_for_source.
OfSource(snapshot, s) ==
  IF snapshot = Nothing THEN NoListings
  ELSE [id \in {i \in DOMAIN snapshot.listings : snapshot.listings[i].source = s}
          |-> snapshot.listings[id]]

-----------------------------------------------------------------------------
(* Merging the feeds of a request *)

Fresh(r, s) == step[r][s] = "ok"
Reused(r, s) == ~Fresh(r, s) /\ DOMAIN OfSource(previous[r], s) # {}

\* What feed s contributes: its answer or its old listings.
Part(r, s) ==
  IF Fresh(r, s) THEN found[r][s] ELSE OfSource(previous[r], s)

StatusOf(r, s) ==
  IF Fresh(r, s)
    THEN [state |-> "ready", count |-> Cardinality(DOMAIN found[r][s]), since |-> Nothing]
  ELSE IF Reused(r, s)
    THEN [state |-> "stale", count |-> Cardinality(DOMAIN Part(r, s)),
          since |-> previous[r].collected]
  ELSE [state |-> "unavailable", count |-> 0, since |-> Nothing]

Contributed(r) == UNION {DOMAIN Part(r, registry[i]) : i \in DOMAIN registry}

\* setdefault: of the listings with one id, that of the first feed wins.
FirstFeed(r, id) ==
  LET having == {i \in DOMAIN registry : id \in DOMAIN Part(r, registry[i])}
  IN  registry[CHOOSE i \in having : \A j \in having : i <= j]

Deduplicated(r) == [id \in Contributed(r) |-> Part(r, FirstFeed(r, id))[id]]

\* Mutant: old listings do not count.
OutcomeOfFresh(r) ==
  LET feeds == ToSet(registry)
  IN  IF \A s \in feeds : Fresh(r, s) THEN "complete"
      ELSE IF \E s \in feeds : Fresh(r, s) THEN "partial"
      ELSE "failed"

OutcomeOf(r) ==
  LET feeds == ToSet(registry)
  IN  IF \A s \in feeds : Fresh(r, s) THEN "complete"
      ELSE IF \E s \in feeds : Fresh(r, s) \/ Reused(r, s) THEN "partial"
      ELSE "failed"

Merged(r) ==
  [listings |-> Bounded(Deduplicated(r)),
   status |-> [s \in ToSet(registry) |-> StatusOf(r, s)],
   outcome |-> OutcomeOf(r),
   collected |-> started[r],
   stale |-> \E s \in ToSet(registry) : Reused(r, s)]

WithoutFeeds(at) ==
  [listings |-> NoListings, status |-> [s \in {} |-> Nothing],
   outcome |-> "no_sources_configured", collected |-> at, stale |-> FALSE]

-----------------------------------------------------------------------------
(* The steps of WholesaleService.run *)

Hit == cache # Nothing /\ live

\* InMemoryWholesaleSnapshotCache.get drops an entry whose time is over.
AfterGet == cache' = IF live THEN cache ELSE Nothing

AnswerFromCache(r) ==
  /\ pc[r] = "idle"
  /\ Hit
  /\ pc' = [pc EXCEPT ![r] = "answered"]
  /\ UNCHANGED <<clock, registry, limit, cache, live, started, previous, step, found, result>>

Begin(r) ==
  /\ pc[r] = "idle"
  /\ clock < MaxClock
  /\ clock' = clock + 1
  /\ AfterGet
  /\ UNCHANGED <<registry, limit, live>>

\* Without feeds there is nothing to wait for and nothing to fall back to.
BeginWithoutFeeds(r) ==
  /\ registry = <<>>
  /\ Begin(r)
  /\ pc' = [pc EXCEPT ![r] = "storing"]
  /\ result' = [result EXCEPT ![r] = WithoutFeeds(clock + 1)]
  /\ UNCHANGED <<started, previous, step, found>>

\* A miss, or a refresh that keeps the hit to fall back to.
Collect(r) ==
  /\ registry # <<>>
  /\ Begin(r)
  /\ pc' = [pc EXCEPT ![r] = "collecting"]
  /\ started' = [started EXCEPT ![r] = clock + 1]
  /\ previous' = [previous EXCEPT ![r] = IF Hit THEN cache ELSE Nothing]
  /\ step' = [step EXCEPT ![r] =
                [s \in Sources |-> IF s \in ToSet(registry) THEN "waiting" ELSE "none"]]
  /\ UNCHANGED <<found, result>>

InGate(r) == {s \in Sources : step[r][s] = "asking"}

\* Mutant: the semaphore is forgotten.
AdmitFreely(r, i) ==
  /\ pc[r] = "collecting"
  /\ step[r][registry[i]] = "waiting"
  /\ step' = [step EXCEPT ![r][registry[i]] = "asking"]
  /\ UNCHANGED <<clock, registry, limit, cache, live, pc, started, previous, found, result>>

\* The semaphore admits the collectors in the order of the registry.
Admit(r, i) ==
  /\ pc[r] = "collecting"
  /\ step[r][registry[i]] = "waiting"
  /\ \A j \in 1 .. i - 1 : step[r][registry[j]] # "waiting"
  /\ Cardinality(InGate(r)) < Concurrency
  /\ step' = [step EXCEPT ![r][registry[i]] = "asking"]
  /\ UNCHANGED <<clock, registry, limit, cache, live, pc, started, previous, found, result>>

FeedAnswers(r, s, feed) ==
  /\ step[r][s] = "asking"
  /\ step' = [step EXCEPT ![r][s] = "ok"]
  /\ found' = [found EXCEPT ![r][s] = Parsed(s, feed)]
  /\ UNCHANGED <<clock, registry, limit, cache, live, pc, started, previous, result>>

\* A timeout, an HTTP error, too many bytes, no JSON, or one invalid record.
FeedFails(r, s) ==
  /\ step[r][s] = "asking"
  /\ step' = [step EXCEPT ![r][s] = "failed"]
  /\ UNCHANGED <<clock, registry, limit, cache, live, pc, started, previous, found, result>>

AllIn(r) ==
  pc[r] = "collecting" /\ \A s \in ToSet(registry) : step[r][s] \in {"ok", "failed"}

\* The request is over and forgets what it worked with.
Forget(r) ==
  /\ started' = [started EXCEPT ![r] = 0]
  /\ previous' = [previous EXCEPT ![r] = Nothing]
  /\ step' = [step EXCEPT ![r] = [s \in Sources |-> "none"]]
  /\ found' = [found EXCEPT ![r] = [s \in Sources |-> NoListings]]

\* The snapshot breaks its contract: the request fails with 422.
Reject(r) ==
  /\ AllIn(r)
  /\ Cardinality(DOMAIN Merged(r).listings) > ContractLimit
  /\ pc' = [pc EXCEPT ![r] = "rejected"]
  /\ Forget(r)
  /\ UNCHANGED <<clock, registry, limit, cache, live, result>>

\* Only a snapshot with something in it is stored.
Merge(r) ==
  /\ AllIn(r)
  /\ Cardinality(DOMAIN Merged(r).listings) <= ContractLimit
  /\ pc' = [pc EXCEPT ![r] = IF OutcomeOf(r) = "failed" THEN "answered" ELSE "storing"]
  /\ result' = [result EXCEPT ![r] = Merged(r)]
  /\ Forget(r)
  /\ UNCHANGED <<clock, registry, limit, cache, live>>

Store(r) ==
  /\ pc[r] = "storing"
  /\ pc' = [pc EXCEPT ![r] = "answered"]
  /\ cache' = result[r]
  /\ live' = TRUE
  /\ result' = [result EXCEPT ![r] = Nothing]
  /\ UNCHANGED <<clock, registry, limit, started, previous, step, found>>

\* The answer is sent; the client may ask again.
Leave(r) ==
  /\ pc[r] \in {"answered", "rejected"}
  /\ pc' = [pc EXCEPT ![r] = "idle"]
  /\ result' = [result EXCEPT ![r] = Nothing]
  /\ UNCHANGED <<clock, registry, limit, cache, live, started, previous, step, found>>

Expire ==
  /\ live
  /\ live' = FALSE
  /\ UNCHANGED <<clock, registry, limit, cache, pc, started, previous, step, found, result>>

\* A restart keeps the cache when it is the durable one, and may find other
\* feeds and another limit configured.
Restart ==
  /\ registry' \in Registries
  /\ limit' \in Limits
  /\ \/ UNCHANGED <<cache, live>>
     \/ cache' = Nothing /\ live' = FALSE
  /\ pc' = [r \in Requests |-> "idle"]
  /\ started' = [r \in Requests |-> 0]
  /\ previous' = [r \in Requests |-> Nothing]
  /\ step' = [r \in Requests |-> [s \in Sources |-> "none"]]
  /\ found' = [r \in Requests |-> [s \in Sources |-> NoListings]]
  /\ result' = [r \in Requests |-> Nothing]
  /\ UNCHANGED clock

Feeds == BoundedSeq(Ids, FeedSize)

Work(r) ==
  \/ \E i \in DOMAIN registry : Admit(r, i)
  \/ \E s \in Sources : FeedFails(r, s) \/ \E feed \in Feeds : FeedAnswers(r, s, feed)
  \/ Reject(r) \/ Merge(r) \/ Store(r)

RequestStep(r) == AnswerFromCache(r) \/ BeginWithoutFeeds(r) \/ Collect(r) \/ Work(r) \/ Leave(r)

Next == Expire \/ Restart \/ \E r \in Requests : RequestStep(r)

Spec == Init /\ [][Next]_vars

-----------------------------------------------------------------------------
(* Properties *)

AreListings(f) ==
  /\ DOMAIN f \subseteq Ids
  /\ f \in [DOMAIN f -> Listing]

IsSnapshot(snap) ==
  /\ DOMAIN snap = {"listings", "status", "outcome", "collected", "stale"}
  /\ AreListings(snap.listings)
  /\ DOMAIN snap.status \subseteq Sources
  /\ snap.status \in [DOMAIN snap.status -> Status]
  /\ snap.outcome \in Outcomes /\ snap.collected \in Nat /\ snap.stale \in BOOLEAN

Snapshots == ({cache} \cup {result[r] : r \in Requests} \cup {previous[r] : r \in Requests})
             \ {Nothing}

TypeOK ==
  /\ clock \in 0 .. MaxClock /\ registry \in Registries /\ limit \in Limits /\ live \in BOOLEAN
  /\ pc \in [Requests -> PCs] /\ started \in [Requests -> 0 .. MaxClock]
  /\ step \in [Requests -> [Sources -> Steps]]
  /\ \A r \in Requests : DOMAIN found[r] = Sources /\ \A s \in Sources : AreListings(found[r][s])
  /\ \A snap \in Snapshots : IsSnapshot(snap)
  /\ \A r \in Requests : Cardinality(InGate(r)) <= Concurrency

\* A snapshot tells the truth about its listings: those of a ready feed were
\* collected for it, those of a stale one before it, a feed that gave nothing
\* has none, and the stale mark and the timestamps follow.  It holds through
\* refreshes that reuse what was already reused, restarts with other feeds
\* and requests that overlap (wholesale_service.py:99-134).
Honest(snap) ==
  /\ \A id \in DOMAIN snap.listings :
       LET listing == snap.listings[id]
       IN  /\ listing.source \in DOMAIN snap.status
           /\ CASE snap.status[listing.source].state = "ready" -> listing.seen >= snap.collected
                [] snap.status[listing.source].state = "stale" -> listing.seen < snap.collected
                [] OTHER -> FALSE
  /\ \A s \in DOMAIN snap.status :
       /\ Cardinality(DOMAIN OfSource(snap, s)) <= snap.status[s].count
       /\ snap.status[s].state = "stale" => snap.status[s].since < snap.collected
  /\ snap.stale <=> \E s \in DOMAIN snap.status : snap.status[s].state = "stale"
  /\ snap.outcome = "complete" => ~snap.stale

SnapshotsTellTheTruth ==
  \A snap \in Snapshots : Honest(snap)

\* docs/development-phases.md:78, "Stale wholesale snapshot fallback": when a
\* feed fails, the listings the request found in the cache for it are in its
\* answer, unless the limit cuts them off; an answer with nothing in it does
\* not replace them (wholesale_service.py:106-118, 135).
FailureKeepsListings ==
  [][\A r \in Requests : \A s \in ToSet(registry) :
       AllIn(r) /\ step[r][s] = "failed" /\ result'[r] # result[r] =>
         LET snap == result'[r]
             old == DOMAIN OfSource(previous[r], s)
         IN  /\ Cardinality(DOMAIN snap.listings) < limit => old \subseteq DOMAIN snap.listings
             /\ old # {} => pc'[r] = "storing"]_vars

\* A request is rejected only when its feeds together hold more different
\* listings than the contract admits, so never while the configured limit is
\* within it; and a rejected request stores nothing
\* (wholesale_service.py:126-136, domain/wholesale.py:68, config.py:60).
RejectedOnlyOverContract ==
  [][\A r \in Requests : pc[r] = "collecting" /\ pc'[r] = "rejected" =>
       /\ limit > ContractLimit
       /\ Cardinality(Contributed(r)) > ContractLimit
       /\ UNCHANGED <<cache, live>>]_vars

=============================================================================
