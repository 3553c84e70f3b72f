---------------------------- MODULE WholesaleProofs ----------------------------
(***************************************************************************)
(* Proofs about the wholesale flow, for any feeds, registries, limits and  *)
(* concurrent requests.                                                    *)
(***************************************************************************)
EXTENDS Wholesale, SelectionLemmas, TLAPS

USE WholesaleAssumption

-----------------------------------------------------------------------------
(* The invariant *)

\* The listings of f were collected between two times.
CollectedWithin(f, from, to) ==
  \A id \in DOMAIN f : from <= f[id].seen /\ f[id].seen <= to

\* What a snapshot is at time t.
Good(snap, t) ==
  /\ IsSnapshot(snap) /\ Honest(snap)
  /\ IsFiniteSet(DOMAIN snap.listings)
  /\ snap.collected <= t /\ CollectedWithin(snap.listings, 0, t)

\* What a request may fall back to once it has started.
Earlier(snap, start) ==
  snap.collected < start /\ \A id \in DOMAIN snap.listings : snap.listings[id].seen < start

\* What a feed answered.
FeedSound(f, s, from, to) ==
  /\ AreListings(f) /\ IsFiniteSet(DOMAIN f)
  /\ \A id \in DOMAIN f : f[id].source = s
  /\ CollectedWithin(f, from, to)

Shapes ==
  /\ clock \in 0 .. MaxClock /\ registry \in Registries /\ limit \in Limits /\ live \in BOOLEAN
  /\ pc \in [Requests -> PCs] /\ started \in [Requests -> 0 .. MaxClock]
  /\ step \in [Requests -> [Sources -> Steps]]
  /\ DOMAIN found = Requests /\ DOMAIN previous = Requests /\ DOMAIN result = Requests
  /\ \A r \in Requests : DOMAIN found[r] = Sources

\* A request keeps nothing when it does not collect.
RequestSound(r) ==
  /\ pc[r] # "collecting" =>
       /\ previous[r] = Nothing
       /\ \A s \in Sources : step[r][s] = "none" /\ found[r][s] = NoListings
  /\ pc[r] \in {"idle", "collecting"} => result[r] = Nothing
  /\ started[r] <= clock
  /\ previous[r] # Nothing => Good(previous[r], clock) /\ Earlier(previous[r], started[r])
  /\ result[r] # Nothing => Good(result[r], clock)
  /\ \A s \in Sources : FeedSound(found[r][s], s, started[r], clock)
  /\ IsFiniteSet(InGate(r)) /\ Cardinality(InGate(r)) <= Concurrency

Inductive ==
  /\ Shapes
  /\ cache # Nothing => Good(cache, clock)
  /\ \A r \in Requests : RequestSound(r)

-----------------------------------------------------------------------------
(* Helpers *)

LEMMA RegistryType ==
  ASSUME Shapes
  PROVE  /\ registry \in Seq(Sources)
         /\ ToSet(registry) \subseteq Sources
         /\ \A i \in DOMAIN registry : registry[i] \in ToSet(registry)
         /\ \A s \in ToSet(registry) : \E i \in DOMAIN registry : s = registry[i]
<1>1. registry \in Seq(Sources)
  BY DEF Shapes
<1>2. QED
  BY <1>1 DEF ToSet

LEMMA GoodLater ==
  ASSUME NEW snap, NEW t \in Nat, NEW u \in Nat, t <= u, Good(snap, t)
  PROVE  Good(snap, u)
<1>1. snap.collected \in Nat /\ \A id \in DOMAIN snap.listings : snap.listings[id].seen \in Nat
  BY DEF Good, IsSnapshot, AreListings, Listing
<1>2. QED
  BY <1>1 DEF Good, CollectedWithin

LEMMA FeedLater ==
  ASSUME NEW f, NEW s, NEW from \in Nat, NEW t \in Nat, NEW u \in Nat, t <= u,
         FeedSound(f, s, from, t)
  PROVE  FeedSound(f, s, from, u)
<1>1. \A id \in DOMAIN f : f[id].seen \in Nat
  BY DEF FeedSound, AreListings, Listing
<1>2. QED
  BY <1>1 DEF FeedSound, CollectedWithin

LEMMA NoListingsSound ==
  \A s, from, to : FeedSound(NoListings, s, from, to)
BY FS_EmptySet DEF NoListings, FeedSound, AreListings, CollectedWithin

\* A cut of the smallest ids keeps at most limit of them, and all if it keeps
\* fewer.
Cut(ids) == {i \in ids : Cardinality({j \in ids : j < i}) < limit}

LEMMA CutBounds ==
  ASSUME NEW ids, ids \subseteq Nat, IsFiniteSet(ids), limit \in Nat
  PROVE  /\ IsFiniteSet(Cut(ids)) /\ Cardinality(Cut(ids)) \in Nat
         /\ Cardinality(Cut(ids)) <= limit
         /\ Cardinality(Cut(ids)) < limit => Cut(ids) = ids
<1> DEFINE below(i) == {j \in ids : j < i}
           kept == Cut(ids)
<1>1. /\ kept \subseteq ids /\ IsFiniteSet(kept) /\ Cardinality(kept) \in Nat
      /\ \A i \in ids : i \in kept <=> Cardinality(below(i)) < limit
  BY FS_Subset, FS_CardinalityType DEF Cut
<1>2. \A i \in ids : IsFiniteSet(below(i)) /\ Cardinality(below(i)) \in Nat
  BY FS_Subset, FS_CardinalityType
<1>3. Cardinality(kept) <= limit
  <2>1. CASE kept = {}
    BY <2>1, FS_EmptySet
  <2>2. CASE kept # {}
    <3>1. PICK last \in kept : \A i \in kept : i <= last
      <4> HIDE DEF kept
      <4> QED BY <1>1, <2>2, GreatestNat
    <3>2. kept \ {last} \subseteq below(last)
      <4>1. \A i \in kept : i \in ids /\ i \in Nat /\ last \in Nat /\ i <= last
        BY <1>1, <3>1
      <4>2. \A i \in kept : i # last => i < last
        BY <4>1
      <4> HIDE DEF kept
      <4>3. QED
        BY <4>1, <4>2
    <3>3. Cardinality(kept \ {last}) <= Cardinality(below(last))
      <4> HIDE DEF kept, below
      <4> QED BY <1>1, <1>2, <3>1, <3>2, FS_Subset
    <3>4. Cardinality(kept \ {last}) = Cardinality(kept) - 1
      <4> HIDE DEF kept
      <4> QED BY <1>1, <3>1, FS_RemoveElement
    <3>5. Cardinality(below(last)) < limit
      BY <1>1, <3>1
    <3> HIDE DEF kept, below
    <3>6. QED
      BY <1>1, <1>2, <3>1, <3>3, <3>4, <3>5
  <2>3. QED
    BY <2>1, <2>2
<1>4. ASSUME Cardinality(kept) < limit, kept # ids PROVE FALSE
  <2>1. ids \ kept # {} /\ ids \ kept \subseteq Nat
    BY <1>1, <1>4
  <2>2. PICK first \in ids \ kept : \A i \in ids \ kept : first <= i
    <3> HIDE DEF kept
    <3> QED BY <2>1, LeastNat
  <2>3. below(first) \subseteq kept
    <3>1. \A j \in ids : j \in Nat /\ first \in Nat
      BY <2>2
    <3>2. \A j \in ids : j < first => j \in kept
      BY <2>2, <3>1
    <3> HIDE DEF kept
    <3>3. QED
      BY <3>2
  <2>4. Cardinality(below(first)) <= Cardinality(kept)
    <3> HIDE DEF kept, below
    <3> QED BY <1>1, <2>3, FS_Subset
  <2>5. ~(Cardinality(below(first)) < limit)
    BY <1>1, <2>2
  <2> HIDE DEF kept, below
  <2>6. QED
    BY <1>1, <1>2, <1>4, <2>2, <2>4, <2>5
<1>5. QED
  BY <1>1, <1>3, <1>4

LEMMA BoundedIsCut ==
  \A f : /\ DOMAIN Bounded(f) = Cut(DOMAIN f)
         /\ \A id \in DOMAIN Bounded(f) : id \in DOMAIN f /\ Bounded(f)[id] = f[id]
BY DEF Bounded, Cut

LEMMA OfSourceSound ==
  ASSUME NEW snap, NEW s,
         snap # Nothing => AreListings(snap.listings) /\ IsFiniteSet(DOMAIN snap.listings)
  PROVE  /\ AreListings(OfSource(snap, s)) /\ IsFiniteSet(DOMAIN OfSource(snap, s))
         /\ \A id \in DOMAIN OfSource(snap, s) :
              /\ snap # Nothing /\ id \in DOMAIN snap.listings
              /\ OfSource(snap, s)[id] = snap.listings[id]
              /\ snap.listings[id].source = s
<1>1. CASE snap = Nothing
  BY <1>1, FS_EmptySet DEF OfSource, NoListings, AreListings
<1>2. CASE snap # Nothing
  <2>1. DOMAIN OfSource(snap, s) \subseteq DOMAIN snap.listings
    BY <1>2 DEF OfSource
  <2>2. \A id \in DOMAIN OfSource(snap, s) :
          OfSource(snap, s)[id] = snap.listings[id] /\ snap.listings[id].source = s
    BY <1>2 DEF OfSource
  <2>3. IsFiniteSet(DOMAIN OfSource(snap, s))
    BY <1>2, <2>1, FS_Subset
  <2>4. AreListings(OfSource(snap, s))
    BY <1>2, <2>1, <2>2 DEF AreListings, OfSource
  <2>5. QED
    BY <1>2, <2>1, <2>2, <2>3, <2>4
<1>3. QED
  BY <1>1, <1>2

-----------------------------------------------------------------------------
(* What a request merges *)

LEMMA PartSound ==
  ASSUME Inductive, NEW r \in Requests, NEW s \in Sources
  PROVE  /\ AreListings(Part(r, s)) /\ IsFiniteSet(DOMAIN Part(r, s))
         /\ \A id \in DOMAIN Part(r, s) :
              LET seen == Part(r, s)[id].seen
              IN  /\ Part(r, s)[id].source = s
                  /\ seen \in Nat /\ seen <= clock
                  /\ Fresh(r, s) => started[r] <= seen
                  /\ ~Fresh(r, s) => Reused(r, s) /\ seen < started[r]
<1>1. RequestSound(r) /\ Shapes
  BY DEF Inductive
<1>2. CASE Fresh(r, s)
  <2>1. Part(r, s) = found[r][s] /\ FeedSound(found[r][s], s, started[r], clock)
    BY <1>1, <1>2 DEF Part, RequestSound
  <2>2. QED
    BY <1>2, <2>1 DEF FeedSound, CollectedWithin, AreListings, Listing
<1>3. CASE ~Fresh(r, s)
  <2>1. Part(r, s) = OfSource(previous[r], s)
    BY <1>3 DEF Part
  <2>2. previous[r] # Nothing =>
          /\ AreListings(previous[r].listings) /\ IsFiniteSet(DOMAIN previous[r].listings)
          /\ \A id \in DOMAIN previous[r].listings :
               /\ previous[r].listings[id].seen < started[r]
               /\ previous[r].listings[id].seen <= clock
               /\ previous[r].listings[id].seen \in Nat
    BY <1>1 DEF RequestSound, Good, IsSnapshot, Earlier, CollectedWithin, AreListings, Listing
  <2>3. /\ AreListings(OfSource(previous[r], s)) /\ IsFiniteSet(DOMAIN OfSource(previous[r], s))
        /\ \A id \in DOMAIN OfSource(previous[r], s) :
              /\ previous[r] # Nothing /\ id \in DOMAIN previous[r].listings
              /\ OfSource(previous[r], s)[id] = previous[r].listings[id]
              /\ previous[r].listings[id].source = s
    BY <2>2, OfSourceSound
  <2>4. ASSUME NEW id \in DOMAIN Part(r, s) PROVE Reused(r, s)
    BY <1>3, <2>1 DEF Reused
  <2>5. QED
    BY <1>3, <2>1, <2>2, <2>3, <2>4
<1>4. QED
  BY <1>2, <1>3

LEMMA FirstFeedSound ==
  ASSUME Shapes, NEW r \in Requests, NEW id \in Contributed(r)
  PROVE  /\ FirstFeed(r, id) \in ToSet(registry)
         /\ id \in DOMAIN Part(r, FirstFeed(r, id))
<1> DEFINE having == {i \in DOMAIN registry : id \in DOMAIN Part(r, registry[i])}
           first == CHOOSE i \in having : \A j \in having : i <= j
<1>1. having \subseteq Nat /\ having # {}
  BY RegistryType DEF Contributed
<1>2. \E i \in having : \A j \in having : i <= j
  <2> HIDE DEF having
  <2> QED BY <1>1, LeastNat
<1>3. first \in having
  <2> HIDE DEF having
  <2> QED BY <1>2
<1>4. FirstFeed(r, id) = registry[first]
  BY DEF FirstFeed
<1>5. first \in DOMAIN registry /\ id \in DOMAIN Part(r, registry[first])
  BY <1>3
<1> HIDE DEF first
<1>6. QED
  BY <1>4, <1>5, RegistryType

LEMMA ContributedSound ==
  ASSUME Inductive, NEW r \in Requests
  PROVE  /\ IsFiniteSet(Contributed(r)) /\ Contributed(r) \subseteq Ids
         /\ \A s \in ToSet(registry) : DOMAIN Part(r, s) \subseteq Contributed(r)
<1>1. Shapes /\ registry \in Seq(Sources)
  BY RegistryType DEF Inductive
<1> DEFINE n == Len(registry)
           parts == {DOMAIN Part(r, registry[i]) : i \in 1 .. n}
<1>2. \A i \in 1 .. n : registry[i] \in Sources
  BY <1>1
<1>3. \A part \in parts : IsFiniteSet(part) /\ part \subseteq Ids
  BY <1>2, PartSound DEF AreListings
<1>4. IsFiniteSet(parts)
  <2>1. IsFiniteSet(1 .. n)
    BY <1>1, FS_Interval
  <2> DEFINE f == [i \in 1 .. n |-> DOMAIN Part(r, registry[i])]
  <2>2. f \in [1 .. n -> parts] /\ \A part \in parts : \E i \in 1 .. n : f[i] = part
    OBVIOUS
  <2>3. f \in Surjection(1 .. n, parts)
    <3> HIDE DEF parts, f, n
    <3> QED BY <2>2 DEF Surjection
  <2>4. QED
    <3> HIDE DEF parts, f, n
    <3> QED BY <2>1, <2>3, FS_Surjection
<1>5. Contributed(r) = UNION parts
  <2>1. DOMAIN registry = 1 .. n
    BY <1>1
  <2>2. QED
    BY <2>1 DEF Contributed
<1>6. IsFiniteSet(Contributed(r)) /\ Contributed(r) \subseteq Ids
  <2> HIDE DEF parts
  <2> QED BY <1>3, <1>4, <1>5, FS_UNION
<1>7. QED
  BY <1>1, <1>6, RegistryType DEF Contributed

\* The listings of a merged snapshot are contributed by the feed they name.
LEMMA MergedListings ==
  ASSUME Inductive, NEW r \in Requests
  PROVE  /\ DOMAIN Merged(r).listings = Cut(Contributed(r))
         /\ AreListings(Merged(r).listings) /\ IsFiniteSet(DOMAIN Merged(r).listings)
         /\ \A id \in DOMAIN Merged(r).listings :
              LET listing == Merged(r).listings[id]
              IN  /\ listing.source \in ToSet(registry)
                  /\ id \in DOMAIN Part(r, listing.source)
                  /\ listing = Part(r, listing.source)[id]
<1>1. Shapes /\ limit \in Nat
  BY DEF Inductive, Shapes
<1>2. /\ Merged(r).listings = Bounded(Deduplicated(r))
      /\ DOMAIN Deduplicated(r) = Contributed(r)
  BY DEF Merged, Deduplicated
<1>3. DOMAIN Merged(r).listings = Cut(Contributed(r)) /\ Cut(Contributed(r)) \subseteq Contributed(r)
  <2>1. Cut(Contributed(r)) \subseteq Contributed(r)
    BY DEF Cut
  <2>2. DOMAIN Bounded(Deduplicated(r)) = Cut(DOMAIN Deduplicated(r))
    BY BoundedIsCut
  <2>3. QED
    BY <1>2, <2>1, <2>2
<1>4. IsFiniteSet(DOMAIN Merged(r).listings)
  BY <1>3, ContributedSound, FS_Subset
<1>5. ASSUME NEW id \in DOMAIN Merged(r).listings
      PROVE  /\ id \in Ids
             /\ Merged(r).listings[id].source \in ToSet(registry)
             /\ id \in DOMAIN Part(r, Merged(r).listings[id].source)
             /\ Merged(r).listings[id] = Part(r, Merged(r).listings[id].source)[id]
             /\ Merged(r).listings[id] \in Listing
  <2>1. id \in Contributed(r) /\ id \in Ids
    BY <1>3, ContributedSound
  <2>2. PICK s \in ToSet(registry) : s = FirstFeed(r, id) /\ id \in DOMAIN Part(r, s)
    BY <1>1, <2>1, FirstFeedSound
  <2>3. Merged(r).listings[id] = Part(r, s)[id]
    <3>1. Merged(r).listings[id] = Deduplicated(r)[id]
      BY <1>2, BoundedIsCut
    <3>2. QED
      BY <2>1, <2>2, <3>1 DEF Deduplicated
  <2>4. s \in Sources
    BY <1>1, RegistryType
  <2>5. Part(r, s)[id].source = s /\ Part(r, s)[id] \in Listing
    BY <2>2, <2>4, PartSound DEF AreListings
  <2>6. QED
    BY <2>1, <2>2, <2>3, <2>5
<1>6. AreListings(Merged(r).listings)
  <2>1. Merged(r).listings = [id \in DOMAIN Merged(r).listings |-> Merged(r).listings[id]]
    BY <1>2 DEF Bounded
  <2>2. QED
    BY <1>5, <2>1 DEF AreListings
<1>7. QED
  BY <1>3, <1>4, <1>5, <1>6

LEMMA MergedGood ==
  ASSUME Inductive, NEW r \in Requests
  PROVE  Good(Merged(r), clock)
<1> DEFINE snap == Merged(r)
           feeds == ToSet(registry)
<1>1. /\ Shapes /\ RequestSound(r) /\ feeds \subseteq Sources
      /\ clock \in Nat /\ started[r] \in Nat /\ started[r] <= clock
  BY RegistryType DEF Inductive, Shapes, RequestSound
<1>2. /\ DOMAIN snap = {"listings", "status", "outcome", "collected", "stale"}
      /\ snap.collected = started[r] /\ snap.outcome = OutcomeOf(r)
      /\ snap.stale = (\E s \in feeds : Reused(r, s))
      /\ snap.status = [s \in feeds |-> StatusOf(r, s)]
  BY DEF Merged
<1>3. /\ AreListings(snap.listings) /\ IsFiniteSet(DOMAIN snap.listings)
      /\ \A id \in DOMAIN snap.listings :
            /\ snap.listings[id].source \in feeds
            /\ id \in DOMAIN Part(r, snap.listings[id].source)
            /\ snap.listings[id] = Part(r, snap.listings[id].source)[id]
  BY MergedListings
<1>4. \A s \in feeds : s \in Sources /\ snap.status[s] = StatusOf(r, s)
  BY <1>1, <1>2
<1> HIDE DEF snap, feeds
<1>5. ASSUME NEW s \in feeds
      PROVE  /\ StatusOf(r, s) \in Status
             /\ StatusOf(r, s).count = Cardinality(DOMAIN Part(r, s))
             /\ StatusOf(r, s).state = "ready" <=> Fresh(r, s)
             /\ StatusOf(r, s).state = "stale" <=> Reused(r, s)
             /\ Reused(r, s) => StatusOf(r, s).since < started[r]
  <2>1. Cardinality(DOMAIN Part(r, s)) \in Nat
    BY <1>4, PartSound, FS_CardinalityType
  <2>2. CASE Fresh(r, s)
    BY <2>1, <2>2 DEF StatusOf, Status, Part, Reused, States
  <2>3. CASE Reused(r, s)
    <3>1. ~Fresh(r, s) /\ previous[r] # Nothing
      BY <2>3 DEF Reused, OfSource, NoListings
    <3>2. previous[r].collected \in Nat /\ previous[r].collected < started[r]
      BY <1>1, <3>1 DEF RequestSound, Good, IsSnapshot, Earlier
    <3>3. QED
      BY <2>1, <2>3, <3>1, <3>2 DEF StatusOf, Status, States
  <2>4. CASE ~Fresh(r, s) /\ ~Reused(r, s)
    <3>1. DOMAIN Part(r, s) = {}
      BY <2>4 DEF Part, Reused
    <3>2. QED
      BY <2>4, <3>1, FS_EmptySet DEF StatusOf, Status, States
  <2>5. QED
    BY <2>2, <2>3, <2>4 DEF Reused
<1>6. snap.outcome \in Outcomes /\ (snap.outcome = "complete" => \A s \in feeds : Fresh(r, s))
  BY <1>2 DEF OutcomeOf, Outcomes, feeds
<1>7. IsSnapshot(snap)
  <2>1. DOMAIN snap.status = feeds /\ snap.status \in [feeds -> Status]
    BY <1>2, <1>5
  <2>2. snap.stale \in BOOLEAN
    BY <1>2
  <2>3. QED
    BY <1>1, <1>2, <1>3, <1>6, <2>1, <2>2 DEF IsSnapshot
<1>8. Honest(snap)
  <2>1. ASSUME NEW id \in DOMAIN snap.listings
        PROVE  LET listing == snap.listings[id]
               IN  /\ listing.source \in DOMAIN snap.status
                   /\ CASE snap.status[listing.source].state = "ready" -> listing.seen >= snap.collected
                        [] snap.status[listing.source].state = "stale" -> listing.seen < snap.collected
                        [] OTHER -> FALSE
    <3>1. PICK s \in feeds : /\ s = snap.listings[id].source /\ s \in Sources
                             /\ id \in DOMAIN Part(r, s) /\ snap.listings[id] = Part(r, s)[id]
      BY <1>3, <1>4, <2>1
    <3>2. /\ Part(r, s)[id].seen \in Nat
          /\ Fresh(r, s) => started[r] <= Part(r, s)[id].seen
          /\ ~Fresh(r, s) => Reused(r, s) /\ Part(r, s)[id].seen < started[r]
      BY <3>1, PartSound
    <3>3. s \in DOMAIN snap.status
      BY <1>2, <3>1
    <3>4. CASE Fresh(r, s)
      <4>1. snap.status[s].state = "ready" /\ snap.listings[id].seen >= snap.collected
        BY <1>1, <1>2, <1>4, <1>5, <3>1, <3>2, <3>4
      <4>2. QED
        BY <3>1, <3>3, <4>1
    <3>5. CASE ~Fresh(r, s)
      <4>1. snap.status[s].state = "stale" /\ snap.listings[id].seen < snap.collected
        BY <1>1, <1>2, <1>4, <1>5, <3>1, <3>2, <3>5
      <4>2. QED
        BY <3>1, <3>3, <4>1
    <3>6. QED
      BY <3>4, <3>5
  <2>2. ASSUME NEW s \in DOMAIN snap.status
        PROVE  /\ Cardinality(DOMAIN OfSource(snap, s)) <= snap.status[s].count
               /\ snap.status[s].state = "stale" => snap.status[s].since < snap.collected
    <3>1. s \in feeds
      BY <1>2, <2>2
    <3>2. DOMAIN OfSource(snap, s) \subseteq DOMAIN Part(r, s)
      <4>1. \A id \in DOMAIN OfSource(snap, s) :
              id \in DOMAIN snap.listings /\ snap.listings[id].source = s
        BY <1>3, OfSourceSound
      <4>2. QED
        BY <1>3, <4>1
    <3>3. Cardinality(DOMAIN OfSource(snap, s)) <= Cardinality(DOMAIN Part(r, s))
      BY <1>4, <3>1, <3>2, PartSound, FS_Subset
    <3>4. QED
      BY <1>2, <1>4, <1>5, <3>1, <3>3
  <2>3. snap.stale <=> \E s \in DOMAIN snap.status : snap.status[s].state = "stale"
    BY <1>2, <1>4, <1>5
  <2>4. snap.outcome = "complete" => ~snap.stale
    BY <1>2, <1>6 DEF Reused
  <2>5. QED
    BY <2>1, <2>2, <2>3, <2>4 DEF Honest
<1>9. snap.collected <= clock /\ CollectedWithin(snap.listings, 0, clock)
  <2>1. ASSUME NEW id \in DOMAIN snap.listings
        PROVE  0 <= snap.listings[id].seen /\ snap.listings[id].seen <= clock
    <3>1. PICK s \in feeds : /\ s \in Sources
                             /\ id \in DOMAIN Part(r, s) /\ snap.listings[id] = Part(r, s)[id]
      BY <1>3, <1>4, <2>1
    <3>2. QED
      BY <3>1, PartSound
  <2>2. QED
    BY <1>1, <1>2, <2>1 DEF CollectedWithin
<1>10. Good(snap, clock)
  BY <1>3, <1>7, <1>8, <1>9 DEF Good
<1>11. QED
  BY <1>10 DEF snap

-----------------------------------------------------------------------------
(* The steps *)

LEMMA InitInductive == Init => Inductive
<1> SUFFICES ASSUME Init PROVE Inductive
  OBVIOUS
<1>1. Shapes
  <2>1. /\ clock \in 0 .. MaxClock /\ registry \in Registries /\ limit \in Limits
        /\ started \in [Requests -> 0 .. MaxClock]
    BY DEF Init
  <2>5. live \in BOOLEAN
    BY DEF Init
  <2>2. pc \in [Requests -> PCs] /\ step \in [Requests -> [Sources -> Steps]]
    BY DEF Init, PCs, Steps
  <2>3. /\ DOMAIN found = Requests /\ DOMAIN previous = Requests /\ DOMAIN result = Requests
        /\ \A r \in Requests : DOMAIN found[r] = Sources
    BY DEF Init
  <2>4. QED
    BY <2>1, <2>2, <2>3, <2>5 DEF Shapes
<1>2. ASSUME NEW r \in Requests PROVE RequestSound(r)
  <2>1. /\ pc[r] = "idle" /\ started[r] = 0 /\ previous[r] = Nothing /\ result[r] = Nothing
        /\ \A s \in Sources : step[r][s] = "none" /\ found[r][s] = NoListings
        /\ clock = 0
    BY DEF Init
  <2>2. InGate(r) = {}
    BY <2>1 DEF InGate
  <2>3. QED
    BY <2>1, <2>2, FS_EmptySet, NoListingsSound DEF RequestSound
<1>3. QED
  BY <1>1, <1>2 DEF Init, Inductive

\* A step keeps what is known of the requests it does not touch.
LEMMA OthersSound ==
  ASSUME Shapes, clock' \in Nat, clock <= clock', NEW r \in Requests, RequestSound(r),
         pc'[r] = pc[r], started'[r] = started[r], previous'[r] = previous[r],
         step'[r] = step[r], found'[r] = found[r], result'[r] = result[r]
  PROVE  RequestSound(r)'
<1>1. /\ clock \in Nat /\ clock' \in Nat /\ started[r] \in Nat /\ started[r] <= clock'
  BY DEF Shapes, RequestSound
<1>2. InGate(r)' = InGate(r)
  BY DEF InGate
<1>3. previous[r] # Nothing => Good(previous[r], clock')
  BY <1>1, GoodLater DEF RequestSound
<1>4. result[r] # Nothing => Good(result[r], clock')
  BY <1>1, GoodLater DEF RequestSound
<1>5. \A s \in Sources : FeedSound(found[r][s], s, started[r], clock')
  BY <1>1, FeedLater DEF RequestSound
<1>6. QED
  BY <1>1, <1>2, <1>3, <1>4, <1>5 DEF RequestSound

LEMMA CacheLater ==
  ASSUME Inductive, clock' \in Nat, clock <= clock', cache # Nothing
  PROVE  Good(cache, clock')
<1>1. Good(cache, clock) /\ clock \in Nat
  BY DEF Inductive, Shapes
<1>2. QED
  BY <1>1, GoodLater

LEMMA AnswerFromCacheStep ==
  ASSUME Inductive, NEW r \in Requests, AnswerFromCache(r) PROVE Inductive'
<1>1. Shapes'
  BY DEF AnswerFromCache, Inductive, Shapes, PCs
<1>2. ASSUME NEW o \in Requests PROVE RequestSound(o)'
  BY DEF AnswerFromCache, Inductive, Shapes, RequestSound, InGate
<1>3. QED
  BY <1>1, <1>2 DEF AnswerFromCache, Inductive

\* The snapshot without feeds.
LEMMA WithoutFeedsGood ==
  ASSUME NEW t \in Nat PROVE Good(WithoutFeeds(t), t)
<1> DEFINE snap == WithoutFeeds(t)
<1>1. /\ DOMAIN snap = {"listings", "status", "outcome", "collected", "stale"}
      /\ snap.listings = NoListings /\ DOMAIN snap.listings = {} /\ DOMAIN snap.status = {}
      /\ snap.status \in [{} -> Status]
      /\ snap.outcome = "no_sources_configured" /\ snap.collected = t /\ snap.stale = FALSE
  BY DEF WithoutFeeds, NoListings
<1> HIDE DEF snap
<1>2. IsSnapshot(snap)
  BY <1>1 DEF IsSnapshot, AreListings, NoListings, Outcomes
<1>3. Honest(snap)
  BY <1>1 DEF Honest
<1>4. Good(snap, t)
  BY <1>1, <1>2, <1>3, FS_EmptySet DEF Good, CollectedWithin
<1>5. QED
  BY <1>4 DEF snap

LEMMA BeginWithoutFeedsStep ==
  ASSUME Inductive, NEW r \in Requests, BeginWithoutFeeds(r) PROVE Inductive'
<1>1. /\ Shapes /\ pc[r] = "idle" /\ clock \in Nat /\ clock' = clock + 1 /\ clock' \in Nat
      /\ \A o \in Requests : RequestSound(o)
      /\ cache' = cache \/ cache' = Nothing
  BY DEF BeginWithoutFeeds, Begin, AfterGet, Inductive, Shapes
<1>2. Shapes'
  BY <1>1 DEF BeginWithoutFeeds, Begin, Shapes, PCs
<1>3. ASSUME NEW o \in Requests, o # r PROVE RequestSound(o)'
  <2>1. /\ pc'[o] = pc[o] /\ started'[o] = started[o] /\ previous'[o] = previous[o]
        /\ step'[o] = step[o] /\ found'[o] = found[o] /\ result'[o] = result[o]
    BY <1>1, <1>3 DEF BeginWithoutFeeds, Shapes
  <2>2. QED
    BY <1>1, <2>1, OthersSound
<1>4. RequestSound(r)'
  <2>1. /\ pc'[r] = "storing" /\ started'[r] = started[r] /\ previous'[r] = Nothing
        /\ step'[r] = step[r] /\ found'[r] = found[r]
        /\ result'[r] = WithoutFeeds(clock + 1)
        /\ \A s \in Sources : step'[r][s] = "none" /\ found'[r][s] = NoListings
    BY <1>1 DEF BeginWithoutFeeds, Shapes, RequestSound
  <2>2. InGate(r)' = {}
    BY <2>1 DEF InGate
  <2>3. Good(result'[r], clock')
    BY <1>1, <2>1, WithoutFeedsGood
  <2>4. started'[r] <= clock'
    BY <1>1, <2>1 DEF Shapes, RequestSound
  <2>5. QED
    BY <2>1, <2>2, <2>3, <2>4, NoListingsSound, FS_EmptySet DEF RequestSound
<1>5. (cache # Nothing => Good(cache, clock))'
  <2>1. clock <= clock'
    BY <1>1
  <2>2. cache' # Nothing => Good(cache', clock')
    BY <1>1, <2>1, CacheLater
  <2>3. QED
    BY <2>2
<1>6. QED
  BY <1>2, <1>3, <1>4, <1>5 DEF Inductive

\* The other requests stay as they are.
OthersUnchanged(r) ==
  \A o \in Requests \ {r} :
    /\ pc'[o] = pc[o] /\ started'[o] = started[o] /\ previous'[o] = previous[o]
    /\ step'[o] = step[o] /\ found'[o] = found[o] /\ result'[o] = result[o]

LEMMA OneRequest ==
  ASSUME Inductive, NEW r \in Requests, Shapes', clock' \in Nat, clock <= clock',
         OthersUnchanged(r), RequestSound(r)',
         (cache # Nothing => Good(cache, clock))'
  PROVE  Inductive'
<1>1. ASSUME NEW o \in Requests, o # r PROVE RequestSound(o)'
  BY <1>1, OthersSound DEF OthersUnchanged, Inductive
<1>2. QED
  BY <1>1 DEF Inductive

LEMMA CollectStep ==
  ASSUME Inductive, NEW r \in Requests, Collect(r) PROVE Inductive'
<1>1. /\ Shapes /\ pc[r] = "idle" /\ clock \in Nat /\ clock' = clock + 1 /\ clock' \in Nat
      /\ clock <= clock' /\ RequestSound(r)
      /\ cache' = cache \/ cache' = Nothing
  BY DEF Collect, Begin, AfterGet, Inductive, Shapes
<1>2. Shapes'
  <2>1. /\ clock' \in 0 .. MaxClock /\ started' \in [Requests -> 0 .. MaxClock]
    BY <1>1 DEF Collect, Begin, Shapes
  <2>2. step' \in [Requests -> [Sources -> Steps]]
    BY <1>1 DEF Collect, Shapes, Steps
  <2>3. /\ DOMAIN found' = Requests /\ DOMAIN previous' = Requests /\ DOMAIN result' = Requests
        /\ \A o \in Requests : DOMAIN found'[o] = Sources
    BY <1>1 DEF Collect, Shapes
  <2>4. /\ registry' \in Registries /\ limit' \in Limits /\ live' \in BOOLEAN
        /\ pc' \in [Requests -> PCs]
    BY <1>1 DEF Collect, Begin, Shapes, PCs
  <2>5. QED
    BY <2>1, <2>2, <2>3, <2>4 DEF Shapes
<1>3. OthersUnchanged(r)
  BY <1>1 DEF Collect, Shapes, OthersUnchanged
<1>4. RequestSound(r)'
  <2>1. /\ pc'[r] = "collecting" /\ started'[r] = clock' /\ result'[r] = result[r]
        /\ previous'[r] = cache \/ previous'[r] = Nothing
        /\ found'[r] = found[r]
        /\ \A s \in Sources : step'[r][s] \in {"waiting", "none"}
    BY <1>1 DEF Collect, Shapes
  <2>2. \A s \in Sources : found'[r][s] = NoListings
    BY <1>1, <2>1 DEF RequestSound
  <2>3. InGate(r)' = {}
    BY <2>1 DEF InGate
  <2>4. previous'[r] # Nothing => Good(previous'[r], clock') /\ Earlier(previous'[r], clock')
    <3>1. SUFFICES ASSUME cache # Nothing PROVE Good(cache, clock') /\ Earlier(cache, clock')
      BY <2>1
    <3>2. Good(cache, clock)
      BY <3>1 DEF Inductive
    <3>3. Good(cache, clock')
      BY <1>1, <3>1, CacheLater
    <3>4. Earlier(cache, clock')
      BY <1>1, <3>2 DEF Good, Earlier, CollectedWithin, IsSnapshot, AreListings, Listing
    <3>5. QED
      BY <3>3, <3>4
  <2>5. result'[r] = Nothing
    BY <1>1, <2>1 DEF RequestSound
  <2>6. QED
    BY <1>1, <2>1, <2>2, <2>3, <2>4, <2>5, NoListingsSound, FS_EmptySet DEF RequestSound
<1>5. (cache # Nothing => Good(cache, clock))'
  <2>1. cache' # Nothing => Good(cache', clock')
    BY <1>1, CacheLater
  <2>2. QED
    BY <2>1
<1>6. QED
  BY <1>1, <1>2, <1>3, <1>4, <1>5, OneRequest

\* A step of a collector: the gate is what changes.
LEMMA CollectorSound ==
  ASSUME Inductive, NEW r \in Requests, NEW s \in Sources, NEW next \in Steps,
         pc[r] = "collecting",
         step' = [step EXCEPT ![r][s] = next],
         IsFiniteSet(InGate(r)'), Cardinality(InGate(r)') <= Concurrency,
         DOMAIN found' = Requests, DOMAIN found'[r] = Sources,
         \A o \in Requests \ {r} : found'[o] = found[o],
         \A t \in Sources : FeedSound(found'[r][t], t, started[r], clock),
         UNCHANGED <<clock, registry, limit, cache, live, pc, started, previous, result>>
  PROVE  Inductive'
<1>1. Shapes /\ RequestSound(r) /\ clock \in Nat
  BY DEF Inductive, Shapes
<1>2. Shapes'
  <2>1. step' \in [Requests -> [Sources -> Steps]]
    BY <1>1 DEF Shapes
  <2>2. \A o \in Requests : DOMAIN found'[o] = Sources
    BY <1>1 DEF Shapes
  <2>3. QED
    BY <1>1, <2>1, <2>2 DEF Shapes
<1>3. OthersUnchanged(r)
  BY <1>1 DEF Shapes, OthersUnchanged
<1>4. RequestSound(r)'
  BY <1>1 DEF RequestSound
<1>5. (cache # Nothing => Good(cache, clock))'
  BY DEF Inductive
<1>6. QED
  BY <1>1, <1>2, <1>3, <1>4, <1>5, OneRequest

LEMMA AdmitStep ==
  ASSUME Inductive, NEW r \in Requests, NEW i \in DOMAIN registry, Admit(r, i) PROVE Inductive'
<1>1. Shapes /\ RequestSound(r)
  BY DEF Inductive
<1>2. PICK s \in Sources : s = registry[i]
  BY <1>1, RegistryType
<1>3. step' = [step EXCEPT ![r][s] = "asking"] /\ step[r][s] = "waiting"
  BY <1>2 DEF Admit
<1>4. InGate(r)' = InGate(r) \cup {s}
  BY <1>1, <1>3 DEF InGate, Shapes
<1>5. IsFiniteSet(InGate(r)') /\ Cardinality(InGate(r)') <= Concurrency
  <2>1. /\ IsFiniteSet(InGate(r)) /\ Cardinality(InGate(r)) \in Nat
        /\ Cardinality(InGate(r)) < Concurrency /\ s \notin InGate(r)
    BY <1>1, <1>3, FS_CardinalityType DEF Admit, RequestSound, InGate
  <2>2. IsFiniteSet(InGate(r)') /\ Cardinality(InGate(r)') = Cardinality(InGate(r)) + 1
    BY <1>4, <2>1, FS_AddElement
  <2>3. QED
    BY <2>1, <2>2
<1>6. /\ pc[r] = "collecting" /\ "asking" \in Steps
      /\ UNCHANGED <<clock, registry, limit, cache, live, pc, started, previous, found, result>>
  BY DEF Admit, Steps
<1>7. /\ DOMAIN found' = Requests /\ DOMAIN found'[r] = Sources
      /\ \A o \in Requests \ {r} : found'[o] = found[o]
      /\ \A t \in Sources : FeedSound(found'[r][t], t, started[r], clock)
  BY <1>1, <1>6 DEF Shapes, RequestSound
<1>8. QED
  BY <1>3, <1>5, <1>6, <1>7, CollectorSound

\* A collector that has ended leaves the gate.
LEMMA GateLeft ==
  ASSUME Inductive, NEW r \in Requests, NEW s \in Sources, NEW next \in {"ok", "failed"},
         step' = [step EXCEPT ![r][s] = next]
  PROVE  IsFiniteSet(InGate(r)') /\ Cardinality(InGate(r)') <= Concurrency
<1>1. Shapes /\ RequestSound(r)
  BY DEF Inductive
<1>2. InGate(r)' \subseteq InGate(r)
  BY <1>1 DEF InGate, Shapes
<1>3. /\ IsFiniteSet(InGate(r)) /\ Cardinality(InGate(r)) \in Nat
      /\ Cardinality(InGate(r)) <= Concurrency
  BY <1>1, FS_CardinalityType DEF RequestSound
<1>4. /\ IsFiniteSet(InGate(r)') /\ Cardinality(InGate(r)') \in Nat
      /\ Cardinality(InGate(r)') <= Cardinality(InGate(r))
  BY <1>2, <1>3, FS_Subset, FS_CardinalityType
<1>5. QED
  BY <1>3, <1>4

LEMMA AskingCollects ==
  ASSUME Inductive, NEW r \in Requests, NEW s \in Sources, step[r][s] = "asking"
  PROVE  pc[r] = "collecting"
BY DEF Inductive, RequestSound

LEMMA FeedFailsStep ==
  ASSUME Inductive, NEW r \in Requests, NEW s \in Sources, FeedFails(r, s) PROVE Inductive'
<1>1. Shapes /\ RequestSound(r) /\ pc[r] = "collecting"
  BY AskingCollects DEF Inductive, FeedFails
<1>2. /\ step' = [step EXCEPT ![r][s] = "failed"] /\ "failed" \in Steps
      /\ UNCHANGED <<clock, registry, limit, cache, live, pc, started, previous, found, result>>
  BY DEF FeedFails, Steps
<1>3. IsFiniteSet(InGate(r)') /\ Cardinality(InGate(r)') <= Concurrency
  BY <1>2, GateLeft
<1>4. /\ DOMAIN found' = Requests /\ DOMAIN found'[r] = Sources
      /\ \A o \in Requests \ {r} : found'[o] = found[o]
      /\ \A t \in Sources : FeedSound(found'[r][t], t, started[r], clock)
  BY <1>1, <1>2 DEF Shapes, RequestSound
<1>5. QED
  BY <1>1, <1>2, <1>3, <1>4, CollectorSound

LEMMA ParsedSound ==
  ASSUME Inductive, NEW r \in Requests, NEW s \in Sources, NEW feed \in Feeds
  PROVE  FeedSound(Parsed(s, feed), s, started[r], clock)
<1>1. clock \in Nat /\ started[r] <= clock
  BY DEF Inductive, Shapes, RequestSound
<1>2. feed \in Seq(Ids)
  BY DEF Feeds, BoundedSeq, SeqOf
<1> DEFINE kept == {k \in DOMAIN feed : k <= limit}
           ids == {feed[i] : i \in kept}
<1>3. IsFiniteSet(ids)
  <2>1. IsFiniteSet(1 .. Len(feed)) /\ DOMAIN feed = 1 .. Len(feed)
    BY <1>2, FS_Interval
  <2>2. IsFiniteSet(kept)
    BY <2>1, FS_Subset
  <2> DEFINE f == [i \in kept |-> feed[i]]
  <2>3. f \in [kept -> ids] /\ \A id \in ids : \E i \in kept : f[i] = id
    OBVIOUS
  <2>4. f \in Surjection(kept, ids)
    <3> HIDE DEF f, kept, ids
    <3> QED BY <2>3 DEF Surjection
  <2>5. QED
    <3> HIDE DEF f, kept, ids
    <3> QED BY <2>2, <2>4, FS_Surjection
<1>4. ids \subseteq Ids
  BY <1>2
<1>5. Parsed(s, feed) = [id \in ids |-> [source |-> s, seen |-> clock]]
  BY DEF Parsed
<1> HIDE DEF ids
<1>6. AreListings(Parsed(s, feed))
  BY <1>1, <1>4, <1>5 DEF AreListings, Listing
<1>7. QED
  BY <1>1, <1>3, <1>5, <1>6 DEF FeedSound, CollectedWithin

LEMMA FeedAnswersStep ==
  ASSUME Inductive, NEW r \in Requests, NEW s \in Sources, NEW feed \in Feeds,
         FeedAnswers(r, s, feed)
  PROVE  Inductive'
<1>1. Shapes /\ RequestSound(r) /\ pc[r] = "collecting"
  BY AskingCollects DEF Inductive, FeedAnswers
<1>2. /\ step' = [step EXCEPT ![r][s] = "ok"] /\ "ok" \in Steps
      /\ found' = [found EXCEPT ![r][s] = Parsed(s, feed)]
      /\ UNCHANGED <<clock, registry, limit, cache, live, pc, started, previous, result>>
  BY DEF FeedAnswers, Steps
<1>3. IsFiniteSet(InGate(r)') /\ Cardinality(InGate(r)') <= Concurrency
  BY <1>2, GateLeft
<1>4. /\ DOMAIN found' = Requests /\ DOMAIN found'[r] = Sources
      /\ \A o \in Requests \ {r} : found'[o] = found[o]
      /\ \A t \in Sources \ {s} : found'[r][t] = found[r][t]
      /\ found'[r][s] = Parsed(s, feed)
  BY <1>1, <1>2 DEF Shapes
<1>5. \A t \in Sources : FeedSound(found'[r][t], t, started[r], clock)
  BY <1>1, <1>4, ParsedSound DEF RequestSound
<1>6. QED
  BY <1>1, <1>2, <1>3, <1>4, <1>5, CollectorSound

\* What is left of a request that is over.
LEMMA ForgetSound ==
  ASSUME Shapes, NEW r \in Requests, Forget(r), NEW p \in PCs \ {"collecting"},
         pc' = [pc EXCEPT ![r] = p],
         UNCHANGED <<clock, registry, limit>>, live' \in BOOLEAN, DOMAIN result' = Requests,
         \A o \in Requests \ {r} : result'[o] = result[o],
         p = "idle" => result'[r] = Nothing,
         result'[r] # Nothing => Good(result'[r], clock)
  PROVE  Shapes' /\ OthersUnchanged(r) /\ RequestSound(r)'
<1>1. /\ started' = [started EXCEPT ![r] = 0] /\ previous' = [previous EXCEPT ![r] = Nothing]
      /\ step' = [step EXCEPT ![r] = [s \in Sources |-> "none"]]
      /\ found' = [found EXCEPT ![r] = [s \in Sources |-> NoListings]]
  BY DEF Forget
<1>2. Shapes'
  <2>1. step' \in [Requests -> [Sources -> Steps]]
    BY <1>1 DEF Shapes, Steps
  <2>2. \A o \in Requests : DOMAIN found'[o] = Sources
    BY <1>1 DEF Shapes
  <2>3. DOMAIN found' = Requests /\ DOMAIN previous' = Requests
    BY <1>1 DEF Shapes
  <2>4. started' \in [Requests -> 0 .. MaxClock] /\ pc' \in [Requests -> PCs]
    BY <1>1 DEF Shapes
  <2>5. QED
    BY <2>1, <2>2, <2>3, <2>4 DEF Shapes
<1>3. OthersUnchanged(r)
  BY <1>1 DEF Shapes, OthersUnchanged
<1>4. RequestSound(r)'
  <2>1. /\ pc'[r] = p /\ p # "collecting" /\ started'[r] = 0 /\ previous'[r] = Nothing
        /\ \A s \in Sources : step'[r][s] = "none" /\ found'[r][s] = NoListings
    BY <1>1 DEF Shapes
  <2>2. InGate(r)' = {}
    BY <2>1 DEF InGate
  <2>3. clock \in Nat /\ started'[r] <= clock'
    BY <2>1 DEF Shapes
  <2>4. QED
    BY <2>1, <2>2, <2>3, NoListingsSound, FS_EmptySet DEF RequestSound
<1>5. QED
  BY <1>2, <1>3, <1>4

LEMMA RejectStep ==
  ASSUME Inductive, NEW r \in Requests, Reject(r) PROVE Inductive'
<1>1. Shapes /\ RequestSound(r) /\ clock \in Nat
  BY DEF Inductive, Shapes
<1>2. /\ Forget(r) /\ pc' = [pc EXCEPT ![r] = "rejected"] /\ pc[r] = "collecting"
      /\ UNCHANGED <<clock, registry, limit, cache, live, result>>
      /\ "rejected" \in PCs \ {"collecting"}
  BY DEF Reject, AllIn, PCs
<1>3. live' \in BOOLEAN /\ DOMAIN result' = Requests /\ result'[r] = Nothing
  BY <1>1, <1>2 DEF Shapes, RequestSound
<1>4. Shapes' /\ OthersUnchanged(r) /\ RequestSound(r)'
  BY <1>1, <1>2, <1>3, ForgetSound
<1>5. (cache # Nothing => Good(cache, clock))'
  BY <1>2 DEF Inductive
<1>6. QED
  BY <1>1, <1>2, <1>4, <1>5, OneRequest

LEMMA MergeStep ==
  ASSUME Inductive, NEW r \in Requests, Merge(r) PROVE Inductive'
<1>1. Shapes /\ RequestSound(r) /\ clock \in Nat
  BY DEF Inductive, Shapes
<1>2. PICK p \in PCs \ {"collecting", "idle"} : pc' = [pc EXCEPT ![r] = p]
  <2>1. {"answered", "storing"} \subseteq PCs \ {"collecting", "idle"}
    BY DEF PCs
  <2>2. \E p \in {"answered", "storing"} : pc' = [pc EXCEPT ![r] = p]
    BY DEF Merge
  <2>3. QED
    BY <2>1, <2>2
<1>3. /\ Forget(r) /\ result' = [result EXCEPT ![r] = Merged(r)]
      /\ UNCHANGED <<clock, registry, limit, cache, live>>
  BY DEF Merge
<1>4. /\ live' \in BOOLEAN /\ DOMAIN result' = Requests
      /\ \A o \in Requests \ {r} : result'[o] = result[o]
      /\ result'[r] = Merged(r)
  BY <1>1, <1>3 DEF Shapes
<1>5. Good(result'[r], clock)
  BY <1>4, MergedGood
<1>6. Shapes' /\ OthersUnchanged(r) /\ RequestSound(r)'
  BY <1>1, <1>2, <1>3, <1>4, <1>5, ForgetSound
<1>7. (cache # Nothing => Good(cache, clock))'
  BY <1>3 DEF Inductive
<1>8. QED
  BY <1>1, <1>3, <1>6, <1>7, OneRequest

LEMMA StoreStep ==
  ASSUME Inductive, NEW r \in Requests, Store(r) PROVE Inductive'
<1>1. Shapes /\ RequestSound(r) /\ clock \in Nat
  BY DEF Inductive, Shapes
<1>2. /\ pc[r] = "storing" /\ pc' = [pc EXCEPT ![r] = "answered"]
      /\ cache' = result[r] /\ live' = TRUE /\ result' = [result EXCEPT ![r] = Nothing]
      /\ UNCHANGED <<clock, registry, limit, started, previous, step, found>>
  BY DEF Store
<1>3. Shapes'
  <2>1. live' \in BOOLEAN
    BY <1>2
  <2>2. pc' \in [Requests -> PCs] /\ DOMAIN result' = Requests
    BY <1>1, <1>2 DEF Shapes, PCs
  <2>3. QED
    BY <1>1, <1>2, <2>1, <2>2 DEF Shapes
<1>4. OthersUnchanged(r)
  BY <1>1, <1>2 DEF Shapes, OthersUnchanged
<1>5. RequestSound(r)'
  <2>1. pc'[r] = "answered" /\ result'[r] = Nothing /\ InGate(r)' = InGate(r)
    BY <1>1, <1>2 DEF Shapes, InGate
  <2>2. QED
    BY <1>1, <1>2, <2>1 DEF RequestSound
<1>6. (cache # Nothing => Good(cache, clock))'
  BY <1>1, <1>2 DEF RequestSound
<1>7. QED
  BY <1>1, <1>2, <1>3, <1>4, <1>5, <1>6, OneRequest

LEMMA LeaveStep ==
  ASSUME Inductive, NEW r \in Requests, Leave(r) PROVE Inductive'
<1>1. Shapes /\ RequestSound(r) /\ clock \in Nat
  BY DEF Inductive, Shapes
<1>2. /\ pc[r] \in {"answered", "rejected"} /\ pc' = [pc EXCEPT ![r] = "idle"]
      /\ result' = [result EXCEPT ![r] = Nothing]
      /\ UNCHANGED <<clock, registry, limit, cache, live, started, previous, step, found>>
  BY DEF Leave
<1>3. Shapes'
  <2>1. pc' \in [Requests -> PCs] /\ DOMAIN result' = Requests
    BY <1>1, <1>2 DEF Shapes, PCs
  <2>2. QED
    BY <1>1, <1>2, <2>1 DEF Shapes
<1>4. OthersUnchanged(r)
  BY <1>1, <1>2 DEF Shapes, OthersUnchanged
<1>5. RequestSound(r)'
  <2>1. pc'[r] = "idle" /\ result'[r] = Nothing /\ InGate(r)' = InGate(r)
    BY <1>1, <1>2 DEF Shapes, InGate
  <2>2. QED
    BY <1>1, <1>2, <2>1 DEF RequestSound
<1>6. (cache # Nothing => Good(cache, clock))'
  BY <1>2 DEF Inductive
<1>7. QED
  BY <1>1, <1>2, <1>3, <1>4, <1>5, <1>6, OneRequest

LEMMA IdleStep ==
  ASSUME Inductive, Expire \/ UNCHANGED vars PROVE Inductive'
<1>1. /\ UNCHANGED <<clock, registry, limit, cache, pc, started, previous, step, found, result>>
      /\ live' = FALSE \/ live' = live
  BY DEF Expire, vars
<1>2. Shapes /\ clock \in Nat
  BY DEF Inductive, Shapes
<1>3. live' \in BOOLEAN
  BY <1>1, <1>2 DEF Shapes
<1>4. Shapes'
  BY <1>1, <1>2, <1>3 DEF Shapes
<1>5. \A r \in Requests : RequestSound(r)'
  <2>1. \A r \in Requests : RequestSound(r)
    BY DEF Inductive
  <2>2. QED
    BY <1>1, <1>2, <2>1, OthersSound
<1>6. (cache # Nothing => Good(cache, clock))'
  BY <1>1 DEF Inductive
<1>7. QED
  BY <1>4, <1>5, <1>6 DEF Inductive

LEMMA RestartStep ==
  ASSUME Inductive, Restart PROVE Inductive'
<1>1. /\ registry' \in Registries /\ limit' \in Limits /\ clock' = clock
      /\ pc' = [r \in Requests |-> "idle"] /\ started' = [r \in Requests |-> 0]
      /\ previous' = [r \in Requests |-> Nothing] /\ result' = [r \in Requests |-> Nothing]
      /\ step' = [r \in Requests |-> [s \in Sources |-> "none"]]
      /\ found' = [r \in Requests |-> [s \in Sources |-> NoListings]]
      /\ cache' = cache \/ cache' = Nothing
  BY DEF Restart
<1>2. clock \in 0 .. MaxClock
  BY DEF Inductive, Shapes
<1>3. Shapes'
  <2>1. live' \in BOOLEAN
    BY DEF Restart, Inductive, Shapes
  <2>2. pc' \in [Requests -> PCs] /\ step' \in [Requests -> [Sources -> Steps]]
    BY <1>1 DEF PCs, Steps
  <2>3. started' \in [Requests -> 0 .. MaxClock]
    BY <1>1
  <2>4. /\ DOMAIN found' = Requests /\ DOMAIN previous' = Requests /\ DOMAIN result' = Requests
        /\ \A r \in Requests : DOMAIN found'[r] = Sources
    BY <1>1
  <2>5. QED
    BY <1>1, <1>2, <2>1, <2>2, <2>3, <2>4 DEF Shapes
<1>4. ASSUME NEW r \in Requests PROVE RequestSound(r)'
  <2>1. /\ pc'[r] = "idle" /\ started'[r] = 0 /\ previous'[r] = Nothing /\ result'[r] = Nothing
        /\ \A s \in Sources : step'[r][s] = "none" /\ found'[r][s] = NoListings
    BY <1>1
  <2>2. InGate(r)' = {}
    BY <2>1 DEF InGate
  <2>3. QED
    BY <1>1, <1>2, <2>1, <2>2, FS_EmptySet, NoListingsSound DEF RequestSound
<1>5. (cache # Nothing => Good(cache, clock))'
  BY <1>1 DEF Inductive
<1>6. QED
  BY <1>3, <1>4, <1>5 DEF Inductive

LEMMA NextInductive == Inductive /\ [Next]_vars => Inductive'
<1> SUFFICES ASSUME Inductive, [Next]_vars PROVE Inductive'
  OBVIOUS
<1>1. ASSUME NEW r \in Requests, RequestStep(r) PROVE Inductive'
  <2>1. ASSUME NEW s \in Sources, FeedFails(r, s) \/ \E feed \in Feeds : FeedAnswers(r, s, feed)
        PROVE  Inductive'
    BY <2>1, FeedFailsStep, FeedAnswersStep
  <2>2. ASSUME NEW i \in DOMAIN registry, Admit(r, i) PROVE Inductive'
    BY <2>2, AdmitStep
  <2>3. QED
    BY <1>1, <2>1, <2>2, AnswerFromCacheStep, BeginWithoutFeedsStep, CollectStep, RejectStep,
       MergeStep, StoreStep, LeaveStep
       DEF RequestStep, Work
<1>2. QED
  BY <1>1, IdleStep, RestartStep DEF Next

LEMMA InductiveInvariant == Spec => []Inductive
<1>1. QED
  BY InitInductive, NextInductive, PTL DEF Spec

-----------------------------------------------------------------------------
(* The theorems *)

LEMMA InductiveImplies == Inductive => TypeOK /\ SnapshotsTellTheTruth
<1> SUFFICES ASSUME Inductive PROVE TypeOK /\ SnapshotsTellTheTruth
  OBVIOUS
<1>1. Shapes /\ \A r \in Requests : RequestSound(r)
  BY DEF Inductive
<1>2. \A snap \in Snapshots : Good(snap, clock)
  BY DEF Inductive, RequestSound, Snapshots
<1>3. \A r \in Requests : \A s \in Sources : AreListings(found[r][s])
  BY <1>1 DEF RequestSound, FeedSound
<1>4. \A r \in Requests : Cardinality(InGate(r)) <= Concurrency
  BY <1>1 DEF RequestSound
<1>5. QED
  BY <1>1, <1>2, <1>3, <1>4 DEF Shapes, TypeOK, SnapshotsTellTheTruth, Good

\* Type correctness; among other things no request asks more feeds at a time
\* than wholesale_concurrency (wholesale_service.py:85).
THEOREM TypeCorrect == Spec => []TypeOK
<1>1. Inductive => TypeOK
  BY InductiveImplies
<1>2. QED
  BY <1>1, InductiveInvariant, PTL

\* Through any chain of failing refreshes, restarts with other feeds and
\* overlapping requests, a snapshot tells which of its listings are old.
THEOREM SnapshotsAreTruthful == Spec => []SnapshotsTellTheTruth
<1>1. Inductive => SnapshotsTellTheTruth
  BY InductiveImplies
<1>2. QED
  BY <1>1, InductiveInvariant, PTL

\* Which steps end the collection of a request.
LEMMA CollectionEnds ==
  ASSUME Inductive, [Next]_vars, NEW r \in Requests, pc[r] = "collecting",
         result'[r] # result[r] \/ pc'[r] = "rejected"
  PROVE  Merge(r) \/ Reject(r)
<1>1. Shapes /\ RequestSound(r) /\ result[r] = Nothing
  BY DEF Inductive, RequestSound
<1>2. ~Restart
  BY <1>1 DEF Restart
<1>3. ~Expire /\ ~UNCHANGED vars
  BY DEF Expire, vars
<1>4. PICK o \in Requests : RequestStep(o)
  BY <1>2, <1>3 DEF Next
<1>5. o = r
  BY <1>1, <1>4
     DEF RequestStep, Work, AnswerFromCache, BeginWithoutFeeds, Collect, Admit, FeedFails,
         FeedAnswers, Reject, Merge, Store, Leave, Shapes
<1>6. QED
  BY <1>1, <1>4, <1>5
     DEF RequestStep, Work, AnswerFromCache, BeginWithoutFeeds, Collect, Begin, Admit, FeedFails,
         FeedAnswers, Store, Leave

LEMMA RejectionSound ==
  ASSUME Inductive, NEW r \in Requests, Reject(r)
  PROVE  /\ limit > ContractLimit
         /\ Cardinality(Contributed(r)) > ContractLimit
         /\ UNCHANGED <<cache, live>>
<1> DEFINE kept == Cut(Contributed(r))
<1>1. limit \in Nat
  BY DEF Inductive, Shapes
<1>2. IsFiniteSet(Contributed(r)) /\ Contributed(r) \subseteq Nat
  BY ContributedSound
<1>3. Cardinality(kept) > ContractLimit
  BY MergedListings DEF Reject
<1>4. IsFiniteSet(kept) /\ Cardinality(kept) \in Nat /\ Cardinality(kept) <= limit
  BY <1>1, <1>2, CutBounds
<1>5. Cardinality(Contributed(r)) \in Nat /\ Cardinality(kept) <= Cardinality(Contributed(r))
  <2>1. kept \subseteq Contributed(r)
    BY DEF Cut
  <2> HIDE DEF kept
  <2>2. QED
    BY <1>2, <2>1, FS_Subset, FS_CardinalityType
<1> HIDE DEF kept
<1>6. QED
  BY <1>1, <1>3, <1>4, <1>5 DEF Reject

\* For any setting of the limit and any feeds, a request is rejected only for
\* what its feeds hold together, and stores nothing then.
THEOREM RejectionsAreJustified == Spec => RejectedOnlyOverContract
<1>1. Inductive /\ [Next]_vars =>
        [\A r \in Requests : pc[r] = "collecting" /\ pc'[r] = "rejected" =>
           /\ limit > ContractLimit
           /\ Cardinality(Contributed(r)) > ContractLimit
           /\ UNCHANGED <<cache, live>>]_vars
  <2> SUFFICES ASSUME Inductive, [Next]_vars, NEW r \in Requests,
                      pc[r] = "collecting", pc'[r] = "rejected"
               PROVE  /\ limit > ContractLimit
                      /\ Cardinality(Contributed(r)) > ContractLimit
                      /\ UNCHANGED <<cache, live>>
    OBVIOUS
  <2>1. ~Merge(r)
    BY DEF Merge, Inductive, Shapes
  <2>2. QED
    BY <2>1, CollectionEnds, RejectionSound
<1>2. QED
  BY <1>1, InductiveInvariant, PTL DEF Spec, RejectedOnlyOverContract

LEMMA FallbackKept ==
  ASSUME Inductive, NEW r \in Requests, NEW s \in ToSet(registry), Merge(r),
         step[r][s] = "failed"
  PROVE  LET snap == result'[r]
             old == DOMAIN OfSource(previous[r], s)
         IN  /\ Cardinality(DOMAIN snap.listings) < limit => old \subseteq DOMAIN snap.listings
             /\ old # {} => pc'[r] = "storing"
<1> DEFINE old == DOMAIN OfSource(previous[r], s)
<1>1. Shapes /\ limit \in Nat
  BY DEF Inductive, Shapes
<1>2. result'[r] = Merged(r) /\ pc'[r] = IF OutcomeOf(r) = "failed" THEN "answered" ELSE "storing"
  BY <1>1 DEF Merge, Shapes
<1>3. ~Fresh(r, s) /\ old = DOMAIN Part(r, s)
  BY DEF Fresh, Part
<1>4. old \subseteq Contributed(r)
  BY <1>3, ContributedSound
<1>5. ASSUME Cardinality(DOMAIN Merged(r).listings) < limit
      PROVE  old \subseteq DOMAIN Merged(r).listings
  <2>1. DOMAIN Merged(r).listings = Cut(Contributed(r))
    BY MergedListings
  <2>2. IsFiniteSet(Contributed(r)) /\ Contributed(r) \subseteq Nat
    BY ContributedSound
  <2>3. Cut(Contributed(r)) = Contributed(r)
    BY <1>1, <1>5, <2>1, <2>2, CutBounds
  <2>4. QED
    BY <1>4, <2>1, <2>3
<1>6. ASSUME old # {} PROVE pc'[r] = "storing"
  <2>1. Reused(r, s)
    BY <1>3, <1>6 DEF Reused
  <2>2. OutcomeOf(r) # "failed"
    BY <2>1 DEF OutcomeOf
  <2>3. QED
    BY <1>2, <2>2
<1>7. QED
  BY <1>2, <1>5, <1>6

\* For any feeds, limits and interleavings, the listings found in the cache
\* survive the failure of their feed.
THEOREM FailuresKeepListings == Spec => FailureKeepsListings
<1> DEFINE A == \A r \in Requests : \A s \in ToSet(registry) :
                  AllIn(r) /\ step[r][s] = "failed" /\ result'[r] # result[r] =>
                    LET snap == result'[r]
                        old == DOMAIN OfSource(previous[r], s)
                    IN  /\ Cardinality(DOMAIN snap.listings) < limit => old \subseteq DOMAIN snap.listings
                        /\ old # {} => pc'[r] = "storing"
<1>1. Inductive /\ [Next]_vars => [A]_vars
  <2> SUFFICES ASSUME Inductive, [Next]_vars, NEW r \in Requests, NEW s \in ToSet(registry),
                      AllIn(r), step[r][s] = "failed", result'[r] # result[r]
               PROVE  LET snap == result'[r]
                          old == DOMAIN OfSource(previous[r], s)
                      IN  /\ Cardinality(DOMAIN snap.listings) < limit => old \subseteq DOMAIN snap.listings
                          /\ old # {} => pc'[r] = "storing"
    OBVIOUS
  <2>1. ~Reject(r)
    BY DEF Reject
  <2>2. Merge(r)
    BY <2>1, CollectionEnds DEF AllIn
  <2>3. QED
    BY <2>2, FallbackKept
<1>2. QED
  BY <1>1, InductiveInvariant, PTL DEF Spec, FailureKeepsListings
=============================================================================
