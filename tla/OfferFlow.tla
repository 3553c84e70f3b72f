------------------------------ MODULE OfferFlow ------------------------------
(***************************************************************************)
(* From the pages of the marketplaces to the input of Gemini: the data     *)
(* that SearchPipeline leaves abstract.  The collectors of the configured  *)
(* sources run concurrently (application/search_pipeline.py); each parses  *)
(* a search page, ranks the candidates, fetches the product pages of the   *)
(* best ones concurrently and keeps the others as the search showed them.  *)
(* The offers of all sources are then merged, analysed and reduced to a    *)
(* dataset.  Limiter, retries and the failures behind an answer that does  *)
(* not come are SourceRequests'; breakers, caches and the offers of an     *)
(* earlier search are SearchPipeline's.                                    *)
(***************************************************************************)
EXTENDS MarketplacePages, LocalAnalysis, CompactDataset

CONSTANTS
  Registries,        \* the registries of adapters: sequences of marketplaces
  SearchPages,       \* per marketplace, the pages a search may get
  ProductPages,      \* per marketplace and id of a candidate, those a product may have
  QueryText,         \* the text searched for
  NameLength,        \* its characters
  MaxCandidates,     \* max_search_candidates
  MaxDetails,        \* max_detail_candidates
  Budgets,           \* settings: <<max_offers_to_analyze, max_input_tokens>>
  Failed             \* a product page that could not be fetched

\* Every candidate a search can find has the pages its product may have; None
\* is no object of the program.
ASSUME OfferFlowAssumption ==
  /\ Registries \subseteq Seq(ToSet(Marketplaces))
  /\ \A s \in ToSet(Marketplaces) :
       /\ SearchPages[s] \subseteq SearchDocuments
       /\ \A key \in DOMAIN ProductPages[s] : ProductPages[s][key] \subseteq ProductDocuments
       /\ \A page \in SearchPages[s] : \A c \in ToSet(SearchCandidates(s, page)) :
            c.id \in DOMAIN ProductPages[s]
  /\ BrandOf \in [DOMAIN BrandOf -> STRING] /\ Multiplier \in [DOMAIN Multiplier -> Nat]
  /\ QueryText \in Texts /\ IsFiniteSet(QueryText) /\ NameLength \in Nat \ {0}
  /\ MaxCandidates \in Nat \ {0} /\ MaxDetails \in Nat \ {0}
  /\ Threshold \in 0 .. 100 /\ MaxOpportunities \in Nat
  /\ Budgets \subseteq (Nat \ {0}) \X Nat
  /\ {Instruction, FullOffer, BareOffer, ReportSize} \subseteq Nat
  /\ ContractOffers \in Nat \ {0}
  /\ None \notin Reports \cup Datasets

VARIABLES
  registry,    \* the configured sources, in order
  phase,       \* per source: where its collector is
  candidates,  \* per source: what its search found
  answers,     \* per source: the offers of each selected candidate's page
  collected,   \* per source: the offers it contributes
  snapshot,    \* the merged offers and their analysis, or None
  dataset      \* the budget and the dataset for Gemini, or None

vars == <<registry, phase, candidates, answers, collected, snapshot, dataset>>

Sources == ToSet(registry)
Phases == {"searching", "details", "collected", "failed", "raised"}

Query == Attributes(QueryText)

Init ==
  /\ registry \in Registries
  /\ phase = [s \in Sources |-> "searching"]
  /\ candidates = [s \in Sources |-> <<>>]
  /\ answers = [s \in Sources |-> <<>>]
  /\ collected = [s \in Sources |-> <<>>]
  /\ snapshot = None
  /\ dataset = None

-----------------------------------------------------------------------------
(* One source (_collect_source) *)

\* candidate_relevance, in tenths of the number of words of the query.
Relevance(candidate) ==
  LET words == Cardinality(Query.tokens)
      brand == CASE Query.brand = None -> 0
                 [] candidate.brand # None -> IF candidate.brand = Query.brand THEN 2 ELSE 0
                 [] OTHER -> IF Query.brand \in candidate.title THEN 1 ELSE 0
      capacity == IF Query.capacity # None /\ Query.capacity \in candidate.title THEN 1 ELSE 0
      score == 10 * Cardinality(Query.tokens \cap candidate.title) + (brand + capacity) * words
  IN  IF score < 10 * words THEN score ELSE 10 * words

\* rank_candidates: the positions of the candidates to fetch, best first, in
\* the order of the page among equals.
Ranked(found) ==
  LET score(i) == Relevance(found[i])
  IN  FirstOf(MaxDetails,
        InOrder(DOMAIN found, LAMBDA i, j : score(i) > score(j) \/ (score(i) = score(j) /\ i < j)))

\* _candidate_to_offer, for a candidate whose title has words.
CandidateOffer(candidate) ==
  [id |-> [source |-> candidate.source, stage |-> "search", key |-> candidate.id],
   source |-> candidate.source, key |-> candidate.id, title |-> candidate.title,
   price |-> candidate.price, seller |-> candidate.seller, url |-> candidate.url,
   availability |-> candidate.availability, brand |-> candidate.brand,
   model |-> candidate.model, capacity |-> candidate.capacity, details |-> FALSE]

\* The parser's candidates up to the limit, one for each id.
SearchAnswers(s) ==
  /\ phase[s] = "searching"
  /\ \E page \in SearchPages[s] :
       LET found == FirstWins(FirstOf(MaxCandidates, SearchCandidates(s, page)), LAMBDA c : c.id)
       IN  /\ ~Unreadable(s, page)
           /\ candidates' = [candidates EXCEPT ![s] = found]
           /\ answers' = [answers EXCEPT ![s] = [i \in DOMAIN Ranked(found) |-> None]]
  /\ phase' = [phase EXCEPT ![s] = "details"]
  /\ UNCHANGED <<registry, collected, snapshot, dataset>>

SearchFails(s) ==
  /\ phase[s] = "searching"
  /\ phase' = [phase EXCEPT ![s] = "failed"]
  /\ UNCHANGED <<registry, candidates, answers, collected, snapshot, dataset>>

\* The candidate the i-th detail task is about.
Selected(s, i) == candidates[s][Ranked(candidates[s])[i]]

\* An adapter refuses to leave the host of its marketplace.
DetailAnswers(s, i) ==
  /\ phase[s] = "details" /\ answers[s][i] = None
  /\ ~Selected(s, i).url.foreign
  /\ \E page \in Readable(ProductPages[s][Selected(s, i).id]) :
       answers' = [answers EXCEPT ![s][i] = ProductOffers(s, page, Selected(s, i).url)]
  /\ UNCHANGED <<registry, phase, candidates, collected, snapshot, dataset>>

DetailFails(s, i) ==
  /\ phase[s] = "details" /\ answers[s][i] = None
  /\ answers' = [answers EXCEPT ![s][i] = Failed]
  /\ UNCHANGED <<registry, phase, candidates, collected, snapshot, dataset>>

\* Mutant: a product whose page has no offers is dropped.
DetailOffersOnly(s, i) == IF answers[s][i] = Failed THEN <<>> ELSE answers[s][i]

\* What a product page that fails or states no offers is replaced by.
DetailOffers(s, i) ==
  IF answers[s][i] = Failed \/ answers[s][i] = <<>>
  THEN <<CandidateOffer(Selected(s, i))>> ELSE answers[s][i]

\* All detail tasks are done.
Fetched(s) == phase[s] = "details" /\ \A i \in DOMAIN answers[s] : answers[s][i] # None

\* The candidates to be shown as the search found them.
AsFound(s) ==
  LET ids == {Selected(s, i).id : i \in DOMAIN answers[s]}
  IN  {c \in ToSet(candidates[s]) : c.id \notin ids}
      \cup {Selected(s, i) : i \in {j \in DOMAIN answers[s] : answers[s][j] \in {Failed, <<>>}}}

\* The candidates that were not selected come first.
Collect(s) ==
  /\ Fetched(s)
  /\ \A c \in AsFound(s) : c.title # {}
  /\ LET ids == {Selected(s, i).id : i \in DOMAIN answers[s]}
         others == Only(candidates[s], LAMBDA c : c.id \notin ids)
     IN  collected' = [collected EXCEPT ![s] =
           [i \in DOMAIN others |-> CandidateOffer(others[i])]
           \o Joined([i \in DOMAIN answers[s] |-> DetailOffers(s, i)])]
  /\ phase' = [phase EXCEPT ![s] = "collected"]
  /\ UNCHANGED <<registry, candidates, answers, snapshot, dataset>>

\* An offer needs a normalized title: the exception of one without words leaves
\* _collect_source and is the end of the search, whose other collectors go on
\* for nothing.
CollectRaises(s) ==
  /\ Fetched(s)
  /\ \E c \in AsFound(s) : c.title = {}
  /\ phase' = [phase EXCEPT ![s] = "raised"]
  /\ UNCHANGED <<registry, candidates, answers, collected, snapshot, dataset>>

-----------------------------------------------------------------------------
(* All sources *)

\* Mutant: offers with one id are all kept.
KeepRepeats(offers) == offers

\* _deduplicate_offers.
Deduplicated(offers) == FirstWins(offers, LAMBDA o : o.id)

\* The sources have answered or failed: their offers are merged in the order
\* of the registry and analysed.
Merge ==
  /\ snapshot = None
  /\ \A s \in Sources : phase[s] \in {"collected", "failed"}
  /\ LET offers == Deduplicated(Joined([i \in DOMAIN registry |-> collected[registry[i]]]))
     IN  snapshot' = [offers |-> offers, analysis |-> Analyse(Query, offers)]
  /\ UNCHANGED <<registry, phase, candidates, answers, collected, dataset>>

\* The dataset of analyze_snapshot; more offers than the contract admits
\* make the request fail.
Compact ==
  /\ snapshot # None /\ dataset = None
  /\ \E budget \in Budgets :
       dataset' = [budget |-> budget,
                   data |-> IF Admissible(snapshot.offers, budget[1])
                            THEN BudgetedDataset(snapshot.offers, snapshot.analysis, NameLength,
                                                 budget[1], budget[2])
                            ELSE None]
  /\ UNCHANGED <<registry, phase, candidates, answers, collected, snapshot>>

DetailStep(s) ==
  \E i \in DOMAIN answers[s] : DetailAnswers(s, i) \/ DetailFails(s, i)

SourceStep(s) ==
  \/ SearchAnswers(s) \/ SearchFails(s) \/ DetailStep(s)
  \/ Collect(s) \/ CollectRaises(s)

Next == (\E s \in Sources : SourceStep(s)) \/ Merge \/ Compact

Spec == Init /\ [][Next]_vars

-----------------------------------------------------------------------------
(* What the marketplaces are relied on for: the code trusts the ids they give *)

\* What the page of a candidate may answer.
PageAnswers(s, c) == {ProductOffers(s, page, c.url) : page \in Readable(ProductPages[s][c.id])}

\* Two results of a search whose URLs state no id and are the same are one product.
OnePagePerProduct ==
  \A s \in ToSet(Marketplaces) : \A page \in SearchPages[s] :
    \A c, d \in ToSet(SearchCandidates(s, page)) :
      c.url = d.url /\ ProductId(s, c.url) = None => c.id = d.id

\* The pages of two products state no offer with one id, where the ids are not
\* those of their URLs: those of Torob's shops, and those a page states itself.
PagesApart ==
  \A s \in ToSet(Marketplaces) : \A page \in SearchPages[s] :
    \A c, d \in ToSet(SearchCandidates(s, page)) :
      /\ c.id # d.id /\ ProductId(s, c.url) # None
      /\ s = "torob" \/ ProductId(s, d.url) = None
      => \A a \in PageAnswers(s, c), b \in PageAnswers(s, d) :
           \A o \in ToSet(a), p \in ToSet(b) : o.key # p.key

-----------------------------------------------------------------------------
(* Properties *)

\* "Source failures ... never abort a search for other sources"
\* (docs/architecture.md): what one source has collected is not lost by another
\* one.  A candidate whose title has no words ends the search of all sources
\* (_candidate_to_offer, outside any try of _collect_source).
FailuresIsolated ==
  \A s, t \in Sources : phase[s] = "raised" => phase[t] # "collected"

\* Type correctness: whatever a page states, an offer that is collected has a
\* title with words, the source it was collected from and, if any, a price of at
\* least zero (domain/offers.py, domain/money.py).  That holds of what is
\* collected only: a candidate may have a title without words, and the search
\* that has to show it ends, see CollectRaises.
TypeOK ==
  /\ registry \in Registries
  /\ phase \in [Sources -> Phases]
  /\ candidates \in [Sources -> Seq(CandidateSet)]
  /\ answers \in [Sources -> Seq({None, Failed} \cup Seq(OfferSet))]
  /\ collected \in [Sources -> Seq(OfferSet)]
  /\ \A s \in Sources :
       /\ Len(answers[s]) <= MaxDetails /\ Len(candidates[s]) <= MaxCandidates
       /\ \A o \in ToSet(collected[s]) : o.source = s /\ o.id.source = s
  /\ snapshot # None =>
       /\ snapshot.offers \in Seq(OfferSet)
       /\ \A id \in DOMAIN snapshot.analysis.classes : snapshot.analysis.classes[id] \in Classes

\* A product a search found is in the snapshot, whatever becomes of its own
\* page and in whichever order the pages come: at least one offer leads to its
\* page (_collect_source, _deduplicate_offers).  A product whose URL carries no
\* id may be lost, see UnknownId.
EveryProductShown ==
  snapshot # None =>
    \A s \in Sources : \A c \in ToSet(candidates[s]) :
      ProductId(s, c.url) # None =>
        \E o \in ToSet(snapshot.offers) : o.source = s /\ o.url = c.url

\* Charts, statistics and classes are computed from differently deduplicated
\* lists (analysis/service.py) and agree all the same: every report has a chart
\* with as many points, from its minimum to its maximum, and the classified
\* offers are exactly the points.
ChartsAgreeWithReports ==
  snapshot # None =>
    LET a == snapshot.analysis
    IN  /\ Len(a.charts) = Len(a.reports)
        /\ \A i \in DOMAIN a.reports :
             LET points == a.charts[i].points
             IN  /\ a.charts[i].currency = a.reports[i].currency
                 /\ Len(points) = a.reports[i].count
                 /\ Head(points).amount = a.reports[i].minimum
                 /\ Last(points).amount = a.reports[i].maximum
        /\ {id \in DOMAIN a.classes : a.classes[id] # "unknown"}
             = UNION {{p.id : p \in ToSet(a.charts[i].points)} : i \in DOMAIN a.charts}

\* The analysis is a function of the set of offers: in whichever order the
\* sources stand in the registry and the offers on their pages, reports,
\* classes, charts, groups and opportunities are the same.
AnalysisIgnoresOrder ==
  snapshot # None => Analyse(Query, Reverse(snapshot.offers)) = snapshot.analysis

\* Prices of different currencies never meet: an offer has the class it would
\* have had if the offers of its currency were the only ones.
CurrenciesApart ==
  snapshot # None =>
    \A o \in ToSet(snapshot.offers) : o.price # None =>
      LET alike == Only(snapshot.offers, LAMBDA p : p.price # None
                                           /\ p.price.currency = o.price.currency)
      IN  Analyse(Query, alike).classes[o.id] = snapshot.analysis.classes[o.id]

\* An opportunity is one of the cheapest: of the other comparable offers of
\* its currency fewer than a quarter cost as little, and one costs at least
\* the resale price it is measured by.
OpportunitiesAreCheap ==
  snapshot # None =>
    \A i \in DOMAIN snapshot.analysis.opportunities :
      LET found == snapshot.analysis.opportunities[i]
          market == {o \in ToSet(snapshot.offers) :
                       /\ Comparable(Query, o) /\ o.price # None
                       /\ o.price.currency = found.currency}
          asCheap == {o \in market : o.price.amount <= found.cost}
      IN  /\ \E o \in asCheap : o.id = found.id /\ o.price.amount = found.cost
          /\ 4 * (Cardinality(asCheap) - 1) < Cardinality(market) - 1
          /\ \E o \in market : o.price.amount >= found.resale

\* "Keep at least one comparable offer from each source when the budget
\* allows": a dataset with an offer for each source of the snapshot has a
\* matching offer of every source that has one.
DatasetKeepsSources ==
  (dataset # None /\ dataset.data # None) =>
    LET kept == ToSet(dataset.data.offers)
        offered == {o.source : o \in ToSet(snapshot.offers)}
    IN  Len(dataset.data.offers) >= Cardinality(offered) =>
          \A s \in offered :
            (\E id \in snapshot.analysis.matches : id.source = s)
              => \E id \in snapshot.analysis.matches \cap kept : id.source = s

\* The prompt fits the budget, or nothing is left to take away: one offer
\* without texts, no statistics and one character of the product's name, or no
\* offer at all.  A prompt that fits with all its texts could not have held
\* one more offer.  Only a configured limit above the contract's makes the
\* dataset invalid.
DatasetFits ==
  dataset # None =>
    LET most == dataset.budget[1]
        tokens == dataset.budget[2]
        data == dataset.data
        more(n) == DatasetOf(snapshot.offers, snapshot.analysis, NameLength, n)
    IN  IF data = None THEN Len(snapshot.offers) > ContractOffers /\ most > ContractOffers
        ELSE /\ Len(data.offers) <= most
             /\ \/ Fits(data, tokens)
                \/ data.offers = <<>>
                \/ Len(data.offers) = 1 /\ ~data.texts /\ data.reports = 0 /\ data.product = 1
             /\ (data.texts /\ Len(data.offers) < Len(snapshot.offers) /\ Len(data.offers) < most)
                  => ~Fits(more(Len(data.offers) + 1), tokens)
=============================================================================
