---------------------------- MODULE CompactDataset ----------------------------
(***************************************************************************)
(* The bounded input of an analysis by Gemini (ai/compact_dataset.py,      *)
(* ai/token_budget.py and the budget loop of ai/service.py).  A dataset is *)
(* the ids of its offers, whether their texts are kept, the number of its  *)
(* statistics reports and the length of the product's name; the length of  *)
(* the prompt rendered from it is the sum of fixed sizes for its parts.    *)
(***************************************************************************)
EXTENDS Offers

CONSTANTS
  Instruction,    \* characters of the prompt without product, offers and reports
  FullOffer,      \* of an offer with its texts
  BareOffer,      \* of an offer without
  ReportSize,     \* of a statistics report
  ContractOffers  \* CompactAnalysisDataset.offers admits 100

Datasets == [offers : Seq(OfferIds), texts : BOOLEAN, reports : Nat, product : Nat]

\* Opportunities, then matches; then classified, then priced offers.
RankedBefore(analysis, a, b) ==
  LET opportunities == {o.id : o \in ToSet(analysis.opportunities)}
      worth(o) == IF o.id \in opportunities THEN 0 ELSE IF o.id \in analysis.matches THEN 1 ELSE 2
      unclassified(o) == IF analysis.classes[o.id] # "unknown" THEN 0 ELSE 1
      unpriced(o) == IF o.price # None THEN 0 ELSE 1
      rank(o) == <<worth(o), unclassified(o), unpriced(o)>>
  IN  \/ KeyBefore(rank(a), rank(b))
      \/ rank(a) = rank(b) /\ IdBefore(a.id, b.id)

\* Mutant: the best offers, whatever their sources.
SelectedByRank(offers, analysis, limit) ==
  FirstOf(limit, InOrder(ToSet(offers), LAMBDA a, b : RankedBefore(analysis, a, b)))

\* The best offer of each source comes before the second of any.
SelectedOffers(offers, analysis, limit) ==
  LET ranked == InOrder(ToSet(offers), LAMBDA a, b : RankedBefore(analysis, a, b))
      firsts == FirstWins(ranked, LAMBDA o : o.source)
      ids == {o.id : o \in ToSet(firsts)}
  IN  FirstOf(limit, firsts \o Only(ranked, LAMBDA o : o.id \notin ids))

\* build_compact_dataset; the primary report is not repeated among the others.
DatasetOf(offers, analysis, product, limit) ==
  LET selected == SelectedOffers(offers, analysis, limit)
  IN  [offers |-> [i \in DOMAIN selected |-> selected[i].id], texts |-> TRUE,
       reports |-> Len(analysis.reports), product |-> product]

PromptLength(dataset) ==
  Instruction + dataset.product + dataset.reports * ReportSize
  + Len(dataset.offers) * (IF dataset.texts THEN FullOffer ELSE BareOffer)

\* estimate_tokens: a third of the characters, rounded up.
EstimateTokens(length) == IF length <= 3 THEN 1 ELSE (length + 2) \div 3

Fits(dataset, maxTokens) == EstimateTokens(PromptLength(dataset)) <= maxTokens

\* Mutant: the name is kept as it is.
KeepProduct(dataset, maxTokens) == dataset

\* The name is halved until the prompt fits or one character is left.
ShortenProduct(dataset, maxTokens) ==
  LET named(n) == [dataset EXCEPT !.product = n]
      shorten[n \in 1 .. dataset.product] ==
        IF Fits(named(n), maxTokens) \/ n = 1 THEN n ELSE shorten[n \div 2]
  IN  named(shorten[dataset.product])

\* _build_budgeted_dataset: fewer and fewer offers until the prompt fits; at
\* last one offer without its texts, no statistics and a shorter name.  An
\* empty snapshot is sent as it is.
BudgetedDataset(offers, analysis, product, maxOffers, maxTokens) ==
  LET most == IF offers = <<>> THEN 1 ELSE IF maxOffers < Len(offers) THEN maxOffers ELSE Len(offers)
      fitting == {n \in 1 .. most : Fits(DatasetOf(offers, analysis, product, n), maxTokens)}
      single == DatasetOf(offers, analysis, product, 1)
  IN  IF fitting # {}
        THEN DatasetOf(offers, analysis, product, CHOOSE n \in fitting : \A k \in fitting : k <= n)
      ELSE IF offers = <<>> THEN single
      ELSE ShortenProduct([single EXCEPT !.texts = FALSE, !.reports = 0], maxTokens)

\* The loop starts with the most offers, which the contract may not admit.
Admissible(offers, maxOffers) ==
  Len(offers) <= ContractOffers \/ maxOffers <= ContractOffers
=============================================================================
