---------------------------- MODULE LocalAnalysis ----------------------------
(***************************************************************************)
(* The deterministic analysis of a set of offers (analysis/, matching/):   *)
(* which offers match the query, the price statistics of each currency,    *)
(* the class of each price, the charts and the opportunities.  Quartiles   *)
(* are kept in quarters of a price unit, scores in hundredths times the    *)
(* sizes they are divided by, so that all arithmetic is exact.  What only  *)
(* reports a number (means, deviations, percentiles no class uses, the     *)
(* score itself) is left out.                                              *)
(***************************************************************************)
EXTENDS Offers

CONSTANTS
  Threshold,        \* analysis_match_threshold, in hundredths
  MaxOpportunities  \* analysis_max_opportunities

Classes == {"below_market", "typical", "above_market", "low_outlier", "high_outlier", "unknown"}

-----------------------------------------------------------------------------
(* Matching (matching/matcher.py) *)

OfferTokens(offer) ==
  offer.title \cup offer.model \cup ({offer.brand, offer.capacity} \ {None})

\* The evidence of a brand, in hundredths; -35 is a mismatch.
BrandScore(query, offer) ==
  CASE query.brand = None -> 0
    [] offer.brand # None ->
         IF CanonicalBrand(offer.brand) = CanonicalBrand(query.brand) THEN 20 ELSE -35
    [] OTHER ->
         IF \E w \in offer.title : CanonicalBrand(w) = CanonicalBrand(query.brand) THEN 10 ELSE 0

\* The evidence of a capacity, in hundredths; -30 is a mismatch.
CapacityScore(query, offer) ==
  CASE query.capacity = None -> 0
    [] offer.capacity = query.capacity \/ query.capacity \in offer.title -> 15
    [] offer.capacity # None -> -30
    [] OTHER -> 0

\* match_offer.  A field the offer does not state is never a mismatch.
Matches(query, offer) ==
  LET tokens == OfferTokens(offer)
      words == IF query.tokens = {} THEN 1 ELSE Cardinality(query.tokens)
      models == IF query.model = {} THEN 1 ELSE Cardinality(query.model)
      hits == Cardinality(query.tokens \cap tokens)
      modelHits == Cardinality(query.model \cap tokens)
      brand == BrandScore(query, offer)
      capacity == CapacityScore(query, offer)
      title == IF query.tokens \subseteq offer.title THEN 10 ELSE 0
      score == 60 * hits * models + (brand + capacity + title) * words * models
               + (IF 2 * modelHits >= models THEN 15 * modelHits * words ELSE 0)
  IN  brand >= 0 /\ capacity >= 0 /\ score >= Threshold * words * models

-----------------------------------------------------------------------------
(* Deduplication (matching/deduplicator.py) *)

IdentityKey(offer) ==
  LET plain(words) == words \ (DOMAIN BrandOf \cup Colours)
  IN  [brand |-> offer.brand, capacity |-> offer.capacity,
       product |-> IF plain(offer.model) # {} THEN plain(offer.model)
                   ELSE IF plain(offer.title) # {} THEN plain(offer.title)
                   ELSE offer.title]

Fingerprint(offer) ==
  <<offer.source, offer.key, offer.seller, offer.price, [offer.url EXCEPT !.query = FALSE]>>

\* The order of preference: with details, priced, smallest id.
Preferred(a, b) ==
  \/ a.details /\ ~b.details
  \/ /\ a.details = b.details
     /\ \/ a.price # None /\ b.price = None
        \/ (a.price = None) = (b.price = None) /\ IdBefore(a.id, b.id)

Best(kind) == CHOOSE o \in kind : \A p \in kind \ {o} : ~Preferred(p, o)

\* The best offer of each kind, at the place of the first of it.
UniqueOffers(offers) ==
  LET same(i) == {j \in DOMAIN offers : Fingerprint(offers[j]) = Fingerprint(offers[i])}
  IN  Chosen([i \in DOMAIN offers |-> Best({offers[j] : j \in same(i)})],
             {i \in DOMAIN offers : \A j \in same(i) : i <= j})

\* The offers of one product, by its key.
Groups(offers) ==
  LET all == ToSet(offers)
      members(key) == {o \in all : IdentityKey(o) = key}
  IN  {[key |-> key, ids |-> {o.id : o \in members(key)},
        representative |-> Best(members(key)).id]
         : key \in {IdentityKey(o) : o \in all}}

-----------------------------------------------------------------------------
(* Statistics (analysis/statistics.py) *)

\* Mutant: the amounts in the order of the offers.
Unsorted(amounts) == amounts

SortedAmounts(amounts) ==
  LET at == InOrder(DOMAIN amounts,
              LAMBDA i, j : amounts[i] < amounts[j] \/ (amounts[i] = amounts[j] /\ i < j))
  IN  Listed([n \in DOMAIN at |-> amounts[at[n]]], Len(amounts))

\* Four times the quantile at k quarters, by linear interpolation.
Quartile(values, k) ==
  LET position == k * (Len(values) - 1)
      lower == values[position \div 4 + 1]
  IN  IF position % 4 = 0 THEN 4 * lower
      ELSE 4 * lower + (values[position \div 4 + 2] - lower) * (position % 4)

\* The statistics of a currency.
Reports ==
  [currency : ToSet(Currencies), count : Nat, minimum : Nat, p25 : Nat, median : Nat,
   p75 : Nat, maximum : Nat]

\* calculate_price_statistics, of amounts of one currency.
PriceStatistics(currency, amounts) ==
  LET values == SortedAmounts(amounts)
  IN  [currency |-> currency, count |-> Len(values),
       minimum |-> Head(values), p25 |-> Quartile(values, 1),
       median |-> Quartile(values, 2), p75 |-> Quartile(values, 3),
       maximum |-> Last(values)]

\* Mutant: one market for all currencies.
AmountsOfAll(offers, currency) ==
  LET priced == Only(offers, LAMBDA o : o.price # None)
  IN  [i \in DOMAIN priced |-> priced[i].price.amount]

\* The prices stated in a currency, in the order of the offers.
AmountsIn(offers, currency) ==
  LET priced == Only(offers, LAMBDA o : o.price # None /\ o.price.currency = currency)
  IN  [i \in DOMAIN priced |-> priced[i].price.amount]

\* One report for each currency that is known and stated, sorted.
StatisticsByCurrency(offers) ==
  LET stated == Only(Currencies,
                  LAMBDA c : c # "UNKNOWN" /\ \E o \in ToSet(offers) :
                               o.price # None /\ o.price.currency = c)
  IN  Listed([i \in DOMAIN stated |-> PriceStatistics(stated[i], AmountsIn(offers, stated[i]))],
             Len(stated))

\* The report with the most prices, unless two have as many.
PrimaryStatistics(reports) ==
  LET all == ToSet(reports)
      largest == {r \in all : \A other \in all : other.count <= r.count}
  IN  IF Cardinality(largest) = 1 THEN CHOOSE r \in largest : TRUE ELSE None

ReportOf(reports, currency) ==
  FirstKnown([i \in DOMAIN reports |-> IF reports[i].currency = currency THEN reports[i] ELSE None])

-----------------------------------------------------------------------------
(* Classes (analysis/classification.py) *)

\* Quartiles and fences of one and a half interquartile ranges.
ClassifyPrice(amount, report) ==
  LET range == report.p75 - report.p25
  IN  IF range > 0 /\ 8 * amount < 2 * report.p25 - 3 * range THEN "low_outlier"
      ELSE IF range > 0 /\ 8 * amount > 2 * report.p75 + 3 * range THEN "high_outlier"
      ELSE IF 4 * amount < report.p25 THEN "below_market"
      ELSE IF 4 * amount > report.p75 THEN "above_market"
      ELSE "typical"

\* The offers statistics are made of: matching and not known to be out of stock.
Comparable(query, offer) ==
  Matches(query, offer) /\ offer.availability # "out_of_stock"

\* The report an offer is compared with, or None.
MarketOf(query, offer, reports) ==
  IF Comparable(query, offer) /\ offer.price # None
  THEN ReportOf(reports, offer.price.currency) ELSE None

ClassOf(query, offer, reports) ==
  LET report == MarketOf(query, offer, reports)
  IN  IF report = None THEN "unknown" ELSE ClassifyPrice(offer.price.amount, report)

-----------------------------------------------------------------------------
(* Charts (analysis/charts.py) *)

PointBefore(a, b) ==
  \/ a.amount < b.amount
  \/ a.amount = b.amount /\ IdBefore(a.id, b.id)

\* A point for each id among the comparable offers of a report, the last
\* offer with that id counting.
ChartOf(query, offers, reports, report) ==
  LET byId == {offers[i] : i \in {j \in DOMAIN offers :
                 \A k \in DOMAIN offers : k > j => offers[k].id # offers[j].id}}
      shown == {o \in byId : MarketOf(query, o, reports) = report}
      points == {[id |-> o.id, amount |-> o.price.amount, class |-> ClassOf(query, o, reports)]
                   : o \in shown}
  IN  [currency |-> report.currency, points |-> InOrder(points, PointBefore),
       p25 |-> report.p25, median |-> report.median, p75 |-> report.p75]

\* One chart for each report that has points.
PriceCharts(query, offers, reports) ==
  Only([i \in DOMAIN reports |-> ChartOf(query, offers, reports, reports[i])],
       LAMBDA chart : chart.points # <<>>)

-----------------------------------------------------------------------------
(* Opportunities (analysis/opportunities.py) *)

\* Python's round of a number of quarters: a half goes to the even side.
Rounded(quarters) ==
  LET whole == quarters \div 4
      rest == quarters % 4
  IN  IF rest > 2 \/ (rest = 2 /\ whole % 2 = 1) THEN whole + 1 ELSE whole

\* calculate_opportunity; no parser states the cost of shipping.
Opportunity(offer, report, class) ==
  LET resale == Rounded(report.median)
  IN  [id |-> offer.id, currency |-> report.currency, cost |-> offer.price.amount,
       resale |-> resale, profit |-> resale - offer.price.amount, class |-> class]

\* profit_margin, in millionths: it is rounded to six decimals.  Halfway between
\* two millionths the code's float may be on either side.
Margin(found) == (2 * 1000000 * found.profit + found.resale) \div (2 * found.resale)

\* Highest margin first, then highest profit.
BetterThan(a, b) ==
  \/ Margin(a) > Margin(b)
  \/ Margin(a) = Margin(b) /\ a.profit > b.profit
  \/ Margin(a) = Margin(b) /\ a.profit = b.profit /\ IdBefore(a.id, b.id)

\* Mutant: anything under the median.
CheapAnyClass(query, offer, reports) ==
  LET report == MarketOf(query, offer, reports)
  IN  report # None /\ 4 * offer.price.amount < report.median

\* Below the median of its market and classed as low.
Cheap(query, offer, reports) ==
  LET report == MarketOf(query, offer, reports)
  IN  /\ ClassOf(query, offer, reports) \in {"below_market", "low_outlier"}
      /\ 4 * offer.price.amount < report.median

Opportunities(query, offers, reports) ==
  LET cheap == {o \in ToSet(offers) : Cheap(query, o, reports)}
      all == {Opportunity(o, MarketOf(query, o, reports), ClassOf(query, o, reports)) : o \in cheap}
  IN  FirstOf(MaxOpportunities, InOrder({o \in all : o.profit > 0}, BetterThan))

-----------------------------------------------------------------------------
(* The whole analysis (analysis/service.py) *)

\* analyze_offers.  Maps keyed by offer id are functions.
Analyse(query, offers) ==
  LET unique == UniqueOffers(offers)
      reports == StatisticsByCurrency(Only(unique, LAMBDA o : Comparable(query, o)))
      ids == {o.id : o \in ToSet(offers)}
      offerOf(id) == CHOOSE o \in ToSet(offers) : o.id = id
  IN  [matches |-> {o.id : o \in {p \in ToSet(offers) : Matches(query, p)}},
       groups |-> Groups(offers), reports |-> reports,
       primary |-> PrimaryStatistics(reports),
       classes |-> [id \in ids |-> ClassOf(query, offerOf(id), reports)],
       charts |-> PriceCharts(query, offers, reports),
       opportunities |-> Opportunities(query, unique, reports)]
=============================================================================
