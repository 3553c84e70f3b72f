----------------------------- MODULE OfferLemmas -----------------------------
(***************************************************************************)
(* What the parsers of the marketplaces, the local analysis and the        *)
(* selection for the dataset compute: the lemmas OfferFlowProofs rests on. *)
(* They speak of any page and any sequence of offers with one offer for    *)
(* each id.                                                                *)
(***************************************************************************)
EXTENDS LocalAnalysis, CompactDataset, MarketplacePages, SelectionLemmas

-----------------------------------------------------------------------------
(* Values that may be missing *)

\* The minimum of the community modules is the least number.
LEMMA MinOfNumbers ==
  ASSUME NEW T, T \subseteq Nat, T # {}
  PROVE  Min(T) \in T /\ \A n \in T : Min(T) <= n
<1>1. \E m \in T : \A n \in T : m <= n
  BY LeastNat
<1>2. QED
  BY <1>1 DEF Min

\* FirstKnown is the first value that is there, None if none is.
LEMMA FirstKnownIsFirst ==
  ASSUME NEW V, NEW s \in Seq(V)
  PROVE  \/ FirstKnown(s) = None /\ \A i \in DOMAIN s : s[i] = None
         \/ \E i \in DOMAIN s : /\ s[i] # None /\ FirstKnown(s) = s[i]
                                /\ \A j \in DOMAIN s : j < i => s[j] = None
<1> DEFINE known == {i \in DOMAIN s : s[i] # None}
<1>1. known \subseteq Nat /\ DOMAIN s \subseteq Nat
  OBVIOUS
<1>2. CASE known = {}
  BY <1>2 DEF FirstKnown
<1>3. CASE known # {}
  <2>1. FirstKnown(s) = s[Min(known)]
    BY <1>3 DEF FirstKnown
  <2>2. Min(known) \in known /\ \A n \in known : Min(known) <= n
    <3> HIDE DEF known
    <3> QED BY <1>1, <1>3, MinOfNumbers
  <2>3. PICK m : m = Min(known)
    OBVIOUS
  <2>4. m \in DOMAIN s /\ m \in Nat /\ s[m] # None /\ \A n \in known : m <= n
    BY <1>1, <2>2, <2>3
  <2>5. ASSUME NEW j \in DOMAIN s, j < m, s[j] # None PROVE FALSE
    BY <1>1, <2>4, <2>5
  <2>6. QED
    BY <2>1, <2>3, <2>4, <2>5
<1>4. QED
  BY <1>2, <1>3

\* FirstKnown of optional values is optional.
LEMMA FirstKnownType ==
  ASSUME NEW V, NEW s \in Seq(Optional(V))
  PROVE  FirstKnown(s) \in Optional(V)
BY FirstKnownIsFirst DEF Optional

\* A first value that is there is the one.
LEMMA KnownFirst ==
  ASSUME NEW V, NEW s \in Seq(V), s # <<>>, s[1] # None
  PROVE  FirstKnown(s) = s[1]
<1>1. 1 \in DOMAIN s /\ DOMAIN s \subseteq Nat /\ \A i \in DOMAIN s : i # 1 => 1 < i
  OBVIOUS
<1>2. PICK i \in DOMAIN s : FirstKnown(s) = s[i] /\ \A j \in DOMAIN s : j < i => s[j] = None
  BY <1>1, FirstKnownIsFirst
<1>3. QED
  BY <1>1, <1>2

\* Of two values the first counts if it is there.
LEMMA FirstOfTwo ==
  ASSUME NEW V, NEW a \in Optional(V), NEW b \in Optional(V)
  PROVE  FirstKnown(<<a, b>>) \in Optional(V) /\ (a # None => FirstKnown(<<a, b>>) = a)
<1>1. PICK s : s = <<a, b>>
  OBVIOUS
<1>2. s \in Seq(Optional(V)) /\ s # <<>> /\ s[1] = a
  BY <1>1
<1>3. FirstKnown(s) \in Optional(V) /\ (a # None => FirstKnown(s) = a)
  BY <1>2, FirstKnownType, KnownFirst
<1>4. QED
  BY <1>1, <1>3

-----------------------------------------------------------------------------
(* Scalars *)

USE DEF Optional, Texts, ProductKeys

\* A label is read as a currency.
LEMMA LabelType ==
  ASSUME NEW label, NEW default \in ToSet(Currencies)
  PROVE  CurrencyFromLabel(label, default) \in ToSet(Currencies)
<1>1. "IRR" \in ToSet(Currencies) /\ "IRT" \in ToSet(Currencies)
  <2>1. DOMAIN Currencies = 1 .. 3 /\ Currencies[1] = "IRR" /\ Currencies[2] = "IRT"
    BY DEF Currencies
  <2>2. QED
    BY <2>1 DEF ToSet
<1>2. QED
  BY <1>1 DEF CurrencyFromLabel

\* The currencies by name.
LEMMA CurrencyNames == ToSet(Currencies) = {"IRR", "IRT", "UNKNOWN"}
<1>1. /\ DOMAIN Currencies = 1 .. 3
      /\ Currencies[1] = "IRR" /\ Currencies[2] = "IRT" /\ Currencies[3] = "UNKNOWN"
  BY DEF Currencies
<1>2. QED
  BY <1>1 DEF ToSet

\* The marketplaces by name.
LEMMA MarketplaceNames == ToSet(Marketplaces) = {"basalam", "digikala", "divar", "torob"}
<1>1. /\ DOMAIN Marketplaces = 1 .. 4 /\ Marketplaces[1] = "basalam" /\ Marketplaces[2] = "digikala"
      /\ Marketplaces[3] = "divar" /\ Marketplaces[4] = "torob"
  BY DEF Marketplaces
<1>2. QED
  BY <1>1 DEF ToSet

\* A natural number in a currency is a price.
LEMMA MoneyType ==
  ASSUME NEW amount \in Nat, NEW currency \in ToSet(Currencies)
  PROVE  Money(amount, currency) \in Prices
BY DEF Money, Prices

\* A number of a page is a price of at least zero or none: a negative one is
\* refused (numeric_money).
LEMMA NumericMoneyType ==
  ASSUME NEW raw \in RawNumbers, NEW currency \in ToSet(Currencies)
  PROVE  NumericMoney(raw, currency) \in Optional(Prices)
<1>1. CASE raw.kind = "number"
  <2>1. raw.halves \in Int
    BY <1>1 DEF RawNumbers
  <2>2. raw.halves >= 0 => (raw.halves + 1) \div 2 \in Nat
    BY <2>1
  <2>3. QED
    BY <1>1, <2>1, <2>2, MoneyType DEF NumericMoney
<1>2. CASE raw.kind = "digits"
  <2>1. raw.digits \in Nat
    BY <1>2 DEF RawNumbers
  <2>2. QED
    BY <1>2, <2>1, MoneyType DEF NumericMoney
<1>3. QED
  BY <1>1, <1>2 DEF NumericMoney

\* So is a price in a text, spelled out or not.
LEMMA TextMoneyTypes ==
  ASSUME NEW text \in PriceTexts, Multiplier \in [DOMAIN Multiplier -> Nat]
  PROVE  /\ LabeledMoney(text) \in Optional(Prices)
         /\ LastNumericMoney(text) \in Optional(Prices)
         /\ TorobMoney(text) \in Optional(Prices)
<1>1. "UNKNOWN" \in ToSet(Currencies) /\ "IRT" \in ToSet(Currencies)
  BY CurrencyNames
<1>2. \A label : /\ CurrencyFromLabel(label, "UNKNOWN") \in ToSet(Currencies)
                 /\ CurrencyFromLabel(label, "IRT") \in ToSet(Currencies)
  BY <1>1, LabelType
<1>3. text.labelled # None => text.labelled.amount \in Nat
  BY DEF PriceTexts
<1>4. text.grouped # <<>> => Last(text.grouped) \in Nat
  BY DEF PriceTexts, Last
<1>5. text.scaled # None => (text.scaled.halves * Multiplier[text.scaled.scale] + 1) \div 2 \in Nat
  <2>1. SUFFICES ASSUME text.scaled # None
                 PROVE  (text.scaled.halves * Multiplier[text.scaled.scale] + 1) \div 2 \in Nat
    OBVIOUS
  <2>2. text.scaled.halves \in Nat /\ Multiplier[text.scaled.scale] \in Nat
    BY <2>1 DEF PriceTexts
  <2>3. text.scaled.halves * Multiplier[text.scaled.scale] \in Nat
    BY <2>2
  <2>4. PICK n : n = text.scaled.halves * Multiplier[text.scaled.scale]
    OBVIOUS
  <2>5. (n + 1) \div 2 \in Nat
    BY <2>3, <2>4
  <2>6. QED
    BY <2>4, <2>5
<1>6. LabeledMoney(text) \in Optional(Prices)
  BY <1>2, <1>3, MoneyType DEF LabeledMoney
<1>7. LastNumericMoney(text) \in Optional(Prices)
  BY <1>1, <1>4, MoneyType DEF LastNumericMoney
<1>8. TorobMoney(text) \in Optional(Prices)
  BY <1>2, <1>3, <1>5, MoneyType DEF TorobMoney
<1>9. QED
  BY <1>6, <1>7, <1>8

\* Whatever the words, the availability is one of the enumeration.
LEMMA AvailabilityType == ASSUME NEW words PROVE Availability(words) \in Stocks
BY DEF Availability, Stocks

\* What is read out of a text: its words, a brand, a capacity and a model.
LEMMA AttributesType ==
  ASSUME NEW text \in Texts, BrandOf \in [DOMAIN BrandOf -> STRING]
  PROVE  /\ Attributes(text).tokens = text
         /\ Attributes(text).brand \in Optional(STRING)
         /\ Attributes(text).capacity \in Optional(STRING)
         /\ Attributes(text).model \in Texts
<1> DEFINE brands == {BrandOf[w] : w \in text \cap DOMAIN BrandOf}
           stated == text \cap Capacities
<1>1. brands \subseteq STRING /\ stated \subseteq STRING
  OBVIOUS
<1>2. brands # {} => (CHOOSE b \in brands : TRUE) \in STRING
  BY <1>1
<1>3. stated # {} => (CHOOSE b \in stated : TRUE) \in STRING
  BY <1>1
<1>4. QED
  BY <1>2, <1>3 DEF Attributes

-----------------------------------------------------------------------------
(* Ids *)

\* The segment after the first of some positions has a key.
LEMMA KeyAfterType ==
  ASSUME NEW path \in Seq(Segment), NEW at, at \subseteq 1 .. Len(path) - 1, at # {}
  PROVE  path[(CHOOSE i \in at : \A j \in at : i <= j) + 1].key \in ProductKeys
<1>1. at \subseteq Nat
  OBVIOUS
<1>2. PICK m : m = CHOOSE i \in at : \A j \in at : i <= j
  OBVIOUS
<1>3. m \in at
  BY <1>1, <1>2, LeastNat
<1>4. m + 1 \in 1 .. Len(path)
  BY <1>3
<1>5. path[m + 1] \in Segment
  BY <1>4, SequencePositions
<1>6. path[m + 1].key \in ProductKeys
  BY <1>5 DEF Segment
<1>7. QED
  BY <1>2, <1>6

\* The id in a URL is a key, or there is none.
LEMMA ProductIdType ==
  ASSUME NEW source \in ToSet(Marketplaces), NEW url \in Urls
  PROVE  ProductId(source, url) \in Optional(ProductKeys)
<1>1. PICK path : path = url.path
  OBVIOUS
<1>0. path \in Seq(Segment) /\ Len(path) \in Nat /\ \A i \in 1 .. Len(path) : path[i].key \in ProductKeys
  <2>1. path \in Seq(Segment)
    BY <1>1 DEF Urls
  <2>2. \A i \in 1 .. Len(path) : path[i] \in Segment
    BY <2>1, SequencePositions
  <2>3. QED
    BY <2>1, <2>2 DEF Segment
<1>2. TorobProductId(url) \in Optional(ProductKeys)
  <2>1. PICK at : at = {i \in 1 .. Len(path) - 1 : path[i].word = "p"}
    OBVIOUS
  <2>2. TorobProductId(url) = IF at = {} THEN None
                              ELSE path[(CHOOSE i \in at : \A j \in at : i <= j) + 1].key
    BY <1>1, <2>1 DEF TorobProductId, KeyAfter
  <2>3. at \subseteq 1 .. Len(path) - 1
    BY <2>1
  <2>4. at # {} => path[(CHOOSE i \in at : \A j \in at : i <= j) + 1].key \in ProductKeys
    BY <1>0, <2>3, KeyAfterType
  <2>5. QED
    BY <2>2, <2>4
<1>3. BasalamProductId(url) \in Optional(ProductKeys)
  <2>1. PICK at : at = {i \in 1 .. Len(path) - 1 : path[i].word = "product"}
    OBVIOUS
  <2>2. BasalamProductId(url) = IF at = {} THEN None
                                ELSE path[(CHOOSE i \in at : \A j \in at : i <= j) + 1].key
    BY <1>1, <2>1 DEF BasalamProductId, KeyAfter
  <2>3. at \subseteq 1 .. Len(path) - 1
    BY <2>1
  <2>4. at # {} => path[(CHOOSE i \in at : \A j \in at : i <= j) + 1].key \in ProductKeys
    BY <1>0, <2>3, KeyAfterType
  <2>5. QED
    BY <2>2, <2>4
<1>4. DigikalaProductId(url) \in Optional(ProductKeys)
  <2>1. PICK at : at = {i \in 1 .. Len(path) - 1 :
                          path[i].word = "product" /\ path[i + 1].word = "dkp"}
    OBVIOUS
  <2>2. DigikalaProductId(url) = IF at = {} THEN None
                                 ELSE path[(CHOOSE i \in at : \A j \in at : i <= j) + 1].key
    BY <1>1, <2>1 DEF DigikalaProductId, KeyAfter
  <2>3. at \subseteq 1 .. Len(path) - 1
    BY <2>1
  <2>4. at # {} => path[(CHOOSE i \in at : \A j \in at : i <= j) + 1].key \in ProductKeys
    BY <1>0, <2>3, KeyAfterType
  <2>5. QED
    BY <2>2, <2>4
<1>5. DivarListingId(url) \in Optional(ProductKeys)
  <2> DEFINE at == {i \in DOMAIN path : path[i].word = "v"}
  <2>1. PICK m : m = CHOOSE i \in at : \A j \in at : i <= j
    OBVIOUS
  <2>2. at \subseteq Nat /\ at \subseteq 1 .. Len(path)
    BY <1>0
  <2>3. at # {} => m \in at
    <3> HIDE DEF at
    <3> QED BY <2>1, <2>2, LeastNat
  <2>4. DivarListingId(url) = IF at = {} \/ m = Len(path) THEN None
                              ELSE path[IF m + 2 <= Len(path) THEN m + 2 ELSE m + 1].key
    BY <1>1, <2>1 DEF DivarListingId
  <2>5. at # {} /\ m # Len(path) => (IF m + 2 <= Len(path) THEN m + 2 ELSE m + 1) \in 1 .. Len(path)
    <3>1. PICK n : n = Len(path)
      OBVIOUS
    <3>2. n \in Nat
      BY <1>0, <3>1
    <3>3. at # {} => m \in 1 .. n
      BY <2>2, <2>3, <3>1
    <3> HIDE DEF at
    <3>4. m \in 1 .. n /\ m # n => (IF m + 2 <= n THEN m + 2 ELSE m + 1) \in 1 .. n
      BY <3>2
    <3>5. QED
      BY <3>1, <3>3, <3>4
  <2>6. \A i \in 1 .. Len(path) : path[i].key \in ProductKeys
    BY <1>0
  <2> HIDE DEF at
  <2>7. QED
    BY <2>4, <2>5, <2>6
<1>6. QED
  BY <1>2, <1>3, <1>4, <1>5, MarketplaceNames DEF ProductId

\* A canonical URL has no query.
LEMMA CanonicalUrlType ==
  ASSUME NEW url \in Urls
  PROVE  CanonicalUrl(url) \in Urls /\ CanonicalUrl(url).query = FALSE
BY DEF CanonicalUrl, Urls

-----------------------------------------------------------------------------
(* JSON-LD *)

\* The offer a product of JSON-LD counts with, if any.
LEMMA FirstSchemaOfferType ==
  ASSUME NEW offers \in OfferParts
  PROVE  FirstSchemaOffer(offers) \in Optional(SchemaOffers)
<1>1. CASE offers.form = "list"
  BY <1>1 DEF FirstSchemaOffer, OfferParts
<1>2. CASE offers.form # "list"
  BY <1>2 DEF FirstSchemaOffer, OfferParts
<1>3. QED
  BY <1>1, <1>2

\* Its price, seller and stock.
LEMMA SchemaOfferTypes ==
  ASSUME NEW offer \in Optional(SchemaOffers), NEW default \in ToSet(Currencies)
  PROVE  /\ SchemaPrice(offer, default) \in Optional(Prices)
         /\ SchemaSeller(offer) \in Optional(STRING)
         /\ SchemaStock(offer) \in Texts
<1>1. offer # None => SchemaPrice(offer, default) \in Optional(Prices)
  <2>1. SUFFICES ASSUME offer # None PROVE SchemaPrice(offer, default) \in Optional(Prices)
    OBVIOUS
  <2>2. offer.price \in RawNumbers /\ offer.low \in RawNumbers
    BY <2>1 DEF SchemaOffers
  <2>3. QED
    BY <2>1, <2>2, LabelType, NumericMoneyType DEF SchemaPrice
<1>2. offer # None => offer.seller \in Optional(STRING) /\ offer.stock \in Texts
  BY DEF SchemaOffers
<1>3. QED
  BY <1>1, <1>2 DEF SchemaPrice, SchemaSeller, SchemaStock

SchemaEntries == [wrapped : BOOLEAN, item : SchemaItems]

\* The entries of a JSON-LD object; a product has one.
LEMMA SchemaObjectType ==
  ASSUME NEW object \in SchemaObjects
  PROVE  object.entries \in Seq(SchemaEntries) /\ (object.type = "Product" => object.entries # <<>>)
BY DEF SchemaObjects, SchemaEntries

\* The objects of some types.
LEMMA PayloadsType ==
  ASSUME NEW page, page.schema \in Seq(SchemaObjects), NEW types
  PROVE  /\ Payloads(page, types) \in Seq(SchemaObjects)
         /\ \A i \in DOMAIN Payloads(page, types) : Payloads(page, types)[i].type \in types
<1>1. PICK T : T = {i \in DOMAIN page.schema : page.schema[i].type \in types}
  OBVIOUS
<1>2. Payloads(page, types) = Chosen(page.schema, T)
  BY <1>1 DEF Payloads, Only
<1>3. T \subseteq Int /\ IsFiniteSet(T) /\ \A i \in T : page.schema[i] \in SchemaObjects
  BY <1>1, SequencePositions
<1>4. PICK c : c = Chosen(page.schema, T)
  OBVIOUS
<1>5. c \in Seq(SchemaObjects) /\ \A x \in ToSet(c) : \E i \in T : x = page.schema[i]
  <2>1. PICK schema : schema = page.schema
    OBVIOUS
  <2>2. \A i \in T : schema[i] \in SchemaObjects
    BY <1>3, <2>1
  <2>3. c \in Seq(SchemaObjects)
    BY <1>3, <1>4, <2>1, <2>2, ChosenElements
  <2>4. \A x \in ToSet(c) : \E i \in T : x = schema[i]
    <3>1. c = Chosen(schema, T)
      BY <1>4, <2>1
    <3>2. Follows(c, schema, T)
      BY <1>3, <3>1, ChosenInOrder
    <3>3. QED
      BY <3>2 DEF Follows
  <2>5. QED
    BY <2>1, <2>3, <2>4
<1>6. \A i \in DOMAIN c : c[i] \in ToSet(c)
  BY DEF ToSet
<1>7. QED
  BY <1>1, <1>2, <1>4, <1>5, <1>6

\* The items of a search page.
LEMMA ItemsType ==
  ASSUME NEW source, NEW page, page.schema \in Seq(SchemaObjects)
  PROVE  Items(source, page) \in Seq(SchemaItems)
<1> DEFINE lists == Payloads(page, {"ItemList", "Product"})
           rows == [i \in DOMAIN lists |-> lists[i].entries]
           entries == Joined(rows)
           taken == Only(entries, LAMBDA e : e.wrapped \/ source = "torob")
<1>1. lists \in Seq(SchemaObjects)
  BY PayloadsType
<1>2. Items(source, page) = [i \in DOMAIN taken |-> taken[i].item]
  BY DEF Items
<1> HIDE DEF lists
<1>3. \A i \in 1 .. Len(lists) : lists[i].entries \in Seq(SchemaEntries)
  BY <1>1, SchemaObjectType
<1>4. /\ Len(lists) \in Nat /\ DOMAIN rows = 1 .. Len(lists)
      /\ \A i \in 1 .. Len(lists) : rows[i] \in Seq(SchemaEntries)
  BY <1>1, <1>3
<1> HIDE DEF rows
<1>5. entries \in Seq(SchemaEntries)
  BY <1>4, JoinedElements
<1>6. taken \in Seq(SchemaEntries)
  <2> HIDE DEF entries
  <2>1. PICK T : T = {i \in DOMAIN entries : entries[i].wrapped \/ source = "torob"}
    OBVIOUS
  <2>2. taken = Chosen(entries, T)
    BY <2>1 DEF Only
  <2>3. T \subseteq Int /\ IsFiniteSet(T) /\ \A i \in T : entries[i] \in SchemaEntries
    BY <1>5, <2>1, SequencePositions
  <2>4. QED
    BY <2>2, <2>3, ChosenElements
<1> HIDE DEF taken
<1>7. \A i \in DOMAIN taken : taken[i].item \in SchemaItems
  <2>1. \A i \in DOMAIN taken : taken[i] \in SchemaEntries
    BY <1>6, SequencePositions
  <2>2. QED
    BY <2>1 DEF SchemaEntries
<1>8. QED
  BY <1>2, <1>6, <1>7

\* The product of a product page, if it states one.
LEMMA ProductSchemaType ==
  ASSUME NEW page, page.schema \in Seq(SchemaObjects)
  PROVE  ProductSchema(page) \in Optional(SchemaItems)
<1> DEFINE products == Payloads(page, {"Product"})
<1>1. products \in Seq(SchemaObjects) /\ \A i \in DOMAIN products : products[i].type \in {"Product"}
  BY PayloadsType
<1>2. ProductSchema(page) = IF products = <<>> THEN None ELSE products[1].entries[1].item
  BY DEF ProductSchema
<1> HIDE DEF products
<1>3. ASSUME products # <<>> PROVE products[1].entries[1].item \in SchemaItems
  <2>1. 1 \in DOMAIN products /\ products[1] \in SchemaObjects /\ products[1].type = "Product"
    BY <1>1, <1>3
  <2>2. products[1].entries \in Seq(SchemaEntries) /\ products[1].entries # <<>>
    BY <2>1, SchemaObjectType
  <2>3. products[1].entries[1] \in SchemaEntries
    BY <2>2
  <2>4. QED
    BY <2>3 DEF SchemaEntries
<1>4. QED
  BY <1>2, <1>3

-----------------------------------------------------------------------------
(* Candidates *)

\* What the first elements of each key are.
LEMMA FirstWinsElements ==
  ASSUME NEW V, NEW s \in Seq(V), NEW key
  PROVE  LET T == Firsts(Len(s), key)
             c == Chosen(s, T)
         IN  /\ T \subseteq DOMAIN s
             /\ c \in Seq(V) /\ Len(c) <= Len(s) /\ \A i \in T : s[i] \in ToSet(c)
             /\ \E at \in [1 .. Len(c) -> T] :
                  /\ \A n \in 1 .. Len(c) : c[n] = s[at[n]]
                  /\ \A m, n \in 1 .. Len(c) : key[at[m]] = key[at[n]] => m = n
<1>1. PICK T : T = Firsts(Len(s), key)
  OBVIOUS
<1>2. PICK c : c = Chosen(s, T)
  OBVIOUS
<1>3. Len(s) \in Nat /\ DOMAIN s = 1 .. Len(s)
  OBVIOUS
<1>4. T \subseteq 1 .. Len(s) /\ \A i, j \in T : key[i] = key[j] => i = j
  BY <1>1, <1>3, FirstsOfKeys
<1>5. T \subseteq Int /\ IsFiniteSet(T) /\ Cardinality(T) \in Nat /\ Cardinality(T) <= Len(s)
  BY <1>3, <1>4, PositionsFinite
<1>6. \A i \in T : s[i] \in V
  BY <1>3, <1>4
<1>7. c \in Seq(V) /\ Len(c) = Cardinality(T) /\ \A i \in T : s[i] \in ToSet(c)
  BY <1>2, <1>5, <1>6, ChosenElements
<1>8. Follows(c, s, T)
  BY <1>2, <1>5, ChosenInOrder
<1>9. PICK at : Ascends(at, T) /\ \A n \in 1 .. Cardinality(T) : c[n] = s[at[n]]
  BY <1>8 DEF Follows
<1>10. at \in [1 .. Cardinality(T) -> T] /\ \A m, n \in 1 .. Cardinality(T) : at[m] = at[n] => m = n
  BY <1>9 DEF Ascends
<1>11. \A m, n \in 1 .. Cardinality(T) : key[at[m]] = key[at[n]] => m = n
  BY <1>4, <1>10
<1>12. /\ at \in [1 .. Len(c) -> T]
       /\ \A n \in 1 .. Len(c) : c[n] = s[at[n]]
       /\ \A m, n \in 1 .. Len(c) : key[at[m]] = key[at[n]] => m = n
  BY <1>7, <1>9, <1>10, <1>11
<1>13. QED
  BY <1>1, <1>2, <1>3, <1>4, <1>5, <1>7, <1>12

\* Those of each id.
LEMMA FirstOfEachId ==
  ASSUME NEW V, NEW s \in Seq(V), NEW f, f = FirstWins(s, LAMBDA c : c.id)
  PROVE  /\ f \in Seq(V) /\ Len(f) <= Len(s) /\ ToSet(f) \subseteq ToSet(s)
         /\ \A x \in ToSet(s) : \E y \in ToSet(f) : y.id = x.id
         /\ \A i, j \in DOMAIN f : f[i].id = f[j].id => i = j
<1> DEFINE key == [i \in DOMAIN s |-> s[i].id]
           T == Firsts(Len(s), key)
<1>1. Len(s) \in Nat /\ DOMAIN s = 1 .. Len(s)
  OBVIOUS
<1>2. f = Chosen(s, T)
  <2>1. T = {i \in DOMAIN s : \A j \in DOMAIN s : j < i => s[j].id # s[i].id}
    BY <1>1 DEF Firsts
  <2>2. QED
    BY <2>1 DEF FirstWins
<1>4. \A i \in DOMAIN s : key[i] = s[i].id
  OBVIOUS
<1> HIDE DEF key
<1>5. T \subseteq DOMAIN s /\ f \in Seq(V) /\ Len(f) <= Len(s) /\ \A i \in T : s[i] \in ToSet(f)
  BY <1>2, FirstWinsElements
<1>6. \A i \in DOMAIN s : \E j \in T : key[j] = key[i]
  <2>1. \A i \in 1 .. Len(s) : \E j \in Firsts(Len(s), key) : key[j] = key[i] /\ j <= i
    BY <1>1, FirstsOfKeys
  <2>2. QED
    BY <1>1, <2>1
<1>7. PICK at \in [1 .. Len(f) -> T] :
         /\ \A n \in 1 .. Len(f) : f[n] = s[at[n]]
         /\ \A m, n \in 1 .. Len(f) : key[at[m]] = key[at[n]] => m = n
  BY <1>2, FirstWinsElements
<1> HIDE DEF T
<1>8. ToSet(f) \subseteq ToSet(s)
  <2>4. DOMAIN f = 1 .. Len(f)
    BY <1>5
  <2>1. ToSet(f) = {f[n] : n \in 1 .. Len(f)} /\ \A i \in DOMAIN s : s[i] \in ToSet(s)
    BY <2>4 DEF ToSet
  <2>2. \A n \in 1 .. Len(f) : f[n] \in ToSet(s)
    BY <1>5, <1>7, <2>1
  <2>3. QED
    BY <2>1, <2>2
<1>9. ASSUME NEW x \in ToSet(s) PROVE \E y \in ToSet(f) : y.id = x.id
  <2>1. PICK i \in DOMAIN s : x = s[i]
    BY DEF ToSet
  <2>2. PICK j \in T : key[j] = key[i]
    BY <1>6
  <2>3. s[j] \in ToSet(f) /\ s[j].id = x.id
    BY <1>4, <1>5, <2>1, <2>2
  <2>4. QED
    BY <2>3
<1>10. \A i, j \in DOMAIN f : f[i].id = f[j].id => i = j
  <2>1. DOMAIN f = 1 .. Len(f)
    BY <1>5
  <2>2. \A n \in 1 .. Len(f) : key[at[n]] = f[n].id
    BY <1>4, <1>5, <1>7
  <2>3. QED
    BY <1>7, <2>1, <2>2
<1>11. QED
  BY <1>5, <1>8, <1>9, <1>10

\* A candidate that may lack its id.
Sightings ==
  {c \in [source : ToSet(Marketplaces), id : Optional(ProductKeys), title : Texts, url : Urls,
          price : Optional(Prices), seller : Optional(STRING), availability : Stocks,
          brand : Optional(STRING), model : Texts, capacity : Optional(STRING)] :
     /\ c.url.query = FALSE
     /\ ProductId(c.source, c.url) # None => c.id = ProductId(c.source, c.url)}

\* The candidates of a marketplace: the id in a URL is that of its product.
CandidatesOf(source) ==
  {c \in CandidateSet :
     /\ c.source = source /\ c.url.query = FALSE
     /\ ProductId(source, c.url) # None => c.id = ProductId(source, c.url)}

\* With an id it is a candidate of its marketplace.
LEMMA IdentifiedCandidate ==
  ASSUME NEW c \in Sightings, Identified(c)
  PROVE  c \in CandidatesOf(c.source)
BY DEF Sightings, Identified, CandidateSet, CandidatesOf

\* What a JSON-LD item with a name and a URL shows.
LEMMA SchemaCandidateTypes ==
  ASSUME NEW item \in SchemaItems, item.name # None, item.url # None,
         BrandOf \in [DOMAIN BrandOf -> STRING],
         NEW source \in ToSet(Marketplaces)
  PROVE  /\ TorobSchemaCandidate(item) \in Sightings
         /\ CardSchemaCandidate(source, item) \in Sightings
<1>1. /\ item.name \in Texts /\ item.url \in Urls /\ item.sku \in Optional(ProductKeys)
      /\ item.brand \in Optional(STRING) /\ item.offers \in OfferParts
  BY DEF SchemaItems
<1>2. PICK url : url = CanonicalUrl(item.url)
  OBVIOUS
<1>3. PICK offer : offer = FirstSchemaOffer(item.offers)
  OBVIOUS
<1>4. url \in Urls /\ url.query = FALSE /\ offer \in Optional(SchemaOffers)
  BY <1>1, <1>2, <1>3, CanonicalUrlType, FirstSchemaOfferType
<1>5. "torob" \in ToSet(Marketplaces) /\ "IRR" \in ToSet(Currencies) /\ "UNKNOWN" \in ToSet(Currencies)
  BY MarketplaceNames, CurrencyNames
<1>6. /\ SchemaPrice(offer, "IRR") \in Optional(Prices)
      /\ SchemaPrice(offer, "UNKNOWN") \in Optional(Prices)
      /\ SchemaSeller(offer) \in Optional(STRING)
      /\ Availability(SchemaStock(offer)) \in Stocks
  BY <1>4, <1>5, SchemaOfferTypes, AvailabilityType
<1>7. /\ FirstKnown(<<TorobProductId(url), item.sku>>) \in Optional(ProductKeys)
      /\ FirstKnown(<<ProductId(source, url), item.sku>>) \in Optional(ProductKeys)
      /\ TorobProductId(url) # None => FirstKnown(<<TorobProductId(url), item.sku>>) = TorobProductId(url)
      /\ ProductId(source, url) # None =>
           FirstKnown(<<ProductId(source, url), item.sku>>) = ProductId(source, url)
      /\ ProductId("torob", url) = TorobProductId(url)
  <2>1. ProductId("torob", url) = TorobProductId(url)
    BY DEF ProductId
  <2>2. TorobProductId(url) \in Optional(ProductKeys) /\ ProductId(source, url) \in Optional(ProductKeys)
    BY <1>4, <1>5, <2>1, ProductIdType
  <2>3. QED
    BY <1>1, <2>1, <2>2, FirstOfTwo
<1>8. TorobSchemaCandidate(item) \in Sightings
  BY <1>1, <1>2, <1>3, <1>4, <1>5, <1>6, <1>7 DEF TorobSchemaCandidate, Sightings
<1>9. PICK said : said = TitleAttributes(source, item.name)
  OBVIOUS
<1>10. said.brand \in Optional(STRING) /\ said.model \in Texts /\ said.capacity \in Optional(STRING)
  <2>1. CASE source = "basalam"
    BY <1>9, <2>1 DEF TitleAttributes
  <2>2. CASE source # "basalam"
    BY <1>1, <1>9, <2>2, AttributesType DEF TitleAttributes
  <2>3. QED
    BY <2>1, <2>2
<1>11. FirstKnown(<<item.brand, said.brand>>) \in Optional(STRING)
  BY <1>1, <1>10, FirstOfTwo
<1>12. CardSchemaCandidate(source, item) =
         [source |-> source, id |-> FirstKnown(<<ProductId(source, url), item.sku>>),
          title |-> item.name, url |-> url, price |-> SchemaPrice(offer, "UNKNOWN"),
          seller |-> SchemaSeller(offer), availability |-> Availability(SchemaStock(offer)),
          brand |-> FirstKnown(<<item.brand, said.brand>>), model |-> said.model,
          capacity |-> said.capacity]
  BY <1>2, <1>3, <1>9 DEF CardSchemaCandidate
<1>13. CardSchemaCandidate(source, item) \in Sightings
  BY <1>1, <1>4, <1>6, <1>7, <1>10, <1>11, <1>12 DEF Sightings
<1>14. QED
  BY <1>8, <1>13

\* The price of a card, from its elements or its text.
LEMMA PriceFromCardType ==
  ASSUME NEW source, NEW card \in Cards, Multiplier \in [DOMAIN Multiplier -> Nat]
  PROVE  PriceFromCard(source, card) \in Optional(Prices)
<1>1. "UNKNOWN" \in ToSet(Currencies)
  BY CurrencyNames
<1>2. PICK elements : elements = card.elements
  OBVIOUS
<1> DEFINE rows == [i \in DOMAIN elements |-> ElementPrices(source, elements[i])]
<1>3. elements \in Seq([data : RawNumbers, content : RawNumbers, text : PriceTexts]) /\ card.text \in PriceTexts
  BY <1>2 DEF Cards
<1>4. ASSUME NEW e \in [data : RawNumbers, content : RawNumbers, text : PriceTexts]
      PROVE  ElementPrices(source, e) \in Seq(Optional(Prices))
  <2>1. /\ NumericMoney(e.data, "UNKNOWN") \in Optional(Prices)
        /\ NumericMoney(e.content, "UNKNOWN") \in Optional(Prices)
        /\ LabeledMoney(e.text) \in Optional(Prices)
        /\ LastNumericMoney(e.text) \in Optional(Prices)
    BY <1>1, NumericMoneyType, TextMoneyTypes
  <2>2. PICK P : P = Optional(Prices)
    OBVIOUS
  <2>6. PICK last : last = LastNumericMoney(e.text)
    OBVIOUS
  <2>7. last \in P
    BY <2>1, <2>2, <2>6
  <2>3. << NumericMoney(e.data, "UNKNOWN"), NumericMoney(e.content, "UNKNOWN"), LabeledMoney(e.text) >> \in Seq(P)
    BY <2>1, <2>2
  <2>4. (IF source = "digikala" THEN <<last>> ELSE <<>>) \in Seq(P)
    <3>1. <<last>> \in Seq(P) /\ <<>> \in Seq(P)
      BY <2>7
    <3>2. QED
      BY <3>1
  <2>5. QED
    BY <2>2, <2>3, <2>4, <2>6, ConcatProperties DEF ElementPrices
<1>5. /\ Len(elements) \in Nat /\ DOMAIN rows = 1 .. Len(elements)
      /\ \A i \in 1 .. Len(elements) : rows[i] \in Seq(Optional(Prices))
  <2>1. \A i \in 1 .. Len(elements) : elements[i] \in [data : RawNumbers, content : RawNumbers, text : PriceTexts]
    BY <1>3, SequencePositions
  <2>2. Len(elements) \in Nat /\ DOMAIN elements = 1 .. Len(elements)
    BY <1>3
  <2>3. QED
    BY <1>4, <2>1, <2>2
<1>6. PriceFromCard(source, card) =
        FirstKnown(Joined(rows) \o <<LabeledMoney(card.text), LastNumericMoney(card.text)>>)
  BY <1>2 DEF PriceFromCard
<1> HIDE DEF rows
<1>7. Joined(rows) \in Seq(Optional(Prices))
  BY <1>5, JoinedElements
<1>8. <<LabeledMoney(card.text), LastNumericMoney(card.text)>> \in Seq(Optional(Prices))
  <2>1. LabeledMoney(card.text) \in Optional(Prices) /\ LastNumericMoney(card.text) \in Optional(Prices)
    BY <1>3, TextMoneyTypes
  <2>2. QED
    BY <2>1
<1>9. Joined(rows) \o <<LabeledMoney(card.text), LastNumericMoney(card.text)>> \in Seq(Optional(Prices))
  BY <1>7, <1>8, ConcatProperties
<1>10. QED
  BY <1>6, <1>9, FirstKnownType

\* The title of a link, if it has one.
LEMMA AnchorTitleTypes ==
  ASSUME NEW anchor \in Anchors
  PROVE  /\ TorobAnchorTitle(anchor) \in Optional(Texts)
         /\ CardAnchorTitle(anchor) \in Optional(Texts)
<1>1. /\ anchor.aria \in Optional(Texts) /\ anchor.alt \in Optional(Texts)
      /\ anchor.heading \in Optional(Texts) /\ anchor.text \in Optional(Texts)
  BY DEF Anchors
<1>2. PICK V, s : V = Texts /\ s = <<anchor.aria, anchor.alt, anchor.text>>
  OBVIOUS
<1>3. s \in Seq(Optional(V))
  BY <1>1, <1>2
<1>4. FirstKnown(s) \in Optional(V)
  BY <1>3, FirstKnownType
<1>5. QED
  BY <1>1, <1>2, <1>4 DEF TorobAnchorTitle, CardAnchorTitle

\* What a link with a title and its card show.
LEMMA DomCandidateTypes ==
  ASSUME NEW anchor \in Anchors, BrandOf \in [DOMAIN BrandOf -> STRING],
         Multiplier \in [DOMAIN Multiplier -> Nat], NEW source \in ToSet(Marketplaces)
  PROVE  /\ TorobAnchorTitle(anchor) # None => TorobDomCandidate(anchor) \in Sightings
         /\ CardAnchorTitle(anchor) # None => CardDomCandidate(source, anchor) \in Sightings
<1>1. anchor.href \in Urls /\ anchor.card \in Cards
  BY DEF Anchors
<1>2. PICK url : url = CanonicalUrl(anchor.href)
  OBVIOUS
<1>3. url \in Urls /\ url.query = FALSE /\ "torob" \in ToSet(Marketplaces)
  BY <1>1, <1>2, CanonicalUrlType, MarketplaceNames
<1>4. TorobProductId(url) \in Optional(ProductKeys) /\ ProductId(source, url) \in Optional(ProductKeys)
  <2>1. ProductId("torob", url) = TorobProductId(url)
    BY DEF ProductId
  <2>2. QED
    BY <1>3, <2>1, ProductIdType
<1>5. anchor.card.text \in PriceTexts /\ anchor.card.seller \in Optional(STRING)
  BY <1>1 DEF Cards
<1>6. /\ TorobMoney(anchor.card.text) \in Optional(Prices)
      /\ PriceFromCard(source, anchor.card) \in Optional(Prices)
  BY <1>1, <1>5, TextMoneyTypes, PriceFromCardType
<1>7. TorobAnchorTitle(anchor) \in Optional(Texts) /\ CardAnchorTitle(anchor) \in Optional(Texts)
  BY AnchorTitleTypes
<1>8. TorobAnchorTitle(anchor) # None => TorobDomCandidate(anchor) \in Sightings
  <2>1. ProductId("torob", url) = TorobProductId(url)
    BY DEF ProductId
  <2>2. QED
    BY <1>2, <1>3, <1>4, <1>6, <1>7, <2>1 DEF TorobDomCandidate, Sightings, Stocks
<1>9. PICK said : said = Attributes(CardAnchorTitle(anchor))
  OBVIOUS
<1>10. CardAnchorTitle(anchor) # None =>
         /\ said.brand \in Optional(STRING) /\ said.model \in Texts
         /\ said.capacity \in Optional(STRING) /\ said.tokens \in Texts
  BY <1>7, <1>9, AttributesType
<1>11. PICK stock : stock = IF source = "divar" THEN "unknown" ELSE Availability(anchor.card.text.stock)
  OBVIOUS
<1>12. stock \in Stocks
  BY <1>11, AvailabilityType DEF Stocks
<1>13. CardDomCandidate(source, anchor) =
         [source |-> source, id |-> ProductId(source, url), title |-> said.tokens,
          url |-> url, price |-> PriceFromCard(source, anchor.card),
          seller |-> IF source = "divar" THEN None ELSE anchor.card.seller,
          availability |-> stock,
          brand |-> said.brand, model |-> said.model, capacity |-> said.capacity]
  BY <1>2, <1>9, <1>11 DEF CardDomCandidate
<1>14. CardAnchorTitle(anchor) # None => CardDomCandidate(source, anchor) \in Sightings
  BY <1>3, <1>4, <1>5, <1>6, <1>10, <1>12, <1>13 DEF Sightings
<1>15. QED
  BY <1>8, <1>14

-----------------------------------------------------------------------------
(* Search pages *)

\* Of what a page shows, the candidates of a marketplace.
LEMMA IdentifiedType ==
  ASSUME NEW source, NEW all \in Seq({c \in Sightings : c.source = source})
  PROVE  Only(all, Identified) \in Seq(CandidatesOf(source))
<1>1. PICK T : T = {i \in DOMAIN all : Identified(all[i])}
  OBVIOUS
<1>2. Only(all, Identified) = Chosen(all, T)
  BY <1>1 DEF Only
<1>3. T \subseteq Int /\ IsFiniteSet(T) /\ \A i \in T : all[i] \in {c \in Sightings : c.source = source}
  BY <1>1, SequencePositions
<1>4. \A i \in T : all[i] \in CandidatesOf(source)
  BY <1>1, <1>3, IdentifiedCandidate
<1>5. PICK V : V = CandidatesOf(source)
  OBVIOUS
<1>6. \A i \in T : all[i] \in V
  BY <1>4, <1>5
<1>7. Chosen(all, T) \in Seq(V)
  BY <1>3, <1>6, ChosenElements
<1>8. QED
  BY <1>2, <1>5, <1>7

\* Elements picked by position are elements.
LEMMA PricedIsCandidate ==
  ASSUME NEW V, NEW s \in Seq(V), NEW T, T \subseteq DOMAIN s,
         NEW pick \in [DOMAIN s -> DOMAIN s]
  PROVE  Chosen([i \in DOMAIN s |-> s[pick[i]]], T) \in Seq(V)
<1> DEFINE f == [i \in DOMAIN s |-> s[pick[i]]]
<1>1. T \subseteq Int /\ IsFiniteSet(T)
  BY SequencePositions
<1>2. \A i \in T : f[i] \in V
  OBVIOUS
<1> HIDE DEF f
<1>3. Chosen(f, T) \in Seq(V)
  BY <1>1, <1>2, ChosenElements
<1>4. QED
  BY <1>3 DEF f

\* Torob's unique candidates are some of its candidates.
LEMMA TorobUniqueType ==
  ASSUME NEW V, NEW candidates \in Seq(V)
  PROVE  TorobUnique(candidates) \in Seq(V)
<1> DEFINE same(i) == {j \in DOMAIN candidates : candidates[j].id = candidates[i].id}
           priced(i) == {j \in same(i) : candidates[j].price # None}
           pick == [i \in DOMAIN candidates |-> IF priced(i) = {} THEN i ELSE Min(priced(i))]
           T == {i \in DOMAIN candidates : \A j \in same(i) : i <= j}
<1>1. DOMAIN candidates \subseteq Nat
  OBVIOUS
<1>2. ASSUME NEW i \in DOMAIN candidates PROVE pick[i] \in DOMAIN candidates
  <2>1. PICK P : P = priced(i)
    OBVIOUS
  <2>2. P \subseteq DOMAIN candidates /\ pick[i] = IF P = {} THEN i ELSE Min(P)
    BY <2>1
  <2> HIDE DEF pick
  <2>3. P # {} => Min(P) \in P
    BY <1>1, <2>2, MinOfNumbers
  <2>4. QED
    BY <2>2, <2>3
<1>3. pick \in [DOMAIN candidates -> DOMAIN candidates]
  BY <1>2
<1>4. TorobUnique(candidates) = Chosen([i \in DOMAIN candidates |-> candidates[pick[i]]], T)
  <2>1. [i \in DOMAIN candidates |-> candidates[pick[i]]] =
          [i \in DOMAIN candidates |-> candidates[IF priced(i) = {} THEN i ELSE Min(priced(i))]]
    OBVIOUS
  <2>2. QED
    BY <2>1 DEF TorobUnique
<1>5. T \subseteq DOMAIN candidates
  OBVIOUS
<1> HIDE DEF pick, T
<1>6. QED
  BY <1>3, <1>4, <1>5, PricedIsCandidate

\* The items that have a name and a URL.
LEMMA ShownItems ==
  ASSUME NEW source, NEW page, page.schema \in Seq(SchemaObjects)
  PROVE  NamedItems(source, page)
           \in Seq({item \in SchemaItems : item.name # None /\ item.url # None})
<1>1. PICK items : items = Items(source, page)
  OBVIOUS
<1>2. items \in Seq(SchemaItems)
  BY <1>1, ItemsType
<1>3. PICK T : T = {i \in DOMAIN items : items[i].name # None /\ items[i].url # None}
  OBVIOUS
<1>4. NamedItems(source, page) = Chosen(items, T)
  BY <1>1, <1>3 DEF NamedItems, Only
<1>5. T \subseteq Int /\ IsFiniteSet(T)
      /\ \A i \in T : items[i] \in SchemaItems /\ items[i].name # None /\ items[i].url # None
  BY <1>2, <1>3, SequencePositions
<1>6. PICK V : V = {item \in SchemaItems : item.name # None /\ item.url # None}
  OBVIOUS
<1>7. \A i \in T : items[i] \in V
  BY <1>5, <1>6
<1>8. Chosen(items, T) \in Seq(V)
  BY <1>5, <1>7, ChosenElements
<1>9. QED
  BY <1>4, <1>6, <1>8

\* The links that have a title.
LEMMA ShownLinks ==
  ASSUME NEW anchors \in Seq(Anchors)
  PROVE  /\ Only(anchors, LAMBDA a : TorobAnchorTitle(a) # None)
              \in Seq({a \in Anchors : TorobAnchorTitle(a) # None})
         /\ Only(anchors, LAMBDA a : CardAnchorTitle(a) # None)
              \in Seq({a \in Anchors : CardAnchorTitle(a) # None})
<1>1. PICK T, U : /\ T = {i \in DOMAIN anchors : TorobAnchorTitle(anchors[i]) # None}
                  /\ U = {i \in DOMAIN anchors : CardAnchorTitle(anchors[i]) # None}
  OBVIOUS
<1>2. /\ Only(anchors, LAMBDA a : TorobAnchorTitle(a) # None) = Chosen(anchors, T)
      /\ Only(anchors, LAMBDA a : CardAnchorTitle(a) # None) = Chosen(anchors, U)
  BY <1>1 DEF Only
<1>3. /\ T \subseteq Int /\ IsFiniteSet(T)
      /\ \A i \in T : anchors[i] \in Anchors /\ TorobAnchorTitle(anchors[i]) # None
      /\ U \subseteq Int /\ IsFiniteSet(U)
      /\ \A i \in U : anchors[i] \in Anchors /\ CardAnchorTitle(anchors[i]) # None
  BY <1>1, SequencePositions
<1>4. PICK V, W : /\ V = {a \in Anchors : TorobAnchorTitle(a) # None}
                  /\ W = {a \in Anchors : CardAnchorTitle(a) # None}
  OBVIOUS
<1>5. (\A i \in T : anchors[i] \in V) /\ (\A i \in U : anchors[i] \in W)
  BY <1>3, <1>4
<1>6. Chosen(anchors, T) \in Seq(V) /\ Chosen(anchors, U) \in Seq(W)
  BY <1>3, <1>5, ChosenElements
<1>7. QED
  BY <1>2, <1>4, <1>6

\* What a search page of Torob shows, before repeated ids are taken out.
LEMMA TorobSearchType ==
  ASSUME NEW page \in SearchDocuments,
         BrandOf \in [DOMAIN BrandOf -> STRING], Multiplier \in [DOMAIN Multiplier -> Nat]
  PROVE  TorobSearch(page) \in Seq(CandidatesOf("torob"))
<1> DEFINE found == {c \in Sightings : c.source = "torob"}
<1>1. page.schema \in Seq(SchemaObjects) /\ page.anchors \in Seq(Anchors)
  BY DEF SearchDocuments
<1>2. "torob" \in ToSet(Marketplaces)
  BY MarketplaceNames
<1>3. PICK items : items = NamedItems("torob", page)
  OBVIOUS
<1>4. PICK links : links = Only(page.anchors, LAMBDA a : TorobAnchorTitle(a) # None)
  OBVIOUS
<1>5. items \in Seq({item \in SchemaItems : item.name # None /\ item.url # None})
  BY <1>1, <1>3, ShownItems
<1>6. links \in Seq({a \in Anchors : TorobAnchorTitle(a) # None})
  BY <1>1, <1>4, ShownLinks
<1>7. /\ Len(items) \in Nat /\ DOMAIN items = 1 .. Len(items)
      /\ \A i \in 1 .. Len(items) : items[i] \in SchemaItems /\ items[i].name # None /\ items[i].url # None
  BY <1>5, SequencePositions
<1>8. /\ Len(links) \in Nat /\ DOMAIN links = 1 .. Len(links)
      /\ \A i \in 1 .. Len(links) : links[i] \in Anchors /\ TorobAnchorTitle(links[i]) # None
  BY <1>6, SequencePositions
<1>9. [i \in DOMAIN items |-> TorobSchemaCandidate(items[i])] \in Seq(found)
  <2>1. \A i \in 1 .. Len(items) : TorobSchemaCandidate(items[i]) \in Sightings
    BY <1>2, <1>7, SchemaCandidateTypes
  <2>2. \A i \in 1 .. Len(items) : TorobSchemaCandidate(items[i]) \in found
    BY <2>1 DEF TorobSchemaCandidate
  <2>3. QED
    BY <1>7, <2>2, IsASeq
<1>10. [i \in DOMAIN links |-> TorobDomCandidate(links[i])] \in Seq(found)
  <2>1. \A i \in 1 .. Len(links) : TorobDomCandidate(links[i]) \in Sightings
    BY <1>2, <1>8, DomCandidateTypes
  <2>2. \A i \in 1 .. Len(links) : TorobDomCandidate(links[i]) \in found
    BY <2>1 DEF TorobDomCandidate
  <2>3. QED
    BY <1>8, <2>2, IsASeq
<1>11. PICK all : all = [i \in DOMAIN items |-> TorobSchemaCandidate(items[i])]
                        \o [i \in DOMAIN links |-> TorobDomCandidate(links[i])]
  OBVIOUS
<1>12. all \in Seq(found)
  <2> HIDE DEF found
  <2> QED BY <1>9, <1>10, <1>11, ConcatProperties
<1>13. TorobSearch(page) = TorobUnique(Only(all, Identified))
  BY <1>3, <1>4, <1>11 DEF TorobSearch
<1>14. QED
  BY <1>12, <1>13, IdentifiedType, TorobUniqueType

\* What a search page of another marketplace shows.
LEMMA CardSearchType ==
  ASSUME NEW source \in ToSet(Marketplaces), NEW page \in SearchDocuments,
         BrandOf \in [DOMAIN BrandOf -> STRING], Multiplier \in [DOMAIN Multiplier -> Nat]
  PROVE  CardSearch(source, page) \in Seq(CandidatesOf(source))
<1> DEFINE found == {c \in Sightings : c.source = source}
<1>1. page.schema \in Seq(SchemaObjects) /\ page.anchors \in Seq(Anchors)
  BY DEF SearchDocuments
<1>2. CardItems(source, page) \in Seq(CandidatesOf(source))
  <2>1. PICK items : items = NamedItems(source, page)
    OBVIOUS
  <2>2. items \in Seq({item \in SchemaItems : item.name # None /\ item.url # None})
    BY <1>1, <2>1, ShownItems
  <2>3. /\ Len(items) \in Nat /\ DOMAIN items = 1 .. Len(items)
        /\ \A i \in 1 .. Len(items) :
             items[i] \in SchemaItems /\ items[i].name # None /\ items[i].url # None
    BY <2>2, SequencePositions
  <2>4. PICK all : all = [i \in DOMAIN items |-> CardSchemaCandidate(source, items[i])]
    OBVIOUS
  <2>5. all \in Seq(found)
    <3>1. \A i \in 1 .. Len(items) : CardSchemaCandidate(source, items[i]) \in Sightings
      BY <2>3, SchemaCandidateTypes
    <3>2. \A i \in 1 .. Len(items) : CardSchemaCandidate(source, items[i]) \in found
      BY <3>1 DEF CardSchemaCandidate
    <3>3. QED
      BY <2>3, <2>4, <3>2, IsASeq
  <2>6. CardItems(source, page) = Only(all, Identified)
    BY <2>1, <2>4 DEF CardItems
  <2>7. QED
    BY <2>5, <2>6, IdentifiedType
<1>3. CardLinks(source, page) \in Seq(CandidatesOf(source))
  <2>1. PICK links : links = Only(page.anchors, LAMBDA a : CardAnchorTitle(a) # None)
    OBVIOUS
  <2>2. links \in Seq({a \in Anchors : CardAnchorTitle(a) # None})
    BY <1>1, <2>1, ShownLinks
  <2>3. /\ Len(links) \in Nat /\ DOMAIN links = 1 .. Len(links)
        /\ \A i \in 1 .. Len(links) : links[i] \in Anchors /\ CardAnchorTitle(links[i]) # None
    BY <2>2, SequencePositions
  <2>4. PICK all : all = [i \in DOMAIN links |-> CardDomCandidate(source, links[i])]
    OBVIOUS
  <2>5. all \in Seq(found)
    <3>1. \A i \in 1 .. Len(links) : CardDomCandidate(source, links[i]) \in Sightings
      BY <2>3, DomCandidateTypes
    <3>2. \A i \in 1 .. Len(links) : CardDomCandidate(source, links[i]) \in found
      BY <3>1 DEF CardDomCandidate
    <3>3. QED
      BY <2>3, <2>4, <3>2, IsASeq
  <2>6. CardLinks(source, page) = Only(all, Identified)
    BY <2>1, <2>4 DEF CardLinks
  <2>7. QED
    BY <2>5, <2>6, IdentifiedType
<1>4. PICK V, a, b : V = CandidatesOf(source) /\ a = CardItems(source, page) /\ b = CardLinks(source, page)
  OBVIOUS
<1>5. a \o b \in Seq(V)
  BY <1>2, <1>3, <1>4, ConcatProperties
<1>6. PICK known : known = a \o b
  OBVIOUS
<1>7. CardSearch(source, page) = FirstWins(known, LAMBDA c : c.id)
  BY <1>4, <1>6 DEF CardSearch
<1>8. known \in Seq(CandidatesOf(source))
  BY <1>4, <1>5, <1>6
<1>9. QED
  BY <1>7, <1>8, FirstOfEachId

\* A search page shows candidates of its marketplace, whatever it contains:
\* each has an id and a title, and the id its URL states if it states one.
LEMMA SearchCandidatesType ==
  ASSUME NEW source \in ToSet(Marketplaces), NEW page \in SearchDocuments,
         BrandOf \in [DOMAIN BrandOf -> STRING], Multiplier \in [DOMAIN Multiplier -> Nat]
  PROVE  SearchCandidates(source, page) \in Seq(CandidatesOf(source))
BY TorobSearchType, CardSearchType DEF SearchCandidates

-----------------------------------------------------------------------------
(* Product pages *)

\* What the page of a product of a marketplace states.
DetailOf(source, url) ==
  {o \in OfferSet : /\ o.source = source /\ o.url = url
                    /\ o.id = [source |-> source, stage |-> "detail", key |-> o.key]}

\* Title, id and offers of a product page; its id is that of its URL if the
\* URL states one.
LEMMA PageParts ==
  ASSUME NEW source \in ToSet(Marketplaces), NEW page \in ProductDocuments, NEW url \in Urls
  PROVE  /\ PageTitle(page) \in Optional(Texts)
         /\ PageId(source, page, url) \in ProductKeys
         /\ ProductId(source, url) # None => PageId(source, page, url) = ProductId(source, url)
         /\ PageOffers(page) \in OfferParts
<1>1. page.schema \in Seq(SchemaObjects) /\ page.heading \in Optional(Texts)
  BY DEF ProductDocuments
<1>2. PICK product : product = ProductSchema(page)
  OBVIOUS
<1>3. product \in Optional(SchemaItems)
  BY <1>1, <1>2, ProductSchemaType
<1>4. product # None => /\ product.name \in Optional(Texts) /\ product.sku \in Optional(ProductKeys)
                        /\ product.offers \in OfferParts
  BY <1>3 DEF SchemaItems
<1>5. PageTitle(page) \in Optional(Texts)
  BY <1>1, <1>2, <1>4 DEF PageTitle, Optional
<1>6. PageOffers(page) \in OfferParts
  BY <1>2, <1>4 DEF PageOffers, OfferParts
<1>7. /\ PageId(source, page, url) \in ProductKeys
      /\ ProductId(source, url) # None => PageId(source, page, url) = ProductId(source, url)
  <2>1. PICK own : own = ProductId(source, url)
    OBVIOUS
  <2>2. PICK sku : sku = IF product = None THEN None ELSE product.sku
    OBVIOUS
  <2>3. own \in Optional(ProductKeys) /\ sku \in Optional(ProductKeys) /\ UnknownId \in ProductKeys
    BY <1>4, <2>1, <2>2, ProductIdType DEF UnknownId
  <2>4. PageId(source, page, url) = FirstKnown(<<own, sku, UnknownId>>)
    BY <1>2, <2>1, <2>2 DEF PageId
  <2>5. PICK s : s = <<own, sku, UnknownId>>
    OBVIOUS
  <2>6. s \in Seq(Optional(ProductKeys)) /\ Len(s) = 3 /\ s[1] = own /\ s[3] = UnknownId /\ s # <<>>
    BY <2>3, <2>5
  <2>7. \/ FirstKnown(s) = None /\ \A i \in DOMAIN s : s[i] = None
        \/ FirstKnown(s) \in ProductKeys
    BY <2>6, FirstKnownIsFirst
  <2>8. own # None => FirstKnown(s) = own
    BY <2>6, KnownFirst
  <2>9. QED
    BY <2>1, <2>3, <2>4, <2>5, <2>6, <2>7, <2>8
<1>8. QED
  BY <1>5, <1>6, <1>7

\* An offer made of a page with a title is an offer of the product.
LEMMA MakeOfferType ==
  ASSUME NEW source \in ToSet(Marketplaces), NEW key \in ProductKeys, NEW page \in ProductDocuments,
         PageTitle(page) \notin {None, {}}, NEW url \in Urls, NEW price \in Optional(Prices),
         NEW seller \in Optional(STRING), NEW availability \in Stocks,
         BrandOf \in [DOMAIN BrandOf -> STRING]
  PROVE  /\ MakeOffer(source, key, page, url, price, seller, availability) \in DetailOf(source, url)
         /\ MakeOffer(source, key, page, url, price, seller, availability).key = key
         /\ MakeOffer(source, key, page, url, price, seller, availability).price = price
<1>1. PageTitle(page) \in Texts /\ page.schema \in Seq(SchemaObjects)
  BY PageParts DEF ProductDocuments, Optional
<1>2. PICK said : said = Attributes(PageTitle(page))
  OBVIOUS
<1>3. /\ said.tokens = PageTitle(page) /\ said.brand \in Optional(STRING)
      /\ said.capacity \in Optional(STRING) /\ said.model \in Texts
  BY <1>1, <1>2, AttributesType
<1>4. PICK brand : brand = IF ProductSchema(page) = None THEN None ELSE ProductSchema(page).brand
  OBVIOUS
<1>5. brand \in Optional(STRING)
  <2>1. ProductSchema(page) \in Optional(SchemaItems)
    BY <1>1, ProductSchemaType
  <2>2. QED
    BY <1>4, <2>1 DEF SchemaItems
<1>6. FirstKnown(<<brand, said.brand>>) \in Optional(STRING)
  BY <1>3, <1>5, FirstOfTwo
<1>7. PICK o : o = MakeOffer(source, key, page, url, price, seller, availability)
  OBVIOUS
<1>8. o = [id |-> [source |-> source, stage |-> "detail", key |-> key], source |-> source,
           key |-> key, title |-> said.tokens, price |-> price, seller |-> seller, url |-> url,
           availability |-> availability, brand |-> FirstKnown(<<brand, said.brand>>),
           model |-> said.model, capacity |-> said.capacity, details |-> TRUE]
  BY <1>2, <1>4, <1>7 DEF MakeOffer
<1>9. o.id \in OfferIds
  BY <1>8 DEF OfferIds
<1>10. o \in OfferSet
  BY <1>1, <1>3, <1>6, <1>8, <1>9 DEF OfferSet
<1>11. QED
  BY <1>7, <1>8, <1>10 DEF DetailOf

\* The offers with a price are offers.
LEMMA PricedOffers ==
  ASSUME NEW V, NEW s \in Seq(V)
  PROVE  Only(s, LAMBDA o : o.price # None) \in Seq(V)
<1>1. PICK T : T = {i \in DOMAIN s : s[i].price # None}
  OBVIOUS
<1>2. T \subseteq Int /\ IsFiniteSet(T) /\ \A i \in T : s[i] \in V
  BY <1>1, SequencePositions
<1>3. Chosen(s, T) \in Seq(V)
  BY <1>2, ChosenElements
<1>4. QED
  BY <1>1, <1>3 DEF Only

\* The offers of the shops a page of Torob links to.
LEMMA TorobSellerOffersType ==
  ASSUME NEW page \in ProductDocuments, PageTitle(page) \notin {None, {}}, NEW url \in Urls,
         BrandOf \in [DOMAIN BrandOf -> STRING], Multiplier \in [DOMAIN Multiplier -> Nat]
  PROVE  TorobSellerOffers(page, url) \in Seq(DetailOf("torob", url))
<1> DEFINE offer(i) == MakeOffer("torob", RedirectId(page.sellers[i], i), page, url,
                                 TorobMoney(page.sellers[i].text), page.sellers[i].shop,
                                 Availability(page.sellers[i].text.stock))
<1>1. page.sellers \in Seq(ShopLinks)
  BY DEF ProductDocuments
<1>2. Len(page.sellers) \in Nat /\ DOMAIN page.sellers = 1 .. Len(page.sellers)
      /\ \A i \in 1 .. Len(page.sellers) : page.sellers[i] \in ShopLinks
  BY <1>1, SequencePositions
<1>3. ASSUME NEW i \in 1 .. Len(page.sellers) PROVE offer(i) \in DetailOf("torob", url)
  <2>1. PICK link : link = page.sellers[i]
    OBVIOUS
  <2>2. /\ link.prk \in Optional(ProductKeys) /\ link.hash \in ProductKeys
        /\ link.shop \in Optional(STRING) /\ link.text \in PriceTexts
    BY <1>2, <2>1 DEF ShopLinks
  <2>3. RedirectId(link, i) \in ProductKeys
    BY <1>2, <2>2, AppendProperties DEF RedirectId
  <2>4. TorobMoney(link.text) \in Optional(Prices) /\ Availability(link.text.stock) \in Stocks
    BY <2>2, TextMoneyTypes, AvailabilityType
  <2>5. "torob" \in ToSet(Marketplaces)
    BY MarketplaceNames
  <2>6. PICK key, price, stock : /\ key = RedirectId(link, i) /\ price = TorobMoney(link.text)
                                 /\ stock = Availability(link.text.stock)
    OBVIOUS
  <2>7. MakeOffer("torob", key, page, url, price, link.shop, stock) \in DetailOf("torob", url)
    BY <2>2, <2>3, <2>4, <2>5, <2>6, MakeOfferType
  <2>8. QED
    BY <2>1, <2>6, <2>7
<1>4. PICK all : all = [i \in DOMAIN page.sellers |-> offer(i)]
  OBVIOUS
<1>5. PICK V : V = DetailOf("torob", url)
  OBVIOUS
<1>6. TorobSellerOffers(page, url) =
        FirstWins(Only(all, LAMBDA o : o.price # None), LAMBDA o : o.key)
  BY <1>4 DEF TorobSellerOffers
<1> HIDE DEF offer
<1>7. all \in Seq(V)
  BY <1>2, <1>3, <1>4, <1>5, IsASeq
<1>8. PICK priced : priced = Only(all, LAMBDA o : o.price # None)
  OBVIOUS
<1>9. priced \in Seq(V)
  BY <1>7, <1>8, PricedOffers
<1>10. FirstWins(priced, LAMBDA o : o.key) \in Seq(V)
  <2>1. PICK T : T = {i \in DOMAIN priced : \A j \in DOMAIN priced : j < i => priced[j].key # priced[i].key}
    OBVIOUS
  <2>2. T \subseteq Int /\ IsFiniteSet(T) /\ \A i \in T : priced[i] \in V
    BY <1>9, <2>1, SequencePositions
  <2>3. Chosen(priced, T) \in Seq(V)
    BY <2>2, ChosenElements
  <2>4. QED
    BY <2>1, <2>3 DEF FirstWins
<1>11. QED
  BY <1>5, <1>6, <1>8, <1>10

\* The offers of its JSON-LD product, or its lowest price.
LEMMA TorobSchemaOffersType ==
  ASSUME NEW page \in ProductDocuments, PageTitle(page) \notin {None, {}}, NEW url \in Urls,
         BrandOf \in [DOMAIN BrandOf -> STRING]
  PROVE  TorobSchemaOffers(page, url) \in Seq(DetailOf("torob", url))
<1>1. PICK offers : offers = PageOffers(page)
  OBVIOUS
<1>2. PICK productId : productId = PageId("torob", page, url)
  OBVIOUS
<1>3. "torob" \in ToSet(Marketplaces) /\ "IRR" \in ToSet(Currencies)
  BY MarketplaceNames, CurrencyNames
<1>4. offers \in OfferParts /\ productId \in ProductKeys
  BY <1>1, <1>2, <1>3, PageParts
<1>5. PICK records : records = IF offers.form = "offer" THEN <<offers.self>> ELSE offers.records
  OBVIOUS
<1>6. records \in Seq(SchemaOffers) /\ offers.self \in Optional(SchemaOffers)
  <2>1. CASE offers.form = "offer"
    <3>1. offers.self \in SchemaOffers
      BY <1>4, <2>1 DEF OfferParts
    <3>2. QED
      BY <1>5, <2>1, <3>1
  <2>2. CASE offers.form # "offer"
    <3>1. offers.records \in Seq(SchemaOffers) /\ offers.self \in Optional(SchemaOffers)
      <4>1. <<>> \in Seq(SchemaOffers)
        OBVIOUS
      <4>2. QED
        BY <1>4, <4>1 DEF OfferParts
    <3>2. QED
      BY <1>5, <2>2, <3>1
  <2>3. QED
    BY <2>1, <2>2
<1>7. /\ Len(records) \in Nat /\ DOMAIN records = 1 .. Len(records)
      /\ \A i \in 1 .. Len(records) : records[i] \in SchemaOffers
  BY <1>6, SequencePositions
<1> DEFINE key(i) == IF records[i].sku # None THEN records[i].sku ELSE productId \o <<1, i>>
           offer(i) == MakeOffer("torob", key(i), page, url, SchemaPrice(records[i], "IRR"),
                                 records[i].seller, Availability(records[i].stock))
<1>8. ASSUME NEW i \in 1 .. Len(records) PROVE offer(i) \in DetailOf("torob", url)
  <2>1. PICK record : record = records[i]
    OBVIOUS
  <2>2. record \in SchemaOffers /\ record.sku \in Optional(ProductKeys) /\ record.seller \in Optional(STRING)
    BY <1>7, <2>1 DEF SchemaOffers
  <2>3. SchemaPrice(record, "IRR") \in Optional(Prices) /\ Availability(record.stock) \in Stocks
    BY <1>3, <2>2, SchemaOfferTypes, AvailabilityType
  <2>4. productId \o <<1, i>> \in ProductKeys
    <3>1. <<1, i>> \in Seq(Nat)
      BY <1>7
    <3>2. QED
      BY <1>4, <3>1, ConcatProperties
  <2>5. PICK k, price, stock : /\ k = key(i) /\ price = SchemaPrice(record, "IRR")
                               /\ stock = Availability(record.stock)
    OBVIOUS
  <2>6. k \in ProductKeys
    BY <2>1, <2>2, <2>4, <2>5
  <2>7. MakeOffer("torob", k, page, url, price, record.seller, stock) \in DetailOf("torob", url)
    BY <1>3, <2>2, <2>3, <2>5, <2>6, MakeOfferType
  <2>8. QED
    BY <2>1, <2>5, <2>7
<1>9. PICK V : V = DetailOf("torob", url)
  OBVIOUS
<1>10. PICK all : all = [i \in DOMAIN records |-> offer(i)]
  OBVIOUS
<1>11. PICK lowest : lowest = IF offers.self = None THEN None
                              ELSE NumericMoney(offers.self.low, CurrencyFromLabel(offers.self.label, "IRR"))
  OBVIOUS
<1>12. lowest \in Optional(Prices)
  <2>1. ASSUME offers.self # None PROVE lowest \in Optional(Prices)
    <3>1. offers.self.low \in RawNumbers
      BY <1>6, <2>1 DEF SchemaOffers
    <3>2. QED
      BY <1>3, <1>11, <2>1, <3>1, LabelType, NumericMoneyType
  <2>2. QED
    BY <1>11, <2>1
<1>13. MakeOffer("torob", productId \o <<2>>, page, url, lowest, None, "unknown") \in V
  <2>1. productId \o <<2>> \in ProductKeys
    <3>1. <<2>> \in Seq(Nat)
      OBVIOUS
    <3>2. QED
      BY <1>4, <3>1, ConcatProperties
  <2>2. PICK k : k = productId \o <<2>>
    OBVIOUS
  <2>3. None \in Optional(STRING) /\ "unknown" \in Stocks
    BY DEF Stocks
  <2>4. QED
    BY <1>3, <1>9, <1>12, <2>1, <2>2, <2>3, MakeOfferType
<1>14. PICK priced : priced = Only(all, LAMBDA o : o.price # None)
  OBVIOUS
<1>15. TorobSchemaOffers(page, url) =
         IF priced # <<>> THEN priced
         ELSE IF lowest = None THEN <<>>
         ELSE <<MakeOffer("torob", productId \o <<2>>, page, url, lowest, None, "unknown")>>
  BY <1>1, <1>2, <1>5, <1>10, <1>11, <1>14 DEF TorobSchemaOffers
<1> HIDE DEF offer
<1>16. all \in Seq(V)
  BY <1>7, <1>8, <1>9, <1>10, IsASeq
<1>17. priced \in Seq(V)
  BY <1>14, <1>16, PricedOffers
<1>18. PICK last : last = MakeOffer("torob", productId \o <<2>>, page, url, lowest, None, "unknown")
  OBVIOUS
<1>19. <<last>> \in Seq(V) /\ <<>> \in Seq(V)
  BY <1>13, <1>18
<1>20. QED
  BY <1>9, <1>15, <1>17, <1>18, <1>19

\* The offer of a page of the other marketplaces has the id of the page.
LEMMA CardProductType ==
  ASSUME NEW source \in ToSet(Marketplaces), NEW page \in ProductDocuments, PageTitle(page) # {},
         NEW url \in Urls,
         BrandOf \in [DOMAIN BrandOf -> STRING], Multiplier \in [DOMAIN Multiplier -> Nat]
  PROVE  /\ CardProduct(source, page, url) \in Seq(DetailOf(source, url))
         /\ \A o \in ToSet(CardProduct(source, page, url)) : o.key = PageId(source, page, url)
<1>1. PICK offer : offer = FirstSchemaOffer(PageOffers(page))
  OBVIOUS
<1>2. "UNKNOWN" \in ToSet(Currencies)
  BY CurrencyNames
<1>3. offer \in Optional(SchemaOffers)
  BY <1>1, PageParts, FirstSchemaOfferType
<1>4. SchemaPrice(offer, "UNKNOWN") \in Optional(Prices) /\ SchemaSeller(offer) \in Optional(STRING)
  BY <1>2, <1>3, SchemaOfferTypes
<1>5. page.card \in Cards /\ page.card.seller \in Optional(STRING)
  BY DEF ProductDocuments, Cards
<1>6. PriceFromCard(source, page.card) \in Optional(Prices)
  BY <1>5, PriceFromCardType
<1>7. PICK price : price = FirstKnown(<<SchemaPrice(offer, "UNKNOWN"), PriceFromCard(source, page.card)>>)
  OBVIOUS
<1>8. price \in Optional(Prices)
  BY <1>4, <1>6, <1>7, FirstOfTwo
<1>9. PICK shown : shown = IF source = "divar" THEN None ELSE page.card.seller
  OBVIOUS
<1>10. PICK seller : seller = FirstKnown(<<SchemaSeller(offer), shown>>)
  OBVIOUS
<1>11. seller \in Optional(STRING)
  BY <1>4, <1>5, <1>9, <1>10, FirstOfTwo
<1>12. PICK stock : stock = Availability(IF SchemaStock(offer) # {} THEN SchemaStock(offer)
                                         ELSE page.card.text.stock)
  OBVIOUS
<1>13. stock \in Stocks
  BY <1>12, AvailabilityType
<1>14. PICK key : key = PageId(source, page, url)
  OBVIOUS
<1>15. key \in ProductKeys
  BY <1>14, PageParts
<1>16. CardProduct(source, page, url) =
         IF PageTitle(page) = None \/ price = None THEN <<>>
         ELSE <<MakeOffer(source, key, page, url, price, seller, stock)>>
  BY <1>1, <1>7, <1>9, <1>10, <1>12, <1>14 DEF CardProduct
<1>17. PICK o : o = MakeOffer(source, key, page, url, price, seller, stock)
  OBVIOUS
<1>18. ASSUME PageTitle(page) # None PROVE o \in DetailOf(source, url) /\ o.key = key
  <2>1. o \in DetailOf(source, url)
    BY <1>8, <1>11, <1>13, <1>15, <1>17, <1>18, MakeOfferType
  <2>2. o.key = key
    BY <1>17 DEF MakeOffer
  <2>3. QED
    BY <2>1, <2>2
<1>19. PageTitle(page) # None => <<o>> \in Seq(DetailOf(source, url))
  BY <1>18
<1>20. <<>> \in Seq(DetailOf(source, url)) /\ ToSet(<<>>) = {} /\ ToSet(<<o>>) = {o}
  BY DEF ToSet
<1>21. QED
  BY <1>14, <1>16, <1>17, <1>18, <1>19, <1>20

\* A product page that can be read states offers of its product: with a title
\* that has words and, if any, a price of at least zero.
LEMMA ProductOffersType ==
  ASSUME NEW source \in ToSet(Marketplaces), NEW page \in ProductDocuments, PageTitle(page) # {},
         NEW url \in Urls,
         BrandOf \in [DOMAIN BrandOf -> STRING], Multiplier \in [DOMAIN Multiplier -> Nat]
  PROVE  ProductOffers(source, page, url) \in Seq(DetailOf(source, url))
<1>1. TorobProduct(page, url) \in Seq(DetailOf("torob", url))
  <2>1. <<>> \in Seq(DetailOf("torob", url))
    OBVIOUS
  <2>2. QED
    BY <2>1, TorobSellerOffersType, TorobSchemaOffersType DEF TorobProduct
<1>2. CardProduct(source, page, url) \in Seq(DetailOf(source, url))
  BY CardProductType
<1>3. QED
  BY <1>1, <1>2 DEF ProductOffers

-----------------------------------------------------------------------------
(* The order of ids *)

\* Two sequences agree up to a position.
LEMMA SamePrefix ==
  ASSUME NEW a \in Seq(Nat), NEW b \in Seq(Nat), NEW n \in Nat, n <= Len(a), n <= Len(b)
  PROVE  SubSeq(a, 1, n) = SubSeq(b, 1, n) <=> \A i \in 1 .. n : a[i] = b[i]
<1>1. PICK p, q : p = SubSeq(a, 1, n) /\ q = SubSeq(b, 1, n)
  OBVIOUS
<1>2. /\ p \in Seq(Nat) /\ Len(p) = n /\ \A i \in 1 .. n : p[i] = a[i]
      /\ q \in Seq(Nat) /\ Len(q) = n /\ \A i \in 1 .. n : q[i] = b[i]
  BY <1>1, SubSeqProperties
<1>3. p = q <=> \A i \in 1 .. n : p[i] = q[i]
  BY <1>2, SeqEqual
<1>4. QED
  BY <1>1, <1>2, <1>3

\* b is greater than a at the first position where they differ.
Differs(a, b, n) ==
  /\ n \in Nat /\ n <= Len(a) /\ n < Len(b)
  /\ \A i \in 1 .. n : a[i] = b[i]
  /\ n = Len(a) \/ (n < Len(a) /\ a[n + 1] < b[n + 1])

\* The lexicographic order, by the position where two keys differ.
LEMMA KeyBeforeDiffers ==
  ASSUME NEW a \in Seq(Nat), NEW b \in Seq(Nat)
  PROVE  KeyBefore(a, b) <=> \E n \in Nat : Differs(a, b, n)
<1>1. Len(a) \in Nat /\ Len(b) \in Nat
  OBVIOUS
<1>2. ASSUME KeyBefore(a, b) PROVE \E n \in Nat : Differs(a, b, n)
  <2>1. PICK n \in 0 .. Len(a) :
          /\ n < Len(b) /\ SubSeq(a, 1, n) = SubSeq(b, 1, n)
          /\ n = Len(a) \/ (n < Len(a) /\ a[n + 1] < b[n + 1])
    BY <1>2 DEF KeyBefore
  <2>2. n \in Nat /\ n <= Len(a) /\ n <= Len(b)
    BY <1>1, <2>1
  <2>3. \A i \in 1 .. n : a[i] = b[i]
    BY <2>1, <2>2, SamePrefix
  <2>4. QED
    BY <2>1, <2>2, <2>3 DEF Differs
<1>3. ASSUME NEW n \in Nat, Differs(a, b, n) PROVE KeyBefore(a, b)
  <2>1. n <= Len(a) /\ n < Len(b) /\ n <= Len(b) /\ n \in 0 .. Len(a)
    BY <1>1, <1>3 DEF Differs
  <2>2. SubSeq(a, 1, n) = SubSeq(b, 1, n)
    BY <1>3, <2>1, SamePrefix DEF Differs
  <2>3. QED
    BY <1>3, <2>1, <2>2 DEF Differs, KeyBefore
<1>4. QED
  BY <1>2, <1>3

\* The order of keys is strict and total.
LEMMA KeyOrder ==
  ASSUME NEW a \in Seq(Nat), NEW b \in Seq(Nat), NEW c \in Seq(Nat)
  PROVE  /\ ~KeyBefore(a, a)
         /\ KeyBefore(a, b) /\ KeyBefore(b, c) => KeyBefore(a, c)
         /\ a # b => KeyBefore(a, b) \/ KeyBefore(b, a)
<1>1. /\ Len(a) \in Nat /\ Len(b) \in Nat /\ Len(c) \in Nat
      /\ \A i \in 1 .. Len(a) : a[i] \in Nat
      /\ \A i \in 1 .. Len(b) : b[i] \in Nat
      /\ \A i \in 1 .. Len(c) : c[i] \in Nat
  OBVIOUS
<1>2. ASSUME KeyBefore(a, a) PROVE FALSE
  <2>1. PICK n \in Nat : Differs(a, a, n)
    BY <1>2, KeyBeforeDiffers
  <2>2. n < Len(a) /\ a[n + 1] < a[n + 1] /\ n + 1 \in 1 .. Len(a)
    BY <1>1, <2>1 DEF Differs
  <2>3. a[n + 1] \in Nat
    BY <1>1, <2>2
  <2>4. QED
    BY <2>2, <2>3
<1>3. ASSUME KeyBefore(a, b), KeyBefore(b, c) PROVE KeyBefore(a, c)
  <2>1. PICK m \in Nat : Differs(a, b, m)
    BY <1>3, KeyBeforeDiffers
  <2>2. PICK n \in Nat : Differs(b, c, n)
    BY <1>3, KeyBeforeDiffers
  <2>3. CASE m < n
    <3>1. m < Len(c) /\ m <= Len(a) /\ \A i \in 1 .. m : a[i] = c[i]
      <4>1. \A i \in 1 .. m : i \in 1 .. n
        BY <2>3
      <4>2. QED
        BY <1>1, <2>1, <2>2, <2>3, <4>1 DEF Differs
    <3>2. m + 1 \in 1 .. n
      BY <2>3
    <3>3. b[m + 1] = c[m + 1]
      BY <2>2, <3>2 DEF Differs
    <3>4. Differs(a, c, m)
      BY <2>1, <3>1, <3>3 DEF Differs
    <3>5. QED
      BY <3>4, KeyBeforeDiffers
  <2>4. CASE m = n
    <3>1. m < Len(c) /\ m <= Len(a) /\ m < Len(b) /\ \A i \in 1 .. m : a[i] = c[i]
      BY <2>1, <2>2, <2>4 DEF Differs
    <3>2. m < Len(a) => a[m + 1] < c[m + 1]
      <4>1. SUFFICES ASSUME m < Len(a) PROVE a[m + 1] < c[m + 1]
        OBVIOUS
      <4>2. m + 1 \in 1 .. Len(a) /\ m + 1 \in 1 .. Len(b) /\ m + 1 \in 1 .. Len(c)
        BY <1>1, <3>1, <4>1
      <4>3. a[m + 1] < b[m + 1] /\ b[m + 1] < c[m + 1]
        BY <1>1, <2>1, <2>2, <2>4, <3>1, <4>1 DEF Differs
      <4>4. a[m + 1] \in Nat /\ b[m + 1] \in Nat /\ c[m + 1] \in Nat
        BY <1>1, <4>2
      <4>5. QED
        BY <4>3, <4>4
    <3>3. Differs(a, c, m)
      BY <1>1, <3>1, <3>2 DEF Differs
    <3>4. QED
      BY <3>3, KeyBeforeDiffers
  <2>5. CASE n < m
    <3>1. n < Len(a) /\ n < Len(c) /\ \A i \in 1 .. n : a[i] = c[i]
      <4>1. \A i \in 1 .. n : i \in 1 .. m
        BY <2>5
      <4>2. QED
        BY <1>1, <2>1, <2>2, <2>5, <4>1 DEF Differs
    <3>2. n + 1 \in 1 .. m
      BY <2>5
    <3>3. a[n + 1] = b[n + 1] /\ n < Len(b)
      BY <1>1, <2>1, <2>5, <3>2 DEF Differs
    <3>4. Differs(a, c, n)
      BY <1>1, <2>2, <3>1, <3>3 DEF Differs
    <3>5. QED
      BY <3>4, KeyBeforeDiffers
  <2>6. QED
    BY <2>3, <2>4, <2>5
<1>4. ASSUME a # b PROVE KeyBefore(a, b) \/ KeyBefore(b, a)
  <2>1. PICK m : m = IF Len(a) < Len(b) THEN Len(a) ELSE Len(b)
    OBVIOUS
  <2>2. m \in Nat /\ m <= Len(a) /\ m <= Len(b) /\ (m = Len(a) \/ m = Len(b))
    BY <1>1, <2>1
  <2>3. CASE \A i \in 1 .. m : a[i] = b[i]
    <3>1. Len(a) # Len(b)
      <4>1. SUFFICES ASSUME Len(a) = Len(b) PROVE FALSE
        OBVIOUS
      <4>2. \A i \in 1 .. Len(a) : a[i] = b[i]
        BY <2>2, <2>3, <4>1
      <4>3. QED
        BY <1>4, <4>1, <4>2, SeqEqual
    <3>2. Differs(a, b, m) \/ Differs(b, a, m)
      BY <1>1, <2>2, <2>3, <3>1 DEF Differs
    <3>3. QED
      BY <2>2, <3>2, KeyBeforeDiffers
  <2>4. CASE \E i \in 1 .. m : a[i] # b[i]
    <3>1. PICK D : D = {i \in 1 .. m : a[i] # b[i]}
      OBVIOUS
    <3>2. D \subseteq Nat /\ D # {}
      <4>1. D # {}
        BY <2>4, <3>1
      <4>2. D \subseteq 1 .. m
        BY <3>1
      <4>3. QED
        BY <2>2, <4>1, <4>2
    <3>3. PICK k \in D : \A i \in D : k <= i
      BY <3>2, LeastNat
    <3>4. k \in 1 .. m /\ a[k] # b[k]
      BY <3>1
    <3>5. PICK n : n = k - 1
      OBVIOUS
    <3>6. n \in Nat /\ n < m /\ n + 1 = k
      BY <2>2, <3>4, <3>5
    <3>7. \A i \in 1 .. n : a[i] = b[i]
      <4>1. SUFFICES ASSUME NEW i \in 1 .. n, a[i] # b[i] PROVE FALSE
        OBVIOUS
      <4>2. i \in D /\ i < k
        BY <2>2, <3>1, <3>6, <4>1
      <4>3. k <= i /\ k \in Int /\ i \in Int
        BY <3>3, <3>4, <4>1, <4>2
      <4>4. QED
        BY <4>2, <4>3
    <3>8. a[k] \in Nat /\ b[k] \in Nat
      BY <1>1, <2>2, <3>4
    <3>9. a[k] < b[k] \/ b[k] < a[k]
      BY <3>4, <3>8
    <3>10. n < Len(a) /\ n < Len(b)
      BY <1>1, <2>2, <3>6
    <3>11. Differs(a, b, n) \/ Differs(b, a, n)
      BY <1>1, <3>6, <3>7, <3>9, <3>10 DEF Differs
    <3>12. QED
      BY <3>6, <3>11, KeyBeforeDiffers
  <2>5. QED
    BY <2>3, <2>4
<1>5. QED
  BY <1>2, <1>3, <1>4

\* The order of the marketplaces is strict and total.
LEMMA SourceOrder ==
  ASSUME NEW a \in ToSet(Marketplaces), NEW b \in ToSet(Marketplaces), NEW c \in ToSet(Marketplaces)
  PROVE  /\ ~SourceBefore(a, a)
         /\ SourceBefore(a, b) /\ SourceBefore(b, c) => SourceBefore(a, c)
         /\ a # b => SourceBefore(a, b) \/ SourceBefore(b, a)
<1>1. DOMAIN Marketplaces = 1 .. 4
  BY DEF Marketplaces
<1>2. \A i, j \in 1 .. 4 : Marketplaces[i] = Marketplaces[j] => i = j
  BY DEF Marketplaces
<1>3. \A i, j \in 1 .. 4 : SourceBefore(Marketplaces[i], Marketplaces[j]) <=> i < j
  BY <1>1, <1>2 DEF SourceBefore
<1>4. PICK i \in 1 .. 4, j \in 1 .. 4, k \in 1 .. 4 :
        a = Marketplaces[i] /\ b = Marketplaces[j] /\ c = Marketplaces[k]
  BY <1>1 DEF ToSet
<1>5. i \in Int /\ j \in Int /\ k \in Int
  OBVIOUS
<1>6. QED
  BY <1>3, <1>4, <1>5

\* The order of offer ids is strict and total.
LEMMA IdOrder ==
  ASSUME NEW a \in OfferIds, NEW b \in OfferIds, NEW c \in OfferIds
  PROVE  /\ ~IdBefore(a, a)
         /\ IdBefore(a, b) /\ IdBefore(b, c) => IdBefore(a, c)
         /\ a # b => IdBefore(a, b) \/ IdBefore(b, a)
<1>1. /\ a.source \in ToSet(Marketplaces) /\ a.stage \in {"detail", "search"} /\ a.key \in Seq(Nat)
      /\ b.source \in ToSet(Marketplaces) /\ b.stage \in {"detail", "search"} /\ b.key \in Seq(Nat)
      /\ c.source \in ToSet(Marketplaces) /\ c.stage \in {"detail", "search"} /\ c.key \in Seq(Nat)
  BY DEF OfferIds, ProductKeys
<1>2. ~IdBefore(a, a)
  BY <1>1, SourceOrder, KeyOrder DEF IdBefore
<1>3. ASSUME IdBefore(a, b), IdBefore(b, c) PROVE IdBefore(a, c)
  BY <1>1, <1>3, SourceOrder, KeyOrder DEF IdBefore
<1>4. ASSUME a # b PROVE IdBefore(a, b) \/ IdBefore(b, a)
  <2>1. a.source # b.source \/ a.stage # b.stage \/ a.key # b.key
    BY <1>4 DEF OfferIds
  <2>2. QED
    BY <1>1, <2>1, SourceOrder, KeyOrder DEF IdBefore
<1>5. QED
  BY <1>2, <1>3, <1>4

-----------------------------------------------------------------------------
(* The selection of offers *)

\* How an offer is ranked: the smaller the better.
RankOf(analysis, o) ==
  LET opportunities == {p.id : p \in ToSet(analysis.opportunities)}
  IN  << IF o.id \in opportunities THEN 0 ELSE IF o.id \in analysis.matches THEN 1 ELSE 2,
         IF analysis.classes[o.id] # "unknown" THEN 0 ELSE 1,
         IF o.price # None THEN 0 ELSE 1 >>

\* Offers are ranked by their rank, then by id.
LEMMA RankedBeforeIds ==
  ASSUME NEW analysis, NEW a, NEW b
  PROVE  RankedBefore(analysis, a, b) <=>
           \/ KeyBefore(RankOf(analysis, a), RankOf(analysis, b))
           \/ RankOf(analysis, a) = RankOf(analysis, b) /\ IdBefore(a.id, b.id)
BY DEF RankedBefore, RankOf

\* A rank is a sequence of numbers.
LEMMA RankOfType == ASSUME NEW analysis, NEW o PROVE RankOf(analysis, o) \in Seq(Nat)
BY DEF RankOf

\* The ranked offers are the offers, best first.
LEMMA RankedOffers ==
  ASSUME NEW S, IsFiniteSet(S), \A o \in S : o.id \in OfferIds,
         \A o, p \in S : o.id = p.id => o = p, NEW analysis
  PROVE  LET before == [o \in S |-> {p \in S : RankedBefore(analysis, p, o)}]
         IN  Enumerates(InOrder(S, LAMBDA a, b : RankedBefore(analysis, a, b)), S, before)
<1> DEFINE before == [o \in S |-> {p \in S : RankedBefore(analysis, p, o)}]
<1>1. \A o, p \in S : p \in before[o] <=> RankedBefore(analysis, p, o)
  OBVIOUS
<1>2. before \in [S -> SUBSET S]
  OBVIOUS
<1>3. InOrder(S, LAMBDA a, b : RankedBefore(analysis, a, b)) = Arranged(S, before)
  BY DEF InOrder
<1> HIDE DEF before
<1>4. \A o \in S : o \notin before[o]
  BY <1>1, RankedBeforeIds, RankOfType, KeyOrder, IdOrder
<1>5. ASSUME NEW o \in S, NEW p \in before[o], NEW q \in before[p] PROVE q \in before[o]
  <2>1. p \in S /\ q \in S
    BY <1>2
  <2>2. PICK x, y, z : x = RankOf(analysis, q) /\ y = RankOf(analysis, p) /\ z = RankOf(analysis, o)
    OBVIOUS
  <2>3. x \in Seq(Nat) /\ y \in Seq(Nat) /\ z \in Seq(Nat)
    BY <2>2, RankOfType
  <2>4. q.id \in OfferIds /\ p.id \in OfferIds /\ o.id \in OfferIds
    BY <2>1
  <2>5. /\ KeyBefore(x, y) \/ (x = y /\ IdBefore(q.id, p.id))
        /\ KeyBefore(y, z) \/ (y = z /\ IdBefore(p.id, o.id))
    BY <1>1, <2>1, <2>2, RankedBeforeIds
  <2>6. /\ KeyBefore(x, y) /\ KeyBefore(y, z) => KeyBefore(x, z)
        /\ IdBefore(q.id, p.id) /\ IdBefore(p.id, o.id) => IdBefore(q.id, o.id)
    BY <2>3, <2>4, KeyOrder, IdOrder
  <2>7. KeyBefore(x, z) \/ (x = z /\ IdBefore(q.id, o.id))
    BY <2>5, <2>6
  <2>8. QED
    BY <1>1, <2>1, <2>2, <2>7, RankedBeforeIds
<1>6. ASSUME NEW o \in S, NEW p \in S, o # p PROVE o \in before[p] \/ p \in before[o]
  <2>1. o.id # p.id /\ o.id \in OfferIds /\ p.id \in OfferIds
    BY <1>6
  <2>2. PICK x, y : x = RankOf(analysis, o) /\ y = RankOf(analysis, p)
    OBVIOUS
  <2>3. x \in Seq(Nat) /\ y \in Seq(Nat)
    BY <2>2, RankOfType
  <2>4. x # y => KeyBefore(x, y) \/ KeyBefore(y, x)
    BY <2>3, KeyOrder
  <2>5. IdBefore(o.id, p.id) \/ IdBefore(p.id, o.id)
    BY <2>1, IdOrder
  <2>6. QED
    BY <1>1, <2>2, <2>4, <2>5, RankedBeforeIds
<1>7. StrictOrder(S, before)
  <2>1. \A o \in S : \A p \in before[o] : before[p] \subseteq before[o]
    BY <1>5
  <2>2. QED
    BY <1>2, <1>4, <1>6, <2>1 DEF StrictOrder
<1>8. Enumerates(Arranged(S, before), S, before)
  BY <1>7, ArrangedEnumerates
<1>9. QED
  BY <1>3, <1>8 DEF before

-----------------------------------------------------------------------------
(* Merged offers *)

\* The merged offers: a sequence with one offer for each id.
Distinct(offers) ==
  /\ offers \in Seq(OfferSet)
  /\ \A i, j \in DOMAIN offers : offers[i].id = offers[j].id => i = j

\* Merged offers are as many as their set, and told apart by their ids.
LEMMA DistinctOffers ==
  ASSUME NEW offers, Distinct(offers)
  PROVE  /\ Len(offers) \in Nat /\ DOMAIN offers = 1 .. Len(offers)
         /\ IsFiniteSet(ToSet(offers)) /\ Cardinality(ToSet(offers)) = Len(offers)
         /\ ToSet(offers) \subseteq OfferSet
         /\ \A o \in ToSet(offers) : o.id \in OfferIds /\ o.source \in ToSet(Marketplaces)
         /\ \A o, p \in ToSet(offers) : o.id = p.id => o = p
<1>1. PICK n, S : n = Len(offers) /\ S = ToSet(offers)
  OBVIOUS
<1>2. n \in Nat /\ DOMAIN offers = 1 .. n /\ \A i \in 1 .. n : offers[i] \in OfferSet
  BY <1>1, SequencePositions DEF Distinct
<1>3. S = {offers[i] : i \in 1 .. n}
  BY <1>1, <1>2 DEF ToSet
<1>4. offers = [i \in 1 .. n |-> offers[i]]
  BY <1>2 DEF Distinct
<1>5. offers \in [1 .. n -> S]
  BY <1>3, <1>4
<1>6. offers \in Bijection(1 .. n, S)
  <2>1. \A i, j \in 1 .. n : offers[i] = offers[j] => i = j
    BY <1>2 DEF Distinct
  <2>2. \A x \in S : \E i \in 1 .. n : offers[i] = x
    BY <1>3
  <2>3. QED
    BY <1>5, <2>1, <2>2, Fun_IsBij
<1>7. IsFiniteSet(1 .. n) /\ Cardinality(1 .. n) = n
  <2>1. 1 \in Int /\ n \in Int
    BY <1>2
  <2>2. QED
    BY <1>2, <2>1, FS_Interval
<1>8. IsFiniteSet(S) /\ Cardinality(S) = n
  <2>1. PICK D : D = 1 .. n
    OBVIOUS
  <2>2. IsFiniteSet(D) /\ Cardinality(D) = n /\ offers \in Bijection(D, S)
    BY <1>6, <1>7, <2>1
  <2>3. ExistsBijection(D, S)
    BY <2>2 DEF ExistsBijection
  <2>4. QED
    BY <2>2, <2>3, FS_Bijection
<1>9. S \subseteq OfferSet
  BY <1>2, <1>3
<1>10. \A o \in S : o.id \in OfferIds /\ o.source \in ToSet(Marketplaces)
  BY <1>9 DEF OfferSet
<1>11. \A o, p \in S : o.id = p.id => o = p
  BY <1>2, <1>3 DEF Distinct
<1>12. QED
  BY <1>1, <1>2, <1>8, <1>9, <1>10, <1>11

-----------------------------------------------------------------------------
(* The best offer of a kind *)

\* A finite set that is ordered has a least element.
LEMMA LeastExists ==
  ASSUME NEW S, IsFiniteSet(S), S # {}, NEW before, StrictOrder(S, before)
  PROVE  \E x \in S : before[x] = {}
<1>1. PICK at, c : at = Arranged(S, before) /\ c = Cardinality(S)
  OBVIOUS
<1>2. Enumerates(at, S, before)
  BY <1>1, ArrangedEnumerates
<1>3. /\ c \in Nat /\ at \in [1 .. c -> S]
      /\ \A x \in S : \E n \in 1 .. c : at[n] = x
      /\ \A m, n \in 1 .. c : m < n <=> at[m] \in before[at[n]]
  BY <1>1, <1>2 DEF Enumerates
<1>4. PICK x \in S : TRUE
  OBVIOUS
<1>5. PICK n \in 1 .. c : at[n] = x
  BY <1>3
<1>6. 1 \in 1 .. c
  BY <1>3, <1>5
<1>7. PICK y : y = at[1]
  OBVIOUS
<1>8. y \in S
  BY <1>3, <1>6, <1>7
<1>9. ASSUME NEW z \in before[y] PROVE FALSE
  <2>1. z \in S
    BY <1>8 DEF StrictOrder
  <2>2. PICK m \in 1 .. c : at[m] = z
    BY <1>3, <2>1
  <2>3. m < 1
    BY <1>3, <1>6, <1>7, <1>9, <2>2
  <2>4. QED
    BY <1>3, <2>3
<1>10. QED
  BY <1>8, <1>9

\* Offers that are told apart by their ids.
ByIds(S) ==
  /\ \A o \in S : o.id \in OfferIds /\ o.details \in BOOLEAN
  /\ \A o, p \in S : o.id = p.id => o = p

\* The best offer of a kind is of the kind, and none is preferred to it.
LEMMA BestOfKind ==
  ASSUME NEW kind, IsFiniteSet(kind), kind # {}, ByIds(kind)
  PROVE  Best(kind) \in kind /\ \A p \in kind \ {Best(kind)} : ~Preferred(p, Best(kind))
<1> DEFINE before == [o \in kind |-> {p \in kind : Preferred(p, o)}]
<1>1. before \in [kind -> SUBSET kind] /\ \A o, p \in kind : p \in before[o] <=> Preferred(p, o)
  OBVIOUS
<1> HIDE DEF before
<1>2. \A o \in kind : ~Preferred(o, o)
  BY IdOrder DEF Preferred, ByIds
<1>3. ASSUME NEW a \in kind, NEW b \in kind, NEW c \in kind, Preferred(a, b), Preferred(b, c)
      PROVE  Preferred(a, c)
  <2>1. a.id \in OfferIds /\ b.id \in OfferIds /\ c.id \in OfferIds
    BY DEF ByIds
  <2>2. IdBefore(a.id, b.id) /\ IdBefore(b.id, c.id) => IdBefore(a.id, c.id)
    BY <2>1, IdOrder
  <2>3. a.details \in BOOLEAN /\ b.details \in BOOLEAN /\ c.details \in BOOLEAN
    BY DEF ByIds
  <2>4. QED
    BY <1>3, <2>2, <2>3 DEF Preferred
<1>4. ASSUME NEW a \in kind, NEW b \in kind, a # b PROVE Preferred(a, b) \/ Preferred(b, a)
  <2>1. a.id \in OfferIds /\ b.id \in OfferIds /\ a.id # b.id
    BY <1>4 DEF ByIds
  <2>2. IdBefore(a.id, b.id) \/ IdBefore(b.id, a.id)
    BY <2>1, IdOrder
  <2>3. a.details \in BOOLEAN /\ b.details \in BOOLEAN
    BY DEF ByIds
  <2>4. QED
    BY <2>2, <2>3 DEF Preferred
<1>5. StrictOrder(kind, before)
  <2>1. \A o \in kind : o \notin before[o]
    BY <1>1, <1>2
  <2>2. ASSUME NEW o \in kind, NEW p \in before[o] PROVE before[p] \subseteq before[o]
    <3>1. p \in kind /\ before[p] \subseteq kind
      BY <1>1
    <3>2. ASSUME NEW q \in before[p] PROVE q \in before[o]
      BY <1>1, <1>3, <3>1
    <3>3. QED
      BY <3>2
  <2>3. \A o, p \in kind : o # p => o \in before[p] \/ p \in before[o]
    BY <1>1, <1>4
  <2>4. QED
    BY <1>1, <2>1, <2>2, <2>3 DEF StrictOrder
<1>6. PICK o \in kind : before[o] = {}
  BY <1>5, LeastExists
<1>7. \A p \in kind \ {o} : ~Preferred(p, o)
  BY <1>1, <1>6
<1>8. QED
  BY <1>7 DEF Best

\* Merged offers are told apart by their ids.
LEMMA DistinctByIds ==
  ASSUME NEW offers, Distinct(offers)
  PROVE  ByIds(ToSet(offers))
<1>1. \A o \in ToSet(offers) : o \in OfferSet
  BY DistinctOffers
<1>2. \A o \in ToSet(offers) : o.details \in BOOLEAN
  BY <1>1 DEF OfferSet
<1>3. QED
  BY <1>2, DistinctOffers DEF ByIds

-----------------------------------------------------------------------------
(* Deduplicated offers *)

\* The positions of the offers of one kind.
SameKind(offers, i) == {j \in DOMAIN offers : Fingerprint(offers[j]) = Fingerprint(offers[i])}

\* What deduplication keeps are offers, none twice.
LEMMA UniqueElements ==
  ASSUME NEW offers, Distinct(offers)
  PROVE  Distinct(UniqueOffers(offers)) /\ ToSet(UniqueOffers(offers)) \subseteq ToSet(offers)
<1>1. PICK n, S : n = Len(offers) /\ S = ToSet(offers)
  OBVIOUS
<1>2. /\ n \in Nat /\ DOMAIN offers = 1 .. n /\ IsFiniteSet(S) /\ S \subseteq OfferSet
      /\ \A o, p \in S : o.id = p.id => o = p
  BY <1>1, DistinctOffers
<1>3. ByIds(S)
  BY <1>1, DistinctByIds
<1>4. PICK f : f = [i \in 1 .. n |-> Best({offers[j] : j \in SameKind(offers, i)})]
  OBVIOUS
<1>5. PICK T : T = {i \in 1 .. n : \A j \in SameKind(offers, i) : i <= j}
  OBVIOUS
<1>6. UniqueOffers(offers) = Chosen(f, T)
  BY <1>2, <1>4, <1>5 DEF UniqueOffers, SameKind
<1>7. ASSUME NEW i \in 1 .. n
      PROVE  f[i] \in S /\ \E j \in SameKind(offers, i) : f[i] = offers[j]
  <2>1. PICK kind : kind = {offers[j] : j \in SameKind(offers, i)}
    OBVIOUS
  <2>2. i \in SameKind(offers, i) /\ SameKind(offers, i) \subseteq 1 .. n
    BY <1>2 DEF SameKind
  <2>3. \A j \in 1 .. n : offers[j] \in S
    BY <1>1, <1>2 DEF ToSet
  <2>4. kind # {} /\ kind \subseteq S
    BY <2>1, <2>2, <2>3
  <2>5. IsFiniteSet(kind) /\ ByIds(kind)
    BY <1>2, <1>3, <2>4, FS_Subset DEF ByIds
  <2>6. Best(kind) \in kind
    BY <2>4, <2>5, BestOfKind
  <2>7. QED
    BY <1>4, <2>1, <2>4, <2>6
<1>8. T \subseteq 1 .. n /\ T \subseteq Int /\ IsFiniteSet(T) /\ \A i \in T : f[i] \in S
  BY <1>2, <1>5, <1>7, PositionsFinite
<1>9. PICK unique : unique = Chosen(f, T)
  OBVIOUS
<1>10. /\ Cardinality(T) \in Nat /\ unique \in Seq(S) /\ DOMAIN unique = 1 .. Cardinality(T)
  BY <1>8, <1>9, ChosenElements
<1>11. Follows(unique, f, T)
  BY <1>8, <1>9, ChosenInOrder
<1>12. PICK at : Ascends(at, T) /\ \A k \in 1 .. Cardinality(T) : unique[k] = f[at[k]]
  BY <1>11 DEF Follows
<1>13. ASSUME NEW k \in DOMAIN unique, NEW l \in DOMAIN unique, unique[k].id = unique[l].id
       PROVE  k = l
  <2>1. k \in 1 .. Cardinality(T) /\ l \in 1 .. Cardinality(T)
    BY <1>10
  <2>2. PICK i, j : i = at[k] /\ j = at[l]
    OBVIOUS
  <2>3. i \in T /\ j \in T /\ unique[k] = f[i] /\ unique[l] = f[j]
    BY <1>12, <2>1, <2>2 DEF Ascends
  <2>4. i \in 1 .. n /\ j \in 1 .. n
    BY <1>8, <2>3
  <2>5. f[i] = f[j]
    BY <1>2, <1>7, <1>13, <2>3, <2>4
  <2>6. PICK p \in SameKind(offers, i) : f[i] = offers[p]
    BY <1>7, <2>4
  <2>7. PICK q \in SameKind(offers, j) : f[j] = offers[q]
    BY <1>7, <2>4
  <2>8. /\ Fingerprint(offers[p]) = Fingerprint(offers[i])
        /\ Fingerprint(offers[q]) = Fingerprint(offers[j])
    BY <2>6, <2>7 DEF SameKind
  <2>9. Fingerprint(offers[i]) = Fingerprint(offers[j])
    BY <2>5, <2>6, <2>7, <2>8
  <2>10. i \in SameKind(offers, j) /\ j \in SameKind(offers, i)
    BY <1>2, <2>4, <2>9 DEF SameKind
  <2>11. i <= j /\ j <= i /\ i \in Int /\ j \in Int
    BY <1>2, <1>5, <2>3, <2>4, <2>10
  <2>12. i = j
    BY <2>11
  <2>13. QED
    BY <1>12, <2>1, <2>2, <2>12 DEF Ascends
<1>14. unique \in Seq(OfferSet) /\ ToSet(unique) \subseteq S
  <2>1. \A k \in DOMAIN unique : unique[k] \in S
    BY <1>10, SequencePositions
  <2>2. QED
    BY <1>2, <1>10, <2>1 DEF ToSet
<1>15. QED
  BY <1>1, <1>6, <1>9, <1>13, <1>14 DEF Distinct

\* The offers of one kind with an offer.
Kind(S, o) == {p \in S : Fingerprint(p) = Fingerprint(o)}

\* The best offer of an offer's kind is of that kind.
LEMMA BestOfOffers ==
  ASSUME NEW S, IsFiniteSet(S), ByIds(S), NEW o \in S
  PROVE  Best(Kind(S, o)) \in Kind(S, o)
<1>1. PICK kind : kind = Kind(S, o)
  OBVIOUS
<1>2. kind \subseteq S /\ kind # {}
  BY <1>1 DEF Kind
<1>3. IsFiniteSet(kind) /\ ByIds(kind)
  BY <1>2, FS_Subset DEF ByIds
<1>4. QED
  BY <1>1, <1>2, <1>3, BestOfKind

\* What deduplication keeps does not depend on the order of the offers: the
\* best offer of each kind.
LEMMA UniqueAsSet ==
  ASSUME NEW offers, Distinct(offers)
  PROVE  \A o : o \in ToSet(UniqueOffers(offers)) <=>
                o \in ToSet(offers) /\ o = Best(Kind(ToSet(offers), o))
<1>1. PICK n, S : n = Len(offers) /\ S = ToSet(offers)
  OBVIOUS
<1>2. /\ n \in Nat /\ DOMAIN offers = 1 .. n /\ IsFiniteSet(S) /\ S \subseteq OfferSet /\ ByIds(S)
  BY <1>1, DistinctOffers, DistinctByIds
<1>3. /\ \A i \in 1 .. n : offers[i] \in S
      /\ \A o \in S : \E i \in 1 .. n : offers[i] = o
  BY <1>1, <1>2 DEF ToSet
<1>4. PICK f : f = [i \in 1 .. n |-> Best({offers[j] : j \in SameKind(offers, i)})]
  OBVIOUS
<1>5. PICK T : T = {i \in 1 .. n : \A j \in SameKind(offers, i) : i <= j}
  OBVIOUS
<1>6. UniqueOffers(offers) = Chosen(f, T)
  BY <1>2, <1>4, <1>5 DEF UniqueOffers, SameKind
<1>7. ASSUME NEW i \in 1 .. n PROVE f[i] = Best(Kind(S, offers[i]))
  <2>1. PICK kind : kind = {offers[j] : j \in SameKind(offers, i)}
    OBVIOUS
  <2>2. \A o : o \in kind <=> o \in Kind(S, offers[i])
    BY <1>2, <1>3, <2>1 DEF Kind, SameKind
  <2>3. kind = Kind(S, offers[i])
    BY <2>2
  <2>4. QED
    BY <1>4, <2>1, <2>3
<1>8. ASSUME NEW o \in S, NEW p \in Kind(S, o) PROVE p \in S /\ Kind(S, p) = Kind(S, o)
  BY DEF Kind
<1>9. \A i \in 1 .. n : f[i] \in Kind(S, offers[i])
  BY <1>2, <1>3, <1>7, BestOfOffers
<1>10. PICK unique : unique = Chosen(f, T)
  OBVIOUS
<1>11. T \subseteq 1 .. n /\ T \subseteq Int /\ IsFiniteSet(T) /\ \A i \in T : f[i] \in S
  BY <1>2, <1>3, <1>5, <1>8, <1>9, PositionsFinite
<1>12. \A i \in T : f[i] \in ToSet(unique)
  BY <1>10, <1>11, ChosenElements
<1>13. \A o \in ToSet(unique) : \E i \in T : o = f[i]
  <2>1. Follows(unique, f, T)
    BY <1>10, <1>11, ChosenInOrder
  <2>2. QED
    BY <2>1 DEF Follows
<1>14. ASSUME NEW o \in ToSet(unique) PROVE o \in S /\ o = Best(Kind(S, o))
  <2>1. PICK i \in T : o = f[i]
    BY <1>13
  <2>2. i \in 1 .. n /\ offers[i] \in S
    BY <1>3, <1>11
  <2>3. o \in S /\ Kind(S, o) = Kind(S, offers[i])
    BY <1>8, <1>9, <2>1, <2>2
  <2>4. QED
    BY <1>7, <2>1, <2>2, <2>3
<1>15. ASSUME NEW o \in S, o = Best(Kind(S, o)) PROVE o \in ToSet(unique)
  <2>1. PICK j \in 1 .. n : offers[j] = o
    BY <1>3
  <2>2. PICK same : same = SameKind(offers, j)
    OBVIOUS
  <2>3. same \subseteq 1 .. n /\ same \subseteq Nat /\ j \in same
    BY <1>2, <2>2 DEF SameKind
  <2>4. PICK i \in same : \A k \in same : i <= k
    BY <2>3, LeastNat
  <2>5. i \in 1 .. n /\ Fingerprint(offers[i]) = Fingerprint(o)
    BY <2>1, <2>2, <2>3 DEF SameKind
  <2>6. SameKind(offers, i) = same
    BY <2>1, <2>2, <2>5 DEF SameKind
  <2>7. i \in T
    BY <1>5, <2>4, <2>5, <2>6
  <2>8. Kind(S, offers[i]) = Kind(S, o)
    BY <2>5 DEF Kind
  <2>9. f[i] = o
    BY <1>7, <1>15, <2>5, <2>8
  <2>10. QED
    BY <1>12, <2>7, <2>9
<1>16. QED
  BY <1>1, <1>6, <1>10, <1>14, <1>15

\* Offers that are all of different kinds are all kept.
LEMMA AllUnique ==
  ASSUME NEW offers, Distinct(offers),
         \A o, p \in ToSet(offers) : Fingerprint(o) = Fingerprint(p) => o = p
  PROVE  ToSet(UniqueOffers(offers)) = ToSet(offers)
<1>1. ASSUME NEW o \in ToSet(offers) PROVE o = Best(Kind(ToSet(offers), o))
  <2>1. IsFiniteSet(ToSet(offers)) /\ ByIds(ToSet(offers))
    BY DistinctOffers, DistinctByIds
  <2>2. Best(Kind(ToSet(offers), o)) \in Kind(ToSet(offers), o)
    BY <2>1, BestOfOffers
  <2>3. QED
    BY <2>2 DEF Kind
<1>2. QED
  BY <1>1, UniqueAsSet

-----------------------------------------------------------------------------
(* Statistics *)

\* The values of a sequence from the least to the greatest: those at the
\* positions in the order of at.
SortedBy(values, amounts, at) ==
  /\ values \in Seq(Nat) /\ Len(values) = Len(amounts)
  /\ at \in Bijection(1 .. Len(amounts), 1 .. Len(amounts))
  /\ \A n \in 1 .. Len(amounts) : values[n] = amounts[at[n]]
  /\ \A m, n \in 1 .. Len(amounts) : m <= n => values[m] <= values[n]

\* Sorted amounts are the amounts in another order, from the least to the
\* greatest.
LEMMA AmountsSorted ==
  ASSUME NEW amounts \in Seq(Nat)
  PROVE  \E at : SortedBy(SortedAmounts(amounts), amounts, at)
<1>1. PICK n, D : n = Len(amounts) /\ D = 1 .. n
  OBVIOUS
<1>2. n \in Nat /\ DOMAIN amounts = D /\ \A i \in D : amounts[i] \in Nat /\ i \in Int
  BY <1>1
<1>3. IsFiniteSet(D) /\ Cardinality(D) = n
  <2>1. 1 \in Int /\ n \in Int
    BY <1>2
  <2>2. IsFiniteSet(1 .. n) /\ Cardinality(1 .. n) = n
    BY <1>2, <2>1, FS_Interval
  <2>3. QED
    BY <1>1, <2>2
<1> DEFINE Before(i, j) == amounts[i] < amounts[j] \/ (amounts[i] = amounts[j] /\ i < j)
           before == [j \in D |-> {i \in D : Before(i, j)}]
<1>4. before \in [D -> SUBSET D] /\ \A i, j \in D : i \in before[j] <=> Before(i, j)
  OBVIOUS
<1>5. InOrder(D, Before) = Arranged(D, before)
  BY DEF InOrder
<1> HIDE DEF before
<1>6. StrictOrder(D, before)
  <2>1. \A i \in D : i \notin before[i]
    BY <1>2, <1>4
  <2>2. ASSUME NEW j \in D, NEW i \in before[j] PROVE before[i] \subseteq before[j]
    <3>1. i \in D /\ before[i] \subseteq D /\ Before(i, j)
      BY <1>4, <2>2
    <3>2. ASSUME NEW k \in before[i] PROVE k \in before[j]
      <4>1. k \in D /\ Before(k, i)
        BY <1>4, <3>1
      <4>2. /\ amounts[i] \in Nat /\ amounts[j] \in Nat /\ amounts[k] \in Nat
            /\ i \in Int /\ j \in Int /\ k \in Int
        BY <1>2, <3>1, <4>1
      <4>3. Before(k, j)
        BY <3>1, <4>1, <4>2
      <4>4. QED
        BY <1>4, <4>1, <4>3
    <3>3. QED
      BY <3>2
  <2>3. ASSUME NEW i \in D, NEW j \in D, i # j PROVE i \in before[j] \/ j \in before[i]
    <3>1. amounts[i] \in Nat /\ amounts[j] \in Nat /\ i \in Int /\ j \in Int
      BY <1>2
    <3>2. Before(i, j) \/ Before(j, i)
      BY <2>3, <3>1
    <3>3. QED
      BY <1>4, <3>2
  <2>4. QED
    BY <1>4, <2>1, <2>2, <2>3 DEF StrictOrder
<1>7. PICK at : at = Arranged(D, before)
  OBVIOUS
<1>8. Enumerates(at, D, before)
  BY <1>3, <1>6, <1>7, ArrangedEnumerates
<1>9. /\ at \in [D -> D] /\ \A i \in D : \E m \in D : at[m] = i
      /\ \A m, k \in D : m < k <=> at[m] \in before[at[k]]
      /\ \A m, k \in D : at[m] = at[k] => m = k
  BY <1>1, <1>3, <1>8 DEF Enumerates
<1>10. at \in Bijection(D, D)
  BY <1>9, Fun_IsBij
<1>11. PICK values : values = [m \in D |-> amounts[at[m]]]
  OBVIOUS
<1>12. values \in [D -> Nat] /\ \A m \in D : values[m] = amounts[at[m]]
  BY <1>2, <1>9, <1>11
<1>13. SortedAmounts(amounts) = Listed(values, n)
  <2>1. DOMAIN at = D
    BY <1>9
  <2>2. SortedAmounts(amounts) = Listed([m \in DOMAIN at |-> amounts[at[m]]], Len(amounts))
    BY <1>2, <1>5, <1>7 DEF SortedAmounts
  <2>3. QED
    BY <1>1, <1>11, <2>1, <2>2
<1>14. SortedAmounts(amounts) = values /\ values \in Seq(Nat) /\ Len(values) = n
  BY <1>1, <1>2, <1>12, <1>13, ListedIsFunction
<1>15. ASSUME NEW m \in D, NEW k \in D, m <= k PROVE values[m] <= values[k]
  <2>1. CASE m = k
    BY <1>12, <2>1
  <2>2. CASE m < k
    <3>1. at[m] \in D /\ at[k] \in D /\ at[m] \in before[at[k]]
      BY <1>9, <2>2
    <3>2. amounts[at[m]] \in Nat /\ amounts[at[k]] \in Nat /\ Before(at[m], at[k])
      BY <1>2, <1>4, <3>1
    <3>3. QED
      BY <1>12, <3>2
  <2>3. QED
    BY <1>2, <1>15, <2>1, <2>2
<1>16. SortedBy(SortedAmounts(amounts), amounts, at)
  BY <1>1, <1>10, <1>12, <1>14, <1>15 DEF SortedBy
<1>17. QED
  BY <1>16

\* Where a quartile lies: between the value after q others and the next.
QuartileAt(n, k, p, q, r) ==
  /\ n \in Nat /\ n > 0 /\ k \in 1 .. 3
  /\ p = k * (n - 1) /\ q = p \div 4 /\ r = p % 4

\* A quartile lies between values there are.
LEMMA QuartilePlace ==
  ASSUME NEW n, NEW k, NEW p, NEW q, NEW r, QuartileAt(n, k, p, q, r)
  PROVE  /\ p \in Nat /\ q \in Nat /\ r \in 0 .. 3 /\ p = 4 * q + r
         /\ q + 1 \in 1 .. n /\ (r # 0 => q + 2 \in 1 .. n)
<1>1. n \in Nat /\ n > 0 /\ p \in Nat /\ p <= 3 * (n - 1)
  <2>1. k = 1 \/ k = 2 \/ k = 3
    BY DEF QuartileAt
  <2>2. QED
    BY <2>1 DEF QuartileAt
<1>2. q \in Nat /\ r \in 0 .. 3 /\ p = 4 * q + r
  BY <1>1 DEF QuartileAt
<1>3. q + 1 \in 1 .. n /\ (r # 0 => q + 2 \in 1 .. n)
  BY <1>1, <1>2
<1>4. QED
  BY <1>1, <1>2, <1>3

\* A quartile, in quarters, is a natural number.
LEMMA QuartileType ==
  ASSUME NEW values \in Seq(Nat), Len(values) > 0, NEW k \in 1 .. 3,
         \A m, n \in 1 .. Len(values) : m <= n => values[m] <= values[n]
  PROVE  Quartile(values, k) \in Nat
<1>1. PICK n, p : n = Len(values) /\ p = k * (n - 1)
  OBVIOUS
<1>2. PICK q, r : q = p \div 4 /\ r = p % 4
  OBVIOUS
<1>3. PICK i : i = q + 1
  OBVIOUS
<1>4. /\ i \in 1 .. n /\ r \in 0 .. 3 /\ (r # 0 => i + 1 \in 1 .. n)
      /\ Quartile(values, k) = IF r = 0 THEN 4 * values[i]
                               ELSE 4 * values[i] + (values[i + 1] - values[i]) * r
  <2>1. n \in Nat /\ n > 0
    BY <1>1
  <2>2. q + 1 \in 1 .. n /\ r \in 0 .. 3 /\ q \in Nat /\ (r # 0 => q + 2 \in 1 .. n)
    <3>1. QuartileAt(n, k, p, q, r)
      BY <1>1, <1>2, <2>1 DEF QuartileAt
    <3>2. QED
      BY <3>1, QuartilePlace
  <2>3. i + 1 = q + 2
    BY <1>3, <2>2
  <2>4. QED
    BY <1>1, <1>2, <1>3, <2>2, <2>3 DEF Quartile
<1>5. values[i] \in Nat
  BY <1>1, <1>4
<1>6. CASE r = 0
  BY <1>4, <1>5, <1>6
<1>7. CASE r # 0
  <2>1. values[i + 1] \in Nat /\ values[i] <= values[i + 1]
    <3>1. i <= i + 1 /\ i \in 1 .. Len(values) /\ i + 1 \in 1 .. Len(values)
      BY <1>1, <1>4, <1>7
    <3>2. QED
      BY <3>1
  <2>2. PICK d : d = values[i + 1] - values[i]
    OBVIOUS
  <2>3. d \in Nat
    BY <1>5, <2>1, <2>2
  <2>4. r = 1 \/ r = 2 \/ r = 3
    BY <1>4, <1>7
  <2>5. d * r \in Nat
    BY <2>3, <2>4
  <2>6. Quartile(values, k) = 4 * values[i] + d * r
    BY <1>4, <1>7, <2>2
  <2>7. QED
    BY <1>5, <2>5, <2>6
<1>8. QED
  BY <1>6, <1>7

\* The statistics of at least one amount are a report.
LEMMA StatisticsType ==
  ASSUME NEW c \in ToSet(Currencies), NEW amounts \in Seq(Nat), Len(amounts) > 0
  PROVE  LET report == PriceStatistics(c, amounts)
             values == SortedAmounts(amounts)
         IN  /\ report \in Reports /\ report.currency = c /\ report.count = Len(amounts)
             /\ report.minimum = values[1] /\ report.maximum = values[Len(amounts)]
             /\ report.p25 = Quartile(values, 1) /\ report.median = Quartile(values, 2)
             /\ report.p75 = Quartile(values, 3)
<1>1. PICK values : values = SortedAmounts(amounts)
  OBVIOUS
<1>2. PICK at : SortedBy(values, amounts, at)
  BY <1>1, AmountsSorted
<1>3. PICK n : n = Len(amounts)
  OBVIOUS
<1>4. /\ n \in Nat /\ n > 0 /\ values \in Seq(Nat) /\ Len(values) = n
      /\ \A m, k \in 1 .. Len(values) : m <= k => values[m] <= values[k]
  BY <1>2, <1>3 DEF SortedBy
<1>5. \A k \in 1 .. 3 : Quartile(values, k) \in Nat
  BY <1>4, QuartileType
<1>6. 1 \in 1 .. 3 /\ 2 \in 1 .. 3 /\ 3 \in 1 .. 3
  OBVIOUS
<1>7. Quartile(values, 1) \in Nat /\ Quartile(values, 2) \in Nat /\ Quartile(values, 3) \in Nat
  BY <1>5, <1>6
<1>8. values[1] \in Nat /\ values[n] \in Nat
  BY <1>4
<1>9. Head(values) = values[1] /\ Last(values) = values[n]
  BY <1>4 DEF Last
<1>10. PriceStatistics(c, amounts) =
         [currency |-> c, count |-> n, minimum |-> values[1], p25 |-> Quartile(values, 1),
          median |-> Quartile(values, 2), p75 |-> Quartile(values, 3), maximum |-> values[n]]
  BY <1>1, <1>4, <1>9 DEF PriceStatistics
<1>11. QED
  BY <1>1, <1>3, <1>4, <1>7, <1>8, <1>10 DEF Reports

\* The offers of a currency.
Market(offers, c) == {o \in ToSet(offers) : o.price # None /\ o.price.currency = c}

\* The amounts of a currency are those of its offers, from the least to the
\* greatest.
PricesOf(values, market, at) ==
  /\ IsFiniteSet(market) /\ Cardinality(market) \in Nat
  /\ values \in Seq(Nat) /\ Len(values) = Cardinality(market)
  /\ at \in Bijection(1 .. Cardinality(market), market)
  /\ \A n \in 1 .. Cardinality(market) : values[n] = at[n].price.amount
  /\ \A m, n \in 1 .. Cardinality(market) : m <= n => values[m] <= values[n]

\* The amounts of a currency are as many as its offers, and theirs.
LEMMA AmountsOfMarket ==
  ASSUME NEW offers, Distinct(offers), NEW c
  PROVE  /\ AmountsIn(offers, c) \in Seq(Nat)
         /\ Len(AmountsIn(offers, c)) = Cardinality(Market(offers, c))
         /\ \E at : PricesOf(SortedAmounts(AmountsIn(offers, c)), Market(offers, c), at)
<1>1. PICK n, S : n = Len(offers) /\ S = ToSet(offers)
  OBVIOUS
<1>2. /\ n \in Nat /\ DOMAIN offers = 1 .. n /\ IsFiniteSet(S) /\ S \subseteq OfferSet
      /\ \A o, p \in S : o.id = p.id => o = p
  BY <1>1, DistinctOffers
<1>3. \A i \in 1 .. n : offers[i] \in S
  BY <1>1, <1>2 DEF ToSet
<1>4. PICK market : market = Market(offers, c)
  OBVIOUS
<1>5. market \subseteq S /\ \A o \in market : o.price # None /\ o.price.amount \in Nat
  <2>1. market \subseteq S /\ \A o \in market : o.price # None
    BY <1>1, <1>4 DEF Market
  <2>2. \A o \in S : o.price # None => o.price \in Prices
    BY <1>2 DEF OfferSet, Optional
  <2>3. QED
    BY <2>1, <2>2 DEF Prices
<1>6. PICK T : T = {i \in DOMAIN offers : offers[i].price # None /\ offers[i].price.currency = c}
  OBVIOUS
<1>7. /\ T \subseteq 1 .. n /\ T \subseteq Int /\ IsFiniteSet(T)
      /\ \A i \in T : offers[i] \in market
      /\ \A o \in market : \E i \in T : offers[i] = o
  <2>1. T \subseteq 1 .. n /\ \A i \in T : offers[i] \in market
    BY <1>1, <1>2, <1>3, <1>4, <1>6 DEF Market
  <2>2. ASSUME NEW o \in market PROVE \E i \in T : offers[i] = o
    <3>1. o \in ToSet(offers) /\ o.price # None /\ o.price.currency = c
      BY <1>4 DEF Market
    <3>2. PICK i \in DOMAIN offers : offers[i] = o
      BY <3>1 DEF ToSet
    <3>3. QED
      BY <1>6, <3>1, <3>2
  <2>3. QED
    BY <1>2, <2>1, <2>2, PositionsFinite
<1>8. PICK priced : priced = Chosen(offers, T)
  OBVIOUS
<1>9. PICK m : m = Cardinality(T)
  OBVIOUS
<1>10. m \in Nat /\ priced \in Seq(market) /\ Len(priced) = m /\ DOMAIN priced = 1 .. m
  BY <1>7, <1>8, <1>9, ChosenElements
<1>11. Follows(priced, offers, T)
  BY <1>7, <1>8, ChosenInOrder
<1>12. PICK up : Ascends(up, T) /\ \A k \in 1 .. m : priced[k] = offers[up[k]]
  BY <1>9, <1>11 DEF Follows
<1>13. priced \in Bijection(1 .. m, market)
  <2>1. priced \in [1 .. m -> market]
    BY <1>10
  <2>2. ASSUME NEW k \in 1 .. m, NEW l \in 1 .. m, priced[k] = priced[l] PROVE k = l
    <3>1. PICK i, j : i = up[k] /\ j = up[l]
      OBVIOUS
    <3>2. i \in T /\ j \in T
      BY <1>9, <1>12, <3>1 DEF Ascends
    <3>3. offers[i] = offers[j] /\ i \in DOMAIN offers /\ j \in DOMAIN offers
      BY <1>2, <1>7, <1>12, <2>2, <3>1, <3>2
    <3>4. i = j
      BY <3>3 DEF Distinct
    <3>5. QED
      BY <1>9, <1>12, <3>1, <3>4 DEF Ascends
  <2>3. ASSUME NEW o \in market PROVE \E k \in 1 .. m : priced[k] = o
    <3>1. PICK i \in T : offers[i] = o
      BY <1>7
    <3>2. PICK k \in 1 .. m : up[k] = i
      BY <1>9, <1>12 DEF Ascends
    <3>3. QED
      BY <1>12, <3>1, <3>2
  <2>4. QED
    BY <2>1, <2>2, <2>3, Fun_IsBij
<1>14. IsFiniteSet(market) /\ Cardinality(market) = m
  <2>1. PICK D : D = 1 .. m
    OBVIOUS
  <2>2. IsFiniteSet(D) /\ Cardinality(D) = m
    <3>1. 1 \in Int /\ m \in Int
      BY <1>10
    <3>2. IsFiniteSet(1 .. m) /\ Cardinality(1 .. m) = m
      BY <1>10, <3>1, FS_Interval
    <3>3. QED
      BY <2>1, <3>2
  <2>3. ExistsBijection(D, market)
    BY <1>13, <2>1 DEF ExistsBijection
  <2>4. QED
    BY <2>2, <2>3, FS_Bijection
<1>15. PICK amounts : amounts = AmountsIn(offers, c)
  OBVIOUS
<1>16. amounts = [k \in 1 .. m |-> priced[k].price.amount]
  BY <1>6, <1>8, <1>10, <1>15 DEF AmountsIn, Only
<1>17. amounts \in [1 .. m -> Nat]
  BY <1>5, <1>10, <1>16
<1>18. amounts \in Seq(Nat) /\ Len(amounts) = m
  BY <1>10, <1>17, ListedIsFunction
<1>19. PICK values : values = SortedAmounts(amounts)
  OBVIOUS
<1>20. PICK order : SortedBy(values, amounts, order)
  BY <1>18, <1>19, AmountsSorted
<1>21. PICK at : at = [k \in 1 .. m |-> priced[order[k]]]
  OBVIOUS
<1>22. order \in Bijection(1 .. m, 1 .. m)
  BY <1>18, <1>20 DEF SortedBy
<1>23. /\ order \in [1 .. m -> 1 .. m]
       /\ \A k, l \in 1 .. m : order[k] = order[l] => k = l
       /\ \A i \in 1 .. m : \E k \in 1 .. m : order[k] = i
  <2>1. PICK D : D = 1 .. m
    OBVIOUS
  <2>2. order \in Bijection(D, D)
    BY <1>22, <2>1
  <2>3. /\ order \in [D -> D]
        /\ \A k, l \in D : order[k] = order[l] => k = l
        /\ \A i \in D : \E k \in D : order[k] = i
    BY <2>2, Fun_BijectionProperties
  <2>4. QED
    BY <2>1, <2>3
<1>24. /\ \A k, l \in 1 .. m : priced[k] = priced[l] => k = l
       /\ \A o \in market : \E k \in 1 .. m : priced[k] = o
       /\ \A k \in 1 .. m : priced[k] \in market
  <2>1. PICK D : D = 1 .. m
    OBVIOUS
  <2>2. priced \in Bijection(D, market)
    BY <1>13, <2>1
  <2>3. /\ priced \in [D -> market]
        /\ \A k, l \in D : priced[k] = priced[l] => k = l
        /\ \A o \in market : \E k \in D : priced[k] = o
    BY <2>2, Fun_BijectionProperties
  <2>4. QED
    BY <2>1, <2>3
<1>25. at \in Bijection(1 .. m, market)
  <2>1. at \in [1 .. m -> market] /\ \A k \in 1 .. m : at[k] = priced[order[k]]
    BY <1>21, <1>23, <1>24
  <2>2. ASSUME NEW k \in 1 .. m, NEW l \in 1 .. m, at[k] = at[l] PROVE k = l
    <3>1. order[k] \in 1 .. m /\ order[l] \in 1 .. m /\ priced[order[k]] = priced[order[l]]
      BY <1>23, <2>1, <2>2
    <3>2. order[k] = order[l]
      BY <1>24, <3>1
    <3>3. QED
      BY <1>23, <3>2
  <2>3. \A o \in market : \E k \in 1 .. m : at[k] = o
    BY <1>23, <1>24, <2>1
  <2>4. QED
    BY <2>1, <2>2, <2>3, Fun_IsBij
<1>26. \A k \in 1 .. m : values[k] = at[k].price.amount
  <2>1. SUFFICES ASSUME NEW k \in 1 .. m PROVE values[k] = at[k].price.amount
    OBVIOUS
  <2>2. values[k] = amounts[order[k]] /\ order[k] \in 1 .. m
    BY <1>18, <1>20, <1>23 DEF SortedBy
  <2>3. QED
    BY <1>16, <1>21, <2>2
<1>27. /\ values \in Seq(Nat) /\ Len(values) = m
       /\ \A k, l \in 1 .. m : k <= l => values[k] <= values[l]
  BY <1>18, <1>20 DEF SortedBy
<1>28. PricesOf(values, market, at)
  BY <1>10, <1>14, <1>25, <1>26, <1>27 DEF PricesOf
<1>29. QED
  BY <1>4, <1>14, <1>15, <1>18, <1>19, <1>28

\* The report of a currency among the offers.
ReportIn(offers, c) == PriceStatistics(c, AmountsIn(offers, c))

\* A currency with a report.
Reported(offers, c) == c \in ToSet(Currencies) /\ c # "UNKNOWN" /\ Market(offers, c) # {}

\* The report of a currency that is stated is a report of that currency.
LEMMA ReportType ==
  ASSUME NEW offers, Distinct(offers), NEW c, Reported(offers, c)
  PROVE  ReportIn(offers, c) \in Reports /\ ReportIn(offers, c).currency = c
<1>1. PICK amounts : amounts = AmountsIn(offers, c)
  OBVIOUS
<1>2. amounts \in Seq(Nat) /\ Len(amounts) > 0
  <2>1. PICK at : PricesOf(SortedAmounts(amounts), Market(offers, c), at)
    BY <1>1, AmountsOfMarket
  <2>2. IsFiniteSet(Market(offers, c)) /\ Cardinality(Market(offers, c)) \in Nat
    BY <2>1 DEF PricesOf
  <2>3. Cardinality(Market(offers, c)) # 0
    BY <2>2, FS_EmptySet DEF Reported
  <2>4. QED
    BY <1>1, <2>2, <2>3, AmountsOfMarket
<1>3. QED
  BY <1>1, <1>2, StatisticsType DEF ReportIn, Reported

\* The reports: one for each currency that is known and stated.
LEMMA ReportsByCurrency ==
  ASSUME NEW offers, Distinct(offers)
  PROVE  LET reports == StatisticsByCurrency(offers)
         IN  /\ reports \in Seq(Reports) /\ Len(reports) \in Nat /\ DOMAIN reports = 1 .. Len(reports)
             /\ \A i \in DOMAIN reports :
                  /\ Reported(offers, reports[i].currency)
                  /\ reports[i] = ReportIn(offers, reports[i].currency)
             /\ \A c : Reported(offers, c) => \E i \in DOMAIN reports : reports[i].currency = c
             /\ \A i, j \in DOMAIN reports : reports[i].currency = reports[j].currency => i = j
<1>1. PICK T : T = {i \in DOMAIN Currencies : Currencies[i] # "UNKNOWN" /\ \E o \in ToSet(offers) :
                                               o.price # None /\ o.price.currency = Currencies[i]}
  OBVIOUS
<1>2. PICK stated : stated = Chosen(Currencies, T)
  OBVIOUS
<1>3. DOMAIN Currencies = 1 .. 3 /\ \A i, j \in 1 .. 3 : Currencies[i] = Currencies[j] => i = j
  BY DEF Currencies
<1>4. T \subseteq 1 .. 3 /\ T \subseteq Int /\ IsFiniteSet(T)
  BY <1>1, <1>3, PositionsFinite
<1>5. \A c : Reported(offers, c) <=> \E i \in T : c = Currencies[i]
  BY <1>1, <1>3 DEF Reported, Market, ToSet
<1>6. PICK R : R = {c \in ToSet(Currencies) : Reported(offers, c)}
  OBVIOUS
<1>7. \A i \in T : Currencies[i] \in R
  BY <1>5, <1>6 DEF Reported
<1>8. PICK m : m = Cardinality(T)
  OBVIOUS
<1>9. m \in Nat /\ stated \in Seq(R) /\ Len(stated) = m /\ DOMAIN stated = 1 .. m
  BY <1>2, <1>4, <1>7, <1>8, ChosenElements
<1>10. Follows(stated, Currencies, T)
  BY <1>2, <1>4, ChosenInOrder
<1>11. PICK up : Ascends(up, T) /\ \A k \in 1 .. m : stated[k] = Currencies[up[k]]
  BY <1>8, <1>10 DEF Follows
<1>12. PICK reports : reports = [k \in 1 .. m |-> ReportIn(offers, stated[k])]
  OBVIOUS
<1>13. ASSUME NEW k \in 1 .. m
       PROVE  /\ Reported(offers, stated[k]) /\ reports[k] \in Reports
              /\ reports[k].currency = stated[k] /\ reports[k] = ReportIn(offers, stated[k])
  <2>1. Reported(offers, stated[k])
    BY <1>6, <1>9
  <2>2. QED
    BY <1>12, <2>1, ReportType
<1>14. reports \in [1 .. m -> Reports]
  BY <1>12, <1>13
<1>15. reports \in Seq(Reports) /\ Len(reports) = m /\ Listed(reports, m) = reports /\ DOMAIN reports = 1 .. m
  BY <1>9, <1>14, ListedIsFunction
<1>16. StatisticsByCurrency(offers) = reports
  BY <1>1, <1>2, <1>9, <1>12, <1>15 DEF StatisticsByCurrency, Only, ReportIn
<1>17. ASSUME NEW c, Reported(offers, c) PROVE \E i \in 1 .. m : reports[i].currency = c
  <2>1. PICK i \in T : c = Currencies[i]
    BY <1>5, <1>17
  <2>2. PICK k \in 1 .. m : up[k] = i
    BY <1>8, <1>11 DEF Ascends
  <2>3. QED
    BY <1>11, <1>13, <2>1, <2>2
<1>18. ASSUME NEW i \in 1 .. m, NEW j \in 1 .. m, reports[i].currency = reports[j].currency PROVE i = j
  <2>1. stated[i] = stated[j]
    BY <1>13, <1>18
  <2>2. PICK k, l : k = up[i] /\ l = up[j]
    OBVIOUS
  <2>3. k \in T /\ l \in T /\ Currencies[k] = Currencies[l]
    BY <1>8, <1>11, <2>1, <2>2 DEF Ascends
  <2>4. k = l
    BY <1>3, <1>4, <2>3
  <2>5. QED
    BY <1>8, <1>11, <2>2, <2>4 DEF Ascends
<1>19. QED
  BY <1>9, <1>13, <1>15, <1>16, <1>17, <1>18

\* The report an offer is compared with.
LEMMA ReportFound ==
  ASSUME NEW offers, Distinct(offers), None \notin Reports, NEW c
  PROVE  ReportOf(StatisticsByCurrency(offers), c)
           = IF Reported(offers, c) THEN ReportIn(offers, c) ELSE None
<1>1. PICK reports : reports = StatisticsByCurrency(offers)
  OBVIOUS
<1>2. /\ reports \in Seq(Reports) /\ Len(reports) \in Nat /\ DOMAIN reports = 1 .. Len(reports)
      /\ \A i \in DOMAIN reports :
           /\ Reported(offers, reports[i].currency)
           /\ reports[i] = ReportIn(offers, reports[i].currency)
      /\ \A d : Reported(offers, d) => \E i \in DOMAIN reports : reports[i].currency = d
  BY <1>1, ReportsByCurrency
<1>3. PICK n, s : n = Len(reports) /\ s = [i \in DOMAIN reports |-> IF reports[i].currency = c THEN reports[i] ELSE None]
  OBVIOUS
<1>4. s \in [1 .. n -> Optional(Reports)]
  <2>1. \A i \in 1 .. n : reports[i] \in Reports
    BY <1>2, <1>3
  <2>2. QED
    BY <1>2, <1>3, <2>1 DEF Optional
<1>5. s \in Seq(Optional(Reports)) /\ DOMAIN s = DOMAIN reports
  BY <1>2, <1>3, <1>4, ListedIsFunction
<1>6. ReportOf(reports, c) = FirstKnown(s)
  BY <1>3 DEF ReportOf
<1>7. \/ FirstKnown(s) = None /\ \A i \in DOMAIN s : s[i] = None
      \/ \E i \in DOMAIN s : s[i] # None /\ FirstKnown(s) = s[i]
  BY <1>5, FirstKnownIsFirst
<1>8. \A i \in DOMAIN reports :
        reports[i] # None /\ s[i] = IF reports[i].currency = c THEN reports[i] ELSE None
  BY <1>2, <1>3
<1>9. CASE Reported(offers, c)
  <2>1. PICK i \in DOMAIN reports : reports[i].currency = c
    BY <1>2, <1>9
  <2>2. s[i] # None
    BY <1>8, <2>1
  <2>3. PICK j \in DOMAIN s : s[j] # None /\ FirstKnown(s) = s[j]
    BY <1>5, <1>7, <2>2
  <2>4. reports[j].currency = c /\ s[j] = reports[j]
    BY <1>5, <1>8, <2>3
  <2>5. QED
    BY <1>1, <1>2, <1>5, <1>6, <1>9, <2>3, <2>4
<1>10. CASE ~Reported(offers, c)
  <2>1. \A i \in DOMAIN s : s[i] = None
    BY <1>2, <1>5, <1>8, <1>10
  <2>2. QED
    BY <1>1, <1>6, <1>7, <1>10, <2>1
<1>11. QED
  BY <1>9, <1>10

-----------------------------------------------------------------------------
(* Opportunities *)

\* Opportunities that are told apart by their ids.
Gains(S) ==
  /\ \A a \in S : /\ a.id \in OfferIds
                  /\ a.profit \in Int /\ a.profit > 0 /\ a.resale \in Int /\ a.resale > 0
  /\ \A a, b \in S : a.id = b.id => a = b

\* The ranking of opportunities by margin, profit and id is strict and total.
LEMMA GainsRanked ==
  ASSUME NEW S, IsFiniteSet(S), Gains(S)
  PROVE  \E before : Enumerates(InOrder(S, BetterThan), S, before)
<1> DEFINE before == [b \in S |-> {a \in S : BetterThan(a, b)}]
<1>1. before \in [S -> SUBSET S] /\ \A a, b \in S : a \in before[b] <=> BetterThan(a, b)
  OBVIOUS
<1>2. InOrder(S, BetterThan) = Arranged(S, before)
  BY DEF InOrder
<1> HIDE DEF before
<1>3. ASSUME NEW a \in S
      PROVE  a.id \in OfferIds /\ a.profit \in Int /\ Margin(a) \in Int
  <2>1. a.profit \in Int /\ a.resale \in Int /\ a.id \in OfferIds /\ a.resale > 0
    BY DEF Gains
  <2>2. PICK top, bottom : top = 2 * 1000000 * a.profit + a.resale /\ bottom = 2 * a.resale
    OBVIOUS
  <2>3. top \in Int /\ bottom \in Int /\ bottom > 0
    BY <2>1, <2>2
  <2>4. top \div bottom \in Int
    BY <2>3
  <2>5. QED
    BY <2>1, <2>2, <2>4 DEF Margin
<1>4. \A a \in S : ~BetterThan(a, a)
  <2>1. SUFFICES ASSUME NEW a \in S, BetterThan(a, a) PROVE FALSE
    OBVIOUS
  <2>2. a.id \in OfferIds /\ a.profit \in Int /\ Margin(a) \in Int
    BY <1>3
  <2>3. ~IdBefore(a.id, a.id)
    BY <2>2, IdOrder
  <2>4. QED
    BY <2>1, <2>2, <2>3 DEF BetterThan
<1>5. ASSUME NEW a \in S, NEW b \in S, NEW c \in S, BetterThan(a, b), BetterThan(b, c)
      PROVE  BetterThan(a, c)
  <2>1. /\ Margin(a) \in Int /\ Margin(b) \in Int /\ Margin(c) \in Int
        /\ a.profit \in Int /\ b.profit \in Int /\ c.profit \in Int
    BY <1>3
  <2>2. IdBefore(a.id, b.id) /\ IdBefore(b.id, c.id) => IdBefore(a.id, c.id)
    BY <1>3, IdOrder
  <2>3. QED
    BY <1>5, <2>1, <2>2 DEF BetterThan
<1>6. ASSUME NEW a \in S, NEW b \in S, a # b PROVE BetterThan(a, b) \/ BetterThan(b, a)
  <2>1. a.id # b.id /\ a.id \in OfferIds /\ b.id \in OfferIds
    BY <1>6 DEF Gains
  <2>2. IdBefore(a.id, b.id) \/ IdBefore(b.id, a.id)
    BY <2>1, IdOrder
  <2>3. Margin(a) \in Int /\ Margin(b) \in Int /\ a.profit \in Int /\ b.profit \in Int
    BY <1>3
  <2>4. QED
    BY <2>2, <2>3 DEF BetterThan
<1>7. StrictOrder(S, before)
  <2>1. \A a \in S : a \notin before[a]
    BY <1>1, <1>4
  <2>2. ASSUME NEW c \in S, NEW b \in before[c] PROVE before[b] \subseteq before[c]
    <3>1. b \in S /\ before[b] \subseteq S
      BY <1>1
    <3>2. ASSUME NEW a \in before[b] PROVE a \in before[c]
      BY <1>1, <1>5, <3>1
    <3>3. QED
      BY <3>2
  <2>3. \A a, b \in S : a # b => a \in before[b] \/ b \in before[a]
    BY <1>1, <1>6
  <2>4. QED
    BY <1>1, <2>1, <2>2, <2>3 DEF StrictOrder
<1>8. QED
  BY <1>2, <1>7, ArrangedEnumerates

\* Some of the offers, in their order.
LEMMA SomeOffers ==
  ASSUME NEW offers, Distinct(offers), NEW T, T \subseteq DOMAIN offers
  PROVE  /\ Distinct(Chosen(offers, T))
         /\ \A o : o \in ToSet(Chosen(offers, T)) <=> \E i \in T : o = offers[i]
<1>1. /\ Len(offers) \in Nat /\ DOMAIN offers = 1 .. Len(offers) /\ offers \in Seq(OfferSet)
      /\ \A i \in T : offers[i] \in OfferSet
  BY SequencePositions DEF Distinct
<1>2. T \subseteq Int /\ IsFiniteSet(T)
  BY <1>1, PositionsFinite
<1>3. PICK some, m : some = Chosen(offers, T) /\ m = Cardinality(T)
  OBVIOUS
<1>4. /\ m \in Nat /\ some \in Seq(OfferSet) /\ DOMAIN some = 1 .. m
      /\ \A i \in T : offers[i] \in ToSet(some)
  BY <1>1, <1>2, <1>3, ChosenElements
<1>5. Follows(some, offers, T)
  BY <1>2, <1>3, ChosenInOrder
<1>6. PICK at : Ascends(at, T) /\ \A n \in 1 .. m : some[n] = offers[at[n]]
  BY <1>3, <1>5 DEF Follows
<1>7. \A o : o \in ToSet(some) <=> \E i \in T : o = offers[i]
  BY <1>4, <1>5 DEF Follows
<1>8. ASSUME NEW i \in DOMAIN some, NEW j \in DOMAIN some, some[i].id = some[j].id PROVE i = j
  <2>1. PICK k, l : k = at[i] /\ l = at[j]
    OBVIOUS
  <2>2. k \in T /\ l \in T /\ some[i] = offers[k] /\ some[j] = offers[l]
    BY <1>3, <1>4, <1>6, <2>1 DEF Ascends
  <2>3. k = l
    BY <1>8, <2>2 DEF Distinct
  <2>4. QED
    BY <1>3, <1>4, <1>6, <2>1, <2>3 DEF Ascends
<1>9. QED
  BY <1>3, <1>4, <1>7, <1>8 DEF Distinct

\* The offers statistics are made of.
Shown(query, offers) == Only(UniqueOffers(offers), LAMBDA o : Comparable(query, o))

\* The offers statistics are made of: the comparable ones that deduplication
\* keeps.
LEMMA ShownElements ==
  ASSUME NEW offers, Distinct(offers), NEW query
  PROVE  /\ Distinct(Shown(query, offers))
         /\ \A o : o \in ToSet(Shown(query, offers)) <=>
                    o \in ToSet(UniqueOffers(offers)) /\ Comparable(query, o)
<1>1. PICK unique : unique = UniqueOffers(offers)
  OBVIOUS
<1>2. Distinct(unique)
  BY <1>1, UniqueElements
<1>3. PICK T : T = {i \in DOMAIN unique : Comparable(query, unique[i])}
  OBVIOUS
<1>4. Shown(query, offers) = Chosen(unique, T)
  BY <1>1, <1>3 DEF Shown, Only
<1>5. T \subseteq DOMAIN unique
  BY <1>3
<1>6. /\ Distinct(Chosen(unique, T))
      /\ \A o : o \in ToSet(Chosen(unique, T)) <=> \E i \in T : o = unique[i]
  BY <1>2, <1>5, SomeOffers
<1>7. \A o : (\E i \in T : o = unique[i]) <=> o \in ToSet(unique) /\ Comparable(query, o)
  BY <1>3 DEF ToSet
<1>8. QED
  BY <1>1, <1>4, <1>6, <1>7

\* The reports of an analysis.
ReportsOn(query, offers) == StatisticsByCurrency(Shown(query, offers))

\* An offer is compared with the report of its currency if it is comparable
\* and has a price.
LEMMA MarketReport ==
  ASSUME NEW offers, Distinct(offers), None \notin Reports, NEW query, NEW o
  PROVE  MarketOf(query, o, ReportsOn(query, offers))
           = IF /\ Comparable(query, o) /\ o.price # None
                /\ Reported(Shown(query, offers), o.price.currency)
             THEN ReportIn(Shown(query, offers), o.price.currency) ELSE None
<1>1. PICK shown : shown = Shown(query, offers)
  OBVIOUS
<1>2. Distinct(shown)
  BY <1>1, ShownElements
<1>3. ReportOf(StatisticsByCurrency(shown), o.price.currency)
        = IF Reported(shown, o.price.currency) THEN ReportIn(shown, o.price.currency) ELSE None
  BY <1>2, ReportFound
<1>4. QED
  BY <1>1, <1>3 DEF MarketOf, ReportsOn

\* Rounded quarters are a natural number.
LEMMA RoundedType ==
  ASSUME NEW quarters \in Nat
  PROVE  Rounded(quarters) \in Nat
<1>1. PICK whole : whole = quarters \div 4
  OBVIOUS
<1>2. whole \in Nat /\ whole + 1 \in Nat
  BY <1>1
<1>3. Rounded(quarters) = whole \/ Rounded(quarters) = whole + 1
  BY <1>1 DEF Rounded
<1>4. QED
  BY <1>2, <1>3

\* What an offer gains.
Gain(query, offers, o) ==
  Opportunity(o, MarketOf(query, o, ReportsOn(query, offers)), ClassOf(query, o, ReportsOn(query, offers)))

\* Every opportunity is that of a cheap offer, none of the duplicates.
LEMMA OpportunityElements ==
  ASSUME NEW offers, Distinct(offers), None \notin Reports, MaxOpportunities \in Nat, NEW query
  PROVE  \A x \in ToSet(Analyse(query, offers).opportunities) :
           \E o \in ToSet(UniqueOffers(offers)) :
             /\ x = Gain(query, offers, o) /\ x.profit > 0
             /\ Cheap(query, o, ReportsOn(query, offers))
<1>1. PICK unique : unique = UniqueOffers(offers)
  OBVIOUS
<1>2. PICK reports : reports = ReportsOn(query, offers)
  OBVIOUS
<1>3. Distinct(unique)
  BY <1>1, UniqueElements
<1>4. /\ IsFiniteSet(ToSet(unique)) /\ ToSet(unique) \subseteq OfferSet
      /\ \A o \in ToSet(unique) : o.id \in OfferIds
      /\ \A o, p \in ToSet(unique) : o.id = p.id => o = p
  BY <1>3, DistinctOffers
<1>5. PICK cheap : cheap = {o \in ToSet(unique) : Cheap(query, o, reports)}
  OBVIOUS
<1>6. PICK all : all = {Opportunity(o, MarketOf(query, o, reports), ClassOf(query, o, reports)) : o \in cheap}
  OBVIOUS
<1>7. PICK gaining : gaining = {x \in all : x.profit > 0}
  OBVIOUS
<1>8. Analyse(query, offers).opportunities = FirstOf(MaxOpportunities, InOrder(gaining, BetterThan))
  BY <1>1, <1>2, <1>5, <1>6, <1>7 DEF Analyse, Opportunities, ReportsOn, Shown
<1>9. IsFiniteSet(gaining)
  <2>1. cheap \subseteq ToSet(unique) /\ IsFiniteSet(cheap)
    BY <1>4, <1>5, FS_Subset
  <2>2. PICK f : f = [o \in cheap |-> Opportunity(o, MarketOf(query, o, reports), ClassOf(query, o, reports))]
    OBVIOUS
  <2>3. f \in [cheap -> all] /\ \A x \in all : \E o \in cheap : f[o] = x
    BY <1>6, <2>2
  <2>4. f \in Surjection(cheap, all)
    BY <2>3, Fun_IsSurj
  <2>5. IsFiniteSet(all)
    BY <2>1, <2>4, FS_Surjection
  <2>6. QED
    BY <1>7, <2>5, FS_Subset
<1>10. ASSUME NEW o \in cheap
       PROVE  LET x == Opportunity(o, MarketOf(query, o, reports), ClassOf(query, o, reports))
              IN  /\ x.id = o.id /\ x.id \in OfferIds /\ x.profit \in Int /\ x.resale \in Int
                  /\ x.profit > 0 => x.resale > 0
  <2>1. PICK report : report = MarketOf(query, o, reports)
    OBVIOUS
  <2>2. PICK c : c = o.price.currency
    OBVIOUS
  <2>3. o \in ToSet(unique) /\ report # None
    BY <1>5, <2>1 DEF Cheap, ClassOf
  <2>4. /\ report = ReportIn(Shown(query, offers), c) /\ Reported(Shown(query, offers), c)
        /\ o.price # None
    <3>1. MarketOf(query, o, ReportsOn(query, offers))
           = IF /\ Comparable(query, o) /\ o.price # None
                /\ Reported(Shown(query, offers), o.price.currency)
             THEN ReportIn(Shown(query, offers), o.price.currency) ELSE None
      BY MarketReport
    <3>2. QED
      BY <1>2, <2>1, <2>2, <2>3, <3>1
  <2>5. report \in Reports
    <3>1. Distinct(Shown(query, offers))
      BY ShownElements
    <3>2. QED
      BY <2>4, <3>1, ReportType
  <2>6. report.median \in Nat
    BY <2>5 DEF Reports
  <2>7. PICK resale : resale = Rounded(report.median)
    OBVIOUS
  <2>8. resale \in Nat
    BY <2>6, <2>7, RoundedType
  <2>9. o.price \in Prices /\ o.id \in OfferIds
    BY <1>4, <2>3, <2>4 DEF OfferSet, Optional
  <2>10. o.price.amount \in Nat
    BY <2>9 DEF Prices
  <2>11. PICK x : x = Opportunity(o, report, ClassOf(query, o, reports))
    OBVIOUS
  <2>12. x.id = o.id /\ x.resale = resale /\ x.profit = resale - o.price.amount
    BY <2>7, <2>11 DEF Opportunity
  <2>13. x.id = o.id /\ x.id \in OfferIds /\ x.profit \in Int /\ x.resale \in Int /\ (x.profit > 0 => x.resale > 0)
    BY <2>8, <2>9, <2>10, <2>12
  <2>14. QED
    BY <2>1, <2>11, <2>13
<1>11. \A x \in gaining : \E o \in cheap :
         /\ x = Opportunity(o, MarketOf(query, o, reports), ClassOf(query, o, reports)) /\ x.profit > 0
  BY <1>6, <1>7
<1>12. Gains(gaining)
  <2>1. ASSUME NEW x \in gaining
        PROVE  /\ x.id \in OfferIds
               /\ x.profit \in Int /\ x.profit > 0 /\ x.resale \in Int /\ x.resale > 0
    BY <1>10, <1>11
  <2>2. ASSUME NEW x \in gaining, NEW y \in gaining, x.id = y.id PROVE x = y
    <3>1. PICK o \in cheap : x = Opportunity(o, MarketOf(query, o, reports), ClassOf(query, o, reports))
      BY <1>11
    <3>2. PICK p \in cheap : y = Opportunity(p, MarketOf(query, p, reports), ClassOf(query, p, reports))
      BY <1>11
    <3>3. o.id = p.id /\ o \in ToSet(unique) /\ p \in ToSet(unique)
      BY <1>5, <1>10, <2>2, <3>1, <3>2
    <3>4. o = p
      BY <1>4, <3>3
    <3>5. QED
      BY <3>1, <3>2, <3>4
  <2>3. QED
    BY <2>1, <2>2 DEF Gains
<1>13. PICK ranked, before, m : ranked = InOrder(gaining, BetterThan) /\ Enumerates(ranked, gaining, before)
                                /\ m = Cardinality(gaining)
  BY <1>9, <1>12, GainsRanked
<1>14. ranked \in Seq(gaining)
  <2>1. m \in Nat /\ ranked \in [1 .. m -> gaining]
    BY <1>13 DEF Enumerates
  <2>2. QED
    BY <2>1, ListedIsFunction
<1>15. ToSet(FirstOf(MaxOpportunities, ranked)) \subseteq gaining
  <2>1. FirstOf(MaxOpportunities, ranked) \in Seq(gaining)
    BY <1>14, FirstOfElements
  <2>2. PICK first : first = FirstOf(MaxOpportunities, ranked)
    OBVIOUS
  <2>3. \A i \in DOMAIN first : first[i] \in gaining
    BY <2>1, <2>2, SequencePositions
  <2>4. QED
    BY <2>2, <2>3 DEF ToSet
<1>16. ASSUME NEW x \in ToSet(Analyse(query, offers).opportunities)
       PROVE  \E o \in ToSet(UniqueOffers(offers)) :
                /\ x = Gain(query, offers, o) /\ x.profit > 0
                /\ Cheap(query, o, ReportsOn(query, offers))
  <2>1. x \in gaining
    BY <1>8, <1>13, <1>15, <1>16
  <2>2. PICK o \in cheap :
          /\ x = Opportunity(o, MarketOf(query, o, reports), ClassOf(query, o, reports)) /\ x.profit > 0
    BY <1>11, <2>1
  <2>3. o \in ToSet(unique) /\ Cheap(query, o, reports)
    BY <1>5
  <2>4. QED
    BY <1>1, <1>2, <2>2, <2>3 DEF Gain
<1>17. QED
  BY <1>16

\* Opportunities are matches.
LEMMA OpportunitiesMatch ==
  ASSUME NEW offers, Distinct(offers), None \notin Reports, MaxOpportunities \in Nat, NEW query
  PROVE  {x.id : x \in ToSet(Analyse(query, offers).opportunities)} \subseteq Analyse(query, offers).matches
<1>1. PICK reports : reports = ReportsOn(query, offers)
  OBVIOUS
<1>2. SUFFICES ASSUME NEW x \in ToSet(Analyse(query, offers).opportunities)
               PROVE  x.id \in Analyse(query, offers).matches
  OBVIOUS
<1>3. PICK o \in ToSet(UniqueOffers(offers)) : x = Gain(query, offers, o) /\ Cheap(query, o, reports)
  BY <1>1, OpportunityElements
<1>4. x.id = o.id
  BY <1>3 DEF Gain, Opportunity
<1>5. Matches(query, o)
  BY <1>3 DEF Cheap, ClassOf, MarketOf, Comparable
<1>6. o \in ToSet(offers)
  BY UniqueElements
<1>7. QED
  BY <1>4, <1>5, <1>6 DEF Analyse
=============================================================================
