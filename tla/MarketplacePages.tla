--------------------------- MODULE MarketplacePages ---------------------------
(***************************************************************************)
(* What the four parsers of collectors/sources make of a search page and   *)
(* of a product page.  A page is what the selectors find in it: the        *)
(* JSON-LD objects of its scripts and the links and cards of its markup.   *)
(* The parsers of Basalam, Digikala and Divar are copies of one another    *)
(* that differ in the id they find in a URL, in what they fill in from the *)
(* title and in the fallbacks for a price: one definition stands for the   *)
(* three and has the marketplace as its parameter.  Images, conditions and *)
(* the metadata of an offer are left out.                                  *)
(***************************************************************************)
EXTENDS Offers

CONSTANT Multiplier  \* what "million" and "milliard" multiply by

-----------------------------------------------------------------------------
(* What is found in a page *)

\* A JSON value or an attribute where a number is expected, in halves if it
\* is a plain decimal.
RawNumbers ==
  [kind : {"null", "words"}] \cup [kind : {"number"}, halves : Int]
  \cup [kind : {"digits"}, digits : Nat]

\* What the patterns of the parsers match in a text.
PriceTexts ==
  [scaled : Optional([halves : Nat, scale : DOMAIN Multiplier, label : Optional(STRING)]),
   labelled : Optional([amount : Nat, label : Optional(STRING)]),
   grouped : Seq(Nat), stock : Texts]

SchemaOffers ==
  [price : RawNumbers, low : RawNumbers, label : Optional(STRING), seller : Optional(STRING),
   stock : Texts, sku : Optional(ProductKeys)]

\* The "offers" of a product: a list, an offer, an aggregate, which may have a
\* list of its own, or nothing.
OfferParts ==
  [form : {"list"}, records : Seq(SchemaOffers), self : {None}]
  \cup [form : {"offer"}, records : {<<>>}, self : SchemaOffers]
  \cup [form : {"aggregate"}, records : Seq(SchemaOffers), self : SchemaOffers]
  \cup [form : {"absent"}, records : {<<>>}, self : {None}]

SchemaItems ==
  [name : Optional(Texts), url : Optional(Urls), sku : Optional(ProductKeys), brand : Optional(STRING),
   offers : OfferParts]

SchemaObjects ==
  {object \in [type : STRING, entries : Seq([wrapped : BOOLEAN, item : SchemaItems])] :
     object.type = "Product" => object.entries # <<>>}

Cards ==
  [elements : Seq([data : RawNumbers, content : RawNumbers, text : PriceTexts]),
   text : PriceTexts, seller : Optional(STRING)]

Anchors ==
  [href : Urls, aria : Optional(Texts), alt : Optional(Texts), headed : BOOLEAN,
   heading : Optional(Texts), text : Optional(Texts), card : Cards]

ShopLinks ==
  [prk : Optional(ProductKeys), hash : ProductKeys, shop : Optional(STRING), text : PriceTexts]

SearchDocuments == [schema : Seq(SchemaObjects), anchors : Seq(Anchors)]

ProductDocuments ==
  [schema : Seq(SchemaObjects), heading : Optional(Texts), sellers : Seq(ShopLinks), card : Cards]

-----------------------------------------------------------------------------
(* URLs *)

\* canonical_url: without query and fragment.
CanonicalUrl(url) == [url EXCEPT !.query = FALSE]

-----------------------------------------------------------------------------
(* Scalars *)

CurrencyFromLabel(label, default) ==
  IF label \in {"IRR", "IRT"} THEN label ELSE default

\* Mutant: no check of the sign.
NumericMoneyAnySign(raw, currency) ==
  CASE raw.kind = "number" -> Money((raw.halves + 1) \div 2, currency)
    [] raw.kind = "digits" -> Money(raw.digits, currency)
    [] OTHER -> None

\* A JSON number or a plain decimal is rounded half up; of any other text
\* nothing but the digits remains, so that a grouped decimal loses its point
\* and a negative text its sign.
NumericMoney(raw, currency) ==
  CASE raw.kind = "number" ->
         IF raw.halves < 0 THEN None ELSE Money((raw.halves + 1) \div 2, currency)
    [] raw.kind = "digits" -> Money(raw.digits, currency)
    [] OTHER -> None

\* A price with its currency next to it, in the text of a card.
LabeledMoney(text) ==
  IF text.labelled = None THEN None
  ELSE Money(text.labelled.amount, CurrencyFromLabel(text.labelled.label, "UNKNOWN"))

\* The last number with thousands separators, of no known currency.
LastNumericMoney(text) ==
  IF text.grouped = <<>> THEN None ELSE Money(Last(text.grouped), "UNKNOWN")

\* Torob spells large prices out: "2.5 million toman".
TorobMoney(text) ==
  IF text.scaled # None
    THEN Money((text.scaled.halves * Multiplier[text.scaled.scale] + 1) \div 2,
               CurrencyFromLabel(text.scaled.label, "IRT"))
  ELSE IF text.labelled # None
    THEN Money(text.labelled.amount, CurrencyFromLabel(text.labelled.label, "IRT"))
  ELSE None

\* The Persian word for "out of stock" contains the one for "in stock".
Availability(words) ==
  IF "outofstock" \in words THEN "out_of_stock"
  ELSE IF "instock" \in words THEN "in_stock"
  ELSE "unknown"

-----------------------------------------------------------------------------
(* The id of a product in the path of its URL *)

\* The key of the segment next to the first for which Found holds.
KeyAfter(path, Found(_)) ==
  LET at == {i \in 1 .. Len(path) - 1 : Found(i)}
  IN  IF at = {} THEN None ELSE path[(CHOOSE i \in at : \A j \in at : i <= j) + 1].key

TorobProductId(url) ==
  KeyAfter(url.path, LAMBDA i : url.path[i].word = "p")

BasalamProductId(url) ==
  KeyAfter(url.path, LAMBDA i : url.path[i].word = "product")

DigikalaProductId(url) ==
  KeyAfter(url.path, LAMBDA i : url.path[i].word = "product" /\ url.path[i + 1].word = "dkp")

\* /v/<slug>/<token> or /v/<token>.
DivarListingId(url) ==
  LET at == {i \in DOMAIN url.path : url.path[i].word = "v"}
      first == CHOOSE i \in at : \A j \in at : i <= j
  IN  IF at = {} \/ first = Len(url.path) THEN None
      ELSE url.path[IF first + 2 <= Len(url.path) THEN first + 2 ELSE first + 1].key

ProductId(source, url) ==
  CASE source = "torob" -> TorobProductId(url)
    [] source = "basalam" -> BasalamProductId(url)
    [] source = "digikala" -> DigikalaProductId(url)
    [] source = "divar" -> DivarListingId(url)

-----------------------------------------------------------------------------
(* JSON-LD *)

\* Of a list of offers the first counts.
FirstSchemaOffer(offers) ==
  IF offers.form = "list"
    THEN IF offers.records = <<>> THEN None ELSE Head(offers.records)
    ELSE offers.self

\* The lowPrice stands in for a price that is missing, not for one that is
\* no number.
SchemaPrice(offer, default) ==
  IF offer = None THEN None
  ELSE NumericMoney(IF offer.price.kind = "null" THEN offer.low ELSE offer.price,
                    CurrencyFromLabel(offer.label, default))

SchemaSeller(offer) == IF offer = None THEN None ELSE offer.seller

SchemaStock(offer) == IF offer = None THEN {} ELSE offer.stock

Payloads(page, types) == Only(page.schema, LAMBDA p : p.type \in types)

\* The items of the lists and the products of a page, in order; Torob also
\* takes an entry that is its item itself.
Items(source, page) ==
  LET lists == Payloads(page, {"ItemList", "Product"})
      entries == Joined([i \in DOMAIN lists |-> lists[i].entries])
      taken == Only(entries, LAMBDA e : e.wrapped \/ source = "torob")
  IN  [i \in DOMAIN taken |-> taken[i].item]

\* The first product of a product page.
ProductSchema(page) ==
  LET products == Payloads(page, {"Product"})
  IN  IF products = <<>> THEN None ELSE products[1].entries[1].item

\* domain/offers.py, SearchCandidate: any title will do that is not empty.
CandidateSet ==
  [source : ToSet(Marketplaces), id : ProductKeys, title : Texts, url : Urls,
   price : Optional(Prices), seller : Optional(STRING), availability : Stocks,
   brand : Optional(STRING), model : Texts, capacity : Optional(STRING)]

Identified(candidate) == candidate.id # None

TorobSchemaCandidate(item) ==
  LET url == CanonicalUrl(item.url)
      offer == FirstSchemaOffer(item.offers)
  IN  [source |-> "torob", id |-> FirstKnown(<<TorobProductId(url), item.sku>>),
       title |-> item.name, url |-> url, price |-> SchemaPrice(offer, "IRR"),
       seller |-> SchemaSeller(offer), availability |-> Availability(SchemaStock(offer)),
       brand |-> item.brand, model |-> {}, capacity |-> None]

\* Digikala and Divar read the attributes out of the title, Basalam does not.
TitleAttributes(source, title) ==
  IF source = "basalam" THEN [brand |-> None, model |-> {}, capacity |-> None]
  ELSE Attributes(title)

CardSchemaCandidate(source, item) ==
  LET url == CanonicalUrl(item.url)
      offer == FirstSchemaOffer(item.offers)
      said == TitleAttributes(source, item.name)
  IN  [source |-> source, id |-> FirstKnown(<<ProductId(source, url), item.sku>>),
       title |-> item.name, url |-> url, price |-> SchemaPrice(offer, "UNKNOWN"),
       seller |-> SchemaSeller(offer), availability |-> Availability(SchemaStock(offer)),
       brand |-> FirstKnown(<<item.brand, said.brand>>), model |-> said.model,
       capacity |-> said.capacity]

-----------------------------------------------------------------------------
(* Links and cards *)

\* A card's price: the first of its price elements that states one, in an
\* attribute or in its text, then the text of the whole card.  Only Digikala
\* takes an unlabelled number of a price element.
ElementPrices(source, element) ==
  << NumericMoney(element.data, "UNKNOWN"), NumericMoney(element.content, "UNKNOWN"),
     LabeledMoney(element.text) >>
  \o (IF source = "digikala" THEN <<LastNumericMoney(element.text)>> ELSE <<>>)

PriceFromCard(source, card) ==
  FirstKnown(Joined([i \in DOMAIN card.elements |-> ElementPrices(source, card.elements[i])])
             \o <<LabeledMoney(card.text), LastNumericMoney(card.text)>>)

TorobAnchorTitle(anchor) ==
  FirstKnown(<<anchor.aria, anchor.alt, anchor.text>>)

\* A heading inside the link counts even when it is blank.
CardAnchorTitle(anchor) ==
  IF anchor.alt # None THEN anchor.alt
  ELSE IF anchor.headed THEN anchor.heading
  ELSE anchor.text

TorobDomCandidate(anchor) ==
  LET url == CanonicalUrl(anchor.href)
  IN  [source |-> "torob", id |-> TorobProductId(url), title |-> TorobAnchorTitle(anchor),
       url |-> url, price |-> TorobMoney(anchor.card.text), seller |-> None,
       availability |-> "unknown", brand |-> None, model |-> {}, capacity |-> None]

CardDomCandidate(source, anchor) ==
  LET url == CanonicalUrl(anchor.href)
      said == Attributes(CardAnchorTitle(anchor))
  IN  [source |-> source, id |-> ProductId(source, url), title |-> said.tokens,
       url |-> url, price |-> PriceFromCard(source, anchor.card),
       seller |-> IF source = "divar" THEN None ELSE anchor.card.seller,
       availability |-> IF source = "divar" THEN "unknown"
                        ELSE Availability(anchor.card.text.stock),
       brand |-> said.brand, model |-> said.model, capacity |-> said.capacity]

-----------------------------------------------------------------------------
(* Search pages *)

\* What is named and linked in the JSON-LD.
NamedItems(source, page) ==
  Only(Items(source, page), LAMBDA item : item.name # None /\ item.url # None)

\* Of two candidates with one id Torob's parser keeps the first that has a price.
TorobUnique(candidates) ==
  LET same(i) == {j \in DOMAIN candidates : candidates[j].id = candidates[i].id}
      priced(i) == {j \in same(i) : candidates[j].price # None}
  IN  Chosen([i \in DOMAIN candidates |->
                candidates[IF priced(i) = {} THEN i ELSE Min(priced(i))]],
             {i \in DOMAIN candidates : \A j \in same(i) : i <= j})

TorobSearch(page) ==
  LET items == NamedItems("torob", page)
      links == Only(page.anchors, LAMBDA a : TorobAnchorTitle(a) # None)
      all == [i \in DOMAIN items |-> TorobSchemaCandidate(items[i])]
             \o [i \in DOMAIN links |-> TorobDomCandidate(links[i])]
  IN  TorobUnique(Only(all, Identified))

CardItems(source, page) ==
  LET items == NamedItems(source, page)
  IN  Only([i \in DOMAIN items |-> CardSchemaCandidate(source, items[i])], Identified)

CardLinks(source, page) ==
  LET links == Only(page.anchors, LAMBDA a : CardAnchorTitle(a) # None)
  IN  Only([i \in DOMAIN links |-> CardDomCandidate(source, links[i])], Identified)

CardSearch(source, page) ==
  FirstWins(CardItems(source, page) \o CardLinks(source, page), LAMBDA c : c.id)

\* The parser raises on such a page: no query can be made of a title without
\* words to read its attributes from.  Torob's reads none in a search page.
Unreadable(source, page) ==
  /\ source # "torob"
  /\ \/ \E c \in ToSet(CardLinks(source, page)) : c.title = {}
     \/ source # "basalam" /\ \E c \in ToSet(CardItems(source, page)) : c.title = {}

\* The search of the adapter of a marketplace.
SearchCandidates(source, page) ==
  IF source = "torob" THEN TorobSearch(page) ELSE CardSearch(source, page)

-----------------------------------------------------------------------------
(* Product pages *)

\* The id of a product page that has none of its own.
UnknownId == <<0>>

PageTitle(page) ==
  IF page.heading # None THEN page.heading
  ELSE IF ProductSchema(page) # None THEN ProductSchema(page).name
  ELSE None

\* The pages the parsers can read: all four read the attributes of the title
\* first, and raise when it has no words.
Readable(pages) == {page \in pages : PageTitle(page) # {}}

PageId(source, page, url) ==
  FirstKnown(<< ProductId(source, url),
                IF ProductSchema(page) = None THEN None ELSE ProductSchema(page).sku,
                UnknownId >>)

PageOffers(page) ==
  IF ProductSchema(page) = None THEN [form |-> "absent", records |-> <<>>, self |-> None]
  ELSE ProductSchema(page).offers

MakeOffer(source, key, page, url, price, seller, availability) ==
  LET said == Attributes(PageTitle(page))
      brand == IF ProductSchema(page) = None THEN None ELSE ProductSchema(page).brand
  IN  [id |-> [source |-> source, stage |-> "detail", key |-> key], source |-> source,
       key |-> key, title |-> said.tokens, price |-> price, seller |-> seller, url |-> url,
       availability |-> availability, brand |-> FirstKnown(<<brand, said.brand>>),
       model |-> said.model, capacity |-> said.capacity, details |-> TRUE]

\* redirect_id: the prk of a link to a shop, else its hash and position.
RedirectId(link, i) == IF link.prk # None THEN link.prk ELSE Append(link.hash, i)

\* The priced links to shops, the first of those with one id.
TorobSellerOffers(page, url) ==
  LET offer(i) == MakeOffer("torob", RedirectId(page.sellers[i], i), page, url,
                            TorobMoney(page.sellers[i].text), page.sellers[i].shop,
                            Availability(page.sellers[i].text.stock))
      all == [i \in DOMAIN page.sellers |-> offer(i)]
  IN  FirstWins(Only(all, LAMBDA o : o.price # None), LAMBDA o : o.key)

\* The priced offers of the JSON-LD product, else the lowest price it states.
TorobSchemaOffers(page, url) ==
  LET offers == PageOffers(page)
      productId == PageId("torob", page, url)
      records == IF offers.form = "offer" THEN <<offers.self>> ELSE offers.records
      offer(i) == MakeOffer("torob",
                            IF records[i].sku # None THEN records[i].sku
                            ELSE productId \o <<1, i>>,
                            page, url, SchemaPrice(records[i], "IRR"), records[i].seller,
                            Availability(records[i].stock))
      all == [i \in DOMAIN records |-> offer(i)]
      priced == Only(all, LAMBDA o : o.price # None)
      lowest == IF offers.self = None THEN None
                ELSE NumericMoney(offers.self.low, CurrencyFromLabel(offers.self.label, "IRR"))
  IN  IF priced # <<>> THEN priced
      ELSE IF lowest = None THEN <<>>
      ELSE <<MakeOffer("torob", productId \o <<2>>, page, url, lowest, None, "unknown")>>

TorobProduct(page, url) ==
  IF PageTitle(page) = None THEN <<>>
  ELSE IF TorobSellerOffers(page, url) # <<>> THEN TorobSellerOffers(page, url)
  ELSE TorobSchemaOffers(page, url)

\* One offer if the page states a price: that of its schema or of its card.
CardProduct(source, page, url) ==
  LET offer == FirstSchemaOffer(PageOffers(page))
      price == FirstKnown(<<SchemaPrice(offer, "UNKNOWN"), PriceFromCard(source, page.card)>>)
      seller == FirstKnown(<< SchemaSeller(offer),
                              IF source = "divar" THEN None ELSE page.card.seller >>)
      stock == IF SchemaStock(offer) # {} THEN SchemaStock(offer) ELSE page.card.text.stock
  IN  IF PageTitle(page) = None \/ price = None THEN <<>>
      ELSE << MakeOffer(source, PageId(source, page, url), page, url, price, seller,
                        Availability(stock)) >>

ProductOffers(source, page, url) ==
  IF source = "torob" THEN TorobProduct(page, url) ELSE CardProduct(source, page, url)
=============================================================================
