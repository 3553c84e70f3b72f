-------------------------------- MODULE Offers --------------------------------
(***************************************************************************)
(* The records the marketplaces' parsers, the local analysis and the       *)
(* dataset for Gemini share (domain/), and what is read out of a product's *)
(* name (normalization/query_normalizer.py).  A text is the set of its     *)
(* words, {} for one of punctuation alone, None for a missing or blank     *)
(* one; no text has stop words.  An id a marketplace gives is a sequence   *)
(* of numbers, None for a missing one.                                     *)
(***************************************************************************)
EXTENDS Selections, SequencesExt

CONSTANTS
  None,        \* Python's None
  BrandOf,     \* _BRAND_ALIASES: the brand a word stands for
  Capacities,  \* words that state a capacity
  Colours      \* words that state a colour

\* The values of the enumerations in their sorted order.
Marketplaces == <<"basalam", "digikala", "divar", "torob">>
Currencies == <<"IRR", "IRT", "UNKNOWN">>
Stocks == {"in_stock", "out_of_stock", "unknown"}

Optional(S) == S \cup {None}
Texts == SUBSET STRING
ProductKeys == Seq(Nat)

Money(amount, currency) == [amount |-> amount, currency |-> currency]

\* domain/money.py and domain/offers.py.
Prices == [amount : Nat, currency : ToSet(Currencies)]

\* A segment of a URL's path; its key is the id it would be.
Segment == [word : STRING, key : ProductKeys]

Urls == [path : Seq(Segment), query : BOOLEAN, foreign : BOOLEAN]

\* The URL of an offer tells the stage that stated it: search or product page.
OfferIds == [source : ToSet(Marketplaces), stage : {"detail", "search"}, key : ProductKeys]

\* What search pages and product pages say of a product alike.
OfferSet ==
  [id : OfferIds, source : ToSet(Marketplaces), key : ProductKeys, title : Texts \ {{}},
   price : Optional(Prices), seller : Optional(STRING), url : Urls, availability : Stocks,
   brand : Optional(STRING), model : Texts, capacity : Optional(STRING), details : BOOLEAN]

\* The order of two ids and, through its source and stage, of two offer ids.
KeyBefore(a, b) ==
  \E n \in 0 .. Len(a) :
    /\ n < Len(b) /\ SubSeq(a, 1, n) = SubSeq(b, 1, n)
    /\ n = Len(a) \/ (n < Len(a) /\ a[n + 1] < b[n + 1])

SourceBefore(a, b) ==
  \E i, j \in DOMAIN Marketplaces : i < j /\ Marketplaces[i] = a /\ Marketplaces[j] = b

IdBefore(a, b) ==
  \/ SourceBefore(a.source, b.source)
  \/ a.source = b.source /\ a.stage = "detail" /\ b.stage = "search"
  \/ a.source = b.source /\ a.stage = b.stage /\ KeyBefore(a.key, b.key)

-----------------------------------------------------------------------------
(* What a name says *)

CanonicalBrand(word) ==
  IF word \in DOMAIN BrandOf THEN BrandOf[word] ELSE word

\* normalize_query: the brand and the capacity are stated by a word of the
\* text, what is left once the words of both and the colours are taken out is
\* the model.  Of several brands or capacities one counts, and the words of the
\* others stay in the model.
Attributes(text) ==
  LET brands == {BrandOf[w] : w \in text \cap DOMAIN BrandOf}
      stated == text \cap Capacities
      brand == IF brands = {} THEN None ELSE CHOOSE b \in brands : TRUE
      capacity == IF stated = {} THEN None ELSE CHOOSE c \in stated : TRUE
  IN  [tokens |-> text,
       brand |-> brand,
       capacity |-> capacity,
       model |-> {w \in text \ ({capacity} \cup Colours) : CanonicalBrand(w) # brand}]

\* The first of a sequence of optional values that is there.
FirstKnown(values) ==
  LET known == {i \in DOMAIN values : values[i] # None}
  IN  IF known = {} THEN None ELSE values[Min(known)]
=============================================================================
