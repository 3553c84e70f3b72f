----------------------------- MODULE MCOfferFlow -----------------------------
EXTENDS OfferFlow

\* A phone of the brand, model and capacity searched for; the same with
\* another capacity; one with the brand in Persian; an accessory.
Phone == {"samsung", "s24", "128", "black"}
Larger == {"samsung", "s24", "256"}
Persian == {"sams-fa", "s24", "128"}
Cover == {"cover", "s24"}

MCBrandOf == [w \in {"samsung", "sams-fa", "apple"} |-> IF w = "apple" THEN "apple" ELSE "samsung"]
MCMultiplier == [million |-> 10, milliard |-> 10000]
MCQuery == {"samsung", "s24", "128"}

-----------------------------------------------------------------------------
(* Parts of pages *)

Blank == [scaled |-> None, labelled |-> None, grouped |-> <<>>, stock |-> {}]
Label(n) == [Blank EXCEPT !.labelled = [amount |-> n, label |-> "IRT"]]
Null == [kind |-> "null"]
Number(n) == [kind |-> "number", halves |-> 2 * n]

Stated(price, label) ==
  [price |-> price, low |-> Null, label |-> label, seller |-> None, stock |-> {"instock"},
   sku |-> None]
One(offer) == [form |-> "offer", records |-> <<>>, self |-> offer]
Several(offers) == [form |-> "list", records |-> offers, self |-> None]
Lowest(n) ==
  [form |-> "aggregate", records |-> <<Stated([kind |-> "words"], "IRT")>>,
   self |-> [Stated(Null, "IRT") EXCEPT !.low = Number(n), !.stock = {}]]
NoOffer == [form |-> "absent", records |-> <<>>, self |-> None]

Word(w) == [word |-> w, key |-> <<>>]
Id(w, k) == [word |-> w, key |-> k]
Url(path) == [path |-> path, query |-> TRUE, foreign |-> FALSE]
UrlOf(s, k) ==
  Url(CASE s = "torob" -> <<Word("p"), Id("id", k)>>
        [] s = "basalam" -> <<Word("shop"), Word("product"), Id("id", k)>>
        [] s = "digikala" -> <<Word("product"), Id("dkp", k)>>
        [] s = "divar" -> <<Word("v"), Word("slug"), Id("id", k)>>)
Nameless(k) == Url(<<Word("item"), Id("id", k)>>)

Item(name, url, sku, offers) ==
  [name |-> name, url |-> url, sku |-> sku, brand |-> None, offers |-> offers]
Entry(item) == [wrapped |-> TRUE, item |-> item]
List(entries) == [type |-> "ItemList", entries |-> entries]
Product(item) == [type |-> "Product", entries |-> <<Entry(item)>>]

Card(text) == [elements |-> <<>>, text |-> text, seller |-> None]
Tagged(n) == [data |-> Number(n), content |-> Null, text |-> Blank]
Link(s, k, title, card) ==
  [href |-> UrlOf(s, k), aria |-> None, alt |-> None, headed |-> FALSE, heading |-> None,
   text |-> title, card |-> card]
Shop(prk, hash, n) == [prk |-> prk, hash |-> hash, shop |-> None, text |-> Label(n)]

Search(schema, anchors) == [schema |-> schema, anchors |-> anchors]
Page(schema, heading, sellers, card) ==
  [schema |-> schema, heading |-> heading, sellers |-> sellers, card |-> card]

-----------------------------------------------------------------------------
(* The pages *)

\* The third and the fourth have a product whose title has no words: not
\* selected for its page, and selected.
Foreign(k) ==
  [Link("torob", k, Phone, Card(Blank)) EXCEPT !.href.foreign = TRUE, !.aria = Persian]

TorobSearches == {
  Search(<< List(<< [wrapped |-> FALSE,
                     item |-> Item(Phone, UrlOf("torob", <<1>>), None, NoOffer)],
                    Entry(Item(Cover, None, <<9>>, NoOffer)) >>),
            [type |-> "WebSite", entries |-> <<>>] >>,
         << Link("torob", <<1>>, Phone, Card(Label(30))),
            Link("torob", <<2>>, Larger,
                 Card([Blank EXCEPT !.scaled = [halves |-> 5, scale |-> "million",
                                                label |-> None]])),
            Link("torob", <<4>>, Phone, Card(Label(12))) >>),
  Search(<<>>, <<Foreign(<<3>>)>>),
  Search(<<>>, <<Link("torob", <<7>>, {}, Card(Label(16))), Foreign(<<3>>), Foreign(<<5>>)>>),
  Search(<<>>, <<Link("torob", <<7>>, {}, Card(Label(16)))>>) }

\* Five shops, one of them linked twice; the offers of the schema; the lowest
\* price alone; nothing to show; a title without words.
TorobPages(k) == {
  Page(<<>>, Phone,
       << Shop(k \o <<1>>, <<7>>, 10), Shop(None, k, 20), Shop(k \o <<2>>, <<7>>, 20),
          Shop(k \o <<1>>, <<7>>, 11), Shop(k \o <<3>>, <<7>>, 21), Shop(k \o <<4>>, <<7>>, 22) >>,
       Card(Blank)),
  Page(<<Product(Item(Phone, None, None,
                      Several(<< Stated(Number(21), "IRT"),
                                 [Stated(Number(300), None) EXCEPT !.sku = k \o <<5>>],
                                 Stated([kind |-> "words"], "IRT") >>)))>>,
       None, <<>>, Card(Blank)),
  Page(<<Product(Item(Phone, None, None, Lowest(19)))>>, None, <<>>, Card(Blank)),
  Page(<<>>, None, <<>>, Card(Blank)),
  Page(<<>>, {}, <<Shop(None, k, 20)>>, Card(Blank)) }

\* Two products whose URLs carry no id; one that is listed twice; one whose
\* title has no words, in the JSON-LD or linked.
CardSearches(s) == {
  Search(<< List(<< Entry(Item(Phone, Nameless(<<5>>), <<5>>, One(Stated(Number(18), "IRT")))),
                    Entry(Item(Phone, Nameless(<<6>>), <<6>>, One(Stated(Number(24), "IRT")))),
                    [wrapped |-> FALSE, item |-> Item(Phone, UrlOf(s, <<8>>), None, NoOffer)]
                  >>) >>,
         <<>>),
  Search(<< Product(Item(Phone, UrlOf(s, <<1>>), None, One(Stated(Number(-1), "IRT")))) >>,
         << Link(s, <<1>>, Phone, Card(Label(17))),
            [Link(s, <<2>>, Cover, [Card(Label(26)) EXCEPT !.elements = <<Tagged(25)>>])
               EXCEPT !.alt = Phone] >>),
  Search(<< Product(Item({}, UrlOf(s, <<7>>), None, One(Stated(Number(16), "IRT")))) >>, <<>>),
  Search(<<>>, <<Link(s, <<1>>, Phone, Card(Label(17))), Link(s, <<7>>, {}, Card(Label(16)))>>) }

\* The price in the schema, on the card, or nowhere; a title without words.
CardPages(s, k) == {
  Page(<<Product(Item(Phone, None, None, One(Stated(Number(IF k = <<5>> THEN 18 ELSE 23), "IRT"))))>>,
       Phone, <<>>, Card([Blank EXCEPT !.stock = {"outofstock", "instock"}])),
  Page(<<>>, Larger, <<>>, Card([Label(15) EXCEPT !.grouped = <<14>>])),
  Page(<<>>, Phone, <<>>, Card(Blank)),
  Page(<<>>, {}, <<>>, Card(Label(15))) }

Keys == {<<n>> : n \in 1 .. 9}

MCSearchPages ==
  [s \in ToSet(Marketplaces) |-> IF s = "torob" THEN TorobSearches ELSE CardSearches(s)]
MCProductPages ==
  [s \in ToSet(Marketplaces) |->
     [k \in Keys |-> IF s = "torob" THEN TorobPages(k) ELSE CardPages(s, k)]]

MCRegistries ==
  {<<"torob", "basalam">>, <<"torob", "digikala">>, <<"torob", "divar">>, <<"basalam", "digikala">>}

\* Plenty, tighter and tighter, and more offers than the contract admits.
MCBudgets == {<<4, 100>>, <<4, 30>>, <<4, 18>>, <<4, 10>>, <<4, 8>>, <<9, 100>>}

\* The ids on these pages are told apart as the marketplaces' are.
ASSUME MarketplacesIdentify == OnePagePerProduct /\ PagesApart

-----------------------------------------------------------------------------
(* The operators of Selections are those of the community modules *)

Short == SeqOf(1 .. 3, 3)

ASSUME SelectionsCompute ==
  /\ \A s \in Short :
       /\ Only(s, LAMBDA n : n # 2) = SelectSeq(s, LAMBDA n : n # 2)
       /\ FirstWins(s, LAMBDA n : n \div 2)
            = FoldLeft(LAMBDA kept, n : IF \E k \in ToSet(kept) : k \div 2 = n \div 2
                                        THEN kept ELSE Append(kept, n), <<>>, s)
       /\ \A n \in 0 .. 4 : FirstOf(n, s) = SubSeq(s, 1, Min({n, Len(s)}))
  /\ \A S \in SUBSET (1 .. 4) : InOrder(S, LAMBDA m, n : m > n) = SetToSortSeq(S, LAMBDA m, n : m > n)
  /\ \A ss \in SeqOf(SeqOf(1 .. 2, 2), 3) : Joined(ss) = FlattenSeq(ss)
=============================================================================
