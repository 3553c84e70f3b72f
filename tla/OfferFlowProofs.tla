--------------------------- MODULE OfferFlowProofs ---------------------------
(***************************************************************************)
(* The properties of OfferFlow hold for all pages, registries and limits.  *)
(*                                                                         *)
(* The inductive invariant FlowOK has two parts.  SourcesOK says what each *)
(* collector has done so far: the candidates it has are candidates of one  *)
(* search page, one for each id; the answers it has are those of the pages *)
(* of its ranked candidates; its offers are what Collect makes of both,    *)
(* none before.  ResultsOK says that the snapshot, once made, is the merge *)
(* of what the collectors contributed and its analysis, and the dataset    *)
(* what the budget makes of the snapshot.  Everything else follows from    *)
(* lemmas about Analyse and BudgetedDataset, which know nothing of the     *)
(* steps.                                                                  *)
(***************************************************************************)
EXTENDS OfferFlow, OfferLemmas

-----------------------------------------------------------------------------
(* Candidates *)

\* The query has finitely many words.
LEMMA QueryFinite == Query.tokens = QueryText /\ IsFiniteSet(Query.tokens)
BY OfferFlowAssumption DEF Query, Attributes

\* A relevance is a number.
LEMMA RelevanceType ==
  ASSUME NEW c
  PROVE  Relevance(c) \in Int
<1>1. Cardinality(Query.tokens) \in Nat
  BY QueryFinite, FS_CardinalityType
<1>2. Cardinality(Query.tokens \cap c.title) \in Nat
  BY QueryFinite, FS_Subset, FS_CardinalityType
<1>3. PICK words, hits : words = Cardinality(Query.tokens) /\ hits = Cardinality(Query.tokens \cap c.title)
  OBVIOUS
<1>4. PICK brand : brand = CASE Query.brand = None -> 0
                 [] c.brand # None -> IF c.brand = Query.brand THEN 2 ELSE 0
                 [] OTHER -> IF Query.brand \in c.title THEN 1 ELSE 0
  OBVIOUS
<1>5. PICK capacity : capacity = IF Query.capacity # None /\ Query.capacity \in c.title THEN 1 ELSE 0
  OBVIOUS
<1>6. brand \in Int /\ capacity \in Int
  <2>1. CASE Query.brand = None
    BY <1>4, <1>5, <2>1
  <2>2. CASE Query.brand # None /\ c.brand # None
    BY <1>4, <1>5, <2>2
  <2>3. CASE Query.brand # None /\ c.brand = None
    BY <1>4, <1>5, <2>3
  <2>4. QED
    BY <2>1, <2>2, <2>3
<1>7. Relevance(c) = LET score == 10 * hits + (brand + capacity) * words
                     IN  IF score < 10 * words THEN score ELSE 10 * words
  BY <1>3, <1>4, <1>5 DEF Relevance
<1>8. words \in Int /\ hits \in Int
  BY <1>1, <1>2, <1>3
<1>9. 10 * hits + (brand + capacity) * words \in Int /\ 10 * words \in Int
  BY <1>6, <1>8
<1>10. QED
  BY <1>7, <1>9

\* Ranking selects some positions, none twice, and no more than the limit.
LEMMA RankedPositions ==
  ASSUME NEW V, NEW found \in Seq(V)
  PROVE  /\ Ranked(found) \in Seq(DOMAIN found) /\ Len(Ranked(found)) <= MaxDetails
         /\ \A i, j \in DOMAIN Ranked(found) : Ranked(found)[i] = Ranked(found)[j] => i = j
<1> DEFINE S == DOMAIN found
<1>1. PICK score : score = [i \in S |-> Relevance(found[i])]
  OBVIOUS
<1>2. \A i \in S : score[i] \in Int
  BY <1>1, RelevanceType
<1>3. S \subseteq Int /\ IsFiniteSet(S)
  BY SequencePositions
<1> DEFINE before == [j \in S |-> {i \in S : score[i] > score[j] \/ (score[i] = score[j] /\ i < j)}]
<1>4. StrictOrder(S, before)
  <2> HIDE DEF S
  <2>1. /\ before \in [S -> SUBSET S]
        /\ \A i, j \in S : i \in before[j] <=> score[i] > score[j] \/ (score[i] = score[j] /\ i < j)
    OBVIOUS
  <2> HIDE DEF before
  <2>2. \A i \in S : i \in Int /\ score[i] \in Int
    BY <1>2, <1>3
  <2>3. \A i \in S : i \notin before[i]
    BY <2>1, <2>2
  <2>4. ASSUME NEW i \in S, NEW j \in before[i] PROVE before[j] \subseteq before[i]
    <3>1. j \in S
      BY <2>1
    <3>2. ASSUME NEW k \in before[j] PROVE k \in before[i]
      <4>1. k \in S
        BY <2>1, <3>1
      <4>2. i \in Int /\ j \in Int /\ k \in Int /\ score[i] \in Int /\ score[j] \in Int /\ score[k] \in Int
        BY <2>2, <3>1, <4>1
      <4>3. /\ score[j] > score[i] \/ (score[j] = score[i] /\ j < i)
            /\ score[k] > score[j] \/ (score[k] = score[j] /\ k < j)
        BY <2>1, <3>1, <4>1
      <4>4. score[k] > score[i] \/ (score[k] = score[i] /\ k < i)
        BY <4>2, <4>3
      <4>5. QED
        BY <2>1, <4>1, <4>4
    <3>3. QED
      BY <3>2
  <2>5. \A i, j \in S : i # j => i \in before[j] \/ j \in before[i]
    BY <2>1, <2>2
  <2>6. QED
    BY <2>1, <2>3, <2>4, <2>5 DEF StrictOrder
<1>5. Ranked(found) = FirstOf(MaxDetails, Arranged(S, before))
  <2>1. before = [j \in S |-> {i \in S : LET score2(k) == Relevance(found[k])
                                         IN  score2(i) > score2(j) \/ (score2(i) = score2(j) /\ i < j)}]
    BY <1>1
  <2>2. QED
    BY <2>1 DEF Ranked, InOrder
<1> HIDE DEF before, S
<1>6. Enumerates(Arranged(S, before), S, before)
  BY <1>3, <1>4, ArrangedEnumerates
<1>7. Arranged(S, before) \in Seq(S)
  <2>1. PICK n : n = Cardinality(S)
    OBVIOUS
  <2>2. n \in Nat /\ Arranged(S, before) \in [1 .. n -> S]
    BY <1>6, <2>1 DEF Enumerates
  <2>3. QED
    BY <2>2, ListedIsFunction
<1>8. MaxDetails \in Nat
  BY OfferFlowAssumption
<1>9. PICK at, first : at = Arranged(S, before) /\ first = FirstOf(MaxDetails, at)
  OBVIOUS
<1>10. Len(at) \in Nat /\ DOMAIN at = 1 .. Cardinality(S)
  BY <1>6, <1>7, <1>9 DEF Enumerates
<1>11. /\ first \in Seq(S) /\ Len(first) = (IF MaxDetails < Len(at) THEN MaxDetails ELSE Len(at))
       /\ \A i \in 1 .. Len(first) : i \in DOMAIN at /\ first[i] = at[i]
  BY <1>7, <1>8, <1>9, FirstOfElements
<1>12. Len(first) <= MaxDetails /\ DOMAIN first = 1 .. Len(first)
  BY <1>8, <1>10, <1>11
<1>13. \A i, j \in DOMAIN at : at[i] = at[j] => i = j
  BY <1>6, <1>9, <1>10 DEF Enumerates
<1>14. \A i, j \in DOMAIN first : first[i] = first[j] => i = j
  BY <1>11, <1>12, <1>13
<1>15. QED
  BY <1>5, <1>9, <1>11, <1>12, <1>14 DEF S

\* The offer made of a candidate, with the candidate's id.
LEMMA CandidateOfferType ==
  ASSUME NEW s \in ToSet(Marketplaces), NEW c \in CandidateSet, c.source = s
  PROVE  /\ c.title # {} => CandidateOffer(c) \in OfferSet
         /\ CandidateOffer(c).source = s /\ CandidateOffer(c).url = c.url
         /\ CandidateOffer(c).id = [source |-> s, stage |-> "search", key |-> c.id]
BY DEF CandidateOffer, CandidateSet, OfferSet, OfferIds

-----------------------------------------------------------------------------
(* The state *)

\* What becomes of the candidates found and the answers got of their pages.
CollectedFrom(found, got) ==
  LET selected(i) == found[Ranked(found)[i]]
      ids == {selected(i).id : i \in DOMAIN got}
      others == Only(found, LAMBDA c : c.id \notin ids)
      details == [i \in DOMAIN got |->
                    IF got[i] = Failed \/ got[i] = <<>> THEN <<CandidateOffer(selected(i))>> ELSE got[i]]
  IN  [i \in DOMAIN others |-> CandidateOffer(others[i])] \o Joined(details)

\* The candidates of a search of a source.
FoundBy(s, found) ==
  /\ found \in Seq(CandidatesOf(s)) /\ Len(found) <= MaxCandidates
  /\ \A i, j \in DOMAIN found : found[i].id = found[j].id => i = j
  /\ \E page \in SearchPages[s] : ToSet(found) \subseteq ToSet(SearchCandidates(s, page))

\* The answers of the pages of the ranked candidates.
AnswersFor(s, found, got) ==
  /\ DOMAIN got = DOMAIN Ranked(found)
  /\ got \in Seq({None, Failed} \cup Seq(OfferSet))
  /\ \A i \in DOMAIN got :
       /\ got[i] \in {None, Failed} \cup Seq(DetailOf(s, found[Ranked(found)[i]].url))
       /\ got[i] \in {None, Failed} \cup PageAnswers(s, found[Ranked(found)[i]])

\* All pages have answered or failed, and what is left to the search has a title
\* with words.
Presentable(found, got) ==
  /\ \A i \in DOMAIN got : got[i] # None
  /\ \A i \in DOMAIN found :
       (\A k \in DOMAIN got : Ranked(found)[k] = i => got[k] = Failed \/ got[k] = <<>>)
         => found[i].title # {}

\* A collector that has found candidates, got answers and collected offers.
CollectorOK(s, at, found, got, offers) ==
  /\ at \in {"searching", "failed"} => found = <<>> /\ got = <<>>
  /\ at \in {"details", "collected", "raised"} => FoundBy(s, found) /\ AnswersFor(s, found, got)
  /\ at = "collected" => Presentable(found, got) /\ offers = CollectedFrom(found, got)
  /\ at # "collected" => offers = <<>>

Merged == Deduplicated(Joined([i \in DOMAIN registry |-> collected[registry[i]]]))

SnapshotOf(offers) == [offers |-> offers, analysis |-> Analyse(Query, offers)]

DatasetFor(budget, shown) ==
  [budget |-> budget,
   data |-> IF Admissible(shown.offers, budget[1])
            THEN BudgetedDataset(shown.offers, shown.analysis, NameLength, budget[1], budget[2])
            ELSE None]

SourcesOK ==
  /\ registry \in Registries
  /\ phase \in [Sources -> Phases]
  /\ candidates \in [Sources -> Seq(CandidateSet)]
  /\ answers \in [Sources -> Seq({None, Failed} \cup Seq(OfferSet))]
  /\ collected \in [Sources -> Seq(OfferSet)]
  /\ \A s \in Sources : CollectorOK(s, phase[s], candidates[s], answers[s], collected[s])

ResultsOK ==
  /\ snapshot # None => /\ \A s \in Sources : phase[s] \in {"collected", "failed"}
                        /\ snapshot = SnapshotOf(Merged)
  /\ snapshot = None => dataset = None
  /\ dataset # None => \E budget \in Budgets : dataset = DatasetFor(budget, snapshot)

FlowOK == SourcesOK /\ ResultsOK

\* The sources are marketplaces.
LEMMA SourceNames ==
  ASSUME registry \in Registries
  PROVE  registry \in Seq(ToSet(Marketplaces)) /\ Sources \subseteq ToSet(Marketplaces)
<1>1. registry \in Seq(ToSet(Marketplaces))
  BY OfferFlowAssumption
<1>2. \A i \in DOMAIN registry : registry[i] \in ToSet(Marketplaces)
  BY <1>1, SequencePositions
<1>3. Sources = {registry[i] : i \in DOMAIN registry}
  BY DEF Sources, ToSet
<1>4. QED
  BY <1>1, <1>2, <1>3

\* What a search keeps of a page are candidates of the source, one for each
\* id.
LEMMA FoundCandidates ==
  ASSUME NEW s \in ToSet(Marketplaces), NEW page \in SearchPages[s],
         NEW found, found = FirstWins(FirstOf(MaxCandidates, SearchCandidates(s, page)), LAMBDA c : c.id)
  PROVE  FoundBy(s, found)
<1>1. page \in SearchDocuments /\ MaxCandidates \in Nat
  BY OfferFlowAssumption
<1>2. PICK all : all = SearchCandidates(s, page)
  OBVIOUS
<1>3. PICK V : V = CandidatesOf(s)
  OBVIOUS
<1>4. all \in Seq(V)
  BY <1>1, <1>2, <1>3, OfferFlowAssumption, SearchCandidatesType
<1>5. PICK top : top = FirstOf(MaxCandidates, all)
  OBVIOUS
<1>6. top \in Seq(V) /\ Len(top) = (IF MaxCandidates < Len(all) THEN MaxCandidates ELSE Len(all))
      /\ ToSet(top) \subseteq ToSet(all)
  BY <1>1, <1>4, <1>5, FirstOfElements
<1>7. Len(top) <= MaxCandidates /\ Len(top) \in Nat /\ Len(all) \in Nat
  BY <1>1, <1>4, <1>6
<1>8. found = FirstWins(top, LAMBDA c : c.id)
  BY <1>2, <1>5
<1>9. /\ found \in Seq(V) /\ Len(found) <= Len(top) /\ ToSet(found) \subseteq ToSet(top)
      /\ \A i, j \in DOMAIN found : found[i].id = found[j].id => i = j
  BY <1>6, <1>8, FirstOfEachId
<1>10. Len(found) <= MaxCandidates
  BY <1>1, <1>7, <1>9
<1>11. ToSet(found) \subseteq ToSet(SearchCandidates(s, page))
  BY <1>2, <1>6, <1>9
<1>12. QED
  BY <1>3, <1>9, <1>10, <1>11 DEF FoundBy

\* The candidates found are candidates of the source.
LEMMA FoundElements ==
  ASSUME NEW s \in ToSet(Marketplaces), NEW found, FoundBy(s, found)
  PROVE  /\ Len(found) \in Nat /\ DOMAIN found = 1 .. Len(found)
         /\ \A i \in DOMAIN found : found[i] \in CandidateSet /\ found[i].source = s
<1>1. PICK V : V = CandidatesOf(s)
  OBVIOUS
<1>2. found \in Seq(V)
  BY <1>1 DEF FoundBy
<1>3. Len(found) \in Nat /\ DOMAIN found = 1 .. Len(found) /\ \A i \in DOMAIN found : found[i] \in V
  BY <1>2, SequencePositions
<1>4. QED
  BY <1>1, <1>3 DEF CandidatesOf, CandidateSet

\* Their URLs state nothing but, where they do, the id of the product.
LEMMA FoundUrl ==
  ASSUME NEW s \in ToSet(Marketplaces), NEW found, FoundBy(s, found), NEW i \in DOMAIN found
  PROVE  /\ found[i].url \in Urls /\ found[i].url.query = FALSE
         /\ ProductId(s, found[i].url) # None => found[i].id = ProductId(s, found[i].url)
<1>1. PICK V : V = CandidatesOf(s)
  OBVIOUS
<1>2. found \in Seq(V)
  BY <1>1 DEF FoundBy
<1>3. found[i] \in V
  BY <1>2, SequencePositions
<1>4. QED
  BY <1>1, <1>3 DEF CandidatesOf, CandidateSet

\* Every candidate has its pages.
LEMMA FoundPages ==
  ASSUME NEW s \in ToSet(Marketplaces), NEW found, FoundBy(s, found), NEW i \in DOMAIN found
  PROVE  found[i].id \in DOMAIN ProductPages[s]
<1>1. PICK page \in SearchPages[s] : ToSet(found) \subseteq ToSet(SearchCandidates(s, page))
  BY DEF FoundBy
<1>2. found[i] \in ToSet(found)
  BY DEF ToSet
<1>3. QED
  BY <1>1, <1>2, OfferFlowAssumption

\* The selected candidates are some of those found, each once.
LEMMA RankedFound ==
  ASSUME NEW s \in ToSet(Marketplaces), NEW found, FoundBy(s, found)
  PROVE  /\ DOMAIN Ranked(found) = 1 .. Len(Ranked(found)) /\ Len(Ranked(found)) \in Nat
         /\ Len(Ranked(found)) <= MaxDetails
         /\ \A i \in DOMAIN Ranked(found) : Ranked(found)[i] \in DOMAIN found
         /\ \A i, j \in DOMAIN Ranked(found) : Ranked(found)[i] = Ranked(found)[j] => i = j
<1>1. PICK V : V = CandidatesOf(s)
  OBVIOUS
<1>2. found \in Seq(V)
  BY <1>1 DEF FoundBy
<1>3. PICK S : S = DOMAIN found
  OBVIOUS
<1>4. /\ Ranked(found) \in Seq(S) /\ Len(Ranked(found)) <= MaxDetails
      /\ \A i, j \in DOMAIN Ranked(found) : Ranked(found)[i] = Ranked(found)[j] => i = j
  BY <1>1, <1>2, <1>3, RankedPositions
<1>5. /\ DOMAIN Ranked(found) = 1 .. Len(Ranked(found)) /\ Len(Ranked(found)) \in Nat
      /\ \A i \in DOMAIN Ranked(found) : Ranked(found)[i] \in S
  BY <1>4, SequencePositions
<1>6. QED
  BY <1>3, <1>4, <1>5

\* The offer of a candidate whose page was not fetched or stated none.
OfSearch(found, got, o) ==
  \E i \in DOMAIN found :
    /\ o = CandidateOffer(found[i])
    /\ \A k \in DOMAIN got : Ranked(found)[k] = i => got[k] = Failed \/ got[k] = <<>>

\* An offer of the page of a candidate.
OfPage(s, found, got, o) ==
  \E k \in DOMAIN got :
    /\ got[k] # Failed /\ got[k] \in PageAnswers(s, found[Ranked(found)[k]])
    /\ o \in ToSet(got[k]) /\ o \in DetailOf(s, found[Ranked(found)[k]].url)

\* What is known of the offers a source contributes.
CollectedWell(s, found, got) ==
  /\ CollectedFrom(found, got) \in Seq({o \in OfferSet : o.source = s /\ o.id.source = s})
  /\ \A o \in ToSet(CollectedFrom(found, got)) : OfSearch(found, got, o) \/ OfPage(s, found, got, o)
  /\ \A i \in DOMAIN found : \E o \in ToSet(CollectedFrom(found, got)) : o.url = found[i].url

\* A source contributes its own offers, each of the search or of a page, and
\* one that leads to each candidate's page.
LEMMA CollectedIsWell ==
  ASSUME NEW s \in ToSet(Marketplaces), NEW found, FoundBy(s, found), NEW got,
         AnswersFor(s, found, got), Presentable(found, got)
  PROVE  CollectedWell(s, found, got)
<1> DEFINE selected(i) == found[Ranked(found)[i]]
           ids == {selected(i).id : i \in DOMAIN got}
           shown == {o \in OfferSet : /\ o.source = s /\ o.id.source = s
                                      /\ OfSearch(found, got, o) \/ OfPage(s, found, got, o)}
<1>1. PICK O : O = shown
  OBVIOUS
<1>2. /\ Len(found) \in Nat /\ DOMAIN found = 1 .. Len(found)
      /\ \A i \in DOMAIN found : found[i] \in CandidateSet /\ found[i].source = s
      /\ DOMAIN Ranked(found) = 1 .. Len(Ranked(found)) /\ Len(Ranked(found)) \in Nat
      /\ \A i \in DOMAIN Ranked(found) : Ranked(found)[i] \in DOMAIN found
      /\ \A i, j \in DOMAIN Ranked(found) : Ranked(found)[i] = Ranked(found)[j] => i = j
  BY FoundElements, RankedFound
<1>3. ASSUME NEW i \in DOMAIN found,
             \A k \in DOMAIN got : Ranked(found)[k] = i => got[k] = Failed \/ got[k] = <<>>
      PROVE  CandidateOffer(found[i]) \in O /\ CandidateOffer(found[i]).url = found[i].url
  <2>1. /\ CandidateOffer(found[i]) \in OfferSet
        /\ CandidateOffer(found[i]).source = s /\ CandidateOffer(found[i]).url = found[i].url
        /\ CandidateOffer(found[i]).id = [source |-> s, stage |-> "search", key |-> found[i].id]
    BY <1>2, <1>3, CandidateOfferType DEF Presentable
  <2>2. OfSearch(found, got, CandidateOffer(found[i]))
    BY <1>3 DEF OfSearch
  <2>3. QED
    BY <1>1, <2>1, <2>2
<1>4. ASSUME NEW k \in DOMAIN got, got[k] \notin {None, Failed}, NEW o \in ToSet(got[k])
      PROVE  o \in O /\ o.url = found[Ranked(found)[k]].url
  <2>1. PICK g, D : g = got[k] /\ D = DetailOf(s, found[Ranked(found)[k]].url)
    OBVIOUS
  <2>2. g \in Seq(D) /\ g \in PageAnswers(s, found[Ranked(found)[k]]) /\ g # Failed
    BY <1>4, <2>1 DEF AnswersFor
  <2>3. \A i \in DOMAIN g : g[i] \in D
    BY <2>2, SequencePositions
  <2>4. o \in D
    BY <1>4, <2>1, <2>3 DEF ToSet
  <2>5. OfPage(s, found, got, o)
    BY <1>4, <2>1, <2>2, <2>4 DEF OfPage
  <2>6. o \in OfferSet /\ o.source = s /\ o.id.source = s /\ o.url = found[Ranked(found)[k]].url
    BY <2>1, <2>4 DEF DetailOf
  <2>7. QED
    BY <1>1, <2>5, <2>6
<1>5. PICK T : T = {i \in DOMAIN found : found[i].id \notin ids}
  OBVIOUS
<1>6. PICK others : others = Chosen(found, T)
  OBVIOUS
<1>7. T \subseteq 1 .. Len(found) /\ T \subseteq Int /\ IsFiniteSet(T)
  BY <1>2, <1>5, PositionsFinite
<1>8. others \in Seq({found[i] : i \in T})
  <2>1. PICK W : W = {found[i] : i \in T}
    OBVIOUS
  <2>2. \A i \in T : found[i] \in W
    BY <2>1
  <2>3. Chosen(found, T) \in Seq(W)
    BY <1>7, <2>2, ChosenElements
  <2>4. QED
    BY <1>6, <2>1, <2>3
<1>9. PICK rest : rest = [i \in DOMAIN others |-> CandidateOffer(others[i])]
  OBVIOUS
<1>28. ASSUME NEW i \in T
       PROVE  CandidateOffer(found[i]) \in O /\ CandidateOffer(found[i]).url = found[i].url
  <2>1. ASSUME NEW k \in DOMAIN got, Ranked(found)[k] = i PROVE FALSE
    BY <1>5, <2>1
  <2>2. i \in DOMAIN found
    BY <1>5
  <2>3. QED
    BY <1>3, <2>1, <2>2
<1>10. /\ Len(others) \in Nat /\ DOMAIN others = 1 .. Len(others)
       /\ \A k \in DOMAIN others : others[k] \in {found[i] : i \in T}
  BY <1>8, SequencePositions
<1>11. \A k \in 1 .. Len(others) : rest[k] \in O
  <2>1. SUFFICES ASSUME NEW k \in 1 .. Len(others) PROVE CandidateOffer(others[k]) \in O
    BY <1>9, <1>10
  <2>2. PICK i \in T : others[k] = found[i]
    BY <1>10
  <2>3. QED
    BY <1>28, <2>2
<1>12. rest \in Seq(O)
  BY <1>9, <1>10, <1>11, IsASeq
<1>13. PICK details : details = [i \in DOMAIN got |->
                    IF got[i] = Failed \/ got[i] = <<>> THEN <<CandidateOffer(selected(i))>> ELSE got[i]]
  OBVIOUS
<1>14. PICK n : n = Len(Ranked(found))
  OBVIOUS
<1>15. n \in Nat /\ DOMAIN got = 1 .. n /\ DOMAIN details = 1 .. n
  BY <1>2, <1>13, <1>14 DEF AnswersFor
<1>16. ASSUME NEW i \in 1 .. n
       PROVE  details[i] \in Seq(O) /\ \E o \in ToSet(details[i]) : o.url = selected(i).url
  <2>1. Ranked(found)[i] \in DOMAIN found
    BY <1>2, <1>14
  <2>2. CASE got[i] = Failed \/ got[i] = <<>>
    <3>1. PICK o : o = CandidateOffer(selected(i))
      OBVIOUS
    <3>2. o \in O /\ o.url = selected(i).url
      <4>1. ASSUME NEW k \in DOMAIN got, Ranked(found)[k] = Ranked(found)[i]
            PROVE  got[k] = Failed \/ got[k] = <<>>
        <5>1. k \in DOMAIN Ranked(found) /\ i \in DOMAIN Ranked(found)
          BY <1>2, <1>14, <1>15
        <5>2. k = i
          BY <1>2, <4>1, <5>1
        <5>3. QED
          BY <2>2, <5>2
      <4>2. QED
        BY <1>3, <2>1, <3>1, <4>1
    <3>3. details[i] = <<o>>
      BY <1>13, <1>15, <2>2, <3>1
    <3>4. <<o>> \in Seq(O) /\ o \in ToSet(<<o>>)
      BY <3>2 DEF ToSet
    <3>5. QED
      BY <3>2, <3>3, <3>4
  <2>3. CASE ~(got[i] = Failed \/ got[i] = <<>>)
    <3>1. details[i] = got[i] /\ got[i] # <<>>
      BY <1>13, <1>15, <2>3
    <3>2. got[i] \notin {None, Failed} /\ i \in DOMAIN got
      BY <1>15, <2>3 DEF Presentable
    <3>3. PICK g : g = got[i]
      OBVIOUS
    <3>4. g \in Seq(DetailOf(s, selected(i).url)) /\ g # <<>>
      BY <3>1, <3>2, <3>3 DEF AnswersFor
    <3>5. \A o \in ToSet(g) : o \in O /\ o.url = selected(i).url
      BY <1>4, <3>2, <3>3
    <3>6. Len(g) \in Nat /\ DOMAIN g = 1 .. Len(g) /\ \A j \in DOMAIN g : g[j] \in ToSet(g)
      BY <3>4 DEF ToSet
    <3>7. g \in Seq(O)
      <4>1. g \in [1 .. Len(g) -> O]
        BY <3>4, <3>5, <3>6
      <4>2. QED
        BY <3>6, <4>1, ListedIsFunction
    <3>8. 1 \in DOMAIN g
      BY <3>4
    <3>9. QED
      BY <3>1, <3>3, <3>5, <3>6, <3>7, <3>8
  <2>4. QED
    BY <2>2, <2>3
<1>17. /\ Joined(details) \in Seq(O)
       /\ ToSet(Joined(details)) = UNION {ToSet(details[i]) : i \in 1 .. n}
  BY <1>15, <1>16, JoinedElements
<1>18. PICK all : all = rest \o Joined(details)
  OBVIOUS
<1>19. all \in Seq(O) /\ ToSet(all) = ToSet(rest) \cup ToSet(Joined(details))
  BY <1>12, <1>17, <1>18, ConcatElements
<1>20. all = CollectedFrom(found, got)
  <2>1. others = Only(found, LAMBDA c : c.id \notin ids)
    BY <1>5, <1>6 DEF Only
  <2>2. QED
    BY <1>9, <1>13, <1>18, <2>1 DEF CollectedFrom
<1>21. ASSUME NEW i \in DOMAIN found PROVE \E o \in ToSet(all) : o.url = found[i].url
  <2>1. CASE found[i].id \in ids
    <3>1. PICK k \in DOMAIN got : selected(k).id = found[i].id
      BY <2>1
    <3>2. selected(k) = found[i]
      <4>1. Ranked(found)[k] \in DOMAIN found
        BY <1>2, <1>14, <1>15
      <4>2. QED
        BY <3>1, <4>1 DEF FoundBy
    <3>3. k \in 1 .. n
      BY <1>15
    <3>4. PICK o \in ToSet(details[k]) : o.url = selected(k).url
      BY <1>16, <3>3
    <3>5. o \in ToSet(all)
      BY <1>17, <1>19, <3>3, <3>4
    <3>6. QED
      BY <3>2, <3>4, <3>5
  <2>2. CASE found[i].id \notin ids
    <3>1. found[i] \in ToSet(others)
      <4>1. i \in T
        BY <1>5, <2>2
      <4>2. \A j \in T : found[j] \in CandidateSet
        BY <1>2, <1>7
      <4>3. QED
        BY <1>6, <1>7, <4>1, <4>2, ChosenElements
    <3>2. PICK k \in DOMAIN others : others[k] = found[i]
      BY <3>1 DEF ToSet
    <3>3. k \in DOMAIN rest /\ rest[k] = CandidateOffer(found[i])
      BY <1>9, <3>2
    <3>4. CandidateOffer(found[i]) \in ToSet(rest)
      BY <3>3 DEF ToSet
    <3>5. CandidateOffer(found[i]) \in ToSet(all) /\ CandidateOffer(found[i]).url = found[i].url
      BY <1>5, <1>19, <1>28, <2>2, <3>4
    <3>6. QED
      BY <3>5
  <2>3. QED
    BY <2>1, <2>2
<1>22. Len(all) \in Nat /\ DOMAIN all = 1 .. Len(all) /\ \A k \in DOMAIN all : all[k] \in O
  BY <1>19, SequencePositions
<1>23. \A o \in ToSet(all) : o \in O
  BY <1>22 DEF ToSet
<1>24. O \subseteq {o \in OfferSet : o.source = s /\ o.id.source = s}
  BY <1>1
<1>25. all \in Seq({o \in OfferSet : o.source = s /\ o.id.source = s})
  BY <1>19, <1>24
<1>26. \A o \in O : OfSearch(found, got, o) \/ OfPage(s, found, got, o)
  BY <1>1
<1>27. QED
  BY <1>20, <1>21, <1>23, <1>25, <1>26 DEF CollectedWell

\* Its offers are of the source.
LEMMA CollectedType ==
  ASSUME NEW s \in ToSet(Marketplaces), NEW found, FoundBy(s, found), NEW got,
         AnswersFor(s, found, got), Presentable(found, got)
  PROVE  CollectedFrom(found, got) \in Seq({o \in OfferSet : o.source = s /\ o.id.source = s})
BY CollectedIsWell DEF CollectedWell

-----------------------------------------------------------------------------
(* Steps *)

\* Nothing has been searched: the invariant holds.
LEMMA FlowStarts == Init => FlowOK
<1>1. SUFFICES ASSUME Init PROVE FlowOK
  OBVIOUS
<1>2. \A s \in Sources : CollectorOK(s, phase[s], candidates[s], answers[s], collected[s])
  BY <1>1 DEF Init, CollectorOK
<1>3. SourcesOK
  BY <1>1, <1>2 DEF Init, SourcesOK, Phases
<1>4. ResultsOK
  BY <1>1 DEF Init, ResultsOK
<1>5. QED
  BY <1>3, <1>4 DEF FlowOK

\* A step of one collector leaves the others alone.
LEMMA CollectorStep ==
  ASSUME SourcesOK, NEW s \in Sources, registry' = registry,
         NEW at \in Phases, NEW found \in Seq(CandidateSet),
         NEW got \in Seq({None, Failed} \cup Seq(OfferSet)), NEW offers \in Seq(OfferSet),
         phase' = [phase EXCEPT ![s] = at], candidates' = [candidates EXCEPT ![s] = found],
         answers' = [answers EXCEPT ![s] = got], collected' = [collected EXCEPT ![s] = offers],
         CollectorOK(s, at, found, got, offers)
  PROVE  SourcesOK'
<1>1. Sources' = Sources
  BY DEF Sources
<1>2. /\ phase' \in [Sources -> Phases]
      /\ candidates' \in [Sources -> Seq(CandidateSet)]
      /\ answers' \in [Sources -> Seq({None, Failed} \cup Seq(OfferSet))]
      /\ collected' \in [Sources -> Seq(OfferSet)]
  BY DEF SourcesOK
<1>3. ASSUME NEW t \in Sources
      PROVE  CollectorOK(t, phase'[t], candidates'[t], answers'[t], collected'[t])
  <2>1. CASE t = s
    <3>1. phase'[s] = at /\ candidates'[s] = found /\ answers'[s] = got /\ collected'[s] = offers
      BY DEF SourcesOK
    <3>2. QED
      BY <2>1, <3>1
  <2>2. CASE t # s
    <3>1. /\ phase'[t] = phase[t] /\ candidates'[t] = candidates[t]
          /\ answers'[t] = answers[t] /\ collected'[t] = collected[t]
      BY <2>2 DEF SourcesOK
    <3>2. CollectorOK(t, phase[t], candidates[t], answers[t], collected[t])
      BY DEF SourcesOK
    <3>3. QED
      BY <3>1, <3>2
  <2>3. QED
    BY <2>1, <2>2
<1>4. QED
  BY <1>1, <1>2, <1>3 DEF SourcesOK

\* A search answers.
LEMMA SearchAnswersStep ==
  ASSUME FlowOK, NEW s \in Sources, SearchAnswers(s)
  PROVE  SourcesOK'
<1>1. SourcesOK /\ s \in ToSet(Marketplaces)
  BY SourceNames DEF FlowOK, SourcesOK
<1>2. PICK page \in SearchPages[s] :
        LET found == FirstWins(FirstOf(MaxCandidates, SearchCandidates(s, page)), LAMBDA c : c.id)
        IN  /\ candidates' = [candidates EXCEPT ![s] = found]
            /\ answers' = [answers EXCEPT ![s] = [i \in DOMAIN Ranked(found) |-> None]]
  BY DEF SearchAnswers
<1>3. PICK found : found = FirstWins(FirstOf(MaxCandidates, SearchCandidates(s, page)), LAMBDA c : c.id)
  OBVIOUS
<1>4. PICK got : got = [i \in DOMAIN Ranked(found) |-> None]
  OBVIOUS
<1>5. FoundBy(s, found)
  BY <1>1, <1>3, FoundCandidates
<1>6. found \in Seq(CandidateSet)
  <2>1. CandidatesOf(s) \subseteq CandidateSet
    BY DEF CandidatesOf
  <2>2. QED
    BY <1>5, <2>1 DEF FoundBy
<1>7. DOMAIN Ranked(found) = 1 .. Len(Ranked(found)) /\ Len(Ranked(found)) \in Nat
  BY <1>1, <1>5, RankedFound
<1>8. got \in Seq({None, Failed} \cup Seq(OfferSet)) /\ AnswersFor(s, found, got)
  <2>1. got \in [1 .. Len(Ranked(found)) -> {None, Failed} \cup Seq(OfferSet)]
    BY <1>4, <1>7
  <2>2. got \in Seq({None, Failed} \cup Seq(OfferSet))
    BY <1>7, <2>1, ListedIsFunction
  <2>3. QED
    BY <1>4, <2>2 DEF AnswersFor
<1>9. /\ phase[s] = "searching" /\ registry' = registry
      /\ phase' = [phase EXCEPT ![s] = "details"] /\ collected' = collected
  BY DEF SearchAnswers
<1>10. collected[s] = <<>> /\ collected' = [collected EXCEPT ![s] = <<>>]
  BY <1>1, <1>9 DEF SourcesOK, CollectorOK
<1>11. candidates' = [candidates EXCEPT ![s] = found] /\ answers' = [answers EXCEPT ![s] = got]
  BY <1>2, <1>3, <1>4
<1>12. CollectorOK(s, "details", found, got, <<>>) /\ "details" \in Phases
  BY <1>5, <1>8 DEF CollectorOK, Phases
<1>14. <<>> \in Seq(OfferSet)
  OBVIOUS
<1>13. QED
  BY <1>1, <1>6, <1>8, <1>14, <1>9, <1>10, <1>11, <1>12, CollectorStep

\* A search fails.
LEMMA SearchFailsStep ==
  ASSUME FlowOK, NEW s \in Sources, SearchFails(s)
  PROVE  SourcesOK'
<1>1. SourcesOK
  BY DEF FlowOK
<1>2. /\ phase[s] = "searching" /\ registry' = registry /\ phase' = [phase EXCEPT ![s] = "failed"]
      /\ candidates' = candidates /\ answers' = answers /\ collected' = collected
  BY DEF SearchFails
<1>3. candidates[s] = <<>> /\ answers[s] = <<>> /\ collected[s] = <<>>
  BY <1>1, <1>2 DEF SourcesOK, CollectorOK
<1>4. /\ candidates' = [candidates EXCEPT ![s] = <<>>] /\ answers' = [answers EXCEPT ![s] = <<>>]
      /\ collected' = [collected EXCEPT ![s] = <<>>]
  BY <1>1, <1>2, <1>3 DEF SourcesOK
<1>5. CollectorOK(s, "failed", <<>>, <<>>, <<>>) /\ "failed" \in Phases
  BY DEF CollectorOK, Phases
<1>6. <<>> \in Seq(CandidateSet) /\ <<>> \in Seq({None, Failed} \cup Seq(OfferSet)) /\ <<>> \in Seq(OfferSet)
  OBVIOUS
<1>7. QED
  BY <1>1, <1>2, <1>4, <1>5, <1>6, CollectorStep

\* A page answers with the offers of its product, or fails.
LEMMA DetailStepOK ==
  ASSUME FlowOK, NEW s \in Sources, DetailStep(s)
  PROVE  SourcesOK'
<1>1. SourcesOK /\ s \in ToSet(Marketplaces)
  BY SourceNames DEF FlowOK, SourcesOK
<1>2. PICK found, got : found = candidates[s] /\ got = answers[s]
  OBVIOUS
<1>3. PICK i \in DOMAIN answers[s] : DetailAnswers(s, i) \/ DetailFails(s, i)
  BY DEF DetailStep
<1>4. /\ phase[s] = "details" /\ registry' = registry /\ phase' = phase
      /\ candidates' = candidates /\ collected' = collected
  BY <1>3 DEF DetailAnswers, DetailFails
<1>5. FoundBy(s, found) /\ AnswersFor(s, found, got) /\ collected[s] = <<>>
  BY <1>1, <1>2, <1>4 DEF SourcesOK, CollectorOK
<1>6. PICK url : url = found[Ranked(found)[i]].url
  OBVIOUS
<1>7. /\ url \in Urls /\ Ranked(found)[i] \in DOMAIN found
      /\ found[Ranked(found)[i]].id \in DOMAIN ProductPages[s]
      /\ DOMAIN got = 1 .. Len(Ranked(found)) /\ Len(Ranked(found)) \in Nat
  <2>1. /\ DOMAIN got = 1 .. Len(Ranked(found)) /\ Len(Ranked(found)) \in Nat
        /\ Ranked(found)[i] \in DOMAIN found
    BY <1>1, <1>2, <1>3, <1>5, RankedFound DEF AnswersFor
  <2>2. QED
    BY <1>1, <1>5, <1>6, <2>1, FoundUrl, FoundPages
<1>8. \E answer \in {Failed} \cup Seq(DetailOf(s, url)) :
        /\ answer \in {Failed} \cup PageAnswers(s, found[Ranked(found)[i]])
        /\ answers' = [answers EXCEPT ![s][i] = answer]
  <2>1. CASE DetailFails(s, i)
    BY <2>1 DEF DetailFails
  <2>2. CASE DetailAnswers(s, i)
    <3>1. Selected(s, i) = found[Ranked(found)[i]]
      BY <1>2 DEF Selected
    <3>2. PICK page \in Readable(ProductPages[s][found[Ranked(found)[i]].id]) :
            answers' = [answers EXCEPT ![s][i] = ProductOffers(s, page, url)]
      BY <1>6, <2>2, <3>1 DEF DetailAnswers
    <3>3. page \in ProductDocuments /\ PageTitle(page) # {}
      BY <1>1, <1>7, <3>2, OfferFlowAssumption DEF Readable
    <3>4. ProductOffers(s, page, url) \in Seq(DetailOf(s, url))
      BY <1>1, <1>7, <3>3, OfferFlowAssumption, ProductOffersType
    <3>5. ProductOffers(s, page, url) \in PageAnswers(s, found[Ranked(found)[i]])
      BY <1>6, <3>2 DEF PageAnswers
    <3>6. QED
      BY <3>2, <3>4, <3>5
  <2>3. QED
    BY <1>3, <2>1, <2>2
<1>9. PICK answer \in {Failed} \cup Seq(DetailOf(s, url)) :
        /\ answer \in {Failed} \cup PageAnswers(s, found[Ranked(found)[i]])
        /\ answers' = [answers EXCEPT ![s][i] = answer]
  BY <1>8
<1>10. PICK next : next = [got EXCEPT ![i] = answer]
  OBVIOUS
<1>11. got \in Seq({None, Failed} \cup Seq(OfferSet)) /\ i \in 1 .. Len(Ranked(found))
  BY <1>2, <1>3, <1>5, <1>7 DEF AnswersFor
<1>12. answers' = [answers EXCEPT ![s] = next]
  BY <1>2, <1>9, <1>10
<1>13. answer \in {None, Failed} \cup Seq(OfferSet)
  <2>1. DetailOf(s, url) \subseteq OfferSet
    BY DEF DetailOf
  <2>2. Seq(DetailOf(s, url)) \subseteq Seq(OfferSet)
    BY <2>1
  <2>3. QED
    BY <2>2
<1>14. /\ DOMAIN next = DOMAIN got
       /\ \A j \in DOMAIN got : next[j] = IF j = i THEN answer ELSE got[j]
  BY <1>10
<1>15. next \in Seq({None, Failed} \cup Seq(OfferSet))
  <2>1. PICK A : A = {None, Failed} \cup Seq(OfferSet)
    OBVIOUS
  <2>2. \A j \in DOMAIN got : got[j] \in A
    BY <1>11, <2>1, SequencePositions
  <2>3. next \in [1 .. Len(Ranked(found)) -> A]
    BY <1>7, <1>10, <1>13, <2>1, <2>2
  <2>4. QED
    BY <1>7, <2>1, <2>3, ListedIsFunction
<1>16. AnswersFor(s, found, next)
  <2>1. ASSUME NEW j \in DOMAIN next
        PROVE  /\ next[j] \in {None, Failed} \cup Seq(DetailOf(s, found[Ranked(found)[j]].url))
               /\ next[j] \in {None, Failed} \cup PageAnswers(s, found[Ranked(found)[j]])
    <3>1. CASE j = i
      BY <1>6, <1>9, <1>14, <3>1
    <3>2. CASE j # i
      BY <1>5, <1>14, <3>2 DEF AnswersFor
    <3>3. QED
      BY <3>1, <3>2
  <2>2. QED
    BY <1>5, <1>14, <1>15, <2>1 DEF AnswersFor
<1>17. /\ phase' = [phase EXCEPT ![s] = "details"] /\ candidates' = [candidates EXCEPT ![s] = found]
       /\ collected' = [collected EXCEPT ![s] = <<>>] /\ found \in Seq(CandidateSet)
  BY <1>1, <1>2, <1>4, <1>5 DEF SourcesOK
<1>18. CollectorOK(s, "details", found, next, <<>>) /\ "details" \in Phases
  BY <1>5, <1>16 DEF CollectorOK, Phases
<1>20. <<>> \in Seq(OfferSet)
  OBVIOUS
<1>19. QED
  BY <1>1, <1>4, <1>12, <1>20, <1>15, <1>17, <1>18, CollectorStep

\* All pages of a source have answered or failed: its offers are collected.
LEMMA CollectStep ==
  ASSUME FlowOK, NEW s \in Sources, Collect(s)
  PROVE  SourcesOK'
<1>1. SourcesOK
  BY DEF FlowOK
<1>2. PICK found, got : found = candidates[s] /\ got = answers[s]
  OBVIOUS
<1>3. /\ phase[s] = "details" /\ registry' = registry /\ phase' = [phase EXCEPT ![s] = "collected"]
      /\ candidates' = candidates /\ answers' = answers
      /\ \A i \in DOMAIN got : got[i] # None
      /\ \A c \in AsFound(s) : c.title # {}
  BY <1>2 DEF Collect, Fetched
<1>4. FoundBy(s, found) /\ AnswersFor(s, found, got)
  BY <1>1, <1>2, <1>3 DEF SourcesOK, CollectorOK
<1>5. collected' = [collected EXCEPT ![s] = CollectedFrom(found, got)]
  <2>1. PICK ids : ids = {found[Ranked(found)[i]].id : i \in DOMAIN got}
    OBVIOUS
  <2>2. PICK others : others = Only(found, LAMBDA c : c.id \notin ids)
    OBVIOUS
  <2>3. PICK details : details = [i \in DOMAIN got |->
           IF got[i] = Failed \/ got[i] = <<>> THEN <<CandidateOffer(found[Ranked(found)[i]])>> ELSE got[i]]
    OBVIOUS
  <2>4. CollectedFrom(found, got) = [i \in DOMAIN others |-> CandidateOffer(others[i])] \o Joined(details)
    BY <2>1, <2>2, <2>3 DEF CollectedFrom
  <2>5. details = [i \in DOMAIN answers[s] |-> DetailOffers(s, i)]
    BY <1>2, <2>3 DEF DetailOffers, Selected
  <2>6. ids = {Selected(s, i).id : i \in DOMAIN answers[s]}
    BY <1>2, <2>1 DEF Selected
  <2>7. others = Only(candidates[s], LAMBDA c : c.id \notin {Selected(s, i).id : i \in DOMAIN answers[s]})
    BY <1>2, <2>2, <2>6
  <2>8. collected' = [collected EXCEPT ![s] =
           [i \in DOMAIN others |-> CandidateOffer(others[i])]
           \o Joined([i \in DOMAIN answers[s] |-> DetailOffers(s, i)])]
    BY <2>7 DEF Collect
  <2>9. QED
    BY <2>4, <2>5, <2>8
<1>6. /\ candidates' = [candidates EXCEPT ![s] = found] /\ answers' = [answers EXCEPT ![s] = got]
      /\ found \in Seq(CandidateSet) /\ got \in Seq({None, Failed} \cup Seq(OfferSet))
  BY <1>1, <1>2, <1>3 DEF SourcesOK
<1>9. s \in ToSet(Marketplaces)
  BY <1>1, SourceNames DEF SourcesOK
<1>11. Presentable(found, got)
  <2>1. SUFFICES ASSUME NEW i \in DOMAIN found,
                        \A k \in DOMAIN got : Ranked(found)[k] = i => got[k] = Failed \/ got[k] = <<>>
                 PROVE  found[i] \in AsFound(s)
    BY <1>3 DEF Presentable
  <2>2. found[i] \in ToSet(candidates[s])
    BY <1>2 DEF ToSet
  <2>3. \A k \in DOMAIN got : Selected(s, k) = found[Ranked(found)[k]]
    BY <1>2 DEF Selected
  <2>4. CASE \E k \in DOMAIN got : Selected(s, k).id = found[i].id
    <3>1. PICK k \in DOMAIN got : found[Ranked(found)[k]].id = found[i].id
      BY <2>3, <2>4
    <3>2. Ranked(found)[k] \in DOMAIN found
      BY <1>4, <1>9, RankedFound DEF AnswersFor
    <3>3. Ranked(found)[k] = i
      BY <1>4, <3>1, <3>2 DEF FoundBy
    <3>4. got[k] = Failed \/ got[k] = <<>>
      BY <2>1, <3>3
    <3>5. QED
      BY <1>2, <2>3, <3>3, <3>4 DEF AsFound
  <2>5. CASE \A k \in DOMAIN got : Selected(s, k).id # found[i].id
    BY <1>2, <2>2, <2>5 DEF AsFound
  <2>6. QED
    BY <2>4, <2>5
<1>7. CollectorOK(s, "collected", found, got, CollectedFrom(found, got)) /\ "collected" \in Phases
  BY <1>4, <1>11 DEF CollectorOK, Phases
<1>8. CollectedFrom(found, got) \in Seq(OfferSet)
  <2>1. PICK O : O = {o \in OfferSet : o.source = s /\ o.id.source = s}
    OBVIOUS
  <2>2. CollectedFrom(found, got) \in Seq(O)
    BY <1>4, <1>9, <1>11, <2>1, CollectedType
  <2>3. QED
    BY <2>1, <2>2
<1>10. QED
  BY <1>1, <1>3, <1>5, <1>6, <1>7, <1>8, CollectorStep

\* All pages have answered or failed, but a candidate cannot be shown.
LEMMA CollectRaisesStep ==
  ASSUME FlowOK, NEW s \in Sources, CollectRaises(s)
  PROVE  SourcesOK'
<1>1. SourcesOK
  BY DEF FlowOK
<1>2. PICK found, got : found = candidates[s] /\ got = answers[s]
  OBVIOUS
<1>3. /\ phase[s] = "details" /\ registry' = registry /\ phase' = [phase EXCEPT ![s] = "raised"]
      /\ candidates' = candidates /\ answers' = answers /\ collected' = collected
  BY DEF CollectRaises, Fetched
<1>4. FoundBy(s, found) /\ AnswersFor(s, found, got) /\ collected[s] = <<>>
  BY <1>1, <1>2, <1>3 DEF SourcesOK, CollectorOK
<1>5. /\ candidates' = [candidates EXCEPT ![s] = found] /\ answers' = [answers EXCEPT ![s] = got]
      /\ collected' = [collected EXCEPT ![s] = <<>>]
      /\ found \in Seq(CandidateSet) /\ got \in Seq({None, Failed} \cup Seq(OfferSet))
  BY <1>1, <1>2, <1>3, <1>4 DEF SourcesOK
<1>6. CollectorOK(s, "raised", found, got, <<>>) /\ "raised" \in Phases
  BY <1>4 DEF CollectorOK, Phases
<1>7. <<>> \in Seq(OfferSet)
  OBVIOUS
<1>8. QED
  BY <1>1, <1>3, <1>5, <1>6, <1>7, CollectorStep

\* A collector that takes a step keeps a snapshot from having been made.
LEMMA FlowStep == FlowOK /\ [Next]_vars => FlowOK'
<1>1. SUFFICES ASSUME FlowOK, [Next]_vars PROVE FlowOK'
  OBVIOUS
<1>2. SourcesOK /\ ResultsOK
  BY <1>1 DEF FlowOK
<1>3. ASSUME NEW s \in Sources, SourceStep(s) PROVE FlowOK'
  <2>1. /\ phase[s] \in {"searching", "details"}
        /\ registry' = registry /\ snapshot' = snapshot /\ dataset' = dataset
    BY <1>3 DEF SourceStep, SearchAnswers, SearchFails, DetailStep, DetailAnswers, DetailFails,
                Collect, CollectRaises, Fetched
  <2>2. SourcesOK'
    BY <1>1, <1>3, SearchAnswersStep, SearchFailsStep, DetailStepOK, CollectStep,
       CollectRaisesStep DEF SourceStep
  <2>3. snapshot = None /\ dataset = None
    BY <1>2, <2>1 DEF ResultsOK
  <2>4. QED
    BY <2>1, <2>2, <2>3 DEF FlowOK, ResultsOK
<1>4. ASSUME Merge PROVE FlowOK'
  <2>1. /\ registry' = registry /\ phase' = phase /\ candidates' = candidates /\ answers' = answers
        /\ collected' = collected /\ dataset' = dataset /\ snapshot = None
        /\ \A s \in Sources : phase[s] \in {"collected", "failed"}
        /\ snapshot' = SnapshotOf(Merged)
    BY <1>4 DEF Merge, SnapshotOf, Merged
  <2>2. SourcesOK' /\ Sources' = Sources /\ Merged' = Merged
    BY <1>2, <2>1 DEF SourcesOK, Sources, Merged
  <2>3. dataset = None
    BY <1>2, <2>1 DEF ResultsOK
  <2>4. QED
    BY <2>1, <2>2, <2>3 DEF FlowOK, ResultsOK
<1>5. ASSUME Compact PROVE FlowOK'
  <2>1. /\ registry' = registry /\ phase' = phase /\ candidates' = candidates /\ answers' = answers
        /\ collected' = collected /\ snapshot' = snapshot /\ snapshot # None
        /\ \E budget \in Budgets : dataset' = DatasetFor(budget, snapshot)
    BY <1>5 DEF Compact, DatasetFor
  <2>2. SourcesOK' /\ Sources' = Sources /\ Merged' = Merged
    BY <1>2, <2>1 DEF SourcesOK, Sources, Merged
  <2>3. QED
    BY <1>2, <2>1, <2>2 DEF FlowOK, ResultsOK
<1>6. CASE UNCHANGED vars
  <2>1. /\ registry' = registry /\ phase' = phase /\ candidates' = candidates /\ answers' = answers
        /\ collected' = collected /\ snapshot' = snapshot /\ dataset' = dataset
    BY <1>6 DEF vars
  <2>2. SourcesOK' /\ Sources' = Sources /\ Merged' = Merged
    BY <1>2, <2>1 DEF SourcesOK, Sources, Merged
  <2>3. QED
    BY <1>2, <2>1, <2>2 DEF FlowOK, ResultsOK
<1>7. QED
  BY <1>1, <1>3, <1>4, <1>5, <1>6 DEF Next

\* The invariant of the flow.
LEMMA FlowAlways == Spec => []FlowOK
BY FlowStarts, FlowStep, PTL DEF Spec

-----------------------------------------------------------------------------
(* Types *)

\* The class of an offer is one of the enumeration.
LEMMA ClassNames ==
  ASSUME NEW query, NEW offer, NEW reports
  PROVE  ClassOf(query, offer, reports) \in Classes
BY DEF ClassOf, ClassifyPrice, Classes

\* What the sources contribute.
LEMMA CollectedOffers ==
  ASSUME SourcesOK, NEW s \in Sources
  PROVE  /\ s \in ToSet(Marketplaces)
         /\ collected[s] \in Seq({o \in OfferSet : o.source = s /\ o.id.source = s})
<1>1. s \in ToSet(Marketplaces)
  BY SourceNames DEF SourcesOK
<1>2. CollectorOK(s, phase[s], candidates[s], answers[s], collected[s])
  BY DEF SourcesOK
<1>3. CASE phase[s] = "collected"
  <2>1. /\ FoundBy(s, candidates[s]) /\ AnswersFor(s, candidates[s], answers[s])
        /\ Presentable(candidates[s], answers[s])
        /\ collected[s] = CollectedFrom(candidates[s], answers[s])
    BY <1>2, <1>3 DEF CollectorOK
  <2>2. CollectedFrom(candidates[s], answers[s]) \in Seq({o \in OfferSet : o.source = s /\ o.id.source = s})
    BY <1>1, <2>1, CollectedType
  <2>3. QED
    BY <1>1, <2>1, <2>2
<1>4. CASE phase[s] # "collected"
  <2>1. collected[s] = <<>>
    BY <1>2, <1>4 DEF CollectorOK
  <2>2. PICK O : O = {o \in OfferSet : o.source = s /\ o.id.source = s}
    OBVIOUS
  <2>3. <<>> \in Seq(O)
    OBVIOUS
  <2>4. QED
    BY <1>1, <2>1, <2>2, <2>3
<1>5. QED
  BY <1>3, <1>4

\* The merged offers: what was collected, each id once.
LEMMA MergedOffers ==
  ASSUME SourcesOK
  PROVE  /\ Merged \in Seq(OfferSet)
         /\ \A o \in ToSet(Merged) : \E s \in Sources : o \in ToSet(collected[s])
         /\ \A s \in Sources : \A o \in ToSet(collected[s]) : \E p \in ToSet(Merged) : p.id = o.id
         /\ \A i, j \in DOMAIN Merged : Merged[i].id = Merged[j].id => i = j
<1>1. PICK n, ss : n = Len(registry) /\ ss = [i \in DOMAIN registry |-> collected[registry[i]]]
  OBVIOUS
<1>2. registry \in Seq(ToSet(Marketplaces))
  BY SourceNames DEF SourcesOK
<1>3. n \in Nat /\ DOMAIN registry = 1 .. n /\ DOMAIN ss = 1 .. n
  BY <1>1, <1>2
<1>4. Sources = {registry[i] : i \in 1 .. n}
  BY <1>3 DEF Sources, ToSet
<1>5. \A i \in 1 .. n : ss[i] = collected[registry[i]] /\ registry[i] \in Sources
  BY <1>1, <1>3, <1>4
<1>6. \A i \in 1 .. n : ss[i] \in Seq(OfferSet)
  BY <1>5 DEF SourcesOK
<1>7. PICK all : all = Joined(ss)
  OBVIOUS
<1>8. all \in Seq(OfferSet) /\ ToSet(all) = UNION {ToSet(ss[i]) : i \in 1 .. n}
  BY <1>3, <1>6, <1>7, JoinedElements
<1>9. PICK merged : merged = Merged
  OBVIOUS
<1>10. merged = FirstWins(all, LAMBDA o : o.id)
  BY <1>1, <1>7, <1>9 DEF Merged, Deduplicated
<1>11. /\ merged \in Seq(OfferSet) /\ ToSet(merged) \subseteq ToSet(all)
       /\ \A x \in ToSet(all) : \E y \in ToSet(merged) : y.id = x.id
       /\ \A i, j \in DOMAIN merged : merged[i].id = merged[j].id => i = j
  BY <1>8, <1>10, FirstOfEachId
<1>12. \A o \in ToSet(merged) : \E s \in Sources : o \in ToSet(collected[s])
  BY <1>5, <1>8, <1>11
<1>13. \A s \in Sources : \A o \in ToSet(collected[s]) : \E p \in ToSet(merged) : p.id = o.id
  <2>1. SUFFICES ASSUME NEW s \in Sources, NEW o \in ToSet(collected[s])
                 PROVE  \E p \in ToSet(merged) : p.id = o.id
    OBVIOUS
  <2>2. PICK i \in 1 .. n : s = registry[i]
    BY <1>4
  <2>3. o \in ToSet(all)
    BY <1>5, <1>8, <2>2
  <2>4. QED
    BY <1>11, <2>3
<1>14. QED
  BY <1>9, <1>11, <1>12, <1>13

\* Whatever the pages of the marketplaces contain, titles without words among
\* it, everything that is collected has the fields and values the models of
\* domain/ admit: a title with words, the source that collected it, a price of at
\* least zero or none; no source keeps more candidates or asks for more pages
\* than the limits (TypeOK).  That a source collects at all is not said: one that
\* has to show a candidate whose title has no words raises (CollectRaises).
THEOREM OffersWellTyped == Spec => []TypeOK
<1>1. ASSUME FlowOK PROVE TypeOK
  <2>1. SourcesOK /\ ResultsOK
    BY <1>1 DEF FlowOK
  <2>2. ASSUME NEW s \in Sources
        PROVE  /\ Len(answers[s]) <= MaxDetails /\ Len(candidates[s]) <= MaxCandidates
               /\ \A o \in ToSet(collected[s]) : o.source = s /\ o.id.source = s
    <3>1. CollectorOK(s, phase[s], candidates[s], answers[s], collected[s]) /\ phase[s] \in Phases
      BY <2>1 DEF SourcesOK
    <3>2. s \in ToSet(Marketplaces)
      BY <2>1, SourceNames DEF SourcesOK
    <3>3. MaxDetails \in Nat /\ MaxCandidates \in Nat
      BY OfferFlowAssumption
    <3>5. \A o \in ToSet(collected[s]) : o.source = s /\ o.id.source = s
      <4>1. PICK O : O = {o \in OfferSet : o.source = s /\ o.id.source = s}
        OBVIOUS
      <4>2. collected[s] \in Seq(O)
        BY <2>1, <4>1, CollectedOffers
      <4>3. \A i \in DOMAIN collected[s] : collected[s][i] \in O
        BY <4>2, SequencePositions
      <4>4. QED
        BY <4>1, <4>3 DEF ToSet
    <3>4. CASE phase[s] \in {"searching", "failed"}
      <4>1. candidates[s] = <<>> /\ answers[s] = <<>>
        BY <3>1, <3>4 DEF CollectorOK
      <4>2. Len(answers[s]) <= MaxDetails /\ Len(candidates[s]) <= MaxCandidates
        BY <3>3, <4>1
      <4>3. QED
        BY <4>2, <3>5
    <3>6. CASE phase[s] \in {"details", "collected", "raised"}
      <4>1. FoundBy(s, candidates[s]) /\ AnswersFor(s, candidates[s], answers[s])
        BY <3>1, <3>6 DEF CollectorOK
      <4>2. PICK m : m = Len(Ranked(candidates[s]))
        OBVIOUS
      <4>3. m \in Nat /\ m <= MaxDetails /\ DOMAIN answers[s] = 1 .. m
        BY <3>2, <4>1, <4>2, RankedFound DEF AnswersFor
      <4>4. Len(answers[s]) = m
        <5>1. answers[s] \in Seq({None, Failed} \cup Seq(OfferSet))
          BY <4>1 DEF AnswersFor
        <5>2. QED
          BY <4>3, <5>1, LenProperties
      <4>5. Len(candidates[s]) <= MaxCandidates
        BY <4>1 DEF FoundBy
      <4>6. QED
        BY <3>5, <4>3, <4>4, <4>5
    <3>7. QED
      BY <3>1, <3>4, <3>6 DEF Phases
  <2>3. ASSUME snapshot # None
        PROVE  /\ snapshot.offers \in Seq(OfferSet)
               /\ \A id \in DOMAIN snapshot.analysis.classes : snapshot.analysis.classes[id] \in Classes
    <3>1. snapshot.offers = Merged /\ snapshot.analysis = Analyse(Query, Merged)
      BY <2>1, <2>3 DEF ResultsOK, SnapshotOf
    <3>2. Merged \in Seq(OfferSet)
      BY <2>1, MergedOffers
    <3>3. PICK analysis : analysis = Analyse(Query, Merged)
      OBVIOUS
    <3>4. \A id \in DOMAIN analysis.classes : analysis.classes[id] \in Classes
      BY <3>3, ClassNames DEF Analyse
    <3>5. QED
      BY <3>1, <3>2, <3>3, <3>4
  <2>4. QED
    BY <2>1, <2>2, <2>3 DEF TypeOK, SourcesOK
<1>2. QED
  BY <1>1, FlowAlways, PTL

-----------------------------------------------------------------------------
(* The selected offers *)

\* The offers before each in the ranking.
RankedBelow(S, analysis) == [o \in S |-> {p \in S : RankedBefore(analysis, p, o)}]

\* How the selection arranges the offers: ranked, then the first of each
\* source (those at the positions of T) before the others.
ArrangedFor(offers, analysis, ranked, T, all) ==
  /\ ranked \in Seq(ToSet(offers)) /\ Len(ranked) = Len(offers)
  /\ Enumerates(ranked, ToSet(offers), RankedBelow(ToSet(offers), analysis))
  /\ T = Firsts(Len(offers), [i \in 1 .. Len(offers) |-> ranked[i].source])
  /\ all = Chosen(ranked, T) \o Chosen(ranked, (1 .. Len(offers)) \ T)
  /\ all \in Seq(ToSet(offers)) /\ Len(all) = Len(offers)
  /\ \A limit : SelectedOffers(offers, analysis, limit) = FirstOf(limit, all)

\* The selection is the beginning of an arrangement of all offers.
LEMMA SelectionArranges ==
  ASSUME NEW offers, Distinct(offers), NEW analysis
  PROVE  \E ranked, T, all : ArrangedFor(offers, analysis, ranked, T, all)
<1>1. PICK n, S : n = Len(offers) /\ S = ToSet(offers)
  OBVIOUS
<1>2. /\ n \in Nat /\ IsFiniteSet(S) /\ Cardinality(S) = n
      /\ \A o \in S : o.id \in OfferIds
      /\ \A o, p \in S : o.id = p.id => o = p
  BY <1>1, DistinctOffers
<1>3. PICK ranked : ranked = InOrder(S, LAMBDA a, b : RankedBefore(analysis, a, b))
  OBVIOUS
<1>4. Enumerates(ranked, S, RankedBelow(S, analysis))
  <2>1. Enumerates(ranked, S, [o \in S |-> {p \in S : RankedBefore(analysis, p, o)}])
    BY <1>2, <1>3, RankedOffers
  <2>2. QED
    BY <2>1 DEF RankedBelow
<1>5. /\ ranked \in [1 .. n -> S]
      /\ \A i, j \in 1 .. n : ranked[i] = ranked[j] => i = j
  BY <1>2, <1>4 DEF Enumerates
<1>6. ranked \in Seq(S) /\ Len(ranked) = n /\ DOMAIN ranked = 1 .. n
  BY <1>2, <1>5, ListedIsFunction
<1>7. PICK T : T = Firsts(n, [i \in 1 .. n |-> ranked[i].source])
  OBVIOUS
<1>8. T = {i \in DOMAIN ranked : \A j \in DOMAIN ranked : j < i => ranked[j].source # ranked[i].source}
  BY <1>6, <1>7 DEF Firsts
<1>9. PICK firsts : firsts = Chosen(ranked, T)
  OBVIOUS
<1>10. FirstWins(ranked, LAMBDA o : o.source) = firsts
  BY <1>8, <1>9 DEF FirstWins
<1>11. T \subseteq 1 .. n /\ (1 .. n) \ T \subseteq 1 .. n
  BY <1>6, <1>8
<1>12. PICK U : U = (1 .. n) \ T
  OBVIOUS
<1>13. /\ T \subseteq Int /\ IsFiniteSet(T) /\ Cardinality(T) \in Nat
       /\ U \subseteq Int /\ IsFiniteSet(U) /\ Cardinality(U) \in Nat
  BY <1>2, <1>11, <1>12, PositionsFinite
<1>14. \A i \in 1 .. n : ranked[i] \in S
  BY <1>5
<1>15. /\ firsts \in Seq(S) /\ Len(firsts) = Cardinality(T)
       /\ \A i \in T : ranked[i] \in ToSet(firsts)
  BY <1>9, <1>11, <1>13, <1>14, ChosenElements
<1>16. \A x \in ToSet(firsts) : \E i \in T : x = ranked[i]
  <2>1. Follows(Chosen(ranked, T), ranked, T)
    BY <1>13, ChosenInOrder
  <2>2. QED
    BY <1>9, <2>1 DEF Follows
<1>17. PICK ids : ids = {o.id : o \in ToSet(firsts)}
  OBVIOUS
<1>18. \A i \in 1 .. n : ranked[i].id \notin ids <=> i \in U
  <2>1. ASSUME NEW i \in 1 .. n, ranked[i].id \notin ids, i \in T PROVE FALSE
    <3>1. ranked[i] \in ToSet(firsts)
      BY <1>15, <2>1
    <3>2. QED
      BY <1>17, <2>1, <3>1
  <2>2. ASSUME NEW i \in 1 .. n, ranked[i].id \in ids PROVE i \in T
    <3>1. PICK o \in ToSet(firsts) : o.id = ranked[i].id
      BY <1>17, <2>2
    <3>2. PICK j \in T : o = ranked[j]
      BY <1>16
    <3>3. j \in 1 .. n /\ ranked[j] \in S /\ ranked[i] \in S /\ ranked[j].id = ranked[i].id
      BY <1>11, <1>14, <3>1, <3>2
    <3>4. ranked[j] = ranked[i]
      BY <1>2, <3>3
    <3>5. QED
      BY <1>5, <3>3, <3>4
  <2>3. QED
    BY <1>12, <2>1, <2>2
<1>19. Only(ranked, LAMBDA o : o.id \notin ids) = Chosen(ranked, U)
  <2>1. {i \in DOMAIN ranked : ranked[i].id \notin ids} = U
    BY <1>6, <1>12, <1>18
  <2>2. QED
    BY <2>1 DEF Only
<1>20. PICK rest : rest = Chosen(ranked, U)
  OBVIOUS
<1>21. rest \in Seq(S) /\ Len(rest) = Cardinality(U)
  BY <1>12, <1>13, <1>14, <1>20, ChosenElements
<1>22. Cardinality(T) + Cardinality(U) = n
  <2>1. T \cup U = 1 .. n /\ T \cap U = {}
    BY <1>11, <1>12
  <2>2. Cardinality(T \cup U) = Cardinality(T) + Cardinality(U) - Cardinality(T \cap U)
    BY <1>13, FS_Union
  <2>3. Cardinality({}) = 0
    BY FS_EmptySet
  <2>4. Cardinality(1 .. n) = n
    <3>1. 1 \in Int /\ n \in Int
      BY <1>2
    <3>2. QED
      BY <1>2, <3>1, FS_Interval
  <2>5. n = Cardinality(T) + Cardinality(U) - 0
    BY <2>1, <2>2, <2>3, <2>4
  <2>6. QED
    BY <1>13, <2>5
<1>23. PICK all : all = firsts \o rest
  OBVIOUS
<1>24. all \in Seq(S) /\ Len(all) = n
  <2>1. Len(all) = Len(firsts) + Len(rest) /\ all \in Seq(S)
    BY <1>15, <1>21, <1>23, ConcatProperties
  <2>2. QED
    BY <1>15, <1>21, <1>22, <2>1
<1>25. ASSUME NEW limit PROVE SelectedOffers(offers, analysis, limit) = FirstOf(limit, all)
  <2>1. PICK test : test = {i \in DOMAIN ranked : ranked[i].id \notin ids}
    OBVIOUS
  <2>2. rest = Chosen(ranked, test)
    BY <1>6, <1>12, <1>18, <1>20, <2>1
  <2>3. SelectedOffers(offers, analysis, limit) = FirstOf(limit, Chosen(ranked, T) \o Chosen(ranked, test))
    BY <1>1, <1>3, <1>8, <1>9, <1>17, <2>1 DEF SelectedOffers, Only, FirstWins
  <2>4. QED
    BY <1>9, <1>23, <2>2, <2>3
<1>26. ArrangedFor(offers, analysis, ranked, T, all)
  BY <1>1, <1>4, <1>6, <1>7, <1>9, <1>12, <1>20, <1>23, <1>24, <1>25 DEF ArrangedFor
<1>27. QED
  BY <1>26

\* A dataset has as many offers as the limit and the snapshot allow.
LEMMA DatasetOffers ==
  ASSUME NEW offers, Distinct(offers), NEW analysis, Len(analysis.reports) \in Nat,
         NEW product \in Nat, NEW limit \in Nat
  PROVE  LET data == DatasetOf(offers, analysis, product, limit)
         IN  /\ data \in Datasets /\ data.texts /\ data.product = product
             /\ Len(data.offers) = IF limit < Len(offers) THEN limit ELSE Len(offers)
<1>1. PICK ranked, T, all : ArrangedFor(offers, analysis, ranked, T, all)
  BY SelectionArranges
<1>2. PICK selected : selected = SelectedOffers(offers, analysis, limit)
  OBVIOUS
<1>3. PICK S : S = ToSet(offers)
  OBVIOUS
<1>4. selected = FirstOf(limit, all) /\ all \in Seq(S) /\ Len(all) = Len(offers)
  BY <1>1, <1>2, <1>3 DEF ArrangedFor
<1>5. selected \in Seq(S) /\ Len(selected) = IF limit < Len(offers) THEN limit ELSE Len(offers)
  BY <1>4, FirstOfElements
<1>6. PICK m : m = Len(selected)
  OBVIOUS
<1>7. m \in Nat /\ DOMAIN selected = 1 .. m /\ \A i \in 1 .. m : selected[i] \in S
  BY <1>5, <1>6, SequencePositions
<1>8. \A i \in 1 .. m : selected[i].id \in OfferIds
  BY <1>3, <1>7, DistinctOffers
<1>9. PICK ids : ids = [i \in DOMAIN selected |-> selected[i].id]
  OBVIOUS
<1>10. ids \in [1 .. m -> OfferIds]
  BY <1>7, <1>8, <1>9
<1>11. ids \in Seq(OfferIds) /\ Len(ids) = m
  BY <1>7, <1>10, ListedIsFunction
<1>12. DatasetOf(offers, analysis, product, limit)
         = [offers |-> ids, texts |-> TRUE, reports |-> Len(analysis.reports), product |-> product]
  BY <1>2, <1>9 DEF DatasetOf
<1>13. QED
  BY <1>5, <1>6, <1>11, <1>12 DEF Datasets

-----------------------------------------------------------------------------
(* The budget *)

\* A function of 1 .. k that halves its argument until it is in a set or 1.
Halves(g, k, ends) ==
  /\ DOMAIN g = 1 .. k
  /\ \A n \in 1 .. k : g[n] = IF n \in ends \/ n = 1 THEN n ELSE g[n \div 2]

\* Halving can be defined for all numbers.
LEMMA HalvesExists ==
  ASSUME NEW k \in Nat, NEW ends
  PROVE  \E g : Halves(g, k, ends)
<1> DEFINE bad == {m \in Nat : ~(\E g : Halves(g, m, ends))}
<1>1. SUFFICES ASSUME bad # {} PROVE FALSE
  OBVIOUS
<1>2. PICK m \in bad : \A i \in bad : m <= i
  <2>1. bad \subseteq Nat
    OBVIOUS
  <2> HIDE DEF bad
  <2>2. QED
    BY <1>1, <2>1, LeastNat
<1>3. m \in Nat
  OBVIOUS
<1>4. m # 0
  <2>1. SUFFICES ASSUME m = 0 PROVE FALSE
    OBVIOUS
  <2>2. PICK g : g = [n \in 1 .. m |-> n]
    OBVIOUS
  <2>3. Halves(g, m, ends)
    BY <2>1, <2>2 DEF Halves
  <2>4. QED
    BY <2>3
<1>5. m - 1 \in Nat /\ ~(m <= m - 1)
  BY <1>3, <1>4
<1>6. PICK g : Halves(g, m - 1, ends)
  BY <1>2, <1>5
<1>7. PICK h : h = [n \in 1 .. m |-> IF n < m THEN g[n]
                                      ELSE IF m \in ends \/ m = 1 THEN m ELSE g[m \div 2]]
  OBVIOUS
<1>8. ASSUME NEW n \in 1 .. m PROVE h[n] = IF n \in ends \/ n = 1 THEN n ELSE h[n \div 2]
  <2>1. n # 1 => n \div 2 \in 1 .. m - 1 /\ n \div 2 \in 1 .. m /\ n \div 2 < m
    BY <1>3
  <2>2. n # 1 => h[n \div 2] = g[n \div 2]
    BY <1>7, <2>1
  <2>3. CASE n < m
    <3>1. n \in 1 .. m - 1 /\ h[n] = g[n]
      BY <1>3, <1>7, <2>3
    <3>2. QED
      BY <1>6, <2>2, <3>1 DEF Halves
  <2>4. CASE n = m
    <3>1. ~(n < m)
      BY <1>3, <2>4
    <3>2. h[n] = IF m \in ends \/ m = 1 THEN m ELSE g[m \div 2]
      BY <1>7, <3>1
    <3>3. QED
      BY <2>2, <2>4, <3>2
  <2>5. QED
    BY <1>3, <2>3, <2>4
<1>9. Halves(h, m, ends)
  BY <1>7, <1>8 DEF Halves
<1>10. QED
  BY <1>9

\* It ends in the set, or at 1.
LEMMA HalvesEnds ==
  ASSUME NEW k \in Nat, NEW ends, NEW g, Halves(g, k, ends)
  PROVE  \A n \in 1 .. k : g[n] \in 1 .. n /\ (g[n] \in ends \/ g[n] = 1)
<1> DEFINE bad == {n \in 1 .. k : ~(g[n] \in 1 .. n /\ (g[n] \in ends \/ g[n] = 1))}
<1>1. SUFFICES ASSUME bad # {} PROVE FALSE
  OBVIOUS
<1>2. PICK n \in bad : \A i \in bad : n <= i
  <2>1. bad \subseteq Nat
    OBVIOUS
  <2> HIDE DEF bad
  <2>2. QED
    BY <1>1, <2>1, LeastNat
<1>3. n \in 1 .. k /\ n \in Nat
  OBVIOUS
<1>4. g[n] = IF n \in ends \/ n = 1 THEN n ELSE g[n \div 2]
  BY <1>3 DEF Halves
<1>5. ~(n \in ends \/ n = 1)
  BY <1>2, <1>3, <1>4
<1>6. PICK i : i = n \div 2
  OBVIOUS
<1>7. i \in 1 .. k /\ i \in Nat /\ ~(n <= i) /\ 1 .. i \subseteq 1 .. n
  BY <1>3, <1>5, <1>6
<1>8. g[i] \in 1 .. i /\ (g[i] \in ends \/ g[i] = 1)
  BY <1>2, <1>7
<1>9. g[n] = g[i]
  BY <1>4, <1>5, <1>6
<1>10. QED
  BY <1>2, <1>7, <1>8, <1>9

\* The name is shortened until the prompt fits or one character is left.
LEMMA ShortenedProduct ==
  ASSUME NEW data \in Datasets, data.product \in Nat \ {0}, NEW tokens
  PROVE  \E n \in 1 .. data.product :
           /\ ShortenProduct(data, tokens) = [data EXCEPT !.product = n]
           /\ Fits([data EXCEPT !.product = n], tokens) \/ n = 1
<1>1. PICK k : k = data.product
  OBVIOUS
<1>2. PICK ends : ends = {n \in 1 .. k : Fits([data EXCEPT !.product = n], tokens)}
  OBVIOUS
<1>3. \E g : g = [n \in 1 .. k |-> IF Fits([data EXCEPT !.product = n], tokens) \/ n = 1
                                   THEN n ELSE g[n \div 2]]
  <2>1. k \in Nat
    BY <1>1
  <2>2. PICK g : Halves(g, k, ends)
    BY <2>1, HalvesExists
  <2>3. PICK h : h = [n \in 1 .. k |-> g[n]]
    OBVIOUS
  <2>4. Halves(h, k, ends)
    <3>1. ASSUME NEW n \in 1 .. k PROVE h[n] = IF n \in ends \/ n = 1 THEN n ELSE h[n \div 2]
      <4>1. n # 1 => n \div 2 \in 1 .. k
        BY <2>1
      <4>2. QED
        BY <2>2, <2>3, <4>1 DEF Halves
    <3>2. QED
      BY <2>3, <3>1 DEF Halves
  <2>5. \A n \in 1 .. k : h[n] = IF Fits([data EXCEPT !.product = n], tokens) \/ n = 1
                               THEN n ELSE h[n \div 2]
    BY <1>2, <2>4 DEF Halves
  <2>6. h = [n \in 1 .. k |-> IF Fits([data EXCEPT !.product = n], tokens) \/ n = 1
                             THEN n ELSE h[n \div 2]]
    BY <2>3, <2>5
  <2>7. QED
    BY <2>6
<1>4. PICK g : g = CHOOSE f : f = [n \in 1 .. k |->
                      IF Fits([data EXCEPT !.product = n], tokens) \/ n = 1 THEN n ELSE f[n \div 2]]
  OBVIOUS
<1>5. g = [n \in 1 .. k |-> IF Fits([data EXCEPT !.product = n], tokens) \/ n = 1
                           THEN n ELSE g[n \div 2]]
  BY <1>3, <1>4
<1>6. Halves(g, k, ends)
  BY <1>2, <1>5 DEF Halves
<1>7. k \in Nat /\ k \in 1 .. k
  BY <1>1
<1>8. g[k] \in 1 .. k /\ (g[k] \in ends \/ g[k] = 1)
  BY <1>6, <1>7, HalvesEnds
<1>9. ShortenProduct(data, tokens) = [data EXCEPT !.product = g[k]]
  BY <1>1, <1>4 DEF ShortenProduct
<1>10. QED
  BY <1>1, <1>2, <1>8, <1>9

\* What is said of the dataset for a budget.
Bounded(data, offers, analysis, product, most, tokens) ==
  /\ data \in Datasets /\ Len(data.offers) <= most
  /\ \/ Fits(data, tokens)
     \/ data.offers = <<>>
     \/ Len(data.offers) = 1 /\ ~data.texts /\ data.reports = 0 /\ data.product = 1
  /\ (data.texts /\ Len(data.offers) < Len(offers) /\ Len(data.offers) < most)
       => ~Fits(DatasetOf(offers, analysis, product, Len(data.offers) + 1), tokens)

\* The dataset for a budget fits it, or nothing is left to take away, and is
\* the largest (_build_budgeted_dataset).
LEMMA BudgetIsKept ==
  ASSUME NEW offers, Distinct(offers), NEW analysis, Len(analysis.reports) \in Nat,
         NEW product \in Nat \ {0}, NEW most \in Nat \ {0}, NEW tokens
  PROVE  Bounded(BudgetedDataset(offers, analysis, product, most, tokens),
                 offers, analysis, product, most, tokens)
<1>1. PICK size : size = Len(offers)
  OBVIOUS
<1>2. size \in Nat /\ (size = 0 <=> offers = <<>>)
  BY <1>1 DEF Distinct
<1>3. PICK top : top = IF offers = <<>> THEN 1 ELSE IF most < size THEN most ELSE size
  OBVIOUS
<1>4. top \in Nat /\ top >= 1 /\ (offers # <<>> => top <= most /\ top <= size)
  BY <1>2, <1>3
<1>5. PICK fitting : fitting = {n \in 1 .. top : Fits(DatasetOf(offers, analysis, product, n), tokens)}
  OBVIOUS
<1>6. fitting \subseteq 1 .. top /\ fitting \subseteq Nat /\ IsFiniteSet(fitting)
  <2>1. fitting \subseteq 1 .. top /\ fitting \subseteq Nat
    BY <1>4, <1>5
  <2>2. QED
    BY <1>4, <2>1, PositionsFinite
<1>7. PICK single : single = DatasetOf(offers, analysis, product, 1)
  OBVIOUS
<1>8. /\ single \in Datasets /\ single.product = product
      /\ Len(single.offers) = IF 1 < size THEN 1 ELSE size
  BY <1>1, <1>7, DatasetOffers
<1>9. PICK data : data = BudgetedDataset(offers, analysis, product, most, tokens)
  OBVIOUS
<1>10. data = IF fitting # {}
                THEN DatasetOf(offers, analysis, product, CHOOSE n \in fitting : \A k \in fitting : k <= n)
              ELSE IF offers = <<>> THEN single
              ELSE ShortenProduct([single EXCEPT !.texts = FALSE, !.reports = 0], tokens)
  BY <1>1, <1>3, <1>5, <1>7, <1>9 DEF BudgetedDataset
<1>11. CASE fitting # {}
  <2>1. PICK n : n = CHOOSE x \in fitting : \A k \in fitting : k <= x
    OBVIOUS
  <2>2. n \in fitting /\ \A k \in fitting : k <= n
    BY <1>6, <1>11, <2>1, GreatestNat
  <2>3. n \in 1 .. top /\ n \in Nat /\ Fits(DatasetOf(offers, analysis, product, n), tokens)
    BY <1>5, <1>6, <2>2
  <2>4. data = DatasetOf(offers, analysis, product, n)
    BY <1>10, <1>11, <2>1
  <2>5. /\ data \in Datasets
        /\ Len(data.offers) = IF n < size THEN n ELSE size
    BY <1>1, <2>3, <2>4, DatasetOffers
  <2>6. CASE offers = <<>>
    <3>1. Len(data.offers) = 0 /\ ~(0 < size) /\ 0 <= most
      BY <1>2, <2>3, <2>5, <2>6
    <3>2. QED
      BY <1>1, <2>3, <2>4, <2>5, <3>1, <1>9 DEF Bounded
  <2>7. CASE offers # <<>>
    <3>1. Len(data.offers) = n /\ n <= most
      BY <1>2, <1>4, <2>3, <2>5, <2>7
    <3>2. ASSUME n < size, n < most, Fits(DatasetOf(offers, analysis, product, n + 1), tokens) PROVE FALSE
      <4>1. n + 1 \in 1 .. top
        BY <1>2, <1>3, <2>3, <2>7, <3>2
      <4>2. n + 1 \in fitting
        BY <1>5, <3>2, <4>1
      <4>3. n + 1 <= n
        BY <2>2, <4>2
      <4>4. QED
        BY <2>3, <4>3
    <3>3. QED
      BY <1>1, <1>9, <2>3, <2>4, <2>5, <3>1, <3>2 DEF Bounded
  <2>8. QED
    BY <2>6, <2>7
<1>12. CASE fitting = {} /\ offers = <<>>
  <2>1. data = single /\ data \in Datasets /\ Len(data.offers) = 0 /\ size = 0
    BY <1>2, <1>8, <1>10, <1>12
  <2>2. data.offers = <<>> /\ ~(0 < size) /\ 0 <= most
    BY <2>1 DEF Datasets
  <2>3. QED
    BY <1>1, <1>9, <2>1, <2>2 DEF Bounded
<1>13. CASE fitting = {} /\ offers # <<>>
  <2>1. PICK bare : bare = [single EXCEPT !.texts = FALSE, !.reports = 0]
    OBVIOUS
  <2>2. /\ bare \in Datasets /\ bare.product = product /\ ~bare.texts /\ bare.reports = 0
        /\ bare.offers = single.offers
    BY <1>8, <2>1 DEF Datasets
  <2>3. PICK n \in 1 .. bare.product :
          /\ ShortenProduct(bare, tokens) = [bare EXCEPT !.product = n]
          /\ Fits([bare EXCEPT !.product = n], tokens) \/ n = 1
    BY <2>2, ShortenedProduct
  <2>4. data = [bare EXCEPT !.product = n]
    BY <1>10, <1>13, <2>1, <2>3
  <2>5. /\ data \in Datasets /\ ~data.texts /\ data.reports = 0 /\ data.product = n
        /\ data.offers = single.offers
    <3>1. n \in Nat
      BY <2>2, <2>3
    <3>2. QED
      BY <2>2, <2>4, <3>1 DEF Datasets
  <2>6. Len(data.offers) = 1 /\ 1 <= most
    <3>1. size >= 1
      BY <1>2, <1>13
    <3>2. Len(single.offers) = 1
      BY <1>2, <1>8, <3>1
    <3>3. QED
      BY <2>5, <3>2
  <2>7. Fits(data, tokens) \/ data.product = 1
    BY <2>3, <2>4, <2>5
  <2>8. QED
    BY <1>9, <2>5, <2>6, <2>7 DEF Bounded
<1>14. QED
  BY <1>11, <1>12, <1>13

\* The reports of an analysis are a sequence.
LEMMA ReportsCounted ==
  ASSUME NEW query, NEW offers
  PROVE  Len(Analyse(query, offers).reports) \in Nat
<1>1. PICK shown : shown = Only(UniqueOffers(offers), LAMBDA o : Comparable(query, o))
  OBVIOUS
<1>2. Analyse(query, offers).reports = StatisticsByCurrency(shown)
  BY <1>1 DEF Analyse
<1>3. PICK T : T = {i \in DOMAIN Currencies : Currencies[i] # "UNKNOWN" /\ \E o \in ToSet(shown) :
                                               o.price # None /\ o.price.currency = Currencies[i]}
  OBVIOUS
<1>4. PICK stated : stated = Chosen(Currencies, T)
  OBVIOUS
<1>5. PICK f : f = [i \in DOMAIN stated |-> PriceStatistics(stated[i], AmountsIn(shown, stated[i]))]
  OBVIOUS
<1>6. StatisticsByCurrency(shown) = Listed(f, Len(stated))
  BY <1>3, <1>4, <1>5 DEF StatisticsByCurrency, Only
<1>7. DOMAIN Currencies = 1 .. 3 /\ 3 \in Nat
  BY DEF Currencies
<1>8. T \subseteq Int /\ IsFiniteSet(T)
  BY <1>3, <1>7, PositionsFinite
<1>9. \A i \in T : Currencies[i] \in {Currencies[j] : j \in T}
  OBVIOUS
<1>10. Len(stated) = Cardinality(T) /\ DOMAIN stated = 1 .. Cardinality(T) /\ Cardinality(T) \in Nat
  BY <1>4, <1>8, <1>9, ChosenElements
<1>11. PICK V : V = {f[i] : i \in DOMAIN stated}
  OBVIOUS
<1>12. f \in [1 .. Cardinality(T) -> V]
  BY <1>5, <1>10, <1>11
<1>13. Len(f) = Cardinality(T) /\ Listed(f, Cardinality(T)) = f
  BY <1>10, <1>12, ListedIsFunction
<1>14. QED
  BY <1>2, <1>6, <1>10, <1>13

\* The snapshot holds the merged offers, each id once, and their analysis.
LEMMA SnapshotOffers ==
  ASSUME FlowOK, snapshot # None
  PROVE  /\ snapshot.offers = Merged /\ snapshot.analysis = Analyse(Query, Merged)
         /\ Distinct(Merged)
<1>1. SourcesOK /\ snapshot = SnapshotOf(Merged)
  BY DEF FlowOK, ResultsOK
<1>2. QED
  BY <1>1, MergedOffers DEF SnapshotOf, Distinct

\* The dataset for Gemini fits the budget of tokens unless nothing is left to
\* take away, and one that keeps its texts is the largest that does; only a
\* limit above the contract's leaves the request without a dataset
\* (_build_budgeted_dataset, DatasetFits).
THEOREM DatasetAlwaysFits == Spec => []DatasetFits
<1>1. ASSUME FlowOK PROVE DatasetFits
  <2>1. SUFFICES ASSUME dataset # None PROVE DatasetFits
    BY DEF DatasetFits
  <2>2. /\ snapshot # None
        /\ \E budget \in Budgets : dataset = DatasetFor(budget, snapshot)
    BY <1>1, <2>1 DEF FlowOK, ResultsOK
  <2>3. PICK budget \in Budgets : dataset = DatasetFor(budget, snapshot)
    BY <2>2
  <2>4. PICK offers, analysis : offers = Merged /\ analysis = Analyse(Query, Merged)
    OBVIOUS
  <2>5. snapshot.offers = offers /\ snapshot.analysis = analysis /\ Distinct(offers)
    BY <1>1, <2>2, <2>4, SnapshotOffers
  <2>6. Len(analysis.reports) \in Nat
    BY <2>4, ReportsCounted
  <2>7. PICK most, tokens : most = budget[1] /\ tokens = budget[2]
    OBVIOUS
  <2>8. most \in Nat \ {0} /\ NameLength \in Nat \ {0} /\ ContractOffers \in Nat
    BY <2>7, OfferFlowAssumption
  <2>9. PICK data : data = BudgetedDataset(offers, analysis, NameLength, most, tokens)
    OBVIOUS
  <2>10. Bounded(data, offers, analysis, NameLength, most, tokens)
    BY <2>5, <2>6, <2>8, <2>9, BudgetIsKept
  <2>11. data # None
    BY <2>10, OfferFlowAssumption DEF Bounded
  <2>12. /\ dataset.budget = budget
         /\ dataset.data = IF Admissible(offers, most) THEN data ELSE None
    BY <2>3, <2>5, <2>7, <2>9 DEF DatasetFor
  <2>13. Len(offers) \in Nat
    BY <2>5, DistinctOffers
  <2>14. CASE Admissible(offers, most)
    <3>1. dataset.data = data /\ data # None
      BY <2>11, <2>12, <2>14
    <3>2. QED
      BY <2>5, <2>7, <2>10, <2>12, <3>1 DEF DatasetFits, Bounded
  <2>15. CASE ~Admissible(offers, most)
    <3>1. dataset.data = None /\ Len(offers) > ContractOffers /\ most > ContractOffers
      BY <2>8, <2>12, <2>13, <2>15 DEF Admissible
    <3>2. QED
      BY <2>5, <2>7, <2>12, <3>1 DEF DatasetFits
  <2>16. QED
    BY <2>14, <2>15
<1>2. QED
  BY <1>1, FlowAlways, PTL

-----------------------------------------------------------------------------
(* The sources in the dataset *)

\* Of two keys in order the first has the smaller beginning.
LEMMA RankStarts ==
  ASSUME NEW a \in Seq(Nat), NEW b \in Seq(Nat), Len(a) > 0, Len(b) > 0, KeyBefore(a, b)
  PROVE  a[1] <= b[1]
<1>1. PICK n \in Nat : Differs(a, b, n)
  BY KeyBeforeDiffers
<1>2. 1 \in 1 .. Len(a) /\ 1 \in 1 .. Len(b) /\ a[1] \in Nat /\ b[1] \in Nat
  OBVIOUS
<1>3. CASE n = 0
  BY <1>1, <1>2, <1>3 DEF Differs
<1>4. CASE n # 0
  <2>1. 1 \in 1 .. n
    BY <1>4
  <2>2. QED
    BY <1>1, <1>2, <2>1 DEF Differs
<1>5. QED
  BY <1>3, <1>4

\* An offer that is ranked before a matching one matches.
LEMMA MatchesFirst ==
  ASSUME NEW analysis, {x.id : x \in ToSet(analysis.opportunities)} \subseteq analysis.matches,
         NEW a, NEW b, RankedBefore(analysis, a, b), b.id \in analysis.matches
  PROVE  a.id \in analysis.matches
<1>1. PICK x, y : x = RankOf(analysis, a) /\ y = RankOf(analysis, b)
  OBVIOUS
<1>2. KeyBefore(x, y) \/ x = y
  BY <1>1, RankedBeforeIds
<1>3. x \in Seq(Nat) /\ y \in Seq(Nat) /\ Len(x) > 0 /\ Len(y) > 0
  BY <1>1 DEF RankOf
<1>4. x[1] \in Nat /\ y[1] \in Nat
  BY <1>3
<1>5. x[1] <= y[1]
  BY <1>2, <1>3, <1>4, RankStarts
<1>6. PICK opportunities : opportunities = {p.id : p \in ToSet(analysis.opportunities)}
  OBVIOUS
<1>7. /\ x[1] = IF a.id \in opportunities THEN 0 ELSE IF a.id \in analysis.matches THEN 1 ELSE 2
      /\ y[1] = IF b.id \in opportunities THEN 0 ELSE IF b.id \in analysis.matches THEN 1 ELSE 2
  BY <1>1, <1>6 DEF RankOf
<1>8. y[1] <= 1
  BY <1>7
<1>9. x[1] # 2
  BY <1>4, <1>5, <1>8
<1>10. a.id \in opportunities \/ a.id \in analysis.matches
  BY <1>7, <1>9
<1>11. QED
  BY <1>6, <1>10

\* A selection with an offer for each source has a match of every source
\* that has one.
LEMMA SelectionKeepsSources ==
  ASSUME NEW offers, Distinct(offers), NEW analysis,
         {x.id : x \in ToSet(analysis.opportunities)} \subseteq analysis.matches,
         \A o \in ToSet(offers) : o.id.source = o.source,
         NEW limit \in Nat, NEW selected, selected = SelectedOffers(offers, analysis, limit),
         Len(selected) >= Cardinality({o.source : o \in ToSet(offers)}),
         NEW match \in ToSet(offers), match.id \in analysis.matches
  PROVE  \E i \in DOMAIN selected : selected[i].id \in analysis.matches
                                  /\ selected[i].id.source = match.source
<1>1. PICK ranked, T, all : ArrangedFor(offers, analysis, ranked, T, all)
  BY SelectionArranges
<1>2. PICK n, S : n = Len(offers) /\ S = ToSet(offers)
  OBVIOUS
<1>3. n \in Nat /\ Cardinality(S) = n /\ \A o \in S : o.id.source = o.source
  BY <1>2, DistinctOffers
<1>4. /\ ranked \in Seq(S) /\ Len(ranked) = n
      /\ Enumerates(ranked, S, RankedBelow(S, analysis))
      /\ all = Chosen(ranked, T) \o Chosen(ranked, (1 .. n) \ T)
      /\ all \in Seq(S) /\ Len(all) = n /\ selected = FirstOf(limit, all)
  BY <1>1, <1>2 DEF ArrangedFor
<1>5. PICK source : source = [i \in 1 .. n |-> ranked[i].source]
  OBVIOUS
<1>6. T = Firsts(n, source)
  BY <1>1, <1>2, <1>5 DEF ArrangedFor
<1>7. /\ T \subseteq 1 .. n
      /\ \A i \in 1 .. n : \E j \in T : source[j] = source[i] /\ j <= i
      /\ \A i, j \in T : source[i] = source[j] => i = j
  BY <1>3, <1>6, FirstsOfKeys
<1>8. \A i \in 1 .. n : ranked[i] \in S /\ source[i] = ranked[i].source
  BY <1>4, <1>5
<1>9. T \subseteq Int /\ IsFiniteSet(T) /\ (1 .. n) \ T \subseteq Int /\ IsFiniteSet((1 .. n) \ T)
  BY <1>3, <1>7, PositionsFinite
<1>10. \A x \in S : \E i \in 1 .. n : ranked[i] = x
  BY <1>3, <1>4 DEF Enumerates
<1>11. PICK offered : offered = {o.source : o \in S}
  OBVIOUS
<1>12. PICK k : k = Cardinality(T)
  OBVIOUS
<1>13. k = Cardinality(offered) /\ k \in Nat
  <2>1. PICK f : f = [i \in T |-> ranked[i].source]
    OBVIOUS
  <2>2. f \in [T -> offered]
    BY <1>7, <1>8, <1>11, <2>1
  <2>3. \A i, j \in T : f[i] = f[j] => i = j
    BY <1>7, <1>8, <2>1
  <2>4. ASSUME NEW c \in offered PROVE \E i \in T : f[i] = c
    <3>1. PICK o \in S : o.source = c
      BY <1>11
    <3>2. PICK i \in 1 .. n : ranked[i] = o
      BY <1>10
    <3>3. PICK j \in T : source[j] = source[i]
      BY <1>7
    <3>4. QED
      BY <1>7, <1>8, <2>1, <3>1, <3>2, <3>3
  <2>5. f \in Bijection(T, offered)
    BY <2>2, <2>3, <2>4, Fun_IsBij
  <2>6. ExistsBijection(T, offered)
    BY <2>5 DEF ExistsBijection
  <2>7. QED
    BY <1>9, <1>12, <2>6, FS_Bijection, FS_CardinalityType
<1>14. PICK firsts, rest : firsts = Chosen(ranked, T) /\ rest = Chosen(ranked, (1 .. n) \ T)
  OBVIOUS
<1>15. /\ firsts \in Seq(S) /\ Len(firsts) = k /\ DOMAIN firsts = 1 .. k
       /\ \A i \in T : ranked[i] \in ToSet(firsts)
  BY <1>7, <1>8, <1>9, <1>12, <1>14, ChosenElements
<1>16. rest \in Seq(S)
  BY <1>8, <1>9, <1>14, ChosenElements
<1>17. \A i \in 1 .. k : all[i] = firsts[i]
  <2>1. Len(rest) \in Nat
    BY <1>16
  <2>2. all = firsts \o rest
    BY <1>4, <1>14
  <2>3. QED
    BY <1>13, <1>15, <1>16, <2>1, <2>2, ConcatProperties
<1>18. /\ selected \in Seq(S) /\ Len(selected) \in Nat /\ DOMAIN selected = 1 .. Len(selected)
       /\ \A i \in 1 .. Len(selected) : selected[i] = all[i]
  <2>1. /\ FirstOf(limit, all) \in Seq(S)
        /\ \A i \in 1 .. Len(FirstOf(limit, all)) : FirstOf(limit, all)[i] = all[i]
    BY <1>4, FirstOfElements
  <2>2. selected \in Seq(S) /\ \A i \in 1 .. Len(selected) : selected[i] = all[i]
    BY <1>4, <2>1
  <2>3. QED
    BY <2>2, SequencePositions
<1>19. Len(selected) >= k
  BY <1>2, <1>11, <1>13
<1>20. PICK i \in 1 .. n : ranked[i] = match
  BY <1>2, <1>10
<1>21. PICK j \in T : source[j] = source[i] /\ j <= i
  BY <1>7
<1>22. j \in 1 .. n /\ ranked[j] \in S /\ ranked[j].source = match.source
  BY <1>7, <1>8, <1>20, <1>21
<1>23. ranked[j].id \in analysis.matches
  <2>1. CASE j = i
    BY <1>20, <2>1
  <2>2. CASE j < i
    <3>1. ranked[j] \in RankedBelow(S, analysis)[match]
      BY <1>3, <1>4, <1>20, <1>22, <2>2 DEF Enumerates
    <3>2. RankedBefore(analysis, ranked[j], match)
      BY <1>2, <3>1 DEF RankedBelow
    <3>3. QED
      BY <3>2, MatchesFirst
  <2>3. QED
    BY <1>3, <1>20, <1>21, <1>22, <2>1, <2>2
<1>24. PICK m \in 1 .. k : firsts[m] = ranked[j]
  BY <1>15 DEF ToSet
<1>25. m \in DOMAIN selected /\ selected[m] = ranked[j]
  BY <1>13, <1>17, <1>18, <1>19, <1>24
<1>26. QED
  BY <1>3, <1>22, <1>23, <1>25

\* The offers of a dataset are a selection.
LEMMA BudgetSelects ==
  ASSUME NEW offers, Distinct(offers), NEW analysis, Len(analysis.reports) \in Nat,
         NEW product \in Nat \ {0}, NEW most \in Nat \ {0}, NEW tokens
  PROVE  \E limit \in Nat :
           BudgetedDataset(offers, analysis, product, most, tokens).offers
             = DatasetOf(offers, analysis, product, limit).offers
<1>1. PICK top : top = IF offers = <<>> THEN 1 ELSE IF most < Len(offers) THEN most ELSE Len(offers)
  OBVIOUS
<1>2. PICK fitting : fitting = {n \in 1 .. top : Fits(DatasetOf(offers, analysis, product, n), tokens)}
  OBVIOUS
<1>3. PICK single : single = DatasetOf(offers, analysis, product, 1)
  OBVIOUS
<1>4. single \in Datasets /\ single.product = product
  BY <1>3, DatasetOffers
<1>5. PICK data : data = BudgetedDataset(offers, analysis, product, most, tokens)
  OBVIOUS
<1>6. data = IF fitting # {}
               THEN DatasetOf(offers, analysis, product, CHOOSE n \in fitting : \A k \in fitting : k <= n)
             ELSE IF offers = <<>> THEN single
             ELSE ShortenProduct([single EXCEPT !.texts = FALSE, !.reports = 0], tokens)
  BY <1>1, <1>2, <1>3, <1>5 DEF BudgetedDataset
<1>7. CASE fitting # {}
  <2>1. fitting \subseteq Nat /\ IsFiniteSet(fitting)
    <3>1. top \in Nat
      BY <1>1 DEF Distinct
    <3>2. fitting \subseteq 1 .. top /\ fitting \subseteq Nat
      BY <1>2, <3>1
    <3>3. QED
      BY <3>1, <3>2, PositionsFinite
  <2>2. PICK n : n = CHOOSE x \in fitting : \A k \in fitting : k <= x
    OBVIOUS
  <2>3. n \in fitting
    BY <1>7, <2>1, <2>2, GreatestNat
  <2>4. QED
    BY <1>5, <1>6, <1>7, <2>1, <2>2, <2>3
<1>8. CASE fitting = {} /\ offers = <<>>
  BY <1>3, <1>5, <1>6, <1>8
<1>9. CASE fitting = {} /\ offers # <<>>
  <2>1. PICK bare : bare = [single EXCEPT !.texts = FALSE, !.reports = 0]
    OBVIOUS
  <2>2. bare \in Datasets /\ bare.product = product /\ bare.offers = single.offers
    BY <1>4, <2>1 DEF Datasets
  <2>3. PICK n \in 1 .. bare.product : ShortenProduct(bare, tokens) = [bare EXCEPT !.product = n]
    BY <2>2, ShortenedProduct
  <2>4. data.offers = single.offers
    BY <1>6, <1>9, <2>1, <2>2, <2>3 DEF Datasets
  <2>5. QED
    BY <1>3, <1>5, <2>4
<1>10. QED
  BY <1>7, <1>8, <1>9

\* The merged offers keep the sources of their ids.
LEMMA MergedSources ==
  ASSUME SourcesOK
  PROVE  \A o \in ToSet(Merged) : o.id.source = o.source
<1>1. SUFFICES ASSUME NEW o \in ToSet(Merged) PROVE o.id.source = o.source
  OBVIOUS
<1>2. PICK s \in Sources : o \in ToSet(collected[s])
  BY MergedOffers
<1>3. PICK O : O = {p \in OfferSet : p.source = s /\ p.id.source = s}
  OBVIOUS
<1>4. collected[s] \in Seq(O)
  BY <1>3, CollectedOffers
<1>5. o \in O
  BY <1>2, <1>4, SequencePositions DEF ToSet
<1>6. QED
  BY <1>3, <1>5

\* A dataset with as many offers as the snapshot has sources has a matching
\* offer of every source that has one, however it was reduced to the budget
\* (_select_offers, DatasetKeepsSources).
THEOREM DatasetAlwaysKeepsSources == Spec => []DatasetKeepsSources
<1>1. ASSUME FlowOK PROVE DatasetKeepsSources
  <2>1. SUFFICES ASSUME dataset # None, dataset.data # None PROVE DatasetKeepsSources
    BY DEF DatasetKeepsSources
  <2>2. /\ SourcesOK /\ snapshot # None
        /\ \E budget \in Budgets : dataset = DatasetFor(budget, snapshot)
    BY <1>1, <2>1 DEF FlowOK, ResultsOK
  <2>3. PICK budget \in Budgets : dataset = DatasetFor(budget, snapshot)
    BY <2>2
  <2>4. PICK offers, analysis : offers = Merged /\ analysis = Analyse(Query, Merged)
    OBVIOUS
  <2>5. snapshot.offers = offers /\ snapshot.analysis = analysis /\ Distinct(offers)
    BY <1>1, <2>2, <2>4, SnapshotOffers
  <2>6. Len(analysis.reports) \in Nat
    BY <2>4, ReportsCounted
  <2>7. PICK most, tokens : most = budget[1] /\ tokens = budget[2]
    OBVIOUS
  <2>8. most \in Nat \ {0} /\ NameLength \in Nat \ {0}
    BY <2>7, OfferFlowAssumption
  <2>9. PICK kept : kept = dataset.data.offers
    OBVIOUS
  <2>10. kept = BudgetedDataset(offers, analysis, NameLength, most, tokens).offers
    BY <2>1, <2>3, <2>5, <2>7, <2>9 DEF DatasetFor
  <2>11. PICK limit \in Nat : kept = DatasetOf(offers, analysis, NameLength, limit).offers
    BY <2>5, <2>6, <2>8, <2>10, BudgetSelects
  <2>12. PICK selected : selected = SelectedOffers(offers, analysis, limit)
    OBVIOUS
  <2>13. kept = [i \in DOMAIN selected |-> selected[i].id]
    BY <2>11, <2>12 DEF DatasetOf
  <2>14. Len(kept) = Len(selected) /\ DOMAIN kept = DOMAIN selected
    <3>1. Len(selected) \in Nat /\ DOMAIN selected = 1 .. Len(selected)
      <4>1. PICK ranked, T, all : ArrangedFor(offers, analysis, ranked, T, all)
        BY <2>5, SelectionArranges
      <4>2. PICK S : S = ToSet(offers)
        OBVIOUS
      <4>3. selected = FirstOf(limit, all) /\ all \in Seq(S)
        BY <2>12, <4>1, <4>2 DEF ArrangedFor
      <4>4. selected \in Seq(S)
        BY <4>3, FirstOfElements
      <4>5. QED
        BY <4>4, SequencePositions
    <3>2. kept \in [1 .. Len(selected) -> {selected[i].id : i \in DOMAIN selected}]
      BY <2>13, <3>1
    <3>3. PICK V : V = {selected[i].id : i \in DOMAIN selected}
      OBVIOUS
    <3>4. Len(kept) = Len(selected)
      BY <3>1, <3>2, <3>3, ListedIsFunction
    <3>5. QED
      BY <2>13, <3>4
  <2>15. PICK offered : offered = {o.source : o \in ToSet(offers)}
    OBVIOUS
  <2>16. ASSUME Len(kept) >= Cardinality(offered), NEW s \in offered,
                NEW id \in analysis.matches, id.source = s
         PROVE  \E kid \in analysis.matches \cap ToSet(kept) : kid.source = s
    <3>1. {x.id : x \in ToSet(analysis.opportunities)} \subseteq analysis.matches
      BY <2>4, <2>5, OpportunitiesMatch, OfferFlowAssumption
    <3>2. \A o \in ToSet(offers) : o.id.source = o.source
      BY <2>2, <2>4, MergedSources
    <3>3. PICK match \in ToSet(offers) : match.id = id
      BY <2>4 DEF Analyse
    <3>4. Len(selected) >= Cardinality({o.source : o \in ToSet(offers)})
      BY <2>14, <2>15, <2>16
    <3>5. match.id \in analysis.matches
      BY <3>3
    <3>6. PICK i \in DOMAIN selected : /\ selected[i].id \in analysis.matches
                                      /\ selected[i].id.source = match.source
      BY <2>5, <2>12, <3>1, <3>2, <3>4, <3>5, SelectionKeepsSources
    <3>7. kept[i] = selected[i].id /\ i \in DOMAIN kept
      BY <2>13, <2>14
    <3>8. kept[i] \in ToSet(kept) /\ kept[i].source = s
      BY <2>16, <3>2, <3>3, <3>6, <3>7 DEF ToSet
    <3>9. QED
      BY <3>6, <3>7, <3>8
  <2>17. QED
    BY <2>5, <2>9, <2>15, <2>16 DEF DatasetKeepsSources
<1>2. QED
  BY <1>1, FlowAlways, PTL

-----------------------------------------------------------------------------
(* The order of the offers *)

\* Of two orders of the prices of a market none is below the other anywhere:
\* the first k prices of one would all stand among the first k - 1 of the other.
LEMMA NotBelow ==
  ASSUME NEW M, NEW v, NEW w, NEW f, NEW g, PricesOf(v, M, f), PricesOf(w, M, g),
         NEW k \in 1 .. Cardinality(M)
  PROVE  ~(v[k] < w[k])
<1>1. SUFFICES ASSUME v[k] < w[k] PROVE FALSE
  OBVIOUS
<1>2. PICK n, D : n = Cardinality(M) /\ D = 1 .. n
  OBVIOUS
<1>3. /\ n \in Nat /\ v \in Seq(Nat) /\ w \in Seq(Nat) /\ Len(v) = n /\ Len(w) = n
      /\ f \in Bijection(D, M) /\ g \in Bijection(D, M)
      /\ \A i \in D : v[i] = f[i].price.amount /\ w[i] = g[i].price.amount
      /\ \A i, j \in D : i <= j => v[i] <= v[j] /\ w[i] <= w[j]
  BY <1>2 DEF PricesOf
<1>4. \A i \in D : v[i] \in Nat /\ w[i] \in Nat
  BY <1>2, <1>3
<1>5. /\ f \in [D -> M] /\ \A i, j \in D : f[i] = f[j] => i = j
      /\ g \in [D -> M] /\ \A x \in M : \E i \in D : g[i] = x
  BY <1>3, Fun_BijectionProperties
<1>6. PICK place : place = [i \in 1 .. k |-> CHOOSE j \in D : g[j] = f[i]]
  OBVIOUS
<1>7. k \in Nat /\ k >= 1 /\ k <= n /\ k \in D
  BY <1>2, <1>3
<1>8. ASSUME NEW i \in 1 .. k PROVE place[i] \in 1 .. k - 1 /\ g[place[i]] = f[i]
  <2>1. i \in D /\ i <= k
    BY <1>2, <1>3, <1>7
  <2>2. f[i] \in M
    BY <1>5, <2>1
  <2>3. place[i] \in D /\ g[place[i]] = f[i]
    BY <1>5, <1>6, <2>2
  <2>4. w[place[i]] = v[i]
    BY <1>3, <2>1, <2>3
  <2>5. v[i] <= v[k]
    BY <1>3, <1>7, <2>1
  <2>6. w[place[i]] < w[k]
    BY <1>1, <1>4, <1>7, <2>1, <2>4, <2>5
  <2>7. ~(k <= place[i])
    <3>1. PICK j : j = place[i]
      OBVIOUS
    <3>2. j \in D /\ w[j] < w[k] /\ (k <= j => w[k] <= w[j])
      BY <1>3, <1>7, <2>3, <2>6, <3>1
    <3>3. w[j] \in Nat /\ w[k] \in Nat
      BY <1>4, <1>7, <3>2
    <3>4. QED
      BY <3>1, <3>2, <3>3
  <2>8. QED
    BY <1>2, <1>3, <1>7, <2>3, <2>7
<1>9. PICK S, T : S = 1 .. k /\ T = 1 .. k - 1
  OBVIOUS
<1>10. IsFiniteSet(S) /\ IsFiniteSet(T) /\ Cardinality(S) = k /\ Cardinality(T) = k - 1
  <2>1. 1 \in Int /\ k \in Int /\ k - 1 \in Int
    BY <1>7
  <2>2. IsFiniteSet(1 .. k) /\ Cardinality(1 .. k) = k
    BY <1>7, <2>1, FS_Interval
  <2>3. IsFiniteSet(1 .. (k - 1)) /\ Cardinality(1 .. (k - 1)) = k - 1
    <3>1. PICK m : m = k - 1
      OBVIOUS
    <3>2. m \in Int /\ m >= 0
      BY <1>7, <3>1
    <3>3. IsFiniteSet(1 .. m) /\ Cardinality(1 .. m) = m
      BY <2>1, <3>2, FS_Interval
    <3>4. QED
      BY <3>1, <3>3
  <2>4. QED
    BY <1>9, <2>2, <2>3
<1>11. place \in [S -> T]
  BY <1>6, <1>8, <1>9
<1>12. Cardinality(T) < Cardinality(S)
  BY <1>7, <1>10
<1>13. PICK i, j \in S : i # j /\ place[i] = place[j]
  BY <1>10, <1>11, <1>12, FS_PigeonHole
<1>14. f[i] = f[j]
  BY <1>8, <1>9, <1>13
<1>15. i \in D /\ j \in D
  BY <1>2, <1>3, <1>7, <1>9, <1>13
<1>16. QED
  BY <1>5, <1>13, <1>14, <1>15

\* The sorted prices of a market are determined by its offers.
LEMMA PricesAlike ==
  ASSUME NEW M, NEW v, NEW w, NEW f, NEW g, PricesOf(v, M, f), PricesOf(w, M, g)
  PROVE  v = w
<1>1. PICK n : n = Cardinality(M)
  OBVIOUS
<1>2. n \in Nat /\ v \in Seq(Nat) /\ w \in Seq(Nat) /\ Len(v) = n /\ Len(w) = n
  BY <1>1 DEF PricesOf
<1>3. \A k \in 1 .. n : ~(v[k] < w[k]) /\ ~(w[k] < v[k])
  BY <1>1, NotBelow
<1>4. \A k \in 1 .. n : v[k] \in Nat /\ w[k] \in Nat
  BY <1>2
<1>5. \A k \in 1 .. n : v[k] = w[k]
  BY <1>3, <1>4
<1>6. QED
  BY <1>2, <1>5

\* So is the report of a currency.
LEMMA ReportsAlike ==
  ASSUME NEW x, NEW y, Distinct(x), Distinct(y), NEW c, Market(x, c) = Market(y, c)
  PROVE  ReportIn(x, c) = ReportIn(y, c)
<1>1. PICK v, w : v = SortedAmounts(AmountsIn(x, c)) /\ w = SortedAmounts(AmountsIn(y, c))
  OBVIOUS
<1>2. PICK f : PricesOf(v, Market(x, c), f)
  BY <1>1, AmountsOfMarket
<1>3. PICK g : PricesOf(w, Market(x, c), g)
  BY <1>1, AmountsOfMarket
<1>4. v = w
  BY <1>2, <1>3, PricesAlike
<1>5. QED
  BY <1>1, <1>4 DEF ReportIn, PriceStatistics

\* Two orders of the same offers.
SameOffers(a, b) == Distinct(a) /\ Distinct(b) /\ ToSet(a) = ToSet(b)

\* Two orders of the same offers: deduplication and comparability keep the
\* same.
LEMMA ShownAlike ==
  ASSUME NEW a, NEW b, SameOffers(a, b), NEW query
  PROVE  /\ ToSet(UniqueOffers(a)) = ToSet(UniqueOffers(b))
         /\ SameOffers(Shown(query, a), Shown(query, b))
<1>1. Distinct(a) /\ Distinct(b) /\ ToSet(a) = ToSet(b)
  BY DEF SameOffers
<1>2. PICK S : S = ToSet(a)
  OBVIOUS
<1>3. /\ \A o : o \in ToSet(UniqueOffers(a)) <=> o \in S /\ o = Best(Kind(S, o))
      /\ \A o : o \in ToSet(UniqueOffers(b)) <=> o \in S /\ o = Best(Kind(S, o))
  BY <1>1, <1>2, UniqueAsSet
<1>4. ToSet(UniqueOffers(a)) = ToSet(UniqueOffers(b))
  BY <1>3
<1>5. /\ Distinct(Shown(query, a)) /\ Distinct(Shown(query, b))
      /\ \A o : o \in ToSet(Shown(query, a)) <=> o \in ToSet(UniqueOffers(a)) /\ Comparable(query, o)
      /\ \A o : o \in ToSet(Shown(query, b)) <=> o \in ToSet(UniqueOffers(b)) /\ Comparable(query, o)
  BY <1>1, ShownElements
<1>6. ToSet(Shown(query, a)) = ToSet(Shown(query, b))
  BY <1>4, <1>5
<1>7. QED
  BY <1>4, <1>5, <1>6 DEF SameOffers

\* They have the same reports,
LEMMA StatisticsAlike ==
  ASSUME NEW x, NEW y, SameOffers(x, y)
  PROVE  StatisticsByCurrency(x) = StatisticsByCurrency(y)
<1>1. Distinct(x) /\ Distinct(y) /\ ToSet(x) = ToSet(y)
  BY DEF SameOffers
<1>2. PICK T : T = {i \in DOMAIN Currencies : Currencies[i] # "UNKNOWN" /\ \E o \in ToSet(x) :
                                               o.price # None /\ o.price.currency = Currencies[i]}
  OBVIOUS
<1>3. PICK stated : stated = Chosen(Currencies, T)
  OBVIOUS
<1>4. /\ StatisticsByCurrency(x) = Listed([i \in DOMAIN stated |-> ReportIn(x, stated[i])], Len(stated))
      /\ StatisticsByCurrency(y) = Listed([i \in DOMAIN stated |-> ReportIn(y, stated[i])], Len(stated))
  BY <1>1, <1>2, <1>3 DEF StatisticsByCurrency, Only, ReportIn
<1>5. \A c : Market(x, c) = Market(y, c)
  BY <1>1 DEF Market
<1>6. \A c : ReportIn(x, c) = ReportIn(y, c)
  BY <1>1, <1>5, ReportsAlike
<1>7. QED
  BY <1>4, <1>6

\* The chart of a set of offers.
ChartAmong(query, S, reports, report) ==
  LET shown == {o \in S : MarketOf(query, o, reports) = report}
      points == {[id |-> o.id, amount |-> o.price.amount, class |-> ClassOf(query, o, reports)]
                   : o \in shown}
  IN  [currency |-> report.currency, points |-> InOrder(points, PointBefore),
       p25 |-> report.p25, median |-> report.median, p75 |-> report.p75]

\* A chart depends on the set of offers alone.
LEMMA ChartOfSet ==
  ASSUME NEW offers, Distinct(offers), NEW query, NEW reports, NEW report
  PROVE  ChartOf(query, offers, reports, report) = ChartAmong(query, ToSet(offers), reports, report)
<1>1. PICK byId : byId = {offers[i] : i \in {j \in DOMAIN offers :
                            \A k \in DOMAIN offers : k > j => offers[k].id # offers[j].id}}
  OBVIOUS
<1>2. DOMAIN offers = 1 .. Len(offers) /\ Len(offers) \in Nat
  BY DistinctOffers
<1>3. \A j, k \in DOMAIN offers : k > j => offers[k].id # offers[j].id
  <2>1. SUFFICES ASSUME NEW j \in DOMAIN offers, NEW k \in DOMAIN offers, k > j, offers[k].id = offers[j].id
                 PROVE  FALSE
    OBVIOUS
  <2>2. k = j
    BY <2>1 DEF Distinct
  <2>3. QED
    BY <1>2, <2>1, <2>2
<1>4. byId = {offers[i] : i \in DOMAIN offers}
  BY <1>1, <1>3
<1>5. byId = ToSet(offers)
  BY <1>4 DEF ToSet
<1>6. ChartOf(query, offers, reports, report) = ChartAmong(query, byId, reports, report)
  BY <1>1 DEF ChartOf, ChartAmong
<1>7. QED
  BY <1>5, <1>6

\* The charts of a set of offers.
ChartsAmong(query, S, reports) ==
  LET all == [i \in DOMAIN reports |-> ChartAmong(query, S, reports, reports[i])]
  IN  Chosen(all, {i \in DOMAIN reports : all[i].points # <<>>})

\* So do all charts,
LEMMA ChartsOfSet ==
  ASSUME NEW offers, Distinct(offers), NEW query, NEW reports
  PROVE  PriceCharts(query, offers, reports) = ChartsAmong(query, ToSet(offers), reports)
<1>1. PICK all : all = [i \in DOMAIN reports |-> ChartOf(query, offers, reports, reports[i])]
  OBVIOUS
<1>2. PriceCharts(query, offers, reports) = Chosen(all, {i \in DOMAIN reports : all[i].points # <<>>})
  BY <1>1 DEF PriceCharts, Only
<1>3. all = [i \in DOMAIN reports |-> ChartAmong(query, ToSet(offers), reports, reports[i])]
  BY <1>1, ChartOfSet
<1>4. QED
  BY <1>2, <1>3 DEF ChartsAmong

\* The classes of a set of offers.
ClassesAmong(query, S, reports) ==
  [id \in {o.id : o \in S} |-> ClassOf(query, CHOOSE o \in S : o.id = id, reports)]

\* An analysis, by what each part of it depends on.
LEMMA AnalysisParts ==
  ASSUME NEW offers, NEW query
  PROVE  LET reports == ReportsOn(query, offers)
         IN  Analyse(query, offers) =
               [matches |-> {o.id : o \in {p \in ToSet(offers) : Matches(query, p)}},
                groups |-> Groups(offers), reports |-> reports,
                primary |-> PrimaryStatistics(reports),
                classes |-> ClassesAmong(query, ToSet(offers), reports),
                charts |-> PriceCharts(query, offers, reports),
                opportunities |-> Opportunities(query, UniqueOffers(offers), reports)]
BY DEF Analyse, ReportsOn, Shown, ClassesAmong

\* and so does the whole analysis.
LEMMA AnalysesAlike ==
  ASSUME NEW a, NEW b, SameOffers(a, b), NEW query
  PROVE  Analyse(query, a) = Analyse(query, b)
<1>1. Distinct(a) /\ Distinct(b) /\ ToSet(a) = ToSet(b)
  BY DEF SameOffers
<1>2. ToSet(UniqueOffers(a)) = ToSet(UniqueOffers(b)) /\ SameOffers(Shown(query, a), Shown(query, b))
  BY ShownAlike
<1>3. PICK reports : reports = ReportsOn(query, a)
  OBVIOUS
<1>4. ReportsOn(query, b) = reports
  BY <1>2, <1>3, StatisticsAlike DEF ReportsOn
<1>5. PriceCharts(query, a, reports) = PriceCharts(query, b, reports)
  BY <1>1, ChartsOfSet
<1>6. Opportunities(query, UniqueOffers(a), reports) = Opportunities(query, UniqueOffers(b), reports)
  BY <1>2 DEF Opportunities
<1>7. Groups(a) = Groups(b)
  BY <1>1 DEF Groups
<1>8. QED
  BY <1>1, <1>3, <1>4, <1>5, <1>6, <1>7, AnalysisParts

\* Reversing is another order of the same offers.
LEMMA ReversedOffers ==
  ASSUME NEW offers, Distinct(offers)
  PROVE  SameOffers(Reverse(offers), offers)
<1>1. PICK n, back : n = Len(offers) /\ back = Reverse(offers)
  OBVIOUS
<1>2. n \in Nat /\ DOMAIN offers = 1 .. n /\ \A i \in 1 .. n : offers[i] \in OfferSet
  BY <1>1, SequencePositions DEF Distinct
<1>3. back = [i \in 1 .. n |-> offers[(n - i) + 1]]
  BY <1>1 DEF Reverse
<1>4. \A i \in 1 .. n : (n - i) + 1 \in 1 .. n /\ n - ((n - i) + 1) + 1 = i
  BY <1>2
<1>5. back \in [1 .. n -> OfferSet]
  BY <1>2, <1>3, <1>4
<1>6. back \in Seq(OfferSet) /\ DOMAIN back = 1 .. n
  BY <1>2, <1>5, ListedIsFunction
<1>7. ASSUME NEW i \in 1 .. n, NEW j \in 1 .. n, back[i].id = back[j].id PROVE i = j
  <2>1. PICK k, l : k = (n - i) + 1 /\ l = (n - j) + 1
    OBVIOUS
  <2>2. k \in 1 .. n /\ l \in 1 .. n /\ offers[k].id = offers[l].id
    BY <1>3, <1>4, <1>7, <2>1
  <2>3. k = l
    BY <1>2, <2>2 DEF Distinct
  <2>4. QED
    BY <1>2, <2>1, <2>3
<1>8. ToSet(back) = ToSet(offers)
  <2>1. \A i \in 1 .. n : \E j \in 1 .. n : back[i] = offers[j]
    BY <1>3, <1>4
  <2>2. ASSUME NEW i \in 1 .. n PROVE \E j \in 1 .. n : back[j] = offers[i]
    <3>1. PICK j : j = (n - i) + 1
      OBVIOUS
    <3>2. j \in 1 .. n /\ (n - j) + 1 = i
      BY <1>4, <3>1
    <3>3. back[j] = offers[i]
      BY <1>3, <3>2
    <3>4. QED
      BY <3>2, <3>3
  <2>3. \A x : (\E i \in 1 .. n : back[i] = x) <=> (\E i \in 1 .. n : offers[i] = x)
    BY <2>1, <2>2
  <2>4. \A x : x \in ToSet(back) <=> x \in ToSet(offers)
    BY <1>2, <1>6, <2>3 DEF ToSet
  <2>5. QED
    BY <2>4
<1>9. QED
  BY <1>1, <1>2, <1>6, <1>7, <1>8 DEF SameOffers, Distinct

\* The offers of a snapshot.
LEMMA SnapshotDistinct ==
  ASSUME FlowOK, snapshot # None
  PROVE  /\ Distinct(snapshot.offers) /\ snapshot.analysis = Analyse(Query, snapshot.offers)
         /\ snapshot.offers = Merged
<1>1. SourcesOK /\ snapshot = SnapshotOf(Merged)
  BY DEF FlowOK, ResultsOK
<1>2. snapshot.offers = Merged /\ snapshot.analysis = Analyse(Query, Merged)
  BY <1>1 DEF SnapshotOf
<1>3. Distinct(Merged)
  BY <1>1, MergedOffers DEF Distinct
<1>4. QED
  BY <1>2, <1>3

\* The analysis of the snapshot is that of the reversed offers: nothing in it
\* depends on the order in which sources and pages are merged
\* (analysis/service.py, AnalysisIgnoresOrder).
THEOREM AnalysisAlwaysIgnoresOrder == Spec => []AnalysisIgnoresOrder
<1>1. ASSUME FlowOK PROVE AnalysisIgnoresOrder
  BY <1>1, SnapshotDistinct, ReversedOffers, AnalysesAlike DEF AnalysisIgnoresOrder
<1>2. QED
  BY <1>1, FlowAlways, PTL

-----------------------------------------------------------------------------
(* Currencies *)

\* The offers of a currency form the same market alone and among the others.
LEMMA MarketApart ==
  ASSUME NEW offers, NEW alike, NEW c, NEW query, Distinct(offers), Distinct(alike),
         ToSet(alike) = Market(offers, c)
  PROVE  Market(Shown(query, alike), c) = Market(Shown(query, offers), c)
<1>1. PICK S, A : S = ToSet(offers) /\ A = ToSet(alike)
  OBVIOUS
<1>2. \A o : o \in A <=> o \in S /\ o.price # None /\ o.price.currency = c
  BY <1>1 DEF Market
<1>3. ASSUME NEW o \in A PROVE Kind(A, o) = Kind(S, o)
  <2>1. ASSUME NEW p \in Kind(S, o) PROVE p \in A
    <3>1. p \in S /\ Fingerprint(p) = Fingerprint(o)
      BY <2>1 DEF Kind
    <3>2. p.price = o.price
      BY <3>1 DEF Fingerprint
    <3>3. QED
      BY <1>2, <3>1, <3>2
  <2>2. A \subseteq S
    BY <1>2
  <2>3. QED
    BY <2>1, <2>2 DEF Kind
<1>4. /\ \A o : o \in ToSet(UniqueOffers(offers)) <=> o \in S /\ o = Best(Kind(S, o))
      /\ \A o : o \in ToSet(UniqueOffers(alike)) <=> o \in A /\ o = Best(Kind(A, o))
  BY <1>1, UniqueAsSet
<1>5. /\ \A o : o \in ToSet(Shown(query, offers)) <=> o \in ToSet(UniqueOffers(offers)) /\ Comparable(query, o)
      /\ \A o : o \in ToSet(Shown(query, alike)) <=> o \in ToSet(UniqueOffers(alike)) /\ Comparable(query, o)
  BY ShownElements
<1>6. /\ \A o : o \in Market(Shown(query, offers), c) <=>
                 o \in ToSet(Shown(query, offers)) /\ o.price # None /\ o.price.currency = c
      /\ \A o : o \in Market(Shown(query, alike), c) <=>
                 o \in ToSet(Shown(query, alike)) /\ o.price # None /\ o.price.currency = c
  BY DEF Market
<1>7. \A o : o \in Market(Shown(query, offers), c) <=> o \in Market(Shown(query, alike), c)
  BY <1>2, <1>3, <1>4, <1>5, <1>6
<1>8. QED
  BY <1>7

\* So an offer has the same class alone with its currency.
LEMMA ClassApart ==
  ASSUME NEW offers, NEW alike, NEW query, NEW o, None \notin Reports,
         Distinct(offers), Distinct(alike), ToSet(alike) = Market(offers, o.price.currency)
  PROVE  ClassOf(query, o, ReportsOn(query, alike)) = ClassOf(query, o, ReportsOn(query, offers))
<1>1. PICK c : c = o.price.currency
  OBVIOUS
<1>2. Market(Shown(query, alike), c) = Market(Shown(query, offers), c)
  BY <1>1, MarketApart
<1>3. Distinct(Shown(query, alike)) /\ Distinct(Shown(query, offers))
  BY ShownElements
<1>4. Reported(Shown(query, alike), c) <=> Reported(Shown(query, offers), c)
  BY <1>2 DEF Reported
<1>5. ReportIn(Shown(query, alike), c) = ReportIn(Shown(query, offers), c)
  BY <1>2, <1>3, ReportsAlike
<1>6. MarketOf(query, o, ReportsOn(query, alike))
        = IF Comparable(query, o) /\ o.price # None /\ Reported(Shown(query, alike), o.price.currency)
          THEN ReportIn(Shown(query, alike), o.price.currency) ELSE None
  BY MarketReport
<1>7. MarketOf(query, o, ReportsOn(query, offers))
        = IF Comparable(query, o) /\ o.price # None /\ Reported(Shown(query, offers), o.price.currency)
          THEN ReportIn(Shown(query, offers), o.price.currency) ELSE None
  BY MarketReport
<1>8. MarketOf(query, o, ReportsOn(query, alike)) = MarketOf(query, o, ReportsOn(query, offers))
  BY <1>1, <1>4, <1>5, <1>6, <1>7
<1>9. QED
  BY <1>8 DEF ClassOf

\* The class an analysis gives an offer.
LEMMA ClassFound ==
  ASSUME NEW offers, Distinct(offers), NEW query, NEW o \in ToSet(offers)
  PROVE  /\ o.id \in DOMAIN Analyse(query, offers).classes
         /\ Analyse(query, offers).classes[o.id] = ClassOf(query, o, ReportsOn(query, offers))
<1>1. PICK S, reports : S = ToSet(offers) /\ reports = ReportsOn(query, offers)
  OBVIOUS
<1>2. Analyse(query, offers).classes
        = [id \in {p.id : p \in S} |-> ClassOf(query, CHOOSE p \in S : p.id = id, reports)]
  BY <1>1 DEF Analyse, ReportsOn, Shown
<1>3. (CHOOSE p \in S : p.id = o.id) = o
  BY <1>1, DistinctOffers
<1>4. QED
  BY <1>1, <1>2, <1>3

\* The offers of the currency of an offer.
AlikeTo(offers, o) == Only(offers, LAMBDA p : p.price # None /\ p.price.currency = o.price.currency)

\* They are the market of that currency.
LEMMA AlikeOffers ==
  ASSUME NEW offers, Distinct(offers), NEW o, NEW alike, alike = AlikeTo(offers, o)
  PROVE  Distinct(alike) /\ ToSet(alike) = Market(offers, o.price.currency)
<1>0. PICK c : c = o.price.currency
  OBVIOUS
<1>1. PICK T : T = {i \in DOMAIN offers : offers[i].price # None /\ offers[i].price.currency = c}
  OBVIOUS
<1>2. T \subseteq DOMAIN offers
  BY <1>1
<1>3. /\ Distinct(Chosen(offers, T))
      /\ \A p : p \in ToSet(Chosen(offers, T)) <=> \E i \in T : p = offers[i]
  BY <1>2, SomeOffers
<1>4. \A p : (\E i \in T : p = offers[i]) <=> p \in Market(offers, c)
  BY <1>1 DEF Market, ToSet
<1>5. ToSet(Chosen(offers, T)) = Market(offers, c)
  BY <1>3, <1>4
<1>6. alike = Chosen(offers, T)
  BY <1>0, <1>1 DEF AlikeTo, Only
<1>7. QED
  BY <1>0, <1>3, <1>5, <1>6

\* An offer with a price has the class it would have if the offers of its
\* currency were the only ones: no report, quartile or fence mixes currencies
\* (analysis/statistics.py, CurrenciesApart).
THEOREM CurrenciesStayApart == Spec => []CurrenciesApart
<1>1. ASSUME FlowOK PROVE CurrenciesApart
  <2>1. SUFFICES ASSUME snapshot # None, NEW o \in ToSet(snapshot.offers), o.price # None
                 PROVE  LET alike == Only(snapshot.offers, LAMBDA p : p.price # None
                                                             /\ p.price.currency = o.price.currency)
                        IN  Analyse(Query, alike).classes[o.id] = snapshot.analysis.classes[o.id]
    BY DEF CurrenciesApart
  <2>2. PICK offers : offers = snapshot.offers
    OBVIOUS
  <2>3. Distinct(offers) /\ snapshot.analysis = Analyse(Query, offers)
    BY <1>1, <2>1, <2>2, SnapshotDistinct
  <2>4. PICK alike : alike = AlikeTo(offers, o)
    OBVIOUS
  <2>5. Distinct(alike) /\ ToSet(alike) = Market(offers, o.price.currency)
    BY <2>3, <2>4, AlikeOffers
  <2>6. o \in ToSet(offers) /\ o \in ToSet(alike)
    BY <2>1, <2>2, <2>5 DEF Market
  <2>7. Analyse(Query, offers).classes[o.id] = ClassOf(Query, o, ReportsOn(Query, offers))
    BY <2>3, <2>6, ClassFound
  <2>8. Analyse(Query, alike).classes[o.id] = ClassOf(Query, o, ReportsOn(Query, alike))
    BY <2>5, <2>6, ClassFound
  <2>9. ClassOf(Query, o, ReportsOn(Query, alike)) = ClassOf(Query, o, ReportsOn(Query, offers))
    BY <2>3, <2>5, OfferFlowAssumption, ClassApart
  <2>10. QED
    BY <2>2, <2>3, <2>4, <2>7, <2>8, <2>9 DEF AlikeTo
<1>2. QED
  BY <1>1, FlowAlways, PTL

-----------------------------------------------------------------------------
(* Where an offer comes from *)

\* A source whose offers have been collected.
CollectedAs(s, found, got) ==
  /\ s \in ToSet(Marketplaces) /\ found = candidates[s] /\ FoundBy(s, found)
  /\ AnswersFor(s, found, got) /\ Presentable(found, got)
  /\ collected[s] = CollectedFrom(found, got)

\* A source that contributes has collected.
LEMMA SourceCollected ==
  ASSUME SourcesOK, NEW s \in Sources, collected[s] # <<>> \/ phase[s] = "collected"
  PROVE  \E found, got : CollectedAs(s, found, got)
<1>1. CollectorOK(s, phase[s], candidates[s], answers[s], collected[s])
  BY DEF SourcesOK
<1>2. phase[s] = "collected"
  BY <1>1 DEF CollectorOK
<1>3. s \in ToSet(Marketplaces)
  BY SourceNames DEF SourcesOK
<1>4. CollectedAs(s, candidates[s], answers[s])
  BY <1>1, <1>2, <1>3 DEF CollectorOK, CollectedAs
<1>5. QED
  BY <1>4

\* What is known of a candidate.
CandidateWell(s, c) ==
  /\ c.url \in Urls /\ c.url.query = FALSE
  /\ ProductId(s, c.url) # None => c.id = ProductId(s, c.url)
  /\ CandidateOffer(c).id = [source |-> s, stage |-> "search", key |-> c.id]
  /\ CandidateOffer(c).url = c.url

\* Every candidate found is that.
LEMMA CandidateFacts ==
  ASSUME NEW s, NEW found, NEW got, CollectedAs(s, found, got), NEW i \in DOMAIN found
  PROVE  CandidateWell(s, found[i])
<1>1. s \in ToSet(Marketplaces) /\ FoundBy(s, found)
  BY DEF CollectedAs
<1>2. /\ found[i].url \in Urls /\ found[i].url.query = FALSE
      /\ ProductId(s, found[i].url) # None => found[i].id = ProductId(s, found[i].url)
  BY <1>1, FoundUrl
<1>3. found[i] \in CandidateSet /\ found[i].source = s
  BY <1>1, FoundElements
<1>4. /\ CandidateOffer(found[i]).id = [source |-> s, stage |-> "search", key |-> found[i].id]
      /\ CandidateOffer(found[i]).url = found[i].url
  BY <1>1, <1>3, CandidateOfferType
<1>5. QED
  BY <1>2, <1>4 DEF CandidateWell

\* A page that was fetched is a candidate's.
LEMMA SelectedCandidate ==
  ASSUME NEW s, NEW found, NEW got, CollectedAs(s, found, got), NEW k \in DOMAIN got
  PROVE  Ranked(found)[k] \in DOMAIN found
<1>1. s \in ToSet(Marketplaces) /\ FoundBy(s, found) /\ DOMAIN got = DOMAIN Ranked(found)
  <2>1. s \in ToSet(Marketplaces) /\ FoundBy(s, found) /\ AnswersFor(s, found, got)
    BY DEF CollectedAs
  <2>2. DOMAIN Ranked(found) = 1 .. Len(Ranked(found))
    BY <2>1, RankedFound
  <2>3. QED
    BY <2>1, <2>2 DEF AnswersFor
<1>2. \A j \in DOMAIN Ranked(found) : Ranked(found)[j] \in DOMAIN found
  BY <1>1, RankedFound
<1>3. QED
  BY <1>1, <1>2

\* The candidates are of one page, each id once.
LEMMA TwoCandidates ==
  ASSUME NEW s, NEW found, NEW got, CollectedAs(s, found, got),
         NEW i \in DOMAIN found, NEW j \in DOMAIN found
  PROVE  /\ found[i].id = found[j].id => i = j
         /\ \E page \in SearchPages[s] :
              /\ found[i] \in ToSet(SearchCandidates(s, page))
              /\ found[j] \in ToSet(SearchCandidates(s, page))
<1>1. FoundBy(s, found)
  BY DEF CollectedAs
<1>2. PICK page \in SearchPages[s] : ToSet(found) \subseteq ToSet(SearchCandidates(s, page))
  BY <1>1 DEF FoundBy
<1>3. found[i] \in ToSet(found) /\ found[j] \in ToSet(found)
  BY DEF ToSet
<1>4. found[i].id = found[j].id => i = j
  BY <1>1 DEF FoundBy
<1>5. QED
  BY <1>2, <1>3, <1>4

\* An offer comes from a candidate of its source: as the search showed it, or
\* from its page.
From(s, found, got, o, i) ==
  /\ i \in DOMAIN found
  /\ \/ /\ o = CandidateOffer(found[i])
        /\ \A k \in DOMAIN got : Ranked(found)[k] = i => got[k] = Failed \/ got[k] = <<>>
     \/ \E k \in DOMAIN got :
          /\ Ranked(found)[k] = i /\ got[k] # Failed /\ got[k] \in PageAnswers(s, found[i])
          /\ o \in ToSet(got[k]) /\ o \in DetailOf(s, found[i].url)

\* Every collected offer comes from a candidate of the source.
LEMMA OfferOrigin ==
  ASSUME NEW s, NEW found, NEW got, CollectedAs(s, found, got), NEW o \in ToSet(collected[s])
  PROVE  (\E i : From(s, found, got, o, i)) /\ o.source = s /\ o.id.source = s
<1>1. /\ s \in ToSet(Marketplaces) /\ FoundBy(s, found) /\ AnswersFor(s, found, got)
      /\ Presentable(found, got)
      /\ collected[s] = CollectedFrom(found, got)
  BY DEF CollectedAs
<1>2. OfSearch(found, got, o) \/ OfPage(s, found, got, o)
  <2>1. CollectedWell(s, found, got)
    BY <1>1, CollectedIsWell
  <2>2. QED
    BY <1>1, <2>1 DEF CollectedWell
<1>3. ASSUME OfSearch(found, got, o) PROVE \E i : From(s, found, got, o, i)
  BY <1>3 DEF OfSearch, From
<1>4. ASSUME OfPage(s, found, got, o) PROVE \E i : From(s, found, got, o, i)
  <2>1. PICK k \in DOMAIN got :
          /\ got[k] # Failed /\ got[k] \in PageAnswers(s, found[Ranked(found)[k]])
          /\ o \in ToSet(got[k]) /\ o \in DetailOf(s, found[Ranked(found)[k]].url)
    BY <1>4 DEF OfPage
  <2>2. PICK i : i = Ranked(found)[k]
    OBVIOUS
  <2>3. i \in DOMAIN found
    BY <2>2, SelectedCandidate
  <2>4. From(s, found, got, o, i)
    BY <2>1, <2>2, <2>3 DEF From
  <2>5. QED
    BY <2>4
<1>5. \E i : From(s, found, got, o, i)
  BY <1>2, <1>3, <1>4
<1>6. o.source = s /\ o.id.source = s
  <2>1. PICK O : O = {p \in OfferSet : p.source = s /\ p.id.source = s}
    OBVIOUS
  <2>2. collected[s] \in Seq(O)
    BY <1>1, <2>1, CollectedType
  <2>3. \A i \in DOMAIN collected[s] : collected[s][i] \in O
    BY <2>2, SequencePositions
  <2>4. QED
    BY <2>1, <2>3 DEF ToSet
<1>7. QED
  BY <1>5, <1>6

\* It leads to the page of the candidate.
LEMMA OriginUrl ==
  ASSUME NEW s, NEW found, NEW got, CollectedAs(s, found, got),
         NEW o, NEW i, From(s, found, got, o, i)
  PROVE  i \in DOMAIN found /\ o.url = found[i].url
<1>1. i \in DOMAIN found
  BY DEF From
<1>2. CandidateOffer(found[i]).url = found[i].url
  BY <1>1, CandidateFacts DEF CandidateWell
<1>3. QED
  BY <1>1, <1>2 DEF From, DetailOf

\* The key of an offer of a page, where the URL states the id of the product.
LEMMA CardKeys ==
  ASSUME NEW s \in ToSet(Marketplaces), s # "torob", NEW c, c.url \in Urls, c.id \in DOMAIN ProductPages[s],
         NEW a \in PageAnswers(s, c), NEW o \in ToSet(a), ProductId(s, c.url) # None
  PROVE  o.key = ProductId(s, c.url)
<1>1. PICK page \in Readable(ProductPages[s][c.id]) : a = ProductOffers(s, page, c.url)
  BY DEF PageAnswers
<1>2. page \in ProductDocuments /\ PageTitle(page) # {}
  BY <1>1, OfferFlowAssumption DEF Readable
<1>3. a = CardProduct(s, page, c.url)
  BY <1>1 DEF ProductOffers
<1>4. PICK url : url = c.url
  OBVIOUS
<1>5. \A p \in ToSet(CardProduct(s, page, url)) : p.key = PageId(s, page, url)
  BY <1>2, <1>4, OfferFlowAssumption, CardProductType
<1>6. PageId(s, page, url) = ProductId(s, url)
  BY <1>2, <1>4, PageParts
<1>7. QED
  BY <1>3, <1>4, <1>5, <1>6

-----------------------------------------------------------------------------
(* Every product is shown *)

\* Offers with one id come from one product, if its URL states its id.
LEMMA OneProduct ==
  ASSUME PagesApart, NEW s, NEW found, NEW got, CollectedAs(s, found, got),
         NEW o, NEW p, NEW i, NEW j, From(s, found, got, o, i), From(s, found, got, p, j),
         o.id = p.id, ProductId(s, found[i].url) # None
  PROVE  i = j
<1>1. SUFFICES ASSUME i # j PROVE FALSE
  OBVIOUS
<1>2. PICK c, d : c = found[i] /\ d = found[j]
  OBVIOUS
<1>3. i \in DOMAIN found /\ j \in DOMAIN found
  BY DEF From
<1>4. /\ c.url \in Urls /\ d.url \in Urls /\ c.id # d.id
      /\ ProductId(s, c.url) # None /\ c.id = ProductId(s, c.url)
      /\ ProductId(s, d.url) # None => d.id = ProductId(s, d.url)
      /\ CandidateOffer(c).id = [source |-> s, stage |-> "search", key |-> c.id]
      /\ CandidateOffer(d).id = [source |-> s, stage |-> "search", key |-> d.id]
  <2>1. found[i].id # found[j].id
    BY <1>1, <1>3, TwoCandidates
  <2>2. CandidateWell(s, c)
    BY <1>2, <1>3, CandidateFacts
  <2>3. CandidateWell(s, d)
    BY <1>2, <1>3, CandidateFacts
  <2>4. QED
    BY <1>2, <2>1, <2>2, <2>3 DEF CandidateWell
<1>5. PICK page \in SearchPages[s] : c \in ToSet(SearchCandidates(s, page)) /\ d \in ToSet(SearchCandidates(s, page))
  BY <1>2, <1>3, TwoCandidates
<1>6. \/ o = CandidateOffer(c)
      \/ /\ o.id = [source |-> s, stage |-> "detail", key |-> o.key]
         /\ \E a \in PageAnswers(s, c) : o \in ToSet(a)
  BY <1>2 DEF From, DetailOf
<1>7. \/ p = CandidateOffer(d)
      \/ /\ p.id = [source |-> s, stage |-> "detail", key |-> p.key]
         /\ \E a \in PageAnswers(s, d) : p \in ToSet(a)
  BY <1>2 DEF From, DetailOf
<1>8. ~(o = CandidateOffer(c) /\ p = CandidateOffer(d))
  BY <1>4
<1>9. o.id.stage = p.id.stage /\ o.id.key = p.id.key
  OBVIOUS
<1>10. ~(o = CandidateOffer(c)) /\ ~(p = CandidateOffer(d))
  BY <1>4, <1>6, <1>7, <1>8, <1>9
<1>11. PICK a \in PageAnswers(s, c) : o \in ToSet(a)
  BY <1>6, <1>10
<1>12. PICK b \in PageAnswers(s, d) : p \in ToSet(b)
  BY <1>7, <1>10
<1>13. o.key = p.key
  BY <1>6, <1>7, <1>9, <1>10
<1>14. s \in ToSet(Marketplaces)
  BY DEF CollectedAs
<1>15. CASE s = "torob" \/ ProductId(s, d.url) = None
  BY <1>4, <1>5, <1>11, <1>12, <1>13, <1>14, <1>15 DEF PagesApart
<1>16. CASE s # "torob" /\ ProductId(s, d.url) # None
  <2>1. c.id \in DOMAIN ProductPages[s] /\ d.id \in DOMAIN ProductPages[s]
    BY <1>5, <1>14, OfferFlowAssumption
  <2>2. o.key = c.id
    BY <1>4, <1>11, <1>14, <1>16, <2>1, CardKeys
  <2>3. p.key = d.id
    BY <1>4, <1>12, <1>14, <1>16, <2>1, CardKeys
  <2>4. QED
    BY <1>4, <1>13, <2>2, <2>3
<1>17. QED
  BY <1>15, <1>16

\* Every product a search found and whose URL states its id has an offer in the
\* snapshot that leads to its page, whether its page answered, failed or stated
\* nothing, as long as the pages of two products do not use one id for their
\* offers (_collect_source, _deduplicate_offers, EveryProductShown).
THEOREM EveryProductIsShown ==
  ASSUME PagesApart
  PROVE  Spec => []EveryProductShown
<1>1. ASSUME FlowOK PROVE EveryProductShown
  <2>1. SUFFICES ASSUME snapshot # None, NEW s \in Sources, NEW c \in ToSet(candidates[s]),
                        ProductId(s, c.url) # None
                 PROVE  \E p \in ToSet(snapshot.offers) : p.source = s /\ p.url = c.url
    BY DEF EveryProductShown
  <2>2. SourcesOK /\ snapshot.offers = Merged /\ phase[s] \in {"collected", "failed"}
    BY <1>1, <2>1, SnapshotDistinct DEF FlowOK, ResultsOK
  <2>3. phase[s] = "collected"
    <3>1. CollectorOK(s, phase[s], candidates[s], answers[s], collected[s])
      BY <2>2 DEF SourcesOK
    <3>2. candidates[s] # <<>>
      BY <2>1 DEF ToSet
    <3>3. QED
      BY <2>2, <3>1, <3>2 DEF CollectorOK
  <2>4. PICK found, got : CollectedAs(s, found, got)
    BY <2>2, <2>3, SourceCollected
  <2>5. /\ s \in ToSet(Marketplaces) /\ found = candidates[s] /\ FoundBy(s, found)
        /\ AnswersFor(s, found, got) /\ Presentable(found, got)
        /\ collected[s] = CollectedFrom(found, got)
    BY <2>4 DEF CollectedAs
  <2>6. PICK n \in DOMAIN found : c = found[n]
    BY <2>1, <2>5 DEF ToSet
  <2>7. PICK o \in ToSet(collected[s]) : o.url = c.url
    <3>1. CollectedWell(s, found, got)
      BY <2>5, CollectedIsWell
    <3>2. QED
      BY <2>5, <2>6, <3>1 DEF CollectedWell
  <2>8. PICK p \in ToSet(Merged) : p.id = o.id
    BY <2>2, <2>7, MergedOffers
  <2>9. PICK t \in Sources : p \in ToSet(collected[t])
    BY <2>2, <2>8, MergedOffers
  <2>10. o.id.source = s
    BY <2>4, <2>7, OfferOrigin
  <2>11. t = s
    <3>1. collected[t] # <<>>
      BY <2>9 DEF ToSet
    <3>2. PICK f, g : CollectedAs(t, f, g)
      BY <2>2, <3>1, SourceCollected
    <3>3. p.id.source = t
      BY <2>9, <3>2, OfferOrigin
    <3>4. QED
      BY <2>8, <2>10, <3>3
  <2>12. PICK i : From(s, found, got, o, i)
    BY <2>4, <2>7, OfferOrigin
  <2>13. PICK j : From(s, found, got, p, j)
    BY <2>4, <2>9, <2>11, OfferOrigin
  <2>14. p.source = s
    BY <2>4, <2>9, <2>11, OfferOrigin
  <2>15. o.url = found[i].url /\ p.url = found[j].url
    BY <2>4, <2>12, <2>13, OriginUrl
  <2>16. i = j
    <3>1. ProductId(s, found[i].url) # None
      BY <2>1, <2>7, <2>15
    <3>2. QED
      BY <2>4, <2>8, <2>12, <2>13, <3>1, OneProduct
  <2>17. QED
    BY <2>2, <2>7, <2>8, <2>14, <2>15, <2>16
<1>2. QED
  BY <1>1, FlowAlways, PTL

-----------------------------------------------------------------------------
(* No duplicates are left *)

\* Offers of one kind are one offer: their URLs are the same, so they come
\* from one product, and its page and its search do not both state it.
LEMMA PageOrSearch ==
  ASSUME OnePagePerProduct, NEW s, NEW found, NEW got, CollectedAs(s, found, got),
         NEW o, NEW p, NEW i, NEW j, From(s, found, got, o, i), From(s, found, got, p, j),
         Fingerprint(o) = Fingerprint(p)
  PROVE  o.id = p.id
<1>1. PICK c, d : c = found[i] /\ d = found[j]
  OBVIOUS
<1>2. i \in DOMAIN found /\ j \in DOMAIN found
  BY DEF From
<1>3. /\ c.url \in Urls /\ d.url \in Urls /\ c.url.query = FALSE /\ d.url.query = FALSE
      /\ ProductId(s, c.url) # None => c.id = ProductId(s, c.url)
      /\ ProductId(s, d.url) # None => d.id = ProductId(s, d.url)
      /\ CandidateOffer(c).id = [source |-> s, stage |-> "search", key |-> c.id]
      /\ CandidateOffer(d).id = [source |-> s, stage |-> "search", key |-> d.id]
      /\ CandidateOffer(c).url = c.url /\ CandidateOffer(d).url = d.url
      /\ c.id = d.id => i = j
  <2>1. CandidateWell(s, c)
    BY <1>1, <1>2, CandidateFacts
  <2>2. CandidateWell(s, d)
    BY <1>1, <1>2, CandidateFacts
  <2>3. c.id = d.id => i = j
    BY <1>1, <1>2, TwoCandidates
  <2>4. QED
    BY <2>1, <2>2, <2>3 DEF CandidateWell
<1>4. /\ CandidateOffer(c).key = c.id /\ CandidateOffer(d).key = d.id
  BY DEF CandidateOffer
<1>5. o.key = p.key /\ [o.url EXCEPT !.query = FALSE] = [p.url EXCEPT !.query = FALSE]
  BY DEF Fingerprint
<1>6. o.url = c.url /\ p.url = d.url
  BY <1>1, OriginUrl
<1>7. c.url = d.url
  BY <1>3, <1>5, <1>6 DEF Urls
<1>8. c.id = d.id
  <2>1. PICK page \in SearchPages[s] : c \in ToSet(SearchCandidates(s, page)) /\ d \in ToSet(SearchCandidates(s, page))
    BY <1>1, <1>2, TwoCandidates
  <2>2. s \in ToSet(Marketplaces)
    BY DEF CollectedAs
  <2>3. QED
    BY <1>3, <1>7, <2>1, <2>2 DEF OnePagePerProduct
<1>9. i = j
  BY <1>3, <1>8
<1>10. \A k \in DOMAIN got : \A x : x \in ToSet(got[k]) => got[k] # <<>>
  BY DEF ToSet
<1>11. CASE o = CandidateOffer(c) /\ p = CandidateOffer(d)
  BY <1>3, <1>8, <1>11
<1>12. CASE o # CandidateOffer(c) /\ p # CandidateOffer(d)
  <2>1. /\ o.id = [source |-> s, stage |-> "detail", key |-> o.key]
        /\ p.id = [source |-> s, stage |-> "detail", key |-> p.key]
    BY <1>1, <1>12 DEF From, DetailOf
  <2>2. QED
    BY <1>5, <2>1
<1>13. CASE o = CandidateOffer(c) /\ p # CandidateOffer(d)
  <2>1. PICK k \in DOMAIN got : Ranked(found)[k] = j /\ got[k] # Failed /\ p \in ToSet(got[k])
    BY <1>1, <1>13 DEF From
  <2>2. CASE got[k] = <<>>
    BY <1>10, <2>1, <2>2
  <2>3. CASE got[k] # <<>>
    <3>1. \E m \in DOMAIN got : o \in DetailOf(s, found[i].url)
      BY <1>9, <2>1, <2>3 DEF From
    <3>2. o.id.stage = "detail" /\ o.id.stage = "search"
      BY <1>3, <1>13, <3>1 DEF DetailOf
    <3>3. QED
      BY <3>2
  <2>4. QED
    BY <2>2, <2>3
<1>14. CASE o # CandidateOffer(c) /\ p = CandidateOffer(d)
  <2>1. PICK k \in DOMAIN got : Ranked(found)[k] = i /\ got[k] # Failed /\ o \in ToSet(got[k])
    BY <1>1, <1>14 DEF From
  <2>2. CASE got[k] = <<>>
    BY <1>10, <2>1, <2>2
  <2>3. CASE got[k] # <<>>
    <3>1. \E m \in DOMAIN got : p \in DetailOf(s, found[j].url)
      BY <1>9, <2>1, <2>3 DEF From
    <3>2. p.id.stage = "detail" /\ p.id.stage = "search"
      BY <1>3, <1>14, <3>1 DEF DetailOf
    <3>3. QED
      BY <3>2
  <2>4. QED
    BY <2>2, <2>3
<1>15. QED
  BY <1>11, <1>12, <1>13, <1>14

\* Deduplication keeps every offer of the snapshot.
LEMMA AllKept ==
  ASSUME OnePagePerProduct, FlowOK, snapshot # None
  PROVE  ToSet(UniqueOffers(snapshot.offers)) = ToSet(snapshot.offers)
<1>1. SourcesOK /\ Distinct(snapshot.offers) /\ snapshot.offers = Merged
  BY SnapshotDistinct DEF FlowOK
<1>2. ASSUME NEW o \in ToSet(Merged), NEW p \in ToSet(Merged), Fingerprint(o) = Fingerprint(p)
      PROVE  o = p
  <2>1. PICK s \in Sources : o \in ToSet(collected[s])
    BY <1>1, MergedOffers
  <2>2. PICK t \in Sources : p \in ToSet(collected[t])
    BY <1>1, MergedOffers
  <2>3. collected[s] # <<>> /\ collected[t] # <<>>
    BY <2>1, <2>2 DEF ToSet
  <2>4. PICK found, got : CollectedAs(s, found, got)
    BY <1>1, <2>3, SourceCollected
  <2>5. s = t
    <3>1. PICK f, g : CollectedAs(t, f, g)
      BY <1>1, <2>3, SourceCollected
    <3>2. o.source = s /\ p.source = t
      BY <2>1, <2>2, <2>4, <3>1, OfferOrigin
    <3>3. o.source = p.source
      BY <1>2 DEF Fingerprint
    <3>4. QED
      BY <3>2, <3>3
  <2>6. PICK i : From(s, found, got, o, i)
    BY <2>1, <2>4, OfferOrigin
  <2>7. PICK j : From(s, found, got, p, j)
    BY <2>2, <2>4, <2>5, OfferOrigin
  <2>8. o.id = p.id
    BY <1>2, <2>4, <2>6, <2>7, PageOrSearch
  <2>9. QED
    BY <1>1, <2>8, DistinctOffers
<1>3. QED
  BY <1>1, <1>2, AllUnique

-----------------------------------------------------------------------------
(* The market of a currency *)

\* Where deduplication keeps every offer, the offers of a report are the
\* comparable offers of its currency.
LEMMA MarketKept ==
  ASSUME NEW offers, Distinct(offers), ToSet(UniqueOffers(offers)) = ToSet(offers), NEW query, NEW c
  PROVE  Market(Shown(query, offers), c)
           = {o \in ToSet(offers) : Comparable(query, o) /\ o.price # None /\ o.price.currency = c}
<1>1. \A o : o \in ToSet(Shown(query, offers)) <=> o \in ToSet(offers) /\ Comparable(query, o)
  BY ShownElements
<1>2. QED
  BY <1>1 DEF Market

\* Prices of at most x are few where all of them are among the first k.
LEMMA FewCheap ==
  ASSUME NEW M, NEW values, NEW at, PricesOf(values, M, at), NEW x, NEW k \in Nat,
         \A i \in 1 .. Cardinality(M) : values[i] <= x => i <= k
  PROVE  Cardinality({o \in M : o.price.amount <= x}) \in Nat
         /\ Cardinality({o \in M : o.price.amount <= x}) <= k
<1>1. PICK C, n : C = {o \in M : o.price.amount <= x} /\ n = Cardinality(M)
  OBVIOUS
<1>2. PICK D, K : D = 1 .. n /\ K = 1 .. k
  OBVIOUS
<1>3. /\ n \in Nat /\ IsFiniteSet(M) /\ at \in Bijection(D, M)
      /\ \A i \in D : values[i] = at[i].price.amount
  BY <1>1, <1>2 DEF PricesOf
<1>4. /\ at \in [D -> M] /\ \A o \in M : \E i \in D : at[i] = o
  BY <1>3, Fun_BijectionProperties
<1>5. C \subseteq M /\ IsFiniteSet(C) /\ Cardinality(C) \in Nat
  BY <1>1, <1>3, FS_Subset, FS_CardinalityType
<1>6. IsFiniteSet(K) /\ Cardinality(K) = k
  <2>1. 1 \in Int /\ k \in Int
    OBVIOUS
  <2>2. IsFiniteSet(1 .. k) /\ Cardinality(1 .. k) = k
    BY <2>1, FS_Interval
  <2>3. QED
    BY <1>2, <2>2
<1>7. SUFFICES ASSUME Cardinality(K) < Cardinality(C) PROVE FALSE
  BY <1>1, <1>5, <1>6
<1>8. PICK place : place = [o \in C |-> CHOOSE i \in D : at[i] = o]
  OBVIOUS
<1>9. ASSUME NEW o \in C PROVE place[o] \in K /\ at[place[o]] = o
  <2>1. place[o] \in D /\ at[place[o]] = o
    BY <1>4, <1>5, <1>8
  <2>2. values[place[o]] <= x
    BY <1>1, <1>3, <2>1
  <2>3. place[o] <= k
    BY <1>1, <1>2, <2>1, <2>2
  <2>4. QED
    BY <1>2, <1>3, <2>1, <2>3
<1>10. place \in [C -> K]
  BY <1>8, <1>9
<1>11. PICK o, p \in C : o # p /\ place[o] = place[p]
  BY <1>5, <1>6, <1>7, <1>10, FS_PigeonHole
<1>12. QED
  BY <1>9, <1>11

\* Less than the first quartile cost fewer than a quarter of the others.
LEMMA CheapQuarter ==
  ASSUME NEW M, M # {}, NEW values, NEW at, PricesOf(values, M, at),
         NEW x \in Nat, 4 * x < Quartile(values, 1)
  PROVE  4 * (Cardinality({o \in M : o.price.amount <= x}) - 1) < Cardinality(M) - 1
<1>1. PICK n, C, c : n = Cardinality(M) /\ C = {o \in M : o.price.amount <= x} /\ c = Cardinality(C)
  OBVIOUS
<1>2. /\ n \in Nat /\ n > 0 /\ values \in Seq(Nat) /\ Len(values) = n
      /\ \A i, j \in 1 .. n : i <= j => values[i] <= values[j]
  <2>1. IsFiniteSet(M) /\ n \in Nat /\ values \in Seq(Nat) /\ Len(values) = n
        /\ \A i, j \in 1 .. n : i <= j => values[i] <= values[j]
    BY <1>1 DEF PricesOf
  <2>2. n # 0
    BY <1>1, <2>1, FS_EmptySet
  <2>3. QED
    BY <2>1, <2>2
<1>3. \A i \in 1 .. n : values[i] \in Nat
  BY <1>2
<1>4. PICK p, q, r : p = n - 1 /\ q = p \div 4 /\ r = p % 4
  OBVIOUS
<1>5. /\ q \in Nat /\ r \in 0 .. 3 /\ n - 1 = 4 * q + r
      /\ q + 1 \in 1 .. n /\ (r # 0 => q + 2 \in 1 .. n)
  <2>1. QuartileAt(n, 1, p, q, r)
    BY <1>2, <1>4 DEF QuartileAt
  <2>2. QED
    BY <1>4, <2>1, QuartilePlace
<1>6. 1 * (n - 1) = p
  BY <1>2, <1>4
<1>7. CASE r = 0
  <2>1. Quartile(values, 1) = 4 * values[q + 1]
    BY <1>2, <1>4, <1>6, <1>7 DEF Quartile
  <2>2. x < values[q + 1]
    BY <1>3, <1>5, <2>1
  <2>3. \A i \in 1 .. n : values[i] <= x => i <= q
    <3>1. SUFFICES ASSUME NEW i \in 1 .. n, values[i] <= x, ~(i <= q) PROVE FALSE
      OBVIOUS
    <3>2. q + 1 <= i
      BY <1>5, <3>1
    <3>3. values[q + 1] <= values[i]
      BY <1>2, <1>5, <3>2
    <3>4. QED
      BY <1>3, <1>5, <2>2, <3>1, <3>3
  <2>4. c \in Nat /\ c <= q
    BY <1>1, <1>5, <2>3, FewCheap
  <2>5. 4 * (c - 1) < n - 1
    BY <1>5, <1>7, <2>4
  <2>6. QED
    BY <1>1, <2>5
<1>8. CASE r # 0
  <2>1. PICK i, low, high : i = q + 2 /\ low = values[q + 1] /\ high = values[q + 2]
    OBVIOUS
  <2>2. low \in Nat /\ high \in Nat /\ low <= high
    <3>1. q + 1 <= q + 2
      BY <1>5
    <3>2. QED
      BY <1>2, <1>3, <1>5, <1>8, <2>1, <3>1
  <2>3. Quartile(values, 1) = 4 * low + (high - low) * r
    BY <1>2, <1>4, <1>6, <1>8, <2>1 DEF Quartile
  <2>4. r = 1 \/ r = 2 \/ r = 3
    BY <1>5, <1>8
  <2>5. x < high
    <3>1. Quartile(values, 1) <= 4 * high
      BY <2>2, <2>3, <2>4
    <3>2. Quartile(values, 1) \in Int
      BY <2>2, <2>3, <2>4
    <3>3. QED
      BY <2>2, <3>1, <3>2
  <2>6. PICK m : m = q + 1
    OBVIOUS
  <2>7. \A j \in 1 .. n : values[j] <= x => j <= m
    <3>1. SUFFICES ASSUME NEW j \in 1 .. n, values[j] <= x, ~(j <= m) PROVE FALSE
      OBVIOUS
    <3>2. i <= j /\ i \in 1 .. n
      BY <1>5, <1>8, <2>1, <2>6, <3>1
    <3>3. high <= values[j]
      BY <1>2, <2>1, <3>2
    <3>4. QED
      BY <1>3, <2>2, <2>5, <3>1, <3>3
  <2>8. m \in Nat
    BY <1>5, <2>6
  <2>9. c \in Nat /\ c <= m
    BY <1>1, <2>7, <2>8, FewCheap
  <2>10. 4 * (c - 1) < n - 1
    BY <1>5, <2>4, <2>6, <2>9
  <2>11. QED
    BY <1>1, <2>10
<1>9. QED
  BY <1>7, <1>8

\* The median is at most the greatest price.
LEMMA MedianBound ==
  ASSUME NEW values \in Seq(Nat), Len(values) > 0,
         \A i, j \in 1 .. Len(values) : i <= j => values[i] <= values[j]
  PROVE  /\ Quartile(values, 2) \in Nat
         /\ Quartile(values, 2) <= 4 * values[Len(values)]
<1>1. PICK n, top : n = Len(values) /\ top = values[n]
  OBVIOUS
<1>2. n \in Nat /\ n > 0 /\ \A i \in 1 .. n : values[i] \in Nat /\ values[i] <= top
  BY <1>1
<1>3. PICK p, q, r : p = 2 * (n - 1) /\ q = p \div 4 /\ r = p % 4
  OBVIOUS
<1>4. q \in Nat /\ r \in 0 .. 3 /\ q + 1 \in 1 .. n /\ (r # 0 => q + 2 \in 1 .. n)
  <2>1. QuartileAt(n, 2, p, q, r)
    BY <1>2, <1>3 DEF QuartileAt
  <2>2. QED
    BY <2>1, QuartilePlace
<1>5. PICK low, high : low = values[q + 1] /\ high = values[q + 2]
  OBVIOUS
<1>6. top \in Nat /\ low \in Nat /\ low <= top
  BY <1>1, <1>2, <1>4, <1>5
<1>7. Quartile(values, 2) = IF r = 0 THEN 4 * low ELSE 4 * low + (high - low) * r
  BY <1>1, <1>3, <1>5 DEF Quartile
<1>8. Quartile(values, 2) \in Nat
  BY QuartileType
<1>9. CASE r = 0
  BY <1>1, <1>6, <1>7, <1>8, <1>9
<1>10. CASE r # 0
  <2>1. high \in Nat /\ low <= high /\ high <= top
    <3>1. q + 1 <= q + 2
      BY <1>4
    <3>2. QED
      BY <1>1, <1>2, <1>4, <1>5, <1>10, <3>1
  <2>2. r = 1 \/ r = 2 \/ r = 3
    BY <1>4, <1>10
  <2>3. Quartile(values, 2) <= 4 * top
    BY <1>6, <1>7, <1>10, <2>1, <2>2
  <2>4. QED
    BY <1>1, <1>8, <2>3
<1>11. QED
  BY <1>9, <1>10

\* Rounding does not pass a bound.
LEMMA RoundedBound ==
  ASSUME NEW quarters \in Nat, NEW top \in Nat, quarters <= 4 * top
  PROVE  Rounded(quarters) <= top
<1>1. PICK whole, rest : whole = quarters \div 4 /\ rest = quarters % 4
  OBVIOUS
<1>2. whole \in Nat /\ rest \in 0 .. 3 /\ quarters = 4 * whole + rest
  BY <1>1
<1>3. Rounded(quarters) = whole \/ (rest >= 2 /\ Rounded(quarters) = whole + 1)
  BY <1>1, <1>2 DEF Rounded
<1>4. QED
  BY <1>2, <1>3

\* A price in a low class is below the first quartile.
LEMMA LowClass ==
  ASSUME NEW amount \in Nat, NEW report \in Reports,
         ClassifyPrice(amount, report) \in {"below_market", "low_outlier"}
  PROVE  4 * amount < report.p25
<1>1. report.p25 \in Nat /\ report.p75 \in Nat
  BY DEF Reports
<1>2. PICK range : range = report.p75 - report.p25
  OBVIOUS
<1>3. range \in Int
  BY <1>1, <1>2
<1>4. \/ range > 0 /\ 8 * amount < 2 * report.p25 - 3 * range
      \/ 4 * amount < report.p25
  BY <1>2 DEF ClassifyPrice
<1>5. QED
  BY <1>1, <1>3, <1>4

-----------------------------------------------------------------------------
(* Opportunities *)

\* What is said of an opportunity: of its market fewer than a quarter of the
\* others cost as little, and one offer costs at least its resale price.
LEMMA CheapOpportunity ==
  ASSUME NEW offers, Distinct(offers), None \notin Reports, NEW query, NEW o \in ToSet(offers),
         Cheap(query, o, ReportsOn(query, offers)),
         NEW M, M = Market(Shown(query, offers), o.price.currency)
  PROVE  /\ Comparable(query, o) /\ o.price # None
         /\ Gain(query, offers, o).currency = o.price.currency
         /\ Gain(query, offers, o).id = o.id /\ Gain(query, offers, o).cost = o.price.amount
         /\ 4 * (Cardinality({p \in M : p.price.amount <= o.price.amount}) - 1) < Cardinality(M) - 1
         /\ \E p \in M : p.price.amount >= Gain(query, offers, o).resale
<1>1. PICK reports, report, c, shown :
        /\ reports = ReportsOn(query, offers) /\ report = MarketOf(query, o, reports)
        /\ c = o.price.currency /\ shown = Shown(query, offers)
  OBVIOUS
<1>2. /\ report # None /\ ClassifyPrice(o.price.amount, report) \in {"below_market", "low_outlier"}
  BY <1>1 DEF Cheap, ClassOf
<1>3. MarketOf(query, o, ReportsOn(query, offers))
        = IF /\ Comparable(query, o) /\ o.price # None
             /\ Reported(Shown(query, offers), o.price.currency)
          THEN ReportIn(Shown(query, offers), o.price.currency) ELSE None
  BY MarketReport
<1>4. /\ Comparable(query, o) /\ o.price # None
      /\ Reported(shown, c) /\ report = ReportIn(shown, c)
  BY <1>1, <1>2, <1>3
<1>5. Distinct(shown)
  BY <1>1, ShownElements
<1>6. report \in Reports /\ report.currency = c
  BY <1>4, <1>5, ReportType
<1>7. o.price.amount \in Nat
  <2>1. o \in OfferSet
    BY DistinctOffers
  <2>2. o.price \in Prices
    BY <1>4, <2>1 DEF OfferSet, Optional
  <2>3. QED
    BY <2>2 DEF Prices
<1>8. PICK x : x = Gain(query, offers, o)
  OBVIOUS
<1>9. /\ x.currency = c /\ x.id = o.id /\ x.cost = o.price.amount
      /\ x.resale = Rounded(report.median)
  BY <1>1, <1>6, <1>8 DEF Gain, Opportunity
<1>10. PICK amounts, values : amounts = AmountsIn(shown, c) /\ values = SortedAmounts(amounts)
  OBVIOUS
<1>11. PICK at : PricesOf(values, M, at)
  BY <1>1, <1>5, <1>10, AmountsOfMarket
<1>12. amounts \in Seq(Nat) /\ Len(amounts) = Cardinality(M)
  BY <1>1, <1>5, <1>10, AmountsOfMarket
<1>13. PICK n : n = Cardinality(M)
  OBVIOUS
<1>14. /\ n \in Nat /\ values \in Seq(Nat) /\ Len(values) = n /\ M # {} /\ n > 0
       /\ \A i, j \in 1 .. n : i <= j => values[i] <= values[j]
       /\ at \in Bijection(1 .. n, M) /\ \A i \in 1 .. n : values[i] = at[i].price.amount
  <2>1. M # {}
    BY <1>1, <1>4 DEF Reported
  <2>2. /\ n \in Nat /\ values \in Seq(Nat) /\ Len(values) = n /\ IsFiniteSet(M)
        /\ \A i, j \in 1 .. n : i <= j => values[i] <= values[j]
        /\ at \in Bijection(1 .. n, M) /\ \A i \in 1 .. n : values[i] = at[i].price.amount
    BY <1>11, <1>13 DEF PricesOf
  <2>3. n # 0
    BY <1>13, <2>1, <2>2, FS_EmptySet
  <2>4. QED
    BY <2>1, <2>2, <2>3
<1>15. report.p25 = Quartile(values, 1) /\ report.median = Quartile(values, 2)
  <2>1. c \in ToSet(Currencies) /\ Len(amounts) > 0
    BY <1>4, <1>12, <1>13, <1>14 DEF Reported
  <2>2. PriceStatistics(c, amounts).p25 = Quartile(SortedAmounts(amounts), 1)
        /\ PriceStatistics(c, amounts).median = Quartile(SortedAmounts(amounts), 2)
    BY <1>12, <2>1, StatisticsType
  <2>3. QED
    BY <1>4, <1>10, <2>2 DEF ReportIn
<1>16. 4 * o.price.amount < Quartile(values, 1)
  BY <1>2, <1>6, <1>7, <1>15, LowClass
<1>17. 4 * (Cardinality({p \in M : p.price.amount <= o.price.amount}) - 1) < Cardinality(M) - 1
  BY <1>7, <1>11, <1>14, <1>16, CheapQuarter
<1>18. \E p \in M : p.price.amount >= x.resale
  <2>1. PICK top : top = values[n]
    OBVIOUS
  <2>2. top \in Nat
    BY <1>14, <2>1
  <2>3. Quartile(values, 2) \in Nat /\ Quartile(values, 2) <= 4 * top
    BY <1>14, <2>1, MedianBound
  <2>4. Rounded(Quartile(values, 2)) \in Nat /\ Rounded(Quartile(values, 2)) <= top
    BY <2>2, <2>3, RoundedBound, RoundedType
  <2>5. PICK D : D = 1 .. n
    OBVIOUS
  <2>6. at \in Bijection(D, M) /\ n \in D
    BY <1>14, <2>5
  <2>7. at[n] \in M
    BY <2>6, Fun_BijectionProperties
  <2>8. at[n].price.amount = top
    BY <1>14, <2>1
  <2>9. at[n].price.amount >= x.resale
    BY <1>9, <1>15, <2>2, <2>4, <2>8
  <2>10. QED
    BY <2>7, <2>9
<1>19. QED
  BY <1>1, <1>4, <1>8, <1>9, <1>17, <1>18

\* An opportunity is cheap in its market: fewer than a quarter of the other
\* comparable offers of its currency cost as little, and one costs at least the
\* resale price its profit is computed with (OpportunitiesAreCheap), as long as
\* a URL without an id leads to one product.
THEOREM OpportunitiesAreAlwaysCheap ==
  ASSUME OnePagePerProduct
  PROVE  Spec => []OpportunitiesAreCheap
<1>1. ASSUME FlowOK PROVE OpportunitiesAreCheap
  <2>1. SUFFICES ASSUME snapshot # None, NEW i \in DOMAIN snapshot.analysis.opportunities
                 PROVE
      LET found == snapshot.analysis.opportunities[i]
          market == {o \in ToSet(snapshot.offers) :
                       /\ Comparable(Query, o) /\ o.price # None
                       /\ o.price.currency = found.currency}
          asCheap == {o \in market : o.price.amount <= found.cost}
      IN  /\ \E o \in asCheap : o.id = found.id /\ o.price.amount = found.cost
          /\ 4 * (Cardinality(asCheap) - 1) < Cardinality(market) - 1
          /\ \E o \in market : o.price.amount >= found.resale
    BY DEF OpportunitiesAreCheap
  <2>2. PICK offers : offers = snapshot.offers
    OBVIOUS
  <2>3. Distinct(offers) /\ snapshot.analysis = Analyse(Query, offers)
    BY <1>1, <2>1, <2>2, SnapshotDistinct
  <2>4. ToSet(UniqueOffers(offers)) = ToSet(offers)
    BY <1>1, <2>1, <2>2, AllKept
  <2>5. None \notin Reports /\ MaxOpportunities \in Nat
    BY OfferFlowAssumption
  <2>6. PICK x : x = snapshot.analysis.opportunities[i]
    OBVIOUS
  <2>7. x \in ToSet(Analyse(Query, offers).opportunities)
    BY <2>1, <2>3, <2>6 DEF ToSet
  <2>8. PICK o \in ToSet(UniqueOffers(offers)) :
          x = Gain(Query, offers, o) /\ Cheap(Query, o, ReportsOn(Query, offers))
    BY <2>3, <2>5, <2>7, OpportunityElements
  <2>9. o \in ToSet(offers)
    BY <2>4
  <2>10. PICK M : M = Market(Shown(Query, offers), o.price.currency)
    OBVIOUS
  <2>11. /\ Comparable(Query, o) /\ o.price # None
         /\ x.currency = o.price.currency /\ x.id = o.id /\ x.cost = o.price.amount
         /\ 4 * (Cardinality({p \in M : p.price.amount <= o.price.amount}) - 1) < Cardinality(M) - 1
         /\ \E p \in M : p.price.amount >= x.resale
    BY <2>3, <2>5, <2>8, <2>9, <2>10, CheapOpportunity
  <2>12. M = {p \in ToSet(offers) : /\ Comparable(Query, p) /\ p.price # None
                                    /\ p.price.currency = x.currency}
    BY <2>3, <2>4, <2>10, <2>11, MarketKept
  <2>13. PICK C : C = {p \in M : p.price.amount <= x.cost}
    OBVIOUS
  <2>14. o \in C
    <3>1. o.price.amount <= o.price.amount
      <4>1. o \in OfferSet
        BY <2>3, <2>9, DistinctOffers
      <4>2. o.price \in Prices
        BY <2>11, <4>1 DEF OfferSet, Optional
      <4>3. o.price.amount \in Nat
        BY <4>2 DEF Prices
      <4>4. QED
        BY <4>3
    <3>2. o \in M
      BY <2>9, <2>11, <2>12
    <3>3. QED
      BY <2>11, <2>13, <3>1, <3>2
  <2>15. 4 * (Cardinality(C) - 1) < Cardinality(M) - 1
    BY <2>11, <2>13
  <2>16. QED
    BY <2>2, <2>6, <2>11, <2>12, <2>13, <2>14, <2>15
<1>2. QED
  BY <1>1, FlowAlways, PTL

-----------------------------------------------------------------------------
(* Charts *)

\* All positions in their order are the positions themselves.
LEMMA AllPositions ==
  ASSUME NEW n \in Nat, NEW at, Ascends(at, 1 .. n)
  PROVE  Cardinality(1 .. n) = n /\ \A i \in 1 .. n : at[i] = i
<1>1. Cardinality(1 .. n) = n
  <2>1. 1 \in Int /\ n \in Int
    OBVIOUS
  <2>2. QED
    BY <2>1, FS_Interval
<1>2. /\ at \in [1 .. n -> 1 .. n] /\ \A i \in 1 .. n : \E m \in 1 .. n : at[m] = i
      /\ \A m, k \in 1 .. n : m < k <=> at[m] < at[k]
      /\ \A m, k \in 1 .. n : at[m] = at[k] => m = k
  BY <1>1 DEF Ascends
<1>3. PICK W : W = {i \in 1 .. n : at[i] # i}
  OBVIOUS
<1>4. ASSUME W # {} PROVE FALSE
  <2>1. W \subseteq Nat
    BY <1>3
  <2>2. PICK i \in W : \A j \in W : i <= j
    BY <1>4, <2>1, LeastNat
  <2>3. i \in 1 .. n /\ at[i] # i /\ at[i] \in 1 .. n
    BY <1>2, <1>3
  <2>4. \A j \in 1 .. n : j < i => at[j] = j
    <3>1. SUFFICES ASSUME NEW j \in 1 .. n, j < i, at[j] # j PROVE FALSE
      OBVIOUS
    <3>2. i <= j
      BY <1>3, <2>2, <3>1
    <3>3. QED
      BY <2>3, <3>1, <3>2
  <2>5. ~(at[i] < i)
    <3>1. SUFFICES ASSUME at[i] < i PROVE FALSE
      OBVIOUS
    <3>2. at[at[i]] = at[i]
      BY <2>3, <2>4, <3>1
    <3>3. QED
      BY <1>2, <2>3, <3>2
  <2>6. PICK m \in 1 .. n : at[m] = i
    BY <1>2, <2>3
  <2>7. ~(m < i) /\ m # i
    BY <2>3, <2>4, <2>6
  <2>8. i < m
    BY <2>3, <2>7
  <2>9. at[i] < at[m]
    BY <1>2, <2>3, <2>8
  <2>10. QED
    BY <2>3, <2>5, <2>6, <2>9
<1>5. QED
  BY <1>1, <1>3, <1>4

\* All elements of a sequence, chosen, are the sequence.
LEMMA AllChosen ==
  ASSUME NEW n \in Nat, NEW V, NEW s \in [1 .. n -> V]
  PROVE  Chosen(s, 1 .. n) = s
<1>1. PICK T : T = 1 .. n
  OBVIOUS
<1>2. T \subseteq Int /\ IsFiniteSet(T) /\ \A i \in T : s[i] \in V
  BY <1>1, PositionsFinite
<1>3. Follows(Chosen(s, T), s, T)
  BY <1>2, ChosenInOrder
<1>4. PICK at : Ascends(at, T) /\ \A k \in 1 .. Cardinality(T) : Chosen(s, T)[k] = s[at[k]]
  BY <1>3 DEF Follows
<1>5. Cardinality(T) = n /\ \A i \in 1 .. n : at[i] = i
  BY <1>1, <1>4, AllPositions
<1>6. Chosen(s, T) \in Seq(V) /\ Len(Chosen(s, T)) = Cardinality(T)
  BY <1>2, ChosenElements
<1>7. PICK c : c = Chosen(s, T)
  OBVIOUS
<1>8. c \in Seq(V) /\ Len(c) = n /\ \A k \in 1 .. n : c[k] = s[k]
  BY <1>4, <1>5, <1>6, <1>7
<1>9. s \in Seq(V) /\ Len(s) = n
  BY ListedIsFunction
<1>10. c = s
  BY <1>8, <1>9, SeqEqual
<1>11. QED
  BY <1>1, <1>7, <1>10

\* Points that are told apart by their ids.
Points(P) ==
  /\ \A a \in P : a.id \in OfferIds /\ a.amount \in Nat
  /\ \A a, b \in P : a.id = b.id => a = b

\* The points of a chart, from the cheapest: every point once.
PointsRanked(points, P) ==
  /\ Cardinality(P) \in Nat /\ points \in [1 .. Cardinality(P) -> P]
  /\ points \in Seq(P) /\ Len(points) = Cardinality(P)
  /\ \A a \in P : \E k \in 1 .. Cardinality(P) : points[k] = a
  /\ \A k, l \in 1 .. Cardinality(P) : points[k] = points[l] => k = l
  /\ \A k, l \in 1 .. Cardinality(P) : k <= l => points[k].amount <= points[l].amount

\* The points in order of amount and id are that.
LEMMA PointsInOrder ==
  ASSUME NEW P, IsFiniteSet(P), Points(P)
  PROVE  PointsRanked(InOrder(P, PointBefore), P)
<1> DEFINE before == [b \in P |-> {a \in P : PointBefore(a, b)}]
<1>1. before \in [P -> SUBSET P] /\ \A a, b \in P : a \in before[b] <=> PointBefore(a, b)
  OBVIOUS
<1>2. InOrder(P, PointBefore) = Arranged(P, before)
  BY DEF InOrder
<1> HIDE DEF before
<1>3. \A a \in P : ~PointBefore(a, a)
  BY IdOrder DEF PointBefore, Points
<1>4. ASSUME NEW a \in P, NEW b \in P, NEW c \in P, PointBefore(a, b), PointBefore(b, c)
      PROVE  PointBefore(a, c)
  <2>1. a.id \in OfferIds /\ b.id \in OfferIds /\ c.id \in OfferIds
    BY DEF Points
  <2>2. IdBefore(a.id, b.id) /\ IdBefore(b.id, c.id) => IdBefore(a.id, c.id)
    BY <2>1, IdOrder
  <2>3. a.amount \in Nat /\ b.amount \in Nat /\ c.amount \in Nat
    BY DEF Points
  <2>4. QED
    BY <1>4, <2>2, <2>3 DEF PointBefore
<1>5. ASSUME NEW a \in P, NEW b \in P, a # b PROVE PointBefore(a, b) \/ PointBefore(b, a)
  <2>1. a.id \in OfferIds /\ b.id \in OfferIds /\ a.id # b.id
    BY <1>5 DEF Points
  <2>2. IdBefore(a.id, b.id) \/ IdBefore(b.id, a.id)
    BY <2>1, IdOrder
  <2>3. a.amount \in Nat /\ b.amount \in Nat
    BY DEF Points
  <2>4. QED
    BY <2>2, <2>3 DEF PointBefore
<1>6. StrictOrder(P, before)
  <2>1. \A a \in P : a \notin before[a]
    BY <1>1, <1>3
  <2>2. ASSUME NEW c \in P, NEW b \in before[c] PROVE before[b] \subseteq before[c]
    <3>1. b \in P /\ before[b] \subseteq P
      BY <1>1
    <3>2. ASSUME NEW a \in before[b] PROVE a \in before[c]
      BY <1>1, <1>4, <3>1
    <3>3. QED
      BY <3>2
  <2>3. \A a, b \in P : a # b => a \in before[b] \/ b \in before[a]
    BY <1>1, <1>5
  <2>4. QED
    BY <1>1, <2>1, <2>2, <2>3 DEF StrictOrder
<1>7. PICK points, m : points = Arranged(P, before) /\ m = Cardinality(P)
  OBVIOUS
<1>8. Enumerates(points, P, before)
  BY <1>6, <1>7, ArrangedEnumerates
<1>9. /\ m \in Nat /\ points \in [1 .. m -> P]
      /\ \A a \in P : \E k \in 1 .. m : points[k] = a
      /\ \A k, l \in 1 .. m : k < l <=> points[k] \in before[points[l]]
      /\ \A k, l \in 1 .. m : points[k] = points[l] => k = l
  BY <1>7, <1>8 DEF Enumerates
<1>10. points \in Seq(P) /\ Len(points) = m
  BY <1>9, ListedIsFunction
<1>11. ASSUME NEW k \in 1 .. m, NEW l \in 1 .. m, k <= l PROVE points[k].amount <= points[l].amount
  <2>1. PICK a, b : a = points[k] /\ b = points[l]
    OBVIOUS
  <2>2. a \in P /\ b \in P /\ a.amount \in Nat /\ b.amount \in Nat
    BY <1>9, <2>1 DEF Points
  <2>3. a = b \/ PointBefore(a, b)
    <3>1. k = l \/ k < l
      BY <1>9, <1>11
    <3>2. k < l => a \in before[b]
      BY <1>9, <2>1
    <3>3. QED
      BY <1>1, <2>1, <2>2, <3>1, <3>2
  <2>4. a.amount <= b.amount
    BY <2>2, <2>3 DEF PointBefore
  <2>5. QED
    BY <2>1, <2>4
<1>12. QED
  BY <1>2, <1>7, <1>9, <1>10, <1>11 DEF PointsRanked

\* The point of an offer.
PointOf(query, reports, o) ==
  [id |-> o.id, amount |-> o.price.amount, class |-> ClassOf(query, o, reports)]

\* The points of a market.
PointsOn(query, reports, M) == {PointOf(query, reports, o) : o \in M}

\* None is left out.
LEMMA PointsAll ==
  ASSUME NEW P, NEW points, PointsRanked(points, P)
  PROVE  ToSet(points) = P
<1>1. DOMAIN points = 1 .. Cardinality(P)
  BY DEF PointsRanked
<1>2. ToSet(points) \subseteq P
  BY <1>1 DEF PointsRanked, ToSet
<1>3. ASSUME NEW a \in P PROVE a \in ToSet(points)
  <2>1. PICK k \in DOMAIN points : points[k] = a
    BY <1>1 DEF PointsRanked
  <2>2. QED
    BY <2>1 DEF ToSet
<1>4. QED
  BY <1>2, <1>3

\* The points of the offers of a market run from its least price to its
\* greatest.
LEMMA PointsOfMarket ==
  ASSUME NEW M, NEW values, NEW at, PricesOf(values, M, at), M # {},
         \A o \in M : o.id \in OfferIds, \A o, p \in M : o.id = p.id => o = p,
         \A o \in M : o.price.amount \in Nat,
         NEW query, NEW reports, NEW P, P = PointsOn(query, reports, M),
         NEW points, points = InOrder(P, PointBefore)
  PROVE  /\ points \in Seq(P) /\ Len(points) = Cardinality(M) /\ points # <<>>
         /\ Head(points).amount = values[1]
         /\ Last(points).amount = values[Cardinality(M)]
         /\ ToSet(points) = P
<1>1. PICK f, n : f = [o \in M |-> PointOf(query, reports, o)] /\ n = Cardinality(M)
  OBVIOUS
<1>2. /\ n \in Nat /\ IsFiniteSet(M) /\ values \in Seq(Nat) /\ Len(values) = n
  BY <1>1 DEF PricesOf
<1>3. \A o \in M : f[o] \in P /\ f[o].id = o.id /\ f[o].amount = o.price.amount
  BY <1>1 DEF PointOf, PointsOn
<1>4. \A a \in P : \E o \in M : f[o] = a
  BY <1>1 DEF PointsOn
<1>5. f \in [M -> P] /\ \A o, p \in M : f[o] = f[p] => o = p
  BY <1>1, <1>3
<1>6. ExistsBijection(M, P)
  <2>1. f \in Bijection(M, P)
    BY <1>4, <1>5, Fun_IsBij
  <2>2. QED
    BY <2>1 DEF ExistsBijection
<1>7. IsFiniteSet(P) /\ Cardinality(P) = n
  BY <1>1, <1>2, <1>6, FS_Bijection
<1>8. Points(P)
  <2>1. ASSUME NEW a \in P PROVE a.id \in OfferIds /\ a.amount \in Nat
    <3>1. PICK o \in M : f[o] = a
      BY <1>4
    <3>2. a.id = o.id /\ a.amount = o.price.amount
      BY <1>3, <3>1
    <3>3. QED
      BY <3>2
  <2>2. ASSUME NEW a \in P, NEW b \in P, a.id = b.id PROVE a = b
    <3>1. PICK o \in M : f[o] = a
      BY <1>4
    <3>2. PICK p \in M : f[p] = b
      BY <1>4
    <3>3. o.id = p.id
      BY <1>3, <2>2, <3>1, <3>2
    <3>4. o = p
      BY <3>3
    <3>5. QED
      BY <3>1, <3>2, <3>4
  <2>3. QED
    BY <2>1, <2>2 DEF Points
<1>9. PointsRanked(points, P)
  BY <1>7, <1>8, PointsInOrder
<1>10. /\ points \in [1 .. n -> P] /\ points \in Seq(P) /\ Len(points) = n
       /\ \A a \in P : \E k \in 1 .. n : points[k] = a
       /\ \A k, l \in 1 .. n : points[k] = points[l] => k = l
       /\ \A k, l \in 1 .. n : k <= l => points[k].amount <= points[l].amount
  BY <1>7, <1>9 DEF PointsRanked
<1>11. PICK order, amounts :
         /\ order = [k \in 1 .. n |-> CHOOSE o \in M : f[o] = points[k]]
         /\ amounts = [k \in 1 .. n |-> points[k].amount]
  OBVIOUS
<1>12. ASSUME NEW k \in 1 .. n PROVE order[k] \in M /\ f[order[k]] = points[k]
  <2>1. points[k] \in P
    BY <1>10
  <2>2. \E o \in M : f[o] = points[k]
    BY <1>4, <2>1
  <2>3. QED
    BY <1>11, <2>2
<1>13. PricesOf(amounts, M, order)
  <2>1. order \in [1 .. n -> M]
    BY <1>11, <1>12
  <2>2. ASSUME NEW k \in 1 .. n, NEW l \in 1 .. n, order[k] = order[l] PROVE k = l
    BY <1>10, <1>12, <2>2
  <2>3. ASSUME NEW o \in M PROVE \E k \in 1 .. n : order[k] = o
    <3>1. PICK k \in 1 .. n : points[k] = f[o]
      BY <1>3, <1>10
    <3>2. order[k] = o
      BY <1>5, <1>12, <3>1
    <3>3. QED
      BY <3>2
  <2>4. order \in Bijection(1 .. n, M)
    BY <2>1, <2>2, <2>3, Fun_IsBij
  <2>5. ASSUME NEW k \in 1 .. n PROVE amounts[k] = order[k].price.amount /\ amounts[k] \in Nat
    <3>1. order[k] \in M /\ f[order[k]].amount = points[k].amount
      BY <1>12
    <3>2. f[order[k]].amount = order[k].price.amount
      BY <1>3, <3>1
    <3>3. amounts[k] = order[k].price.amount
      BY <1>11, <3>1, <3>2
    <3>4. QED
      BY <3>1, <3>3
  <2>6. amounts \in [1 .. n -> Nat]
    BY <1>11, <2>5
  <2>7. amounts \in Seq(Nat) /\ Len(amounts) = n
    BY <1>2, <2>6, ListedIsFunction
  <2>8. \A k, l \in 1 .. n : k <= l => amounts[k] <= amounts[l]
    BY <1>10, <1>11
  <2>9. QED
    BY <1>1, <1>2, <2>4, <2>5, <2>7, <2>8 DEF PricesOf
<1>14. amounts = values
  BY <1>13, PricesAlike
<1>15. n > 0
  BY <1>1, <1>2, FS_EmptySet
<1>16. 1 \in 1 .. n /\ n \in 1 .. n /\ points[1].amount = values[1] /\ points[n].amount = values[n]
  BY <1>2, <1>11, <1>14, <1>15
<1>17. points # <<>> /\ Head(points) = points[1] /\ Last(points) = points[n]
  BY <1>10, <1>15 DEF Last
<1>18. ToSet(points) = P
  BY <1>9, PointsAll
<1>19. QED
  BY <1>1, <1>10, <1>16, <1>17, <1>18

\* The chart of a report.
ChartWell(query, offers, reports, report, chart) ==
  /\ chart.currency = report.currency /\ chart.points # <<>>
  /\ Len(chart.points) = report.count
  /\ Head(chart.points).amount = report.minimum /\ Last(chart.points).amount = report.maximum
  /\ \A id : (\E a \in ToSet(chart.points) : a.id = id) <=>
               \E o \in ToSet(offers) : o.id = id /\ MarketOf(query, o, reports) = report

\* The chart of a report agrees with it.
LEMMA ChartOfReport ==
  ASSUME NEW offers, Distinct(offers), ToSet(UniqueOffers(offers)) = ToSet(offers), None \notin Reports,
         NEW query, NEW reports, reports = ReportsOn(query, offers), NEW i \in DOMAIN reports
  PROVE  ChartWell(query, offers, reports, reports[i], ChartAmong(query, ToSet(offers), reports, reports[i]))
<1>1. PICK shown, report, c : shown = Shown(query, offers) /\ report = reports[i] /\ c = report.currency
  OBVIOUS
<1>2. Distinct(shown)
  BY <1>1, ShownElements
<1>3. Reported(shown, c) /\ report = ReportIn(shown, c)
  BY <1>1, <1>2, ReportsByCurrency DEF ReportsOn
<1>4. report \in Reports /\ report # None
  BY <1>2, <1>3, ReportType
<1>5. PICK M : M = Market(shown, c)
  OBVIOUS
<1>6. \A o : o \in M <=> o \in ToSet(offers) /\ Comparable(query, o) /\ o.price # None /\ o.price.currency = c
  BY <1>1, <1>5, MarketKept
<1>7. ASSUME NEW o \in ToSet(offers) PROVE MarketOf(query, o, reports) = report <=> o \in M
  <2>1. MarketOf(query, o, ReportsOn(query, offers))
          = IF /\ Comparable(query, o) /\ o.price # None
               /\ Reported(Shown(query, offers), o.price.currency)
            THEN ReportIn(Shown(query, offers), o.price.currency) ELSE None
    BY MarketReport
  <2>2. Reported(shown, o.price.currency) => ReportIn(shown, o.price.currency).currency = o.price.currency
    BY <1>2, ReportType
  <2>3. QED
    BY <1>1, <1>3, <1>4, <1>6, <2>1, <2>2
<1>8. PICK P, points : P = PointsOn(query, reports, M) /\ points = InOrder(P, PointBefore)
  OBVIOUS
<1>9. PICK chart : chart = ChartAmong(query, ToSet(offers), reports, report)
  OBVIOUS
<1>10. chart.currency = c /\ chart.points = points
  <2>1. {o \in ToSet(offers) : MarketOf(query, o, reports) = report} = M
    BY <1>6, <1>7
  <2>2. QED
    BY <1>1, <1>8, <1>9, <2>1 DEF ChartAmong, PointsOn, PointOf
<1>11. PICK amounts, values : amounts = AmountsIn(shown, c) /\ values = SortedAmounts(amounts)
  OBVIOUS
<1>12. PICK at : PricesOf(values, M, at)
  BY <1>2, <1>5, <1>11, AmountsOfMarket
<1>13. amounts \in Seq(Nat) /\ Len(amounts) = Cardinality(M)
  BY <1>2, <1>5, <1>11, AmountsOfMarket
<1>14. /\ M # {} /\ \A o \in M : o \in ToSet(offers) /\ o \in OfferSet /\ o.price \in Prices
  <2>1. M # {}
    BY <1>3, <1>5 DEF Reported
  <2>2. \A o \in M : o \in ToSet(offers) /\ o \in OfferSet /\ o.price # None
    BY <1>6, DistinctOffers
  <2>3. \A o \in M : o.price \in Optional(Prices)
    BY <2>2 DEF OfferSet
  <2>4. QED
    BY <2>1, <2>2, <2>3 DEF Optional
<1>15. /\ \A o \in M : o.id \in OfferIds /\ o.price.amount \in Nat
       /\ \A o, p \in M : o.id = p.id => o = p
  BY <1>14, DistinctOffers DEF Prices
<1>16. /\ Len(points) = Cardinality(M) /\ points # <<>>
       /\ Head(points).amount = values[1] /\ Last(points).amount = values[Cardinality(M)]
       /\ ToSet(points) = P
  BY <1>8, <1>12, <1>14, <1>15, PointsOfMarket
<1>17. /\ report.count = Cardinality(M) /\ report.minimum = values[1]
       /\ report.maximum = values[Cardinality(M)]
  <2>1. IsFiniteSet(M) /\ Cardinality(M) \in Nat
    BY <1>12 DEF PricesOf
  <2>2. Len(amounts) > 0
    BY <1>13, <1>14, <2>1, FS_EmptySet
  <2>3. c \in ToSet(Currencies)
    BY <1>3 DEF Reported
  <2>4. /\ PriceStatistics(c, amounts).count = Len(amounts)
        /\ PriceStatistics(c, amounts).minimum = SortedAmounts(amounts)[1]
        /\ PriceStatistics(c, amounts).maximum = SortedAmounts(amounts)[Len(amounts)]
    BY <1>13, <2>2, <2>3, StatisticsType
  <2>5. QED
    BY <1>3, <1>11, <1>13, <2>4 DEF ReportIn
<1>18. ASSUME NEW id
       PROVE  (\E a \in P : a.id = id) <=>
                 \E o \in ToSet(offers) : o.id = id /\ MarketOf(query, o, reports) = report
  <2>1. /\ \A o \in M : PointOf(query, reports, o) \in P /\ PointOf(query, reports, o).id = o.id
        /\ \A a \in P : \E o \in M : a = PointOf(query, reports, o)
    <3>1. \A o : PointOf(query, reports, o).id = o.id
      BY DEF PointOf
    <3>2. \A a : a \in P <=> \E o \in M : a = PointOf(query, reports, o)
      BY <1>8 DEF PointsOn
    <3>3. QED
      BY <3>1, <3>2
  <2>2. (\E a \in P : a.id = id) <=> \E o \in M : o.id = id
    BY <2>1
  <2>3. QED
    BY <1>6, <1>7, <2>2
<1>19. ChartWell(query, offers, reports, report, chart)
  BY <1>1, <1>10, <1>16, <1>17, <1>18 DEF ChartWell
<1>20. QED
  BY <1>1, <1>9, <1>19

\* Every report has a chart.
LEMMA ChartsOfReports ==
  ASSUME NEW offers, Distinct(offers), ToSet(UniqueOffers(offers)) = ToSet(offers), None \notin Reports,
         NEW query, NEW reports, reports = ReportsOn(query, offers),
         NEW charts, charts = PriceCharts(query, offers, reports)
  PROVE  /\ Len(charts) = Len(reports) /\ DOMAIN charts = DOMAIN reports
         /\ \A i \in DOMAIN reports : ChartWell(query, offers, reports, reports[i], charts[i])
<1>1. PICK n, all : /\ n = Len(reports)
                    /\ all = [i \in DOMAIN reports |-> ChartAmong(query, ToSet(offers), reports, reports[i])]
  OBVIOUS
<1>2. n \in Nat /\ DOMAIN reports = 1 .. n
  <2>1. Distinct(Shown(query, offers))
    BY ShownElements
  <2>2. QED
    BY <1>1, <2>1, ReportsByCurrency DEF ReportsOn
<1>3. \A i \in 1 .. n : ChartWell(query, offers, reports, reports[i], all[i])
  BY <1>1, <1>2, ChartOfReport
<1>4. {i \in DOMAIN reports : all[i].points # <<>>} = 1 .. n
  BY <1>2, <1>3 DEF ChartWell
<1>5. charts = Chosen(all, {i \in DOMAIN reports : all[i].points # <<>>})
  <2>1. charts = ChartsAmong(query, ToSet(offers), reports)
    BY ChartsOfSet
  <2>2. QED
    BY <1>1, <2>1 DEF ChartsAmong
<1>6. charts = Chosen(all, 1 .. n)
  BY <1>4, <1>5
<1>7. PICK V : V = {all[i] : i \in 1 .. n}
  OBVIOUS
<1>8. all \in [1 .. n -> V]
  BY <1>1, <1>2, <1>7
<1>9. charts = all /\ Len(all) = n
  BY <1>2, <1>6, <1>8, AllChosen, ListedIsFunction
<1>10. QED
  BY <1>1, <1>2, <1>3, <1>8, <1>9

\* Charts, reports and classes agree, though they are computed from differently
\* deduplicated lists: every report has its chart, with as many points, from
\* its minimum to its maximum, and the points are the classified offers
\* (ChartsAgreeWithReports), as long as a URL without an id leads to one product.
THEOREM ChartsAlwaysAgree ==
  ASSUME OnePagePerProduct
  PROVE  Spec => []ChartsAgreeWithReports
<1>1. ASSUME FlowOK PROVE ChartsAgreeWithReports
  <2>1. SUFFICES ASSUME snapshot # None
                 PROVE
      LET a == snapshot.analysis
      IN  /\ Len(a.charts) = Len(a.reports)
          /\ \A i \in DOMAIN a.reports :
               LET points == a.charts[i].points
               IN  /\ a.charts[i].currency = a.reports[i].currency
                   /\ Len(points) = a.reports[i].count
                   /\ Head(points).amount = a.reports[i].minimum
                   /\ Last(points).amount = a.reports[i].maximum
          /\ {id \in DOMAIN a.classes : a.classes[id] # "unknown"}
               = UNION {{p.id : p \in ToSet(a.charts[i].points)} : i \in DOMAIN a.charts}
    BY DEF ChartsAgreeWithReports
  <2>2. PICK offers, reports, charts, classes :
          /\ offers = snapshot.offers /\ reports = ReportsOn(Query, offers)
          /\ charts = PriceCharts(Query, offers, reports)
          /\ classes = ClassesAmong(Query, ToSet(offers), reports)
    OBVIOUS
  <2>3. Distinct(offers) /\ snapshot.analysis = Analyse(Query, offers)
    BY <1>1, <2>1, <2>2, SnapshotDistinct
  <2>4. ToSet(UniqueOffers(offers)) = ToSet(offers)
    BY <1>1, <2>1, <2>2, AllKept
  <2>5. None \notin Reports
    BY OfferFlowAssumption
  <2>6. /\ snapshot.analysis.reports = reports /\ snapshot.analysis.charts = charts
        /\ snapshot.analysis.classes = classes
    BY <2>2, <2>3, AnalysisParts
  <2>7. /\ Len(charts) = Len(reports) /\ DOMAIN charts = DOMAIN reports
        /\ \A i \in DOMAIN reports : ChartWell(Query, offers, reports, reports[i], charts[i])
    BY <2>2, <2>3, <2>4, <2>5, ChartsOfReports
  <2>8. \A i \in DOMAIN reports :
          /\ charts[i].currency = reports[i].currency /\ Len(charts[i].points) = reports[i].count
          /\ Head(charts[i].points).amount = reports[i].minimum
          /\ Last(charts[i].points).amount = reports[i].maximum
    BY <2>7 DEF ChartWell
  <2>9. /\ DOMAIN classes = {o.id : o \in ToSet(offers)}
        /\ \A o \in ToSet(offers) : classes[o.id] = ClassOf(Query, o, reports)
    <3>1. DOMAIN classes = {o.id : o \in ToSet(offers)}
      BY <2>2 DEF ClassesAmong
    <3>2. QED
      BY <2>2, <2>3, <2>6, <3>1, ClassFound
  <2>10. ASSUME NEW o \in ToSet(offers)
         PROVE  ClassOf(Query, o, reports) # "unknown" <=>
                   \E i \in DOMAIN reports : MarketOf(Query, o, reports) = reports[i]
    <3>1. PICK shown : shown = Shown(Query, offers)
      OBVIOUS
    <3>2. Distinct(shown)
      BY <2>3, <3>1, ShownElements
    <3>3. ClassOf(Query, o, reports) # "unknown" <=> MarketOf(Query, o, reports) # None
      BY DEF ClassOf, ClassifyPrice
    <3>4. MarketOf(Query, o, reports)
            = IF Comparable(Query, o) /\ o.price # None /\ Reported(shown, o.price.currency)
              THEN ReportIn(shown, o.price.currency) ELSE None
      BY <2>2, <2>3, <2>5, <3>1, MarketReport
    <3>5. /\ \A i \in DOMAIN reports : reports[i] \in Reports
          /\ \A i \in DOMAIN reports : reports[i] = ReportIn(shown, reports[i].currency)
          /\ \A c : Reported(shown, c) => \E i \in DOMAIN reports : reports[i].currency = c
      BY <2>2, <3>1, <3>2, ReportsByCurrency DEF ReportsOn
    <3>6. QED
      BY <2>5, <3>3, <3>4, <3>5
  <2>11. ASSUME NEW id
         PROVE  (id \in DOMAIN classes /\ classes[id] # "unknown")
                  <=> \E i \in DOMAIN charts : \E p \in ToSet(charts[i].points) : p.id = id
    <3>1. (id \in DOMAIN classes /\ classes[id] # "unknown")
            <=> \E o \in ToSet(offers) : o.id = id /\ ClassOf(Query, o, reports) # "unknown"
      BY <2>9
    <3>2. \A i \in DOMAIN reports :
            (\E p \in ToSet(charts[i].points) : p.id = id)
              <=> \E o \in ToSet(offers) : o.id = id /\ MarketOf(Query, o, reports) = reports[i]
      BY <2>7 DEF ChartWell
    <3>3. QED
      BY <2>7, <2>10, <3>1, <3>2
  <2>12. {id \in DOMAIN classes : classes[id] # "unknown"}
           = UNION {{p.id : p \in ToSet(charts[i].points)} : i \in DOMAIN charts}
    BY <2>11
  <2>13. QED
    BY <2>6, <2>7, <2>8, <2>12
<1>2. QED
  BY <1>1, FlowAlways, PTL
=============================================================================
