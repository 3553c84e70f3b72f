--------------------------- MODULE SelectionLemmas ---------------------------
(***************************************************************************)
(* Least and greatest numbers, sequences that are arranged, chosen from    *)
(* others or joined: what the operators of Selections return, for the      *)
(* proofs of the modules.                                                  *)
(***************************************************************************)
EXTENDS Selections, SequencesExt, FiniteSetTheorems, WellFoundedInduction, FunctionTheorems,
        SequenceTheorems, TLAPS

-----------------------------------------------------------------------------
(* Numbers *)

\* Natural numbers have a least one.
LEMMA LeastNat ==
  ASSUME NEW T, T \subseteq Nat, T # {}
  PROVE  \E x \in T : \A y \in T : x <= y
<1> DEFINE R == OpToRel(<, Nat)
<1>1. IsWellFoundedOn(R, Nat)
  BY NatLessThanWellFounded
<1>2. \A x, y \in Nat : <<y, x>> \in R <=> y < x
  BY DEF OpToRel
<1>3. PICK x \in T : \A y \in T : <<y, x>> \notin R
  <2> HIDE DEF R
  <2> QED BY <1>1, WFMin
<1> HIDE DEF R
<1>4. ASSUME NEW y \in T PROVE x <= y
  <2>1. x \in Nat /\ y \in Nat /\ ~(y < x)
    BY <1>2, <1>3
  <2>2. QED
    BY <2>1
<1>5. QED
  BY <1>4

\* The element with the fewest greater ones.
LEMMA GreatestNat ==
  ASSUME NEW T, T \subseteq Nat, T # {}, IsFiniteSet(T)
  PROVE  \E x \in T : \A y \in T : y <= x
<1> DEFINE above(x) == {y \in T : y > x}
           counts == {Cardinality(above(x)) : x \in T}
<1>1. \A x \in T : IsFiniteSet(above(x)) /\ Cardinality(above(x)) \in Nat
  BY FS_Subset, FS_CardinalityType
<1>2. counts \subseteq Nat /\ counts # {}
  BY <1>1
<1>3. PICK n \in counts : \A m \in counts : n <= m
  <2> HIDE DEF counts
  <2> QED BY <1>2, LeastNat
<1>4. PICK x \in T : n = Cardinality(above(x))
  BY <1>3
<1>5. ASSUME NEW y \in T, ~(y <= x) PROVE FALSE
  <2>1. above(y) \subseteq above(x) /\ y \in above(x) /\ y \notin above(y)
    <3>1. x \in Nat /\ y \in Nat /\ y > x /\ ~(y > y)
      BY <1>5
    <3>2. \A z \in T : z > y => z > x
      BY <3>1
    <3>3. above(y) \subseteq above(x)
      BY <3>2
    <3>4. QED
      BY <3>1, <3>3
  <2>2. Cardinality(above(y)) <= Cardinality(above(x)) /\ Cardinality(above(y)) # Cardinality(above(x))
    <3> HIDE DEF above
    <3> QED BY <1>1, <2>1, FS_Subset
  <2>3. Cardinality(above(x)) <= Cardinality(above(y))
    BY <1>3, <1>4
  <2>4. QED
    BY <1>1, <2>2, <2>3
<1>6. QED
  BY <1>5

-----------------------------------------------------------------------------
(* Arrangements *)

\* A function on 1 .. n, listed, is itself and a sequence.
LEMMA ListedIsFunction ==
  ASSUME NEW n \in Nat, NEW V, NEW f \in [1 .. n -> V]
  PROVE  /\ Listed(f, n) = f
         /\ f \in Seq(V) /\ Len(f) = n
<1>1. f \in Seq(V) /\ Len(f) = n
  BY IsASeq, LenProperties
<1>2. SubSeq(f, 1, n) = f
  BY <1>1, SubSeqFull
<1>3. QED
  BY <1>1, <1>2 DEF Listed

\* A strict total order of the elements of a set: those before each.
StrictOrder(S, before) ==
  /\ before \in [S -> SUBSET S]
  /\ \A x \in S : x \notin before[x]
  /\ \A x \in S : \A y \in before[x] : before[y] \subseteq before[x]
  /\ \A x, y \in S : x # y => x \in before[y] \/ y \in before[x]

\* Every element once, in the order.
Enumerates(at, S, before) ==
  /\ Cardinality(S) \in Nat
  /\ at \in [1 .. Cardinality(S) -> S]
  /\ \A x \in S : \E n \in 1 .. Cardinality(S) : at[n] = x
  /\ \A m, n \in 1 .. Cardinality(S) : m < n <=> at[m] \in before[at[n]]
  /\ \A m, n \in 1 .. Cardinality(S) : at[m] = at[n] => m = n

\* A finite set arranged by a strict total order: every element once, in the
\* order.
LEMMA ArrangedEnumerates ==
  ASSUME NEW S, IsFiniteSet(S), NEW before, StrictOrder(S, before)
  PROVE  Enumerates(Arranged(S, before), S, before)
<1> DEFINE rank == [x \in S |-> Cardinality(before[x])]
           c == Cardinality(S)
           places == {<<Cardinality(before[x]) + 1, x>> : x \in S}
           f == [n \in 1 .. c |-> (CHOOSE p \in places : p[1] = n)[2]]
<1>1. c \in Nat
  BY FS_CardinalityType
<1>2. \A x \in S : IsFiniteSet(before[x]) /\ Cardinality(before[x]) \in Nat
  BY FS_Subset, FS_CardinalityType DEF StrictOrder
<1>3. ASSUME NEW x \in S, NEW y \in before[x] PROVE y \in S /\ rank[y] < rank[x]
  <2>1. y \in S /\ before[y] \subseteq before[x] /\ y \notin before[y]
    BY <1>3 DEF StrictOrder
  <2>2. /\ Cardinality(before[y]) <= Cardinality(before[x])
        /\ Cardinality(before[y]) # Cardinality(before[x])
    BY <1>2, <1>3, <2>1, FS_Subset
  <2>3. rank[x] = Cardinality(before[x]) /\ rank[y] = Cardinality(before[y])
    BY <2>1
  <2>4. QED
    BY <1>2, <2>1, <2>2, <2>3
<1>4. ASSUME NEW x \in S PROVE rank[x] \in 0 .. c - 1
  <2>1. before[x] \subseteq S /\ x \notin before[x]
    BY DEF StrictOrder
  <2>2. Cardinality(before[x]) <= c /\ Cardinality(before[x]) # c
    BY <1>2, <2>1, FS_Subset
  <2>3. QED
    BY <1>1, <1>2, <2>2
<1>5. rank \in [S -> 0 .. c - 1]
  BY <1>4
<1>6. \A x \in S : rank[x] = Cardinality(before[x])
  OBVIOUS
<1> HIDE DEF rank
<1>7. \A x, y \in S : rank[y] < rank[x] <=> y \in before[x]
  <2>1. SUFFICES ASSUME NEW x \in S, NEW y \in S, rank[y] < rank[x], y \notin before[x] PROVE FALSE
    BY <1>3
  <2>2. rank[x] \in Int /\ rank[y] \in Int
    BY <1>5
  <2>3. x # y
    BY <2>1, <2>2
  <2>4. x \in before[y]
    BY <2>1, <2>3 DEF StrictOrder
  <2>5. rank[x] < rank[y]
    BY <1>3, <2>4
  <2>6. QED
    BY <2>1, <2>2, <2>5
<1>8. \A x, y \in S : rank[x] = rank[y] => x = y
  <2>1. SUFFICES ASSUME NEW x \in S, NEW y \in S, rank[x] = rank[y], x # y PROVE FALSE
    OBVIOUS
  <2>2. rank[x] \in Int /\ rank[y] \in Int
    BY <1>5
  <2>3. rank[x] < rank[y] \/ rank[y] < rank[x]
    BY <1>7, <2>1 DEF StrictOrder
  <2>4. QED
    BY <2>1, <2>2, <2>3
<1>9. \A k \in 0 .. c - 1 : \E x \in S : rank[x] = k
  <2>1. rank \in Injection(S, 0 .. c - 1)
    BY <1>5, <1>8, Fun_IsInj
  <2>2. IsFiniteSet(0 .. c - 1) /\ Cardinality(0 .. c - 1) = c
    <3>1. 0 \in Int /\ c - 1 \in Int
      BY <1>1
    <3>2. QED
      BY <1>1, <3>1, FS_Interval
  <2>3. PICK T : T = 0 .. c - 1
    OBVIOUS
  <2>4. rank \in Injection(S, T) /\ IsFiniteSet(T) /\ Cardinality(S) = Cardinality(T)
    BY <2>1, <2>2, <2>3
  <2>5. rank \in Surjection(S, T)
    BY <2>4, FS_Injection
  <2>6. \A k \in T : \E x \in S : rank[x] = k
    BY <2>5, Fun_SurjectionProperties
  <2>7. QED
    BY <2>3, <2>6
<1>10. ASSUME NEW n \in 1 .. c PROVE f[n] \in S /\ rank[f[n]] = n - 1
  <2>1. n - 1 \in 0 .. c - 1
    BY <1>1
  <2>2. PICK x \in S : rank[x] = n - 1
    BY <1>9, <2>1
  <2>3. <<Cardinality(before[x]) + 1, x>> \in places /\ Cardinality(before[x]) + 1 = n
    BY <1>2, <1>6, <2>2
  <2>4. PICK p : p = CHOOSE q \in places : q[1] = n
    OBVIOUS
  <2>5. p \in places /\ p[1] = n /\ f[n] = p[2]
    BY <2>3, <2>4
  <2>6. PICK y \in S : p = <<Cardinality(before[y]) + 1, y>>
    BY <2>5
  <2>7. QED
    BY <1>2, <1>6, <2>5, <2>6
<1>11. f \in [1 .. c -> S]
  BY <1>10
<1>12. Arranged(S, before) = f
  <2> HIDE DEF f
  <2>1. Listed(f, c) = f
    BY <1>1, <1>11, ListedIsFunction
  <2>2. QED
    BY <2>1 DEF Arranged, f
<1> HIDE DEF f
<1>13. ASSUME NEW x \in S PROVE \E n \in 1 .. c : f[n] = x
  <2>1. rank[x] + 1 \in 1 .. c
    BY <1>1, <1>5
  <2>2. rank[f[rank[x] + 1]] = rank[x] /\ f[rank[x] + 1] \in S
    BY <1>5, <1>10, <2>1
  <2>3. f[rank[x] + 1] = x
    BY <1>8, <2>2
  <2>4. QED
    BY <2>1, <2>3
<1>14. ASSUME NEW m \in 1 .. c, NEW n \in 1 .. c
       PROVE  /\ m < n <=> f[m] \in before[f[n]]
              /\ f[m] = f[n] => m = n
  <2>1. m \in Int /\ n \in Int /\ m - 1 = rank[f[m]] /\ n - 1 = rank[f[n]] /\ f[m] \in S /\ f[n] \in S
    BY <1>10
  <2>2. QED
    BY <1>7, <2>1
<1>15. QED
  BY <1>1, <1>11, <1>12, <1>13, <1>14 DEF Enumerates

-----------------------------------------------------------------------------
(* Chosen elements *)

\* The numbers of a set, from the least to the greatest.
Ascends(at, T) ==
  /\ Cardinality(T) \in Nat
  /\ at \in [1 .. Cardinality(T) -> T]
  /\ \A i \in T : \E n \in 1 .. Cardinality(T) : at[n] = i
  /\ \A m, n \in 1 .. Cardinality(T) : m < n <=> at[m] < at[n]
  /\ \A m, n \in 1 .. Cardinality(T) : at[m] = at[n] => m = n

\* Numbers in order: each once, from the least to the greatest.
LEMMA NumbersAscend ==
  ASSUME NEW T, T \subseteq Int, IsFiniteSet(T)
  PROVE  Ascends(InOrder(T, LAMBDA i, j : i < j), T)
<1> DEFINE before == [i \in T |-> {j \in T : j < i}]
<1>1. StrictOrder(T, before)
  <2>1. before \in [T -> SUBSET T] /\ \A i \in T : i \notin before[i]
    OBVIOUS
  <2>2. ASSUME NEW i \in T, NEW j \in before[i] PROVE before[j] \subseteq before[i]
    <3>1. i \in Int /\ j \in Int /\ j \in T /\ j < i
      BY <2>2
    <3>2. \A k \in before[j] : k \in T /\ k \in Int /\ k < j
      BY <3>1
    <3>4. \A k \in before[j] : k \in T /\ k < i
      BY <3>1, <3>2
    <3>3. QED
      BY <3>4
  <2>3. \A i, j \in T : i # j => i \in before[j] \/ j \in before[i]
    OBVIOUS
  <2>4. QED
    BY <2>1, <2>2, <2>3 DEF StrictOrder
<1>2. \A i, j \in T : i \in before[j] <=> i < j
  OBVIOUS
<1>3. InOrder(T, LAMBDA i, j : i < j) = Arranged(T, before)
  BY DEF InOrder
<1> HIDE DEF before
<1>4. Enumerates(Arranged(T, before), T, before)
  BY <1>1, ArrangedEnumerates
<1>5. QED
  BY <1>2, <1>3, <1>4 DEF Enumerates, Ascends

\* What is chosen from a sequence: the elements at the positions, in order.
LEMMA ChosenElements ==
  ASSUME NEW T, T \subseteq Int, IsFiniteSet(T), NEW V, NEW s, \A i \in T : s[i] \in V
  PROVE  /\ Cardinality(T) \in Nat
         /\ Chosen(s, T) \in Seq(V) /\ Len(Chosen(s, T)) = Cardinality(T)
         /\ DOMAIN Chosen(s, T) = 1 .. Cardinality(T)
         /\ \A i \in T : s[i] \in ToSet(Chosen(s, T))
<1> DEFINE at == InOrder(T, LAMBDA i, j : i < j)
           f == [n \in DOMAIN at |-> s[at[n]]]
<1>1. Ascends(at, T)
  BY NumbersAscend
<1>2. Chosen(s, T) = Listed(f, Cardinality(T))
  BY DEF Chosen
<1> HIDE DEF at
<1>3. /\ Cardinality(T) \in Nat /\ at \in [1 .. Cardinality(T) -> T]
      /\ \A i \in T : \E n \in 1 .. Cardinality(T) : at[n] = i
  BY <1>1 DEF Ascends
<1>4. f \in [1 .. Cardinality(T) -> V] /\ \A n \in 1 .. Cardinality(T) : f[n] = s[at[n]]
  BY <1>3
<1> HIDE DEF f
<1>5. Chosen(s, T) = f /\ f \in Seq(V) /\ Len(f) = Cardinality(T)
  BY <1>2, <1>3, <1>4, ListedIsFunction
<1>6. \A i \in T : s[i] \in ToSet(f)
  <2>1. DOMAIN f = 1 .. Cardinality(T)
    BY <1>4
  <2>3. \A i \in T : \E n \in DOMAIN f : f[n] = s[i]
    BY <1>3, <1>4, <2>1
  <2>4. QED
    BY <2>3 DEF ToSet
<1>7. QED
  BY <1>3, <1>4, <1>5, <1>6

\* In their order, and nothing else.
Follows(c, s, T) ==
  /\ \E at : Ascends(at, T) /\ \A n \in 1 .. Cardinality(T) : c[n] = s[at[n]]
  /\ \A x \in ToSet(c) : \E i \in T : x = s[i]

\* What is chosen stands in the order of the positions.
LEMMA ChosenInOrder ==
  ASSUME NEW T, T \subseteq Int, IsFiniteSet(T), NEW s
  PROVE  Follows(Chosen(s, T), s, T)
<1> DEFINE at == InOrder(T, LAMBDA i, j : i < j)
           f == [n \in DOMAIN at |-> s[at[n]]]
<1>1. Ascends(at, T)
  BY NumbersAscend
<1>2. Chosen(s, T) = Listed(f, Cardinality(T))
  BY DEF Chosen
<1> HIDE DEF at
<1>3. Cardinality(T) \in Nat /\ at \in [1 .. Cardinality(T) -> T]
  BY <1>1 DEF Ascends
<1>4. PICK V : V = {s[i] : i \in T}
  OBVIOUS
<1>5. f \in [1 .. Cardinality(T) -> V] /\ \A n \in 1 .. Cardinality(T) : f[n] = s[at[n]]
  BY <1>3, <1>4
<1> HIDE DEF f
<1>6. Chosen(s, T) = f
  BY <1>2, <1>3, <1>5, ListedIsFunction
<1>7. \A x \in ToSet(f) : \E i \in T : x = s[i]
  <2>1. DOMAIN f = 1 .. Cardinality(T)
    BY <1>5
  <2>2. \A n \in DOMAIN f : \E i \in T : f[n] = s[i]
    BY <1>3, <1>5, <2>1
  <2>3. QED
    BY <2>2 DEF ToSet
<1>8. QED
  BY <1>1, <1>5, <1>6, <1>7 DEF Follows

\* The positions of a sequence are finitely many numbers.
LEMMA PositionsFinite ==
  ASSUME NEW n \in Nat, NEW T, T \subseteq 1 .. n
  PROVE  T \subseteq Int /\ IsFiniteSet(T) /\ Cardinality(T) \in Nat /\ Cardinality(T) <= n
<1>1. IsFiniteSet(1 .. n) /\ Cardinality(1 .. n) = n
  <2>1. 1 \in Int /\ n \in Int
    OBVIOUS
  <2>2. QED
    BY <2>1, FS_Interval
<1>2. IsFiniteSet(T) /\ Cardinality(T) <= n
  BY <1>1, FS_Subset
<1>3. QED
  BY <1>2, FS_CardinalityType

\* The positions of a sequence, its elements and any set of its positions.
LEMMA SequencePositions ==
  ASSUME NEW V, NEW s \in Seq(V)
  PROVE  /\ Len(s) \in Nat /\ DOMAIN s = 1 .. Len(s)
         /\ \A i \in DOMAIN s : s[i] \in V
         /\ \A T \in SUBSET DOMAIN s : T \subseteq Int /\ IsFiniteSet(T)
BY PositionsFinite

\* The first position of each key.
Firsts(n, key) == {i \in 1 .. n : \A j \in 1 .. n : j < i => key[j] # key[i]}

\* Every key has a first position, no key two.
LEMMA FirstsOfKeys ==
  ASSUME NEW n \in Nat, NEW key
  PROVE  /\ Firsts(n, key) \subseteq 1 .. n
         /\ \A i \in 1 .. n : \E j \in Firsts(n, key) : key[j] = key[i] /\ j <= i
         /\ \A i, j \in Firsts(n, key) : key[i] = key[j] => i = j
<1> DEFINE T == {i \in 1 .. n : \A j \in 1 .. n : j < i => key[j] # key[i]}
<1>1. ASSUME NEW i \in 1 .. n PROVE \E j \in T : key[j] = key[i] /\ j <= i
  <2> DEFINE same == {j \in 1 .. n : key[j] = key[i]}
  <2>1. same \subseteq Nat /\ same # {}
    OBVIOUS
  <2>2. PICK j \in same : \A k \in same : j <= k
    <3> HIDE DEF same
    <3> QED BY <2>1, LeastNat
  <2>3. j \in 1 .. n /\ key[j] = key[i] /\ j <= i
    BY <2>2
  <2>4. ASSUME NEW k \in 1 .. n, k < j PROVE key[k] # key[j]
    BY <2>2, <2>3, <2>4
  <2>5. QED
    BY <2>3, <2>4
<1>2. ASSUME NEW i \in T, NEW j \in T, key[i] = key[j], i # j PROVE FALSE
  <2>1. i \in 1 .. n /\ j \in 1 .. n /\ (i < j \/ j < i)
    BY <1>2
  <2>2. QED
    BY <1>2, <2>1
<1>3. T = Firsts(n, key)
  BY DEF Firsts
<1>4. QED
  BY <1>1, <1>2, <1>3

\* The first n elements of a sequence, or all.
LEMMA FirstOfElements ==
  ASSUME NEW V, NEW s \in Seq(V), NEW n \in Nat
  PROVE  /\ FirstOf(n, s) \in Seq(V)
         /\ Len(FirstOf(n, s)) = IF n < Len(s) THEN n ELSE Len(s)
         /\ \A i \in 1 .. Len(FirstOf(n, s)) : i \in DOMAIN s /\ FirstOf(n, s)[i] = s[i]
         /\ ToSet(FirstOf(n, s)) \subseteq ToSet(s)
<1> DEFINE k == IF n < Len(s) THEN n ELSE Len(s)
<1>1. k \in Nat /\ k <= Len(s) /\ Len(s) \in Nat /\ DOMAIN s = 1 .. Len(s)
  OBVIOUS
<1>2. FirstOf(n, s) = SubSeq(s, 1, k)
  BY DEF FirstOf
<1> HIDE DEF k
<1>3. /\ SubSeq(s, 1, k) \in Seq(V) /\ Len(SubSeq(s, 1, k)) = k
      /\ \A i \in 1 .. k : SubSeq(s, 1, k)[i] = s[i]
  BY <1>1, SubSeqProperties
<1>4. ToSet(FirstOf(n, s)) \subseteq ToSet(s)
  BY <1>1, <1>2, <1>3 DEF ToSet
<1>5. QED
  BY <1>1, <1>2, <1>3, <1>4 DEF k

\* The elements of joined sequences are those of all of them.
LEMMA JoinedElements ==
  ASSUME NEW n \in Nat, NEW ss, DOMAIN ss = 1 .. n, NEW V, \A i \in 1 .. n : ss[i] \in Seq(V)
  PROVE  /\ Joined(ss) \in Seq(V)
         /\ ToSet(Joined(ss)) = UNION {ToSet(ss[i]) : i \in 1 .. n}
<1> DEFINE places == UNION {{i} \X DOMAIN ss[i] : i \in DOMAIN ss}
           before == [q \in places |->
                        {p \in places : p[1] < q[1] \/ (p[1] = q[1] /\ p[2] < q[2])}]
           at == Arranged(places, before)
           f == [k \in DOMAIN at |-> ss[at[k][1]][at[k][2]]]
<1>1. IsFiniteSet(places)
  <2>1. \A i \in 1 .. n : IsFiniteSet({i} \X DOMAIN ss[i])
    <3>1. \A i \in 1 .. n : IsFiniteSet(DOMAIN ss[i]) /\ IsFiniteSet({i})
      BY SequencePositions, FS_Singleton
    <3>2. QED
      BY <3>1, FS_Product
  <2>2. IsFiniteSet({{i} \X DOMAIN ss[i] : i \in 1 .. n})
    <3> DEFINE row == [i \in 1 .. n |-> {i} \X DOMAIN ss[i]]
    <3>1. IsFiniteSet(1 .. n)
      BY PositionsFinite
    <3>2. PICK rows : rows = {{i} \X DOMAIN ss[i] : i \in 1 .. n}
      OBVIOUS
    <3>3. row \in [1 .. n -> rows] /\ \A t \in rows : \E i \in 1 .. n : row[i] = t
      BY <3>2
    <3> HIDE DEF row
    <3>4. row \in Surjection(1 .. n, rows)
      BY <3>3, Fun_IsSurj
    <3>5. IsFiniteSet(rows)
      BY <3>1, <3>4, FS_Surjection
    <3>6. QED
      BY <3>2, <3>5
  <2>3. QED
    BY <2>1, <2>2, FS_UNION
<1>2. \A p : p \in places <=> \E i \in 1 .. n : \E j \in 1 .. Len(ss[i]) : p = <<i, j>>
  <2>1. \A i \in 1 .. n : DOMAIN ss[i] = 1 .. Len(ss[i])
    OBVIOUS
  <2>2. \A p : p \in places <=> \E i \in 1 .. n : p \in {i} \X DOMAIN ss[i]
    OBVIOUS
  <2>3. \A p, i : p \in {i} \X DOMAIN ss[i] <=> \E j \in DOMAIN ss[i] : p = <<i, j>>
    OBVIOUS
  <2> HIDE DEF places
  <2>4. QED
    BY <2>1, <2>2, <2>3
<1>3. \A p \in places : p[1] \in 1 .. n /\ p[2] \in Int /\ p[2] \in 1 .. Len(ss[p[1]]) /\ p = <<p[1], p[2]>>
  BY <1>2
<1>4. /\ before \in [places -> SUBSET places]
      /\ \A p, q \in places : p \in before[q] <=> p[1] < q[1] \/ (p[1] = q[1] /\ p[2] < q[2])
  OBVIOUS
<1>5. Joined(ss) = Listed(f, Cardinality(places))
  BY DEF Joined, InOrder
<1>6. \A i \in 1 .. n :
        Len(ss[i]) \in Nat /\ DOMAIN ss[i] = 1 .. Len(ss[i]) /\ \A j \in 1 .. Len(ss[i]) : ss[i][j] \in V
  BY SequencePositions
<1> HIDE DEF places, before
<1>7. StrictOrder(places, before)
  <2>1. \A p \in places : p \notin before[p]
    BY <1>3, <1>4
  <2>2. ASSUME NEW q \in places, NEW p \in before[q] PROVE before[p] \subseteq before[q]
    <3>1. p \in places
      BY <1>4, <2>2
    <3>2. ASSUME NEW r \in places, r \in before[p] PROVE r \in before[q]
      BY <1>3, <1>4, <2>2, <3>1, <3>2
    <3>3. QED
      BY <1>4, <3>1, <3>2
  <2>3. ASSUME NEW p \in places, NEW q \in places, p # q PROVE p \in before[q] \/ q \in before[p]
    <3>1. p[1] # q[1] \/ p[2] # q[2]
      BY <1>3, <2>3
    <3>2. p[1] \in Int /\ q[1] \in Int /\ p[2] \in Int /\ q[2] \in Int
      BY <1>3
    <3>3. \/ p[1] < q[1] \/ (p[1] = q[1] /\ p[2] < q[2])
          \/ q[1] < p[1] \/ (q[1] = p[1] /\ q[2] < p[2])
      BY <3>1, <3>2
    <3>4. QED
      BY <1>4, <3>3
  <2>4. QED
    BY <1>4, <2>1, <2>2, <2>3 DEF StrictOrder
<1>8. Enumerates(at, places, before)
  BY <1>1, <1>7, ArrangedEnumerates
<1> HIDE DEF at
<1>9. /\ Cardinality(places) \in Nat /\ at \in [1 .. Cardinality(places) -> places]
      /\ \A p \in places : \E k \in 1 .. Cardinality(places) : at[k] = p
  BY <1>8 DEF Enumerates
<1>10. /\ DOMAIN f = 1 .. Cardinality(places)
       /\ \A k \in 1 .. Cardinality(places) : f[k] = ss[at[k][1]][at[k][2]]
  BY <1>9
<1>11. f \in [1 .. Cardinality(places) -> V]
  <2>1. \A k \in 1 .. Cardinality(places) : f[k] \in V
    BY <1>3, <1>6, <1>9, <1>10
  <2>2. f = [k \in 1 .. Cardinality(places) |-> f[k]]
    BY <1>10
  <2> HIDE DEF f
  <2>3. QED
    BY <2>1, <2>2
<1> HIDE DEF f
<1>12. Joined(ss) = f /\ f \in Seq(V)
  BY <1>5, <1>9, <1>11, ListedIsFunction
<1>13. ToSet(f) = UNION {ToSet(ss[i]) : i \in 1 .. n}
  <2>1. ASSUME NEW k \in DOMAIN f PROVE \E i \in 1 .. n : f[k] \in ToSet(ss[i])
    <3>1. at[k] \in places /\ f[k] = ss[at[k][1]][at[k][2]]
      BY <1>9, <1>10
    <3>2. at[k][1] \in 1 .. n /\ at[k][2] \in DOMAIN ss[at[k][1]]
      BY <1>3, <1>6, <3>1
    <3>3. QED
      BY <3>1, <3>2 DEF ToSet
  <2>2. ASSUME NEW i \in 1 .. n, NEW v \in ToSet(ss[i]) PROVE \E k \in DOMAIN f : f[k] = v
    <3>1. PICK j \in 1 .. Len(ss[i]) : v = ss[i][j]
      BY <1>6 DEF ToSet
    <3>2. PICK k \in 1 .. Cardinality(places) : at[k] = <<i, j>>
      BY <1>2, <1>9
    <3>3. QED
      BY <1>10, <3>1, <3>2
  <2>3. QED
    BY <2>1, <2>2 DEF ToSet
<1>14. QED
  BY <1>12, <1>13

\* The elements of two sequences, one after the other.
LEMMA ConcatElements ==
  ASSUME NEW V, NEW s \in Seq(V), NEW t \in Seq(V)
  PROVE  s \o t \in Seq(V) /\ ToSet(s \o t) = ToSet(s) \cup ToSet(t)
<1>1. PICK all : all = s \o t
  OBVIOUS
<1>2. PICK m, n : m = Len(s) /\ n = Len(t)
  OBVIOUS
<1>3. m \in Nat /\ n \in Nat /\ DOMAIN s = 1 .. m /\ DOMAIN t = 1 .. n
  BY <1>2
<1>4. all \in Seq(V) /\ Len(all) = m + n /\ \A i \in 1 .. m + n : all[i] = IF i <= m THEN s[i] ELSE t[i - m]
  BY <1>1, <1>2, ConcatProperties
<1>5. DOMAIN all = 1 .. m + n
  BY <1>4
<1>6. ASSUME NEW i \in DOMAIN all PROVE all[i] \in ToSet(s) \cup ToSet(t)
  <2>1. CASE i <= m
    <3>1. i \in DOMAIN s /\ all[i] = s[i]
      BY <1>3, <1>4, <1>5, <2>1
    <3>2. QED
      BY <3>1 DEF ToSet
  <2>2. CASE ~(i <= m)
    <3>1. i - m \in DOMAIN t /\ all[i] = t[i - m]
      BY <1>3, <1>4, <1>5, <2>2
    <3>2. QED
      BY <3>1 DEF ToSet
  <2>3. QED
    BY <2>1, <2>2
<1>7. ASSUME NEW i \in DOMAIN s PROVE s[i] \in ToSet(all)
  <2>1. i \in DOMAIN all /\ all[i] = s[i]
    BY <1>3, <1>4, <1>5
  <2>2. QED
    BY <2>1 DEF ToSet
<1>8. ASSUME NEW i \in DOMAIN t PROVE t[i] \in ToSet(all)
  <2>1. PICK k : k = m + i
    OBVIOUS
  <2>2. k \in 1 .. m + n /\ ~(k <= m) /\ k - m = i
    BY <1>3, <2>1
  <2>3. k \in DOMAIN all /\ all[k] = t[i]
    BY <1>4, <1>5, <2>2
  <2>4. QED
    BY <2>3 DEF ToSet
<1>9. ToSet(all) = ToSet(s) \cup ToSet(t)
  BY <1>6, <1>7, <1>8 DEF ToSet
<1>10. QED
  BY <1>1, <1>4, <1>9
=============================================================================
