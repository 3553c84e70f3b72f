------------------------------ MODULE Selections ------------------------------
(***************************************************************************)
(* Sequences that are chosen from others or put in order: what the code    *)
(* does with comprehensions, dictionaries and sorted().  They are said by  *)
(* the positions of their elements, which proofs can reason about, where   *)
(* the operators of the community modules compute: MCOfferFlow compares    *)
(* the two.                                                                *)
(***************************************************************************)
EXTENDS Integers, Sequences, FiniteSets

\* The first n values of a function as a sequence (which TLC then holds).
Listed(f, n) == SubSeq(f, 1, n)

\* The elements of a finite set in their order, given the ones before each.
Arranged(S, before) ==
  LET places == {<<Cardinality(before[x]) + 1, x>> : x \in S}
  IN  Listed([n \in 1 .. Cardinality(S) |-> (CHOOSE p \in places : p[1] = n)[2]], Cardinality(S))

InOrder(S, Before(_, _)) == Arranged(S, [x \in S |-> {y \in S : Before(y, x)}])

\* The elements of a sequence at some of its positions.
Chosen(s, positions) ==
  LET at == InOrder(positions, LAMBDA i, j : i < j)
  IN  Listed([n \in DOMAIN at |-> s[at[n]]], Cardinality(positions))

\* The elements that pass a test.
Only(s, Test(_)) == Chosen(s, {i \in DOMAIN s : Test(s[i])})

\* The elements whose key no earlier one has.
FirstWins(s, Key(_)) ==
  Chosen(s, {i \in DOMAIN s : \A j \in DOMAIN s : j < i => Key(s[j]) # Key(s[i])})

\* The first n elements, or all.
FirstOf(n, s) == SubSeq(s, 1, IF n < Len(s) THEN n ELSE Len(s))

\* The sequences of a sequence, one after the other.
Joined(ss) ==
  LET places == UNION {{i} \X DOMAIN ss[i] : i \in DOMAIN ss}
      at == InOrder(places, LAMBDA p, q : p[1] < q[1] \/ (p[1] = q[1] /\ p[2] < q[2]))
  IN  Listed([n \in DOMAIN at |-> ss[at[n][1]][at[n][2]]], Cardinality(places))
=============================================================================
