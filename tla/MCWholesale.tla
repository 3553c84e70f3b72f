----------------------------- MODULE MCWholesale -----------------------------
EXTENDS Wholesale

CONSTANTS a, b

\* No feed, the one of the shipped configuration, and two.
MCRegistries == {<<>>, <<a>>, <<a, b>>}

\* Requests are interchangeable.
Symmetry == Permutations(Requests)
=============================================================================
