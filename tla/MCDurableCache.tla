--------------------------- MODULE MCDurableCache ---------------------------
EXTENDS DurableCache, TLC

\* Callers are interchangeable.
Symmetry == Permutations(Callers)
=============================================================================
