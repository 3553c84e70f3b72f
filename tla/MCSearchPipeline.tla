-------------------------- MODULE MCSearchPipeline --------------------------
EXTENDS SearchPipeline, TLC

\* Requests are interchangeable, and so are sources.
Symmetry == Permutations(Requests) \cup Permutations(Sources)
=============================================================================
