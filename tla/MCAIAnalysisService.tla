------------------------ MODULE MCAIAnalysisService ------------------------
EXTENDS AIAnalysisService, TLC

\* Callers and task slots are interchangeable.
Symmetry == Permutations(Callers) \cup Permutations(Tasks)
=============================================================================
