------------------------ MODULE MCDocumentIngestion -------------------------
EXTENDS DocumentIngestion, TLC
Symmetry == Permutations(Jobs) \cup Permutations(Workers)
=============================================================================
