-------------------------- MODULE MCKnowledgeItems --------------------------
EXTENDS KnowledgeItems, TLC
Symmetry == Permutations(Jobs) \cup Permutations(Workers)
=============================================================================
