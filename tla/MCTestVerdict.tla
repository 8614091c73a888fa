--------------------------- MODULE MCTestVerdict ---------------------------
EXTENDS TestVerdict, TLC

Symmetry == Permutations(Packages) \cup Permutations(Names)
=============================================================================
