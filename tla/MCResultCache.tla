--------------------------- MODULE MCResultCache ---------------------------
EXTENDS ResultCache, TLC

(* Jobs are interchangeable: the properties look at states and steps.      *)
Symmetry == Permutations(Jobs)
=============================================================================
