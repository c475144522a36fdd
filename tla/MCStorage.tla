----------------------------- MODULE MCStorage ------------------------------
(* Instances of Storage for TLC.                                            *)
EXTENDS Storage, TLC

CONSTANTS w1, w2, base, ft1, ft2, d1, d2

Symmetry == Permutations(Workers) \union Permutations(FileTags \ {BASE})
              \union Permutations(Data)
=============================================================================
