--------------------------- MODULE MCChainManager ---------------------------
(* Instances of ChainManager for TLC. *)
EXTENDS ChainManager

\* Hashes other than the genesis hash are interchangeable.
Symmetry == Permutations(Hash \ {Genesis})
=============================================================================
