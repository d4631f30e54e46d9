------------------------------ MODULE MCMining ------------------------------
(* Instances of Mining for TLC. *)
EXTENDS Mining

\* A new cycle asks for twice the work.
MCNextBits == [last \in Hash |-> [first \in Hash |-> 2]]

\* Hashes other than the genesis hash are interchangeable, and so are threads.
Symmetry == Permutations(Hash \ {Genesis}) \cup Permutations(Miner)
=============================================================================
