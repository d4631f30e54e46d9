---------------------------- MODULE MCBlockchain ----------------------------
(* The algorithms that the block chain is built on, for TLC: the target of a *)
(* block (WorkTarget), its Merkle root (Merkle) and its ancestors (SkipList).*)
(* They share no state.  One of them runs while the others are at their      *)
(* start, so that the states of the three add up and do not multiply.        *)
EXTENDS MCWorkTarget, Merkle, SkipList

TargetAtStart == Init
SkipAtStart   == SkipInit
MerkleAtStart == MerkleInit /\ branchpos = 0

AlgorithmsInit == Init /\ SkipInit /\ MerkleInit

AlgorithmsNext ==
    \/ Next       /\ SkipAtStart   /\ MerkleAtStart /\ UNCHANGED <<skipVars, merkleVars>>
    \/ SkipNext   /\ TargetAtStart /\ MerkleAtStart /\ UNCHANGED <<vars, merkleVars>>
    \/ MerkleNext /\ TargetAtStart /\ SkipAtStart   /\ UNCHANGED <<vars, skipVars>>

AlgorithmsSpec == AlgorithmsInit /\ [][AlgorithmsNext]_<<vars, skipVars, merkleVars>>
=============================================================================
