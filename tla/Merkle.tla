------------------------------- MODULE Merkle -------------------------------
(* The constant-space Merkle calculator of merkle.cpp. A step of the         *)
(* specification is one round of the loop of MerkleComputation that takes    *)
(* the next leaf; the final sweep is the operator Sweep, so that every       *)
(* prefix of the list is also a finished computation. The levelwise tree of  *)
(* the comment in merkle.cpp is the definition it is checked against.        *)
EXTENDS PowersOfTwo, Integers, Sequences

CONSTANTS Tx,         \* transactions
          NullHash,   \* uint256_t()
          MaxLeaves   \* bound: length of the longest list

ASSUME MerkleAssumption == NullHash \notin Tx /\ MaxLeaves \in Nat \ {0}

VARIABLES leaves,      \* transactions taken so far; count is their number
          branchpos,   \* the leaf whose branch is wanted
          inner,       \* hashes of the complete subtrees, by level
          matchlevel,  \* the entry of inner that depends on that leaf
          mutated,     \* two equal siblings have been hashed
          branch       \* *pbranch

merkleVars == <<leaves, branchpos, inner, matchlevel, mutated, branch>>

Levels == 0..MaxLeaves
NoLevel == MaxLeaves + 1   \* matchlevel = -1

(* SHA-256 of a transaction and of two hashes, taken to be free of           *)
(* collisions.                                                               *)
TxHash(tx) == <<tx>>
Hash256(l, r) == <<l, r>>

(* The number of the lowest bit of n that is set. *)
LowestBit(n) == CHOOSE l \in Levels :
                   /\ n % Pow2[l + 1] # 0
                   /\ n % Pow2[l] = 0

-----------------------------------------------------------------------------

(* Mutant: duplicates are looked for among the leaves only. *)
Combine_LeavesOnly(s, level) ==
  LET left == inner[level] IN
  [s EXCEPT !.branch  = IF s.match THEN Append(@, left)
                        ELSE IF matchlevel = level THEN Append(@, s.h)
                        ELSE @,
            !.match   = @ \/ matchlevel = level,
            !.mutated = @ \/ (level = 0 /\ left = s.h),
            !.h       = Hash256(left, @)]

(* One combination of the running hash with the left sibling at a level. *)
Combine(s, level) ==
  LET left == inner[level] IN
  [s EXCEPT !.branch  = IF s.match THEN Append(@, left)
                        ELSE IF matchlevel = level THEN Append(@, s.h)
                        ELSE @,
            !.match   = @ \/ matchlevel = level,
            !.mutated = @ \/ left = s.h,
            !.h       = Hash256(left, @)]

(* The levels from low to high - 1. *)
Climb(s, low, high) ==
  LET climb[n \in 0..high - low] == IF n = 0 THEN s ELSE Combine(climb[n - 1], low + n - 1)
  IN  climb[high - low]

MerkleInit ==
  /\ leaves = <<>>
  /\ branchpos \in 0..MaxLeaves
  /\ inner = [l \in Levels |-> NullHash]
  /\ matchlevel = NoLevel
  /\ mutated = FALSE
  /\ branch = <<>>

(* Mutant: the stored hash is also compared with the stale entry it replaces. *)
ProcessLeaf_StaleCompare(leaf) ==
  LET count == Len(leaves) + 1
      level == LowestBit(count)
      s == Climb([h |-> TxHash(leaf), match |-> Len(leaves) = branchpos,
                  mutated |-> mutated, branch |-> branch], 0, level)
  IN  /\ count <= MaxLeaves
      /\ leaves' = Append(leaves, leaf)
      /\ inner' = [inner EXCEPT ![level] = s.h]
      /\ matchlevel' = IF s.match THEN level ELSE matchlevel
      /\ mutated' = (s.mutated \/ inner[level] = s.h)
      /\ branch' = s.branch
      /\ UNCHANGED branchpos

(* One round of the first loop. *)
ProcessLeaf(leaf) ==
  LET count == Len(leaves) + 1
      level == LowestBit(count)
      s == Climb([h |-> TxHash(leaf), match |-> Len(leaves) = branchpos,
                  mutated |-> mutated, branch |-> branch], 0, level)
  IN  /\ count <= MaxLeaves
      /\ leaves' = Append(leaves, leaf)
      /\ inner' = [inner EXCEPT ![level] = s.h]
      /\ matchlevel' = IF s.match THEN level ELSE matchlevel
      /\ mutated' = s.mutated
      /\ branch' = s.branch
      /\ UNCHANGED branchpos

MerkleNext == \E leaf \in Tx : ProcessLeaf(leaf)

MerkleSpec == MerkleInit /\ [][MerkleNext]_merkleVars

-----------------------------------------------------------------------------

(* Mutant: an odd hash is carried up as it is. *)
SweepStep_CarryUp(s) ==
  LET count == s.count + Pow2[s.level]
      top == LowestBit(count)
  IN  IF s.count = Pow2[s.level] THEN s
      ELSE [Climb(s, s.level + 1, top) EXCEPT !.count = count,
                                              !.level = top,
                                              !.mutated = s.mutated]

(* Mutant: the sibling of an odd hash is left out of the branch. *)
SweepStep_NoOwnSibling(s) ==
  LET count == s.count + Pow2[s.level]
      top == LowestBit(count)
      doubled == [s EXCEPT !.h = Hash256(@, @)]
  IN  IF s.count = Pow2[s.level] THEN s
      ELSE [Climb(doubled, s.level + 1, top) EXCEPT !.count = count,
                                                    !.level = top,
                                                    !.mutated = s.mutated]

(* A round of the sweep: the topmost hash is combined with itself and then   *)
(* carried up to the next level that still waits for a right sibling. The    *)
(* sweep does not look for duplicates.                                       *)
SweepStep(s) ==
  LET count == s.count + Pow2[s.level]
      top == LowestBit(count)
      doubled == [s EXCEPT !.branch = IF s.match THEN Append(@, s.h) ELSE @,
                           !.h = Hash256(@, @)]
  IN  IF s.count = Pow2[s.level] THEN s
      ELSE [Climb(doubled, s.level + 1, top) EXCEPT !.count = count,
                                                    !.level = top,
                                                    !.mutated = s.mutated]

Sweep ==
  LET level == LowestBit(Len(leaves))
      sweep[n \in Levels] ==
        IF n = 0 THEN [h |-> inner[level], match |-> matchlevel = level,
                       mutated |-> mutated, branch |-> branch,
                       count |-> Len(leaves), level |-> level]
        ELSE SweepStep(sweep[n - 1])
  IN  sweep[MaxLeaves]

ComputeMerkleRoot == IF leaves = <<>> THEN NullHash ELSE Sweep.h

ComputeMerkleBranch == IF leaves = <<>> THEN <<>> ELSE Sweep.branch

ComputeMerkleRootFromBranch(leaf, steps, index) ==
  LET hash[i \in 0..Len(steps)] ==
        IF i = 0 THEN leaf
        ELSE IF (index \div Pow2[i - 1]) % 2 = 1 THEN Hash256(steps[i], hash[i - 1])
        ELSE Hash256(hash[i - 1], steps[i])
  IN  hash[Len(steps)]

-----------------------------------------------------------------------------
(* The definition: a level has one hash for each pair of the level below,    *)
(* the last one being paired with itself if their number is odd.             *)

Parents(level) ==
  [i \in 1..((Len(level) + 1) \div 2) |->
     Hash256(level[2*i - 1],
             IF 2*i <= Len(level) THEN level[2*i] ELSE level[2*i - 1])]

TreeOf(list) ==
  LET tree[n \in Levels] ==
        IF n = 0 THEN [i \in 1..Len(list) |-> TxHash(list[i])]
        ELSE IF Len(tree[n - 1]) = 1 THEN tree[n - 1] ELSE Parents(tree[n - 1])
  IN  tree

RootOf(list) == TreeOf(list)[MaxLeaves][1]

DuplicatedSubtree(list) ==
  \E n \in Levels : \E i \in 1..(Len(list) \div 2) :
     LET level == TreeOf(list)[n]
     IN  2*i <= Len(level) /\ level[2*i - 1] = level[2*i]

Lists == UNION {[1..n -> Tx] : n \in 1..MaxLeaves}
Roots == [list \in Lists |-> RootOf(list)]
Flagged == {list \in Lists : DuplicatedSubtree(list)}

(* The root that the eager subtrees and the sweep give is the root of the    *)
(* levelwise tree, for lists of every length, odd levels included.           *)
RootIsLevelwise == leaves # <<>> => ComputeMerkleRoot = Roots[leaves]

(* The branch collected on the way up, although it is collected in two       *)
(* loops and by two tests, leads from its leaf to the root; merkle.h says    *)
(* "This can be verified using ComputeMerkleRootFromBranch". There is no     *)
(* branch for a position behind the end.                                     *)
BranchLeadsToRoot ==
  IF branchpos < Len(leaves)
  THEN ComputeMerkleRootFromBranch(TxHash(leaves[branchpos + 1]), ComputeMerkleBranch,
                                   branchpos) = ComputeMerkleRoot
  ELSE ComputeMerkleBranch = <<>>

(* The test against duplicates does its work although the sweep makes none:  *)
(* two different lists never have the same root and both pass, so a header's *)
(* hashMerkleRoot stands for one list of transactions.                       *)
RootStandsForOneList ==
  leaves # <<>> /\ ~mutated =>
     \A other \in Lists \ Flagged :
        Roots[other] = ComputeMerkleRoot => other = leaves

(* No list is refused without cause: a list is flagged only if two equal     *)
(* subtrees really are siblings in its tree.                                 *)
FlaggedOnlyIfDuplicated == mutated => leaves \in Flagged

=============================================================================
