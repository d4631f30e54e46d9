------------------------------ MODULE SkipList ------------------------------
(* The skip list of the block index: getSkipHeight, getAncestor and          *)
(* buildSkip, on a tree of two branches that grow in any order. The chain    *)
(* manager reads all its ancestors this way (findFork, and the list of       *)
(* blocks to connect), and every new entry is built from the pointers of the *)
(* entries before it, so one wrong pointer would spread.                     *)
EXTENDS PowersOfTwo, Integers

CONSTANTS HeightBits,  \* width of a height, in the code that of an int
          MaxHeight,   \* bound: height of the highest entry
          ForkHeights  \* heights at which the second branch may leave the first

ASSUME SkipListAssumption ==
  /\ HeightBits \in Nat \ {0}
  /\ MaxHeight \in 1..(Pow2[HeightBits] - 1)
  /\ ForkHeights \subseteq 0..(MaxHeight - 1)

VARIABLES index,   \* the entries of mapBlockIndex_
          pPrev,   \* parent of each entry
          pSkip    \* skip pointer of each entry

skipVars == <<index, pPrev, pSkip>>

(* An entry is named by its branch and its height. *)
Entries == {"main", "fork"} \X (0..MaxHeight)
Height(e) == e[2]
NULL == <<"none", -1>>
Genesis == <<"main", 0>>

-----------------------------------------------------------------------------

(* n & (n - 1): n without its lowest bit. *)
InvertLowestOne(n) ==
  IF n = 0 THEN 0
  ELSE n - (CHOOSE p \in {Pow2[k] : k \in 0..HeightBits} : n % (2*p) = p)

GetSkipHeight(height) ==
  IF height < 2 THEN 0
  ELSE IF height % 2 = 1 THEN InvertLowestOne(InvertLowestOne(height - 1)) + 1
  ELSE InvertLowestOne(height)

(* Mutant: the jump may go one below the height that is asked for. *)
FollowSkip_TooFar(height, target) == GetSkipHeight(height) >= target - 1

(* Mutant: a jump is taken only if it leads exactly to the target. *)
FollowSkip_OnlyExact(height, target) == GetSkipHeight(height) = target

(* The condition of getAncestor for following pSkip from height to target. *)
FollowSkip(height, target) ==
  LET skip == GetSkipHeight(height)
      skipPrev == GetSkipHeight(height - 1)
  IN  \/ skip = target
      \/ skip > target /\ ~ (skipPrev < skip - 2 /\ skipPrev >= target)

(* The loop of getAncestor, which counts heights on its own instead of       *)
(* reading them from the entries it passes: what it comes to from a height   *)
(* and an entry, and in how many rounds. A walk that meets a null pointer    *)
(* ends there.                                                               *)
WalkTo(target) ==
  LET walk[height \in 0..MaxHeight] ==
        [e \in index \cup {NULL} |->
           IF e = NULL \/ height <= target THEN [entry |-> e, rounds |-> 0]
           ELSE LET rest == IF FollowSkip(height, target)
                            THEN walk[GetSkipHeight(height)][pSkip[e]]
                            ELSE walk[height - 1][pPrev[e]]
                IN  [entry |-> rest.entry, rounds |-> rest.rounds + 1]]
  IN  walk

(* It starts with the entry itself and its height. *)
Walk(entry, target) == WalkTo(target)[Height(entry)][entry]

GetAncestor(entry, target) ==
  IF target > Height(entry) \/ target < 0 THEN NULL
  ELSE Walk(entry, target).entry

SkipInit ==
  /\ index = {Genesis}
  /\ pPrev = [e \in index |-> NULL]
  /\ pSkip = [e \in index |-> NULL]

(* Mutant: the height is looked up in the main chain if that is long enough. *)
BuildSkip_MainChain(prev) ==
  LET main == <<"main", GetSkipHeight(Height(prev) + 1)>>
  IN  IF main \in index THEN main ELSE GetAncestor(prev, Height(main))

BuildSkip(prev) == GetAncestor(prev, GetSkipHeight(Height(prev) + 1))

Tips == {e \in index : \A d \in index : pPrev[d] = e => d[1] # e[1]}

(* addToBlockIndex for a block on prev, which goes on with the branch of     *)
(* prev or, once, leaves the main branch.                                    *)
AddToBlockIndex(prev, branch) ==
  LET new == <<branch, Height(prev) + 1>> IN
  /\ Height(prev) < MaxHeight
  /\ \/ prev \in Tips /\ branch = prev[1]
     \/ prev[1] = "main" /\ branch = "fork" /\ Height(prev) \in ForkHeights
        /\ \A e \in index : e[1] = "main"
  /\ index' = index \cup {new}
  /\ pPrev' = [e \in index' |-> IF e = new THEN prev ELSE pPrev[e]]
  /\ pSkip' = [e \in index' |-> IF e = new THEN BuildSkip(prev) ELSE pSkip[e]]

SkipNext == \E prev \in index, branch \in {"main", "fork"} : AddToBlockIndex(prev, branch)

SkipSpec == SkipInit /\ [][SkipNext]_skipVars

-----------------------------------------------------------------------------

(* The definition: the parents of an entry, one by one. *)
AncestorByParents(entry, target) ==
  LET up[e \in index \cup {NULL}] ==
        IF e = NULL \/ Height(e) = target THEN e ELSE up[pPrev[e]]
  IN  IF target \in 0..Height(entry) THEN up[entry] ELSE NULL

(* The assertions of checkAllBlockIndexs that its early return leaves dead:  *)
(* heights grow by one along the branch, and "The pskip pointer must point   *)
(* back for all but the first 2 blocks", to a block of the same branch.      *)
SkipPointsBack ==
  \A e \in index :
    /\ e # Genesis => Height(pPrev[e]) = Height(e) - 1
    /\ Height(e) >= 2 => /\ pSkip[e] # NULL
                         /\ Height(pSkip[e]) < Height(e)
                         /\ pSkip[e] = AncestorByParents(e, Height(pSkip[e]))

(* From a tip of either branch, getAncestor finds for every height what the  *)
(* parents lead to, and NULL below and above the branch: jumps over the      *)
(* fork never land on the other branch, and the height it counts is that of  *)
(* the entry it stands on.                                                   *)
AncestorIsReached ==
  \A e \in Tips : \A target \in -1..(MaxHeight + 1) :
    GetAncestor(e, target) = AncestorByParents(e, target)

(* Bits of a number, for the bound below. *)
Bits(n) == CHOOSE k \in 0..HeightBits : Pow2[k] > n /\ (k = 0 \/ Pow2[k - 1] <= n)

(* The walk is short: "max 110 steps to go back up to 2**18 blocks". The     *)
(* rounds grow with the square of the number of bits, not with the height.   *)
WalkIsShort ==
  \A e \in Tips : \A target \in 0..Height(e) :
    LET bits == Bits(Height(e))
    IN  Walk(e, target).rounds <= (bits * (bits + 1)) \div 2
=============================================================================
