---------------------------- MODULE ChainManager ----------------------------
(***************************************************************************)
(* The block tree and the active chain of a p2pclouds node:                *)
(* src/src/libs/blockchain/chain.{h,cpp} and block_index.{h,cpp}.          *)
(*                                                                         *)
(* ChainManager::acceptBlock indexes a block, links it, and then moves the *)
(* active chain to the best candidate.  The whole call runs under          *)
(* ChainManager::mutex_, but Chain has a mutex of its own, and a mining    *)
(* thread may read the tip between any two Chain::setTip calls.  So every  *)
(* setTip is a step of its own here, and pc says where the one running     *)
(* acceptBlock is.                                                         *)
(*                                                                         *)
(* Data: a block is its hash.  A header names its parent and its work, so  *)
(* both are fixed when the hash is first indexed; whether the body passes  *)
(* validBlock may differ from one delivery to the next.                    *)
(***************************************************************************)
EXTENDS Integers, Sequences, FiniteSets, SequencesExt

CONSTANTS
    Hash,       \* block hashes
    Genesis,    \* ConsensusArgs::hashBlockGenesis
    NULL,       \* the null BlockIndex pointer
    Work,       \* values of caculateChainWork for headers that pass validProofOfWork
    Batch,      \* blocks per round of activateBestChainStep (32 in the code)
    MaxSeq      \* bound on BlockSequenceIDCounter_, for model checking

ASSUME HashAssumption  == Genesis \in Hash /\ NULL \notin Hash
ASSUME WorkAssumption  == Work \subseteq Nat \ {0}
ASSUME BatchAssumption == Batch \in Nat \ {0}
ASSUME BoundAssumption == MaxSeq \in Nat

VARIABLES
    \* BlockIndex entries
    mapBlockIndex,          \* hashes that have an entry
    branch,                 \* branch[h]: the pPrev chain of h read from its root up to h
    chainWork,
    status,                 \* set of status flags
    linked,                 \* entries whose numChainTransactions is not 0
    sequenceID,
    \* ChainManager
    blockIndexCandidates,   \* std::set, as the sequence its iterators walk
    mapUnlinkedBlocks,      \* set of pairs <<pPrev, block>>
    BlockSequenceIDCounter,
    \* Chain
    chain,                  \* chain[i] is the active block of height i - 1
    \* locals of the acceptBlock call in progress
    pc,
    queue,                  \* receiveBlock: entries still to link
    mostWork,               \* activateBestChain: pBlockIndexMostWork
    oldTip,                 \* activateBestChainStep: pIndexOldTip
    height,                 \* activateBestChainStep: height + 1
    toConnect               \* activateBestChainStep: rest of blockIndexToConnects

indexVars == <<mapBlockIndex, branch, chainWork>>
stepVars  == <<mostWork, oldTip, height, toConnect>>
vars == <<mapBlockIndex, branch, chainWork, status, linked, sequenceID,
          blockIndexCandidates, mapUnlinkedBlocks, BlockSequenceIDCounter, chain,
          pc, queue, mostWork, oldTip, height, toConnect>>

\* The bits of BlockIndex::STATUS that the code tests.
Flag == {"VALID_TREE", "HAVE_DATA", "FAILED_VALID", "FAILED_CHILD"}

-----------------------------------------------------------------------------
(* BlockIndex *)

PPrev(h) == IF Len(branch[h]) = 1 THEN NULL ELSE branch[h][Len(branch[h]) - 1]

\* BlockIndex::isValid()
IsValid(h) == status[h] \cap {"FAILED_VALID", "FAILED_CHILD"} = {}

\* BlockIndex::isValid(VALID_TREE)
IsValidTree(h) == IsValid(h) /\ "VALID_TREE" \in status[h]

\* Faulty variant: on equal work the entry that came last wins.
Less_LatestFirst(seq, a, b) ==
    \/ chainWork[a] < chainWork[b]
    \/ chainWork[a] = chainWork[b] /\ seq[a] < seq[b]

\* BlockIndexWorkComparator, for the sequence ids seq: does a sort before b?
\* Its last resort, the addresses, is not needed: entries that are compared
\* have different ids unless they are the same entry (LinkedEntries).
Less(seq, a, b) ==
    \/ chainWork[a] < chainWork[b]
    \/ chainWork[a] = chainWork[b] /\ seq[a] > seq[b]

-----------------------------------------------------------------------------
(* Chain *)

Tip == IF chain = <<>> THEN NULL ELSE Last(chain)

\* Chain::contains
InChain(h) == Len(branch[h]) <= Len(chain) /\ chain[Len(branch[h])] = h

\* Faulty variant: the height of the fork taken for an index.
FindFork_OffByOne(h) ==
    Max({0} \cup {i \in DOMAIN branch[h] \cap DOMAIN chain : chain[i] = branch[h][i]}) - 1

\* Chain::findFork, as the height of the fork plus one, 0 for NULL.
FindFork(h) ==
    Max({0} \cup {i \in DOMAIN branch[h] \cap DOMAIN chain : chain[i] = branch[h][i]})

\* Faulty variant: the top entry is put right behind the fork.
SetTip_TopOnly(h) ==
    IF h = NULL THEN <<>>
    ELSE LET k == FindFork(h)
         IN  IF k = Len(branch[h]) THEN SubSeq(chain, 1, k) ELSE Append(SubSeq(chain, 1, k), h)

\* Chain::setTip: resize, then overwrite downwards until an entry matches.
SetTip(h) ==
    IF h = NULL THEN <<>>
    ELSE LET k == FindFork(h)
         IN  [i \in 1..Len(branch[h]) |-> IF i <= k THEN chain[i] ELSE branch[h][i]]

-----------------------------------------------------------------------------
(* std::set<BlockIndex*, BlockIndexWorkComparator> *)

\* The results of inserting k.  The search ends in a gap whose left neighbour
\* did not compare above k and whose right neighbour did; k goes in if the left
\* neighbour compares below it.  Written for any contents, because receiveBlock
\* changes the ids of entries that are in the set.
InsertCandidate(seq, s, k) ==
    { IF i > 0 => Less(seq, s[i], k) THEN InsertAt(s, i + 1, k) ELSE s :
        i \in {g \in 0..Len(s) : /\ g > 0 => ~Less(seq, k, s[g])
                                 /\ g < Len(s) => Less(seq, k, s[g + 1])} }

\* Faulty variant: nothing is pruned.
PruneBlockIndexCandidates_None(s, t) == s

\* ChainManager::pruneBlockIndexCandidates, for the tip t.
PruneBlockIndexCandidates(s, t) ==
    LET n == Max({i \in 0..Len(s) : \A j \in 1..i : Less(sequenceID, s[j], t)})
    IN  SubSeq(s, n + 1, Len(s))

-----------------------------------------------------------------------------
\* An empty manager: Blockchain's constructor before the genesis block.
Init ==
    /\ mapBlockIndex = {}
    /\ branch = [h \in Hash |-> <<>>]
    /\ chainWork = [h \in Hash |-> 0]
    /\ status = [h \in Hash |-> {}]
    /\ linked = {}
    /\ sequenceID = [h \in Hash |-> 0]
    /\ blockIndexCandidates = <<>>
    /\ mapUnlinkedBlocks = {}
    /\ BlockSequenceIDCounter = 1
    /\ chain = <<>>
    /\ pc = "idle"
    /\ queue = <<>>
    /\ mostWork = NULL
    /\ oldTip = NULL
    /\ height = 0
    /\ toConnect = <<>>

\* addToBlockIndex: a new entry for b on top of the branch prev.
AddToBlockIndex(b, prev, w) ==
    /\ mapBlockIndex' = mapBlockIndex \cup {b}
    /\ branch' = [branch EXCEPT ![b] = Append(prev, b)]
    /\ chainWork' = [chainWork EXCEPT ![b] =
                        (IF prev = <<>> THEN 0 ELSE chainWork[Last(prev)]) + w]

\* Faulty variant: the parent is not asked for its transactions.
ReceiveBlock_AnyParent(b, pPrev) ==
    /\ status' = [status EXCEPT ![b] = @ \cup {"HAVE_DATA"}]
    /\ linked' = linked \ {b}
    /\ queue' = <<b>>
    /\ pc' = "link"
    /\ UNCHANGED mapUnlinkedBlocks

\* receiveBlock up to its loop: the entry has its data and either starts a
\* round of linking or waits for its parent.  pPrev is b's parent.
ReceiveBlock(b, pPrev) ==
    /\ status' = [status EXCEPT ![b] = @ \cup {"HAVE_DATA"}]
    /\ linked' = linked \ {b}
    /\ IF pPrev = NULL \/ pPrev \in linked
         THEN /\ queue' = <<b>>
              /\ pc' = "link"
              /\ UNCHANGED mapUnlinkedBlocks
         ELSE /\ mapUnlinkedBlocks' = IF IsValidTree(pPrev)
                                        THEN mapUnlinkedBlocks \cup {<<pPrev, b>>}
                                        ELSE mapUnlinkedBlocks
              /\ pc' = "find"
              /\ UNCHANGED queue

\* acceptBlock for a header that is not indexed yet.  The entry is added before
\* the body is checked: a body that fails validBlock (ok is FALSE) leaves it
\* behind without data.
AcceptNewBlock(b, p, w, ok) ==
    /\ pc = "idle"
    /\ b \notin mapBlockIndex
    /\ BlockSequenceIDCounter <= MaxSeq
    /\ IF p = NULL THEN b = Genesis ELSE p \in mapBlockIndex /\ IsValid(p)
    /\ AddToBlockIndex(b, IF p = NULL THEN <<>> ELSE branch[p], w)
    /\ IF ok \/ b = Genesis
         THEN ReceiveBlock(b, p)
         ELSE UNCHANGED <<status, linked, mapUnlinkedBlocks, queue, pc>>
    /\ UNCHANGED <<sequenceID, blockIndexCandidates, BlockSequenceIDCounter,
                   chain, stepVars>>

\* acceptBlock for a header that is already indexed.  Nothing asks whether the
\* data is there, so the block is received once more.
AcceptKnownBlock(b) ==
    /\ pc = "idle"
    /\ b \in mapBlockIndex /\ IsValid(b)
    /\ BlockSequenceIDCounter <= MaxSeq
    /\ PPrev(b) # NULL => IsValid(PPrev(b))
    /\ ReceiveBlock(b, PPrev(b))
    /\ UNCHANGED <<indexVars, sequenceID, blockIndexCandidates,
                   BlockSequenceIDCounter, chain, stepVars>>

\* acceptBlock, returning before it changes anything: a bad header, an unknown
\* or failed parent, a failed entry, or a bad body for an entry that exists.
RejectBlock ==
    /\ pc = "idle"
    /\ UNCHANGED vars

\* Faulty variant: the candidate is inserted before it gets its sequence id.
LinkBlock_LateId ==
    /\ pc = "link"
    /\ LET cur == Head(queue)
       IN  /\ linked' = linked \cup {cur}
           /\ sequenceID' = [sequenceID EXCEPT ![cur] = BlockSequenceIDCounter]
           /\ BlockSequenceIDCounter' = BlockSequenceIDCounter + 1
           /\ IF chain = <<>> \/ ~Less(sequenceID, cur, Tip)
                THEN blockIndexCandidates' \in
                        InsertCandidate(sequenceID, blockIndexCandidates, cur)
                ELSE UNCHANGED blockIndexCandidates
           /\ queue' = Tail(queue)
           /\ pc' = "find"
    /\ UNCHANGED <<indexVars, status, chain, mapUnlinkedBlocks, stepVars>>

\* Faulty variant: the counter is not advanced.
LinkBlock_SameId ==
    /\ pc = "link"
    /\ LET cur == Head(queue)
           seq == [sequenceID EXCEPT ![cur] = BlockSequenceIDCounter]
       IN  /\ linked' = linked \cup {cur}
           /\ sequenceID' = seq
           /\ IF chain = <<>> \/ ~Less(seq, cur, Tip)
                THEN blockIndexCandidates' \in InsertCandidate(seq, blockIndexCandidates, cur)
                ELSE UNCHANGED blockIndexCandidates
           /\ queue' = Tail(queue)
           /\ pc' = "find"
    /\ UNCHANGED <<indexVars, status, chain, mapUnlinkedBlocks, BlockSequenceIDCounter,
                   stepVars>>

\* One round of receiveBlock's loop.
LinkBlock ==
    /\ pc = "link"
    /\ LET cur  == Head(queue)
           seq  == [sequenceID EXCEPT ![cur] = BlockSequenceIDCounter]
           kids == {pair \in mapUnlinkedBlocks : pair[1] = cur}
       IN  /\ linked' = linked \cup {cur}
           /\ sequenceID' = seq
           /\ BlockSequenceIDCounter' = BlockSequenceIDCounter + 1
           /\ IF chain = <<>> \/ ~Less(seq, cur, Tip)
                THEN blockIndexCandidates' \in InsertCandidate(seq, blockIndexCandidates, cur)
                ELSE UNCHANGED blockIndexCandidates
           /\ mapUnlinkedBlocks' = mapUnlinkedBlocks \ kids
           /\ \E order \in Bijection(1..Cardinality(kids), kids) :
                queue' = Tail(queue) \o [i \in 1..Cardinality(kids) |-> order[i][2]]
           /\ pc' = IF queue' = <<>> THEN "find" ELSE "link"
    /\ UNCHANGED <<indexVars, status, chain, stepVars>>

-----------------------------------------------------------------------------
(* activateBestChain *)

\* The entries findMostWorkBlockIndex walks over: from new down to the chain.
NotInChain(new) ==
    {i \in DOMAIN branch[new] : \A j \in i..Len(branch[new]) : ~InChain(branch[new][j])}

\* Of those, the ones that are invalid or have no data.
Unusable(new) ==
    {i \in NotInChain(new) : \/ ~IsValid(branch[new][i])
                             \/ "HAVE_DATA" \notin status[branch[new][i]]}

\* findMostWorkBlockIndex: forget the candidate new, whose branch is unusable
\* from its entry number t on.
DropCandidate(new, t) ==
    LET br    == branch[new]
        above == {br[i] : i \in t + 1..Len(br)}
    IN  /\ IF ~IsValid(br[t])
             THEN /\ status' = [h \in Hash |-> IF h \in above
                                               THEN status[h] \cup {"FAILED_CHILD"}
                                               ELSE status[h]]
                  /\ UNCHANGED mapUnlinkedBlocks
             ELSE /\ mapUnlinkedBlocks' =
                        mapUnlinkedBlocks \cup {<<br[i - 1], br[i]>> : i \in t + 1..Len(br)}
                  /\ UNCHANGED status
        /\ blockIndexCandidates' =
                SelectSeq(blockIndexCandidates, LAMBDA h : h # br[t] /\ h \notin above)
        /\ UNCHANGED <<pc, stepVars>>

\* activateBestChainStep up to its first loop.
StartActivateStep(new) ==
    /\ mostWork' = new
    /\ oldTip' = Tip
    /\ height' = FindFork(new)
    /\ pc' = "disconnect"
    /\ UNCHANGED <<status, mapUnlinkedBlocks, blockIndexCandidates, toConnect>>

\* findMostWorkBlockIndex and the test of its result in activateBestChain.
FindMostWork ==
    /\ pc = "find"
    /\ IF blockIndexCandidates = <<>>
         THEN /\ pc' = "idle"
              /\ UNCHANGED <<status, mapUnlinkedBlocks, blockIndexCandidates, stepVars>>
         ELSE LET new == Last(blockIndexCandidates) IN
              IF Unusable(new) # {}
                THEN DropCandidate(new, Max(Unusable(new)))
              ELSE IF new = Tip
                THEN /\ pc' = "idle"
                     /\ UNCHANGED <<status, mapUnlinkedBlocks, blockIndexCandidates, stepVars>>
                ELSE StartActivateStep(new)
    /\ UNCHANGED <<indexVars, linked, sequenceID, BlockSequenceIDCounter, chain, queue>>

\* The tip must go before connecting starts: it is not the fork block.
MustDisconnect ==
    chain # <<>> /\ (height = 0 \/ Tip # branch[mostWork][height])

\* disconnectTip
DisconnectTip ==
    /\ pc = "disconnect"
    /\ MustDisconnect
    /\ chain' = SetTip(PPrev(Tip))
    /\ UNCHANGED <<indexVars, status, linked, sequenceID, blockIndexCandidates,
                   mapUnlinkedBlocks, BlockSequenceIDCounter, pc, queue, stepVars>>

\* The condition of activateBestChain's loop, once the tip is t.
AfterStep(t) == IF mostWork # t THEN "find" ELSE "idle"

\* Faulty variant: height is not moved to targetHeight.
BuildConnectList_SameHeight ==
    /\ \/ pc = "disconnect" /\ ~MustDisconnect
       \/ pc = "batch"
    /\ LET br == branch[mostWork]
           targetHeight == IF height + Batch < Len(br) THEN height + Batch ELSE Len(br)
       IN  toConnect' = Reverse(SubSeq(br, height + 1, targetHeight))
    /\ pc' = "connect"
    /\ UNCHANGED <<indexVars, status, linked, sequenceID, blockIndexCandidates,
                   mapUnlinkedBlocks, BlockSequenceIDCounter, chain, queue,
                   mostWork, oldTip, height>>

\* One round of the outer connect loop: the next Batch entries, highest first.
BuildConnectList ==
    /\ \/ pc = "disconnect" /\ ~MustDisconnect
       \/ pc = "batch"
    /\ LET br == branch[mostWork]
           targetHeight == IF height + Batch < Len(br) THEN height + Batch ELSE Len(br)
       IN  IF height # Len(br)
             THEN /\ toConnect' = Reverse(SubSeq(br, height + 1, targetHeight))
                  /\ height' = targetHeight
                  /\ pc' = "connect"
             ELSE /\ pc' = AfterStep(Tip)
                  /\ UNCHANGED <<toConnect, height>>
    /\ UNCHANGED <<indexVars, status, linked, sequenceID, blockIndexCandidates,
                   mapUnlinkedBlocks, BlockSequenceIDCounter, chain, queue,
                   mostWork, oldTip>>

\* Faulty variant: a tip that is as good as the old one ends the step.
ConnectTip_NotWorse ==
    /\ pc = "connect"
    /\ LET b == Head(toConnect) IN
        /\ chain' = SetTip(b)
        /\ blockIndexCandidates' = PruneBlockIndexCandidates(blockIndexCandidates, b)
        /\ IF oldTip = NULL \/ chainWork[b] >= chainWork[oldTip]
             THEN /\ pc' = AfterStep(b)
                  /\ toConnect' = <<>>
             ELSE /\ pc' = IF Len(toConnect) = 1 THEN "batch" ELSE "connect"
                  /\ toConnect' = Tail(toConnect)
    /\ UNCHANGED <<indexVars, status, linked, sequenceID, mapUnlinkedBlocks,
                   BlockSequenceIDCounter, queue, mostWork, oldTip, height>>

\* connectTip, the pruning that follows it, and the test that ends the step.
ConnectTip ==
    /\ pc = "connect"
    /\ LET b == Head(toConnect) IN
        /\ chain' = SetTip(b)
        /\ blockIndexCandidates' = PruneBlockIndexCandidates(blockIndexCandidates, b)
        /\ IF oldTip = NULL \/ chainWork[b] > chainWork[oldTip]
             THEN /\ pc' = AfterStep(b)
                  /\ toConnect' = <<>>
             ELSE /\ pc' = IF Len(toConnect) = 1 THEN "batch" ELSE "connect"
                  /\ toConnect' = Tail(toConnect)
    /\ UNCHANGED <<indexVars, status, linked, sequenceID, mapUnlinkedBlocks,
                   BlockSequenceIDCounter, queue, mostWork, oldTip, height>>

-----------------------------------------------------------------------------
\* A delivery of a block by any caller of Blockchain::processNewBlock.
Accept ==
    \/ \E b \in Hash, p \in mapBlockIndex \cup {NULL}, w \in Work, ok \in BOOLEAN :
            AcceptNewBlock(b, p, w, ok)
    \/ \E b \in mapBlockIndex : AcceptKnownBlock(b)
    \/ RejectBlock

\* A step of the call in progress.
Proceed ==
    \/ LinkBlock
    \/ FindMostWork
    \/ DisconnectTip
    \/ BuildConnectList
    \/ ConnectTip

Next == Accept \/ Proceed

Spec == Init /\ [][Next]_vars

-----------------------------------------------------------------------------
(* Properties *)

TypeOK ==
    /\ mapBlockIndex \subseteq Hash
    /\ branch \in [Hash -> Seq(Hash)]
    /\ chainWork \in [Hash -> Nat]
    /\ status \in [Hash -> SUBSET Flag]
    /\ linked \subseteq Hash
    /\ sequenceID \in [Hash -> Nat]
    /\ blockIndexCandidates \in Seq(Hash)
    /\ mapUnlinkedBlocks \subseteq Hash \X Hash
    /\ BlockSequenceIDCounter \in Nat \ {0}
    /\ chain \in Seq(Hash)
    /\ pc \in {"idle", "link", "find", "disconnect", "batch", "connect"}
    /\ queue \in Seq(Hash)
    /\ mostWork \in Hash \cup {NULL}
    /\ oldTip \in Hash \cup {NULL}
    /\ height \in Nat
    /\ toConnect \in Seq(Hash)

\* Whatever a mining thread reads, also in the middle of a reorganisation, is
\* one branch of the tree from the genesis block up to the tip: setTip may stop
\* overwriting at the first entry that matches (chain.cpp:49).
ActiveChainIsBranch ==
    chain # <<>> => chain = branch[Tip] /\ chain[1] = Genesis

\* A finished call leaves the tip at the most work among all linked blocks, and
\* as the only candidate (chain.h:245: candidates are blocks beyond the tip).
\* The comment at chain.cpp:415 asks for more than one after the tip came again:
\* see RivalsAreCandidates.
IdleTipIsBest ==
    pc = "idle" /\ mapBlockIndex # {} =>
        /\ blockIndexCandidates = <<Tip>>
        /\ \A h \in linked : chainWork[h] <= chainWork[Tip]

\* The candidate set keeps the order its comparator asks for, although
\* receiveBlock changes sequenceID, a part of the key, of entries it holds
\* (chain.cpp:553); otherwise find and erase on the set would be undefined.
CandidatesOrdered ==
    \A i, j \in DOMAIN blockIndexCandidates :
        i < j => Less(sequenceID, blockIndexCandidates[i], blockIndexCandidates[j])

\* The checks of the code that are live: there is always a candidate left after
\* pruning (chain.cpp:595); every entry between a candidate and the chain is
\* linked (chain.cpp:621) and usable, so the clean-up of
\* findMostWorkBlockIndex is never needed; before the first block is connected
\* the index holds the genesis block alone (chain.cpp:351).
AssertsHold ==
    /\ pc = "batch" \/ (pc = "idle" /\ chain # <<>>) => blockIndexCandidates # <<>>
    /\ pc = "find" =>
        /\ blockIndexCandidates # <<>>
        /\ LET new == Last(blockIndexCandidates) IN
             /\ \A i \in NotInChain(new) : branch[new][i] \in linked
             /\ Unusable(new) = {}
        /\ chain = <<>> => mapBlockIndex = {Genesis}

\* Between calls an entry has a sequence id exactly when it is linked
\* (chain.cpp:403), ids are unique, and a linked block has its data and a
\* linked parent (chain.cpp:541): re-receiving a block in the middle of the
\* tree must not cut off what is built on it.
LinkedEntries ==
    pc = "idle" =>
        /\ \A h \in Hash : h \in linked <=> sequenceID[h] # 0
        /\ \A g, h \in linked : sequenceID[g] = sequenceID[h] => g = h
        /\ \A h \in linked : /\ "HAVE_DATA" \in status[h]
                             /\ PPrev(h) \in linked \cup {NULL}

\* What chain.cpp:560 says of receiveBlock's loop, "Find all other blocks that
\* need to link to this block": between calls every block that has its data, as
\* have all its ancestors, is linked.  It does not hold: a block whose parent has
\* no data is to wait in mapUnlinkedBlocks (chain.h:249), but chain.cpp:575 asks
\* for VALID_TREE, which nothing sets, and so nothing links it when its parent's
\* data comes.
CompleteBlocksAreLinked ==
    pc = "idle" =>
        \A h \in mapBlockIndex :
            (\A i \in DOMAIN branch[h] : "HAVE_DATA" \in status[branch[h][i]]) => h \in linked

\* What the comment at chain.cpp:415 says of a linked block, "If this block sorts
\* at least as good as the current tip ... it must be in setBlockIndexCandidates".
\* It does not hold: a tip that is delivered again gets a new sequence id, and a
\* rival with the same work, no candidate since it lost, then sorts above it.
RivalsAreCandidates ==
    pc = "idle" /\ chain # <<>> =>
        \A h \in linked :
            ~Less(sequenceID, h, Tip) => h \in ToSet(blockIndexCandidates)

\* A step of activateBestChain only ends at a tip with more work than the one
\* it began with (chain.cpp:721): an interrupted reorganisation never settles
\* on a worse chain.
StepsImprove ==
    [][(pc \in {"batch", "connect"} /\ pc' \in {"find", "idle"} /\ oldTip # NULL)
            => chainWork[oldTip] < chainWork[Tip']]_vars

-----------------------------------------------------------------------------
(* Refinement *)

\* The blocks that receiveBlock has linked: they got a sequence id.  Between
\* calls they are those in linked (LinkedEntries); receiveBlock takes a block
\* out of linked for a moment when it comes again.
EverLinked == {h \in Hash : sequenceID[h] # 0}

Best == IF blockIndexCandidates = <<>> THEN NULL ELSE Last(blockIndexCandidates)

FC == INSTANCE ForkChoice WITH
        parent <- [h \in EverLinked |-> PPrev(h)],
        work <- [h \in EverLinked |-> chainWork[h]],
        best <- Best

\* The top candidate follows ForkChoice, whatever is delivered again or out of
\* order: blocks are linked on top of linked blocks only, and the linking loop,
\* the set and the pruning choose the one with the most work, the first linked
\* of several (chain.h:258).  It says nothing of a block that has its data and
\* is not linked; CompleteBlocksAreLinked is about those.
ChoosesMostWork == FC!Spec

-----------------------------------------------------------------------------
(* Termination *)

\* The work that the top candidate has more than a tip.
Gain(from) ==
    IF from = NULL THEN chainWork[Best] + 1 ELSE chainWork[Best] - chainWork[from]

\* What a call still has to do, most significant first: blocks to link, work to
\* gain on the tip a step of activateBestChain begins with, the stage of the
\* step, and the rounds of the stage.
Remaining ==
    CASE pc = "idle"       -> <<0, 0, 0, 0>>
      [] pc = "link"       -> <<Len(queue) + Cardinality(mapUnlinkedBlocks), 0, 0, 0>>
      [] pc = "find"       -> <<0, Gain(Tip), 3, Len(blockIndexCandidates)>>
      [] pc = "disconnect" -> <<0, Gain(oldTip), 2, Len(chain)>>
      [] OTHER             -> <<0, Gain(oldTip), 1,
                                2 * (Len(branch[mostWork]) - height) + Len(toConnect)>>

Lower(r, s) ==
    \E i \in 1..4 : r[i] < s[i] /\ \A j \in 1..i - 1 : r[j] = s[j]

\* Every call returns: each step of receiveBlock's loop, of activateBestChain's
\* loop, which runs until the candidate is the tip (chain.cpp:763), and of the
\* loops inside a step (chain.cpp:691) leaves less to do, and never less than
\* nothing.  The thread inside the call waits for nobody.
CallsReturn ==
    [][pc # "idle" => Lower(Remaining', Remaining) /\ Remaining' \in [1..4 -> Nat]]_vars
=============================================================================
