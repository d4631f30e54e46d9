------------------------------- MODULE Mining -------------------------------
(***************************************************************************)
(* A running node: the mining threads of Blockchain::start on top of       *)
(* ChainManager.  src/src/libs/blockchain/{blockchain,consensus}.cpp.      *)
(*                                                                         *)
(* Every thread runs ConsensusPow::build for ever.  It reads the height    *)
(* and the tip of the active chain, each under Chain's own mutex, builds   *)
(* blocks on that tip until the height changes, and hands what it finds to *)
(* Blockchain::processNewBlock, which holds Blockchain::mutex_ throughout. *)
(* So threads read the chain between the steps of a call of acceptBlock,   *)
(* and a thread may submit a block for a tip that is no longer there.      *)
(*                                                                         *)
(* Nothing else in the program delivers blocks.  Two threads that start    *)
(* from the same tip in the same second search the same headers, so a      *)
(* block may well be found twice.                                          *)
(***************************************************************************)
EXTENDS ChainManager

CONSTANTS
    Miner,      \* the threads of the pool
    Tx,         \* transactions that createNewTransaction may make
    Cycle,      \* ConsensusArgs::cycleBlockHeight
    TimeRange,  \* blocks whose times count for the median (11 in the code)
    MaxTime,    \* bound on the clock, for model checking
    NextBits    \* NextBits[last][first]: calculateNextWorkTarget, as the work it asks for

ASSUME MinerAssumption == NULL \notin Miner
ASSUME CycleAssumption == Cycle \in Nat \ {0, 1}
ASSUME TimeAssumption  == TimeRange \in Nat \ {0} /\ MaxTime \in Nat
ASSUME BitsAssumption  == NextBits \in [Hash -> [Hash -> Work]]

\* A block, as far as the properties tell blocks apart; txs are the transactions
\* behind the miner's own.
Block == [prev : Hash \cup {NULL}, timeval : Nat, bits : Work, txs : Seq(Tx)]

ASSUME BlockAssumption == NULL \notin Block

VARIABLES
    clock,                  \* getAdjustedTime(), in seconds
    running,                \* Blockchain::start has been called
    block,                  \* block[h]: contents of the block with hash h, NULL if none exists
    currentTransactions,
    holder,                 \* the thread that holds Blockchain::mutex_ in processNewBlock
    accepted,               \* its acceptBlock has not returned NULL
    \* locals of build()
    mpc, chainHeight, pLastBlock, timeval, bits, packed, found

buildVars == <<chainHeight, pLastBlock, timeval, bits, packed, found>>
minerVars == <<clock, running, block, currentTransactions, holder, accepted, mpc, buildVars>>
mvars     == <<vars, minerVars>>

-----------------------------------------------------------------------------
(* What createNewBlock and validBlock compute *)

\* Faulty variant: the blocks are counted from the tip.
GetBlock_FromTip(startBlockHeight, blockOffsetHeight) ==
    LET k == Len(chain) - blockOffsetHeight + 1
    IN  IF k >= 1 THEN chain[k] ELSE NULL

\* Chain::getBlock: the entry blockOffsetHeight entries down from the one of
\* height startBlockHeight, both counted; height 0 stands for the tip.
GetBlock(startBlockHeight, blockOffsetHeight) ==
    LET top == IF startBlockHeight = 0 THEN Len(chain) ELSE startBlockHeight + 1
        k   == top - blockOffsetHeight + (IF blockOffsetHeight = 0 THEN 0 ELSE 1)
    IN  IF top <= Len(chain) /\ k >= 1 THEN chain[k] ELSE NULL

\* getNextWorkTarget: does the block on top of last start a new cycle?
IsRetarget(last) == Len(branch[last]) >= Cycle /\ Len(branch[last]) % Cycle = 1

\* The first block of the cycle that ends with last, read off the active chain.
FirstOfCycle(last) == GetBlock(Len(branch[last]) - 1, Cycle)

\* Chain::getMedianBlockTimePastInChain: the times of the top blocks, sorted, and
\* of these the one in the middle, the later of two.
GetMedianBlockTimePastInChain ==
    LET n == IF Len(chain) < TimeRange THEN Len(chain) ELSE TimeRange
        t == [i \in 1..n |-> block[chain[Len(chain) + 1 - i]].timeval]
    IN  IF n = 0 THEN 0
        ELSE CHOOSE v \in {t[i] : i \in 1..n} :
                /\ Cardinality({i \in 1..n : t[i] < v}) <= n \div 2
                /\ Cardinality({i \in 1..n : t[i] <= v}) > n \div 2

\* Faulty variant: a block in the second of the median is refused.
ValidBlockTime_Later(t) ==
    t <= clock + 2 * 60 * 60 /\ t > GetMedianBlockTimePastInChain

\* Chain::validBlockTime.  The median is that of the active chain, whatever the
\* parent of the block is.
ValidBlockTime(t) ==
    t <= clock + 2 * 60 * 60 /\ t >= GetMedianBlockTimePastInChain

\* Transaction::isValueBase
IsValueBase(t) == TRUE

\* validBlock, for a block that a thread of this node has built: its hash, its
\* merkle root and its size are right, and the first transaction is its own.
ValidBlock(txs) == \A i \in DOMAIN txs : ~IsValueBase(txs[i])

-----------------------------------------------------------------------------
MInit ==
    /\ Init
    /\ clock = 0
    /\ running = FALSE
    /\ block = [h \in Hash |-> NULL]
    /\ currentTransactions = <<>>
    /\ holder = NULL
    /\ accepted = FALSE
    /\ mpc = [m \in Miner |-> "start"]
    /\ chainHeight = [m \in Miner |-> 0]
    /\ pLastBlock = [m \in Miner |-> NULL]
    /\ timeval = [m \in Miner |-> 0]
    /\ bits = [m \in Miner |-> 0]
    /\ packed = [m \in Miner |-> <<>>]
    /\ found = [m \in Miner |-> NULL]

\* The clock runs on.  It is not set back.
AdvanceClock ==
    /\ clock < MaxTime
    /\ clock' = clock + 1
    /\ UNCHANGED <<vars, running, block, currentTransactions, holder, accepted, mpc, buildVars>>

\* createGenesisBlock, in the constructor of Blockchain.
CreateGenesisBlock(w) ==
    /\ block' = [block EXCEPT ![Genesis] =
                    [prev |-> NULL, timeval |-> clock, bits |-> w, txs |-> <<>>]]
    /\ mapBlockIndex = {}
    /\ AcceptNewBlock(Genesis, NULL, w, TRUE)
    /\ UNCHANGED <<clock, running, currentTransactions, holder, accepted, mpc, buildVars>>

\* Blockchain::start
Start ==
    /\ ~running
    /\ pc = "idle" /\ mapBlockIndex # {}
    /\ running' = TRUE
    /\ UNCHANGED <<vars, clock, block, currentTransactions, holder, accepted, mpc, buildVars>>

\* createNewTransaction, by any caller that has the Blockchain.
CreateNewTransaction(t) ==
    /\ mapBlockIndex # {}
    /\ holder = NULL /\ pc = "idle"
    /\ t \notin ToSet(currentTransactions)
    /\ currentTransactions' = Append(currentTransactions, t)
    /\ UNCHANGED <<vars, clock, running, block, holder, accepted, mpc, buildVars>>

-----------------------------------------------------------------------------
(* build() *)

\* Thread m goes from one place of build() to another.
Goto(m, from, to) ==
    /\ running
    /\ mpc[m] = from
    /\ mpc' = [mpc EXCEPT ![m] = to]
    /\ UNCHANGED <<vars, clock, running, currentTransactions, holder, accepted>>

ReadHeight(m) ==
    /\ Goto(m, "start", "tip")
    /\ chainHeight' = [chainHeight EXCEPT ![m] = Len(chain)]
    /\ UNCHANGED <<block, pLastBlock, timeval, bits, packed, found>>

ReadTip(m) ==
    /\ Goto(m, "tip", "check")
    /\ pLastBlock' = [pLastBlock EXCEPT ![m] = Tip]
    /\ UNCHANGED <<block, chainHeight, timeval, bits, packed, found>>

\* Faulty variant: the height is not compared.
CheckHeight_Never(m) ==
    /\ Goto(m, "check", "create")
    /\ UNCHANGED <<block, buildVars>>

\* The head of the loop: give the tip up when the height has changed.
CheckHeight(m) ==
    /\ Goto(m, "check", IF chainHeight[m] # Len(chain) THEN "start" ELSE "create")
    /\ UNCHANGED <<block, buildVars>>

\* Faulty variant: the height of the chain is taken for that of the last block.
SetTarget_ChainHeight(m) ==
    LET last == pLastBlock[m] IN
    /\ Goto(m, "create", "pack")
    /\ timeval' = [timeval EXCEPT ![m] = clock]
    /\ bits' = [bits EXCEPT ![m] =
                    IF Len(chain) >= Cycle /\ Len(chain) % Cycle = 1
                      THEN NextBits[last][last]
                      ELSE block[last].bits]
    /\ UNCHANGED <<block, chainHeight, pLastBlock, packed, found>>

\* createNewBlock, down to the time and the target of the new block.  The process ends in
\* the assertion of calculateNextWorkTarget if there is no first block.
SetTarget(m) ==
    LET last == pLastBlock[m] IN
    /\ Goto(m, "create", "pack")
    /\ timeval' = [timeval EXCEPT ![m] = clock]
    /\ IsRetarget(last) => FirstOfCycle(last) # NULL
    /\ bits' = [bits EXCEPT ![m] =
                    IF IsRetarget(last) THEN NextBits[last][FirstOfCycle(last)]
                                        ELSE block[last].bits]
    /\ UNCHANGED <<block, chainHeight, pLastBlock, packed, found>>

\* createNewBlock, the copy of the waiting transactions.
PackTransactions(m) ==
    /\ Goto(m, "pack", "hash")
    /\ packed' = [packed EXCEPT ![m] = currentTransactions]
    /\ UNCHANGED <<block, chainHeight, pLastBlock, timeval, bits, found>>

\* Bound: there are sequence ids for all submissions under way and one more.
SubmissionsLeft ==
    BlockSequenceIDCounter + Cardinality({n \in Miner : mpc[n] \in {"submit", "accept"}})
        <= MaxSeq

\* The inner loop ends with a proof: the block has hash b.  The same contents
\* may have been found before.
FindProof(m, b) ==
    LET new == [prev |-> pLastBlock[m], timeval |-> timeval[m], bits |-> bits[m],
                txs |-> packed[m]] IN
    /\ Goto(m, "hash", "submit")
    /\ b # Genesis
    /\ SubmissionsLeft
    /\ block[b] \in {NULL, new}
    /\ block' = [block EXCEPT ![b] = new]
    /\ found' = [found EXCEPT ![m] = b]
    /\ UNCHANGED <<chainHeight, pLastBlock, timeval, bits, packed>>

\* The inner loop ends with innerLoopCount proofs, the last one good or not.
NextExtraProof(m) ==
    /\ Goto(m, "hash", "check")
    /\ UNCHANGED <<block, buildVars>>

\* The inner loop ends with maxTries.
GiveUp(m) ==
    /\ Goto(m, "hash", "start")
    /\ UNCHANGED <<block, buildVars>>

\* processNewBlock, as far as the start of acceptBlock, which checks the time
\* before a new header is indexed, and the body, time included, afterwards.
ProcessNewBlock(m) ==
    LET b      == found[m]
        new    == block[b]
        inTime == ValidBlockTime(new.timeval)
        ok     == ValidBlock(new.txs)
    IN  /\ mpc[m] = "submit"
        /\ holder = NULL /\ pc = "idle"
        /\ \/ /\ inTime /\ b \notin mapBlockIndex
              /\ AcceptNewBlock(b, new.prev, new.bits, ok)
              /\ accepted' = ok
           \/ /\ inTime /\ ok /\ b \in mapBlockIndex
              /\ AcceptKnownBlock(b)
              /\ accepted' = TRUE
           \/ /\ ~inTime \/ (~ok /\ b \in mapBlockIndex)
              /\ RejectBlock
              /\ accepted' = FALSE
        /\ holder' = m
        /\ mpc' = [mpc EXCEPT ![m] = "accept"]
        /\ UNCHANGED <<clock, running, block, currentTransactions, buildVars>>

\* The rest of processNewBlock: the transactions of an accepted block leave the
\* waiting ones, if its last one is where it would be.  Then build() returns.
\* (An index behind the end of the waiting transactions would be undefined; no
\* accepted block has a transaction beside its own, so it is never formed.)
Return(m) ==
    LET n == Len(block[found[m]].txs) IN
    /\ holder = m /\ pc = "idle"
    /\ IF /\ accepted /\ n \in 1..Len(currentTransactions)
          /\ currentTransactions[n] = block[found[m]].txs[n]
         THEN currentTransactions' = SubSeq(currentTransactions, n + 1, Len(currentTransactions))
         ELSE UNCHANGED currentTransactions
    /\ holder' = NULL
    /\ mpc' = [mpc EXCEPT ![m] = "start"]
    /\ UNCHANGED <<vars, clock, running, block, accepted, buildVars>>

Build(m) ==
    \/ ReadHeight(m)
    \/ ReadTip(m)
    \/ CheckHeight(m)
    \/ SetTarget(m)
    \/ PackTransactions(m)
    \/ \E b \in Hash : FindProof(m, b)
    \/ NextExtraProof(m)
    \/ GiveUp(m)
    \/ ProcessNewBlock(m)
    \/ Return(m)

\* A step of acceptBlock, by the constructor or by the thread that holds the lock.
Activate == Proceed /\ UNCHANGED minerVars

MNext ==
    \/ \E w \in Work : CreateGenesisBlock(w)
    \/ Start
    \/ AdvanceClock
    \/ \E t \in Tx : CreateNewTransaction(t)
    \/ \E m \in Miner : Build(m)
    \/ Activate

MSpec == MInit /\ [][MNext]_mvars

-----------------------------------------------------------------------------
(* Properties *)

\* A node that only mines never reorganises: late and repeated blocks of other
\* threads lie on side branches that never get more work (consensus.cpp:212
\* lets them in on purpose), so the active chain only grows.
AppendOnly == [][IsPrefix(chain, chain')]_mvars

\* The height and the tip are read one after the other (consensus.cpp:144), and
\* only the height is compared again (consensus.cpp:149): still, a thread that
\* passes the comparison has the tip of that moment.
WorksOnTip ==
    [][\A m \in Miner : mpc[m] = "check" /\ mpc'[m] = "create" => pLastBlock[m] = Tip]_mvars

\* The assertion of calculateNextWorkTarget (consensus.cpp:285), and more: the
\* first block of the cycle is found on the active chain, and it is an ancestor
\* of the block that is extended, although the chain may have moved on.  It is
\* not the younger of the two, so their unsigned difference (consensus.cpp:287)
\* does not wrap, although only the median bounds the time of a block.
RetargetAnchored ==
    \A m \in Miner : mpc[m] = "create" /\ IsRetarget(pLastBlock[m]) =>
        LET last  == pLastBlock[m]
            first == FirstOfCycle(last)
        IN  /\ first = branch[last][Len(branch[last]) - Cycle + 1]
            /\ block[first].timeval <= block[last].timeval

\* The median is that of the active chain (chain.cpp:107), and a thread may hash
\* for long after it has read the clock: still, a block for the present tip is
\* never refused for its time, also when all its predecessors are of one second.
TipBlockInTime ==
    \A m \in Miner : mpc[m] = "submit" /\ block[found[m]].prev = Tip =>
        ValidBlockTime(block[found[m]].timeval)

\* Blocks on the same parent ask for the same work, whichever thread made them
\* and whenever (consensus.cpp:270).
SiblingsAgree ==
    \A g, h \in mapBlockIndex : PPrev(g) = PPrev(h) => chainWork[g] = chainWork[h]

\* chain.cpp:206: "First transaction must be coinbase, the rest must not be".
\* So a block of a thread with one coinbase and ordinary transactions behind it
\* is valid, and its data is there once acceptBlock is done.
OrdinaryTransactionsAllowed ==
    pc = "idle" => \A h \in mapBlockIndex : "HAVE_DATA" \in status[h]
=============================================================================
