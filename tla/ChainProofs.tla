---------------------------- MODULE ChainProofs ----------------------------
(***************************************************************************)
(* Proofs about ChainManager, for any set of hashes, any work values and   *)
(* any batch size: the safety properties of the runs, that the choice of   *)
(* the tip implements ForkChoice, and that every call returns.  Then, in   *)
(* the second half, about Mining, for any number of threads, any blocks,   *)
(* any cycle and any rule for the target: a running node implements        *)
(* ChainManager, never reorganises, and its threads agree on the target of *)
(* every block.                                                            *)
(***************************************************************************)
EXTENDS Mining, NaturalLemmas, FiniteSetTheorems, SequenceTheorems, TLAPS

-----------------------------------------------------------------------------
(* ChainManager: the inductive invariant *)

\* The branches of the index form one tree: every entry of a branch is indexed
\* and its own branch is the part of the branch up to it.
TreeInv ==
    /\ \A h \in mapBlockIndex :
        /\ Len(branch[h]) >= 1
        /\ branch[h][1] = Genesis
        /\ branch[h][Len(branch[h])] = h
    /\ \A h \in mapBlockIndex : \A i \in 1..Len(branch[h]) :
        /\ branch[h][i] \in mapBlockIndex
        /\ Len(branch[branch[h][i]]) = i
        /\ \A j \in 1..i : branch[branch[h][i]][j] = branch[h][j]

\* Work grows along a branch.
WorkInv ==
    \A h \in mapBlockIndex : \A i \in 1..Len(branch[h]) - 1 :
        chainWork[branch[h][i]] < chainWork[h]

\* The active chain is the branch of its last entry.
ChainInv ==
    chain # <<>> => /\ chain[Len(chain)] \in mapBlockIndex
                    /\ chain = branch[chain[Len(chain)]]

\* No flag but HAVE_DATA is ever set, so nothing is ever recorded as unlinked.
StatusInv ==
    /\ \A h \in Hash : status[h] \subseteq {"HAVE_DATA"}
    /\ mapUnlinkedBlocks = {}

\* Blocks that were linked have data, linked ancestors, and ids of their own.
EverLinkedInv ==
    /\ EverLinked \subseteq mapBlockIndex
    /\ \A h \in EverLinked : "HAVE_DATA" \in status[h]
    /\ \A h \in EverLinked : \A i \in 1..Len(branch[h]) : branch[h][i] \in EverLinked
    /\ \A h \in Hash : sequenceID[h] < BlockSequenceIDCounter
    /\ \A g, h \in EverLinked : sequenceID[g] = sequenceID[h] => g = h

\* Once linked, a block stays so, except while it is received again.
LinkedInv ==
    IF pc = "link"
      THEN /\ Len(queue) = 1
           /\ queue[1] \in mapBlockIndex
           /\ "HAVE_DATA" \in status[queue[1]]
           /\ \A i \in 1..Len(branch[queue[1]]) - 1 : branch[queue[1]][i] \in EverLinked
           /\ linked = EverLinked \ {queue[1]}
      ELSE queue = <<>> /\ linked = EverLinked

\* The tip is the only candidate, and no linked block has more work.
Settled ==
    IF chain = <<>>
      THEN EverLinked = {} /\ blockIndexCandidates = <<>>
      ELSE /\ Tip \in EverLinked
           /\ blockIndexCandidates = <<Tip>>
           /\ \A h \in EverLinked : chainWork[h] <= chainWork[Tip]

\* new is the one linked block with more work than the block old.
OnlyBetter(new, old) ==
    /\ new \in EverLinked
    /\ IF old = NULL
         THEN EverLinked = {new}
         ELSE /\ old \in EverLinked
              /\ chainWork[old] < chainWork[new]
              /\ \A h \in EverLinked : h # new => chainWork[h] <= chainWork[old]

\* What holds at each point of acceptBlock.
PhaseInv ==
    /\ pc = "idle" => Settled /\ (chain = <<>> => mapBlockIndex = {})
    /\ pc = "link" => Settled /\ (chain = <<>> => mapBlockIndex = {Genesis})
    /\ pc = "find" =>
        /\ chain = <<>> => mapBlockIndex = {Genesis}
        /\ \/ Settled /\ chain # <<>>
           \/ \E new \in EverLinked :
                /\ OnlyBetter(new, Tip)
                /\ blockIndexCandidates = IF chain = <<>> THEN <<new>> ELSE <<Tip, new>>
    /\ pc \in {"disconnect", "batch", "connect"} =>
        /\ OnlyBetter(mostWork, oldTip)
        /\ \/ blockIndexCandidates = <<mostWork>>
           \/ oldTip # NULL /\ blockIndexCandidates = <<oldTip, mostWork>>
        /\ height <= Len(branch[mostWork])
    /\ pc \in {"disconnect", "batch"} => height < Len(branch[mostWork])
    /\ pc = "connect" =>
        /\ toConnect # <<>>
        /\ \A i \in 1..Len(toConnect) :
                \E k \in 1..Len(branch[mostWork]) : toConnect[i] = branch[mostWork][k]
        /\ height = Len(branch[mostWork]) => toConnect[1] = mostWork

IInv ==
    /\ TypeOK
    /\ TreeInv
    /\ WorkInv
    /\ ChainInv
    /\ StatusInv
    /\ EverLinkedInv
    /\ LinkedInv
    /\ PhaseInv

-----------------------------------------------------------------------------
(* Lemmas about the operators *)

\* Sequences of one and two entries and their parts.
LEMMA ShortSeqs ==
    ASSUME NEW a \in Hash, NEW b \in Hash
    PROVE  /\ <<a>> \in Seq(Hash) /\ <<a, b>> \in Seq(Hash)
           /\ Len(<<a>>) = 1 /\ Len(<<a, b>>) = 2
           /\ <<a>>[1] = a /\ <<a, b>>[1] = a /\ <<a, b>>[2] = b
           /\ SubSeq(<<a>>, 1, 1) = <<a>>
           /\ SubSeq(<<a, b>>, 1, 2) = <<a, b>>
           /\ SubSeq(<<a, b>>, 2, 2) = <<b>>
           /\ <<a>> \o <<b>> = <<a, b>>
           /\ (<<>> \o <<a>>) \o <<>> = <<a>>
           /\ <<a, b>> \o <<>> = <<a, b>>
<1>1. <<a>> \in Seq(Hash) /\ <<a, b>> \in Seq(Hash) /\ <<b>> \in Seq(Hash)
    OBVIOUS
<1>2. Len(<<a>>) = 1 /\ Len(<<a, b>>) = 2
    OBVIOUS
<1>3. <<a>>[1] = a /\ <<a, b>>[1] = a /\ <<a, b>>[2] = b /\ <<b>>[1] = b
    OBVIOUS
<1>4. SubSeq(<<a>>, 1, 1) = <<a>> /\ SubSeq(<<a, b>>, 1, 2) = <<a, b>>
    BY <1>1, <1>2, SubSeqFull
<1>5. SubSeq(<<a, b>>, 2, 2) = <<b>>
  <2>1. \A i \in 2..2 : <<a, b>>[i] \in Hash
    BY <1>3
  <2>2. /\ SubSeq(<<a, b>>, 2, 2) \in Seq(Hash)
        /\ Len(SubSeq(<<a, b>>, 2, 2)) = 1
        /\ \A i \in 1..1 : SubSeq(<<a, b>>, 2, 2)[i] = <<a, b>>[2 + i - 1]
    BY <2>1, SubSeqProperties
  <2>3. SubSeq(<<a, b>>, 2, 2)[1] = b
    BY <1>3, <2>2
  <2>4. Len(<<b>>) = 1
    OBVIOUS
  <2>5. \A i \in 1..Len(<<b>>) : SubSeq(<<a, b>>, 2, 2)[i] = <<b>>[i]
    BY <1>3, <2>3, <2>4
  <2> QED
    BY <1>1, <2>2, <2>4, <2>5, SeqEqual
<1>6. <<a>> \o <<b>> = <<a, b>>
  <2>1. Len(<<b>>) = 1
    OBVIOUS
  <2>2. /\ <<a>> \o <<b>> \in Seq(Hash)
        /\ Len(<<a>> \o <<b>>) = 2
        /\ \A i \in 1..2 : (<<a>> \o <<b>>)[i] = IF i <= 1 THEN <<a>>[i] ELSE <<b>>[i - 1]
    BY <1>1, <1>2, <2>1, ConcatProperties
  <2>3. (<<a>> \o <<b>>)[1] = a /\ (<<a>> \o <<b>>)[2] = b
    BY <1>3, <2>2
  <2>4. \A i \in 1..2 : (<<a>> \o <<b>>)[i] = <<a, b>>[i]
    BY <1>3, <2>3
  <2> QED
    BY <1>1, <1>2, <2>2, <2>4, SeqEqual
<1>7. <<a, b>> \o <<>> = <<a, b>> /\ <<a>> \o <<>> = <<a>> /\ <<>> \o <<a>> = <<a>>
    BY <1>1, ConcatEmptySeq
<1> QED
    BY <1>1, <1>2, <1>3, <1>4, <1>5, <1>6, <1>7

\* findFork returns the highest common entry of the chain and the branch.
LEMMA FindForkFacts ==
    ASSUME TypeOK, NEW h \in Hash
    PROVE  /\ FindFork(h) \in 0..Len(branch[h])
           /\ FindFork(h) <= Len(chain)
           /\ FindFork(h) > 0 => chain[FindFork(h)] = branch[h][FindFork(h)]
           /\ \A i \in 1..Len(branch[h]) :
                i <= Len(chain) /\ chain[i] = branch[h][i] => i <= FindFork(h)
<1> DEFINE S == {0} \cup {i \in DOMAIN branch[h] \cap DOMAIN chain : chain[i] = branch[h][i]}
<1>1. branch[h] \in Seq(Hash) /\ chain \in Seq(Hash)
    BY DEF TypeOK
<1>2. /\ Len(branch[h]) \in Nat /\ DOMAIN branch[h] = 1..Len(branch[h])
      /\ Len(chain) \in Nat /\ DOMAIN chain = 1..Len(chain)
    BY <1>1
<1>3. S \in SUBSET (0..Len(branch[h])) /\ S # {}
    BY <1>2
<1>4. Max(S) \in S /\ \A y \in S : y <= Max(S)
    BY <1>2, <1>3, MaxOfBounded
<1>5. FindFork(h) = Max(S)
    BY DEF FindFork
<1> HIDE DEF S
<1>6. FindFork(h) \in S /\ \A y \in S : y <= FindFork(h)
    BY <1>4, <1>5
<1> QED
    BY <1>2, <1>6 DEF S

\* setTip, which stops at the first entry that matches, leaves the whole branch
\* of the new tip.
LEMMA SetTipIsBranch ==
    ASSUME TypeOK, TreeInv, ChainInv, NEW h \in mapBlockIndex
    PROVE  SetTip(h) = branch[h]
<1> DEFINE k == FindFork(h)
<1>1. h \in Hash /\ h # NULL /\ branch[h] \in Seq(Hash) /\ chain \in Seq(Hash)
    BY HashAssumption DEF TypeOK
<1>2. /\ k \in 0..Len(branch[h]) /\ k <= Len(chain)
      /\ k > 0 => chain[k] = branch[h][k]
    BY <1>1, FindForkFacts
<1> HIDE DEF k
<1>3. \A i \in 1..Len(branch[h]) : i <= k => chain[i] = branch[h][i]
  <2> SUFFICES ASSUME NEW i \in 1..Len(branch[h]), i <= k
               PROVE  chain[i] = branch[h][i]
    OBVIOUS
  <2> DEFINE t == chain[Len(chain)]
  <2>1. t \in mapBlockIndex /\ chain = branch[t]
    BY <1>1, <1>2 DEF ChainInv
  <2>2. k \in 1..Len(branch[t]) /\ k \in 1..Len(branch[h]) /\ i \in 1..k
    BY <1>1, <1>2, <2>1
  <2> HIDE DEF t
  <2>3. branch[branch[t][k]][i] = branch[t][i]
    BY <2>1, <2>2 DEF TreeInv
  <2>4. branch[branch[h][k]][i] = branch[h][i]
    BY <2>2 DEF TreeInv
  <2> QED
    BY <1>2, <2>1, <2>2, <2>3, <2>4
<1>4. SetTip(h) = [i \in 1..Len(branch[h]) |-> branch[h][i]]
    BY <1>1, <1>3 DEF SetTip, k
<1> QED
    BY <1>1, <1>4

\* Pruning removes a prefix of smaller entries and stops at the first other one.
LEMMA PruneFacts ==
    ASSUME NEW s \in Seq(Hash), NEW t
    PROVE  \E n \in 0..Len(s) :
            /\ PruneBlockIndexCandidates(s, t) = SubSeq(s, n + 1, Len(s))
            /\ \A j \in 1..n : Less(sequenceID, s[j], t)
            /\ n < Len(s) => ~Less(sequenceID, s[n + 1], t)
<1> DEFINE P(j) == Less(sequenceID, s[j], t)
           S == {i \in 0..Len(s) : \A j \in 1..i : P(j)}
           n == Max(S)
<1>0. PruneBlockIndexCandidates(s, t) = SubSeq(s, n + 1, Len(s))
    BY DEF PruneBlockIndexCandidates
<1> HIDE DEF P
<1>1. Len(s) \in Nat /\ S \in SUBSET (0..Len(s)) /\ 0 \in S
    OBVIOUS
<1>2. n \in S /\ \A y \in S : y <= n
    BY <1>1, MaxOfBounded
<1> HIDE DEF n
<1>3. ASSUME n < Len(s), P(n + 1) PROVE FALSE
  <2>1. \A j \in 1..n + 1 : j \in 1..n \/ j = n + 1
    BY <1>1, <1>2
  <2>2. n + 1 \in S
    BY <1>1, <1>2, <1>3, <2>1
  <2> QED
    BY <1>1, <1>2, <2>2
<1> QED
    BY <1>0, <1>1, <1>2, <1>3 DEF P

\* Pruning one or two candidates of which the last does not sort before the tip.
LEMMA PruneOne ==
    ASSUME NEW a \in Hash, NEW t, ~Less(sequenceID, a, t)
    PROVE  PruneBlockIndexCandidates(<<a>>, t) = <<a>>
<1>1. PICK n \in 0..1 :
        /\ PruneBlockIndexCandidates(<<a>>, t) = SubSeq(<<a>>, n + 1, 1)
        /\ \A j \in 1..n : Less(sequenceID, <<a>>[j], t)
  <2>1. <<a>> \in Seq(Hash) /\ Len(<<a>>) = 1
    BY ShortSeqs
  <2> QED
    BY <2>1, PruneFacts
<1>2. n = 0
    BY <1>1
<1> QED
    BY <1>1, <1>2, ShortSeqs

LEMMA PruneTwo ==
    ASSUME NEW a \in Hash, NEW b \in Hash, NEW t, ~Less(sequenceID, b, t)
    PROVE  /\ PruneBlockIndexCandidates(<<a, b>>, t) \in {<<a, b>>, <<b>>}
           /\ Less(sequenceID, a, t) => PruneBlockIndexCandidates(<<a, b>>, t) = <<b>>
<1>1. PICK n \in 0..2 :
        /\ PruneBlockIndexCandidates(<<a, b>>, t) = SubSeq(<<a, b>>, n + 1, 2)
        /\ \A j \in 1..n : Less(sequenceID, <<a, b>>[j], t)
        /\ n < 2 => ~Less(sequenceID, <<a, b>>[n + 1], t)
  <2>1. <<a, b>> \in Seq(Hash) /\ Len(<<a, b>>) = 2
    BY ShortSeqs
  <2> QED
    BY <2>1, PruneFacts
<1>2. n # 2
    BY <1>1
<1>3. SubSeq(<<a, b>>, 1, 2) = <<a, b>> /\ SubSeq(<<a, b>>, 2, 2) = <<b>>
    BY ShortSeqs
<1>4. n = 0 => ~Less(sequenceID, a, t)
    BY <1>1
<1>5. n = 0 \/ n = 1
    BY <1>2
<1>6. CASE n = 0
    BY <1>1, <1>3, <1>4, <1>6
<1>7. CASE n = 1
    BY <1>1, <1>3, <1>7
<1> QED
    BY <1>5, <1>6, <1>7

\* Inserting into an empty set, or into a set of one entry t: an entry that
\* sorts above t goes behind it, and t itself stays where it is.
LEMMA InsertIntoEmpty ==
    ASSUME NEW seq, NEW k \in Hash
    PROVE  InsertCandidate(seq, <<>>, k) = {<<k>>}
<1>1. InsertAt(<<>>, 1, k) = <<k>>
  <2>1. SubSeq(<<>>, 1, 1 - 1) = <<>> /\ SubSeq(<<>>, 1, Len(<<>>)) = <<>>
    BY SubSeqEmpty
  <2>2. (<<>> \o <<k>>) \o <<>> = <<k>>
    BY ShortSeqs
  <2> QED
    BY <2>1, <2>2 DEF InsertAt
<1>2. 0..Len(<<>>) = {0}
    OBVIOUS
<1> QED
    BY <1>1, <1>2 DEF InsertCandidate

LEMMA InsertIntoOne ==
    ASSUME NEW seq, NEW t \in Hash, NEW k \in Hash, ~Less(seq, k, t)
    PROVE  InsertCandidate(seq, <<t>>, k) =
                {IF Less(seq, t, k) THEN <<t, k>> ELSE <<t>>}
<1> DEFINE L(a, b) == Less(seq, a, b)
           G == {g \in 0..Len(<<t>>) : /\ g > 0 => ~L(k, <<t>>[g])
                                       /\ g < Len(<<t>>) => L(k, <<t>>[g + 1])}
           R(i) == IF i > 0 => L(<<t>>[i], k) THEN InsertAt(<<t>>, i + 1, k) ELSE <<t>>
<1>1. InsertCandidate(seq, <<t>>, k) = {R(i) : i \in G}
    BY Zenon DEF InsertCandidate
<1>2. ~L(k, t)
    OBVIOUS
<1> HIDE DEF L
<1>3. G = {1}
    BY <1>2
<1>4. InsertAt(<<t>>, 2, k) = <<t, k>>
  <2>0. 2 - 1 = 1
    OBVIOUS
  <2>1. SubSeq(<<t>>, 1, 1) = <<t>> /\ Len(<<t>>) = 1
    BY ShortSeqs, Zenon
  <2>2. SubSeq(<<t>>, 2, Len(<<t>>)) = <<>>
    BY <2>1, SubSeqEmpty
  <2>3. (<<t>> \o <<k>>) \o <<>> = <<t, k>>
    BY ShortSeqs
  <2> QED
    BY <2>0, <2>1, <2>2, <2>3 DEF InsertAt
<1>5. R(1) = IF L(t, k) THEN <<t, k>> ELSE <<t>>
    BY <1>4
<1> HIDE DEF G, R
<1> QED
    BY <1>1, <1>3, <1>5 DEF L

-----------------------------------------------------------------------------
(* The invariant holds initially *)

LEMMA InitInv == Init => IInv
<1> SUFFICES ASSUME Init PROVE IInv
    OBVIOUS
<1>1. TypeOK
    BY HashAssumption DEF Init, TypeOK
<1>2. EverLinked = {}
    BY DEF Init, EverLinked
<1>3. TreeInv /\ WorkInv /\ ChainInv /\ StatusInv
    BY DEF Init, TreeInv, WorkInv, ChainInv, StatusInv
<1>4. EverLinkedInv /\ LinkedInv
    BY <1>2 DEF Init, EverLinkedInv, LinkedInv
<1>5. PhaseInv
    BY <1>2 DEF Init, PhaseInv, Settled
<1> QED
    BY <1>1, <1>3, <1>4, <1>5 DEF IInv

-----------------------------------------------------------------------------
(* Every action preserves the invariant *)

\* The facts about branches that the steps use most.
LEMMA BranchFacts ==
    ASSUME TypeOK, TreeInv, NEW h \in mapBlockIndex
    PROVE  /\ h \in Hash
           /\ branch[h] \in Seq(Hash)
           /\ Len(branch[h]) \in Nat \ {0}
           /\ branch[h][Len(branch[h])] = h
           /\ branch[h][1] = Genesis
           /\ \A i \in 1..Len(branch[h]) : branch[h][i] \in mapBlockIndex
           /\ chainWork[h] \in Nat
<1>1. h \in Hash
    BY DEF TypeOK
<1>2. branch[h] \in Seq(Hash) /\ chainWork[h] \in Nat
    BY <1>1 DEF TypeOK
<1> QED
    BY <1>1, <1>2 DEF TreeInv

\* addToBlockIndex puts b on top of an existing branch, or makes it the root.
LEMMA AddKeepsTree ==
    ASSUME TypeOK, TreeInv, WorkInv,
           NEW b \in Hash, b \notin mapBlockIndex,
           NEW p, NEW w \in Work,
           IF p = NULL THEN b = Genesis ELSE p \in mapBlockIndex,
           AddToBlockIndex(b, IF p = NULL THEN <<>> ELSE branch[p], w)
    PROVE  /\ mapBlockIndex' \subseteq Hash
           /\ branch' \in [Hash -> Seq(Hash)]
           /\ chainWork' \in [Hash -> Nat]
           /\ \A h \in mapBlockIndex : branch'[h] = branch[h] /\ chainWork'[h] = chainWork[h]
           /\ IF p = NULL
                THEN Len(branch'[b]) = 1
                ELSE /\ Len(branch'[b]) = Len(branch[p]) + 1
                     /\ \A i \in 1..Len(branch[p]) : branch'[b][i] = branch[p][i]
           /\ TreeInv'
           /\ WorkInv'
<1> DEFINE prev == IF p = NULL THEN <<>> ELSE branch[p]
           n == Len(prev)
           c == Append(prev, b)
           base == IF prev = <<>> THEN 0 ELSE chainWork[Last(prev)]
<1>1. /\ mapBlockIndex' = mapBlockIndex \cup {b}
      /\ branch' = [branch EXCEPT ![b] = c]
      /\ chainWork' = [chainWork EXCEPT ![b] = base + w]
    BY DEF AddToBlockIndex
<1>2. p # NULL => p \in mapBlockIndex
    OBVIOUS
<1>3. prev \in Seq(Hash)
    BY <1>2, BranchFacts
<1>4. /\ n \in Nat
      /\ c \in Seq(Hash) /\ Len(c) = n + 1 /\ c[n + 1] = b
      /\ \A i \in 1..n : c[i] = prev[i]
    BY <1>3, AppendProperties
<1>5. p # NULL => Last(prev) = p /\ n >= 1 /\ n = Len(branch[p])
    BY <1>2, BranchFacts DEF Last
<1>6. p = NULL => n = 0 /\ prev = <<>>
    OBVIOUS
<1>7. base \in Nat /\ w \in Nat /\ w > 0
  <2>1. p # NULL => prev # <<>> /\ chainWork[Last(prev)] \in Nat
    BY <1>2, <1>5, BranchFacts
  <2> QED
    BY <1>6, <2>1, WorkAssumption
<1>a. p # NULL => prev = branch[p]
    OBVIOUS
<1> HIDE DEF c, base, prev, n
<1>8. /\ branch'[b] = c /\ chainWork'[b] = base + w
      /\ \A h \in mapBlockIndex : branch'[h] = branch[h] /\ chainWork'[h] = chainWork[h]
      /\ branch' \in [Hash -> Seq(Hash)]
      /\ chainWork' \in [Hash -> Nat]
      /\ mapBlockIndex' \subseteq Hash
  <2>1. branch \in [Hash -> Seq(Hash)] /\ chainWork \in [Hash -> Nat] /\ mapBlockIndex \subseteq Hash
    BY DEF TypeOK
  <2>2. branch' \in [Hash -> Seq(Hash)] /\ branch'[b] = c
    BY <1>1, <1>4, <2>1
  <2>3. chainWork' \in [Hash -> Nat] /\ chainWork'[b] = base + w
    BY <1>1, <1>7, <2>1
  <2>4. \A h \in mapBlockIndex : branch'[h] = branch[h] /\ chainWork'[h] = chainWork[h]
    BY <1>1, <2>1
  <2> QED
    BY <1>1, <2>1, <2>2, <2>3, <2>4
<1>9. TreeInv'
  <2>1. ASSUME NEW h \in mapBlockIndex'
        PROVE  Len(branch'[h]) >= 1 /\ branch'[h][1] = Genesis /\ branch'[h][Len(branch'[h])] = h
    <3>1. CASE h \in mapBlockIndex
      BY <1>8, <3>1 DEF TreeInv
    <3>2. CASE h = b
      <4>1. CASE p = NULL
        <5>1. Len(branch'[h]) = 1 /\ branch'[h][1] = b
          BY <1>4, <1>6, <1>8, <3>2, <4>1
        <5> QED
          BY <3>2, <4>1, <5>1
      <4>2. CASE p # NULL
        <5>1. prev[1] = Genesis
          BY <1>2, <1>a, <4>2, BranchFacts
        <5> QED
          BY <1>4, <1>5, <1>8, <3>2, <4>2, <5>1
      <4> QED
        BY <4>1, <4>2
    <3> QED
      BY <1>1, <3>1, <3>2
  <2>2. ASSUME NEW h \in mapBlockIndex', NEW i \in 1..Len(branch'[h])
        PROVE  /\ branch'[h][i] \in mapBlockIndex'
               /\ Len(branch'[branch'[h][i]]) = i
               /\ \A j \in 1..i : branch'[branch'[h][i]][j] = branch'[h][j]
    <3>1. CASE h \in mapBlockIndex
      <4>1. branch'[h] = branch[h] /\ branch[h][i] \in mapBlockIndex
        BY <1>8, <2>2, <3>1 DEF TreeInv
      <4>2. branch'[branch[h][i]] = branch[branch[h][i]]
        BY <1>8, <4>1
      <4> QED
        BY <1>1, <2>2, <3>1, <4>1, <4>2 DEF TreeInv
    <3>2. CASE h = b /\ i = n + 1
      <4>1. branch'[h][i] = b
        BY <1>4, <1>8, <3>2
      <4> QED
        BY <1>1, <1>4, <1>8, <3>2, <4>1
    <3>3. CASE h = b /\ i # n + 1
      <4>1. i \in 1..n /\ p # NULL
        BY <1>4, <1>6, <1>8, <2>2, <3>3
      <4>2. branch'[h][i] = branch[p][i] /\ branch[p][i] \in mapBlockIndex
        BY <1>2, <1>4, <1>5, <1>8, <1>a, <3>3, <4>1, BranchFacts
      <4>3. branch'[branch[p][i]] = branch[branch[p][i]]
        BY <1>8, <4>2
      <4>4. i \in 1..Len(branch[p])
        BY <1>5, <4>1
      <4>5. \A j \in 1..i : branch[branch[p][i]][j] = branch'[h][j]
        <5>1. \A j \in 1..i : branch[branch[p][i]][j] = branch[p][j]
          BY <1>2, <4>1, <4>4 DEF TreeInv
        <5>2. \A j \in 1..i : j \in 1..n
          BY <1>4, <4>1
        <5>3. \A j \in 1..i : branch'[h][j] = branch[p][j]
          BY <1>4, <1>8, <1>a, <3>3, <4>1, <5>2
        <5> QED
          BY <5>1, <5>3
      <4>6. Len(branch[branch[p][i]]) = i
        BY <1>2, <4>1, <4>4 DEF TreeInv
      <4> QED
        BY <1>1, <4>2, <4>3, <4>5, <4>6
    <3> QED
      BY <1>1, <3>1, <3>2, <3>3
  <2> QED
    BY <2>1, <2>2 DEF TreeInv
<1>10. WorkInv'
  <2> SUFFICES ASSUME NEW h \in mapBlockIndex', NEW i \in 1..Len(branch'[h]) - 1
               PROVE  chainWork'[branch'[h][i]] < chainWork'[h]
    BY DEF WorkInv
  <2>1. CASE h \in mapBlockIndex
    <3>1. branch[h][i] \in mapBlockIndex /\ branch'[h] = branch[h]
      BY <1>8, <2>1, BranchFacts
    <3> QED
      BY <1>8, <2>1, <3>1 DEF WorkInv
  <2>2. CASE h = b
    <3>1. i \in 1..n /\ p # NULL
      BY <1>4, <1>6, <1>8, <2>2
    <3>2. branch'[h][i] = branch[p][i] /\ branch[p][i] \in mapBlockIndex /\ p \in mapBlockIndex
      BY <1>2, <1>4, <1>5, <1>8, <1>a, <2>2, <3>1, BranchFacts
    <3>3. base = chainWork[p]
      BY <1>3, <1>5, <3>1 DEF base, n
    <3>4. chainWork[branch[p][i]] <= chainWork[p]
      <4>1. CASE i = n
        BY <1>5, <3>1, <3>2, <4>1, BranchFacts
      <4>2. CASE i # n
        <5>1. i \in 1..Len(branch[p]) - 1
          BY <1>4, <1>5, <3>1, <4>2
        <5>2. chainWork[branch[p][i]] \in Nat /\ chainWork[p] \in Nat
          BY <3>2, BranchFacts
        <5> QED
          BY <3>2, <5>1, <5>2 DEF WorkInv
      <4> QED
        BY <4>1, <4>2
    <3>5. chainWork[branch[p][i]] \in Nat /\ chainWork[p] \in Nat
      BY <3>2, BranchFacts
    <3>6. chainWork'[branch'[h][i]] = chainWork[branch[p][i]] /\ chainWork'[h] = chainWork[p] + w
      BY <1>8, <2>2, <3>2, <3>3
    <3> QED
      BY <1>7, <3>4, <3>5, <3>6
  <2> QED
    BY <1>1, <2>1, <2>2
<1>11. IF p = NULL
         THEN Len(branch'[b]) = 1
         ELSE /\ Len(branch'[b]) = Len(branch[p]) + 1
              /\ \A i \in 1..Len(branch[p]) : branch'[b][i] = branch[p][i]
  <2>1. CASE p = NULL
    BY <1>4, <1>6, <1>8, <2>1
  <2>2. CASE p # NULL
    <3>1. n = Len(branch[p]) /\ prev = branch[p]
      BY <1>5, <1>a, <2>2
    <3>2. Len(branch'[b]) = Len(branch[p]) + 1
      BY <1>4, <1>8, <3>1
    <3>3. \A i \in 1..Len(branch[p]) : branch'[b][i] = branch[p][i]
      BY <1>4, <1>8, <3>1
    <3> QED
      BY <2>2, <3>2, <3>3
  <2> QED
    BY <2>1, <2>2
<1> QED
    BY <1>8, <1>9, <1>10, <1>11

\* Entries that keep their branch and work leave the settled state settled.
LEMMA SettledStable ==
    ASSUME EverLinkedInv, ChainInv,
           UNCHANGED <<sequenceID, blockIndexCandidates, chain>>,
           mapBlockIndex \subseteq mapBlockIndex',
           \A h \in mapBlockIndex : branch'[h] = branch[h] /\ chainWork'[h] = chainWork[h]
    PROVE  /\ EverLinked' = EverLinked
           /\ Tip' = Tip
           /\ ChainInv'
           /\ Settled => Settled'
<1>1. EverLinked' = EverLinked
    BY DEF EverLinked
<1>2. Tip' = Tip
    BY DEF Tip
<1>3. ChainInv'
    BY DEF ChainInv
<1>4. ASSUME Settled PROVE Settled'
  <2>1. CASE chain = <<>>
    BY <1>1, <1>4, <2>1 DEF Settled
  <2>2. CASE chain # <<>>
    <3>1. Tip \in EverLinked /\ blockIndexCandidates = <<Tip>>
      BY <1>4, <2>2 DEF Settled
    <3>2. \A h \in EverLinked : chainWork'[h] = chainWork[h]
      BY DEF EverLinkedInv
    <3>3. \A h \in EverLinked' : chainWork'[h] <= chainWork'[Tip']
      BY <1>1, <1>2, <1>4, <2>2, <3>1, <3>2 DEF Settled
    <3> QED
      BY <1>1, <1>2, <2>2, <3>1, <3>3 DEF Settled
  <2> QED
    BY <2>1, <2>2
<1> QED
    BY <1>1, <1>2, <1>3, <1>4

\* receiveBlock up to its loop, for an entry b with the parent q.
LEMMA ReceiveKeepsInv ==
    ASSUME IInv, pc = "idle", NEW b \in Hash, NEW q,
           ReceiveBlock(b, q),
           UNCHANGED <<sequenceID, blockIndexCandidates, BlockSequenceIDCounter, chain, stepVars>>,
           b \in mapBlockIndex', mapBlockIndex' \subseteq Hash,
           mapBlockIndex \subseteq mapBlockIndex',
           branch' \in [Hash -> Seq(Hash)], chainWork' \in [Hash -> Nat],
           \A h \in mapBlockIndex : branch'[h] = branch[h] /\ chainWork'[h] = chainWork[h],
           TreeInv', WorkInv',
           chain = <<>> => mapBlockIndex' = {Genesis},
           IF q = NULL THEN Len(branch'[b]) = 1
           ELSE /\ q \in mapBlockIndex
                /\ chain # <<>>
                /\ Len(branch'[b]) = Len(branch[q]) + 1
                /\ \A i \in 1..Len(branch[q]) : branch'[b][i] = branch[q][i],
           b \in EverLinked /\ q # NULL => q \in EverLinked
    PROVE  IInv'
<1> DEFINE go == q = NULL \/ q \in linked
<1>1. TypeOK /\ TreeInv /\ ChainInv /\ StatusInv /\ EverLinkedInv /\ LinkedInv /\ PhaseInv
    BY DEF IInv
<1>2. /\ status' = [status EXCEPT ![b] = @ \cup {"HAVE_DATA"}]
      /\ linked' = linked \ {b}
      /\ go => queue' = <<b>> /\ pc' = "link" /\ mapUnlinkedBlocks' = mapUnlinkedBlocks
      /\ ~go => pc' = "find" /\ queue' = queue
    BY DEF ReceiveBlock
<1>3. mapUnlinkedBlocks' = {}
  <2>1. ~go => ~IsValidTree(q)
    <3>1. ~go => q \in Hash
      BY <1>1 DEF TypeOK
    <3> QED
      BY <1>1, <3>1 DEF IsValidTree, StatusInv
  <2> QED
    BY <1>1, <1>2, <2>1 DEF ReceiveBlock, StatusInv
<1>4. linked = EverLinked /\ queue = <<>>
    BY <1>1 DEF LinkedInv
<1>5. EverLinked' = EverLinked /\ Tip' = Tip /\ ChainInv' /\ (Settled => Settled')
    BY <1>1, SettledStable
<1>6. Settled /\ (chain = <<>> => mapBlockIndex = {})
    BY <1>1 DEF PhaseInv
<1>7. /\ \A h \in Hash : status'[h] \subseteq {"HAVE_DATA"}
      /\ \A h \in Hash : "HAVE_DATA" \in status[h] => "HAVE_DATA" \in status'[h]
      /\ "HAVE_DATA" \in status'[b]
    BY <1>1, <1>2 DEF TypeOK, StatusInv
<1>8. EverLinked \subseteq Hash /\ EverLinked \subseteq mapBlockIndex
    BY <1>1 DEF EverLinkedInv, EverLinked
<1>9. TypeOK'
  <2>1. status' \in [Hash -> SUBSET Flag]
    BY <1>1, <1>2 DEF TypeOK, Flag
  <2>2. queue' \in Seq(Hash)
    <3>1. <<b>> \in Seq(Hash) /\ <<>> \in Seq(Hash)
      BY ShortSeqs
    <3>2. queue' = <<b>> \/ queue' = <<>>
      BY <1>2, <1>4
    <3> QED
      BY <3>1, <3>2, Zenon
  <2>3. pc' \in {"link", "find"}
    BY <1>2
  <2>4. UNCHANGED <<mostWork, oldTip, height, toConnect>>
    BY DEF stepVars
  <2> QED
    BY <1>1, <1>2, <1>3, <2>1, <2>2, <2>3, <2>4 DEF TypeOK
<1>10. StatusInv'
    BY <1>3, <1>7 DEF StatusInv
<1>11. EverLinkedInv'
  <2>1. \A h \in EverLinked : \A i \in 1..Len(branch'[h]) : branch'[h][i] \in EverLinked
    BY <1>1, <1>8 DEF EverLinkedInv
  <2>2. \A h \in EverLinked : "HAVE_DATA" \in status'[h]
    BY <1>1, <1>7, <1>8 DEF EverLinkedInv
  <2> QED
    BY <1>1, <1>5, <1>8, <2>1, <2>2 DEF EverLinkedInv
<1>12. LinkedInv'
  <2>1. CASE go
    <3>1. Len(queue') = 1 /\ queue'[1] = b /\ pc' = "link"
      BY <1>2, <2>1, ShortSeqs
    <3>2. \A i \in 1..Len(branch'[b]) - 1 : branch'[b][i] \in EverLinked
      <4>1. CASE q = NULL
        <5> DEFINE m == Len(branch'[b]) - 1
        <5>1. m = 0
          BY <4>1
        <5> HIDE DEF m
        <5>2. \A i \in 1..m : branch'[b][i] \in EverLinked
          BY <5>1
        <5> QED
          BY <5>2 DEF m
      <4>2. CASE q # NULL
        <5>1. q \in EverLinked /\ branch[q] \in Seq(Hash)
          BY <1>1, <1>4, <1>8, <2>1, <4>2 DEF TypeOK
        <5>2. \A i \in 1..Len(branch[q]) : branch[q][i] \in EverLinked
          BY <1>1, <5>1 DEF EverLinkedInv
        <5>3. Len(branch'[b]) - 1 = Len(branch[q])
          BY <4>2, <5>1
        <5>4. \A i \in 1..Len(branch[q]) : branch'[b][i] = branch[q][i]
          BY <4>2
        <5> QED
          BY <5>2, <5>3, <5>4
      <4> QED
        BY <4>1, <4>2
    <3> QED
      BY <1>2, <1>4, <1>5, <1>7, <3>1, <3>2 DEF LinkedInv
  <2>2. CASE ~go
    BY <1>2, <1>4, <1>5, <2>2 DEF LinkedInv
  <2> QED
    BY <2>1, <2>2
<1>13. PhaseInv'
  <2>1. CASE go
    BY <1>2, <1>5, <1>6, <2>1 DEF PhaseInv
  <2>2. CASE ~go
    BY <1>2, <1>5, <1>6, <2>2 DEF PhaseInv
  <2> QED
    BY <2>1, <2>2
<1> QED
    BY <1>5, <1>9, <1>10, <1>11, <1>12, <1>13 DEF IInv

LEMMA AcceptNewBlockInv ==
    ASSUME IInv, NEW b \in Hash, NEW p \in mapBlockIndex \cup {NULL}, NEW w \in Work,
           NEW ok \in BOOLEAN, AcceptNewBlock(b, p, w, ok)
    PROVE  IInv'
<1>1. TypeOK /\ TreeInv /\ WorkInv /\ ChainInv /\ StatusInv /\ EverLinkedInv /\ LinkedInv /\ PhaseInv
    BY DEF IInv
<1>2. /\ pc = "idle" /\ b \notin mapBlockIndex
      /\ IF p = NULL THEN b = Genesis ELSE p \in mapBlockIndex
      /\ AddToBlockIndex(b, IF p = NULL THEN <<>> ELSE branch[p], w)
      /\ UNCHANGED <<sequenceID, blockIndexCandidates, BlockSequenceIDCounter, chain, stepVars>>
    BY DEF AcceptNewBlock
<1>3. /\ mapBlockIndex' \subseteq Hash
      /\ branch' \in [Hash -> Seq(Hash)]
      /\ chainWork' \in [Hash -> Nat]
      /\ \A h \in mapBlockIndex : branch'[h] = branch[h] /\ chainWork'[h] = chainWork[h]
      /\ IF p = NULL
           THEN Len(branch'[b]) = 1
           ELSE /\ Len(branch'[b]) = Len(branch[p]) + 1
                /\ \A i \in 1..Len(branch[p]) : branch'[b][i] = branch[p][i]
      /\ TreeInv' /\ WorkInv'
    BY <1>1, <1>2, AddKeepsTree
<1>4. mapBlockIndex' = mapBlockIndex \cup {b}
    BY <1>2 DEF AddToBlockIndex
<1>5. Settled /\ (chain = <<>> => mapBlockIndex = {})
    BY <1>1, <1>2 DEF PhaseInv
<1>6. p # NULL => p \in mapBlockIndex /\ chain # <<>>
    BY <1>2, <1>5
<1>7. p = NULL => b = Genesis
    BY <1>2
<1>8. chain = <<>> => mapBlockIndex' = {Genesis}
    BY <1>4, <1>5, <1>6, <1>7
<1>9. b \notin EverLinked
    BY <1>1, <1>2 DEF EverLinkedInv
<1>10. CASE ok \/ b = Genesis
  <2>1. ReceiveBlock(b, p)
    BY <1>10 DEF AcceptNewBlock
  <2> QED
    BY <1>2, <1>3, <1>4, <1>6, <1>8, <1>9, <2>1, ReceiveKeepsInv
<1>11. CASE ~(ok \/ b = Genesis)
  <2>1. UNCHANGED <<status, linked, mapUnlinkedBlocks, queue, pc>>
    BY <1>11 DEF AcceptNewBlock
  <2>2. EverLinked' = EverLinked /\ Tip' = Tip /\ ChainInv' /\ (Settled => Settled')
    BY <1>1, <1>2, <1>3, <1>4, SettledStable
  <2>3. TypeOK'
    BY <1>1, <1>2, <1>3, <2>1 DEF TypeOK, stepVars
  <2>4. StatusInv'
    BY <1>1, <2>1 DEF StatusInv
  <2>5. EverLinkedInv'
    <3>1. EverLinked \subseteq mapBlockIndex
      BY <1>1 DEF EverLinkedInv
    <3>2. \A h \in EverLinked : \A i \in 1..Len(branch'[h]) : branch'[h][i] \in EverLinked
      BY <1>1, <1>3, <3>1 DEF EverLinkedInv
    <3> QED
      BY <1>1, <1>2, <1>4, <2>1, <2>2, <3>1, <3>2 DEF EverLinkedInv
  <2>6. LinkedInv'
    BY <1>1, <1>2, <2>1, <2>2 DEF LinkedInv
  <2>7. chain # <<>>
    BY <1>6, <1>7, <1>11
  <2>8. PhaseInv'
    BY <1>2, <1>5, <2>1, <2>2, <2>7 DEF PhaseInv
  <2> QED
    BY <1>3, <2>2, <2>3, <2>4, <2>5, <2>6, <2>8 DEF IInv
<1> QED
    BY <1>10, <1>11

LEMMA AcceptKnownBlockInv ==
    ASSUME IInv, NEW b \in mapBlockIndex, AcceptKnownBlock(b)
    PROVE  IInv'
<1>1. TypeOK /\ TreeInv /\ WorkInv /\ ChainInv /\ EverLinkedInv /\ PhaseInv
    BY DEF IInv
<1>2. /\ pc = "idle" /\ ReceiveBlock(b, PPrev(b))
      /\ UNCHANGED <<mapBlockIndex, branch, chainWork>>
      /\ UNCHANGED <<sequenceID, blockIndexCandidates, BlockSequenceIDCounter, chain, stepVars>>
    BY DEF AcceptKnownBlock, indexVars
<1>3. chain # <<>>
    BY <1>1, <1>2 DEF PhaseInv
<1>4. TreeInv' /\ WorkInv'
    BY <1>1, <1>2 DEF TreeInv, WorkInv
<1> DEFINE n == Len(branch[b])
           q == PPrev(b)
<1>5. b \in Hash /\ n \in Nat \ {0} /\ branch[b] \in Seq(Hash)
    BY <1>1, BranchFacts
<1>6. CASE n = 1
  <2>1. q = NULL
    BY <1>6 DEF PPrev
  <2> QED
    BY <1>1, <1>2, <1>3, <1>4, <1>5, <1>6, <2>1, ReceiveKeepsInv DEF TypeOK
<1>7. CASE n # 1
  <2>0. n - 1 \in 1..n
    <3>1. n \in Nat /\ n # 0 /\ n # 1
      BY <1>5, <1>7
    <3> HIDE DEF n
    <3> QED
      BY <3>1
  <2>1. q = branch[b][n - 1] /\ n - 1 \in 1..n
    BY <1>7, <2>0 DEF PPrev
  <2>2. q \in mapBlockIndex /\ q \in Hash /\ q # NULL
    <3>1. \A i \in 1..n : branch[b][i] \in mapBlockIndex
      BY <1>1, BranchFacts
    <3> HIDE DEF n, q
    <3>2. q \in mapBlockIndex
      BY <2>1, <3>1
    <3> QED
      BY <1>1, <3>2, BranchFacts, HashAssumption
  <2>3. Len(branch[q]) = n - 1 /\ \A i \in 1..n - 1 : branch[q][i] = branch[b][i]
    <3>1. \A i \in 1..Len(branch[b]) :
             /\ Len(branch[branch[b][i]]) = i
             /\ \A j \in 1..i : branch[branch[b][i]][j] = branch[b][j]
      BY <1>1 DEF TreeInv
    <3> HIDE DEF q
    <3> QED
      BY <2>1, <3>1
  <2>4. b \in EverLinked => q \in EverLinked
    BY <1>1, <2>1 DEF EverLinkedInv
  <2> HIDE DEF q
  <2>5. Len(branch'[b]) = Len(branch[q]) + 1 /\ \A i \in 1..Len(branch[q]) : branch'[b][i] = branch[q][i]
    BY <1>2, <1>5, <2>3
  <2>6. ReceiveBlock(b, q)
    BY <1>2 DEF q
  <2> QED
    BY <1>1, <1>2, <1>3, <1>4, <1>5, <2>2, <2>4, <2>5, <2>6, ReceiveKeepsInv DEF TypeOK
<1> QED
    BY <1>6, <1>7

\* Nothing waits in mapUnlinkedBlocks, so one round empties the queue.
LEMMA LinkBlockQueue ==
    ASSUME IInv, LinkBlock
    PROVE  queue' = <<>> /\ pc' = "find" /\ mapUnlinkedBlocks' = {}
<1>1. /\ mapUnlinkedBlocks = {} /\ pc = "link" /\ Len(queue) = 1 /\ queue \in Seq(Hash)
    BY DEF IInv, StatusInv, LinkedInv, TypeOK, LinkBlock
<1> DEFINE kids == {pair \in mapUnlinkedBlocks : pair[1] = Head(queue)}
<1>2. kids = {}
    BY <1>1
<1>3. Cardinality(kids) = 0
    BY <1>2, FS_EmptySet
<1>4. PICK order : queue' = Tail(queue) \o [i \in 1..Cardinality(kids) |-> order[i][2]]
    BY DEF LinkBlock
<1>5. [i \in 1..Cardinality(kids) |-> order[i][2]] = <<>>
  <2> DEFINE e(i) == order[i][2]
             f == [i \in 1..0 |-> e(i)]
  <2> HIDE DEF e
  <2>1. f \in Seq({}) /\ Len(f) = 0
    OBVIOUS
  <2>2. f = <<>>
    BY <2>1, EmptySeq
  <2> QED
    BY <1>3, <2>2 DEF e
<1>6. Tail(queue) = <<>>
  <2>1. Tail(queue) \in Seq(Hash) /\ Len(Tail(queue)) = 0
    BY <1>1, HeadTailProperties
  <2> QED
    BY <2>1, EmptySeq
<1>7. queue' = <<>>
  <2>1. <<>> \o <<>> = <<>>
    OBVIOUS
  <2> HIDE DEF kids
  <2> QED
    BY <1>4, <1>5, <1>6, <2>1
<1> QED
    BY <1>1, <1>7 DEF LinkBlock

LEMMA LinkBlockInv ==
    ASSUME IInv, LinkBlock
    PROVE  IInv'
<1>0. PICK q : q = queue[1]
    OBVIOUS
<1> DEFINE seq == [sequenceID EXCEPT ![q] = BlockSequenceIDCounter]
<1>1. TypeOK /\ TreeInv /\ WorkInv /\ ChainInv /\ StatusInv /\ EverLinkedInv /\ LinkedInv /\ PhaseInv
    BY DEF IInv
<1>2. queue' = <<>> /\ pc' = "find" /\ mapUnlinkedBlocks' = {}
    BY LinkBlockQueue
<1>3. pc = "link"
    BY DEF LinkBlock
<1>4. /\ Len(queue) = 1 /\ q \in mapBlockIndex /\ q \in Hash
      /\ "HAVE_DATA" \in status[q]
      /\ \A i \in 1..Len(branch[q]) - 1 : branch[q][i] \in EverLinked
      /\ linked = EverLinked \ {q}
    BY <1>0, <1>1, <1>3 DEF LinkedInv, TypeOK
<1>5. Head(queue) = q
    BY <1>0, <1>1, <1>4 DEF TypeOK
<1>6. /\ linked' = linked \cup {q}
      /\ sequenceID' = seq
      /\ BlockSequenceIDCounter' = BlockSequenceIDCounter + 1
      /\ IF chain = <<>> \/ ~Less(seq, q, Tip)
           THEN blockIndexCandidates' \in InsertCandidate(seq, blockIndexCandidates, q)
           ELSE UNCHANGED blockIndexCandidates
      /\ UNCHANGED <<mapBlockIndex, branch, chainWork, status, chain, mostWork, oldTip, height, toConnect>>
    BY <1>5 DEF LinkBlock, indexVars, stepVars
<1>7. BlockSequenceIDCounter \in Nat /\ BlockSequenceIDCounter # 0 /\ sequenceID \in [Hash -> Nat]
    BY <1>1 DEF TypeOK
<1>8. /\ seq[q] = BlockSequenceIDCounter
      /\ \A h \in Hash : h # q => seq[h] = sequenceID[h]
      /\ seq \in [Hash -> Nat]
    BY <1>4, <1>7
<1> HIDE DEF seq
<1>9. EverLinked' = EverLinked \cup {q}
    BY <1>4, <1>6, <1>7, <1>8 DEF EverLinked
<1>10. EverLinked \subseteq Hash /\ EverLinked \subseteq mapBlockIndex /\ Tip' = Tip
    BY <1>1, <1>6 DEF EverLinkedInv, EverLinked, Tip
<1>11. TreeInv' /\ WorkInv' /\ ChainInv'
    BY <1>1, <1>6 DEF TreeInv, WorkInv, ChainInv
<1>12. StatusInv'
    BY <1>1, <1>2, <1>6 DEF StatusInv
<1>13. EverLinkedInv'
  <2>1. EverLinked' \subseteq mapBlockIndex' /\ \A h \in EverLinked' : "HAVE_DATA" \in status'[h]
    BY <1>1, <1>4, <1>6, <1>9 DEF EverLinkedInv
  <2>2. ASSUME NEW h \in EverLinked', NEW i \in 1..Len(branch'[h]) PROVE branch'[h][i] \in EverLinked'
    <3>1. CASE h \in EverLinked
      BY <1>1, <1>6, <1>9, <2>2, <3>1 DEF EverLinkedInv
    <3>2. CASE h = q
      <4>1. Len(branch[q]) \in Nat /\ branch[q][Len(branch[q])] = q
        BY <1>1, <1>4, BranchFacts
      <4>2. i = Len(branch[q]) \/ i \in 1..Len(branch[q]) - 1
        BY <1>6, <2>2, <3>2, <4>1
      <4> QED
        BY <1>4, <1>6, <1>9, <3>2, <4>1, <4>2
    <3> QED
      BY <1>9, <3>1, <3>2
  <2>3. \A h \in Hash : sequenceID'[h] < BlockSequenceIDCounter'
    BY <1>1, <1>6, <1>7, <1>8 DEF EverLinkedInv
  <2>4. ASSUME NEW g \in EverLinked', NEW h \in EverLinked', sequenceID'[g] = sequenceID'[h]
        PROVE  g = h
    <3>1. g \in Hash /\ h \in Hash
      BY <1>4, <1>9, <1>10
    <3>2. \A x \in Hash : x # q => seq[x] # BlockSequenceIDCounter
      BY <1>1, <1>7, <1>8 DEF EverLinkedInv
    <3>3. CASE g = q \/ h = q
      BY <1>6, <1>8, <2>4, <3>1, <3>2, <3>3
    <3>4. CASE g # q /\ h # q
      <4>1. g \in EverLinked /\ h \in EverLinked /\ sequenceID[g] = sequenceID[h]
        BY <1>6, <1>8, <1>9, <2>4, <3>1, <3>4
      <4> QED
        BY <1>1, <4>1 DEF EverLinkedInv
    <3> QED
      BY <3>3, <3>4
  <2> QED
    BY <2>1, <2>2, <2>3, <2>4 DEF EverLinkedInv
<1>14. LinkedInv'
    BY <1>2, <1>4, <1>6, <1>9 DEF LinkedInv
<1>15. PhaseInv' /\ blockIndexCandidates' \in Seq(Hash)
  <2>1. Settled /\ (chain = <<>> => mapBlockIndex = {Genesis})
    BY <1>1, <1>3 DEF PhaseInv
  <2>2. CASE chain = <<>>
    <3>1. EverLinked = {} /\ blockIndexCandidates = <<>> /\ q = Genesis
      BY <1>4, <2>1, <2>2 DEF Settled
    <3>2. blockIndexCandidates' = <<q>>
      BY <1>4, <1>6, <2>2, <3>1, InsertIntoEmpty
    <3>3. Tip' = NULL /\ q \in EverLinked' /\ OnlyBetter(q, Tip)'
      BY <1>6, <1>9, <2>2, <3>1 DEF Tip, OnlyBetter
    <3>4. PhaseInv'
      BY <1>2, <1>6, <2>1, <2>2, <3>2, <3>3 DEF PhaseInv
    <3>5. <<q>> \in Seq(Hash)
      BY <1>4, ShortSeqs
    <3> QED
      BY <3>2, <3>4, <3>5
  <2>3. CASE chain # <<>>
    <3>0. PICK t : t = Tip
      OBVIOUS
    <3>1. /\ t \in EverLinked /\ t \in Hash /\ blockIndexCandidates = <<t>>
          /\ \A h \in EverLinked : chainWork[h] <= chainWork[t]
      BY <1>10, <2>1, <2>3, <3>0 DEF Settled
    <3>2. chainWork[t] \in Nat /\ chainWork[q] \in Nat
      BY <1>1, <1>4, <3>1 DEF TypeOK
    <3>3. q # t => seq[q] > seq[t]
      BY <1>1, <1>4, <1>7, <1>8, <3>1 DEF EverLinkedInv
    <3>4. <<t>> \in Seq(Hash) /\ <<t, q>> \in Seq(Hash)
      BY <1>4, <3>1, ShortSeqs
    <3>5. CASE chainWork[q] <= chainWork[t]
      <4>1. blockIndexCandidates' = <<t>>
        <5>1. CASE q = t
          <6>1. ~Less(seq, t, t)
            BY <1>8, <3>1, <3>2 DEF Less
          <6>2. InsertCandidate(seq, <<t>>, t) = {<<t>>}
            BY <3>1, <6>1, InsertIntoOne
          <6> QED
            BY <1>6, <2>3, <3>0, <3>1, <5>1, <6>1, <6>2
        <5>2. CASE q # t
          <6>1. Less(seq, q, t)
            BY <3>2, <3>3, <3>5, <5>2 DEF Less
          <6> QED
            BY <1>6, <2>3, <3>0, <3>1, <6>1
        <5> QED
          BY <5>1, <5>2
      <4>2. Settled'
        BY <1>6, <1>9, <1>10, <2>3, <3>0, <3>1, <3>5, <4>1 DEF Settled
      <4>3. PhaseInv'
        BY <1>2, <1>6, <2>3, <4>2 DEF PhaseInv
      <4> QED
        BY <3>4, <4>1, <4>3
    <3>6. CASE chainWork[q] > chainWork[t]
      <4>1. ~Less(seq, q, t) /\ Less(seq, t, q)
        BY <3>2, <3>6 DEF Less
      <4>2. InsertCandidate(seq, <<t>>, q) = {<<t, q>>}
        BY <1>4, <3>1, <4>1, InsertIntoOne
      <4>3. blockIndexCandidates' = <<t, q>>
        BY <1>6, <2>3, <3>0, <3>1, <4>1, <4>2
      <4>4. t # NULL
        BY <3>1, HashAssumption
      <4>5. OnlyBetter(q, t)'
        BY <1>6, <1>9, <1>10, <3>1, <3>2, <3>6, <4>4 DEF OnlyBetter
      <4>6. OnlyBetter(q, Tip)' /\ q \in EverLinked' /\ blockIndexCandidates' = <<Tip', q>>
        BY <1>9, <1>10, <3>0, <4>3, <4>5
      <4>7. PhaseInv'
        BY <1>2, <1>6, <2>3, <4>6 DEF PhaseInv
      <4> QED
        BY <3>4, <4>3, <4>7
    <3> QED
      BY <3>2, <3>5, <3>6
  <2> QED
    BY <2>2, <2>3
<1>16. TypeOK'
  <2>1. linked' \subseteq Hash /\ queue' \in Seq(Hash)
    <3>1. linked \subseteq Hash
      BY <1>1 DEF TypeOK
    <3>2. <<>> \in Seq(Hash)
      OBVIOUS
    <3> QED
      BY <1>2, <1>4, <1>6, <3>1, <3>2, Zenon
  <2>2. BlockSequenceIDCounter' \in Nat \ {0} /\ sequenceID' \in [Hash -> Nat]
    BY <1>6, <1>7, <1>8
  <2> QED
    BY <1>1, <1>2, <1>6, <1>15, <2>1, <2>2 DEF TypeOK
<1> QED
    BY <1>11, <1>12, <1>13, <1>14, <1>15, <1>16 DEF IInv

\* A linked block can always be activated: findMostWorkBlockIndex finds
\* nothing to complain about on its branch.
LEMMA EverLinkedIsUsable ==
    ASSUME TypeOK, StatusInv, EverLinkedInv, NEW new \in EverLinked
    PROVE  Unusable(new) = {}
<1>1. new \in Hash /\ branch[new] \in Seq(Hash)
    BY DEF EverLinked, TypeOK
<1>2. DOMAIN branch[new] = 1..Len(branch[new])
    BY <1>1
<1>3. ASSUME NEW i \in DOMAIN branch[new]
      PROVE  IsValid(branch[new][i]) /\ "HAVE_DATA" \in status[branch[new][i]]
  <2>1. branch[new][i] \in EverLinked /\ branch[new][i] \in Hash
    BY <1>1, <1>2 DEF EverLinkedInv, EverLinked
  <2> QED
    BY <2>1 DEF EverLinkedInv, StatusInv, IsValid
<1> QED
    BY <1>3 DEF Unusable, NotInChain

\* A block with more work than the tip is not in the chain.
LEMMA ForkBelowBetter ==
    ASSUME TypeOK, TreeInv, WorkInv, ChainInv, NEW new \in mapBlockIndex,
           chain # <<>> => chainWork[Tip] < chainWork[new]
    PROVE  FindFork(new) < Len(branch[new])
<1>1. new \in Hash /\ Len(branch[new]) \in Nat \ {0} /\ branch[new][Len(branch[new])] = new
    BY BranchFacts
<1>2. /\ FindFork(new) \in 0..Len(branch[new]) /\ FindFork(new) <= Len(chain)
      /\ FindFork(new) > 0 => chain[FindFork(new)] = branch[new][FindFork(new)]
    BY <1>1, FindForkFacts
<1>3. chain \in Seq(Hash)
    BY DEF TypeOK
<1>4. CASE chain = <<>>
    BY <1>1, <1>2, <1>4
<1>5. CASE chain # <<>>
  <2> DEFINE t == chain[Len(chain)]
  <2>1. t \in mapBlockIndex /\ chain = branch[t] /\ t = Tip
    BY <1>3, <1>5 DEF ChainInv, Tip, Last
  <2> HIDE DEF t
  <2>2. chainWork[t] \in Nat /\ chainWork[new] \in Nat /\ chainWork[t] < chainWork[new]
    BY <1>5, <2>1, BranchFacts
  <2>3. SUFFICES ASSUME FindFork(new) = Len(branch[new]) PROVE FALSE
    BY <1>1, <1>2
  <2>4. Len(branch[new]) \in 1..Len(branch[t]) /\ branch[t][Len(branch[new])] = new
    BY <1>1, <1>2, <1>3, <2>1, <2>3
  <2>5. CASE Len(branch[new]) = Len(branch[t])
    BY <2>1, <2>2, <2>4, <2>5, BranchFacts
  <2>6. CASE Len(branch[new]) # Len(branch[t])
    <3>1. Len(branch[new]) \in 1..Len(branch[t]) - 1
      BY <1>1, <1>3, <2>1, <2>4, <2>6
    <3>2. chainWork[branch[t][Len(branch[new])]] < chainWork[t]
      BY <2>1, <3>1 DEF WorkInv
    <3> QED
      BY <2>2, <2>4, <3>2
  <2> QED
    BY <2>5, <2>6
<1> QED
    BY <1>4, <1>5

LEMMA FindMostWorkInv ==
    ASSUME IInv, FindMostWork
    PROVE  IInv'
<1>1. TypeOK /\ TreeInv /\ WorkInv /\ ChainInv /\ StatusInv /\ EverLinkedInv /\ LinkedInv /\ PhaseInv
    BY DEF IInv
<1>2. /\ pc = "find"
      /\ UNCHANGED <<mapBlockIndex, branch, chainWork, linked, sequenceID,
                     BlockSequenceIDCounter, chain, queue>>
    BY DEF FindMostWork, indexVars
<1>3. TreeInv' /\ WorkInv' /\ ChainInv' /\ EverLinked' = EverLinked /\ Tip' = Tip
    BY <1>1, <1>2, SMTT(30) DEF TreeInv, WorkInv, ChainInv, EverLinked, Tip
<1>4. chain = <<>> => mapBlockIndex = {Genesis}
    BY <1>1, <1>2 DEF PhaseInv
<1>5. EverLinked \subseteq Hash /\ EverLinked \subseteq mapBlockIndex
    BY <1>1 DEF EverLinkedInv, EverLinked
<1>6. CASE Settled /\ chain # <<>>
  <2>1. Tip \in EverLinked /\ blockIndexCandidates = <<Tip>>
    BY <1>6 DEF Settled
  <2>2. Last(blockIndexCandidates) = Tip /\ blockIndexCandidates # <<>>
    BY <2>1 DEF Last
  <2>3. Unusable(Tip) = {}
    BY <1>1, <2>1, EverLinkedIsUsable
  <2>4. /\ pc' = "idle"
        /\ UNCHANGED <<status, mapUnlinkedBlocks, blockIndexCandidates, stepVars>>
    BY <2>2, <2>3 DEF FindMostWork
  <2>5. Settled'
    BY <1>2, <1>3, <1>6, <2>4 DEF Settled
  <2>6. TypeOK' /\ StatusInv' /\ EverLinkedInv' /\ LinkedInv'
    BY <1>1, <1>2, <1>3, <2>4 DEF TypeOK, StatusInv, EverLinkedInv, LinkedInv, stepVars
  <2>7. PhaseInv'
    BY <1>2, <1>6, <2>4, <2>5 DEF PhaseInv
  <2> QED
    BY <1>3, <2>6, <2>7 DEF IInv
<1>7. ASSUME NEW new \in EverLinked, OnlyBetter(new, Tip),
             blockIndexCandidates = IF chain = <<>> THEN <<new>> ELSE <<Tip, new>>
      PROVE  IInv'
  <2>1. Last(blockIndexCandidates) = new /\ blockIndexCandidates # <<>>
    BY <1>7 DEF Last
  <2>2. Unusable(new) = {}
    BY <1>1, EverLinkedIsUsable
  <2>3. new \in Hash /\ new # NULL /\ new \in mapBlockIndex
    BY <1>5, HashAssumption
  <2>4. chain # <<>> => Tip \in Hash /\ Tip # NULL
    BY <1>1, HashAssumption DEF ChainInv, Tip, Last, TypeOK
  <2>5. chain = <<>> => Tip = NULL
    BY DEF Tip
  <2>6. chain # <<>> => chainWork[Tip] < chainWork[new]
    BY <1>7, <2>4 DEF OnlyBetter
  <2>7. chainWork[new] \in Nat
    BY <1>1, <2>3 DEF TypeOK
  <2>8. new # Tip
    BY <2>3, <2>5, <2>6, <2>7
  <2>9. StartActivateStep(new)
    BY <2>1, <2>2, <2>8 DEF FindMostWork
  <2>10. /\ mostWork' = new /\ oldTip' = Tip /\ height' = FindFork(new) /\ pc' = "disconnect"
         /\ UNCHANGED <<status, mapUnlinkedBlocks, blockIndexCandidates, toConnect>>
    BY <2>9 DEF StartActivateStep
  <2>11. FindFork(new) \in Nat /\ FindFork(new) < Len(branch[new])
    BY <1>1, <2>3, <2>6, ForkBelowBetter, FindForkFacts
  <2>12. TypeOK'
    BY <1>1, <1>2, <2>3, <2>4, <2>5, <2>10, <2>11 DEF TypeOK
  <2>13. StatusInv' /\ EverLinkedInv' /\ LinkedInv'
    BY <1>1, <1>2, <1>3, <2>10 DEF StatusInv, EverLinkedInv, LinkedInv
  <2>14. OnlyBetter(mostWork, oldTip)'
    BY <1>2, <1>3, <1>7, <2>10 DEF OnlyBetter
  <2>15. PhaseInv'
    <3>1. Len(branch[new]) \in Nat
      BY <1>1, <2>3, BranchFacts
    <3>2. \/ blockIndexCandidates' = <<mostWork'>>
          \/ oldTip' # NULL /\ blockIndexCandidates' = <<oldTip', mostWork'>>
      BY <1>7, <2>4, <2>10
    <3>3. height' < Len(branch'[mostWork']) /\ height' <= Len(branch'[mostWork'])
      BY <1>2, <2>10, <2>11, <3>1
    <3> QED
      BY <2>10, <2>14, <3>2, <3>3 DEF PhaseInv
  <2> QED
    BY <1>3, <2>12, <2>13, <2>15 DEF IInv
<1> QED
    BY <1>1, <1>2, <1>6, <1>7 DEF PhaseInv

LEMMA DisconnectTipInv ==
    ASSUME IInv, DisconnectTip
    PROVE  IInv'
<1>1. TypeOK /\ TreeInv /\ WorkInv /\ ChainInv /\ StatusInv /\ EverLinkedInv /\ LinkedInv /\ PhaseInv
    BY DEF IInv
<1>2. /\ pc = "disconnect" /\ chain # <<>> /\ chain' = SetTip(PPrev(Tip))
      /\ UNCHANGED <<mapBlockIndex, branch, chainWork, status, linked, sequenceID,
                     blockIndexCandidates, mapUnlinkedBlocks, BlockSequenceIDCounter, pc, queue,
                     mostWork, oldTip, height, toConnect>>
    BY DEF DisconnectTip, MustDisconnect, indexVars, stepVars
<1>3. Tip \in mapBlockIndex
    BY <1>1, <1>2 DEF ChainInv, Tip, Last
<1>4. PPrev(Tip) = NULL \/ PPrev(Tip) \in mapBlockIndex
  <2> DEFINE n == Len(branch[Tip])
  <2>1. n \in Nat /\ n # 0 /\ \A i \in 1..n : branch[Tip][i] \in mapBlockIndex
    BY <1>1, <1>3, BranchFacts
  <2>2. n # 1 => n - 1 \in 1..n
    <3> HIDE DEF n
    <3> QED
      BY <2>1
  <2> QED
    BY <2>1, <2>2 DEF PPrev
<1>5. \/ chain' = <<>>
      \/ \E h \in mapBlockIndex : chain' = branch[h]
    BY <1>1, <1>2, <1>4, SetTipIsBranch DEF SetTip
<1>6. chain' \in Seq(Hash) /\ ChainInv'
  <2>1. CASE chain' = <<>>
    BY <2>1 DEF ChainInv
  <2>2. CASE \E h \in mapBlockIndex : chain' = branch[h]
    BY <1>1, <1>2, <2>2, BranchFacts DEF ChainInv
  <2> QED
    BY <1>5, <2>1, <2>2
<1>7. TypeOK'
    BY <1>1, <1>2, <1>6 DEF TypeOK
<1>8. EverLinked' = EverLinked
    BY <1>2 DEF EverLinked
<1>9. TreeInv' /\ WorkInv' /\ StatusInv' /\ EverLinkedInv' /\ LinkedInv'
  <2>1. TreeInv' /\ WorkInv'
    BY <1>1, <1>2 DEF TreeInv, WorkInv
  <2>2. StatusInv' /\ EverLinkedInv'
    BY <1>1, <1>2, <1>8 DEF StatusInv, EverLinkedInv
  <2>3. LinkedInv'
    BY <1>1, <1>2, <1>8 DEF LinkedInv
  <2> QED
    BY <2>1, <2>2, <2>3
<1>10. PhaseInv'
  <2>1. OnlyBetter(mostWork, oldTip)'
    BY <1>1, <1>2, <1>8 DEF PhaseInv, OnlyBetter
  <2> QED
    BY <1>1, <1>2, <2>1 DEF PhaseInv
<1> QED
    BY <1>6, <1>7, <1>9, <1>10 DEF IInv

\* The list of a connect round: entries of the branch, the highest one first.
LEMMA ConnectListFacts ==
    ASSUME NEW br \in Seq(Hash), NEW lo \in Nat, NEW hi \in Nat, lo < hi, hi <= Len(br)
    PROVE  LET s == Reverse(SubSeq(br, lo + 1, hi)) IN
           /\ s \in Seq(Hash) /\ s # <<>> /\ Len(s) = hi - lo
           /\ s[1] = br[hi]
           /\ \A i \in 1..Len(s) : \E k \in 1..Len(br) : s[i] = br[k]
<1> DEFINE u == SubSeq(br, lo + 1, hi)
           s == Reverse(u)
           n == hi - lo
<1>1. Len(br) \in Nat /\ \A i \in 1..Len(br) : br[i] \in Hash
    OBVIOUS
<1>2. \A i \in lo + 1..hi : i \in 1..Len(br) /\ br[i] \in Hash
    BY <1>1
<1>3. n \in Nat /\ n >= 1 /\ hi - (lo + 1) + 1 = n
    OBVIOUS
<1>4. lo + 1 \in Int /\ hi \in Int /\ lo + 1 <= hi
    OBVIOUS
<1>5. /\ u \in Seq(Hash) /\ Len(u) = hi - (lo + 1) + 1
      /\ \A i \in 1..hi - (lo + 1) + 1 : u[i] = br[lo + 1 + i - 1]
    BY <1>2, <1>4, SubSeqProperties
<1>6. u \in Seq(Hash) /\ Len(u) = n /\ \A i \in 1..n : u[i] = br[lo + i]
  <2>1. \A i \in 1..n : lo + 1 + i - 1 = lo + i
    OBVIOUS
  <2> HIDE DEF u
  <2> QED
    BY <1>3, <1>5, <2>1
<1> HIDE DEF u
<1>7. s = [i \in 1..Len(u) |-> u[(Len(u) - i) + 1]]
    BY DEF Reverse
<1>8. \A i \in 1..n : (n - i) + 1 \in 1..n /\ lo + ((n - i) + 1) = hi - i + 1 /\ hi - i + 1 \in 1..Len(br)
    BY <1>1, <1>3
<1> HIDE DEF n, s
<1>9. s = [i \in 1..n |-> br[hi - i + 1]]
    BY <1>6, <1>7, <1>8
<1>10. \A i \in 1..n : br[hi - i + 1] \in Hash
    BY <1>1, <1>8
<1>11. s \in Seq(Hash) /\ Len(s) = n
    BY <1>3, <1>9, <1>10
<1>12. s # <<>> /\ s[1] = br[hi]
  <2>1. 1 \in 1..n /\ hi - 1 + 1 = hi
    BY <1>3
  <2> QED
    BY <1>3, <1>9, <1>11, <2>1
<1>13. \A i \in 1..Len(s) : \E k \in 1..Len(br) : s[i] = br[k]
    BY <1>8, <1>9, <1>11
<1>14. n = hi - lo
    BY DEF n
<1> QED
    BY <1>11, <1>12, <1>13, <1>14 DEF s, u

LEMMA BuildConnectListInv ==
    ASSUME IInv, BuildConnectList
    PROVE  IInv'
<1>1. TypeOK /\ TreeInv /\ WorkInv /\ ChainInv /\ StatusInv /\ EverLinkedInv /\ LinkedInv /\ PhaseInv
    BY DEF IInv
<1>2. /\ pc \in {"disconnect", "batch"}
      /\ UNCHANGED <<mapBlockIndex, branch, chainWork, status, linked, sequenceID,
                     blockIndexCandidates, mapUnlinkedBlocks, BlockSequenceIDCounter, chain,
                     queue, mostWork, oldTip>>
    BY DEF BuildConnectList, indexVars
<1>3. /\ height < Len(branch[mostWork]) /\ OnlyBetter(mostWork, oldTip)
      /\ \/ blockIndexCandidates = <<mostWork>>
         \/ oldTip # NULL /\ blockIndexCandidates = <<oldTip, mostWork>>
    BY <1>1, <1>2 DEF PhaseInv
<1>4. mostWork \in mapBlockIndex
    BY <1>1, <1>3 DEF OnlyBetter, EverLinkedInv
<1>5. branch[mostWork] \in Seq(Hash) /\ Len(branch[mostWork]) \in Nat /\ height \in Nat
    BY <1>1, <1>4, BranchFacts DEF TypeOK
<1> DEFINE br == branch[mostWork]
           targetHeight == IF height + Batch < Len(br) THEN height + Batch ELSE Len(br)
<1>6. height # Len(br)
    BY <1>3, <1>5
<1>7. /\ toConnect' = Reverse(SubSeq(br, height + 1, targetHeight))
      /\ height' = targetHeight
      /\ pc' = "connect"
    BY <1>6 DEF BuildConnectList
<1>8. targetHeight \in Nat /\ height < targetHeight /\ targetHeight <= Len(br)
    BY <1>3, <1>5, BatchAssumption
<1>9. branch[mostWork][Len(branch[mostWork])] = mostWork
    BY <1>1, <1>4, BranchFacts
<1> HIDE DEF targetHeight
<1>10. /\ toConnect' \in Seq(Hash) /\ toConnect' # <<>>
       /\ toConnect'[1] = br[targetHeight]
       /\ \A i \in 1..Len(toConnect') : \E k \in 1..Len(br) : toConnect'[i] = br[k]
  <2>1. PICK s : s = Reverse(SubSeq(br, height + 1, targetHeight))
    OBVIOUS
  <2>2. /\ s \in Seq(Hash) /\ s # <<>>
        /\ s[1] = br[targetHeight]
        /\ \A i \in 1..Len(s) : \E k \in 1..Len(br) : s[i] = br[k]
    BY <1>5, <1>8, <2>1, ConnectListFacts, ZenonT(60)
  <2>3. toConnect' = s
    BY <1>7, <2>1
  <2> QED
    BY <2>2, <2>3, Zenon
<1>11. TypeOK'
    BY <1>1, <1>2, <1>7, <1>8, <1>10 DEF TypeOK
<1>12. EverLinked' = EverLinked
    BY <1>2 DEF EverLinked
<1>13. TreeInv' /\ WorkInv' /\ ChainInv'
    BY <1>1, <1>2 DEF TreeInv, WorkInv, ChainInv
<1>14. StatusInv' /\ EverLinkedInv'
    BY <1>1, <1>2, <1>12 DEF StatusInv, EverLinkedInv
<1>15. LinkedInv'
    BY <1>1, <1>2, <1>7, <1>12 DEF LinkedInv
<1>16. PhaseInv'
  <2>1. OnlyBetter(mostWork, oldTip)'
    BY <1>2, <1>3, <1>12 DEF OnlyBetter
  <2>2. height' <= Len(branch'[mostWork'])
    BY <1>2, <1>7, <1>8
  <2>3. height' = Len(branch'[mostWork']) => toConnect'[1] = mostWork'
    BY <1>2, <1>7, <1>9, <1>10
  <2>4. \A i \in 1..Len(toConnect') :
            \E k \in 1..Len(branch'[mostWork']) : toConnect'[i] = branch'[mostWork'][k]
    BY <1>2, <1>10
  <2> QED
    BY <1>2, <1>3, <1>7, <1>10, <2>1, <2>2, <2>3, <2>4 DEF PhaseInv
<1> QED
    BY <1>11, <1>13, <1>14, <1>15, <1>16 DEF IInv

\* What connectTip does: the new chain is a branch, the best candidate stays,
\* and the step goes on exactly until that candidate is the tip.
LEMMA ConnectTipFacts ==
    ASSUME IInv, ConnectTip
    PROVE  LET b == toConnect[1] IN
           /\ b \in EverLinked /\ mostWork \in EverLinked
           /\ chain' = branch[b]
           /\ b = mostWork => /\ pc' = "idle"
                              /\ blockIndexCandidates' = <<mostWork>>
                              /\ toConnect' = <<>>
           /\ b # mostWork => /\ pc' = IF Len(toConnect) = 1 THEN "batch" ELSE "connect"
                              /\ toConnect' = Tail(toConnect)
                              /\ \/ blockIndexCandidates' = <<mostWork>>
                                 \/ oldTip # NULL /\ blockIndexCandidates' = <<oldTip, mostWork>>
<1> DEFINE b == toConnect[1]
<1>1. TypeOK /\ TreeInv /\ WorkInv /\ ChainInv /\ EverLinkedInv /\ PhaseInv
    BY DEF IInv
<1>2. pc = "connect"
    BY DEF ConnectTip
<1>3. /\ OnlyBetter(mostWork, oldTip)
      /\ \/ blockIndexCandidates = <<mostWork>>
         \/ oldTip # NULL /\ blockIndexCandidates = <<oldTip, mostWork>>
      /\ toConnect # <<>> /\ toConnect \in Seq(Hash)
      /\ \A i \in 1..Len(toConnect) :
            \E k \in 1..Len(branch[mostWork]) : toConnect[i] = branch[mostWork][k]
    BY <1>1, <1>2 DEF PhaseInv, TypeOK
<1>4. Head(toConnect) = b /\ 1 \in 1..Len(toConnect)
    BY <1>3
<1>5. mostWork \in EverLinked /\ mostWork \in Hash
    BY <1>3 DEF OnlyBetter, EverLinked
<1>6. b \in EverLinked /\ b \in mapBlockIndex /\ b \in Hash
  <2>1. PICK k \in 1..Len(branch[mostWork]) : b = branch[mostWork][k]
    BY <1>3, <1>4
  <2>2. b \in EverLinked
    BY <1>1, <1>5, <2>1 DEF EverLinkedInv
  <2> HIDE DEF b
  <2> QED
    BY <1>1, <2>2 DEF EverLinkedInv, EverLinked
<1>7. /\ chain' = SetTip(b)
      /\ blockIndexCandidates' = PruneBlockIndexCandidates(blockIndexCandidates, b)
      /\ IF oldTip = NULL \/ chainWork[b] > chainWork[oldTip]
           THEN pc' = AfterStep(b) /\ toConnect' = <<>>
           ELSE /\ pc' = IF Len(toConnect) = 1 THEN "batch" ELSE "connect"
                /\ toConnect' = Tail(toConnect)
    BY <1>4 DEF ConnectTip
<1> HIDE DEF b
<1>8. chain' = branch[b]
    BY <1>1, <1>6, <1>7, SetTipIsBranch
<1>9. oldTip # NULL => /\ oldTip \in EverLinked /\ oldTip \in Hash
                       /\ chainWork[oldTip] < chainWork[mostWork]
                       /\ \A h \in EverLinked : h # mostWork => chainWork[h] <= chainWork[oldTip]
    BY <1>3 DEF OnlyBetter, EverLinked
<1>10. /\ chainWork[b] \in Nat /\ chainWork[mostWork] \in Nat
       /\ oldTip # NULL => chainWork[oldTip] \in Nat
       /\ sequenceID[b] \in Nat
    BY <1>1, <1>5, <1>6, <1>9 DEF TypeOK
<1>11. CASE b = mostWork
  <2>1. pc' = "idle" /\ toConnect' = <<>>
    BY <1>7, <1>9, <1>10, <1>11 DEF AfterStep
  <2>2. ~Less(sequenceID, mostWork, b)
    BY <1>10, <1>11 DEF Less
  <2>3. oldTip # NULL => Less(sequenceID, oldTip, b)
    BY <1>9, <1>11 DEF Less
  <2>4. blockIndexCandidates' = <<mostWork>>
    BY <1>3, <1>5, <1>7, <1>9, <2>2, <2>3, PruneOne, PruneTwo
  <2> QED
    BY <1>5, <1>6, <1>8, <1>11, <2>1, <2>4 DEF b
<1>12. CASE b # mostWork
  <2>1. oldTip # NULL /\ chainWork[b] <= chainWork[oldTip]
    BY <1>3, <1>6, <1>9, <1>12 DEF OnlyBetter
  <2>2. /\ pc' = IF Len(toConnect) = 1 THEN "batch" ELSE "connect"
        /\ toConnect' = Tail(toConnect)
    BY <1>7, <1>10, <2>1
  <2>3. ~Less(sequenceID, mostWork, b)
    BY <1>9, <1>10, <2>1 DEF Less
  <2>4. \/ blockIndexCandidates' = <<mostWork>>
        \/ oldTip # NULL /\ blockIndexCandidates' = <<oldTip, mostWork>>
    BY <1>3, <1>5, <1>7, <1>9, <2>1, <2>3, PruneOne, PruneTwo
  <2> QED
    BY <1>5, <1>6, <1>8, <1>12, <2>2, <2>4 DEF b
<1> QED
    BY <1>11, <1>12

LEMMA ConnectTipInv ==
    ASSUME IInv, ConnectTip
    PROVE  IInv'
<1>1. TypeOK /\ TreeInv /\ WorkInv /\ ChainInv /\ StatusInv /\ EverLinkedInv /\ LinkedInv /\ PhaseInv
    BY DEF IInv
<1>2. /\ pc = "connect"
      /\ UNCHANGED <<mapBlockIndex, branch, chainWork, status, linked, sequenceID,
                     mapUnlinkedBlocks, BlockSequenceIDCounter, queue, mostWork, oldTip, height>>
    BY DEF ConnectTip, indexVars
<1>0. PICK b : b = toConnect[1]
    OBVIOUS
<1>3. /\ b \in EverLinked /\ mostWork \in EverLinked
      /\ chain' = branch[b]
      /\ b = mostWork => /\ pc' = "idle"
                         /\ blockIndexCandidates' = <<mostWork>>
                         /\ toConnect' = <<>>
      /\ b # mostWork => /\ pc' = IF Len(toConnect) = 1 THEN "batch" ELSE "connect"
                         /\ toConnect' = Tail(toConnect)
                         /\ \/ blockIndexCandidates' = <<mostWork>>
                            \/ oldTip # NULL /\ blockIndexCandidates' = <<oldTip, mostWork>>
    BY <1>0, ConnectTipFacts
<1>4. /\ OnlyBetter(mostWork, oldTip) /\ height <= Len(branch[mostWork])
      /\ toConnect # <<>> /\ toConnect \in Seq(Hash) /\ height \in Nat
      /\ \A i \in 1..Len(toConnect) :
            \E k \in 1..Len(branch[mostWork]) : toConnect[i] = branch[mostWork][k]
      /\ height = Len(branch[mostWork]) => toConnect[1] = mostWork
    BY <1>1, <1>2 DEF PhaseInv, TypeOK
<1>5. EverLinked' = EverLinked /\ EverLinked \subseteq mapBlockIndex /\ EverLinked \subseteq Hash
    BY <1>1, <1>2 DEF EverLinked, EverLinkedInv
<1>6. /\ branch[b] \in Seq(Hash) /\ Len(branch[b]) \in Nat \ {0} /\ branch[b][Len(branch[b])] = b
      /\ b \in mapBlockIndex
    BY <1>1, <1>3, <1>5, BranchFacts
<1>7. chain' # <<>> /\ Tip' = b /\ ChainInv'
    BY <1>2, <1>3, <1>6 DEF Tip, Last, ChainInv
<1>8. /\ Tail(toConnect) \in Seq(Hash) /\ Len(Tail(toConnect)) = Len(toConnect) - 1
      /\ \A i \in 1..Len(Tail(toConnect)) : Tail(toConnect)[i] = toConnect[i + 1]
      /\ Len(toConnect) \in Nat
    BY <1>4, HeadTailProperties
<1>9. OnlyBetter(mostWork, oldTip)'
    BY <1>2, <1>4, <1>5 DEF OnlyBetter
<1>10. oldTip # NULL => oldTip \in Hash
    BY <1>1 DEF TypeOK
<1>11. TypeOK'
  <2>1. blockIndexCandidates' \in Seq(Hash)
    <3>1. <<mostWork>> \in Seq(Hash)
      BY <1>3, <1>5, ShortSeqs
    <3>2. oldTip # NULL => <<oldTip, mostWork>> \in Seq(Hash)
      BY <1>3, <1>5, <1>10, ShortSeqs
    <3> QED
      BY <1>3, <3>1, <3>2
  <2>2. toConnect' \in Seq(Hash)
    <3>1. <<>> \in Seq(Hash)
      BY EmptySeq
    <3>2. CASE b = mostWork
      BY <1>3, <3>1, <3>2, Zenon
    <3>3. CASE b # mostWork
      BY <1>3, <1>8, <3>3, Zenon
    <3> QED
      BY <3>2, <3>3
  <2>3. pc' \in {"idle", "batch", "connect"}
    BY <1>3
  <2> QED
    BY <1>1, <1>2, <1>3, <1>6, <2>1, <2>2, <2>3 DEF TypeOK
<1>12. TreeInv' /\ WorkInv'
    BY <1>1, <1>2 DEF TreeInv, WorkInv
<1>13. StatusInv' /\ EverLinkedInv'
    BY <1>1, <1>2, <1>5 DEF StatusInv, EverLinkedInv
<1>14. LinkedInv'
    BY <1>1, <1>2, <1>3, <1>5 DEF LinkedInv
<1>15. PhaseInv'
  <2>1. CASE b = mostWork
    <3>1. \A h \in EverLinked : chainWork[h] <= chainWork[b]
      <4>1. \A h \in EverLinked : chainWork[h] \in Nat
        BY <1>1, <1>5 DEF TypeOK
      <4> QED
        BY <1>3, <1>4, <2>1, <4>1 DEF OnlyBetter
    <3>2. Settled'
      BY <1>2, <1>3, <1>5, <1>7, <2>1, <3>1 DEF Settled
    <3> QED
      BY <1>3, <1>7, <2>1, <3>2 DEF PhaseInv
  <2>2. CASE b # mostWork
    <3>1. height < Len(branch[mostWork])
      <4>1. Len(branch[mostWork]) \in Nat
        BY <1>1, <1>3, <1>5, BranchFacts
      <4> QED
        BY <1>0, <1>4, <2>2, <4>1
    <3>2. height' <= Len(branch'[mostWork']) /\ height' < Len(branch'[mostWork'])
          /\ height' # Len(branch'[mostWork'])
      <4>1. Len(branch[mostWork]) \in Nat
        BY <1>1, <1>3, <1>5, BranchFacts
      <4> QED
        BY <1>2, <1>4, <3>1, <4>1
    <3>3. CASE Len(toConnect) = 1
      BY <1>2, <1>3, <1>9, <2>2, <3>2, <3>3 DEF PhaseInv
    <3>4. CASE Len(toConnect) # 1
      <4>1. toConnect' # <<>>
        BY <1>3, <1>4, <1>8, <2>2, <3>4
      <4>2. \A i \in 1..Len(toConnect') :
                \E k \in 1..Len(branch'[mostWork']) : toConnect'[i] = branch'[mostWork'][k]
        <5>1. \A i \in 1..Len(Tail(toConnect)) : i + 1 \in 1..Len(toConnect)
          BY <1>8
        <5>2. \A i \in 1..Len(Tail(toConnect)) :
                 \E k \in 1..Len(branch[mostWork]) : Tail(toConnect)[i] = branch[mostWork][k]
          <6> TAKE i \in 1..Len(Tail(toConnect))
          <6>1. PICK k \in 1..Len(branch[mostWork]) : toConnect[i + 1] = branch[mostWork][k]
            BY <1>4, <5>1
          <6>2. Tail(toConnect)[i] = branch[mostWork][k]
            BY <1>8, <6>1
          <6> QED
            BY <6>2, Zenon
        <5>3. toConnect' = Tail(toConnect) /\ branch' = branch /\ mostWork' = mostWork
          BY <1>2, <1>3, <2>2
        <5> QED
          BY <5>2, <5>3, Zenon
      <4> QED
        BY <1>2, <1>3, <1>9, <2>2, <3>2, <3>4, <4>1, <4>2 DEF PhaseInv
    <3> QED
      BY <3>3, <3>4
  <2> QED
    BY <2>1, <2>2
<1> QED
    BY <1>7, <1>11, <1>12, <1>13, <1>14, <1>15 DEF IInv

LEMMA StutterInv ==
    ASSUME IInv, UNCHANGED vars
    PROVE  IInv'
<1>0. TypeOK'
    BY DEF IInv, vars, TypeOK
<1>1. TreeInv' /\ WorkInv'
    BY DEF IInv, vars, TreeInv, WorkInv
<1>2. ChainInv' /\ StatusInv'
    BY DEF IInv, vars, ChainInv, StatusInv
<1>3. EverLinked' = EverLinked
    BY DEF vars, EverLinked
<1>4. EverLinkedInv' /\ LinkedInv'
    BY <1>3 DEF IInv, vars, EverLinkedInv, LinkedInv
<1>5. PhaseInv'
  <2>1. Tip' = Tip
    BY DEF vars, Tip
  <2>2. Settled' = Settled
    BY <1>3, <2>1 DEF vars, Settled
  <2>3. OnlyBetter(mostWork, oldTip)' = OnlyBetter(mostWork, oldTip)
    BY <1>3 DEF vars, OnlyBetter
  <2>4. ASSUME NEW new PROVE OnlyBetter(new, Tip)' = OnlyBetter(new, Tip)
    BY <1>3, <2>1 DEF vars, OnlyBetter
  <2> QED
    BY <1>3, <2>1, <2>2, <2>3, <2>4 DEF IInv, vars, PhaseInv
<1> QED
    BY <1>0, <1>1, <1>2, <1>4, <1>5 DEF IInv

LEMMA NextInv ==
    ASSUME IInv, [Next]_vars
    PROVE  IInv'
<1>1. CASE Accept
  <2>1. CASE \E b \in Hash, p \in mapBlockIndex \cup {NULL}, w \in Work, ok \in BOOLEAN :
                AcceptNewBlock(b, p, w, ok)
    BY <2>1, AcceptNewBlockInv
  <2>2. CASE \E b \in mapBlockIndex : AcceptKnownBlock(b)
    BY <2>2, AcceptKnownBlockInv
  <2>3. CASE UNCHANGED vars
    BY <2>3, StutterInv
  <2> QED
    BY <1>1, <2>1, <2>2, <2>3 DEF Accept, RejectBlock
<1>2. CASE Proceed
    BY <1>2, LinkBlockInv, FindMostWorkInv, DisconnectTipInv, BuildConnectListInv, ConnectTipInv
    DEF Proceed
<1>3. CASE UNCHANGED vars
    BY <1>3, StutterInv
<1> QED
    BY <1>1, <1>2, <1>3 DEF Next

-----------------------------------------------------------------------------
(* The theorems *)

\* acceptBlock, from its first line to the last setTip, keeps the invariant.
THEOREM Invariance == Spec => []IInv
<1>1. IInv /\ [Next]_vars => IInv'
    BY NextInv
<1> QED
    BY <1>1, InitInv, PTL DEF Spec

\* The index, the candidates, the active chain and the locals of acceptBlock
\* keep their types.
THEOREM TypeCorrect == Spec => []TypeOK
<1>1. IInv => TypeOK
    BY DEF IInv
<1> QED
    BY <1>1, Invariance, PTL

\* Between any two setTip calls the active chain is one branch of the tree from
\* the genesis block to the tip, so stopping early in setTip loses nothing.
THEOREM ChainIsBranch == Spec => []ActiveChainIsBranch
<1>1. IInv => ActiveChainIsBranch
  <2> SUFFICES ASSUME IInv, chain # <<>>
               PROVE  chain = branch[Tip] /\ chain[1] = Genesis
    BY DEF ActiveChainIsBranch
  <2>1. Tip \in mapBlockIndex /\ chain = branch[Tip]
    BY DEF IInv, ChainInv, Tip, Last
  <2>2. branch[Tip][1] = Genesis
    BY <2>1 DEF IInv, TreeInv
  <2> QED
    BY <2>1, <2>2
<1> QED
    BY <1>1, Invariance, PTL

\* When acceptBlock returns, the tip has the most work of all linked blocks and
\* is the only candidate left.
THEOREM TipIsBest == Spec => []IdleTipIsBest
<1>1. IInv => IdleTipIsBest
  <2> SUFFICES ASSUME IInv, pc = "idle", mapBlockIndex # {}
               PROVE  /\ blockIndexCandidates = <<Tip>>
                      /\ \A h \in linked : chainWork[h] <= chainWork[Tip]
    BY DEF IdleTipIsBest
  <2>1. Settled /\ chain # <<>> /\ linked = EverLinked
    BY DEF IInv, PhaseInv, LinkedInv
  <2> QED
    BY <2>1 DEF Settled
<1> QED
    BY <1>1, Invariance, PTL

\* The set of candidates stays in the order of its comparator although
\* receiveBlock changes the sequence id of entries that are in it.
THEOREM CandidatesStayOrdered == Spec => []CandidatesOrdered
<1>1. IInv => CandidatesOrdered
  <2> SUFFICES ASSUME IInv, NEW i \in DOMAIN blockIndexCandidates,
                      NEW j \in DOMAIN blockIndexCandidates, i < j
               PROVE  Less(sequenceID, blockIndexCandidates[i], blockIndexCandidates[j])
    BY DEF CandidatesOrdered
  <2>1. TypeOK /\ PhaseInv
    BY DEF IInv
  <2>2. blockIndexCandidates # <<>>
    OBVIOUS
  <2>3. ~\E a \in Hash : blockIndexCandidates = <<a>>
    BY ShortSeqs
  <2>4. \E a, b \in Hash : blockIndexCandidates = <<a, b>> /\ chainWork[a] < chainWork[b]
    <3>1. CASE pc \in {"idle", "link"}
      BY <2>1, <2>2, <2>3, <3>1 DEF PhaseInv, Settled, EverLinked
    <3>2. CASE pc = "find"
      <4>1. ~Settled
        BY <2>2, <2>3 DEF Settled, EverLinked
      <4>2. PICK new \in EverLinked :
                /\ OnlyBetter(new, Tip)
                /\ blockIndexCandidates = IF chain = <<>> THEN <<new>> ELSE <<Tip, new>>
        BY <2>1, <3>2, <4>1 DEF PhaseInv
      <4>3. new \in Hash /\ chain # <<>>
        BY <2>3, <4>2 DEF EverLinked
      <4>4. Tip \in Hash
        BY <2>1, <4>3, LenProperties DEF TypeOK, Tip, Last
      <4>5. Tip # NULL
        BY <4>4, HashAssumption
      <4> QED
        BY <4>2, <4>3, <4>4, <4>5 DEF OnlyBetter
    <3>3. CASE pc \in {"disconnect", "batch", "connect"}
      <4>1. OnlyBetter(mostWork, oldTip)
        BY <2>1, <3>3 DEF PhaseInv
      <4>2. mostWork \in Hash
        BY <4>1 DEF OnlyBetter, EverLinked
      <4>3. oldTip # NULL /\ blockIndexCandidates = <<oldTip, mostWork>>
        BY <2>1, <2>3, <3>3, <4>2 DEF PhaseInv
      <4>4. oldTip \in Hash
        BY <2>1, <4>3 DEF TypeOK
      <4> QED
        BY <4>1, <4>2, <4>3, <4>4 DEF OnlyBetter
    <3> QED
      BY <2>1, <3>1, <3>2, <3>3 DEF TypeOK
  <2>5. PICK a \in Hash, b \in Hash :
            blockIndexCandidates = <<a, b>> /\ chainWork[a] < chainWork[b]
    BY <2>4
  <2>6. i = 1 /\ j = 2
    BY <2>5
  <2> QED
    BY <2>5, <2>6, ShortSeqs DEF Less
<1> QED
    BY <1>1, Invariance, PTL

\* When findMostWorkBlockIndex runs there is a candidate, and the top one is a
\* linked block.
LEMMA TopCandidate ==
    ASSUME IInv, pc = "find"
    PROVE  /\ blockIndexCandidates # <<>>
           /\ Last(blockIndexCandidates) \in EverLinked
           /\ Unusable(Last(blockIndexCandidates)) = {}
<1>1. /\ blockIndexCandidates # <<>>
      /\ Last(blockIndexCandidates) \in EverLinked
  <2>1. CASE Settled /\ chain # <<>>
    <3>1. Tip \in EverLinked /\ blockIndexCandidates = <<Tip>>
      BY <2>1 DEF Settled
    <3>2. Last(blockIndexCandidates) = Tip /\ blockIndexCandidates # <<>>
      BY <3>1 DEF Last
    <3> QED
      BY <3>1, <3>2
  <2>2. ASSUME NEW new \in EverLinked,
               blockIndexCandidates = IF chain = <<>> THEN <<new>> ELSE <<Tip, new>>
        PROVE  blockIndexCandidates # <<>> /\ Last(blockIndexCandidates) = new
    BY <2>2 DEF Last
  <2> QED
    BY <2>1, <2>2 DEF IInv, PhaseInv
<1>2. TypeOK /\ StatusInv /\ EverLinkedInv
    BY DEF IInv
<1> QED
    BY <1>1, <1>2, EverLinkedIsUsable

\* The live checks of chain.cpp: a candidate is left after pruning, the top
\* candidate is linked and usable down to the chain, and the genesis block is
\* alone while the chain is empty.
THEOREM AssertsNeverFail == Spec => []AssertsHold
<1>1. IInv => AssertsHold
  <2> SUFFICES ASSUME IInv PROVE AssertsHold
    OBVIOUS
  <2>1. CASE pc = "find"
    <3> DEFINE new == Last(blockIndexCandidates)
    <3>1. blockIndexCandidates # <<>> /\ new \in EverLinked /\ Unusable(new) = {}
      BY <2>1, TopCandidate
    <3>2. linked = EverLinked /\ (chain = <<>> => mapBlockIndex = {Genesis})
      BY <2>1 DEF IInv, LinkedInv, PhaseInv
    <3>3. branch[new] \in Seq(Hash)
      BY <3>1 DEF IInv, TypeOK, EverLinked
    <3> HIDE DEF new
    <3>4. \A i \in NotInChain(new) : branch[new][i] \in linked
      BY <3>1, <3>2, <3>3 DEF IInv, EverLinkedInv, NotInChain
    <3> QED
      BY <2>1, <3>1, <3>2, <3>4 DEF AssertsHold, new
  <2>2. CASE pc = "idle" /\ chain # <<>>
    BY <2>2 DEF IInv, PhaseInv, Settled, AssertsHold
  <2>3. CASE pc = "batch"
    BY <2>3 DEF IInv, PhaseInv, AssertsHold
  <2> QED
    BY <2>1, <2>2, <2>3 DEF AssertsHold
<1> QED
    BY <1>1, Invariance, PTL

\* Between calls the linked blocks are those with a sequence id, no two share
\* one, and each has its data and a linked parent, whatever was received twice.
THEOREM LinkedBlocksAreComplete == Spec => []LinkedEntries
<1>1. IInv => LinkedEntries
  <2> SUFFICES ASSUME IInv, pc = "idle"
               PROVE  /\ \A h \in Hash : h \in linked <=> sequenceID[h] # 0
                      /\ \A g, h \in linked : sequenceID[g] = sequenceID[h] => g = h
                      /\ \A h \in linked : /\ "HAVE_DATA" \in status[h]
                                           /\ PPrev(h) \in linked \cup {NULL}
    BY DEF LinkedEntries
  <2>1. linked = EverLinked /\ EverLinkedInv /\ TypeOK /\ TreeInv
    BY DEF IInv, LinkedInv
  <2>2. \A h \in Hash : h \in linked <=> sequenceID[h] # 0
    BY <2>1 DEF EverLinked
  <2>3. ASSUME NEW h \in linked PROVE PPrev(h) \in linked \cup {NULL}
    <3> DEFINE n == Len(branch[h])
    <3>1. n \in Nat \ {0}
      BY <2>1, BranchFacts DEF EverLinkedInv
    <3>2. n # 1 => n - 1 \in 1..n
      <4> HIDE DEF n
      <4> QED
        BY <3>1
    <3> QED
      BY <2>1, <3>2 DEF PPrev, EverLinkedInv
  <2> QED
    BY <2>1, <2>2, <2>3 DEF EverLinkedInv
<1> QED
    BY <1>1, Invariance, PTL

\* A step of activateBestChain that returns has a tip with more work than the
\* tip it started from.
THEOREM ActivationImproves == Spec => StepsImprove
<1> DEFINE Improves ==
        (pc \in {"batch", "connect"} /\ pc' \in {"find", "idle"} /\ oldTip # NULL)
            => chainWork[oldTip] < chainWork[Tip']
<1>1. IInv /\ [Next]_vars => [Improves]_vars
  <2> SUFFICES ASSUME IInv, Next, pc \in {"batch", "connect"}, pc' \in {"find", "idle"},
                      oldTip # NULL
               PROVE  chainWork[oldTip] < chainWork[Tip']
    BY DEF vars
  <2>1. CASE BuildConnectList
    <3>1. pc = "batch" /\ height # Len(branch[mostWork])
      <4>1. pc = "batch"
        BY <2>1 DEF BuildConnectList
      <4>2. height \in Nat /\ height < Len(branch[mostWork])
        BY <4>1 DEF IInv, PhaseInv, TypeOK
      <4>3. Len(branch[mostWork]) \in Nat
        BY <4>1, BranchFacts DEF IInv, PhaseInv, OnlyBetter, EverLinkedInv
      <4> QED
        BY <4>1, <4>2, <4>3
    <3> QED
      BY <2>1, <3>1 DEF BuildConnectList
  <2>2. CASE ConnectTip
    <3>0. PICK b : b = toConnect[1]
      OBVIOUS
    <3>1. /\ b \in EverLinked /\ chain' = branch[b]
          /\ b # mostWork => pc' \in {"batch", "connect"}
      BY <2>2, <3>0, ConnectTipFacts
    <3>2. b = mostWork
      BY <3>1
    <3>3. chainWork[oldTip] < chainWork[mostWork]
      BY <2>2 DEF ConnectTip, IInv, PhaseInv, OnlyBetter
    <3>4. /\ b \in mapBlockIndex /\ TypeOK /\ TreeInv
      BY <3>1 DEF IInv, EverLinkedInv
    <3>5. Len(branch[b]) \in Nat \ {0} /\ branch[b][Len(branch[b])] = b
      BY <3>4, BranchFacts
    <3>6. Tip' = b
      BY <3>1, <3>5 DEF Tip, Last
    <3> QED
      BY <3>2, <3>3, <3>6
  <2>3. CASE ~BuildConnectList /\ ~ConnectTip
    BY <2>3 DEF Next, Accept, Proceed, AcceptNewBlock, AcceptKnownBlock, RejectBlock, LinkBlock,
                FindMostWork, DisconnectTip
  <2> QED
    BY <2>1, <2>2, <2>3
<1>2. Spec => [][Improves]_vars
    BY <1>1, Invariance, PTL DEF Spec
<1> QED
    BY <1>2 DEF StepsImprove

-----------------------------------------------------------------------------
(* Refinement of ForkChoice *)

\* Every step but LinkBlock leaves the linked blocks, their parents, their work
\* and the top candidate as they are: pruning only takes what sorts below it.
LEMMA OtherStepsKeepBest ==
    ASSUME IInv, [Next]_vars, ~LinkBlock
    PROVE  /\ EverLinked' = EverLinked
           /\ \A h \in EverLinked : chainWork'[h] = chainWork[h] /\ branch'[h] = branch[h]
           /\ Best' = Best
<1>1. ASSUME UNCHANGED <<sequenceID, chainWork, branch, blockIndexCandidates>>
      PROVE  /\ EverLinked' = EverLinked
             /\ \A h \in EverLinked : chainWork'[h] = chainWork[h] /\ branch'[h] = branch[h]
             /\ Best' = Best
    BY <1>1 DEF EverLinked, Best
<1>2. ASSUME NEW b \in Hash, NEW p \in mapBlockIndex \cup {NULL}, NEW w \in Work,
             NEW ok \in BOOLEAN, AcceptNewBlock(b, p, w, ok)
      PROVE  /\ EverLinked' = EverLinked
             /\ \A h \in EverLinked : chainWork'[h] = chainWork[h] /\ branch'[h] = branch[h]
             /\ Best' = Best
  <2>1. UNCHANGED <<sequenceID, blockIndexCandidates>> /\ b \notin mapBlockIndex
    BY <1>2 DEF AcceptNewBlock
  <2>2. \A h \in Hash : h # b => chainWork'[h] = chainWork[h] /\ branch'[h] = branch[h]
    BY <1>2 DEF AcceptNewBlock, AddToBlockIndex, IInv, TypeOK
  <2>3. EverLinked \subseteq mapBlockIndex /\ EverLinked \subseteq Hash
    BY DEF IInv, EverLinkedInv, EverLinked
  <2> QED
    BY <2>1, <2>2, <2>3 DEF EverLinked, Best
<1>3. CASE FindMostWork
  <2>1. UNCHANGED <<sequenceID, chainWork, branch>> /\ pc = "find"
    BY <1>3 DEF FindMostWork, indexVars
  <2>2. blockIndexCandidates # <<>> /\ Unusable(Last(blockIndexCandidates)) = {}
    BY <2>1, TopCandidate
  <2>3. UNCHANGED blockIndexCandidates
    BY <1>3, <2>2 DEF FindMostWork, StartActivateStep
  <2> QED
    BY <1>1, <2>1, <2>3
<1>4. CASE ConnectTip
  <2>1. UNCHANGED <<sequenceID, chainWork, branch, mostWork>> /\ pc = "connect"
    BY <1>4 DEF ConnectTip, indexVars
  <2>2. ASSUME NEW s, s = <<mostWork>> \/ s = <<oldTip, mostWork>>
        PROVE  s # <<>> /\ Last(s) = mostWork
    <3>1. CASE s = <<mostWork>>
      BY <3>1 DEF Last
    <3>2. CASE s = <<oldTip, mostWork>>
      BY <3>2 DEF Last
    <3> QED
      BY <2>2, <3>1, <3>2
  <2>3. blockIndexCandidates = <<mostWork>> \/ blockIndexCandidates = <<oldTip, mostWork>>
    BY <2>1 DEF IInv, PhaseInv
  <2>4. blockIndexCandidates' = <<mostWork>> \/ blockIndexCandidates' = <<oldTip, mostWork>>
    BY <1>4, ConnectTipFacts
  <2>5. Best = mostWork /\ Best' = mostWork
    BY <2>2, <2>3, <2>4 DEF Best
  <2> QED
    BY <2>1, <2>5 DEF EverLinked
<1>5. CASE \E b \in mapBlockIndex : AcceptKnownBlock(b)
    BY <1>1, <1>5 DEF AcceptKnownBlock, indexVars
<1>6. CASE DisconnectTip \/ BuildConnectList
    BY <1>1, <1>6 DEF DisconnectTip, BuildConnectList, indexVars
<1>7. CASE UNCHANGED vars
    BY <1>1, <1>7 DEF vars
<1> QED
    BY <1>2, <1>3, <1>4, <1>5, <1>6, <1>7 DEF Next, Accept, Proceed, RejectBlock

\* Linking a block that was linked before changes nothing; a new one becomes
\* the top candidate exactly if it has more work than the top so far.
LEMMA LinkBlockFacts ==
    ASSUME IInv, LinkBlock, NEW q, q = queue[1]
    PROVE  /\ q \in Hash
           /\ EverLinked' = EverLinked \cup {q}
           /\ chainWork' = chainWork /\ branch' = branch
           /\ Best # NULL => /\ Best \in EverLinked
                             /\ \A h \in EverLinked : chainWork[h] <= chainWork[Best]
           /\ Best = NULL => EverLinked = {}
           /\ Best' = IF Best = NULL \/ chainWork[q] > chainWork[Best] THEN q ELSE Best
<1>1. IInv'
    BY LinkBlockInv
<1>2. /\ pc = "link" /\ pc' = "find" /\ chain' = chain
      /\ chainWork' = chainWork /\ branch' = branch
    BY LinkBlockQueue DEF LinkBlock, indexVars
<1>3. Len(queue) = 1 /\ q \in mapBlockIndex /\ q \in Hash /\ queue \in Seq(Hash)
    BY <1>2 DEF IInv, LinkedInv, TypeOK
<1>4. sequenceID' = [sequenceID EXCEPT ![q] = BlockSequenceIDCounter]
  <2>1. Head(queue) = q
    BY <1>3
  <2> QED
    BY <2>1 DEF LinkBlock
<1>5. EverLinked' = EverLinked \cup {q}
    BY <1>3, <1>4 DEF EverLinked, IInv, TypeOK
<1>6. /\ \A h \in Hash : chainWork[h] \in Nat /\ h # NULL
      /\ EverLinked \subseteq Hash
    BY HashAssumption DEF IInv, TypeOK, EverLinked
<1>7. Settled /\ Tip' = Tip
    BY <1>2 DEF IInv, PhaseInv, Tip
<1>8. CASE chain = <<>>
  <2>1. EverLinked = {} /\ Best = NULL
    BY <1>7, <1>8 DEF Settled, Best
  <2>2. PICK new \in EverLinked' : blockIndexCandidates' = <<new>>
    BY <1>1, <1>2, <1>8 DEF IInv, PhaseInv
  <2>3. Best' = new
    BY <2>2 DEF Best, Last
  <2> QED
    BY <1>2, <1>3, <1>5, <2>1, <2>2, <2>3
<1>9. CASE chain # <<>>
  <2>0. PICK t : t = Tip
    OBVIOUS
  <2>1. /\ t \in EverLinked /\ blockIndexCandidates = <<t>> /\ t \in Hash
        /\ \A h \in EverLinked : chainWork[h] <= chainWork[t]
    BY <1>6, <1>7, <1>9, <2>0 DEF Settled
  <2>2. Best = t
    BY <2>1 DEF Best, Last
  <2>3. CASE Settled'
    <3>1. blockIndexCandidates' = <<t>> /\ chainWork[q] <= chainWork[t]
      BY <1>2, <1>5, <1>7, <1>9, <2>0, <2>3 DEF Settled
    <3>2. Best' = t
      BY <3>1 DEF Best, Last
    <3>3. ~(chainWork[q] > chainWork[t])
      BY <1>3, <1>6, <2>1, <3>1
    <3> QED
      BY <1>2, <1>3, <1>5, <1>6, <2>1, <2>2, <3>2, <3>3
  <2>4. CASE ~Settled'
    <3>1. PICK new \in EverLinked' :
            OnlyBetter(new, Tip)' /\ blockIndexCandidates' = <<t, new>>
      BY <1>1, <1>2, <1>7, <1>9, <2>0, <2>4 DEF IInv, PhaseInv
    <3>2. chainWork[t] < chainWork[new]
      BY <1>2, <1>6, <1>7, <2>0, <2>1, <3>1 DEF OnlyBetter
    <3>3. new = q
      BY <1>3, <1>5, <1>6, <2>1, <3>1, <3>2
    <3>4. Best' = new
      BY <3>1 DEF Best, Last
    <3> QED
      BY <1>2, <1>3, <1>5, <1>6, <2>1, <2>2, <3>2, <3>3, <3>4
  <2> QED
    BY <2>3, <2>4
<1> QED
    BY <1>8, <1>9

\* A block that is linked for the first time is the first of all, or its parent
\* is linked and has less work.
LEMMA LinkedOnTop ==
    ASSUME IInv, LinkBlock, NEW q, q = queue[1], q \notin EverLinked
    PROVE  /\ PPrev(q) \in EverLinked \cup {NULL}
           /\ PPrev(q) = NULL <=> EverLinked = {}
           /\ PPrev(q) # NULL => chainWork[PPrev(q)] < chainWork[q]
<1>1. /\ q \in mapBlockIndex /\ q \in Hash
      /\ \A i \in 1..Len(branch[q]) - 1 : branch[q][i] \in EverLinked
    BY DEF LinkBlock, IInv, LinkedInv, TypeOK
<1>2. /\ Len(branch[q]) \in Nat /\ Len(branch[q]) >= 1
      /\ branch[q][1] = Genesis /\ branch[q][Len(branch[q])] = q
  <2>1. branch[q] \in Seq(Hash)
    BY <1>1 DEF IInv, TypeOK
  <2> QED
    BY <1>1, <2>1 DEF IInv, TreeInv
<1>3. EverLinked \subseteq Hash /\ NULL \notin EverLinked
    BY HashAssumption DEF EverLinked
<1>4. CASE Len(branch[q]) = 1
  <2>1. PPrev(q) = NULL /\ q = Genesis
    BY <1>2, <1>4 DEF PPrev
  <2>2. ASSUME NEW h \in EverLinked PROVE FALSE
    <3>1. h \in mapBlockIndex /\ \A i \in 1..Len(branch[h]) : branch[h][i] \in EverLinked
      BY DEF IInv, EverLinkedInv
    <3>2. Len(branch[h]) \in Nat /\ Len(branch[h]) >= 1 /\ branch[h][1] = Genesis
      BY <1>3, <3>1 DEF IInv, TypeOK, TreeInv
    <3> QED
      BY <2>1, <3>1, <3>2
  <2> QED
    BY <2>1, <2>2
<1>5. CASE Len(branch[q]) # 1
  <2>0. PICK n \in Nat : n = Len(branch[q])
    BY <1>2
  <2>1. n # 1 /\ n >= 1
    BY <1>2, <1>5, <2>0
  <2>2. n - 1 \in 1..n - 1
    BY <2>1
  <2>3. PPrev(q) = branch[q][n - 1]
    BY <1>5, <2>0 DEF PPrev
  <2>4. PPrev(q) \in EverLinked
    BY <1>1, <2>0, <2>2, <2>3
  <2>5. chainWork[PPrev(q)] < chainWork[q]
    BY <1>1, <2>0, <2>2, <2>3 DEF IInv, WorkInv
  <2> QED
    BY <1>3, <2>4, <2>5
<1> QED
    BY <1>4, <1>5

\* With blocks delivered twice, out of order or with bad bodies, acceptBlock
\* links blocks on top of linked blocks only, and its top candidate is the linked
\* block with the most work, the first linked of several (chain.h:258).  Blocks
\* that have their data and are not linked are outside this rule.
THEOREM ImplementsForkChoice == Spec => ChoosesMostWork
<1>1. Init => FC!Init
  <2> SUFFICES ASSUME Init PROVE FC!Init
    OBVIOUS
  <2>1. EverLinked = {} /\ Best = NULL
    BY DEF Init, EverLinked, Best
  <2> QED
    BY <2>1 DEF FC!Init
<1>2. IInv /\ [Next]_vars => [FC!Next]_(FC!fcVars)
  <2> SUFFICES ASSUME IInv, [Next]_vars PROVE FC!Next \/ UNCHANGED FC!fcVars
    OBVIOUS
  <2> DEFINE W == [h \in EverLinked |-> chainWork[h]]
             P == [h \in EverLinked |-> PPrev(h)]
  <2>1. CASE ~LinkBlock
    <3>1. W' = W /\ P' = P /\ Best' = Best
      BY <2>1, OtherStepsKeepBest DEF PPrev
    <3> QED
      BY <3>1 DEF FC!fcVars
  <2>2. CASE LinkBlock
    <3>0. PICK q : q = queue[1]
      OBVIOUS
    <3>1. /\ q \in Hash
          /\ EverLinked' = EverLinked \cup {q}
          /\ chainWork' = chainWork /\ branch' = branch
          /\ Best # NULL => /\ Best \in EverLinked
                            /\ \A h \in EverLinked : chainWork[h] <= chainWork[Best]
          /\ Best = NULL => EverLinked = {}
          /\ Best' = IF Best = NULL \/ chainWork[q] > chainWork[Best] THEN q ELSE Best
      BY <2>2, <3>0, LinkBlockFacts
    <3>2. \A h \in Hash : chainWork[h] \in Nat
      BY DEF IInv, TypeOK
    <3>3. CASE q \in EverLinked
      <4>1. W' = W /\ P' = P
        BY <3>1, <3>3 DEF PPrev
      <4>2. Best' = Best
        <5>1. Best \in Hash /\ chainWork[q] <= chainWork[Best]
          BY <3>1, <3>3 DEF EverLinked
        <5> QED
          BY <3>1, <3>2, <3>3, <5>1
      <4> QED
        BY <4>1, <4>2 DEF FC!fcVars
    <3>4. CASE q \notin EverLinked
      <4>1. W' \in [EverLinked \cup {q} -> Nat] /\ W'[q] = chainWork[q]
        BY <3>1, <3>2 DEF EverLinked
      <4>2. \A h \in EverLinked : W'[h] = W[h] /\ W[h] = chainWork[h]
        BY <3>1
      <4>3. DOMAIN W = EverLinked
        OBVIOUS
      <4>4. PICK p : p = PPrev(q)
        OBVIOUS
      <4>5. /\ p \in EverLinked \cup {NULL}
            /\ p = NULL <=> EverLinked = {}
            /\ p # NULL => chainWork[p] < chainWork[q]
        BY <2>2, <3>0, <3>4, <4>4, LinkedOnTop
      <4>6. P' = [h \in EverLinked \cup {q} |-> IF h = q THEN p ELSE P[h]]
        BY <3>1, <3>4, <4>4 DEF PPrev
      <4>7. p # NULL => W'[q] > W[p]
        BY <3>1, <3>2, <4>1, <4>5 DEF EverLinked
      <4>8. FC!Link(q, p)
        BY <3>1, <3>4, <4>1, <4>2, <4>3, <4>5, <4>6, <4>7 DEF FC!Link
      <4>9. p \in DOMAIN W \cup {NULL}
        BY <4>3, <4>5
      <4> QED
        BY <3>1, <4>8, <4>9, Zenon DEF FC!Next
    <3> QED
      BY <3>3, <3>4
  <2> QED
    BY <2>1, <2>2
<1> QED
    BY <1>1, <1>2, Invariance, PTL DEF Spec, ChoosesMostWork, FC!Spec

-----------------------------------------------------------------------------
(* Termination of acceptBlock *)

\* A tuple is lower if it is at the first place where they differ.
LEMMA LowerFacts ==
    ASSUME NEW a1, NEW a2, NEW a3, NEW a4, NEW b1, NEW b2, NEW b3, NEW b4,
           \/ a1 < b1
           \/ a1 = b1 /\ a2 < b2
           \/ a1 = b1 /\ a2 = b2 /\ a3 < b3
           \/ a1 = b1 /\ a2 = b2 /\ a3 = b3 /\ a4 < b4
    PROVE  Lower(<<a1, a2, a3, a4>>, <<b1, b2, b3, b4>>)
<1> DEFINE r == <<a1, a2, a3, a4>>
           s == <<b1, b2, b3, b4>>
           P(i) == r[i] < s[i] /\ \A j \in 1..i - 1 : r[j] = s[j]
<1>1. /\ r[1] = a1 /\ r[2] = a2 /\ r[3] = a3 /\ r[4] = a4
      /\ s[1] = b1 /\ s[2] = b2 /\ s[3] = b3 /\ s[4] = b4
    OBVIOUS
<1> HIDE DEF r, s
<1>2. a1 < b1 => P(1)
    BY <1>1
<1>3. a1 = b1 /\ a2 < b2 => P(2)
    BY <1>1
<1>4. a1 = b1 /\ a2 = b2 /\ a3 < b3 => P(3)
  <2>1. \A j \in 1..2 : j = 1 \/ j = 2
    OBVIOUS
  <2> QED
    BY <1>1, <2>1
<1>5. a1 = b1 /\ a2 = b2 /\ a3 = b3 /\ a4 < b4 => P(4)
  <2>1. \A j \in 1..3 : j = 1 \/ j = 2 \/ j = 3
    OBVIOUS
  <2> QED
    BY <1>1, <2>1
<1>6. \E i \in 1..4 : P(i)
  <2>1. 1 \in 1..4 /\ 2 \in 1..4 /\ 3 \in 1..4 /\ 4 \in 1..4
    OBVIOUS
  <2> HIDE DEF P
  <2> QED
    BY <1>2, <1>3, <1>4, <1>5, <2>1
<1> QED
    BY <1>6 DEF Lower, r, s

\* What is left to do, stage by stage.
LEMMA RemainingCases ==
    /\ pc = "idle" => Remaining = <<0, 0, 0, 0>>
    /\ pc = "link" => Remaining = <<Len(queue) + Cardinality(mapUnlinkedBlocks), 0, 0, 0>>
    /\ pc = "find" => Remaining = <<0, Gain(Tip), 3, Len(blockIndexCandidates)>>
    /\ pc = "disconnect" => Remaining = <<0, Gain(oldTip), 2, Len(chain)>>
    /\ pc \in {"batch", "connect"} =>
        Remaining = <<0, Gain(oldTip), 1, 2 * (Len(branch[mostWork]) - height) + Len(toConnect)>>
    BY DEF Remaining

\* During a step of activateBestChain the top candidate has more work than the
\* tip the step began with.
LEMMA StepGain ==
    ASSUME IInv, pc \in {"disconnect", "batch", "connect"}
    PROVE  Best = mostWork /\ mostWork \in mapBlockIndex /\ Gain(oldTip) \in Nat \ {0}
<1>1. /\ OnlyBetter(mostWork, oldTip)
      /\ \/ blockIndexCandidates = <<mostWork>>
         \/ oldTip # NULL /\ blockIndexCandidates = <<oldTip, mostWork>>
    BY DEF IInv, PhaseInv
<1>2. Best = mostWork
  <2>1. CASE blockIndexCandidates = <<mostWork>>
    BY <2>1 DEF Best, Last
  <2>2. CASE blockIndexCandidates = <<oldTip, mostWork>>
    BY <2>2 DEF Best, Last
  <2> QED
    BY <1>1, <2>1, <2>2
<1>3. mostWork \in EverLinked /\ mostWork \in mapBlockIndex
    BY <1>1 DEF OnlyBetter, IInv, EverLinkedInv
<1>4. \A h \in EverLinked : chainWork[h] \in Nat
    BY DEF EverLinked, IInv, TypeOK
<1>5. oldTip # NULL => oldTip \in EverLinked /\ chainWork[oldTip] < chainWork[mostWork]
    BY <1>1 DEF OnlyBetter
<1> QED
    BY <1>2, <1>3, <1>4, <1>5 DEF Gain

\* At the head of activateBestChain's loop it has no less.
LEMMA FindGain ==
    ASSUME IInv, pc = "find"
    PROVE  Gain(Tip) \in Nat
<1>1. \A h \in EverLinked : chainWork[h] \in Nat
    BY DEF EverLinked, IInv, TypeOK
<1>2. CASE Settled /\ chain # <<>>
  <2>1. PICK t : t = Tip
    OBVIOUS
  <2>2. t \in EverLinked /\ blockIndexCandidates = <<t>>
    BY <1>2, <2>1 DEF Settled
  <2>3. Best = t
    BY <2>2 DEF Best, Last
  <2> QED
    BY <1>1, <2>1, <2>2, <2>3 DEF Gain
<1>3. ASSUME NEW new \in EverLinked, OnlyBetter(new, Tip),
             blockIndexCandidates = IF chain = <<>> THEN <<new>> ELSE <<Tip, new>>
      PROVE  Gain(Tip) \in Nat
  <2>1. PICK t : t = Tip
    OBVIOUS
  <2>2. Best = new
    <3>1. CASE blockIndexCandidates = <<new>>
      BY <3>1 DEF Best, Last
    <3>2. CASE blockIndexCandidates = <<t, new>>
      BY <3>2 DEF Best, Last
    <3> QED
      BY <1>3, <2>1, <3>1, <3>2
  <2>3. t # NULL => t \in EverLinked /\ chainWork[t] < chainWork[new]
    BY <1>3, <2>1 DEF OnlyBetter
  <2> QED
    BY <1>1, <1>3, <2>1, <2>2, <2>3 DEF Gain
<1> QED
    BY <1>2, <1>3 DEF IInv, PhaseInv

\* What is left is never less than nothing.
LEMMA RemainingType == IInv => Remaining \in [1..4 -> Nat]
<1> SUFFICES ASSUME IInv PROVE Remaining \in [1..4 -> Nat]
    OBVIOUS
<1>1. ASSUME NEW a \in Nat, NEW b \in Nat, NEW c \in Nat, NEW d \in Nat
      PROVE  <<a, b, c, d>> \in [1..4 -> Nat]
    OBVIOUS
<1>2. CASE pc = "idle"
  <2>1. Remaining = <<0, 0, 0, 0>>
    BY <1>2, RemainingCases
  <2> QED
    BY <1>1, <2>1
<1>3. CASE pc = "link"
  <2>1. Remaining = <<Len(queue) + Cardinality(mapUnlinkedBlocks), 0, 0, 0>>
    BY <1>3, RemainingCases
  <2>2. Len(queue) = 1 /\ Cardinality(mapUnlinkedBlocks) = 0
    BY <1>3, FS_EmptySet DEF IInv, LinkedInv, StatusInv
  <2> QED
    BY <1>1, <2>1, <2>2
<1>4. CASE pc = "find"
  <2>1. Remaining = <<0, Gain(Tip), 3, Len(blockIndexCandidates)>>
    BY <1>4, RemainingCases
  <2>2. Gain(Tip) \in Nat /\ Len(blockIndexCandidates) \in Nat
    BY <1>4, FindGain, SMTT(30) DEF IInv, TypeOK
  <2> QED
    BY <1>1, <2>1, <2>2
<1>5. CASE pc = "disconnect"
  <2>1. Remaining = <<0, Gain(oldTip), 2, Len(chain)>>
    BY <1>5, RemainingCases
  <2>2. Gain(oldTip) \in Nat /\ Len(chain) \in Nat
    BY <1>5, StepGain DEF IInv, TypeOK
  <2> QED
    BY <1>1, <2>1, <2>2
<1>6. CASE pc \in {"batch", "connect"}
  <2> DEFINE n == 2 * (Len(branch[mostWork]) - height) + Len(toConnect)
  <2>1. Remaining = <<0, Gain(oldTip), 1, n>>
    BY <1>6, RemainingCases
  <2>2. Gain(oldTip) \in Nat /\ mostWork \in mapBlockIndex
    BY <1>6, StepGain
  <2>3. n \in Nat
    <3>1. Len(branch[mostWork]) \in Nat
      BY <2>2, BranchFacts DEF IInv
    <3>2. Len(toConnect) \in Nat /\ height \in Nat
      BY DEF IInv, TypeOK
    <3>3. height <= Len(branch[mostWork])
      BY <1>6 DEF IInv, PhaseInv
    <3> QED
      BY <3>1, <3>2, <3>3
  <2> HIDE DEF n
  <2> QED
    BY <1>1, <2>1, <2>2, <2>3
<1> QED
    BY <1>2, <1>3, <1>4, <1>5, <1>6 DEF IInv, TypeOK

\* The primed forms of RemainingCases, for the stage after a step.
LEMMA RemainingNext ==
    /\ pc' = "idle" => Remaining' = <<0, 0, 0, 0>>
    /\ pc' = "find" => Remaining' = <<0, Gain(Tip)', 3, Len(blockIndexCandidates')>>
    /\ pc' = "disconnect" => Remaining' = <<0, Gain(oldTip)', 2, Len(chain')>>
    /\ pc' \in {"batch", "connect"} =>
        Remaining' =
            <<0, Gain(oldTip)', 1, 2 * (Len(branch'[mostWork']) - height') + Len(toConnect')>>
    BY DEF Remaining

LEMMA LinkBlockLower ==
    ASSUME IInv, LinkBlock
    PROVE  Lower(Remaining', Remaining)
<1>1. pc = "link" /\ pc' = "find"
    BY LinkBlockQueue DEF LinkBlock
<1>2. Len(queue) + Cardinality(mapUnlinkedBlocks) = 1
  <2>1. Len(queue) = 1 /\ mapUnlinkedBlocks = {}
    BY <1>1 DEF IInv, LinkedInv, StatusInv
  <2>2. Cardinality(mapUnlinkedBlocks) = 0
    BY <2>1, FS_EmptySet
  <2> QED
    BY <2>1, <2>2
<1>3. Remaining = <<1, 0, 0, 0>>
    BY <1>1, <1>2, RemainingCases
<1>4. Remaining' = <<0, Gain(Tip)', 3, Len(blockIndexCandidates')>>
    BY <1>1, RemainingNext
<1> QED
    BY <1>3, <1>4, LowerFacts

LEMMA FindMostWorkLower ==
    ASSUME IInv, FindMostWork
    PROVE  Lower(Remaining', Remaining)
<1>1. pc = "find" /\ Remaining = <<0, Gain(Tip), 3, Len(blockIndexCandidates)>>
    BY RemainingCases DEF FindMostWork
<1>2. Gain(Tip) \in Nat
    BY <1>1, FindGain
<1>3. PICK new : new = Last(blockIndexCandidates)
    OBVIOUS
<1>4. blockIndexCandidates # <<>> /\ Unusable(new) = {}
    BY <1>1, <1>3, TopCandidate
<1>5. pc' = "idle" \/ StartActivateStep(new)
    BY <1>3, <1>4 DEF FindMostWork
<1>6. CASE pc' = "idle"
  <2>1. Remaining' = <<0, 0, 0, 0>>
    BY <1>6, RemainingNext
  <2>2. 0 < Gain(Tip) \/ 0 = Gain(Tip)
    BY <1>2
  <2> QED
    BY <1>1, <2>1, <2>2, LowerFacts
<1>7. CASE StartActivateStep(new)
  <2>1. pc' = "disconnect" /\ oldTip' = Tip
    BY <1>7 DEF StartActivateStep
  <2>2. Remaining' = <<0, Gain(oldTip)', 2, Len(chain')>>
    BY <2>1, RemainingNext
  <2>3. Gain(oldTip)' = Gain(Tip)
    <3>1. chainWork' = chainWork /\ Best' = Best
      BY <1>1, OtherStepsKeepBest DEF FindMostWork, indexVars, Next, Proceed, LinkBlock
    <3> QED
      BY <2>1, <3>1 DEF Gain
  <2> QED
    BY <1>1, <2>2, <2>3, LowerFacts
<1> QED
    BY <1>5, <1>6, <1>7

\* disconnectTip takes one block off the chain.
LEMMA DisconnectTipLower ==
    ASSUME IInv, DisconnectTip
    PROVE  Lower(Remaining', Remaining)
<1>1. /\ pc = "disconnect" /\ pc' = "disconnect" /\ chain # <<>> /\ oldTip' = oldTip
      /\ chain' = SetTip(PPrev(Tip)) /\ UNCHANGED <<chainWork, blockIndexCandidates>>
    BY DEF DisconnectTip, MustDisconnect, indexVars, stepVars
<1>2. /\ Remaining = <<0, Gain(oldTip), 2, Len(chain)>>
      /\ Remaining' = <<0, Gain(oldTip)', 2, Len(chain')>>
    BY <1>1, RemainingCases, RemainingNext
<1>3. Gain(oldTip)' = Gain(oldTip)
    BY <1>1 DEF Gain, Best
<1>4. PICK t : t = Tip
    OBVIOUS
<1>5. t \in mapBlockIndex /\ chain = branch[t]
    BY <1>1, <1>4 DEF IInv, ChainInv, Tip, Last
<1>6. PICK n \in Nat \ {0} : n = Len(branch[t])
    BY <1>5, BranchFacts DEF IInv
<1>7. Len(chain') < Len(chain)
  <2>1. CASE n = 1
    <3>1. PPrev(Tip) = NULL
      BY <1>4, <1>6, <2>1 DEF PPrev
    <3>2. chain' = <<>>
      BY <1>1, <3>1 DEF SetTip
    <3> QED
      BY <1>5, <1>6, <2>1, <3>2
  <2>2. CASE n # 1
    <3>1. n - 1 \in 1..n
      BY <2>2
    <3>2. PICK p : p = branch[t][n - 1]
      OBVIOUS
    <3>3. p \in mapBlockIndex /\ Len(branch[p]) = n - 1
      BY <1>5, <1>6, <3>1, <3>2 DEF IInv, TreeInv
    <3>4. PPrev(Tip) = p
      BY <1>4, <1>6, <2>2, <3>2 DEF PPrev
    <3>5. chain' = branch[p]
      BY <1>1, <3>3, <3>4, SetTipIsBranch DEF IInv
    <3> QED
      BY <1>5, <1>6, <3>3, <3>5
  <2> QED
    BY <2>1, <2>2
<1> QED
    BY <1>2, <1>3, <1>7, LowerFacts

\* A round of the outer connect loop moves height on by the blocks it lists.
LEMMA BuildConnectListLower ==
    ASSUME IInv, BuildConnectList
    PROVE  Lower(Remaining', Remaining)
<1>1. /\ pc \in {"disconnect", "batch"} /\ oldTip' = oldTip /\ mostWork' = mostWork
      /\ UNCHANGED <<chainWork, blockIndexCandidates, branch>>
    BY DEF BuildConnectList, indexVars
<1>2. Gain(oldTip)' = Gain(oldTip)
    BY <1>1 DEF Gain, Best
<1>3. PICK br : br = branch[mostWork]
    OBVIOUS
<1>4. br \in Seq(Hash) /\ Len(br) \in Nat /\ height \in Nat /\ height < Len(br)
  <2>1. mostWork \in mapBlockIndex
    BY <1>1, StepGain
  <2>2. br \in Seq(Hash) /\ Len(br) \in Nat
    BY <1>3, <2>1, BranchFacts DEF IInv
  <2>3. height \in Nat /\ height < Len(br)
    BY <1>1, <1>3 DEF IInv, TypeOK, PhaseInv
  <2> QED
    BY <2>2, <2>3
<1>5. PICK hi : hi = IF height + Batch < Len(br) THEN height + Batch ELSE Len(br)
    OBVIOUS
<1>6. hi \in Nat /\ height < hi /\ hi <= Len(br)
    BY <1>4, <1>5, BatchAssumption
<1>7. pc' = "connect" /\ height' = hi /\ toConnect' = Reverse(SubSeq(br, height + 1, hi))
  <2>1. height # Len(br)
    BY <1>4
  <2> QED
    BY <1>3, <1>5, <2>1 DEF BuildConnectList
<1>8. Len(toConnect') = hi - height
    BY <1>4, <1>6, <1>7, ConnectListFacts
<1>9. Remaining' = <<0, Gain(oldTip), 1, 2 * (Len(br) - hi) + (hi - height)>>
  <2>1. branch'[mostWork'] = br
    BY <1>1, <1>3
  <2>2. Remaining' =
            <<0, Gain(oldTip)', 1, 2 * (Len(branch'[mostWork']) - height') + Len(toConnect')>>
    BY <1>7, RemainingNext
  <2> QED
    BY <1>2, <1>7, <1>8, <2>1, <2>2
<1>10. CASE pc = "disconnect"
  <2>1. Remaining = <<0, Gain(oldTip), 2, Len(chain)>>
    BY <1>10, RemainingCases
  <2> QED
    BY <1>9, <2>1, LowerFacts
<1>11. CASE pc = "batch"
  <2>1. Remaining = <<0, Gain(oldTip), 1, 2 * (Len(br) - height) + Len(toConnect)>>
    BY <1>3, <1>11, RemainingCases
  <2>2. Len(toConnect) \in Nat
    BY DEF IInv, TypeOK
  <2>3. 2 * (Len(br) - hi) + (hi - height) < 2 * (Len(br) - height) + Len(toConnect)
    BY <1>4, <1>6, <2>2
  <2> QED
    BY <1>9, <2>1, <2>3, LowerFacts
<1> QED
    BY <1>1, <1>10, <1>11

\* connectTip takes one block off the list, or reaches the candidate.
LEMMA ConnectTipLower ==
    ASSUME IInv, ConnectTip
    PROVE  Lower(Remaining', Remaining)
<1>1. /\ pc = "connect" /\ oldTip' = oldTip /\ mostWork' = mostWork /\ height' = height
      /\ UNCHANGED <<chainWork, branch>>
    BY DEF ConnectTip, indexVars
<1>2. Remaining = <<0, Gain(oldTip), 1, 2 * (Len(branch[mostWork]) - height) + Len(toConnect)>>
    BY <1>1, RemainingCases
<1>3. Gain(oldTip) \in Nat \ {0} /\ mostWork \in mapBlockIndex
    BY <1>1, StepGain
<1>4. CASE toConnect[1] = mostWork
  <2>1. pc' = "idle"
    BY <1>4, ConnectTipFacts
  <2>2. Remaining' = <<0, 0, 0, 0>>
    BY <2>1, RemainingNext
  <2>3. 0 < Gain(oldTip)
    BY <1>3
  <2> QED
    BY <1>2, <2>2, <2>3, LowerFacts
<1>5. CASE toConnect[1] # mostWork
  <2>1. pc' \in {"batch", "connect"} /\ toConnect' = Tail(toConnect)
    BY <1>5, ConnectTipFacts
  <2>2. Best' = Best
    BY <1>1, OtherStepsKeepBest DEF Next, Proceed, LinkBlock
  <2>3. Gain(oldTip)' = Gain(oldTip)
    BY <1>1, <2>2 DEF Gain
  <2>4. Len(toConnect') = Len(toConnect) - 1 /\ Len(toConnect) \in Nat
    <3>1. toConnect \in Seq(Hash) /\ toConnect # <<>>
      BY <1>1 DEF IInv, TypeOK, PhaseInv
    <3> QED
      BY <2>1, <3>1
  <2>5. Remaining' =
            <<0, Gain(oldTip), 1, 2 * (Len(branch[mostWork]) - height) + (Len(toConnect) - 1)>>
    <3>1. Remaining' =
            <<0, Gain(oldTip)', 1, 2 * (Len(branch'[mostWork']) - height') + Len(toConnect')>>
      BY <2>1, RemainingNext
    <3> QED
      BY <1>1, <2>3, <2>4, <3>1
  <2>6. 2 * (Len(branch[mostWork]) - height) + (Len(toConnect) - 1)
            < 2 * (Len(branch[mostWork]) - height) + Len(toConnect)
    <3>1. Len(branch[mostWork]) \in Nat /\ height \in Nat
      BY <1>3, BranchFacts DEF IInv, TypeOK
    <3> QED
      BY <2>4, <3>1
  <2> QED
    BY <1>2, <2>5, <2>6, LowerFacts
<1> QED
    BY <1>4, <1>5

\* Every step of a call of acceptBlock leaves less to do, in a well-founded
\* order, so the loops of receiveBlock and activateBestChain end.
THEOREM EveryCallReturns == Spec => CallsReturn
<1> DEFINE N == Remaining \in [1..4 -> Nat]
           L == pc # "idle" => Lower(Remaining', Remaining)
           C == pc # "idle" => Lower(Remaining', Remaining) /\ Remaining' \in [1..4 -> Nat]
<1>1. IInv /\ [Next]_vars => [L]_vars
  <2> SUFFICES ASSUME IInv, Next, pc # "idle" PROVE Lower(Remaining', Remaining)
    OBVIOUS
  <2>1. Proceed
    BY DEF Next, Accept, AcceptNewBlock, AcceptKnownBlock, RejectBlock
  <2> QED
    BY <2>1, LinkBlockLower, FindMostWorkLower, DisconnectTipLower, BuildConnectListLower,
       ConnectTipLower DEF Proceed
<1>2. IInv => N
    BY RemainingType
<1>3. [L]_vars /\ N' => [C]_vars
    OBVIOUS
<1> HIDE DEF N, L, C
<1>4. Spec => [][C]_vars
    BY <1>1, <1>2, <1>3, Invariance, PTL DEF Spec
<1> QED
    BY <1>4 DEF CallsReturn, C

-----------------------------------------------------------------------------
(* Mining: the inductive invariant *)

\* The work that the block on top of last has to show, whoever asks and when.
Target(last) ==
    IF IsRetarget(last)
      THEN NextBits[last][branch[last][Len(branch[last]) - Cycle + 1]]
      ELSE block[last].bits

Active(h) == h \in mapBlockIndex /\ InChain(h)

MTypeInv ==
    /\ clock \in Nat
    /\ block \in [Hash -> Block \cup {NULL}]
    /\ currentTransactions \in Seq(Tx)
    /\ mpc \in [Miner -> {"start", "tip", "check", "create", "pack", "hash", "submit", "accept"}]
    /\ chainHeight \in [Miner -> Nat]
    /\ pLastBlock \in [Miner -> Hash \cup {NULL}]
    /\ timeval \in [Miner -> Nat]
    /\ bits \in [Miner -> Nat]
    /\ packed \in [Miner -> Seq(Tx)]
    /\ found \in [Miner -> Hash \cup {NULL}]

\* Side branches are one block long: every block lies on an active one.
FlatInv ==
    \A h \in mapBlockIndex :
        /\ Len(branch[h]) <= Len(chain) + 1
        /\ \A i \in 1..Len(branch[h]) - 1 : chain[i] = branch[h][i]

\* activateBestChain has one block to connect, right on top of the chain.
GrowInv ==
    /\ pc # "batch"
    /\ pc \in {"disconnect", "connect"} => Len(branch[mostWork]) = Len(chain) + 1
    /\ pc = "disconnect" => height = Len(chain)
    /\ pc = "connect" => height = Len(branch[mostWork])

\* The threads run on a chain that has its genesis block.
StartInv == running => chain # <<>>

\* A block that a thread has found is on an active block, asks for the work
\* that this one calls for, and is not the younger of the two.
BlockInv ==
    /\ block[Genesis] # NULL => Genesis \in mapBlockIndex
    /\ \A h \in Hash : block[h] # NULL => block[h].timeval <= clock
    /\ \A h \in Hash \ {Genesis} : block[h] # NULL =>
        /\ Active(block[h].prev)
        /\ block[h].bits = Target(block[h].prev)
        /\ block[block[h].prev].timeval <= block[h].timeval

\* The index is made of such blocks.
IndexInv ==
    /\ \A h \in mapBlockIndex : block[h] # NULL
    /\ \A h \in mapBlockIndex \ {Genesis} :
        /\ PPrev(h) = block[h].prev
        /\ chainWork[h] = chainWork[PPrev(h)] + block[h].bits

\* What thread m has read, and what it has made of it.
MinerOK(m) ==
    /\ mpc[m] = "tip" => chainHeight[m] <= Len(chain)
    /\ mpc[m] \in {"check", "create", "pack", "hash"} =>
        /\ Active(pLastBlock[m])
        /\ chainHeight[m] <= Len(branch[pLastBlock[m]])
    /\ mpc[m] \in {"pack", "hash"} =>
        /\ bits[m] = Target(pLastBlock[m])
        /\ timeval[m] <= clock
        /\ block[pLastBlock[m]].timeval <= timeval[m]
    /\ mpc[m] \in {"submit", "accept"} =>
        /\ found[m] \in Hash \ {Genesis}
        /\ block[found[m]] # NULL

MinerInv == \A m \in Miner : MinerOK(m)

MInv ==
    /\ MTypeInv
    /\ FlatInv
    /\ GrowInv
    /\ StartInv
    /\ BlockInv
    /\ IndexInv
    /\ MinerInv

\* A step only adds: to the index, to the end of the chain, to the blocks.
Grows ==
    /\ mapBlockIndex \subseteq mapBlockIndex'
    /\ \A h \in mapBlockIndex : branch'[h] = branch[h] /\ chainWork'[h] = chainWork[h]
    /\ Len(chain) <= Len(chain')
    /\ \A i \in 1..Len(chain) : chain'[i] = chain[i]
    /\ \A h \in Hash : block[h] # NULL => block'[h] = block[h]
    /\ clock <= clock'

-----------------------------------------------------------------------------
(* Lemmas about the active chain *)

\* Entry number i of the chain is an active block of height i - 1.
LEMMA ChainEntries ==
    ASSUME IInv, NEW i \in 1..Len(chain)
    PROVE  /\ Active(chain[i]) /\ chain[i] \in Hash
           /\ Len(branch[chain[i]]) = i
           /\ \A j \in 1..i : branch[chain[i]][j] = chain[j]
<1>1. chain \in Seq(Hash) /\ Len(chain) \in Nat
  BY DEF IInv, TypeOK
<1>2. PICK t : t = chain[Len(chain)]
  OBVIOUS
<1>3. chain # <<>>
  BY <1>1
<1>4. t \in mapBlockIndex /\ chain = branch[t]
  BY <1>2, <1>3 DEF IInv, ChainInv
<1>5. /\ chain[i] \in mapBlockIndex
      /\ Len(branch[chain[i]]) = i
      /\ \A j \in 1..i : branch[chain[i]][j] = chain[j]
  BY <1>4 DEF IInv, TreeInv
<1>6. chain[i] \in Hash
  BY <1>5 DEF IInv, TypeOK
<1> QED
  BY <1>1, <1>5, <1>6 DEF Active, InChain

\* An active block is the entry of the chain at its height.
LEMMA ActiveFacts ==
    ASSUME IInv, NEW h, Active(h)
    PROVE  /\ h \in Hash /\ h # NULL
           /\ Len(branch[h]) \in 1..Len(chain) /\ Len(chain) \in Nat
           /\ chain[Len(branch[h])] = h
           /\ \A j \in 1..Len(branch[h]) : branch[h][j] = chain[j]
<1>1. h \in mapBlockIndex /\ h \in Hash /\ h # NULL
  BY HashAssumption DEF Active, IInv, TypeOK
<1>2. Len(branch[h]) \in Nat \ {0}
  BY <1>1, BranchFacts DEF IInv
<1>3. Len(branch[h]) \in 1..Len(chain) /\ Len(chain) \in Nat /\ chain[Len(branch[h])] = h
  <2>1. chain \in Seq(Hash)
    BY DEF IInv, TypeOK
  <2> QED
    BY <1>2, <2>1 DEF Active, InChain
<1> QED
  BY <1>1, <1>3, ChainEntries

\* The first block of a cycle is read off the active chain, but it is the one
\* of the branch of the block to extend.
LEMMA FirstIsAncestor ==
    ASSUME IInv, NEW last, Active(last), IsRetarget(last)
    PROVE  LET k == Len(branch[last]) - Cycle + 1
           IN  /\ k \in 1..Len(branch[last])
               /\ FirstOfCycle(last) = branch[last][k]
               /\ branch[last][k] = chain[k]
<1> DEFINE n == Len(branch[last])
           k == n - Cycle + 1
<1>1. /\ n \in 1..Len(chain) /\ Len(chain) \in Nat
      /\ \A j \in 1..n : branch[last][j] = chain[j]
  BY ActiveFacts
<1>2. n >= Cycle /\ Cycle \in Nat /\ Cycle >= 2
  BY CycleAssumption DEF IsRetarget
<1>3. k \in 1..n
  BY <1>1, <1>2
<1>4. FirstOfCycle(last) = chain[k]
  <2> HIDE DEF n
  <2>1. n - 1 # 0 /\ Cycle # 0 /\ n - 1 + 1 = n /\ n <= Len(chain) /\ n - Cycle + 1 >= 1
    BY <1>1, <1>2
  <2>2. FirstOfCycle(last) = GetBlock(n - 1, Cycle)
    BY DEF FirstOfCycle, n
  <2> QED
    BY <2>1, <2>2 DEF GetBlock
<1> QED
  BY <1>1, <1>3, <1>4

\* The target is a value of work.
LEMMA TargetType ==
    ASSUME IInv, MInv, NEW last, Active(last)
    PROVE  Target(last) \in Work /\ block[last] \in Block
<1>1. last \in Hash /\ last \in mapBlockIndex
  BY ActiveFacts DEF Active
<1>2. block[last] \in Block
  BY <1>1 DEF MInv, MTypeInv, IndexInv
<1>3. CASE IsRetarget(last)
  <2>1. PICK k \in 1..Len(branch[last]) : k = Len(branch[last]) - Cycle + 1
    BY <1>3, FirstIsAncestor
  <2>2. branch[last][k] \in Hash
    BY <1>1, <2>1, BranchFacts DEF IInv, TypeOK
  <2>3. NextBits[last][branch[last][k]] \in Work
    BY <1>1, <2>2, BitsAssumption
  <2> QED
    BY <1>2, <1>3, <2>1, <2>3 DEF Target
<1>4. CASE ~IsRetarget(last)
  BY <1>2, <1>4 DEF Target, Block
<1> QED
  BY <1>3, <1>4

-----------------------------------------------------------------------------
(* What a growing step keeps *)

LEMMA GrowsKeepsActive ==
    ASSUME IInv, MInv, Grows, NEW h, Active(h)
    PROVE  /\ Active(h)'
           /\ Target(h)' = Target(h)
           /\ block'[h] = block[h]
           /\ branch'[h] = branch[h]
<1>1. /\ h \in Hash /\ h \in mapBlockIndex
      /\ Len(branch[h]) \in 1..Len(chain) /\ Len(chain) \in Nat
      /\ chain[Len(branch[h])] = h
  BY ActiveFacts DEF Active
<1>2. branch'[h] = branch[h] /\ block'[h] = block[h]
  BY <1>1 DEF Grows, MInv, IndexInv
<1>3. chain'[Len(branch[h])] = h /\ Len(branch[h]) <= Len(chain')
  BY <1>1 DEF Grows
<1>4. Active(h)'
  BY <1>1, <1>2, <1>3 DEF Grows, Active, InChain
<1>5. Target(h)' = Target(h)
  BY <1>2 DEF Target, IsRetarget
<1> QED
  BY <1>2, <1>4, <1>5

\* A block that existed stays as BlockInv wants it.
LEMMA GrowsKeepsBlock ==
    ASSUME IInv, MInv, MTypeInv', Grows, NEW h \in Hash, block[h] # NULL
    PROVE  /\ block'[h] = block[h]
           /\ block'[h].timeval <= clock'
           /\ h # Genesis => /\ Active(block[h].prev)'
                             /\ block'[h].bits = Target(block[h].prev)'
                             /\ block'[block[h].prev].timeval <= block'[h].timeval
<1>1. block'[h] = block[h] /\ clock <= clock'
  BY DEF Grows
<1>2. clock \in Nat /\ clock' \in Nat /\ block[h] \in Block
  BY DEF MInv, MTypeInv
<1>3. block'[h].timeval <= clock'
  <2>1. block[h].timeval \in Nat /\ block[h].timeval <= clock
    BY <1>2 DEF Block, MInv, BlockInv
  <2> QED
    BY <1>1, <1>2, <2>1
<1>4. ASSUME h # Genesis
      PROVE  /\ Active(block[h].prev)'
             /\ block'[h].bits = Target(block[h].prev)'
             /\ block'[block[h].prev].timeval <= block'[h].timeval
  <2>1. PICK p : p = block[h].prev
    OBVIOUS
  <2>2. Active(p) /\ block[h].bits = Target(p) /\ block[p].timeval <= block[h].timeval
    BY <1>4, <2>1 DEF MInv, BlockInv
  <2>3. Active(p)' /\ Target(p)' = Target(p) /\ block'[p] = block[p]
    BY <2>2, GrowsKeepsActive
  <2>4. block'[h].bits = Target(p)' /\ block'[p].timeval <= block'[h].timeval
    BY <1>1, <2>2, <2>3
  <2>5. block'[h].prev = p
    BY <1>1, <2>1
  <2> QED
    BY <1>1, <2>3, <2>4, <2>5
<1> QED
  BY <1>1, <1>3, <1>4

\* An entry that was indexed stays as FlatInv and IndexInv want it.
LEMMA GrowsKeepsEntry ==
    ASSUME IInv, IInv', MInv, Grows, NEW h \in mapBlockIndex
    PROVE  /\ Len(branch'[h]) <= Len(chain') + 1
           /\ \A i \in 1..Len(branch'[h]) - 1 : chain'[i] = branch'[h][i]
           /\ block'[h] # NULL
           /\ h # Genesis => /\ PPrev(h)' = block'[h].prev
                             /\ chainWork'[h] = chainWork'[PPrev(h)'] + block'[h].bits
<1>1. /\ h \in Hash /\ block[h] # NULL
      /\ branch[h] \in Seq(Hash) /\ Len(branch[h]) \in Nat
  BY BranchFacts DEF IInv, MInv, IndexInv
<1>2. Len(chain) \in Nat /\ Len(chain') \in Nat
  <2>1. chain \in Seq(Hash) /\ chain' \in Seq(Hash)
    BY DEF IInv, TypeOK
  <2> QED
    BY <2>1
<1>3. /\ block'[h] = block[h] /\ branch'[h] = branch[h] /\ chainWork'[h] = chainWork[h]
      /\ Len(chain) <= Len(chain')
      /\ \A i \in 1..Len(chain) : chain'[i] = chain[i]
  BY <1>1 DEF Grows
<1>4. /\ Len(branch[h]) <= Len(chain) + 1
      /\ \A i \in 1..Len(branch[h]) - 1 : chain[i] = branch[h][i]
  BY DEF MInv, FlatInv
<1>5. /\ Len(branch'[h]) <= Len(chain') + 1
      /\ \A i \in 1..Len(branch'[h]) - 1 : chain'[i] = branch'[h][i]
  BY <1>1, <1>2, <1>3, <1>4, SMTT(30)
<1>6. ASSUME h # Genesis
      PROVE  /\ PPrev(h)' = block'[h].prev
             /\ chainWork'[h] = chainWork'[PPrev(h)'] + block'[h].bits
  <2>1. PICK p : p = block[h].prev
    OBVIOUS
  <2>2. /\ PPrev(h) = p /\ chainWork[h] = chainWork[p] + block[h].bits
        /\ p \in mapBlockIndex
    BY <1>1, <1>6, <2>1 DEF MInv, IndexInv, BlockInv, Active
  <2>3. PPrev(h)' = p
    BY <1>3, <2>2 DEF PPrev
  <2>4. chainWork'[p] = chainWork[p]
    BY <2>2 DEF Grows
  <2> QED
    BY <1>3, <2>1, <2>2, <2>3, <2>4
<1> QED
  BY <1>1, <1>3, <1>5, <1>6

\* What a thread has read stays true.
LEMMA GrowsKeepsMiner ==
    ASSUME IInv, IInv', MInv, MTypeInv', Grows, NEW m \in Miner,
           mpc'[m] = mpc[m], chainHeight'[m] = chainHeight[m], pLastBlock'[m] = pLastBlock[m],
           timeval'[m] = timeval[m], bits'[m] = bits[m], found'[m] = found[m]
    PROVE  MinerOK(m)'
<1>0. MinerOK(m)
  BY DEF MInv, MinerInv
<1>1. /\ Len(chain) \in Nat /\ Len(chain') \in Nat /\ Len(chain) <= Len(chain')
      /\ clock \in Nat /\ clock' \in Nat /\ clock <= clock'
      /\ chainHeight[m] \in Nat /\ timeval[m] \in Nat
  <2>1. chain \in Seq(Hash) /\ chain' \in Seq(Hash)
    BY DEF IInv, TypeOK
  <2>2. clock \in Nat /\ clock' \in Nat /\ chainHeight[m] \in Nat /\ timeval[m] \in Nat
    BY DEF MInv, MTypeInv
  <2> QED
    BY <2>1, <2>2 DEF Grows
<1>2. mpc'[m] = "tip" => chainHeight'[m] <= Len(chain')
  BY <1>0, <1>1 DEF MinerOK
<1>3. PICK p : p = pLastBlock[m]
  OBVIOUS
<1>4. mpc'[m] \in {"check", "create", "pack", "hash"} =>
        /\ Active(p)' /\ Target(p)' = Target(p) /\ block'[p] = block[p]
        /\ chainHeight'[m] <= Len(branch'[p])
  <2> SUFFICES ASSUME mpc[m] \in {"check", "create", "pack", "hash"}
               PROVE  /\ Active(p)' /\ Target(p)' = Target(p) /\ block'[p] = block[p]
                      /\ chainHeight'[m] <= Len(branch'[p])
    OBVIOUS
  <2>1. Active(p) /\ chainHeight[m] <= Len(branch[p])
    BY <1>0, <1>3 DEF MinerOK
  <2> QED
    BY <2>1, GrowsKeepsActive
<1>5. mpc'[m] \in {"pack", "hash"} =>
        /\ bits'[m] = Target(p)'
        /\ timeval'[m] <= clock'
        /\ block'[p].timeval <= timeval'[m]
  BY <1>0, <1>1, <1>3, <1>4 DEF MinerOK
<1>6. mpc'[m] \in {"submit", "accept"} =>
        found'[m] \in Hash \ {Genesis} /\ block'[found'[m]] # NULL
  BY <1>0 DEF MinerOK, Grows
<1>7. pLastBlock'[m] = p
  BY <1>3
<1> QED
  BY <1>2, <1>4, <1>5, <1>6, <1>7 DEF MinerOK

\* A step that grows and adds neither a block nor an entry.
LEMMA GrowsKeepsTree ==
    ASSUME IInv, IInv', MInv, MTypeInv', Grows, block' = block, mapBlockIndex' = mapBlockIndex
    PROVE  FlatInv' /\ BlockInv' /\ IndexInv'
<1>1. FlatInv' /\ IndexInv'
  BY GrowsKeepsEntry DEF FlatInv, IndexInv
<1>2. block[Genesis] # NULL => Genesis \in mapBlockIndex
  BY DEF MInv, BlockInv
<1>3. BlockInv'
  BY <1>2, GrowsKeepsBlock DEF BlockInv
<1> QED
  BY <1>1, <1>3

\* A step that leaves all alone grows.
LEMMA StillGrows ==
    ASSUME IInv, MInv, UNCHANGED vars, block' = block, clock' \in {clock, clock + 1}
    PROVE  Grows
<1>1. clock \in Nat /\ Len(chain) \in Nat
  BY DEF IInv, TypeOK, MInv, MTypeInv
<1> QED
  BY <1>1 DEF Grows, vars

-----------------------------------------------------------------------------
(* The chain only grows *)

\* Only the genesis block has no parent.
LEMMA ParentFacts ==
    ASSUME IInv, NEW h \in mapBlockIndex
    PROVE  /\ Len(branch[h]) = 1 <=> h = Genesis
           /\ PPrev(h) = NULL <=> h = Genesis
           /\ Len(branch[h]) # 1 => PPrev(h) = branch[h][Len(branch[h]) - 1]
<1>1. /\ branch[h] \in Seq(Hash) /\ Len(branch[h]) \in Nat \ {0}
      /\ branch[h][Len(branch[h])] = h /\ branch[h][1] = Genesis
  BY BranchFacts DEF IInv
<1>2. Len(branch[h]) = 1 => h = Genesis
  BY <1>1
<1>3. h = Genesis => Len(branch[h]) = 1
  <2>0. TreeInv /\ 1 \in 1..Len(branch[h])
    BY <1>1 DEF IInv
  <2>1. Len(branch[branch[h][1]]) = 1
    BY <2>0 DEF TreeInv
  <2> QED
    BY <1>1, <2>1
<1>4. ASSUME Len(branch[h]) # 1 PROVE PPrev(h) \in Hash
  <2>0. PICK n \in Nat \ {0, 1} : n = Len(branch[h])
    BY <1>1, <1>4, Zenon
  <2>1. n - 1 \in 1..n
    OBVIOUS
  <2>2. \A i \in 1..n : branch[h][i] \in Hash
    BY <1>1, <2>0
  <2>3. PPrev(h) = branch[h][n - 1]
    BY <1>4, <2>0 DEF PPrev
  <2> QED
    BY <2>1, <2>2, <2>3
<1>5. /\ Len(branch[h]) # 1 => PPrev(h) = branch[h][Len(branch[h]) - 1]
      /\ Len(branch[h]) = 1 => PPrev(h) = NULL
  BY DEF PPrev
<1> QED
  BY <1>2, <1>3, <1>4, <1>5, HashAssumption

\* Blocks on one parent have the same work.
LEMMA SiblingWork ==
    ASSUME IInv, MInv, NEW g \in mapBlockIndex, NEW h \in mapBlockIndex, PPrev(g) = PPrev(h)
    PROVE  chainWork[g] = chainWork[h]
<1>1. g = Genesis <=> h = Genesis
  BY ParentFacts
<1>2. CASE g = Genesis
  BY <1>1, <1>2
<1>3. CASE g # Genesis
  <2>1. g \in Hash /\ h \in Hash /\ block[g] # NULL /\ block[h] # NULL
    BY DEF IInv, TypeOK, MInv, IndexInv
  <2>2. PICK p : p = PPrev(g)
    OBVIOUS
  <2>3. block[g].bits = Target(p) /\ chainWork[g] = chainWork[p] + block[g].bits
    BY <1>3, <2>1, <2>2 DEF MInv, IndexInv, BlockInv
  <2>4. block[h].bits = Target(p) /\ chainWork[h] = chainWork[p] + block[h].bits
    BY <1>1, <1>3, <2>1, <2>2 DEF MInv, IndexInv, BlockInv
  <2> QED
    BY <2>3, <2>4
<1> QED
  BY <1>2, <1>3

\* So a block beside the chain has no more work than the tip.
LEMMA LevelWork ==
    ASSUME IInv, MInv, NEW h \in mapBlockIndex, Len(branch[h]) <= Len(chain)
    PROVE  chain # <<>> /\ chainWork[h] <= chainWork[Tip]
<1>1. Len(branch[h]) \in Nat \ {0} /\ chain \in Seq(Hash) /\ chainWork[h] \in Nat
  BY BranchFacts DEF IInv, TypeOK
<1>2. PICK k : k = Len(branch[h])
  OBVIOUS
<1>3. k \in 1..Len(chain) /\ Len(chain) \in 1..Len(chain) /\ chain # <<>>
  BY <1>1, <1>2
<1>4. PICK a : a = chain[k]
  OBVIOUS
<1>5. /\ a \in mapBlockIndex /\ Len(branch[a]) = k
      /\ \A j \in 1..k : branch[a][j] = chain[j]
  BY <1>3, <1>4, ChainEntries DEF Active
<1>6. PPrev(a) = PPrev(h)
  <2>1. CASE k = 1
    BY <1>2, <1>5, <2>1 DEF PPrev
  <2>2. CASE k # 1
    <3>1. k - 1 \in 1..k /\ k - 1 \in 1..Len(branch[h]) - 1
      <4>1. k \in Nat \ {0, 1}
        BY <1>1, <1>2, <2>2, Zenon
      <4>2. k - 1 \in 1..k /\ k - 1 \in 1..k - 1
        BY <4>1
      <4> QED
        BY <1>2, <4>2
    <3>2. branch[h][k - 1] = chain[k - 1]
      BY <3>1 DEF MInv, FlatInv
    <3>3. PPrev(h) = branch[h][k - 1] /\ PPrev(a) = branch[a][k - 1]
      BY <1>2, <1>5, <2>2 DEF PPrev
    <3> QED
      BY <1>5, <3>1, <3>2, <3>3
  <2> QED
    BY <2>1, <2>2
<1>7. chainWork[h] = chainWork[a]
  BY <1>5, <1>6, SiblingWork
<1>8. PICK t : t = Tip
  OBVIOUS
<1>9. t = chain[Len(chain)] /\ t \in mapBlockIndex /\ chain = branch[t]
  BY <1>3, <1>8 DEF Tip, Last, IInv, ChainInv
<1>10. CASE k = Len(chain)
  BY <1>1, <1>4, <1>7, <1>8, <1>9, <1>10, <1>3
<1>11. CASE k # Len(chain)
  <2>1. k \in 1..Len(branch[t]) - 1 /\ branch[t][k] = a
    BY <1>1, <1>3, <1>4, <1>9, <1>11
  <2>2. chainWork[a] < chainWork[t]
    BY <1>9, <2>1 DEF IInv, WorkInv
  <2>3. chainWork[t] \in Nat
    BY <1>9, BranchFacts DEF IInv
  <2> QED
    BY <1>1, <1>3, <1>7, <1>8, <2>2, <2>3
<1> QED
  BY <1>10, <1>11

\* And a block with more work than the tip lies right on it.
LEMMA BetterIsOnTop ==
    ASSUME IInv, MInv, NEW new \in mapBlockIndex,
           chain # <<>> => chainWork[Tip] < chainWork[new]
    PROVE  Len(branch[new]) = Len(chain) + 1 /\ FindFork(new) = Len(chain)
<1>1. /\ new \in Hash /\ Len(branch[new]) \in Nat \ {0} /\ chain \in Seq(Hash)
      /\ chainWork[new] \in Nat
  BY BranchFacts DEF IInv, TypeOK
<1>2. chain # <<>> => chainWork[Tip] \in Nat
  BY BranchFacts DEF Tip, Last, IInv, ChainInv
<1>3. ~(Len(branch[new]) <= Len(chain))
  BY <1>1, <1>2, LevelWork
<1>4. /\ Len(branch[new]) <= Len(chain) + 1
      /\ \A i \in 1..Len(branch[new]) - 1 : chain[i] = branch[new][i]
  BY DEF MInv, FlatInv
<1>5. Len(branch[new]) = Len(chain) + 1 /\ Len(chain) \in Nat
  BY <1>1, <1>3, <1>4
<1>6. /\ FindFork(new) \in 0..Len(branch[new]) /\ FindFork(new) <= Len(chain)
      /\ \A i \in 1..Len(branch[new]) :
            i <= Len(chain) /\ chain[i] = branch[new][i] => i <= FindFork(new)
  BY <1>1, FindForkFacts DEF IInv
<1>7. Len(chain) <= FindFork(new)
  <2>1. CASE Len(chain) = 0
    BY <1>6, <2>1
  <2>2. CASE Len(chain) # 0
    <3>1. Len(chain) \in 1..Len(branch[new]) - 1 /\ Len(chain) \in 1..Len(branch[new])
      BY <1>5, <2>2
    <3>2. chain[Len(chain)] = branch[new][Len(chain)]
      BY <1>4, <3>1
    <3> QED
      BY <1>5, <1>6, <3>1, <3>2
  <2> QED
    BY <2>1, <2>2
<1> QED
  BY <1>5, <1>6, <1>7

\* A step of acceptBlock beyond its first part leaves the chain alone or puts
\* one block on top of it.
LEMMA ProceedGrows ==
    ASSUME IInv, IInv', MInv, Proceed
    PROVE  /\ UNCHANGED indexVars
           /\ Len(chain) <= Len(chain')
           /\ \A i \in 1..Len(chain) : chain'[i] = chain[i]
           /\ GrowInv'
<1>1. chain \in Seq(Hash) /\ Len(chain) \in Nat
  BY DEF IInv, TypeOK
<1>2. CASE LinkBlock
  <2>1. pc' = "find" /\ UNCHANGED indexVars /\ chain' = chain
    BY <1>2, LinkBlockQueue DEF LinkBlock
  <2> QED
    BY <1>1, <2>1 DEF GrowInv
<1>3. CASE FindMostWork
  <2>1. pc = "find" /\ UNCHANGED indexVars /\ chain' = chain
    BY <1>3 DEF FindMostWork
  <2>2. PICK new : new = Last(blockIndexCandidates)
    OBVIOUS
  <2>3. new \in EverLinked /\ blockIndexCandidates # <<>> /\ Unusable(new) = {}
    BY <2>1, <2>2, TopCandidate
  <2>4. pc' = "idle" \/ StartActivateStep(new)
    BY <1>3, <2>2, <2>3 DEF FindMostWork
  <2>5. CASE pc' = "idle"
    BY <1>1, <2>1, <2>5 DEF GrowInv
  <2>6. CASE StartActivateStep(new)
    <3>1. mostWork' = new /\ oldTip' = Tip /\ height' = FindFork(new) /\ pc' = "disconnect"
      BY <2>6 DEF StartActivateStep
    <3>2. OnlyBetter(mostWork, oldTip)'
      BY <3>1 DEF IInv, PhaseInv
    <3>3. chain # <<>> => Tip # NULL
      BY HashAssumption DEF IInv, ChainInv, TypeOK, Tip, Last
    <3>4. chain # <<>> => chainWork[Tip] < chainWork[new]
      BY <2>1, <3>1, <3>2, <3>3 DEF OnlyBetter, indexVars
    <3>5. new \in mapBlockIndex
      BY <2>3 DEF IInv, EverLinkedInv
    <3>6. Len(branch[new]) = Len(chain) + 1 /\ FindFork(new) = Len(chain)
      BY <3>4, <3>5, BetterIsOnTop
    <3>7. branch' = branch
      BY <2>1 DEF indexVars
    <3> QED
      BY <1>1, <2>1, <3>1, <3>6, <3>7 DEF GrowInv
  <2> QED
    BY <2>4, <2>5, <2>6
<1>4. ASSUME pc \in {"disconnect", "connect"}
      PROVE  /\ mostWork \in mapBlockIndex
             /\ branch[mostWork] \in Seq(Hash)
             /\ Len(branch[mostWork]) = Len(chain) + 1
             /\ \A i \in 1..Len(chain) : chain[i] = branch[mostWork][i]
  <2>1. mostWork \in mapBlockIndex
    BY <1>4 DEF IInv, PhaseInv, OnlyBetter, EverLinkedInv
  <2>2. branch[mostWork] \in Seq(Hash) /\ Len(branch[mostWork]) = Len(chain) + 1
    BY <1>4, <2>1, BranchFacts DEF IInv, MInv, GrowInv
  <2> QED
    BY <1>1, <2>1, <2>2 DEF MInv, FlatInv
<1>5. pc = "disconnect" => ~MustDisconnect
  <2> SUFFICES ASSUME pc = "disconnect", chain # <<>>
               PROVE  height # 0 /\ Tip = branch[mostWork][height]
    BY DEF MustDisconnect
  <2>1. height = Len(chain)
    BY DEF MInv, GrowInv
  <2>2. Len(chain) \in 1..Len(chain)
    BY <1>1
  <2> QED
    BY <1>4, <2>1, <2>2 DEF Tip, Last
<1>6. CASE DisconnectTip
  BY <1>5, <1>6 DEF DisconnectTip
<1>7. CASE BuildConnectList
  <2>1. pc = "disconnect" /\ height = Len(chain)
    BY <1>7 DEF BuildConnectList, MInv, GrowInv
  <2>2. UNCHANGED indexVars /\ chain' = chain /\ mostWork' = mostWork
    BY <1>7 DEF BuildConnectList
  <2>3. height # Len(branch[mostWork])
    BY <1>1, <1>4, <2>1
  <2>4. pc' = "connect"
    BY <1>7, <2>3 DEF BuildConnectList
  <2>5. height' = Len(branch[mostWork])
    <3>1. ~(height + Batch < Len(branch[mostWork]))
      BY <1>1, <1>4, <2>1, BatchAssumption
    <3> QED
      BY <1>7, <2>3, <3>1 DEF BuildConnectList
  <2>6. branch' = branch
    BY <2>2 DEF indexVars
  <2> QED
    BY <1>1, <1>4, <2>1, <2>2, <2>4, <2>5, <2>6 DEF GrowInv
<1>8. CASE ConnectTip
  <2>1. pc = "connect" /\ UNCHANGED indexVars
    BY <1>8 DEF ConnectTip
  <2>2. toConnect[1] = mostWork
    BY <2>1 DEF IInv, PhaseInv, MInv, GrowInv
  <2>3. chain' = branch[mostWork] /\ pc' = "idle"
    BY <1>8, <2>2, ConnectTipFacts
  <2> QED
    BY <1>1, <1>4, <2>1, <2>3 DEF GrowInv
<1> QED
  BY <1>2, <1>3, <1>6, <1>7, <1>8 DEF Proceed

-----------------------------------------------------------------------------
(* The invariant holds initially, and every step is one of ChainManager *)

LEMMA MInitInv == MInit => IInv /\ MInv
<1> SUFFICES ASSUME MInit PROVE IInv /\ MInv
  OBVIOUS
<1>1. IInv
  BY InitInv DEF MInit
<1>2. MTypeInv
  <2>1. clock \in Nat /\ block \in [Hash -> Block \cup {NULL}] /\ currentTransactions \in Seq(Tx)
    BY DEF MInit
  <2>2. <<>> \in Seq(Tx)
    OBVIOUS
  <2>3. /\ mpc \in [Miner -> {"start", "tip", "check", "create", "pack", "hash", "submit", "accept"}]
        /\ chainHeight \in [Miner -> Nat]
        /\ pLastBlock \in [Miner -> Hash \cup {NULL}]
        /\ timeval \in [Miner -> Nat]
        /\ bits \in [Miner -> Nat]
        /\ packed \in [Miner -> Seq(Tx)]
        /\ found \in [Miner -> Hash \cup {NULL}]
    BY <2>2 DEF MInit
  <2> QED
    BY <2>1, <2>3 DEF MTypeInv
<1>3. mapBlockIndex = {} /\ pc = "idle" /\ running = FALSE
  BY DEF MInit, Init
<1>4. \A h \in Hash : block[h] = NULL
  BY DEF MInit
<1>5. \A m \in Miner : mpc[m] = "start"
  BY DEF MInit
<1>6. FlatInv /\ GrowInv /\ StartInv /\ IndexInv
  BY <1>3 DEF FlatInv, GrowInv, StartInv, IndexInv
<1>7. BlockInv /\ MinerInv
  BY <1>4, <1>5, HashAssumption DEF BlockInv, MinerInv, MinerOK
<1> QED
  BY <1>1, <1>2, <1>6, <1>7 DEF MInv

\* What a thread submits is a block of its own.
LEMMA FoundFacts ==
    ASSUME IInv, MInv, NEW m \in Miner, mpc[m] = "submit", NEW b, b = found[m]
    PROVE  /\ b \in Hash \ {Genesis}
           /\ block[b] \in Block /\ block[b].bits \in Work
           /\ Active(block[b].prev)
<1>1. b \in Hash \ {Genesis} /\ block[b] # NULL
  BY DEF MInv, MinerInv, MinerOK
<1>2. block[b] \in Block
  BY <1>1 DEF MInv, MTypeInv
<1>3. block[b].bits \in Work
  BY <1>2 DEF Block
<1> QED
  BY <1>1, <1>2, <1>3 DEF MInv, BlockInv

LEMMA ProcessIsAccept ==
    ASSUME IInv, MInv, NEW m \in Miner, ProcessNewBlock(m)
    PROVE  Accept
<1>1. PICK b : b = found[m]
  OBVIOUS
<1>2. b \in Hash \ {Genesis} /\ block[b].bits \in Work
  BY <1>1, FoundFacts DEF ProcessNewBlock
<1>3. PICK ok \in BOOLEAN : ok = ValidBlock(block[b].txs)
  BY DEF ValidBlock
<1>4. CASE AcceptNewBlock(b, block[b].prev, block[b].bits, ok)
  <2>1. block[b].prev \in mapBlockIndex \cup {NULL}
    BY <1>4 DEF AcceptNewBlock
  <2> QED
    BY <1>2, <1>4, <2>1 DEF Accept
<1>5. CASE b \in mapBlockIndex /\ AcceptKnownBlock(b)
  BY <1>5 DEF Accept
<1>6. CASE RejectBlock
  BY <1>6 DEF Accept
<1> QED
  BY <1>1, <1>3, <1>4, <1>5, <1>6 DEF ProcessNewBlock

\* A step of a running node is a step of acceptBlock or leaves the manager alone.
LEMMA MNextIsNext ==
    ASSUME IInv, MInv, [MNext]_mvars
    PROVE  [Next]_vars
<1>1. ASSUME NEW w \in Work, CreateGenesisBlock(w) PROVE Next
  <2>1. AcceptNewBlock(Genesis, NULL, w, TRUE)
    BY <1>1 DEF CreateGenesisBlock
  <2> QED
    BY <2>1, HashAssumption DEF Next, Accept
<1>2. CASE Start \/ AdvanceClock \/ \E t \in Tx : CreateNewTransaction(t)
  BY <1>2 DEF Start, AdvanceClock, CreateNewTransaction
<1>3. ASSUME NEW m \in Miner, Build(m) PROVE [Next]_vars
  <2>1. CASE ProcessNewBlock(m)
    BY <2>1, ProcessIsAccept DEF Next
  <2>2. CASE Return(m)
    BY <2>2 DEF Return
  <2>3. CASE \/ ReadHeight(m) \/ ReadTip(m) \/ CheckHeight(m) \/ SetTarget(m)
             \/ PackTransactions(m) \/ NextExtraProof(m) \/ GiveUp(m)
    BY <2>3 DEF ReadHeight, ReadTip, CheckHeight, SetTarget, PackTransactions,
                NextExtraProof, GiveUp, Goto
  <2>4. CASE \E b \in Hash : FindProof(m, b)
    BY <2>4 DEF FindProof, Goto
  <2> QED
    BY <1>3, <2>1, <2>2, <2>3, <2>4 DEF Build
<1>4. CASE Activate
  BY <1>4 DEF Activate, Next
<1>5. CASE UNCHANGED mvars
  BY <1>5 DEF mvars
<1> QED
  BY <1>1, <1>2, <1>3, <1>4, <1>5 DEF MNext

-----------------------------------------------------------------------------
(* Every step preserves the invariant *)

\* Steps that leave the manager and the blocks alone disturb the threads only.
LEMMA QuietInv ==
    ASSUME IInv, MInv, UNCHANGED vars, block' = block, clock' \in {clock, clock + 1}, MTypeInv'
    PROVE  /\ IInv' /\ Grows
           /\ FlatInv' /\ GrowInv' /\ BlockInv' /\ IndexInv'
           /\ running' = running => StartInv'
<1>1. IInv' /\ Grows
  BY NextInv, StillGrows
<1>2. mapBlockIndex' = mapBlockIndex
  BY DEF vars
<1>3. GrowInv' /\ (running' = running => StartInv')
  BY DEF MInv, GrowInv, StartInv, vars
<1> QED
  BY <1>1, <1>2, <1>3, GrowsKeepsTree

\* A step of one thread that leaves the manager and the blocks alone.
LEMMA GotoInv ==
    ASSUME IInv, MInv, NEW m \in Miner, NEW from, NEW to, Goto(m, from, to),
           block' = block, MTypeInv', MinerOK(m)',
           \A n \in Miner : n # m =>
                /\ chainHeight'[n] = chainHeight[n] /\ pLastBlock'[n] = pLastBlock[n]
                /\ timeval'[n] = timeval[n] /\ bits'[n] = bits[n] /\ found'[n] = found[n]
    PROVE  MInv'
<1>1. UNCHANGED vars /\ clock' = clock /\ running' = running
  BY DEF Goto
<1>2. \A n \in Miner : n # m => mpc'[n] = mpc[n]
  BY DEF Goto, MInv, MTypeInv
<1>3. /\ IInv' /\ Grows
      /\ FlatInv' /\ GrowInv' /\ BlockInv' /\ IndexInv' /\ StartInv'
  BY <1>1, QuietInv
<1>4. ASSUME NEW n \in Miner PROVE MinerOK(n)'
  <2>1. CASE n = m
    BY <2>1
  <2>2. CASE n # m
    BY <1>2, <1>3, <2>2, GrowsKeepsMiner
  <2> QED
    BY <2>1, <2>2
<1> QED
  BY <1>3, <1>4 DEF MInv, MinerInv

\* No thread moves.
LEMMA SameMiners ==
    ASSUME IInv, IInv', MInv, MTypeInv', Grows, UNCHANGED <<mpc, buildVars>>
    PROVE  MinerInv'
<1>1. /\ mpc' = mpc /\ chainHeight' = chainHeight /\ pLastBlock' = pLastBlock
      /\ timeval' = timeval /\ bits' = bits /\ found' = found
  BY DEF buildVars
<1>2. ASSUME NEW m \in Miner PROVE MinerOK(m)'
  BY <1>1, GrowsKeepsMiner
<1> QED
  BY <1>2 DEF MinerInv

LEMMA AdvanceClockInv ==
    ASSUME IInv, MInv, AdvanceClock
    PROVE  MInv'
<1>1. /\ UNCHANGED vars /\ block' = block /\ clock' = clock + 1 /\ running' = running
      /\ UNCHANGED <<mpc, buildVars>>
  BY DEF AdvanceClock
<1>2. MTypeInv'
  BY DEF AdvanceClock, buildVars, MInv, MTypeInv
<1>3. /\ IInv' /\ Grows
      /\ FlatInv' /\ GrowInv' /\ BlockInv' /\ IndexInv' /\ StartInv'
  BY <1>1, <1>2, QuietInv
<1> QED
  BY <1>1, <1>2, <1>3, SameMiners DEF MInv

LEMMA StartStepInv ==
    ASSUME IInv, MInv, Start
    PROVE  MInv'
<1>1. UNCHANGED vars /\ block' = block /\ clock' = clock /\ UNCHANGED <<mpc, buildVars>>
  BY DEF Start
<1>2. MTypeInv'
  BY DEF Start, buildVars, MInv, MTypeInv
<1>3. /\ IInv' /\ Grows
      /\ FlatInv' /\ GrowInv' /\ BlockInv' /\ IndexInv'
  BY <1>1, <1>2, QuietInv
<1>4. StartInv'
  <2>1. chain # <<>>
    BY DEF Start, IInv, PhaseInv
  <2> QED
    BY <1>1, <2>1 DEF StartInv, vars
<1> QED
  BY <1>1, <1>2, <1>3, <1>4, SameMiners DEF MInv

LEMMA CreateNewTransactionInv ==
    ASSUME IInv, MInv, NEW t \in Tx, CreateNewTransaction(t)
    PROVE  MInv'
<1>1. /\ UNCHANGED vars /\ block' = block /\ clock' = clock /\ running' = running
      /\ UNCHANGED <<mpc, buildVars>>
  BY DEF CreateNewTransaction
<1>2. MTypeInv'
  <2>1. currentTransactions' \in Seq(Tx)
    BY DEF CreateNewTransaction, MInv, MTypeInv
  <2> QED
    BY <1>1, <2>1 DEF buildVars, MInv, MTypeInv
<1>3. /\ IInv' /\ Grows
      /\ FlatInv' /\ GrowInv' /\ BlockInv' /\ IndexInv' /\ StartInv'
  BY <1>1, <1>2, QuietInv
<1> QED
  BY <1>1, <1>2, <1>3, SameMiners DEF MInv

\* The places of build() that only read, or go back.
LEMMA ReadHeightInv ==
    ASSUME IInv, MInv, NEW m \in Miner, ReadHeight(m)
    PROVE  MInv'
<1>1. Len(chain) \in Nat
  BY DEF IInv, TypeOK
<1>2. MTypeInv'
  BY <1>1 DEF ReadHeight, Goto, MInv, MTypeInv
<1>3. MinerOK(m)'
  <2>1. mpc'[m] = "tip" /\ chainHeight'[m] = Len(chain) /\ chain' = chain
    BY DEF ReadHeight, Goto, MInv, MTypeInv, vars
  <2> QED
    BY <1>1, <2>1 DEF MinerOK
<1> QED
  BY <1>2, <1>3, GotoInv DEF ReadHeight, MInv, MTypeInv

LEMMA ReadTipInv ==
    ASSUME IInv, MInv, NEW m \in Miner, ReadTip(m)
    PROVE  MInv'
<1>1. chain \in Seq(Hash) /\ Len(chain) \in Nat
  BY DEF IInv, TypeOK
<1>2. running /\ chain # <<>>
  BY DEF ReadTip, Goto, MInv, StartInv
<1>3. Len(chain) \in 1..Len(chain) /\ Tip = chain[Len(chain)]
  BY <1>1, <1>2 DEF Tip, Last
<1>4. Active(Tip) /\ Tip \in Hash /\ Len(branch[Tip]) = Len(chain)
  BY <1>3, ChainEntries
<1>5. MTypeInv'
  BY <1>4 DEF ReadTip, Goto, MInv, MTypeInv
<1>6. MinerOK(m)'
  <2>1. /\ mpc[m] = "tip" /\ mpc'[m] = "check" /\ pLastBlock'[m] = Tip
        /\ chainHeight'[m] = chainHeight[m] /\ UNCHANGED vars
    BY DEF ReadTip, Goto, MInv, MTypeInv
  <2>2. chainHeight[m] <= Len(chain)
    BY <2>1 DEF MInv, MinerInv, MinerOK
  <2>3. PICK t : t = Tip
    OBVIOUS
  <2>4. Active(t)' /\ chainHeight'[m] <= Len(branch'[t]) /\ pLastBlock'[m] = t
    BY <1>4, <2>1, <2>2, <2>3 DEF Active, InChain, vars
  <2> QED
    BY <2>1, <2>4 DEF MinerOK
<1> QED
  BY <1>5, <1>6, GotoInv DEF ReadTip, MInv, MTypeInv

\* A thread that goes elsewhere and takes along what it knows of its block.
LEMMA MoveInv ==
    ASSUME IInv, MInv, NEW m \in Miner, NEW from, NEW to, Goto(m, from, to),
           UNCHANGED <<block, chainHeight, pLastBlock, timeval, bits, found>>,
           packed' \in [Miner -> Seq(Tx)],
           \/ to = "start"
           \/ from = "check" /\ to = "create"
           \/ from = "pack" /\ to = "hash"
           \/ from = "hash" /\ to = "check"
    PROVE  MInv'
<1>1. mpc[m] = from /\ mpc' = [mpc EXCEPT ![m] = to] /\ clock' = clock /\ UNCHANGED vars
      /\ currentTransactions' = currentTransactions
  BY DEF Goto
<1>2. MTypeInv'
  BY <1>1 DEF MInv, MTypeInv
<1>3. mpc'[m] = to /\ mpc \in [Miner -> {"start", "tip", "check", "create", "pack", "hash", "submit", "accept"}]
  BY <1>1 DEF MInv, MTypeInv
<1>4. MinerOK(m)'
  <2>1. MinerOK(m)
    BY DEF MInv, MinerInv
  <2>2. PICK p : p = pLastBlock[m]
    OBVIOUS
  <2>3. /\ Active(p)' <=> Active(p)
        /\ Target(p)' = Target(p)
        /\ branch' = branch
    BY <1>1 DEF Active, InChain, Target, IsRetarget, vars
  <2>4. pLastBlock'[m] = p
    BY <2>2
  <2>5. CASE to = "start"
    BY <1>3, <2>5 DEF MinerOK
  <2>6. CASE \/ from = "check" /\ to = "create"
             \/ from = "hash" /\ to = "check"
    <3>1. Active(p) /\ chainHeight[m] <= Len(branch[p])
      BY <1>1, <2>1, <2>2, <2>6 DEF MinerOK
    <3> QED
      BY <1>3, <2>3, <2>4, <2>6, <3>1 DEF MinerOK
  <2>7. CASE from = "pack" /\ to = "hash"
    <3>1. /\ Active(p) /\ chainHeight[m] <= Len(branch[p])
          /\ bits[m] = Target(p) /\ timeval[m] <= clock /\ block[p].timeval <= timeval[m]
      BY <1>1, <2>1, <2>2, <2>7 DEF MinerOK
    <3> QED
      BY <1>1, <1>3, <2>3, <2>4, <2>7, <3>1 DEF MinerOK
  <2> QED
    BY <2>5, <2>6, <2>7
<1> QED
  BY <1>2, <1>4, GotoInv

LEMMA SetTargetInv ==
    ASSUME IInv, MInv, NEW m \in Miner, SetTarget(m)
    PROVE  MInv'
<1>1. PICK p : p = pLastBlock[m]
  OBVIOUS
<1>2. /\ mpc[m] = "create" /\ mpc' = [mpc EXCEPT ![m] = "pack"] /\ UNCHANGED vars /\ clock' = clock
      /\ UNCHANGED <<block, chainHeight, pLastBlock, packed, found, currentTransactions>>
      /\ timeval' = [timeval EXCEPT ![m] = clock]
  BY DEF SetTarget, Goto
<1>3. Active(p) /\ chainHeight[m] <= Len(branch[p])
  BY <1>1, <1>2 DEF MInv, MinerInv, MinerOK
<1>4. bits' = [bits EXCEPT ![m] = Target(p)]
  <2>1. IsRetarget(p) => FirstOfCycle(p) = branch[p][Len(branch[p]) - Cycle + 1]
    BY <1>3, FirstIsAncestor
  <2> QED
    BY <1>1, <2>1 DEF SetTarget, Target
<1>5. Target(p) \in Work /\ Target(p) \in Nat /\ block[p] \in Block /\ clock \in Nat /\ p \in Hash
  BY <1>3, TargetType, ActiveFacts, WorkAssumption DEF MInv, MTypeInv
<1>6. MTypeInv'
  BY <1>2, <1>4, <1>5 DEF MInv, MTypeInv
<1>7. MinerOK(m)'
  <2>1. block[p].timeval <= clock
    BY <1>5, BlockAssumption DEF MInv, BlockInv
  <2>2. Active(p)' /\ Target(p)' = Target(p) /\ branch' = branch
    BY <1>2, <1>3 DEF Active, InChain, Target, IsRetarget, vars
  <2>3. /\ mpc'[m] = "pack" /\ timeval'[m] = clock /\ bits'[m] = Target(p) /\ pLastBlock'[m] = p
        /\ chainHeight'[m] = chainHeight[m]
    BY <1>1, <1>2, <1>4 DEF MInv, MTypeInv
  <2> QED
    BY <1>2, <1>3, <1>5, <2>1, <2>2, <2>3 DEF MinerOK
<1> QED
  BY <1>2, <1>4, <1>6, <1>7, GotoInv DEF SetTarget, MInv, MTypeInv

LEMMA FindProofInv ==
    ASSUME IInv, MInv, NEW m \in Miner, NEW b \in Hash, FindProof(m, b)
    PROVE  MInv'
<1>1. PICK p : p = pLastBlock[m]
  OBVIOUS
<1>2. PICK new : new = [prev |-> p, timeval |-> timeval[m], bits |-> bits[m], txs |-> packed[m]]
  OBVIOUS
<1>3. /\ mpc[m] = "hash" /\ mpc' = [mpc EXCEPT ![m] = "submit"]
      /\ UNCHANGED vars /\ clock' = clock /\ running' = running
      /\ UNCHANGED <<chainHeight, pLastBlock, timeval, bits, packed, currentTransactions>>
      /\ b # Genesis /\ block[b] \in {NULL, new}
      /\ block' = [block EXCEPT ![b] = new]
      /\ found' = [found EXCEPT ![m] = b]
  BY <1>1, <1>2 DEF FindProof, Goto
<1>4. /\ Active(p) /\ bits[m] = Target(p)
      /\ timeval[m] <= clock /\ block[p].timeval <= timeval[m]
  BY <1>1, <1>3 DEF MInv, MinerInv, MinerOK
<1>5. new \in Block /\ new # NULL
  <2>1. p \in Hash /\ bits[m] \in Work
    BY <1>4, ActiveFacts, TargetType
  <2>2. timeval[m] \in Nat /\ packed[m] \in Seq(Tx)
    BY DEF MInv, MTypeInv
  <2>3. new \in Block
    BY <1>2, <2>1, <2>2 DEF Block
  <2> QED
    BY <2>3, BlockAssumption
<1>6. MTypeInv'
  BY <1>3, <1>5 DEF MInv, MTypeInv
<1>7. IInv'
  BY <1>3, NextInv
<1>8. \A h \in Hash : /\ h # b => block'[h] = block[h]
                      /\ block'[b] = new
                      /\ block[h] # NULL => block'[h] = block[h]
  BY <1>3 DEF MInv, MTypeInv
<1>9. Grows
  <2>1. clock \in Nat /\ Len(chain) \in Nat
    BY DEF IInv, TypeOK, MInv, MTypeInv
  <2> QED
    BY <1>3, <1>8, <2>1 DEF Grows, vars
<1>10. FlatInv' /\ IndexInv'
  <2>1. mapBlockIndex' = mapBlockIndex
    BY <1>3 DEF vars
  <2> QED
    BY <1>7, <1>9, <2>1, GrowsKeepsEntry DEF FlatInv, IndexInv
<1>11. GrowInv' /\ StartInv'
  BY <1>3 DEF MInv, GrowInv, StartInv, vars
<1>12. BlockInv'
  <2>1. block'[Genesis] # NULL => Genesis \in mapBlockIndex'
    BY <1>3, <1>8, HashAssumption DEF MInv, BlockInv, vars
  <2>2. Active(p)' /\ Target(p)' = Target(p) /\ block'[p] = block[p]
    BY <1>4, <1>9, GrowsKeepsActive
  <2>3. /\ block'[b] = new /\ new.prev = p /\ new.bits = bits[m] /\ new.timeval = timeval[m]
    BY <1>2, <1>8
  <2>4. ASSUME NEW h \in Hash, block'[h] # NULL
        PROVE  /\ block'[h].timeval <= clock'
               /\ h # Genesis => /\ Active(block[h].prev)'
                                 /\ block'[h].bits = Target(block[h].prev)'
                                 /\ block'[block'[h].prev].timeval <= block'[h].timeval
    <3>1. CASE h = b
      <4>1. block'[h].prev = p /\ block'[h].bits = bits[m] /\ block'[h].timeval = timeval[m]
        BY <2>3, <3>1
      <4> QED
        BY <1>3, <1>4, <2>2, <4>1
    <3>2. CASE h # b
      <4>1. block'[h] = block[h]
        BY <1>8, <3>2
      <4>2. block[h] # NULL
        BY <2>4, <4>1
      <4> QED
        BY <1>6, <1>9, <4>1, <4>2, GrowsKeepsBlock
    <3> QED
      BY <3>1, <3>2
  <2> QED
    BY <2>1, <2>4 DEF BlockInv
<1>13. MinerInv'
  <2>1. ASSUME NEW n \in Miner PROVE MinerOK(n)'
    <3>1. CASE n = m
      <4>1. mpc'[n] = "submit" /\ found'[n] = b
        BY <1>3, <3>1 DEF MInv, MTypeInv
      <4> QED
        BY <1>3, <1>5, <1>8, <4>1 DEF MinerOK
    <3>2. CASE n # m
      <4>1. mpc'[n] = mpc[n] /\ found'[n] = found[n]
        BY <1>3, <3>2 DEF MInv, MTypeInv
      <4> QED
        BY <1>3, <1>6, <1>7, <1>9, <4>1, GrowsKeepsMiner
    <3> QED
      BY <3>1, <3>2
  <2> QED
    BY <2>1 DEF MinerInv
<1> QED
  BY <1>6, <1>10, <1>11, <1>12, <1>13 DEF MInv

\* A header that is indexed on top of an active block, or as the genesis block.
LEMMA AcceptNewFacts ==
    ASSUME IInv, MInv, NEW b \in Hash, NEW p, NEW w \in Work, NEW ok \in BOOLEAN,
           AcceptNewBlock(b, p, w, ok), p # NULL => Active(p)
    PROVE  /\ mapBlockIndex' = mapBlockIndex \cup {b} /\ b \notin mapBlockIndex
           /\ \A h \in mapBlockIndex : branch'[h] = branch[h] /\ chainWork'[h] = chainWork[h]
           /\ chain' = chain
           /\ GrowInv'
           /\ Len(branch'[b]) <= Len(chain') + 1
           /\ \A i \in 1..Len(branch'[b]) - 1 : chain'[i] = branch'[b][i]
           /\ p # NULL => PPrev(b)' = p /\ chainWork'[b] = chainWork'[p] + w
<1>1. /\ pc = "idle" /\ b \notin mapBlockIndex /\ chain' = chain
      /\ IF p = NULL THEN b = Genesis ELSE p \in mapBlockIndex
      /\ AddToBlockIndex(b, IF p = NULL THEN <<>> ELSE branch[p], w)
  BY DEF AcceptNewBlock
<1>2. /\ \A h \in mapBlockIndex : branch'[h] = branch[h] /\ chainWork'[h] = chainWork[h]
      /\ IF p = NULL
           THEN Len(branch'[b]) = 1
           ELSE /\ Len(branch'[b]) = Len(branch[p]) + 1
                /\ \A i \in 1..Len(branch[p]) : branch'[b][i] = branch[p][i]
  BY <1>1, AddKeepsTree DEF IInv
<1>3. mapBlockIndex' = mapBlockIndex \cup {b}
  BY <1>1 DEF AddToBlockIndex
<1>4. pc' \in {"idle", "link", "find"}
  BY <1>1 DEF AcceptNewBlock, ReceiveBlock
<1>5. chain \in Seq(Hash) /\ Len(chain) \in Nat
  BY DEF IInv, TypeOK
<1>6. CASE p = NULL
  <2>1. Len(branch'[b]) = 1
    BY <1>2, <1>6
  <2>2. /\ Len(branch'[b]) <= Len(chain') + 1
        /\ \A i \in 1..Len(branch'[b]) - 1 : chain'[i] = branch'[b][i]
    BY <1>1, <1>5, <2>1
  <2>3. GrowInv'
    BY <1>4 DEF GrowInv
  <2> QED
    BY <1>1, <1>2, <1>3, <1>6, <2>2, <2>3
<1>7. CASE p # NULL
  <2>1. PICK n : n = Len(branch[p])
    OBVIOUS
  <2>2. /\ n \in 1..Len(chain) /\ p \in Hash /\ p \in mapBlockIndex
        /\ \A j \in 1..n : branch[p][j] = chain[j]
    BY <1>7, <2>1, ActiveFacts DEF Active
  <2>3. Len(branch'[b]) = n + 1 /\ \A i \in 1..n : branch'[b][i] = branch[p][i]
    BY <1>2, <1>7, <2>1
  <2>4. /\ Len(branch'[b]) <= Len(chain') + 1
        /\ \A i \in 1..Len(branch'[b]) - 1 : chain'[i] = branch'[b][i]
    BY <1>1, <1>5, <2>2, <2>3
  <2>5. branch[p][n] = p /\ branch[p] # <<>> /\ Last(branch[p]) = p
    <3>1. branch[p] \in Seq(Hash) /\ branch[p][n] = p
      BY <2>1, <2>2, BranchFacts DEF IInv
    <3> QED
      BY <2>1, <2>2, <3>1 DEF Last
  <2>6. PPrev(b)' = p
    <3>1. n \in Nat \ {0} /\ n + 1 - 1 = n /\ n + 1 # 1 /\ n \in 1..n
      BY <2>2
    <3>2. PPrev(b)' = branch'[b][n]
      BY <2>3, <3>1 DEF PPrev
    <3> QED
      BY <2>3, <2>5, <3>1, <3>2
  <2>7. chainWork'[b] = chainWork[p] + w /\ chainWork'[p] = chainWork[p]
    <3>1. chainWork' = [chainWork EXCEPT ![b] = chainWork[p] + w]
      BY <1>1, <1>7, <2>5 DEF AddToBlockIndex
    <3> QED
      BY <1>2, <2>2, <3>1 DEF IInv, TypeOK
  <2> QED
    BY <1>1, <1>2, <1>3, <1>4, <2>4, <2>6, <2>7 DEF GrowInv
<1> QED
  BY <1>6, <1>7

\* Indexing the block b, of which BlockInv holds already.
LEMMA IndexedInv ==
    ASSUME IInv, IInv', MInv, MTypeInv', Grows, NEW b \in Hash,
           mapBlockIndex' = mapBlockIndex \cup {b},
           Len(branch'[b]) <= Len(chain') + 1,
           \A i \in 1..Len(branch'[b]) - 1 : chain'[i] = branch'[b][i],
           block'[b] # NULL,
           b # Genesis => /\ PPrev(b)' = block'[b].prev
                          /\ chainWork'[b] = chainWork'[PPrev(b)'] + block'[b].bits
    PROVE  FlatInv' /\ IndexInv'
<1>1. ASSUME NEW h \in mapBlockIndex'
      PROVE  /\ Len(branch'[h]) <= Len(chain') + 1
             /\ \A i \in 1..Len(branch'[h]) - 1 : chain'[i] = branch'[h][i]
             /\ block'[h] # NULL
             /\ h # Genesis => /\ PPrev(h)' = block'[h].prev
                               /\ chainWork'[h] = chainWork'[PPrev(h)'] + block'[h].bits
  <2>1. CASE h = b
    BY <2>1
  <2>2. CASE h \in mapBlockIndex
    BY <2>2, GrowsKeepsEntry
  <2> QED
    BY <1>1, <2>1, <2>2
<1> QED
  BY <1>1 DEF FlatInv, IndexInv

LEMMA ProcessNewBlockInv ==
    ASSUME IInv, MInv, NEW m \in Miner, ProcessNewBlock(m)
    PROVE  MInv'
<1>1. PICK b : b = found[m]
  OBVIOUS
<1>2. /\ mpc[m] = "submit" /\ mpc' = [mpc EXCEPT ![m] = "accept"]
      /\ UNCHANGED <<clock, running, block, currentTransactions>>
      /\ UNCHANGED <<chainHeight, pLastBlock, timeval, bits, packed, found>>
  BY DEF ProcessNewBlock, buildVars
<1>3. /\ b \in Hash \ {Genesis} /\ block[b] \in Block /\ block[b].bits \in Work
      /\ Active(block[b].prev) /\ block[b] # NULL
  BY <1>1, <1>2, FoundFacts, BlockAssumption
<1>4. MTypeInv'
  BY <1>2 DEF MInv, MTypeInv
<1>5. IInv'
  BY ProcessIsAccept, NextInv DEF Next
<1>6. clock \in Nat /\ Len(chain) \in Nat
  BY DEF IInv, TypeOK, MInv, MTypeInv
<1>7. /\ Grows /\ FlatInv' /\ GrowInv' /\ BlockInv' /\ IndexInv' /\ StartInv'
  <2>1. ASSUME UNCHANGED indexVars, chain' = chain, GrowInv'
        PROVE  /\ Grows /\ FlatInv' /\ GrowInv' /\ BlockInv' /\ IndexInv' /\ StartInv'
    <3>1. Grows /\ mapBlockIndex' = mapBlockIndex
      BY <1>2, <1>6, <2>1 DEF Grows, indexVars
    <3> QED
      BY <1>2, <1>4, <1>5, <2>1, <3>1, GrowsKeepsTree DEF MInv, StartInv
  <2>2. PICK ok \in BOOLEAN : ok = ValidBlock(block[b].txs)
    BY DEF ValidBlock
  <2>3. CASE AcceptNewBlock(b, block[b].prev, block[b].bits, ok)
    <3>1. PICK p : p = block[b].prev
      OBVIOUS
    <3>2. PICK w \in Work : w = block[b].bits
      BY <1>3
    <3>3. Active(p) /\ p # NULL /\ AcceptNewBlock(b, p, w, ok)
      BY <1>3, <2>3, <3>1, <3>2, ActiveFacts
    <3>4. /\ mapBlockIndex' = mapBlockIndex \cup {b} /\ b \notin mapBlockIndex
          /\ \A h \in mapBlockIndex : branch'[h] = branch[h] /\ chainWork'[h] = chainWork[h]
          /\ chain' = chain
          /\ GrowInv'
          /\ Len(branch'[b]) <= Len(chain') + 1
          /\ \A i \in 1..Len(branch'[b]) - 1 : chain'[i] = branch'[b][i]
          /\ PPrev(b)' = p /\ chainWork'[b] = chainWork'[p] + w
      BY <1>3, <3>3, AcceptNewFacts
    <3>5. Grows
      BY <1>2, <1>6, <3>4 DEF Grows
    <3>6. FlatInv' /\ IndexInv'
      <4>1. block' = block
        BY <1>2
      <4>2. PPrev(b)' = block'[b].prev /\ block'[b] # NULL
        BY <1>3, <3>1, <3>4, <4>1
      <4>3. chainWork'[b] = chainWork'[PPrev(b)'] + block'[b].bits
        BY <3>2, <3>4, <4>1
      <4> QED
        BY <1>3, <1>4, <1>5, <3>4, <3>5, <4>2, <4>3, IndexedInv
    <3>7. BlockInv'
      <4>1. block[Genesis] # NULL => Genesis \in mapBlockIndex'
        BY <3>4 DEF MInv, BlockInv
      <4> QED
        BY <1>2, <1>4, <3>5, <4>1, GrowsKeepsBlock DEF BlockInv
    <3>8. StartInv'
      BY <1>2, <3>4 DEF MInv, StartInv
    <3> QED
      BY <3>4, <3>5, <3>6, <3>7, <3>8
  <2>4. CASE AcceptKnownBlock(b)
    <3>1. UNCHANGED indexVars /\ chain' = chain
      BY <2>4 DEF AcceptKnownBlock
    <3>2. pc' \in {"link", "find"}
      BY <2>4 DEF AcceptKnownBlock, ReceiveBlock
    <3> QED
      BY <2>1, <3>1, <3>2 DEF GrowInv
  <2>5. CASE RejectBlock
    <3>1. UNCHANGED vars
      BY <2>5 DEF RejectBlock
    <3>2. UNCHANGED indexVars /\ chain' = chain /\ GrowInv'
      BY <3>1 DEF vars, indexVars, MInv, GrowInv
    <3> QED
      BY <2>1, <3>2
  <2> QED
    BY <1>1, <2>2, <2>3, <2>4, <2>5 DEF ProcessNewBlock
<1>8. ASSUME NEW n \in Miner PROVE MinerOK(n)'
  <2>1. CASE n = m
    <3>1. mpc'[n] = "accept" /\ found'[n] = b /\ block'[b] # NULL
      BY <1>1, <1>2, <1>3, <2>1 DEF MInv, MTypeInv
    <3> QED
      BY <1>3, <3>1 DEF MinerOK
  <2>2. CASE n # m
    <3>1. mpc'[n] = mpc[n]
      BY <1>2, <2>2 DEF MInv, MTypeInv
    <3> QED
      BY <1>2, <1>4, <1>5, <1>7, <3>1, GrowsKeepsMiner
  <2> QED
    BY <2>1, <2>2
<1> QED
  BY <1>4, <1>7, <1>8 DEF MInv, MinerInv

LEMMA ReturnInv ==
    ASSUME IInv, MInv, NEW m \in Miner, Return(m)
    PROVE  MInv'
<1>1. /\ mpc' = [mpc EXCEPT ![m] = "start"] /\ UNCHANGED vars
      /\ UNCHANGED <<clock, running, block>>
      /\ UNCHANGED <<chainHeight, pLastBlock, timeval, bits, packed, found>>
  BY DEF Return, buildVars
<1>2. currentTransactions' \in Seq(Tx)
  <2>1. PICK n : n = Len(block[found[m]].txs)
    OBVIOUS
  <2>2. currentTransactions \in Seq(Tx)
    BY DEF MInv, MTypeInv
  <2>3. CASE UNCHANGED currentTransactions
    BY <2>2, <2>3
  <2>4. CASE /\ n \in 1..Len(currentTransactions)
             /\ currentTransactions' =
                    SubSeq(currentTransactions, n + 1, Len(currentTransactions))
    BY <2>2, <2>4
  <2> QED
    BY <2>1, <2>3, <2>4 DEF Return
<1>3. MTypeInv'
  BY <1>1, <1>2 DEF MInv, MTypeInv
<1>4. /\ IInv' /\ Grows
      /\ FlatInv' /\ GrowInv' /\ BlockInv' /\ IndexInv' /\ StartInv'
  BY <1>1, <1>3, QuietInv
<1>5. ASSUME NEW n \in Miner PROVE MinerOK(n)'
  <2>1. CASE n = m
    <3>1. mpc'[n] = "start"
      BY <1>1, <2>1 DEF MInv, MTypeInv
    <3> QED
      BY <3>1 DEF MinerOK
  <2>2. CASE n # m
    <3>1. mpc'[n] = mpc[n]
      BY <1>1, <2>2 DEF MInv, MTypeInv
    <3> QED
      BY <1>1, <1>3, <1>4, <3>1, GrowsKeepsMiner
  <2> QED
    BY <2>1, <2>2
<1> QED
  BY <1>3, <1>4, <1>5 DEF MInv, MinerInv

LEMMA CreateGenesisBlockInv ==
    ASSUME IInv, MInv, NEW w \in Work, CreateGenesisBlock(w)
    PROVE  MInv'
<1>1. PICK new : new = [prev |-> NULL, timeval |-> clock, bits |-> w, txs |-> <<>>]
  OBVIOUS
<1>2. /\ block' = [block EXCEPT ![Genesis] = new]
      /\ mapBlockIndex = {} /\ AcceptNewBlock(Genesis, NULL, w, TRUE)
      /\ UNCHANGED <<clock, running, currentTransactions, mpc>>
      /\ UNCHANGED <<chainHeight, pLastBlock, timeval, bits, packed, found>>
  BY <1>1 DEF CreateGenesisBlock, buildVars
<1>3. clock \in Nat /\ new \in Block /\ new # NULL
  <2>1. clock \in Nat /\ <<>> \in Seq(Tx)
    BY DEF MInv, MTypeInv
  <2>2. new \in Block
    BY <1>1, <2>1 DEF Block
  <2> QED
    BY <2>1, <2>2, BlockAssumption
<1>4. MTypeInv'
  BY <1>2, <1>3, HashAssumption DEF MInv, MTypeInv
<1>5. IInv'
  <2>1. Next
    BY <1>2, HashAssumption DEF Next, Accept
  <2> QED
    BY <2>1, NextInv
<1>6. /\ mapBlockIndex' = mapBlockIndex \cup {Genesis}
      /\ \A h \in mapBlockIndex : branch'[h] = branch[h] /\ chainWork'[h] = chainWork[h]
      /\ chain' = chain
      /\ GrowInv'
      /\ Len(branch'[Genesis]) <= Len(chain') + 1
      /\ \A i \in 1..Len(branch'[Genesis]) - 1 : chain'[i] = branch'[Genesis][i]
  BY <1>2, HashAssumption, AcceptNewFacts
<1>7. \A h \in Hash : block[h] = NULL
  BY <1>2 DEF MInv, BlockInv, Active
<1>8. Grows
  <2>1. Len(chain) \in Nat
    BY DEF IInv, TypeOK
  <2> QED
    BY <1>2, <1>3, <1>6, <1>7, <2>1 DEF Grows
<1>9. block'[Genesis] = new /\ \A h \in Hash : h # Genesis => block'[h] = NULL
  BY <1>2, <1>7, HashAssumption DEF MInv, MTypeInv
<1>10. FlatInv' /\ IndexInv'
  BY <1>3, <1>4, <1>5, <1>6, <1>8, <1>9, HashAssumption, IndexedInv
<1>11. BlockInv'
  <2>1. new.timeval = clock
    BY <1>1
  <2> QED
    BY <1>2, <1>3, <1>6, <1>9, <2>1 DEF BlockInv
<1>12. StartInv'
  BY <1>2, <1>6 DEF MInv, StartInv
<1>13. MinerInv'
  BY <1>2, <1>4, <1>5, <1>8, SameMiners DEF buildVars
<1> QED
  BY <1>4, <1>6, <1>10, <1>11, <1>12, <1>13 DEF MInv

LEMMA ActivateInv ==
    ASSUME IInv, MInv, Activate
    PROVE  MInv'
<1>1. /\ Proceed
      /\ UNCHANGED <<clock, running, block, currentTransactions, mpc>>
      /\ UNCHANGED <<chainHeight, pLastBlock, timeval, bits, packed, found>>
  BY DEF Activate, minerVars, buildVars
<1>2. IInv'
  BY <1>1, NextInv DEF Next
<1>3. /\ UNCHANGED indexVars
      /\ Len(chain) <= Len(chain')
      /\ \A i \in 1..Len(chain) : chain'[i] = chain[i]
      /\ GrowInv'
  BY <1>1, <1>2, ProceedGrows
<1>4. MTypeInv'
  BY <1>1 DEF MInv, MTypeInv
<1>5. Grows /\ mapBlockIndex' = mapBlockIndex
  <2>1. clock \in Nat
    BY DEF MInv, MTypeInv
  <2> QED
    BY <1>1, <1>3, <2>1 DEF Grows, indexVars
<1>6. FlatInv' /\ BlockInv' /\ IndexInv'
  BY <1>1, <1>2, <1>4, <1>5, GrowsKeepsTree
<1>7. MinerInv'
  BY <1>1, <1>2, <1>4, <1>5, SameMiners DEF buildVars
<1>8. StartInv'
  <2>1. chain \in Seq(Hash) /\ chain' \in Seq(Hash)
    BY <1>2 DEF IInv, TypeOK
  <2>2. chain # <<>> => chain' # <<>>
    BY <1>3, <2>1
  <2> QED
    BY <1>1, <2>2 DEF MInv, StartInv
<1> QED
  BY <1>3, <1>4, <1>6, <1>7, <1>8 DEF MInv

LEMMA MNextInv ==
    ASSUME IInv, MInv, [MNext]_mvars
    PROVE  IInv' /\ MInv'
<1>1. IInv'
  BY MNextIsNext, NextInv
<1> SUFFICES MInv'
  BY <1>1
<1>2. CASE \E w \in Work : CreateGenesisBlock(w)
  BY <1>2, CreateGenesisBlockInv
<1>3. CASE Start \/ AdvanceClock \/ \E t \in Tx : CreateNewTransaction(t)
  BY <1>3, StartStepInv, AdvanceClockInv, CreateNewTransactionInv
<1>4. ASSUME NEW m \in Miner, Build(m) PROVE MInv'
  <2>1. CASE ReadHeight(m) \/ ReadTip(m) \/ SetTarget(m)
    BY <2>1, ReadHeightInv, ReadTipInv, SetTargetInv
  <2>2. CASE ProcessNewBlock(m) \/ Return(m) \/ \E b \in Hash : FindProof(m, b)
    BY <2>2, ProcessNewBlockInv, ReturnInv, FindProofInv
  <2>3. packed \in [Miner -> Seq(Tx)] /\ currentTransactions \in Seq(Tx)
    BY DEF MInv, MTypeInv
  <2>4. CASE CheckHeight(m)
    <3>1. UNCHANGED <<block, chainHeight, pLastBlock, timeval, bits, packed, found>>
      BY <2>4 DEF CheckHeight, buildVars
    <3>2. Goto(m, "check", "start") \/ Goto(m, "check", "create")
      BY <2>4 DEF CheckHeight
    <3> QED
      BY <2>3, <3>1, <3>2, MoveInv
  <2>5. CASE PackTransactions(m)
    <3>1. /\ UNCHANGED <<block, chainHeight, pLastBlock, timeval, bits, found>>
          /\ packed' \in [Miner -> Seq(Tx)] /\ Goto(m, "pack", "hash")
      BY <2>3, <2>5 DEF PackTransactions
    <3> QED
      BY <3>1, MoveInv
  <2>6. CASE NextExtraProof(m) \/ GiveUp(m)
    <3>1. UNCHANGED <<block, chainHeight, pLastBlock, timeval, bits, packed, found>>
      BY <2>6 DEF NextExtraProof, GiveUp, buildVars
    <3>2. Goto(m, "hash", "check") \/ Goto(m, "hash", "start")
      BY <2>6 DEF NextExtraProof, GiveUp
    <3> QED
      BY <2>3, <3>1, <3>2, MoveInv
  <2> QED
    BY <1>4, <2>1, <2>2, <2>4, <2>5, <2>6 DEF Build
<1>5. CASE Activate
  BY <1>5, ActivateInv
<1>6. CASE UNCHANGED mvars
  <2>1. /\ UNCHANGED vars /\ UNCHANGED <<clock, running, block, currentTransactions, mpc>>
        /\ UNCHANGED <<chainHeight, pLastBlock, timeval, bits, packed, found>>
    BY <1>6 DEF mvars, minerVars, buildVars
  <2>2. MTypeInv'
    BY <2>1 DEF MInv, MTypeInv
  <2>3. /\ IInv' /\ Grows
        /\ FlatInv' /\ GrowInv' /\ BlockInv' /\ IndexInv' /\ StartInv'
    BY <2>1, <2>2, QuietInv
  <2> QED
    BY <2>1, <2>2, <2>3, SameMiners DEF MInv, buildVars
<1> QED
  BY <1>1, <1>2, <1>3, <1>4, <1>5, <1>6 DEF MNext

-----------------------------------------------------------------------------
(* The times of the blocks *)

\* A block of the chain is not younger than its successor.
LEMMA SuccessorTime ==
    ASSUME IInv, MInv, NEW k \in 1..Len(chain) - 1
    PROVE  block[chain[k]].timeval <= block[chain[k + 1]].timeval
<1>1. Len(chain) \in Nat
  BY DEF IInv, TypeOK
<1>2. k \in 1..Len(chain) /\ k + 1 \in 1..Len(chain) /\ k \in 1..k + 1 /\ k + 1 # 1 /\ k + 1 - 1 = k
  BY <1>1
<1>3. PICK h : h = chain[k + 1]
  OBVIOUS
<1>4. /\ h \in mapBlockIndex /\ h \in Hash
      /\ Len(branch[h]) = k + 1
      /\ branch[h][k] = chain[k]
  BY <1>2, <1>3, ChainEntries DEF Active
<1>5. PPrev(h) = chain[k] /\ h # Genesis
  <2>1. PPrev(h) = branch[h][k]
    BY <1>2, <1>4 DEF PPrev
  <2> QED
    BY <1>2, <1>4, <2>1, ParentFacts
<1>6. block[h] # NULL /\ block[h].prev = chain[k]
  BY <1>4, <1>5 DEF MInv, IndexInv
<1> QED
  BY <1>3, <1>4, <1>5, <1>6 DEF MInv, BlockInv

LEMMA ChainTimeType ==
    ASSUME IInv, MInv, NEW i \in 1..Len(chain)
    PROVE  /\ block[chain[i]] \in Block
           /\ block[chain[i]].timeval \in Nat
<1>1. block[chain[i]] \in Block
  BY ChainEntries, TargetType
<1> QED
  BY <1>1 DEF Block

\* So the times do not fall from one end of the chain to the other.
LEMMA ChainTimes ==
    ASSUME IInv, MInv, NEW i \in 1..Len(chain), NEW j \in 1..Len(chain), i <= j
    PROVE  block[chain[i]].timeval <= block[chain[j]].timeval
<1> DEFINE T(k) == block[chain[k]].timeval
           Bad == {k \in i..Len(chain) : ~(T(i) <= T(k))}
<1>1. Len(chain) \in Nat
  BY DEF IInv, TypeOK
<1>2. \A k \in 1..Len(chain) : T(k) \in Nat
  BY ChainTimeType
<1>3. \A k \in 1..Len(chain) - 1 : T(k) <= T(k + 1)
  BY SuccessorTime
<1> HIDE DEF T
<1>4. Bad = {}
  <2> SUFFICES ASSUME Bad # {} PROVE FALSE
    OBVIOUS
  <2>1. Bad \in SUBSET Nat
    BY <1>1
  <2>2. PICK m \in Bad : \A y \in Bad : m <= y
    BY <2>1, LeastNatural
  <2>3. m \in i..Len(chain) /\ ~(T(i) <= T(m))
    OBVIOUS
  <2>4. m # i
    BY <1>2, <2>3
  <2>5. m - 1 \in i..Len(chain) /\ m - 1 \in 1..Len(chain) - 1 /\ m - 1 + 1 = m /\ m \in 1..Len(chain)
    BY <1>1, <2>3, <2>4
  <2>6. m - 1 \notin Bad
    BY <1>1, <2>2, <2>3
  <2>7. T(i) <= T(m - 1) /\ T(m - 1) <= T(m)
    BY <1>3, <2>5, <2>6
  <2>8. T(i) \in Nat /\ T(m - 1) \in Nat /\ T(m) \in Nat
    BY <1>1, <1>2, <2>5
  <2> QED
    BY <2>3, <2>7, <2>8
<1>5. j \in i..Len(chain)
  BY <1>1
<1> QED
  BY <1>4, <1>5 DEF T

\* Of times that do not rise, the middle one is a median, so there is one.
LEMMA MedianExists ==
    ASSUME NEW n \in Nat \ {0}, NEW t \in [1..n -> Nat],
           \A i, j \in 1..n : i <= j => t[j] <= t[i]
    PROVE  \E v \in {t[i] : i \in 1..n} :
                /\ Cardinality({i \in 1..n : t[i] < v}) <= n \div 2
                /\ Cardinality({i \in 1..n : t[i] <= v}) > n \div 2
<1> DEFINE h == n \div 2
           k == n - h
           v == t[k]
           Below == {i \in 1..n : t[i] < v}
           UpTo == {i \in 1..n : t[i] <= v}
<1>1. h \in Nat /\ k \in 1..n /\ k + h = n
  OBVIOUS
<1> HIDE DEF h, k
<1>a. k \in Int /\ k + 1 \in Int /\ n \in Int
  BY <1>1
<1>2. v \in Nat /\ \A i \in 1..n : t[i] \in Nat
  BY <1>1
<1>3. Below \in SUBSET (k + 1..n)
  <2> SUFFICES ASSUME NEW i \in 1..n, t[i] < v PROVE i > k
    BY <1>1
  <2>1. ~(i <= k)
    BY <1>1, <1>2
  <2> QED
    BY <1>1, <2>1
<1>4. Cardinality(Below) <= h
  <2>1. IsFiniteSet(k + 1..n) /\ Cardinality(k + 1..n) = IF k + 1 > n THEN 0 ELSE n - (k + 1) + 1
    BY <1>a, FS_Interval, Zenon
  <2>2. Cardinality(k + 1..n) = h
    BY <1>1, <2>1
  <2> HIDE DEF Below
  <2>3. Cardinality(Below) <= Cardinality(k + 1..n)
    BY <1>3, <2>1, FS_Subset
  <2> QED
    BY <2>2, <2>3
<1>5. k..n \in SUBSET UpTo
  BY <1>1
<1>6. Cardinality(UpTo) > h
  <2>1. IsFiniteSet(k..n) /\ Cardinality(k..n) = IF k > n THEN 0 ELSE n - k + 1
    BY <1>a, FS_Interval, Zenon
  <2>2. Cardinality(k..n) = h + 1
    BY <1>1, <2>1
  <2>3. IsFiniteSet(1..n) /\ UpTo \in SUBSET (1..n)
    BY FS_Interval
  <2> HIDE DEF UpTo
  <2>4. IsFiniteSet(UpTo) /\ Cardinality(UpTo) \in Nat
    BY <2>3, FS_Subset, FS_CardinalityType
  <2>5. Cardinality(k..n) <= Cardinality(UpTo)
    BY <1>5, <2>4, FS_Subset
  <2> QED
    BY <1>1, <2>2, <2>4, <2>5
<1>7. v \in {t[i] : i \in 1..n}
  BY <1>1
<1> QED
  BY <1>4, <1>6, <1>7 DEF h

\* The median is the time of a block of the chain.
LEMMA MedianOfChain ==
    ASSUME IInv, MInv, chain # <<>>
    PROVE  \E i \in 1..Len(chain) : GetMedianBlockTimePastInChain = block[chain[i]].timeval
<1> DEFINE n == IF Len(chain) < TimeRange THEN Len(chain) ELSE TimeRange
           T(i) == block[chain[Len(chain) + 1 - i]].timeval
           t == [i \in 1..n |-> T(i)]
           P(u, v) == /\ Cardinality({i \in 1..n : u[i] < v}) <= n \div 2
                      /\ Cardinality({i \in 1..n : u[i] <= v}) > n \div 2
<1>1. chain \in Seq(Hash)
  BY DEF IInv, TypeOK
<1>2. Len(chain) \in Nat \ {0}
  BY <1>1
<1>3. n \in Nat \ {0} /\ n <= Len(chain)
  <2>1. TimeRange \in Nat \ {0}
    BY TimeAssumption
  <2>2. Len(chain) \in Nat /\ Len(chain) > 0
    BY <1>2
  <2> QED
    BY <2>1, <2>2
<1>4. GetMedianBlockTimePastInChain = CHOOSE v \in {t[i] : i \in 1..n} : P(t, v)
  BY <1>3 DEF GetMedianBlockTimePastInChain
<1> HIDE DEF n
<1>5. \A i \in 1..n : Len(chain) + 1 - i \in 1..Len(chain)
  BY <1>2, <1>3
<1>6. \A i \in 1..n : T(i) \in Nat
  BY <1>5, ChainTimeType
<1>7. \A i, j \in 1..n : i <= j => T(j) <= T(i)
  <2> SUFFICES ASSUME NEW i \in 1..n, NEW j \in 1..n, i <= j PROVE T(j) <= T(i)
    OBVIOUS
  <2>1. Len(chain) + 1 - j <= Len(chain) + 1 - i
    BY <1>2, <1>3
  <2> QED
    BY <1>5, <2>1, ChainTimes
<1> HIDE DEF T
<1>8. t \in [1..n -> Nat] /\ \A i, j \in 1..n : i <= j => t[j] <= t[i]
  BY <1>6, <1>7
<1> HIDE DEF t
<1>9. \E v \in {t[i] : i \in 1..n} : P(t, v)
  BY <1>3, <1>8, MedianExists
<1> HIDE DEF P
<1>10. GetMedianBlockTimePastInChain \in {t[i] : i \in 1..n}
  BY <1>4, <1>9, Zenon
<1>11. PICK i \in 1..n : GetMedianBlockTimePastInChain = t[i]
  BY <1>10
<1>12. t[i] = T(i)
  BY DEF t
<1> QED
  BY <1>5, <1>11, <1>12 DEF T

-----------------------------------------------------------------------------
(* The theorems *)

\* Every behaviour of the constructor, Blockchain::start and the threads keeps
\* the invariant of the manager and that of the threads.
THEOREM MiningInvariance == MSpec => [](IInv /\ MInv)
<1>1. (IInv /\ MInv) /\ [MNext]_mvars => (IInv /\ MInv)'
  BY MNextInv
<1> QED
  BY <1>1, MInitInv, PTL DEF MSpec

\* A running node is one use of ChainManager: whatever the threads submit, and
\* when, is a call that ChainManager allows, so its theorems hold of the node.
THEOREM MiningImplementsManager == MSpec => Spec
<1>1. MInit => Init
  BY DEF MInit
<1>2. (IInv /\ MInv) /\ [MNext]_mvars => [Next]_vars
  BY MNextIsNext
<1> QED
  BY <1>1, <1>2, MiningInvariance, PTL DEF MSpec, Spec

\* Only a step of activateBestChain touches the chain, and it adds to it.
LEMMA MNextGrowsChain ==
    ASSUME IInv, MInv, [MNext]_mvars
    PROVE  IsPrefix(chain, chain')
<1>1. IInv'
  BY MNextInv
<1>2. chain \in Seq(Hash) /\ chain' \in Seq(Hash)
  BY <1>1 DEF IInv, TypeOK
<1>3. CASE Activate
  <2>1. /\ Len(chain) <= Len(chain')
        /\ \A i \in 1..Len(chain) : chain'[i] = chain[i]
    BY <1>1, <1>3, ProceedGrows DEF Activate
  <2>2. \A i \in 1..Len(chain) : i \in 1..Len(chain') /\ chain'[i] \in Hash /\ chain[i] \in Hash
    BY <1>2, <2>1
  <2>3. Len(chain) \in Nat
    BY <1>2
  <2>4. CASE Len(chain) = 0
    <3>1. SubSeq(chain, 1, 0) = <<>> /\ SubSeq(chain', 1, 0) = <<>>
      BY SubSeqEmpty
    <3> QED
      BY <2>1, <2>4, <3>1 DEF IsPrefix
  <2>5. CASE Len(chain) # 0
    <3>1. 1 <= Len(chain) /\ 1 \in Int /\ Len(chain) \in Int /\ Len(chain) - 1 + 1 = Len(chain)
      BY <2>3, <2>5
    <3>2. /\ SubSeq(chain, 1, Len(chain)) \in Seq(Hash)
          /\ Len(SubSeq(chain, 1, Len(chain))) = Len(chain)
          /\ \A i \in 1..Len(chain) : SubSeq(chain, 1, Len(chain))[i] = chain[i]
      BY <1>2
    <3>3. /\ SubSeq(chain', 1, Len(chain)) \in Seq(Hash)
          /\ Len(SubSeq(chain', 1, Len(chain))) = Len(chain)
          /\ \A i \in 1..Len(chain) : SubSeq(chain', 1, Len(chain))[i] = chain'[i]
      BY <1>2, <2>1
    <3>4. SubSeq(chain, 1, Len(chain)) = SubSeq(chain', 1, Len(chain))
      BY <2>1, <3>2, <3>3, SeqEqual
    <3> QED
      BY <2>1, <3>4 DEF IsPrefix
  <2> QED
    BY <2>4, <2>5
<1>4. CASE chain' = chain
  BY <1>2, <1>4 DEF IsPrefix
<1>5. Activate \/ chain' = chain
  <2>1. ASSUME NEW w \in Work, CreateGenesisBlock(w) PROVE chain' = chain
    BY <2>1 DEF CreateGenesisBlock, AcceptNewBlock
  <2>2. CASE Start \/ AdvanceClock \/ \E t \in Tx : CreateNewTransaction(t)
    BY <2>2 DEF Start, AdvanceClock, CreateNewTransaction, vars
  <2>3. ASSUME NEW m \in Miner, Build(m) PROVE chain' = chain
    <3>1. CASE ProcessNewBlock(m)
      BY <3>1 DEF ProcessNewBlock, AcceptNewBlock, AcceptKnownBlock, RejectBlock, vars
    <3>2. CASE Return(m)
      BY <3>2 DEF Return, vars
    <3>3. CASE \/ ReadHeight(m) \/ ReadTip(m) \/ CheckHeight(m) \/ SetTarget(m)
               \/ PackTransactions(m) \/ NextExtraProof(m) \/ GiveUp(m)
      BY <3>3 DEF ReadHeight, ReadTip, CheckHeight, SetTarget, PackTransactions,
                  NextExtraProof, GiveUp, Goto, vars
    <3>4. CASE \E b \in Hash : FindProof(m, b)
      BY <3>4 DEF FindProof, Goto, vars
    <3> QED
      BY <2>3, <3>1, <3>2, <3>3, <3>4 DEF Build
  <2>4. CASE UNCHANGED mvars
    BY <2>4 DEF mvars, vars
  <2> QED
    BY <2>1, <2>2, <2>3, <2>4 DEF MNext
<1> QED
  BY <1>3, <1>4, <1>5

\* A node that only mines never reorganises, for any number of threads and any
\* order of their submissions (consensus.cpp:212).
THEOREM ChainOnlyGrows == MSpec => AppendOnly
<1>1. (IInv /\ MInv) /\ [MNext]_mvars => [IsPrefix(chain, chain')]_mvars
  BY MNextGrowsChain
<1> QED
  BY <1>1, MiningInvariance, PTL DEF MSpec, AppendOnly

\* The comparison of heights at the head of build()'s loop is a comparison of
\* tips (consensus.cpp:149).
THEOREM ThreadsWorkOnTip == MSpec => WorksOnTip
<1> DEFINE W == \A m \in Miner : mpc[m] = "check" /\ mpc'[m] = "create" => pLastBlock[m] = Tip
<1>1. (IInv /\ MInv) /\ [MNext]_mvars => [W]_mvars
  <2> SUFFICES ASSUME IInv, MInv, MNext, NEW m \in Miner, mpc[m] = "check", mpc'[m] = "create"
               PROVE  pLastBlock[m] = Tip
    OBVIOUS
  <2>1. CASE CheckHeight(m)
    <3>1. chainHeight[m] = Len(chain)
      BY <2>1 DEF CheckHeight, Goto, MInv, MTypeInv
    <3>2. PICK p : p = pLastBlock[m]
      OBVIOUS
    <3>3. Active(p) /\ chainHeight[m] <= Len(branch[p])
      BY <3>2 DEF MInv, MinerInv, MinerOK
    <3>4. /\ Len(branch[p]) \in 1..Len(chain) /\ Len(chain) \in Nat /\ chain[Len(branch[p])] = p
      BY <3>3, ActiveFacts
    <3>5. chain[Len(chain)] = p /\ chain # <<>>
      BY <3>1, <3>3, <3>4
    <3> QED
      BY <3>2, <3>5 DEF Tip, Last
  <2>2. ASSUME NEW n \in Miner, Build(n), ~CheckHeight(m) PROVE FALSE
    <3>1. ASSUME NEW from, NEW to, Goto(n, from, to) PROVE n = m /\ from = "check" /\ to = "create"
      BY <3>1 DEF Goto, MInv, MTypeInv
    <3>2. CASE ReadHeight(n) \/ ReadTip(n) \/ SetTarget(n) \/ PackTransactions(n)
      BY <3>1, <3>2 DEF ReadHeight, ReadTip, SetTarget, PackTransactions
    <3>3. CASE NextExtraProof(n) \/ GiveUp(n) \/ \E b \in Hash : FindProof(n, b)
      BY <3>1, <3>3 DEF NextExtraProof, GiveUp, FindProof
    <3>4. CASE CheckHeight(n)
      <4>1. n = m
        BY <3>1, <3>4 DEF CheckHeight
      <4> QED
        BY <2>2, <3>4, <4>1
    <3>5. CASE ProcessNewBlock(n) \/ Return(n)
      BY <3>5 DEF ProcessNewBlock, Return, MInv, MTypeInv
    <3> QED
      BY <2>2, <3>2, <3>3, <3>4, <3>5 DEF Build
  <2>3. CASE Start \/ AdvanceClock \/ Activate \/ (\E t \in Tx : CreateNewTransaction(t))
             \/ \E w \in Work : CreateGenesisBlock(w)
    BY <2>3 DEF Start, AdvanceClock, Activate, minerVars, CreateNewTransaction, CreateGenesisBlock
  <2> QED
    BY <2>1, <2>2, <2>3 DEF MNext
<1> QED
  BY <1>1, MiningInvariance, PTL DEF MSpec, WorksOnTip

\* getNextWorkTarget finds the first block of its cycle on the active chain,
\* among the ancestors of the block it extends, and no younger than it.
THEOREM RetargetsAreAnchored == MSpec => []RetargetAnchored
<1>1. IInv /\ MInv => RetargetAnchored
  <2> SUFFICES ASSUME IInv, MInv, NEW m \in Miner, mpc[m] = "create", NEW last,
                      last = pLastBlock[m], IsRetarget(last)
               PROVE  /\ FirstOfCycle(last) = branch[last][Len(branch[last]) - Cycle + 1]
                      /\ block[FirstOfCycle(last)].timeval <= block[last].timeval
    BY DEF RetargetAnchored
  <2>1. Active(last)
    BY DEF MInv, MinerInv, MinerOK
  <2>2. PICK k : k = Len(branch[last]) - Cycle + 1
    OBVIOUS
  <2>3. k \in 1..Len(branch[last]) /\ FirstOfCycle(last) = branch[last][k] /\ branch[last][k] = chain[k]
    BY <2>1, <2>2, FirstIsAncestor
  <2>4. PICK n : n = Len(branch[last])
    OBVIOUS
  <2>5. n \in 1..Len(chain) /\ Len(chain) \in Nat /\ chain[n] = last
    BY <2>1, <2>4, ActiveFacts
  <2>6. k \in 1..Len(chain) /\ k <= n
    BY <2>3, <2>4, <2>5
  <2>7. block[chain[k]].timeval <= block[chain[n]].timeval
    BY <2>5, <2>6, ChainTimes
  <2> QED
    BY <2>2, <2>3, <2>5, <2>7
<1> QED
  BY <1>1, MiningInvariance, PTL

\* A block for the present tip passes validBlockTime whenever it is submitted.
THEOREM TipBlocksAreInTime == MSpec => []TipBlockInTime
<1>1. IInv /\ MInv => TipBlockInTime
  <2> SUFFICES ASSUME IInv, MInv, NEW m \in Miner, mpc[m] = "submit", NEW b, b = found[m],
                      block[b].prev = Tip
               PROVE  ValidBlockTime(block[b].timeval)
    BY DEF TipBlockInTime
  <2>1. /\ b \in Hash \ {Genesis} /\ block[b] \in Block /\ Active(Tip) /\ block[b] # NULL
    BY FoundFacts, BlockAssumption
  <2>2. chain \in Seq(Hash) /\ chain # <<>>
    BY <2>1, HashAssumption DEF Tip, Active, IInv, TypeOK
  <2>3. Len(chain) \in 1..Len(chain) /\ Len(chain) \in Nat /\ Tip = chain[Len(chain)]
    BY <2>2 DEF Tip, Last
  <2>4. /\ block[b].timeval <= clock /\ block[Tip].timeval <= block[b].timeval
    BY <2>1 DEF MInv, BlockInv
  <2>5. PICK i \in 1..Len(chain) : GetMedianBlockTimePastInChain = block[chain[i]].timeval
    BY <2>2, MedianOfChain
  <2>6. block[chain[i]].timeval <= block[Tip].timeval
    BY <2>3, <2>5, ChainTimes
  <2>7. /\ block[b].timeval \in Nat /\ clock \in Nat /\ block[Tip].timeval \in Nat
        /\ block[chain[i]].timeval \in Nat
    BY <2>1, <2>3, ChainTimeType DEF Block, MInv, MTypeInv
  <2> QED
    BY <2>4, <2>5, <2>6, <2>7 DEF ValidBlockTime
<1> QED
  BY <1>1, MiningInvariance, PTL

\* Blocks on one parent ask for the same work, whichever thread made them.
THEOREM SiblingsShowSameWork == MSpec => []SiblingsAgree
<1>1. IInv /\ MInv => SiblingsAgree
  BY SiblingWork DEF SiblingsAgree
<1> QED
  BY <1>1, MiningInvariance, PTL
=============================================================================
