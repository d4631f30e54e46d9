------------------------------ MODULE TreeProofs ------------------------------
(***************************************************************************)
(* Proofs about the two trees of the block chain: SkipList, for every      *)
(* height and every place of the fork, and Merkle, for lists of every      *)
(* length.                                                                 *)
(*                                                                         *)
(* SkipList: skip pointers lead to ancestors, and getAncestor, which       *)
(* follows them, finds what the parents lead to, in a number of rounds     *)
(* that grows with the square of the number of bits of the height (the     *)
(* last part of the module).                                               *)
(*                                                                         *)
(* Merkle: the bits of the number of leaves say which complete subtrees    *)
(* the calculator keeps; from there the root, the branch and the test      *)
(* against duplicates are those of the levelwise tree, and a root stands   *)
(* for one list.                                                           *)
(***************************************************************************)
EXTENDS SkipList, Merkle, NaturalLemmas, SequenceTheorems, TLAPS

-----------------------------------------------------------------------------
(* Heights to skip to *)

\* A multiple of p that is none of 2p leaves p.
LEMMA HalfRemainder ==
    ASSUME NEW n \in Nat, NEW p \in Nat, p > 0, n % p = 0, n % (2 * p) # 0
    PROVE  n % (2 * p) = p
<1>1. PICK d \in Nat : d = 2 * p /\ d > 0
  OBVIOUS
<1>2. PICK a \in Nat, r \in Nat : r = n % d /\ n = a * d + r /\ r < d
  <2>1. n \div d \in Nat /\ n = (n \div d) * d + (n % d) /\ n % d \in 0..d - 1
    BY <1>1, DivFacts
  <2>2. n % d \in Nat /\ n % d < d
    BY <1>1, <2>1
  <2> QED
    BY <2>1, <2>2
<1>3. r = n % (2 * p) /\ r # 0
  BY <1>1, <1>2
<1>4. n = a * d + r /\ r < d
  BY <1>2
<1>5. PICK q \in Nat : n = q * p
  <2>1. n \div p \in Nat /\ n = (n \div p) * p + (n % p)
    BY DivFacts
  <2> QED
    BY <2>1
<1>6. PICK j \in Int : j = q - 2 * a
  OBVIOUS
<1>7. r = j * p
  <2>1. q * p = (2 * a + j) * p
    BY <1>6
  <2>2. (2 * a + j) * p = a * (2 * p) + j * p
    OBVIOUS
  <2> QED
    BY <1>1, <1>4, <1>5, <2>1, <2>2
<1>8. r > 0 /\ r < 2 * p
  BY <1>1, <1>3, <1>4
<1>9. ~(j <= 0)
  <2> SUFFICES ASSUME j <= 0 PROVE FALSE
    OBVIOUS
  <2>1. 0 - j \in Nat /\ (0 - j) * p \in Nat /\ (0 - j) * p = 0 - j * p
    OBVIOUS
  <2> QED
    BY <1>7, <1>8, <2>1
<1>10. ~(j >= 2)
  <2> SUFFICES ASSUME j >= 2 PROVE FALSE
    OBVIOUS
  <2>1. 2 * p <= j * p
    BY TimesMono
  <2> QED
    BY <1>7, <1>8, <2>1
<1>11. j = 1
  BY <1>9, <1>10
<1>12. r = p
  BY <1>7, <1>11
<1> QED
  BY <1>3, <1>12

\* A number has a lowest bit, and is smaller without it.
LEMMA LowestOne ==
    ASSUME NEW n \in 1..Pow2[HeightBits] - 1
    PROVE  InvertLowestOne(n) \in 0..n - 1
<1> DEFINE P(k) == n % Pow2[k + 1] # 0
           S    == {k \in Nat : P(k)}
           Low  == {Pow2[k] : k \in 0..HeightBits}
<1>1. /\ Pow2[HeightBits] \in Nat /\ HeightBits \in Nat /\ HeightBits >= 1
      /\ n \in Nat /\ n # 0 /\ n < Pow2[HeightBits]
  BY Pow2Positive, SkipListAssumption
<1>2. HeightBits - 1 \in S
  <2>1. n % Pow2[HeightBits] = n
    BY <1>1, ModSmall
  <2>2. HeightBits - 1 + 1 = HeightBits /\ HeightBits - 1 \in Nat
    BY <1>1
  <2>3. n % Pow2[HeightBits - 1 + 1] # 0
    BY <1>1, <2>1, <2>2, Zenon
  <2> QED
    BY <2>2, <2>3
<1>3. PICK k \in S : \A y \in S : k <= y
  BY <1>2, LeastNatural
<1>4. k \in 0..HeightBits /\ k \in Nat
  BY <1>1, <1>2, <1>3
<1>5. PICK p \in Nat : p = Pow2[k] /\ p > 0
  BY <1>4, Pow2Positive
<1>6. Pow2[k + 1] = 2 * p /\ n % (2 * p) # 0
  BY <1>3, <1>4, <1>5, Pow2Def
<1>7. n % p = 0
  <2>1. CASE k = 0
    <3>1. p = 1
      BY <1>5, <2>1, Pow2Def
    <3> QED
      BY <1>1, <3>1
  <2>2. CASE k # 0
    <3>1. k - 1 \in Nat /\ k - 1 + 1 = k /\ k - 1 \notin S
      BY <1>3, <1>4, <2>2
    <3>2. n % Pow2[k] = 0
      BY <3>1
    <3> QED
      BY <1>5, <3>2
  <2> QED
    BY <2>1, <2>2
<1>8. n % (2 * p) = p
  BY <1>1, <1>5, <1>6, <1>7, HalfRemainder
<1> HIDE DEF P, S
<1> DEFINE c == CHOOSE x \in Low : n % (2 * x) = x
<1>9. c \in Low /\ n % (2 * c) = c
  <2>1. p \in Low
    BY <1>4, <1>5
  <2> HIDE DEF Low
  <2> QED
    BY <1>8, <2>1, Zenon
<1>10. c \in Nat /\ c > 0
  <2>1. \A x \in Low : x \in Nat /\ x > 0
    <3> SUFFICES ASSUME NEW i \in 0..HeightBits PROVE Pow2[i] \in Nat /\ Pow2[i] > 0
      OBVIOUS
    <3>1. i \in Nat
      BY <1>1
    <3> QED
      BY <3>1, Pow2Positive
  <2> HIDE DEF Low, c
  <2> QED
    BY <1>9, <2>1
<1>11. c <= n
  <2>1. PICK x \in Nat : x = c
    BY <1>10
  <2>2. 2 * x \in Nat /\ 2 * x > 0
    BY <1>10, <2>1
  <2>3. n % (2 * x) = x
    BY <1>9, <2>1
  <2>4. n = (n \div (2 * x)) * (2 * x) + x /\ n \div (2 * x) \in Nat
    BY <1>1, <2>2, <2>3, DivFacts
  <2> QED
    BY <1>1, <2>1, <2>2, <2>4
<1>12. InvertLowestOne(n) = n - c
  BY <1>1 DEF InvertLowestOne
<1> HIDE DEF c
<1> QED
  BY <1>1, <1>10, <1>11, <1>12

LEMMA MaxHeightType ==
    MaxHeight \in Nat /\ Pow2[HeightBits] \in Nat /\ MaxHeight <= Pow2[HeightBits] - 1
<1>1. Pow2[HeightBits] \in Nat
  BY Pow2Positive, SkipListAssumption
<1> QED
  BY <1>1, SkipListAssumption

\* The walk goes down with every jump.
LEMMA SkipGoesDown ==
    ASSUME NEW h \in 1..MaxHeight
    PROVE  GetSkipHeight(h) \in 0..h - 1
<1>1. /\ MaxHeight \in Nat /\ Pow2[HeightBits] \in Nat /\ MaxHeight <= Pow2[HeightBits] - 1
      /\ h \in Nat /\ h >= 1 /\ h <= MaxHeight
  BY MaxHeightType
<1>2. \A n \in 1..h : InvertLowestOne(n) \in 0..n - 1
  BY <1>1, LowestOne
<1>3. CASE h < 2
  BY <1>1, <1>3 DEF GetSkipHeight
<1>4. CASE h >= 2 /\ h % 2 = 1
  <2>1. h - 1 \in 1..h /\ GetSkipHeight(h) = InvertLowestOne(InvertLowestOne(h - 1)) + 1
    BY <1>1, <1>4 DEF GetSkipHeight
  <2>2. PICK i \in 0..h - 2 : i = InvertLowestOne(h - 1)
    BY <1>2, <2>1
  <2>3. InvertLowestOne(i) \in 0..h - 2
    <3>1. CASE i = 0
      BY <1>1, <1>4, <3>1 DEF InvertLowestOne
    <3>2. CASE i # 0
      <4>1. i \in 1..h
        BY <1>1, <2>2, <3>2
      <4> QED
        BY <1>1, <1>2, <2>2, <4>1
    <3> QED
      BY <3>1, <3>2
  <2> QED
    BY <1>1, <2>1, <2>2, <2>3
<1>5. CASE h >= 2 /\ h % 2 # 1
  <2>1. GetSkipHeight(h) = InvertLowestOne(h)
    BY <1>1, <1>5 DEF GetSkipHeight
  <2> QED
    BY <1>1, <1>2, <2>1
<1> QED
  BY <1>1, <1>3, <1>4, <1>5

-----------------------------------------------------------------------------
(* The inductive invariant *)

\* The ancestor of e with height t, read off the names of the entries: below the
\* fork it is on the main branch.
Ancestor(e, t) ==
    IF e[1] = "fork" /\ <<"fork", t>> \in index THEN <<"fork", t>> ELSE <<"main", t>>

\* The index is a main branch from the genesis block up, and at most one fork
\* without gaps.
ShapeInv ==
    /\ index \subseteq Entries /\ Genesis \in index /\ <<"fork", 0>> \notin index
    /\ \A h \in 0..MaxHeight : <<"main", h>> \in index =>
          \A t \in 0..h : <<"main", t>> \in index
    /\ \A h \in 0..MaxHeight : <<"fork", h>> \in index =>
          \A t \in 0..h : <<"fork", t>> \in index \/ <<"main", t>> \in index
    /\ \A s, h \in 0..MaxHeight : <<"fork", s>> \in index /\ <<"fork", h>> \in index =>
          \A t \in s..h : <<"fork", t>> \in index

\* Pointers lead to ancestors.
PointerInv ==
    /\ pPrev = [e \in index |-> IF e = Genesis THEN NULL ELSE Ancestor(e, Height(e) - 1)]
    /\ pSkip = [e \in index |-> IF e = Genesis THEN NULL
                                ELSE Ancestor(e, GetSkipHeight(Height(e)))]

IInv == ShapeInv /\ PointerInv

-----------------------------------------------------------------------------
(* Ancestors *)

LEMMA EntryFacts ==
    ASSUME IInv, NEW e \in index
    PROVE  /\ e[1] \in {"main", "fork"} /\ Height(e) \in 0..MaxHeight /\ MaxHeight \in Nat
           /\ e = <<e[1], Height(e)>> /\ e # NULL
           /\ Height(e) = 0 <=> e = Genesis
<1>1. e \in {"main", "fork"} \X (0..MaxHeight)
  BY DEF IInv, ShapeInv, Entries
<1>2. MaxHeight \in Nat
  BY MaxHeightType
<1>3. e[1] \in {"main", "fork"} /\ e[2] \in 0..MaxHeight /\ e = <<e[1], e[2]>>
  BY <1>1
<1>4. e # NULL
  BY <1>3 DEF NULL
<1>5. Height(e) = 0 <=> e = Genesis
  BY <1>3 DEF IInv, ShapeInv, Genesis, Height
<1> QED
  BY <1>2, <1>3, <1>4, <1>5 DEF Height

\* An ancestor is an entry of the height asked for, and has the same ancestors.
LEMMA AncestorFacts ==
    ASSUME IInv, NEW e \in index, NEW t \in 0..Height(e)
    PROVE  /\ Ancestor(e, t) \in index /\ Height(Ancestor(e, t)) = t
           /\ t = Height(e) => Ancestor(e, t) = e
           /\ \A s \in 0..t : Ancestor(Ancestor(e, t), s) = Ancestor(e, s)
<1>1. /\ e[1] \in {"main", "fork"} /\ Height(e) \in 0..MaxHeight /\ MaxHeight \in Nat
      /\ e = <<e[1], Height(e)>> /\ t \in 0..MaxHeight
  BY EntryFacts
<1>2. Height(Ancestor(e, t)) = t
  BY DEF Ancestor, Height
<1>3. t = Height(e) => Ancestor(e, t) = e
  BY <1>1 DEF Ancestor
<1>4. CASE e[1] = "main"
  <2>1. Ancestor(e, t) = <<"main", t>> /\ <<"main", t>> \in index
    BY <1>1, <1>4 DEF Ancestor, IInv, ShapeInv
  <2>2. \A s \in 0..t : Ancestor(<<"main", t>>, s) = Ancestor(e, s)
    BY <1>4 DEF Ancestor
  <2> QED
    BY <1>2, <1>3, <2>1, <2>2
<1>5. CASE e[1] = "fork" /\ <<"fork", t>> \in index
  <2>1. Ancestor(e, t) = <<"fork", t>>
    BY <1>5 DEF Ancestor
  <2>2. \A s \in 0..t : Ancestor(<<"fork", t>>, s) = Ancestor(e, s)
    BY <1>5 DEF Ancestor
  <2> QED
    BY <1>2, <1>3, <1>5, <2>1, <2>2
<1>6. CASE e[1] = "fork" /\ <<"fork", t>> \notin index
  <2>1. Ancestor(e, t) = <<"main", t>>
    BY <1>6 DEF Ancestor
  <2>2. <<"main", t>> \in index
    BY <1>1, <1>6 DEF IInv, ShapeInv
  <2>3. ASSUME NEW s \in 0..t PROVE <<"fork", s>> \notin index
    <3>1. s \in 0..MaxHeight /\ t \in s..Height(e)
      BY <1>1
    <3>2. <<"fork", Height(e)>> \in index
      BY <1>1, <1>6
    <3> QED
      BY <1>1, <1>6, <3>1, <3>2 DEF IInv, ShapeInv
  <2>4. \A s \in 0..t : Ancestor(<<"main", t>>, s) = Ancestor(e, s)
    BY <2>3 DEF Ancestor
  <2> QED
    BY <1>2, <1>3, <2>1, <2>2, <2>4
<1> QED
  BY <1>1, <1>4, <1>5, <1>6

\* Where the pointers of an entry lead.
LEMMA PointerFacts ==
    ASSUME IInv, NEW e \in index, Height(e) > 0
    PROVE  /\ Height(e) - 1 \in 0..Height(e) /\ pPrev[e] = Ancestor(e, Height(e) - 1)
           /\ GetSkipHeight(Height(e)) \in 0..Height(e) - 1
           /\ pSkip[e] = Ancestor(e, GetSkipHeight(Height(e)))
<1>1. e # Genesis /\ Height(e) \in 1..MaxHeight
  BY EntryFacts
<1> QED
  BY <1>1, SkipGoesDown DEF IInv, PointerInv

-----------------------------------------------------------------------------
(* The walk *)

\* What the loop of getAncestor comes to from height on, by what it comes to below.
Round(g, target, height) ==
    [e \in index \cup {NULL} |->
       IF e = NULL \/ height <= target THEN [entry |-> e, rounds |-> 0]
       ELSE LET rest == IF FollowSkip(height, target)
                        THEN g[GetSkipHeight(height)][pSkip[e]]
                        ELSE g[height - 1][pPrev[e]]
            IN  [entry |-> rest.entry, rounds |-> rest.rounds + 1]]

Rounds(g, target, n) == \A h \in 0..n : g[h] = Round(g, target, h)

\* A round looks only at lower heights.
LEMMA RoundIsLocal ==
    ASSUME NEW h \in 0..MaxHeight, NEW target \in Nat, NEW f, NEW g,
           \A i \in 0..h - 1 : f[i] = g[i]
    PROVE  Round(f, target, h) = Round(g, target, h)
<1>1. CASE h <= target
  BY <1>1 DEF Round
<1>2. CASE ~(h <= target)
  <2>1. h \in 1..MaxHeight /\ h - 1 \in 0..h - 1
    BY <1>2
  <2>2. GetSkipHeight(h) \in 0..h - 1
    BY <2>1, SkipGoesDown
  <2>3. f[GetSkipHeight(h)] = g[GetSkipHeight(h)] /\ f[h - 1] = g[h - 1]
    BY <2>1, <2>2
  <2> QED
    BY <2>3 DEF Round
<1> QED
  BY <1>1, <1>2

LEMMA RoundsExist ==
    ASSUME NEW target \in Nat, NEW n \in 0..MaxHeight
    PROVE  \E g : g = [h \in 0..n |-> g[h]] /\ Rounds(g, target, n)
<1> DEFINE Done(g, k) == g = [h \in 0..k |-> g[h]] /\ Rounds(g, target, k)
           Bad == {k \in 0..MaxHeight : ~\E g : Done(g, k)}
<1> SUFFICES ASSUME Bad # {} PROVE FALSE
  BY Zenon
<1>1. Bad \in SUBSET Nat
  BY SMT
<1>2. PICK k \in Bad : \A y \in Bad : k <= y
  <2> HIDE DEF Bad
  <2> QED
    BY <1>1, LeastNatural
<1>3. k \in 0..MaxHeight /\ k \in Nat /\ MaxHeight \in Nat /\ ~\E g : Done(g, k)
  BY <1>1, <1>2, MaxHeightType, Zenon
<1>4. PICK g : \A h \in 0..k - 1 : g[h] = Round(g, target, h)
  <2>1. CASE k = 0
    <3>1. 0..k - 1 = {}
      BY <2>1
    <3> QED
      BY <3>1, Zenon
  <2>2. CASE k # 0
    <3>1. k - 1 \in 0..MaxHeight
      BY <1>3, <2>2
    <3>2. k - 1 \notin Bad
      <4> HIDE DEF Bad
      <4> QED
        BY <1>2, <1>3
    <3>3. \E g : Done(g, k - 1)
      BY <3>1, <3>2, Zenon
    <3> QED
      BY <3>3, Zenon DEF Rounds
  <2> QED
    BY <2>1, <2>2
<1> DEFINE f == [i \in 0..k |-> IF i = k THEN Round(g, target, k) ELSE g[i]]
<1>5. \A i \in 0..k - 1 : f[i] = g[i]
  BY <1>3
<1>6. f[k] = Round(g, target, k)
  BY <1>3
<1>7. f = [h \in 0..k |-> f[h]]
  OBVIOUS
<1> HIDE DEF f
<1>8. ASSUME NEW h \in 0..k PROVE f[h] = Round(f, target, h)
  <2>1. h \in 0..MaxHeight /\ \A i \in 0..h - 1 : f[i] = g[i]
    BY <1>3, <1>5
  <2>2. Round(f, target, h) = Round(g, target, h)
    BY <2>1, RoundIsLocal
  <2>3. f[h] = Round(g, target, h)
    <3>1. CASE h = k
      BY <1>6, <3>1
    <3>2. CASE h # k
      <4>1. h \in 0..k - 1
        BY <1>3, <3>2
      <4> QED
        BY <1>4, <1>5, <4>1
    <3> QED
      BY <3>1, <3>2
  <2> QED
    BY <2>2, <2>3
<1>9. Done(f, k)
  BY <1>7, <1>8, Zenon DEF Rounds
<1> QED
  BY <1>3, <1>9, Zenon

\* The loop of getAncestor is a function: it takes one round after the other.
LEMMA WalkEquation ==
    ASSUME NEW target \in Nat, NEW h \in 0..MaxHeight
    PROVE  WalkTo(target)[h] = Round(WalkTo(target), target, h)
<1>1. MaxHeight \in 0..MaxHeight
  BY MaxHeightType
<1>2. PICK g : g = [i \in 0..MaxHeight |-> g[i]] /\ Rounds(g, target, MaxHeight)
  BY <1>1, RoundsExist
<1>3. g = [i \in 0..MaxHeight |-> Round(g, target, i)]
  BY <1>2 DEF Rounds
<1>4. \E f : f = [i \in 0..MaxHeight |-> Round(f, target, i)]
  BY <1>3, Zenon
<1>5. WalkTo(target) = CHOOSE f : f = [i \in 0..MaxHeight |-> Round(f, target, i)]
  BY Zenon DEF WalkTo, Round
<1>6. WalkTo(target) = [i \in 0..MaxHeight |-> Round(WalkTo(target), target, i)]
  BY <1>4, <1>5, Zenon
<1> QED
  BY <1>6

\* From an entry of the index the walk ends at its ancestor: the height that
\* it counts is that of the entry it stands on.
LEMMA WalkFinds ==
    ASSUME IInv, NEW e \in index, NEW target \in 0..Height(e)
    PROVE  Walk(e, target).entry = Ancestor(e, target)
<1> DEFINE W == WalkTo(target)
           Found(d) == W[Height(d)][d].entry = Ancestor(d, target)
           Bad == {h \in 0..MaxHeight :
                     \E d \in index : Height(d) = h /\ target <= h /\ ~Found(d)}
<1>1. MaxHeight \in Nat /\ target \in Nat /\ Height(e) \in 0..MaxHeight /\ target <= Height(e)
  BY EntryFacts, MaxHeightType
<1>2. \A h \in 0..MaxHeight : W[h] = Round(W, target, h)
  BY <1>1, WalkEquation
<1> HIDE DEF W
<1>3. Bad = {}
  <2> SUFFICES ASSUME Bad # {} PROVE FALSE
    OBVIOUS
  <2>1. Bad \in SUBSET Nat
    BY <1>1, SMT
  <2>2. PICK h \in Bad : \A y \in Bad : h <= y
    <3> HIDE DEF Bad
    <3> QED
      BY <2>1, LeastNatural
  <2>3. PICK d \in index : h \in 0..MaxHeight /\ Height(d) = h /\ target <= h /\ ~Found(d)
    BY <2>2, Zenon
  <2>4. ASSUME NEW c \in index, target <= Height(c), Height(c) < h PROVE Found(c)
    <3>1. Height(c) \in 0..MaxHeight /\ Height(c) \notin Bad
      <4>1. Height(c) \notin Bad
        <5> HIDE DEF Bad
        <5>1. Height(c) \in Int /\ h \in Int
          BY <2>1, <2>2, <2>4, EntryFacts
        <5> QED
          BY <2>2, <2>4, <5>1
      <4> QED
        BY <4>1, EntryFacts
    <3> QED
      BY <2>4, <3>1, Zenon
  <2> HIDE DEF Found, Bad
  <2>5. CASE h = target
    <3>1. W[h][d] = [entry |-> d, rounds |-> 0]
      <4>1. W[h] = Round(W, target, h) /\ h <= target
        BY <1>1, <1>2, <2>3, <2>5
      <4> QED
        BY <4>1, Zenon DEF Round
    <3>2. Ancestor(d, target) = d
      BY <1>1, <2>3, <2>5, AncestorFacts
    <3> QED
      BY <2>3, <3>1, <3>2 DEF Found
  <2>6. CASE h # target
    <3>1. h > target /\ h > 0 /\ d # NULL /\ h \in Nat
      BY <1>1, <2>3, <2>6, EntryFacts
    <3>2. /\ h - 1 \in 0..h /\ pPrev[d] = Ancestor(d, h - 1)
          /\ GetSkipHeight(h) \in 0..h - 1 /\ pSkip[d] = Ancestor(d, GetSkipHeight(h))
      BY <2>3, <3>1, PointerFacts
    <3> DEFINE rest == IF FollowSkip(h, target) THEN W[GetSkipHeight(h)][pSkip[d]]
                       ELSE W[h - 1][pPrev[d]]
    <3>3. W[h][d] = [entry |-> rest.entry, rounds |-> rest.rounds + 1]
      <4>1. W[h] = Round(W, target, h) /\ ~(h <= target)
        BY <1>1, <1>2, <2>3, <3>1
      <4> QED
        BY <3>1, <4>1, Zenon DEF Round
    <3>4. W[h][d].entry = rest.entry
      <4> HIDE DEF rest
      <4> QED
        BY <3>3
    <3>5. ASSUME NEW i \in target..h - 1
          PROVE  W[i][Ancestor(d, i)].entry = Ancestor(d, target)
      <4>1. i \in 0..Height(d) /\ target \in 0..i /\ i < h /\ target <= i
        BY <1>1, <2>3, <3>1
      <4>2. /\ Ancestor(d, i) \in index /\ Height(Ancestor(d, i)) = i
            /\ Ancestor(Ancestor(d, i), target) = Ancestor(d, target)
        BY <4>1, AncestorFacts
      <4>3. Found(Ancestor(d, i))
        BY <2>4, <4>1, <4>2
      <4> QED
        BY <4>2, <4>3, Zenon DEF Found
    <3>6. CASE FollowSkip(h, target)
      <4>1. GetSkipHeight(h) >= target
        BY <1>1, <3>2, <3>6 DEF FollowSkip
      <4>2. GetSkipHeight(h) \in target..h - 1
        BY <1>1, <3>1, <3>2, <4>1
      <4>3. rest = W[GetSkipHeight(h)][Ancestor(d, GetSkipHeight(h))]
        BY <3>2, <3>6
      <4> QED
        BY <2>3, <3>4, <3>5, <4>2, <4>3 DEF Found
    <3>7. CASE ~FollowSkip(h, target)
      <4>1. h - 1 \in target..h - 1
        BY <1>1, <3>1
      <4>2. rest = W[h - 1][Ancestor(d, h - 1)]
        BY <3>2, <3>7
      <4> QED
        BY <2>3, <3>4, <3>5, <4>1, <4>2 DEF Found
    <3> QED
      BY <3>6, <3>7
  <2> QED
    BY <2>5, <2>6
<1>4. Found(e)
  BY <1>1, <1>3, Zenon
<1> QED
  BY <1>4, Zenon DEF Walk, W

LEMMA GetAncestorFinds ==
    ASSUME IInv, NEW e \in index, NEW target \in Int
    PROVE  GetAncestor(e, target) = IF target \in 0..Height(e) THEN Ancestor(e, target) ELSE NULL
<1>1. Height(e) \in Nat
  BY EntryFacts
<1>2. CASE target \in 0..Height(e)
  <2>1. GetAncestor(e, target) = Walk(e, target).entry
    BY <1>1, <1>2 DEF GetAncestor
  <2> QED
    BY <1>2, <2>1, WalkFinds
<1>3. CASE target \notin 0..Height(e)
  BY <1>1, <1>3 DEF GetAncestor
<1> QED
  BY <1>2, <1>3

-----------------------------------------------------------------------------
(* The parents, one by one *)

LEMMA ParentsLead ==
    ASSUME IInv, NEW e \in index, NEW target \in Int
    PROVE  AncestorByParents(e, target) =
             IF target \in 0..Height(e) THEN Ancestor(e, target) ELSE NULL
<1>1. Height(e) \in 0..MaxHeight /\ MaxHeight \in Nat
  BY EntryFacts
<1>2. CASE target \notin 0..Height(e)
  BY <1>2 DEF AncestorByParents
<1>3. CASE target \in 0..Height(e)
  <2> DEFINE I == index \cup {NULL}
             Up(f) == [d \in I |-> IF d = NULL \/ Height(d) = target THEN d ELSE f[pPrev[d]]]
             g == [d \in I |-> IF d = NULL \/ Height(d) < target THEN NULL
                               ELSE Ancestor(d, target)]
             F == CHOOSE f : f = Up(f)
  <2>1. ASSUME NEW d \in index, Height(d) # target, Height(d) > 0
        PROVE  /\ pPrev[d] \in index /\ Height(pPrev[d]) = Height(d) - 1
               /\ target < Height(d) =>
                    /\ target <= Height(pPrev[d])
                    /\ Ancestor(pPrev[d], target) = Ancestor(d, target)
    <3>1. Height(d) - 1 \in 0..Height(d) /\ pPrev[d] = Ancestor(d, Height(d) - 1)
      BY <2>1, PointerFacts
    <3>2. /\ pPrev[d] \in index /\ Height(pPrev[d]) = Height(d) - 1
          /\ \A s \in 0..Height(d) - 1 : Ancestor(pPrev[d], s) = Ancestor(d, s)
      BY <3>1, AncestorFacts
    <3>3. target < Height(d) => target \in 0..Height(d) - 1
      BY <1>1, <1>3, EntryFacts
    <3> QED
      BY <3>2, <3>3
  <2>2. ASSUME NEW d \in I
        PROVE  g[d] = IF d = NULL \/ Height(d) = target THEN d ELSE g[pPrev[d]]
    <3>1. CASE d = NULL
      BY <3>1
    <3>2. CASE d # NULL /\ Height(d) = target
      <4>1. d \in index /\ target \in 0..Height(d)
        BY <1>1, <1>3, <3>2
      <4>2. Ancestor(d, target) = d
        BY <3>2, <4>1, AncestorFacts
      <4> QED
        BY <1>1, <3>2, <4>2
    <3>3. CASE d # NULL /\ Height(d) # target /\ Height(d) = 0
      <4>1. d = Genesis /\ d \in index /\ Height(d) < target
        BY <1>1, <1>3, <3>3, EntryFacts
      <4>2. pPrev[d] = NULL
        BY <4>1 DEF IInv, PointerInv
      <4> QED
        BY <3>3, <4>1, <4>2
    <3>4. CASE d # NULL /\ Height(d) # target /\ Height(d) # 0
      <4>1. d \in index /\ Height(d) \in Nat /\ Height(d) > 0
        BY <3>4, EntryFacts
      <4>2. /\ pPrev[d] \in index /\ Height(pPrev[d]) = Height(d) - 1 /\ pPrev[d] # NULL
            /\ target < Height(d) =>
                 /\ target <= Height(pPrev[d])
                 /\ Ancestor(pPrev[d], target) = Ancestor(d, target)
        BY <2>1, <3>4, <4>1, EntryFacts
      <4>3. g[pPrev[d]] = IF Height(pPrev[d]) < target THEN NULL ELSE Ancestor(pPrev[d], target)
        BY <4>2
      <4>4. g[d] = IF Height(d) < target THEN NULL ELSE Ancestor(d, target)
        BY <3>4
      <4>5. CASE target < Height(d)
        BY <1>1, <1>3, <3>4, <4>1, <4>2, <4>3, <4>4, <4>5
      <4>6. CASE Height(d) < target
        BY <1>1, <1>3, <3>4, <4>1, <4>2, <4>3, <4>4, <4>6
      <4> QED
        BY <1>1, <1>3, <3>4, <4>1, <4>5, <4>6
    <3> QED
      BY <3>1, <3>2, <3>3, <3>4
  <2>3. g = Up(g)
    BY <2>2
  <2>4. F = Up(F)
    <3> HIDE DEF g, Up
    <3> QED
      BY <2>3, Zenon
  <2>5. AncestorByParents(e, target) = F[e]
    BY <1>3, Zenon DEF AncestorByParents
  <2> HIDE DEF F, g
  <2>6. \A d \in index : F[d] = IF Height(d) = target THEN d ELSE F[pPrev[d]]
    BY <2>4, EntryFacts
  <2> DEFINE Bad == {h \in 0..MaxHeight :
                       \E d \in index : Height(d) = h /\ target <= h /\ F[d] # Ancestor(d, target)}
  <2>7. Bad = {}
    <3> SUFFICES ASSUME Bad # {} PROVE FALSE
      OBVIOUS
    <3>1. Bad \in SUBSET Nat
      BY <1>1, SMT
    <3>2. PICK h \in Bad : \A y \in Bad : h <= y
      <4> HIDE DEF Bad
      <4> QED
        BY <3>1, LeastNatural
    <3>3. PICK d \in index : /\ h \in 0..MaxHeight /\ Height(d) = h
                             /\ target <= h /\ F[d] # Ancestor(d, target)
      BY <3>2, Zenon
    <3>4. h # target
      <4> SUFFICES ASSUME h = target PROVE FALSE
        OBVIOUS
      <4>1. target \in 0..Height(d) /\ Ancestor(d, target) = d
        BY <1>1, <1>3, <3>3, AncestorFacts
      <4> QED
        BY <2>6, <3>3, <4>1
    <3>5. /\ pPrev[d] \in index /\ Height(pPrev[d]) = h - 1 /\ target <= h - 1
          /\ Ancestor(pPrev[d], target) = Ancestor(d, target)
      <4>1. Height(d) # target /\ Height(d) > 0 /\ target < Height(d)
        BY <1>1, <1>3, <3>3, <3>4
      <4> QED
        BY <2>1, <3>3, <4>1
    <3>6. F[pPrev[d]] # Ancestor(pPrev[d], target)
      BY <2>6, <3>3, <3>4, <3>5
    <3>7. h - 1 \in Bad
      <4>1. h - 1 \in 0..MaxHeight
        BY <1>1, <1>3, <3>3, <3>5
      <4> QED
        BY <3>5, <3>6, <4>1, Zenon
    <3> HIDE DEF Bad
    <3> QED
      BY <1>1, <3>2, <3>3, <3>7
  <2>8. F[e] = Ancestor(e, target)
    <3>1. target <= Height(e)
      BY <1>1, <1>3
    <3> QED
      BY <1>1, <2>7, <3>1, Zenon
  <2> QED
    BY <1>3, <2>5, <2>8
<1> QED
  BY <1>2, <1>3

-----------------------------------------------------------------------------
(* The invariant is inductive *)

LEMMA InitInv == SkipInit => IInv
<1> SUFFICES ASSUME SkipInit PROVE IInv
  OBVIOUS
<1>1. index = {Genesis} /\ Genesis \in Entries
  BY MaxHeightType DEF SkipInit, Genesis, Entries
<1>2. ShapeInv
  BY <1>1, MaxHeightType DEF ShapeInv, Genesis
<1>3. PointerInv
  BY <1>1 DEF SkipInit, PointerInv
<1> QED
  BY <1>2, <1>3 DEF IInv

\* A new entry goes on from the top of a branch, or is the first of the fork: no
\* entry gets another ancestor, and it has those of the entry it is built on.
LEMMA NewEntry ==
    ASSUME IInv, NEW prev \in index, NEW side \in {"main", "fork"},
           AddToBlockIndex(prev, side),
           NEW new, new = <<side, Height(prev) + 1>>
    PROVE  /\ new \notin index /\ ShapeInv'
           /\ \A e \in index : \A t \in 0..Height(e) : Ancestor(e, t)' = Ancestor(e, t)
           /\ \A t \in 0..Height(prev) : Ancestor(new, t)' = Ancestor(prev, t)
<1> DEFINE h == Height(prev)
<1>1. /\ prev[1] \in {"main", "fork"} /\ h \in 0..MaxHeight /\ MaxHeight \in Nat
      /\ prev = <<prev[1], h>> /\ h < MaxHeight /\ h + 1 \in 0..MaxHeight
      /\ index' = index \cup {new}
  BY EntryFacts DEF AddToBlockIndex
<1>2. ShapeInv
  BY DEF IInv
<1>3. new \in Entries /\ new # <<"fork", 0>>
  BY <1>1 DEF Entries
<1>4. ASSUME NEW e \in index
      PROVE  e[1] \in {"main", "fork"} /\ Height(e) \in 0..MaxHeight /\ e = <<e[1], Height(e)>>
  BY EntryFacts
<1>5. ASSUME prev \in Tips, side = prev[1] PROVE new \notin index
  <2> SUFFICES ASSUME new \in index PROVE FALSE
    OBVIOUS
  <2>1. Height(new) = h + 1 /\ new[1] = prev[1]
    BY <1>5 DEF Height
  <2>2. pPrev[new] = Ancestor(new, h)
    BY <1>1, <2>1, PointerFacts
  <2>3. Ancestor(new, h) = prev
    BY <1>1, <1>5, <2>1 DEF Ancestor
  <2> QED
    BY <1>5, <2>1, <2>2, <2>3 DEF Tips
<1> HIDE DEF h
<1>6. CASE prev \in Tips /\ side = prev[1] /\ side = "main"
  <2>1. new = <<"main", h + 1>> /\ prev = <<"main", h>> /\ new \notin index
    BY <1>1, <1>5, <1>6 DEF h
  <2>2. \A t : <<"fork", t>> \in index' <=> <<"fork", t>> \in index
    BY <1>1, <2>1
  <2>3. ShapeInv'
    <3>1. index' \subseteq Entries /\ Genesis \in index' /\ <<"fork", 0>> \notin index'
      BY <1>1, <1>2, <1>3 DEF ShapeInv
    <3>2. ASSUME NEW i \in 0..MaxHeight, <<"main", i>> \in index', NEW t \in 0..i
          PROVE  <<"main", t>> \in index'
      <4>1. CASE <<"main", i>> \in index
        BY <1>1, <1>2, <3>2, <4>1 DEF ShapeInv
      <4>2. CASE i = h + 1
        <5>1. CASE t = h + 1
          BY <1>1, <2>1, <5>1
        <5>2. CASE t # h + 1
          <6>1. t \in 0..h
            BY <1>1, <4>2, <5>2
          <6> QED
            BY <1>1, <1>2, <2>1, <6>1 DEF ShapeInv
        <5> QED
          BY <5>1, <5>2
      <4> QED
        BY <1>1, <2>1, <3>2, <4>1, <4>2
    <3>3. ASSUME NEW i \in 0..MaxHeight, <<"fork", i>> \in index'
          PROVE  \A t \in 0..i : <<"fork", t>> \in index' \/ <<"main", t>> \in index'
      BY <1>1, <1>2, <2>2, <3>3 DEF ShapeInv
    <3>4. ASSUME NEW s \in 0..MaxHeight, NEW i \in 0..MaxHeight,
                 <<"fork", s>> \in index', <<"fork", i>> \in index'
          PROVE  \A t \in s..i : <<"fork", t>> \in index'
      BY <1>2, <2>2, <3>4 DEF ShapeInv
    <3> QED
      BY <3>1, <3>2, <3>3, <3>4 DEF ShapeInv
  <2>4. \A e, t : Ancestor(e, t)' = Ancestor(e, t)
    BY <2>2 DEF Ancestor
  <2>5. \A t : Ancestor(new, t) = Ancestor(prev, t)
    BY <2>1 DEF Ancestor
  <2> QED
    BY <2>1, <2>3, <2>4, <2>5
<1>7. CASE prev \in Tips /\ side = prev[1] /\ side = "fork"
  <2>1. new = <<"fork", h + 1>> /\ prev = <<"fork", h>> /\ new \notin index
    BY <1>1, <1>5, <1>7 DEF h
  <2>2. ASSUME NEW i \in 0..MaxHeight, <<"fork", i>> \in index PROVE i <= h
    <3> SUFFICES ASSUME i > h PROVE FALSE
      BY <1>1
    <3>1. h + 1 \in h..i
      BY <1>1
    <3> QED
      BY <1>1, <1>2, <2>1, <2>2, <3>1 DEF ShapeInv
  <2>3. \A t \in 0..h : <<"fork", t>> \in index' <=> <<"fork", t>> \in index
    BY <1>1, <2>1
  <2>4. ShapeInv'
    <3>1. index' \subseteq Entries /\ Genesis \in index' /\ <<"fork", 0>> \notin index'
      BY <1>1, <1>2, <1>3 DEF ShapeInv
    <3>2. ASSUME NEW i \in 0..MaxHeight, <<"main", i>> \in index'
          PROVE  \A t \in 0..i : <<"main", t>> \in index'
      <4>1. \A t : <<"main", t>> \in index' <=> <<"main", t>> \in index
        BY <1>1, <2>1
      <4> QED
        BY <1>2, <3>2, <4>1 DEF ShapeInv
    <3>3. ASSUME NEW i \in 0..MaxHeight, <<"fork", i>> \in index', NEW t \in 0..i
          PROVE  <<"fork", t>> \in index' \/ <<"main", t>> \in index'
      <4>1. CASE <<"fork", i>> \in index
        BY <1>1, <1>2, <3>3, <4>1 DEF ShapeInv
      <4>2. CASE i = h + 1
        <5>1. CASE t = h + 1
          BY <1>1, <2>1, <5>1
        <5>2. CASE t # h + 1
          <6>1. t \in 0..h
            BY <1>1, <4>2, <5>2
          <6> QED
            BY <1>1, <1>2, <2>1, <6>1 DEF ShapeInv
        <5> QED
          BY <5>1, <5>2
      <4> QED
        BY <1>1, <2>1, <3>3, <4>1, <4>2
    <3>4. ASSUME NEW s \in 0..MaxHeight, NEW i \in 0..MaxHeight,
                 <<"fork", s>> \in index', <<"fork", i>> \in index', NEW t \in s..i
          PROVE  <<"fork", t>> \in index'
      <4>1. CASE t = h + 1
        BY <1>1, <2>1, <4>1
      <4>2. CASE t # h + 1
        <5>1. i <= h + 1 /\ t <= h
          BY <1>1, <2>1, <2>2, <3>4, <4>2
        <5>2. <<"fork", s>> \in index /\ t \in s..h
          BY <1>1, <2>1, <3>4, <5>1
        <5> QED
          BY <1>1, <1>2, <2>1, <5>2 DEF ShapeInv
      <4> QED
        BY <4>1, <4>2
    <3> QED
      BY <3>1, <3>2, <3>3, <3>4 DEF ShapeInv
  <2>5. ASSUME NEW e \in index, NEW t \in 0..Height(e) PROVE Ancestor(e, t)' = Ancestor(e, t)
    <3>1. CASE e[1] = "main"
      BY <3>1 DEF Ancestor
    <3>2. CASE e[1] = "fork"
      <4>1. Height(e) <= h /\ Height(e) \in Nat
        BY <1>4, <2>2, <3>2
      <4>2. t \in 0..h
        BY <1>1, <4>1
      <4> QED
        BY <2>3, <4>2 DEF Ancestor
    <3> QED
      BY <1>4, <3>1, <3>2
  <2>6. \A t \in 0..h : Ancestor(new, t)' = Ancestor(prev, t)
    <3>1. new[1] = "fork" /\ prev[1] = "fork"
      BY <2>1
    <3> QED
      BY <2>3, <3>1 DEF Ancestor
  <2> QED
    BY <2>1, <2>4, <2>5, <2>6 DEF h
<1>8. CASE prev[1] = "main" /\ side = "fork" /\ \A e \in index : e[1] = "main"
  <2>1. new = <<"fork", h + 1>> /\ prev = <<"main", h>>
    BY <1>1, <1>8 DEF h
  <2>2. \A t : <<"fork", t>> \notin index
    BY <1>8
  <2>3. \A t : <<"fork", t>> \in index' <=> t = h + 1
    <3> TAKE t
    <3>1. <<"fork", t>> \in index' <=> <<"fork", t>> = new
      BY <1>1, <2>2
    <3>2. <<"fork", t>> = <<"fork", h + 1>> <=> t = h + 1
      OBVIOUS
    <3> QED
      BY <2>1, <3>1, <3>2
  <2>4. \A t : <<"main", t>> \in index' <=> <<"main", t>> \in index
    BY <1>1, <2>1
  <2>5. ShapeInv'
    <3>1. index' \subseteq Entries /\ Genesis \in index' /\ <<"fork", 0>> \notin index'
      BY <1>1, <1>2, <1>3 DEF ShapeInv
    <3>2. ASSUME NEW i \in 0..MaxHeight, <<"main", i>> \in index'
          PROVE  \A t \in 0..i : <<"main", t>> \in index'
      BY <1>2, <2>4, <3>2 DEF ShapeInv
    <3>3. ASSUME NEW i \in 0..MaxHeight, <<"fork", i>> \in index', NEW t \in 0..i
          PROVE  <<"fork", t>> \in index' \/ <<"main", t>> \in index'
      <4>1. i = h + 1
        BY <2>3, <3>3
      <4>2. t = h + 1 \/ t \in 0..h
        BY <1>1, <4>1
      <4> QED
        BY <1>1, <1>2, <2>1, <2>3, <2>4, <4>2 DEF ShapeInv
    <3>4. ASSUME NEW s \in 0..MaxHeight, NEW i \in 0..MaxHeight,
                 <<"fork", s>> \in index', <<"fork", i>> \in index', NEW t \in s..i
          PROVE  <<"fork", t>> \in index'
      <4>1. s = h + 1 /\ i = h + 1
        BY <2>3, <3>4
      <4>2. t = h + 1
        BY <1>1, <4>1
      <4> QED
        BY <2>3, <4>2
    <3> QED
      BY <3>1, <3>2, <3>3, <3>4 DEF ShapeInv
  <2>6. ASSUME NEW e \in index, NEW t PROVE Ancestor(e, t)' = Ancestor(e, t)
    BY <1>8 DEF Ancestor
  <2>7. ASSUME NEW t \in 0..h PROVE Ancestor(new, t)' = Ancestor(prev, t)
    <3>1. t # h + 1
      BY <1>1
    <3> QED
      BY <2>1, <2>3, <3>1 DEF Ancestor
  <2> QED
    BY <2>1, <2>2, <2>5, <2>6, <2>7 DEF h
<1> QED
  BY <1>1, <1>6, <1>7, <1>8 DEF AddToBlockIndex

LEMMA AddToBlockIndexInv ==
    ASSUME IInv, NEW prev \in index, NEW side \in {"main", "fork"},
           AddToBlockIndex(prev, side)
    PROVE  IInv'
<1>1. PICK new : new = <<side, Height(prev) + 1>>
  OBVIOUS
<1>2. /\ new \notin index /\ ShapeInv'
      /\ \A e \in index : \A t \in 0..Height(e) : Ancestor(e, t)' = Ancestor(e, t)
      /\ \A t \in 0..Height(prev) : Ancestor(new, t)' = Ancestor(prev, t)
  BY <1>1, NewEntry
<1>3. /\ index' = index \cup {new}
      /\ pPrev' = [e \in index' |-> IF e = new THEN prev ELSE pPrev[e]]
      /\ pSkip' = [e \in index' |-> IF e = new THEN BuildSkip(prev) ELSE pSkip[e]]
      /\ Height(prev) < MaxHeight
  BY <1>1 DEF AddToBlockIndex
<1>4. /\ Height(new) = Height(prev) + 1 /\ Height(prev) \in Nat /\ MaxHeight \in Nat
      /\ Height(new) \in 1..MaxHeight /\ Height(new) - 1 = Height(prev) /\ new # Genesis
  <2>1. Height(new) = Height(prev) + 1
    BY <1>1 DEF Height
  <2>2. Height(prev) \in Nat /\ MaxHeight \in Nat
    BY EntryFacts
  <2>3. new # Genesis
    BY <1>2 DEF IInv, ShapeInv
  <2> QED
    BY <1>3, <2>1, <2>2, <2>3
<1>5. prev = Ancestor(new, Height(new) - 1)'
  <2>1. Height(prev) \in 0..Height(prev)
    BY <1>4
  <2>2. Ancestor(prev, Height(prev)) = prev
    BY <2>1, AncestorFacts
  <2>3. Ancestor(new, Height(prev))' = prev
    BY <1>2, <2>1, <2>2
  <2> QED
    BY <1>4, <2>3
<1>6. BuildSkip(prev) = Ancestor(new, GetSkipHeight(Height(new)))'
  <2>1. GetSkipHeight(Height(new)) \in 0..Height(prev)
    BY <1>4, SkipGoesDown
  <2>2. GetAncestor(prev, GetSkipHeight(Height(new))) = Ancestor(prev, GetSkipHeight(Height(new)))
    BY <1>4, <2>1, GetAncestorFinds
  <2>3. BuildSkip(prev) = GetAncestor(prev, GetSkipHeight(Height(new)))
    BY <1>4 DEF BuildSkip
  <2>4. Ancestor(new, GetSkipHeight(Height(new)))' = Ancestor(prev, GetSkipHeight(Height(new)))
    BY <1>2, <2>1
  <2> QED
    BY <2>2, <2>3, <2>4
<1>7. ASSUME NEW e \in index, e # Genesis
      PROVE  /\ pPrev[e] = Ancestor(e, Height(e) - 1)'
             /\ pSkip[e] = Ancestor(e, GetSkipHeight(Height(e)))'
  <2>1. Height(e) \in Nat /\ Height(e) > 0
    BY <1>7, EntryFacts
  <2>2. /\ Height(e) - 1 \in 0..Height(e) /\ pPrev[e] = Ancestor(e, Height(e) - 1)
        /\ GetSkipHeight(Height(e)) \in 0..Height(e) - 1
        /\ pSkip[e] = Ancestor(e, GetSkipHeight(Height(e)))
    BY <2>1, PointerFacts
  <2>3. GetSkipHeight(Height(e)) \in 0..Height(e)
    BY <2>1, <2>2
  <2> QED
    BY <1>2, <2>2, <2>3
<1>8. pPrev[Genesis] = NULL /\ pSkip[Genesis] = NULL
  BY DEF IInv, ShapeInv, PointerInv
<1>9. /\ pPrev' = [e \in index' |-> IF e = Genesis THEN NULL ELSE Ancestor(e, Height(e) - 1)']
      /\ pSkip' = [e \in index' |-> IF e = Genesis THEN NULL
                                    ELSE Ancestor(e, GetSkipHeight(Height(e)))']
  <2>1. ASSUME NEW e \in index'
        PROVE  /\ pPrev'[e] = IF e = Genesis THEN NULL ELSE Ancestor(e, Height(e) - 1)'
               /\ pSkip'[e] = IF e = Genesis THEN NULL
                              ELSE Ancestor(e, GetSkipHeight(Height(e)))'
    <3>1. CASE e = new
      BY <1>3, <1>4, <1>5, <1>6, <3>1
    <3>2. CASE e # new /\ e = Genesis
      BY <1>3, <1>8, <3>2
    <3>3. CASE e # new /\ e # Genesis
      BY <1>3, <1>7, <3>3
    <3> QED
      BY <3>1, <3>2, <3>3
  <2> QED
    BY <1>3, <2>1
<1>10. PointerInv'
  BY <1>9 DEF PointerInv, Height, GetSkipHeight, InvertLowestOne
<1> QED
  BY <1>2, <1>10 DEF IInv

LEMMA NextInv == IInv /\ [SkipNext]_skipVars => IInv'
<1> SUFFICES ASSUME IInv, [SkipNext]_skipVars PROVE IInv'
  OBVIOUS
<1>1. CASE SkipNext
  BY <1>1, AddToBlockIndexInv DEF SkipNext
<1>2. CASE UNCHANGED skipVars
  BY <1>2 DEF skipVars, IInv, ShapeInv, PointerInv, Ancestor
<1> QED
  BY <1>1, <1>2

-----------------------------------------------------------------------------
(* The theorems *)

\* The inductive invariant holds of every tree that addToBlockIndex builds
\* (chain.cpp:315).
THEOREM Invariance == SkipSpec => []IInv
<1> QED
  BY InitInv, NextInv, PTL DEF SkipSpec

\* What checkAllBlockIndexs would assert behind its early return: every skip
\* pointer that buildSkip has set leads back, to an ancestor
\* (block_index.cpp:80).
THEOREM SkipPointersPointBack == SkipSpec => []SkipPointsBack
<1>1. IInv => SkipPointsBack
  <2> SUFFICES ASSUME IInv, NEW e \in index
               PROVE  /\ e # Genesis => Height(pPrev[e]) = Height(e) - 1
                      /\ Height(e) >= 2 =>
                           /\ pSkip[e] # NULL
                           /\ Height(pSkip[e]) < Height(e)
                           /\ pSkip[e] = AncestorByParents(e, Height(pSkip[e]))
    BY DEF SkipPointsBack
  <2>1. Height(e) \in Nat
    BY EntryFacts
  <2>2. CASE e = Genesis
    <3>1. Height(e) = 0
      BY <2>2, EntryFacts
    <3> QED
      BY <2>2, <3>1
  <2>3. CASE e # Genesis
    <3>1. Height(e) > 0
      BY <2>1, <2>3, EntryFacts
    <3>2. /\ Height(e) - 1 \in 0..Height(e) /\ pPrev[e] = Ancestor(e, Height(e) - 1)
          /\ GetSkipHeight(Height(e)) \in 0..Height(e) - 1
          /\ pSkip[e] = Ancestor(e, GetSkipHeight(Height(e)))
      BY <3>1, PointerFacts
    <3>3. Height(pPrev[e]) = Height(e) - 1
      BY <3>2, AncestorFacts
    <3>4. PICK t \in 0..Height(e) : t = GetSkipHeight(Height(e)) /\ t < Height(e)
      BY <2>1, <3>2
    <3>5. pSkip[e] \in index /\ Height(pSkip[e]) = t
      BY <3>2, <3>4, AncestorFacts
    <3>6. AncestorByParents(e, t) = pSkip[e]
      BY <3>2, <3>4, ParentsLead
    <3>7. pSkip[e] # NULL
      BY <3>5, EntryFacts
    <3> QED
      BY <3>3, <3>4, <3>5, <3>6, <3>7
  <2> QED
    BY <2>2, <2>3
<1> QED
  BY <1>1, Invariance, PTL

\* getAncestor, which jumps, finds what the parents lead to, for every height
\* asked for and wherever the fork is (block_index.cpp:40).
THEOREM JumpsFindAncestors == SkipSpec => []AncestorIsReached
<1>1. IInv => AncestorIsReached
  <2> SUFFICES ASSUME IInv, NEW e \in Tips, NEW target \in -1..(MaxHeight + 1)
               PROVE  GetAncestor(e, target) = AncestorByParents(e, target)
    BY DEF AncestorIsReached
  <2>1. e \in index /\ target \in Int
    BY MaxHeightType DEF Tips
  <2> QED
    BY <2>1, GetAncestorFinds, ParentsLead
<1> QED
  BY <1>1, Invariance, PTL

-----------------------------------------------------------------------------
(* Recursive functions: their equations hold, because they exist. *)

Hashes(list) == [i \in 1..Len(list) |-> TxHash(list[i])]

LevelAbove(level) == IF Len(level) = 1 THEN level ELSE Parents(level)

\* F holds the levels of the tree up to n.
IsTree(F, list, n) ==
    F = [i \in 0..n |-> IF i = 0 THEN Hashes(list) ELSE LevelAbove(F[i - 1])]

LEMMA TreeExists ==
    ASSUME NEW list, NEW n \in Nat
    PROVE  \E F : IsTree(F, list, n)
<1> DEFINE Bad == {k \in Nat : ~\E F : IsTree(F, list, k)}
<1> SUFFICES ASSUME Bad # {} PROVE FALSE
  OBVIOUS
<1>1. PICK k \in Bad : \A m \in Bad : k <= m
  BY LeastNatural
<1>2. k \in Nat /\ ~\E F : IsTree(F, list, k)
  OBVIOUS
<1>3. k # 0
  <2>1. IsTree([i \in 0..0 |-> Hashes(list)], list, 0)
    <3>1. \A i \in 0..0 : i = 0
      OBVIOUS
    <3> QED
      BY <3>1, Zenon DEF IsTree
  <2> QED
    BY <1>2, <2>1
<1>4. \E F : IsTree(F, list, k - 1)
  <2>1. k - 1 \in Nat /\ ~(k <= k - 1)
    BY <1>2, <1>3
  <2> QED
    BY <1>1, <2>1
<1> HIDE DEF Bad
<1>5. PICK F : IsTree(F, list, k - 1)
  BY <1>4
<1> DEFINE e(i, G) == IF i = 0 THEN Hashes(list) ELSE LevelAbove(G[i - 1])
           G == [i \in 0..k |-> IF i = k THEN e(i, F) ELSE F[i]]
<1>6. \A i \in 0..k - 1 : F[i] = e(i, F)
  BY <1>5, Zenon DEF IsTree
<1>7. ASSUME NEW i \in 0..k PROVE G[i] = e(i, G)
  <2>1. (i # k => i \in 0..k - 1) /\ (i # 0 => i - 1 \in 0..k /\ i - 1 # k)
    BY <1>2
  <2>2. G[i] = IF i = k THEN e(i, F) ELSE F[i]
    BY Zenon
  <2>3. i # 0 => G[i - 1] = F[i - 1]
    BY <2>1, Zenon
  <2>4. e(i, F) = e(i, G)
    <3> HIDE DEF G
    <3> QED
      BY <2>3, Zenon
  <2> HIDE DEF G, e
  <2> QED
    BY <1>6, <2>1, <2>2, <2>4, Zenon
<1>8. G = [i \in 0..k |-> G[i]]
  BY Zenon
<1> HIDE DEF G
<1>9. IsTree(G, list, k)
  <2>1. [i \in 0..k |-> G[i]] = [i \in 0..k |-> e(i, G)]
    <3> HIDE DEF e
    <3> QED
      BY <1>7, Zenon
  <2> QED
    BY <1>8, <2>1, Zenon DEF IsTree
<1> QED
  BY <1>2, <1>9

\* F holds what the climb has made up to its round n.
IsClimb(F, s, low, n) ==
    F = [i \in 0..n |-> IF i = 0 THEN s ELSE Combine(F[i - 1], low + i - 1)]

LEMMA ClimbExists ==
    ASSUME NEW s, NEW low, NEW n \in Nat
    PROVE  \E F : IsClimb(F, s, low, n)
<1> DEFINE Bad == {k \in Nat : ~\E F : IsClimb(F, s, low, k)}
<1> SUFFICES ASSUME Bad # {} PROVE FALSE
  OBVIOUS
<1>1. PICK k \in Bad : \A m \in Bad : k <= m
  BY LeastNatural
<1>2. k \in Nat /\ ~\E F : IsClimb(F, s, low, k)
  OBVIOUS
<1>3. k # 0
  <2>1. IsClimb([i \in 0..0 |-> s], s, low, 0)
    <3>1. \A i \in 0..0 : i = 0
      OBVIOUS
    <3> QED
      BY <3>1, Zenon DEF IsClimb
  <2> QED
    BY <1>2, <2>1
<1>4. \E F : IsClimb(F, s, low, k - 1)
  <2>1. k - 1 \in Nat /\ ~(k <= k - 1)
    BY <1>2, <1>3
  <2> QED
    BY <1>1, <2>1
<1> HIDE DEF Bad
<1>5. PICK F : IsClimb(F, s, low, k - 1)
  BY <1>4
<1> DEFINE e(i, G) == IF i = 0 THEN s ELSE Combine(G[i - 1], low + i - 1)
           G == [i \in 0..k |-> IF i = k THEN e(i, F) ELSE F[i]]
<1>6. \A i \in 0..k - 1 : F[i] = e(i, F)
  BY <1>5, Zenon DEF IsClimb
<1>7. ASSUME NEW i \in 0..k PROVE G[i] = e(i, G)
  <2>1. (i # k => i \in 0..k - 1) /\ (i # 0 => i - 1 \in 0..k /\ i - 1 # k)
    BY <1>2
  <2>2. G[i] = IF i = k THEN e(i, F) ELSE F[i]
    BY Zenon
  <2>3. i # 0 => G[i - 1] = F[i - 1]
    BY <2>1, Zenon
  <2>4. e(i, F) = e(i, G)
    <3> HIDE DEF G
    <3> QED
      BY <2>3, Zenon
  <2> HIDE DEF G, e
  <2> QED
    BY <1>6, <2>1, <2>2, <2>4, Zenon
<1>8. G = [i \in 0..k |-> G[i]]
  BY Zenon
<1> HIDE DEF G
<1>9. IsClimb(G, s, low, k)
  <2>1. [i \in 0..k |-> G[i]] = [i \in 0..k |-> e(i, G)]
    <3> HIDE DEF e
    <3> QED
      BY <1>7, Zenon
  <2> QED
    BY <1>8, <2>1, Zenon DEF IsClimb
<1> QED
  BY <1>2, <1>9

Start(level) ==
    [h |-> inner[level], match |-> matchlevel = level, mutated |-> mutated, branch |-> branch,
     count |-> Len(leaves), level |-> level]

\* F holds what the sweep has made up to its round n.
IsSweep(F, start, n) ==
    F = [i \in 0..n |-> IF i = 0 THEN start ELSE SweepStep(F[i - 1])]

LEMMA SweepExists ==
    ASSUME NEW start, NEW n \in Nat
    PROVE  \E F : IsSweep(F, start, n)
<1> DEFINE Bad == {k \in Nat : ~\E F : IsSweep(F, start, k)}
<1> SUFFICES ASSUME Bad # {} PROVE FALSE
  OBVIOUS
<1>1. PICK k \in Bad : \A m \in Bad : k <= m
  BY LeastNatural
<1>2. k \in Nat /\ ~\E F : IsSweep(F, start, k)
  OBVIOUS
<1>3. k # 0
  <2>1. IsSweep([i \in 0..0 |-> start], start, 0)
    <3>1. \A i \in 0..0 : i = 0
      OBVIOUS
    <3> QED
      BY <3>1, Zenon DEF IsSweep
  <2> QED
    BY <1>2, <2>1
<1>4. \E F : IsSweep(F, start, k - 1)
  <2>1. k - 1 \in Nat /\ ~(k <= k - 1)
    BY <1>2, <1>3
  <2> QED
    BY <1>1, <2>1
<1> HIDE DEF Bad
<1>5. PICK F : IsSweep(F, start, k - 1)
  BY <1>4
<1> DEFINE e(i, G) == IF i = 0 THEN start ELSE SweepStep(G[i - 1])
           G == [i \in 0..k |-> IF i = k THEN e(i, F) ELSE F[i]]
<1>6. \A i \in 0..k - 1 : F[i] = e(i, F)
  BY <1>5, Zenon DEF IsSweep
<1>7. ASSUME NEW i \in 0..k PROVE G[i] = e(i, G)
  <2>1. (i # k => i \in 0..k - 1) /\ (i # 0 => i - 1 \in 0..k /\ i - 1 # k)
    BY <1>2
  <2>2. G[i] = IF i = k THEN e(i, F) ELSE F[i]
    BY Zenon
  <2>3. i # 0 => G[i - 1] = F[i - 1]
    BY <2>1, Zenon
  <2>4. e(i, F) = e(i, G)
    <3> HIDE DEF G
    <3> QED
      BY <2>3, Zenon
  <2> HIDE DEF G, e
  <2> QED
    BY <1>6, <2>1, <2>2, <2>4, Zenon
<1>8. G = [i \in 0..k |-> G[i]]
  BY Zenon
<1> HIDE DEF G
<1>9. IsSweep(G, start, k)
  <2>1. [i \in 0..k |-> G[i]] = [i \in 0..k |-> e(i, G)]
    <3> HIDE DEF e
    <3> QED
      BY <1>7, Zenon
  <2> QED
    BY <1>8, <2>1, Zenon DEF IsSweep
<1> QED
  BY <1>2, <1>9

\* A hash and the step of a branch.
Joined(h, step, bit) == IF bit = 1 THEN Hash256(step, h) ELSE Hash256(h, step)

\* F holds what a branch leads to after its first n steps.
IsPath(F, leaf, steps, pos, n) ==
    F = [i \in 0..n |-> IF i = 0 THEN leaf ELSE Joined(F[i - 1], steps[i], (pos \div Pow2[i - 1]) % 2)]

LEMMA PathExists ==
    ASSUME NEW leaf, NEW steps, NEW pos, NEW n \in Nat
    PROVE  \E F : IsPath(F, leaf, steps, pos, n)
<1> DEFINE Bad == {k \in Nat : ~\E F : IsPath(F, leaf, steps, pos, k)}
<1> SUFFICES ASSUME Bad # {} PROVE FALSE
  OBVIOUS
<1>1. PICK k \in Bad : \A m \in Bad : k <= m
  BY LeastNatural
<1>2. k \in Nat /\ ~\E F : IsPath(F, leaf, steps, pos, k)
  OBVIOUS
<1>3. k # 0
  <2>1. IsPath([i \in 0..0 |-> leaf], leaf, steps, pos, 0)
    <3>1. \A i \in 0..0 : i = 0
      OBVIOUS
    <3> QED
      BY <3>1, Zenon DEF IsPath
  <2> QED
    BY <1>2, <2>1
<1>4. \E F : IsPath(F, leaf, steps, pos, k - 1)
  <2>1. k - 1 \in Nat /\ ~(k <= k - 1)
    BY <1>2, <1>3
  <2> QED
    BY <1>1, <2>1
<1> HIDE DEF Bad
<1>5. PICK F : IsPath(F, leaf, steps, pos, k - 1)
  BY <1>4
<1> DEFINE e(i, G) == IF i = 0 THEN leaf ELSE Joined(G[i - 1], steps[i], (pos \div Pow2[i - 1]) % 2)
           G == [i \in 0..k |-> IF i = k THEN e(i, F) ELSE F[i]]
<1>6. \A i \in 0..k - 1 : F[i] = e(i, F)
  BY <1>5, Zenon DEF IsPath
<1>7. ASSUME NEW i \in 0..k PROVE G[i] = e(i, G)
  <2>1. (i # k => i \in 0..k - 1) /\ (i # 0 => i - 1 \in 0..k /\ i - 1 # k)
    BY <1>2
  <2>2. G[i] = IF i = k THEN e(i, F) ELSE F[i]
    BY Zenon
  <2>3. i # 0 => G[i - 1] = F[i - 1]
    BY <2>1, Zenon
  <2>4. e(i, F) = e(i, G)
    <3> HIDE DEF G
    <3> QED
      BY <2>3, Zenon
  <2> HIDE DEF G, e
  <2> QED
    BY <1>6, <2>1, <2>2, <2>4, Zenon
<1>8. G = [i \in 0..k |-> G[i]]
  BY Zenon
<1> HIDE DEF G
<1>9. IsPath(G, leaf, steps, pos, k)
  <2>1. [i \in 0..k |-> G[i]] = [i \in 0..k |-> e(i, G)]
    <3> HIDE DEF e
    <3> QED
      BY <1>7, Zenon
  <2> QED
    BY <1>8, <2>1, Zenon DEF IsPath
<1> QED
  BY <1>2, <1>9

LEMMA LevelFacts == MaxLeaves \in Nat /\ MaxLeaves >= 1 /\ Levels = 0..MaxLeaves
  BY MerkleAssumption DEF Levels

LEMMA TreeEquation ==
    ASSUME NEW list
    PROVE  /\ TreeOf(list)[0] = Hashes(list)
           /\ \A n \in 1..MaxLeaves : TreeOf(list)[n] = LevelAbove(TreeOf(list)[n - 1])
<1>1. \E F : IsTree(F, list, MaxLeaves)
  BY LevelFacts, TreeExists
<1>2. IsTree(TreeOf(list), list, MaxLeaves)
  BY <1>1, Zenon DEF IsTree, TreeOf, Levels, Hashes, LevelAbove
<1>3. 0 \in 0..MaxLeaves /\ \A n \in 1..MaxLeaves : n \in 0..MaxLeaves /\ n # 0
  BY LevelFacts
<1> QED
  BY <1>2, <1>3, Zenon DEF IsTree

Climbs(F, s, low, high) ==
    /\ F[0] = s /\ Climb(s, low, high) = F[high - low]
    /\ \A i \in 1..high - low : F[i] = Combine(F[i - 1], low + i - 1)

LEMMA ClimbEquation ==
    ASSUME NEW s, NEW low \in Nat, NEW high \in Nat, low <= high
    PROVE  \E F : Climbs(F, s, low, high)
<1>1. high - low \in Nat
  OBVIOUS
<1>2. \E F : IsClimb(F, s, low, high - low)
  BY <1>1, ClimbExists
<1>3. PICK F : IsClimb(F, s, low, high - low) /\ Climb(s, low, high) = F[high - low]
  BY <1>2, Zenon DEF IsClimb, Climb
<1>4. 0 \in 0..high - low /\ \A i \in 1..high - low : i \in 0..high - low /\ i # 0
  BY <1>1
<1>5. F[0] = s /\ \A i \in 1..high - low : F[i] = Combine(F[i - 1], low + i - 1)
  BY <1>3, <1>4, Zenon DEF IsClimb
<1> QED
  BY <1>3, <1>5 DEF Climbs

LEMMA SweepEquation ==
    \E F : /\ F[0] = Start(LowestBit(Len(leaves))) /\ Sweep = F[MaxLeaves]
           /\ \A i \in 1..MaxLeaves : F[i] = SweepStep(F[i - 1])
<1> DEFINE start == Start(LowestBit(Len(leaves)))
<1>1. \E F : IsSweep(F, start, MaxLeaves)
  BY LevelFacts, SweepExists
<1>2. PICK F : IsSweep(F, start, MaxLeaves) /\ Sweep = F[MaxLeaves]
  BY <1>1, Zenon DEF IsSweep, Sweep, Start, Levels
<1>3. 0 \in 0..MaxLeaves /\ \A n \in 1..MaxLeaves : n \in 0..MaxLeaves /\ n # 0
  BY LevelFacts
<1>4. F[0] = start /\ \A i \in 1..MaxLeaves : F[i] = SweepStep(F[i - 1])
  BY <1>2, <1>3, Zenon DEF IsSweep
<1> QED
  BY <1>2, <1>4

Paths(F, leaf, steps, pos) ==
    /\ F[0] = leaf /\ ComputeMerkleRootFromBranch(leaf, steps, pos) = F[Len(steps)]
    /\ \A i \in 1..Len(steps) : F[i] = Joined(F[i - 1], steps[i], (pos \div Pow2[i - 1]) % 2)

LEMMA PathEquation ==
    ASSUME NEW leaf, NEW steps, NEW pos, Len(steps) \in Nat
    PROVE  \E F : Paths(F, leaf, steps, pos)
<1>1. \E F : IsPath(F, leaf, steps, pos, Len(steps))
  BY PathExists
<1>2. PICK F : IsPath(F, leaf, steps, pos, Len(steps)) /\ ComputeMerkleRootFromBranch(leaf, steps, pos) = F[Len(steps)]
  BY <1>1, Zenon DEF IsPath, ComputeMerkleRootFromBranch, Joined
<1>3. 0 \in 0..Len(steps) /\ \A i \in 1..Len(steps) : i \in 0..Len(steps) /\ i # 0
  OBVIOUS
<1>4. F[0] = leaf /\ \A i \in 1..Len(steps) : F[i] = Joined(F[i - 1], steps[i], (pos \div Pow2[i - 1]) % 2)
  BY <1>2, <1>3, Zenon DEF IsPath
<1> QED
  BY <1>2, <1>4 DEF Paths

-----------------------------------------------------------------------------
(* Bits and multiples *)

LEMMA Doubles ==
    ASSUME NEW k \in Nat
    PROVE  Pow2[k] \in Nat /\ Pow2[k] > 0 /\ Pow2[k + 1] \in Nat /\ Pow2[k + 1] > 0 /\ Pow2[k + 1] = 2 * Pow2[k]
<1>1. k + 1 \in Nat
  OBVIOUS
<1> QED
  BY <1>1, Pow2Positive, Pow2Def

LEMMA Halves ==
    ASSUME NEW n \in Nat, NEW k \in Nat
    PROVE  n \div Pow2[k] \in Nat /\ n \div Pow2[k + 1] = (n \div Pow2[k]) \div 2
<1>1. PICK p \in Nat : p = Pow2[k] /\ p > 0 /\ Pow2[k + 1] = 2 * p
  BY Doubles
<1>2. n \div p \in Nat
  BY <1>1, DivFacts
<1>3. \A b \in Nat : b > 0 => (n \div p) \div b = n \div (b * p)
  BY <1>1, DivDiv
<1>4. (n \div p) \div 2 = n \div (2 * p)
  BY <1>3
<1> QED
  BY <1>1, <1>2, <1>4

\* The quotient and the rest of a multiple.
LEMMA MultipleFacts ==
    ASSUME NEW q \in Nat, NEW p \in Nat, p > 0
    PROVE  (q * p) \div p = q /\ (q * p) % p = 0
<1>1. PICK n \in Nat : n = q * p
  OBVIOUS
<1>2. n \div p = q
  BY <1>1, DivExact
<1>3. n % p = 0
  <2>1. PICK r \in Nat : r = n % p /\ n = (n \div p) * p + r
    BY DivFacts
  <2>2. n = n + r
    BY <1>1, <1>2, <2>1
  <2> QED
    BY <2>1, <2>2
<1> QED
  BY <1>1, <1>2, <1>3

\* n is a multiple of a power of two.
Multiple(n, k) == n % Pow2[k] = 0

LEMMA MultipleIs ==
    ASSUME NEW n \in Nat, NEW k \in Nat, Multiple(n, k)
    PROVE  n \div Pow2[k] \in Nat /\ n = (n \div Pow2[k]) * Pow2[k]
<1>1. PICK p \in Nat : p = Pow2[k] /\ p > 0
  BY Doubles
<1>2. PICK q \in Nat : q = n \div p /\ n = q * p + (n % p)
  BY <1>1, DivFacts
<1>3. n % p = 0
  BY <1>1 DEF Multiple
<1>4. q * p \in Nat
  BY <1>1
<1>5. n = q * p
  BY <1>2, <1>3, <1>4
<1> QED
  BY <1>1, <1>2, <1>5

\* A multiple of a power is one of half of it, an even one.
LEMMA MultipleBelow ==
    ASSUME NEW n \in Nat, NEW k \in Nat, Multiple(n, k + 1)
    PROVE  Multiple(n, k) /\ n \div Pow2[k] = 2 * (n \div Pow2[k + 1])
<1>1. PICK p \in Nat : p = Pow2[k] /\ p > 0 /\ Pow2[k + 1] = 2 * p
  BY Doubles
<1>2. PICK q \in Nat : q = n \div Pow2[k + 1] /\ n = q * (2 * p)
  <2>1. k + 1 \in Nat
    OBVIOUS
  <2> QED
    BY <1>1, <2>1, MultipleIs
<1>3. 2 * q \in Nat /\ q * (2 * p) = (2 * q) * p
  BY <1>1
<1>4. PICK d \in Nat : d = 2 * q /\ n = d * p
  BY <1>2, <1>3
<1>5. n \div p = d /\ n % p = 0
  BY <1>1, <1>4, MultipleFacts
<1> QED
  BY <1>1, <1>2, <1>4, <1>5 DEF Multiple

LEMMA OddMultiple ==
    ASSUME NEW n \in Nat, NEW k \in Nat, Multiple(n, k)
    PROVE  Multiple(n, k + 1) <=> (n \div Pow2[k]) % 2 = 0
<1>1. PICK p \in Nat : p = Pow2[k] /\ p > 0 /\ Pow2[k + 1] = 2 * p
  BY Doubles
<1>2. PICK q \in Nat : q = n \div p /\ n = q * p
  BY <1>1, MultipleIs
<1>3. ASSUME q % 2 = 0 PROVE Multiple(n, k + 1)
  <2>1. PICK r \in Nat : q = 2 * r
    BY <1>3
  <2>2. n = r * (2 * p) /\ 2 * p \in Nat /\ 2 * p > 0
    BY <1>1, <1>2, <2>1
  <2>3. n % (2 * p) = 0
    BY <2>2, MultipleFacts
  <2> QED
    BY <1>1, <2>3 DEF Multiple
<1>4. ASSUME Multiple(n, k + 1) PROVE q % 2 = 0
  <2>1. k + 1 \in Nat
    OBVIOUS
  <2>2. PICK r \in Nat : r = n \div Pow2[k + 1]
    BY <1>4, <2>1, MultipleIs
  <2>3. q = 2 * r
    BY <1>1, <1>2, <1>4, <2>2, MultipleBelow
  <2> QED
    BY <2>3
<1> QED
  BY <1>1, <1>2, <1>3, <1>4

\* What LowestBit finds.
LEMMA LowestBitFacts ==
    ASSUME NEW n \in Nat, n > 0, n < Pow2[MaxLeaves + 1]
    PROVE  LET l == LowestBit(n)
           IN  /\ l \in 0..MaxLeaves /\ Multiple(n, l) /\ (n \div Pow2[l]) % 2 = 1
               /\ \A k \in 0..l : Multiple(n, k)
<1> DEFINE S == {k \in Nat : ~Multiple(n, k + 1)}
           l == LowestBit(n)
<1>0. MaxLeaves \in Nat /\ Levels = 0..MaxLeaves
  BY LevelFacts
<1>1. MaxLeaves \in S
  <2>1. PICK p \in Nat : p = Pow2[MaxLeaves + 1]
    BY <1>0, Doubles
  <2>2. n % p = n
    BY <2>1, ModSmall
  <2> QED
    BY <1>0, <2>1, <2>2 DEF Multiple
<1>2. PICK k \in S : \A m \in S : k <= m
  BY <1>1, LeastNatural
<1>3. k \in Nat /\ k <= MaxLeaves /\ ~Multiple(n, k + 1)
  BY <1>1, <1>2
<1>4. Multiple(n, k)
  <2>1. CASE k = 0
    <3>1. Pow2[0] = 1
      BY Pow2Def
    <3> QED
      BY <2>1, <3>1 DEF Multiple
  <2>2. CASE k # 0
    <3>1. k - 1 \in Nat /\ ~(k <= k - 1) /\ (k - 1) + 1 = k
      BY <1>3, <2>2
    <3>2. k - 1 \notin S
      <4> HIDE DEF S
      <4> QED
        BY <1>2, <3>1
    <3> QED
      BY <3>1, <3>2
  <2> QED
    BY <2>1, <2>2
<1>5. l \in Levels /\ Multiple(n, l) /\ ~Multiple(n, l + 1)
  <2>1. k \in Levels /\ n % Pow2[k + 1] # 0 /\ n % Pow2[k] = 0
    BY <1>0, <1>3, <1>4 DEF Multiple
  <2> QED
    BY <2>1, Zenon DEF LowestBit, Multiple
<1> HIDE DEF l
<1>6. l \in Nat
  BY <1>0, <1>5
<1>7. (n \div Pow2[l]) % 2 = 1
  <2>1. (n \div Pow2[l]) % 2 # 0
    BY <1>5, <1>6, OddMultiple
  <2>2. n \div Pow2[l] \in Nat
    BY <1>6, Halves
  <2> QED
    BY <2>1, <2>2
<1>8. ASSUME NEW j \in 0..l PROVE Multiple(n, j)
  <2> DEFINE Bad == {d \in Nat : d <= l /\ ~Multiple(n, l - d)}
  <2>1. Bad = {}
    <3> SUFFICES ASSUME Bad # {} PROVE FALSE
      OBVIOUS
    <3>1. PICK d \in Bad : \A m \in Bad : d <= m
      BY LeastNatural
    <3>2. d \in Nat /\ d <= l /\ ~Multiple(n, l - d)
      OBVIOUS
    <3>3. d # 0
      BY <1>5, <1>6, <3>2
    <3>4. d - 1 \in Nat /\ d - 1 <= l /\ ~(d <= d - 1) /\ (l - d) + 1 = l - (d - 1) /\ l - d \in Nat
      BY <1>6, <3>2, <3>3
    <3>5. Multiple(n, l - (d - 1))
      BY <3>1, <3>4
    <3>6. Multiple(n, (l - d) + 1)
      BY <3>4, <3>5
    <3> QED
      BY <3>2, <3>4, <3>6, MultipleBelow
  <2>2. l - j \in Nat /\ l - j <= l /\ l - (l - j) = j
    BY <1>6
  <2>3. l - j \notin Bad
    BY <2>1
  <2> QED
    BY <2>2, <2>3
<1> QED
  BY <1>0, <1>5, <1>7, <1>8 DEF l

\* The bits of n from l up: the number of complete subtrees of level l in a
\* list of length n, and the number of the node of level l above leaf n.
Quot(n, l) == n \div Pow2[l]

LEMMA QuotFacts ==
    ASSUME NEW n \in Nat
    PROVE  /\ Quot(n, 0) = n
           /\ \A l \in Nat : /\ Quot(n, l) \in Nat
                             /\ Quot(n, l + 1) \in Nat
                             /\ Quot(n, l + 1) = Quot(n, l) \div 2
<1>1. Quot(n, 0) = n
  <2>1. Pow2[0] = 1
    BY Pow2Def
  <2> QED
    BY <2>1 DEF Quot
<1>2. ASSUME NEW l \in Nat PROVE Quot(n, l) \in Nat /\ Quot(n, l + 1) = Quot(n, l) \div 2
  BY Halves DEF Quot
<1>3. \A l \in Nat : l + 1 \in Nat
  OBVIOUS
<1> QED
  BY <1>1, <1>2, <1>3

LEMMA QuotMono ==
    ASSUME NEW m \in Nat, NEW n \in Nat, m <= n, NEW l \in Nat
    PROVE  Quot(m, l) <= Quot(n, l)
<1>1. Pow2[l] \in Nat /\ Pow2[l] > 0
  BY Pow2Positive
<1> QED
  BY <1>1, DivMono DEF Quot

\* Two numbers that agree in the bits from l up agree further up.
LEMMA QuotAgree ==
    ASSUME NEW m \in Nat, NEW n \in Nat, NEW l \in Nat, Quot(m, l) = Quot(n, l), NEW k \in Nat, l <= k
    PROVE  Quot(m, k) = Quot(n, k)
<1> DEFINE Bad == {j \in Nat : l <= j /\ Quot(m, j) # Quot(n, j)}
<1> SUFFICES ASSUME Bad # {} PROVE FALSE
  OBVIOUS
<1>1. PICK j \in Bad : \A i \in Bad : j <= i
  BY LeastNatural
<1>2. j \in Nat /\ l <= j /\ Quot(m, j) # Quot(n, j)
  OBVIOUS
<1> HIDE DEF Bad
<1>3. j # l
  BY <1>2
<1>4. j - 1 \in Nat /\ l <= j - 1 /\ ~(j <= j - 1) /\ (j - 1) + 1 = j
  BY <1>2, <1>3
<1>5. Quot(m, j - 1) = Quot(n, j - 1)
  BY <1>1, <1>4 DEF Bad
<1>6. Quot(m, (j - 1) + 1) = Quot(n, (j - 1) + 1)
  BY <1>4, <1>5, QuotFacts
<1> QED
  BY <1>2, <1>4, <1>6

\* The lowest bit set, by the quotients.
LEMMA LowestBitQuot ==
    ASSUME NEW n \in Nat, n > 0, n < Pow2[MaxLeaves + 1]
    PROVE  /\ LowestBit(n) \in 0..MaxLeaves
           /\ Multiple(n, LowestBit(n))
           /\ Quot(n, LowestBit(n)) % 2 = 1
           /\ \A k \in 0..LowestBit(n) - 1 : Quot(n, k) = 2 * Quot(n, k + 1) /\ Quot(n, k) % 2 = 0
<1>1. PICK l \in 0..MaxLeaves : l = LowestBit(n)
  BY LowestBitFacts
<1>2. Multiple(n, l) /\ (n \div Pow2[l]) % 2 = 1 /\ \A k \in 0..l : Multiple(n, k)
  BY <1>1, LowestBitFacts
<1>3. ASSUME NEW k \in 0..l - 1 PROVE Quot(n, k) = 2 * Quot(n, k + 1) /\ Quot(n, k) % 2 = 0
  <2>1. k \in Nat /\ k + 1 \in 0..l
    BY <1>1, LevelFacts
  <2>2. Multiple(n, k + 1)
    BY <1>2, <2>1
  <2>3. Quot(n, k) = 2 * Quot(n, k + 1)
    BY <2>1, <2>2, MultipleBelow DEF Quot
  <2>4. Quot(n, k + 1) \in Nat
    BY <2>1, QuotFacts
  <2> QED
    BY <2>3, <2>4
<1> QED
  BY <1>1, <1>2, <1>3 DEF Quot

\* What adding one does to the quotients: the bits below the lowest one of
\* n + 1 are set in n, that one is clear, and the ones above it stay.
LEMMA Increment ==
    ASSUME NEW n \in Nat, n + 1 < Pow2[MaxLeaves + 1], NEW L, L = LowestBit(n + 1)
    PROVE  /\ L \in 0..MaxLeaves
           /\ \A k \in 0..L : Quot(n + 1, k) = Quot(n, k) + 1
           /\ \A k \in 0..L - 1 : Quot(n, k) = 2 * Quot(n, k + 1) + 1 /\ Quot(n, k) % 2 = 1
                                  /\ Quot(n + 1, k) % 2 = 0
           /\ Quot(n + 1, L) % 2 = 1 /\ Quot(n, L) % 2 = 0
           /\ \A k \in Nat : k > L => Quot(n + 1, k) = Quot(n, k)
<1>1. PICK m \in Nat : m = n + 1 /\ m > 0 /\ m < Pow2[MaxLeaves + 1]
  OBVIOUS
<1>2. L \in 0..MaxLeaves /\ Quot(m, L) % 2 = 1
      /\ \A k \in 0..L - 1 : Quot(m, k) = 2 * Quot(m, k + 1) /\ Quot(m, k) % 2 = 0
  BY <1>1, LowestBitQuot
<1>3. L \in Nat /\ MaxLeaves \in Nat
  BY <1>2, LevelFacts
<1> DEFINE Bad == {k \in Nat : k <= L /\ Quot(m, k) # Quot(n, k) + 1}
<1>4. Bad = {}
  <2> SUFFICES ASSUME Bad # {} PROVE FALSE
    OBVIOUS
  <2>1. PICK k \in Bad : \A i \in Bad : k <= i
    BY LeastNatural
  <2>2. k \in Nat /\ k <= L /\ Quot(m, k) # Quot(n, k) + 1
    OBVIOUS
  <2> HIDE DEF Bad
  <2>3. k # 0
    BY <1>1, <2>2, QuotFacts
  <2>4. k - 1 \in Nat /\ k - 1 <= L /\ ~(k <= k - 1) /\ (k - 1) + 1 = k /\ k - 1 \in 0..L - 1
    BY <1>3, <2>2, <2>3
  <2>5. Quot(m, k - 1) = Quot(n, k - 1) + 1
    BY <2>1, <2>4 DEF Bad
  <2>6. Quot(m, k - 1) = 2 * Quot(m, (k - 1) + 1)
    BY <1>2, <2>4
  <2>7. Quot(n, (k - 1) + 1) = Quot(n, k - 1) \div 2 /\ Quot(n, k - 1) \in Nat /\ Quot(m, (k - 1) + 1) \in Nat
    BY <1>1, <2>4, QuotFacts
  <2>8. Quot(m, (k - 1) + 1) = Quot(n, (k - 1) + 1) + 1
    BY <2>5, <2>6, <2>7
  <2> QED
    BY <2>2, <2>4, <2>8
<1>5. \A k \in 0..L : Quot(m, k) = Quot(n, k) + 1
  BY <1>3, <1>4
<1>6. ASSUME NEW k \in 0..L - 1
      PROVE  Quot(n, k) = 2 * Quot(n, k + 1) + 1 /\ Quot(n, k) % 2 = 1 /\ Quot(m, k) % 2 = 0
  <2>1. k \in Nat /\ k \in 0..L /\ k + 1 \in 0..L
    BY <1>3
  <2>2. Quot(m, k) = Quot(n, k) + 1 /\ Quot(m, k + 1) = Quot(n, k + 1) + 1
    BY <1>5, <2>1
  <2>3. Quot(m, k) = 2 * Quot(m, k + 1) /\ Quot(m, k) % 2 = 0
    BY <1>2
  <2>4. Quot(n, k) \in Nat /\ Quot(n, k + 1) \in Nat /\ Quot(n, k + 1) = Quot(n, k) \div 2
    BY <2>1, QuotFacts
  <2> QED
    BY <2>2, <2>3, <2>4
<1>7. Quot(n, L) % 2 = 0
  <2>1. Quot(m, L) = Quot(n, L) + 1 /\ Quot(n, L) \in Nat
    BY <1>3, <1>5, QuotFacts
  <2> QED
    BY <1>2, <2>1
<1>8. Quot(m, L + 1) = Quot(n, L + 1)
  <2>1. Quot(m, L) = Quot(n, L) + 1 /\ Quot(n, L) \in Nat
    BY <1>3, <1>5, QuotFacts
  <2>2. Quot(m, L + 1) = Quot(m, L) \div 2 /\ Quot(n, L + 1) = Quot(n, L) \div 2
    BY <1>1, <1>3, QuotFacts
  <2> QED
    BY <1>7, <2>1, <2>2
<1>9. ASSUME NEW k \in Nat, k > L PROVE Quot(m, k) = Quot(n, k)
  <2>1. L + 1 \in Nat /\ L + 1 <= k
    BY <1>3, <1>9
  <2> QED
    BY <1>1, <1>8, <2>1, QuotAgree
<1> HIDE DEF Bad
<1> QED
  BY <1>1, <1>2, <1>5, <1>6, <1>7, <1>9

-----------------------------------------------------------------------------
(* The levelwise tree *)

LEMMA LengthOf ==
    ASSUME NEW n \in Nat, NEW f, f = [i \in 1..n |-> f[i]]
    PROVE  Len(f) = n
<1>1. f \in [1..n -> {f[i] : i \in 1..n}]
  BY Zenon
<1>2. f \in Seq({f[i] : i \in 1..n}) /\ DOMAIN f = 1..n
  <2> DEFINE S == {f[i] : i \in 1..n}
  <2>1. f \in [1..n -> S]
    BY <1>1
  <2> HIDE DEF S
  <2>2. f \in Seq(S)
    BY <2>1, SeqDef
  <2> QED
    BY <2>1, <2>2 DEF S
<1> QED
  BY <1>2, LenProperties

\* Nodes are counted from zero.
Width(list, l) == Len(TreeOf(list)[l])
Node(list, l, i) == TreeOf(list)[l][i + 1]

\* The node that stands to the right of an even one.
Right(list, l, i) == IF i + 1 < Width(list, l) THEN Node(list, l, i + 1) ELSE Node(list, l, i)

LEMMA BottomLevel ==
    ASSUME NEW list, Len(list) \in Nat
    PROVE  /\ Width(list, 0) = Len(list)
           /\ \A i \in 0..Len(list) - 1 : Node(list, 0, i) = TxHash(list[i + 1])
<1> DEFINE f == Hashes(list)
<1>1. TreeOf(list)[0] = f
  BY TreeEquation
<1>2. f = [i \in 1..Len(list) |-> f[i]] /\ \A i \in 1..Len(list) : f[i] = TxHash(list[i])
  BY Zenon DEF Hashes
<1> HIDE DEF f
<1>3. Len(f) = Len(list)
  BY <1>2, LengthOf
<1>4. \A i \in 0..Len(list) - 1 : i + 1 \in 1..Len(list)
  OBVIOUS
<1>5. \A i \in 0..Len(list) - 1 : f[i + 1] = TxHash(list[i + 1])
  BY <1>2, <1>4, Zenon
<1> QED
  BY <1>1, <1>3, <1>5, Zenon DEF Width, Node

LEMMA NextLevel ==
    ASSUME NEW list, NEW l \in 0..MaxLeaves - 1, Width(list, l) \in Nat, Width(list, l) # 1
    PROVE  /\ Width(list, l + 1) = (Width(list, l) + 1) \div 2
           /\ \A i \in 0..Width(list, l + 1) - 1 :
                 Node(list, l + 1, i) = Hash256(Node(list, l, 2 * i), Right(list, l, 2 * i))
<1> DEFINE t == TreeOf(list)[l]
           f == Parents(t)
           w == (Len(t) + 1) \div 2
<1>1. TreeOf(list)[l + 1] = f
  <2>1. l + 1 \in 1..MaxLeaves /\ (l + 1) - 1 = l
    BY LevelFacts
  <2>2. TreeOf(list)[l + 1] = LevelAbove(TreeOf(list)[(l + 1) - 1])
    BY <2>1, TreeEquation
  <2> QED
    BY <2>1, <2>2 DEF LevelAbove, Width
<1> DEFINE e(i) == Hash256(t[2*i - 1], IF 2*i <= Len(t) THEN t[2*i] ELSE t[2*i - 1])
<1>2. f = [i \in 1..w |-> f[i]] /\ \A i \in 1..w : f[i] = e(i)
  BY Zenon DEF Parents
<1>3. Len(t) \in Nat /\ w \in Nat
  <2>1. Len(t) \in Nat
    BY Zenon DEF Width
  <2> HIDE DEF t
  <2> QED
    BY <2>1
<1> HIDE DEF f
<1>4. Len(f) = w
  BY <1>2, <1>3, LengthOf
<1>5. Width(list, l + 1) = w
  BY <1>1, <1>4 DEF Width
<1>6. ASSUME NEW i \in 0..w - 1
      PROVE  Node(list, l + 1, i) = Hash256(Node(list, l, 2 * i), Right(list, l, 2 * i))
  <2>1. i + 1 \in 1..w /\ 2 * (i + 1) - 1 = 2 * i + 1 /\ 2 * (i + 1) = (2 * i + 1) + 1
        /\ (2 * (i + 1) <= Len(t) <=> 2 * i + 1 < Len(t))
    <3> HIDE DEF t
    <3> QED
      BY <1>3
  <2>2. f[i + 1] = e(i + 1)
    BY <1>2, <2>1
  <2>3. t[2 * (i + 1) - 1] = Node(list, l, 2 * i)
    BY <2>1, Zenon DEF Node
  <2>4. t[2 * (i + 1)] = Node(list, l, 2 * i + 1)
    BY <2>1, Zenon DEF Node
  <2>5. e(i + 1) = Hash256(Node(list, l, 2 * i), Right(list, l, 2 * i))
    BY <2>1, <2>3, <2>4, Zenon DEF Right, Width
  <2> QED
    BY <1>1, <2>2, <2>5, Zenon DEF Node
<1> QED
  BY <1>5, <1>6 DEF Width

LEMMA TopLevel ==
    ASSUME NEW list, NEW l \in 0..MaxLeaves - 1, Width(list, l) = 1
    PROVE  Width(list, l + 1) = 1 /\ Node(list, l + 1, 0) = Node(list, l, 0)
<1>1. l + 1 \in 1..MaxLeaves /\ (l + 1) - 1 = l
  BY LevelFacts
<1>2. TreeOf(list)[l + 1] = LevelAbove(TreeOf(list)[(l + 1) - 1])
  BY <1>1, TreeEquation
<1>3. TreeOf(list)[l + 1] = TreeOf(list)[l]
  BY <1>1, <1>2 DEF LevelAbove, Width
<1> QED
  BY <1>3 DEF Width, Node

\* The width of a level is the number of its complete subtrees, and one more
\* if the list does not end with one of them.
LEMMA WidthBounds ==
    ASSUME NEW list, Len(list) \in Nat, Len(list) >= 1, NEW l \in 0..MaxLeaves
    PROVE  /\ Width(list, l) \in Nat /\ Width(list, l) >= 1
           /\ Quot(Len(list), l) \in Nat
           /\ Quot(Len(list), l) <= Width(list, l)
           /\ Width(list, l) <= Quot(Len(list), l) + 1
<1> DEFINE n == Len(list)
           Ok(k) == /\ Width(list, k) \in Nat /\ Width(list, k) >= 1
                    /\ Quot(n, k) <= Width(list, k)
                    /\ Width(list, k) <= Quot(n, k) + 1
           Bad == {k \in Nat : k <= MaxLeaves /\ ~Ok(k)}
<1>1. Bad = {}
  <2> SUFFICES ASSUME Bad # {} PROVE FALSE
    OBVIOUS
  <2>1. PICK k \in Bad : \A i \in Bad : k <= i
    BY LeastNatural
  <2>2. k \in Nat /\ k <= MaxLeaves /\ ~Ok(k)
    OBVIOUS
  <2> HIDE DEF Bad
  <2>3. k # 0
    <3>1. Width(list, 0) = n /\ Quot(n, 0) = n
      BY BottomLevel, QuotFacts
    <3>2. Ok(0)
      <4> HIDE DEF n
      <4> QED
        BY <3>1 DEF n
    <3> QED
      BY <2>2, <3>2
  <2>4. k - 1 \in Nat /\ k - 1 <= MaxLeaves /\ ~(k <= k - 1) /\ (k - 1) + 1 = k /\ k - 1 \in 0..MaxLeaves - 1
    BY <2>2, <2>3, LevelFacts
  <2>5. Ok(k - 1)
    <3> HIDE DEF Ok
    <3> QED
      BY <2>1, <2>4 DEF Bad
  <2>6. Quot(n, (k - 1) + 1) = Quot(n, k - 1) \div 2 /\ Quot(n, k - 1) \in Nat
    BY <2>4, QuotFacts
  <2>7. CASE Width(list, k - 1) = 1
    <3>1. Width(list, (k - 1) + 1) = 1
      BY <2>4, <2>7, TopLevel
    <3>2. Ok((k - 1) + 1)
      BY <2>5, <2>6, <2>7, <3>1
    <3> QED
      BY <2>2, <2>4, <3>2
  <2>8. CASE Width(list, k - 1) # 1
    <3>1. Width(list, (k - 1) + 1) = (Width(list, k - 1) + 1) \div 2
      BY <2>4, <2>5, <2>8, NextLevel
    <3>2. Ok((k - 1) + 1)
      BY <2>5, <2>6, <2>8, <3>1
    <3> QED
      BY <2>2, <2>4, <3>2
  <2> QED
    BY <2>7, <2>8
<1>2. l \in Nat /\ l <= MaxLeaves /\ l \notin Bad
  BY <1>1, LevelFacts
<1>3. Quot(n, l) \in Nat
  BY <1>2, QuotFacts
<1> QED
  BY <1>2, <1>3

\* A complete subtree is made of two complete ones.
LEMMA CompleteNode ==
    ASSUME NEW list, Len(list) \in Nat, Len(list) >= 1, NEW l \in 0..MaxLeaves - 1,
           NEW i \in Nat, i < Quot(Len(list), l + 1)
    PROVE  /\ 2 * i + 1 < Quot(Len(list), l)
           /\ Node(list, l + 1, i) = Hash256(Node(list, l, 2 * i), Node(list, l, 2 * i + 1))
<1>1. l \in Nat /\ l \in 0..MaxLeaves /\ l + 1 \in 0..MaxLeaves
  BY LevelFacts
<1>2. PICK q \in Nat : q = Quot(Len(list), l) /\ Quot(Len(list), l + 1) = q \div 2
  <2>1. Quot(Len(list), l) \in Nat /\ Quot(Len(list), l + 1) = Quot(Len(list), l) \div 2
    BY <1>1, QuotFacts
  <2> QED
    BY <2>1
<1>3. PICK w \in Nat : w = Width(list, l) /\ q <= w
  BY <1>1, <1>2, WidthBounds
<1>4. PICK v \in Nat : v = Width(list, l + 1) /\ q \div 2 <= v
  BY <1>1, <1>2, WidthBounds
<1>5. 2 * i + 1 < q /\ w # 1 /\ 2 * i + 1 < w /\ i \in 0..v - 1
  BY <1>2, <1>3, <1>4
<1>6. Node(list, l + 1, i) = Hash256(Node(list, l, 2 * i), Right(list, l, 2 * i))
  BY <1>3, <1>4, <1>5, NextLevel
<1> QED
  BY <1>2, <1>3, <1>5, <1>6 DEF Right

\* A list and a longer one that starts with it.
Prefix(list, more) ==
    /\ Len(list) \in Nat /\ Len(more) \in Nat /\ Len(list) <= Len(more)
    /\ \A i \in 1..Len(list) : more[i] = list[i]

\* Complete subtrees stay when the list grows.
LEMMA PrefixNode ==
    ASSUME NEW list, NEW more, Prefix(list, more), NEW l \in 0..MaxLeaves,
           NEW i \in Nat, i < Quot(Len(list), l)
    PROVE  Node(more, l, i) = Node(list, l, i)
<1> DEFINE Ok(k) == \A j \in Nat : j < Quot(Len(list), k) => Node(more, k, j) = Node(list, k, j)
           Bad == {k \in Nat : k <= MaxLeaves /\ ~Ok(k)}
<1>0. Len(list) \in Nat /\ Len(more) \in Nat /\ Len(list) <= Len(more)
  BY DEF Prefix
<1>1. Bad = {}
  <2> SUFFICES ASSUME Bad # {} PROVE FALSE
    OBVIOUS
  <2>1. PICK k \in Bad : \A m \in Bad : k <= m
    BY LeastNatural
  <2>2. k \in Nat /\ k <= MaxLeaves /\ ~Ok(k)
    OBVIOUS
  <2> HIDE DEF Bad
  <2>3. k # 0
    <3>1. ASSUME NEW j \in Nat, j < Quot(Len(list), 0) PROVE Node(more, 0, j) = Node(list, 0, j)
      <4>1. j < Len(list)
        BY <1>0, <3>1, QuotFacts
      <4>2. j \in 0..Len(list) - 1 /\ j \in 0..Len(more) - 1 /\ j + 1 \in 1..Len(list)
        BY <1>0, <4>1
      <4>3. Node(list, 0, j) = TxHash(list[j + 1]) /\ Node(more, 0, j) = TxHash(more[j + 1])
        BY <1>0, <4>2, BottomLevel
      <4> QED
        BY <4>2, <4>3 DEF Prefix
    <3>2. Ok(0)
      BY <3>1
    <3> QED
      BY <2>2, <3>2
  <2>4. k - 1 \in Nat /\ k - 1 <= MaxLeaves /\ ~(k <= k - 1) /\ (k - 1) + 1 = k /\ k - 1 \in 0..MaxLeaves - 1
    BY <2>2, <2>3, LevelFacts
  <2>5. Ok(k - 1)
    <3> HIDE DEF Ok
    <3> QED
      BY <2>1, <2>4 DEF Bad
  <2>6. ASSUME NEW j \in Nat, j < Quot(Len(list), (k - 1) + 1)
        PROVE  Node(more, (k - 1) + 1, j) = Node(list, (k - 1) + 1, j)
    <3>0. Quot(Len(list), (k - 1) + 1) \in Nat
      BY <1>0, <2>4, QuotFacts
    <3>1. Len(list) >= 1
      <4>1. CASE Len(list) = 0
        <5>1. Quot(0, (k - 1) + 1) <= 0
          <6>1. Pow2[(k - 1) + 1] \in Nat /\ Pow2[(k - 1) + 1] > 0
            BY <2>4, Doubles
          <6>2. \A p \in Nat : p > 0 => 0 \div p = 0
            OBVIOUS
          <6> QED
            BY <6>1, <6>2 DEF Quot
        <5> QED
          BY <2>6, <3>0, <4>1, <5>1
      <4> QED
        BY <1>0, <4>1
    <3>2. Len(more) >= 1
      BY <1>0, <3>1
    <3>3. /\ 2 * j + 1 < Quot(Len(list), k - 1)
          /\ Node(list, (k - 1) + 1, j) = Hash256(Node(list, k - 1, 2 * j), Node(list, k - 1, 2 * j + 1))
      BY <1>0, <2>4, <2>6, <3>1, CompleteNode
    <3>4. Quot(Len(list), (k - 1) + 1) <= Quot(Len(more), (k - 1) + 1) /\ Quot(Len(more), (k - 1) + 1) \in Nat
      BY <1>0, <2>4, QuotMono, QuotFacts
    <3>5. j < Quot(Len(more), (k - 1) + 1)
      BY <2>6, <3>0, <3>4
    <3>6. Node(more, (k - 1) + 1, j) = Hash256(Node(more, k - 1, 2 * j), Node(more, k - 1, 2 * j + 1))
      BY <1>0, <2>4, <3>2, <3>5, CompleteNode
    <3>7. Quot(Len(list), k - 1) \in Nat
      BY <1>0, <2>4, QuotFacts
    <3>8. 2 * j \in Nat /\ 2 * j < Quot(Len(list), k - 1) /\ 2 * j + 1 \in Nat
      BY <3>3, <3>7
    <3>9. Node(more, k - 1, 2 * j) = Node(list, k - 1, 2 * j)
          /\ Node(more, k - 1, 2 * j + 1) = Node(list, k - 1, 2 * j + 1)
      BY <2>5, <3>3, <3>8
    <3> QED
      BY <3>3, <3>6, <3>9
  <2>7. Ok((k - 1) + 1)
    BY <2>6
  <2> QED
    BY <2>2, <2>4, <2>7
<1>2. l \in Nat /\ l <= MaxLeaves /\ l \notin Bad
  BY <1>1, LevelFacts
<1> QED
  BY <1>2

\* The list with one more leaf.
LEMMA AppendPrefix ==
    ASSUME NEW list \in Seq(Tx), NEW leaf \in Tx
    PROVE  /\ Prefix(list, Append(list, leaf))
           /\ Len(Append(list, leaf)) = Len(list) + 1
           /\ Append(list, leaf)[Len(list) + 1] = leaf
           /\ Append(list, leaf) \in Seq(Tx)
  BY DEF Prefix

-----------------------------------------------------------------------------
(* The climb *)

\* f is a sequence of length n.
IsSeq(f, n) == f = [i \in 1..n |-> f[i]]

LEMMA AppendIs ==
    ASSUME NEW n \in Nat, NEW f, IsSeq(f, n), NEW x
    PROVE  Append(f, x) = [i \in 1..n + 1 |-> IF i = n + 1 THEN x ELSE f[i]]
<1> DEFINE S == {f[i] : i \in 1..n} \cup {x}
<1>1. f \in [1..n -> S]
  <2>1. f = [i \in 1..n |-> f[i]]
    BY DEF IsSeq
  <2> QED
    BY <2>1, Zenon
<1>2. x \in S
  OBVIOUS
<1> HIDE DEF S
<1>3. f \in Seq(S)
  BY <1>1, SeqDef
<1>4. Len(f) = n
  BY LengthOf DEF IsSeq
<1>5. Append(f, x) \in Seq(S) /\ Len(Append(f, x)) = n + 1
      /\ Append(f, x)[n + 1] = x /\ \A i \in 1..n : Append(f, x)[i] = f[i]
  BY <1>2, <1>3, <1>4, AppendProperties
<1>6. PICK g : g = Append(f, x)
  OBVIOUS
<1>7. g = [i \in 1..n + 1 |-> g[i]]
  BY <1>5, <1>6, LenProperties
<1>8. \A i \in 1..n + 1 : i # n + 1 => i \in 1..n
  OBVIOUS
<1>9. \A i \in 1..n + 1 : g[i] = IF i = n + 1 THEN x ELSE f[i]
  BY <1>5, <1>6, <1>8
<1> QED
  BY <1>6, <1>7, <1>9, Zenon

\* A number that is smaller from level m up is smaller from below.
LEMMA QuotLess ==
    ASSUME NEW a \in Nat, NEW b \in Nat, NEW m \in Nat, Quot(a, m) < Quot(b, m), NEW j \in Nat, j <= m
    PROVE  Quot(a, j) < Quot(b, j)
<1> DEFINE Bad == {k \in Nat : j <= k /\ k <= m /\ ~(Quot(b, k) <= Quot(a, k))}
<1> SUFFICES ASSUME ~(Quot(a, j) < Quot(b, j)) PROVE FALSE
  OBVIOUS
<1>1. \A k \in Nat : Quot(a, k) \in Nat /\ Quot(b, k) \in Nat
  BY QuotFacts
<1>2. m \in Bad
  BY <1>1
<1>3. PICK k \in Bad : \A i \in Bad : k <= i
  BY <1>2, LeastNatural
<1>4. k \in Nat /\ j <= k /\ k <= m /\ ~(Quot(b, k) <= Quot(a, k))
  OBVIOUS
<1> HIDE DEF Bad
<1>5. k # j
  BY <1>1, <1>4
<1>6. k - 1 \in Nat /\ j <= k - 1 /\ k - 1 <= m /\ ~(k <= k - 1) /\ (k - 1) + 1 = k
  BY <1>4, <1>5
<1>7. Quot(b, k - 1) <= Quot(a, k - 1)
  BY <1>3, <1>6 DEF Bad
<1>8. Quot(b, (k - 1) + 1) = Quot(b, k - 1) \div 2 /\ Quot(a, (k - 1) + 1) = Quot(a, k - 1) \div 2
  BY <1>6, QuotFacts
<1>9. Quot(b, (k - 1) + 1) <= Quot(a, (k - 1) + 1)
  BY <1>1, <1>6, <1>7, <1>8
<1> QED
  BY <1>4, <1>6, <1>9

\* The sibling of a node: a last even one is its own.
Sibling(list, l, i) == IF i % 2 = 1 THEN Node(list, l, i - 1) ELSE Right(list, l, i)

\* The siblings on the way from the wanted leaf up to level l.
BranchTo(list, l) == [i \in 1..l |-> Sibling(list, i - 1, Quot(branchpos, i - 1))]

LEMMA BranchGrows ==
    ASSUME NEW list, NEW l \in Nat, NEW x, x = Sibling(list, l, Quot(branchpos, l))
    PROVE  Append(BranchTo(list, l), x) = BranchTo(list, l + 1)
<1> DEFINE f == BranchTo(list, l)
           e(i) == Sibling(list, i - 1, Quot(branchpos, i - 1))
<1>1. IsSeq(f, l) /\ \A i \in 1..l : f[i] = e(i)
  BY Zenon DEF IsSeq, BranchTo
<1>2. BranchTo(list, l + 1) = [i \in 1..l + 1 |-> e(i)]
  BY Zenon DEF BranchTo
<1>3. (l + 1) - 1 = l /\ \A i \in 1..l + 1 : i # l + 1 => i \in 1..l
  OBVIOUS
<1>4. e(l + 1) = x
  BY <1>3
<1> HIDE DEF f, e
<1>5. Append(f, x) = [i \in 1..l + 1 |-> IF i = l + 1 THEN x ELSE f[i]]
  BY <1>1, AppendIs
<1>6. \A i \in 1..l + 1 : (IF i = l + 1 THEN x ELSE f[i]) = e(i)
  BY <1>1, <1>3, <1>4
<1>7. Append(f, x) = BranchTo(list, l + 1)
  BY <1>2, <1>5, <1>6, Zenon
<1> QED
  BY <1>7 DEF f

Fields == {"h", "match", "mutated", "branch"}

LEMMA CombineFields ==
    ASSUME NEW s, Fields \subseteq DOMAIN s, NEW level, NEW t, t = Combine(s, level)
    PROVE  /\ DOMAIN t = DOMAIN s
           /\ t.h = Hash256(inner[level], s.h)
           /\ t.match = (s.match \/ matchlevel = level)
           /\ t.mutated = (s.mutated \/ inner[level] = s.h)
           /\ t.branch = IF s.match THEN Append(s.branch, inner[level])
                         ELSE IF matchlevel = level THEN Append(s.branch, s.h)
                         ELSE s.branch
           /\ \A x \in DOMAIN s \ Fields : t[x] = s[x]
  BY DEF Combine, Fields

\* The wanted leaf is in the list, under node i of level k.
Under(list, k, i) == branchpos < Len(list) /\ Quot(branchpos, k) = i

LEMMA UnderComplete ==
    ASSUME NEW list, Len(list) \in Nat, branchpos \in Nat, NEW k \in Nat, NEW i, i < Quot(Len(list), k)
    PROVE  Under(list, k, i) <=> Quot(branchpos, k) = i
<1>1. ASSUME Quot(branchpos, k) = i PROVE branchpos < Len(list)
  <2>1. Quot(branchpos, 0) < Quot(Len(list), 0)
    <3>1. Quot(branchpos, k) < Quot(Len(list), k) /\ 0 \in Nat /\ 0 <= k
      BY <1>1
    <3> QED
      BY <3>1, QuotLess
  <2> QED
    BY <2>1, QuotFacts
<1> QED
  BY <1>1 DEF Under

\* Node i of level k is the right child of node j, and inner has the left one.
Rung(list, k, i, j) ==
    /\ j \in Nat /\ i = 2 * j + 1 /\ i < Width(list, k)
    /\ inner[k] = Node(list, k, 2 * j)
    /\ Node(list, k + 1, j) = Hash256(Node(list, k, 2 * j), Node(list, k, i))
    /\ matchlevel = k <=> Under(list, k, 2 * j)

\* The climb has come to node i of level k.
At(list, s, k, i) ==
    /\ s.h = Node(list, k, i)
    /\ s.match \in BOOLEAN
    /\ s.match <=> Under(list, k, i)
    /\ s.branch = IF s.match THEN BranchTo(list, k) ELSE branch

\* The stored branch, if there is one, is a part of one of the list.
StoredBranch(list) == matchlevel \in Levels => branch = BranchTo(list, matchlevel)

LEMMA CombineStep ==
    ASSUME NEW list, NEW s, NEW k \in Levels, NEW i, NEW j, branchpos \in Nat,
           Fields \subseteq DOMAIN s, At(list, s, k, i), Rung(list, k, i, j), StoredBranch(list)
    PROVE  /\ At(list, Combine(s, k), k + 1, j)
           /\ DOMAIN Combine(s, k) = DOMAIN s
           /\ Combine(s, k).mutated = (s.mutated \/ Node(list, k, 2 * j) = Node(list, k, i))
           /\ \A x \in DOMAIN s \ Fields : Combine(s, k)[x] = s[x]
<1> DEFINE q == Quot(branchpos, k)
<1>1. PICK t : t = Combine(s, k)
  OBVIOUS
<1>2. /\ DOMAIN t = DOMAIN s
      /\ t.h = Hash256(inner[k], s.h)
      /\ t.match = (s.match \/ matchlevel = k)
      /\ t.mutated = (s.mutated \/ inner[k] = s.h)
      /\ t.branch = IF s.match THEN Append(s.branch, inner[k])
                    ELSE IF matchlevel = k THEN Append(s.branch, s.h)
                    ELSE s.branch
      /\ \A x \in DOMAIN s \ Fields : t[x] = s[x]
  BY <1>1, CombineFields
<1>3. k \in Nat /\ j \in Nat /\ i = 2 * j + 1 /\ i < Width(list, k) /\ q \in Nat
      /\ Quot(branchpos, k + 1) = q \div 2
  <2>1. k \in Nat /\ j \in Nat /\ i = 2 * j + 1 /\ i < Width(list, k)
    BY LevelFacts DEF Rung
  <2> QED
    BY <2>1, QuotFacts
<1>4. t.h = Node(list, k + 1, j)
  BY <1>2 DEF At, Rung
<1>5. (s.match <=> branchpos < Len(list) /\ q = i) /\ (matchlevel = k <=> branchpos < Len(list) /\ q = 2 * j)
      /\ s.match \in BOOLEAN
  BY DEF At, Rung, Under
<1>6. t.match \in BOOLEAN /\ (t.match <=> Under(list, k + 1, j))
  <2>1. q \div 2 = j <=> (q = 2 * j + 1 \/ q = 2 * j)
    <3> HIDE DEF q
    <3> QED
      BY <1>3
  <2> HIDE DEF q
  <2> QED
    BY <1>2, <1>3, <1>5, <2>1 DEF Under
<1>7. t.branch = IF t.match THEN BranchTo(list, k + 1) ELSE branch
  <2>1. CASE s.match
    <3>1. s.branch = BranchTo(list, k) /\ q = 2 * j + 1 /\ t.match
      BY <1>2, <1>3, <1>5, <2>1 DEF At
    <3>2. Sibling(list, k, q) = inner[k]
      <4>1. q % 2 = 1 /\ q - 1 = 2 * j
        <5> HIDE DEF q
        <5> QED
          BY <1>3, <3>1
      <4> HIDE DEF q
      <4> QED
        BY <4>1 DEF Sibling, Rung
    <3>3. Append(BranchTo(list, k), inner[k]) = BranchTo(list, k + 1)
      BY <1>3, <3>2, BranchGrows
    <3> QED
      BY <1>2, <2>1, <3>1, <3>3
  <2>2. CASE ~s.match /\ matchlevel = k
    <3>1. s.branch = BranchTo(list, k) /\ q = 2 * j /\ t.match
      BY <1>2, <1>5, <2>2 DEF At, StoredBranch
    <3>2. Sibling(list, k, q) = s.h
      <4>1. q % 2 # 1 /\ q + 1 = i
        <5> HIDE DEF q
        <5> QED
          BY <1>3, <3>1
      <4> HIDE DEF q
      <4> QED
        BY <1>3, <4>1 DEF Sibling, Right, At
    <3>3. Append(BranchTo(list, k), s.h) = BranchTo(list, k + 1)
      BY <1>3, <3>2, BranchGrows
    <3> QED
      BY <1>2, <2>2, <3>1, <3>3
  <2>3. CASE ~s.match /\ matchlevel # k
    BY <1>2, <1>5, <2>3 DEF At
  <2> QED
    BY <1>5, <2>1, <2>2, <2>3
<1>8. At(list, t, k + 1, j)
  BY <1>4, <1>6, <1>7 DEF At
<1>9. t.mutated = (s.mutated \/ Node(list, k, 2 * j) = Node(list, k, i))
  BY <1>2 DEF At, Rung
<1> QED
  BY <1>1, <1>2, <1>8, <1>9

\* c gives the node of the climb at each level.
Ladder(list, c, low, high) == \A k \in low..high - 1 : Rung(list, k, c[k], c[k + 1])

\* Equal siblings have been met below level k.
Met(list, c, low, k) == \E m \in low..k - 1 : Node(list, m, c[m] - 1) = Node(list, m, c[m])

LEMMA ClimbReaches ==
    ASSUME NEW list, NEW s, NEW low \in Levels, NEW high \in Nat, low <= high, high <= MaxLeaves + 1,
           NEW c, branchpos \in Nat, Fields \subseteq DOMAIN s, s.mutated \in BOOLEAN,
           At(list, s, low, c[low]), Ladder(list, c, low, high), StoredBranch(list)
    PROVE  /\ At(list, Climb(s, low, high), high, c[high])
           /\ DOMAIN Climb(s, low, high) = DOMAIN s
           /\ Climb(s, low, high).mutated = (s.mutated \/ Met(list, c, low, high))
           /\ \A x \in DOMAIN s \ Fields : Climb(s, low, high)[x] = s[x]
<1>1. low \in Nat /\ MaxLeaves \in Nat /\ Levels = 0..MaxLeaves
  BY LevelFacts
<1>0. PICK F : Climbs(F, s, low, high)
  BY <1>1, ClimbEquation
<1>2. /\ F[0] = s /\ Climb(s, low, high) = F[high - low]
      /\ \A i \in 1..high - low : F[i] = Combine(F[i - 1], low + i - 1)
  BY <1>0 DEF Climbs
<1> DEFINE Ok(k, t) == /\ At(list, t, k, c[k]) /\ DOMAIN t = DOMAIN s
                       /\ t.mutated = (s.mutated \/ Met(list, c, low, k))
                       /\ \A x \in DOMAIN s \ Fields : t[x] = s[x]
           Bad == {d \in Nat : d <= high - low /\ ~Ok(low + d, F[d])}
<1>3. Bad = {}
  <2> SUFFICES ASSUME Bad # {} PROVE FALSE
    OBVIOUS
  <2>1. PICK d \in Bad : \A i \in Bad : d <= i
    BY LeastNatural
  <2>2. d \in Nat /\ d <= high - low /\ ~Ok(low + d, F[d])
    OBVIOUS
  <2> HIDE DEF Bad
  <2>3. d # 0
    <3>1. low + 0 = low /\ \A m \in low..low - 1 : FALSE
      BY <1>1
    <3>2. ~Met(list, c, low, low)
      BY <3>1, Zenon DEF Met
    <3>3. Ok(low, F[0])
      BY <1>2, <3>2
    <3> QED
      BY <2>2, <3>1, <3>3
  <2>4. PICK k \in Nat : k = low + d - 1 /\ k \in Levels /\ k \in low..high - 1 /\ k + 1 = low + d
                         /\ k = low + (d - 1)
    BY <1>1, <2>2, <2>3
  <2>5. d - 1 \in Nat /\ d - 1 <= high - low /\ ~(d <= d - 1) /\ d \in 1..high - low
    BY <1>1, <2>2, <2>3
  <2>6. Ok(k, F[d - 1])
    <3> HIDE DEF Ok
    <3> QED
      BY <2>1, <2>4, <2>5 DEF Bad
  <2>7. F[d] = Combine(F[d - 1], k)
    BY <1>2, <2>4, <2>5
  <2>8. Rung(list, k, c[k], c[k + 1])
    BY <2>4 DEF Ladder
  <2>9. PICK r : r = F[d - 1]
    OBVIOUS
  <2>10. Fields \subseteq DOMAIN r /\ At(list, r, k, c[k]) /\ r.mutated = (s.mutated \/ Met(list, c, low, k))
         /\ DOMAIN r = DOMAIN s /\ \A x \in DOMAIN s \ Fields : r[x] = s[x]
    BY <2>6, <2>9
  <2>11. /\ At(list, F[d], k + 1, c[k + 1])
         /\ DOMAIN F[d] = DOMAIN r
         /\ F[d].mutated = (r.mutated \/ Node(list, k, 2 * c[k + 1]) = Node(list, k, c[k]))
         /\ \A x \in DOMAIN r \ Fields : F[d][x] = r[x]
    BY <2>4, <2>7, <2>8, <2>9, <2>10, CombineStep
  <2>12. Met(list, c, low, k + 1) <=> Met(list, c, low, k) \/ Node(list, k, 2 * c[k + 1]) = Node(list, k, c[k])
    <3>1. c[k] - 1 = 2 * c[k + 1]
      BY <2>8 DEF Rung
    <3>2. \A m : m \in low..(k + 1) - 1 <=> m = k \/ m \in low..k - 1
      BY <1>1, <2>4
    <3> QED
      BY <3>1, <3>2, Zenon DEF Met
  <2>13. F[d].mutated = (s.mutated \/ Met(list, c, low, k + 1))
    <3>1. Met(list, c, low, k) \in BOOLEAN /\ Met(list, c, low, k + 1) \in BOOLEAN
      BY DEF Met
    <3> QED
      BY <2>10, <2>11, <2>12, <3>1
  <2>14. Ok(k + 1, F[d])
    BY <2>10, <2>11, <2>13
  <2> QED
    BY <2>2, <2>4, <2>14
<1>4. high - low \in Nat /\ high - low \notin Bad /\ low + (high - low) = high
  BY <1>1, <1>3
<1>5. Ok(high, F[high - low])
  BY <1>4
<1> QED
  BY <1>2, <1>5

-----------------------------------------------------------------------------
(* The inductive invariant *)

\* Two complete subtrees that are siblings are equal.
CompleteDuplicate(list) ==
    \E k \in Levels : \E j \in Nat :
       2 * j + 1 < Quot(Len(list), k) /\ Node(list, k, 2 * j) = Node(list, k, 2 * j + 1)

MerkleTypes ==
    /\ leaves \in Seq(Tx) /\ Len(leaves) <= MaxLeaves
    /\ branchpos \in Nat
    /\ DOMAIN inner = Levels
    /\ mutated \in BOOLEAN

\* inner has the last complete subtree of each level whose number is odd.
InnerIsLast ==
    \A k \in Levels : Quot(Len(leaves), k) % 2 = 1
                         => inner[k] = Node(leaves, k, Quot(Len(leaves), k) - 1)

MutatedIsDuplicate == mutated <=> CompleteDuplicate(leaves)

\* matchlevel is the level of the one of these subtrees that has the leaf.
MatchIsLevel ==
    /\ \A k \in Levels : Quot(Len(leaves), k) % 2 = 1
                            => (matchlevel = k <=> Quot(branchpos, k) = Quot(Len(leaves), k) - 1)
    /\ branchpos < Len(leaves) => matchlevel \in Levels
    /\ matchlevel \in Levels => branchpos < Len(leaves) /\ Quot(Len(leaves), matchlevel) % 2 = 1

BranchIsStored ==
    /\ StoredBranch(leaves)
    /\ matchlevel \notin Levels => branch = <<>>

MerkleInv == MerkleTypes /\ InnerIsLast /\ MutatedIsDuplicate /\ MatchIsLevel /\ BranchIsStored

LEMMA EmptyBranch ==
    ASSUME NEW list
    PROVE  BranchTo(list, 0) = <<>>
<1>1. 1..0 = {}
  OBVIOUS
<1>2. BranchTo(list, 0) = [i \in {} |-> Sibling(list, i - 1, Quot(branchpos, i - 1))]
  BY <1>1, Zenon DEF BranchTo
<1> QED
  BY <1>2

\* The sibling of a node in a complete subtree stays when the list grows.
LEMMA SiblingStays ==
    ASSUME NEW list, NEW more, Prefix(list, more), Len(list) >= 1, NEW l \in 0..MaxLeaves - 1,
           NEW i \in Nat, i \div 2 < Quot(Len(list), l + 1)
    PROVE  Sibling(more, l, i) = Sibling(list, l, i)
<1>1. l \in Nat /\ l \in 0..MaxLeaves
  BY LevelFacts
<1>2. Len(list) \in Nat /\ Len(more) \in Nat /\ Len(more) >= 1 /\ Len(list) <= Len(more)
  <2>1. Len(list) \in Nat /\ Len(more) \in Nat /\ Len(list) <= Len(more)
    BY DEF Prefix
  <2> QED
    BY <2>1
<1>3. PICK q \in Nat : q = Quot(Len(list), l) /\ Quot(Len(list), l + 1) = q \div 2
  <2>1. Quot(Len(list), l) \in Nat /\ Quot(Len(list), l + 1) = Quot(Len(list), l) \div 2
    BY <1>1, <1>2, QuotFacts
  <2> QED
    BY <2>1
<1>4. q <= Width(list, l) /\ Width(list, l) \in Nat
  BY <1>1, <1>2, <1>3, WidthBounds
<1>5. q <= Width(more, l) /\ Width(more, l) \in Nat
  <2>1. Quot(Len(more), l) <= Width(more, l) /\ Width(more, l) \in Nat /\ Quot(Len(more), l) \in Nat
    BY <1>1, <1>2, WidthBounds
  <2>2. Quot(Len(list), l) <= Quot(Len(more), l)
    BY <1>1, <1>2, QuotMono
  <2> QED
    BY <1>3, <2>1, <2>2
<1>6. \A m \in Nat : m < q => Node(more, l, m) = Node(list, l, m)
  BY <1>1, <1>3, PrefixNode
<1>7. CASE i % 2 = 1
  <2>1. i - 1 \in Nat /\ i - 1 < q
    BY <1>3, <1>7
  <2> QED
    BY <1>6, <1>7, <2>1 DEF Sibling
<1>8. CASE i % 2 # 1
  <2>1. i + 1 \in Nat /\ i + 1 < q
    BY <1>3, <1>8
  <2> QED
    BY <1>4, <1>5, <1>6, <1>8, <2>1 DEF Sibling, Right
<1> QED
  BY <1>7, <1>8

LEMMA BranchStays ==
    ASSUME NEW list, NEW more, Prefix(list, more), Len(list) >= 1, branchpos \in Nat,
           NEW m \in Levels, Quot(branchpos, m) < Quot(Len(list), m)
    PROVE  BranchTo(more, m) = BranchTo(list, m)
<1>1. m \in Nat /\ m \in 0..MaxLeaves /\ Len(list) \in Nat /\ MaxLeaves \in Nat
  BY LevelFacts DEF Prefix
<1>2. ASSUME NEW i \in 1..m
      PROVE  Sibling(more, i - 1, Quot(branchpos, i - 1)) = Sibling(list, i - 1, Quot(branchpos, i - 1))
  <2>1. i - 1 \in Nat /\ i - 1 \in 0..MaxLeaves - 1 /\ (i - 1) + 1 = i /\ i \in Nat /\ i <= m
    BY <1>1
  <2>2. Quot(branchpos, i) < Quot(Len(list), i)
    BY <1>1, <2>1, QuotLess
  <2>3. Quot(branchpos, i - 1) \in Nat /\ Quot(branchpos, (i - 1) + 1) = Quot(branchpos, i - 1) \div 2
    BY <2>1, QuotFacts
  <2>4. Quot(branchpos, i - 1) \div 2 < Quot(Len(list), (i - 1) + 1)
    BY <2>1, <2>2, <2>3
  <2> QED
    BY <2>1, <2>3, <2>4, SiblingStays
<1> QED
  BY <1>2, Zenon DEF BranchTo

\* The list is short enough for LowestBit.
LEMMA ShortEnough ==
    ASSUME NEW n \in Nat, n <= MaxLeaves
    PROVE  n < Pow2[MaxLeaves] /\ n < Pow2[MaxLeaves + 1]
<1>1. MaxLeaves \in Nat
  BY LevelFacts
<1>2. MaxLeaves < Pow2[MaxLeaves] /\ Pow2[MaxLeaves] \in Nat
  BY <1>1, Pow2Grows, Pow2Positive
<1>3. Pow2[MaxLeaves + 1] = 2 * Pow2[MaxLeaves]
  BY <1>1, Doubles
<1> QED
  BY <1>1, <1>2, <1>3

\* What is stored belongs to the longer list too.
LEMMA StoredStays ==
    ASSUME MerkleInv, NEW more, Prefix(leaves, more)
    PROVE  StoredBranch(more)
<1>1. SUFFICES ASSUME matchlevel \in Levels PROVE branch = BranchTo(more, matchlevel)
  BY DEF StoredBranch
<1>2. branch = BranchTo(leaves, matchlevel) /\ branchpos \in Nat
  BY <1>1 DEF MerkleInv, BranchIsStored, StoredBranch, MerkleTypes
<1>3. Len(leaves) \in Nat /\ branchpos < Len(leaves) /\ Quot(Len(leaves), matchlevel) % 2 = 1
      /\ (matchlevel = matchlevel <=> Quot(branchpos, matchlevel) = Quot(Len(leaves), matchlevel) - 1)
  BY <1>1 DEF MerkleInv, MatchIsLevel, MerkleTypes
<1>4. matchlevel \in Nat
  BY <1>1, LevelFacts
<1>5. Quot(Len(leaves), matchlevel) \in Nat
  BY <1>3, <1>4, QuotFacts
<1>6. Quot(branchpos, matchlevel) < Quot(Len(leaves), matchlevel) /\ Len(leaves) >= 1
  BY <1>2, <1>3, <1>5
<1>7. BranchTo(more, matchlevel) = BranchTo(leaves, matchlevel)
  BY <1>1, <1>2, <1>6, BranchStays
<1> QED
  BY <1>2, <1>7

\* The climb from leaf n meets equal siblings.
LeafMeets(list, n, L) == \E k \in 0..L - 1 : Node(list, k, Quot(n, k) - 1) = Node(list, k, Quot(n, k))

\* The climb from a new leaf.
LEMMA LeafClimbs ==
    ASSUME MerkleInv, NEW leaf \in Tx, Len(leaves) + 1 <= MaxLeaves,
           NEW more, more = Append(leaves, leaf), NEW L, L = LowestBit(Len(leaves) + 1),
           NEW s, s = Climb([h |-> TxHash(leaf), match |-> Len(leaves) = branchpos,
                             mutated |-> mutated, branch |-> branch], 0, L)
    PROVE  /\ At(more, s, L, Quot(Len(leaves), L))
           /\ s.mutated \in BOOLEAN
           /\ s.mutated <=> mutated \/ LeafMeets(more, Len(leaves), L)
<1> DEFINE n == Len(leaves)
           c == [k \in 0..L |-> Quot(n, k)]
           start == [h |-> TxHash(leaf), match |-> Len(leaves) = branchpos,
                     mutated |-> mutated, branch |-> branch]
<1>1. leaves \in Seq(Tx) /\ n \in Nat /\ n <= MaxLeaves /\ branchpos \in Nat /\ mutated \in BOOLEAN
      /\ MaxLeaves \in Nat /\ Levels = 0..MaxLeaves
  BY LevelFacts DEF MerkleInv, MerkleTypes
<1>2. Prefix(leaves, more) /\ Len(more) = n + 1 /\ more[n + 1] = leaf
  BY <1>1, AppendPrefix
<1> HIDE DEF n
<1>3. n + 1 < Pow2[MaxLeaves + 1] /\ n + 1 >= 1 /\ n + 1 \in Nat
  BY <1>1, ShortEnough DEF n
<1>4. /\ L \in 0..MaxLeaves
      /\ \A k \in 0..L : Quot(n + 1, k) = Quot(n, k) + 1
      /\ \A k \in 0..L - 1 : Quot(n, k) = 2 * Quot(n, k + 1) + 1 /\ Quot(n, k) % 2 = 1
  BY <1>1, <1>3, Increment DEF n
<1>5. L \in Nat /\ L <= MaxLeaves /\ 0 \in Levels /\ L <= MaxLeaves + 1 /\ 0 <= L
  BY <1>1, <1>4
<1>6. At(more, start, 0, n)
  <2>1. start.h = Node(more, 0, n)
    <3>1. n \in 0..Len(more) - 1 /\ Len(more) \in Nat
      BY <1>1, <1>2
    <3>2. Node(more, 0, n) = TxHash(more[n + 1])
      BY <3>1, BottomLevel
    <3> QED
      BY <1>2, <3>2
  <2>2. start.match \in BOOLEAN /\ (start.match <=> Under(more, 0, n))
    <3>1. start.match \in BOOLEAN /\ (start.match <=> branchpos = n)
      BY DEF n
    <3>2. Quot(branchpos, 0) = branchpos
      BY <1>1, QuotFacts
    <3> QED
      BY <1>1, <1>2, <3>1, <3>2 DEF Under
  <2>3. ASSUME start.match PROVE branch = BranchTo(more, 0)
    <3>1. branchpos = n
      BY <2>3 DEF n
    <3>2. matchlevel \notin Levels
      BY <1>1, <3>1 DEF MerkleInv, MatchIsLevel, n
    <3>3. branch = <<>>
      BY <3>2 DEF MerkleInv, BranchIsStored
    <3> QED
      BY <3>3, EmptyBranch
  <2>4. start.branch = branch
    OBVIOUS
  <2> HIDE DEF start
  <2> QED
    BY <2>1, <2>2, <2>3, <2>4 DEF At
<1>7. StoredBranch(more)
  BY <1>2, StoredStays
<1>8. ASSUME NEW k \in 0..L - 1 PROVE Rung(more, k, Quot(n, k), Quot(n, k + 1))
  <2>1. k \in Nat /\ k \in Levels /\ k \in 0..MaxLeaves - 1 /\ k + 1 \in Nat /\ k \in 0..L /\ k + 1 \in 0..L
        /\ k \in 0..MaxLeaves
    BY <1>1, <1>5
  <2>2. PICK j \in Nat : j = Quot(n, k + 1)
    BY <1>1, <2>1, QuotFacts
  <2>3. Quot(n, k) = 2 * j + 1 /\ Quot(n, k) % 2 = 1 /\ Quot(n + 1, k) = 2 * j + 2 /\ Quot(n + 1, k + 1) = j + 1
    BY <1>4, <2>1, <2>2
  <2>4. Quot(n, k) < Width(more, k)
    <3>1. Quot(n + 1, k) <= Width(more, k) /\ Width(more, k) \in Nat
      BY <1>2, <1>3, <2>1, WidthBounds
    <3> QED
      BY <2>3, <3>1
  <2>5. inner[k] = Node(more, k, 2 * j)
    <3>1. inner[k] = Node(leaves, k, Quot(n, k) - 1)
      BY <2>1, <2>3 DEF MerkleInv, InnerIsLast, n
    <3>2. Quot(n, k) - 1 = 2 * j /\ 2 * j \in Nat /\ 2 * j < Quot(n, k)
      BY <2>3
    <3>3. Node(more, k, 2 * j) = Node(leaves, k, 2 * j)
      BY <1>2, <2>1, <3>2, PrefixNode DEF n
    <3> QED
      BY <3>1, <3>2, <3>3
  <2>6. Node(more, k + 1, j) = Hash256(Node(more, k, 2 * j), Node(more, k, 2 * j + 1))
    <3>1. j < Quot(Len(more), k + 1)
      BY <1>2, <2>3
    <3> QED
      BY <1>2, <1>3, <2>1, <3>1, CompleteNode
  <2>7. matchlevel = k <=> Under(more, k, 2 * j)
    <3>1. matchlevel = k <=> Quot(branchpos, k) = Quot(n, k) - 1
      BY <2>1, <2>3 DEF MerkleInv, MatchIsLevel, n
    <3>2. Quot(n, k) - 1 = 2 * j /\ 2 * j < Quot(n + 1, k)
      BY <2>3
    <3>3. Under(more, k, 2 * j) <=> Quot(branchpos, k) = 2 * j
      <4>1. 2 * j < Quot(Len(more), k) /\ Len(more) \in Nat
        BY <1>2, <1>3, <3>2
      <4>2. k \in Nat /\ branchpos \in Nat
        BY <1>1, <2>1
      <4> QED
        BY <4>1, <4>2, UnderComplete
    <3> QED
      BY <3>1, <3>2, <3>3
  <2> QED
    BY <2>2, <2>3, <2>4, <2>5, <2>6, <2>7 DEF Rung
<1>9. \A k \in 0..L : c[k] = Quot(n, k)
  BY Zenon
<1> HIDE DEF c
<1>10. Ladder(more, c, 0, L)
  <2>1. \A k \in 0..L - 1 : k \in 0..L /\ k + 1 \in 0..L
    BY <1>5
  <2>2. ASSUME NEW k \in 0..L - 1 PROVE Rung(more, k, c[k], c[k + 1])
    <3>1. c[k] = Quot(n, k) /\ c[k + 1] = Quot(n, k + 1)
      BY <1>9, <2>1
    <3> QED
      BY <1>8, <3>1
  <2> QED
    BY <2>2 DEF Ladder
<1>11. Fields \subseteq DOMAIN start /\ start.mutated = mutated
  BY DEF Fields
<1>12. c[0] = n /\ c[L] = Quot(n, L)
  <2>1. 0 \in 0..L /\ L \in 0..L
    BY <1>5
  <2> QED
    BY <1>1, <1>9, <2>1, QuotFacts
<1>13. s = Climb(start, 0, L)
  OBVIOUS
<1> HIDE DEF start
<1>14. At(more, s, L, c[L]) /\ s.mutated = (start.mutated \/ Met(more, c, 0, L))
  <2>1. At(more, start, 0, c[0])
    BY <1>6, <1>12
  <2>2. start.mutated \in BOOLEAN /\ branchpos \in Nat /\ Fields \subseteq DOMAIN start
    BY <1>1, <1>11
  <2>3. PICK o : o \in Levels /\ o = 0 /\ o <= L
    BY <1>5
  <2>4. At(more, Climb(start, o, L), L, c[L])
        /\ Climb(start, o, L).mutated = (start.mutated \/ Met(more, c, o, L))
    <3>1. At(more, start, o, c[o]) /\ Ladder(more, c, o, L)
      BY <1>10, <2>1, <2>3
    <3> HIDE DEF n
    <3> QED
      BY <1>5, <1>7, <2>2, <2>3, <3>1, ClimbReaches
  <2> QED
    BY <1>13, <2>3, <2>4
<1>15. Met(more, c, 0, L) <=> LeafMeets(more, n, L)
  <2>1. \A k \in 0..L - 1 : c[k] = Quot(n, k)
    BY <1>5, <1>9
  <2> QED
    BY <2>1, Zenon DEF Met, LeafMeets
<1>16. s.mutated \in BOOLEAN /\ (s.mutated <=> mutated \/ Met(more, c, 0, L))
  BY <1>1, <1>11, <1>14
<1> QED
  BY <1>12, <1>14, <1>15, <1>16 DEF n

LEMMA MerkleStart == MerkleInit => MerkleInv
<1> SUFFICES ASSUME MerkleInit PROVE MerkleInv
  OBVIOUS
<1>1. leaves = <<>> /\ branchpos \in Nat /\ branchpos >= 0 /\ Len(leaves) = 0 /\ matchlevel \notin Levels
      /\ mutated = FALSE /\ branch = <<>> /\ DOMAIN inner = Levels
  BY LevelFacts DEF MerkleInit, NoLevel
<1>2. \A k \in Levels : Quot(0, k) = 0
  <2>1. ASSUME NEW k \in Levels PROVE Quot(0, k) = 0
    <3>1. Pow2[k] \in Nat /\ Pow2[k] > 0
      BY LevelFacts, Pow2Positive
    <3>2. \A p \in Nat : p > 0 => 0 \div p = 0
      OBVIOUS
    <3> QED
      BY <3>1, <3>2 DEF Quot
  <2> QED
    BY <2>1
<1>3. MerkleTypes
  <2>1. leaves \in Seq(Tx) /\ Len(leaves) <= MaxLeaves
    BY <1>1, LevelFacts
  <2> QED
    BY <1>1, <2>1 DEF MerkleTypes
<1>4. InnerIsLast /\ MatchIsLevel
  BY <1>1, <1>2 DEF InnerIsLast, MatchIsLevel
<1>5. MutatedIsDuplicate
  BY <1>1, <1>2 DEF MutatedIsDuplicate, CompleteDuplicate
<1>6. BranchIsStored
  BY <1>1 DEF BranchIsStored, StoredBranch
<1> QED
  BY <1>3, <1>4, <1>5, <1>6 DEF MerkleInv

LEMMA LeafStep ==
    ASSUME MerkleInv, NEW leaf \in Tx, ProcessLeaf(leaf)
    PROVE  MerkleInv'
<1> DEFINE n == Len(leaves)
           L == LowestBit(n + 1)
           more == Append(leaves, leaf)
           s == Climb([h |-> TxHash(leaf), match |-> Len(leaves) = branchpos,
                       mutated |-> mutated, branch |-> branch], 0, L)
<1>1. /\ n + 1 <= MaxLeaves
      /\ leaves' = more
      /\ inner' = [inner EXCEPT ![L] = s.h]
      /\ matchlevel' = IF s.match THEN L ELSE matchlevel
      /\ mutated' = s.mutated
      /\ branch' = s.branch
      /\ branchpos' = branchpos
  BY DEF ProcessLeaf
<1>2. leaves \in Seq(Tx) /\ n \in Nat /\ branchpos \in Nat /\ mutated \in BOOLEAN
      /\ MaxLeaves \in Nat /\ Levels = 0..MaxLeaves /\ DOMAIN inner = Levels
  BY LevelFacts DEF MerkleInv, MerkleTypes
<1>3. Prefix(leaves, more) /\ Len(more) = n + 1 /\ more \in Seq(Tx)
  BY <1>2, AppendPrefix
<1>4. /\ At(more, s, L, Quot(n, L))
      /\ s.mutated \in BOOLEAN
      /\ s.mutated <=> mutated \/ LeafMeets(more, n, L)
  <2> HIDE DEF s, more, L
  <2>1. more = Append(leaves, leaf) /\ L = LowestBit(Len(leaves) + 1)
        /\ s = Climb([h |-> TxHash(leaf), match |-> Len(leaves) = branchpos,
                      mutated |-> mutated, branch |-> branch], 0, L)
    BY DEF s, more, L
  <2> QED
    BY <1>1, <2>1, LeafClimbs
<1>5. StoredBranch(more)
  BY <1>3, StoredStays
<1> HIDE DEF s, more
<1>6. n + 1 < Pow2[MaxLeaves + 1] /\ n + 1 >= 1 /\ n + 1 \in Nat
  BY <1>1, <1>2, ShortEnough
<1>7. /\ L \in 0..MaxLeaves
      /\ \A k \in 0..L : Quot(n + 1, k) = Quot(n, k) + 1
      /\ \A k \in 0..L - 1 : Quot(n, k) = 2 * Quot(n, k + 1) + 1 /\ Quot(n, k) % 2 = 1
                             /\ Quot(n + 1, k) % 2 = 0
      /\ Quot(n + 1, L) % 2 = 1 /\ Quot(n, L) % 2 = 0
      /\ \A k \in Nat : k > L => Quot(n + 1, k) = Quot(n, k)
  BY <1>2, <1>6, Increment
<1> HIDE DEF L, n
<1>8. Len(leaves') = n + 1
  BY <1>1, <1>3
<1>9. L \in Nat /\ L \in Levels /\ \A k \in Levels : k \in Nat /\ (k < L \/ k = L \/ k > L)
                                   /\ (k < L => k \in 0..L - 1) /\ (k <= L => k \in 0..L)
  BY <1>2, <1>7
<1>10. \A k \in Nat : Quot(n, k) \in Nat /\ Quot(branchpos, k) \in Nat /\ Quot(n + 1, k) \in Nat
  BY <1>2, <1>6, QuotFacts
<1>11. s.h = Node(more, L, Quot(n, L)) /\ s.match \in BOOLEAN /\ (s.match <=> Quot(branchpos, L) = Quot(n, L))
       /\ s.branch = IF s.match THEN BranchTo(more, L) ELSE branch
  <2>1. Quot(n, L) < Quot(Len(more), L)
    <3>1. Quot(n + 1, L) = Quot(n, L) + 1 /\ Quot(n, L) \in Nat
      BY <1>7, <1>9, <1>10
    <3> QED
      BY <1>3, <3>1
  <2>2. Under(more, L, Quot(n, L)) <=> Quot(branchpos, L) = Quot(n, L)
    BY <1>2, <1>3, <1>6, <1>9, <2>1, UnderComplete
  <2> QED
    BY <1>4, <2>2 DEF At
<1>20. MerkleTypes'
  BY <1>1, <1>2, <1>3, <1>4, <1>8, <1>9 DEF MerkleTypes
<1>21. InnerIsLast'
  <2>1. ASSUME NEW k \in Levels, Quot(n + 1, k) % 2 = 1
        PROVE  inner'[k] = Node(more, k, Quot(n + 1, k) - 1)
    <3>1. CASE k = L
      <4>1. inner'[L] = s.h
        BY <1>1, <1>2, <1>9
      <4>2. Quot(n + 1, L) - 1 = Quot(n, L)
        <5>1. Quot(n + 1, L) = Quot(n, L) + 1
          BY <1>7, <1>9
        <5> QED
          BY <1>9, <1>10, <5>1
      <4> QED
        BY <1>11, <3>1, <4>1, <4>2
    <3>2. CASE k < L
      BY <1>7, <1>9, <2>1, <3>2
    <3>3. CASE k > L
      <4>1. inner'[k] = inner[k]
        BY <1>1, <1>2, <1>9, <3>3
      <4>2. Quot(n + 1, k) = Quot(n, k) /\ k \in Nat
        BY <1>7, <1>9, <3>3
      <4>3. inner[k] = Node(leaves, k, Quot(n, k) - 1)
        BY <2>1, <4>2 DEF MerkleInv, InnerIsLast, n
      <4>4. Quot(n, k) - 1 \in Nat /\ Quot(n, k) - 1 < Quot(n, k)
        BY <1>10, <2>1, <4>2
      <4>5. Node(more, k, Quot(n, k) - 1) = Node(leaves, k, Quot(n, k) - 1)
        BY <1>2, <1>3, <4>4, PrefixNode DEF n
      <4> QED
        BY <4>1, <4>2, <4>3, <4>5
    <3> QED
      BY <1>9, <3>1, <3>2, <3>3
  <2> QED
    BY <1>1, <1>8, <2>1 DEF InnerIsLast, Node
<1>22. MutatedIsDuplicate'
  <2>1. ASSUME mutated PROVE CompleteDuplicate(more)
    <3>1. PICK k \in Levels, j \in Nat : 2 * j + 1 < Quot(n, k) /\ Node(leaves, k, 2 * j) = Node(leaves, k, 2 * j + 1)
      BY <2>1 DEF MerkleInv, MutatedIsDuplicate, CompleteDuplicate, n
    <3>2. k \in Nat /\ k \in 0..MaxLeaves /\ Quot(n, k) \in Nat /\ 2 * j \in Nat /\ 2 * j + 1 \in Nat
      <4>1. k \in Nat /\ k \in 0..MaxLeaves
        BY <1>2
      <4>2. 2 * j \in Nat /\ 2 * j + 1 \in Nat
        OBVIOUS
      <4> QED
        BY <1>10, <4>1, <4>2
    <3>3. 2 * j < Quot(n, k)
      BY <3>1, <3>2
    <3>4. Node(more, k, 2 * j) = Node(leaves, k, 2 * j) /\ Node(more, k, 2 * j + 1) = Node(leaves, k, 2 * j + 1)
      BY <1>3, <3>1, <3>2, <3>3, PrefixNode DEF n
    <3>5. Quot(n, k) <= Quot(n + 1, k)
      BY <1>2, <1>6, <3>2, QuotMono
    <3>6. 2 * j + 1 < Quot(n + 1, k)
      BY <1>10, <3>1, <3>2, <3>5
    <3> QED
      BY <1>3, <3>1, <3>4, <3>6 DEF CompleteDuplicate
  <2>2. ASSUME NEW k \in 0..L - 1, Node(more, k, Quot(n, k) - 1) = Node(more, k, Quot(n, k))
        PROVE  CompleteDuplicate(more)
    <3>1. k \in Levels /\ k \in Nat /\ k \in 0..L /\ k + 1 \in Nat
      BY <1>2, <1>7, <1>9
    <3>2. PICK j \in Nat : j = Quot(n, k + 1)
      BY <1>10, <3>1
    <3>3. Quot(n, k) = 2 * j + 1 /\ Quot(n + 1, k) = Quot(n, k) + 1
      BY <1>7, <3>1, <3>2
    <3>4. Quot(n, k) - 1 = 2 * j /\ 2 * j + 1 < Quot(n + 1, k)
      BY <3>3
    <3>5. Node(more, k, 2 * j) = Node(more, k, 2 * j + 1)
      BY <2>2, <3>3, <3>4
    <3> QED
      BY <1>3, <3>1, <3>4, <3>5 DEF CompleteDuplicate
  <2>3. ASSUME CompleteDuplicate(more), ~mutated
        PROVE  LeafMeets(more, n, L)
    <3>1. PICK k \in Levels, j \in Nat : 2 * j + 1 < Quot(n + 1, k) /\ Node(more, k, 2 * j) = Node(more, k, 2 * j + 1)
      BY <1>3, <2>3 DEF CompleteDuplicate
    <3>2. k \in Nat /\ k \in 0..MaxLeaves /\ Quot(n, k) \in Nat /\ 2 * j \in Nat /\ 2 * j + 1 \in Nat
      <4>1. k \in Nat /\ k \in 0..MaxLeaves
        BY <1>2
      <4>2. 2 * j \in Nat /\ 2 * j + 1 \in Nat
        OBVIOUS
      <4> QED
        BY <1>10, <4>1, <4>2
    <3>3. ~(2 * j + 1 < Quot(n, k))
      <4> SUFFICES ASSUME 2 * j + 1 < Quot(n, k) PROVE FALSE
        OBVIOUS
      <4>1. 2 * j < Quot(n, k)
        BY <3>2
      <4>2. Node(more, k, 2 * j) = Node(leaves, k, 2 * j) /\ Node(more, k, 2 * j + 1) = Node(leaves, k, 2 * j + 1)
        BY <1>3, <3>2, <4>1, PrefixNode DEF n
      <4>3. CompleteDuplicate(leaves)
        BY <3>1, <4>2 DEF CompleteDuplicate, n
      <4> QED
        BY <2>3, <4>3 DEF MerkleInv, MutatedIsDuplicate
    <3>4. k < L
      <4>1. ~(k > L)
        BY <1>7, <3>1, <3>2, <3>3
      <4>2. k # L
        <5>1. k = L => Quot(n + 1, k) = Quot(n, k) + 1 /\ Quot(n, k) % 2 = 0
          BY <1>7, <1>9
        <5> QED
          BY <3>1, <3>2, <3>3, <5>1
      <4> QED
        BY <1>9, <4>1, <4>2
    <3>5. k \in 0..L - 1 /\ k \in 0..L
      BY <1>9, <3>4
    <3>6. Quot(n + 1, k) = Quot(n, k) + 1
      BY <1>7, <3>5
    <3>7. Quot(n, k) = 2 * j + 1 /\ Quot(n, k) - 1 = 2 * j
      BY <3>1, <3>2, <3>3, <3>6
    <3> QED
      BY <3>1, <3>5, <3>7 DEF LeafMeets
  <2>4. s.mutated <=> CompleteDuplicate(more)
    BY <1>2, <1>4, <2>1, <2>2, <2>3 DEF LeafMeets
  <2> QED
    BY <1>1, <2>4 DEF MutatedIsDuplicate, CompleteDuplicate, Node
<1>23. MatchIsLevel'
  <2>1. ASSUME NEW k \in Levels, Quot(n + 1, k) % 2 = 1
        PROVE  matchlevel' = k <=> Quot(branchpos, k) = Quot(n + 1, k) - 1
    <3>1. ~(k < L)
      BY <1>7, <1>9, <2>1
    <3>2. CASE k = L
      <4>1. Quot(n + 1, L) - 1 = Quot(n, L)
        <5>1. Quot(n + 1, L) = Quot(n, L) + 1
          BY <1>7, <1>9
        <5> QED
          BY <1>9, <1>10, <5>1
      <4>2. matchlevel # L
        BY <1>7, <1>9 DEF MerkleInv, MatchIsLevel, n
      <4> QED
        BY <1>1, <1>11, <3>2, <4>1, <4>2
    <3>3. CASE k > L
      <4>1. Quot(n + 1, k) = Quot(n, k) /\ k \in Nat /\ L <= k
        BY <1>7, <1>9, <3>3
      <4>2. matchlevel = k <=> Quot(branchpos, k) = Quot(n, k) - 1
        BY <2>1, <4>1 DEF MerkleInv, MatchIsLevel, n
      <4>3. CASE s.match
        <5>1. Quot(branchpos, k) = Quot(n, k)
          BY <1>2, <1>9, <1>11, <4>1, <4>3, QuotAgree
        <5> QED
          BY <1>1, <1>9, <1>10, <3>3, <4>1, <4>3, <5>1
      <4>4. CASE ~s.match
        BY <1>1, <4>1, <4>2, <4>4
      <4> QED
        BY <1>11, <4>3, <4>4
    <3> QED
      BY <1>9, <3>1, <3>2, <3>3
  <2>2. ASSUME branchpos < n + 1 PROVE matchlevel' \in Levels
    <3>1. CASE branchpos = n
      <4>1. Quot(branchpos, L) = Quot(n, L)
        BY <3>1
      <4> QED
        BY <1>1, <1>9, <1>11, <4>1
    <3>2. CASE branchpos # n
      <4>1. branchpos < n
        BY <1>2, <2>2, <3>2
      <4>2. matchlevel \in Levels
        BY <4>1 DEF MerkleInv, MatchIsLevel, n
      <4> QED
        BY <1>1, <1>9, <4>2
    <3> QED
      BY <3>1, <3>2
  <2>3. ASSUME matchlevel' \in Levels PROVE branchpos < n + 1 /\ Quot(n + 1, matchlevel') % 2 = 1
    <3>1. CASE s.match
      <4>1. Quot(branchpos, L) < Quot(n + 1, L)
        BY <1>7, <1>9, <1>10, <1>11, <3>1
      <4>2. Quot(branchpos, 0) < Quot(n + 1, 0)
        <5>1. 0 \in Nat /\ 0 <= L
          BY <1>9
        <5> QED
          BY <1>2, <1>6, <1>9, <4>1, <5>1, QuotLess
      <4> QED
        BY <1>1, <1>2, <1>6, <1>7, <3>1, <4>2, QuotFacts
    <3>2. CASE ~s.match
      <4>1. matchlevel' = matchlevel /\ matchlevel \in Levels
        BY <1>1, <2>3, <3>2
      <4>2. branchpos < n /\ Quot(n, matchlevel) % 2 = 1 /\ Quot(branchpos, matchlevel) = Quot(n, matchlevel) - 1
        BY <4>1 DEF MerkleInv, MatchIsLevel, n
      <4>3. matchlevel # L
        BY <1>7, <4>2
      <4>4. ~(matchlevel < L)
        <5> SUFFICES ASSUME matchlevel < L PROVE FALSE
          OBVIOUS
        <5>1. PICK m \in Nat : m = matchlevel /\ m \in 0..L - 1 /\ m + 1 \in Nat /\ m + 1 <= L
          BY <1>9, <4>1
        <5>2. Quot(n, m) = 2 * Quot(n, m + 1) + 1 /\ Quot(n, m + 1) \in Nat
          BY <1>7, <1>10, <5>1
        <5>3. Quot(branchpos, m) = 2 * Quot(n, m + 1)
          BY <4>2, <5>1, <5>2
        <5>4. Quot(branchpos, m + 1) = Quot(branchpos, m) \div 2
          BY <1>2, <5>1, QuotFacts
        <5>5. Quot(branchpos, m + 1) = Quot(n, m + 1)
          BY <5>2, <5>3, <5>4
        <5>6. Quot(branchpos, L) = Quot(n, L)
          BY <1>2, <1>9, <5>1, <5>5, QuotAgree
        <5> QED
          BY <1>11, <3>2, <5>6
      <4>5. Quot(n + 1, matchlevel) = Quot(n, matchlevel)
        BY <1>7, <1>9, <4>1, <4>3, <4>4
      <4> QED
        BY <1>2, <4>1, <4>2, <4>5
    <3> QED
      BY <1>11, <3>1, <3>2
  <2> QED
    BY <1>1, <1>8, <2>1, <2>2, <2>3 DEF MatchIsLevel
<1>24. BranchIsStored'
  <2>1. CASE s.match
    <3>1. branch' = BranchTo(more, L) /\ matchlevel' = L
      BY <1>1, <1>11, <2>1
    <3> QED
      BY <1>1, <1>9, <3>1 DEF BranchIsStored, StoredBranch, BranchTo, Sibling, Right, Node, Width
  <2>2. CASE ~s.match
    <3>1. branch' = branch /\ matchlevel' = matchlevel
      BY <1>1, <1>11, <2>2
    <3>2. matchlevel \notin Levels => branch = <<>>
      BY DEF MerkleInv, BranchIsStored
    <3> QED
      BY <1>1, <1>5, <3>1, <3>2 DEF BranchIsStored, StoredBranch, BranchTo, Sibling, Right, Node, Width
  <2> QED
    BY <1>11, <2>1, <2>2
<1> QED
  BY <1>20, <1>21, <1>22, <1>23, <1>24 DEF MerkleInv

LEMMA MerkleHolds == MerkleSpec => []MerkleInv
<1>1. MerkleInit => MerkleInv
  BY MerkleStart
<1>2. MerkleInv /\ [MerkleNext]_merkleVars => MerkleInv'
  <2> SUFFICES ASSUME MerkleInv, [MerkleNext]_merkleVars PROVE MerkleInv'
    OBVIOUS
  <2>1. CASE MerkleNext
    BY <2>1, LeafStep DEF MerkleNext
  <2>2. CASE UNCHANGED merkleVars
    BY <2>2 DEF merkleVars, MerkleInv, MerkleTypes, InnerIsLast, MutatedIsDuplicate, CompleteDuplicate,
                MatchIsLevel, BranchIsStored, StoredBranch, BranchTo
  <2> QED
    BY <2>1, <2>2
<1> QED
  BY <1>1, <1>2, PTL DEF MerkleSpec

LEMMA ListIsListed ==
    ASSUME NEW list \in Seq(Tx), Len(list) >= 1, Len(list) <= MaxLeaves
    PROVE  list \in Lists
<1>1. Len(list) \in 1..MaxLeaves /\ list \in [1..Len(list) -> Tx]
  BY LevelFacts
<1> QED
  BY <1>1 DEF Lists

LEMMA DuplicateIsFlagged ==
    ASSUME NEW list \in Seq(Tx), Len(list) <= MaxLeaves, CompleteDuplicate(list)
    PROVE  list \in Flagged
<1>1. PICK k \in Levels, j \in Nat :
         2 * j + 1 < Quot(Len(list), k) /\ Node(list, k, 2 * j) = Node(list, k, 2 * j + 1)
  BY DEF CompleteDuplicate
<1>2. Len(list) \in Nat /\ k \in Nat /\ k \in 0..MaxLeaves
  BY LevelFacts
<1>3. Quot(Len(list), k) \in Nat /\ Quot(Len(list), k) <= Len(list)
  <2>1. PICK p \in Nat : p = Pow2[k] /\ p > 0
    BY <1>2, Pow2Positive
  <2>2. PICK q \in Nat : q = Len(list) \div p /\ q * p <= Len(list)
    BY <1>2, <2>1, DivFacts
  <2>3. q <= q * p
    BY <2>1
  <2>4. q * p \in Nat
    BY <2>1
  <2> QED
    BY <1>2, <2>1, <2>2, <2>3, <2>4 DEF Quot
<1>4. Len(list) >= 1
  BY <1>1, <1>2, <1>3
<1>5. Quot(Len(list), k) <= Width(list, k) /\ Width(list, k) \in Nat
  BY <1>2, <1>4, WidthBounds
<1>6. j + 1 \in 1..(Len(list) \div 2) /\ 2 * (j + 1) <= Width(list, k) /\ 2 * (j + 1) - 1 = 2 * j + 1
      /\ 2 * (j + 1) = (2 * j + 1) + 1
  BY <1>1, <1>2, <1>3, <1>5
<1>7. TreeOf(list)[k][2 * (j + 1) - 1] = TreeOf(list)[k][2 * (j + 1)]
  BY <1>1, <1>6, Zenon DEF Node
<1>8. DuplicatedSubtree(list)
  BY <1>6, <1>7, Zenon DEF DuplicatedSubtree, Width
<1> QED
  BY <1>4, <1>8, ListIsListed DEF Flagged

\* MerkleComputation sets mutated only for a list in whose tree two siblings
\* are equal, whatever the length of the list.
THEOREM OnlyDuplicatesFlagged == MerkleSpec => []FlaggedOnlyIfDuplicated
<1>1. MerkleInv => FlaggedOnlyIfDuplicated
  BY DuplicateIsFlagged DEF MerkleInv, MerkleTypes, MutatedIsDuplicate, FlaggedOnlyIfDuplicated
<1> QED
  BY <1>1, MerkleHolds, PTL

-----------------------------------------------------------------------------
(* The sweep *)

\* Where a list ends with a complete subtree, and where it does not.
LEMMA LowWidth ==
    ASSUME NEW list, Len(list) \in Nat, Len(list) >= 1, Len(list) <= MaxLeaves,
           NEW L, L = LowestBit(Len(list)), NEW k \in Nat, k <= L
    PROVE  Width(list, k) = Quot(Len(list), k)
<1> DEFINE n == Len(list)
           Bad == {m \in Nat : m <= L /\ Width(list, m) # Quot(n, m)}
<1>1. n < Pow2[MaxLeaves + 1] /\ n > 0 /\ MaxLeaves \in Nat
  BY ShortEnough, LevelFacts
<1>2. L \in 0..MaxLeaves /\ \A m \in 0..L - 1 : Quot(n, m) = 2 * Quot(n, m + 1)
  BY <1>1, LowestBitQuot
<1> SUFFICES ASSUME Bad # {} PROVE FALSE
  OBVIOUS
<1>3. PICK m \in Bad : \A i \in Bad : m <= i
  BY LeastNatural
<1>4. m \in Nat /\ m <= L /\ Width(list, m) # Quot(n, m)
  OBVIOUS
<1> HIDE DEF Bad
<1>5. m # 0
  BY <1>4, BottomLevel, QuotFacts
<1>6. PICK i \in Nat : m = i + 1 /\ i <= L /\ ~(m <= i) /\ i \in 0..L - 1 /\ i \in 0..MaxLeaves - 1 /\ i \in 0..MaxLeaves
  <2>1. m - 1 \in Nat /\ m = (m - 1) + 1
    BY <1>4, <1>5
  <2> QED
    BY <1>1, <1>2, <1>4, <2>1
<1>7. Width(list, i) = Quot(n, i)
  BY <1>3, <1>6 DEF Bad
<1>8. Quot(n, i) = 2 * Quot(n, i + 1) /\ Quot(n, i + 1) \in Nat
  BY <1>2, <1>6, QuotFacts
<1>9. Width(list, i) >= 1 /\ Width(list, i) \in Nat
  BY <1>6, WidthBounds
<1>10. Width(list, i + 1) = (Width(list, i) + 1) \div 2
  <2>1. Width(list, i) # 1
    BY <1>7, <1>8
  <2> QED
    BY <1>6, <1>9, <2>1, NextLevel
<1> QED
  BY <1>4, <1>6, <1>7, <1>8, <1>10

LEMMA HighWidth ==
    ASSUME NEW list, Len(list) \in Nat, Len(list) >= 1, Len(list) <= MaxLeaves,
           NEW L, L = LowestBit(Len(list)), NEW k \in Nat, L < k, k <= MaxLeaves
    PROVE  Width(list, k) = Quot(Len(list), k) + 1
<1> DEFINE n == Len(list)
           Bad == {m \in Nat : L < m /\ m <= MaxLeaves /\ Width(list, m) # Quot(n, m) + 1}
<1>1. n < Pow2[MaxLeaves + 1] /\ n > 0 /\ MaxLeaves \in Nat
  BY ShortEnough, LevelFacts
<1>2. L \in 0..MaxLeaves /\ Quot(n, L) % 2 = 1
  BY <1>1, LowestBitQuot
<1> SUFFICES ASSUME Bad # {} PROVE FALSE
  OBVIOUS
<1>3. PICK m \in Bad : \A i \in Bad : m <= i
  BY LeastNatural
<1>4. m \in Nat /\ L < m /\ m <= MaxLeaves /\ Width(list, m) # Quot(n, m) + 1
  OBVIOUS
<1> HIDE DEF Bad
<1>5. PICK i \in Nat : m = i + 1 /\ L <= i /\ ~(m <= i) /\ i \in 0..MaxLeaves - 1 /\ i \in 0..MaxLeaves
  <2>1. m - 1 \in Nat /\ m = (m - 1) + 1
    BY <1>2, <1>4
  <2> QED
    BY <1>1, <1>2, <1>4, <2>1
<1>6. PICK q \in Nat : q = Quot(n, i) /\ Quot(n, i + 1) = q \div 2
  <2>1. Quot(n, i) \in Nat /\ Quot(n, i + 1) = Quot(n, i) \div 2
    BY QuotFacts
  <2> QED
    BY <2>1
<1>7. PICK w \in Nat : w = Width(list, i) /\ w >= 1
  BY <1>5, WidthBounds
<1>8. (i = L /\ w = q /\ q % 2 = 1) \/ w = q + 1
  <2>1. CASE i = L
    <3>1. Width(list, i) = Quot(n, i)
      <4>1. i <= L
        BY <2>1
      <4> QED
        BY <4>1, LowWidth
    <3> QED
      BY <1>2, <1>6, <1>7, <2>1, <3>1
  <2>2. CASE i # L
    <3>1. L < i /\ i <= MaxLeaves
      BY <1>2, <1>5, <2>2
    <3> QED
      BY <1>3, <1>5, <1>6, <1>7, <3>1 DEF Bad
  <2> QED
    BY <2>1, <2>2
<1>9. CASE w = 1
  <2>1. Width(list, i + 1) = 1
    BY <1>5, <1>7, <1>9, TopLevel
  <2>2. q = 1 \/ q = 0
    BY <1>8, <1>9
  <2> QED
    BY <1>4, <1>5, <1>6, <2>1, <2>2
<1>10. CASE w # 1
  <2>1. Width(list, i + 1) = (w + 1) \div 2
    BY <1>5, <1>7, <1>10, NextLevel
  <2>2. (w + 1) \div 2 = q \div 2 + 1
    BY <1>8
  <2> QED
    BY <1>4, <1>5, <1>6, <2>1, <2>2
<1> QED
  BY <1>9, <1>10

\* Every leaf of the list is under a node of each level.
LEMMA LeafInWidth ==
    ASSUME NEW list, Len(list) \in Nat, Len(list) >= 1, NEW p \in Nat, p < Len(list),
           NEW k \in Nat, k <= MaxLeaves
    PROVE  Quot(p, k) < Width(list, k)
<1> DEFINE Bad == {m \in Nat : m <= MaxLeaves /\ ~(Quot(p, m) < Width(list, m))}
<1> SUFFICES ASSUME Bad # {} PROVE FALSE
  OBVIOUS
<1>3. PICK m \in Bad : \A i \in Bad : m <= i
  BY LeastNatural
<1>4. m \in Nat /\ m <= MaxLeaves /\ ~(Quot(p, m) < Width(list, m))
  OBVIOUS
<1> HIDE DEF Bad
<1>5. m # 0
  BY <1>4, BottomLevel, QuotFacts
<1>6. PICK i \in Nat : m = i + 1 /\ ~(m <= i) /\ i <= MaxLeaves /\ i \in 0..MaxLeaves - 1 /\ i \in 0..MaxLeaves
  <2>1. m - 1 \in Nat /\ m = (m - 1) + 1
    BY <1>4, <1>5
  <2> QED
    BY <1>4, <2>1, LevelFacts
<1>7. PICK q \in Nat : q = Quot(p, i) /\ Quot(p, i + 1) = q \div 2
  <2>1. Quot(p, i) \in Nat /\ Quot(p, i + 1) = Quot(p, i) \div 2
    BY QuotFacts
  <2> QED
    BY <2>1
<1>8. PICK w \in Nat : w = Width(list, i) /\ w >= 1
  BY <1>6, WidthBounds
<1>9. q < w
  BY <1>3, <1>6, <1>7, <1>8 DEF Bad
<1>10. CASE w = 1
  <2>1. Width(list, i + 1) = 1
    BY <1>6, <1>8, <1>10, TopLevel
  <2> QED
    BY <1>4, <1>6, <1>7, <1>9, <1>10, <2>1
<1>11. CASE w # 1
  <2>1. Width(list, i + 1) = (w + 1) \div 2
    BY <1>6, <1>8, <1>11, NextLevel
  <2>2. q \div 2 < (w + 1) \div 2
    BY <1>9
  <2> QED
    BY <1>4, <1>6, <1>7, <2>1, <2>2
<1> QED
  BY <1>10, <1>11

\* The quotients of a multiple of a power of two are even below it.
LEMMA EvenBelow ==
    ASSUME NEW n \in Nat, NEW l \in Nat, Multiple(n, l), NEW j \in Nat, j < l
    PROVE  Quot(n, j) % 2 = 0
<1> DEFINE Bad == {d \in Nat : d <= l /\ ~Multiple(n, l - d)}
<1>1. Bad = {}
  <2> SUFFICES ASSUME Bad # {} PROVE FALSE
    OBVIOUS
  <2>1. PICK d \in Bad : \A m \in Bad : d <= m
    BY LeastNatural
  <2>2. d \in Nat /\ d <= l /\ ~Multiple(n, l - d)
    OBVIOUS
  <2>3. d # 0
    BY <2>2
  <2>4. d - 1 \in Nat /\ d - 1 <= l /\ ~(d <= d - 1) /\ (l - d) + 1 = l - (d - 1) /\ l - d \in Nat
    BY <2>2, <2>3
  <2>5. Multiple(n, l - (d - 1))
    BY <2>1, <2>4
  <2>6. Multiple(n, (l - d) + 1)
    BY <2>4, <2>5
  <2> QED
    BY <2>2, <2>4, <2>6, MultipleBelow
<1>2. l - (j + 1) \in Nat /\ l - (j + 1) <= l /\ l - (l - (j + 1)) = j + 1
  OBVIOUS
<1>3. l - (j + 1) \notin Bad
  BY <1>1
<1>4. Multiple(n, j + 1)
  BY <1>2, <1>3
<1>5. Quot(n, j) = 2 * Quot(n, j + 1) /\ Quot(n, j + 1) \in Nat
  BY <1>4, MultipleBelow, QuotFacts DEF Quot
<1> QED
  BY <1>5

\* The sweep has come to the last node of level l, whose number is odd.
SweptTo(s, l) ==
    /\ DOMAIN s = Fields \cup {"count", "level"}
    /\ l \in Levels /\ s.level = l /\ LowestBit(Len(leaves)) <= l
    /\ Width(leaves, l) % 2 = 1
    /\ s.count = Width(leaves, l) * Pow2[l]
    /\ s.mutated \in BOOLEAN
    /\ At(leaves, s, l, Width(leaves, l) - 1)
    /\ \A k \in 0..l - 1 : Width(leaves, k) # 1

LEMMA SweepStarts ==
    ASSUME MerkleInv, Len(leaves) >= 1, NEW L, L = LowestBit(Len(leaves))
    PROVE  SweptTo(Start(L), L)
<1> DEFINE n == Len(leaves)
<1>1. n \in Nat /\ n <= MaxLeaves /\ mutated \in BOOLEAN /\ MaxLeaves \in Nat /\ Levels = 0..MaxLeaves /\ branchpos \in Nat
  BY LevelFacts DEF MerkleInv, MerkleTypes
<1>2. n < Pow2[MaxLeaves + 1] /\ n > 0
  BY <1>1, ShortEnough
<1>3. L \in 0..MaxLeaves /\ Multiple(n, L) /\ Quot(n, L) % 2 = 1
  BY <1>1, <1>2, LowestBitQuot
<1>4. L \in Nat /\ L \in Levels /\ L <= L
  BY <1>1, <1>3
<1>5. Width(leaves, L) = Quot(n, L) /\ Quot(n, L) \in Nat
  BY <1>1, <1>4, LowWidth, QuotFacts
<1>6. n = Quot(n, L) * Pow2[L]
  BY <1>1, <1>3, <1>4, MultipleIs DEF Quot
<1>7. inner[L] = Node(leaves, L, Quot(n, L) - 1)
      /\ (matchlevel = L <=> Quot(branchpos, L) = Quot(n, L) - 1)
  BY <1>3, <1>4 DEF MerkleInv, InnerIsLast, MatchIsLevel
<1>8. matchlevel = L => branch = BranchTo(leaves, L)
  BY <1>4 DEF MerkleInv, BranchIsStored, StoredBranch
<1>9. Under(leaves, L, Quot(n, L) - 1) <=> Quot(branchpos, L) = Quot(n, L) - 1
  <2>1. Quot(n, L) - 1 < Quot(n, L)
    BY <1>5
  <2> QED
    BY <1>1, <1>4, <2>1, UnderComplete
<1> DEFINE s == Start(L)
<1>10. DOMAIN s = Fields \cup {"count", "level"} /\ s.level = L /\ s.count = n /\ s.mutated = mutated
       /\ s.h = inner[L] /\ s.match = (matchlevel = L) /\ s.branch = branch
  BY DEF Start, Fields
<1> HIDE DEF s, n
<1>11. At(leaves, s, L, Quot(n, L) - 1)
  BY <1>7, <1>8, <1>9, <1>10 DEF At
<1>12. ASSUME NEW k \in 0..L - 1 PROVE Width(leaves, k) # 1
  <2>1. k \in Nat /\ k <= L
    BY <1>4
  <2>2. Width(leaves, k) = Quot(n, k)
    BY <1>1, <2>1, LowWidth DEF n
  <2>3. Quot(n, k) = 2 * Quot(n, k + 1) /\ Quot(n, k + 1) \in Nat
    BY <1>1, <1>2, <2>1, LowestBitQuot, QuotFacts DEF n
  <2> QED
    BY <2>2, <2>3
<1>13. SweptTo(s, L)
  BY <1>1, <1>3, <1>4, <1>5, <1>6, <1>10, <1>11, <1>12 DEF SweptTo
<1> QED
  BY <1>13 DEF s

\* The parts of a round that does something.
Doubled(s) == [s EXCEPT !.branch = IF s.match THEN Append(@, s.h) ELSE @, !.h = Hash256(@, @)]

LEMMA SweepStepIs ==
    ASSUME NEW s, NEW top, s.count # Pow2[s.level], top = LowestBit(s.count + Pow2[s.level])
    PROVE  SweepStep(s) = [Climb(Doubled(s), s.level + 1, top) EXCEPT !.count = s.count + Pow2[s.level],
                                                                      !.level = top,
                                                                      !.mutated = s.mutated]
  BY Zenon DEF SweepStep, Doubled

LEMMA DoubledFields ==
    ASSUME NEW s, Fields \subseteq DOMAIN s, NEW t, t = Doubled(s)
    PROVE  /\ DOMAIN t = DOMAIN s
           /\ t.h = Hash256(s.h, s.h) /\ t.match = s.match /\ t.mutated = s.mutated
           /\ t.branch = IF s.match THEN Append(s.branch, s.h) ELSE s.branch
  BY DEF Doubled, Fields

\* An odd last node is joined with itself.
LEMMA DoubledAt ==
    ASSUME MerkleInv, Len(leaves) >= 1, NEW l \in 0..MaxLeaves - 1, Width(leaves, l) % 2 = 1, Width(leaves, l) # 1,
           NEW s, Fields \subseteq DOMAIN s, At(leaves, s, l, Width(leaves, l) - 1)
    PROVE  At(leaves, Doubled(s), l + 1, Width(leaves, l + 1) - 1)
<1> DEFINE q == Quot(branchpos, l)
<1>1. Len(leaves) \in Nat /\ branchpos \in Nat /\ l \in Nat /\ l <= MaxLeaves /\ l \in 0..MaxLeaves
  BY LevelFacts DEF MerkleInv, MerkleTypes
<1>2. PICK w \in Nat : w = Width(leaves, l) /\ w >= 1
  BY <1>1, WidthBounds
<1>3. Width(leaves, l + 1) = (w + 1) \div 2
      /\ \A i \in 0..(w + 1) \div 2 - 1 :
            Node(leaves, l + 1, i) = Hash256(Node(leaves, l, 2 * i), Right(leaves, l, 2 * i))
  BY <1>2, NextLevel
<1>4. PICK i \in Nat : w = 2 * i + 1 /\ i \in 0..(w + 1) \div 2 - 1 /\ (w + 1) \div 2 - 1 = i /\ w - 1 = 2 * i
  <2>1. w % 2 = 1
    BY <1>2
  <2>2. PICK i \in Nat : w = 2 * i + 1
    <3>1. w \div 2 \in Nat /\ w = 2 * (w \div 2) + 1
      BY <2>1
    <3> QED
      BY <3>1
  <2>3. (w + 1) \div 2 - 1 = i /\ w - 1 = 2 * i
    BY <2>2
  <2>4. i \in 0..(w + 1) \div 2 - 1
    BY <2>3
  <2> QED
    BY <2>2, <2>3, <2>4
<1>5. Node(leaves, l + 1, i) = Hash256(Node(leaves, l, 2 * i), Node(leaves, l, 2 * i))
  <2>1. ~(2 * i + 1 < Width(leaves, l))
    BY <1>2, <1>4
  <2> QED
    BY <1>3, <1>4, <2>1 DEF Right
<1>6. s.h = Node(leaves, l, 2 * i) /\ s.match \in BOOLEAN /\ (s.match <=> Under(leaves, l, 2 * i))
      /\ s.branch = IF s.match THEN BranchTo(leaves, l) ELSE branch
  BY <1>2, <1>4 DEF At
<1>7. q \in Nat /\ Quot(branchpos, l + 1) = q \div 2
  BY <1>1, QuotFacts
<1>8. branchpos < Len(leaves) => q < w
  BY <1>1, <1>2, LeafInWidth
<1>9. Under(leaves, l, 2 * i) <=> Under(leaves, l + 1, i)
  <2>1. branchpos < Len(leaves) => (q = 2 * i <=> q \div 2 = i)
    <3> HIDE DEF q
    <3> QED
      BY <1>4, <1>7, <1>8
  <2> QED
    BY <1>7, <2>1 DEF Under
<1>10. PICK t : t = Doubled(s)
  OBVIOUS
<1>11. t.h = Hash256(s.h, s.h) /\ t.match = s.match
       /\ t.branch = IF s.match THEN Append(s.branch, s.h) ELSE s.branch
  BY <1>10, DoubledFields
<1>12. ASSUME s.match PROVE Append(BranchTo(leaves, l), s.h) = BranchTo(leaves, l + 1)
  <2>1. q = 2 * i
    BY <1>6, <1>12 DEF Under
  <2>2. q % 2 # 1
    <3> HIDE DEF q
    <3> QED
      BY <2>1
  <2>3. ~(q + 1 < Width(leaves, l))
    <3> HIDE DEF q
    <3> QED
      BY <1>2, <1>4, <2>1
  <2>4. Sibling(leaves, l, q) = s.h
    <3> HIDE DEF q
    <3> QED
      BY <1>6, <2>1, <2>2, <2>3 DEF Sibling, Right
  <2> QED
    BY <1>1, <2>4, BranchGrows
<1>13. t.branch = IF t.match THEN BranchTo(leaves, l + 1) ELSE branch
  BY <1>6, <1>11, <1>12
<1>14. At(leaves, t, l + 1, i)
  BY <1>5, <1>6, <1>9, <1>11, <1>13 DEF At
<1> QED
  BY <1>3, <1>4, <1>10, <1>14

\* The levels that the climb of a round passes.
LEMMA CarryWidths ==
    ASSUME NEW list, Len(list) \in Nat, Len(list) >= 1, Len(list) <= MaxLeaves,
           NEW l \in Nat, l <= MaxLeaves, Width(list, l) % 2 = 1, Width(list, l) # 1,
           NEW count, count = (Width(list, l) + 1) * Pow2[l], NEW top, top = LowestBit(count)
    PROVE  /\ count \in Nat /\ top \in Nat /\ l < top /\ top <= MaxLeaves
           /\ Multiple(count, top)
           /\ Quot(count, top) % 2 = 1
           /\ \A k \in l + 1..top : Width(list, k) = Quot(count, k)
           /\ \A k \in l + 1..top - 1 : Width(list, k) = 2 * Width(list, k + 1)
<1>0. MaxLeaves \in Nat /\ l \in 0..MaxLeaves
  BY LevelFacts
<1>1. PICK w \in Nat : w = Width(list, l) /\ w >= 1 /\ w <= Quot(Len(list), l) + 1 /\ Quot(Len(list), l) \in Nat
  BY <1>0, WidthBounds
<1>2. w >= 3 /\ (w + 1) % 2 = 0
  <2>1. w % 2 = 1 /\ w # 1
    BY <1>1
  <2> QED
    BY <1>1, <2>1
<1>3. PICK p \in Nat : p = Pow2[l] /\ p > 0
  BY Pow2Positive
<1>4. PICK q \in Nat : q = Quot(Len(list), l) /\ q * p <= Len(list)
  <2>1. (Len(list) \div p) * p <= Len(list) /\ Len(list) \div p \in Nat
    BY <1>3, DivFacts
  <2> QED
    BY <1>3, <2>1 DEF Quot
<1>5. w + 1 \in Nat /\ 2 * q \in Nat /\ w + 1 <= 2 * q
  <2>1. w <= q + 1
    BY <1>1, <1>4
  <2>2. w >= 3
    BY <1>2
  <2> QED
    BY <2>1, <2>2
<1>6. count \in Nat /\ count > 0 /\ count <= (2 * q) * p
  <2>1. (w + 1) * p <= (2 * q) * p /\ (w + 1) * p \in Nat
    BY <1>3, <1>5, TimesMono
  <2>2. (w + 1) * p > 0
    BY <1>3, <1>5
  <2> QED
    BY <1>1, <1>3, <2>1, <2>2
<1>7. count < Pow2[MaxLeaves + 1]
  <2>1. PICK u \in Nat : u = q * p /\ (2 * q) * p = 2 * u
    BY <1>3
  <2>2. MaxLeaves < Pow2[MaxLeaves] /\ Pow2[MaxLeaves] \in Nat /\ Pow2[MaxLeaves + 1] = 2 * Pow2[MaxLeaves]
    BY <1>0, Pow2Grows, Doubles
  <2>3. count <= 2 * u /\ u <= Len(list)
    BY <1>4, <1>6, <2>1
  <2>4. count <= 2 * MaxLeaves
    BY <1>0, <1>6, <2>3
  <2> QED
    BY <1>0, <1>6, <2>2, <2>4
<1>8. top \in 0..MaxLeaves /\ Multiple(count, top) /\ Quot(count, top) % 2 = 1
      /\ \A k \in 0..top - 1 : Quot(count, k) = 2 * Quot(count, k + 1) /\ Quot(count, k) % 2 = 0
  BY <1>6, <1>7, LowestBitQuot
<1>9. Quot(count, l) = w + 1 /\ Multiple(count, l)
  BY <1>1, <1>3, <1>5, MultipleFacts DEF Quot, Multiple
<1>10. top \in Nat /\ top <= MaxLeaves
  BY <1>0, <1>8
<1>11. l < top
  <2>1. top # l
    BY <1>2, <1>8, <1>9
  <2>2. ~(top < l)
    BY <1>6, <1>8, <1>9, <1>10, EvenBelow
  <2> QED
    BY <1>10, <2>1, <2>2
<1> DEFINE Bad == {m \in Nat : l + 1 <= m /\ m <= top /\ Width(list, m) # Quot(count, m)}
<1>12. Bad = {}
  <2> SUFFICES ASSUME Bad # {} PROVE FALSE
    OBVIOUS
  <2>1. PICK m \in Bad : \A i \in Bad : m <= i
    BY LeastNatural
  <2>2. m \in Nat /\ l + 1 <= m /\ m <= top /\ Width(list, m) # Quot(count, m)
    OBVIOUS
  <2> HIDE DEF Bad
  <2>3. PICK i \in Nat : m = i + 1 /\ ~(m <= i) /\ i \in 0..MaxLeaves - 1 /\ i \in 0..MaxLeaves /\ i \in 0..top - 1
                         /\ l <= i /\ i <= top
    <3>1. m - 1 \in Nat /\ m = (m - 1) + 1
      BY <2>2
    <3> QED
      BY <1>0, <1>10, <2>2, <3>1
  <2>4. Width(list, i) \in Nat /\ Width(list, i) >= 1
    BY <2>3, WidthBounds
  <2>5. Quot(count, i) = 2 * Quot(count, i + 1) /\ Quot(count, i + 1) \in Nat
    BY <1>6, <1>8, <2>3, QuotFacts
  <2>6. CASE i = l
    <3>1. Width(list, i + 1) = (w + 1) \div 2
      BY <1>1, <2>3, <2>6, NextLevel
    <3> QED
      BY <1>1, <1>9, <2>2, <2>3, <2>5, <2>6, <3>1
  <2>7. CASE i # l
    <3>1. Width(list, i) = Quot(count, i)
      <4>1. l + 1 <= i
        BY <2>3, <2>7
      <4> QED
        BY <2>1, <2>3, <4>1 DEF Bad
    <3>2. Width(list, i) # 1
      BY <2>5, <3>1
    <3>3. Width(list, i + 1) = (Width(list, i) + 1) \div 2
      BY <2>3, <2>4, <3>2, NextLevel
    <3> QED
      BY <2>2, <2>3, <2>5, <3>1, <3>3
  <2> QED
    BY <2>6, <2>7
<1>13. ASSUME NEW k \in l + 1..top PROVE Width(list, k) = Quot(count, k)
  <2>1. k \in Nat /\ l + 1 <= k /\ k <= top
    BY <1>10
  <2> QED
    BY <1>12, <2>1
<1> HIDE DEF Bad
<1>14. ASSUME NEW k \in l + 1..top - 1 PROVE Width(list, k) = 2 * Width(list, k + 1)
  <2>1. k \in l + 1..top /\ k + 1 \in l + 1..top /\ k \in 0..top - 1
    BY <1>10
  <2> QED
    BY <1>8, <1>13, <2>1
<1> QED
  BY <1>6, <1>8, <1>10, <1>11, <1>13, <1>14

LEMMA SweepMoves ==
    ASSUME MerkleInv, Len(leaves) >= 1, NEW s, NEW l, SweptTo(s, l), Width(leaves, l) # 1
    PROVE  \E top \in Levels : l < top /\ SweptTo(SweepStep(s), top)
<1> DEFINE n == Len(leaves)
           L == LowestBit(n)
           W(k) == Width(leaves, k)
           count == s.count + Pow2[s.level]
           top == LowestBit(count)
           c == [k \in l + 1..top |-> W(k) - 1]
<1>1. n \in Nat /\ n <= MaxLeaves /\ mutated \in BOOLEAN /\ MaxLeaves \in Nat /\ Levels = 0..MaxLeaves /\ branchpos \in Nat
  BY LevelFacts DEF MerkleInv, MerkleTypes
<1>2. l \in Levels /\ s.level = l /\ L <= l /\ W(l) % 2 = 1 /\ s.count = W(l) * Pow2[l] /\ s.mutated \in BOOLEAN
      /\ DOMAIN s = Fields \cup {"count", "level"} /\ At(leaves, s, l, W(l) - 1)
      /\ \A k \in 0..l - 1 : W(k) # 1
  BY DEF SweptTo
<1>3. l \in Nat /\ l <= MaxLeaves
  BY <1>1, <1>2
<1>4. L \in Nat
  <2>1. n < Pow2[MaxLeaves + 1] /\ n > 0
    BY <1>1, ShortEnough
  <2> QED
    BY <1>1, <2>1, LowestBitQuot
<1>5. count = (W(l) + 1) * Pow2[l] /\ s.count # Pow2[l]
  <2>1. PICK w \in Nat : w = W(l) /\ w >= 1 /\ w # 1
    BY <1>1, <1>2, WidthBounds
  <2>2. PICK p \in Nat : p = Pow2[l] /\ p > 0
    BY <1>3, Pow2Positive
  <2>3. w * p + p = (w + 1) * p
    BY <2>1, <2>2
  <2>4. w * p # p
    <3>1. 2 * p <= w * p
      <4>1. 2 \in Nat /\ 2 <= w
        BY <2>1
      <4> QED
        BY <2>1, <2>2, <4>1, TimesMono
    <3>2. w * p \in Nat
      BY <2>1, <2>2
    <3> QED
      BY <2>2, <3>1, <3>2
  <2> HIDE DEF W
  <2> QED
    BY <1>2, <2>1, <2>2, <2>3, <2>4
<1> HIDE DEF W, L
<1>6. /\ count \in Nat /\ top \in Nat /\ l < top /\ top <= MaxLeaves
      /\ Multiple(count, top)
      /\ Quot(count, top) % 2 = 1
      /\ \A k \in l + 1..top : W(k) = Quot(count, k)
      /\ \A k \in l + 1..top - 1 : W(k) = 2 * W(k + 1)
  <2> HIDE DEF count, top
  <2>1. top = LowestBit(count)
    BY DEF top
  <2>2. Width(leaves, l) % 2 = 1 /\ count = (Width(leaves, l) + 1) * Pow2[l]
    BY <1>2, <1>5 DEF W
  <2> QED
    BY <1>1, <1>3, <2>1, <2>2, CarryWidths DEF W
<1>7. \A k \in l + 1..top : k \in Nat /\ k \in Levels /\ L < k /\ W(k) \in Nat /\ W(k) >= 1
  <2> HIDE DEF count, top
  <2>1. ASSUME NEW k \in l + 1..top PROVE k \in Nat /\ k \in Levels /\ L < k
    BY <1>1, <1>2, <1>3, <1>4, <1>6
  <2>2. ASSUME NEW k \in l + 1..top PROVE W(k) \in Nat /\ W(k) >= 1
    BY <1>1, <2>1, WidthBounds DEF W
  <2> QED
    BY <2>1, <2>2
<1> HIDE DEF count, top
<1>8. l \in 0..MaxLeaves - 1 /\ l + 1 \in l + 1..top /\ top \in l + 1..top /\ l + 1 \in Levels /\ top \in Levels
  BY <1>1, <1>3, <1>6
<1>9. At(leaves, Doubled(s), l + 1, W(l + 1) - 1)
  BY <1>2, <1>8, DoubledAt DEF W
<1>10. \A k \in l + 1..top : c[k] = W(k) - 1
  BY Zenon
<1> HIDE DEF c
<1>11. ASSUME NEW k \in l + 1..top - 1 PROVE Rung(leaves, k, c[k], c[k + 1])
  <2>1. k \in l + 1..top /\ k + 1 \in l + 1..top
    BY <1>3, <1>6
  <2>2. k \in Nat /\ k \in Levels /\ L < k /\ W(k) \in Nat /\ W(k + 1) \in Nat /\ W(k + 1) >= 1 /\ k + 1 \in Nat
        /\ k \in 0..MaxLeaves - 1 /\ k <= MaxLeaves
    BY <1>1, <1>6, <1>7, <2>1
  <2>3. c[k] = W(k) - 1 /\ c[k + 1] = W(k + 1) - 1 /\ W(k) = 2 * W(k + 1)
    BY <1>6, <1>10, <2>1
  <2>4. PICK j \in Nat : j = c[k + 1] /\ W(k + 1) = j + 1 /\ W(k) = 2 * j + 2 /\ c[k] = 2 * j + 1
    <3>1. W(k + 1) - 1 \in Nat /\ W(k + 1) = (W(k + 1) - 1) + 1
      BY <2>2
    <3> QED
      BY <2>2, <2>3, <3>1
  <2>5. W(k) = Quot(n, k) + 1
    BY <1>1, <2>2, HighWidth DEF W, L
  <2>6. Quot(n, k) \in Nat
    BY <1>1, <2>2, QuotFacts
  <2>7. Quot(n, k) = 2 * j + 1 /\ Quot(n, k) % 2 = 1 /\ Quot(n, k) - 1 = 2 * j /\ 2 * j < Quot(n, k)
    <3>1. W(k) = 2 * j + 2
      BY <2>4
    <3>2. Quot(n, k) = 2 * j + 1
      BY <2>5, <2>6, <3>1
    <3> QED
      BY <3>2
  <2>8. inner[k] = Node(leaves, k, 2 * j) /\ (matchlevel = k <=> Quot(branchpos, k) = 2 * j)
    <3>1. inner[k] = Node(leaves, k, Quot(n, k) - 1) /\ (matchlevel = k <=> Quot(branchpos, k) = Quot(n, k) - 1)
      BY <2>2, <2>7 DEF MerkleInv, InnerIsLast, MatchIsLevel
    <3> QED
      BY <2>7, <3>1
  <2>9. Under(leaves, k, 2 * j) <=> Quot(branchpos, k) = 2 * j
    BY <1>1, <2>2, <2>7, UnderComplete
  <2>10. Node(leaves, k + 1, j) = Hash256(Node(leaves, k, 2 * j), Node(leaves, k, 2 * j + 1))
    <3>0. W(k + 1) = j + 1 /\ W(k) = 2 * j + 2
      BY <2>4
    <3>1. j \in 0..W(k + 1) - 1 /\ W(k) # 1 /\ 2 * j + 1 < W(k)
      BY <3>0
    <3>2. Node(leaves, k + 1, j) = Hash256(Node(leaves, k, 2 * j), Right(leaves, k, 2 * j))
      BY <2>2, <3>1, NextLevel DEF W
    <3> QED
      BY <3>1, <3>2 DEF Right, W
  <2>11. c[k] < Width(leaves, k)
    <3>1. 2 * j + 1 < W(k)
      BY <2>4
    <3> QED
      BY <2>4, <3>1 DEF W
  <2> QED
    BY <2>4, <2>8, <2>9, <2>10, <2>11 DEF Rung
<1>12. Ladder(leaves, c, l + 1, top)
  BY <1>11 DEF Ladder
<1>13. PICK d : d = Doubled(s)
  OBVIOUS
<1>14. DOMAIN d = DOMAIN s /\ Fields \subseteq DOMAIN d /\ d.mutated \in BOOLEAN
  <2>1. Fields \subseteq DOMAIN s
    BY <1>2
  <2>2. DOMAIN d = DOMAIN s /\ d.mutated = s.mutated
    BY <1>13, <2>1, DoubledFields
  <2> QED
    BY <1>2, <2>1, <2>2
<1>15. PICK r : r = Climb(d, l + 1, top)
  OBVIOUS
<1>16. At(leaves, r, top, c[top]) /\ DOMAIN r = DOMAIN d
  <2>1. At(leaves, d, l + 1, c[l + 1])
    BY <1>8, <1>9, <1>10, <1>13
  <2>2. PICK low \in Levels : low = l + 1 /\ low <= top
    BY <1>3, <1>6, <1>8
  <2>3. At(leaves, d, low, c[low]) /\ Ladder(leaves, c, low, top)
    BY <1>12, <2>1, <2>2
  <2>4. StoredBranch(leaves)
    BY DEF MerkleInv, BranchIsStored
  <2>5. top \in Nat /\ top <= MaxLeaves + 1
    BY <1>1, <1>6
  <2>6. At(leaves, Climb(d, low, top), top, c[top]) /\ DOMAIN Climb(d, low, top) = DOMAIN d
    BY <1>1, <1>14, <2>2, <2>3, <2>4, <2>5, ClimbReaches
  <2> QED
    BY <1>15, <2>2, <2>6
<1>17. SweepStep(s) = [r EXCEPT !.count = count, !.level = top, !.mutated = s.mutated]
  <2>1. count = s.count + Pow2[s.level] /\ top = LowestBit(s.count + Pow2[s.level]) /\ s.count # Pow2[s.level]
    BY <1>2, <1>5 DEF count, top
  <2> QED
    BY <1>2, <1>13, <1>15, <2>1, SweepStepIs
<1>18. PICK t : t = SweepStep(s)
  OBVIOUS
<1>19. DOMAIN t = DOMAIN r /\ t.count = count /\ t.level = top /\ t.mutated = s.mutated
       /\ t.h = r.h /\ t.match = r.match /\ t.branch = r.branch
  BY <1>2, <1>14, <1>16, <1>17, <1>18 DEF Fields
<1>20. At(leaves, t, top, W(top) - 1)
  <2>1. c[top] = W(top) - 1
    BY <1>8, <1>10
  <2> QED
    BY <1>16, <1>19, <2>1 DEF At
<1>21. W(top) % 2 = 1 /\ count = W(top) * Pow2[top]
  <2>1. W(top) = Quot(count, top)
    BY <1>6, <1>8
  <2>2. count = Quot(count, top) * Pow2[top]
    BY <1>6, MultipleIs DEF Quot
  <2> QED
    BY <1>6, <2>1, <2>2
<1>22. L <= top
  BY <1>2, <1>3, <1>4, <1>6
<1>23. ASSUME NEW k \in 0..top - 1 PROVE W(k) # 1
  <2>1. CASE k < l
    <3>1. k \in 0..l - 1
      BY <1>3, <2>1
    <3> QED
      BY <1>2, <3>1
  <2>2. CASE k = l
    BY <2>2 DEF W
  <2>3. CASE k > l
    <3>1. k \in l + 1..top - 1 /\ k + 1 \in l + 1..top
      BY <1>3, <1>6, <2>3
    <3>2. W(k) = 2 * W(k + 1) /\ W(k + 1) \in Nat
      BY <1>6, <1>7, <3>1
    <3> QED
      BY <3>2
  <2> QED
    BY <1>3, <1>6, <2>1, <2>2, <2>3
<1>24. SweptTo(t, top)
  BY <1>2, <1>8, <1>14, <1>16, <1>19, <1>20, <1>21, <1>22, <1>23 DEF SweptTo, W, L
<1> QED
  BY <1>6, <1>8, <1>18, <1>24

\* A level of one node is the root.
LEMMA RootBelow ==
    ASSUME NEW list, NEW l \in Levels, Width(list, l) = 1
    PROVE  RootOf(list) = Node(list, l, 0)
<1> DEFINE Bad == {m \in Nat : l <= m /\ m <= MaxLeaves
                                 /\ ~(Width(list, m) = 1 /\ Node(list, m, 0) = Node(list, l, 0))}
<1>1. l \in Nat /\ l <= MaxLeaves /\ MaxLeaves \in Nat
  BY LevelFacts
<1>2. Bad = {}
  <2> SUFFICES ASSUME Bad # {} PROVE FALSE
    OBVIOUS
  <2>1. PICK m \in Bad : \A i \in Bad : m <= i
    BY LeastNatural
  <2>2. m \in Nat /\ l <= m /\ m <= MaxLeaves /\ ~(Width(list, m) = 1 /\ Node(list, m, 0) = Node(list, l, 0))
    OBVIOUS
  <2> HIDE DEF Bad
  <2>3. m # l
    BY <2>2
  <2>4. PICK i \in Nat : m = i + 1 /\ ~(m <= i) /\ i \in 0..MaxLeaves - 1 /\ l <= i /\ i <= MaxLeaves
    <3>1. m - 1 \in Nat /\ m = (m - 1) + 1
      BY <1>1, <2>2, <2>3
    <3> QED
      BY <1>1, <2>2, <2>3, <3>1
  <2>5. Width(list, i) = 1 /\ Node(list, i, 0) = Node(list, l, 0)
    BY <2>1, <2>4 DEF Bad
  <2>6. Width(list, i + 1) = 1 /\ Node(list, i + 1, 0) = Node(list, i, 0)
    BY <2>4, <2>5, TopLevel
  <2> QED
    BY <2>2, <2>4, <2>5, <2>6
<1>3. Node(list, MaxLeaves, 0) = Node(list, l, 0)
  BY <1>1, <1>2
<1>4. 0 + 1 = 1
  OBVIOUS
<1>5. RootOf(list) = Node(list, MaxLeaves, 0)
  BY <1>4, Zenon DEF RootOf, Node
<1> QED
  BY <1>3, <1>5

\* The first level of one node.
TopAt(list, l) == Width(list, l) = 1 /\ \A k \in 0..l - 1 : Width(list, k) # 1

\* The sweep ends at the root.
LEMMA SweepEnds ==
    ASSUME MerkleInv, Len(leaves) >= 1
    PROVE  \E l \in Levels : TopAt(leaves, l) /\ At(leaves, Sweep, l, 0)
<1>1. PICK F : /\ F[0] = Start(LowestBit(Len(leaves))) /\ Sweep = F[MaxLeaves]
               /\ \A i \in 1..MaxLeaves : F[i] = SweepStep(F[i - 1])
  BY SweepEquation
<1> DEFINE n == Len(leaves)
           Ok(i, l) == SweptTo(F[i], l) /\ (Width(leaves, l) = 1 \/ i <= l)
           Bad == {i \in Nat : i <= MaxLeaves /\ ~\E l \in Levels : Ok(i, l)}
<1>2. n \in Nat /\ n <= MaxLeaves /\ MaxLeaves \in Nat /\ Levels = 0..MaxLeaves
  BY LevelFacts DEF MerkleInv, MerkleTypes
<1>3. Bad = {}
  <2> SUFFICES ASSUME Bad # {} PROVE FALSE
    OBVIOUS
  <2>1. PICK i \in Bad : \A m \in Bad : i <= m
    BY LeastNatural
  <2>2. i \in Nat /\ i <= MaxLeaves /\ ~\E l \in Levels : Ok(i, l)
    OBVIOUS
  <2> HIDE DEF Bad
  <2>3. i # 0
    <3>1. SweptTo(F[0], LowestBit(n))
      BY <1>1, SweepStarts
    <3>2. LowestBit(n) \in Levels
      BY <3>1 DEF SweptTo
    <3>3. 0 <= LowestBit(n)
      BY <1>2, <3>2
    <3>4. Ok(0, LowestBit(n))
      BY <3>1, <3>3
    <3> QED
      BY <2>2, <3>2, <3>4
  <2>4. i - 1 \in Nat /\ i - 1 <= MaxLeaves /\ ~(i <= i - 1) /\ i \in 1..MaxLeaves
    BY <1>2, <2>2, <2>3
  <2>5. \E l \in Levels : Ok(i - 1, l)
    <3> HIDE DEF Ok
    <3> QED
      BY <2>1, <2>4 DEF Bad
  <2>6. PICK l \in Levels : SweptTo(F[i - 1], l) /\ (Width(leaves, l) = 1 \/ i - 1 <= l)
    BY <2>5
  <2>7. F[i] = SweepStep(F[i - 1])
    BY <1>1, <2>4
  <2>8. CASE Width(leaves, l) = 1
    <3>1. PICK s : s = F[i - 1]
      OBVIOUS
    <3>2. s.count = Pow2[s.level]
      <4>1. s.level = l /\ s.count = 1 * Pow2[l] /\ l \in Nat
        BY <1>2, <2>6, <2>8, <3>1 DEF SweptTo
      <4>2. Pow2[l] \in Nat
        BY <4>1, Pow2Positive
      <4> QED
        BY <4>1, <4>2
    <3>3. SweepStep(s) = s
      BY <3>2, Zenon DEF SweepStep
    <3>4. Ok(i, l)
      BY <2>6, <2>7, <2>8, <3>1, <3>3
    <3> QED
      BY <2>2, <3>4
  <2>9. CASE Width(leaves, l) # 1
    <3>1. PICK top \in Levels : l < top /\ SweptTo(SweepStep(F[i - 1]), top)
      BY <2>6, <2>9, SweepMoves
    <3>2. i <= top
      BY <1>2, <2>2, <2>6, <2>9, <3>1
    <3>3. Ok(i, top)
      BY <2>7, <3>1, <3>2
    <3> QED
      BY <2>2, <3>3
  <2> QED
    BY <2>8, <2>9
<1>4. PICK l \in Levels : Ok(MaxLeaves, l)
  BY <1>2, <1>3
<1> HIDE DEF Bad
<1>5. SweptTo(Sweep, l) /\ (Width(leaves, l) = 1 \/ MaxLeaves <= l)
  BY <1>1, <1>4
<1>6. Width(leaves, l) = 1
  <2>1. CASE MaxLeaves <= l
    <3>1. l = MaxLeaves /\ l \in 0..MaxLeaves
      BY <1>2, <2>1
    <3>2. Width(leaves, l) \in Nat /\ Width(leaves, l) >= 1 /\ Width(leaves, l) <= Quot(n, l) + 1
      BY <1>2, <3>1, WidthBounds
    <3>3. Quot(n, l) = 0
      <4>1. PICK p \in Nat : p = Pow2[MaxLeaves] /\ n < p
        BY <1>2, ShortEnough, Pow2Positive
      <4>2. n \div p = 0
        BY <1>2, <4>1
      <4> QED
        BY <3>1, <4>1, <4>2 DEF Quot
    <3> QED
      BY <3>2, <3>3
  <2> QED
    BY <1>5, <2>1
<1>7. At(leaves, Sweep, l, 1 - 1) /\ TopAt(leaves, l)
  BY <1>5, <1>6 DEF SweptTo, TopAt
<1> QED
  BY <1>7

LEMMA RootIs ==
    ASSUME MerkleInv, leaves # <<>>
    PROVE  ComputeMerkleRoot = RootOf(leaves) /\ leaves \in Lists /\ Len(leaves) >= 1
<1>1. leaves \in Seq(Tx) /\ Len(leaves) <= MaxLeaves
  BY DEF MerkleInv, MerkleTypes
<1>2. Len(leaves) >= 1
  BY <1>1
<1>3. PICK l \in Levels : Width(leaves, l) = 1 /\ At(leaves, Sweep, l, 0)
  BY <1>2, SweepEnds DEF TopAt
<1>4. ComputeMerkleRoot = Node(leaves, l, 0)
  BY <1>3 DEF ComputeMerkleRoot, At
<1> QED
  BY <1>1, <1>2, <1>3, <1>4, RootBelow, ListIsListed

\* ComputeMerkleRoot gives the root of the levelwise tree, for lists of every
\* length: what inner has kept and what the sweep repeats are its nodes.
THEOREM RootIsRight == MerkleSpec => []RootIsLevelwise
<1>1. MerkleInv => RootIsLevelwise
  <2> SUFFICES ASSUME MerkleInv, leaves # <<>> PROVE ComputeMerkleRoot = Roots[leaves]
    BY DEF RootIsLevelwise
  <2>1. ComputeMerkleRoot = RootOf(leaves) /\ leaves \in Lists
    BY RootIs
  <2> QED
    BY <2>1 DEF Roots
<1> QED
  BY <1>1, MerkleHolds, PTL

-----------------------------------------------------------------------------
(* The branch *)

\* A branch leads to the node it was made for.
LEMMA BranchLeads ==
    ASSUME NEW list, Len(list) \in Nat, Len(list) >= 1, branchpos \in Nat, branchpos < Len(list),
           NEW l \in Levels, \A k \in 0..l - 1 : Width(list, k) # 1
    PROVE  ComputeMerkleRootFromBranch(TxHash(list[branchpos + 1]), BranchTo(list, l), branchpos)
             = Node(list, l, Quot(branchpos, l))
<1> DEFINE steps == BranchTo(list, l)
           leaf == TxHash(list[branchpos + 1])
<1>1. l \in Nat /\ l <= MaxLeaves /\ MaxLeaves \in Nat
  BY LevelFacts
<1>2. IsSeq(steps, l) /\ \A i \in 1..l : steps[i] = Sibling(list, i - 1, Quot(branchpos, i - 1))
  BY Zenon DEF IsSeq, BranchTo
<1> HIDE DEF steps, leaf
<1>3. Len(steps) = l
  BY <1>1, <1>2, LengthOf DEF IsSeq
<1>4. PICK F : Paths(F, leaf, steps, branchpos)
  <2>1. Len(steps) \in Nat
    BY <1>1, <1>3
  <2> QED
    BY <2>1, PathEquation
<1>5. F[0] = leaf /\ ComputeMerkleRootFromBranch(leaf, steps, branchpos) = F[l]
      /\ \A i \in 1..l : F[i] = Joined(F[i - 1], steps[i], Quot(branchpos, i - 1) % 2)
  BY <1>3, <1>4 DEF Paths, Quot
<1> DEFINE Bad == {i \in Nat : i <= l /\ F[i] # Node(list, i, Quot(branchpos, i))}
<1>6. Bad = {}
  <2> SUFFICES ASSUME Bad # {} PROVE FALSE
    OBVIOUS
  <2>1. PICK i \in Bad : \A m \in Bad : i <= m
    BY LeastNatural
  <2>2. i \in Nat /\ i <= l /\ F[i] # Node(list, i, Quot(branchpos, i))
    OBVIOUS
  <2> HIDE DEF Bad
  <2>3. i # 0
    <3>1. branchpos \in 0..Len(list) - 1
      OBVIOUS
    <3>2. Node(list, 0, branchpos) = leaf
      BY <3>1, BottomLevel DEF leaf
    <3>3. Quot(branchpos, 0) = branchpos
      BY QuotFacts
    <3> QED
      BY <1>5, <2>2, <3>2, <3>3
  <2>4. PICK k \in Nat : i = k + 1 /\ i - 1 = k /\ ~(i <= k) /\ k <= l /\ k <= MaxLeaves /\ k \in 0..l - 1 /\ i \in 1..l
                         /\ k \in 0..MaxLeaves - 1 /\ k \in 0..MaxLeaves /\ k + 1 <= MaxLeaves
    <3>1. i - 1 \in Nat /\ i = (i - 1) + 1
      BY <2>2, <2>3
    <3> QED
      BY <1>1, <2>2, <2>3, <3>1
  <2>5. PICK q \in Nat : q = Quot(branchpos, k) /\ Quot(branchpos, k + 1) = q \div 2
    <3>1. Quot(branchpos, k) \in Nat /\ Quot(branchpos, k + 1) = Quot(branchpos, k) \div 2
      BY QuotFacts
    <3> QED
      BY <3>1
  <2>6. F[k] = Node(list, k, q)
    BY <2>1, <2>4, <2>5 DEF Bad
  <2>7. F[i] = Joined(Node(list, k, q), Sibling(list, k, q), q % 2)
    BY <1>2, <1>5, <2>4, <2>5, <2>6
  <2>8. PICK w \in Nat : w = Width(list, k) /\ w # 1
    BY <2>4, WidthBounds
  <2>9. q < w
    BY <2>4, <2>5, <2>8, LeafInWidth
  <2>10. q \div 2 < Width(list, k + 1) /\ Width(list, k + 1) = (w + 1) \div 2
    BY <2>4, <2>5, <2>8, LeafInWidth, NextLevel
  <2>11. PICK j \in Nat : j = q \div 2 /\ j \in 0..Width(list, k + 1) - 1
    BY <2>10
  <2>12. Node(list, k + 1, j) = Hash256(Node(list, k, 2 * j), Right(list, k, 2 * j))
    BY <2>4, <2>8, <2>11, NextLevel
  <2>13. Joined(Node(list, k, q), Sibling(list, k, q), q % 2) = Node(list, k + 1, j)
    <3>1. CASE q % 2 = 1
      <4>1. q = 2 * j + 1 /\ q - 1 = 2 * j /\ 2 * j + 1 < Width(list, k)
        BY <2>8, <2>9, <2>11, <3>1
      <4> QED
        BY <2>12, <3>1, <4>1 DEF Joined, Sibling, Right
    <3>2. CASE q % 2 # 1
      <4>1. q = 2 * j
        BY <2>11, <3>2
      <4> QED
        BY <2>12, <3>2, <4>1 DEF Joined, Sibling
    <3> QED
      BY <3>1, <3>2
  <2> QED
    BY <2>2, <2>4, <2>5, <2>7, <2>11, <2>13
<1>7. l \notin Bad
  BY <1>6
<1>8. F[l] = Node(list, l, Quot(branchpos, l))
  BY <1>1, <1>7
<1> QED
  BY <1>5, <1>8 DEF steps, leaf

\* ComputeMerkleBranch collects what ComputeMerkleRootFromBranch needs to come
\* from any leaf of the list to its root, and nothing for a leaf behind the end.
THEOREM BranchIsRight == MerkleSpec => []BranchLeadsToRoot
<1>1. MerkleInv => BranchLeadsToRoot
  <2> SUFFICES ASSUME MerkleInv PROVE BranchLeadsToRoot
    OBVIOUS
  <2>1. leaves \in Seq(Tx) /\ Len(leaves) \in Nat /\ branchpos \in Nat
    BY DEF MerkleInv, MerkleTypes
  <2>2. ASSUME branchpos < Len(leaves)
        PROVE  ComputeMerkleRootFromBranch(TxHash(leaves[branchpos + 1]), ComputeMerkleBranch, branchpos)
                 = ComputeMerkleRoot
    <3>1. leaves # <<>> /\ Len(leaves) >= 1
      BY <2>1, <2>2
    <3>2. PICK l \in Levels : TopAt(leaves, l) /\ At(leaves, Sweep, l, 0)
      BY <3>1, SweepEnds
    <3>3. l \in Nat /\ l <= MaxLeaves
      BY LevelFacts
    <3>4. Quot(branchpos, l) = 0
      <4>1. Quot(branchpos, l) < Width(leaves, l)
        BY <2>1, <2>2, <3>1, <3>3, LeafInWidth
      <4>2. Quot(branchpos, l) \in Nat
        BY <2>1, <3>3, QuotFacts
      <4> QED
        BY <3>2, <4>1, <4>2 DEF TopAt
    <3>5. Sweep.branch = BranchTo(leaves, l) /\ Sweep.h = Node(leaves, l, 0)
      BY <2>2, <3>2, <3>4 DEF At, Under
    <3>6. ComputeMerkleBranch = BranchTo(leaves, l) /\ ComputeMerkleRoot = Node(leaves, l, 0)
      BY <3>1, <3>5 DEF ComputeMerkleBranch, ComputeMerkleRoot
    <3>7. \A k \in 0..l - 1 : Width(leaves, k) # 1
      BY <3>2 DEF TopAt
    <3>8. ComputeMerkleRootFromBranch(TxHash(leaves[branchpos + 1]), BranchTo(leaves, l), branchpos)
            = Node(leaves, l, Quot(branchpos, l))
      BY <2>1, <2>2, <3>1, <3>7, BranchLeads
    <3> QED
      BY <3>4, <3>6, <3>8
  <2>3. ASSUME ~(branchpos < Len(leaves)) PROVE ComputeMerkleBranch = <<>>
    <3>1. matchlevel \notin Levels
      BY <2>3 DEF MerkleInv, MatchIsLevel
    <3>2. branch = <<>>
      BY <3>1 DEF MerkleInv, BranchIsStored
    <3>3. CASE leaves # <<>>
      <4>1. Len(leaves) >= 1
        BY <2>1, <3>3
      <4>2. PICK l \in Levels : At(leaves, Sweep, l, 0)
        BY <4>1, SweepEnds
      <4>3. Sweep.branch = branch
        BY <2>3, <4>2 DEF At, Under
      <4> QED
        BY <3>2, <3>3, <4>3 DEF ComputeMerkleBranch
    <3> QED
      BY <3>3 DEF ComputeMerkleBranch
  <2> QED
    BY <2>2, <2>3 DEF BranchLeadsToRoot
<1> QED
  BY <1>1, MerkleHolds, PTL

-----------------------------------------------------------------------------
(* The root stands for one list *)

\* Nowhere are two siblings equal, incomplete ones included.
Plain(list) ==
    \A k \in Levels : \A j \in Nat : 2 * j + 1 < Width(list, k) => Node(list, k, 2 * j) # Node(list, k, 2 * j + 1)

\* The incomplete last subtree of a level is equal to a complete one.
LastRepeats(list, k) ==
    /\ Width(list, k) = Quot(Len(list), k) + 1
    /\ \E j \in Nat : j < Quot(Len(list), k) /\ Node(list, k, j) = Node(list, k, Quot(Len(list), k))

\* It is so one level down, where two siblings are not equal.
LEMMA RepeatDescends ==
    ASSUME NEW list, Len(list) \in Nat, Len(list) >= 1, ~CompleteDuplicate(list),
           NEW m \in 0..MaxLeaves - 1, LastRepeats(list, m + 1)
    PROVE  LastRepeats(list, m)
<1>1. m \in Nat /\ m \in 0..MaxLeaves /\ m \in Levels /\ m + 1 \in 0..MaxLeaves /\ m + 1 \in Nat
  BY LevelFacts
<1>2. PICK q \in Nat : q = Quot(Len(list), m) /\ Quot(Len(list), m + 1) = q \div 2
  <2>1. Quot(Len(list), m) \in Nat /\ Quot(Len(list), m + 1) = Quot(Len(list), m) \div 2
    BY <1>1, QuotFacts
  <2> QED
    BY <2>1
<1>3. PICK w \in Nat : w = Width(list, m) /\ q <= w /\ w <= q + 1
  BY <1>1, <1>2, WidthBounds
<1>4. PICK K \in Nat : K = q \div 2
  OBVIOUS
<1>5. Width(list, m + 1) = K + 1
  BY <1>2, <1>4 DEF LastRepeats
<1>6. PICK j \in Nat : j < K /\ Node(list, m + 1, j) = Node(list, m + 1, K)
  BY <1>2, <1>4 DEF LastRepeats
<1>7. w # 1
  <2>1. w = 1 => Width(list, m + 1) = 1
    BY <1>3, TopLevel
  <2> QED
    BY <1>5, <1>6, <2>1
<1>8. 2 * j + 1 < q /\ Node(list, m + 1, j) = Hash256(Node(list, m, 2 * j), Node(list, m, 2 * j + 1))
  <2>1. j < Quot(Len(list), m + 1)
    BY <1>2, <1>4, <1>6
  <2> QED
    BY <1>2, <2>1, CompleteNode
<1>9. Node(list, m + 1, K) = Hash256(Node(list, m, 2 * K), Right(list, m, 2 * K))
  <2>1. K \in 0..Width(list, m + 1) - 1
    BY <1>5
  <2> QED
    BY <1>3, <1>7, <2>1, NextLevel
<1>10. Node(list, m, 2 * j) = Node(list, m, 2 * K) /\ Node(list, m, 2 * j + 1) = Right(list, m, 2 * K)
  BY <1>6, <1>8, <1>9 DEF Hash256
<1>11. Node(list, m, 2 * j) # Node(list, m, 2 * j + 1)
  BY <1>1, <1>2, <1>8 DEF CompleteDuplicate
<1>12. 2 * K + 1 < w /\ Node(list, m, 2 * j + 1) = Node(list, m, 2 * K + 1)
  BY <1>3, <1>10, <1>11 DEF Right
<1>13. q = 2 * K + 1 /\ w = q + 1
  BY <1>3, <1>4, <1>12
<1>14. 2 * j + 1 \in Nat /\ 2 * j + 1 < q /\ Node(list, m, 2 * j + 1) = Node(list, m, q)
  BY <1>8, <1>12, <1>13
<1> QED
  BY <1>2, <1>3, <1>13, <1>14 DEF LastRepeats

LEMMA NoneRepeats ==
    ASSUME NEW list, Len(list) \in Nat, Len(list) >= 1, ~CompleteDuplicate(list), NEW k \in Levels
    PROVE  ~LastRepeats(list, k)
<1> DEFINE Bad == {m \in Nat : m <= MaxLeaves /\ LastRepeats(list, m)}
<1>1. k \in Nat /\ k <= MaxLeaves /\ MaxLeaves \in Nat
  BY LevelFacts
<1> SUFFICES ASSUME Bad # {} PROVE FALSE
  BY <1>1
<1>2. PICK m \in Bad : \A i \in Bad : m <= i
  BY LeastNatural
<1>3. m \in Nat /\ m <= MaxLeaves /\ LastRepeats(list, m)
  OBVIOUS
<1> HIDE DEF Bad
<1>4. m # 0
  <2>1. Width(list, 0) = Len(list) /\ Quot(Len(list), 0) = Len(list)
    BY BottomLevel, QuotFacts
  <2> QED
    BY <1>3, <2>1 DEF LastRepeats
<1>5. PICK i \in Nat : m = i + 1 /\ ~(m <= i) /\ i <= MaxLeaves /\ i \in 0..MaxLeaves - 1
  <2>1. m - 1 \in Nat /\ m = (m - 1) + 1
    BY <1>3, <1>4
  <2> QED
    BY <1>1, <1>3, <2>1
<1>6. LastRepeats(list, i)
  BY <1>3, <1>5, RepeatDescends
<1> QED
  BY <1>2, <1>5, <1>6 DEF Bad

\* The test of the complete siblings is enough.
LEMMA PlainIfUnflagged ==
    ASSUME NEW list, Len(list) \in Nat, Len(list) >= 1, ~CompleteDuplicate(list)
    PROVE  Plain(list)
<1> SUFFICES ASSUME NEW k \in Levels, NEW j \in Nat, 2 * j + 1 < Width(list, k),
                    Node(list, k, 2 * j) = Node(list, k, 2 * j + 1)
             PROVE  FALSE
  BY DEF Plain
<1>1. k \in 0..MaxLeaves
  BY LevelFacts
<1>2. PICK q \in Nat : q = Quot(Len(list), k)
  BY <1>1, WidthBounds
<1>3. PICK w \in Nat : w = Width(list, k) /\ q <= w /\ w <= q + 1
  BY <1>1, <1>2, WidthBounds
<1>4. ~(2 * j + 1 < q)
  BY <1>2 DEF CompleteDuplicate
<1>5. q = 2 * j + 1 /\ w = q + 1 /\ 2 * j \in Nat /\ 2 * j < q
  BY <1>3, <1>4
<1>6. LastRepeats(list, k)
  BY <1>2, <1>3, <1>5 DEF LastRepeats
<1> QED
  BY <1>6, NoneRepeats

LEMMA HeightExists ==
    ASSUME NEW list, Len(list) \in Nat, Len(list) >= 1, Len(list) <= MaxLeaves
    PROVE  \E l \in Levels : TopAt(list, l)
<1> DEFINE S == {k \in Nat : k <= MaxLeaves /\ Width(list, k) = 1}
<1>0. MaxLeaves \in Nat /\ MaxLeaves \in 0..MaxLeaves
  BY LevelFacts
<1>1. MaxLeaves \in S
  <2>1. Width(list, MaxLeaves) \in Nat /\ Width(list, MaxLeaves) >= 1
        /\ Width(list, MaxLeaves) <= Quot(Len(list), MaxLeaves) + 1
    BY <1>0, WidthBounds
  <2>2. Quot(Len(list), MaxLeaves) = 0
    <3>1. PICK p \in Nat : p = Pow2[MaxLeaves] /\ Len(list) < p
      BY <1>0, ShortEnough, Pow2Positive
    <3>2. Len(list) \div p = 0
      BY <3>1
    <3> QED
      BY <3>1, <3>2 DEF Quot
  <2> QED
    BY <1>0, <2>1, <2>2
<1>2. PICK l \in S : \A m \in S : l <= m
  BY <1>1, LeastNatural
<1>3. l \in Nat /\ l <= MaxLeaves /\ Width(list, l) = 1
  OBVIOUS
<1>4. ASSUME NEW k \in 0..l - 1 PROVE Width(list, k) # 1
  <2>1. k \in Nat /\ k <= MaxLeaves /\ ~(l <= k)
    BY <1>0, <1>3
  <2> QED
    BY <1>2, <2>1
<1>5. l \in Levels
  BY <1>3, LevelFacts
<1> QED
  BY <1>3, <1>4, <1>5 DEF TopAt

\* The leftmost nodes.
LEMMA LeftmostNode ==
    ASSUME NEW list, Len(list) \in Nat, Len(list) >= 1, NEW l \in Levels, TopAt(list, l), NEW k \in Nat, k < l
    PROVE  Node(list, k + 1, 0) = Hash256(Node(list, k, 0), Right(list, k, 0))
<1>1. l \in Nat /\ l <= MaxLeaves /\ MaxLeaves \in Nat
  BY LevelFacts
<1>2. k \in 0..l - 1 /\ k \in 0..MaxLeaves - 1 /\ k \in 0..MaxLeaves /\ k + 1 \in 0..MaxLeaves
  BY <1>1
<1>3. Width(list, k) \in Nat /\ Width(list, k) # 1
  BY <1>2, WidthBounds DEF TopAt
<1>4. Width(list, k + 1) \in Nat /\ Width(list, k + 1) >= 1
  BY <1>2, WidthBounds
<1>5. 0 \in 0..Width(list, k + 1) - 1 /\ 2 * 0 = 0
  BY <1>4
<1>6. Node(list, k + 1, 0) = Hash256(Node(list, k, 2 * 0), Right(list, k, 2 * 0))
  BY <1>2, <1>3, <1>5, NextLevel
<1> QED
  BY <1>5, <1>6

LEMMA RootTellsHeight ==
    ASSUME NEW a, Len(a) \in Nat, Len(a) >= 1, NEW b, Len(b) \in Nat, Len(b) >= 1,
           NEW m \in Levels, TopAt(a, m), NEW n \in Levels, TopAt(b, n), Node(a, m, 0) = Node(b, n, 0)
    PROVE  ~(m < n)
<1> SUFFICES ASSUME m < n PROVE FALSE
  OBVIOUS
<1>1. m \in Nat /\ n \in Nat
  BY LevelFacts
<1> DEFINE Bad == {d \in Nat : d <= m /\ Node(a, m - d, 0) # Node(b, n - d, 0)}
<1>2. Bad = {}
  <2> SUFFICES ASSUME Bad # {} PROVE FALSE
    OBVIOUS
  <2>1. PICK d \in Bad : \A i \in Bad : d <= i
    BY LeastNatural
  <2>2. d \in Nat /\ d <= m /\ Node(a, m - d, 0) # Node(b, n - d, 0)
    OBVIOUS
  <2> HIDE DEF Bad
  <2>3. d # 0
    <3>1. m - 0 = m /\ n - 0 = n
      BY <1>1
    <3> QED
      BY <2>2, <3>1
  <2>4. d - 1 \in Nat /\ d - 1 <= m /\ ~(d <= d - 1)
    BY <1>1, <2>2, <2>3
  <2>5. Node(a, m - (d - 1), 0) = Node(b, n - (d - 1), 0)
    BY <2>1, <2>4 DEF Bad
  <2>6. PICK i \in Nat : i = m - d /\ i + 1 = m - (d - 1) /\ i < m
    <3>1. m - d \in Nat /\ (m - d) + 1 = m - (d - 1) /\ m - d < m
      BY <1>1, <2>2, <2>3
    <3> QED
      BY <3>1
  <2>7. PICK j \in Nat : j = n - d /\ j + 1 = n - (d - 1) /\ j < n
    <3>1. n - d \in Nat /\ (n - d) + 1 = n - (d - 1) /\ n - d < n
      BY <1>1, <2>2, <2>3
    <3> QED
      BY <3>1
  <2>8. Node(a, i + 1, 0) = Hash256(Node(a, i, 0), Right(a, i, 0))
    <3>1. i < m
      BY <2>6
    <3> QED
      BY <3>1, LeftmostNode
  <2>9. Node(b, j + 1, 0) = Hash256(Node(b, j, 0), Right(b, j, 0))
    BY <2>7, LeftmostNode
  <2>10. Hash256(Node(a, i, 0), Right(a, i, 0)) = Hash256(Node(b, j, 0), Right(b, j, 0))
    BY <2>5, <2>6, <2>7, <2>8, <2>9
  <2>11. Node(a, i, 0) = Node(b, j, 0)
    BY <2>10 DEF Hash256
  <2> QED
    BY <2>2, <2>6, <2>7, <2>11
<1>3. Node(a, m - m, 0) = Node(b, n - m, 0)
  <2>1. m <= m /\ m \notin {}
    BY <1>1
  <2>2. m \notin Bad
    <3> HIDE DEF Bad
    <3> QED
      BY <1>2
  <2> QED
    BY <1>1, <2>1, <2>2
<1> HIDE DEF Bad
<1>4. PICK j \in Nat : j + 1 = n - m /\ j < n /\ m - m = 0
  <2>1. (n - m) - 1 \in Nat /\ ((n - m) - 1) + 1 = n - m /\ (n - m) - 1 < n /\ m - m = 0
    BY <1>1
  <2> QED
    BY <2>1
<1>5. Node(b, j + 1, 0) = Hash256(Node(b, j, 0), Right(b, j, 0))
  BY <1>4, LeftmostNode
<1>6. Node(a, 0, 0) = TxHash(a[0 + 1])
  <2>1. 0 \in 0..Len(a) - 1
    OBVIOUS
  <2> QED
    BY <2>1, BottomLevel
<1>7. TxHash(a[0 + 1]) = Hash256(Node(b, j, 0), Right(b, j, 0))
  BY <1>3, <1>4, <1>5, <1>6
<1> QED
  BY <1>7 DEF TxHash, Hash256

\* Two lists have the same level k.
SameLevel(a, b, k) ==
    /\ Width(a, k) = Width(b, k)
    /\ \A i \in Nat : i < Width(a, k) => Node(a, k, i) = Node(b, k, i)

\* Their levels k have the same first v pairs.
SamePairs(a, b, k, v) ==
    \A j \in Nat : j < v => Node(a, k, 2 * j) = Node(b, k, 2 * j) /\ Right(a, k, 2 * j) = Right(b, k, 2 * j)

\* Two different levels with the same level above: one has equal siblings.
LEMMA SameWidth ==
    ASSUME NEW a, NEW b, Plain(b), NEW k \in Levels, NEW v \in Nat, NEW wa \in Nat, NEW wb \in Nat,
           wa = Width(a, k), wb = Width(b, k), v = (wa + 1) \div 2, v = (wb + 1) \div 2,
           SamePairs(a, b, k, v)
    PROVE  ~(wa < wb)
<1> SUFFICES ASSUME wa < wb PROVE FALSE
  OBVIOUS
<1>1. PICK j \in Nat : j < v /\ wa = 2 * j + 1 /\ wb = 2 * j + 2
  <2>1. wb = wa + 1 /\ wa % 2 = 1
    OBVIOUS
  <2>2. wa \div 2 \in Nat /\ wa = 2 * (wa \div 2) + 1
    BY <2>1
  <2>3. PICK j \in Nat : wa = 2 * j + 1
    BY <2>2
  <2> QED
    BY <2>1, <2>3
<1>2. Node(a, k, 2 * j) = Node(b, k, 2 * j) /\ Right(a, k, 2 * j) = Right(b, k, 2 * j)
  BY <1>1 DEF SamePairs
<1>3. ~(2 * j + 1 < Width(a, k)) /\ 2 * j + 1 < Width(b, k)
  BY <1>1
<1>4. Right(a, k, 2 * j) = Node(a, k, 2 * j) /\ Right(b, k, 2 * j) = Node(b, k, 2 * j + 1)
  BY <1>3 DEF Right
<1>5. Node(b, k, 2 * j) # Node(b, k, 2 * j + 1)
  BY <1>3 DEF Plain
<1> QED
  BY <1>2, <1>4, <1>5

LEMMA SameDescends ==
    ASSUME NEW a, Len(a) \in Nat, Len(a) >= 1, Plain(a), NEW b, Len(b) \in Nat, Len(b) >= 1, Plain(b),
           NEW k \in 0..MaxLeaves - 1, Width(a, k) # 1, Width(b, k) # 1, SameLevel(a, b, k + 1)
    PROVE  SameLevel(a, b, k)
<1>1. k \in Nat /\ k \in Levels /\ k \in 0..MaxLeaves
  BY LevelFacts
<1>2. PICK wa \in Nat : wa = Width(a, k)
  BY <1>1, WidthBounds
<1>3. PICK wb \in Nat : wb = Width(b, k)
  BY <1>1, WidthBounds
<1>4. PICK v \in Nat : v = (wa + 1) \div 2
  OBVIOUS
<1>5. Width(a, k + 1) = v
      /\ \A j \in 0..v - 1 : Node(a, k + 1, j) = Hash256(Node(a, k, 2 * j), Right(a, k, 2 * j))
  BY <1>2, <1>4, NextLevel
<1>6. v = (wb + 1) \div 2
      /\ \A j \in 0..v - 1 : Node(b, k + 1, j) = Hash256(Node(b, k, 2 * j), Right(b, k, 2 * j))
  <2>1. Width(b, k + 1) = (wb + 1) \div 2
        /\ \A j \in 0..Width(b, k + 1) - 1 : Node(b, k + 1, j) = Hash256(Node(b, k, 2 * j), Right(b, k, 2 * j))
    BY <1>3, NextLevel
  <2>2. Width(b, k + 1) = v
    BY <1>5 DEF SameLevel
  <2> QED
    BY <2>1, <2>2
<1>7. ASSUME NEW j \in Nat, j < v
      PROVE  Node(a, k, 2 * j) = Node(b, k, 2 * j) /\ Right(a, k, 2 * j) = Right(b, k, 2 * j)
  <2>1. j \in 0..v - 1
    BY <1>7
  <2>2. Node(a, k + 1, j) = Node(b, k + 1, j)
    BY <1>5, <1>7 DEF SameLevel
  <2>3. Hash256(Node(a, k, 2 * j), Right(a, k, 2 * j)) = Hash256(Node(b, k, 2 * j), Right(b, k, 2 * j))
    BY <1>5, <1>6, <2>1, <2>2
  <2> QED
    BY <2>3 DEF Hash256
<1>8. ~(wa < wb)
  <2>1. SamePairs(a, b, k, v)
    BY <1>7 DEF SamePairs
  <2> QED
    BY <1>1, <1>2, <1>3, <1>4, <1>6, <2>1, SameWidth
<1>9. ~(wb < wa)
  <2>1. SamePairs(b, a, k, v)
    BY <1>7 DEF SamePairs
  <2> QED
    BY <1>1, <1>2, <1>3, <1>4, <1>6, <2>1, SameWidth
<1>10. wa = wb
  BY <1>8, <1>9
<1>11. ASSUME NEW i \in Nat, i < wa PROVE Node(a, k, i) = Node(b, k, i)
  <2>1. PICK j \in Nat : j < v /\ (i = 2 * j \/ i = 2 * j + 1)
    <3>1. i \div 2 \in Nat /\ i \div 2 < v /\ (i = 2 * (i \div 2) \/ i = 2 * (i \div 2) + 1)
      BY <1>4, <1>11
    <3> QED
      BY <3>1
  <2>2. Node(a, k, 2 * j) = Node(b, k, 2 * j) /\ Right(a, k, 2 * j) = Right(b, k, 2 * j)
    BY <1>7, <2>1
  <2>3. CASE i = 2 * j
    BY <2>2, <2>3
  <2>4. CASE i = 2 * j + 1
    <3>1. 2 * j + 1 < Width(a, k) /\ 2 * j + 1 < Width(b, k)
      BY <1>2, <1>3, <1>10, <1>11, <2>4
    <3> QED
      BY <2>2, <2>4, <3>1 DEF Right
  <2> QED
    BY <2>1, <2>3, <2>4
<1> QED
  BY <1>2, <1>3, <1>10, <1>11 DEF SameLevel

LEMMA RootTellsList ==
    ASSUME NEW a \in Seq(Tx), Len(a) >= 1, Len(a) <= MaxLeaves, Plain(a),
           NEW b \in Seq(Tx), Len(b) >= 1, Len(b) <= MaxLeaves, Plain(b),
           RootOf(a) = RootOf(b)
    PROVE  a = b
<1>0. Len(a) \in Nat /\ Len(b) \in Nat
  OBVIOUS
<1>1. PICK m \in Levels : TopAt(a, m)
  BY <1>0, HeightExists
<1>2. PICK n \in Levels : TopAt(b, n)
  BY <1>0, HeightExists
<1>3. Node(a, m, 0) = Node(b, n, 0)
  BY <1>1, <1>2, RootBelow DEF TopAt
<1>4. m \in Nat /\ n \in Nat /\ m <= MaxLeaves /\ MaxLeaves \in Nat
  BY LevelFacts
<1>5. m = n
  <2>1. ~(m < n)
    BY <1>0, <1>1, <1>2, <1>3, RootTellsHeight
  <2>2. ~(n < m)
    <3>1. Node(b, n, 0) = Node(a, m, 0)
      BY <1>3
    <3> QED
      BY <1>0, <1>1, <1>2, <3>1, RootTellsHeight
  <2> QED
    BY <1>4, <2>1, <2>2
<1>6. SameLevel(a, b, m)
  <2>1. Width(a, m) = 1 /\ Width(b, m) = 1
    BY <1>1, <1>2, <1>5 DEF TopAt
  <2>2. \A i \in Nat : i < 1 => i = 0
    OBVIOUS
  <2> QED
    BY <1>3, <1>5, <2>1, <2>2 DEF SameLevel
<1> DEFINE Bad == {d \in Nat : d <= m /\ ~SameLevel(a, b, m - d)}
<1>7. Bad = {}
  <2> SUFFICES ASSUME Bad # {} PROVE FALSE
    OBVIOUS
  <2>1. PICK d \in Bad : \A i \in Bad : d <= i
    BY LeastNatural
  <2>2. d \in Nat /\ d <= m /\ ~SameLevel(a, b, m - d)
    OBVIOUS
  <2> HIDE DEF Bad
  <2>3. d # 0
    <3>1. m - 0 = m
      BY <1>4
    <3> QED
      BY <1>6, <2>2, <3>1
  <2>4. d - 1 \in Nat /\ d - 1 <= m /\ ~(d <= d - 1)
    BY <1>4, <2>2, <2>3
  <2>5. SameLevel(a, b, m - (d - 1))
    BY <2>1, <2>4 DEF Bad
  <2>6. PICK k \in Nat : k = m - d /\ k + 1 = m - (d - 1) /\ k \in 0..m - 1 /\ k \in 0..MaxLeaves - 1
    <3>1. m - d \in Nat /\ (m - d) + 1 = m - (d - 1) /\ m - d \in 0..m - 1 /\ m - d \in 0..MaxLeaves - 1
      BY <1>4, <2>2, <2>3
    <3> QED
      BY <3>1
  <2>7. Width(a, k) # 1 /\ Width(b, k) # 1
    BY <1>1, <1>2, <1>5, <2>6 DEF TopAt
  <2>8. SameLevel(a, b, k + 1)
    BY <2>5, <2>6
  <2>9. SameLevel(a, b, k)
    <3>1. k \in 0..MaxLeaves - 1
      BY <2>6
    <3> QED
      BY <1>0, <2>7, <2>8, <3>1, SameDescends
  <2> QED
    BY <2>2, <2>6, <2>9
<1>8. SameLevel(a, b, 0)
  <2>1. m \notin Bad
    <3> HIDE DEF Bad
    <3> QED
      BY <1>7
  <2>2. m <= m /\ m - m = 0
    BY <1>4
  <2> QED
    BY <1>4, <2>1, <2>2
<1> HIDE DEF Bad
<1>9. Len(a) = Len(b)
  BY <1>0, <1>8, BottomLevel DEF SameLevel
<1>10. ASSUME NEW i \in 1..Len(a) PROVE a[i] = b[i]
  <2>1. PICK j \in Nat : i = j + 1 /\ j \in 0..Len(a) - 1 /\ j < Len(a)
    <3>1. i - 1 \in Nat /\ i = (i - 1) + 1 /\ i - 1 \in 0..Len(a) - 1 /\ i - 1 < Len(a)
      BY <1>0
    <3> QED
      BY <3>1
  <2>2. Node(a, 0, j) = TxHash(a[j + 1]) /\ Width(a, 0) = Len(a)
    BY <1>0, <2>1, BottomLevel
  <2>3. Node(b, 0, j) = TxHash(b[j + 1])
    BY <1>0, <1>9, <2>1, BottomLevel
  <2>4. TxHash(a[j + 1]) = TxHash(b[j + 1])
    BY <1>8, <2>1, <2>2, <2>3 DEF SameLevel
  <2> QED
    BY <2>1, <2>4 DEF TxHash
<1> QED
  BY <1>9, <1>10, SeqEqual

\* Two lists that ComputeMerkleRoot does not flag have different roots, although
\* the sweep repeats hashes and looks for no duplicates.
THEOREM RootIsUnique == MerkleSpec => []RootStandsForOneList
<1>1. MerkleInv => RootStandsForOneList
  <2> SUFFICES ASSUME MerkleInv, leaves # <<>>, ~mutated, NEW other \in Lists \ Flagged,
                      Roots[other] = ComputeMerkleRoot
               PROVE  other = leaves
    BY DEF RootStandsForOneList
  <2>1. ComputeMerkleRoot = RootOf(leaves) /\ Len(leaves) >= 1 /\ leaves \in Seq(Tx) /\ Len(leaves) <= MaxLeaves
        /\ Len(leaves) \in Nat
    BY RootIs DEF MerkleInv, MerkleTypes
  <2>2. other \in Seq(Tx) /\ Len(other) \in Nat /\ Len(other) >= 1 /\ Len(other) <= MaxLeaves
    <3>1. PICK k \in 1..MaxLeaves : other \in [1..k -> Tx]
      BY DEF Lists
    <3>2. k \in Nat
      OBVIOUS
    <3>3. other \in Seq(Tx)
      BY <3>1, <3>2, SeqDef
    <3>4. Len(other) = k
      BY <3>1, <3>2, <3>3, LenProperties
    <3> QED
      BY <3>1, <3>2, <3>3, <3>4
  <2>3. Roots[other] = RootOf(other)
    BY DEF Roots
  <2>4. Plain(leaves)
    BY <2>1, PlainIfUnflagged DEF MerkleInv, MutatedIsDuplicate
  <2>5. Plain(other)
    <3>1. ~CompleteDuplicate(other)
      BY <2>2, DuplicateIsFlagged
    <3> QED
      BY <2>2, <3>1, PlainIfUnflagged
  <2>6. RootOf(other) = RootOf(leaves)
    BY <2>1, <2>3
  <2> QED
    BY <2>1, <2>2, <2>4, <2>5, <2>6, RootTellsList
<1> QED
  BY <1>1, MerkleHolds, PTL

-----------------------------------------------------------------------------
(* The length of a walk *)

\* n is a multiple of a power of two; it is an odd multiple.
Even(n, k) == \E a \in Nat : n = a * Pow2[k]
Lowest(n, k) == \E a \in Nat : n = (2 * a + 1) * Pow2[k]

LEMMA PowerOf ==
    ASSUME NEW k \in Nat
    PROVE  \E p \in Nat : p > 0 /\ p = Pow2[k] /\ Pow2[k + 1] = 2 * p
  BY Doubles

LEMMA SmallPowers == Pow2[0] = 1 /\ Pow2[1] = 2 /\ Pow2[2] = 4 /\ Pow2[3] = 8
<1>1. Pow2[0] = 1 /\ Pow2[0 + 1] = 2 * Pow2[0] /\ Pow2[1 + 1] = 2 * Pow2[1] /\ Pow2[2 + 1] = 2 * Pow2[2]
  BY Pow2Def
<1> QED
  BY <1>1

LEMMA PowerIsTwo ==
    ASSUME NEW k \in Nat, k >= 1
    PROVE  Pow2[k] \in Nat /\ Pow2[k] >= 2
<1>1. Pow2[1] <= Pow2[k] /\ Pow2[1] = 2 /\ Pow2[k] \in Nat
  BY Pow2Mono, SmallPowers, Doubles
<1> QED
  BY <1>1

LEMMA EvenNumbers ==
    ASSUME NEW n \in Nat
    PROVE  Even(n, 1) <=> \E a \in Nat : n = a * 2
  BY SmallPowers, Zenon DEF Even

LEMMA TwoLess ==
    ASSUME NEW n \in Nat, Even(n, 1), n >= 1
    PROVE  n - 2 \in Nat /\ Even(n - 2, 1)
<1>1. PICK a \in Nat : n = a * 2
  BY EvenNumbers
<1>2. PICK c \in Nat : a = c + 1
  <2>1. a - 1 \in Nat /\ a = (a - 1) + 1
    BY <1>1
  <2> QED
    BY <2>1
<1>3. n - 2 = c * 2 /\ n - 2 \in Nat
  BY <1>1, <1>2
<1> QED
  BY <1>3, EvenNumbers

LEMMA ZeroIsEven ==
    ASSUME NEW k \in Nat
    PROVE  Even(0, k)
<1>1. 0 = 0 * Pow2[k]
  BY Doubles
<1> QED
  BY <1>1 DEF Even

\* Multiples of a power are multiples of the smaller ones.
LEMMA EvenBelowToo ==
    ASSUME NEW n \in Nat, NEW k \in Nat, NEW j \in Nat, j <= k, Even(n, k)
    PROVE  Even(n, j)
<1>1. PICK d \in Nat : k = j + d
  <2>1. k - j \in Nat /\ k = j + (k - j)
    OBVIOUS
  <2> QED
    BY <2>1
<1>2. PICK a \in Nat : n = a * Pow2[k]
  BY DEF Even
<1>3. PICK p \in Nat : p = Pow2[j]
  BY PowerOf
<1>4. PICK q \in Nat : q = Pow2[d]
  BY PowerOf
<1>5. Pow2[k] = p * q
  BY <1>1, <1>3, <1>4, Pow2Sum
<1>6. a * q \in Nat /\ n = (a * q) * p
  BY <1>2, <1>5
<1> QED
  BY <1>3, <1>6 DEF Even

\* Multiples keep their distance.
LEMMA EvenGap ==
    ASSUME NEW a \in Nat, NEW b \in Nat, NEW k \in Nat, Even(a, k), Even(b, k), a < b
    PROVE  a + Pow2[k] <= b
<1>1. PICK p \in Nat : p = Pow2[k] /\ p > 0
  BY PowerOf
<1>2. PICK x \in Nat : a = x * p
  BY <1>1 DEF Even
<1>3. PICK y \in Nat : b = y * p
  BY <1>1 DEF Even
<1>4. ~(y <= x)
  <2>1. y <= x => y * p <= x * p
    BY <1>1, TimesMono
  <2> QED
    BY <1>2, <1>3, <2>1
<1>5. x + 1 <= y /\ x + 1 \in Nat
  BY <1>4
<1>6. (x + 1) * p <= y * p
  BY <1>1, <1>5, TimesMono
<1>7. (x + 1) * p = x * p + p
  BY <1>1
<1> QED
  BY <1>1, <1>2, <1>3, <1>6, <1>7

LEMMA LowestFacts ==
    ASSUME NEW n \in Nat, NEW k \in Nat, Lowest(n, k)
    PROVE  /\ Even(n, k) /\ Pow2[k] \in Nat /\ Pow2[k] > 0 /\ n >= Pow2[k]
           /\ n - Pow2[k] \in Nat /\ Even(n - Pow2[k], k + 1)
           /\ \A j \in Nat : Even(n, j) => j <= k
<1>1. PICK p \in Nat : p > 0 /\ p = Pow2[k] /\ Pow2[k + 1] = 2 * p
  BY PowerOf
<1>2. PICK a \in Nat : n = (2 * a + 1) * p
  BY <1>1 DEF Lowest
<1>3. n = a * (2 * p) + p /\ a * (2 * p) \in Nat
  BY <1>1, <1>2
<1>4. Even(n, k)
  <2>1. 2 * a + 1 \in Nat
    OBVIOUS
  <2> QED
    BY <1>1, <1>2, <2>1 DEF Even
<1>5. Even(n - Pow2[k], k + 1)
  <2>1. n - p = a * (2 * p)
    BY <1>3
  <2> QED
    BY <1>1, <2>1 DEF Even
<1>6. ASSUME NEW j \in Nat, Even(n, j) PROVE j <= k
  <2> SUFFICES ASSUME ~(j <= k) PROVE FALSE
    OBVIOUS
  <2>1. k + 1 \in Nat /\ k + 1 <= j
    OBVIOUS
  <2>2. Even(n, k + 1)
    BY <1>6, <2>1, EvenBelowToo
  <2>3. n - p \in Nat /\ n - p < n /\ Even(n - p, k + 1)
    BY <1>1, <1>3, <1>5
  <2>4. n - p + 2 * p <= n
    BY <1>1, <2>1, <2>2, <2>3, EvenGap
  <2> QED
    BY <1>1, <2>4
<1> QED
  BY <1>1, <1>3, <1>4, <1>5, <1>6

LEMMA EvenRest ==
    ASSUME NEW n \in Nat, NEW k \in Nat
    PROVE  n % Pow2[k] = 0 <=> Even(n, k)
<1>1. PICK p \in Nat : p = Pow2[k] /\ p > 0
  BY PowerOf
<1>2. ASSUME NEW a \in Nat, n = a * p PROVE n % p = 0
  BY <1>1, <1>2, MultipleFacts
<1>3. ASSUME n % p = 0 PROVE n \div p \in Nat /\ n = (n \div p) * p
  BY <1>1, <1>3, MultipleIs DEF Multiple
<1> QED
  BY <1>1, <1>2, <1>3 DEF Even

LEMMA LowestRest ==
    ASSUME NEW n \in Nat, NEW k \in Nat
    PROVE  n % Pow2[k + 1] = Pow2[k] <=> Lowest(n, k)
<1>1. PICK p \in Nat : p > 0 /\ p = Pow2[k] /\ Pow2[k + 1] = 2 * p
  BY PowerOf
<1>2. PICK d \in Nat : d = 2 * p /\ d > 0
  BY <1>1
<1>3. ASSUME n % d = p PROVE Lowest(n, k)
  <2>1. PICK a \in Nat : a = n \div d /\ n = a * d + (n % d)
    BY <1>2, DivFacts
  <2>2. n = (2 * a + 1) * p
    BY <1>1, <1>2, <1>3, <2>1
  <2> QED
    BY <1>1, <2>2 DEF Lowest
<1>4. ASSUME Lowest(n, k) PROVE n % d = p
  <2>1. PICK a \in Nat : n = (2 * a + 1) * p
    BY <1>1, <1>4 DEF Lowest
  <2>2. n = a * d + p /\ a * d \in Nat /\ (a + 1) * d = a * d + d
    BY <1>1, <1>2, <2>1
  <2>3. n \div d = a
    <3>1. a * d <= n /\ n < (a + 1) * d
      BY <1>1, <1>2, <2>2
    <3> QED
      BY <1>2, <3>1, DivIs
  <2>4. n = (n \div d) * d + (n % d) /\ n % d \in Nat
    BY <1>2, DivFacts
  <2> QED
    BY <1>1, <2>2, <2>3, <2>4
<1> QED
  BY <1>1, <1>2, <1>3, <1>4

LEMMA LowestExists ==
    ASSUME NEW n \in Nat, n >= 1
    PROVE  \E k \in Nat : Lowest(n, k)
<1> DEFINE S == {k \in Nat : ~Even(n, k + 1)}
<1>1. n \in S
  <2>1. n + 1 \in Nat /\ n < Pow2[n + 1] /\ Pow2[n + 1] \in Nat
    <3>1. n < Pow2[n] /\ Pow2[n] \in Nat /\ Pow2[n + 1] = 2 * Pow2[n]
      BY Pow2Grows, Doubles
    <3> QED
      BY <3>1
  <2>2. n % Pow2[n + 1] = n
    BY <2>1, ModSmall
  <2>3. ~Even(n, n + 1)
    BY <2>1, <2>2, EvenRest
  <2> QED
    BY <2>3
<1>2. PICK k \in S : \A m \in S : k <= m
  BY <1>1, LeastNatural
<1>3. k \in Nat /\ ~Even(n, k + 1)
  BY <1>2
<1>4. Even(n, k)
  <2>1. CASE k = 0
    <3>1. n = n * Pow2[0]
      BY Pow2Def
    <3> QED
      BY <2>1, <3>1 DEF Even
  <2>2. CASE k # 0
    <3>1. k - 1 \in Nat /\ ~(k <= k - 1) /\ (k - 1) + 1 = k
      BY <1>3, <2>2
    <3>2. k - 1 \notin S
      <4> HIDE DEF S
      <4> QED
        BY <1>2, <3>1
    <3> QED
      BY <3>1, <3>2
  <2> QED
    BY <2>1, <2>2
<1>5. PICK p \in Nat : p > 0 /\ p = Pow2[k] /\ Pow2[k + 1] = 2 * p
  BY <1>3, PowerOf
<1>6. PICK a \in Nat : n = a * p
  BY <1>4, <1>5 DEF Even
<1>7. PICK b \in Nat : a = 2 * b \/ a = 2 * b + 1
  <2>1. a \div 2 \in Nat /\ (a = 2 * (a \div 2) \/ a = 2 * (a \div 2) + 1)
    OBVIOUS
  <2> QED
    BY <2>1
<1>8. a # 2 * b
  <2> SUFFICES ASSUME a = 2 * b PROVE FALSE
    OBVIOUS
  <2>1. n = b * (2 * p)
    BY <1>6
  <2> QED
    BY <1>3, <1>5, <2>1 DEF Even
<1> QED
  BY <1>3, <1>5, <1>6, <1>7, <1>8 DEF Lowest

\* What InvertLowestOne takes away.
LEMMA InvertIs ==
    ASSUME NEW n \in 1..Pow2[HeightBits] - 1, NEW k \in Nat, Lowest(n, k)
    PROVE  InvertLowestOne(n) = n - Pow2[k]
<1>1. HeightBits \in Nat /\ Pow2[HeightBits] \in Nat /\ n \in Nat /\ n # 0 /\ n < Pow2[HeightBits]
  BY MaxHeightType, SkipListAssumption
<1>2. Even(n, k) /\ Pow2[k] \in Nat /\ Pow2[k] <= n /\ \A j \in Nat : Even(n, j) => j <= k
  BY <1>1, LowestFacts
<1>3. k <= HeightBits
  <2>1. HeightBits <= k => Pow2[HeightBits] <= Pow2[k]
    BY <1>1, Pow2Mono
  <2> QED
    BY <1>1, <1>2, <2>1
<1>4. n % (2 * Pow2[k]) = Pow2[k]
  <2>1. n % Pow2[k + 1] = Pow2[k]
    BY <1>1, LowestRest
  <2> QED
    BY <2>1, Doubles
<1> DEFINE Powers2 == {Pow2[i] : i \in 0..HeightBits}
<1>5. Pow2[k] \in Powers2
  BY <1>1, <1>3
<1>6. ASSUME NEW x \in Powers2, n % (2 * x) = x PROVE x = Pow2[k]
  <2>1. PICK i \in 0..HeightBits : x = Pow2[i]
    BY <1>6
  <2>2. i \in Nat /\ n % Pow2[i + 1] = Pow2[i]
    <3>1. i \in Nat
      BY <1>1
    <3> QED
      BY <1>6, <2>1, <3>1, Doubles
  <2>3. Lowest(n, i)
    BY <1>1, <2>2, LowestRest
  <2>4. Even(n, i) /\ \A j \in Nat : Even(n, j) => j <= i
    BY <1>1, <2>2, <2>3, LowestFacts
  <2>5. i <= k /\ k <= i
    BY <1>2, <2>2, <2>4
  <2>6. i = k
    BY <2>2, <2>5
  <2> QED
    BY <2>1, <2>6
<1>7. (CHOOSE x \in Powers2 : n % (2 * x) = x) = Pow2[k]
  <2> HIDE DEF Powers2
  <2> QED
    BY <1>4, <1>5, <1>6, Zenon
<1> QED
  BY <1>1, <1>7 DEF InvertLowestOne

\* It never adds.
LEMMA InvertLess ==
    ASSUME NEW n \in 0..Pow2[HeightBits] - 1
    PROVE  InvertLowestOne(n) \in Nat /\ InvertLowestOne(n) <= n
<1>1. Pow2[HeightBits] \in Nat
  BY MaxHeightType
<1>2. CASE n = 0
  BY <1>2 DEF InvertLowestOne
<1>3. CASE n # 0
  <2>1. n \in 1..Pow2[HeightBits] - 1
    BY <1>1, <1>3
  <2>2. InvertLowestOne(n) \in 0..n - 1
    BY <2>1, LowestOne
  <2> QED
    BY <1>1, <2>2
<1> QED
  BY <1>2, <1>3

\* The heights that are skipped to.
LEMMA SkipFromEven ==
    ASSUME NEW x \in 0..MaxHeight, Even(x, 1)
    PROVE  GetSkipHeight(x) = InvertLowestOne(x)
<1>1. PICK a \in Nat : x = a * 2
  BY Pow2Def DEF Even
<1>2. x % 2 = 0 /\ x \in Nat
  BY <1>1
<1>3. CASE x = 0
  BY <1>3 DEF GetSkipHeight, InvertLowestOne
<1>4. CASE x # 0
  <2>1. ~(x < 2) /\ x % 2 # 1
    BY <1>1, <1>2, <1>4
  <2> QED
    BY <2>1 DEF GetSkipHeight
<1> QED
  BY <1>3, <1>4

LEMMA SkipFromOdd ==
    ASSUME NEW x \in 1..MaxHeight, Even(x, 1)
    PROVE  GetSkipHeight(x + 1) = InvertLowestOne(InvertLowestOne(x)) + 1
<1>1. PICK a \in Nat : x = a * 2
  BY Pow2Def DEF Even
<1>2. ~(x + 1 < 2) /\ (x + 1) % 2 = 1 /\ (x + 1) - 1 = x
  BY <1>1
<1> QED
  BY <1>2 DEF GetSkipHeight

\* The jump from an odd height is taken whenever it does not lead too far.
LEMMA FollowFromOdd ==
    ASSUME NEW x \in 1..MaxHeight, Even(x, 1), NEW t \in Nat
    PROVE  FollowSkip(x + 1, t) <=> t <= GetSkipHeight(x + 1)
<1>1. MaxHeight \in Nat /\ Pow2[HeightBits] \in Nat /\ MaxHeight <= Pow2[HeightBits] - 1
  BY MaxHeightType
<1>2. PICK y \in Nat : y = InvertLowestOne(x) /\ y <= x
  <2>1. x \in 0..Pow2[HeightBits] - 1
    BY <1>1
  <2> QED
    BY <2>1, InvertLess
<1>3. PICK z \in Nat : z = InvertLowestOne(y) /\ z <= y
  <2>1. y \in 0..Pow2[HeightBits] - 1
    BY <1>1, <1>2
  <2> QED
    BY <2>1, InvertLess
<1>4. GetSkipHeight(x + 1) = z + 1
  BY <1>2, <1>3, SkipFromOdd
<1>5. GetSkipHeight((x + 1) - 1) = y
  <2>1. x \in 0..MaxHeight /\ (x + 1) - 1 = x
    BY <1>1
  <2> QED
    BY <1>2, <2>1, SkipFromEven
<1> QED
  BY <1>3, <1>4, <1>5 DEF FollowSkip

\* A jump that leads too far is not taken.
LEMMA StayAbove ==
    ASSUME NEW h \in 1..MaxHeight, NEW t \in Nat, GetSkipHeight(h) < t
    PROVE  ~FollowSkip(h, t)
<1>1. GetSkipHeight(h) \in Int
  BY MaxHeightType, SkipGoesDown
<1> QED
  BY <1>1 DEF FollowSkip

\* The jump from an even height is taken, unless the one from the height below
\* is better.
LEMMA FollowFromEven ==
    ASSUME NEW x \in 1..MaxHeight, NEW l \in Nat, l >= 1, Lowest(x, l),
           NEW y \in Nat, y = x - Pow2[l], NEW t \in Nat, t <= y,
           l >= 3 \/ InvertLowestOne(y) + 1 < t
    PROVE  FollowSkip(x, t)
<1>1. /\ MaxHeight \in Nat /\ Pow2[HeightBits] \in Nat /\ MaxHeight <= Pow2[HeightBits] - 1
      /\ x \in Nat /\ x >= 1 /\ x <= MaxHeight
  BY MaxHeightType
<1>2. Even(x, l) /\ Even(y, l + 1) /\ Pow2[l] \in Nat
  BY <1>1, LowestFacts
<1>3. Pow2[0] = 1 /\ Pow2[1] = 2 /\ Pow2[2] = 4 /\ Pow2[3] = 8
  BY SmallPowers
<1>4. GetSkipHeight(x) = y
  <2>1. Even(x, 1)
    BY <1>1, <1>2, EvenBelowToo
  <2>2. x \in 0..MaxHeight /\ x \in 1..Pow2[HeightBits] - 1
    BY <1>1
  <2>3. InvertLowestOne(x) = y
    BY <2>2, InvertIs
  <2> QED
    BY <2>1, <2>2, <2>3, SkipFromEven
<1>5. CASE l >= 3
  <2>1. PICK a \in Nat : x = a * 8
    <3>1. Even(x, 3)
      BY <1>1, <1>2, <1>5, EvenBelowToo
    <3> QED
      BY <1>3, <3>1 DEF Even
  <2>2. a >= 1 /\ a - 1 \in Nat
    BY <1>1, <2>1
  <2>3. /\ x - 2 \in Nat /\ x - 2 = (2 * (2 * (a - 1) + 1) + 1) * 2 /\ 2 * (a - 1) + 1 \in Nat
        /\ x - 4 \in Nat /\ x - 4 = (2 * (a - 1) + 1) * 4
        /\ x - 2 = (4 * (a - 1) + 3) * 2 /\ 4 * (a - 1) + 3 \in Nat
    BY <2>1, <2>2
  <2>4. Lowest(x - 2, 1) /\ Lowest(x - 4, 2) /\ Even(x - 2, 1)
    BY <1>3, <2>2, <2>3 DEF Lowest, Even
  <2>5. x - 2 \in 1..Pow2[HeightBits] - 1 /\ x - 4 \in 1..Pow2[HeightBits] - 1 /\ x - 2 \in 1..MaxHeight
    BY <1>1, <2>1, <2>2
  <2>6. InvertLowestOne(x - 2) = x - 4
    <3>1. InvertLowestOne(x - 2) = (x - 2) - 2
      BY <1>3, <2>4, <2>5, InvertIs
    <3> QED
      BY <1>1, <3>1
  <2>7. InvertLowestOne(x - 4) = x - 8
    <3>1. InvertLowestOne(x - 4) = (x - 4) - 4
      BY <1>3, <2>4, <2>5, InvertIs
    <3> QED
      BY <1>1, <3>1
  <2>8. GetSkipHeight(x - 1) = x - 7
    <3>1. (x - 2) + 1 = x - 1 /\ (x - 8) + 1 = x - 7
      BY <1>1
    <3>2. GetSkipHeight((x - 2) + 1) = InvertLowestOne(InvertLowestOne(x - 2)) + 1
      BY <2>4, <2>5, SkipFromOdd
    <3> QED
      BY <2>6, <2>7, <3>1, <3>2
  <2>9. y <= x - 8
    <3>1. Pow2[3] <= Pow2[l]
      BY <1>5, Pow2Mono
    <3> QED
      BY <1>1, <1>2, <1>3, <3>1
  <2>10. ~(x - 7 < y - 2)
    BY <1>1, <2>9
  <2> QED
    BY <1>4, <2>8, <2>10 DEF FollowSkip
<1>6. CASE l < 3
  <2>1. PICK z \in Nat : z = InvertLowestOne(y) /\ z <= y /\ z + 1 < t
    <3>1. y \in 0..Pow2[HeightBits] - 1
      BY <1>1, <1>2
    <3> QED
      BY <1>6, <3>1, InvertLess
  <2>2. GetSkipHeight(x - 1) \in Nat /\ GetSkipHeight(x - 1) <= z + 1
    <3>1. y # 0
      BY <2>1
    <3>2. CASE l = 1
      <4>1. x - 1 = y + 1 /\ y \in 1..MaxHeight /\ y \in 0..Pow2[HeightBits] - 1
        BY <1>1, <1>3, <3>1, <3>2
      <4>2. Even(y, 1)
        BY <1>2, <3>2, EvenBelowToo
      <4>3. GetSkipHeight(x - 1) = InvertLowestOne(z) + 1
        BY <2>1, <4>1, <4>2, SkipFromOdd
      <4>4. InvertLowestOne(z) \in Nat /\ InvertLowestOne(z) <= z
        <5>1. z \in 0..Pow2[HeightBits] - 1
          BY <1>1, <2>1, <4>1
        <5> QED
          BY <5>1, InvertLess
      <4> QED
        BY <2>1, <4>3, <4>4
    <3>3. CASE l = 2
      <4>1. PICK a \in Nat : y = a * 8
        BY <1>2, <1>3, <3>3 DEF Even
      <4>2. y + 2 = (2 * (2 * a) + 1) * 2 /\ 2 * a \in Nat /\ y + 2 = (2 * (2 * a) + 1) * 2 /\ 2 * (2 * a) + 1 \in Nat
        BY <4>1
      <4>3. Lowest(y + 2, 1) /\ Even(y + 2, 1)
        BY <1>3, <4>2 DEF Lowest, Even
      <4>4. /\ x - 1 = (y + 2) + 1 /\ y + 2 \in 1..MaxHeight
            /\ y + 2 \in 1..Pow2[HeightBits] - 1 /\ (y + 2) - 2 = y
        BY <1>1, <1>3, <3>3
      <4>5. InvertLowestOne(y + 2) = y
        BY <1>3, <4>3, <4>4, InvertIs
      <4>6. GetSkipHeight(x - 1) = z + 1
        BY <2>1, <4>3, <4>4, <4>5, SkipFromOdd
      <4> QED
        BY <2>1, <4>6
    <3> QED
      BY <1>6, <3>2, <3>3
  <2>3. ~(GetSkipHeight(x - 1) >= t)
    BY <2>1, <2>2
  <2> QED
    BY <1>4, <2>3 DEF FollowSkip
<1> QED
  BY <1>5, <1>6

-----------------------------------------------------------------------------

\* From every entry of height h the walk to height t takes at most n rounds.
Within(h, t, n) == \A e \in index : Height(e) = h => WalkTo(t)[h][e].rounds \in 0..n

LEMMA WithinMore ==
    ASSUME NEW h, NEW t, NEW n \in Nat, NEW m \in Nat, n <= m, Within(h, t, n)
    PROVE  Within(h, t, m)
  BY DEF Within

LEMMA WithinEnds ==
    ASSUME IInv, NEW h \in 0..MaxHeight, NEW n \in Nat
    PROVE  Within(h, h, n)
<1> SUFFICES ASSUME NEW e \in index PROVE WalkTo(h)[h][e].rounds = 0
  BY DEF Within
<1> DEFINE W == WalkTo(h)
<1>1. h \in Nat /\ h <= h
  BY MaxHeightType
<1>2. W[h] = Round(W, h, h)
  BY <1>1, WalkEquation
<1> HIDE DEF W
<1>3. W[h][e] = [entry |-> e, rounds |-> 0]
  BY <1>1, <1>2, Zenon DEF Round
<1>4. W[h][e].rounds = 0
  BY <1>3
<1> QED
  BY <1>4 DEF W

\* One round.
LEMMA WithinStep ==
    ASSUME IInv, NEW h \in 1..MaxHeight, NEW t \in Nat, t < h, NEW n \in Nat,
           Within(IF FollowSkip(h, t) THEN GetSkipHeight(h) ELSE h - 1, t, n)
    PROVE  Within(h, t, n + 1)
<1> SUFFICES ASSUME NEW e \in index, Height(e) = h PROVE WalkTo(t)[h][e].rounds \in 0..n + 1
  BY DEF Within
<1> DEFINE W == WalkTo(t)
           next == IF FollowSkip(h, t) THEN GetSkipHeight(h) ELSE h - 1
           d == IF FollowSkip(h, t) THEN pSkip[e] ELSE pPrev[e]
<1>1. h \in 0..MaxHeight /\ h \in Nat /\ ~(h <= t) /\ e # NULL /\ Height(e) > 0
  BY MaxHeightType, EntryFacts
<1>2. W[h] = Round(W, t, h)
  BY <1>1, WalkEquation
<1>3. \A f \in index : Height(f) = next => W[next][f].rounds \in 0..n
  BY DEF Within
<1>4. d \in index /\ Height(d) = next
  <2>1. /\ h - 1 \in 0..h /\ pPrev[e] = Ancestor(e, h - 1)
        /\ GetSkipHeight(h) \in 0..h - 1 /\ pSkip[e] = Ancestor(e, GetSkipHeight(h))
    BY <1>1, PointerFacts
  <2>2. next \in 0..h /\ d = Ancestor(e, next)
    BY <1>1, <2>1
  <2> HIDE DEF next, d
  <2> QED
    BY <2>2, AncestorFacts
<1>5. W[h][e] = [entry |-> W[next][d].entry, rounds |-> W[next][d].rounds + 1]
  <2> HIDE DEF W
  <2>1. CASE FollowSkip(h, t)
    <3>1. W[h][e] = [entry |-> W[GetSkipHeight(h)][pSkip[e]].entry,
                     rounds |-> W[GetSkipHeight(h)][pSkip[e]].rounds + 1]
      BY <1>1, <1>2, <2>1, Zenon DEF Round
    <3> QED
      BY <2>1, <3>1, Zenon
  <2>2. CASE ~FollowSkip(h, t)
    <3>1. W[h][e] = [entry |-> W[h - 1][pPrev[e]].entry,
                     rounds |-> W[h - 1][pPrev[e]].rounds + 1]
      BY <1>1, <1>2, <2>2, Zenon DEF Round
    <3> QED
      BY <2>2, <3>1, Zenon
  <2> QED
    BY <2>1, <2>2
<1>6. W[next][d].rounds \in 0..n
  BY <1>3, <1>4
<1> HIDE DEF W, next, d
<1>7. W[h][e].rounds = W[next][d].rounds + 1
  BY <1>5
<1>8. W[h][e].rounds \in 0..n + 1
  BY <1>6, <1>7
<1> QED
  BY <1>8 DEF W

LEMMA JumpStep ==
    ASSUME IInv, NEW h \in 1..MaxHeight, NEW t \in Nat, t < h, NEW n \in Nat,
           FollowSkip(h, t), Within(GetSkipHeight(h), t, n)
    PROVE  Within(h, t, n + 1)
  BY WithinStep

LEMMA DownStep ==
    ASSUME IInv, NEW h \in 1..MaxHeight, NEW t \in Nat, t < h, NEW n \in Nat,
           ~FollowSkip(h, t), Within(h - 1, t, n)
    PROVE  Within(h, t, n + 1)
  BY WithinStep

\* 1 + ... + k
Triangle(k) == (k * (k + 1)) \div 2

LEMMA TriangleNext ==
    ASSUME NEW k \in Nat
    PROVE  Triangle(k) \in Nat /\ Triangle(k + 1) = Triangle(k) + k + 1
<1>1. PICK q \in Nat : q = k * (k + 1)
  OBVIOUS
<1>2. (k + 1) * ((k + 1) + 1) = q + 2 * (k + 1)
  BY <1>1
<1>3. (q + 2 * (k + 1)) \div 2 = q \div 2 + k + 1 /\ q \div 2 \in Nat
  OBVIOUS
<1> QED
  BY <1>1, <1>2, <1>3 DEF Triangle

LEMMA TriangleMono ==
    ASSUME NEW j \in Nat, NEW k \in Nat, j <= k
    PROVE  Triangle(j) <= Triangle(k)
<1>1. j * (j + 1) <= k * (j + 1) /\ j + 1 \in Nat /\ k + 1 \in Nat
  BY TimesMono
<1>2. k * (j + 1) <= k * (k + 1)
  BY TimesMono
<1>3. PICK a \in Nat : a = j * (j + 1)
  OBVIOUS
<1>4. PICK b \in Nat : b = k * (k + 1)
  OBVIOUS
<1>5. PICK c \in Nat : c = k * (j + 1)
  OBVIOUS
<1>6. a <= b
  BY <1>1, <1>2, <1>3, <1>4, <1>5
<1>7. a \div 2 <= b \div 2
  BY <1>6
<1> QED
  BY <1>3, <1>4, <1>7 DEF Triangle

LEMMA TriangleStart == Triangle(0) = 0 /\ Triangle(1) = 1
  BY DEF Triangle

-----------------------------------------------------------------------------

\* A target above the next multiple of the power of two below h is near.
Near(k) ==
    \A h \in 0..MaxHeight, t \in Nat :
       Even(h, k) /\ t <= h /\ h < t + Pow2[k] => Within(h, t, Triangle(k))

OddBound(K, j) == 1 + (K - j) \div 2 + Triangle(K - 1)

\* The walk from x + 1, when x is a multiple of the j-th power and x and the target are
\* in the same stretch of the K-th power.
OddDone(K, x) ==
    \A j \in 1..K, base \in Nat, t \in Nat :
       /\ Even(x, j) /\ Even(base, K) /\ base <= x /\ x < base + Pow2[K]
       /\ base <= t /\ t <= x + 1
       => Within(x + 1, t, OddBound(K, j))

LEMMA OddBoundFacts ==
    ASSUME NEW K \in Nat, K >= 1, NEW j \in 1..K
    PROVE  /\ OddBound(K, j) \in Nat /\ OddBound(K, j) >= 1 + Triangle(K - 1) /\ K - 1 \in Nat
           /\ Triangle(K - 1) \in Nat
           /\ j < K => OddBound(K, j) >= 2
           /\ j + 2 <= K => OddBound(K, j) >= 2 + Triangle(K - 1)
           /\ j + 2 <= K => OddBound(K, j + 2) + 1 = OddBound(K, j)
<1>1. K - 1 \in Nat
  OBVIOUS
<1>2. PICK T \in Nat : T = Triangle(K - 1)
  BY <1>1, TriangleNext
<1>3. j < K => T >= 1
  <2> SUFFICES ASSUME j < K PROVE T >= 1
    OBVIOUS
  <2>1. 1 <= K - 1 /\ 1 \in Nat
    OBVIOUS
  <2>2. Triangle(1) <= Triangle(K - 1)
    BY <1>1, <2>1, TriangleMono
  <2> QED
    BY <1>2, <2>2, TriangleStart
<1>4. PICK q \in Nat : q = (K - j) \div 2
  OBVIOUS
<1>5. j + 2 <= K => q >= 1 /\ (K - (j + 2)) \div 2 = q - 1
  BY <1>4
<1>6. OddBound(K, j) = 1 + q + T /\ OddBound(K, j + 2) = 1 + (K - (j + 2)) \div 2 + T
  BY <1>2, <1>4 DEF OddBound
<1>7. /\ OddBound(K, j) \in Nat /\ OddBound(K, j) >= 1 + T
      /\ j < K => OddBound(K, j) >= 2
      /\ j + 2 <= K => OddBound(K, j) >= 2 + T
  BY <1>3, <1>5, <1>6
<1>8. j + 2 <= K => OddBound(K, j + 2) + 1 = OddBound(K, j)
  BY <1>5, <1>6
<1> QED
  BY <1>1, <1>2, <1>7, <1>8

\* The lowest bit of a number against the stretch it lies in.
LEMMA InStretch ==
    ASSUME NEW x \in Nat, NEW l \in Nat, Lowest(x, l), NEW K \in Nat, NEW base \in Nat,
           Even(base, K), base <= x, x < base + Pow2[K]
    PROVE  /\ l >= K => x = base
           /\ l < K => base <= x - Pow2[l]
<1>1. Even(x, l) /\ Pow2[l] \in Nat /\ Pow2[l] > 0 /\ \A j \in Nat : Even(x, j) => j <= l
  BY LowestFacts
<1>2. Pow2[K] \in Nat
  BY Doubles
<1>3. ASSUME l >= K PROVE x = base
  <2>1. Even(x, K)
    BY <1>1, <1>3, EvenBelowToo
  <2>2. base < x => base + Pow2[K] <= x
    BY <2>1, EvenGap
  <2> QED
    BY <1>2, <2>2
<1>4. ASSUME l < K PROVE base <= x - Pow2[l]
  <2>1. x # base
    BY <1>1, <1>4
  <2>2. Even(base, l)
    BY <1>4, EvenBelowToo
  <2>3. base < x => base + Pow2[l] <= x
    BY <1>1, <2>2, EvenGap
  <2> QED
    BY <1>1, <2>1, <2>3
<1> QED
  BY <1>3, <1>4

LEMMA NearWithin ==
    ASSUME NEW K \in Nat, K >= 1, \A k \in 0..K - 1 : Near(k), NEW l \in 0..K - 1, NEW x \in 0..MaxHeight,
           Lowest(x, l), NEW t \in Nat, t <= x, x - Pow2[l] < t
    PROVE  Within(x, t, Triangle(K - 1))
<1>1. l \in Nat /\ K - 1 \in Nat /\ l <= K - 1 /\ x \in Nat
  BY MaxHeightType
<1>2. Even(x, l) /\ Pow2[l] \in Nat
  BY <1>1, LowestFacts
<1>3. x < t + Pow2[l]
  BY <1>1, <1>2
<1>4. Within(x, t, Triangle(l))
  BY <1>2, <1>3 DEF Near
<1>5. Triangle(l) \in Nat /\ Triangle(K - 1) \in Nat /\ Triangle(l) <= Triangle(K - 1)
  BY <1>1, TriangleNext, TriangleMono
<1> QED
  BY <1>4, <1>5, WithinMore

\* From x + 1 by jumps over two bits each, and then by one more over a bit.
LEMMA OddStep ==
    ASSUME IInv, NEW K \in Nat, K >= 1, \A k \in 0..K - 1 : Near(k),
           NEW x \in 0..MaxHeight - 1, \A z \in 0..x - 1 : OddDone(K, z)
    PROVE  OddDone(K, x)
<1> SUFFICES ASSUME NEW j \in 1..K, NEW base \in Nat, NEW t \in Nat,
                    Even(x, j), Even(base, K), base <= x, x < base + Pow2[K],
                    base <= t, t <= x + 1
             PROVE  Within(x + 1, t, OddBound(K, j))
  BY DEF OddDone
<1>1. /\ MaxHeight \in Nat /\ Pow2[HeightBits] \in Nat /\ MaxHeight <= Pow2[HeightBits] - 1
      /\ x \in Nat /\ x + 1 \in 1..MaxHeight /\ x \in 0..MaxHeight
      /\ x + 1 \in 0..MaxHeight /\ (x + 1) - 1 = x /\ j \in Nat /\ j >= 1
  BY MaxHeightType
<1>2. PICK B \in Nat : /\ B = OddBound(K, j) /\ B >= 1 + Triangle(K - 1) /\ Triangle(K - 1) \in Nat
                       /\ j < K => B >= 2
                       /\ j + 2 <= K => B >= 2 + Triangle(K - 1)
                       /\ j + 2 <= K => OddBound(K, j + 2) + 1 = B
  BY OddBoundFacts
<1> SUFFICES Within(x + 1, t, B)
  BY <1>2
<1>3. CASE t = x + 1
  BY <1>1, <1>3, WithinEnds
<1>4. CASE t <= x /\ x = 0
  <2>1. t = 0 /\ GetSkipHeight(1) = 0 /\ FollowSkip(1, 0)
    BY <1>4 DEF GetSkipHeight, FollowSkip
  <2>2. Within(0, 0, 0)
    BY <1>1, <1>4, WithinEnds
  <2>3. Within(1, 0, 0 + 1)
    BY <1>1, <1>4, <2>1, <2>2, JumpStep
  <2>4. 0 + 1 \in Nat /\ 0 + 1 <= B
    BY <1>2
  <2> QED
    BY <1>4, <2>1, <2>3, <2>4, WithinMore
<1>5. CASE t <= x /\ x # 0
  <2>1. x \in 1..MaxHeight /\ x \in 1..Pow2[HeightBits] - 1 /\ x >= 1
    BY <1>1, <1>5
  <2>2. Even(x, 1)
    BY <1>1, EvenBelowToo
  <2>3. PICK l \in Nat : Lowest(x, l)
    BY <1>1, <2>1, LowestExists
  <2>4. /\ Pow2[l] \in Nat /\ Pow2[l] > 0 /\ Pow2[l] <= x /\ j <= l /\ l >= 1
        /\ x - Pow2[l] \in Nat /\ Even(x - Pow2[l], l + 1)
    <3>1. j <= l
      BY <1>1, <2>3, LowestFacts
    <3> QED
      BY <1>1, <2>3, <3>1, LowestFacts
  <2>5. PICK y \in Nat : y = x - Pow2[l] /\ Even(y, l + 1) /\ y < x
    BY <1>1, <2>4
  <2>6. InvertLowestOne(x) = y
    BY <2>1, <2>3, <2>5, InvertIs
  <2>7. y \in 0..MaxHeight /\ y \in 0..Pow2[HeightBits] - 1
    BY <1>1, <2>5
  <2>8. PICK z \in Nat : z = InvertLowestOne(y) /\ z <= y
    BY <2>7, InvertLess
  <2>9. GetSkipHeight(x + 1) = z + 1 /\ GetSkipHeight(x) = y
    <3>1. GetSkipHeight(x + 1) = z + 1
      BY <2>1, <2>2, <2>6, <2>8, SkipFromOdd
    <3>2. GetSkipHeight(x) = y
      BY <1>1, <2>2, <2>6, SkipFromEven
    <3> QED
      BY <3>1, <3>2
  <2>10. FollowSkip(x + 1, t) <=> t <= z + 1
    BY <2>1, <2>2, <2>9, FollowFromOdd
  <2>11. (l >= K => x = base) /\ (l < K => base <= y)
    BY <1>1, <2>3, <2>5, InStretch
  <2>12. ASSUME ~(t <= z + 1), NEW n \in Nat, n + 1 <= B, Within(x, t, n)
         PROVE  Within(x + 1, t, B)
    <3>1. Within(x + 1, t, n + 1)
      BY <1>1, <1>5, <2>10, <2>12, DownStep
    <3> QED
      BY <2>12, <3>1, WithinMore
  <2>13. CASE l >= K
    <3>1. t = x
      BY <1>5, <2>11, <2>13
    <3>2. ~(t <= z + 1)
      <4>1. Pow2[l] >= 2
        BY <2>4, PowerIsTwo
      <4> QED
        BY <1>1, <2>4, <2>5, <2>8, <3>1, <4>1
    <3>3. Within(x, t, 0)
      BY <1>1, <3>1, WithinEnds
    <3>4. 0 + 1 <= B
      BY <1>2
    <3> QED
      BY <2>12, <3>2, <3>3, <3>4
  <2>14. CASE l < K /\ ~(t <= z + 1) /\ y < t
    <3>1. Within(x, t, Triangle(K - 1))
      <4>1. l \in 0..K - 1
        BY <2>14
      <4> QED
        BY <1>1, <1>5, <2>3, <2>5, <2>14, <4>1, NearWithin
    <3>2. Triangle(K - 1) + 1 <= B
      BY <1>2
    <3> QED
      BY <1>2, <2>12, <2>14, <3>1, <3>2
  <2>15. CASE l < K /\ t <= z + 1 /\ y = 0
    <3>1. z = 0
      BY <2>8, <2>15
    <3>2. Within(1, t, 1)
      <4>1. CASE t = 1
        BY <1>1, <4>1, WithinEnds
      <4>2. CASE t = 0
        <5>1. GetSkipHeight(1) = 0 /\ FollowSkip(1, 0) /\ 1 \in 1..MaxHeight /\ 0 \in 0..MaxHeight
          BY <1>1 DEF GetSkipHeight, FollowSkip
        <5>2. Within(0, 0, 0)
          BY <5>1, WithinEnds
        <5>3. Within(1, 0, 0 + 1)
          BY <5>1, <5>2, JumpStep
        <5> QED
          BY <4>2, <5>3
      <4> QED
        BY <2>15, <3>1, <4>1, <4>2
    <3>3. Within(x + 1, t, 1 + 1)
      BY <1>1, <1>5, <2>9, <2>10, <2>15, <3>1, <3>2, JumpStep
    <3>4. j < K
      BY <1>1, <2>4, <2>15
    <3> QED
      BY <1>2, <3>3, <3>4, WithinMore
  <2>16. CASE l < K /\ y # 0 /\ (t <= z + 1 \/ t <= y)
    <3>1. PICK m \in Nat : Lowest(y, m)
      BY <2>16, LowestExists
    <3>2. /\ Pow2[m] \in Nat /\ Pow2[m] > 0 /\ l + 1 <= m /\ l + 1 \in Nat
          /\ y - Pow2[m] \in Nat /\ Even(y - Pow2[m], m + 1)
      <4>1. l + 1 <= m /\ l + 1 \in Nat
        BY <2>5, <3>1, LowestFacts
      <4> QED
        BY <3>1, <4>1, LowestFacts
    <3>3. z = y - Pow2[m] /\ Even(z, m + 1)
      <4>1. y \in 1..Pow2[HeightBits] - 1
        BY <2>7, <2>16
      <4> QED
        BY <2>8, <3>1, <3>2, <4>1, InvertIs
    <3>4. (m >= K => y = base) /\ (m < K => base <= z)
      <4>1. base <= y /\ y < base + Pow2[K]
        <5>1. Pow2[K] \in Nat
          BY Doubles
        <5> QED
          BY <1>1, <2>5, <2>11, <2>16, <5>1
      <4> QED
        BY <3>1, <3>3, <4>1, InStretch
    <3>5. Pow2[m] >= 2
      BY <2>4, <3>2, PowerIsTwo
    <3>6. CASE t <= z + 1
      <4>1. m < K
        <5> SUFFICES ASSUME m >= K PROVE FALSE
          OBVIOUS
        <5>1. y = base
          BY <3>4
        <5> QED
          BY <2>8, <3>2, <3>3, <3>5, <3>6, <5>1
      <4>2. j + 2 \in 1..K /\ j + 2 <= K /\ j + 2 <= m + 1 /\ m + 1 \in Nat /\ j + 2 \in Nat
        BY <1>1, <2>4, <3>2, <4>1
      <4>3. Even(z, j + 2)
        BY <3>3, <4>2, EvenBelowToo
      <4>4. base <= z /\ z < base + Pow2[K] /\ z \in 0..x - 1
        <5>1. Pow2[K] \in Nat
          BY Doubles
        <5> QED
          BY <1>1, <2>5, <2>8, <3>4, <4>1, <5>1
      <4>5. OddDone(K, z)
        BY <4>4
      <4>6. Within(z + 1, t, OddBound(K, j + 2))
        BY <3>6, <4>2, <4>3, <4>4, <4>5 DEF OddDone
      <4>7. PICK n \in Nat : n = OddBound(K, j + 2) /\ n + 1 = B
        BY <1>2, <4>2, OddBoundFacts
      <4>8. Within(x + 1, t, n + 1)
        BY <1>1, <1>5, <2>9, <2>10, <3>6, <4>6, <4>7, JumpStep
      <4> QED
        BY <4>7, <4>8
    <3>7. CASE ~(t <= z + 1) /\ t <= y
      <4>1. FollowSkip(x, t)
        BY <2>1, <2>3, <2>4, <2>5, <2>8, <3>7, FollowFromEven
      <4>2. ASSUME NEW n \in Nat, (n + 1) + 1 <= B, Within(y, t, n) PROVE Within(x + 1, t, B)
        <5>1. t < x
          BY <1>1, <2>5, <3>7
        <5>2. Within(x, t, n + 1)
          BY <2>1, <2>9, <4>1, <4>2, <5>1, JumpStep
        <5>3. n + 1 \in Nat
          OBVIOUS
        <5> QED
          BY <2>12, <3>7, <4>2, <5>2, <5>3
      <4>3. CASE m >= K
        <5>1. t = y
          BY <3>4, <3>7, <4>3
        <5>2. Within(y, t, 0)
          BY <2>7, <5>1, WithinEnds
        <5>3. (0 + 1) + 1 <= B
          BY <1>1, <1>2, <2>4, <2>16
        <5> QED
          BY <4>2, <5>2, <5>3
      <4>4. CASE m < K
        <5>1. m \in 0..K - 1 /\ y - Pow2[m] < t
          BY <2>8, <3>3, <3>7, <4>4
        <5>2. Within(y, t, Triangle(K - 1))
          BY <2>7, <3>1, <3>7, <5>1, NearWithin
        <5>3. j + 2 <= K
          BY <1>1, <2>4, <3>2, <4>4
        <5>4. (Triangle(K - 1) + 1) + 1 <= B
          BY <1>2, <5>3
        <5> QED
          BY <1>2, <4>2, <5>2, <5>4
      <4> QED
        BY <4>3, <4>4
    <3> QED
      BY <2>16, <3>6, <3>7
  <2>17. y = 0 /\ t <= y => t <= z + 1
    BY <2>8
  <2>18. t <= z + 1 \/ y < t \/ t <= y
    OBVIOUS
  <2> QED
    BY <2>13, <2>14, <2>15, <2>16, <2>17, <2>18
<1> QED
  BY <1>3, <1>4, <1>5

LEMMA OddWalk ==
    ASSUME IInv, NEW K \in Nat, K >= 1, \A k \in 0..K - 1 : Near(k), NEW x \in 0..MaxHeight - 1
    PROVE  OddDone(K, x)
<1> DEFINE Bad == {y \in Nat : y <= MaxHeight - 1 /\ ~OddDone(K, y)}
<1>1. MaxHeight \in Nat
  BY MaxHeightType
<1>2. Bad = {}
  <2> SUFFICES ASSUME Bad # {} PROVE FALSE
    OBVIOUS
  <2>1. PICK y \in Bad : \A m \in Bad : y <= m
    BY LeastNatural
  <2>2. y \in 0..MaxHeight - 1 /\ ~OddDone(K, y)
    BY <1>1
  <2>3. ASSUME NEW z \in 0..y - 1 PROVE OddDone(K, z)
    <3>1. z \in Nat /\ z <= MaxHeight - 1 /\ ~(y <= z)
      BY <1>1, <2>2
    <3> QED
      BY <2>1, <3>1
  <2> QED
    BY <2>2, <2>3, OddStep
<1>3. x \in Nat /\ x <= MaxHeight - 1
  BY <1>1
<1> QED
  BY <1>2, <1>3

\* A near target takes at most 1 + ... + k rounds.
LEMMA NearNext ==
    ASSUME IInv, NEW K \in Nat, \A k \in 0..K - 1 : Near(k)
    PROVE  Near(K)
<1> SUFFICES ASSUME NEW h \in 0..MaxHeight, NEW t \in Nat, Even(h, K), t <= h, h < t + Pow2[K]
             PROVE  Within(h, t, Triangle(K))
  BY DEF Near
<1>1. MaxHeight \in Nat /\ h \in Nat /\ Triangle(K) \in Nat /\ Pow2[K] \in Nat /\ Pow2[K] > 0
  BY MaxHeightType, TriangleNext, Doubles
<1>2. CASE t = h
  BY <1>1, <1>2, WithinEnds
<1>3. CASE t # h
  <2>1. t < h /\ h \in 1..MaxHeight /\ h >= 1
    BY <1>1, <1>3
  <2>2. h >= Pow2[K] /\ h - Pow2[K] \in Nat /\ h - Pow2[K] < t
    <3>1. Even(0, K)
      BY ZeroIsEven
    <3>2. 0 + Pow2[K] <= h
      BY <1>1, <2>1, <3>1, EvenGap
    <3> QED
      BY <1>1, <3>2
  <2>3. K # 0
    <3>1. Pow2[0] = 1
      BY Pow2Def
    <3> QED
      BY <1>1, <2>1, <3>1
  <2>4. Even(h, 1) /\ K >= 1 /\ K - 1 \in Nat
    BY <1>1, <2>3, EvenBelowToo
  <2>5. ~FollowSkip(h, t)
    <3>1. PICK l \in Nat : Lowest(h, l)
      BY <1>1, <2>1, LowestExists
    <3>2. K <= l /\ Pow2[l] \in Nat
      BY <1>1, <3>1, LowestFacts
    <3>3. Pow2[K] <= Pow2[l]
      BY <3>2, Pow2Mono
    <3>4. h \in 1..Pow2[HeightBits] - 1
      BY <2>1, MaxHeightType
    <3>5. GetSkipHeight(h) = h - Pow2[l]
      BY <2>4, <3>1, <3>4, InvertIs, SkipFromEven
    <3>6. GetSkipHeight(h) < t
      BY <1>1, <2>2, <3>2, <3>3, <3>5
    <3> QED
      BY <2>1, <3>6, StayAbove
  <2>6. CASE K = 1
    <3>1. Pow2[1] = 2
      BY SmallPowers
    <3>2. t = h - 1 /\ h - 1 \in 0..MaxHeight
      BY <1>1, <2>1, <2>6, <3>1
    <3>3. Within(h - 1, t, 0)
      BY <3>2, WithinEnds
    <3>4. Within(h, t, 0 + 1)
      BY <2>1, <2>5, <3>3, DownStep
    <3> QED
      BY <2>6, <3>4, TriangleStart
  <2>7. CASE K >= 2
    <3>2. PICK x \in Nat : x = h - 2
      BY <1>1, <2>1, <2>4, TwoLess
    <3>3. Even(x, 1)
      BY <1>1, <2>1, <2>4, <3>2, TwoLess
    <3>4. PICK base \in Nat : base = h - Pow2[K]
      BY <2>2
    <3>5. Even(base, K)
      <4>1. PICK p \in Nat : p = Pow2[K] /\ p > 0
        BY <1>1
      <4>2. PICK c \in Nat : h = c * p
        BY <4>1 DEF Even
      <4>3. c # 0
        BY <2>1, <4>1, <4>2
      <4>4. c - 1 \in Nat /\ h - p = (c - 1) * p
        BY <4>1, <4>2, <4>3
      <4> QED
        BY <3>4, <4>1, <4>4 DEF Even
    <3>6. Pow2[K] >= 2
      BY <2>4, PowerIsTwo
    <3>7. base <= x /\ x < base + Pow2[K] /\ base <= t /\ t <= x + 1 /\ x \in 0..MaxHeight - 1 /\ x + 1 = h - 1
      BY <1>1, <2>1, <2>2, <3>2, <3>4, <3>6
    <3>8. OddDone(K, x)
      BY <2>4, <3>7, OddWalk
    <3>9. 1 \in 1..K
      BY <2>4
    <3>10. Within(h - 1, t, OddBound(K, 1))
      BY <3>3, <3>5, <3>7, <3>8, <3>9 DEF OddDone
    <3>11. PICK T \in Nat : T = Triangle(K - 1) /\ Triangle(K) = T + K
      <4>1. (K - 1) + 1 = K /\ K - 1 \in Nat
        BY <2>4
      <4>2. Triangle(K - 1) \in Nat /\ Triangle((K - 1) + 1) = Triangle(K - 1) + (K - 1) + 1
        BY <4>1, TriangleNext
      <4> QED
        BY <4>1, <4>2
    <3>12. PICK n \in Nat : n = OddBound(K, 1) /\ n + 1 <= Triangle(K)
      <4>1. OddBound(K, 1) = 1 + (K - 1) \div 2 + T
        BY <3>11 DEF OddBound
      <4>2. (K - 1) \div 2 \in Nat /\ (K - 1) \div 2 <= K - 2
        BY <2>7
      <4> QED
        BY <3>11, <4>1, <4>2
    <3>13. Within(h, t, n + 1)
      BY <2>1, <2>5, <3>10, <3>12, DownStep
    <3> QED
      BY <1>1, <3>12, <3>13, WithinMore
  <2> QED
    BY <2>4, <2>6, <2>7
<1> QED
  BY <1>2, <1>3

LEMMA AllNear ==
    ASSUME IInv, NEW K \in Nat
    PROVE  Near(K)
<1> DEFINE Bad == {k \in Nat : ~Near(k)}
<1>1. Bad = {}
  <2> SUFFICES ASSUME Bad # {} PROVE FALSE
    OBVIOUS
  <2>1. PICK k \in Bad : \A m \in Bad : k <= m
    BY LeastNatural
  <2>2. ASSUME NEW m \in 0..k - 1 PROVE Near(m)
    <3>1. m \in Nat /\ ~(k <= m)
      OBVIOUS
    <3> QED
      BY <2>1, <3>1
  <2> QED
    BY <2>1, <2>2, NearNext
<1> QED
  BY <1>1

\* The walk from an even height below the b-th power, a multiple of the k-th.
EvenDone(b, h) ==
    \A k \in 1..b, t \in Nat :
       Even(h, k) /\ t <= h => Within(h, t, b - k + 1 + Triangle(b - 1))

LEMMA EvenStep ==
    ASSUME IInv, NEW b \in Nat, b >= 2, NEW h \in 0..MaxHeight, h < Pow2[b],
           \A y \in 0..h - 1 : EvenDone(b, y)
    PROVE  EvenDone(b, h)
<1> SUFFICES ASSUME NEW k \in 1..b, NEW t \in Nat, Even(h, k), t <= h
             PROVE  Within(h, t, b - k + 1 + Triangle(b - 1))
  BY DEF EvenDone
<1>1. /\ MaxHeight \in Nat /\ Pow2[HeightBits] \in Nat /\ MaxHeight <= Pow2[HeightBits] - 1
      /\ h \in Nat /\ b - 1 \in Nat /\ Triangle(b - 1) \in Nat /\ k \in Nat /\ k >= 1 /\ k <= b
  BY MaxHeightType, TriangleNext
<1>2. PICK T \in Nat : T = Triangle(b - 1)
  BY <1>1
<1>3. PICK B \in Nat : B = b - k + 1 + T
  BY <1>1
<1> SUFFICES Within(h, t, B)
  BY <1>2, <1>3
<1>4. CASE t = h
  BY <1>4, WithinEnds
<1>5. CASE t < h
  <2>1. h \in 1..MaxHeight /\ h \in 1..Pow2[HeightBits] - 1 /\ h >= 1
    BY <1>1, <1>5
  <2>2. PICK l \in Nat : Lowest(h, l)
    BY <1>1, <2>1, LowestExists
  <2>3. /\ Pow2[l] \in Nat /\ Pow2[l] > 0 /\ Pow2[l] <= h /\ k <= l
        /\ h - Pow2[l] \in Nat /\ Even(h - Pow2[l], l + 1) /\ Even(h, l)
    <3>1. k <= l
      BY <1>1, <2>2, LowestFacts
    <3> QED
      BY <1>1, <2>2, <3>1, LowestFacts
  <2>4. l <= b - 1
    <3>1. b <= l => Pow2[b] <= Pow2[l]
      BY Pow2Mono
    <3>2. Pow2[b] \in Nat
      BY Doubles
    <3> QED
      BY <1>1, <2>3, <3>1, <3>2
  <2>5. PICK y \in Nat : y = h - Pow2[l] /\ Even(y, l + 1) /\ y < h
    BY <1>1, <2>3
  <2>6. Even(h, 1) /\ GetSkipHeight(h) = y
    <3>1. Even(h, 1)
      BY <1>1, EvenBelowToo
    <3> QED
      BY <2>1, <2>2, <2>5, <3>1, InvertIs, SkipFromEven
  <2>7. CASE y < t
    <3>1. Within(h, t, T)
      <4>1. b >= 1 /\ l \in 0..b - 1
        BY <2>4
      <4>2. \A i \in 0..b - 1 : Near(i)
        BY AllNear
      <4> QED
        BY <1>2, <1>5, <2>2, <2>5, <2>7, <4>1, <4>2, NearWithin
    <3>2. T <= B
      BY <1>1, <1>2, <1>3
    <3> QED
      BY <3>1, <3>2, WithinMore
  <2>8. CASE t <= y /\ FollowSkip(h, t)
    <3>1. Even(y, k + 1) /\ k + 1 \in 1..b
      <4>1. k + 1 \in Nat /\ k + 1 <= l + 1 /\ l + 1 \in Nat /\ k + 1 \in 1..b
        BY <1>1, <2>3, <2>4
      <4> QED
        BY <2>5, <4>1, EvenBelowToo
    <3>2. y \in 0..h - 1
      BY <1>1, <2>5
    <3>3. Within(y, t, b - (k + 1) + 1 + Triangle(b - 1))
      BY <2>8, <3>1, <3>2 DEF EvenDone
    <3>4. PICK n \in Nat : n = b - (k + 1) + 1 + T /\ n + 1 = B
      BY <1>1, <1>2, <1>3, <3>1
    <3>5. Within(h, t, n + 1)
      BY <1>2, <1>5, <2>1, <2>6, <2>8, <3>3, <3>4, JumpStep
    <3> QED
      BY <3>4, <3>5
  <2>9. CASE t <= y /\ ~FollowSkip(h, t)
    <3>1. l < 3
      <4>1. l >= 1
        BY <1>1, <2>3
      <4> QED
        BY <2>1, <2>2, <2>5, <2>9, <4>1, FollowFromEven
    <3>2. y # t
      BY <2>6, <2>9 DEF FollowSkip
    <3>4. PICK x \in Nat : x = h - 2
      BY <1>1, <2>1, <2>6, TwoLess
    <3>5. Even(x, 1)
      BY <1>1, <2>1, <2>6, <3>4, TwoLess
    <3>6. 0 <= x /\ x < 0 + Pow2[b] /\ 0 <= t /\ t <= x + 1 /\ x \in 0..MaxHeight - 1 /\ x + 1 = h - 1 /\ 1 \in 1..b
      <4>1. Pow2[b] \in Nat
        BY Doubles
      <4> QED
        BY <1>1, <1>5, <3>4, <4>1
    <3>7. Even(0, b)
      BY ZeroIsEven
    <3>8. OddDone(b, x)
      BY <3>6, AllNear, OddWalk
    <3>9. Within(h - 1, t, OddBound(b, 1))
      BY <3>5, <3>6, <3>7, <3>8 DEF OddDone
    <3>10. k = 2 => b >= 4
      <4> SUFFICES ASSUME k = 2, b = 2 \/ b = 3 PROVE FALSE
        BY <1>1
      <4>1. l = 2
        BY <2>3, <3>1
      <4>3. Pow2[2] = 4 /\ Pow2[3] = 8
        BY SmallPowers
      <4>4. PICK c \in Nat : y = c * 8
        BY <2>5, <4>1, <4>3 DEF Even
      <4>5. y >= 8
        BY <2>9, <3>2, <4>4
      <4> QED
        BY <1>1, <2>5, <4>3, <4>5
    <3>11. PICK n \in Nat : n = OddBound(b, 1) /\ n + 1 <= B
      <4>1. OddBound(b, 1) = 1 + (b - 1) \div 2 + T
        BY <1>2 DEF OddBound
      <4>2. k = 1 \/ k = 2
        BY <1>1, <2>3, <3>1
      <4>3. (b - 1) \div 2 \in Nat /\ 2 + (b - 1) \div 2 <= b - k + 1
        BY <1>1, <3>10, <4>2
      <4> QED
        BY <1>3, <4>1, <4>3
    <3>12. Within(h, t, n + 1)
      BY <1>5, <2>1, <2>9, <3>9, <3>11, DownStep
    <3> QED
      BY <3>11, <3>12, WithinMore
  <2> QED
    BY <2>5, <2>7, <2>8, <2>9
<1> QED
  BY <1>1, <1>4, <1>5

LEMMA EvenWalk ==
    ASSUME IInv, NEW b \in Nat, b >= 2, NEW h \in 0..MaxHeight, h < Pow2[b]
    PROVE  EvenDone(b, h)
<1> DEFINE Bad == {y \in Nat : y <= MaxHeight /\ y < Pow2[b] /\ ~EvenDone(b, y)}
<1>1. MaxHeight \in Nat /\ Pow2[b] \in Nat
  BY MaxHeightType, Doubles
<1>2. Bad = {}
  <2> SUFFICES ASSUME Bad # {} PROVE FALSE
    OBVIOUS
  <2>1. PICK y \in Bad : \A m \in Bad : y <= m
    BY LeastNatural
  <2>2. y \in 0..MaxHeight /\ y < Pow2[b] /\ ~EvenDone(b, y)
    BY <1>1
  <2>3. ASSUME NEW z \in 0..y - 1 PROVE EvenDone(b, z)
    <3>1. z \in Nat /\ z <= MaxHeight /\ z < Pow2[b] /\ ~(y <= z)
      BY <1>1, <2>2
    <3> QED
      BY <2>1, <3>1
  <2> QED
    BY <2>2, <2>3, EvenStep
<1>3. h \in Nat /\ h <= MaxHeight
  BY <1>1
<1> QED
  BY <1>2, <1>3

\* Bits finds the number of bits.
LEMMA BitsFacts ==
    ASSUME NEW n \in 0..MaxHeight
    PROVE  LET b == Bits(n) IN b \in Nat /\ Pow2[b] > n /\ (b = 0 \/ Pow2[b - 1] <= n)
<1> DEFINE S == {k \in Nat : Pow2[k] > n}
<1>1. HeightBits \in Nat /\ Pow2[HeightBits] \in Nat /\ n \in Nat /\ n < Pow2[HeightBits]
  BY MaxHeightType, SkipListAssumption
<1>2. HeightBits \in S
  BY <1>1
<1>3. PICK k \in S : \A m \in S : k <= m
  BY <1>2, LeastNatural
<1>4. k \in 0..HeightBits /\ Pow2[k] > n
  BY <1>1, <1>2, <1>3
<1>5. k = 0 \/ Pow2[k - 1] <= n
  <2> SUFFICES ASSUME k # 0 PROVE Pow2[k - 1] <= n
    OBVIOUS
  <2>1. k - 1 \in Nat /\ ~(k <= k - 1)
    BY <1>4
  <2>2. ~(Pow2[k - 1] > n)
    BY <1>3, <2>1
  <2>3. Pow2[k - 1] \in Nat
    BY <2>1, Doubles
  <2> QED
    BY <1>1, <2>2, <2>3
<1>6. Bits(n) \in 0..HeightBits /\ Pow2[Bits(n)] > n /\ (Bits(n) = 0 \/ Pow2[Bits(n) - 1] <= n)
  BY <1>4, <1>5, Zenon DEF Bits
<1> QED
  BY <1>1, <1>6

\* getAncestor needs at most 1 + ... + b rounds from a height of b bits, to every height
\* that is asked for, in chains of any length and wherever the fork is
\* (chain.h:28, "max 110 steps to go back up to 2**18 blocks").
THEOREM WalksAreShort == SkipSpec => []WalkIsShort
<1>1. IInv => WalkIsShort
  <2> SUFFICES ASSUME IInv, NEW e \in Tips, NEW t \in 0..Height(e)
               PROVE  Walk(e, t).rounds <= Triangle(Bits(Height(e)))
    BY DEF WalkIsShort, Triangle
  <2>1. e \in index /\ Height(e) \in 0..MaxHeight
    <3>1. e \in index
      BY DEF Tips
    <3> QED
      BY <3>1, EntryFacts
  <2>2. PICK h \in 0..MaxHeight : h = Height(e) /\ h \in Nat /\ t \in Nat /\ t <= h
    BY <2>1, MaxHeightType
  <2>3. PICK b \in Nat : b = Bits(h) /\ Pow2[b] > h /\ (b = 0 \/ Pow2[b - 1] <= h)
    BY BitsFacts
  <2>4. Pow2[0] = 1 /\ Pow2[1] = 2
    BY SmallPowers
  <2>5. Pow2[b] \in Nat /\ Triangle(b) \in Nat /\ MaxHeight \in Nat
    BY Doubles, TriangleNext, MaxHeightType
  <2>6. Within(h, t, Triangle(b))
    <3>1. CASE h = 0
      <4>1. t = h
        BY <2>2, <3>1
      <4> QED
        BY <2>5, <4>1, WithinEnds
    <3>2. CASE h # 0
      <4>1. b # 0 /\ b >= 1 /\ b - 1 \in Nat /\ 1 \in 1..b /\ (b - 1) + 1 = b
        BY <2>2, <2>3, <2>4, <3>2
      <4>2. PICK T \in Nat : T = Triangle(b - 1) /\ Triangle(b) = T + b
        <5>1. Triangle(b - 1) \in Nat /\ Triangle((b - 1) + 1) = Triangle(b - 1) + (b - 1) + 1
          BY <4>1, TriangleNext
        <5> QED
          BY <4>1, <5>1
      <4>3. PICK a \in Nat : h = a * 2 \/ h = a * 2 + 1
        <5>1. h \div 2 \in Nat /\ (h = (h \div 2) * 2 \/ h = (h \div 2) * 2 + 1)
          BY <2>2
        <5> QED
          BY <5>1
      <4>4. CASE h = a * 2
        <5>1. Even(h, 1)
          BY <2>4, <4>4 DEF Even
        <5>2. b >= 2
          <6>1. h >= 2
            BY <3>2, <4>4
          <6>2. b # 1
            BY <2>2, <2>3, <2>4, <6>1
          <6> QED
            BY <4>1, <6>2
        <5>3. EvenDone(b, h)
          BY <2>3, <5>2, EvenWalk
        <5>4. Within(h, t, b - 1 + 1 + Triangle(b - 1))
          BY <2>2, <4>1, <5>1, <5>3 DEF EvenDone
        <5>5. b - 1 + 1 + T = Triangle(b)
          BY <4>2
        <5> QED
          BY <4>2, <5>4, <5>5
      <4>5. CASE h = a * 2 + 1
        <5>1. PICK x \in Nat : x = a * 2 /\ x + 1 = h
          BY <4>5
        <5>2. Even(x, 1)
          BY <2>4, <5>1 DEF Even
        <5>3. Even(0, b)
          BY ZeroIsEven
        <5>4. x \in 0..MaxHeight - 1 /\ 0 <= x /\ x < 0 + Pow2[b] /\ 0 <= t /\ t <= x + 1
          BY <2>2, <2>3, <2>5, <5>1
        <5>5. OddDone(b, x)
          BY <4>1, <5>4, AllNear, OddWalk
        <5>6. Within(h, t, OddBound(b, 1))
          BY <2>2, <4>1, <5>1, <5>2, <5>3, <5>4, <5>5 DEF OddDone
        <5>7. PICK n \in Nat : n = OddBound(b, 1) /\ n <= Triangle(b)
          <6>1. OddBound(b, 1) = 1 + (b - 1) \div 2 + T
            BY <4>2 DEF OddBound
          <6>2. (b - 1) \div 2 \in Nat /\ 1 + (b - 1) \div 2 <= b
            BY <4>1
          <6> QED
            BY <4>2, <6>1, <6>2
        <5> QED
          BY <2>5, <5>6, <5>7, WithinMore
      <4> QED
        BY <4>3, <4>4, <4>5
    <3> QED
      BY <3>1, <3>2
  <2>7. WalkTo(t)[h][e].rounds \in 0..Triangle(b)
    BY <2>1, <2>2, <2>6 DEF Within
  <2>8. Walk(e, t) = WalkTo(t)[h][e]
    BY <2>2 DEF Walk
  <2> QED
    BY <2>2, <2>3, <2>5, <2>7, <2>8
<1> QED
  BY <1>1, Invariance, PTL
==============================================================================
