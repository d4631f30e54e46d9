---------------------------- MODULE CommonProofs ----------------------------
(***************************************************************************)
(* Proofs about the classes of src/src/libs/common: ByteBuffer, for any    *)
(* texts, any words, a vector of any size and any number of items, and     *)
(* ArithUint, for any number of limbs and any width of a limb.             *)
(*                                                                         *)
(* ByteBuffer: what lies between the two positions is what has been        *)
(* written and not yet read, and it is read in the order it was written.   *)
(*                                                                         *)
(* ArithUint: a number is the sum of its limbs, each times its power of    *)
(* two.  A loop over limbs keeps that sum and its carry together; the      *)
(* operators are shown to compute the sums, products, shifts and quotients *)
(* of the numbers from that, and the forms of a number to agree.           *)
(***************************************************************************)
EXTENDS ByteBuffer, ArithUint, NaturalLemmas, SequenceTheorems, TLAPS

-----------------------------------------------------------------------------
(* Sequences of sequences *)

\* F holds the concatenations of the first sequences of s.
Flat(F, s) ==
    F = [i \in 1..Len(s) |-> IF i = 1 THEN s[i] ELSE F[i - 1] \o s[i]]

LEMMA FlatExists ==
    ASSUME NEW S, NEW s \in Seq(Seq(S))
    PROVE  \E F : Flat(F, s)
<1> DEFINE P(F, n) == F = [i \in 1..n |-> IF i = 1 THEN s[i] ELSE F[i - 1] \o s[i]]
           Bad == {n \in Nat : ~\E F : P(F, n)}
<1>1. Bad = {}
  <2> SUFFICES ASSUME Bad # {} PROVE FALSE
    OBVIOUS
  <2>1. PICK k \in Bad : \A z \in Bad : k <= z
    BY LeastNatural
  <2>2. k \in Nat /\ k # 0
    <3>1. P([i \in 1..0 |-> s[i]], 0)
      OBVIOUS
    <3>2. \E F : P(F, 0)
      BY <3>1
    <3>3. 0 \notin Bad
      BY <3>2, Zenon
    <3>4. k \in Nat
      OBVIOUS
    <3> HIDE DEF Bad
    <3> QED
      BY <3>3, <3>4
  <2>3. k - 1 \in Nat /\ k - 1 \notin Bad
    <3> HIDE DEF Bad
    <3> QED
      BY <2>1, <2>2
  <2>4. PICK F : P(F, k - 1)
    BY <2>3
  <2> DEFINE e == IF k = 1 THEN s[k] ELSE F[k - 1] \o s[k]
             G == [i \in 1..k |-> IF i = k THEN e ELSE F[i]]
  <2>5. ASSUME NEW i \in 1..k
        PROVE  G[i] = IF i = 1 THEN s[i] ELSE G[i - 1] \o s[i]
    <3>1. CASE i = k
      <4>1. G[i] = e
        BY <3>1
      <4>2. i # 1 => i - 1 \in 1..k /\ i - 1 # k
        BY <3>1, <2>2
      <4>3. i # 1 => G[i - 1] = F[i - 1]
        BY <4>2
      <4> QED
        BY <3>1, <4>1, <4>3
    <3>2. CASE i # k
      <4>1. i \in 1..k - 1
        BY <3>2
      <4>2. G[i] = F[i]
        BY <3>2
      <4>3. F[i] = IF i = 1 THEN s[i] ELSE F[i - 1] \o s[i]
        BY <4>1, <2>4
      <4>4. i # 1 => i - 1 \in 1..k /\ i - 1 # k
        BY <4>1
      <4>5. i # 1 => G[i - 1] = F[i - 1]
        BY <4>4
      <4> QED
        BY <4>2, <4>3, <4>5
    <3> QED
      BY <3>1, <3>2
  <2>6. P(G, k)
    <3>1. G = [i \in 1..k |-> G[i]]
      OBVIOUS
    <3> HIDE DEF G
    <3> QED
      BY <3>1, <2>5
  <2> QED
    BY <2>1, <2>6
<1>2. Len(s) \in Nat
  OBVIOUS
<1> QED
  BY <1>1, <1>2 DEF Flat

LEMMA FlatIs ==
    ASSUME NEW S, NEW s \in Seq(Seq(S)), s # <<>>
    PROVE  \E F : Flat(F, s) /\ FlattenSeq(s) = F[Len(s)]
<1>1. Len(s) # 0
  OBVIOUS
<1>2. \E F : Flat(F, s)
  BY FlatExists
<1> QED
  BY <1>1, <1>2, Zenon DEF FlattenSeq, Flat

\* What Flat says of the values.
LEMMA FlatValues ==
    ASSUME NEW S, NEW s \in Seq(Seq(S)), NEW F, Flat(F, s)
    PROVE  \A i \in 1..Len(s) : F[i] = IF i = 1 THEN s[i] ELSE F[i - 1] \o s[i]
  BY Zenon DEF Flat

\* Two of them agree as far as their sequences do.
LEMMA FlatAgree ==
    ASSUME NEW S, NEW s \in Seq(Seq(S)), NEW t \in Seq(Seq(S)), Len(s) <= Len(t),
           \A i \in 1..Len(s) : s[i] = t[i],
           NEW F, Flat(F, s), NEW G, Flat(G, t)
    PROVE  \A i \in 1..Len(s) : F[i] = G[i]
<1> DEFINE Bad == {n \in Nat : n \in 1..Len(s) /\ F[n] # G[n]}
<1> SUFFICES ASSUME Bad # {} PROVE FALSE
  <2>1. \A i \in 1..Len(s) : i \in Nat
    OBVIOUS
  <2> QED
    BY <2>1, Zenon
<1>1. PICK k \in Bad : \A z \in Bad : k <= z
  BY LeastNatural
<1>2. k \in 1..Len(s) /\ k \in 1..Len(t)
  OBVIOUS
<1>3. /\ F[k] = IF k = 1 THEN s[k] ELSE F[k - 1] \o s[k]
      /\ G[k] = IF k = 1 THEN t[k] ELSE G[k - 1] \o t[k]
  BY <1>2, FlatValues
<1>4. k # 1 => F[k - 1] = G[k - 1]
  <2>1. k # 1 => k - 1 \in Nat /\ k - 1 \in 1..Len(s) /\ ~(k <= k - 1)
    BY <1>2
  <2> QED
    BY <2>1, <1>1
<1> QED
  BY <1>2, <1>3, <1>4

\* Concatenations are sequences.
LEMMA FlatType ==
    ASSUME NEW S, NEW s \in Seq(Seq(S)), NEW F, Flat(F, s)
    PROVE  \A i \in 1..Len(s) : F[i] \in Seq(S)
<1> DEFINE Bad == {n \in Nat : n \in 1..Len(s) /\ F[n] \notin Seq(S)}
<1> SUFFICES ASSUME Bad # {} PROVE FALSE
  OBVIOUS
<1>1. PICK k \in Bad : \A z \in Bad : k <= z
  BY LeastNatural
<1>2. k \in 1..Len(s) /\ s[k] \in Seq(S)
  OBVIOUS
<1>3. F[k] = IF k = 1 THEN s[k] ELSE F[k - 1] \o s[k]
  BY <1>2, FlatValues
<1>4. k # 1 => F[k - 1] \in Seq(S)
  <2>1. k # 1 => k - 1 \in Nat /\ k - 1 \in 1..Len(s) /\ ~(k <= k - 1)
    BY <1>2
  <2> QED
    BY <2>1, <1>1
<1>5. k # 1 => F[k - 1] \o s[k] \in Seq(S)
  BY <1>2, <1>4, ConcatProperties
<1> QED
  BY <1>2, <1>3, <1>5

\* Concatenation of a longer sequence.
LEMMA FlattenAppend ==
    ASSUME NEW S, NEW s \in Seq(Seq(S)), NEW e \in Seq(S)
    PROVE  /\ FlattenSeq(s) \in Seq(S)
           /\ FlattenSeq(Append(s, e)) = FlattenSeq(s) \o e
<1> DEFINE t == Append(s, e)
<1>1. /\ t \in Seq(Seq(S)) /\ t # <<>> /\ Len(t) = Len(s) + 1 /\ t[Len(t)] = e
      /\ \A i \in 1..Len(s) : s[i] = t[i]
  BY AppendProperties
<1> HIDE DEF t
<1>2. PICK G : Flat(G, t) /\ FlattenSeq(t) = G[Len(t)]
  BY <1>1, FlatIs
<1>3. CASE s = <<>>
  <2>1. FlattenSeq(s) = <<>>
    BY <1>3 DEF FlattenSeq
  <2>2. Len(t) = 1
    BY <1>1, <1>3
  <2>3. \A i \in 1..Len(t) : G[i] = IF i = 1 THEN t[i] ELSE G[i - 1] \o t[i]
    BY <1>1, <1>2, FlatValues
  <2>4. G[1] = e
    BY <2>2, <2>3, <1>1
  <2> QED
    BY <2>1, <2>2, <2>4, <1>2, ConcatEmptySeq DEF t
<1>4. CASE s # <<>>
  <2>1. PICK F : Flat(F, s) /\ FlattenSeq(s) = F[Len(s)]
    BY <1>4, FlatIs
  <2>2. Len(s) \in 1..Len(s) /\ Len(t) \in 1..Len(t) /\ Len(t) # 1 /\ Len(t) - 1 = Len(s)
    BY <1>1, <1>4
  <2>3. G[Len(t)] = G[Len(s)] \o e
    <3>1. \A i \in 1..Len(t) : G[i] = IF i = 1 THEN t[i] ELSE G[i - 1] \o t[i]
      BY <1>1, <1>2, FlatValues
    <3> QED
      BY <3>1, <2>2, <1>1
  <2>4. F[Len(s)] = G[Len(s)]
    <3>1. Len(s) <= Len(t)
      BY <1>1
    <3> QED
      BY <3>1, <2>1, <2>2, <1>1, <1>2, FlatAgree, SMTT(30)
  <2>5. FlattenSeq(s) \in Seq(S)
    BY <2>1, <2>2, FlatType
  <2> QED
    BY <1>2, <2>1, <2>3, <2>4, <2>5 DEF t
<1> QED
  BY <1>3, <1>4

LEMMA ConcatShift ==
    \A S : \A a, b, c \in Seq(S) : \A v, w :
        v = a \o b /\ w = b \o c => v \o c = a \o w
  BY ConcatAssociative

\* The first sequence of a concatenation comes first.
LEMMA FlattenTail ==
    ASSUME NEW S, NEW s \in Seq(Seq(S)), s # <<>>
    PROVE  FlattenSeq(s) = Head(s) \o FlattenSeq(Tail(s))
<1> DEFINE Q(t) == FlattenSeq(t) = Head(t) \o FlattenSeq(Tail(t))
           Bad == {n \in Nat : \E t \in Seq(Seq(S)) : Len(t) = n + 1 /\ ~Q(t)}
<1>1. Bad = {}
  <2> SUFFICES ASSUME Bad # {} PROVE FALSE
    OBVIOUS
  <2>1. PICK k \in Bad : \A z \in Bad : k <= z
    BY LeastNatural
  <2>2. PICK t \in Seq(Seq(S)) : Len(t) = k + 1 /\ ~Q(t)
    BY <2>1, Zenon
  <2>3. k \in Nat
    OBVIOUS
  <2> HIDE DEF Bad
  <2>4. PICK u \in Seq(Seq(S)), e \in Seq(S) : t = Append(u, e)
    <3>1. t # <<>>
      BY <2>2, <2>3
    <3> QED
      BY <3>1, SequenceEmptyOrAppend
  <2>5. Len(u) = k /\ FlattenSeq(u) \in Seq(S) /\ FlattenSeq(t) = FlattenSeq(u) \o e
    <3>1. FlattenSeq(u) \in Seq(S) /\ FlattenSeq(t) = FlattenSeq(u) \o e
      BY <2>4, FlattenAppend, Zenon
    <3>2. Len(u) = k
      BY <2>2, <2>3, <2>4
    <3> QED
      BY <3>1, <3>2
  <2>6. CASE u = <<>>
    <3>1. Head(t) = e /\ Tail(t) = <<>>
      BY <2>4, <2>6, HeadTailAppend
    <3>2. FlattenSeq(<<>>) = <<>>
      BY DEF FlattenSeq
    <3>3. <<>> \o e = e /\ e \o <<>> = e
      BY ConcatEmptySeq, Zenon
    <3>4. Q(t)
      BY <3>1, <3>2, <3>3, <2>5, <2>6, Zenon
    <3> QED
      BY <3>4, <2>2
  <2>7. CASE u # <<>>
    <3>1. Head(t) = Head(u) /\ Tail(t) = Append(Tail(u), e)
      BY <2>4, <2>7, HeadTailAppend
    <3>2. Head(u) \in Seq(S) /\ Tail(u) \in Seq(Seq(S))
      BY <2>7
    <3>3. FlattenSeq(Tail(u)) \in Seq(S) /\ FlattenSeq(Tail(t)) = FlattenSeq(Tail(u)) \o e
      BY <3>1, <3>2, FlattenAppend
    <3>4. Q(u)
      <4>1. k # 0 /\ k - 1 \in Nat /\ ~(k <= k - 1) /\ Len(u) = (k - 1) + 1
        BY <2>3, <2>5, <2>7
      <4>2. k - 1 \notin Bad
        BY <4>1, <2>1
      <4> QED
        BY <4>1, <4>2, Zenon DEF Bad
    <3>5. FlattenSeq(u) \o e = Head(u) \o FlattenSeq(Tail(t))
      <4> DEFINE a == Head(u)
                 b == FlattenSeq(Tail(u))
                 v == FlattenSeq(u)
                 w == FlattenSeq(Tail(t))
      <4>1. a \in Seq(S) /\ b \in Seq(S) /\ v = a \o b /\ w = b \o e
        BY <3>2, <3>3, <3>4
      <4> HIDE DEF a, b, v, w
      <4>2. v \o e = a \o w
        <5>1. e \in Seq(S)
          OBVIOUS
        <5> QED
          BY <5>1, <4>1, ConcatShift, SMTT(90)
      <4> QED
        BY <4>2, Zenon DEF a, v, w
    <3>6. Q(t)
      BY <2>5, <3>1, <3>5, Zenon
    <3> QED
      BY <3>6, <2>2
  <2> QED
    BY <2>6, <2>7
<1>2. Len(s) - 1 \in Nat /\ Len(s) = (Len(s) - 1) + 1
  OBVIOUS
<1>3. Len(s) - 1 \notin Bad
  BY <1>1
<1> QED
  BY <1>2, <1>3, Zenon

-----------------------------------------------------------------------------
(* What is written *)

\* A number is its two bytes; a text is ASCII, without a zero, and one follows it.
LEMMA EncodeItem ==
    ASSUME NEW item \in Item
    PROVE  /\ Encode(item) \in Seq(Nat) /\ item.bytes \in Seq(Nat)
           /\ item.kind = "word" => Encode(item) = item.bytes /\ Len(Encode(item)) = 2
           /\ item.kind # "word" =>
                /\ item.kind = "string"
                /\ Len(Encode(item)) = Len(item.bytes) + 1
                /\ Encode(item)[Len(item.bytes) + 1] = NUL
                /\ \A i \in 1..Len(item.bytes) :
                     Encode(item)[i] = item.bytes[i] /\ item.bytes[i] \in Ascii
<1>1. CASE item \in [kind : {"word"}, bytes : Words]
  <2>1. item.kind = "word" /\ item.bytes \in Nat \X Nat
    BY <1>1, ByteBufferAssumption
  <2>2. PICK a \in Nat, b \in Nat : item.bytes = <<a, b>>
    BY <2>1
  <2>3. item.bytes \in Seq(Nat) /\ Len(item.bytes) = 2
    BY <2>2
  <2> QED
    BY <2>1, <2>3 DEF Encode
<1>2. CASE item \in [kind : {"string"}, bytes : Strings]
  <2>1. item.kind = "string" /\ item.bytes \in Seq(Ascii)
    BY <1>2, ByteBufferAssumption
  <2>2. item.bytes \in Seq(Nat) /\ \A i \in 1..Len(item.bytes) : item.bytes[i] \in Ascii
    <3>1. \A c \in Ascii : c \in Nat
      BY DEF Ascii
    <3> QED
      BY <2>1, <3>1
  <2>3. NUL \in Nat /\ Encode(item) = Append(item.bytes, NUL)
    BY <2>1 DEF NUL, Encode
  <2> QED
    BY <2>1, <2>2, <2>3, AppendProperties
<1> QED
  BY <1>1, <1>2 DEF Item

LEMMA EncodeAllEmpty == EncodeAll(<<>>) = <<>>
  BY DEF EncodeAll, FlattenSeq

LEMMA FunctionIsSeq ==
    ASSUME NEW T, NEW n \in Nat, NEW f \in [1..n -> T]
    PROVE  f \in Seq(T) /\ Len(f) = n
  OBVIOUS

Codes(items) == [i \in DOMAIN items |-> Encode(items[i])]

LEMMA CodesType ==
    ASSUME NEW items \in Seq(Item)
    PROVE  /\ Codes(items) \in Seq(Seq(Nat))
           /\ Len(Codes(items)) = Len(items)
           /\ \A i \in 1..Len(items) : Codes(items)[i] = Encode(items[i])
<1>1. /\ Len(items) \in Nat /\ DOMAIN items = 1..Len(items)
      /\ \A i \in 1..Len(items) : items[i] \in Item
  OBVIOUS
<1>2. \A i \in 1..Len(items) : Encode(items[i]) \in Seq(Nat)
  BY <1>1, EncodeItem, Zenon
<1>3. /\ Codes(items) \in [1..Len(items) -> Seq(Nat)]
      /\ \A i \in 1..Len(items) : Codes(items)[i] = Encode(items[i])
  BY <1>1, <1>2, Zenon DEF Codes
<1> QED
  BY <1>1, <1>3, FunctionIsSeq, Zenon

LEMMA EncodeAllType ==
    ASSUME NEW items \in Seq(Item)
    PROVE  EncodeAll(items) \in Seq(Nat)
<1>1. Codes(items) \in Seq(Seq(Nat)) /\ <<>> \in Seq(Nat)
  BY CodesType
<1>2. FlattenSeq(Codes(items)) \in Seq(Nat)
  BY <1>1, FlattenAppend, Zenon
<1> QED
  BY <1>2, Zenon DEF EncodeAll, Codes

LEMMA EncodeAllAppend ==
    ASSUME NEW items \in Seq(Item), NEW item \in Item
    PROVE  /\ EncodeAll(items) \in Seq(Nat)
           /\ EncodeAll(Append(items, item)) = EncodeAll(items) \o Encode(item)
<1> DEFINE t == Append(items, item)
           T == Seq(Nat)
<1>1. /\ t \in Seq(Item) /\ Len(t) = Len(items) + 1 /\ t[Len(items) + 1] = item
      /\ \A i \in 1..Len(items) : t[i] = items[i]
  BY AppendProperties
<1> HIDE DEF t
<1>2. /\ Codes(items) \in Seq(T) /\ Len(Codes(items)) = Len(items)
      /\ \A i \in 1..Len(items) : Codes(items)[i] = Encode(items[i])
  BY CodesType
<1>3. /\ Codes(t) \in Seq(T) /\ Len(Codes(t)) = Len(items) + 1
      /\ \A i \in 1..Len(items) + 1 : Codes(t)[i] = Encode(t[i])
  BY <1>1, CodesType
<1>4. Encode(item) \in T
  BY EncodeItem
<1>5. Codes(t) = Append(Codes(items), Encode(item))
  <2> HIDE DEF T
  <2>1. /\ Append(Codes(items), Encode(item)) \in Seq(T)
        /\ Len(Append(Codes(items), Encode(item))) = Len(items) + 1
    BY <1>2, <1>4
  <2>2. ASSUME NEW i \in 1..Len(items) + 1
        PROVE  Codes(t)[i] = Append(Codes(items), Encode(item))[i]
    BY <1>1, <1>2, <1>3, <1>4
  <2> QED
    BY <2>1, <2>2, <1>3, SeqEqual
<1>6. FlattenSeq(Codes(items)) \in Seq(Nat) /\ FlattenSeq(Codes(t)) = FlattenSeq(Codes(items)) \o Encode(item)
  BY <1>2, <1>4, <1>5, FlattenAppend, Zenon
<1> QED
  BY <1>6, Zenon DEF EncodeAll, Codes, t

LEMMA EncodeAllTail ==
    ASSUME NEW items \in Seq(Item), items # <<>>
    PROVE  EncodeAll(items) = Encode(Head(items)) \o EncodeAll(Tail(items))
<1> DEFINE t == Tail(items)
           T == Seq(Nat)
<1>1. t \in Seq(Item) /\ Len(t) = Len(items) - 1 /\ \A i \in 1..Len(t) : t[i] = items[i + 1]
  OBVIOUS
<1> HIDE DEF t
<1>2. /\ Codes(items) \in Seq(T) /\ Len(Codes(items)) = Len(items)
      /\ \A i \in 1..Len(items) : Codes(items)[i] = Encode(items[i])
  BY CodesType
<1>3. /\ Codes(t) \in Seq(T) /\ Len(Codes(t)) = Len(items) - 1
      /\ \A i \in 1..Len(items) - 1 : Codes(t)[i] = Encode(t[i])
  BY <1>1, CodesType
<1>4. Codes(items) # <<>> /\ Head(Codes(items)) = Encode(Head(items))
  <2> HIDE DEF T
  <2> QED
    BY <1>2
<1>5. Codes(t) = Tail(Codes(items))
  <2> HIDE DEF T
  <2>1. /\ Tail(Codes(items)) \in Seq(T)
        /\ Len(Tail(Codes(items))) = Len(items) - 1
    BY <1>2, <1>4
  <2>2. ASSUME NEW i \in 1..Len(items) - 1
        PROVE  Codes(t)[i] = Tail(Codes(items))[i]
    <3>1. i + 1 \in 1..Len(items) /\ i \in 1..Len(t) /\ i \in 1..Len(Tail(Codes(items)))
      BY <1>1, <2>1
    <3>2. Tail(Codes(items))[i] = Codes(items)[i + 1]
      BY <1>2, <1>4, <3>1, HeadTailProperties
    <3> QED
      BY <3>1, <3>2, <1>1, <1>2, <1>3, Zenon
  <2> QED
    BY <2>1, <2>2, <1>3, SeqEqual
<1>6. FlattenSeq(Codes(items)) = Encode(Head(items)) \o FlattenSeq(Codes(t))
  BY <1>2, <1>4, <1>5, FlattenTail, Zenon
<1> QED
  BY <1>6, Zenon DEF EncodeAll, Codes, t

-----------------------------------------------------------------------------
(* What the vector holds *)

\* append(): bytes in front of the write position stay, the new ones follow.
LEMMA WriteFacts ==
    ASSUME data \in Seq(Nat), NEW bytes \in Seq(Nat), NEW at \in Nat, at <= Len(data)
    PROVE  /\ Write(bytes, at) \in Seq(Nat)
           /\ Len(Write(bytes, at)) >= at + Len(bytes)
           /\ \A i \in 1..at : Write(bytes, at)[i] = data[i]
           /\ \A i \in 1..Len(bytes) : Write(bytes, at)[at + i] = bytes[i]
<1> DEFINE size == IF Len(data) < at + Len(bytes) THEN at + Len(bytes) ELSE Len(data)
           val(i) == IF i \in (at + 1)..(at + Len(bytes)) THEN bytes[i - at]
                     ELSE IF i <= Len(data) THEN data[i] ELSE NUL
           w == Write(bytes, at)
<1>1. /\ Len(bytes) \in Nat /\ Len(data) \in Nat
      /\ \A i \in 1..Len(bytes) : bytes[i] \in Nat
      /\ \A i \in 1..Len(data) : data[i] \in Nat
  OBVIOUS
<1>2. size \in Nat /\ size >= at + Len(bytes) /\ size >= Len(data)
  BY <1>1
<1>3. w = [i \in 1..size |-> val(i)]
  BY DEF Write
<1> HIDE DEF w, size
<1>4. \A i \in 1..size : w[i] = val(i)
  BY <1>3
<1>5. \A i \in 1..size : val(i) \in Nat
  <2> SUFFICES ASSUME NEW i \in 1..size PROVE val(i) \in Nat
    OBVIOUS
  <2>1. i \in (at + 1)..(at + Len(bytes)) => i - at \in 1..Len(bytes)
    BY <1>1, <1>2
  <2>2. i \in Nat /\ i >= 1
    BY <1>2
  <2> QED
    BY <1>1, <2>1, <2>2 DEF NUL
<1>6. w \in [1..size -> Nat]
  BY <1>3, <1>5
<1>7. w \in Seq(Nat) /\ Len(w) = size
  BY <1>2, <1>6, FunctionIsSeq
<1>8. ASSUME NEW i \in 1..at PROVE w[i] = data[i]
  <2>1. i \in 1..size /\ i <= Len(data) /\ ~(i \in (at + 1)..(at + Len(bytes)))
    BY <1>1, <1>2
  <2> QED
    BY <1>4, <2>1
<1>9. ASSUME NEW i \in 1..Len(bytes) PROVE w[at + i] = bytes[i]
  <2>1. at + i \in 1..size /\ at + i \in (at + 1)..(at + Len(bytes)) /\ (at + i) - at = i
    BY <1>1, <1>2
  <2> QED
    BY <1>4, <2>1
<1> QED
  BY <1>2, <1>7, <1>8, <1>9 DEF w

LEMMA PartFacts ==
    ASSUME NEW d \in Seq(Nat), NEW m \in Nat, NEW n \in Nat, m <= n, n <= Len(d)
    PROVE  /\ SubSeq(d, m + 1, n) \in Seq(Nat)
           /\ Len(SubSeq(d, m + 1, n)) = n - m
           /\ \A i \in 1..n - m : SubSeq(d, m + 1, n)[i] = d[m + i]
<1>1. \A i \in m + 1..n : d[i] \in Nat
  OBVIOUS
<1>2. /\ SubSeq(d, m + 1, n) \in Seq(Nat)
      /\ Len(SubSeq(d, m + 1, n)) = IF m + 1 <= n THEN n - (m + 1) + 1 ELSE 0
      /\ \A i \in 1..n - (m + 1) + 1 : SubSeq(d, m + 1, n)[i] = d[(m + 1) + i - 1]
  BY <1>1, SubSeqProperties
<1> QED
  BY <1>2

\* The part behind the read position grows by what is written.
LEMMA WritePart ==
    ASSUME data \in Seq(Nat), NEW bytes \in Seq(Nat), NEW at \in Nat, at <= Len(data),
           NEW from \in Nat, from <= at
    PROVE  SubSeq(Write(bytes, at), from + 1, at + Len(bytes))
           = SubSeq(data, from + 1, at) \o bytes
<1> DEFINE w == Write(bytes, at)
           n == at + Len(bytes)
           l == SubSeq(w, from + 1, n)
           p == SubSeq(data, from + 1, at)
<1>1. /\ w \in Seq(Nat) /\ Len(w) >= n
      /\ \A i \in 1..at : w[i] = data[i]
      /\ \A i \in 1..Len(bytes) : w[at + i] = bytes[i]
  BY WriteFacts
<1>2. n \in Nat /\ from <= n /\ n <= Len(w) /\ Len(bytes) \in Nat
  BY <1>1
<1> HIDE DEF w
<1>3. l \in Seq(Nat) /\ Len(l) = n - from /\ \A i \in 1..n - from : l[i] = w[from + i]
  BY <1>1, <1>2, PartFacts
<1>4. p \in Seq(Nat) /\ Len(p) = at - from /\ \A i \in 1..at - from : p[i] = data[from + i]
  BY PartFacts
<1> HIDE DEF l, p
<1>5. /\ p \o bytes \in Seq(Nat) /\ Len(p \o bytes) = n - from
      /\ \A i \in 1..n - from : (p \o bytes)[i] = IF i <= at - from THEN p[i] ELSE bytes[i - (at - from)]
  <2>1. /\ p \o bytes \in Seq(Nat) /\ Len(p \o bytes) = Len(p) + Len(bytes)
        /\ \A i \in 1..Len(p) + Len(bytes) : (p \o bytes)[i] =
              IF i <= Len(p) THEN p[i] ELSE bytes[i - Len(p)]
    BY <1>4, ConcatProperties
  <2>2. Len(p) + Len(bytes) = n - from
    BY <1>2, <1>4
  <2> HIDE DEF n
  <2> QED
    BY <2>1, <2>2, <1>4
<1>6. ASSUME NEW i \in 1..n - from PROVE l[i] = (p \o bytes)[i]
  <2>1. CASE i <= at - from
    <3>1. i \in 1..at - from /\ from + i \in 1..at
      BY <2>1, <1>2
    <3> HIDE DEF n
    <3> QED
      BY <2>1, <3>1, <1>1, <1>3, <1>4, <1>5
  <2>2. CASE ~(i <= at - from)
    <3>1. i - (at - from) \in 1..Len(bytes) /\ at + (i - (at - from)) = from + i
      BY <2>2, <1>2
    <3> QED
      BY <2>2, <3>1, <1>1, <1>3, <1>5
  <2> QED
    BY <2>1, <2>2
<1>7. l = p \o bytes
  BY <1>3, <1>5, <1>6, SeqEqual
<1> QED
  BY <1>7 DEF l, p, w, n

-----------------------------------------------------------------------------
(* The inductive invariant *)

BufferTypeOK ==
    /\ data \in Seq(Nat) /\ rpos \in Nat /\ wpos \in Nat
    /\ unread \in Seq(Item)

BufferInv == BufferTypeOK /\ ContentIsUnread

\* The next item lies right behind the read position, the rest behind it.
LEMMA NextItem ==
    ASSUME BufferInv, unread # <<>>
    PROVE  LET code == Encode(Head(unread))
               end  == rpos + Len(code)
           IN  /\ end \in Nat /\ end <= wpos
               /\ \A i \in 1..Len(code) : data[rpos + i] = code[i]
               /\ SubSeq(data, end + 1, wpos) = EncodeAll(Tail(unread))
<1> DEFINE code == Encode(Head(unread))
           end  == rpos + Len(code)
           rest == EncodeAll(Tail(unread))
           l == SubSeq(data, rpos + 1, wpos)
           r == SubSeq(data, end + 1, wpos)
<1>1. /\ data \in Seq(Nat) /\ rpos \in Nat /\ wpos \in Nat /\ rpos <= wpos /\ wpos <= Len(data)
      /\ unread \in Seq(Item) /\ l = EncodeAll(unread)
  BY DEF BufferInv, BufferTypeOK, ContentIsUnread
<1>2. Head(unread) \in Item /\ Tail(unread) \in Seq(Item)
  BY <1>1
<1>3. code \in Seq(Nat) /\ Len(code) \in Nat
  BY <1>2, EncodeItem
<1>4. rest \in Seq(Nat) /\ Len(rest) \in Nat
  <2>1. rest \in Seq(Nat)
    BY <1>2, EncodeAllType, Zenon
  <2> HIDE DEF rest
  <2> QED
    BY <2>1
<1>5. l = code \o rest
  BY <1>1, EncodeAllTail
<1> HIDE DEF code, rest
<1>6. Len(l) = wpos - rpos /\ \A i \in 1..wpos - rpos : l[i] = data[rpos + i]
  BY <1>1, PartFacts
<1> HIDE DEF l
<1>7. /\ Len(l) = Len(code) + Len(rest)
      /\ \A i \in 1..Len(code) + Len(rest) :
            l[i] = IF i <= Len(code) THEN code[i] ELSE rest[i - Len(code)]
  BY <1>3, <1>4, <1>5, ConcatProperties
<1>8. end \in Nat /\ end <= wpos /\ wpos - end = Len(rest)
  <2>1. PICK c \in Nat : c = Len(code)
    BY <1>3
  <2>2. PICK d \in Nat : d = Len(rest)
    BY <1>4
  <2>3. c + d = wpos - rpos
    BY <2>1, <2>2, <1>6, <1>7, Zenon
  <2>4. rpos + c \in Nat /\ rpos + c <= wpos /\ wpos - (rpos + c) = d
    BY <2>3, <1>1
  <2> QED
    BY <2>1, <2>2, <2>4
<1>9. ASSUME NEW i \in 1..Len(code) PROVE data[rpos + i] = code[i]
  <2>1. i \in 1..wpos - rpos /\ i \in 1..Len(code) + Len(rest) /\ i <= Len(code)
    BY <1>1, <1>3, <1>4, <1>6, <1>7
  <2> QED
    BY <2>1, <1>6, <1>7
<1>10. r \in Seq(Nat) /\ Len(r) = wpos - end /\ \A i \in 1..wpos - end : r[i] = data[end + i]
  <2> HIDE DEF end
  <2> QED
    BY <1>1, <1>8, PartFacts
<1> HIDE DEF r
<1>11. ASSUME NEW i \in 1..Len(rest) PROVE r[i] = rest[i]
  <2>1. /\ i \in 1..wpos - end
        /\ Len(code) + i \in 1..wpos - rpos /\ Len(code) + i \in 1..Len(code) + Len(rest)
        /\ ~(Len(code) + i <= Len(code)) /\ (Len(code) + i) - Len(code) = i
        /\ rpos + (Len(code) + i) = end + i
    BY <1>1, <1>3, <1>4, <1>6, <1>7, <1>8, SMTT(30)
  <2> QED
    BY <2>1, <1>6, <1>7, <1>10
<1>12. r = rest
  BY <1>4, <1>8, <1>10, <1>11, SeqEqual
<1> QED
  BY <1>8, <1>9, <1>12 DEF code, rest, r

\* Nothing unread, nothing between the positions.
LEMMA NothingUnread ==
    ASSUME BufferInv, unread = <<>>
    PROVE  rpos = wpos /\ Length = 0
<1>1. /\ data \in Seq(Nat) /\ rpos \in Nat /\ wpos \in Nat /\ rpos <= wpos /\ wpos <= Len(data)
      /\ SubSeq(data, rpos + 1, wpos) = <<>>
  BY EncodeAllEmpty DEF BufferInv, BufferTypeOK, ContentIsUnread
<1>2. Len(SubSeq(data, rpos + 1, wpos)) = wpos - rpos
  BY <1>1, PartFacts
<1> QED
  BY <1>1, <1>2 DEF Length

\* The last item lies right in front of the write position.
LEMMA LastItem ==
    ASSUME BufferInv, unread # <<>>
    PROVE  LET at == wpos - Len(Encode(Last(unread)))
           IN  /\ Last(unread) \in Item /\ Front(unread) \in Seq(Item)
               /\ at \in Nat /\ rpos <= at /\ at <= Len(data)
               /\ SubSeq(data, rpos + 1, at) = EncodeAll(Front(unread))
<1> DEFINE u == Front(unread)
           e == Last(unread)
           code == Encode(e)
           front == EncodeAll(u)
           at == wpos - Len(code)
           l == SubSeq(data, rpos + 1, wpos)
           r == SubSeq(data, rpos + 1, at)
<1>1. /\ data \in Seq(Nat) /\ rpos \in Nat /\ wpos \in Nat /\ rpos <= wpos /\ wpos <= Len(data)
      /\ unread \in Seq(Item) /\ l = EncodeAll(unread)
  BY DEF BufferInv, BufferTypeOK, ContentIsUnread
<1>2. e \in Item /\ u \in Seq(Item) /\ unread = Append(u, e)
  <2>1. PICK v \in Seq(Item), f \in Item : unread = Append(v, f)
    BY <1>1, SequenceEmptyOrAppend
  <2>2. e = f
    BY <2>1 DEF Last
  <2>3. u = v
    <3>1. u = SubSeq(unread, 1, Len(v))
      BY <2>1 DEF Front
    <3>2. \A i \in 1..Len(v) : unread[i] = v[i]
      BY <2>1
    <3>3. \A i \in 1..Len(v) : unread[i] \in Item
      BY <3>2
    <3>4. /\ u \in Seq(Item) /\ Len(u) = Len(v)
          /\ \A i \in 1..Len(v) : u[i] = unread[i]
      BY <3>1, <3>3, SubSeqProperties
    <3> HIDE DEF u
    <3> QED
      BY <3>2, <3>4, SeqEqual
  <2> QED
    BY <2>1, <2>2, <2>3
<1> HIDE DEF u, e
<1>3. code \in Seq(Nat) /\ Len(code) \in Nat
  BY <1>2, EncodeItem
<1>4. front \in Seq(Nat)
  BY <1>2, EncodeAllType, Zenon
<1>5. l = front \o code
  BY <1>1, <1>2, EncodeAllAppend
<1> HIDE DEF code, front
<1>6. Len(l) = wpos - rpos /\ \A i \in 1..wpos - rpos : l[i] = data[rpos + i]
  BY <1>1, PartFacts
<1> HIDE DEF l
<1>7. /\ Len(l) = Len(front) + Len(code)
      /\ \A i \in 1..Len(front) + Len(code) :
            l[i] = IF i <= Len(front) THEN front[i] ELSE code[i - Len(front)]
  BY <1>3, <1>4, <1>5, ConcatProperties
<1>8. PICK d \in Nat : d = Len(front)
  BY <1>4
<1>9. at \in Nat /\ rpos <= at /\ at <= Len(data) /\ at - rpos = d /\ d <= wpos - rpos
  <2>1. PICK c \in Nat : c = Len(code)
    BY <1>3
  <2>2. d + c = wpos - rpos
    BY <2>1, <1>6, <1>7, <1>8, Zenon
  <2>3. /\ wpos - c \in Nat /\ rpos <= wpos - c /\ wpos - c <= Len(data)
        /\ (wpos - c) - rpos = d /\ d <= wpos - rpos
    BY <2>2, <1>1
  <2> QED
    BY <2>1, <2>3
<1>10. r \in Seq(Nat) /\ Len(r) = d /\ \A i \in 1..d : r[i] = data[rpos + i]
  <2> HIDE DEF at
  <2>1. Len(r) = at - rpos /\ r \in Seq(Nat) /\ \A i \in 1..at - rpos : r[i] = data[rpos + i]
    BY <1>1, <1>9, PartFacts
  <2> HIDE DEF r
  <2> QED
    BY <2>1, <1>9
<1> HIDE DEF r
<1>11. ASSUME NEW i \in 1..d PROVE r[i] = front[i]
  <2>1. i \in 1..wpos - rpos /\ i <= d
    BY <1>1, <1>9
  <2> QED
    BY <2>1, <1>6, <1>7, <1>8, <1>10
<1>12. r = front
  BY <1>4, <1>8, <1>10, <1>11, SeqEqual
<1> QED
  BY <1>2, <1>9, <1>12 DEF u, e, code, front, at, r

\* A read of a number, which throws if there is none.
LEMMA WordFacts ==
    ASSUME BufferInv, MayRead("word")
    PROVE  WordRead = IF unread = <<>> THEN <<>> ELSE Encode(Head(unread))
<1>1. data \in Seq(Nat) /\ rpos \in Nat /\ wpos \in Nat /\ unread \in Seq(Item) /\ wpos <= Len(data)
  BY DEF BufferInv, BufferTypeOK, ContentIsUnread
<1>2. CASE unread = <<>>
  BY <1>2, NothingUnread DEF WordRead, WordSize
<1>3. CASE unread # <<>>
  <2> DEFINE code == Encode(Head(unread))
  <2>1. Head(unread) \in Item /\ Head(unread).kind = "word"
    BY <1>1, <1>3 DEF MayRead
  <2>2. code \in Seq(Nat) /\ Len(code) = 2
    BY <2>1, EncodeItem
  <2>3. rpos + 2 <= wpos /\ \A i \in 1..2 : data[rpos + i] = code[i]
    BY <1>3, <2>2, NextItem
  <2> HIDE DEF code
  <2>4. Length >= 2 /\ rpos + 2 <= Len(data)
    BY <1>1, <2>3 DEF Length
  <2>5. WordRead = SubSeq(data, rpos + 1, rpos + 2)
    BY <1>1, <2>4 DEF WordRead, WordSize, Length
  <2>6. /\ WordRead \in Seq(Nat) /\ Len(WordRead) = 2
        /\ \A i \in 1..2 : WordRead[i] = data[rpos + i]
    <3>1. /\ SubSeq(data, rpos + 1, rpos + 2) \in Seq(Nat)
          /\ Len(SubSeq(data, rpos + 1, rpos + 2)) = (rpos + 2) - rpos
          /\ \A i \in 1..(rpos + 2) - rpos : SubSeq(data, rpos + 1, rpos + 2)[i] = data[rpos + i]
      BY <1>1, <2>4, PartFacts
    <3>2. (rpos + 2) - rpos = 2
      BY <1>1
    <3> QED
      BY <2>5, <3>1, <3>2
  <2>7. WordRead = code
    BY <2>2, <2>3, <2>6, SeqEqual
  <2> QED
    BY <1>3, <2>7 DEF code
<1> QED
  BY <1>2, <1>3

\* A read of a text: it stops at the zero that ends the first item.
LEMMA StringFacts ==
    ASSUME BufferInv, MayRead("string")
    PROVE  /\ StringRead = IF unread = <<>> THEN <<>> ELSE Head(unread).bytes
           /\ StringEnd = IF unread = <<>> THEN rpos ELSE rpos + Len(Encode(Head(unread)))
<1> DEFINE stops == {n \in 0..Length : n = Length \/ data[rpos + n + 1] \notin Ascii}
<1>1. /\ data \in Seq(Nat) /\ rpos \in Nat /\ wpos \in Nat /\ unread \in Seq(Item)
      /\ rpos <= wpos /\ wpos <= Len(data)
  BY DEF BufferInv, BufferTypeOK, ContentIsUnread
<1>2. Length = wpos - rpos /\ Length \in Nat
  BY <1>1 DEF Length
<1>3. ASSUME NEW m \in stops, \A n \in stops : m <= n
      PROVE  StringLength = m
  <2> DEFINE IsLeast(z) == z \in stops /\ \A n \in stops : z <= n
  <2>1. \A z \in stops : z \in Nat
    BY <1>2
  <2>2. StringLength = CHOOSE z : IsLeast(z)
    BY Zenon DEF StringLength, Min
  <2>3. \E z : IsLeast(z)
    BY <1>3
  <2>4. IsLeast(StringLength)
    BY <2>2, <2>3, Zenon
  <2> HIDE DEF stops
  <2>5. StringLength \in Nat /\ m \in Nat /\ StringLength <= m /\ m <= StringLength
    BY <1>3, <2>1, <2>4
  <2> HIDE DEF IsLeast
  <2> QED
    BY <2>5
<1>4. CASE unread = <<>>
  <2>1. rpos = wpos /\ Length = 0
    BY <1>4, NothingUnread
  <2>2. 0 \in stops /\ \A n \in stops : 0 <= n
    BY <2>1
  <2>3. StringLength = 0
    BY <1>3, <2>2
  <2> QED
    BY <1>1, <1>4, <2>1, <2>3 DEF StringRead, StringEnd
<1>5. CASE unread # <<>>
  <2> DEFINE item == Head(unread)
             code == Encode(item)
             m    == Len(item.bytes)
  <2>1. item \in Item /\ item.kind = "string"
    BY <1>1, <1>5 DEF MayRead
  <2>2. /\ item.bytes \in Seq(Nat) /\ Len(code) = m + 1 /\ code[m + 1] = NUL
        /\ \A i \in 1..m : code[i] = item.bytes[i] /\ item.bytes[i] \in Ascii
    BY <2>1, EncodeItem
  <2>3. rpos + Len(code) <= wpos /\ \A i \in 1..Len(code) : data[rpos + i] = code[i]
    BY <1>5, NextItem
  <2> HIDE DEF item, code
  <2>4. m \in Nat
    BY <2>2
  <2>5. m < Length /\ rpos + m <= Len(data)
    BY <1>1, <1>2, <2>2, <2>3, <2>4
  <2>6. /\ data[rpos + m + 1] \notin Ascii
        /\ \A i \in 1..m : data[rpos + i] = item.bytes[i] /\ data[rpos + i] \in Ascii
    <3> HIDE DEF m
    <3>1. m + 1 \in 1..Len(code) /\ rpos + (m + 1) = rpos + m + 1
      BY <1>1, <2>2, <2>4
    <3>2. \A i \in 1..m : i \in 1..Len(code)
      BY <2>2, <2>4
    <3>3. NUL \notin Ascii
      BY DEF NUL, Ascii
    <3> QED
      BY <2>2, <2>3, <3>1, <3>2, <3>3
  <2> HIDE DEF m
  <2>7. m \in stops /\ \A n \in stops : m <= n
    <3>1. m \in stops
      BY <1>2, <2>4, <2>5, <2>6
    <3>2. ASSUME NEW n \in stops, n < m PROVE FALSE
      <4>1. n \in Nat /\ n # Length /\ n + 1 \in 1..m /\ rpos + (n + 1) = rpos + n + 1
        BY <1>1, <1>2, <2>4, <2>5, <3>2
      <4>2. data[rpos + n + 1] \notin Ascii
        BY <4>1
      <4> QED
        BY <4>1, <4>2, <2>6
    <3>3. \A n \in stops : n \in Nat
      BY <1>2
    <3> HIDE DEF stops
    <3> QED
      BY <2>4, <3>1, <3>2, <3>3
  <2>8. StringLength = m
    BY <1>3, <2>7
  <2>9. StringEnd = rpos + Len(code)
    BY <1>1, <2>2, <2>4, <2>5, <2>8 DEF StringEnd
  <2>10. StringRead = SubSeq(data, rpos + 1, rpos + m)
    BY <2>8 DEF StringRead
  <2>11. /\ StringRead \in Seq(Nat) /\ Len(StringRead) = m
         /\ \A i \in 1..m : StringRead[i] = data[rpos + i]
    <3>1. /\ SubSeq(data, rpos + 1, rpos + m) \in Seq(Nat)
          /\ Len(SubSeq(data, rpos + 1, rpos + m)) = (rpos + m) - rpos
          /\ \A i \in 1..(rpos + m) - rpos : SubSeq(data, rpos + 1, rpos + m)[i] = data[rpos + i]
      <4>1. rpos + m \in Nat /\ rpos <= rpos + m
        BY <1>1, <2>4
      <4> QED
        BY <4>1, <1>1, <2>5, PartFacts
    <3>2. (rpos + m) - rpos = m
      BY <1>1, <2>4
    <3> QED
      BY <2>10, <3>1, <3>2
  <2>12. StringRead = item.bytes
    <3>1. Len(item.bytes) = m
      BY DEF m
    <3>2. \A i \in 1..m : StringRead[i] = item.bytes[i]
      BY <2>6, <2>11
    <3> QED
      BY <3>1, <3>2, <2>2, <2>11, SeqEqual
  <2> QED
    BY <1>5, <2>9, <2>12 DEF item, code
<1> QED
  BY <1>4, <1>5

-----------------------------------------------------------------------------
(* Every operation keeps the invariant *)

LEMMA InitInv == Init => BufferInv
<1> SUFFICES ASSUME Init PROVE BufferInv
  OBVIOUS
<1>1. data \in Seq(Nat) /\ Len(data) \in Nat
  <2>1. CASE data = <<>>
    BY <2>1
  <2>2. CASE data = [i \in 1..BufferSize |-> NUL]
    <3>1. data \in [1..BufferSize -> Nat] /\ BufferSize \in Nat
      BY <2>2, ByteBufferAssumption DEF NUL
    <3> QED
      BY <3>1, FunctionIsSeq
  <2> QED
    BY <2>1, <2>2 DEF Init
<1>2. rpos = 0 /\ wpos = 0 /\ unread = <<>>
  BY DEF Init
<1>3. SubSeq(data, rpos + 1, wpos) = <<>>
  BY <1>2, SubSeqEmpty
<1> QED
  <2>1. <<>> \in Seq(Item)
    OBVIOUS
  <2>2. SubSeq(data, rpos + 1, wpos) = EncodeAll(unread)
    BY <1>2, <1>3, EncodeAllEmpty
  <2> QED
    BY <2>1, <2>2, <1>1, <1>2 DEF BufferInv, BufferTypeOK, ContentIsUnread

LEMMA AppendItemInv ==
    ASSUME BufferInv, NEW item \in Item, AppendItem(item)
    PROVE  BufferInv'
<1> DEFINE code == Encode(item)
<1>1. /\ data \in Seq(Nat) /\ rpos \in Nat /\ wpos \in Nat /\ rpos <= wpos /\ wpos <= Len(data)
      /\ unread \in Seq(Item) /\ SubSeq(data, rpos + 1, wpos) = EncodeAll(unread)
  BY DEF BufferInv, BufferTypeOK, ContentIsUnread
<1>2. code \in Seq(Nat) /\ Len(code) \in Nat
  BY EncodeItem
<1>3. /\ data' = Write(code, wpos) /\ wpos' = wpos + Len(code)
      /\ unread' = Append(unread, item) /\ rpos' = rpos
  BY DEF AppendItem
<1> HIDE DEF code
<1>4. data' \in Seq(Nat) /\ Len(data') >= wpos + Len(code)
  BY <1>1, <1>2, <1>3, WriteFacts
<1>5. SubSeq(data', rpos + 1, wpos + Len(code)) = EncodeAll(unread) \o code
  BY <1>1, <1>2, <1>3, WritePart
<1>6. EncodeAll(unread') = EncodeAll(unread) \o code
  BY <1>1, <1>3, EncodeAllAppend DEF code
<1>7. unread' \in Seq(Item)
  BY <1>1, <1>3
<1>8. /\ wpos' \in Nat /\ rpos' \in Nat /\ rpos' <= wpos' /\ wpos' <= Len(data')
  BY <1>1, <1>2, <1>3, <1>4
<1>9. SubSeq(data', rpos' + 1, wpos') = EncodeAll(unread')
  BY <1>3, <1>5, <1>6
<1> QED
  BY <1>4, <1>7, <1>8, <1>9 DEF BufferInv, BufferTypeOK, ContentIsUnread

LEMMA RewriteLastInv ==
    ASSUME BufferInv, NEW item \in Item, RewriteLast(item)
    PROVE  BufferInv'
<1> DEFINE code == Encode(item)
           at == wpos - Len(code)
           u == Front(unread)
<1>1. /\ data \in Seq(Nat) /\ rpos \in Nat /\ wpos \in Nat
  BY DEF BufferInv, BufferTypeOK
<1>2. /\ unread # <<>> /\ Last(unread).kind = "word" /\ item.kind = "word"
      /\ data' = Write(code, at) /\ wpos' = at + Len(code)
      /\ unread' = Append(u, item) /\ rpos' = rpos
  BY DEF RewriteLast
<1>3. code \in Seq(Nat) /\ Len(code) = 2
  BY <1>2, EncodeItem
<1>4. Last(unread) \in Item
  BY <1>2, LastItem
<1>5. Len(Encode(Last(unread))) = 2
  BY <1>2, <1>4, EncodeItem
<1>6. /\ u \in Seq(Item) /\ at \in Nat /\ rpos <= at /\ at <= Len(data)
      /\ SubSeq(data, rpos + 1, at) = EncodeAll(u)
  BY <1>2, <1>3, <1>5, LastItem
<1> HIDE DEF code, at, u
<1>7. data' \in Seq(Nat) /\ Len(data') >= at + Len(code)
  BY <1>1, <1>2, <1>3, <1>6, WriteFacts
<1>8. SubSeq(data', rpos + 1, at + Len(code)) = EncodeAll(u) \o code
  BY <1>1, <1>2, <1>3, <1>6, WritePart
<1>9. EncodeAll(unread') = EncodeAll(u) \o code
  BY <1>2, <1>6, EncodeAllAppend DEF code
<1>10. unread' \in Seq(Item)
  BY <1>2, <1>6
<1>11. wpos' \in Nat /\ rpos' \in Nat /\ rpos' <= wpos' /\ wpos' <= Len(data')
  BY <1>1, <1>2, <1>3, <1>6, <1>7
<1>12. SubSeq(data', rpos' + 1, wpos') = EncodeAll(unread')
  BY <1>2, <1>8, <1>9
<1> QED
  BY <1>7, <1>10, <1>11, <1>12 DEF BufferInv, BufferTypeOK, ContentIsUnread

LEMMA ClearInv ==
    ASSUME BufferInv, NEW clearData \in BOOLEAN, Clear(clearData)
    PROVE  BufferInv'
<1>1. data \in Seq(Nat)
  BY DEF BufferInv, BufferTypeOK
<1>2. data' \in Seq(Nat) /\ rpos' = 0 /\ wpos' = 0 /\ unread' = <<>>
  BY <1>1 DEF Clear
<1>3. SubSeq(data', rpos' + 1, wpos') = <<>>
  BY <1>2, SubSeqEmpty
<1> QED
  <2>1. <<>> \in Seq(Item) /\ Len(data') >= 0
    BY <1>2
  <2>2. SubSeq(data', rpos' + 1, wpos') = EncodeAll(unread')
    BY <1>2, <1>3, EncodeAllEmpty
  <2> QED
    BY <2>1, <2>2, <1>2 DEF BufferInv, BufferTypeOK, ContentIsUnread

LEMMA ReceiveInv ==
    ASSUME BufferInv, NEW items \in Packets, Receive(items)
    PROVE  BufferInv'
<1> DEFINE bytes == EncodeAll(items)
<1>1. data \in Seq(Nat)
  BY DEF BufferInv, BufferTypeOK
<1>2. items \in Seq(Item)
  <2>1. PICK n \in 1..MaxItems : items \in [1..n -> Item]
    BY DEF Packets
  <2>2. n \in Nat
    BY <2>1, ByteBufferAssumption
  <2> QED
    BY <2>1, <2>2, FunctionIsSeq
<1>3. bytes \in Seq(Nat)
  BY <1>2, EncodeAllType, Zenon
<1> HIDE DEF bytes
<1>0. SubSeq(Write(bytes, 0), 0 + 1, 0 + Len(bytes)) = SubSeq(data, 0 + 1, 0) \o bytes
  <2>1. 0 \in Nat /\ 0 <= Len(data)
    BY <1>1
  <2> QED
    BY <2>1, <1>1, <1>3, WritePart, SMTT(30)
<1> SUFFICES ASSUME Len(bytes) < Len(data) PROVE BufferInv'
  <2>1. ~(Len(bytes) < Len(data)) => UNCHANGED <<data, rpos, wpos, unread>>
    BY DEF Receive, bytes
  <2> QED
    BY <2>1 DEF BufferInv, BufferTypeOK, ContentIsUnread
<1>4. data' = Write(bytes, 0) /\ rpos' = 0 /\ wpos' = Len(bytes) /\ unread' = items
  BY DEF Receive, bytes
<1>5. data' \in Seq(Nat) /\ Len(data') >= 0 + Len(bytes)
  BY <1>1, <1>3, <1>4, WriteFacts
<1>6. SubSeq(data', 0 + 1, 0 + Len(bytes)) = SubSeq(data, 0 + 1, 0) \o bytes
  BY <1>0, <1>4
<1>7. SubSeq(data, 0 + 1, 0) \o bytes = bytes
  <2>1. SubSeq(data, 0 + 1, 0) = <<>>
    BY SubSeqEmpty
  <2> QED
    BY <2>1, <1>3, ConcatEmptySeq
<1>8. Len(bytes) \in Nat
  BY <1>3
<1>9. SubSeq(data', rpos' + 1, wpos') = EncodeAll(unread')
  <2>1. 0 + Len(bytes) = Len(bytes)
    BY <1>8
  <2> QED
    BY <2>1, <1>4, <1>6, <1>7 DEF bytes
<1>10. rpos' \in Nat /\ wpos' \in Nat /\ rpos' <= wpos' /\ wpos' <= Len(data')
  BY <1>4, <1>5, <1>8
<1> QED
  BY <1>2, <1>4, <1>5, <1>9, <1>10 DEF BufferInv, BufferTypeOK, ContentIsUnread

\* A reader moves over the item whose turn it is, or not at all.
LEMMA ReadInv ==
    ASSUME BufferInv,
           rpos' = IF unread = <<>> THEN rpos ELSE rpos + Len(Encode(Head(unread))),
           unread' = IF unread = <<>> THEN <<>> ELSE Tail(unread),
           data' = data, wpos' = wpos
    PROVE  BufferInv'
<1>1. data \in Seq(Nat) /\ rpos \in Nat /\ wpos \in Nat /\ unread \in Seq(Item) /\ wpos <= Len(data)
  BY DEF BufferInv, BufferTypeOK, ContentIsUnread
<1>2. CASE unread = <<>>
  BY <1>2 DEF BufferInv, BufferTypeOK, ContentIsUnread
<1>3. CASE unread # <<>>
  <2> DEFINE end == rpos + Len(Encode(Head(unread)))
  <2>1. rpos' = end /\ unread' = Tail(unread) /\ unread' \in Seq(Item)
    BY <1>1, <1>3
  <2>2. end \in Nat /\ end <= wpos /\ SubSeq(data, end + 1, wpos) = EncodeAll(Tail(unread))
    BY <1>3, NextItem
  <2> HIDE DEF end
  <2> QED
    BY <1>1, <2>1, <2>2 DEF BufferInv, BufferTypeOK, ContentIsUnread
<1> QED
  BY <1>2, <1>3

LEMMA ReadWordInv ==
    ASSUME BufferInv, ReadWord
    PROVE  BufferInv'
<1>1. /\ MayRead("word") /\ rpos' = rpos + Len(WordRead) /\ data' = data /\ wpos' = wpos
      /\ unread' = IF unread = <<>> THEN <<>> ELSE Tail(unread)
  BY DEF ReadWord
<1>2. WordRead = IF unread = <<>> THEN <<>> ELSE Encode(Head(unread))
  BY <1>1, WordFacts
<1>3. rpos' = IF unread = <<>> THEN rpos ELSE rpos + Len(Encode(Head(unread)))
  BY <1>1, <1>2 DEF BufferInv, BufferTypeOK
<1> QED
  BY <1>1, <1>3, ReadInv

LEMMA ReadStringInv ==
    ASSUME BufferInv, ReadString
    PROVE  BufferInv'
<1>1. /\ MayRead("string") /\ rpos' = StringEnd /\ data' = data /\ wpos' = wpos
      /\ unread' = IF unread = <<>> THEN <<>> ELSE Tail(unread)
  BY DEF ReadString
<1>2. rpos' = IF unread = <<>> THEN rpos ELSE rpos + Len(Encode(Head(unread)))
  BY <1>1, StringFacts
<1> QED
  BY <1>1, <1>2, ReadInv

LEMMA BufferStep == BufferInv /\ [Next]_vars => BufferInv'
<1> SUFFICES ASSUME BufferInv, [Next]_vars PROVE BufferInv'
  OBVIOUS
<1>1. ASSUME NEW item \in Item, AppendItem(item) PROVE BufferInv'
  BY <1>1, AppendItemInv
<1>2. ASSUME NEW item \in Item, RewriteLast(item) PROVE BufferInv'
  BY <1>2, RewriteLastInv
<1>3. ASSUME NEW clearData \in BOOLEAN, Clear(clearData) PROVE BufferInv'
  BY <1>3, ClearInv
<1>4. ASSUME NEW items \in Packets, Receive(items) PROVE BufferInv'
  BY <1>4, ReceiveInv
<1>5. CASE ReadWord
  BY <1>5, ReadWordInv
<1>6. CASE ReadString
  BY <1>6, ReadStringInv
<1>7. CASE UNCHANGED vars
  BY <1>7 DEF vars, BufferInv, BufferTypeOK, ContentIsUnread
<1> QED
  BY <1>1, <1>2, <1>3, <1>4, <1>5, <1>6, <1>7, Zenon DEF Next

LEMMA BufferInvariant == Spec => []BufferInv
  BY InitInv, BufferStep, PTL DEF Spec

-----------------------------------------------------------------------------
(* The theorems *)

\* What ByteBuffer holds between its positions is what was written and not yet
\* read, in any order of writes, reads, clears, rewrites of the end and datagrams
\* received into the old bytes.
THEOREM BufferHoldsUnread == Spec => []ContentIsUnread
<1>1. BufferInv => ContentIsUnread
  BY DEF BufferInv
<1> QED
  BY <1>1, BufferInvariant, PTL

\* operator>> gives the items in the order operator<< has written them; a text ends
\* at its own zero; on an empty buffer a number is refused and a text is empty.
THEOREM BufferReadsInOrder == Spec => []ReadsInOrder
<1>1. BufferInv => ReadsInOrder
  <2> SUFFICES ASSUME BufferInv PROVE ReadsInOrder
    OBVIOUS
  <2>1. MayRead("string") => StringRead = IF unread = <<>> THEN <<>> ELSE Head(unread).bytes
    BY StringFacts
  <2>2. ASSUME MayRead("word")
        PROVE  WordRead = IF unread = <<>> THEN <<>> ELSE Head(unread).bytes
    <3>1. WordRead = IF unread = <<>> THEN <<>> ELSE Encode(Head(unread))
      BY <2>2, WordFacts
    <3>2. unread # <<>> => Head(unread) \in Item /\ Head(unread).kind = "word"
      BY <2>2 DEF MayRead, BufferInv, BufferTypeOK
    <3>3. unread # <<>> => Encode(Head(unread)) = Head(unread).bytes
      BY <3>2, EncodeItem
    <3> QED
      BY <3>1, <3>3
  <2> QED
    BY <2>1, <2>2 DEF ReadsInOrder
<1> QED
  BY <1>1, BufferInvariant, PTL

-----------------------------------------------------------------------------
(* Recursive functions *)

\* F is given up to n by its first value and a step.
Recursive(F, S, z, stp, n) ==
    /\ F \in [0..n -> S] /\ F[0] = z
    /\ \A i \in 1..n : F[i] = stp[<<i, F[i - 1]>>]

LEMMA RecursionExists ==
    ASSUME NEW S, NEW z \in S, NEW stp \in [Nat \X S -> S], NEW n \in Nat
    PROVE  \E F : Recursive(F, S, z, stp, n)
<1> DEFINE Bad == {k \in Nat : ~\E F : Recursive(F, S, z, stp, k)}
<1> SUFFICES ASSUME Bad # {} PROVE FALSE
  OBVIOUS
<1>1. PICK k \in Bad : \A m \in Bad : k <= m
  BY LeastNatural
<1>2. k \in Nat /\ ~\E F : Recursive(F, S, z, stp, k)
  OBVIOUS
<1>3. k # 0
  <2>1. Recursive([i \in 0..0 |-> z], S, z, stp, 0)
    BY DEF Recursive
  <2> QED
    BY <1>2, <2>1
<1>4. \E F : Recursive(F, S, z, stp, k - 1)
  <2>1. k - 1 \in Nat /\ ~(k <= k - 1)
    BY <1>2, <1>3
  <2> QED
    BY <1>1, <2>1
<1> HIDE DEF Bad
<1>5. PICK F : Recursive(F, S, z, stp, k - 1)
  BY <1>4
<1> DEFINE G == [i \in 0..k |-> IF i = k THEN stp[<<k, F[k - 1]>>] ELSE F[i]]
<1>6. /\ F \in [0..k - 1 -> S] /\ F[0] = z
      /\ \A i \in 1..k - 1 : F[i] = stp[<<i, F[i - 1]>>]
  BY <1>5 DEF Recursive
<1>7. k - 1 \in 0..k - 1
  BY <1>2, <1>3
<1>8. stp[<<k, F[k - 1]>>] \in S
  BY <1>2, <1>6, <1>7
<1>9. \A i \in 0..k : i # k => i \in 0..k - 1
  BY <1>2
<1>10. G \in [0..k -> S]
  BY <1>6, <1>8, <1>9
<1>11. G[0] = z
  BY <1>2, <1>3, <1>6
<1>12. ASSUME NEW i \in 1..k PROVE G[i] = stp[<<i, G[i - 1]>>]
  <2>1. i \in 0..k /\ i - 1 \in 0..k /\ i - 1 # k /\ (i # k => i \in 1..k - 1)
    BY <1>2
  <2>2. G[i - 1] = F[i - 1]
    BY <2>1
  <2>3. G[i] = IF i = k THEN stp[<<k, F[k - 1]>>] ELSE F[i]
    BY <2>1
  <2> HIDE DEF G
  <2> QED
    BY <1>6, <2>1, <2>2, <2>3
<1> HIDE DEF G
<1>13. Recursive(G, S, z, stp, k)
  BY <1>10, <1>11, <1>12 DEF Recursive
<1> QED
  BY <1>2, <1>13

-----------------------------------------------------------------------------
(* Numbers and their digits *)

\* The sums of the first digits.
Sums(F, d, bits, n) ==
    F = [k \in 0..n |-> IF k = 0 THEN 0 ELSE F[k - 1] + d[k - 1] * Pow2[(k - 1) * bits]]

LEMMA PowType ==
    ASSUME NEW i \in Nat, NEW bits \in Nat
    PROVE  i * bits \in Nat /\ Pow2[i * bits] \in Nat /\ Pow2[i * bits] > 0
<1>1. i * bits \in Nat
  OBVIOUS
<1> QED
  BY <1>1, Pow2Positive

LEMMA SumsExist ==
    ASSUME NEW bits \in Nat, NEW n \in Nat, NEW d, \A i \in 0..n - 1 : d[i] \in Nat
    PROVE  \E F : F \in [0..n -> Nat] /\ Sums(F, d, bits, n)
<1> DEFINE term(i) == d[i] * Pow2[i * bits]
           stp == [p \in Nat \X Nat |-> IF p[1] \in 1..n THEN p[2] + term(p[1] - 1) ELSE 0]
<1>1. ASSUME NEW i \in 0..n - 1 PROVE term(i) \in Nat
  <2>1. i \in Nat /\ d[i] \in Nat /\ Pow2[i * bits] \in Nat
    BY PowType
  <2> QED
    BY <2>1
<1>2. \A i \in 1..n : i - 1 \in 0..n - 1
  OBVIOUS
<1> HIDE DEF term
<1>3. stp \in [Nat \X Nat -> Nat]
  BY <1>1, <1>2
<1>4. \A i \in 1..n : \A v \in Nat : stp[<<i, v>>] = v + term(i - 1)
  OBVIOUS
<1> HIDE DEF stp
<1>5. PICK F : Recursive(F, Nat, 0, stp, n)
  BY <1>3, RecursionExists
<1>6. /\ F \in [0..n -> Nat] /\ F[0] = 0
      /\ \A i \in 1..n : F[i] = stp[<<i, F[i - 1]>>]
  BY <1>5 DEF Recursive
<1>7. \A i \in 1..n : F[i - 1] \in Nat
  BY <1>6
<1>8. \A i \in 1..n : F[i] = F[i - 1] + term(i - 1)
  BY <1>4, <1>6, <1>7
<1>9. \A i \in 0..n : F[i] = IF i = 0 THEN 0 ELSE F[i - 1] + term(i - 1)
  BY <1>6, <1>8
<1>10. F = [k \in 0..n |-> IF k = 0 THEN 0 ELSE F[k - 1] + term(k - 1)]
  BY <1>6, <1>9
<1> QED
  BY <1>6, <1>10, Zenon DEF Sums, term

LEMMA FromDigitsIs ==
    ASSUME NEW bits \in Nat, NEW n \in Nat, NEW d, \A i \in 0..n - 1 : d[i] \in Nat
    PROVE  \E F : Sums(F, d, bits, n) /\ FromDigits(d, bits, n) = F[n]
<1>1. \E F : Sums(F, d, bits, n)
  BY SumsExist
<1> QED
  BY <1>1, Zenon DEF FromDigits, Sums

LEMMA SumsValues ==
    ASSUME NEW bits \in Nat, NEW n \in Nat, NEW d, NEW F, Sums(F, d, bits, n)
    PROVE  /\ F[0] = 0
           /\ \A k \in 0..n : F[k] = IF k = 0 THEN 0 ELSE F[k - 1] + d[k - 1] * Pow2[(k - 1) * bits]
<1>1. \A k \in 0..n : F[k] = IF k = 0 THEN 0 ELSE F[k - 1] + d[k - 1] * Pow2[(k - 1) * bits]
  BY Zenon DEF Sums
<1>2. 0 \in 0..n
  OBVIOUS
<1> QED
  BY <1>1, <1>2

\* Sums of the same digits agree.
LEMMA SumsAgree ==
    ASSUME NEW bits \in Nat, NEW n \in Nat, NEW m \in Nat, n <= m, NEW d, NEW e,
           \A i \in 0..n - 1 : d[i] = e[i],
           NEW F, Sums(F, d, bits, n), NEW G, Sums(G, e, bits, m)
    PROVE  F[n] = G[n]
<1> DEFINE Bad == {k \in Nat : k <= n /\ F[k] # G[k]}
<1>1. Bad = {}
  <2> SUFFICES ASSUME Bad # {} PROVE FALSE
    OBVIOUS
  <2>1. PICK k \in Bad : \A z \in Bad : k <= z
    BY LeastNatural
  <2>2. k \in Nat /\ k \in 0..n /\ k \in 0..m /\ F[k] # G[k]
    OBVIOUS
  <2>3. F[0] = 0 /\ G[0] = 0
    BY SumsValues
  <2>4. k # 0
    BY <2>2, <2>3
  <2>5. /\ F[k] = F[k - 1] + d[k - 1] * Pow2[(k - 1) * bits]
        /\ G[k] = G[k - 1] + e[k - 1] * Pow2[(k - 1) * bits]
    BY <2>2, <2>4, SumsValues
  <2>6. k - 1 \in Nat /\ k - 1 <= n /\ ~(k <= k - 1) /\ k - 1 \in 0..n - 1
    BY <2>2, <2>4
  <2>7. F[k - 1] = G[k - 1]
    BY <2>1, <2>6
  <2> QED
    BY <2>2, <2>5, <2>6, <2>7
<1> QED
  BY <1>1

\* The number that no digits stand for, and one digit more.
LEMMA FromDigitsZero ==
    ASSUME NEW bits \in Nat, NEW d
    PROVE  FromDigits(d, bits, 0) = 0
<1>1. \A i \in 0..0 - 1 : d[i] \in Nat
  OBVIOUS
<1>2. PICK F : Sums(F, d, bits, 0) /\ FromDigits(d, bits, 0) = F[0]
  BY <1>1, FromDigitsIs
<1> QED
  BY <1>2, SumsValues

LEMMA FromDigitsStep ==
    ASSUME NEW bits \in Nat, NEW n \in Nat, NEW d, \A i \in 0..n : d[i] \in Nat
    PROVE  FromDigits(d, bits, n + 1) = FromDigits(d, bits, n) + d[n] * Pow2[n * bits]
<1>1. /\ n + 1 \in Nat /\ \A i \in 0..(n + 1) - 1 : d[i] \in Nat
      /\ \A i \in 0..n - 1 : d[i] \in Nat
  OBVIOUS
<1>2. PICK G : Sums(G, d, bits, n + 1) /\ FromDigits(d, bits, n + 1) = G[n + 1]
  BY <1>1, FromDigitsIs
<1>3. PICK F : Sums(F, d, bits, n) /\ FromDigits(d, bits, n) = F[n]
  BY <1>1, FromDigitsIs
<1>4. F[n] = G[n]
  <2>1. n <= n + 1 /\ \A i \in 0..n - 1 : d[i] = d[i]
    OBVIOUS
  <2> QED
    BY <1>1, <1>2, <1>3, <2>1, SumsAgree
<1>5. G[n + 1] = G[(n + 1) - 1] + d[(n + 1) - 1] * Pow2[((n + 1) - 1) * bits]
  <2>1. n + 1 \in 0..n + 1 /\ n + 1 # 0
    OBVIOUS
  <2>2. \A k \in 0..n + 1 : G[k] = IF k = 0 THEN 0 ELSE G[k - 1] + d[k - 1] * Pow2[(k - 1) * bits]
    BY <1>1, <1>2, SumsValues
  <2> QED
    BY <2>1, <2>2
<1>6. (n + 1) - 1 = n
  OBVIOUS
<1> QED
  BY <1>2, <1>3, <1>4, <1>5, <1>6

LEMMA FromDigitsType ==
    ASSUME NEW bits \in Nat, NEW n \in Nat, NEW d, \A i \in 0..n - 1 : d[i] \in Nat
    PROVE  FromDigits(d, bits, n) \in Nat
<1> DEFINE Bad == {k \in Nat : k <= n /\ FromDigits(d, bits, k) \notin Nat}
<1>1. Bad = {}
  <2> SUFFICES ASSUME Bad # {} PROVE FALSE
    OBVIOUS
  <2>1. PICK k \in Bad : \A z \in Bad : k <= z
    BY LeastNatural
  <2>2. k \in Nat /\ k <= n /\ FromDigits(d, bits, k) \notin Nat
    OBVIOUS
  <2>3. k # 0
    BY <2>2, FromDigitsZero
  <2>4. k - 1 \in Nat /\ k - 1 \in 0..n - 1 /\ ~(k <= k - 1) /\ (k - 1) + 1 = k
    BY <2>2, <2>3
  <2>5. FromDigits(d, bits, k - 1) \in Nat
    BY <2>1, <2>4
  <2>6. \A i \in 0..k - 1 : d[i] \in Nat
    BY <2>2
  <2>7. FromDigits(d, bits, (k - 1) + 1) = FromDigits(d, bits, k - 1) + d[k - 1] * Pow2[(k - 1) * bits]
    BY <2>4, <2>6, FromDigitsStep
  <2>8. d[k - 1] \in Nat /\ Pow2[(k - 1) * bits] \in Nat
    BY <2>4, PowType
  <2> HIDE DEF Bad
  <2> QED
    BY <2>2, <2>4, <2>5, <2>7, <2>8
<1> QED
  BY <1>1

\* Only the digits count.
LEMMA FromDigitsSame ==
    ASSUME NEW bits \in Nat, NEW n \in Nat, NEW d, NEW e,
           \A i \in 0..n - 1 : d[i] \in Nat /\ d[i] = e[i]
    PROVE  FromDigits(d, bits, n) = FromDigits(e, bits, n)
<1>1. PICK F : Sums(F, d, bits, n) /\ FromDigits(d, bits, n) = F[n]
  BY FromDigitsIs, ZenonT(30)
<1>2. PICK G : Sums(G, e, bits, n) /\ FromDigits(e, bits, n) = G[n]
  <2>1. \A i \in 0..n - 1 : e[i] \in Nat
    OBVIOUS
  <2> QED
    BY <2>1, FromDigitsIs, ZenonT(30)
<1>3. F[n] = G[n]
  <2>1. n <= n
    OBVIOUS
  <2> QED
    BY <1>1, <1>2, <2>1, SumsAgree
<1> QED
  BY <1>1, <1>2, <1>3

\* Induction up to n.
LEMMA UpTo ==
    ASSUME NEW S, NEW n \in Nat, 0 \in S, \A k \in 0..n - 1 : k \in S => k + 1 \in S
    PROVE  n \in S
<1> DEFINE Bad == {k \in Nat : k <= n /\ k \notin S}
<1>1. Bad = {}
  <2> SUFFICES ASSUME Bad # {} PROVE FALSE
    OBVIOUS
  <2>1. PICK k \in Bad : \A z \in Bad : k <= z
    BY LeastNatural
  <2>2. k \in Nat /\ k <= n /\ k \notin S
    OBVIOUS
  <2>3. k # 0
    BY <2>2
  <2>4. k - 1 \in Nat /\ k - 1 \in 0..n - 1 /\ ~(k <= k - 1) /\ (k - 1) + 1 = k
    BY <2>2, <2>3
  <2>5. k - 1 \in S
    BY <2>1, <2>4
  <2> HIDE DEF Bad
  <2> QED
    BY <2>2, <2>4, <2>5
<1> QED
  BY <1>1

LEMMA PowSplit ==
    ASSUME NEW bits \in Nat, NEW m \in Nat, NEW n \in Nat
    PROVE  Pow2[(m + n) * bits] = Pow2[m * bits] * Pow2[n * bits]
<1>1. (m + n) * bits = m * bits + n * bits /\ m * bits \in Nat /\ n * bits \in Nat
  OBVIOUS
<1> QED
  BY <1>1, Pow2Sum

LEMMA PowNext ==
    ASSUME NEW bits \in Nat, NEW n \in Nat
    PROVE  Pow2[(n + 1) * bits] = Pow2[n * bits] * Pow2[bits]
<1>1. (n + 1) * bits = n * bits + bits /\ n * bits \in Nat
  OBVIOUS
<1> QED
  BY <1>1, Pow2Sum

\* The digits below Pow2[bits] make a number below Pow2[n * bits].
LEMMA FromDigitsBound ==
    ASSUME NEW bits \in Nat, NEW n \in Nat, NEW d, \A i \in 0..n - 1 : d[i] \in 0..Pow2[bits] - 1
    PROVE  FromDigits(d, bits, n) \in Nat /\ FromDigits(d, bits, n) < Pow2[n * bits]
<1>0. Pow2[bits] \in Nat /\ Pow2[bits] > 0
  BY Pow2Positive
<1>1. \A i \in 0..n - 1 : d[i] \in Nat /\ d[i] + 1 <= Pow2[bits]
  BY <1>0
<1> DEFINE S == {k \in Nat : FromDigits(d, bits, k) < Pow2[k * bits]}
<1>2. 0 \in S
  <2>1. Pow2[0 * bits] > 0 /\ FromDigits(d, bits, 0) = 0
    BY PowType, FromDigitsZero
  <2> QED
    BY <2>1
<1>3. ASSUME NEW k \in 0..n - 1, k \in S PROVE k + 1 \in S
  <2>1. PICK v \in Nat : v = FromDigits(d, bits, k)
    <3>1. k \in Nat /\ \A i \in 0..k - 1 : d[i] \in Nat
      BY <1>1
    <3> QED
      BY <3>1, FromDigitsType
  <2>2. PICK p \in Nat : p = Pow2[k * bits] /\ p > 0
    BY PowType
  <2>3. FromDigits(d, bits, k + 1) = v + d[k] * p
    <3>1. k \in Nat /\ \A i \in 0..k : d[i] \in Nat
      BY <1>1
    <3> QED
      BY <3>1, <2>1, <2>2, FromDigitsStep
  <2>4. Pow2[(k + 1) * bits] = p * Pow2[bits]
    BY <2>2, PowNext, SMTT(30)
  <2>5. v < p
    BY <1>3, <2>1, <2>2
  <2>6. d[k] \in Nat /\ d[k] + 1 <= Pow2[bits]
    BY <1>1
  <2>7. (d[k] + 1) * p <= Pow2[bits] * p
    BY <2>2, <2>6, <1>0, TimesMono
  <2>8. v + d[k] * p < p * Pow2[bits]
    <3>1. PICK x \in Nat : x = d[k]
      BY <2>6
    <3>2. PICK q \in Nat : q = Pow2[bits]
      BY <1>0
    <3>3. (x + 1) * p <= q * p
      BY <2>7, <3>1, <3>2
    <3>4. (x + 1) * p = x * p + p /\ q * p = p * q
      BY <2>2
    <3>5. v + x * p < p * q
      BY <2>5, <3>3, <3>4
    <3> QED
      BY <3>1, <3>2, <3>5
  <2>9. k + 1 \in Nat
    OBVIOUS
  <2> QED
    BY <2>3, <2>4, <2>8, <2>9
<1> HIDE DEF S
<1>4. n \in S
  BY <1>2, <1>3, UpTo
<1> QED
  BY <1>1, <1>4, FromDigitsType DEF S

\* e is n digits of d from the digit m on.
Part(e, d, m, n) == \A i \in 0..n - 1 : e[i] = d[m + i]

\* The high digits follow the low ones.
LEMMA FromDigitsSplit ==
    ASSUME NEW bits \in Nat, NEW m \in Nat, NEW n \in Nat, NEW l \in Nat, l = m + n, NEW d, NEW e,
           \A i \in 0..l - 1 : d[i] \in Nat,
           Part(e, d, m, n)
    PROVE  FromDigits(d, bits, l) = FromDigits(d, bits, m) + Pow2[m * bits] * FromDigits(e, bits, n)
<1>0. \A i \in 0..n - 1 : e[i] = d[m + i] /\ e[i] \in Nat
  BY DEF Part
<1> DEFINE S == {k \in Nat : FromDigits(d, bits, m + k)
                     = FromDigits(d, bits, m) + Pow2[m * bits] * FromDigits(e, bits, k)}
<1>1. PICK p \in Nat : p = Pow2[m * bits]
  BY PowType
<1>2. PICK u \in Nat : u = FromDigits(d, bits, m)
  <2>1. \A i \in 0..m - 1 : d[i] \in Nat
    OBVIOUS
  <2> QED
    BY <2>1, FromDigitsType
<1>3. 0 \in S
  BY <1>1, <1>2, FromDigitsZero
<1>4. ASSUME NEW k \in 0..n - 1, k \in S PROVE k + 1 \in S
  <2>0. k \in Nat /\ m + k \in Nat /\ m + (k + 1) = (m + k) + 1 /\ k + 1 \in Nat
    OBVIOUS
  <2>1. PICK w \in Nat : w = FromDigits(e, bits, k)
    <3>1. \A i \in 0..k - 1 : e[i] \in Nat
      BY <1>0
    <3> QED
      BY <2>0, <3>1, FromDigitsType
  <2>2. FromDigits(d, bits, m + k) = u + p * w
    BY <1>1, <1>2, <1>4, <2>1
  <2>3. PICK x \in Nat : x = e[k] /\ x = d[m + k]
    BY <1>0
  <2>4. PICK q \in Nat : q = Pow2[k * bits]
    BY <2>0, PowType
  <2>5. Pow2[(m + k) * bits] = p * q
    BY <2>0, <1>1, <2>4, PowSplit
  <2>6. FromDigits(d, bits, (m + k) + 1) = (u + p * w) + x * (p * q)
    <3>1. \A i \in 0..m + k : d[i] \in Nat
      OBVIOUS
    <3> QED
      BY <3>1, <2>0, <2>2, <2>3, <2>5, FromDigitsStep
  <2>7. FromDigits(e, bits, k + 1) = w + x * q
    <3>1. \A i \in 0..k : e[i] \in Nat
      BY <1>0
    <3>2. FromDigits(e, bits, k + 1) = FromDigits(e, bits, k) + e[k] * Pow2[k * bits]
      BY <3>1, <2>0, FromDigitsStep
    <3> QED
      BY <2>1, <2>3, <2>4, <3>2
  <2>8. (u + p * w) + x * (p * q) = u + p * (w + x * q)
    OBVIOUS
  <2> QED
    BY <1>1, <1>2, <2>0, <2>6, <2>7, <2>8
<1> HIDE DEF S
<1>5. n \in S
  BY <1>3, <1>4, UpTo
<1> QED
  BY <1>5 DEF S

\* Sums and multiples, digit by digit.
LEMMA FromDigitsPlus ==
    ASSUME NEW bits \in Nat, NEW n \in Nat, NEW d, NEW e, NEW f, NEW w \in Nat,
           \A i \in 0..n - 1 : d[i] \in Nat /\ e[i] \in Nat /\ f[i] = d[i] + w * e[i]
    PROVE  FromDigits(f, bits, n) = FromDigits(d, bits, n) + w * FromDigits(e, bits, n)
<1>0. \A i \in 0..n - 1 : f[i] \in Nat
  OBVIOUS
<1> DEFINE S == {k \in Nat : FromDigits(f, bits, k)
                     = FromDigits(d, bits, k) + w * FromDigits(e, bits, k)}
<1>1. 0 \in S
  BY FromDigitsZero
<1>2. ASSUME NEW k \in 0..n - 1, k \in S PROVE k + 1 \in S
  <2>0. k \in Nat /\ k + 1 \in Nat /\ \A i \in 0..k : d[i] \in Nat /\ e[i] \in Nat /\ f[i] \in Nat
    BY <1>0
  <2>1. PICK u \in Nat : u = FromDigits(d, bits, k)
    <3>1. \A i \in 0..k - 1 : d[i] \in Nat
      BY <2>0
    <3> QED
      BY <2>0, <3>1, FromDigitsType
  <2>2. PICK v \in Nat : v = FromDigits(e, bits, k)
    <3>1. \A i \in 0..k - 1 : e[i] \in Nat
      BY <2>0
    <3> QED
      BY <2>0, <3>1, FromDigitsType
  <2>3. PICK q \in Nat : q = Pow2[k * bits]
    BY <2>0, PowType
  <2>4. PICK x \in Nat : x = d[k]
    BY <2>0
  <2>5. PICK z \in Nat : z = e[k]
    BY <2>0
  <2>6. FromDigits(d, bits, k + 1) = u + x * q
    BY <2>0, <2>1, <2>3, <2>4, FromDigitsStep
  <2>7. FromDigits(e, bits, k + 1) = v + z * q
    BY <2>0, <2>2, <2>3, <2>5, FromDigitsStep
  <2>8. f[k] = x + w * z
    BY <2>4, <2>5
  <2>9. FromDigits(f, bits, k) = u + w * v
    BY <1>2, <2>1, <2>2
  <2>10. FromDigits(f, bits, k + 1) = (u + w * v) + (x + w * z) * q
    BY <2>0, <2>3, <2>8, <2>9, FromDigitsStep
  <2>11. (u + w * v) + (x + w * z) * q = (u + x * q) + w * (v + z * q)
    OBVIOUS
  <2> QED
    BY <2>0, <2>6, <2>7, <2>10, <2>11
<1> HIDE DEF S
<1>3. n \in S
  BY <1>1, <1>2, UpTo
<1> QED
  BY <1>3 DEF S

-----------------------------------------------------------------------------
(* Remainders *)

LEMMA IntDivFacts ==
    ASSUME NEW x \in Int, NEW y \in Nat, y > 0
    PROVE  x \div y \in Int /\ x % y \in Nat /\ x % y < y /\ x = (x \div y) * y + (x % y)
  OBVIOUS

LEMMA ModIs ==
    ASSUME NEW x \in Int, NEW k \in Int, NEW r \in Nat, NEW y \in Nat, r < y, x = k * y + r
    PROVE  x % y = r
<1>1. PICK q \in Int, m \in Nat : m = x % y /\ m < y /\ x = q * y + m
  BY IntDivFacts
<1>2. PICK e \in Int : e = k - q
  OBVIOUS
<1>3. e * y = m - r
  <2>1. k * y - q * y = m - r
    <3>1. PICK u \in Int, v \in Int : u = k * y /\ v = q * y
      OBVIOUS
    <3>2. u + r = v + m
      BY <1>1, <3>1
    <3>3. u - v = m - r
      BY <3>2
    <3> QED
      BY <3>1, <3>3
  <2>2. (k - q) * y = k * y - q * y
    OBVIOUS
  <2> QED
    BY <1>2, <2>1, <2>2
<1>4. e = 0
  <2>1. CASE e >= 1
    <3>1. e * y >= y
      BY <2>1
    <3> QED
      BY <1>1, <1>3, <3>1
  <2>2. CASE e <= -1
    <3>1. e * y <= -y
      BY <2>2
    <3> QED
      BY <1>1, <1>3, <3>1
  <2> QED
    BY <2>1, <2>2
<1>5. m = r
  BY <1>3, <1>4
<1> QED
  BY <1>1, <1>5

LEMMA ModShift ==
    ASSUME NEW x \in Int, NEW z \in Int, NEW k \in Int, NEW y \in Nat, y > 0, x = z + k * y
    PROVE  x % y = z % y
<1>1. PICK q \in Int, m \in Nat : m = z % y /\ m < y /\ z = q * y + m
  BY IntDivFacts
<1>2. PICK j \in Int : x = j * y + m
  <2>1. (q + k) * y = q * y + k * y /\ q + k \in Int
    OBVIOUS
  <2>2. PICK u \in Int, v \in Int : u = k * y /\ v = q * y
    OBVIOUS
  <2>3. x = (v + u) + m
    BY <1>1, <2>2
  <2>4. x = (q + k) * y + m
    BY <2>1, <2>2, <2>3
  <2> QED
    BY <2>1, <2>4
<1>3. x % y = m
  <2>1. m < y
    BY <1>1
  <2> QED
    BY <1>2, <2>1, ModIs, Zenon
<1> QED
  BY <1>1, <1>3, Zenon

Congruent(x, z, y) == \E k \in Int : x = z + k * y

LEMMA CongruentMod ==
    ASSUME NEW x \in Int, NEW z \in Int, NEW y \in Nat, y > 0, Congruent(x, z, y)
    PROVE  x % y = z % y
<1>1. PICK k \in Int : x = z + k * y
  BY DEF Congruent
<1> QED
  BY <1>1, ModShift, ZenonT(30)

-----------------------------------------------------------------------------
(* Limbs *)

Num == [Index -> 0..Limb - 1]

\* The sizes of things.
LEMMA SizeFacts ==
    /\ WIDTH \in Nat /\ WIDTH >= 2 /\ LimbBytes \in Nat /\ LimbBytes >= 1
    /\ DigitBits \in Nat /\ DigitBits >= 1 /\ ByteBits \in Nat /\ ByteBits = 2 * DigitBits
    /\ LimbBits \in Nat /\ LimbBits >= 2
    /\ Limb \in Nat /\ Limb >= 4 /\ Limb = Pow2[LimbBits]
    /\ Size \in Nat /\ Size > 0 /\ Size = Pow2[WIDTH * LimbBits]
<1>1. /\ WIDTH \in Nat /\ WIDTH >= 2 /\ LimbBytes \in Nat /\ LimbBytes >= 1
      /\ DigitBits \in Nat /\ DigitBits >= 1
  BY ArithAssumption
<1>2. ByteBits \in Nat /\ ByteBits = 2 * DigitBits /\ ByteBits >= 2
  BY <1>1 DEF ByteBits
<1>3. LimbBits \in Nat /\ LimbBits >= 2
  BY <1>1, <1>2 DEF LimbBits
<1>4. Pow2[2] = 4
  <2>1. 0 \in Nat /\ 1 \in Nat /\ 0 + 1 = 1 /\ 1 + 1 = 2
    OBVIOUS
  <2>2. Pow2[1] = 2
    BY <2>1, Pow2Def
  <2> QED
    BY <2>1, <2>2, Pow2Def
<1>5. Pow2[LimbBits] \in Nat /\ Pow2[LimbBits] >= 4
  BY <1>3, <1>4, Pow2Mono, Pow2Positive
<1>6. Pow2[WIDTH * LimbBits] \in Nat /\ Pow2[WIDTH * LimbBits] > 0
  BY <1>1, <1>3, PowType
<1> QED
  BY <1>1, <1>2, <1>3, <1>5, <1>6 DEF Limb, Size

LEMMA NumFacts ==
    ASSUME NEW a \in Num
    PROVE  /\ Index = 0..WIDTH - 1
           /\ \A i \in 0..WIDTH - 1 : a[i] \in 0..Limb - 1 /\ a[i] \in Nat /\ a[i] < Limb
           /\ Value(a) \in Nat /\ Value(a) < Size
<1>1. Index = 0..WIDTH - 1 /\ \A i \in 0..WIDTH - 1 : a[i] \in 0..Limb - 1 /\ a[i] \in Nat /\ a[i] < Limb
  BY SizeFacts DEF Num, Index
<1>2. \A i \in 0..WIDTH - 1 : a[i] \in 0..Pow2[LimbBits] - 1
  BY <1>1 DEF Limb
<1>3. FromDigits(a, LimbBits, WIDTH) \in Nat /\ FromDigits(a, LimbBits, WIDTH) < Pow2[WIDTH * LimbBits]
  BY <1>2, SizeFacts, FromDigitsBound
<1> QED
  BY <1>1, <1>3 DEF Value, Size

\* Two numbers that differ by a multiple of Size.
LEMMA ValueIsMod ==
    ASSUME NEW a \in Num, NEW v \in Int, NEW k \in Int, v = k * Size + Value(a)
    PROVE  Value(a) = v % Size
  BY NumFacts, SizeFacts, ModIs

-----------------------------------------------------------------------------
(* Carries *)

IsCarry(c, t, n) ==
    c = [i \in 0..n |-> IF i = 0 THEN 0 ELSE Wide(c[i - 1] + t[i - 1]) \div Limb]

LEMMA WideFacts ==
    ASSUME NEW v \in Nat
    PROVE  /\ Wide(v) \in Nat /\ Wide(v) \div Limb \in 0..Limb - 1 /\ Wide(v) % Limb \in 0..Limb - 1
           /\ v < Limb * Limb => v = (Wide(v) \div Limb) * Limb + (Wide(v) % Limb)
<1>1. PICK b \in Nat : b = Limb /\ b > 0 /\ b * b \in Nat /\ b * b > 0
  BY SizeFacts
<1>2. PICK w \in Nat : w = v % (b * b) /\ w < b * b
  BY <1>1, IntDivFacts
<1>3. v < b * b => w = v
  BY <1>1, <1>2, ModSmall
<1>4. /\ w \div b \in Nat /\ (w \div b) * b <= w /\ w = (w \div b) * b + (w % b)
      /\ w % b \in 0..b - 1
  BY <1>1, DivFacts
<1>5. w \div b < b
  BY <1>1, <1>2, DivIsGreatest
<1> QED
  BY <1>1, <1>2, <1>3, <1>4, <1>5 DEF Wide

LEMMA CarryIs ==
    ASSUME NEW n \in Nat, NEW t, \A i \in 0..n - 1 : t[i] \in Nat
    PROVE  /\ IsCarry(Carry(t, n), t, n)
           /\ Carry(t, n)[0] = 0
           /\ \A i \in 0..n - 1 : Carry(t, n)[i + 1] = Wide(Carry(t, n)[i] + t[i]) \div Limb
<1> DEFINE stp == [p \in Nat \X Nat |-> IF p[1] \in 1..n THEN Wide(p[2] + t[p[1] - 1]) \div Limb ELSE 0]
<1>1. ASSUME NEW i \in 1..n, NEW v \in Nat PROVE Wide(v + t[i - 1]) \div Limb \in Nat
  <2>1. v + t[i - 1] \in Nat
    OBVIOUS
  <2> QED
    BY <2>1, WideFacts
<1>2. stp \in [Nat \X Nat -> Nat]
  BY <1>1
<1>3. \A i \in 1..n : \A v \in Nat : stp[<<i, v>>] = Wide(v + t[i - 1]) \div Limb
  OBVIOUS
<1> HIDE DEF stp
<1>4. PICK c : Recursive(c, Nat, 0, stp, n)
  BY <1>2, RecursionExists
<1>5. c \in [0..n -> Nat] /\ c[0] = 0 /\ \A i \in 1..n : c[i - 1] \in Nat /\ c[i] = stp[<<i, c[i - 1]>>]
  BY <1>4 DEF Recursive
<1>6. \A i \in 0..n : c[i] = IF i = 0 THEN 0 ELSE Wide(c[i - 1] + t[i - 1]) \div Limb
  <2> TAKE i \in 0..n
  <2>1. i # 0 => i \in 1..n
    OBVIOUS
  <2>2. i # 0 => c[i] = Wide(c[i - 1] + t[i - 1]) \div Limb
    BY <1>3, <1>5, <2>1, Zenon
  <2> QED
    BY <1>5, <2>2
<1>7. IsCarry(c, t, n)
  BY <1>5, <1>6 DEF IsCarry
<1>8. IsCarry(Carry(t, n), t, n)
  BY <1>7, Zenon DEF IsCarry, Carry
<1>9. \A i \in 0..n : Carry(t, n)[i] = IF i = 0 THEN 0 ELSE Wide(Carry(t, n)[i - 1] + t[i - 1]) \div Limb
  BY <1>8, Zenon DEF IsCarry
<1>10. 0 \in 0..n /\ \A i \in 0..n - 1 : i + 1 \in 0..n /\ i + 1 # 0 /\ (i + 1) - 1 = i
  OBVIOUS
<1> HIDE DEF stp
<1> QED
  BY <1>8, <1>9, <1>10

\* A loop with a carry keeps the sum, but for the last carry: no sum of a carry and of
\* what is added to a limb is too wide.
LEMMA CarryKeepsSum ==
    ASSUME NEW n \in Nat, NEW t,
           \A i \in 0..n - 1 : t[i] \in Nat /\ t[i] + Limb <= Limb * Limb
    PROVE  /\ Carried(t, n) \in [0..n - 1 -> 0..Limb - 1]
           /\ \E c \in Nat :
                FromDigits(t, LimbBits, n) = c * Pow2[n * LimbBits] + FromDigits(Carried(t, n), LimbBits, n)
<1> DEFINE C == Carry(t, n)
           r == Carried(t, n)
           FD(d, k) == FromDigits(d, LimbBits, k)
           S == {k \in Nat : /\ C[k] \in 0..Limb - 1
                             /\ FD(t, k) = C[k] * Pow2[k * LimbBits] + FD(r, k)}
<1>1. C[0] = 0 /\ \A i \in 0..n - 1 : C[i + 1] = Wide(C[i] + t[i]) \div Limb
  BY CarryIs
<1>2. r = [i \in 0..n - 1 |-> Wide(C[i] + t[i]) % Limb]
  BY DEF Carried
<1>3. LimbBits \in Nat /\ Limb \in Nat /\ Limb >= 4 /\ Limb = Pow2[LimbBits]
  BY SizeFacts
<1> HIDE DEF C, r
<1> DEFINE T == {k \in Nat : C[k] \in 0..Limb - 1}
<1>4. 0 \in T
  BY <1>1, <1>3
<1>5. ASSUME NEW k \in 0..n - 1, k \in T PROVE k + 1 \in T
  <2>1. C[k] + t[k] \in Nat /\ k + 1 \in Nat
    BY <1>3, <1>5
  <2> QED
    BY <1>1, <2>1, WideFacts
<1>6. \A k \in 0..n : C[k] \in 0..Limb - 1
  <2> TAKE k \in 0..n
  <2>1. k \in Nat /\ \A i \in 0..k - 1 : i \in 0..n - 1
    OBVIOUS
  <2> HIDE DEF T
  <2>2. k \in T
    BY <2>1, <1>4, <1>5, UpTo
  <2> QED
    BY <2>2 DEF T
<1>7. \A i \in 0..n - 1 : r[i] \in 0..Limb - 1 /\ r[i] \in Nat
  <2> TAKE i \in 0..n - 1
  <2>1. i \in 0..n
    OBVIOUS
  <2>2. C[i] + t[i] \in Nat
    BY <2>1, <1>3, <1>6
  <2>3. Wide(C[i] + t[i]) % Limb \in 0..Limb - 1
    BY <2>2, WideFacts
  <2> QED
    BY <1>2, <1>3, <2>3
<1>8. r \in [0..n - 1 -> 0..Limb - 1]
  BY <1>2, <1>7
<1>9. 0 \in S
  BY <1>1, <1>3, PowType, FromDigitsZero, SMTT(30)
<1>10. ASSUME NEW k \in 0..n - 1, k \in S PROVE k + 1 \in S
  <2>0. k \in Nat /\ k + 1 \in Nat /\ k \in 0..n /\ k + 1 \in 0..n
    OBVIOUS
  <2>1. PICK p \in Nat : p = Pow2[k * LimbBits]
    BY <2>0, <1>3, PowType
  <2>2. Pow2[(k + 1) * LimbBits] = p * Limb
    BY <2>0, <2>1, <1>3, PowNext
  <2>3. PICK c \in Nat : c = C[k] /\ c < Limb
    BY <2>0, <1>3, <1>6
  <2>4. PICK x \in Nat : x = t[k] /\ x + Limb <= Limb * Limb
    OBVIOUS
  <2>5. PICK e \in Nat : e = C[k + 1]
    BY <2>0, <1>3, <1>6
  <2>6. PICK s \in Nat : s = r[k]
    BY <1>7
  <2>7. c + x = e * Limb + s
    <3>1. c + x \in Nat /\ c + x < Limb * Limb
      BY <2>3, <2>4, <1>3
    <3>2. e = Wide(c + x) \div Limb /\ s = Wide(c + x) % Limb
      BY <1>1, <1>2, <2>3, <2>4, <2>5, <2>6
    <3> QED
      BY <3>1, <3>2, WideFacts
  <2>8. PICK u \in Nat : u = FD(r, k)
    <3>1. \A i \in 0..k - 1 : r[i] \in Nat
      BY <1>7
    <3> QED
      BY <2>0, <3>1, <1>3, FromDigitsType
  <2>9. FD(t, k) = c * p + u
    BY <1>10, <2>1, <2>3, <2>8
  <2>10. FD(t, k + 1) = (c * p + u) + x * p
    <3>1. \A i \in 0..k : t[i] \in Nat
      OBVIOUS
    <3> QED
      BY <3>1, <2>0, <2>1, <2>4, <2>9, <1>3, FromDigitsStep
  <2>11. FD(r, k + 1) = u + s * p
    <3>1. \A i \in 0..k : r[i] \in Nat
      BY <1>7
    <3> QED
      BY <3>1, <2>0, <2>1, <2>6, <2>8, <1>3, FromDigitsStep
  <2>12. (c * p + u) + x * p = e * (p * Limb) + (u + s * p)
    <3>1. (c + x) * p = (e * Limb + s) * p
      BY <2>7
    <3>2. (c + x) * p = c * p + x * p
      OBVIOUS
    <3>3. (e * Limb + s) * p = e * (p * Limb) + s * p
      BY <1>3
    <3>4. c * p \in Nat /\ x * p \in Nat /\ s * p \in Nat /\ e * (p * Limb) \in Nat
      BY <1>3
    <3> QED
      BY <3>1, <3>2, <3>3, <3>4
  <2>13. C[k + 1] \in 0..Limb - 1
    BY <2>0, <1>6
  <2> HIDE DEF FD
  <2> QED
    BY <2>0, <2>2, <2>5, <2>10, <2>11, <2>12, <2>13
<1> HIDE DEF S
<1>11. n \in S
  BY <1>9, <1>10, UpTo
<1>12. /\ C[n] \in Nat
       /\ FromDigits(t, LimbBits, n) = C[n] * Pow2[n * LimbBits] + FromDigits(r, LimbBits, n)
  BY <1>3, <1>11 DEF S
<1> QED
  BY <1>8, <1>12 DEF r

\* A loop over all limbs makes a number.
LEMMA CarriedIsNum ==
    ASSUME NEW t, \A i \in 0..WIDTH - 1 : t[i] \in Nat /\ t[i] + Limb <= Limb * Limb
    PROVE  /\ Carried(t, WIDTH) \in Num
           /\ \E c \in Nat : FromDigits(t, LimbBits, WIDTH) = c * Size + Value(Carried(t, WIDTH))
<1>1. WIDTH \in Nat
  BY SizeFacts
<1>2. /\ Carried(t, WIDTH) \in [0..WIDTH - 1 -> 0..Limb - 1]
      /\ \E c \in Nat : FromDigits(t, LimbBits, WIDTH)
            = c * Pow2[WIDTH * LimbBits] + FromDigits(Carried(t, WIDTH), LimbBits, WIDTH)
  BY <1>1, CarryKeepsSum
<1> QED
  BY <1>2 DEF Num, Index, Value, Size

-----------------------------------------------------------------------------
(* Sums and products *)

\* operator+=
LEMMA PlusValue ==
    ASSUME NEW a \in Num, NEW b \in Num
    PROVE  /\ Plus(a, b) \in Num
           /\ \E c \in Nat : Value(a) + Value(b) = c * Size + Value(Plus(a, b))
           /\ Value(Plus(a, b)) = (Value(a) + Value(b)) % Size
<1> DEFINE t == [i \in Index |-> a[i] + b[i]]
<1>1. WIDTH \in Nat /\ LimbBits \in Nat /\ Limb \in Nat /\ Limb >= 4
  BY SizeFacts
<1>2. /\ Index = 0..WIDTH - 1
      /\ \A i \in 0..WIDTH - 1 : a[i] \in Nat /\ a[i] < Limb /\ b[i] \in Nat /\ b[i] < Limb
  BY NumFacts
<1>3. \A i \in 0..WIDTH - 1 : t[i] = a[i] + b[i]
  BY <1>2
<1>4. Limb + Limb + Limb <= Limb * Limb
  BY <1>1
<1>5. ASSUME NEW i \in 0..WIDTH - 1 PROVE t[i] \in Nat /\ t[i] + Limb <= Limb * Limb
  <2>1. a[i] + b[i] \in Nat /\ a[i] + b[i] + Limb <= Limb + Limb + Limb
    BY <1>1, <1>2
  <2>2. Limb * Limb \in Nat
    BY <1>1
  <2> QED
    BY <1>1, <1>3, <1>4, <2>1, <2>2
<1> HIDE DEF t
<1>6. Plus(a, b) = Carried(t, WIDTH)
  BY DEF Plus, t
<1>7. Plus(a, b) \in Num /\ \E c \in Nat : FromDigits(t, LimbBits, WIDTH) = c * Size + Value(Plus(a, b))
  BY <1>5, <1>6, CarriedIsNum
<1>8. FromDigits(t, LimbBits, WIDTH) = Value(a) + Value(b)
  <2>1. \A i \in 0..WIDTH - 1 : t[i] = a[i] + 1 * b[i]
    BY <1>2, <1>3
  <2>2. 1 \in Nat
    OBVIOUS
  <2>3. FromDigits(t, LimbBits, WIDTH) = FromDigits(a, LimbBits, WIDTH) + 1 * FromDigits(b, LimbBits, WIDTH)
    BY <1>1, <1>2, <2>1, <2>2, FromDigitsPlus
  <2>4. Value(a) \in Nat /\ Value(b) \in Nat
    BY NumFacts
  <2> QED
    BY <2>3, <2>4 DEF Value
<1>9. PICK c \in Nat : Value(a) + Value(b) = c * Size + Value(Plus(a, b))
  BY <1>7, <1>8
<1>10. Value(a) + Value(b) \in Int /\ c \in Int
  BY NumFacts
<1>11. Value(Plus(a, b)) = (Value(a) + Value(b)) % Size
  BY <1>7, <1>9, <1>10, ValueIsMod
<1> QED
  BY <1>7, <1>9, <1>11

\* The product of two limbs fits a uint64_t, together with two limbs more.
LEMMA ProductFacts ==
    ASSUME NEW p \in Nat, p < Limb, NEW q \in Nat, q < Limb
    PROVE  Product(p, q) = p * q /\ p * q \in Nat /\ p * q + Limb + Limb <= Limb * Limb + 1
<1>1. PICK b \in Nat : b = Limb /\ b >= 4
  BY SizeFacts
<1>2. p <= b - 1 /\ q <= b - 1 /\ b - 1 \in Nat
  BY <1>1
<1>3. p * q <= (b - 1) * (b - 1) /\ p * q \in Nat
  <2>1. p * q <= (b - 1) * q /\ p * q \in Nat
    BY <1>2, TimesMono
  <2>2. (b - 1) * q <= (b - 1) * (b - 1) /\ (b - 1) * q \in Nat
    BY <1>2, TimesMono
  <2>3. (b - 1) * (b - 1) \in Nat
    BY <1>2
  <2> QED
    BY <2>1, <2>2, <2>3
<1>4. (b - 1) * (b - 1) = b * b - b - b + 1
  BY <1>1
<1>5. p * q + b + b <= b * b + 1
  <2>1. PICK u \in Nat, v \in Nat : u = p * q /\ v = b * b
    BY <1>3
  <2>2. u <= v - b - b + 1
    BY <1>3, <1>4, <2>1
  <2>3. u + b + b <= v + 1
    BY <2>2
  <2> QED
    BY <2>1, <2>3
<1>6. Wide(p * q) = p * q
  <2>1. p * q < b * b /\ b * b \in Nat
    BY <1>1, <1>3, <1>5
  <2> QED
    BY <1>1, <1>3, <2>1, ModSmall DEF Wide
<1> QED
  BY <1>1, <1>3, <1>5, <1>6 DEF Product

\* operator*= with a uint32_t
LEMMA TimesLimbValue ==
    ASSUME NEW a \in Num, NEW w \in 0..Limb - 1
    PROVE  TimesLimb(a, w) \in Num /\ Value(TimesLimb(a, w)) = (Value(a) * w) % Size
<1> DEFINE t == [i \in Index |-> Product(w, a[i])]
           z == [i \in Index |-> 0]
<1>1. WIDTH \in Nat /\ LimbBits \in Nat /\ Limb \in Nat /\ Limb >= 4 /\ w \in Nat /\ w < Limb
  BY SizeFacts
<1>2. /\ Index = 0..WIDTH - 1
      /\ \A i \in 0..WIDTH - 1 : a[i] \in Nat /\ a[i] < Limb
  BY NumFacts
<1>3. \A i \in 0..WIDTH - 1 : t[i] = Product(w, a[i]) /\ z[i] = 0
  BY <1>2
<1> HIDE DEF t, z
<1>4. ASSUME NEW i \in 0..WIDTH - 1
      PROVE  t[i] \in Nat /\ t[i] + Limb <= Limb * Limb /\ t[i] = w * a[i]
  <2>1. Product(w, a[i]) = w * a[i] /\ w * a[i] \in Nat /\ w * a[i] + Limb + Limb <= Limb * Limb + 1
    BY <1>1, <1>2, ProductFacts
  <2>2. PICK u \in Nat, v \in Nat : u = w * a[i] /\ v = Limb * Limb
    BY <1>1, <2>1
  <2>3. u + Limb <= v
    BY <1>1, <2>1, <2>2
  <2> QED
    BY <1>3, <2>1, <2>2, <2>3
<1>5. TimesLimb(a, w) = Carried(t, WIDTH)
  BY DEF TimesLimb, t
<1>6. /\ TimesLimb(a, w) \in Num
      /\ \E c \in Nat : FromDigits(t, LimbBits, WIDTH) = c * Size + Value(TimesLimb(a, w))
  BY <1>4, <1>5, CarriedIsNum
<1>7. FromDigits(t, LimbBits, WIDTH) = Value(a) * w
  <2>1. ASSUME NEW i \in 0..WIDTH - 1 PROVE z[i] \in Nat /\ a[i] \in Nat /\ t[i] = z[i] + w * a[i]
    <3>1. w * a[i] \in Nat
      BY <1>4
    <3> QED
      BY <1>2, <1>3, <1>4, <3>1
  <2>2. FromDigits(t, LimbBits, WIDTH) = FromDigits(z, LimbBits, WIDTH) + w * FromDigits(a, LimbBits, WIDTH)
    BY <1>1, <2>1, FromDigitsPlus
  <2>3. FromDigits(z, LimbBits, WIDTH) = FromDigits(z, LimbBits, WIDTH) + 1 * FromDigits(z, LimbBits, WIDTH)
    <3>1. \A i \in 0..WIDTH - 1 : z[i] \in Nat /\ z[i] = z[i] + 1 * z[i]
      BY <1>3
    <3>2. 1 \in Nat
      OBVIOUS
    <3> QED
      BY <1>1, <3>1, <3>2, FromDigitsPlus
  <2>4. FromDigits(z, LimbBits, WIDTH) \in Nat
    <3>1. \A i \in 0..WIDTH - 1 : z[i] \in Nat
      BY <1>3
    <3> QED
      BY <1>1, <3>1, FromDigitsType
  <2>5. FromDigits(z, LimbBits, WIDTH) = 0
    <3>1. PICK y \in Nat : y = FromDigits(z, LimbBits, WIDTH)
      BY <2>4
    <3>2. y = y + 1 * y
      BY <2>3, <3>1, Zenon
    <3>3. y = 0
      BY <3>2
    <3> QED
      BY <3>1, <3>3
  <2>6. Value(a) \in Nat /\ Value(a) = FromDigits(a, LimbBits, WIDTH)
    BY NumFacts DEF Value
  <2>7. w * Value(a) = Value(a) * w /\ w * Value(a) \in Nat
    BY <1>1, <2>6
  <2> QED
    BY <2>2, <2>5, <2>6, <2>7
<1>8. PICK c \in Nat : Value(a) * w = c * Size + Value(TimesLimb(a, w))
  BY <1>6, <1>7
<1>9. Value(a) * w \in Int /\ c \in Int
  BY <1>1, NumFacts
<1> QED
  BY <1>6, <1>8, <1>9, ValueIsMod

-----------------------------------------------------------------------------
(* Products *)

\* Cuts a number at limb j.
LEMMA CutAt ==
    ASSUME NEW a \in Num, NEW j \in 0..WIDTH, NEW h, \A i \in 0..(WIDTH - j) - 1 : h[i] = a[i + j]
    PROVE  /\ WIDTH - j \in Nat
           /\ FromDigits(a, LimbBits, j) \in Nat
           /\ FromDigits(h, LimbBits, WIDTH - j) \in Nat
           /\ Pow2[j * LimbBits] \in Nat /\ Pow2[j * LimbBits] > 0
           /\ Pow2[(WIDTH - j) * LimbBits] \in Nat /\ Pow2[(WIDTH - j) * LimbBits] > 0
           /\ Size = Pow2[j * LimbBits] * Pow2[(WIDTH - j) * LimbBits]
           /\ Value(a) = FromDigits(a, LimbBits, j) + Pow2[j * LimbBits] * FromDigits(h, LimbBits, WIDTH - j)
<1>1. WIDTH \in Nat /\ LimbBits \in Nat /\ Size = Pow2[WIDTH * LimbBits]
  BY SizeFacts
<1>2. \A i \in 0..WIDTH - 1 : a[i] \in Nat
  BY NumFacts
<1>3. PICK m \in Nat : m = WIDTH - j
  BY <1>1
<1>4. j \in Nat /\ j + m = WIDTH
  BY <1>1, <1>3
<1>5. ASSUME NEW i \in 0..m - 1 PROVE h[i] = a[j + i] /\ h[i] \in Nat
  <2>1. i \in 0..(WIDTH - j) - 1 /\ i + j = j + i /\ j + i \in 0..WIDTH - 1
    BY <1>3, <1>4
  <2> QED
    BY <1>2, <2>1
<1>7. FromDigits(a, LimbBits, WIDTH) = FromDigits(a, LimbBits, j) + Pow2[j * LimbBits] * FromDigits(h, LimbBits, m)
  <2>1. Part(h, a, j, m)
    BY <1>5 DEF Part
  <2> QED
    <3>1. LimbBits \in Nat /\ WIDTH \in Nat /\ j \in Nat /\ WIDTH = j + m
      BY <1>1, <1>4
    <3> QED
      BY <1>2, <2>1, <3>1, FromDigitsSplit
<1>8. \A i \in 0..j - 1 : a[i] \in Nat
  BY <1>2, <1>4
<1>9. FromDigits(a, LimbBits, j) \in Nat /\ FromDigits(h, LimbBits, m) \in Nat
  BY <1>1, <1>4, <1>5, <1>8, FromDigitsType
<1>10. /\ Pow2[j * LimbBits] \in Nat /\ Pow2[j * LimbBits] > 0
       /\ Pow2[m * LimbBits] \in Nat /\ Pow2[m * LimbBits] > 0
  BY <1>1, <1>4, PowType
<1>11. Size = Pow2[j * LimbBits] * Pow2[m * LimbBits]
  BY <1>1, <1>4, PowSplit
<1>12. Value(a) = FromDigits(a, LimbBits, WIDTH)
  BY <1>4 DEF Value
<1> QED
  BY <1>3, <1>7, <1>9, <1>10, <1>11, <1>12

\* A row of the product adds limb j of a, times what of b does not leave the number.
LEMMA AddRowValue ==
    ASSUME NEW p \in Num, NEW a \in Num, NEW b \in Num, NEW j \in 0..WIDTH - 1
    PROVE  /\ AddRow(p, a, b, j) \in Num
           /\ \E c \in Nat : Value(p) + a[j] * (Pow2[j * LimbBits] * FromDigits(b, LimbBits, WIDTH - j))
                                = c * Size + Value(AddRow(p, a, b, j))
<1> DEFINE m == WIDTH - j
           t == [i \in 0..WIDTH - j - 1 |-> p[i + j] + Product(a[j], b[i])]
           h == [i \in 0..WIDTH - j - 1 |-> p[i + j]]
           row == Carried(t, WIDTH - j)
           res == AddRow(p, a, b, j)
<1>1. WIDTH \in Nat /\ LimbBits \in Nat /\ Limb \in Nat /\ Limb >= 4 /\ j \in Nat /\ m \in Nat /\ j \in 0..WIDTH
  BY SizeFacts
<1>2. /\ Index = 0..WIDTH - 1
      /\ \A i \in 0..WIDTH - 1 : /\ a[i] \in Nat /\ a[i] < Limb /\ b[i] \in Nat /\ b[i] < Limb
                                 /\ p[i] \in Nat /\ p[i] < Limb
  BY NumFacts
<1>3. \A i \in 0..m - 1 : /\ t[i] = p[i + j] + Product(a[j], b[i]) /\ h[i] = p[i + j]
                          /\ i \in 0..WIDTH - 1 /\ i + j \in 0..WIDTH - 1
  BY <1>1
<1>4. \A i \in Index : res[i] = IF i < j THEN p[i] ELSE row[i - j]
  BY DEF AddRow
<1>4a. DOMAIN res = Index /\ res = [i \in Index |-> res[i]]
  BY DEF AddRow
<1> HIDE DEF t, h, row, res
<1>5. ASSUME NEW i \in 0..m - 1
      PROVE  /\ t[i] \in Nat /\ t[i] + Limb <= Limb * Limb /\ t[i] = h[i] + a[j] * b[i]
             /\ h[i] \in Nat /\ b[i] \in Nat
  <2>1. PICK x \in Nat, y \in Nat, z \in Nat : x = a[j] /\ y = b[i] /\ z = p[i + j]
    BY <1>2, <1>3
  <2>2. x < Limb /\ y < Limb /\ z < Limb
    BY <1>2, <1>3, <2>1
  <2>3. Product(x, y) = x * y /\ x * y \in Nat /\ x * y + Limb + Limb <= Limb * Limb + 1
    BY <2>2, ProductFacts
  <2>4. PICK u \in Nat, v \in Nat : u = x * y /\ v = Limb * Limb
    BY <1>1, <2>3
  <2>5. z + u \in Nat /\ (z + u) + Limb <= v
    BY <1>1, <2>2, <2>3, <2>4
  <2>6. t[i] = z + u /\ h[i] = z
    BY <1>3, <2>1, <2>3, <2>4
  <2> QED
    BY <2>1, <2>4, <2>5, <2>6
<1>6. /\ row \in [0..m - 1 -> 0..Limb - 1]
      /\ \E c \in Nat : FromDigits(t, LimbBits, m) = c * Pow2[m * LimbBits] + FromDigits(row, LimbBits, m)
  BY <1>1, <1>5, CarryKeepsSum DEF row
<1>7. FromDigits(t, LimbBits, m) = FromDigits(h, LimbBits, m) + a[j] * FromDigits(b, LimbBits, m)
  <2>1. a[j] \in Nat
    BY <1>2
  <2> QED
    BY <1>1, <1>5, <2>1, FromDigitsPlus
<1>8. res \in Num
  <2>1. ASSUME NEW i \in Index PROVE res[i] \in 0..Limb - 1
    <3>1. CASE i < j
      BY <1>1, <1>2, <1>4, <3>1
    <3>2. CASE ~(i < j)
      <4>1. i - j \in 0..m - 1
        BY <1>1, <1>2, <3>2
      <4>2. row[i - j] \in 0..Limb - 1
        BY <1>6, <4>1
      <4> QED
        BY <1>4, <3>2, <4>2
    <3> QED
      BY <3>1, <3>2
  <2> QED
    BY <1>4a, <2>1 DEF Num
<1>9. \A i \in 0..(WIDTH - j) - 1 : row[i] = res[i + j]
  <2> TAKE i \in 0..(WIDTH - j) - 1
  <2>1. i + j \in Index /\ ~(i + j < j) /\ (i + j) - j = i
    BY <1>1, <1>2
  <2> QED
    BY <1>4, <2>1
<1>10. \A i \in 0..(WIDTH - j) - 1 : h[i] = p[i + j]
  BY <1>3
<1>11. FromDigits(res, LimbBits, j) = FromDigits(p, LimbBits, j)
  <2>1. \A i \in 0..j - 1 : p[i] \in Nat /\ p[i] = res[i]
    BY <1>1, <1>2, <1>4
  <2> QED
    BY <1>1, <2>1, FromDigitsSame
<1>12. PICK lo \in Nat : lo = FromDigits(p, LimbBits, j)
  BY <1>1, <1>10, CutAt
<1>13. PICK q \in Nat, r \in Nat : q = Pow2[j * LimbBits] /\ r = Pow2[m * LimbBits]
  BY <1>1, <1>10, CutAt
<1>14. PICK hp \in Nat : hp = FromDigits(h, LimbBits, m)
  BY <1>1, <1>10, CutAt
<1>15. PICK hr \in Nat : hr = FromDigits(row, LimbBits, m)
  BY <1>1, <1>8, <1>9, CutAt
<1>16. Value(p) = lo + q * hp /\ Size = q * r
  BY <1>1, <1>10, <1>12, <1>13, <1>14, CutAt
<1>17. Value(res) = lo + q * hr
  BY <1>1, <1>8, <1>9, <1>11, <1>12, <1>13, <1>15, CutAt
<1>18. PICK w \in Nat, y \in Nat : w = a[j] /\ y = FromDigits(b, LimbBits, m)
  <2>1. \A i \in 0..m - 1 : b[i] \in Nat
    BY <1>5
  <2> QED
    BY <1>1, <1>2, <2>1, FromDigitsType
<1>19. PICK c \in Nat : hp + w * y = c * r + hr
  BY <1>6, <1>7, <1>13, <1>14, <1>15, <1>18
<1>20. (lo + q * hp) + w * (q * y) = c * (q * r) + (lo + q * hr)
  <2>1. q * (hp + w * y) = q * (c * r + hr)
    BY <1>19
  <2>2. q * (hp + w * y) = q * hp + w * (q * y) /\ q * (c * r + hr) = c * (q * r) + q * hr
    OBVIOUS
  <2> QED
    BY <2>1, <2>2
<1> QED
  BY <1>8, <1>13, <1>16, <1>17, <1>18, <1>20 DEF res

\* operator*= adds the rows up.
LEMMA TimesIs ==
    ASSUME NEW a \in Num, NEW b \in Num
    PROVE  \E F : /\ F[0] = Zero /\ Times(a, b) = F[WIDTH]
                  /\ \A j \in 0..WIDTH - 1 : F[j + 1] = AddRow(F[j], a, b, j)
<1> DEFINE IsSum(F) == F = [j \in 0..WIDTH |-> IF j = 0 THEN Zero ELSE AddRow(F[j - 1], a, b, j - 1)]
           stp == [p \in Nat \X Num |-> IF p[1] \in 1..WIDTH THEN AddRow(p[2], a, b, p[1] - 1) ELSE Zero]
<1>0. WIDTH \in Nat /\ Zero \in Num
  BY SizeFacts DEF Zero, Num
<1>1. ASSUME NEW j \in 1..WIDTH, NEW v \in Num PROVE AddRow(v, a, b, j - 1) \in Num
  <2>1. j - 1 \in 0..WIDTH - 1
    BY <1>0
  <2> QED
    BY <2>1, AddRowValue
<1> HIDE DEF Num
<1>2. stp \in [Nat \X Num -> Num]
  BY <1>0, <1>1
<1>3. \A j \in 1..WIDTH : \A v \in Num : stp[<<j, v>>] = AddRow(v, a, b, j - 1)
  BY <1>0
<1> HIDE DEF stp
<1>4. PICK F : Recursive(F, Num, Zero, stp, WIDTH)
  BY <1>0, <1>2, RecursionExists
<1>5. F \in [0..WIDTH -> Num] /\ F[0] = Zero /\ \A j \in 1..WIDTH : F[j - 1] \in Num /\ F[j] = stp[<<j, F[j - 1]>>]
  BY <1>0, <1>4 DEF Recursive
<1>6. \A j \in 0..WIDTH : F[j] = IF j = 0 THEN Zero ELSE AddRow(F[j - 1], a, b, j - 1)
  <2> TAKE j \in 0..WIDTH
  <2>1. j # 0 => j \in 1..WIDTH
    BY <1>0
  <2>2. j # 0 => F[j] = AddRow(F[j - 1], a, b, j - 1)
    BY <1>3, <1>5, <2>1, Zenon
  <2> QED
    BY <1>5, <2>2
<1>7. IsSum(F)
  BY <1>5, <1>6
<1> DEFINE G == CHOOSE f : IsSum(f)
<1>8. IsSum(G)
  BY <1>7, Zenon
<1>9. Times(a, b) = G[WIDTH]
  BY Zenon DEF Times
<1> HIDE DEF G
<1>10. \A j \in 0..WIDTH : G[j] = IF j = 0 THEN Zero ELSE AddRow(G[j - 1], a, b, j - 1)
  BY <1>8, Zenon
<1>11. 0 \in 0..WIDTH /\ \A j \in 0..WIDTH - 1 : j + 1 \in 0..WIDTH /\ j + 1 # 0 /\ (j + 1) - 1 = j
  BY <1>0
<1>12. G[0] = Zero /\ \A j \in 0..WIDTH - 1 : G[j + 1] = AddRow(G[j], a, b, j)
  BY <1>10, <1>11
<1> QED
  BY <1>9, <1>12

LEMMA ZeroValue == Zero \in Num /\ Value(Zero) = 0
<1>1. Zero \in Num
  BY SizeFacts DEF Zero, Num
<1>2. WIDTH \in Nat /\ LimbBits \in Nat
  BY SizeFacts
<1>3. \A i \in 0..WIDTH - 1 : Zero[i] \in Nat /\ Zero[i] = Zero[i] + 1 * Zero[i]
  BY DEF Zero, Index
<1>4. 1 \in Nat
  OBVIOUS
<1>5. FromDigits(Zero, LimbBits, WIDTH) = FromDigits(Zero, LimbBits, WIDTH) + 1 * FromDigits(Zero, LimbBits, WIDTH)
  BY <1>2, <1>3, <1>4, FromDigitsPlus
<1>6. Value(Zero) \in Nat
  BY <1>1, NumFacts
<1>7. Value(Zero) = FromDigits(Zero, LimbBits, WIDTH)
  BY Zenon DEF Value
<1>8. PICK v \in Nat : v = Value(Zero)
  BY <1>6
<1>9. v = v + 1 * v
  BY <1>5, <1>7, <1>8, Zenon
<1>10. v = 0
  BY <1>9
<1> QED
  BY <1>1, <1>8, <1>10, Zenon

\* operator*=
LEMMA TimesValue ==
    ASSUME NEW a \in Num, NEW b \in Num
    PROVE  Times(a, b) \in Num /\ Value(Times(a, b)) = (Value(a) * Value(b)) % Size
<1>1. PICK F : /\ F[0] = Zero /\ Times(a, b) = F[WIDTH]
               /\ \A j \in 0..WIDTH - 1 : F[j + 1] = AddRow(F[j], a, b, j)
  BY TimesIs
<1>2. WIDTH \in Nat /\ LimbBits \in Nat /\ Size \in Nat
  BY SizeFacts
<1>2a. Value(b) \in Nat /\ \A i \in 0..WIDTH - 1 : a[i] \in Nat /\ b[i] \in Nat
  BY NumFacts
<1> DEFINE S == {k \in Nat : /\ F[k] \in Num
                             /\ \E c \in Nat : FromDigits(a, LimbBits, k) * Value(b) = c * Size + Value(F[k])}
<1>3. 0 \in S
  <2>1. F[0] \in Num /\ Value(F[0]) = 0 /\ FromDigits(a, LimbBits, 0) = 0
    BY <1>1, <1>2, ZeroValue, FromDigitsZero
  <2>2. 0 * Value(b) = 0 * Size + 0
    BY <1>2, <1>2a
  <2> QED
    BY <2>1, <2>2
<1>4. ASSUME NEW k \in 0..WIDTH - 1, k \in S PROVE k + 1 \in S
  <2>1. k \in Nat /\ k + 1 \in Nat /\ k \in 0..WIDTH /\ F[k] \in Num /\ F[k + 1] = AddRow(F[k], a, b, k)
    BY <1>1, <1>2, <1>4
  <2>2. PICK c \in Nat : FromDigits(a, LimbBits, k) * Value(b) = c * Size + Value(F[k])
    BY <1>4
  <2>3. PICK lo \in Nat, x \in Nat, q \in Nat : lo = FromDigits(a, LimbBits, k) /\ x = a[k] /\ q = Pow2[k * LimbBits]
    <3>1. \A i \in 0..k - 1 : a[i] \in Nat
      BY <1>2, <1>2a, <2>1
    <3> QED
      BY <1>2, <1>2a, <2>1, <3>1, FromDigitsType, PowType
  <2>4. FromDigits(a, LimbBits, k + 1) = lo + x * q
    <3>1. \A i \in 0..k : a[i] \in Nat
      BY <1>2, <1>2a, <2>1
    <3> QED
      BY <1>2, <2>1, <2>3, <3>1, FromDigitsStep
  <2> DEFINE e == [i \in 0..k - 1 |-> b[i + (WIDTH - k)]]
  <2>5. \A i \in 0..(WIDTH - (WIDTH - k)) - 1 : e[i] = b[i + (WIDTH - k)]
    BY <1>2, <2>1
  <2>6. WIDTH - k \in 0..WIDTH /\ WIDTH - (WIDTH - k) = k
    BY <1>2, <2>1
  <2> HIDE DEF e
  <2>7. PICK bl \in Nat, bh \in Nat, r \in Nat : /\ bl = FromDigits(b, LimbBits, WIDTH - k)
                                                 /\ bh = FromDigits(e, LimbBits, k)
                                                 /\ r = Pow2[(WIDTH - k) * LimbBits]
    BY <2>5, <2>6, CutAt
  <2>8. Value(b) = bl + r * bh /\ Size = r * q
    BY <2>3, <2>5, <2>6, <2>7, CutAt
  <2>9. F[k + 1] \in Num /\ \E g \in Nat : Value(F[k]) + x * (q * bl) = g * Size + Value(F[k + 1])
    <3>1. /\ AddRow(F[k], a, b, k) \in Num
          /\ \E g \in Nat : Value(F[k]) + a[k] * (Pow2[k * LimbBits] * FromDigits(b, LimbBits, WIDTH - k))
                               = g * Size + Value(AddRow(F[k], a, b, k))
      BY <2>1, AddRowValue
    <3> QED
      BY <2>1, <2>3, <2>7, <3>1
  <2>10. PICK g \in Nat : Value(F[k]) + x * (q * bl) = g * Size + Value(F[k + 1])
    BY <2>9
  <2>11. PICK y \in Nat, v \in Nat, z \in Nat : y = Value(b) /\ v = Value(F[k]) /\ z = Value(F[k + 1])
    BY <2>1, <2>9, NumFacts
  <2>12. (lo + x * q) * y = lo * y + x * (q * bl) + (x * bh) * (r * q)
    <3>1. (lo + x * q) * y = lo * y + (x * q) * y
      OBVIOUS
    <3>2. (x * q) * (bl + r * bh) = x * (q * bl) + (x * bh) * (r * q)
      OBVIOUS
    <3> QED
      BY <2>8, <2>11, <3>1, <3>2
  <2>13. lo * y = c * (r * q) + v /\ v + x * (q * bl) = g * (r * q) + z
    BY <2>2, <2>3, <2>8, <2>10, <2>11
  <2>14. (lo + x * q) * y = (c + g + x * bh) * (r * q) + z
    <3>1. PICK s \in Nat : s = r * q
      OBVIOUS
    <3>2. lo * y = c * s + v /\ v + x * (q * bl) = g * s + z /\ (lo + x * q) * y = lo * y + x * (q * bl) + (x * bh) * s
      BY <2>12, <2>13, <3>1
    <3>3. (c + g + x * bh) * s = c * s + g * s + (x * bh) * s
      BY <3>1
    <3> QED
      BY <3>1, <3>2, <3>3
  <2>15. c + g + x * bh \in Nat
    OBVIOUS
  <2> QED
    BY <2>1, <2>4, <2>8, <2>9, <2>11, <2>14, <2>15
<1> HIDE DEF S
<1>5. WIDTH \in S
  BY <1>2, <1>3, <1>4, UpTo
<1>6. Times(a, b) \in Num /\ \E c \in Nat : Value(a) * Value(b) = c * Size + Value(Times(a, b))
  BY <1>1, <1>5 DEF S, Value
<1>7. PICK c \in Nat : Value(a) * Value(b) = c * Size + Value(Times(a, b))
  BY <1>6
<1>8. Value(a) * Value(b) \in Int /\ c \in Int
  BY NumFacts
<1> QED
  BY <1>6, <1>7, <1>8, ValueIsMod

-----------------------------------------------------------------------------
(* Complements, and the next and the previous number *)

\* C[i] is what comes into limb i from below: a limb keeps e[i] and passes on the rest.
IsChain(d, e, C, n) ==
    /\ \A i \in 0..n : C[i] \in Nat
    /\ \A i \in 0..n - 1 : d[i] \in Nat /\ e[i] \in Nat /\ e[i] + C[i + 1] * Limb = d[i] + C[i]

LEMMA Chain ==
    ASSUME NEW n \in Nat, NEW d, NEW e, NEW C, IsChain(d, e, C, n)
    PROVE  FromDigits(e, LimbBits, n) + C[n] * Pow2[n * LimbBits] = FromDigits(d, LimbBits, n) + C[0]
<1> DEFINE S == {k \in Nat : FromDigits(e, LimbBits, k) + C[k] * Pow2[k * LimbBits]
                             = FromDigits(d, LimbBits, k) + C[0]}
<1>c. /\ \A i \in 0..n : C[i] \in Nat
      /\ \A i \in 0..n - 1 : d[i] \in Nat /\ e[i] \in Nat /\ e[i] + C[i + 1] * Limb = d[i] + C[i]
  BY DEF IsChain
<1>0. PICK c0 \in Nat : c0 = C[0]
  BY <1>c
<1>1. LimbBits \in Nat /\ Limb \in Nat /\ Limb = Pow2[LimbBits]
  BY SizeFacts
<1>2. 0 \in S
  <2>1. Pow2[0 * LimbBits] = 1
    <3>1. 0 * LimbBits = 0
      BY <1>1
    <3> QED
      BY <3>1, Pow2Def
  <2>2. FromDigits(e, LimbBits, 0) = 0 /\ FromDigits(d, LimbBits, 0) = 0
    BY <1>1, FromDigitsZero
  <2> QED
    BY <1>0, <2>1, <2>2
<1>3. ASSUME NEW k \in 0..n - 1, k \in S PROVE k + 1 \in S
  <2>1. k \in Nat /\ k + 1 \in Nat /\ k \in 0..n /\ k + 1 \in 0..n
    OBVIOUS
  <2>2. PICK x \in Nat, y \in Nat, c \in Nat, g \in Nat : x = d[k] /\ y = e[k] /\ c = C[k] /\ g = C[k + 1]
    BY <1>c, <2>1
  <2>3. y + g * Limb = x + c
    BY <1>c, <2>2
  <2>4. \A i \in 0..k : d[i] \in Nat /\ e[i] \in Nat
    BY <1>c, <2>1
  <2>5. PICK u \in Nat, v \in Nat, q \in Nat : /\ u = FromDigits(d, LimbBits, k) /\ v = FromDigits(e, LimbBits, k)
                                               /\ q = Pow2[k * LimbBits]
    <3>1. \A i \in 0..k - 1 : d[i] \in Nat /\ e[i] \in Nat
      BY <2>1, <2>4
    <3> QED
      BY <1>1, <2>1, <3>1, FromDigitsType, PowType
  <2>6. FromDigits(d, LimbBits, k + 1) = u + x * q /\ FromDigits(e, LimbBits, k + 1) = v + y * q
    BY <1>1, <2>1, <2>2, <2>4, <2>5, FromDigitsStep
  <2>7. Pow2[(k + 1) * LimbBits] = q * Limb
    BY <1>1, <2>1, <2>5, PowNext
  <2>8. v + c * q = u + c0
    BY <1>0, <1>3, <2>2, <2>5
  <2>9. (v + y * q) + g * (q * Limb) = (u + x * q) + c0
    <3>1. (y + g * Limb) * q = (x + c) * q
      BY <2>3
    <3>2. (y + g * Limb) * q = y * q + g * (q * Limb) /\ (x + c) * q = x * q + c * q
      BY <1>1
    <3>3. PICK n1 \in Nat, n2 \in Nat, n3 \in Nat, n4 \in Nat :
              n1 = y * q /\ n2 = g * (q * Limb) /\ n3 = x * q /\ n4 = c * q
      BY <1>1
    <3>4. n1 + n2 = n3 + n4 /\ v + n4 = u + c0
      BY <2>8, <3>1, <3>2, <3>3
    <3>5. (v + n1) + n2 = (u + n3) + c0
      BY <3>4
    <3> QED
      BY <3>3, <3>5
  <2> QED
    BY <1>0, <2>1, <2>2, <2>6, <2>7, <2>9
<1> HIDE DEF S
<1>4. n \in S
  BY <1>2, <1>3, UpTo
<1> QED
  BY <1>4 DEF S

\* A one that ripples through n limbs.
LEMMA Ripple ==
    ASSUME NEW n \in Nat, NEW d, NEW e, NEW C, C[0] = 1,
           \A i \in 0..n : C[i] \in {0, 1},
           \A i \in 0..n - 1 : d[i] \in Nat /\ e[i] \in Nat /\ e[i] + C[i + 1] * Limb = d[i] + C[i]
    PROVE  FromDigits(e, LimbBits, n) + C[n] * Pow2[n * LimbBits] = FromDigits(d, LimbBits, n) + 1
<1>1. IsChain(d, e, C, n)
  BY DEF IsChain
<1>2. FromDigits(e, LimbBits, n) + C[n] * Pow2[n * LimbBits] = FromDigits(d, LimbBits, n) + C[0]
  BY <1>1, Chain
<1> QED
  BY <1>2

\* operator++ is a one that ripples through the limbs which are full.
LEMMA IncrementValue ==
    ASSUME NEW a \in Num
    PROVE  Increment(a) \in Num /\ Value(Increment(a)) = (Value(a) + 1) % Size
<1> DEFINE r == Increment(a)
           C == [k \in 0..WIDTH |-> IF \A j \in 0..k - 1 : a[j] = Limb - 1 THEN 1 ELSE 0]
<1>1. WIDTH \in Nat /\ Limb \in Nat /\ Limb >= 4 /\ LimbBits \in Nat /\ Size = Pow2[WIDTH * LimbBits] /\ Size \in Nat
  BY SizeFacts
<1>2. Index = 0..WIDTH - 1 /\ \A i \in 0..WIDTH - 1 : a[i] \in Nat /\ a[i] < Limb
  BY NumFacts
<1>3. C[0] = 1 /\ \A i \in 0..WIDTH : C[i] \in {0, 1}
  BY <1>1
<1>4. ASSUME NEW i \in 0..WIDTH - 1
      PROVE  r[i] \in 0..Limb - 1 /\ r[i] + C[i + 1] * Limb = a[i] + C[i]
  <2> DEFINE full(k) == \A j \in 0..k - 1 : a[j] = Limb - 1
  <2>1. i \in Index /\ i \in 0..WIDTH /\ i + 1 \in 0..WIDTH
    BY <1>1, <1>2
  <2>2. full(i + 1) <=> full(i) /\ a[i] = Limb - 1
    <3>1. (0..(i + 1) - 1) = (0..i - 1) \cup {i}
      BY <1>1
    <3> QED
      BY <3>1
  <2>3. r[i] = IF full(i) THEN (a[i] + 1) % Limb ELSE a[i]
    BY <2>1 DEF Increment
  <2>4. C[i] = (IF full(i) THEN 1 ELSE 0) /\ C[i + 1] = (IF full(i + 1) THEN 1 ELSE 0)
    BY <2>1
  <2> HIDE DEF full, C, r
  <2>5. a[i] = Limb - 1 => (a[i] + 1) % Limb = 0
    <3>1. 0 \in Nat /\ 1 \in Int /\ Limb \in Int /\ Limb = 1 * Limb + 0 /\ 0 < Limb
      BY <1>1
    <3>2. Limb % Limb = 0
      BY <1>1, <3>1, ModIs
    <3> QED
      BY <1>1, <3>2
  <2>6. a[i] # Limb - 1 => (a[i] + 1) % Limb = a[i] + 1 /\ a[i] + 1 < Limb
    <3>1. a[i] # Limb - 1 => a[i] + 1 < Limb
      BY <1>1, <1>2
    <3>2. a[i] + 1 \in Nat
      BY <1>2
    <3> QED
      BY <1>1, <3>1, <3>2, ModSmall
  <2>7. a[i] \in Nat /\ a[i] < Limb
    BY <1>2
  <2>8. PICK x \in Nat : x = a[i] /\ x < Limb
    BY <2>7
  <2>9. CASE full(i) /\ x = Limb - 1
    <3>1. r[i] = 0 /\ C[i] = 1 /\ C[i + 1] = 1
      BY <2>2, <2>3, <2>4, <2>5, <2>8, <2>9
    <3> QED
      BY <1>1, <2>8, <2>9, <3>1
  <2>10. CASE full(i) /\ x # Limb - 1
    <3>1. r[i] = x + 1 /\ C[i] = 1 /\ C[i + 1] = 0 /\ x + 1 < Limb
      BY <2>2, <2>3, <2>4, <2>6, <2>8, <2>10
    <3> QED
      BY <1>1, <2>8, <3>1
  <2>11. CASE ~full(i)
    <3>1. r[i] = x /\ C[i] = 0 /\ C[i + 1] = 0
      BY <2>2, <2>3, <2>4, <2>8, <2>11
    <3> QED
      BY <1>1, <2>8, <3>1
  <2> QED
    BY <2>9, <2>10, <2>11
<1>5. r \in Num
  BY <1>2, <1>4 DEF Num, Increment
<1> HIDE DEF r, C
<1>6. FromDigits(r, LimbBits, WIDTH) + C[WIDTH] * Pow2[WIDTH * LimbBits] = FromDigits(a, LimbBits, WIDTH) + 1
  <2>1. \A i \in 0..WIDTH - 1 : a[i] \in Nat /\ r[i] \in Nat /\ r[i] + C[i + 1] * Limb = a[i] + C[i]
    BY <1>2, <1>4
  <2> QED
    BY <1>1, <1>3, <2>1, Ripple, ZenonT(30)
<1>7. PICK c \in Nat : c = C[WIDTH]
  BY <1>1, <1>3
<1>8. Value(r) + c * Size = Value(a) + 1
  BY <1>1, <1>6, <1>7 DEF Value
<1>9. Value(a) \in Nat /\ Value(r) \in Nat
  BY <1>5, NumFacts
<1>10. Value(a) + 1 \in Int /\ c \in Int /\ Value(a) + 1 = c * Size + Value(r)
  BY <1>1, <1>8, <1>9
<1>11. Value(r) = (Value(a) + 1) % Size
  BY <1>5, <1>10, ValueIsMod
<1> QED
  BY <1>5, <1>11 DEF r

\* operator-- is a one that ripples back through the limbs which are 0.
LEMMA DecrementValue ==
    ASSUME NEW a \in Num
    PROVE  Decrement(a) \in Num /\ Value(Decrement(a)) = (Value(a) - 1) % Size
<1> DEFINE r == Decrement(a)
           C == [k \in 0..WIDTH |-> IF \A j \in 0..k - 1 : a[j] = 0 THEN 1 ELSE 0]
<1>1. WIDTH \in Nat /\ Limb \in Nat /\ Limb >= 4 /\ LimbBits \in Nat /\ Size = Pow2[WIDTH * LimbBits] /\ Size \in Nat
  BY SizeFacts
<1>2. Index = 0..WIDTH - 1 /\ \A i \in 0..WIDTH - 1 : a[i] \in Nat /\ a[i] < Limb
  BY NumFacts
<1>3. C[0] = 1 /\ \A i \in 0..WIDTH : C[i] \in {0, 1}
  BY <1>1
<1>4. ASSUME NEW i \in 0..WIDTH - 1
      PROVE  r[i] \in 0..Limb - 1 /\ a[i] + C[i + 1] * Limb = r[i] + C[i]
  <2> DEFINE none(k) == \A j \in 0..k - 1 : a[j] = 0
  <2>1. i \in Index /\ i \in 0..WIDTH /\ i + 1 \in 0..WIDTH
    BY <1>1, <1>2
  <2>2. none(i + 1) <=> none(i) /\ a[i] = 0
    <3>1. (0..(i + 1) - 1) = (0..i - 1) \cup {i}
      BY <1>1
    <3> QED
      BY <3>1
  <2>3. r[i] = IF none(i) THEN (a[i] - 1) % Limb ELSE a[i]
    BY <2>1 DEF Decrement
  <2>4. C[i] = (IF none(i) THEN 1 ELSE 0) /\ C[i + 1] = (IF none(i + 1) THEN 1 ELSE 0)
    BY <2>1
  <2> HIDE DEF none, C, r
  <2>5. a[i] = 0 => (a[i] - 1) % Limb = Limb - 1
    <3>1. Limb - 1 \in Nat /\ -1 \in Int /\ -1 = (-1) * Limb + (Limb - 1) /\ Limb - 1 < Limb
      BY <1>1
    <3>2. (-1) % Limb = Limb - 1
      BY <1>1, <3>1, ModIs
    <3> QED
      BY <1>1, <3>2
  <2>6. a[i] # 0 => (a[i] - 1) % Limb = a[i] - 1
    <3>1. a[i] # 0 => a[i] - 1 \in Nat /\ a[i] - 1 < Limb
      BY <1>1, <1>2
    <3> QED
      BY <1>1, <3>1, ModSmall
  <2>7. a[i] \in Nat /\ a[i] < Limb
    BY <1>2
  <2> QED
    BY <1>1, <2>2, <2>3, <2>4, <2>5, <2>6, <2>7
<1>5. r \in Num
  BY <1>2, <1>4 DEF Num, Decrement
<1> HIDE DEF r, C
<1>6. FromDigits(a, LimbBits, WIDTH) + C[WIDTH] * Pow2[WIDTH * LimbBits] = FromDigits(r, LimbBits, WIDTH) + 1
  <2>1. \A i \in 0..WIDTH - 1 : r[i] \in Nat /\ a[i] \in Nat /\ a[i] + C[i + 1] * Limb = r[i] + C[i]
    BY <1>2, <1>4
  <2> QED
    BY <1>1, <1>3, <2>1, Ripple, ZenonT(30)
<1>7. PICK c \in {0, 1} : c = C[WIDTH]
  BY <1>1, <1>3
<1>8. Value(a) + c * Size = Value(r) + 1
  BY <1>1, <1>6, <1>7 DEF Value
<1>9. Value(a) \in Nat /\ Value(r) \in Nat
  BY <1>5, NumFacts
<1>10. Value(a) - 1 \in Int /\ -c \in Int /\ Value(a) - 1 = (-c) * Size + Value(r)
  BY <1>1, <1>8, <1>9
<1>11. Value(r) = (Value(a) - 1) % Size
  BY <1>5, <1>10, ValueIsMod
<1> QED
  BY <1>5, <1>11 DEF r

\* operator~ gives what is missing to the highest number.
LEMMA ComplementValue ==
    ASSUME NEW a \in Num
    PROVE  Complement(a) \in Num /\ Value(Complement(a)) = Size - 1 - Value(a)
<1> DEFINE r == Complement(a)
           t == [i \in Index |-> Limb - 1]
           z == [i \in Index |-> 0]
           C == [k \in 0..WIDTH |-> 1]
<1>1. WIDTH \in Nat /\ Limb \in Nat /\ Limb >= 4 /\ LimbBits \in Nat /\ Size = Pow2[WIDTH * LimbBits] /\ Size \in Nat
  BY SizeFacts
<1>2. Index = 0..WIDTH - 1 /\ \A i \in 0..WIDTH - 1 : a[i] \in Nat /\ a[i] < Limb
  BY NumFacts
<1>3. /\ C[0] = 1 /\ C[WIDTH] = 1 /\ \A i \in 0..WIDTH : C[i] \in {0, 1}
      /\ \A i \in 0..WIDTH - 1 : C[i] = 1 /\ C[i + 1] = 1
  BY <1>1
<1>4. \A i \in 0..WIDTH - 1 : r[i] = Limb - 1 - a[i] /\ t[i] = Limb - 1 /\ z[i] = 0
  BY <1>2 DEF Complement
<1>5. r \in Num
  BY <1>1, <1>2, <1>4 DEF Num, Complement
<1>6. z = Zero
  BY DEF Zero
<1> HIDE DEF r, t, z, C
<1>7. FromDigits(z, LimbBits, WIDTH) + C[WIDTH] * Pow2[WIDTH * LimbBits] = FromDigits(t, LimbBits, WIDTH) + 1
  <2>1. \A i \in 0..WIDTH - 1 : t[i] \in Nat /\ z[i] \in Nat /\ z[i] + C[i + 1] * Limb = t[i] + C[i]
    BY <1>1, <1>3, <1>4
  <2>2. WIDTH \in Nat /\ C[0] = 1 /\ \A i \in 0..WIDTH : C[i] \in {0, 1}
    BY <1>1, <1>3
  <2> QED
    BY <2>1, <2>2, Ripple
<1>8. FromDigits(z, LimbBits, WIDTH) = 0
  BY <1>6, ZeroValue, Zenon DEF Value
<1>9. FromDigits(t, LimbBits, WIDTH) = FromDigits(r, LimbBits, WIDTH) + 1 * FromDigits(a, LimbBits, WIDTH)
  <2>1. \A i \in 0..WIDTH - 1 : r[i] \in Nat /\ a[i] \in Nat /\ t[i] = r[i] + 1 * a[i]
    BY <1>1, <1>2, <1>4
  <2>2. 1 \in Nat
    OBVIOUS
  <2> QED
    BY <1>1, <2>1, <2>2, FromDigitsPlus
<1>10. PICK u \in Nat, v \in Nat : u = Value(r) /\ v = Value(a)
  BY <1>5, NumFacts
<1>11. FromDigits(t, LimbBits, WIDTH) = u + v
  <2>1. u = FromDigits(r, LimbBits, WIDTH) /\ v = FromDigits(a, LimbBits, WIDTH)
    BY <1>10, Zenon DEF Value
  <2> QED
    BY <1>9, <2>1
<1>12. 0 + 1 * Size = (u + v) + 1
  BY <1>1, <1>3, <1>7, <1>8, <1>11
<1>13. u = Size - 1 - v
  BY <1>1, <1>12
<1> QED
  BY <1>5, <1>10, <1>13 DEF r

LEMMA NegativeValue ==
    ASSUME NEW a \in Num
    PROVE  Negative(a) \in Num /\ Value(Negative(a)) = (-Value(a)) % Size
<1>1. Size \in Nat /\ Size > 0
  BY SizeFacts
<1>2. PICK v \in Nat : v = Value(a) /\ v < Size
  BY NumFacts
<1>3. Complement(a) \in Num /\ Value(Complement(a)) = Size - 1 - v
  BY <1>2, ComplementValue
<1>4. Negative(a) \in Num /\ Value(Negative(a)) = (Size - 1 - v + 1) % Size
  BY <1>3, IncrementValue DEF Negative
<1>5. (Size - 1 - v + 1) % Size = (-v) % Size
  <2>1. Size - 1 - v + 1 = -v + 1 * Size /\ Size - 1 - v + 1 \in Int /\ -v \in Int /\ 1 \in Int
    BY <1>1
  <2> QED
    BY <1>1, <2>1, ModShift
<1> QED
  BY <1>2, <1>4, <1>5

\* operator-= adds the negative.
LEMMA MinusValue ==
    ASSUME NEW a \in Num, NEW b \in Num
    PROVE  Minus(a, b) \in Num /\ Value(Minus(a, b)) = (Value(a) - Value(b)) % Size
<1>1. Size \in Nat /\ Size > 0
  BY SizeFacts
<1>2. PICK u \in Nat, v \in Nat : u = Value(a) /\ v = Value(b) /\ v < Size
  BY NumFacts
<1>3. PICK w \in Nat : w = Value(Negative(b)) /\ w = (-v) % Size
  BY <1>2, NegativeValue, NumFacts
<1>4. Minus(a, b) \in Num /\ Value(Minus(a, b)) = (u + w) % Size
  BY <1>2, <1>3, NegativeValue, PlusValue DEF Minus
<1>5. PICK k \in Int : -v = k * Size + w
  <2>1. PICK x \in Int : x = -v
    BY <1>2
  <2>2. x \div Size \in Int /\ x = (x \div Size) * Size + (x % Size)
    BY <1>1, IntDivFacts
  <2> QED
    BY <1>3, <2>1, <2>2
<1>6. (u + w) % Size = (u - v) % Size
  <2>1. PICK g \in Int : g = k * Size
    BY <1>1
  <2>2. u + w = (u - v) + (-k) * Size
    <3>1. (-k) * Size = -g
      BY <1>1, <2>1
    <3>2. -v = g + w
      BY <1>5, <2>1
    <3> QED
      BY <3>1, <3>2
  <2>3. PICK x \in Int, z \in Int, l \in Int : x = u + w /\ z = u - v /\ l = -k
    OBVIOUS
  <2>4. x = z + l * Size
    BY <2>2, <2>3
  <2>5. Congruent(x, z, Size)
    BY <2>4 DEF Congruent
  <2>6. x % Size = z % Size
    BY <1>1, <2>5, CongruentMod
  <2> QED
    BY <2>3, <2>6
<1> QED
  BY <1>2, <1>4, <1>6

-----------------------------------------------------------------------------
(* Shifts *)

\* A number below b = p * t, cut at t and shifted by p.
Factors(p, t, b) == p \in Nat /\ p > 0 /\ t \in Nat /\ t > 0 /\ b = p * t

LEMMA CutAndShift ==
    ASSUME NEW p, NEW t, NEW b, Factors(p, t, b), NEW x \in Nat, x < b
    PROVE  /\ x \div t \in Nat /\ x \div t < p /\ x \div t + 1 <= p
           /\ (x % t) * p \in Nat /\ (x % t) * p + p <= b
           /\ (x * p) % b = (x % t) * p
           /\ x * p = (x \div t) * b + (x % t) * p
<1>0. p \in Nat /\ p > 0 /\ t \in Nat /\ t > 0 /\ b = p * t /\ b \in Nat
  BY DEF Factors
<1>1. PICK q \in Nat, y \in Nat : q = x \div t /\ y = x % t /\ x = q * t + y /\ y < t
  BY <1>0, DivFacts
<1>2. q < p
  BY <1>0, <1>1, DivIsGreatest
<1>3. y * p \in Nat /\ y * p + p <= b
  <2>1. y + 1 <= t /\ y + 1 \in Nat
    BY <1>0, <1>1
  <2>2. (y + 1) * p <= t * p
    BY <1>0, <2>1, TimesMono
  <2>3. (y + 1) * p = y * p + p /\ t * p = p * t /\ y * p \in Nat
    BY <1>0
  <2> QED
    BY <1>0, <2>2, <2>3
<1>4. x * p = q * b + y * p
  <2>1. (q * t + y) * p = q * (p * t) + y * p
    BY <1>0
  <2> QED
    BY <1>0, <1>1, <2>1
<1>5. (x * p) % b = y * p
  <2>1. PICK w \in Int, r \in Nat, k \in Int : w = x * p /\ r = y * p /\ k = q
    <3>1. x * p \in Int
      BY <1>0
    <3> QED
      BY <1>3, <3>1
  <2>2. w = k * b + r /\ r < b
    <3>1. r + p <= b
      BY <1>3, <2>1
    <3>2. w = k * b + r
      BY <1>4, <2>1
    <3> QED
      BY <1>0, <3>1, <3>2
  <2>3. w % b = r
    BY <1>0, <2>2, ModIs
  <2> QED
    BY <2>1, <2>3
<1> QED
  BY <1>0, <1>1, <1>2, <1>3, <1>4, <1>5

\* A shift by n, as limbs k and bits s.
LEMMA ShiftFacts ==
    ASSUME NEW n \in Nat, NEW k, NEW s, k = n \div LimbBits, s = n % LimbBits
    PROVE  /\ k \in Nat /\ s \in 0..LimbBits - 1 /\ s \in Nat /\ LimbBits - s \in Nat
           /\ n = k * LimbBits + s
           /\ Pow2[s] \in Nat /\ Pow2[s] > 0 /\ Pow2[LimbBits - s] \in Nat /\ Pow2[LimbBits - s] > 0
           /\ Limb = Pow2[s] * Pow2[LimbBits - s]
           /\ s = 0 => Pow2[s] = 1
           /\ Pow2[k * LimbBits] \in Nat /\ Pow2[k * LimbBits] > 0
           /\ Pow2[n] = Pow2[k * LimbBits] * Pow2[s]
<1>1. LimbBits \in Nat /\ LimbBits > 0 /\ Limb = Pow2[LimbBits]
  BY SizeFacts
<1>2. k \in Nat /\ s \in 0..LimbBits - 1 /\ n = k * LimbBits + s
  BY <1>1, DivFacts
<1>3. s \in Nat /\ LimbBits - s \in Nat /\ s + (LimbBits - s) = LimbBits
  BY <1>1, <1>2
<1>4. Pow2[s] \in Nat /\ Pow2[s] > 0 /\ Pow2[LimbBits - s] \in Nat /\ Pow2[LimbBits - s] > 0
  BY <1>3, Pow2Positive
<1>5. Limb = Pow2[s] * Pow2[LimbBits - s]
  BY <1>1, <1>3, Pow2Sum
<1>6. k * LimbBits \in Nat /\ Pow2[k * LimbBits] \in Nat /\ Pow2[k * LimbBits] > 0
  BY <1>1, <1>2, PowType
<1>7. Pow2[n] = Pow2[k * LimbBits] * Pow2[s]
  BY <1>2, <1>3, <1>6, Pow2Sum, ZenonT(30)
<1> QED
  BY <1>2, <1>3, <1>4, <1>5, <1>6, <1>7, Pow2Def

\* A number whose low limbs are 0.
LEMMA LowZero ==
    ASSUME NEW j \in Nat, NEW d, \A i \in 0..j - 1 : d[i] = 0
    PROVE  FromDigits(d, LimbBits, j) = 0
<1>1. LimbBits \in Nat
  BY SizeFacts
<1>2. \A i \in 0..j - 1 : d[i] \in Nat /\ d[i] = d[i] + 1 * d[i]
  OBVIOUS
<1>3. 1 \in Nat
  OBVIOUS
<1>4. FromDigits(d, LimbBits, j) = FromDigits(d, LimbBits, j) + 1 * FromDigits(d, LimbBits, j)
  BY <1>1, <1>2, <1>3, FromDigitsPlus
<1>5. PICK v \in Nat : v = FromDigits(d, LimbBits, j)
  BY <1>1, <1>2, FromDigitsType
<1>6. v = v + 1 * v
  BY <1>4, <1>5, Zenon
<1>7. v = 0
  BY <1>6
<1> QED
  BY <1>5, <1>7

\* Multiplies every digit.
LEMMA FromDigitsTimes ==
    ASSUME NEW n \in Nat, NEW w \in Nat, NEW d, NEW f, \A i \in 0..n - 1 : d[i] \in Nat /\ f[i] = w * d[i]
    PROVE  FromDigits(f, LimbBits, n) = w * FromDigits(d, LimbBits, n)
<1> DEFINE z == [i \in 0..n - 1 |-> 0]
<1>1. LimbBits \in Nat
  BY SizeFacts
<1>2. \A i \in 0..n - 1 : z[i] = 0
  OBVIOUS
<1> HIDE DEF z
<1>3. ASSUME NEW i \in 0..n - 1 PROVE z[i] \in Nat /\ d[i] \in Nat /\ f[i] = z[i] + w * d[i]
  <2>1. PICK x \in Nat : x = w * d[i]
    OBVIOUS
  <2> QED
    BY <1>2, <2>1
<1>4. FromDigits(f, LimbBits, n) = FromDigits(z, LimbBits, n) + w * FromDigits(d, LimbBits, n)
  BY <1>1, <1>3, FromDigitsPlus
<1>5. FromDigits(z, LimbBits, n) = 0
  BY <1>2, LowZero
<1>6. PICK v \in Nat : v = FromDigits(d, LimbBits, n)
  BY <1>1, FromDigitsType
<1>7. w * v \in Nat
  BY <1>6
<1> QED
  BY <1>4, <1>5, <1>6, <1>7

\* operator<<=
LEMMA ShiftLeftValue ==
    ASSUME NEW a \in Num, NEW n \in Nat
    PROVE  ShiftLeft(a, n) \in Num /\ Value(ShiftLeft(a, n)) = (Value(a) * Pow2[n]) % Size
<1> DEFINE k == n \div LimbBits
           s == n % LimbBits
           p == Pow2[s]
           t == Pow2[LimbBits - s]
           m == WIDTH - k
           hi(x) == IF s # 0 THEN a[x] \div t ELSE 0
           lo(x) == (a[x] * p) % Limb
           C == [x \in 0..m |-> IF x = 0 THEN 0 ELSE hi(x - 1)]
           e == [x \in 0..m - 1 |-> C[x] + lo(x)]
           d == [x \in 0..m - 1 |-> p * a[x]]
           r == ShiftLeft(a, n)
<1>1. /\ WIDTH \in Nat /\ LimbBits \in Nat /\ Limb \in Nat /\ Limb >= 4 /\ Size \in Nat /\ Size > 0
  BY SizeFacts
<1>2. Index = 0..WIDTH - 1 /\ \A i \in 0..WIDTH - 1 : a[i] \in Nat /\ a[i] < Limb
  BY NumFacts
<1>3. /\ k \in Nat /\ s \in 0..LimbBits - 1 /\ p \in Nat /\ p > 0 /\ t \in Nat /\ t > 0 /\ Limb = p * t
      /\ s = 0 => p = 1
      /\ Pow2[k * LimbBits] \in Nat /\ Pow2[k * LimbBits] > 0 /\ Pow2[n] = Pow2[k * LimbBits] * p
  BY ShiftFacts
<1>4. \A i \in Index : r[i] = (IF i - k - 1 >= 0 /\ s # 0 THEN a[i - k - 1] \div t ELSE 0)
                              + (IF i - k >= 0 THEN lo(i - k) ELSE 0)
  BY DEF ShiftLeft
<1>4a. r = [i \in Index |-> r[i]]
  BY DEF ShiftLeft
<1> HIDE DEF k, s, p, t, r
<1>5. ASSUME NEW x \in 0..WIDTH - 1
      PROVE  hi(x) \in Nat /\ hi(x) < p /\ lo(x) \in Nat /\ lo(x) + p <= Limb /\ p * a[x] = hi(x) * Limb + lo(x)
  <2>1. PICK y \in Nat : y = a[x] /\ y < Limb
    BY <1>2
  <2>2. /\ y \div t \in Nat /\ y \div t < p
        /\ (y % t) * p \in Nat /\ (y % t) * p + p <= Limb
        /\ (y * p) % Limb = (y % t) * p
        /\ y * p = (y \div t) * Limb + (y % t) * p
    <3>1. Factors(p, t, Limb)
      BY <1>3 DEF Factors
    <3> QED
      BY <2>1, <3>1, CutAndShift
  <2>3. hi(x) = y \div t
    BY <1>3, <2>1, <2>2
  <2>4. lo(x) = (y % t) * p
    BY <2>1, <2>2
  <2>5. y * p = p * a[x]
    BY <1>3, <2>1
  <2> HIDE DEF hi, lo
  <2> QED
    BY <2>2, <2>3, <2>4, <2>5
<1> HIDE DEF hi, lo
<1>6. CASE k >= WIDTH
  <2>1. \A i \in Index : r[i] = 0
    <3> TAKE i \in Index
    <3>1. ~(i - k - 1 >= 0) /\ ~(i - k >= 0)
      BY <1>1, <1>2, <1>3, <1>6
    <3> QED
      BY <1>4, <3>1
  <2>2. r = Zero
    BY <1>4a, <2>1 DEF Zero
  <2>3. r \in Num /\ Value(r) = 0
    BY <2>2, ZeroValue
  <2>4. k - WIDTH \in Nat /\ k = WIDTH + (k - WIDTH)
    BY <1>1, <1>3, <1>6
  <2>5. PICK q \in Nat : Pow2[k * LimbBits] = Size * q
    <3>1. Pow2[(WIDTH + (k - WIDTH)) * LimbBits] = Pow2[WIDTH * LimbBits] * Pow2[(k - WIDTH) * LimbBits]
      BY <1>1, <2>4, PowSplit
    <3>2. Pow2[(k - WIDTH) * LimbBits] \in Nat
      BY <1>1, <2>4, PowType
    <3> QED
      BY <2>4, <3>1, <3>2, SizeFacts
  <2>6. PICK v \in Nat : v = Value(a)
    BY NumFacts
  <2>7. v * Pow2[n] = (v * q * p) * Size + 0
    <3>1. v * ((Size * q) * p) = (v * q * p) * Size + 0
      BY <1>1, <1>3
    <3> QED
      BY <1>3, <2>5, <3>1
  <2>8. v * Pow2[n] \in Int /\ v * q * p \in Int
    <3>1. Pow2[n] \in Nat
      BY <1>3
    <3> QED
      BY <1>3, <3>1
  <2>9. v * Pow2[n] = (v * q * p) * Size + Value(r)
    BY <2>3, <2>7
  <2>10. Value(r) = (v * Pow2[n]) % Size
    BY <2>3, <2>8, <2>9, ValueIsMod
  <2> QED
    BY <2>3, <2>6, <2>10 DEF r
<1>7. CASE k < WIDTH
  <2>1. m \in Nat /\ m <= WIDTH /\ k \in 0..WIDTH /\ m \in 0..WIDTH /\ WIDTH - m = k /\ m = WIDTH - k
    BY <1>1, <1>3, <1>7
  <2>2. \A x \in 0..m - 1 : x \in 0..WIDTH - 1
    BY <1>1, <2>1
  <2>3. ASSUME NEW x \in 0..m PROVE C[x] \in Nat /\ C[x] < p /\ (x # 0 => C[x] = hi(x - 1))
    <3>1. x # 0 => x - 1 \in 0..WIDTH - 1
      BY <1>1, <2>1
    <3> QED
      BY <1>3, <1>5, <3>1
  <2>3a. C[0] = 0
    BY <2>1
  <2>4. \A x \in 0..m - 1 : e[x] = C[x] + lo(x) /\ d[x] = p * a[x]
    BY <2>1
  <2> HIDE DEF C, e, d, m
  <2>5. ASSUME NEW x \in 0..m - 1
        PROVE  /\ d[x] \in Nat /\ e[x] \in Nat /\ e[x] < Limb /\ e[x] + C[x + 1] * Limb = d[x] + C[x]
               /\ a[x] \in Nat /\ d[x] = p * a[x]
    <3>1. x \in 0..m /\ x + 1 \in 0..m /\ x + 1 # 0 /\ (x + 1) - 1 = x /\ x \in 0..WIDTH - 1
      BY <2>1, <2>2
    <3>2. PICK h \in Nat, l \in Nat, c \in Nat : h = hi(x) /\ l = lo(x) /\ c = C[x]
      BY <1>5, <2>3, <3>1
    <3>3. C[x + 1] = h
      BY <2>3, <3>1, <3>2
    <3>4. c < p /\ l + p <= Limb /\ p * a[x] = h * Limb + l
      BY <1>5, <2>3, <3>1, <3>2
    <3>5. e[x] = c + l /\ d[x] = h * Limb + l
      BY <2>4, <3>2, <3>4
    <3>6. PICK g \in Nat : g = h * Limb
      BY <1>1
    <3>7. a[x] \in Nat /\ d[x] = p * a[x]
      BY <1>2, <2>4, <3>1
    <3>8. e[x] \in Nat /\ e[x] < Limb /\ d[x] \in Nat /\ e[x] + g = d[x] + c
      BY <1>1, <1>3, <3>4, <3>5, <3>6
    <3> QED
      BY <3>2, <3>3, <3>6, <3>7, <3>8
  <2>6. FromDigits(e, LimbBits, m) + C[m] * Pow2[m * LimbBits] = FromDigits(d, LimbBits, m) + C[0]
    <3>1. IsChain(d, e, C, m)
      BY <2>3, <2>5 DEF IsChain
    <3> QED
      BY <2>1, <3>1, Chain
  <2>7. FromDigits(d, LimbBits, m) = p * FromDigits(a, LimbBits, m)
    <3>1. \A i \in 0..m - 1 : a[i] \in Nat /\ d[i] = p * a[i]
      BY <2>5, Zenon
    <3>2. m \in Nat /\ p \in Nat
      BY <1>3, <2>1
    <3> QED
      BY <3>1, <3>2, FromDigitsTimes, Zenon
  <2>8. \A i \in 0..k - 1 : r[i] = 0
    <3> TAKE i \in 0..k - 1
    <3>1. i \in Index /\ ~(i - k - 1 >= 0) /\ ~(i - k >= 0)
      BY <1>1, <1>2, <1>3, <1>7
    <3> QED
      BY <1>4, <3>1
  <2>9. ASSUME NEW x \in 0..m - 1 PROVE e[x] = r[x + k]
    <3>1. /\ x + k \in Index /\ (x + k) - k >= 0 /\ (x + k) - k = x /\ (x + k) - k - 1 = x - 1
          /\ x - 1 >= 0 <=> x # 0
      BY <1>1, <1>2, <1>3, <2>1
    <3>2. r[x + k] = (IF x # 0 /\ s # 0 THEN a[x - 1] \div t ELSE 0) + lo(x)
      BY <1>4, <3>1
    <3>3. x \in 0..m /\ (x # 0 => C[x] = hi(x - 1)) /\ (x = 0 => C[x] = 0)
      BY <2>1, <2>3, <2>3a
    <3>4. C[x] = IF x # 0 /\ s # 0 THEN a[x - 1] \div t ELSE 0
      BY <3>3 DEF hi
    <3> QED
      BY <2>4, <3>2, <3>4
  <2>10. r \in Num
    <3>1. ASSUME NEW i \in Index PROVE r[i] \in 0..Limb - 1
      <4>1. CASE i < k
        <5>1. i \in 0..k - 1
          BY <1>2, <1>3, <4>1
        <5> QED
          BY <1>1, <2>8, <5>1
      <4>2. CASE ~(i < k)
        <5>1. i - k \in 0..m - 1 /\ (i - k) + k = i
          BY <1>1, <1>2, <1>3, <2>1, <4>2
        <5>2. e[i - k] \in Nat /\ e[i - k] < Limb /\ r[i] = e[i - k]
          BY <2>5, <2>9, <5>1
        <5> QED
          BY <1>1, <5>2
      <4> QED
        BY <4>1, <4>2
    <3> QED
      BY <1>4a, <3>1 DEF Num
  <2>11. PICK fe \in Nat, fa \in Nat, c \in Nat : fe = FromDigits(e, LimbBits, m) /\ fa = FromDigits(a, LimbBits, m) /\ c = C[m]
    <3>1. \A x \in 0..m - 1 : e[x] \in Nat /\ a[x] \in Nat
      BY <2>5
    <3>2. C[m] \in Nat
      BY <2>1, <2>3
    <3> QED
      BY <1>1, <2>1, <3>1, <3>2, FromDigitsType
  <2>12. PICK q \in Nat, w \in Nat : q = Pow2[k * LimbBits] /\ w = Pow2[m * LimbBits] /\ Size = q * w
    <3>1. \A i \in 0..(WIDTH - k) - 1 : e[i] = r[i + k]
      BY <2>1, <2>9
    <3> QED
      BY <2>1, <2>10, <3>1, CutAt
  <2>13. Value(r) = q * fe
    <3>1. \A i \in 0..(WIDTH - k) - 1 : e[i] = r[i + k]
      BY <2>1, <2>9
    <3>2. Value(r) = FromDigits(r, LimbBits, k) + q * fe
      BY <2>1, <2>10, <2>11, <2>12, <3>1, CutAt
    <3>3. FromDigits(r, LimbBits, k) = 0
      BY <1>3, <2>8, LowZero
    <3>4. q * fe \in Nat
      OBVIOUS
    <3> QED
      BY <3>2, <3>3, <3>4
  <2>14. PICK ah \in Nat : Value(a) = fa + w * ah
    <3> DEFINE h == [i \in 0..k - 1 |-> a[i + m]]
    <3>1. \A i \in 0..(WIDTH - m) - 1 : h[i] = a[i + m]
      BY <2>1
    <3> HIDE DEF h
    <3>2. /\ Value(a) = FromDigits(a, LimbBits, m) + Pow2[m * LimbBits] * FromDigits(h, LimbBits, WIDTH - m)
          /\ FromDigits(h, LimbBits, WIDTH - m) \in Nat
      BY <2>1, <3>1, CutAt
    <3> QED
      BY <2>11, <2>12, <3>2
  <2>15. fe + c * w = p * fa
    <3>1. p * fa \in Nat
      BY <1>3
    <3> QED
      BY <2>3a, <2>6, <2>7, <2>11, <2>12, <3>1
  <2>16. Value(a) * Pow2[n] = (c + ah * p) * (q * w) + q * fe
    <3>1. (fa + w * ah) * (q * p) = q * (p * fa) + (ah * p) * (q * w)
      BY <1>3
    <3>2. q * (fe + c * w) = q * fe + c * (q * w)
      OBVIOUS
    <3>3. (c + ah * p) * (q * w) = c * (q * w) + (ah * p) * (q * w)
      BY <1>3
    <3>4. Value(a) * Pow2[n] = (fa + w * ah) * (q * p)
      BY <1>3, <2>12, <2>14
    <3>5. PICK n1 \in Nat, n2 \in Nat, n3 \in Nat : n1 = q * fe /\ n2 = c * (q * w) /\ n3 = (ah * p) * (q * w)
      BY <1>3
    <3>6. Value(a) * Pow2[n] = (n1 + n2) + n3
      BY <2>15, <3>1, <3>2, <3>4, <3>5
    <3> QED
      BY <3>3, <3>5, <3>6
  <2>17. PICK x \in Int, g \in Int : x = Value(a) * Pow2[n] /\ g = c + ah * p
    <3>1. Value(a) \in Nat /\ Pow2[n] \in Nat
      BY Pow2Positive, NumFacts
    <3> QED
      BY <1>3, <3>1
  <2>18. x = g * Size + Value(r)
    BY <2>12, <2>13, <2>16, <2>17
  <2>19. Value(r) = x % Size
    BY <2>10, <2>18, ValueIsMod
  <2> QED
    BY <2>10, <2>17, <2>19 DEF r
<1> QED
  BY <1>1, <1>3, <1>6, <1>7

\* operator>>=
LEMMA ShiftRightValue ==
    ASSUME NEW a \in Num, NEW n \in Nat
    PROVE  ShiftRight(a, n) \in Num /\ Value(ShiftRight(a, n)) = Value(a) \div Pow2[n]
<1> DEFINE k == n \div LimbBits
           s == n % LimbBits
           p == Pow2[s]
           t == Pow2[LimbBits - s]
           m == WIDTH - k
           C == [x \in 0..m |-> IF x < m THEN a[x + k] % p ELSE 0]
           h == [x \in 0..m - 1 |-> a[x + k]]
           e == [x \in 0..m - 1 |-> C[x + 1] * t + h[x] \div p]
           d == [x \in 0..m - 1 |-> p * e[x]]
           r == ShiftRight(a, n)
<1>1. /\ WIDTH \in Nat /\ LimbBits \in Nat /\ Limb \in Nat /\ Limb >= 4 /\ Size \in Nat /\ Size > 0
  BY SizeFacts
<1>2. Index = 0..WIDTH - 1 /\ \A i \in 0..WIDTH - 1 : a[i] \in Nat /\ a[i] < Limb
  BY NumFacts
<1>3. /\ k \in Nat /\ s \in 0..LimbBits - 1 /\ p \in Nat /\ p > 0 /\ t \in Nat /\ t > 0 /\ Limb = p * t
      /\ s = 0 => p = 1
      /\ Pow2[k * LimbBits] \in Nat /\ Pow2[k * LimbBits] > 0 /\ Pow2[n] = Pow2[k * LimbBits] * p
  BY ShiftFacts
<1>4. \A i \in Index : r[i] = (IF i + k + 1 < WIDTH /\ s # 0 THEN (a[i + k + 1] * t) % Limb ELSE 0)
                              + (IF i + k < WIDTH THEN a[i + k] \div p ELSE 0)
  BY DEF ShiftRight
<1>4a. r = [i \in Index |-> r[i]]
  BY DEF ShiftRight
<1> HIDE DEF k, s, p, t, r
<1>5. ASSUME NEW x \in 0..WIDTH - 1
      PROVE  /\ a[x] \div p \in Nat /\ a[x] \div p + 1 <= t
             /\ a[x] % p \in Nat /\ a[x] % p < p /\ a[x] = (a[x] \div p) * p + (a[x] % p)
             /\ (a[x] % p) * t + t <= Limb
             /\ s # 0 => (a[x] * t) % Limb = (a[x] % p) * t
             /\ s = 0 => a[x] % p = 0
  <2>1. PICK y \in Nat : y = a[x] /\ y < Limb
    BY <1>2
  <2>2. Factors(t, p, Limb)
    BY <1>3 DEF Factors
  <2>3. /\ y \div p \in Nat /\ y \div p + 1 <= t
        /\ (y % p) * t + t <= Limb
        /\ (y * t) % Limb = (y % p) * t
    BY <2>1, <2>2, CutAndShift
  <2>4. y % p \in Nat /\ y % p < p /\ y = (y \div p) * p + (y % p)
    BY <1>3, DivFacts
  <2>5. s = 0 => y % p = 0
    BY <1>3, <2>4
  <2> QED
    BY <2>1, <2>3, <2>4, <2>5
<1>6. CASE k >= WIDTH
  <2>1. \A i \in Index : r[i] = 0
    <3> TAKE i \in Index
    <3>1. ~(i + k + 1 < WIDTH) /\ ~(i + k < WIDTH)
      BY <1>1, <1>2, <1>3, <1>6
    <3> QED
      BY <1>4, <3>1
  <2>2. r = Zero
    BY <1>4a, <2>1 DEF Zero
  <2>3. r \in Num /\ Value(r) = 0
    BY <2>2, ZeroValue
  <2>4. Pow2[n] \in Nat /\ Pow2[n] > 0 /\ Size <= Pow2[n]
    <3>1. WIDTH * LimbBits \in Nat /\ WIDTH * LimbBits <= k * LimbBits
      BY <1>1, <1>3, <1>6, TimesMono
    <3>2. k * LimbBits \in Nat /\ n = k * LimbBits + s /\ s \in Nat
      <4>1. n = k * LimbBits + s /\ s \in Nat
        BY ShiftFacts DEF k, s
      <4> QED
        BY <1>1, <1>3, <4>1
    <3>3. WIDTH * LimbBits <= n
      BY <3>1, <3>2
    <3> QED
      BY <3>1, <3>3, Pow2Mono, Pow2Positive, SizeFacts
  <2>5. PICK v \in Nat : v = Value(a) /\ v < Size
    BY NumFacts
  <2>6. v \div Pow2[n] = 0
    <3>1. 0 \in Nat /\ 0 * Pow2[n] <= v /\ v < (0 + 1) * Pow2[n]
      BY <1>1, <2>4, <2>5
    <3> QED
      BY <2>4, <3>1, DivIs
  <2> QED
    BY <2>3, <2>5, <2>6 DEF r
<1>7. CASE k < WIDTH
  <2>1. m \in Nat /\ m <= WIDTH /\ k \in 0..WIDTH /\ m \in 0..WIDTH /\ WIDTH - m = k /\ m = WIDTH - k
    BY <1>1, <1>3, <1>7
  <2>2. \A x \in 0..m - 1 : x + k \in 0..WIDTH - 1 /\ x \in 0..WIDTH - 1 /\ x \in 0..m /\ x + 1 \in 0..m
    BY <1>1, <2>1
  <2>3. C[m] = 0 /\ \A x \in 0..m - 1 : C[x] = a[x + k] % p
    BY <1>1, <2>1
  <2>3a. \A x \in 0..m - 1 : h[x] = a[x + k]
    BY <2>1
  <2>4. \A x \in 0..m - 1 : e[x] = C[x + 1] * t + h[x] \div p /\ d[x] = p * e[x]
    BY <2>1
  <2> HIDE DEF C, e, d, h, m
  <2>5. ASSUME NEW x \in 0..m PROVE C[x] \in Nat /\ C[x] < p /\ C[x] * t + t <= Limb
    <3>1. CASE x = m
      <4>1. 0 * t + t <= p * t
        <5>1. 1 * t <= p * t
          BY <1>3, TimesMono
        <5> QED
          BY <1>3, <5>1
      <4>2. C[x] = 0 /\ 0 < p
        BY <1>3, <2>3, <3>1
      <4>3. C[x] * t + t <= Limb
        BY <1>3, <4>1, <4>2
      <4> QED
        BY <4>2, <4>3
    <3>2. CASE x # m
      <4>1. x \in 0..m - 1
        BY <2>1, <3>2
      <4>2. x + k \in 0..WIDTH - 1 /\ C[x] = a[x + k] % p
        BY <2>2, <2>3, <4>1
      <4>3. /\ a[x + k] % p \in Nat /\ a[x + k] % p < p
            /\ (a[x + k] % p) * t + t <= Limb
        BY <1>5, <4>2
      <4> QED
        BY <4>2, <4>3
    <3> QED
      BY <3>1, <3>2
  <2>6. ASSUME NEW x \in 0..m - 1
        PROVE  /\ d[x] \in Nat /\ h[x] \in Nat /\ e[x] \in Nat /\ e[x] < Limb
               /\ h[x] + C[x + 1] * Limb = d[x] + C[x] /\ d[x] = p * e[x]
    <3>1. x \in 0..m /\ x + 1 \in 0..m /\ x + k \in 0..WIDTH - 1
      BY <2>2
    <3>2. PICK y \in Nat, q \in Nat, w \in Nat, c \in Nat : /\ y = h[x] /\ q = y \div p /\ w = y % p /\ c = C[x + 1]
                                                            /\ q + 1 <= t /\ y = q * p + w
      BY <1>2, <1>5, <2>3a, <2>5, <3>1, SMTT(30)
    <3>3. C[x] = w /\ c * t + t <= Limb
      BY <2>3, <2>3a, <2>5, <3>1, <3>2
    <3>4. PICK g \in Nat : g = c * t
      BY <1>3
    <3>5. e[x] = g + q /\ g + q \in Nat /\ g + q < Limb
      <4>1. e[x] = g + q
        BY <2>4, <3>2, <3>4
      <4>2. g + t <= Limb
        BY <3>3, <3>4
      <4>3. q + 1 <= t /\ t \in Nat /\ Limb \in Nat
        BY <1>1, <1>3, <3>2
      <4>4. g + q \in Nat /\ g + q < Limb
        BY <4>2, <4>3
      <4> QED
        BY <4>1, <4>4
    <3>6. y + c * (p * t) = p * (c * t + q) + w
      <4>1. (q * p + w) + c * (p * t) = p * (c * t + q) + w
        BY <1>3
      <4> QED
        BY <3>2, <4>1
    <3>7. d[x] = p * (c * t + q)
      BY <2>4, <3>4, <3>5
    <3>8. d[x] \in Nat
      BY <1>3, <3>4, <3>7
    <3>9. h[x] + C[x + 1] * Limb = d[x] + C[x]
      BY <1>3, <3>2, <3>3, <3>6, <3>7
    <3> QED
      BY <2>4, <3>2, <3>5, <3>8, <3>9
  <2>7. FromDigits(h, LimbBits, m) + C[m] * Pow2[m * LimbBits] = FromDigits(d, LimbBits, m) + C[0]
    <3>1. IsChain(d, h, C, m)
      BY <2>5, <2>6 DEF IsChain
    <3> QED
      BY <2>1, <3>1, Chain
  <2>8. FromDigits(d, LimbBits, m) = p * FromDigits(e, LimbBits, m)
    <3>1. \A x \in 0..m - 1 : e[x] \in Nat /\ d[x] = p * e[x]
      BY <2>6
    <3>2. p \in Nat /\ m \in Nat
      BY <1>3, <2>1
    <3> QED
      BY <3>1, <3>2, FromDigitsTimes
  <2>9. ASSUME NEW x \in 0..m - 1 PROVE e[x] = r[x]
    <3>1. x \in Index /\ x + k < WIDTH /\ (x + k + 1 < WIDTH <=> x + 1 < m) /\ x + k + 1 = (x + 1) + k
      BY <1>1, <1>2, <1>3, <2>1
    <3>2. (IF x + k + 1 < WIDTH /\ s # 0 THEN (a[x + k + 1] * t) % Limb ELSE 0) = C[x + 1] * t
      <4>1. CASE x + 1 < m
        <5>1. x + 1 \in 0..m - 1 /\ (x + 1) + k \in 0..WIDTH - 1
          BY <2>1, <2>2, <4>1
        <5>2. C[x + 1] = a[(x + 1) + k] % p
          BY <2>3, <5>1
        <5>3. /\ s # 0 => (a[(x + 1) + k] * t) % Limb = (a[(x + 1) + k] % p) * t
              /\ s = 0 => a[(x + 1) + k] % p = 0
          BY <1>5, <5>1
        <5>4. 0 * t = 0
          BY <1>3
        <5>5. x + k + 1 < WIDTH /\ a[x + k + 1] = a[(x + 1) + k]
          BY <3>1, <4>1
        <5> QED
          BY <5>2, <5>3, <5>4, <5>5
      <4>2. CASE ~(x + 1 < m)
        <5>1. x + 1 = m /\ 0 * t = 0
          BY <1>3, <2>1, <4>2
        <5> QED
          BY <2>3, <3>1, <4>2, <5>1
      <4> QED
        BY <4>1, <4>2
    <3>3. r[x] = C[x + 1] * t + h[x] \div p
      BY <1>4, <2>3a, <3>1, <3>2
    <3> QED
      BY <2>4, <3>3
  <2>10. \A i \in Index : i >= m => r[i] = 0
    <3> TAKE i \in Index
    <3>1. i >= m => ~(i + k + 1 < WIDTH) /\ ~(i + k < WIDTH)
      BY <1>1, <1>2, <1>3, <2>1
    <3> QED
      BY <1>4, <3>1
  <2>11. r \in Num
    <3>1. ASSUME NEW i \in Index PROVE r[i] \in 0..Limb - 1
      <4>1. CASE i < m
        <5>1. i \in 0..m - 1
          BY <1>2, <2>1, <4>1
        <5> QED
          BY <1>1, <2>6, <2>9, <5>1
      <4>2. CASE ~(i < m)
        BY <1>1, <1>2, <2>1, <2>10, <4>2
      <4> QED
        BY <4>1, <4>2
    <3> QED
      BY <1>4a, <3>1 DEF Num
  <2>12. PICK fe \in Nat : fe = FromDigits(e, LimbBits, m)
    <3>1. \A x \in 0..m - 1 : e[x] \in Nat
      BY <2>6
    <3> QED
      BY <1>1, <2>1, <3>1, FromDigitsType
  <2>13. Value(r) = fe
    <3> DEFINE z == [i \in 0..k - 1 |-> 0]
    <3>1. \A i \in 0..(WIDTH - m) - 1 : z[i] = r[i + m]
      <4> TAKE i \in 0..(WIDTH - m) - 1
      <4>1. i \in 0..k - 1 /\ i + m \in Index /\ i + m >= m
        BY <1>1, <1>2, <2>1
      <4> QED
        BY <2>10, <4>1
    <3>2. \A i \in 0..k - 1 : z[i] = 0
      OBVIOUS
    <3> HIDE DEF z
    <3>3. FromDigits(z, LimbBits, WIDTH - m) = 0
      BY <1>3, <2>1, <3>2, LowZero
    <3>4. /\ Value(r) = FromDigits(r, LimbBits, m) + Pow2[m * LimbBits] * FromDigits(z, LimbBits, WIDTH - m)
          /\ Pow2[m * LimbBits] \in Nat
      BY <2>1, <2>11, <3>1, CutAt
    <3>5. FromDigits(r, LimbBits, m) = fe
      <4>1. \A i \in 0..m - 1 : e[i] \in Nat /\ e[i] = r[i]
        BY <2>6, <2>9
      <4> QED
        BY <1>1, <2>1, <2>12, <4>1, FromDigitsSame
    <3>6. Value(r) = fe + Pow2[m * LimbBits] * 0
      BY <3>3, <3>4, <3>5
    <3> QED
      BY <3>4, <3>6
  <2>14. PICK q \in Nat, fh \in Nat, fl \in Nat :
            /\ q = Pow2[k * LimbBits] /\ fh = FromDigits(h, LimbBits, m) /\ Value(a) = fl + q * fh
            /\ fl < q /\ q > 0
    <3>1. \A i \in 0..(WIDTH - k) - 1 : h[i] = a[i + k]
      BY <2>1, <2>3a
    <3>2. /\ FromDigits(a, LimbBits, k) \in Nat /\ FromDigits(h, LimbBits, m) \in Nat
          /\ Value(a) = FromDigits(a, LimbBits, k) + Pow2[k * LimbBits] * FromDigits(h, LimbBits, m)
      BY <2>1, <3>1, CutAt
    <3>3. FromDigits(a, LimbBits, k) < Pow2[k * LimbBits]
      <4>1. \A i \in 0..k - 1 : a[i] \in 0..Pow2[LimbBits] - 1
        BY <1>2, <1>3, <1>7, <1>1, SizeFacts
      <4> QED
        BY <1>1, <1>3, <4>1, FromDigitsBound
    <3> QED
      BY <1>3, <3>2, <3>3
  <2>15. Value(a) \div q = fh
    <3>1. PICK g \in Nat : g = q * fh
      OBVIOUS
    <3>2. fh * q = g /\ (fh + 1) * q = g + q
      BY <3>1
    <3>3. fh * q <= Value(a) /\ Value(a) < (fh + 1) * q
      BY <2>14, <3>1, <3>2
    <3> QED
      BY <2>14, <3>3, DivIs, NumFacts
  <2>16. fh \div p = fe
    <3>1. PICK c \in Nat : c = C[0] /\ c < p
      BY <2>1, <2>5
    <3>2. Pow2[m * LimbBits] \in Nat
      BY <1>1, <2>1, PowType
    <3>3. fh + 0 * Pow2[m * LimbBits] = p * fe + c
      BY <2>3, <2>7, <2>8, <2>12, <2>14, <3>1
    <3>4. PICK g \in Nat : g = p * fe
      BY <1>3
    <3>5. fh = g + c
      BY <3>2, <3>3, <3>4
    <3>6. fe * p = g /\ (fe + 1) * p = g + p
      BY <1>3, <3>4
    <3>7. fe * p <= fh /\ fh < (fe + 1) * p
      BY <1>3, <3>1, <3>5, <3>6
    <3> QED
      BY <1>3, <3>7, DivIs
  <2>17. (Value(a) \div q) \div p = Value(a) \div (p * q)
    <3>1. Value(a) \in Nat /\ q \in Nat /\ q > 0 /\ p \in Nat /\ p > 0
      BY <1>3, <2>14, NumFacts
    <3> QED
      BY <3>1, DivDiv, SMT
  <2>18. Pow2[n] = p * q
    BY <1>3, <2>14
  <2> QED
    BY <2>11, <2>13, <2>15, <2>16, <2>17, <2>18 DEF r
<1> QED
  BY <1>1, <1>3, <1>6, <1>7

-----------------------------------------------------------------------------
(* The highest limb, and the highest bit *)

\* A number is what lies below limb i, limb i, and what lies above it.
Above(h, a, i) == \A x \in 0..(WIDTH - (i + 1)) - 1 : h[x] = a[x + (i + 1)]

LEMMA LimbAt ==
    ASSUME NEW a \in Num, NEW i \in 0..WIDTH - 1, NEW h, Above(h, a, i)
    PROVE  /\ Pow2[i * LimbBits] \in Nat /\ Pow2[i * LimbBits] > 0 /\ Pow2[(i + 1) * LimbBits] \in Nat
           /\ FromDigits(a, LimbBits, i) \in Nat /\ FromDigits(a, LimbBits, i) < Pow2[i * LimbBits]
           /\ FromDigits(h, LimbBits, WIDTH - (i + 1)) \in Nat /\ a[i] \in Nat
           /\ Value(a) = (FromDigits(a, LimbBits, i) + a[i] * Pow2[i * LimbBits])
                         + Pow2[(i + 1) * LimbBits] * FromDigits(h, LimbBits, WIDTH - (i + 1))
<1>1. WIDTH \in Nat /\ LimbBits \in Nat /\ i \in Nat /\ i + 1 \in 0..WIDTH /\ i + 1 \in Nat
  BY SizeFacts
<1>2. \A j \in 0..WIDTH - 1 : a[j] \in Nat /\ a[j] \in 0..Pow2[LimbBits] - 1
  BY NumFacts, SizeFacts
<1>3. PICK w \in Nat, top \in Nat : /\ w = Pow2[(i + 1) * LimbBits] /\ top = FromDigits(h, LimbBits, WIDTH - (i + 1))
                                    /\ Value(a) = FromDigits(a, LimbBits, i + 1) + w * top
  BY <1>1, CutAt DEF Above
<1>4. FromDigits(a, LimbBits, i + 1) = FromDigits(a, LimbBits, i) + a[i] * Pow2[i * LimbBits]
  <2>1. \A j \in 0..i : a[j] \in Nat
    BY <1>1, <1>2
  <2> QED
    BY <1>1, <2>1, FromDigitsStep
<1>5. PICK q \in Nat : q = Pow2[i * LimbBits] /\ q > 0
  BY <1>1, PowType
<1>6. PICK lo \in Nat : lo = FromDigits(a, LimbBits, i) /\ lo < q
  <2>1. \A j \in 0..i - 1 : a[j] \in 0..Pow2[LimbBits] - 1
    BY <1>1, <1>2
  <2> QED
    BY <1>1, <1>5, <2>1, FromDigitsBound
<1> QED
  BY <1>2, <1>3, <1>4, <1>5, <1>6

\* The highest bit of a limb.
LEMMA TopBit ==
    ASSUME NEW x \in Nat, x > 0, x < Limb, NEW b, b = Max({n \in 0..LimbBits - 1 : (x \div Pow2[n]) % 2 = 1})
    PROVE  b \in 0..LimbBits - 1 /\ b \in Nat /\ Pow2[b] \in Nat /\ Pow2[b] <= x /\ x < 2 * Pow2[b]
<1> DEFINE S == {n \in Nat : x < Pow2[n]}
           T == {n \in 0..LimbBits - 1 : (x \div Pow2[n]) % 2 = 1}
<1>1. LimbBits \in Nat /\ LimbBits >= 2 /\ Limb = Pow2[LimbBits] /\ LimbBits - 1 \in Nat
  BY SizeFacts
<1>2. PICK l \in S : \A y \in S : l <= y
  <2>1. LimbBits \in S /\ S \in SUBSET Nat /\ S # {}
    BY <1>1
  <2> HIDE DEF S
  <2> QED
    BY <2>1, LeastNatural
<1>3. l \in Nat /\ l <= LimbBits /\ x < Pow2[l] /\ l # 0
  BY <1>1, <1>2, Pow2Def
<1>4. PICK m \in Nat : m = l - 1 /\ m \in 0..LimbBits - 1 /\ m + 1 = l
  BY <1>1, <1>3
<1>5. PICK p \in Nat : p = Pow2[m] /\ p > 0 /\ Pow2[l] = 2 * p
  BY <1>4, Pow2Positive, Pow2Def
<1>6. p <= x /\ x < 2 * p
  <2>1. m \notin S
    BY <1>2, <1>4
  <2>2. ~(x < p)
    BY <1>5, <2>1
  <2> QED
    BY <1>3, <1>5, <2>2
<1>7. x \div p = 1
  <2>1. 1 \in Nat /\ 1 * p <= x /\ x < (1 + 1) * p
    BY <1>6
  <2> QED
    BY <1>5, <2>1, DivIs
<1>8. m \in T
  BY <1>4, <1>5, <1>7
<1>9. ASSUME NEW n \in T PROVE n <= m
  <2>1. n \in Nat /\ Pow2[n] \in Nat /\ Pow2[n] > 0 /\ (x \div Pow2[n]) % 2 = 1
    BY <1>1, Pow2Positive
  <2>2. CASE l <= n
    <3>1. x < Pow2[n]
      BY <1>3, <2>1, <2>2, Pow2Mono, Pow2Positive
    <3>2. 0 \in Nat /\ 0 * Pow2[n] <= x /\ x < (0 + 1) * Pow2[n]
      BY <2>1, <3>1
    <3>3. x \div Pow2[n] = 0
      BY <2>1, <3>2, DivIs
    <3>4. 0 % 2 # 1
      OBVIOUS
    <3> QED
      BY <2>1, <3>3, <3>4
  <2> QED
    BY <1>3, <1>4, <2>1, <2>2
<1>10. T \in SUBSET (0..LimbBits - 1) /\ T # {} /\ b = Max(T)
  BY <1>8
<1> HIDE DEF T, S
<1>11. b \in T /\ m <= b
  BY <1>1, <1>8, <1>10, MaxOfBounded
<1>12. b = m
  <2>1. b <= m /\ b \in 0..LimbBits - 1
    BY <1>9, <1>10, <1>11
  <2> QED
    BY <1>11, <2>1
<1> QED
  BY <1>4, <1>5, <1>6, <1>12

\* bits() is the length of the number.
LEMMA BitsValue ==
    ASSUME NEW a \in Num
    PROVE  /\ Bits(a) \in Nat /\ Bits(a) <= WIDTH * LimbBits
           /\ Pow2[Bits(a)] \in Nat /\ Value(a) < Pow2[Bits(a)]
           /\ Bits(a) > 0 => Bits(a) - 1 \in Nat /\ Pow2[Bits(a) - 1] \in Nat /\ Value(a) >= Pow2[Bits(a) - 1]
<1>1. WIDTH \in Nat /\ WIDTH >= 2 /\ LimbBits \in Nat /\ LimbBits >= 2 /\ WIDTH - 1 \in Nat
  BY SizeFacts
<1>2. Index = 0..WIDTH - 1 /\ \A i \in 0..WIDTH - 1 : a[i] \in Nat /\ a[i] < Limb
  BY NumFacts
<1>3. CASE \A i \in Index : a[i] = 0
  <2>1. Bits(a) = 0
    BY <1>3 DEF Bits
  <2>2. FromDigits(a, LimbBits, WIDTH) = 0
    BY <1>1, <1>2, <1>3, LowZero
  <2>3. Value(a) = 0
    BY <2>2, Zenon DEF Value
  <2>4. WIDTH * LimbBits \in Nat
    BY <1>1
  <2> QED
    BY <2>1, <2>3, <2>4, Pow2Def
<1>4. CASE ~(\A i \in Index : a[i] = 0)
  <2> DEFINE T == {i \in Index : a[i] # 0}
             pos == Max(T)
             x == a[pos]
             b == Max({n \in 0..LimbBits - 1 : (x \div Pow2[n]) % 2 = 1})
             h == [j \in 0..(WIDTH - (pos + 1)) - 1 |-> a[j + (pos + 1)]]
  <2>1. Bits(a) = LimbBits * pos + b + 1
    BY <1>4 DEF Bits
  <2>2. T \in SUBSET (0..WIDTH - 1) /\ T # {}
    BY <1>2, <1>4
  <2>3. pos \in T /\ \A y \in T : y <= pos
    <3> HIDE DEF T
    <3> QED
      BY <1>1, <2>2, MaxOfBounded
  <2>4. pos \in 0..WIDTH - 1 /\ x \in Nat /\ x > 0 /\ x < Limb /\ \A j \in 0..WIDTH - 1 : j > pos => a[j] = 0
    <3> HIDE DEF pos
    <3>1. pos \in 0..WIDTH - 1 /\ a[pos] # 0
      BY <1>2, <2>3
    <3>2. a[pos] \in Nat /\ a[pos] < Limb
      BY <1>2, <3>1
    <3>3. \A j \in 0..WIDTH - 1 : j > pos => a[j] = 0
      <4> TAKE j \in 0..WIDTH - 1
      <4>1. a[j] # 0 => j <= pos
        BY <1>2, <2>3
      <4> QED
        BY <3>1, <4>1
    <3> QED
      BY <3>1, <3>2, <3>3
  <2> HIDE DEF pos, x
  <2>5. b \in 0..LimbBits - 1 /\ b \in Nat /\ Pow2[b] \in Nat /\ Pow2[b] <= x /\ x < 2 * Pow2[b]
    BY <2>4, TopBit
  <2>6. \A j \in 0..(WIDTH - (pos + 1)) - 1 : h[j] = a[j + (pos + 1)] /\ h[j] = 0
    <3> TAKE j \in 0..(WIDTH - (pos + 1)) - 1
    <3>1. j + (pos + 1) \in 0..WIDTH - 1 /\ j + (pos + 1) > pos
      BY <1>1, <2>4
    <3> QED
      BY <2>4, <3>1
  <2> HIDE DEF b, h, T
  <2>7. FromDigits(h, LimbBits, WIDTH - (pos + 1)) = 0
    <3>1. WIDTH - (pos + 1) \in Nat
      BY <1>1, <2>4
    <3> QED
      BY <2>6, <3>1, LowZero
  <2>8. PICK lo \in Nat, q \in Nat : q = Pow2[pos * LimbBits] /\ q > 0 /\ lo < q /\ Value(a) = lo + x * q
    <3>0. Above(h, a, pos)
      BY <2>6 DEF Above
    <3>1. PICK lo \in Nat, q \in Nat, w \in Nat :
              /\ q = Pow2[pos * LimbBits] /\ q > 0 /\ w = Pow2[(pos + 1) * LimbBits] /\ lo < q
              /\ lo = FromDigits(a, LimbBits, pos)
      BY <2>4, <3>0, LimbAt
    <3>2. Value(a) = (lo + x * q) + w * 0
      BY <2>4, <2>7, <3>0, <3>1, LimbAt DEF x
    <3>3. x * q \in Nat
      BY <2>4
    <3>4. Value(a) = lo + x * q
      BY <3>2, <3>3
    <3> QED
      BY <3>1, <3>4
  <2>9. PICK c \in Nat : c = Pow2[b] /\ c <= x /\ x + 1 <= 2 * c
    BY <2>4, <2>5
  <2>10. pos * LimbBits \in Nat /\ LimbBits * pos = pos * LimbBits
    BY <1>1, <2>4
  <2>11. Pow2[pos * LimbBits + b] = q * c /\ Pow2[(pos * LimbBits + b) + 1] = 2 * (q * c)
    <3>1. pos * LimbBits + b \in Nat
      BY <2>5, <2>10
    <3>2. Pow2[pos * LimbBits + b] = q * c
      BY <2>5, <2>8, <2>9, <2>10, Pow2Sum
    <3> QED
      BY <3>1, <3>2, Pow2Def
  <2>12. q * c <= Value(a) /\ Value(a) < 2 * (q * c)
    <3>1. q * c <= q * x /\ q * c \in Nat /\ q * x \in Nat
      BY <2>4, <2>9, TimesMono
    <3>2. q * (x + 1) <= q * (2 * c)
      BY <2>4, <2>9, TimesMono
    <3>3. q * (x + 1) = q * x + q /\ q * (2 * c) = 2 * (q * c) /\ x * q = q * x
      BY <2>4
    <3>4. PICK u \in Nat, v \in Nat : u = q * x /\ v = q * c
      BY <3>1
    <3>5. Value(a) = lo + u /\ v <= u /\ u + q <= 2 * v
      BY <2>8, <3>1, <3>2, <3>3, <3>4
    <3>6. v <= lo + u /\ lo + u < 2 * v
      BY <2>8, <3>5
    <3> QED
      BY <3>4, <3>5, <3>6
  <2>13. pos * LimbBits + b + 1 <= WIDTH * LimbBits
    <3>1. pos + 1 <= WIDTH /\ pos + 1 \in Nat
      BY <1>1, <2>4
    <3>2. (pos + 1) * LimbBits <= WIDTH * LimbBits
      BY <1>1, <3>1, TimesMono
    <3>3. (pos + 1) * LimbBits = pos * LimbBits + LimbBits /\ WIDTH * LimbBits \in Nat
      BY <1>1, <2>4
    <3> QED
      BY <1>1, <2>5, <2>10, <3>2, <3>3
  <2>14. PICK n \in Nat : n = pos * LimbBits + b /\ Bits(a) = n + 1 /\ Bits(a) - 1 = n
    <3>1. PICK n \in Nat : n = pos * LimbBits + b
      BY <2>5, <2>10
    <3>2. Bits(a) = n + 1
      BY <2>1, <2>10, <3>1
    <3> QED
      BY <3>1, <3>2
  <2>15. Pow2[n] \in Nat /\ Pow2[n + 1] \in Nat /\ n + 1 \in Nat /\ n + 1 <= WIDTH * LimbBits
    BY <2>13, <2>14, Pow2Positive
  <2>16. Pow2[n] = q * c /\ Pow2[n + 1] = 2 * (q * c)
    BY <2>11, <2>14
  <2> QED
    BY <2>12, <2>14, <2>15, <2>16
<1> QED
  BY <1>3, <1>4

-----------------------------------------------------------------------------
(* Comparisons *)

\* Among numbers that agree above limb i, that limb decides.
LEMMA HighestDecides ==
    ASSUME NEW a \in Num, NEW b \in Num, NEW i \in 0..WIDTH - 1, a[i] < b[i],
           \A j \in 0..WIDTH - 1 : j > i => a[j] = b[j]
    PROVE  Value(a) < Value(b)
<1> DEFINE h == [x \in 0..(WIDTH - (i + 1)) - 1 |-> a[x + (i + 1)]]
<1>1. WIDTH \in Nat
  BY SizeFacts
<1>2. Above(h, a, i)
  BY DEF Above
<1>3. Above(h, b, i)
  <2>1. ASSUME NEW x \in 0..(WIDTH - (i + 1)) - 1 PROVE h[x] = b[x + (i + 1)]
    <3>1. x + (i + 1) \in 0..WIDTH - 1 /\ x + (i + 1) > i
      BY <1>1
    <3> QED
      BY <3>1
  <2> QED
    BY <2>1 DEF Above
<1> HIDE DEF h
<1>4. PICK q \in Nat, la \in Nat, lb \in Nat, xa \in Nat, xb \in Nat, w \in Nat, top \in Nat :
          /\ q = Pow2[i * LimbBits] /\ la = FromDigits(a, LimbBits, i) /\ lb = FromDigits(b, LimbBits, i)
          /\ xa = a[i] /\ xb = b[i] /\ w = Pow2[(i + 1) * LimbBits]
          /\ top = FromDigits(h, LimbBits, WIDTH - (i + 1)) /\ la < q
  BY <1>2, <1>3, LimbAt
<1>5. Value(a) = (la + xa * q) + w * top
  BY <1>2, <1>4, LimbAt
<1>6. Value(b) = (lb + xb * q) + w * top
  BY <1>3, <1>4, LimbAt
<1>7. xa * q + q <= xb * q
  <2>1. xa + 1 <= xb /\ xa + 1 \in Nat
    BY <1>4
  <2>2. (xa + 1) * q <= xb * q
    BY <2>1, TimesMono
  <2>3. (xa + 1) * q = xa * q + q
    OBVIOUS
  <2> QED
    BY <2>2, <2>3
<1>8. PICK u \in Nat, v \in Nat, z \in Nat : u = xa * q /\ v = xb * q /\ z = w * top
  OBVIOUS
<1>9. (la + u) + z < (lb + v) + z
  BY <1>4, <1>7, <1>8
<1> QED
  BY <1>5, <1>6, <1>8, <1>9

\* compareTo has the order of the numbers, and equal numbers have the same limbs.
LEMMA CompareToValue ==
    ASSUME NEW a \in Num, NEW b \in Num
    PROVE  /\ CompareTo(a, b) = IF Value(a) < Value(b) THEN -1 ELSE IF Value(a) > Value(b) THEN 1 ELSE 0
           /\ Value(a) = Value(b) => a = b
<1> DEFINE differ == {i \in Index : a[i] # b[i]}
<1>1. WIDTH \in Nat /\ WIDTH - 1 \in Nat
  BY SizeFacts
<1>2. Index = 0..WIDTH - 1 /\ \A i \in 0..WIDTH - 1 : a[i] \in Nat /\ b[i] \in Nat
  BY NumFacts
<1>3. PICK u \in Nat, v \in Nat : u = Value(a) /\ v = Value(b)
  BY NumFacts
<1>4. CASE differ = {}
  <2>1. a = b
    BY <1>4 DEF Num
  <2>2. CompareTo(a, b) = 0
    BY <1>4 DEF CompareTo
  <2> QED
    BY <1>3, <2>1, <2>2
<1>5. CASE differ # {}
  <2> DEFINE i == Max(differ)
  <2>1. differ \in SUBSET (0..WIDTH - 1)
    BY <1>2
  <2>2. i \in differ /\ \A y \in differ : y <= i
    <3> HIDE DEF differ
    <3> QED
      BY <1>1, <1>5, <2>1, MaxOfBounded
  <2>3. CompareTo(a, b) = IF a[i] < b[i] THEN -1 ELSE 1
    BY <1>5 DEF CompareTo
  <2> HIDE DEF i
  <2>4. i \in 0..WIDTH - 1 /\ a[i] # b[i] /\ \A j \in 0..WIDTH - 1 : j > i => a[j] = b[j]
    <3>1. i \in 0..WIDTH - 1 /\ a[i] # b[i]
      BY <1>2, <2>2
    <3>2. ASSUME NEW j \in 0..WIDTH - 1, j > i PROVE a[j] = b[j]
      <4>1. a[j] # b[j] => j <= i
        BY <1>2, <2>2
      <4> QED
        BY <3>1, <3>2, <4>1
    <3> QED
      BY <3>1, <3>2
  <2>5. CASE a[i] < b[i]
    <3>1. u < v
      BY <1>3, <2>4, <2>5, HighestDecides
    <3> QED
      BY <1>3, <2>3, <2>5, <3>1
  <2>6. CASE ~(a[i] < b[i])
    <3>1. b[i] < a[i]
      BY <1>2, <2>4, <2>6
    <3>2. \A j \in 0..WIDTH - 1 : j > i => b[j] = a[j]
      BY <2>4
    <3>3. v < u
      BY <1>3, <2>4, <3>1, <3>2, HighestDecides
    <3> QED
      BY <1>3, <2>3, <2>6, <3>3
  <2> QED
    BY <2>5, <2>6
<1> QED
  BY <1>4, <1>5

-----------------------------------------------------------------------------
(* Division *)

DivState == [num : Num, div : Num, quotient : [Index -> Nat]]

LEMMA DivideStepType ==
    ASSUME NEW d \in DivState, NEW sh \in Nat
    PROVE  DivideStep(d, sh) \in DivState
<1>1. d.num \in Num /\ d.div \in Num /\ d.quotient \in [Index -> Nat]
  BY DEF DivState
<1>2. Minus(d.num, d.div) \in Num
  BY <1>1, MinusValue
<1>3. ShiftRight(d.div, 1) \in Num
  BY <1>1, ShiftRightValue
<1>4. Pow2[sh % LimbBits] \in Nat
  BY ShiftFacts
<1> HIDE DEF Num
<1>5. [d.quotient EXCEPT ![sh \div LimbBits] = @ + Pow2[sh % LimbBits]] \in [Index -> Nat]
  <2>1. ASSUME NEW f \in [Index -> Nat], NEW c \in Nat, NEW j PROVE [f EXCEPT ![j] = @ + c] \in [Index -> Nat]
    <3>1. [f EXCEPT ![j] = @ + c] = [i \in Index |-> IF i = j THEN f[i] + c ELSE f[i]]
      BY Zenon
    <3>2. \A i \in Index : (IF i = j THEN f[i] + c ELSE f[i]) \in Nat
      OBVIOUS
    <3> QED
      BY <3>1, <3>2
  <2> QED
    BY <1>1, <1>4, <2>1
<1>6. PICK m, q, r : /\ DivideStep(d, sh) = [num |-> m, div |-> r, quotient |-> q]
                      /\ m \in Num /\ r \in Num /\ q \in [Index -> Nat]
  BY <1>1, <1>2, <1>3, <1>5, Zenon DEF DivideStep
<1> QED
  BY <1>6 DEF DivState

\* The rounds of the loop.
LEMMA RoundsAre ==
    ASSUME NEW a \in Num, NEW b \in Num, NEW shift \in Nat
    PROVE  /\ Rounds(a, b, shift)[0] = [num |-> a, div |-> ShiftLeft(b, shift), quotient |-> Zero]
           /\ \A n \in 0..shift : Rounds(a, b, shift)[n + 1] = DivideStep(Rounds(a, b, shift)[n], shift - n)
<1> DEFINE first == [num |-> a, div |-> ShiftLeft(b, shift), quotient |-> Zero]
           IsRounds(F) == F = [n \in 0..shift + 1 |-> IF n = 0 THEN [num |-> a, div |-> ShiftLeft(b, shift), quotient |-> Zero]
                                                      ELSE DivideStep(F[n - 1], shift - n + 1)]
           stp == [p \in Nat \X DivState |-> IF p[1] \in 1..shift + 1 THEN DivideStep(p[2], shift - p[1] + 1) ELSE first]
<1>1. first \in DivState
  <2>1. ShiftLeft(b, shift) \in Num /\ Zero \in Num
    BY ShiftLeftValue, ZeroValue
  <2>2. Zero \in [Index -> Nat]
    BY DEF Zero
  <2> QED
    BY <2>1, <2>2 DEF DivState
<1>2. ASSUME NEW n \in 1..shift + 1, NEW v \in DivState PROVE DivideStep(v, shift - n + 1) \in DivState
  <2>1. shift - n + 1 \in Nat
    OBVIOUS
  <2> QED
    BY <2>1, DivideStepType
<1> HIDE DEF first
<1>3. stp \in [Nat \X DivState -> DivState]
  BY <1>1, <1>2
<1>4. \A n \in 1..shift + 1 : \A v \in DivState : stp[<<n, v>>] = DivideStep(v, shift - n + 1)
  OBVIOUS
<1> HIDE DEF stp
<1>5. shift + 1 \in Nat
  OBVIOUS
<1>6. PICK F : Recursive(F, DivState, first, stp, shift + 1)
  BY <1>1, <1>3, <1>5, RecursionExists
<1>7. /\ F \in [0..shift + 1 -> DivState] /\ F[0] = first
      /\ \A n \in 1..shift + 1 : F[n - 1] \in DivState /\ F[n] = stp[<<n, F[n - 1]>>]
  BY <1>6 DEF Recursive
<1>8. \A n \in 0..shift + 1 : F[n] = IF n = 0 THEN first ELSE DivideStep(F[n - 1], shift - n + 1)
  <2> TAKE n \in 0..shift + 1
  <2>1. n # 0 => n \in 1..shift + 1
    OBVIOUS
  <2>2. n # 0 => F[n] = DivideStep(F[n - 1], shift - n + 1)
    BY <1>4, <1>7, <2>1, Zenon
  <2> QED
    BY <1>7, <2>2
<1>9. IsRounds(F)
  BY <1>7, <1>8 DEF first
<1> DEFINE G == CHOOSE f : IsRounds(f)
<1>10. IsRounds(G)
  BY <1>9, Zenon
<1>11. Rounds(a, b, shift) = G
  BY Zenon DEF Rounds
<1> HIDE DEF G
<1>12. \A n \in 0..shift + 1 : G[n] = IF n = 0 THEN first ELSE DivideStep(G[n - 1], shift - n + 1)
  BY <1>10, Zenon DEF first
<1>13. G[0] = first
  BY <1>12
<1>14. ASSUME NEW n \in 0..shift PROVE G[n + 1] = DivideStep(G[n], shift - n)
  <2>1. n + 1 \in 0..shift + 1 /\ n + 1 # 0 /\ (n + 1) - 1 = n /\ shift - (n + 1) + 1 = shift - n
    OBVIOUS
  <2> QED
    BY <1>12, <2>1
<1> QED
  BY <1>11, <1>13, <1>14 DEF first

SameTo(d, e, n) == \A i \in 0..n - 1 : d[i] \in Nat /\ d[i] = e[i]

LEMMA SameLow ==
    ASSUME NEW n \in Nat, NEW d, NEW e, SameTo(d, e, n)
    PROVE  FromDigits(d, LimbBits, n) = FromDigits(e, LimbBits, n)
<1>1. LimbBits \in Nat
  BY SizeFacts
<1>2. \A i \in 0..n - 1 : d[i] \in Nat /\ d[i] = e[i]
  BY DEF SameTo
<1> QED
  BY <1>1, <1>2, FromDigitsSame

\* Sets a bit of a number whose bits up to that one are 0.
LEMMA SetBit ==
    ASSUME NEW q \in Num, NEW sh \in Nat, sh < WIDTH * LimbBits, NEW m \in Nat, Value(q) = m * (2 * Pow2[sh]),
           NEW r, r = [q EXCEPT ![sh \div LimbBits] = @ + Pow2[sh % LimbBits]]
    PROVE  r \in Num /\ Value(r) = Value(q) + Pow2[sh]
<1> DEFINE j == sh \div LimbBits
           s == sh % LimbBits
           h == [x \in 0..(WIDTH - (j + 1)) - 1 |-> q[x + (j + 1)]]
<1>1. WIDTH \in Nat /\ LimbBits \in Nat /\ LimbBits > 0 /\ Limb \in Nat /\ Limb = Pow2[LimbBits]
  BY SizeFacts
<1>2. Index = 0..WIDTH - 1 /\ \A i \in 0..WIDTH - 1 : q[i] \in Nat /\ q[i] < Limb /\ q[i] \in 0..Limb - 1
  BY NumFacts
<1>3. /\ j \in Nat /\ s \in 0..LimbBits - 1 /\ Pow2[s] \in Nat /\ Pow2[s] > 0
      /\ Pow2[j * LimbBits] \in Nat /\ Pow2[j * LimbBits] > 0 /\ Pow2[sh] = Pow2[j * LimbBits] * Pow2[s]
  BY ShiftFacts
<1>4. j \in 0..WIDTH - 1
  <2>1. j < WIDTH
    BY <1>1, DivIsGreatest
  <2> QED
    BY <1>1, <1>3, <2>1
<1>5. Above(h, q, j)
  BY DEF Above
<1>6. r = [q EXCEPT ![j] = @ + Pow2[s]]
  OBVIOUS
<1> HIDE DEF j, s, h
<1>7. PICK p \in Nat, g \in Nat, lo \in Nat, x \in Nat, w \in Nat, top \in Nat :
          /\ p = Pow2[s] /\ g = Pow2[j * LimbBits] /\ lo = FromDigits(q, LimbBits, j) /\ x = q[j]
          /\ w = Pow2[(j + 1) * LimbBits] /\ top = FromDigits(h, LimbBits, WIDTH - (j + 1))
          /\ lo < g /\ g > 0 /\ p > 0 /\ x < Limb
  BY <1>2, <1>3, <1>4, <1>5, LimbAt
<1>8. Value(q) = (lo + x * g) + w * top
  BY <1>4, <1>5, <1>7, LimbAt
<1>9. PICK t \in Nat : Limb = (2 * p) * t /\ t > 0 /\ w = g * ((2 * p) * t)
  <2>1. s + 1 \in Nat /\ LimbBits - (s + 1) \in Nat /\ (s + 1) + (LimbBits - (s + 1)) = LimbBits /\ s \in Nat
    BY <1>1, <1>3
  <2>2. PICK t \in Nat : t = Pow2[LimbBits - (s + 1)] /\ t > 0
    BY <2>1, Pow2Positive
  <2>3. Pow2[s + 1] = 2 * p
    BY <1>7, <2>1, Pow2Def
  <2>4. Limb = (2 * p) * t
    BY <1>1, <2>1, <2>2, <2>3, Pow2Sum
  <2>5. w = g * Limb
    BY <1>1, <1>3, <1>7, PowNext
  <2> QED
    BY <2>2, <2>4, <2>5
\* The bits below limb j are 0 as well, and limb j is a multiple of 2 * p.
<1>10. PICK y \in Nat : x = y * (2 * p)
  <2>1. (lo + x * g) + (g * ((2 * p) * t)) * top = m * (2 * (g * p))
    BY <1>3, <1>7, <1>8, <1>9
  <2>2. PICK k \in Int : k = m * (2 * p) - x - ((2 * p) * t) * top
    <3>1. PICK n1 \in Nat, n2 \in Nat : n1 = m * (2 * p) /\ n2 = ((2 * p) * t) * top
      OBVIOUS
    <3>2. n1 - x - n2 \in Int
      OBVIOUS
    <3> QED
      BY <3>1, <3>2
  <2>3. lo = k * g
    <3>1. m * (2 * (g * p)) = (m * (2 * p)) * g /\ (g * ((2 * p) * t)) * top = (((2 * p) * t) * top) * g
      OBVIOUS
    <3>2. PICK n1 \in Nat, n2 \in Nat : n1 = m * (2 * p) /\ n2 = ((2 * p) * t) * top
      OBVIOUS
    <3>3. lo = n1 * g - x * g - n2 * g
      <4>1. PICK n3 \in Nat, n4 \in Nat, n5 \in Nat : n3 = n1 * g /\ n4 = n2 * g /\ n5 = x * g
        OBVIOUS
      <4>2. (lo + n5) + n4 = n3
        BY <2>1, <3>1, <3>2, <4>1
      <4> QED
        BY <4>1, <4>2
    <3>4. (n1 - x - n2) * g = n1 * g - x * g - n2 * g
      OBVIOUS
    <3> QED
      BY <2>2, <3>2, <3>3, <3>4
  <2>4. k = 0
    <3>1. CASE k >= 1
      <4>1. k \in Nat /\ 1 * g <= k * g
        BY <3>1, TimesMono
      <4> QED
        BY <1>7, <2>3, <4>1
    <3>2. CASE k <= -1
      <4>1. PICK l \in Nat : l = -k
        BY <3>2
      <4>2. 1 <= l /\ 1 * g <= l * g
        BY <3>2, <4>1, TimesMono
      <4>3. l * g = -(k * g)
        BY <4>1
      <4>4. l * g = -lo
        BY <2>3, <4>3
      <4>5. PICK n1 \in Nat : n1 = l * g
        OBVIOUS
      <4> QED
        BY <1>7, <4>2, <4>4, <4>5
    <3> QED
      BY <3>1, <3>2
  <2>5. x = (m - t * top) * (2 * p)
    <3>1. (m - t * top) * (2 * p) = m * (2 * p) - ((2 * p) * t) * top
      OBVIOUS
    <3> QED
      BY <2>2, <2>4, <3>1
  <2>6. PICK z \in Int : z = m - t * top
    OBVIOUS
  <2>7. CASE z >= 0
    <3>1. z \in Nat /\ x = z * (2 * p)
      BY <2>5, <2>6, <2>7
    <3> QED
      BY <3>1
  <2>8. CASE z < 0
    <3>1. PICK l \in Nat : l = -z /\ l >= 1
      BY <2>8
    <3>2. 1 * (2 * p) <= l * (2 * p)
      BY <3>1, TimesMono
    <3>3. l * (2 * p) = -(z * (2 * p))
      BY <3>1
    <3>4. l * (2 * p) = -x
      BY <2>5, <2>6, <3>3
    <3>5. PICK n1 \in Nat : n1 = l * (2 * p)
      OBVIOUS
    <3> QED
      BY <1>7, <3>2, <3>4, <3>5
  <2> QED
    BY <2>7, <2>8
<1>11. x + p < Limb
  <2>1. y < t
    <3>1. CASE t <= y
      <4>1. t * (2 * p) <= y * (2 * p)
        BY <3>1, TimesMono
      <4>2. t * (2 * p) = (2 * p) * t
        OBVIOUS
      <4> QED
        BY <1>1, <1>7, <1>9, <1>10, <4>1, <4>2
    <3> QED
      BY <3>1
  <2>2. (y + 1) * (2 * p) <= t * (2 * p)
    <3>1. y + 1 <= t /\ y + 1 \in Nat /\ 2 * p \in Nat
      BY <2>1
    <3> QED
      BY <3>1, TimesMono
  <2>3. (y + 1) * (2 * p) = y * (2 * p) + 2 * p /\ t * (2 * p) = (2 * p) * t
    OBVIOUS
  <2>4. x + 2 * p <= Limb
    BY <1>9, <1>10, <2>2, <2>3
  <2> QED
    BY <1>1, <1>7, <2>4
<1>12. \A i \in 0..WIDTH - 1 : r[i] = IF i = j THEN x + p ELSE q[i]
  <2>1. q \in [0..WIDTH - 1 -> 0..Limb - 1]
    BY <1>2 DEF Num
  <2> QED
    BY <1>4, <1>6, <1>7, <2>1
<1>13. r \in Num
  <2>1. DOMAIN r = Index /\ r = [i \in Index |-> r[i]]
    <3>1. q \in [Index -> 0..Limb - 1]
      BY DEF Num
    <3> QED
      BY <1>6, <3>1
  <2>2. x + p \in 0..Limb - 1
    BY <1>1, <1>11
  <2>3. \A i \in Index : r[i] \in 0..Limb - 1
    BY <1>2, <1>12, <2>2
  <2> QED
    BY <2>1, <2>3 DEF Num
<1>14. Above(h, r, j)
  <2>1. ASSUME NEW i \in 0..(WIDTH - (j + 1)) - 1 PROVE h[i] = r[i + (j + 1)]
    <3>1. i + (j + 1) \in 0..WIDTH - 1 /\ i + (j + 1) # j
      BY <1>1, <1>4
    <3>2. h[i] = q[i + (j + 1)]
      BY <1>5 DEF Above
    <3> QED
      BY <1>12, <3>1, <3>2
  <2> QED
    BY <2>1 DEF Above
<1>15. FromDigits(r, LimbBits, j) = lo
  <2>1. \A i \in 0..j - 1 : q[i] \in Nat /\ q[i] = r[i]
    BY <1>1, <1>2, <1>4, <1>12
  <2>2. SameTo(q, r, j) /\ j \in Nat
    BY <1>3, <2>1 DEF SameTo
  <2>3. FromDigits(q, LimbBits, j) = FromDigits(r, LimbBits, j)
    BY <2>2, SameLow
  <2> QED
    BY <1>7, <2>3
<1>16. Value(r) = (lo + (x + p) * g) + w * top
  <2>1. r[j] = x + p
    BY <1>4, <1>12
  <2>2. Value(r) = (FromDigits(r, LimbBits, j) + r[j] * Pow2[j * LimbBits])
                         + Pow2[(j + 1) * LimbBits] * FromDigits(h, LimbBits, WIDTH - (j + 1))
    BY <1>4, <1>13, <1>14, LimbAt
  <2> QED
    BY <1>7, <1>15, <2>1, <2>2
<1>17. (lo + (x + p) * g) + w * top = ((lo + x * g) + w * top) + g * p
  OBVIOUS
<1> QED
  BY <1>3, <1>7, <1>8, <1>13, <1>16, <1>17

\* What holds with t rounds to go: the quotient so far and what is left of the number
\* make the number, what is left is less than the divisor shifted by t, the bits of the
\* quotient still to be set are 0, and the divisor is shifted by one less.
DivInv(d, a, b, t) ==
    /\ d.num \in Num /\ d.quotient \in Num /\ d.div \in Num
    /\ Value(d.quotient) * Value(b) + Value(d.num) = Value(a)
    /\ Value(d.num) < Pow2[t] * Value(b)
    /\ \E k \in Nat : Value(d.quotient) = k * Pow2[t]
    /\ t > 0 => Value(d.div) = Pow2[t - 1] * Value(b)

\* A round keeps that.
LEMMA DivideStepKeeps ==
    ASSUME NEW a \in Num, NEW b \in Num, NEW sh \in Nat, sh < WIDTH * LimbBits, NEW d, DivInv(d, a, b, sh + 1)
    PROVE  DivInv(DivideStep(d, sh), a, b, sh)
<1> DEFINE fits == CompareTo(d.num, d.div) >= 0
           bit == [d.quotient EXCEPT ![sh \div LimbBits] = @ + Pow2[sh % LimbBits]]
           num == IF fits THEN Minus(d.num, d.div) ELSE d.num
           quo == IF fits THEN bit ELSE d.quotient
           e == DivideStep(d, sh)
<1>1. /\ d.num \in Num /\ d.quotient \in Num /\ d.div \in Num
      /\ Value(d.quotient) * Value(b) + Value(d.num) = Value(a)
      /\ Value(d.num) < Pow2[sh + 1] * Value(b)
      /\ \E k \in Nat : Value(d.quotient) = k * Pow2[sh + 1]
      /\ Value(d.div) = Pow2[sh] * Value(b)
  <2>1. sh + 1 > 0 /\ (sh + 1) - 1 = sh
    OBVIOUS
  <2> QED
    BY <2>1 DEF DivInv
<1>2. e.num = num /\ e.quotient = quo /\ e.div = ShiftRight(d.div, 1)
  BY DEF DivideStep
<1> HIDE DEF e, bit
<1>3. PICK p \in Nat, v \in Nat, n \in Nat, q \in Nat :
          p = Pow2[sh] /\ p > 0 /\ v = Value(b) /\ n = Value(d.num) /\ q = Value(d.quotient)
  BY <1>1, NumFacts, Pow2Positive
<1>4. PICK k \in Nat : q = k * (2 * p)
  BY <1>1, <1>3, Pow2Def
<1>5. n < (2 * p) * v /\ q * v + n = Value(a) /\ Value(d.div) = p * v
  BY <1>1, <1>3, Pow2Def
<1>6. fits <=> p * v <= n
  <2>1. CompareTo(d.num, d.div) = IF n < p * v THEN -1 ELSE IF n > p * v THEN 1 ELSE 0
    BY <1>1, <1>3, <1>5, CompareToValue
  <2>2. PICK u \in Nat : u = p * v
    OBVIOUS
  <2> QED
    BY <2>1, <2>2
<1>7. e.div \in Num /\ (sh > 0 => Value(e.div) = Pow2[sh - 1] * v)
  <2>1. e.div \in Num /\ Value(e.div) = (p * v) \div Pow2[1]
    BY <1>1, <1>2, <1>5, ShiftRightValue
  <2>2. ASSUME sh > 0 PROVE Value(e.div) = Pow2[sh - 1] * v
    <3>1. sh - 1 \in Nat /\ (sh - 1) + 1 = sh
      BY <2>2
    <3>2. PICK c \in Nat : c = Pow2[sh - 1] /\ p = 2 * c
      BY <1>3, <3>1, Pow2Def
    <3>3. Pow2[1] = 2
      <4>1. 0 + 1 = 1 /\ 0 \in Nat
        OBVIOUS
      <4> QED
        BY <4>1, Pow2Def
    <3>4. p * v = (c * v) * 2 /\ c * v \in Nat
      BY <3>2
    <3>5. (p * v) \div 2 = c * v
      BY <3>4, DivExact
    <3> QED
      BY <2>1, <3>2, <3>3, <3>5
  <2> QED
    BY <2>1, <2>2
<1>8. CASE fits
  <2>1. bit \in Num /\ Value(bit) = q + p
    <3>1. Value(d.quotient) = k * (2 * Pow2[sh])
      BY <1>3, <1>4
    <3> QED
      BY <1>1, <1>3, <3>1, SetBit DEF bit
  <2>2. num \in Num /\ Value(num) = (n - p * v) % Size
    BY <1>1, <1>3, <1>5, <1>8, MinusValue
  <2>3. PICK u \in Nat : u = p * v /\ u <= n /\ n < 2 * u
    <3>1. (2 * p) * v = 2 * (p * v)
      OBVIOUS
    <3>2. p * v \in Nat
      OBVIOUS
    <3> QED
      BY <1>5, <1>6, <1>8, <3>1, <3>2
  <2>4. (n - u) % Size = n - u
    <3>1. n < Size /\ Size \in Nat
      BY <1>1, <1>3, NumFacts, SizeFacts
    <3>2. n - u \in Nat /\ n - u < Size
      BY <2>3, <3>1
    <3> QED
      BY <3>1, <3>2, ModSmall
  <2>5. e.num \in Num /\ Value(e.num) = n - u
    BY <1>2, <2>2, <2>3, <2>4
  <2>6. e.quotient \in Num /\ Value(e.quotient) = q + p
    BY <1>2, <1>8, <2>1
  <2>7. (q + p) * v + (n - u) = Value(a)
    <3>1. (q + p) * v = q * v + p * v
      OBVIOUS
    <3>2. PICK z \in Nat : z = q * v
      OBVIOUS
    <3>3. z + n = Value(a) /\ (q + p) * v = z + u
      BY <1>5, <2>3, <3>1, <3>2
    <3> QED
      BY <3>3
  <2>8. q + p = (2 * k + 1) * p
    <3>1. (2 * k + 1) * p = k * (2 * p) + p
      OBVIOUS
    <3> QED
      BY <1>4, <3>1
  <2>9. n - u < p * v
    BY <2>3
  <2>10. Value(e.quotient) * Value(b) + Value(e.num) = Value(a)
    BY <1>3, <2>5, <2>6, <2>7
  <2>11. Value(e.num) < Pow2[sh] * Value(b)
    BY <1>3, <2>5, <2>9
  <2>12. \E l \in Nat : Value(e.quotient) = l * Pow2[sh]
    <3>1. 2 * k + 1 \in Nat /\ Value(e.quotient) = (2 * k + 1) * Pow2[sh]
      BY <1>3, <2>6, <2>8
    <3> QED
      BY <3>1
  <2>13. sh > 0 => Value(e.div) = Pow2[sh - 1] * Value(b)
    BY <1>3, <1>7
  <2> QED
    BY <1>7, <2>5, <2>6, <2>10, <2>11, <2>12, <2>13 DEF DivInv, e
<1>9. CASE ~fits
  <2>1. e.num \in Num /\ Value(e.num) = n /\ e.quotient \in Num /\ Value(e.quotient) = q
    BY <1>1, <1>2, <1>3, <1>9
  <2>2. n < p * v
    <3>1. p * v \in Nat
      OBVIOUS
    <3> QED
      BY <1>6, <1>9, <3>1
  <2>3. Value(e.quotient) * Value(b) + Value(e.num) = Value(a)
    BY <1>3, <1>5, <2>1
  <2>4. Value(e.num) < Pow2[sh] * Value(b)
    BY <1>3, <2>1, <2>2
  <2>5. \E l \in Nat : Value(e.quotient) = l * Pow2[sh]
    <3>1. k * (2 * p) = (2 * k) * p /\ 2 * k \in Nat
      OBVIOUS
    <3> QED
      BY <1>3, <1>4, <2>1, <3>1
  <2>6. sh > 0 => Value(e.div) = Pow2[sh - 1] * Value(b)
    BY <1>3, <1>7
  <2> QED
    BY <1>7, <2>1, <2>3, <2>4, <2>5, <2>6 DEF DivInv, e
<1> QED
  BY <1>8, <1>9

\* The first round starts with the divisor shifted to the length of the number, and
\* loses none of its bits.
LEMMA DivideStarts ==
    ASSUME NEW a \in Num, NEW b \in Num, Bits(b) > 0, NEW shift \in Nat, shift = Bits(a) - Bits(b)
    PROVE  /\ DivInv([num |-> a, div |-> ShiftLeft(b, shift), quotient |-> Zero], a, b, shift + 1)
           /\ shift < WIDTH * LimbBits
<1>1. PICK v \in Nat, x \in Nat : v = Value(a) /\ x = Value(b)
  BY NumFacts
<1>2. PICK m \in Nat, n \in Nat : Bits(a) = m /\ Bits(b) = n + 1 /\ m = shift + (n + 1) /\ m <= WIDTH * LimbBits
  <2>1. Bits(a) \in Nat /\ Bits(b) \in Nat /\ Bits(a) <= WIDTH * LimbBits
    BY BitsValue
  <2>2. PICK n \in Nat : Bits(b) = n + 1
    <3>1. Bits(b) - 1 \in Nat /\ Bits(b) = (Bits(b) - 1) + 1
      BY <2>1
    <3> QED
      BY <3>1
  <2>3. Bits(a) = shift + (n + 1)
    BY <2>1, <2>2
  <2> QED
    BY <2>1, <2>2, <2>3
<1>3. PICK p \in Nat, g \in Nat : p = Pow2[shift] /\ g = Pow2[n] /\ p > 0 /\ g > 0
  BY Pow2Positive
<1>4. v < Pow2[m] /\ x < Pow2[n + 1] /\ g <= x
  <2>1. Value(a) < Pow2[Bits(a)] /\ Value(b) < Pow2[Bits(b)] /\ Value(b) >= Pow2[Bits(b) - 1]
    BY BitsValue
  <2>2. Bits(b) - 1 = n
    BY <1>2
  <2> QED
    BY <1>1, <1>2, <1>3, <2>1, <2>2
<1>5. Pow2[n + 1] = 2 * g /\ Pow2[m] = p * (2 * g) /\ Pow2[shift + 1] = 2 * p
  <2>1. Pow2[n + 1] = 2 * g /\ Pow2[shift + 1] = 2 * p
    BY <1>3, Pow2Def
  <2>2. n + 1 \in Nat
    OBVIOUS
  <2>3. Pow2[m] = p * Pow2[n + 1]
    BY <1>2, <1>3, <2>2, Pow2Sum
  <2> QED
    BY <2>1, <2>3
<1>6. Size \in Nat /\ Pow2[m] <= Size /\ Pow2[m] \in Nat
  <2>1. WIDTH * LimbBits \in Nat
    BY SizeFacts
  <2> QED
    BY <1>2, <2>1, SizeFacts, Pow2Mono, Pow2Positive
<1>7. ShiftLeft(b, shift) \in Num /\ Value(ShiftLeft(b, shift)) = p * x
  <2>1. ShiftLeft(b, shift) \in Num /\ Value(ShiftLeft(b, shift)) = (x * p) % Size
    BY <1>1, <1>3, ShiftLeftValue
  <2>2. x * p = p * x /\ p * x \in Nat
    OBVIOUS
  <2>3. p * x < p * (2 * g)
    <3>1. x + 1 <= 2 * g /\ x + 1 \in Nat /\ 2 * g \in Nat
      BY <1>4, <1>5
    <3>2. p * (x + 1) <= p * (2 * g)
      BY <3>1, TimesMono
    <3>3. p * (x + 1) = p * x + p
      OBVIOUS
    <3>4. PICK n1 \in Nat, n2 \in Nat : n1 = p * x /\ n2 = p * (2 * g)
      OBVIOUS
    <3> QED
      BY <1>3, <3>2, <3>3, <3>4
  <2>4. p * x < Size
    BY <1>5, <1>6, <2>2, <2>3
  <2>5. (p * x) % Size = p * x
    BY <1>6, <2>2, <2>4, ModSmall
  <2> QED
    BY <2>1, <2>2, <2>5
<1>8. v < (2 * p) * x
  <2>1. (2 * p) * g <= (2 * p) * x
    BY <1>3, <1>4, TimesMono
  <2>2. p * (2 * g) = (2 * p) * g
    OBVIOUS
  <2>3. PICK n1 \in Nat, n2 \in Nat : n1 = (2 * p) * g /\ n2 = (2 * p) * x
    OBVIOUS
  <2> QED
    BY <1>4, <1>5, <2>1, <2>2, <2>3
<1>9. Zero \in Num /\ Value(Zero) = 0
  BY ZeroValue
<1> DEFINE d == [num |-> a, div |-> ShiftLeft(b, shift), quotient |-> Zero]
<1>10. d.num = a /\ d.div = ShiftLeft(b, shift) /\ d.quotient = Zero
  OBVIOUS
<1> HIDE DEF d
<1>11. Value(d.quotient) * Value(b) + Value(d.num) = Value(a)
  <2>1. 0 * x + v = v
    OBVIOUS
  <2> QED
    BY <1>1, <1>9, <1>10, <2>1
<1>12. Value(d.num) < Pow2[shift + 1] * Value(b)
  BY <1>1, <1>5, <1>8, <1>10
<1>13. \E k \in Nat : Value(d.quotient) = k * Pow2[shift + 1]
  <2>1. 0 \in Nat /\ 0 = 0 * Pow2[shift + 1]
    BY <1>5
  <2> QED
    BY <1>9, <1>10, <2>1
<1>14. Value(d.div) = Pow2[(shift + 1) - 1] * Value(b)
  <2>1. (shift + 1) - 1 = shift
    OBVIOUS
  <2> QED
    BY <1>1, <1>3, <1>7, <1>10, <2>1
<1>15. DivInv(d, a, b, shift + 1)
  BY <1>7, <1>9, <1>10, <1>11, <1>12, <1>13, <1>14 DEF DivInv
<1>16. shift < WIDTH * LimbBits
  <2>1. WIDTH * LimbBits \in Nat
    BY SizeFacts
  <2> QED
    BY <1>2, <2>1
<1> QED
  BY <1>15, <1>16 DEF d

\* operator/=
LEMMA DivideValue ==
    ASSUME NEW a \in Num, NEW b \in Num
    PROVE  /\ Divide(a, b) \in Num
           /\ Value(b) # 0 => Value(Divide(a, b)) = Value(a) \div Value(b)
<1>1. PICK v \in Nat, x \in Nat : v = Value(a) /\ x = Value(b)
  BY NumFacts
<1>2. Bits(a) \in Nat /\ Bits(b) \in Nat
  BY BitsValue
<1>3. Zero \in Num /\ Value(Zero) = 0
  BY ZeroValue
<1>4. CASE Bits(b) = 0
  <2>1. Divide(a, b) = Zero
    BY <1>4 DEF Divide
  <2>2. x < Pow2[0]
    BY <1>1, <1>4, BitsValue
  <2>3. x = 0
    BY <2>2, Pow2Def
  <2> QED
    BY <1>1, <1>3, <2>1, <2>3
<1>5. CASE Bits(b) # 0 /\ Bits(a) - Bits(b) < 0
  <2>1. Divide(a, b) = Zero
    BY <1>5 DEF Divide
  <2>2. v < x /\ x > 0
    <3>1. Bits(b) - 1 \in Nat /\ Bits(a) <= Bits(b) - 1
      BY <1>2, <1>5
    <3>2. Pow2[Bits(a)] \in Nat /\ Pow2[Bits(b) - 1] \in Nat /\ Pow2[Bits(a)] <= Pow2[Bits(b) - 1]
      BY <1>2, <3>1, Pow2Mono, Pow2Positive
    <3>3. v < Pow2[Bits(a)] /\ Pow2[Bits(b) - 1] <= x
      BY <1>1, <1>2, <1>5, BitsValue
    <3> QED
      BY <3>2, <3>3
  <2>3. v \div x = 0
    <3>1. 0 \in Nat /\ 0 * x <= v /\ v < (0 + 1) * x
      BY <2>2
    <3> QED
      BY <2>2, <3>1, DivIs
  <2> QED
    BY <1>1, <1>3, <2>1, <2>3
<1>6. CASE Bits(b) # 0 /\ ~(Bits(a) - Bits(b) < 0)
  <2>1. PICK shift \in Nat : shift = Bits(a) - Bits(b)
    BY <1>2, <1>6
  <2> DEFINE R == Rounds(a, b, shift)
             S == {n \in Nat : DivInv(R[n], a, b, (shift + 1) - n)}
  <2>2. Divide(a, b) = R[shift + 1].quotient
    BY <1>6, <2>1 DEF Divide
  <2>3. Bits(b) > 0
    BY <1>2, <1>6
  <2>4. /\ DivInv([num |-> a, div |-> ShiftLeft(b, shift), quotient |-> Zero], a, b, shift + 1)
        /\ shift < WIDTH * LimbBits
    BY <2>1, <2>3, DivideStarts
  <2>5. /\ R[0] = [num |-> a, div |-> ShiftLeft(b, shift), quotient |-> Zero]
        /\ \A n \in 0..shift : R[n + 1] = DivideStep(R[n], shift - n)
    BY RoundsAre
  <2> HIDE DEF R
  <2>6. 0 \in S
    <3>1. (shift + 1) - 0 = shift + 1
      OBVIOUS
    <3> QED
      BY <2>4, <2>5, <3>1
  <2>7. ASSUME NEW n \in 0..(shift + 1) - 1, n \in S PROVE n + 1 \in S
    <3>1. n \in 0..shift /\ n \in Nat /\ n + 1 \in Nat
      OBVIOUS
    <3>2. PICK sh \in Nat : sh = shift - n /\ (shift + 1) - n = sh + 1 /\ (shift + 1) - (n + 1) = sh /\ sh <= shift
      BY <3>1
    <3>3. DivInv(R[n], a, b, sh + 1)
      BY <2>7, <3>2
    <3>4. sh < WIDTH * LimbBits
      <4>1. WIDTH * LimbBits \in Nat
        BY SizeFacts
      <4> QED
        BY <2>4, <3>2, <4>1
    <3>5. DivInv(DivideStep(R[n], sh), a, b, sh)
      BY <3>3, <3>4, DivideStepKeeps
    <3>6. R[n + 1] = DivideStep(R[n], sh)
      BY <2>5, <3>1, <3>2
    <3> QED
      BY <3>1, <3>2, <3>5, <3>6
  <2> HIDE DEF S
  <2>8. shift + 1 \in S
    <3>1. shift + 1 \in Nat
      OBVIOUS
    <3> QED
      BY <2>6, <2>7, <3>1, UpTo
  <2>9. DivInv(R[shift + 1], a, b, 0)
    <3>1. (shift + 1) - (shift + 1) = 0
      OBVIOUS
    <3> QED
      BY <2>8, <3>1 DEF S
  <2>10. PICK q \in Nat, r \in Nat : q = Value(R[shift + 1].quotient) /\ r = Value(R[shift + 1].num)
    BY <2>9, NumFacts DEF DivInv
  <2>11. q * x + r = v /\ r < 1 * x
    BY <1>1, <2>9, <2>10, Pow2Def DEF DivInv
  <2>12. v \div x = q
    <3>1. PICK u \in Nat : u = q * x
      OBVIOUS
    <3>2. u + r = v /\ r < x /\ x > 0
      BY <2>11, <3>1
    <3>3. (q + 1) * x = u + x
      BY <3>1
    <3>4. q * x <= v /\ v < (q + 1) * x
      BY <3>1, <3>2, <3>3
    <3> QED
      BY <3>2, <3>4, DivIs
  <2>13. R[shift + 1].quotient \in Num
    BY <2>9 DEF DivInv
  <2> QED
    BY <1>1, <2>2, <2>10, <2>12, <2>13
<1> QED
  BY <1>4, <1>5, <1>6

-----------------------------------------------------------------------------
(* Bytes and digits *)

\* The digits of a number make the number.
LEMMA DigitsOf ==
    ASSUME NEW bits \in Nat, NEW n \in Nat, NEW x \in Nat, x < Pow2[n * bits], NEW d,
           \A j \in 0..n - 1 : d[j] = (x \div Pow2[j * bits]) % Pow2[bits]
    PROVE  FromDigits(d, bits, n) = x
<1> DEFINE S == {k \in Nat : FromDigits(d, bits, k) + (x \div Pow2[k * bits]) * Pow2[k * bits] = x}
<1>0. PICK w \in Nat : w = Pow2[bits] /\ w > 0
  BY Pow2Positive
<1>1. \A k \in Nat : Pow2[k * bits] \in Nat /\ Pow2[k * bits] > 0 /\ x \div Pow2[k * bits] \in Nat
  BY PowType, DivFacts
<1>2. \A j \in 0..n - 1 : d[j] \in Nat
  <2> TAKE j \in 0..n - 1
  <2>0. j \in Nat
    OBVIOUS
  <2>1. PICK y \in Nat : y = x \div Pow2[j * bits]
    BY <1>1, <2>0
  <2>2. y % w \in Nat
    BY <1>0
  <2> QED
    BY <1>0, <2>1, <2>2
<1>3. 0 \in S
  <2>1. 0 * bits = 0 /\ Pow2[0] = 1
    BY Pow2Def
  <2>2. FromDigits(d, bits, 0) = 0
    BY FromDigitsZero
  <2>3. x \div 1 = x
    <3>1. x * 1 <= x /\ x < (x + 1) * 1
      OBVIOUS
    <3> QED
      BY <3>1, DivIs
  <2> QED
    BY <2>1, <2>2, <2>3
<1>4. ASSUME NEW k \in 0..n - 1, k \in S PROVE k + 1 \in S
  <2>1. k \in Nat /\ k + 1 \in Nat /\ \A i \in 0..k : d[i] \in Nat
    BY <1>2
  <2>2. PICK q \in Nat, y \in Nat : q = Pow2[k * bits] /\ q > 0 /\ y = x \div q
    BY <1>1, <2>1
  <2>3. PICK u \in Nat : u = FromDigits(d, bits, k)
    <3>1. \A i \in 0..k - 1 : d[i] \in Nat
      BY <2>1
    <3> QED
      BY <2>1, <3>1, FromDigitsType
  <2>4. u + y * q = x
    BY <1>4, <2>2, <2>3
  <2>5. FromDigits(d, bits, k + 1) = u + (y % w) * q
    <3>1. FromDigits(d, bits, k + 1) = FromDigits(d, bits, k) + d[k] * Pow2[k * bits]
      BY <2>1, FromDigitsStep
    <3>2. d[k] = y % w
      BY <1>0, <2>2
    <3> QED
      BY <2>2, <2>3, <3>1, <3>2
  <2>6. Pow2[(k + 1) * bits] = q * w
    BY <1>0, <2>1, <2>2, PowNext
  <2>7. x \div (q * w) = y \div w
    <3>1. (x \div q) \div w = x \div (w * q)
      BY <1>0, <2>2, DivDiv
    <3>2. w * q = q * w
      OBVIOUS
    <3> QED
      BY <2>2, <3>1, <3>2
  <2>8. PICK z \in Nat, r \in Nat : z = y \div w /\ r = y % w /\ y = z * w + r
    <3>1. y \div w \in Nat /\ y % w \in 0..w - 1 /\ y = (y \div w) * w + (y % w)
      BY <1>0, DivFacts
    <3>2. y % w \in Nat
      BY <1>0
    <3> QED
      BY <3>1, <3>2
  <2>9. (u + r * q) + z * (q * w) = x
    <3>1. (z * w + r) * q = r * q + z * (q * w)
      OBVIOUS
    <3>2. PICK n1 \in Nat, n2 \in Nat : n1 = r * q /\ n2 = z * (q * w)
      OBVIOUS
    <3>3. u + (n1 + n2) = x
      BY <2>4, <2>8, <3>1, <3>2
    <3> QED
      BY <3>2, <3>3
  <2> QED
    BY <2>1, <2>5, <2>6, <2>7, <2>8, <2>9
<1> HIDE DEF S
<1>5. n \in S
  BY <1>3, <1>4, UpTo
<1>6. x \div Pow2[n * bits] = 0
  <2>1. 0 \in Nat /\ 0 * Pow2[n * bits] <= x /\ x < (0 + 1) * Pow2[n * bits]
    <3>1. PICK q \in Nat : q = Pow2[n * bits]
      BY <1>1
    <3>2. 0 * q <= x /\ x < (0 + 1) * q
      BY <3>1
    <3> QED
      BY <3>1, <3>2
  <2>2. Pow2[n * bits] \in Nat /\ Pow2[n * bits] > 0
    BY <1>1
  <2> QED
    BY <2>1, <2>2, DivIs
<1>7. PICK f \in Nat : f = FromDigits(d, bits, n)
  BY <1>2, FromDigitsType
<1>8. f + 0 * Pow2[n * bits] = x
  BY <1>5, <1>6, <1>7 DEF S
<1>9. Pow2[n * bits] \in Nat
  BY <1>1
<1> QED
  BY <1>7, <1>8, <1>9

LEMMA ByteFacts ==
    /\ Bytes \in Nat /\ Bytes = WIDTH * LimbBytes /\ Bytes >= 2 /\ LimbBits = LimbBytes * ByteBits
    /\ Pow2[DigitBits] \in Nat /\ Pow2[DigitBits] > 0
    /\ Pow2[ByteBits] \in Nat /\ Pow2[ByteBits] > 0 /\ Pow2[ByteBits] = Pow2[DigitBits] * Pow2[DigitBits]
<1>1. /\ WIDTH \in Nat /\ WIDTH >= 2 /\ LimbBytes \in Nat /\ LimbBytes >= 1
      /\ DigitBits \in Nat /\ ByteBits \in Nat /\ ByteBits = 2 * DigitBits
  BY SizeFacts
<1>2. Bytes \in Nat /\ Bytes = WIDTH * LimbBytes /\ LimbBits = LimbBytes * ByteBits
  BY <1>1 DEF Bytes, LimbBits
<1>3. Bytes >= 2
  <2>1. 1 * WIDTH <= LimbBytes * WIDTH
    BY <1>1, TimesMono
  <2>2. LimbBytes * WIDTH = WIDTH * LimbBytes
    BY <1>1
  <2> QED
    BY <1>1, <1>2, <2>1, <2>2
<1>4. ByteBits = DigitBits + DigitBits
  BY <1>1
<1> QED
  BY <1>1, <1>2, <1>3, <1>4, Pow2Sum, Pow2Positive

\* Byte j + 1 of limb i.
LEMMA BlobFacts ==
    ASSUME NEW a \in Num, NEW blob, blob = ArithToUint256(a)
    PROVE  /\ blob \in [1..Bytes -> 0..Pow2[ByteBits] - 1]
           /\ \A i \in 0..WIDTH - 1 : \A j \in 0..LimbBytes - 1 :
                /\ i * LimbBytes + j + 1 \in 1..Bytes
                /\ blob[i * LimbBytes + j + 1] = (a[i] \div Pow2[j * ByteBits]) % Pow2[ByteBits]
<1>1. /\ WIDTH \in Nat /\ LimbBytes \in Nat /\ LimbBytes >= 1 /\ ByteBits \in Nat
  BY SizeFacts
<1>2. Bytes \in Nat /\ Bytes = WIDTH * LimbBytes
  BY ByteFacts
<1>3. PICK w \in Nat : w = Pow2[ByteBits] /\ w > 0
  BY ByteFacts
<1>4. \A i \in 0..WIDTH - 1 : a[i] \in Nat
  BY NumFacts
<1>5. \A k \in 1..Bytes : blob[k] = (a[(k - 1) \div LimbBytes] \div Pow2[((k - 1) % LimbBytes) * ByteBits]) % w
  BY <1>3 DEF ArithToUint256
<1>6. ASSUME NEW k \in 1..Bytes PROVE blob[k] \in 0..w - 1
  <2>1. k - 1 \in Nat /\ k - 1 < WIDTH * LimbBytes
    BY <1>2
  <2>2. (k - 1) \div LimbBytes \in Nat /\ (k - 1) \div LimbBytes < WIDTH /\ (k - 1) % LimbBytes \in Nat
    <3>1. PICK m \in Nat : m = k - 1 /\ m < WIDTH * LimbBytes
      BY <2>1
    <3>2. LimbBytes > 0
      BY <1>1
    <3>3. m \div LimbBytes \in Nat /\ m % LimbBytes \in Nat
      BY <1>1, <3>2, DivFacts
    <3>4. m \div LimbBytes < WIDTH
      BY <1>1, <3>1, <3>2, DivIsGreatest
    <3> QED
      BY <3>1, <3>3, <3>4
  <2>3. PICK x \in Nat : x = a[(k - 1) \div LimbBytes]
    BY <1>1, <1>4, <2>2
  <2>4. PICK q \in Nat : q = Pow2[((k - 1) % LimbBytes) * ByteBits] /\ q > 0
    BY <1>1, <2>2, PowType
  <2>5. PICK y \in Nat : y = x \div q
    BY <2>4, DivFacts
  <2>6. y % w \in 0..w - 1
    BY <1>3, DivFacts
  <2> QED
    <3>1. blob[k] = (x \div q) % w
      BY <1>5, <2>3, <2>4
    <3> QED
      BY <2>5, <2>6, <3>1
<1>7. blob \in [1..Bytes -> 0..w - 1]
  <2>1. blob = [k \in 1..Bytes |-> blob[k]]
    <3> DEFINE f(k) == (a[(k - 1) \div LimbBytes] \div Pow2[((k - 1) % LimbBytes) * ByteBits]) % Pow2[ByteBits]
    <3>1. blob = [k \in 1..Bytes |-> f(k)]
      BY DEF ArithToUint256
    <3> HIDE DEF f
    <3> QED
      BY <3>1
  <2> QED
    BY <1>6, <2>1
<1>8. ASSUME NEW i \in 0..WIDTH - 1, NEW j \in 0..LimbBytes - 1
      PROVE  /\ i * LimbBytes + j + 1 \in 1..Bytes
             /\ blob[i * LimbBytes + j + 1] = (a[i] \div Pow2[j * ByteBits]) % w
  <2>1. PICK g \in Nat : g = i * LimbBytes
    BY <1>1
  <2>2. (i + 1) * LimbBytes <= WIDTH * LimbBytes /\ (i + 1) * LimbBytes = g + LimbBytes
    <3>1. i + 1 <= WIDTH /\ i + 1 \in Nat
      BY <1>1
    <3> QED
      BY <1>1, <2>1, <3>1, TimesMono
  <2>3. g + j + 1 \in 1..Bytes /\ (g + j + 1) - 1 = g + j /\ g + j \in Nat /\ j \in Nat /\ i \in Nat
    BY <1>1, <1>2, <2>1, <2>2
  <2>4. (g + j) \div LimbBytes = i
    <3>1. (i + 1) * LimbBytes = g + LimbBytes
      BY <2>2
    <3>2. i * LimbBytes <= g + j /\ g + j < (i + 1) * LimbBytes
      BY <1>1, <2>1, <2>3, <3>1
    <3>3. LimbBytes > 0
      BY <1>1
    <3> QED
      BY <1>1, <2>3, <3>2, <3>3, DivIs
  <2>5. (g + j) % LimbBytes = j
    <3>1. PICK x \in Int, k \in Int : x = g + j /\ k = i
      BY <2>3
    <3>2. x = k * LimbBytes + j /\ j < LimbBytes
      BY <1>1, <2>1, <3>1
    <3>3. x % LimbBytes = j
      BY <1>1, <2>3, <3>2, ModIs
    <3> QED
      BY <3>1, <3>3
  <2>6. blob[g + j + 1] = (a[i] \div Pow2[j * ByteBits]) % w
    BY <1>5, <2>3, <2>4, <2>5
  <2> QED
    BY <2>1, <2>3, <2>6
<1> QED
  BY <1>3, <1>7, <1>8

\* readLE32 puts a limb together again.
LEMMA BlobToLimbs ==
    ASSUME NEW a \in Num, NEW blob, blob = ArithToUint256(a)
    PROVE  UintToArith256(blob) = a
<1>1. /\ WIDTH \in Nat /\ LimbBytes \in Nat /\ ByteBits \in Nat /\ Limb = Pow2[LimbBytes * ByteBits]
  BY SizeFacts, ByteFacts
<1>2. Index = 0..WIDTH - 1 /\ \A i \in 0..WIDTH - 1 : a[i] \in Nat /\ a[i] < Limb
  BY NumFacts
<1>3. ASSUME NEW i \in Index PROVE UintToArith256(blob)[i] = a[i]
  <2> DEFINE d == [j \in 0..LimbBytes - 1 |-> blob[i * LimbBytes + j + 1]]
  <2>1. UintToArith256(blob)[i] = FromDigits(d, ByteBits, LimbBytes)
    BY DEF UintToArith256
  <2>2. ASSUME NEW j \in 0..LimbBytes - 1 PROVE d[j] = (a[i] \div Pow2[j * ByteBits]) % Pow2[ByteBits]
    <3>1. i \in 0..WIDTH - 1
      BY <1>2
    <3>2. blob[i * LimbBytes + j + 1] = (a[i] \div Pow2[j * ByteBits]) % Pow2[ByteBits]
      BY <3>1, BlobFacts
    <3> QED
      BY <3>2
  <2> HIDE DEF d
  <2>3. PICK x \in Nat : x = a[i] /\ x < Pow2[LimbBytes * ByteBits]
    BY <1>1, <1>2
  <2>4. \A j \in 0..LimbBytes - 1 : d[j] = (x \div Pow2[j * ByteBits]) % Pow2[ByteBits]
    BY <2>2, <2>3
  <2>5. FromDigits(d, ByteBits, LimbBytes) = x
    BY <1>1, <2>3, <2>4, DigitsOf
  <2> QED
    BY <2>1, <2>3, <2>5
<1>4. a \in [Index -> 0..Limb - 1]
  BY DEF Num
<1>5. UintToArith256(blob) = [i \in Index |-> UintToArith256(blob)[i]]
  <2> DEFINE f(i) == FromDigits([j \in 0..LimbBytes - 1 |-> blob[i * LimbBytes + j + 1]], ByteBits, LimbBytes)
  <2>1. UintToArith256(blob) = [i \in Index |-> f(i)]
    BY DEF UintToArith256
  <2> HIDE DEF f
  <2> QED
    BY <2>1
<1> QED
  BY <1>3, <1>4, <1>5

\* The digits of a byte.
LEMMA HexFacts ==
    ASSUME NEW blob \in [1..Bytes -> 0..Pow2[ByteBits] - 1], NEW hex, hex = GetHex(blob)
    PROVE  /\ hex \in Seq(Nat) /\ Len(hex) = 2 * Bytes /\ DOMAIN hex = 1..2 * Bytes
           /\ \A i \in 1..2 * Bytes : hex[i] \in Nat
           /\ \A j \in 1..Bytes :
                /\ 2 * (Bytes - j) + 1 \in 1..2 * Bytes /\ 2 * (Bytes - j) + 2 \in 1..2 * Bytes
                /\ hex[2 * (Bytes - j) + 2] + hex[2 * (Bytes - j) + 1] * Pow2[DigitBits] = blob[j]
<1> DEFINE rev == Reverse(blob)
<1>1. Bytes \in Nat
  BY ByteFacts
<1>2. PICK D \in Nat, w \in Nat : D = Pow2[DigitBits] /\ D > 0 /\ w = Pow2[ByteBits] /\ w > 0
  BY ByteFacts
<1>3. blob \in [1..Bytes -> 0..w - 1]
  BY <1>2
<1>4. blob \in Seq(Nat) /\ Len(blob) = Bytes
  <2>1. blob \in [1..Bytes -> Nat]
    BY <1>2, <1>3
  <2>2. blob \in Seq(Nat)
    BY <1>1, <2>1
  <2> QED
    BY <1>1, <2>1, <2>2, LenProperties
<1>5. rev \in [1..Bytes -> Nat] /\ \A k \in 1..Bytes : rev[k] = blob[(Bytes - k) + 1]
  <2>1. rev = [k \in 1..Bytes |-> blob[(Bytes - k) + 1]]
    BY <1>4 DEF Reverse
  <2>2. \A k \in 1..Bytes : (Bytes - k) + 1 \in 1..Bytes
    BY <1>1
  <2> QED
    BY <1>2, <1>3, <2>1, <2>2
<1>6. Len(rev) = Bytes
  <2>1. rev \in Seq(Nat)
    BY <1>1, <1>5
  <2> QED
    BY <1>1, <1>5, <2>1, LenProperties
<1> HIDE DEF rev
<1> DEFINE f(i) == IF i % 2 = 1 THEN rev[(i + 1) \div 2] \div D ELSE rev[(i + 1) \div 2] % D
<1>7. hex = [i \in 1..2 * Bytes |-> f(i)]
  BY <1>2, <1>6 DEF GetHex, HexStr, rev
<1>8. ASSUME NEW i \in 1..2 * Bytes PROVE f(i) \in Nat
  <2>1. PICK x \in Nat : x = rev[(i + 1) \div 2]
    <3>1. (i + 1) \div 2 \in 1..Bytes
      BY <1>1
    <3> QED
      BY <1>5, <3>1
  <2>2. x \div D \in Nat /\ x % D \in Nat
    BY <1>2, DivFacts
  <2> QED
    BY <2>1, <2>2
<1>9. hex \in [1..2 * Bytes -> Nat]
  <2> HIDE DEF f
  <2> QED
    BY <1>7, <1>8
<1>10. hex \in Seq(Nat) /\ Len(hex) = 2 * Bytes /\ DOMAIN hex = 1..2 * Bytes /\ \A i \in 1..2 * Bytes : hex[i] \in Nat
  <2>1. 2 * Bytes \in Nat
    BY <1>1
  <2>2. hex \in Seq(Nat)
    BY <1>9, <2>1
  <2> QED
    BY <1>9, <2>1, <2>2, LenProperties
<1>11. ASSUME NEW j \in 1..Bytes
       PROVE  /\ 2 * (Bytes - j) + 1 \in 1..2 * Bytes /\ 2 * (Bytes - j) + 2 \in 1..2 * Bytes
              /\ hex[2 * (Bytes - j) + 2] + hex[2 * (Bytes - j) + 1] * D = blob[j]
  <2>1. PICK m \in Nat : m = Bytes - j
    BY <1>1
  <2>2. 2 * m + 1 \in 1..2 * Bytes /\ 2 * m + 2 \in 1..2 * Bytes /\ m + 1 \in 1..Bytes /\ (Bytes - (m + 1)) + 1 = j
    BY <1>1, <2>1
  <2>3. (2 * m + 1) % 2 = 1 /\ ((2 * m + 1) + 1) \div 2 = m + 1 /\ (2 * m + 2) % 2 # 1 /\ ((2 * m + 2) + 1) \div 2 = m + 1
    OBVIOUS
  <2>4. PICK x \in Nat : x = blob[j] /\ rev[m + 1] = x
    BY <1>2, <1>3, <1>5, <2>2
  <2>5. hex[2 * m + 1] = x \div D /\ hex[2 * m + 2] = x % D
    BY <1>7, <2>2, <2>3, <2>4
  <2>6. PICK y \in Nat, z \in Nat : y = x \div D /\ z = x % D /\ x = y * D + z
    <3>1. x \div D \in Nat /\ x % D \in 0..D - 1 /\ x = (x \div D) * D + (x % D)
      BY <1>2, DivFacts
    <3>2. x % D \in Nat
      BY <1>2
    <3> QED
      BY <3>1, <3>2
  <2>7. z + y * D = x
    <3>1. PICK u \in Nat : u = y * D
      BY <1>2
    <3> QED
      BY <2>6, <3>1
  <2> QED
    BY <2>1, <2>2, <2>4, <2>5, <2>6, <2>7
<1> QED
  BY <1>2, <1>10, <1>11

\* The longest run of spaces, and of digits, that a text begins with.
LEMMA LongestRun ==
    ASSUME NEW str \in Seq(Int), NEW k \in 0..Len(str)
    PROVE  /\ (\A j \in 1..k : str[j] = Space) /\ (k = Len(str) \/ str[k + 1] # Space)
                => Max({i \in 0..Len(str) : \A j \in 1..i : str[j] = Space}) = k
           /\ (\A j \in 1..k : str[j] >= 0) /\ (k = Len(str) \/ ~(str[k + 1] >= 0))
                => Max({i \in 0..Len(str) : \A j \in 1..i : str[j] >= 0}) = k
<1> DEFINE S == {i \in 0..Len(str) : \A j \in 1..i : str[j] = Space}
           T == {i \in 0..Len(str) : \A j \in 1..i : str[j] >= 0}
<1>1. Len(str) \in Nat /\ k \in Nat /\ k <= Len(str)
  BY LenProperties
<1>2. ASSUME \A j \in 1..k : str[j] = Space, k = Len(str) \/ str[k + 1] # Space PROVE Max(S) = k
  <2>1. k \in S /\ S \in SUBSET (0..Len(str)) /\ S # {}
    BY <1>2
  <2>2. Max(S) \in S /\ k <= Max(S)
    <3> HIDE DEF S
    <3> QED
      BY <1>1, <2>1, MaxOfBounded
  <2>3. PICK m \in 0..Len(str) : m = Max(S) /\ (\A j \in 1..m : str[j] = Space)
    BY <2>2
  <2>4. m > k => k + 1 \in 1..m /\ k # Len(str)
    BY <1>1
  <2> QED
    BY <1>1, <1>2, <2>2, <2>3, <2>4
<1>3. ASSUME \A j \in 1..k : str[j] >= 0, k = Len(str) \/ ~(str[k + 1] >= 0) PROVE Max(T) = k
  <2>1. k \in T /\ T \in SUBSET (0..Len(str)) /\ T # {}
    BY <1>3
  <2>2. Max(T) \in T /\ k <= Max(T)
    <3> HIDE DEF T
    <3> QED
      BY <1>1, <2>1, MaxOfBounded
  <2>3. PICK m \in 0..Len(str) : m = Max(T) /\ (\A j \in 1..m : str[j] >= 0)
    BY <2>2
  <2>4. m > k => k + 1 \in 1..m /\ k # Len(str)
    BY <1>1
  <2> QED
    BY <1>1, <1>3, <2>2, <2>3, <2>4
<1> QED
  BY <1>2, <1>3

\* A text of digits is taken as it is.
LEMMA DigitsPlain ==
    ASSUME NEW str \in Seq(Int), \A j \in 1..Len(str) : str[j] >= 0
    PROVE  Digits(str) = str
<1>1. Len(str) \in Nat /\ Space = -1 /\ LetterX = -2 /\ Other = -3
  BY LenProperties DEF Space, LetterX, Other
<1>2. Max({i \in 0..Len(str) : \A j \in 1..i : str[j] = Space}) = 0
  <2>1. 0 \in 0..Len(str) /\ \A j \in 1..0 : str[j] = Space
    BY <1>1
  <2>2. 0 = Len(str) \/ str[0 + 1] # Space
    BY <1>1
  <2> QED
    BY <2>1, <2>2, LongestRun
<1>3. SubSeq(str, 0 + 1, Len(str)) = str
  BY SubSeqFull
<1>4. ~(Len(str) >= 2 /\ str[1] = 0 /\ str[2] = LetterX)
  BY <1>1
<1>5. Max({i \in 0..Len(str) : \A j \in 1..i : str[j] >= 0}) = Len(str)
  <2>1. Len(str) \in 0..Len(str)
    BY <1>1
  <2> QED
    BY <2>1, LongestRun
<1>6. SubSeq(str, 1, Len(str)) = str
  BY SubSeqFull
<1> QED
  BY <1>2, <1>3, <1>4, <1>5, <1>6, Zenon DEF Digits

\* Two texts, one after the other.
Join(s, t) == s \o t

LEMMA JoinFacts ==
    ASSUME NEW s \in Seq(Int), NEW t \in Seq(Int)
    PROVE  /\ Join(s, t) \in Seq(Int) /\ Len(Join(s, t)) = Len(s) + Len(t)
           /\ \A i \in 1..Len(s) : Join(s, t)[i] = s[i]
           /\ \A i \in 1..Len(t) : Join(s, t)[Len(s) + i] = t[i]
<1>1. /\ s \o t \in Seq(Int) /\ Len(s \o t) = Len(s) + Len(t)
      /\ \A i \in 1..Len(s) + Len(t) : (s \o t)[i] = IF i <= Len(s) THEN s[i] ELSE t[i - Len(s)]
  BY ConcatProperties
<1>2. Len(s) \in Nat /\ Len(t) \in Nat
  BY LenProperties
<1>3. \A i \in 1..Len(s) : i \in 1..Len(s) + Len(t) /\ i <= Len(s)
  BY <1>2
<1>4. \A i \in 1..Len(t) : Len(s) + i \in 1..Len(s) + Len(t) /\ ~(Len(s) + i <= Len(s)) /\ (Len(s) + i) - Len(s) = i
  BY <1>2
<1> QED
  BY <1>1, <1>3, <1>4 DEF Join

\* Spaces and 0x in front of the digits, and what comes after them, are left out.
LEMMA DigitsWithin ==
    ASSUME NEW hex \in Seq(Nat)
    PROVE  Digits(<<Space, 0, LetterX>> \o hex \o <<Other, 1>>) = hex
<1> DEFINE str == <<Space, 0, LetterX>> \o hex \o <<Other, 1>>
           N == Len(hex)
           t == SubSeq(str, 1 + 1, Len(str))
           u == SubSeq(t, 3, Len(t))
<1>1. N \in Nat /\ Space = -1 /\ LetterX = -2 /\ Other = -3 /\ hex \in Seq(Int) /\ \A i \in 1..N : hex[i] \in Nat
  BY LenProperties DEF Space, LetterX, Other
<1>2. /\ str \in Seq(Int) /\ Len(str) = N + 5
      /\ str[1] = Space /\ str[2] = 0 /\ str[3] = LetterX /\ str[N + 4] = Other /\ str[N + 5] = 1
      /\ \A i \in 1..N : str[i + 3] = hex[i]
  <2> DEFINE f == <<Space, 0, LetterX>>
             g == <<Other, 1>>
             fh == Join(f, hex)
  <2>1. /\ f \in Seq(Int) /\ Len(f) = 3 /\ f[1] = Space /\ f[2] = 0 /\ f[3] = LetterX
        /\ g \in Seq(Int) /\ Len(g) = 2 /\ g[1] = Other /\ g[2] = 1
    BY <1>1
  <2>2. str = Join(fh, g)
    BY DEF Join
  <2> HIDE DEF f, g, str
  <2>3. /\ fh \in Seq(Int) /\ Len(fh) = 3 + N
        /\ (\A i \in 1..3 : fh[i] = f[i]) /\ \A i \in 1..N : fh[3 + i] = hex[i]
    <3>1. /\ fh \in Seq(Int) /\ Len(fh) = Len(f) + Len(hex)
          /\ (\A i \in 1..Len(f) : fh[i] = f[i]) /\ \A i \in 1..Len(hex) : fh[Len(f) + i] = hex[i]
      BY <1>1, <2>1, JoinFacts, Zenon
    <3> QED
      BY <2>1, <3>1, Zenon
  <2> HIDE DEF fh
  <2>4. 3 + N \in Nat /\ 2 \in Nat
    BY <1>1
  <2>5. /\ str \in Seq(Int) /\ Len(str) = (3 + N) + 2
        /\ (\A i \in 1..3 + N : str[i] = fh[i]) /\ \A i \in 1..2 : str[(3 + N) + i] = g[i]
    <3>1. /\ str \in Seq(Int) /\ Len(str) = Len(fh) + Len(g)
          /\ (\A i \in 1..Len(fh) : str[i] = fh[i]) /\ \A i \in 1..Len(g) : str[Len(fh) + i] = g[i]
      BY <2>1, <2>2, <2>3, JoinFacts, ZenonT(30)
    <3> QED
      BY <2>1, <2>3, <3>1, Zenon
  <2>6. str[1] = Space /\ str[2] = 0 /\ str[3] = LetterX
    <3>1. 1 \in 1..3 + N /\ 2 \in 1..3 + N /\ 3 \in 1..3 + N /\ 1 \in 1..3 /\ 2 \in 1..3 /\ 3 \in 1..3
      BY <1>1
    <3>2. str[1] = fh[1] /\ str[2] = fh[2] /\ str[3] = fh[3]
      BY <2>5, <3>1
    <3>3. fh[1] = f[1] /\ fh[2] = f[2] /\ fh[3] = f[3]
      BY <2>3, <3>1
    <3> QED
      BY <2>1, <3>2, <3>3
  <2>7. str[N + 4] = Other /\ str[N + 5] = 1
    <3>1. (3 + N) + 1 = N + 4 /\ (3 + N) + 2 = N + 5 /\ 1 \in 1..2 /\ 2 \in 1..2
      BY <1>1
    <3>2. str[(3 + N) + 1] = g[1] /\ str[(3 + N) + 2] = g[2]
      BY <2>5, <3>1, Zenon
    <3> QED
      BY <2>1, <3>1, <3>2, Zenon
  <2>8. ASSUME NEW i \in 1..N PROVE str[i + 3] = hex[i]
    <3>1. 3 + i \in 1..3 + N /\ 3 + i = i + 3
      BY <1>1
    <3>2. str[3 + i] = fh[3 + i] /\ fh[3 + i] = hex[i]
      BY <2>3, <2>5, <3>1, Zenon
    <3> QED
      BY <3>1, <3>2, Zenon
  <2>9. (3 + N) + 2 = N + 5
    BY <1>1
  <2> QED
    BY <2>5, <2>6, <2>7, <2>8, <2>9
<1> HIDE DEF str
<1>3. Max({i \in 0..Len(str) : \A j \in 1..i : str[j] = Space}) = 1
  <2>1. 1 \in 0..Len(str) /\ (\A j \in 1..1 : str[j] = Space) /\ str[1 + 1] # Space
    BY <1>1, <1>2
  <2> QED
    BY <1>2, <2>1, LongestRun
<1>4. t \in Seq(Int) /\ Len(t) = N + 4 /\ \A i \in 1..N + 4 : t[i] = str[i + 1]
  <2>1. \A i \in 1 + 1..Len(str) : str[i] \in Int
    BY <1>2
  <2>2. 1 + 1 \in Int /\ Len(str) \in Int /\ 1 + 1 <= Len(str) /\ Len(str) - (1 + 1) + 1 = N + 4
    BY <1>1, <1>2
  <2>3. t \in Seq(Int) /\ Len(t) = N + 4 /\ \A i \in 1..N + 4 : t[i] = str[(1 + 1) + i - 1]
    BY <2>1, <2>2, SubSeqProperties
  <2> QED
    BY <1>1, <2>3
<1> HIDE DEF t
<1>5. Len(t) >= 2 /\ t[1] = 0 /\ t[2] = LetterX
  BY <1>1, <1>2, <1>4
<1>6. u \in Seq(Int) /\ Len(u) = N + 2 /\ \A i \in 1..N + 2 : u[i] = str[i + 3]
  <2>1. \A i \in 3..Len(t) : t[i] \in Int
    BY <1>4
  <2>2. 3 \in Int /\ Len(t) \in Int /\ 3 <= Len(t) /\ Len(t) - 3 + 1 = N + 2
    BY <1>1, <1>4
  <2>3. u \in Seq(Int) /\ Len(u) = N + 2 /\ \A i \in 1..N + 2 : u[i] = t[3 + i - 1]
    BY <2>1, <2>2, SubSeqProperties
  <2>4. \A i \in 1..N + 2 : 3 + i - 1 \in 1..N + 4 /\ (3 + i - 1) + 1 = i + 3
    BY <1>1
  <2> QED
    BY <1>4, <2>3, <2>4
<1> HIDE DEF u
<1>7. (\A i \in 1..N : u[i] = hex[i]) /\ u[N + 1] = Other
  <2>1. \A i \in 1..N : i \in 1..N + 2
    BY <1>1
  <2>2. N + 1 \in 1..N + 2 /\ (N + 1) + 3 = N + 4
    BY <1>1
  <2> QED
    BY <1>2, <1>6, <2>1, <2>2
<1>8. Max({i \in 0..Len(u) : \A j \in 1..i : u[j] >= 0}) = N
  <2>1. N \in 0..Len(u) /\ (\A j \in 1..N : u[j] >= 0) /\ ~(u[N + 1] >= 0)
    <3>1. N \in 0..Len(u)
      BY <1>1, <1>6
    <3>2. ASSUME NEW j \in 1..N PROVE u[j] >= 0
      <4>1. u[j] = hex[j] /\ hex[j] \in Nat
        BY <1>1, <1>7
      <4> QED
        BY <4>1
    <3>3. u[N + 1] = -3
      BY <1>1, <1>7
    <3> QED
      BY <3>1, <3>2, <3>3
  <2> QED
    BY <1>6, <2>1, LongestRun
<1>9. SubSeq(u, 1, N) = hex
  <2>1. \A i \in 1..N : u[i] \in Int
    BY <1>1, <1>7
  <2>2. SubSeq(u, 1, N) \in Seq(Int) /\ Len(SubSeq(u, 1, N)) = N /\ \A i \in 1..N : SubSeq(u, 1, N)[i] = u[i]
    <3>1. 1 \in Int /\ N \in Int /\ N - 1 + 1 = N /\ (1 <= N \/ N = 0)
      BY <1>1
    <3>2. /\ SubSeq(u, 1, N) \in Seq(Int) /\ Len(SubSeq(u, 1, N)) = (IF 1 <= N THEN N - 1 + 1 ELSE 0)
          /\ \A i \in 1..N - 1 + 1 : SubSeq(u, 1, N)[i] = u[1 + i - 1]
      BY <2>1, <3>1, SubSeqProperties
    <3>3. \A i \in 1..N : i \in 1..N - 1 + 1 /\ 1 + i - 1 = i
      BY <1>1
    <3> QED
      BY <1>1, <3>1, <3>2, <3>3
  <2>3. \A i \in 1..N : SubSeq(u, 1, N)[i] = hex[i]
    BY <1>7, <2>2
  <2> QED
    BY <1>1, <2>2, <2>3, SeqEqual
<1> QED
  BY <1>3, <1>5, <1>8, <1>9, Zenon DEF Digits, t, u, str

\* The digits d end in those of hex: where d is shorter, hex has zeros.
EndsIn(d, hex) ==
    \A m \in 1..2 * Bytes :
        hex[m] = IF Len(d) - 2 * Bytes + m \in DOMAIN d THEN d[Len(d) - 2 * Bytes + m] ELSE 0

\* setHex fills the blob from the end of the digits.
LEMMA SetHexEnds ==
    ASSUME NEW blob \in [1..Bytes -> 0..Pow2[ByteBits] - 1], NEW hex, hex = GetHex(blob),
           NEW str, NEW d \in Seq(Int), Digits(str) = d, EndsIn(d, hex)
    PROVE  SetHex(str) = blob
<1> DEFINE digit(i) == IF i \in DOMAIN d THEN d[i] ELSE 0
           byte(j) == digit(Len(d) - 2 * j + 2) + digit(Len(d) - 2 * j + 1) * Pow2[DigitBits]
<1>1. SetHex(str) = [j \in 1..Bytes |-> byte(j)]
  BY DEF SetHex
<1>2. Bytes \in Nat /\ Len(d) \in Nat
  BY ByteFacts, LenProperties
<1>3. \A j \in 1..Bytes :
        /\ 2 * (Bytes - j) + 1 \in 1..2 * Bytes /\ 2 * (Bytes - j) + 2 \in 1..2 * Bytes
        /\ hex[2 * (Bytes - j) + 2] + hex[2 * (Bytes - j) + 1] * Pow2[DigitBits] = blob[j]
  BY HexFacts
<1>4. ASSUME NEW j \in 1..Bytes PROVE byte(j) = blob[j]
  <2>1. /\ Len(d) - 2 * Bytes + (2 * (Bytes - j) + 1) = Len(d) - 2 * j + 1
        /\ Len(d) - 2 * Bytes + (2 * (Bytes - j) + 2) = Len(d) - 2 * j + 2
    BY <1>2
  <2>2. hex[2 * (Bytes - j) + 1] = digit(Len(d) - 2 * j + 1)
    BY <1>3, <2>1, Zenon DEF EndsIn
  <2>3. hex[2 * (Bytes - j) + 2] = digit(Len(d) - 2 * j + 2)
    BY <1>3, <2>1, Zenon DEF EndsIn
  <2> HIDE DEF digit
  <2> QED
    BY <1>3, <2>2, <2>3, Zenon
<1> HIDE DEF byte
<1>5. [j \in 1..Bytes |-> byte(j)] = [j \in 1..Bytes |-> blob[j]]
  BY <1>4
<1>6. blob = [j \in 1..Bytes |-> blob[j]]
  OBVIOUS
<1> QED
  BY <1>1, <1>5, <1>6

\* A text without its leading zeros is a text of the same number.
LEMMA LeadingZeros ==
    ASSUME NEW blob \in [1..Bytes -> 0..Pow2[ByteBits] - 1], NEW hex, hex = GetHex(blob),
           NEW n \in 0..2 * Bytes - 1, \A j \in 1..n : hex[j] = 0
    PROVE  SetHex(SubSeq(hex, n + 1, Len(hex))) = blob
<1> DEFINE str == SubSeq(hex, n + 1, Len(hex))
<1>1. /\ hex \in Seq(Nat) /\ Len(hex) = 2 * Bytes
      /\ \A i \in 1..2 * Bytes : hex[i] \in Nat
  BY HexFacts
<1>2. PICK B \in Nat : B = 2 * Bytes /\ n \in Nat /\ n <= B - 1
  <2>1. Bytes \in Nat
    BY ByteFacts
  <2> QED
    BY <2>1
<1>3. /\ str \in Seq(Nat) /\ str \in Seq(Int) /\ Len(str) = B - n
      /\ \A i \in 1..B - n : str[i] = hex[n + i]
  <2>1. /\ n + 1 \in Int /\ B \in Int /\ n + 1 <= B /\ B - (n + 1) + 1 = B - n
        /\ \A i \in n + 1..B : i \in 1..B
        /\ \A i \in 1..B - n : (n + 1) + i - 1 = n + i
    BY <1>2
  <2>2. \A i \in n + 1..B : hex[i] \in Nat
    BY <1>1, <1>2, <2>1
  <2>3. /\ SubSeq(hex, n + 1, B) \in Seq(Nat)
        /\ Len(SubSeq(hex, n + 1, B)) = IF n + 1 <= B THEN B - (n + 1) + 1 ELSE 0
        /\ \A i \in 1..B - (n + 1) + 1 : SubSeq(hex, n + 1, B)[i] = hex[(n + 1) + i - 1]
    <3>1. PICK k \in Int : k = n + 1
      BY <2>1
    <3>2. B \in Int /\ \A i \in k..B : hex[i] \in Nat
      BY <2>1, <2>2, <3>1
    <3>3. /\ SubSeq(hex, k, B) \in Seq(Nat)
          /\ Len(SubSeq(hex, k, B)) = IF k <= B THEN B - k + 1 ELSE 0
          /\ \A i \in 1..B - k + 1 : SubSeq(hex, k, B)[i] = hex[k + i - 1]
      BY <3>2, SubSeqProperties
    <3> QED
      BY <3>1, <3>3, Zenon
  <2>4. str = SubSeq(hex, n + 1, B)
    BY <1>1, <1>2, Zenon
  <2> HIDE DEF str
  <2>5. str \in Seq(Nat) /\ Len(str) = B - n /\ \A i \in 1..B - n : str[i] = hex[n + i]
    <3>1. str \in Seq(Nat) /\ Len(str) = B - n
      BY <2>1, <2>3, <2>4, Zenon
    <3>2. ASSUME NEW i \in 1..B - n PROVE str[i] = hex[n + i]
      BY <2>1, <2>3, <2>4, Zenon
    <3> QED
      BY <3>1, <3>2
  <2>6. str \in Seq(Int)
    BY <2>5
  <2> QED
    BY <2>5, <2>6
<1> HIDE DEF str
<1>4. DOMAIN str = 1..B - n
  BY <1>3, LenProperties
<1>5. \A j \in 1..Len(str) : str[j] >= 0
  <2> TAKE j \in 1..Len(str)
  <2>1. n + j \in 1..B /\ j \in 1..B - n
    BY <1>2, <1>3
  <2>2. str[j] \in Nat
    BY <1>1, <1>2, <1>3, <2>1
  <2> QED
    BY <2>2
<1>6. Digits(str) = str
  BY <1>3, <1>5, DigitsPlain
<1>7. EndsIn(str, hex)
  <2>1. ASSUME NEW m \in 1..B
        PROVE  hex[m] = IF Len(str) - B + m \in DOMAIN str THEN str[Len(str) - B + m] ELSE 0
    <3>1. (B - n) - B + m = m - n
      BY <1>2
    <3>2. CASE m <= n
      <4>1. m - n \notin 1..B - n /\ m \in 1..n
        BY <1>2, <3>2
      <4>2. hex[m] = 0
        BY <4>1
      <4> QED
        BY <1>3, <1>4, <3>1, <4>1, <4>2, Zenon
    <3>3. CASE ~(m <= n)
      <4>1. m - n \in 1..B - n /\ n + (m - n) = m
        BY <1>2, <3>3
      <4> QED
        BY <1>3, <1>4, <3>1, <4>1, Zenon
    <3> QED
      BY <3>2, <3>3
  <2> QED
    BY <1>2, <2>1 DEF EndsIn
<1>8. SetHex(str) = blob
  BY <1>3, <1>6, <1>7, SetHexEnds
<1> QED
  BY <1>8, Zenon DEF str

\* The four texts that FormsAgree is about are texts of one number.
LEMMA TextForms ==
    ASSUME NEW blob \in [1..Bytes -> 0..Pow2[ByteBits] - 1], NEW hex, hex = GetHex(blob),
           NEW n, n = Max({i \in 0..Len(hex) - 1 : \A j \in 1..i : hex[j] = 0})
    PROVE  /\ SetHex(hex) = blob
           /\ SetHex(SubSeq(hex, n + 1, Len(hex))) = blob
           /\ SetHex(<<Space, 0, LetterX>> \o hex \o <<Other, 1>>) = blob
           /\ SetHex(<<1>> \o hex) = blob
<1>1. /\ Bytes \in Nat /\ Bytes >= 2
      /\ hex \in Seq(Nat) /\ hex \in Seq(Int) /\ Len(hex) = 2 * Bytes /\ DOMAIN hex = 1..2 * Bytes
      /\ \A i \in 1..2 * Bytes : hex[i] \in Nat
  <2>1. /\ hex \in Seq(Nat) /\ Len(hex) = 2 * Bytes /\ DOMAIN hex = 1..2 * Bytes
        /\ \A i \in 1..2 * Bytes : hex[i] \in Nat
    BY HexFacts
  <2>2. hex \in Seq(Int)
    BY <2>1
  <2> QED
    BY <2>1, <2>2, ByteFacts
<1>2. EndsIn(hex, hex)
  <2>1. \A m \in 1..2 * Bytes : Len(hex) - 2 * Bytes + m = m
    BY <1>1
  <2> QED
    BY <1>1, <2>1 DEF EndsIn
<1>3. SetHex(hex) = blob
  <2>1. \A j \in 1..Len(hex) : hex[j] >= 0
    BY <1>1
  <2>2. Digits(hex) = hex
    BY <1>1, <2>1, DigitsPlain
  <2> QED
    BY <1>1, <1>2, <2>2, SetHexEnds
<1>4. SetHex(<<Space, 0, LetterX>> \o hex \o <<Other, 1>>) = blob
  <2> DEFINE str == <<Space, 0, LetterX>> \o hex \o <<Other, 1>>
  <2>1. Digits(str) = hex
    BY <1>1, DigitsWithin
  <2> HIDE DEF str
  <2>2. SetHex(str) = blob
    BY <1>1, <1>2, <2>1, SetHexEnds
  <2> QED
    BY <2>2, Zenon DEF str
<1>5. SetHex(<<1>> \o hex) = blob
  <2> DEFINE one == <<1>>
             str == Join(one, hex)
  <2>1. one \in Seq(Int) /\ Len(one) = 1 /\ one[1] = 1
    OBVIOUS
  <2>2. one \o hex = str
    BY DEF Join
  <2> HIDE DEF one
  <2>3. /\ str \in Seq(Int) /\ Len(str) = Len(one) + Len(hex)
        /\ (\A i \in 1..Len(one) : str[i] = one[i]) /\ \A i \in 1..Len(hex) : str[Len(one) + i] = hex[i]
    BY <1>1, <2>1, JoinFacts, Zenon
  <2> HIDE DEF str
  <2>4. Len(str) = 1 + 2 * Bytes /\ str[1] = 1 /\ \A i \in 1..2 * Bytes : str[1 + i] = hex[i]
    <3>1. 1 \in 1..1
      OBVIOUS
    <3> QED
      BY <1>1, <2>1, <2>3, <3>1
  <2>5. DOMAIN str = 1..1 + 2 * Bytes
    BY <2>3, <2>4, LenProperties
  <2>6. ASSUME NEW j \in 1..Len(str) PROVE str[j] >= 0
    <3>1. CASE j = 1
      BY <2>4, <3>1
    <3>2. CASE j # 1
      <4>1. j - 1 \in 1..2 * Bytes /\ 1 + (j - 1) = j
        BY <1>1, <2>4, <3>2
      <4>2. str[j] = hex[j - 1] /\ hex[j - 1] \in Nat
        BY <1>1, <2>4, <4>1
      <4> QED
        BY <4>2
    <3> QED
      BY <3>1, <3>2
  <2>7. Digits(str) = str
    BY <2>3, <2>6, DigitsPlain
  <2>8. EndsIn(str, hex)
    <3>1. \A m \in 1..2 * Bytes : Len(str) - 2 * Bytes + m = 1 + m /\ 1 + m \in 1..1 + 2 * Bytes
      BY <1>1, <2>4
    <3> QED
      BY <2>4, <2>5, <3>1 DEF EndsIn
  <2>9. SetHex(str) = blob
    BY <2>3, <2>7, <2>8, SetHexEnds
  <2> QED
    BY <2>2, <2>9, Zenon DEF one
<1>6. SetHex(SubSeq(hex, n + 1, Len(hex))) = blob
  <2> DEFINE S == {i \in 0..Len(hex) - 1 : \A j \in 1..i : hex[j] = 0}
  <2>1. n \in 0..2 * Bytes - 1 /\ \A j \in 1..n : hex[j] = 0
    <3>1. 0 \in S /\ S \in SUBSET (0..Len(hex) - 1) /\ Len(hex) - 1 \in Nat
      BY <1>1
    <3>2. n \in S
      <4> HIDE DEF S
      <4>1. Max(S) \in S
        BY <3>1, MaxOfBounded
      <4> QED
        BY <4>1, Zenon DEF S
    <3> QED
      BY <1>1, <3>2
  <2> QED
    BY <2>1, LeadingZeros
<1> QED
  BY <1>3, <1>4, <1>5, <1>6

\* The low 64 bits of the limbs and of the bytes.
LEMMA CheapHashIsLow ==
    ASSUME NEW a \in Num, NEW blob, blob = ArithToUint256(a)
    PROVE  GetCheapHash(blob) = GetLow64(a)
<1> DEFINE d == [j \in 0..2 * LimbBytes - 1 |-> blob[0 * 2 * LimbBytes + j + 1]]
           e == [j \in 0..LimbBytes - 1 |-> d[LimbBytes + j]]
           w == Pow2[ByteBits]
<1>1. LimbBytes \in Nat /\ LimbBytes >= 1 /\ ByteBits \in Nat /\ WIDTH \in Nat /\ WIDTH >= 2
  BY SizeFacts
<1>2. Limb = Pow2[LimbBytes * ByteBits]
  BY SizeFacts, ByteFacts
<1>3. PICK x \in Nat, y \in Nat : x = a[0] /\ y = a[1] /\ x < Limb /\ y < Limb
  <2>1. 0 \in 0..WIDTH - 1 /\ 1 \in 0..WIDTH - 1
    BY <1>1
  <2> QED
    BY <2>1, NumFacts
<1>4. GetCheapHash(blob) = FromDigits(d, ByteBits, 2 * LimbBytes)
  BY Zenon DEF GetCheapHash, GetUint64
<1>5. ASSUME NEW j \in 0..LimbBytes - 1
      PROVE  /\ d[j] = (x \div Pow2[j * ByteBits]) % w
             /\ e[j] = (y \div Pow2[j * ByteBits]) % w
             /\ e[j] = d[LimbBytes + j]
  <2>1. 0 \in 0..WIDTH - 1 /\ 1 \in 0..WIDTH - 1
    BY <1>1
  <2>2. blob[0 * LimbBytes + j + 1] = (x \div Pow2[j * ByteBits]) % w
    BY <1>3, <2>1, BlobFacts
  <2>3. blob[1 * LimbBytes + j + 1] = (y \div Pow2[j * ByteBits]) % w
    BY <1>3, <2>1, BlobFacts
  <2>4. /\ j \in 0..2 * LimbBytes - 1 /\ LimbBytes + j \in 0..2 * LimbBytes - 1
        /\ 0 * LimbBytes + j + 1 = 0 * 2 * LimbBytes + j + 1
        /\ 1 * LimbBytes + j + 1 = 0 * 2 * LimbBytes + (LimbBytes + j) + 1
    BY <1>1
  <2>5. d[j] = blob[0 * LimbBytes + j + 1]
    BY <2>4, Zenon
  <2>6. d[LimbBytes + j] = blob[1 * LimbBytes + j + 1]
    BY <2>4, Zenon
  <2> HIDE DEF d, w
  <2>7. e[j] = d[LimbBytes + j]
    OBVIOUS
  <2> QED
    BY <2>2, <2>3, <2>5, <2>6, <2>7, Zenon
<1>6. w \in Nat /\ w > 0 /\ \A j \in Nat : Pow2[j * ByteBits] \in Nat /\ Pow2[j * ByteBits] > 0
  BY <1>1, Pow2Positive, PowType
<1> HIDE DEF d, e, w
<1>7. ASSUME NEW j \in 0..2 * LimbBytes - 1 PROVE d[j] \in Nat
  <2>1. CASE j < LimbBytes
    <3>1. j \in 0..LimbBytes - 1 /\ j \in Nat
      BY <1>1, <2>1
    <3>2. x \div Pow2[j * ByteBits] \in Nat
      BY <1>6, <3>1, DivFacts
    <3>3. (x \div Pow2[j * ByteBits]) % w \in Nat
      BY <1>6, <3>2
    <3> QED
      BY <1>5, <3>1, <3>3
  <2>2. CASE j >= LimbBytes
    <3>1. PICK k \in 0..LimbBytes - 1 : j = LimbBytes + k /\ k \in Nat
      <4>1. j - LimbBytes \in 0..LimbBytes - 1 /\ j = LimbBytes + (j - LimbBytes) /\ j - LimbBytes \in Nat
        BY <1>1, <2>2
      <4> QED
        BY <4>1
    <3>2. y \div Pow2[k * ByteBits] \in Nat
      BY <1>6, <3>1, DivFacts
    <3>3. (y \div Pow2[k * ByteBits]) % w \in Nat
      BY <1>6, <3>2
    <3> QED
      BY <1>5, <3>1, <3>3
  <2> QED
    BY <1>1, <2>1, <2>2
<1>8. FromDigits(d, ByteBits, LimbBytes) = x
  <2>1. \A j \in 0..LimbBytes - 1 : d[j] = (x \div Pow2[j * ByteBits]) % Pow2[ByteBits]
    BY <1>5 DEF w
  <2> QED
    BY <1>1, <1>2, <1>3, <2>1, DigitsOf
<1>9. FromDigits(e, ByteBits, LimbBytes) = y
  <2>1. \A j \in 0..LimbBytes - 1 : e[j] = (y \div Pow2[j * ByteBits]) % Pow2[ByteBits]
    BY <1>5 DEF w
  <2> QED
    BY <1>1, <1>2, <1>3, <2>1, DigitsOf
<1>10. FromDigits(d, ByteBits, 2 * LimbBytes) = x + Limb * y
  <2>1. Part(e, d, LimbBytes, LimbBytes)
    BY <1>5 DEF Part
  <2>2. PICK l \in Nat : l = 2 * LimbBytes /\ l = LimbBytes + LimbBytes
    BY <1>1
  <2>3. \A j \in 0..l - 1 : d[j] \in Nat
    BY <1>7, <2>2
  <2>4. FromDigits(d, ByteBits, l)
        = FromDigits(d, ByteBits, LimbBytes) + Pow2[LimbBytes * ByteBits] * FromDigits(e, ByteBits, LimbBytes)
    BY <1>1, <2>1, <2>2, <2>3, FromDigitsSplit
  <2> QED
    BY <1>2, <1>8, <1>9, <2>2, <2>4, Zenon
<1>11. GetLow64(a) = x + y * Limb
  BY <1>3, Zenon DEF GetLow64
<1>12. Limb * y = y * Limb
  BY <1>3, SizeFacts
<1> QED
  BY <1>4, <1>10, <1>11, <1>12, Zenon

\* The two lowest limbs.
LEMMA LowTwo ==
    ASSUME NEW d, d[0] \in Nat, d[1] \in Nat
    PROVE  /\ FromDigits(d, LimbBits, 2) = d[0] + d[1] * Limb
           /\ Pow2[2 * LimbBits] = Limb * Limb
<1>1. LimbBits \in Nat /\ Limb = Pow2[LimbBits] /\ Limb \in Nat
  BY SizeFacts
<1>2. 0 * LimbBits = 0 /\ 1 * LimbBits = LimbBits /\ 0 + 1 = 1 /\ 1 + 1 = 2
  BY <1>1
<1>3. (\A i \in 0..0 : d[i] \in Nat) /\ \A i \in 0..1 : d[i] \in Nat
  OBVIOUS
<1>4. FromDigits(d, LimbBits, 0) = 0
  BY <1>1, FromDigitsZero
<1>5. FromDigits(d, LimbBits, 1) = FromDigits(d, LimbBits, 0) + d[0] * Pow2[0]
  <2>1. FromDigits(d, LimbBits, 0 + 1) = FromDigits(d, LimbBits, 0) + d[0] * Pow2[0 * LimbBits]
    BY <1>1, <1>3, FromDigitsStep
  <2> QED
    BY <1>2, <2>1, Zenon
<1>6. FromDigits(d, LimbBits, 2) = FromDigits(d, LimbBits, 1) + d[1] * Pow2[LimbBits]
  <2>1. FromDigits(d, LimbBits, 1 + 1) = FromDigits(d, LimbBits, 1) + d[1] * Pow2[1 * LimbBits]
    BY <1>1, <1>3, FromDigitsStep
  <2> QED
    BY <1>2, <2>1, Zenon
<1>7. Pow2[0] = 1
  BY Pow2Def
<1>8. Pow2[2 * LimbBits] = Limb * Limb
  <2>1. Pow2[(1 + 1) * LimbBits] = Pow2[1 * LimbBits] * Pow2[1 * LimbBits]
    BY <1>1, PowSplit
  <2> QED
    BY <1>1, <1>2, <2>1, Zenon
<1>9. FromDigits(d, LimbBits, 1) = d[0]
  BY <1>4, <1>5, <1>7
<1> QED
  BY <1>1, <1>6, <1>8, <1>9, Zenon

\* A number is compared with a uint64_t as the number that has only its two lowest limbs.
LEMMA EqualToValue ==
    ASSUME NEW a \in Num, NEW b \in Num
    PROVE  EqualTo(a, GetLow64(b)) <=> Value(a) = Value(b) % (Limb * Limb)
<1> DEFINE c == [i \in Index |-> IF i < 2 THEN b[i] ELSE 0]
           h == [i \in 0..(WIDTH - 2) - 1 |-> b[i + 2]]
           z == [i \in 0..(WIDTH - 2) - 1 |-> c[i + 2]]
<1>1. WIDTH \in Nat /\ WIDTH >= 2 /\ LimbBits \in Nat /\ Limb \in Nat /\ Limb >= 4
  BY SizeFacts
<1>2. /\ Index = 0..WIDTH - 1
      /\ \A i \in 0..WIDTH - 1 : a[i] \in Nat /\ b[i] \in Nat /\ b[i] \in 0..Limb - 1
  BY NumFacts
<1>3. /\ 0 \in Index /\ 1 \in Index /\ 2 \in 0..WIDTH /\ WIDTH - 2 \in Nat
      /\ \A i \in 0..(WIDTH - 2) - 1 : i + 2 \in Index /\ ~(i + 2 < 2)
      /\ \A i \in Index : (i < 2 <=> i = 0 \/ i = 1) /\ (~(i < 2) <=> i \in 2..WIDTH - 1)
  BY <1>1, <1>2
<1>4. PICK x \in Nat, y \in Nat : x = b[0] /\ y = b[1] /\ x < Limb /\ y < Limb
  <2>1. 0 \in 0..WIDTH - 1 /\ 1 \in 0..WIDTH - 1
    BY <1>1
  <2> QED
    BY <2>1, NumFacts
<1>5. c \in Num /\ c[0] = x /\ c[1] = y /\ \A i \in 2..WIDTH - 1 : c[i] = 0
  <2>1. c \in Num
    BY <1>1, <1>2 DEF Num
  <2>2. c[0] = x /\ c[1] = y
    BY <1>3, <1>4
  <2>3. \A i \in 2..WIDTH - 1 : c[i] = 0
    BY <1>1, <1>2
  <2> QED
    BY <2>1, <2>2, <2>3
<1>6. (\A i \in 0..(WIDTH - 2) - 1 : h[i] = b[i + 2]) /\ \A i \in 0..(WIDTH - 2) - 1 : z[i] = c[i + 2] /\ z[i] = 0
  <2> HIDE DEF c
  <2>1. \A i \in 0..(WIDTH - 2) - 1 : i + 2 \in 2..WIDTH - 1
    BY <1>1
  <2> QED
    BY <1>5, <2>1
<1>7. c = [i \in Index |-> c[i]]
  OBVIOUS
<1> HIDE DEF c, h, z
<1>8. PICK l \in Nat : l = x + y * Limb /\ l = GetLow64(b) /\ l = FromDigits(b, LimbBits, 2) /\ l = FromDigits(c, LimbBits, 2)
  <2>1. FromDigits(b, LimbBits, 2) = x + y * Limb
    BY <1>4, LowTwo
  <2>2. FromDigits(c, LimbBits, 2) = x + y * Limb
    BY <1>5, LowTwo
  <2>3. GetLow64(b) = x + y * Limb
    BY <1>4, Zenon DEF GetLow64
  <2>4. x + y * Limb \in Nat
    BY <1>1
  <2> QED
    BY <2>1, <2>2, <2>3, <2>4
<1>9. PICK M \in Nat : M = Limb * Limb /\ M = Pow2[2 * LimbBits] /\ l < M
  <2>1. Pow2[2 * LimbBits] = Limb * Limb
    BY <1>4, LowTwo
  <2>2. Limb * Limb \in Nat /\ x + y * Limb < Limb * Limb
    <3>1. (y + 1) * Limb <= Limb * Limb
      <4>1. y + 1 \in Nat /\ y + 1 <= Limb
        BY <1>1, <1>4
      <4> QED
        BY <1>1, <4>1
    <3>2. (y + 1) * Limb = y * Limb + Limb
      BY <1>1
    <3>3. y * Limb \in Nat /\ Limb * Limb \in Nat
      BY <1>1
    <3> QED
      BY <1>1, <1>4, <3>1, <3>2, <3>3
  <2> QED
    BY <1>8, <2>1, <2>2
<1>10. Value(c) = l
  <2>1. FromDigits(z, LimbBits, WIDTH - 2) = 0
    BY <1>3, <1>6, LowZero
  <2>2. Value(c) = FromDigits(c, LimbBits, 2) + Pow2[2 * LimbBits] * FromDigits(z, LimbBits, WIDTH - 2)
    BY <1>3, <1>5, <1>6, CutAt
  <2>3. M * 0 = 0 /\ l + 0 = l
    OBVIOUS
  <2> QED
    BY <1>8, <1>9, <2>1, <2>2, <2>3, Zenon
<1>11. Value(b) % M = l
  <2>1. PICK q \in Nat : q = FromDigits(h, LimbBits, WIDTH - 2) /\ Value(b) = l + M * q
    <3>1. /\ FromDigits(h, LimbBits, WIDTH - 2) \in Nat
          /\ Value(b) = FromDigits(b, LimbBits, 2) + Pow2[2 * LimbBits] * FromDigits(h, LimbBits, WIDTH - 2)
      BY <1>3, <1>6, CutAt
    <3> QED
      BY <1>8, <1>9, <3>1
  <2>2. PICK v \in Nat : v = Value(b) /\ v = q * M + l
    <3>1. M * q = q * M /\ q * M \in Nat
      OBVIOUS
    <3>2. l + M * q = q * M + l
      BY <3>1
    <3> QED
      BY <2>1, <3>1, <3>2
  <2>3. v \in Int /\ q \in Int
    OBVIOUS
  <2> QED
    BY <1>9, <2>2, <2>3, ModIs
<1>12. l \div Limb = y /\ l % Limb = x
  <2>1. PICK u \in Nat : u = y * Limb /\ l = u + x /\ (y + 1) * Limb = u + Limb
    BY <1>1, <1>8
  <2>2. y * Limb <= l /\ l < (y + 1) * Limb /\ l = y * Limb + x
    BY <1>1, <1>4, <2>1
  <2>3. l \div Limb = y
    BY <1>1, <2>2, DivIs
  <2>4. l % Limb = x
    <3>1. l \in Int /\ y \in Int
      OBVIOUS
    <3> QED
      BY <1>1, <1>4, <2>2, <3>1, ModIs
  <2> QED
    BY <2>3, <2>4
<1>13. EqualTo(a, l) <=> a = c
  <2>1. EqualTo(a, l) <=> (\A i \in 2..WIDTH - 1 : a[i] = 0) /\ a[1] = y /\ a[0] = x
    BY <1>12, Zenon DEF EqualTo
  <2>2. ASSUME (\A i \in 2..WIDTH - 1 : a[i] = 0) /\ a[1] = y /\ a[0] = x PROVE a = c
    <3>1. \A i \in Index : a[i] = c[i]
      BY <1>3, <1>5, <2>2
    <3>2. a = [i \in Index |-> a[i]]
      BY DEF Num
    <3> QED
      BY <1>7, <3>1, <3>2
  <2>3. ASSUME a = c PROVE (\A i \in 2..WIDTH - 1 : a[i] = 0) /\ a[1] = y /\ a[0] = x
    BY <1>5, <2>3
  <2> QED
    BY <2>1, <2>2, <2>3
<1>14. a = c <=> Value(a) = Value(c)
  BY <1>5, CompareToValue
<1> QED
  BY <1>8, <1>9, <1>10, <1>11, <1>13, <1>14, Zenon

LEMMA NumberIsNum ==
    ASSUME NEW v \in Nat
    PROVE  Number(v) \in Num
<1>1. LimbBits \in Nat /\ Limb \in Nat /\ Limb >= 4
  BY SizeFacts
<1>2. ASSUME NEW i \in Index PROVE (v \div Pow2[i * LimbBits]) % Limb \in 0..Limb - 1
  <2>1. i \in Nat
    BY SizeFacts DEF Index
  <2>2. PICK p \in Nat : p = Pow2[i * LimbBits] /\ p > 0
    BY <1>1, <2>1, PowType
  <2>3. v \div p \in Nat
    BY <2>2, DivFacts
  <2>4. (v \div p) % Limb \in 0..Limb - 1
    BY <1>1, <2>3, DivFacts
  <2> QED
    BY <2>2, <2>4
<1> QED
  BY <1>2 DEF Number, Num

-----------------------------------------------------------------------------
(* The specification *)

\* Both numbers are made of limbs.
ArithTypeOK == pn \in Num /\ bpn \in Num

\* Every operator of base_uint leaves a number whose limbs are in range, also a
\* division by zero, and so does the way through a blob and its digits.
THEOREM ArithIsTyped == ArithSpec => []ArithTypeOK
<1>1. ArithInit => ArithTypeOK
  <2> SUFFICES ASSUME ArithInit PROVE ArithTypeOK
    OBVIOUS
  <2>1. pn \in Num
    BY ZeroValue, Zenon DEF ArithInit
  <2>2. PICK v \in Operand : bpn = Number(v)
    BY DEF ArithInit
  <2>3. v \in Nat
    BY SizeFacts, ArithAssumption
  <2>4. bpn \in Num
    BY <2>2, <2>3, NumberIsNum
  <2> QED
    BY <2>1, <2>4 DEF ArithTypeOK
<1>2. ArithTypeOK /\ [ArithNext]_arithVars => ArithTypeOK'
  <2> SUFFICES ASSUME ArithTypeOK, [ArithNext]_arithVars PROVE ArithTypeOK'
    OBVIOUS
  <2>1. pn \in Num /\ bpn \in Num
    BY DEF ArithTypeOK
  <2>2. bpn[0] \in 0..Limb - 1
    <3>1. 0 \in 0..WIDTH - 1
      BY SizeFacts
    <3> QED
      BY <2>1, <3>1, NumFacts
  <2>3. Value(bpn) % (WIDTH * LimbBits + 2) \in Nat
    <3>1. WIDTH \in Nat /\ LimbBits \in Nat
      BY SizeFacts
    <3>2. WIDTH * LimbBits + 2 \in Nat /\ WIDTH * LimbBits + 2 > 0
      BY <3>1
    <3>3. Value(bpn) \in Int
      BY <2>1, NumFacts
    <3> QED
      BY <3>2, <3>3, IntDivFacts
  <2>4. CASE UNCHANGED arithVars
    BY <2>1, <2>4 DEF ArithTypeOK, arithVars
  <2>5. ASSUME ArithNext PROVE pn' \in Num /\ bpn' = bpn
    <3>1. bpn' = bpn
      BY <2>5 DEF ArithNext
    <3>2. CASE pn' = Increment(pn)
      BY <2>1, <3>1, <3>2, IncrementValue
    <3>3. CASE pn' = Decrement(pn)
      BY <2>1, <3>1, <3>3, DecrementValue
    <3>4. CASE pn' = Complement(pn)
      BY <2>1, <3>1, <3>4, ComplementValue
    <3>5. CASE pn' = Plus(pn, bpn)
      BY <2>1, <3>1, <3>5, PlusValue
    <3>6. CASE pn' = Minus(pn, bpn)
      BY <2>1, <3>1, <3>6, MinusValue
    <3>7. CASE pn' = Times(pn, bpn)
      BY <2>1, <3>1, <3>7, TimesValue
    <3>8. CASE pn' = TimesLimb(pn, bpn[0])
      BY <2>1, <2>2, <3>1, <3>8, TimesLimbValue
    <3>9. CASE pn' = Divide(pn, bpn)
      BY <2>1, <3>1, <3>9, DivideValue
    <3>10. CASE pn' = ShiftLeft(pn, Value(bpn) % (WIDTH * LimbBits + 2))
      BY <2>1, <2>3, <3>1, <3>10, ShiftLeftValue
    <3>11. CASE pn' = ShiftRight(pn, Value(bpn) % (WIDTH * LimbBits + 2))
      BY <2>1, <2>3, <3>1, <3>11, ShiftRightValue
    <3>12. CASE pn' = UintToArith256(SetHex(GetHex(ArithToUint256(pn))))
      <4> DEFINE blob == ArithToUint256(pn)
      <4>1. blob \in [1..Bytes -> 0..Pow2[ByteBits] - 1]
        BY <2>1, BlobFacts
      <4>2. UintToArith256(blob) = pn
        BY <2>1, BlobToLimbs
      <4> HIDE DEF blob
      <4>3. SetHex(GetHex(blob)) = blob
        BY <4>1, TextForms
      <4>4. pn' = pn
        BY <3>12, <4>2, <4>3, Zenon DEF blob
      <4> QED
        BY <2>1, <3>1, <4>4
    <3> QED
      BY <2>5, <3>2, <3>3, <3>4, <3>5, <3>6, <3>7, <3>8, <3>9, <3>10, <3>11, <3>12 DEF ArithNext
  <2> QED
    BY <2>1, <2>4, <2>5 DEF ArithTypeOK
<1> QED
  BY <1>1, <1>2, PTL DEF ArithSpec

\* Sums, differences and products of base_uint are those of the numbers modulo their
\* width, for every number of limbs and every width of a limb: the uint64_t of
\* arith_uint256.h:150 and of arith_uint256.cpp:77 loses no carry.
THEOREM ArithmeticIsExact == ArithSpec => []ArithmeticIsModular
<1>1. ArithTypeOK => ArithmeticIsModular
  <2> SUFFICES ASSUME ArithTypeOK PROVE ArithmeticIsModular
    OBVIOUS
  <2>1. pn \in Num /\ bpn \in Num
    BY DEF ArithTypeOK
  <2>2. bpn[0] \in 0..Limb - 1
    <3>1. 0 \in 0..WIDTH - 1
      BY SizeFacts
    <3> QED
      BY <2>1, <3>1, NumFacts
  <2>3. Value(Plus(pn, bpn)) = (Value(pn) + Value(bpn)) % Size
    BY <2>1, PlusValue
  <2>4. Value(Minus(pn, bpn)) = (Value(pn) - Value(bpn)) % Size
    BY <2>1, MinusValue
  <2>5. Value(Increment(pn)) = (Value(pn) + 1) % Size
    BY <2>1, IncrementValue
  <2>6. Value(Decrement(pn)) = (Value(pn) - 1) % Size
    BY <2>1, DecrementValue
  <2>7. Value(Negative(pn)) = (-Value(pn)) % Size
    BY <2>1, NegativeValue
  <2>8. Value(Times(pn, bpn)) = (Value(pn) * Value(bpn)) % Size
    BY <2>1, TimesValue
  <2>9. Value(TimesLimb(pn, bpn[0])) = (Value(pn) * bpn[0]) % Size
    BY <2>1, <2>2, TimesLimbValue
  <2> QED
    BY <2>3, <2>4, <2>5, <2>6, <2>7, <2>8, <2>9 DEF ArithmeticIsModular
<1>2. ArithSpec => []ArithTypeOK
  BY ArithIsTyped
<1> QED
  BY <1>1, <1>2, PTL

\* The long division of arith_uint256.cpp:86 is the division of the numbers.
THEOREM DivisionIsExact == ArithSpec => []QuotientIsFloor
<1>1. ArithTypeOK => QuotientIsFloor
  BY DivideValue, Zenon DEF ArithTypeOK, QuotientIsFloor
<1>2. ArithSpec => []ArithTypeOK
  BY ArithIsTyped
<1> QED
  BY <1>1, <1>2, PTL

\* Shifting by n multiplies and divides by the power of two, for a shift within a
\* limb, by whole limbs (arith_uint256.cpp:32) and past the end; bits() is the length.
THEOREM ShiftsMultiply == ArithSpec => []ShiftsAreExact
<1>1. ArithTypeOK => ShiftsAreExact
  <2> SUFFICES ASSUME ArithTypeOK PROVE ShiftsAreExact
    OBVIOUS
  <2>1. pn \in Num
    BY DEF ArithTypeOK
  <2>2. ASSUME NEW n \in 0..WIDTH * LimbBits + 1
        PROVE  /\ Value(ShiftLeft(pn, n)) = (Value(pn) * Pow2[n]) % Size
               /\ Value(ShiftRight(pn, n)) = Value(pn) \div Pow2[n]
    <3>1. n \in Nat
      BY SizeFacts
    <3> QED
      BY <2>1, <3>1, ShiftLeftValue, ShiftRightValue
  <2>3. Value(pn) < Pow2[Bits(pn)] /\ (Bits(pn) > 0 => Value(pn) >= Pow2[Bits(pn) - 1])
    BY <2>1, BitsValue
  <2> QED
    BY <2>2, <2>3 DEF ShiftsAreExact
<1>2. ArithSpec => []ArithTypeOK
  BY ArithIsTyped
<1> QED
  BY <1>1, <1>2, PTL

\* Limbs, blob and digits are forms of one number, and numbers are compared as limbs
\* in their order: setHex takes back what getHex gave, without leading zeros, with
\* spaces and 0x before it and other text after it (uint256.cpp:94), and getLow64 is
\* GetCheapHash of the blob.
THEOREM FormsAreOne == ArithSpec => []FormsAgree
<1>1. ArithTypeOK => FormsAgree
  <2> SUFFICES ASSUME ArithTypeOK PROVE FormsAgree
    OBVIOUS
  <2> DEFINE blob == ArithToUint256(pn)
             hex  == GetHex(blob)
             n    == Max({i \in 0..Len(hex) - 1 : \A j \in 1..i : hex[j] = 0})
  <2>1. pn \in Num /\ bpn \in Num
    BY DEF ArithTypeOK
  <2>2. blob \in [1..Bytes -> 0..Pow2[ByteBits] - 1]
    BY <2>1, BlobFacts
  <2>3. UintToArith256(blob) = pn
    BY <2>1, BlobToLimbs
  <2>4. GetCheapHash(blob) = GetLow64(pn)
    BY <2>1, CheapHashIsLow
  <2>5. /\ SetHex(hex) = blob
        /\ SetHex(SubSeq(hex, n + 1, Len(hex))) = blob
        /\ SetHex(<<Space, 0, LetterX>> \o hex \o <<Other, 1>>) = blob
        /\ SetHex(<<1>> \o hex) = blob
    <3> HIDE DEF blob
    <3> QED
      BY <2>2, TextForms
  <2>6. CompareTo(pn, bpn) = IF Value(pn) < Value(bpn) THEN -1 ELSE IF Value(pn) > Value(bpn) THEN 1 ELSE 0
    BY <2>1, CompareToValue
  <2>7. EqualTo(pn, GetLow64(bpn)) <=> (Value(pn) = Value(bpn) % (Limb * Limb))
    BY <2>1, EqualToValue
  <2> QED
    BY <2>3, <2>4, <2>5, <2>6, <2>7, Zenon DEF FormsAgree
<1>2. ArithSpec => []ArithTypeOK
  BY ArithIsTyped
<1> QED
  BY <1>1, <1>2, PTL
=============================================================================
