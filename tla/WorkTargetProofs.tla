-------------------------- MODULE WorkTargetProofs --------------------------
(***************************************************************************)
(* Proofs about WorkTarget, for any width of bytes and numbers, any length *)
(* of a cycle and any targets within them: the code's own 256 bits, which  *)
(* no run can reach, among them.                                           *)
(***************************************************************************)
EXTENDS WorkTarget, NaturalLemmas, TLAPS

-----------------------------------------------------------------------------
(* The compact form *)

LEMMA ConstantFacts ==
    /\ ByteBits \in Nat /\ ByteBits >= 2 /\ Bytes \in Nat /\ Bytes >= 3
    /\ ByteBits * Bytes \in Nat
    /\ Size \in Nat /\ Size > 0 /\ Size = Pow2[ByteBits * Bytes]
    /\ 3 * ByteBits - 1 \in Nat /\ SignBit \in Nat /\ SignBit > 0
    /\ HighestTarget \in Nat /\ HighestTarget >= 1 /\ HighestTarget <= Size - 2
    /\ GenesisTarget \in Nat /\ GenesisTarget >= 1 /\ GenesisTarget <= HighestTarget
<1>1. ByteBits \in Nat /\ ByteBits >= 2 /\ Bytes \in Nat /\ Bytes >= 3
  BY WorkTargetAssumption
<1>2. ByteBits * Bytes \in Nat /\ 3 * ByteBits - 1 \in Nat
  BY <1>1
<1>3. Size \in Nat /\ Size > 0 /\ SignBit \in Nat /\ SignBit > 0
  BY <1>2, Pow2Positive DEF Size, SignBit
<1> QED
  BY <1>1, <1>2, <1>3, WorkTargetAssumption DEF Size

LEMMA BitLengthFacts ==
    ASSUME NEW x \in Nat, x < Size
    PROVE  /\ BitLength(x) \in 0..ByteBits * Bytes
           /\ x < Pow2[BitLength(x)]
           /\ BitLength(x) = 0 \/ x >= Pow2[BitLength(x) - 1]
<1> DEFINE S == {n \in 0..ByteBits * Bytes : x < Pow2[n]}
<1>1. S \in SUBSET Nat /\ ByteBits * Bytes \in S
  BY ConstantFacts
<1>2. PICK n \in S : \A y \in S : n <= y
  <2> HIDE DEF S
  <2> QED
    BY <1>1, LeastNatural
<1>3. n = 0 \/ x >= Pow2[n - 1]
  <2> SUFFICES ASSUME n # 0, ~(x >= Pow2[n - 1]) PROVE FALSE
    OBVIOUS
  <2>1. n - 1 \in 0..ByteBits * Bytes /\ n - 1 \in Nat
    BY ConstantFacts, <1>2
  <2>2. x < Pow2[n - 1]
    BY <2>1, Pow2Positive
  <2>3. n - 1 \in S
    BY <2>1, <2>2
  <2> QED
    BY <1>2, <2>1, <2>3
<1>4. \E k \in 0..(ByteBits * Bytes) : x < Pow2[k] /\ (k = 0 \/ x >= Pow2[k - 1])
  BY <1>2, <1>3
<1> QED
  BY <1>4, Zenon DEF BitLength

\* The number of bytes of x.
LEMMA SizeFacts ==
    ASSUME NEW x \in Nat, x < Size,
           NEW s, s = (BitLength(x) + ByteBits - 1) \div ByteBits
    PROVE  /\ s \in Nat /\ s <= Bytes
           /\ x < Pow2[ByteBits * s]
           /\ s > 0 => x >= Pow2[ByteBits * (s - 1)]
<1>1. PICK n \in Nat : /\ n = BitLength(x) /\ n <= ByteBits * Bytes /\ x < Pow2[n]
                       /\ n = 0 \/ x >= Pow2[n - 1]
  BY BitLengthFacts, ConstantFacts
<1>2. PICK b \in Nat : b = ByteBits /\ b >= 2
  BY ConstantFacts
<1>3. PICK top \in Nat : top = n + b - 1
  BY <1>2
<1>4. s \in Nat /\ s * b <= top /\ top < (s + 1) * b
  BY <1>1, <1>2, <1>3, DivFacts
<1>5. n <= b * s /\ b * s \in Nat
  <2>1. (s + 1) * b = b * s + b /\ b * s \in Nat
    BY <1>4
  <2> QED
    BY <1>3, <1>4, <2>1
<1>6. s > 0 => n >= 1 /\ b * (s - 1) <= n - 1 /\ b * (s - 1) \in Nat
  <2> SUFFICES ASSUME s > 0 PROVE n >= 1 /\ b * (s - 1) <= n - 1 /\ b * (s - 1) \in Nat
    OBVIOUS
  <2>1. PICK r \in Nat : s = r + 1
    <3>1. s - 1 \in Nat /\ s = s - 1 + 1
      BY <1>4
    <3> QED
      BY <3>1
  <2>2. s * b = b * r + b /\ b * r \in Nat /\ s - 1 = r
    BY <2>1
  <2>3. b * r <= n - 1
    BY <1>3, <1>4, <2>2
  <2> QED
    BY <2>2, <2>3
<1>7. s <= Bytes
  <2> SUFFICES ASSUME Bytes + 1 <= s PROVE FALSE
    BY <1>4, ConstantFacts
  <2>1. (Bytes + 1) * b <= s * b /\ (Bytes + 1) * b = b * Bytes + b /\ b * Bytes \in Nat
    BY <1>4, ConstantFacts, TimesMono
  <2> QED
    BY <1>1, <1>2, <1>3, <1>4, <2>1
<1>8. x < Pow2[b * s]
  <2>1. Pow2[n] <= Pow2[b * s] /\ Pow2[n] \in Nat /\ Pow2[b * s] \in Nat
    BY <1>5, Pow2Mono, Pow2Positive
  <2> QED
    BY <1>1, <2>1
<1>9. s > 0 => x >= Pow2[b * (s - 1)]
  <2> SUFFICES ASSUME s > 0 PROVE x >= Pow2[b * (s - 1)]
    OBVIOUS
  <2>1. n - 1 \in Nat /\ b * (s - 1) \in Nat /\ b * (s - 1) <= n - 1
    BY <1>6
  <2>2. Pow2[b * (s - 1)] <= Pow2[n - 1] /\ Pow2[n - 1] \in Nat /\ Pow2[b * (s - 1)] \in Nat
    BY <2>1, Pow2Mono, Pow2Positive
  <2>3. x >= Pow2[n - 1]
    BY <1>1, <1>6
  <2> QED
    BY <2>2, <2>3
<1> QED
  BY <1>2, <1>4, <1>7, <1>8, <1>9

\* What GetCompact makes of x: all its bits, or as many as fit below the sign bit,
\* and then no shorter form would do.
CompactOf(x, c) ==
    /\ c \in Compact /\ c.size <= Bytes + 1 /\ ~c.negative
    /\ c.size > Bytes => c.word < Pow2[2 * ByteBits]
    /\ c.size <= 3 => c.word = x * Pow2[ByteBits * (3 - c.size)]
    /\ c.size > 3 => /\ c.word = x \div Pow2[ByteBits * (c.size - 3)]
                     /\ SignBit * Pow2[ByteBits * (c.size - 4)] <= x

\* Powers of the constants.
LEMMA PowerFacts ==
    /\ Pow2[0] = 1
    /\ Pow2[ByteBits] \in Nat /\ Pow2[ByteBits] > 0
    /\ Pow2[2 * ByteBits] \in Nat /\ Pow2[3 * ByteBits] \in Nat
    /\ Pow2[3 * ByteBits] = Pow2[2 * ByteBits] * Pow2[ByteBits]
    /\ Pow2[2 * ByteBits] <= SignBit
    /\ Pow2[3 * ByteBits] <= Size
<1>1. PICK b \in Nat : b = ByteBits /\ b >= 2
  BY ConstantFacts
<1>2. Pow2[0] = 1 /\ Pow2[b] \in Nat /\ Pow2[b] > 0 /\ Pow2[2 * b] \in Nat /\ Pow2[3 * b] \in Nat
  BY Pow2Def, Pow2Positive
<1>3. Pow2[3 * b] = Pow2[2 * b] * Pow2[b]
  <2>1. 3 * b = 2 * b + b /\ 2 * b \in Nat
    OBVIOUS
  <2> QED
    BY <2>1, Pow2Sum
<1>4. Pow2[2 * b] <= SignBit
  <2>1. 2 * b \in Nat /\ 3 * b - 1 \in Nat /\ 2 * b <= 3 * b - 1
    BY <1>1
  <2> QED
    BY <1>1, <2>1, Pow2Mono DEF SignBit
<1>5. Pow2[3 * b] <= Size
  <2>1. 3 * b \in Nat /\ b * Bytes \in Nat /\ 3 * b <= b * Bytes
    BY ConstantFacts, TimesMono
  <2> QED
    BY <1>1, <2>1, Pow2Mono DEF Size
<1> QED
  BY <1>1, <1>2, <1>3, <1>4, <1>5

\* Up to three bytes.
LEMMA ShortForm ==
    ASSUME NEW x \in Nat, x < Size, NEW s \in Nat, s <= 3, x < Pow2[ByteBits * s],
           NEW word, word = ShiftLeft(x, ByteBits * (3 - s)),
           NEW c, c = IF word >= SignBit
                      THEN [size |-> s + 1, negative |-> FALSE, word |-> word \div Pow2[ByteBits]]
                      ELSE [size |-> s, negative |-> FALSE, word |-> word]
    PROVE  CompactOf(x, c)
<1>1. PICK b \in Nat : b = ByteBits /\ b >= 2
  BY ConstantFacts
<1>2. b * s \in Nat /\ 3 - s \in Nat /\ b * (3 - s) \in Nat /\ b * (3 - s) + b * s = 3 * b
  <2>1. 3 - s \in Nat
    OBVIOUS
  <2> QED
    BY <2>1
<1>3. PICK p \in Nat : p = Pow2[b * (3 - s)] /\ p > 0
  BY <1>2, Pow2Positive
<1>4. PICK t \in Nat : t = Pow2[b * s] /\ x < t /\ p * t = Pow2[3 * b]
  <2>1. Pow2[b * s] \in Nat
    BY <1>2, Pow2Positive
  <2>2. Pow2[3 * b] = Pow2[b * (3 - s)] * Pow2[b * s]
    BY <1>2, Pow2Sum
  <2> QED
    BY <1>1, <1>3, <2>1, <2>2
<1>5. x * p < Pow2[3 * b] /\ x * p \in Nat
  <2>0. x + 1 <= t /\ x + 1 \in Nat
    BY <1>4
  <2>1. (x + 1) * p <= t * p
    BY <2>0, TimesMono
  <2>2. (x + 1) * p = x * p + p /\ x * p \in Nat /\ t * p = p * t
    OBVIOUS
  <2>3. Pow2[3 * b] \in Nat
    BY <1>1, PowerFacts
  <2> QED
    BY <1>3, <1>4, <2>1, <2>2, <2>3
<1>6. word = x * p
  <2>1. x * p < Size
    BY <1>1, <1>5, PowerFacts, ConstantFacts
  <2> QED
    BY <1>1, <1>3, <1>5, <2>1, ModSmall, ConstantFacts DEF ShiftLeft
<1>7. word \in Nat /\ s <= Bytes /\ Bytes \in Nat /\ SignBit \in Nat
  BY <1>5, <1>6, ConstantFacts
<1>8. CASE ~(word >= SignBit)
  <2>1. c = [size |-> s, negative |-> FALSE, word |-> word]
    BY <1>8
  <2>2. s \in 0..Bytes + 1 /\ word \in 0..SignBit - 1 /\ ~(s > Bytes) /\ ~(s > 3)
    BY <1>7, <1>8
  <2>3. /\ c \in Compact /\ c.size <= Bytes + 1 /\ ~c.negative
        /\ c.size = s /\ c.word = word
    BY <1>7, <2>1, <2>2 DEF Compact
  <2> QED
    BY <1>1, <1>3, <1>6, <2>2, <2>3 DEF CompactOf
<1>9. CASE word >= SignBit
  <2>1. PICK w : w = word \div Pow2[b]
    OBVIOUS
  <2>2. c = [size |-> s + 1, negative |-> FALSE, word |-> w]
    BY <1>1, <1>9, <2>1
  <2>3. w \in Nat /\ w < Pow2[2 * b]
    <3>1. word < Pow2[2 * b] * Pow2[b]
      BY <1>1, <1>5, <1>6, PowerFacts
    <3> QED
      BY <1>1, <1>7, <2>1, <3>1, PowerFacts, DivFacts, DivIsGreatest
  <2>4. w < SignBit
    BY <1>1, <1>7, <2>3, PowerFacts
  <2>5. s + 1 \in 0..Bytes + 1 /\ w \in 0..SignBit - 1
    BY <1>7, <2>3, <2>4
  <2>6. /\ c \in Compact /\ c.size <= Bytes + 1 /\ ~c.negative
        /\ c.size = s + 1 /\ c.word = w
    BY <1>7, <2>2, <2>5 DEF Compact
  <2>7. CASE s = 3
    <3>1. p = 1 /\ word = x
      <4>1. b * (3 - s) = 0
        BY <2>7
      <4> QED
        BY <1>3, <1>6, <4>1, PowerFacts
    <3>2. b * (c.size - 3) = b /\ b * (c.size - 4) = 0 /\ c.size > 3
      BY <2>6, <2>7
    <3>3. SignBit * Pow2[b * (c.size - 4)] <= x
      BY <1>7, <1>9, <3>1, <3>2, PowerFacts
    <3>4. c.word = x \div Pow2[b * (c.size - 3)]
      BY <2>1, <2>6, <3>1, <3>2
    <3>5. ~(c.size <= 3)
      BY <2>6, <2>7
    <3> QED
      BY <1>1, <2>3, <2>6, <3>2, <3>3, <3>4, <3>5 DEF CompactOf
  <2>8. CASE s # 3
    <3>1. 2 - s \in Nat /\ c.size <= 3 /\ ~(c.size > 3) /\ 3 - c.size = 2 - s
      BY <2>6, <2>8
    <3>2. b * (2 - s) \in Nat /\ b * (3 - s) = b * (2 - s) + b
      BY <3>1
    <3>3. PICK r \in Nat : r = Pow2[b * (2 - s)] /\ p = r * Pow2[b]
      <4>1. Pow2[b * (2 - s) + b] = Pow2[b * (2 - s)] * Pow2[b]
        BY <3>2, Pow2Sum
      <4>2. Pow2[b * (2 - s)] \in Nat
        BY <3>2, Pow2Positive
      <4> QED
        BY <1>3, <3>2, <4>1, <4>2
    <3>4. word = (x * r) * Pow2[b] /\ x * r \in Nat
      BY <1>1, <1>6, <3>3, PowerFacts
    <3>5. w = x * r
      BY <1>1, <2>1, <3>4, DivExact, PowerFacts
    <3>6. c.word = x * Pow2[b * (3 - c.size)]
      BY <2>6, <3>1, <3>3, <3>5
    <3> QED
      BY <1>1, <2>3, <2>6, <3>1, <3>6 DEF CompactOf
  <2> QED
    BY <2>7, <2>8
<1> QED
  BY <1>8, <1>9

\* More than three bytes.
LEMMA LongForm ==
    ASSUME NEW x \in Nat, x < Size, NEW s \in Nat, s > 3, s <= Bytes,
           x < Pow2[ByteBits * s], x >= Pow2[ByteBits * (s - 1)],
           NEW word, word = ShiftRight(x, ByteBits * (s - 3)),
           NEW c, c = IF word >= SignBit
                      THEN [size |-> s + 1, negative |-> FALSE, word |-> word \div Pow2[ByteBits]]
                      ELSE [size |-> s, negative |-> FALSE, word |-> word]
    PROVE  CompactOf(x, c)
<1>1. PICK b \in Nat : b = ByteBits /\ b >= 2
  BY ConstantFacts
<1>2. s - 3 \in Nat /\ s - 4 \in Nat /\ s - 2 \in Nat /\ s - 1 \in Nat
  OBVIOUS
<1>3. /\ b * (s - 3) \in Nat /\ b * (s - 4) \in Nat /\ b * (s - 2) \in Nat /\ b * (s - 1) \in Nat
      /\ b * s = 3 * b + b * (s - 3)
      /\ b * (s - 2) = b + b * (s - 3)
      /\ 3 * b - 1 + b * (s - 4) = b * (s - 1) - 1
  BY <1>2
<1>4. PICK u \in Nat : u = Pow2[b * (s - 3)] /\ u > 0
  BY <1>3, Pow2Positive
<1>5. word = x \div u /\ word \in Nat /\ word * u <= x
  BY <1>1, <1>4, DivFacts DEF ShiftRight
<1>6. word < Pow2[3 * b]
  <2>1. Pow2[b * s] = Pow2[3 * b] * u
    <3>1. 3 * b \in Nat
      OBVIOUS
    <3> QED
      BY <1>3, <1>4, <3>1, Pow2Sum
  <2>2. x < Pow2[3 * b] * u
    BY <1>1, <2>1
  <2> QED
    BY <1>1, <1>4, <1>5, <2>2, DivIsGreatest, PowerFacts
<1>7. Bytes \in Nat /\ SignBit \in Nat /\ SignBit = Pow2[3 * b - 1] /\ 3 * b - 1 \in Nat
  BY <1>1, ConstantFacts DEF SignBit
<1>8. CASE ~(word >= SignBit)
  <2>1. c = [size |-> s, negative |-> FALSE, word |-> word]
    BY <1>8
  <2>2. s \in 0..Bytes + 1 /\ word \in 0..SignBit - 1 /\ ~(s > Bytes) /\ ~(s <= 3)
    BY <1>5, <1>7, <1>8
  <2>3. /\ c \in Compact /\ c.size <= Bytes + 1 /\ ~c.negative
        /\ c.size = s /\ c.word = word
    BY <1>7, <2>1, <2>2 DEF Compact
  <2>4. SignBit * Pow2[b * (s - 4)] <= x
    <3>1. SignBit * Pow2[b * (s - 4)] = Pow2[3 * b - 1 + b * (s - 4)]
      BY <1>3, <1>7, Pow2Sum
    <3>2. 3 * b - 1 + b * (s - 4) \in Nat /\ 3 * b - 1 + b * (s - 4) <= b * (s - 1)
      BY <1>3, <1>7
    <3>3. Pow2[3 * b - 1 + b * (s - 4)] <= Pow2[b * (s - 1)]
      BY <1>3, <3>2, Pow2Mono
    <3>4. Pow2[b * (s - 1)] \in Nat /\ Pow2[3 * b - 1 + b * (s - 4)] \in Nat
      BY <1>3, <3>2, Pow2Positive
    <3> QED
      BY <1>1, <3>1, <3>3, <3>4
  <2> QED
    BY <1>1, <1>4, <1>5, <2>2, <2>3, <2>4 DEF CompactOf
<1>9. CASE word >= SignBit
  <2>1. PICK w : w = word \div Pow2[b]
    OBVIOUS
  <2>2. c = [size |-> s + 1, negative |-> FALSE, word |-> w]
    BY <1>1, <1>9, <2>1
  <2>3. w \in Nat /\ w < Pow2[2 * b]
    BY <1>1, <1>5, <1>6, <2>1, PowerFacts, DivFacts, DivIsGreatest
  <2>4. w < SignBit
    BY <1>1, <1>7, <2>3, PowerFacts
  <2>5. s + 1 \in 0..Bytes + 1 /\ w \in 0..SignBit - 1 /\ ~(s + 1 <= 3)
    BY <1>7, <2>3, <2>4
  <2>6. /\ c \in Compact /\ c.size <= Bytes + 1 /\ ~c.negative
        /\ c.size = s + 1 /\ c.word = w
    BY <1>7, <2>2, <2>5 DEF Compact
  <2>7. c.size - 3 = s - 2 /\ c.size - 4 = s - 3
    BY <2>6
  <2>8. w = x \div Pow2[b * (s - 2)]
    <3>1. Pow2[b * (s - 2)] = Pow2[b] * u
      BY <1>3, <1>4, Pow2Sum
    <3>2. (x \div u) \div Pow2[b] = x \div (Pow2[b] * u)
      BY <1>1, <1>4, DivDiv, PowerFacts
    <3> QED
      BY <1>5, <2>1, <3>1, <3>2
  <2>9. SignBit * u <= x
    <3>1. SignBit * u <= word * u /\ SignBit * u \in Nat
      BY <1>5, <1>7, <1>9, TimesMono
    <3> QED
      BY <1>5, <3>1
  <2> QED
    BY <1>1, <1>4, <2>3, <2>5, <2>6, <2>7, <2>8, <2>9 DEF CompactOf
<1> QED
  BY <1>8, <1>9

LEMMA GetCompactForm ==
    ASSUME NEW x \in Nat, x < Size
    PROVE  CompactOf(x, GetCompact(x))
<1> DEFINE s    == (BitLength(x) + ByteBits - 1) \div ByteBits
           word == IF s <= 3 THEN ShiftLeft(x, ByteBits * (3 - s))
                   ELSE ShiftRight(x, ByteBits * (s - 3))
<1>1. GetCompact(x) = IF word >= SignBit
                      THEN [size |-> s + 1, negative |-> FALSE, word |-> word \div Pow2[ByteBits]]
                      ELSE [size |-> s, negative |-> FALSE, word |-> word]
  BY Zenon DEF GetCompact
<1>2. /\ s \in Nat /\ s <= Bytes
      /\ x < Pow2[ByteBits * s]
      /\ s > 0 => x >= Pow2[ByteBits * (s - 1)]
  BY SizeFacts
<1>3. /\ s <= 3 => word = ShiftLeft(x, ByteBits * (3 - s))
      /\ s > 3 => word = ShiftRight(x, ByteBits * (s - 3))
  <2> HIDE DEF s
  <2> QED
    BY <1>2
<1> HIDE DEF s, word
<1>4. CASE s <= 3
  BY <1>1, <1>2, <1>3, <1>4, ShortForm
<1>5. CASE s > 3
  <2>1. s > 0
    BY <1>2, <1>5
  <2> QED
    BY <1>1, <1>2, <1>3, <1>5, <2>1, LongForm
<1> QED
  BY <1>2, <1>4, <1>5

\* A target that is put in compact form and taken out again is rounded down, and
\* neither the sign nor the overflow is flagged.
LEMMA CompactRoundsDown ==
    ASSUME NEW x \in Nat, x < Size, NEW c, CompactOf(x, c)
    PROVE  /\ ~SetCompact(c).negative /\ ~SetCompact(c).overflow
           /\ Target(c) \in Nat /\ Target(c) <= x
           /\ x > 0 => Target(c) > 0
           /\ c.size <= 3 => Target(c) = x
           /\ c.size > 3 => Target(c) = c.word * Pow2[ByteBits * (c.size - 3)]
<1>1. PICK b \in Nat : b = ByteBits /\ b >= 2
  BY ConstantFacts
<1>2. /\ c \in Compact /\ c.size <= Bytes + 1 /\ ~c.negative
      /\ c.size > Bytes => c.word < Pow2[2 * b]
      /\ c.size <= 3 => c.word = x * Pow2[b * (3 - c.size)]
      /\ c.size > 3 => /\ c.word = x \div Pow2[b * (c.size - 3)]
                       /\ SignBit * Pow2[b * (c.size - 4)] <= x
  BY <1>1 DEF CompactOf
<1>3. Bytes \in Nat /\ Bytes >= 3 /\ Size \in Nat /\ SignBit \in Nat
  BY ConstantFacts
<1>4. PICK k \in Nat : k = c.size /\ k <= Bytes + 1
  BY <1>2, <1>3 DEF Compact
<1>5. PICK w \in Nat : w = c.word
  BY <1>2, <1>3 DEF Compact
<1>6. CASE k <= 3
  <2>1. 3 - k \in Nat /\ b * (3 - k) \in Nat
    BY <1>6
  <2>2. PICK p \in Nat : p = Pow2[b * (3 - k)] /\ p > 0
    BY <2>1, Pow2Positive
  <2>3. w = x * p
    BY <1>2, <1>4, <1>5, <1>6, <2>2
  <2>4. w \div p = x
    BY <2>2, <2>3, DivExact
  <2>5. /\ SetCompact(c).value = x
        /\ SetCompact(c).negative <=> x # 0 /\ c.negative
        /\ SetCompact(c).overflow <=> /\ x # 0
                                      /\ \/ k > Bytes + 2
                                         \/ k > Bytes + 1 /\ x > Pow2[b] - 1
                                         \/ k > Bytes /\ x > Pow2[2 * b] - 1
    BY <1>1, <1>4, <1>5, <1>6, <2>2, <2>4 DEF SetCompact, ShiftRight
  <2>6. ~(k > Bytes + 2) /\ ~(k > Bytes + 1) /\ ~(k > Bytes)
    BY <1>3, <1>6
  <2>7. ~SetCompact(c).negative /\ ~SetCompact(c).overflow
    BY <1>2, <2>5, <2>6
  <2> QED
    BY <1>4, <1>6, <2>5, <2>7 DEF Target
<1>7. CASE k > 3
  <2>1. k - 3 \in Nat /\ k - 4 \in Nat /\ b * (k - 3) \in Nat /\ b * (k - 4) \in Nat
    <3>1. k - 3 \in Nat /\ k - 4 \in Nat
      BY <1>7
    <3> QED
      BY <3>1
  <2>2. PICK u \in Nat : u = Pow2[b * (k - 3)] /\ u > 0
    BY <2>1, Pow2Positive
  <2>3. PICK v \in Nat : v = Pow2[b * (k - 4)] /\ v > 0
    BY <2>1, Pow2Positive
  <2>4. w = x \div u /\ SignBit * v <= x
    BY <1>2, <1>4, <1>5, <1>7, <2>2, <2>3
  <2>5. w * u <= x /\ w * u \in Nat
    BY <2>2, <2>4, DivFacts
  <2>6. (w * u) % Size = w * u
    BY <1>3, <2>5, ModSmall
  <2>7. /\ SetCompact(c).value = w * u
        /\ SetCompact(c).negative <=> w # 0 /\ c.negative
        /\ SetCompact(c).overflow <=> /\ w # 0
                                      /\ \/ k > Bytes + 2
                                         \/ k > Bytes + 1 /\ w > Pow2[b] - 1
                                         \/ k > Bytes /\ w > Pow2[2 * b] - 1
    <3>1. ~(k <= 3)
      BY <1>7
    <3>2. SetCompact(c).value = (w * u) % Size
      BY <1>1, <1>4, <1>5, <2>2, <3>1 DEF SetCompact, ShiftLeft
    <3>3. SetCompact(c).negative <=> w # 0 /\ c.negative
      BY <1>4, <1>5, <3>1 DEF SetCompact
    <3>4. SetCompact(c).overflow <=> /\ w # 0
                                     /\ \/ k > Bytes + 2
                                        \/ k > Bytes + 1 /\ w > Pow2[b] - 1
                                        \/ k > Bytes /\ w > Pow2[2 * b] - 1
      BY <1>1, <1>4, <1>5, <3>1 DEF SetCompact
    <3> QED
      BY <2>6, <3>2, <3>3, <3>4
  <2>8. ~(k > Bytes + 2) /\ ~(k > Bytes + 1)
    BY <1>3, <1>4
  <2>9. ~(k > Bytes /\ w > Pow2[2 * b] - 1)
    BY <1>1, <1>2, <1>4, <1>5, PowerFacts
  <2>10. 1 <= w
    <3>1. u = Pow2[b] * v
      <4>1. b * (k - 3) = b + b * (k - 4)
        BY <2>1
      <4>2. Pow2[b + b * (k - 4)] = Pow2[b] * Pow2[b * (k - 4)]
        BY <2>1, Pow2Sum
      <4> QED
        BY <2>2, <2>3, <4>1, <4>2
    <3>2. Pow2[b] <= SignBit
      <4>1. b \in Nat /\ 2 * b \in Nat /\ b <= 2 * b
        OBVIOUS
      <4>2. Pow2[b] <= Pow2[2 * b]
        BY <4>1, Pow2Mono
      <4> QED
        BY <1>1, <1>3, <4>2, PowerFacts
    <3>3. u <= SignBit * v
      BY <1>1, <1>3, <2>3, <3>1, <3>2, TimesMono, PowerFacts
    <3>4. 1 * u <= x
      BY <1>3, <2>3, <2>4, <3>3
    <3> QED
      BY <2>2, <2>4, <3>4, DivIsGreatest
  <2>11. w * u > 0
    BY <2>2, <2>10
  <2>12. ~SetCompact(c).negative /\ ~SetCompact(c).overflow
    BY <1>2, <2>7, <2>8, <2>9
  <2>13. Target(c) = w * u
    BY <2>7 DEF Target
  <2> QED
    BY <1>1, <1>4, <1>5, <1>7, <2>2, <2>5, <2>11, <2>12, <2>13
<1> QED
  BY <1>4, <1>6, <1>7

LEMMA TargetType ==
    ASSUME NEW d \in Compact
    PROVE  Target(d) \in Nat /\ Target(d) < Size
<1>1. PICK b \in Nat : b = ByteBits /\ b >= 2
  BY ConstantFacts
<1>2. PICK k \in Nat, w \in Nat : k = d.size /\ w = d.word /\ w < SignBit
  BY ConstantFacts DEF Compact
<1>3. CASE k <= 3
  <2>1. b * (3 - k) \in Nat
    <3>1. 3 - k \in Nat
      BY <1>3
    <3> QED
      BY <3>1
  <2>2. PICK p \in Nat : p = Pow2[b * (3 - k)] /\ p > 0
    BY <2>1, Pow2Positive
  <2>3. Target(d) = w \div p
    BY <1>1, <1>2, <1>3, <2>2 DEF Target, SetCompact, ShiftRight
  <2>4. w \div p \in Nat /\ (w \div p) * p <= w
    BY <2>2, DivFacts
  <2>5. w \div p <= (w \div p) * p
    BY <2>2, <2>4
  <2>6. SignBit <= Size
    <3>1. 3 * b - 1 \in Nat /\ 3 * b \in Nat /\ 3 * b - 1 <= 3 * b
      BY <1>1
    <3>2. SignBit <= Pow2[3 * b]
      BY <1>1, <3>1, Pow2Mono DEF SignBit
    <3> QED
      BY <1>1, <3>2, PowerFacts, ConstantFacts
  <2> QED
    BY <1>2, <2>3, <2>4, <2>5, <2>6, ConstantFacts
<1>4. CASE k > 3
  <2>1. b * (k - 3) \in Nat
    <3>1. k - 3 \in Nat
      BY <1>4
    <3> QED
      BY <3>1
  <2>2. PICK u \in Nat : u = Pow2[b * (k - 3)] /\ u > 0
    BY <2>1, Pow2Positive
  <2>3. Target(d) = (w * u) % Size
    BY <1>1, <1>2, <1>4, <2>2 DEF Target, SetCompact, ShiftLeft
  <2>4. w * u \in Nat
    OBVIOUS
  <2> QED
    BY <2>3, <2>4, DivFacts, ConstantFacts
<1> QED
  BY <1>3, <1>4

\* Rounding passes no target that has a compact form.
LEMMA RoundingIsMonotone ==
    ASSUME NEW x \in Nat, x < Size, NEW c, CompactOf(x, c),
           NEW d \in Compact, Target(d) <= x
    PROVE  Target(d) <= Target(c)
<1>1. PICK b \in Nat : b = ByteBits /\ b >= 2
  BY ConstantFacts
<1>2. /\ c \in Compact /\ c.size <= Bytes + 1 /\ ~c.negative
      /\ c.size > 3 => /\ c.word = x \div Pow2[b * (c.size - 3)]
                       /\ SignBit * Pow2[b * (c.size - 4)] <= x
  BY <1>1 DEF CompactOf
<1>3. /\ c.size <= 3 => Target(c) = x
      /\ c.size > 3 => Target(c) = c.word * Pow2[b * (c.size - 3)]
  BY <1>1, CompactRoundsDown
<1>4. Bytes \in Nat /\ Bytes >= 3 /\ Size \in Nat /\ SignBit \in Nat /\ SignBit > 0
  BY ConstantFacts
<1>5. PICK k \in Nat : k = c.size /\ k <= Bytes + 1
  BY <1>2, <1>4 DEF Compact
<1>6. Target(d) \in Nat
  BY TargetType
<1>7. CASE k <= 3
  BY <1>3, <1>5, <1>7
<1>8. CASE k > 3
  <2>1. k - 3 \in Nat /\ k - 4 \in Nat /\ b * (k - 3) \in Nat /\ b * (k - 4) \in Nat
    <3>1. k - 3 \in Nat /\ k - 4 \in Nat
      BY <1>8
    <3> QED
      BY <3>1
  <2>2. PICK u \in Nat : u = Pow2[b * (k - 3)] /\ u > 0
    BY <2>1, Pow2Positive
  <2>3. PICK v \in Nat : v = Pow2[b * (k - 4)] /\ v > 0
    BY <2>1, Pow2Positive
  <2>4. PICK q \in Nat : q = x \div u /\ Target(c) = q * u /\ SignBit * v <= x
    BY <1>2, <1>3, <1>5, <1>8, <2>2, <2>3, DivFacts
  <2>5. ASSUME NEW m \in Nat, m * u <= x PROVE m * u <= Target(c)
    <3>1. m <= q
      BY <2>2, <2>4, <2>5, DivIsGreatest
    <3> QED
      BY <2>2, <2>4, <3>1, TimesMono
  \* Everything below the sign bit of the next shorter form is below Target(c).
  <2>6. SignBit * v <= Target(c)
    <3>1. 2 * b - 1 \in Nat /\ 3 * b - 1 + b * (k - 4) = 2 * b - 1 + b * (k - 3)
      BY <1>1
    <3>2. SignBit * v = Pow2[3 * b - 1 + b * (k - 4)]
      <4>1. 3 * b - 1 \in Nat
        BY <1>1
      <4> QED
        BY <1>1, <2>1, <2>3, <4>1, Pow2Sum DEF SignBit
    <3>3. Pow2[2 * b - 1 + b * (k - 3)] = Pow2[2 * b - 1] * u
      BY <2>1, <2>2, <3>1, Pow2Sum
    <3>4. Pow2[2 * b - 1] \in Nat
      BY <3>1, Pow2Positive
    <3>5. SignBit * v = Pow2[2 * b - 1] * u
      BY <3>1, <3>2, <3>3
    <3> QED
      BY <2>4, <2>5, <3>4, <3>5
  <2>7. PICK j \in Nat, w \in Nat : j = d.size /\ w = d.word /\ w < SignBit
    BY ConstantFacts DEF Compact
  <2>8. CASE j <= 3
    <3>1. b * (3 - j) \in Nat
      <4>1. 3 - j \in Nat
        BY <2>8
      <4> QED
        BY <4>1
    <3>2. PICK p \in Nat : p = Pow2[b * (3 - j)] /\ p > 0
      BY <3>1, Pow2Positive
    <3>3. Target(d) = w \div p
      BY <1>1, <2>7, <2>8, <3>2 DEF Target, SetCompact, ShiftRight
    <3>4. w \div p \in Nat /\ (w \div p) * p <= w
      BY <3>2, DivFacts
    <3>5. w \div p <= w
      BY <3>2, <3>4
    <3>6. SignBit <= SignBit * v
      BY <1>4, <2>3
    <3>7. Target(c) \in Nat
      BY <2>2, <2>4
    <3> QED
      BY <1>4, <2>3, <2>6, <2>7, <3>3, <3>4, <3>5, <3>6, <3>7
  <2>9. CASE j > 3
    <3>1. j - 3 \in Nat /\ b * (j - 3) \in Nat
      <4>1. j - 3 \in Nat
        BY <2>9
      <4> QED
        BY <4>1
    <3>2. PICK z \in Nat : z = Pow2[b * (j - 3)] /\ z > 0
      BY <3>1, Pow2Positive
    <3>3. Target(d) = (w * z) % Size
      BY <1>1, <2>7, <2>9, <3>2 DEF Target, SetCompact, ShiftLeft
    <3>4. w * z \in Nat
      OBVIOUS
    <3>5. CASE j < k
      <4>1. z <= v
        <5>1. b * (j - 3) <= b * (k - 4)
          <6>1. j - 3 <= k - 4
            BY <3>5
          <6> QED
            BY <2>1, <3>1, <6>1, TimesMono
        <5> QED
          BY <2>1, <2>3, <3>1, <3>2, <5>1, Pow2Mono
      <4>2. w * z <= SignBit * z /\ SignBit * z <= SignBit * v
        BY <1>4, <2>3, <2>7, <3>2, <4>1, TimesMono
      <4>3. (w * z) % Size <= w * z
        <5>1. PICK y \in Nat : y = w * z
          BY <3>4
        <5>2. (y \div Size) * Size \in Nat /\ y = (y \div Size) * Size + (y % Size) /\ y % Size \in Nat
          BY <1>4, DivFacts, ConstantFacts
        <5> QED
          BY <5>1, <5>2
      <4>4. SignBit * v \in Nat /\ SignBit * z \in Nat /\ Target(c) \in Nat
        BY <1>4, <2>2, <2>3, <2>4, <3>2
      <4> QED
        BY <1>6, <2>6, <3>3, <3>4, <4>2, <4>3, <4>4
    <3>6. CASE j >= k
      <4>1. PICK a \in Nat : z = a * u
        <5>1. j - k \in Nat /\ b * (j - k) \in Nat /\ b * (j - 3) = b * (j - k) + b * (k - 3)
          <6>1. PICK g \in Nat : j - k = g
            BY <3>6
          <6>2. PICK h \in Nat : k - 3 = h
            BY <2>1
          <6>3. j - 3 = g + h
            BY <6>1, <6>2
          <6>4. b * (g + h) = b * g + b * h /\ b * g \in Nat
            OBVIOUS
          <6>5. b * (j - 3) = b * (g + h)
            BY <6>3, Zenon
          <6>6. b * (j - k) = b * g /\ b * (k - 3) = b * h
            BY <6>1, <6>2, Zenon
          <6> QED
            BY <6>1, <6>4, <6>5, <6>6, Zenon
        <5>2. Pow2[b * (j - 3)] = Pow2[b * (j - k)] * u
          <6>1. Pow2[b * (j - k) + b * (k - 3)] = Pow2[b * (j - k)] * Pow2[b * (k - 3)]
            BY <2>1, <5>1, Pow2Sum, Zenon
          <6> QED
            BY <2>2, <5>1, <6>1, Zenon
        <5> QED
          BY <3>2, <5>1, <5>2, Pow2Positive
      <4>2. PICK e \in Nat : Size = e * u
        <5>1. PICK f \in Nat : f = Bytes - (k - 3)
          BY <1>4, <1>5
        <5>2. b * f \in Nat /\ b * Bytes = b * f + b * (k - 3)
          BY <5>1, <1>4
        <5>3. Pow2[b * Bytes] = Pow2[b * f] * u
          BY <2>1, <2>2, <5>2, Pow2Sum
        <5> QED
          BY <1>1, <5>2, <5>3, Pow2Positive DEF Size
      <4>3. PICK r \in Nat : w * z = r * Size + Target(d)
        <5>1. PICK y \in Nat : y = w * z
          BY <3>4
        <5>2. y \div Size \in Nat /\ y = (y \div Size) * Size + (y % Size)
          BY <1>4, DivFacts, ConstantFacts
        <5> QED
          BY <3>3, <5>1, <5>2
      <4>4. Target(d) = (w * a - r * e) * u
        <5>1. w * z = (w * a) * u /\ r * Size = (r * e) * u
          BY <4>1, <4>2
        <5>2. w * a \in Nat /\ r * e \in Nat /\ (w * a) * u \in Nat /\ (r * e) * u \in Nat
          OBVIOUS
        <5>3. (w * a - r * e) * u = (w * a) * u - (r * e) * u
          BY <5>2
        <5> QED
          BY <1>6, <4>3, <5>1, <5>2, <5>3
      <4>5. w * a - r * e \in Int /\ (w * a - r * e < 0 => (w * a - r * e) * u < 0)
        BY <2>2
      <4>6. w * a - r * e \in Nat
        BY <1>6, <4>4, <4>5
      <4> QED
        BY <2>5, <4>4, <4>6
    <3> QED
      BY <3>5, <3>6
  <2> QED
    BY <2>7, <2>8, <2>9
<1> QED
  BY <1>5, <1>7, <1>8

-----------------------------------------------------------------------------
(* The retarget *)

TypeInv == bits \in Compact

IInv == TypeInv /\ BitsAcceptable

\* The clamped time of a cycle.
LEMMA DiffTimestampFacts ==
    ASSUME NEW time \in Times
    PROVE  /\ DiffTimestamp(time) \in Nat
           /\ 4 * DiffTimestamp(time) >= CycleTimestamp
           /\ DiffTimestamp(time) <= 4 * CycleTimestamp
           /\ time \in 0..CycleTimestamp => DiffTimestamp(time) <= CycleTimestamp
           /\ time >= CycleTimestamp => DiffTimestamp(time) >= CycleTimestamp
<1>1. PICK C \in Nat : C = CycleTimestamp /\ C > 0 /\ C % 4 = 0
  BY WorkTargetAssumption
<1>2. PICK q \in Nat : q = C \div 4 /\ 4 * q = C
  BY <1>1
<1>3. PICK P \in Nat : P = Pow2[TimeBits] /\ P > 4 * C
  BY <1>1, WorkTargetAssumption, Pow2Positive
<1>4. time \in Int /\ time < P /\ 1 - P <= time
  BY <1>3, WorkTargetAssumption
<1>5. PICK t \in Nat : t = time % P /\ (time >= 0 => t = time)
  <2>1. time % P \in 0..P - 1
    BY <1>3, <1>4
  <2>2. time >= 0 => time % P = time
    BY <1>3, <1>4, ModSmall
  <2> QED
    BY <2>1, <2>2
<1>6. PICK m \in Nat : m = Min({C * 4, t}) /\ m = IF C * 4 <= t THEN C * 4 ELSE t
  <2>1. C * 4 \in Int /\ t \in Int
    OBVIOUS
  <2>2. Min({C * 4, t}) = IF C * 4 <= t THEN C * 4 ELSE t
    BY <2>1, MaxMinOfTwo, Zenon
  <2> QED
    BY <2>2
<1>7. PICK d \in Nat : d = Max({q, m}) /\ d = IF q >= m THEN q ELSE m
  <2>1. q \in Int /\ m \in Int
    OBVIOUS
  <2>2. Max({q, m}) = IF q >= m THEN q ELSE m
    BY <2>1, MaxMinOfTwo, Zenon
  <2> QED
    BY <2>2
<1>8. DiffTimestamp(time) = d
  BY <1>1, <1>2, <1>3, <1>5, <1>6, <1>7 DEF DiffTimestamp
<1> QED
  BY <1>1, <1>2, <1>4, <1>5, <1>6, <1>7, <1>8

\* The target before it is put in compact form.
LEMMA NextTargetFacts ==
    ASSUME NEW c \in Compact, NEW time \in Times
    PROVE  \E x \in Nat :
             /\ x <= HighestTarget
             /\ CalculateNextWorkTarget(c, time) = GetCompact(x)
             /\ Fits(c, time) =>
                  x = IF (Target(c) * DiffTimestamp(time)) \div CycleTimestamp <= HighestTarget
                      THEN (Target(c) * DiffTimestamp(time)) \div CycleTimestamp
                      ELSE HighestTarget
<1>1. PICK T \in Nat : T = Target(c)
  BY TargetType
<1>2. PICK D \in Nat : D = DiffTimestamp(time)
  BY DiffTimestampFacts
<1>3. PICK C \in Nat : C = CycleTimestamp /\ C > 0
  BY WorkTargetAssumption
<1>4. PICK y \in Nat : y = Product(T, D) /\ (T * D < Size => y = T * D)
  <2>1. T * D \in Nat /\ (T * D) % Size \in Nat
    BY ConstantFacts, DivFacts
  <2> QED
    BY <2>1, ConstantFacts, ModSmall DEF Product
<1>5. PICK z \in Nat : z = y \div C
  BY <1>3, DivFacts
<1>6. PICK x : x = Min({z, HighestTarget})
  OBVIOUS
<1>7. x = IF z <= HighestTarget THEN z ELSE HighestTarget
  <2>1. z \in Int /\ HighestTarget \in Int
    BY ConstantFacts
  <2> QED
    BY <1>6, <2>1, MaxMinOfTwo, Zenon
<1>8. CalculateNextWorkTarget(c, time) = GetCompact(x)
  BY <1>1, <1>2, <1>3, <1>4, <1>5, <1>6 DEF CalculateNextWorkTarget, Quotient
<1>9. x \in Nat /\ x <= HighestTarget
  BY <1>7, ConstantFacts
<1>10. Fits(c, time) => z = (T * D) \div C
  BY <1>1, <1>2, <1>4, <1>5 DEF Fits
<1> QED
  BY <1>1, <1>2, <1>3, <1>7, <1>8, <1>9, <1>10

\* Compact targets up to the highest one pass the range test.
LEMMA RoundedAcceptable ==
    ASSUME NEW x \in Nat, x <= HighestTarget
    PROVE  /\ GetCompact(x) \in Compact
           /\ Target(GetCompact(x)) \in Nat /\ Target(GetCompact(x)) <= x
           /\ Target(GetCompact(x)) # 0 => ValidProofOfWork(0, GetCompact(x))
<1>1. x < Size
  BY ConstantFacts
<1>2. PICK c : c = GetCompact(x)
  OBVIOUS
<1>3. CompactOf(x, c)
  BY <1>1, <1>2, GetCompactForm
<1>4. /\ ~SetCompact(c).negative /\ ~SetCompact(c).overflow
      /\ Target(c) \in Nat /\ Target(c) <= x
  BY <1>1, <1>3, CompactRoundsDown
<1>5. Target(c) = SetCompact(c).value
  BY DEF Target
<1>6. Target(c) # 0 => ValidProofOfWork(0, c)
  BY <1>4, <1>5, ConstantFacts DEF ValidProofOfWork
<1> QED
  BY <1>2, <1>3, <1>4, <1>6 DEF CompactOf

LEMMA InitInv == Init => IInv
<1> SUFFICES ASSUME Init PROVE IInv
  OBVIOUS
<1>1. bits = GetCompact(GenesisTarget)
  BY DEF Init
<1>2. /\ GetCompact(GenesisTarget) \in Compact
      /\ Target(GetCompact(GenesisTarget)) # 0 => ValidProofOfWork(0, GetCompact(GenesisTarget))
  BY ConstantFacts, RoundedAcceptable
<1> QED
  BY <1>1, <1>2 DEF IInv, TypeInv, BitsAcceptable

LEMMA NextInv == IInv /\ [Next]_vars => IInv'
<1> SUFFICES ASSUME IInv, [Next]_vars PROVE IInv'
  OBVIOUS
<1>1. bits \in Compact
  BY DEF IInv, TypeInv
<1>2. ASSUME NEW time \in Times, Retarget(time) PROVE IInv'
  <2>1. PICK x \in Nat : x <= HighestTarget /\ CalculateNextWorkTarget(bits, time) = GetCompact(x)
    BY <1>1, NextTargetFacts
  <2>2. bits' = GetCompact(x)
    BY <1>2, <2>1 DEF Retarget
  <2>3. bits' \in Compact /\ (Target(bits') # 0 => ValidProofOfWork(0, bits'))
    BY <2>1, <2>2, RoundedAcceptable
  <2> QED
    BY <2>3 DEF IInv, TypeInv, BitsAcceptable, Target, ValidProofOfWork, SetCompact
<1>3. ASSUME NEW c \in Compact, AcceptBlock(c) PROVE IInv'
  <2>1. bits' = c /\ ValidProofOfWork(0, c)
    BY <1>3 DEF AcceptBlock
  <2> QED
    BY <2>1 DEF IInv, TypeInv, BitsAcceptable, ValidProofOfWork
<1>4. CASE UNCHANGED vars
  BY <1>4 DEF vars, IInv, TypeInv, BitsAcceptable, ValidProofOfWork, Target
<1> QED
  BY <1>2, <1>3, <1>4 DEF Next

-----------------------------------------------------------------------------
\* The inductive invariant holds along every sequence of accepted headers and
\* retargets (consensus.cpp:232 and 258).
THEOREM Invariance == Spec => []IInv
<1> QED
  BY InitInv, NextInv, PTL DEF Spec

\* Bits that the node asks for, or has accepted, pass the range test of
\* validProofOfWork unless the target has become zero (consensus.cpp:232).
THEOREM AskedBitsAreAcceptable == Spec => []BitsAcceptable
<1>1. IInv => BitsAcceptable
  BY DEF IInv
<1> QED
  BY Invariance, <1>1, PTL

\* The work of a block that validProofOfWork lets in is Size / (target + 1) and is
\* positive (chain.cpp:134), although it is computed within Size.
THEOREM WorkIsExact == Spec => []WorkIsQuotient
<1>1. ASSUME IInv PROVE WorkIsQuotient
  <2> SUFFICES ASSUME ValidProofOfWork(0, bits)
               PROVE  /\ CaculateChainWork(bits) = Size \div (Target(bits) + 1)
                      /\ CaculateChainWork(bits) > 0
    BY DEF WorkIsQuotient
  <2>1. PICK T \in Nat : T = Target(bits)
    BY <1>1, TargetType DEF IInv, TypeInv
  <2>2. /\ ~SetCompact(bits).negative /\ ~SetCompact(bits).overflow
        /\ SetCompact(bits).value = T /\ T # 0 /\ T <= HighestTarget
    BY <2>1 DEF ValidProofOfWork, Target
  <2>3. CaculateChainWork(bits) = (Size - 1 - T) \div (T + 1) + 1
    BY <2>2 DEF CaculateChainWork, Quotient, Complement
  <2>4. PICK y \in Nat : y = T + 1 /\ y > 0 /\ y <= Size /\ Size - 1 - T = Size - y
    BY <2>2, ConstantFacts
  <2>5. Size - y \in Nat
    BY <2>4, ConstantFacts
  <2>6. (Size - y) \div y \in Nat
    BY <2>4, <2>5, DivFacts
  <2>7. (Size - y) \div y + 1 = Size \div y
    BY <2>4, ConstantFacts
  <2> QED
    BY <2>1, <2>3, <2>4, <2>6, <2>7
<1> QED
  BY Invariance, <1>1, PTL

\* What a retarget does to the target.
LEMMA RetargetFacts ==
    ASSUME IInv, NEW time \in Times, Retarget(time), Fits(bits, time)
    PROVE  /\ time \in 0..CycleTimestamp => Target(bits') <= Target(bits)
           /\ time >= CycleTimestamp => Target(bits') >= Target(bits)
           /\ Target(bits') <= 4 * Target(bits)
           /\ Target(bits') >= Target(GetCompact(Target(bits) \div 4))
           /\ Target(bits) >= 4 => Target(bits') \in 1..HighestTarget
<1>1. bits \in Compact
  BY DEF IInv, TypeInv
<1>2. PICK T \in Nat : T = Target(bits)
  BY <1>1, TargetType
<1>3. PICK D \in Nat : D = DiffTimestamp(time)
  BY DiffTimestampFacts
<1>4. PICK C \in Nat : C = CycleTimestamp /\ C > 0
  BY WorkTargetAssumption
<1>5. /\ 4 * D >= C /\ D <= 4 * C
      /\ time \in 0..C => D <= C
      /\ time >= C => D >= C
  BY <1>3, <1>4, DiffTimestampFacts
<1>6. PICK z \in Nat : z = (T * D) \div C
  BY <1>4, DivFacts
<1>7. PICK x \in Nat : /\ x <= HighestTarget
                       /\ CalculateNextWorkTarget(bits, time) = GetCompact(x)
                       /\ x = IF z <= HighestTarget THEN z ELSE HighestTarget
  BY <1>1, <1>2, <1>3, <1>4, <1>6, NextTargetFacts
<1>8. bits' = GetCompact(x) /\ x < Size
  BY <1>7, ConstantFacts DEF Retarget
<1>9. CompactOf(x, bits')
  BY <1>8, GetCompactForm
<1>10. Target(bits') \in Nat /\ Target(bits') <= x /\ (x > 0 => Target(bits') > 0)
  BY <1>8, <1>9, CompactRoundsDown
<1>11. T <= HighestTarget
  <2>1. T # 0 => ValidProofOfWork(0, bits)
    BY <1>2 DEF IInv, BitsAcceptable
  <2> QED
    BY <1>2, <2>1, ConstantFacts DEF ValidProofOfWork, Target
<1>12. x <= z
  BY <1>7, ConstantFacts
<1>13. time \in 0..C => Target(bits') <= T
  <2> SUFFICES ASSUME D <= C PROVE Target(bits') <= T
    BY <1>5
  <2>1. T * D <= T * C /\ T * D \in Nat /\ T * C \in Nat
    BY TimesMono
  <2>2. (T * D) \div C <= (T * C) \div C /\ (T * C) \div C = T
    BY <1>4, <2>1, DivMono, DivExact
  <2> QED
    BY <1>6, <1>10, <1>12, <2>2
<1>14. time >= C => Target(bits') >= T
  <2> SUFFICES ASSUME D >= C PROVE Target(bits') >= T
    BY <1>5
  <2>1. T * C <= T * D /\ T * D \in Nat
    BY TimesMono
  <2>2. T <= z
    BY <1>4, <1>6, <2>1, DivIsGreatest
  <2>3. T <= x
    BY <1>7, <1>11, <2>2
  <2> QED
    BY <1>1, <1>2, <1>8, <1>9, <1>10, <2>3, RoundingIsMonotone
<1>15. Target(bits') <= 4 * T
  <2>1. T * D <= T * (4 * C) /\ T * D \in Nat /\ T * (4 * C) = (4 * T) * C /\ (4 * T) * C \in Nat
    BY <1>5, TimesMono
  <2>2. (T * D) \div C <= ((4 * T) * C) \div C /\ ((4 * T) * C) \div C = 4 * T
    BY <1>4, <2>1, DivMono, DivExact
  <2> QED
    BY <1>6, <1>10, <1>12, <2>2
<1>16. T >= 4 => Target(bits') \in 1..HighestTarget
  <2> SUFFICES ASSUME T >= 4 PROVE Target(bits') \in 1..HighestTarget
    OBVIOUS
  <2>1. 4 * D <= T * D /\ T * D \in Nat
    BY TimesMono
  <2>2. 1 * C <= T * D
    BY <1>4, <1>5, <2>1
  <2>3. 1 <= z
    BY <1>4, <1>6, <2>1, <2>2, DivIsGreatest
  <2>4. x > 0
    BY <1>7, <2>3, ConstantFacts
  <2> QED
    BY <1>7, <1>10, <2>4, ConstantFacts
<1>17. Target(bits') >= Target(GetCompact(T \div 4))
  <2>1. PICK q \in Nat : q = T \div 4 /\ 4 * q <= T
    BY DivFacts
  <2>2. q * C <= T * D /\ T * D \in Nat
    <3>1. q * C <= q * (4 * D) /\ q * (4 * D) = (4 * q) * D
      BY <1>5, TimesMono
    <3>2. (4 * q) * D <= T * D
      BY <2>1, TimesMono
    <3>3. q * C \in Nat /\ (4 * q) * D \in Nat /\ T * D \in Nat
      OBVIOUS
    <3> QED
      BY <3>1, <3>2, <3>3
  <2>3. q <= z
    BY <1>4, <1>6, <2>2, DivIsGreatest
  <2>4. q <= HighestTarget /\ q <= x
    BY <1>7, <1>11, <2>1, <2>3, ConstantFacts
  <2>5. PICK d \in Compact : d = GetCompact(q) /\ Target(d) \in Nat /\ Target(d) <= q
    BY <2>4, RoundedAcceptable
  <2>6. Target(d) <= x
    BY <2>4, <2>5
  <2>7. Target(bits') >= Target(d)
    BY <1>8, <1>9, <1>10, <2>5, <2>6, RoundingIsMonotone
  <2> QED
    BY <2>1, <2>5, <2>7
<1> QED
  BY <1>2, <1>4, <1>13, <1>14, <1>15, <1>16, <1>17

\* The next target follows the time of the cycle (consensus.cpp:281): neither the
\* rounding of the product nor that of the compact form turns the direction, and it
\* stays between the rounded quarter and the fourfold of the old one.
THEOREM TargetFollowsTime == Spec => RetargetFollowsTime
<1>1. IInv /\ [Next]_vars =>
        [\A time \in Times :
           Retarget(time) /\ Fits(bits, time) =>
              /\ time \in 0..CycleTimestamp => Target(bits') <= Target(bits)
              /\ time >= CycleTimestamp => Target(bits') >= Target(bits)
              /\ Target(bits') <= 4 * Target(bits)
              /\ Target(bits') >= Target(GetCompact(Target(bits) \div 4))
              /\ Target(bits) >= 4 => Target(bits') \in 1..HighestTarget]_vars
  BY RetargetFacts
<1> QED
  BY Invariance, <1>1, PTL DEF Spec, RetargetFollowsTime
=============================================================================
