----------------------------- MODULE WorkTarget -----------------------------
(* Targets: their compact form, the retarget at the start of a cycle, the    *)
(* range test of a proof of work and the work a block counts for. The code's *)
(* numbers have 32 bytes of 8 bits; here a number has Bytes bytes of         *)
(* ByteBits bits, and products wrap at that width as they do in the code.    *)
EXTENDS PowersOfTwo, Integers, FiniteSetsExt

CONSTANTS ByteBits, Bytes,    \* width of arith_uint256, in the code 8 and 32
          TimeBits,           \* width of timeval and diffTimestamp, in the code 32
          CycleTimestamp,     \* cycleTimestamp
          HighestTarget,      \* p_difficulty_1_target
          GenesisTarget,      \* b_difficulty_1_target
          Times               \* differences of block times over a cycle

Size == Pow2[ByteBits * Bytes]       \* numbers are taken modulo Size
SignBit == Pow2[3 * ByteBits - 1]    \* the code's 0x00800000

ASSUME WorkTargetAssumption ==
  /\ ByteBits \in Nat \ {0, 1} /\ Bytes \in Nat \ {0, 1, 2} /\ TimeBits \in Nat
  /\ CycleTimestamp \in Nat \ {0} /\ CycleTimestamp % 4 = 0
  /\ 4 * CycleTimestamp < Pow2[TimeBits]
  /\ HighestTarget \in 1..(Size - 2) /\ GenesisTarget \in 1..HighestTarget
  /\ Times \subseteq (1 - Pow2[TimeBits])..(Pow2[TimeBits] - 1)

VARIABLES bits,   \* BlockIndex::bits of the last block
          took    \* time the cycle before the last retarget took

vars == <<bits, took>>

-----------------------------------------------------------------------------

(* The operators of base_uint: results lose the bits above the width. *)
ShiftLeft(x, n) == (x * Pow2[n]) % Size
ShiftRight(x, n) == x \div Pow2[n]
Product(x, y) == (x * y) % Size
Quotient(x, y) == x \div y
Complement(x) == Size - 1 - x

(* The packed 32-bit word: a length in bytes, a sign and three bytes. *)
Compact == [size : 0..(Bytes + 3), negative : BOOLEAN, word : 0..(SignBit - 1)]

SetCompact(c) ==
  LET word == IF c.size <= 3 THEN ShiftRight(c.word, ByteBits * (3 - c.size))
              ELSE c.word
  IN  [value    |-> IF c.size <= 3 THEN word
                    ELSE ShiftLeft(word, ByteBits * (c.size - 3)),
       negative |-> word # 0 /\ c.negative,
       overflow |-> /\ word # 0
                    /\ \/ c.size > Bytes + 2
                       \/ c.size > Bytes + 1 /\ word > Pow2[ByteBits] - 1
                       \/ c.size > Bytes /\ word > Pow2[2 * ByteBits] - 1]

Target(c) == SetCompact(c).value

(* base_uint::bits, the position of the highest bit. *)
BitLength(x) == CHOOSE n \in 0..(ByteBits * Bytes) :
                   x < Pow2[n] /\ (n = 0 \/ x >= Pow2[n - 1])

(* Mutant: a word that would set the sign bit is not moved down. *)
GetCompact_SignLost(x) ==
  LET size == (BitLength(x) + ByteBits - 1) \div ByteBits
      word == IF size <= 3 THEN ShiftLeft(x, ByteBits * (3 - size))
              ELSE ShiftRight(x, ByteBits * (size - 3))
  IN  [size |-> size, negative |-> word >= SignBit, word |-> word % SignBit]

GetCompact(x) ==
  LET size == (BitLength(x) + ByteBits - 1) \div ByteBits
      word == IF size <= 3 THEN ShiftLeft(x, ByteBits * (3 - size))
              ELSE ShiftRight(x, ByteBits * (size - 3))
  IN  IF word >= SignBit
      THEN [size |-> size + 1, negative |-> FALSE, word |-> word \div Pow2[ByteBits]]
      ELSE [size |-> size, negative |-> FALSE, word |-> word]

ValidProofOfWork(hash, c) ==
  LET t == SetCompact(c)
  IN  /\ ~t.negative /\ ~t.overflow
      /\ t.value # 0 /\ t.value <= HighestTarget
      /\ hash <= t.value

(* Mutant: the quotient is rounded down twice. *)
CaculateChainWork_NoPlusOne(c) ==
  LET t == SetCompact(c)
  IN  IF t.negative \/ t.value = 0 \/ t.overflow THEN 0
      ELSE Quotient(Complement(t.value), t.value + 1)

(* Size / (target + 1) without a number as large as Size. *)
CaculateChainWork(c) ==
  LET t == SetCompact(c)
  IN  IF t.negative \/ t.value = 0 \/ t.overflow THEN 0
      ELSE Quotient(Complement(t.value), t.value + 1) + 1

(* Mutant: the lower clamp is an eighth of the cycle. *)
DiffTimestamp_Eighth(time) ==
  Max({CycleTimestamp \div 8, Min({CycleTimestamp * 4, time % Pow2[TimeBits]})})

(* The time of the cycle as the code sees it: unsigned, and clamped. *)
DiffTimestamp(time) ==
  Max({CycleTimestamp \div 4, Min({CycleTimestamp * 4, time % Pow2[TimeBits]})})

CalculateNextWorkTarget(c, time) ==
  LET new == Quotient(Product(Target(c), DiffTimestamp(time)), CycleTimestamp)
  IN  GetCompact(Min({new, HighestTarget}))

-----------------------------------------------------------------------------

Init ==
  /\ bits = GetCompact(GenesisTarget)
  /\ took = CycleTimestamp

(* createNewBlock at the start of a cycle, after one that took time. *)
Retarget(time) ==
  /\ bits' = CalculateNextWorkTarget(bits, time)
  /\ took' = time

(* acceptBlock takes a block with any bits that some hash can meet: nothing  *)
(* compares the bits of a header with getWorkTarget. The least hash stands   *)
(* for all.                                                                  *)
AcceptBlock(c) ==
  /\ ValidProofOfWork(0, c)
  /\ bits' = c
  /\ UNCHANGED took

Next ==
  \/ \E time \in Times : Retarget(time)
  \/ \E c \in Compact : AcceptBlock(c)

Spec == Init /\ [][Next]_vars

-----------------------------------------------------------------------------

(* The product of the retarget fits its width. *)
Fits(c, time) == Target(c) * DiffTimestamp(time) < Size

(* Bits that the node asks for, or has accepted, pass the range test of      *)
(* validProofOfWork unless the target has become zero; the sign bit and the  *)
(* overflow test never get in the way, also for the highest target.          *)
BitsAcceptable == Target(bits) # 0 => ValidProofOfWork(0, bits)

(* The next target follows the time of the cycle. A cycle that was too short *)
(* never makes the next one easier, and one that was too long never makes it *)
(* harder, for times that do not run backwards: rounding in the product and  *)
(* in the compact form does not turn the direction. Whatever the times say,  *)
(* the target grows at most fourfold and falls at most to its quarter, which *)
(* is rounded down to a whole number and to the compact form (so that 7 may  *)
(* become 1), and the node is never left without one that some hash can      *)
(* meet. For products that fit.                                              *)
RetargetFollowsTime ==
  [][\A time \in Times :
       Retarget(time) /\ Fits(bits, time) =>
          /\ time \in 0..CycleTimestamp => Target(bits') <= Target(bits)
          /\ time >= CycleTimestamp => Target(bits') >= Target(bits)
          /\ Target(bits') <= 4 * Target(bits)
          /\ Target(bits') >= Target(GetCompact(Target(bits) \div 4))
          /\ Target(bits) >= 4 => Target(bits') \in 1..HighestTarget]_vars

(* The work of a block is Size / (target + 1), computed without a number of  *)
(* that size; it is positive for every block that validProofOfWork lets in   *)
(* (the assumption that the proofs about ChainManager make).                 *)
WorkIsQuotient ==
  ValidProofOfWork(0, bits) =>
     /\ CaculateChainWork(bits) = Size \div (Target(bits) + 1)
     /\ CaculateChainWork(bits) > 0

(* cycleTimestamp is "The theoretical time of a cycle" by which the          *)
(* difficulty is adjusted: a cycle that took exactly this time leaves the    *)
(* target as it is. Violated: the product of the genesis target and the time *)
(* does not fit, in the code as here (2^240 * 1209600 > 2^256).              *)
TheoreticalTimeKeepsTarget ==
  [][Retarget(CycleTimestamp) => Target(bits') = Target(bits)]_vars
=============================================================================
