------------------------------ MODULE ArithUint ------------------------------
(***************************************************************************)
(* Long unsigned numbers: base_uint of src/src/libs/common/arith_uint256.h *)
(* with its operators, and its forms as a blob of bytes and as hexadecimal *)
(* digits (uint256.h, uint256.cpp).                                        *)
(*                                                                         *)
(* The code has 8 limbs of 32 bits, 4 bytes to a limb and 2 digits of 4    *)
(* bits to a byte.  Here all of these are parameters.  An operator works   *)
(* on a number in place, with an operand that is another object.           *)
(***************************************************************************)
EXTENDS PowersOfTwo, Integers, SequencesExt, FiniteSetsExt

CONSTANTS
    WIDTH,      \* limbs of a number
    LimbBytes,  \* bytes of a limb
    DigitBits,  \* bits of a digit; a byte has two digits
    Operand     \* the values of the operand

ByteBits == 2 * DigitBits
LimbBits == LimbBytes * ByteBits
Limb     == Pow2[LimbBits]          \* a limb holds 0..Limb - 1
Size     == Pow2[WIDTH * LimbBits]

ASSUME ArithAssumption ==
    /\ WIDTH \in Nat \ {0, 1} /\ LimbBytes \in Nat \ {0} /\ DigitBits \in Nat \ {0}
    /\ Operand \subseteq 0..Size - 1

Index == 0..WIDTH - 1

VARIABLES pn, bpn   \* pn of the number that is worked on, and of the operand

arithVars == <<pn, bpn>>

-----------------------------------------------------------------------------
(* Reference: the number that limbs stand for *)

\* n digits of so many bits each, d[0] being the lowest.
FromDigits(d, bits, n) ==
    LET sum[k \in 0..n] == IF k = 0 THEN 0 ELSE sum[k - 1] + d[k - 1] * Pow2[(k - 1) * bits]
    IN  sum[n]

Value(a) == FromDigits(a, LimbBits, WIDTH)

Number(v) == [i \in Index |-> (v \div Pow2[i * LimbBits]) % Limb]

-----------------------------------------------------------------------------
(* base_uint *)

Zero == [i \in Index |-> 0]

\* A uint64_t, the width of the sums and products of limbs.
Wide(n) == n % (Limb * Limb)

\* operator~
Complement(a) == [i \in Index |-> Limb - 1 - a[i]]

\* operator++: on to the next limb while the last one has become 0.
Increment(a) ==
    [i \in Index |-> IF \A j \in 0..i - 1 : a[j] = Limb - 1 THEN (a[i] + 1) % Limb ELSE a[i]]

\* operator--
Decrement(a) ==
    [i \in Index |-> IF \A j \in 0..i - 1 : a[j] = 0 THEN (a[i] - 1) % Limb ELSE a[i]]

\* Unary operator-
Negative(a) == Increment(Complement(a))

\* The carries of a loop over n limbs that adds t[i] to limb i.
Carry(t, n) ==
    LET carry[i \in 0..n] == IF i = 0 THEN 0 ELSE Wide(carry[i - 1] + t[i - 1]) \div Limb
    IN  carry

\* What such a loop leaves in the limbs.
Carried(t, n) ==
    LET carry == Carry(t, n)
    IN  [i \in 0..n - 1 |-> Wide(carry[i] + t[i]) % Limb]

\* operator+=
Plus(a, b) == Carried([i \in Index |-> a[i] + b[i]], WIDTH)

\* operator-=
Minus(a, b) == Plus(a, Negative(b))

\* Faulty variant: limbs are not widened before they are multiplied.
Product_Narrow(p, q) == (p * q) % Limb

\* The product of two limbs.
Product(p, q) == Wide(p * q)

\* operator*= with a uint32_t
TimesLimb(a, w) == Carried([i \in Index |-> Product(w, a[i])], WIDTH)

\* operator*=, row by row: what limb j of a adds to the sum p.
AddRow(p, a, b, j) ==
    LET row == Carried([i \in 0..WIDTH - j - 1 |-> p[i + j] + Product(a[j], b[i])], WIDTH - j)
    IN  [i \in Index |-> IF i < j THEN p[i] ELSE row[i - j]]

\* operator*=
Times(a, b) ==
    LET sum[j \in 0..WIDTH] == IF j = 0 THEN Zero ELSE AddRow(sum[j - 1], a, b, j - 1)
    IN  sum[WIDTH]

\* Faulty variant: a shift by whole limbs also moves the limb below.
ShiftLeft_NoZeroTest(a, shift) ==
    LET k == shift \div LimbBits
        s == shift % LimbBits
    IN  [i \in Index |-> ((IF i - k - 1 >= 0 THEN a[i - k - 1] \div Pow2[(LimbBits - s) % LimbBits] ELSE 0)
                        + (IF i - k >= 0 THEN a[i - k] * Pow2[s] ELSE 0)) % Limb]

\* operator<<=.  The two parts of a limb have no bit in common.
ShiftLeft(a, shift) ==
    LET k == shift \div LimbBits
        s == shift % LimbBits
    IN  [i \in Index |->
            (IF i - k - 1 >= 0 /\ s # 0 THEN a[i - k - 1] \div Pow2[LimbBits - s] ELSE 0)
            + (IF i - k >= 0 THEN (a[i - k] * Pow2[s]) % Limb ELSE 0)]

\* operator>>=
ShiftRight(a, shift) ==
    LET k == shift \div LimbBits
        s == shift % LimbBits
    IN  [i \in Index |->
            (IF i + k + 1 < WIDTH /\ s # 0 THEN (a[i + k + 1] * Pow2[LimbBits - s]) % Limb ELSE 0)
            + (IF i + k < WIDTH THEN a[i + k] \div Pow2[s] ELSE 0)]

\* bits(): the highest limb that is not 0, and in it the highest bit.
Bits(a) ==
    IF \A i \in Index : a[i] = 0 THEN 0
    ELSE LET pos == Max({i \in Index : a[i] # 0})
         IN  LimbBits * pos + Max({n \in 0..LimbBits - 1 : (a[pos] \div Pow2[n]) % 2 = 1}) + 1

\* compareTo: the highest limbs that differ decide.
CompareTo(a, b) ==
    LET differ == {i \in Index : a[i] # b[i]}
    IN  IF differ = {} THEN 0 ELSE IF a[Max(differ)] < b[Max(differ)] THEN -1 ELSE 1

\* equalTo, for a uint64_t
EqualTo(a, b) ==
    /\ \A i \in 2..WIDTH - 1 : a[i] = 0
    /\ a[1] = b \div Limb
    /\ a[0] = b % Limb

\* One round of the loop of operator/=.
DivideStep(d, shift) ==
    LET fits == CompareTo(d.num, d.div) >= 0
    IN  [num |-> IF fits THEN Minus(d.num, d.div) ELSE d.num,
         div |-> ShiftRight(d.div, 1),
         quotient |-> IF fits
                        THEN [d.quotient EXCEPT ![shift \div LimbBits] = @ + Pow2[shift % LimbBits]]
                        ELSE d.quotient]

\* The loop, from the shift that aligns the divisor with the number down to 0.
Rounds(a, b, shift) ==
    LET round[n \in 0..shift + 1] ==
            IF n = 0 THEN [num |-> a, div |-> ShiftLeft(b, shift), quotient |-> Zero]
            ELSE DivideStep(round[n - 1], shift - n + 1)
    IN  round

\* Faulty variant: the loop ends before the last bit.
Divide_NoLastBit(a, b) ==
    LET shift == Bits(a) - Bits(b)
    IN  IF Bits(b) = 0 \/ shift < 0 THEN Zero ELSE Rounds(a, b, shift)[shift].quotient

\* operator/=.  The number is 0 also when a division by zero throws.
Divide(a, b) ==
    LET shift == Bits(a) - Bits(b)
    IN  IF Bits(b) = 0 \/ shift < 0 THEN Zero ELSE Rounds(a, b, shift)[shift + 1].quotient

-----------------------------------------------------------------------------
(* Blobs and digits *)

Bytes == WIDTH * LimbBytes

\* arithToUint256, writeLE32: bytes 1..Bytes, the lowest first.
ArithToUint256(a) ==
    [j \in 1..Bytes |-> (a[(j - 1) \div LimbBytes] \div Pow2[((j - 1) % LimbBytes) * ByteBits]) % Pow2[ByteBits]]

\* uintToArith256, readLE32
UintToArith256(blob) ==
    [i \in Index |-> FromDigits([j \in 0..LimbBytes - 1 |-> blob[i * LimbBytes + j + 1]],
                                ByteBits, LimbBytes)]

\* hexStr: two digits for each byte, the high one first.
HexStr(bytes) ==
    [i \in 1..2 * Len(bytes) |->
        LET val == bytes[(i + 1) \div 2]
        IN  IF i % 2 = 1 THEN val \div Pow2[DigitBits] ELSE val % Pow2[DigitBits]]

\* getHex: the highest byte first.
GetHex(blob) == HexStr(Reverse(blob))

\* Characters that are no digits.
Space == -1
LetterX == -2   \* 'x' or 'X'
Other == -3     \* whatever else ends a number

\* setHex: what it takes for digits, without leading spaces and 0x.
Digits(str) ==
    LET n == Max({i \in 0..Len(str) : \A j \in 1..i : str[j] = Space})
        t == SubSeq(str, n + 1, Len(str))
        u == IF Len(t) >= 2 /\ t[1] = 0 /\ t[2] = LetterX THEN SubSeq(t, 3, Len(t)) ELSE t
    IN  SubSeq(u, 1, Max({i \in 0..Len(u) : \A j \in 1..i : u[j] >= 0}))

\* Faulty variant: the first digit goes to the highest byte.
SetHex_FromLeft(str) ==
    LET d == Digits(str)
        digit(i) == IF i \in DOMAIN d THEN d[i] ELSE 0
    IN  [j \in 1..Bytes |-> digit(2 * (Bytes - j) + 1) * Pow2[DigitBits] + digit(2 * (Bytes - j) + 2)]

\* setHex: the last digit goes to the lowest byte; digits that do not fit are left.
SetHex(str) ==
    LET d == Digits(str)
        digit(i) == IF i \in DOMAIN d THEN d[i] ELSE 0
    IN  [j \in 1..Bytes |-> digit(Len(d) - 2 * j + 2) + digit(Len(d) - 2 * j + 1) * Pow2[DigitBits]]

\* getUint64.  Two limbs make a uint64_t.
GetUint64(blob, pos) ==
    FromDigits([j \in 0..2 * LimbBytes - 1 |-> blob[pos * 2 * LimbBytes + j + 1]],
               ByteBits, 2 * LimbBytes)

\* GetCheapHash: the first bytes, copied, and converted from little endian.
GetCheapHash(blob) == GetUint64(blob, 0)

\* getLow64
GetLow64(a) == a[0] + a[1] * Limb

-----------------------------------------------------------------------------
ArithInit == pn = Zero /\ bpn \in {Number(v) : v \in Operand}

\* An operator is applied to pn.
ArithNext ==
    /\ \/ pn' = Increment(pn)
       \/ pn' = Decrement(pn)
       \/ pn' = Complement(pn)
       \/ pn' = Plus(pn, bpn)
       \/ pn' = Minus(pn, bpn)
       \/ pn' = Times(pn, bpn)
       \/ pn' = TimesLimb(pn, bpn[0])
       \/ pn' = Divide(pn, bpn)
       \/ pn' = ShiftLeft(pn, Value(bpn) % (WIDTH * LimbBits + 2))
       \/ pn' = ShiftRight(pn, Value(bpn) % (WIDTH * LimbBits + 2))
       \/ pn' = UintToArith256(SetHex(GetHex(ArithToUint256(pn))))
    /\ UNCHANGED bpn

ArithSpec == ArithInit /\ [][ArithNext]_arithVars

-----------------------------------------------------------------------------
(* Properties *)

\* Sums, differences and products are those of the numbers, modulo their width:
\* no carry is lost between limbs (arith_uint256.h:150), nor in the products of
\* arith_uint256.cpp:77, which add two limbs to a product of two others.
ArithmeticIsModular ==
    /\ Value(Plus(pn, bpn)) = (Value(pn) + Value(bpn)) % Size
    /\ Value(Minus(pn, bpn)) = (Value(pn) - Value(bpn)) % Size
    /\ Value(Increment(pn)) = (Value(pn) + 1) % Size
    /\ Value(Decrement(pn)) = (Value(pn) - 1) % Size
    /\ Value(Negative(pn)) = (-Value(pn)) % Size
    /\ Value(Times(pn, bpn)) = (Value(pn) * Value(bpn)) % Size
    /\ Value(TimesLimb(pn, bpn[0])) = (Value(pn) * bpn[0]) % Size

\* The long division is a division: aligning the divisor first loses none of its
\* bits (arith_uint256.cpp:98), also for a divisor with the highest bit.
QuotientIsFloor ==
    Value(bpn) # 0 => Value(Divide(pn, bpn)) = Value(pn) \div Value(bpn)

\* Shifts multiply and divide by a power of two, also by whole limbs, where the code
\* must not shift a limb by its own width (arith_uint256.cpp:32), and by more than
\* there is; bits() is the length of the number.
ShiftsAreExact ==
    /\ \A n \in 0..WIDTH * LimbBits + 1 :
        /\ Value(ShiftLeft(pn, n)) = (Value(pn) * Pow2[n]) % Size
        /\ Value(ShiftRight(pn, n)) = Value(pn) \div Pow2[n]
    /\ Value(pn) < Pow2[Bits(pn)] /\ (Bits(pn) > 0 => Value(pn) >= Pow2[Bits(pn) - 1])

\* Limbs, bytes and digits stand for the same number, whichever way it came: a
\* target and a hash that are compared as limbs have the order of the numbers
\* (consensus.cpp:250); text may leave out leading zeros or have more digits than
\* fit (uint256.cpp:94); the low 64 bits are the same in both forms.
FormsAgree ==
    LET blob == ArithToUint256(pn)
        hex  == GetHex(blob)
        n    == Max({i \in 0..Len(hex) - 1 : \A j \in 1..i : hex[j] = 0})
    IN  /\ UintToArith256(blob) = pn
        /\ SetHex(hex) = blob
        /\ SetHex(SubSeq(hex, n + 1, Len(hex))) = blob
        /\ SetHex(<<Space, 0, LetterX>> \o hex \o <<Other, 1>>) = blob
        /\ SetHex(<<1>> \o hex) = blob
        /\ GetCheapHash(blob) = GetLow64(pn)
        /\ CompareTo(pn, bpn) = (IF Value(pn) < Value(bpn) THEN -1 ELSE IF Value(pn) > Value(bpn) THEN 1 ELSE 0)
        /\ EqualTo(pn, GetLow64(bpn)) <=> (Value(pn) = Value(bpn) % (Limb * Limb))
=============================================================================
