------------------------------ MODULE VmProofs ------------------------------
(***************************************************************************)
(* Type correctness of the machine, for every width of a word, size of the *)
(* memory, set of program images and set of budgets.                       *)
(***************************************************************************)
EXTENDS Vm, TLAPS, WellFoundedInduction

-----------------------------------------------------------------------------
(* Words.                                                                  *)

\* The modulus is positive and twice the sign bit.
LEMMA ModulusFacts == SignBit \in Nat \ {0} /\ Modulus \in Nat \ {0} /\ Modulus = 2 * SignBit
BY WidthAssumption DEF SignBit, Modulus

\* Whatever uint32_t arithmetic is applied to, a word comes out.
LEMMA WrapType == \A x \in Int : Wrap(x) \in Word
BY ModulusFacts DEF Wrap, Word

\* Adding multiples of a number changes no remainder by it: the remainders of
\* the two differ by a multiple of it, and by less than it.
LEMMA RemainderOfMultiple ==
  ASSUME NEW m \in Nat \ {0}, NEW x \in Int, NEW k \in Int
  PROVE  (x + k * m) % m = x % m
<1> DEFINE y == x + k * m
           p == y \div m
           q == x \div m
           r == y % m
           s == x % m
           d == p - q - k
<1>1. m \in Nat \ {0}
  OBVIOUS
<1>2. k * m \in Int /\ y \in Int
  BY <1>1
<1> HIDE DEF y
<1>3. /\ p \in Int /\ y = m * p + r /\ r \in 0 .. m - 1
      /\ q \in Int /\ x = m * q + s /\ s \in 0 .. m - 1
  BY <1>1, <1>2
<1> HIDE DEF p, q, r, s
<1>4. d \in Int /\ m * d = s - r
  <2>1. d \in Int /\ m * d = m * p - m * q - k * m
    BY <1>1, <1>3
  <2>2. m * p = y - r /\ m * q = x - s
    <3>1. m * p \in Int /\ m * q \in Int
      BY <1>1, <1>3
    <3> QED
      BY <1>2, <1>3, <3>1
  <2>3. m * p - m * q - k * m = s - r
    BY <1>2, <1>3, <2>2 DEF y
  <2> QED
    BY <2>1, <2>3
<1> HIDE DEF d
<1>5. ~(d >= 1)
  <2>1. d >= 1 => m * d >= m
    BY <1>1, <1>4, SMTT(20)
  <2> QED
    BY <1>1, <1>3, <1>4, <2>1
<1>6. ~(d <= -1)
  <2>1. d <= -1 => m * d <= -m
    BY <1>1, <1>4, SMTT(20)
  <2> QED
    BY <1>1, <1>3, <1>4, <2>1
<1>7. d = 0
  BY <1>4, <1>5, <1>6
<1> QED
  BY <1>1, <1>3, <1>4, <1>7 DEF y, r, s

\* Words wrap around: adding multiples of the modulus changes no word.
LEMMA WrapMultiple ==
  ASSUME NEW x \in Int, NEW k \in Int
  PROVE  Wrap(x + k * Modulus) = Wrap(x)
BY ModulusFacts, RemainderOfMultiple DEF Wrap

\* A sum wrapped half way is the sum wrapped at the end.
LEMMA WrapAbsorbs ==
  ASSUME NEW x \in Int, NEW y \in Int
  PROVE  Wrap(Wrap(x) + y) = Wrap(x + y)
<1> DEFINE m == Modulus
           q == x \div m
<1>1. m \in Nat \ {0} /\ q \in Int
  BY ModulusFacts
<1>2. Wrap(x) \in Int /\ x = Wrap(x) + q * m
  BY <1>1 DEF Wrap
<1>3. q * m \in Int
  BY <1>1
<1>4. x + y = (Wrap(x) + y) + q * m
  <2> HIDE DEF q, m
  <2> QED
    BY <1>2, <1>3
<1>5. Wrap((Wrap(x) + y) + q * m) = Wrap(Wrap(x) + y)
  <2>1. Wrap(x) + y \in Int
    BY <1>2
  <2> QED
    BY <1>1, <2>1, WrapMultiple
<1> QED
  BY <1>4, <1>5

\* A word is not changed by wrapping it.
LEMMA WrapWord == \A w \in Word : Wrap(w) = w
BY ModulusFacts DEF Wrap, Word

\* A power of two up to the width is a positive number.
LEMMA PowerType == \A n \in 0 .. WordBits : 2^n \in Nat \ {0} /\ 2^n <= Modulus
BY WidthAssumption

\* A set of naturals has a least element.
LEMMA LeastNatural ==
  ASSUME NEW S, S \subseteq Nat, S # {}
  PROVE  \E x \in S : \A y \in S : x <= y
<1> DEFINE Less == OpToRel(<, Nat)
<1>1. \A x \in Nat, y \in Nat : <<y, x>> \in Less <=> y < x
  BY DEF OpToRel
<1>2. IsWellFoundedOn(Less, Nat)
  BY NatLessThanWellFounded
<1> HIDE DEF Less
<1>3. PICK x \in S : \A y \in S : ~(<<y, x>> \in Less)
  BY <1>2, WFMin
<1>4. ASSUME NEW y \in S PROVE x <= y
  <2>1. x \in Nat /\ y \in Nat
    OBVIOUS
  <2>2. ~(<<y, x>> \in Less)
    BY <1>3
  <2>3. <<y, x>> \in Less <=> y < x
    BY <1>1, <2>1, Zenon
  <2> QED
    BY <2>1, <2>2, <2>3
<1> QED
  BY <1>4

\* Powers of two multiply: the least exponent for which they would not is
\* not 0, and the one before it is no exception.
LEMMA PowerOfSum ==
  ASSUME NEW b \in Nat, NEW k \in Nat, k + b <= WordBits
  PROVE  2^(k + b) = 2^k * 2^b
<1> DEFINE Exceptions == {n \in 0 .. k : 2^(n + b) # 2^n * 2^b}
<1> SUFFICES Exceptions = {}
  <2>1. k \in 0 .. k
    OBVIOUS
  <2> QED
    BY <2>1
<1> SUFFICES ASSUME Exceptions # {} PROVE FALSE
  OBVIOUS
<1>1. PICK n \in Exceptions : \A y \in Exceptions : n <= y
  <2>1. Exceptions \subseteq Nat
    OBVIOUS
  <2> HIDE DEF Exceptions
  <2> QED
    BY <2>1, LeastNatural
<1>2. n \in 0 .. k /\ 2^(n + b) # 2^n * 2^b
  OBVIOUS
<1>3. n # 0
  <2>1. b \in 0 .. WordBits /\ 0 + b = b
    BY WidthAssumption
  <2>2. 2^b \in Nat
    BY <2>1, PowerType
  <2>3. 2^0 * 2^b = 2^b
    BY <2>2
  <2> QED
    BY <1>2, <2>1, <2>3
<1>4. 2^((n - 1) + b) = 2^(n - 1) * 2^b
  <2>1. n - 1 \in 0 .. k /\ ~(n <= n - 1)
    BY <1>2, <1>3
  <2>2. n - 1 \notin Exceptions
    BY <1>1, <2>1
  <2> QED
    BY <2>1, <2>2
<1>5. 2^n = 2 * 2^(n - 1) /\ 2^(n + b) = 2 * 2^((n - 1) + b)
  <2>1. n \in 1 .. WordBits /\ n + b \in 1 .. WordBits /\ (n + b) - 1 = (n - 1) + b
    BY <1>2, <1>3, WidthAssumption
  <2> QED
    BY <2>1, PowerAssumption
<1>6. 2^(n - 1) \in Nat /\ 2^b \in Nat
  <2>1. n - 1 \in 0 .. WordBits /\ b \in 0 .. WordBits
    BY <1>2, <1>3, WidthAssumption
  <2> QED
    BY <2>1, PowerType
<1>7. ASSUME NEW x \in Nat, NEW y \in Nat
      PROVE  2 * (x * y) = (2 * x) * y
  OBVIOUS
<1> QED
  BY <1>2, <1>4, <1>5, <1>6, <1>7

\* Sign extension gives a word.
LEMMA SignExtendedType ==
  ASSUME NEW x \in Int, NEW n \in 0 .. WordBits
  PROVE  SignExtended(x, n) \in Word
<1>1. 2^n \in Nat \ {0} /\ 2^n <= Modulus
  BY PowerType
<1>2. x % 2^n \in 0 .. 2^n - 1
  BY <1>1
<1> QED
  BY <1>1, <1>2, ModulusFacts DEF SignExtended, Word

\* A byte is a word.
LEMMA ByteFacts ==
  /\ ByteBits \in 0 .. WordBits
  /\ 2 * ByteBits \in 0 .. WordBits /\ 3 * ByteBits \in 0 .. WordBits
  /\ ByteModulus \in Nat \ {0}
  /\ Byte \subseteq Word
<1>1. ByteBits \in 0 .. WordBits /\ 2 * ByteBits \in 0 .. WordBits /\ 3 * ByteBits \in 0 .. WordBits
  BY WidthAssumption DEF ByteBits
<1>2. ByteModulus \in Nat \ {0} /\ ByteModulus <= Modulus
  BY <1>1, PowerType DEF ByteModulus
<1> QED
  BY <1>1, <1>2, ModulusFacts DEF Byte, Word

\* Shifts by up to the width keep a word a word.
LEMMA ShiftTypes ==
  ASSUME NEW a \in Word, NEW n \in 0 .. WordBits
  PROVE  ShiftLeft(a, n) \in Word /\ ShiftRight(a, n) \in Word
<1>1. 2^n \in Nat \ {0}
  BY PowerType
<1>2. a \in Nat /\ a < Modulus
  BY ModulusFacts DEF Word
<1>3. a * 2^n \in Int
  BY <1>1, <1>2
<1>4. a \div 2^n \in Nat /\ a \div 2^n <= a
  BY <1>1, <1>2
<1> QED
  BY <1>2, <1>3, <1>4, WrapType, ModulusFacts DEF ShiftLeft, ShiftRight, Word

\* Four bytes of memory make a word.
LEMMA WordInType ==
  ASSUME NEW bytes, NEW a,
         bytes[a] \in Byte, bytes[a + 1] \in Byte,
         bytes[a + 2] \in Byte, bytes[a + 3] \in Byte
  PROVE  WordIn(bytes, a) \in Word
<1>1. /\ bytes[a] \in Word
      /\ ShiftLeft(bytes[a + 1], ByteBits) \in Word
      /\ ShiftLeft(bytes[a + 2], 2 * ByteBits) \in Word
      /\ ShiftLeft(bytes[a + 3], 3 * ByteBits) \in Word
  BY ByteFacts, ShiftTypes
<1>2. bytes[a] + ShiftLeft(bytes[a + 1], ByteBits) + ShiftLeft(bytes[a + 2], 2 * ByteBits)
        + ShiftLeft(bytes[a + 3], 3 * ByteBits) \in Int
  <2>1. \A w \in Word : w \in Int
    BY ModulusFacts DEF Word
  <2>2. /\ bytes[a] \in Int
        /\ ShiftLeft(bytes[a + 1], ByteBits) \in Int
        /\ ShiftLeft(bytes[a + 2], 2 * ByteBits) \in Int
        /\ ShiftLeft(bytes[a + 3], 3 * ByteBits) \in Int
    BY <1>1, <2>1
  <2> QED
    BY <2>2
<1> QED
  BY <1>2, WrapType DEF WordIn

\* Each of the four bytes of a word is a byte.
LEMMA ByteOfType ==
  ASSUME NEW w \in Word, NEW k \in 0 .. 3
  PROVE  ByteOf(w, k) \in Byte
<1>1. k * ByteBits \in 0 .. WordBits
  <2>1. CASE k = 0
    BY <2>1, ByteFacts, WidthAssumption
  <2>2. CASE k = 1
    BY <2>2, ByteFacts, WidthAssumption
  <2>3. CASE k = 2
    BY <2>3, ByteFacts, WidthAssumption
  <2>4. CASE k = 3
    BY <2>4, ByteFacts, WidthAssumption
  <2> QED
    BY <2>1, <2>2, <2>3, <2>4
<1>2. ShiftRight(w, k * ByteBits) \in Nat
  BY <1>1, ShiftTypes, ModulusFacts DEF Word
<1> QED
  BY <1>2, ByteFacts DEF ByteOf, Byte

-----------------------------------------------------------------------------
(* The shifter and the ALU.                                                *)

ShiftResult == [value : Word, carry : Flag]

\* Words are integers, and the ends of their range are words.
LEMMA WordRange ==
  /\ 0 \in Word /\ Modulus - 1 \in Word /\ SignBit \in Word
  /\ Word \subseteq Int
BY ModulusFacts DEF Word

\* What setN() and its like leave in a flag is 0 or 1.
LEMMA FlagOfType == \A holds : FlagOf(holds) \in Flag
BY DEF FlagOf, Flag

\* A bit of a word below its width is a flag.
LEMMA BitType ==
  ASSUME NEW a \in Word, NEW k \in 0 .. WordBits
  PROVE  Bit(a, k) \in Flag
<1>1. a \div 2^k \in Nat
  BY ShiftTypes, ModulusFacts DEF ShiftRight, Word
<1> QED
  BY <1>1 DEF Bit, Flag

\* An outcome of the shifter is a word and a carry.
LEMMA ShiftedType ==
  ASSUME NEW x \in Int, NEW carry \in Flag
  PROVE  Shifted(x, carry) \in ShiftResult
BY WrapType DEF Shifted, ShiftResult

\* A rotation of a word is a word.
LEMMA RotatedRightType ==
  ASSUME NEW a \in Word, NEW n \in 0 .. WordBits
  PROVE  RotatedRight(a, n) \in Word
<1>1. WordBits - n \in 0 .. WordBits
  BY WidthAssumption
<1>2. ShiftLeft(a, WordBits - n) \in Word /\ ShiftRight(a, n) \in Word
  BY <1>1, ShiftTypes
<1> QED
  BY <1>2, BitwiseAssumption DEF RotatedRight

\* LSL by any amount gives a word and a carry.
LEMMA LogicalLeftType ==
  ASSUME NEW a \in Word, NEW n \in Nat, cpsr \in Flags
  PROVE  LogicalLeft(a, n) \in ShiftResult
<1>1. CASE n = 0
  BY <1>1, ShiftedType, WordRange, WidthAssumption DEF LogicalLeft, Flags
<1>2. CASE n \in 1 .. WordBits - 1
  <2>1. n \in 0 .. WordBits /\ WordBits - n \in 0 .. WordBits
    BY <1>2, WidthAssumption
  <2>2. ShiftLeft(a, n) \in Int /\ Bit(a, WordBits - n) \in Flag
    BY <2>1, ShiftTypes, BitType, WordRange
  <2> QED
    BY <1>2, <2>2, ShiftedType, WidthAssumption DEF LogicalLeft
<1>3. CASE n = WordBits
  <2>1. Bit(a, 0) \in Flag
    BY BitType, WidthAssumption
  <2> QED
    BY <1>3, <2>1, ShiftedType, WidthAssumption DEF LogicalLeft
<1>4. CASE n > WordBits
  BY <1>4, ShiftedType, WidthAssumption DEF LogicalLeft, Flag
<1> QED
  BY <1>1, <1>2, <1>3, <1>4, WidthAssumption

\* LSR by any amount gives a word and a carry.
LEMMA LogicalRightType ==
  ASSUME NEW a \in Word, NEW n \in Nat
  PROVE  LogicalRight(a, n) \in ShiftResult
<1>1. CASE n = 0
  BY <1>1, ShiftedType, WordRange, WidthAssumption DEF LogicalRight, Flag
<1>2. CASE n \in 1 .. WordBits - 1
  <2>1. n \in 0 .. WordBits /\ n - 1 \in 0 .. WordBits
    BY <1>2, WidthAssumption
  <2>2. ShiftRight(a, n) \in Int /\ Bit(a, n - 1) \in Flag
    BY <2>1, ShiftTypes, BitType, WordRange
  <2> QED
    BY <1>2, <2>2, ShiftedType, WidthAssumption DEF LogicalRight
<1>3. CASE n = WordBits
  BY <1>3, ShiftedType, FlagOfType, WidthAssumption DEF LogicalRight
<1>4. CASE n > WordBits
  BY <1>4, ShiftedType, WidthAssumption DEF LogicalRight, Flag
<1> QED
  BY <1>1, <1>2, <1>3, <1>4, WidthAssumption

\* ASR by any amount gives a word and a carry.
LEMMA ArithmeticRightType ==
  ASSUME NEW a \in Word, NEW n \in Nat
  PROVE  ArithmeticRight(a, n) \in ShiftResult
<1>1. CASE n = 0
  BY <1>1, ShiftedType, WordRange, WidthAssumption DEF ArithmeticRight, Flag
<1>2. CASE n \in 1 .. WordBits - 1
  <2>1. /\ n \in 0 .. WordBits /\ n - 1 \in 0 .. WordBits
        /\ WordBits - n \in 0 .. WordBits
    BY <1>2, WidthAssumption
  <2>2. ShiftRight(a, n) \in Word /\ ShiftLeft(Modulus - 1, WordBits - n) \in Word
    BY <2>1, ShiftTypes, WordRange
  <2>3. SignFilled(a, n) \in Int /\ Bit(a, n - 1) \in Flag
    BY <2>1, <2>2, BitwiseAssumption, BitType, WordRange DEF SignFilled
  <2> QED
    BY <1>2, <2>3, ShiftedType, WidthAssumption DEF ArithmeticRight
<1>3. CASE n >= WordBits
  <2>1. (IF NEG(a) THEN Modulus - 1 ELSE 0) \in Int
    BY WordRange
  <2> QED
    BY <1>3, <2>1, ShiftedType, FlagOfType, WidthAssumption DEF ArithmeticRight
<1> QED
  BY <1>1, <1>2, <1>3, WidthAssumption

\* ROR by any amount, RRX included, gives words and carries.
LEMMA RotateRightType ==
  ASSUME NEW a \in Word, NEW n \in Nat, NEW byRegister \in BOOLEAN, cpsr \in Flags
  PROVE  RotateRight(a, n, byRegister) \subseteq ShiftResult
<1>0. /\ a \in Int /\ Shifted(a, FlagOf(NEG(a))) \in ShiftResult
      /\ Shifted(a, 0) \in ShiftResult
  BY ShiftedType, FlagOfType, WordRange DEF Flag
<1>1. CASE n = WordBits \/ (n = 0 /\ byRegister)
  BY <1>0, <1>1, WidthAssumption DEF RotateRight
<1>2. CASE n = 0 /\ ~byRegister
  <2>1. ShiftRight(a, 1) \in Int /\ Bit(a, 0) \in Flag
    <3>1. 0 \in 0 .. WordBits /\ 1 \in 0 .. WordBits
      BY WidthAssumption
    <3>2. ShiftRight(a, 1) \in Word
      BY <3>1, ShiftTypes
    <3>3. Bit(a, 0) \in Flag
      BY <3>1, BitType
    <3> QED
      BY <3>2, <3>3, WordRange
  <2>2. cpsr.c \in {0, 1} /\ SignBit \in Int
    BY ModulusFacts DEF Flags, Flag
  <2>3. SignBit * cpsr.c + ShiftRight(a, 1) \in Int
    BY <2>1, <2>2
  <2>4. Shifted(SignBit * cpsr.c + ShiftRight(a, 1), Bit(a, 0)) \in ShiftResult
    BY <2>1, <2>3, ShiftedType
  <2> QED
    BY <1>2, <2>4, WidthAssumption DEF RotateRight
<1>3. CASE n \notin {0, WordBits} /\ n % WordBits = 0
  BY <1>0, <1>3, WidthAssumption DEF RotateRight
<1>4. CASE n % WordBits # 0
  <2>1. n % WordBits \in 0 .. WordBits /\ (n % WordBits) - 1 \in 0 .. WordBits
    BY <1>4, WidthAssumption
  <2>2. /\ RotatedRight(a, n % WordBits) \in Int
        /\ Bit(a, (n % WordBits) - 1) \in Flag
    BY <2>1, RotatedRightType, BitType, WordRange
  <2>3. n # WordBits /\ n # 0
    BY <1>4, WidthAssumption
  <2>4. Shifted(RotatedRight(a, n % WordBits), Bit(a, (n % WordBits) - 1)) \in ShiftResult
    BY <2>2, ShiftedType
  <2> QED
    BY <1>4, <2>3, <2>4, WidthAssumption DEF RotateRight
<1> QED
  BY <1>1, <1>2, <1>3, <1>4, WidthAssumption

\* Every outcome of the second operand is a word and a carry.
LEMMA Operand2Type ==
  ASSUME NEW operand2 \in ShiftedByValue \cup ShiftedByRegister \cup RotatedImmediate,
         registers \in [Register -> Word], cpsr \in Flags
  PROVE  Operand2(operand2) \subseteq ShiftResult
<1>1. CASE operand2 \in RotatedImmediate
  <2>1. operand2.kind = "immediate" /\ operand2.byte \in Word
    BY <1>1, ByteFacts DEF RotatedImmediate
  <2>2. 2 * operand2.rotation \in 0 .. WordBits
    BY <1>1, WidthAssumption DEF RotatedImmediate
  <2>3. RotatedRight(operand2.byte, 2 * operand2.rotation) \in Word
    BY <2>1, <2>2, RotatedRightType
  <2>4. Shifted(operand2.byte, cpsr.c) \in ShiftResult
    BY <2>1, ShiftedType, WordRange DEF Flags
  <2>5. Shifted(RotatedRight(operand2.byte, 2 * operand2.rotation),
                FlagOf(NEG(RotatedRight(operand2.byte, 2 * operand2.rotation)))) \in ShiftResult
    BY <2>3, ShiftedType, FlagOfType, WordRange
  <2>6. rotate(operand2) \in ShiftResult
    BY <2>4, <2>5 DEF rotate
  <2> QED
    BY <2>1, <2>6 DEF Operand2
<1>2. CASE operand2 \in ShiftedByValue \cup ShiftedByRegister
  <2> DEFINE byRegister == operand2.kind = "by_register"
             ahead == IF operand2.rm # PC THEN 0 ELSE IF byRegister THEN 8 ELSE 4
             a == Wrap(registers[operand2.rm] + ahead)
             n == IF byRegister THEN registers[operand2.rs] % 256 ELSE operand2.amount
  <2>1. operand2.kind # "immediate" /\ operand2.type \in ShiftType /\ operand2.rm \in Register
    BY <1>2 DEF ShiftedByValue, ShiftedByRegister
  <2>2. a \in Word
    <3>1. registers[operand2.rm] \in Int
      BY <2>1, WordRange
    <3>2. ahead \in Int
      OBVIOUS
    <3> QED
      BY <3>1, <3>2, WrapType
  <2>3. n \in Nat
    <3>1. CASE operand2 \in ShiftedByValue
      BY <3>1 DEF ShiftedByValue
    <3>2. CASE operand2 \in ShiftedByRegister
      <4>1. byRegister /\ registers[operand2.rs] \in Int
        BY <3>2, WordRange DEF ShiftedByRegister
      <4> QED
        BY <4>1
    <3> QED
      BY <1>2, <3>1, <3>2
  <2>4. byRegister \in BOOLEAN
    OBVIOUS
  <2> HIDE DEF a, n, byRegister
  <2>5. /\ {LogicalLeft(a, n)} \subseteq ShiftResult
        /\ {LogicalRight(a, n)} \subseteq ShiftResult
        /\ {ArithmeticRight(a, n)} \subseteq ShiftResult
        /\ RotateRight(a, n, byRegister) \subseteq ShiftResult
    BY <2>2, <2>3, <2>4, LogicalLeftType, LogicalRightType, ArithmeticRightType, RotateRightType
  <2>6. shift(operand2) = CASE operand2.type = "LSL" -> {LogicalLeft(a, n)}
                            [] operand2.type = "LSR" -> {LogicalRight(a, n)}
                            [] operand2.type = "ASR" -> {ArithmeticRight(a, n)}
                            [] operand2.type = "ROR" -> RotateRight(a, n, byRegister)
    BY DEF shift, a, n, byRegister
  <2>7. shift(operand2) \subseteq ShiftResult
    BY <2>1, <2>5, <2>6 DEF ShiftType
  <2> QED
    BY <2>1, <2>7 DEF Operand2
<1> QED
  BY <1>1, <1>2

\* The complement of a word is a word.
LEMMA BitNotType == \A a \in Word : BitNot(a) \in Word
BY ModulusFacts DEF BitNot, Word

\* The first operand is a word, the pc included.
LEMMA Operand1Type ==
  ASSUME registers \in [Register -> Word], NEW r \in Register
  PROVE  Operand1(r) \in Word
<1>1. registers[r] \in Int
  BY WordRange
<1> QED
  BY <1>1, WrapType DEF Operand1

\* Every opcode gives a word.
LEMMA ResultType ==
  ASSUME NEW opcode \in OpCode, NEW rn \in Register, NEW op1 \in Word, NEW op2 \in Word,
         registers \in [Register -> Word], cpsr \in Flags
  PROVE  Result(opcode, rn, op1, op2) \in Word
<1>1. op1 \in Int /\ op2 \in Int /\ cpsr.c \in Int
  BY WordRange DEF Flags, Flag
<1>2. /\ Wrap(op1 - op2) \in Word /\ Wrap(op2 - op1) \in Word /\ Wrap(op1 + op2) \in Word
      /\ Wrap(op1 + op2 + cpsr.c) \in Word
      /\ Wrap(op1 - op2 + cpsr.c - 1) \in Word /\ Wrap(op2 - op1 + cpsr.c - 1) \in Word
  BY <1>1, WrapType
<1>3. /\ BitAnd(op1, op2) \in Word /\ BitOr(op1, op2) \in Word /\ BitXor(op1, op2) \in Word
      /\ BitNot(op2) \in Word /\ BitAnd(registers[rn], BitNot(op2)) \in Word
  BY BitNotType, BitwiseAssumption
<1> QED
  BY <1>2, <1>3
     DEF Result, OpCode, Logical, Additions, Subtractions, Forward, Reversed

\* Every opcode gives a carry and an overflow flag.
LEMMA FlagTypes ==
  ASSUME NEW opcode \in OpCode, NEW op1, NEW op2, NEW value, NEW fromShifter \in Flag,
         cpsr \in Flags
  PROVE  /\ CarryFlag(opcode, op1, op2, value, fromShifter) \in Flag
         /\ OverflowFlag(opcode, op1, op2, value) \in Flag
BY FlagOfType
   DEF CarryFlag, OverflowFlag, OpCode, Logical, Additions, Subtractions, Forward, Reversed, Flags

-----------------------------------------------------------------------------
(* Memory.                                                                 *)

\* A read of the guest's data gives a word.
LEMMA WordAtType ==
  ASSUME ram \in [Ram -> Byte], NEW a \in Int, Data(Bytes(a, 4))
  PROVE  WordAt(a) \in Word
<1>1. a \in Ram /\ a + 1 \in Ram /\ a + 2 \in Ram /\ a + 3 \in Ram
  BY DEF Data, Bytes
<1> QED
  BY <1>1, WordInType DEF WordAt

\* A store of up to four bytes leaves a memory of bytes.
LEMMA AfterStoreType ==
  ASSUME NEW bytes \in [Ram -> Byte], NEW a \in Int, NEW n \in 0 .. 4, NEW w \in Word
  PROVE  AfterStore(bytes, a, n, w) \in [Ram -> Byte]
<1>1. ASSUME NEW b \in Ram, b \in Bytes(a, n)
      PROVE  ByteOf(w, b - a) \in Byte
  <2>1. b - a \in 0 .. 3
    BY <1>1, MemSizeAssumption DEF Bytes, Ram
  <2> QED
    BY <2>1, ByteOfType
<1> QED
  BY <1>1 DEF AfterStore

LEMMA StoreBytesType ==
  ASSUME ram \in [Ram -> Byte], NEW a \in Int, NEW n \in 0 .. 4, NEW w \in Word
  PROVE  StoreBytes(a, n, w) \in [Ram -> Byte]
BY AfterStoreType DEF StoreBytes

-----------------------------------------------------------------------------
(* The steps.  Each lemma below covers the primed variables of one kind of *)
(* step; IInv is the type invariant with what makes it inductive.          *)

\* Inside an evaluation the loop of run() has a turn left to count, and only
\* a block transfer is half way through its registers.
RunInv ==
  /\ phase \in {"evaluate", "transfer"} => limit = 0 \/ iter < limit
  /\ phase = "transfer" => instruction.format = "block_data_transfer"

IInv == TypeOK /\ RunInv

\* The instruction four zero bytes encode is one.
LEMMA ZeroType == ZeroInstruction \in Instruction
<1>1. ZeroInstruction.operand2 \in ShiftedByValue
  BY WidthAssumption DEF ZeroInstruction, ShiftedByValue, ShiftType, Register
<1>2. ZeroInstruction \in DataProcessingInstruction
  BY <1>1 DEF ZeroInstruction, DataProcessingInstruction, Condition, OpCode, Logical, Register
<1> QED
  BY <1>2 DEF Instruction

\* Initially the invariant holds.
LEMMA InitInv == Init => IInv
<1> SUFFICES ASSUME Init PROVE IInv
  OBVIOUS
<1>1. registers \in [Register -> Word]
  BY WordRange DEF Init
<1>2. ram \in [Ram -> Byte]
  BY ByteFacts DEF Init, Byte
<1>3. instruction \in Instruction
  BY ZeroType DEF Init
<1>4. offset \in Word
  BY WordRange DEF Init
<1> QED
  BY <1>1, <1>2, <1>3, <1>4
     DEF Init, IInv, TypeOK, RunInv, Flags, Flag, NoFlags, Phase, LoadedCode

\* The format of an instruction says what the rest of it is.
LEMMA FormatType ==
  ASSUME instruction \in Instruction
  PROVE  /\ instruction.format = "data_processing" => instruction \in DataProcessingInstruction
         /\ instruction.format = "single_data_transfer" => instruction \in SingleTransferInstruction
         /\ instruction.format = "block_data_transfer" => instruction \in BlockTransferInstruction
         /\ instruction.format = "branch" => instruction \in BranchInstruction
         /\ instruction.format = "branch_and_exchange" => instruction \in BranchAndExchangeInstruction
         /\ instruction.format = "multiply" => instruction \in MultiplyInstruction
         /\ instruction.format = "multiply_long" => instruction \in MultiplyLongInstruction
         /\ instruction.format = "halfword_data_transfer_immediate_off"
              => instruction \in HalfwordImmediateInstruction
         /\ instruction.format = "halfword_data_transfer_register_off"
              => instruction \in HalfwordRegisterInstruction
BY DEF Instruction, DataProcessingInstruction, SingleTransferInstruction,
       BlockTransferInstruction, BranchInstruction, BranchAndExchangeInstruction,
       SoftwareInterruptInstruction, MultiplyInstruction, MultiplyLongInstruction,
       HalfwordImmediateInstruction, HalfwordRegisterInstruction, Unimplemented

\* The part of the invariant about the loop of run().
Control ==
  /\ phase \in Phase
  /\ limit \in Budgets \cup {0}
  /\ iter \in 0 .. limit
  /\ result \in {"none", "Resume", "Stop", "Suspend", "Undefined"}
  /\ RunInv

\* A handler that returns keeps the counter of run() within its limit.
LEMMA CompleteControl ==
  ASSUME IInv, phase \in {"evaluate", "transfer"}, Complete
  PROVE  Control'
BY BudgetsAssumption DEF IInv, TypeOK, RunInv, TurnsLeft, Control, Complete, Phase, Inside

\* A machine that is lost keeps it too.
LEMMA LeaveControl ==
  ASSUME IInv, NEW bytes, Abort \/ Escape(bytes)
  PROVE  Control'
BY DEF IInv, TypeOK, RunInv, TurnsLeft, Control, Abort, Escape, Phase, Inside, Lost

\* So does run() when it returns.
LEMMA ReturnControl ==
  ASSUME IInv, NEW interrupt \in {"Resume", "Stop", "Suspend", "Undefined"}, Return(interrupt)
  PROVE  Control'
BY DEF IInv, TypeOK, RunInv, TurnsLeft, Control, Return, Phase, Inside

\* The rest of it.
Machine ==
  /\ registers \in [Register -> Word]
  /\ cpsr \in Flags
  /\ ram \in [Ram -> Byte]
  /\ code \in LoadedCode
  /\ instruction \in Instruction
  /\ i \in -1 .. 16
  /\ offset \in Word
  /\ programSize \in Nat \cup {-1}

\* The two parts make the invariant...
LEMMA Parts == IInv <=> Control /\ Machine
BY DEF IInv, TypeOK, Control, Machine

\* ...and, primed, the invariant after a step.
LEMMA PartsNext == IInv' <=> Control' /\ Machine'
BY DEF IInv, TypeOK, Control, Machine

\* dataProcessingEval() preserves the invariant.
LEMMA DataProcessingInv == ASSUME IInv, dataProcessingEval PROVE IInv'
<1>1. Machine /\ instruction \in DataProcessingInstruction /\ phase = "evaluate"
  BY Parts, FormatType DEF dataProcessingEval, Executing, Machine
<1>2. Control'
  BY <1>1, CompleteControl DEF dataProcessingEval
<1> DEFINE opcode == instruction.opcode
           op1 == Operand1(instruction.rn)
<1>3. PICK shifted \in Operand2(instruction.operand2) :
        LET op2 == shifted.value
            value == Result(opcode, instruction.rn, op1, op2)
        IN  /\ registers' = IF opcode \in Tests THEN registers
                            ELSE [registers EXCEPT ![instruction.rd] = value]
            /\ cpsr' = IF ~instruction.s THEN cpsr
                       ELSE [n |-> FlagOf(NEG(value)),
                             z |-> FlagOf(value = 0),
                             c |-> CarryFlag(opcode, op1, op2, value, shifted.carry),
                             v |-> OverflowFlag(opcode, op1, op2, value)]
  BY DEF dataProcessingEval
<1>4. /\ opcode \in OpCode /\ instruction.rn \in Register /\ instruction.rd \in Register
      /\ instruction.operand2 \in ShiftedByValue \cup ShiftedByRegister \cup RotatedImmediate
  BY <1>1 DEF DataProcessingInstruction
<1>5. shifted \in ShiftResult
  BY <1>1, <1>3, <1>4, Operand2Type DEF Machine
<1>6. shifted.value \in Word /\ shifted.carry \in Flag /\ op1 \in Word
  BY <1>1, <1>4, <1>5, Operand1Type DEF ShiftResult, Machine
<1> DEFINE value == Result(opcode, instruction.rn, op1, shifted.value)
<1>7. value \in Word
  BY <1>1, <1>4, <1>6, ResultType DEF Machine
<1>8. /\ CarryFlag(opcode, op1, shifted.value, value, shifted.carry) \in Flag
      /\ OverflowFlag(opcode, op1, shifted.value, value) \in Flag
  BY <1>1, <1>4, <1>6, FlagTypes DEF Machine
<1>9. cpsr' \in Flags
  BY <1>1, <1>3, <1>8, FlagOfType DEF Machine, Flags
<1>10. registers' \in [Register -> Word]
  BY <1>1, <1>3, <1>4, <1>7 DEF Machine
<1>11. Machine'
  BY <1>1, <1>9, <1>10 DEF dataProcessingEval, Machine, memory, block
<1> QED
  BY <1>2, <1>11, PartsNext

\* Base, stored value and offset of a single transfer are words.
LEMMA BaseTypes ==
  ASSUME NEW t \in SingleTransferInstruction, registers \in [Register -> Word], cpsr \in Flags
  PROVE  /\ Base(t) \in Word /\ Stored(t) \in Word
         /\ Offsets(t) \subseteq Word
<1>1. t.rn \in Register /\ t.rd \in Register /\ t.offset \in Distance \cup ShiftedByValue
  BY DEF SingleTransferInstruction
<1>2. registers[t.rn] \in Int /\ registers[t.rd] \in Int
  BY <1>1, WordRange
<1>3. Base(t) \in Word /\ Stored(t) \in Word
  BY <1>2, WrapType DEF Base, Stored
<1>4. CASE t.offset \in Distance
  BY <1>3, <1>4 DEF Offsets, Distance
<1>5. CASE t.offset \in ShiftedByValue
  <2>1. t.offset.kind = "by_value"
    BY <1>5 DEF ShiftedByValue
  <2>2. shift(t.offset) \subseteq ShiftResult
    BY <1>5, <2>1, Operand2Type DEF Operand2
  <2> QED
    BY <1>3, <2>1, <2>2 DEF Offsets, ShiftResult
<1> QED
  BY <1>1, <1>3, <1>4, <1>5 DEF Offsets

\* singleDataTranferEval() preserves the invariant.
LEMMA SingleTransferInv == ASSUME IInv, singleDataTranferEval PROVE IInv'
<1>1. Machine /\ instruction \in SingleTransferInstruction /\ phase = "evaluate"
  BY Parts, FormatType DEF singleDataTranferEval, Executing, Machine
<1> DEFINE t == instruction
<1>2. /\ Base(t) \in Word /\ Stored(t) \in Word /\ Offsets(t) \subseteq Word
      /\ t.rn \in Register /\ t.rd \in Register
  BY <1>1, BaseTypes DEF Machine, SingleTransferInstruction
<1>3. PICK distance \in Offsets(t) :
        \/ /\ Data(Touched(t, distance))
           /\ Load(t, distance) \/ Store(t, distance)
           /\ Complete
        \/ /\ Escape(Touched(t, distance))
           /\ UNCHANGED <<registers, ram>>
        \/ /\ Escape(Bytes(Address(t, distance), 4))
           /\ UNCHANGED <<registers, ram>>
  BY DEF singleDataTranferEval
<1>4. Control'
  BY <1>1, <1>3, CompleteControl, LeaveControl
<1>5. Indexed(t, distance) \in Int /\ Address(t, distance) \in Int
  <2>1. Base(t) \in Int /\ distance \in Int
    BY <1>2, <1>3, WordRange
  <2> QED
    BY <2>1 DEF Indexed, Address
<1>6. ASSUME NEW file \in [Register -> Word]
      PROVE  WriteBack(t, distance, file) \in [Register -> Word]
  BY <1>2, <1>5, <1>6, WrapType DEF WriteBack
<1>7. ASSUME Data(Touched(t, distance)), Load(t, distance)
      PROVE  registers' \in [Register -> Word] /\ ram' \in [Ram -> Byte]
  <2> DEFINE value == IF t.b THEN ram[Address(t, distance)] ELSE WordAt(Address(t, distance))
  <2>1. value \in Word
    <3>1. CASE t.b
      <4>1. Address(t, distance) \in Ram
        BY <1>5, <1>7, <3>1 DEF Touched, Data, Bytes
      <4> QED
        BY <1>1, <3>1, <4>1, ByteFacts DEF Machine
    <3>2. CASE ~t.b
      BY <1>1, <1>5, <1>7, <3>2, WordAtType DEF Touched, Machine
    <3> QED
      BY <3>1, <3>2
  <2>2. [registers EXCEPT ![t.rd] = value] \in [Register -> Word]
    BY <1>1, <1>2, <2>1 DEF Machine
  <2> QED
    BY <1>1, <1>6, <1>7, <2>2 DEF Load, Machine
<1>8. ASSUME Store(t, distance)
      PROVE  registers' \in [Register -> Word] /\ ram' \in [Ram -> Byte]
  <2>1. StoreBytes(Address(t, distance), IF t.b THEN 1 ELSE 4, Stored(t)) \in [Ram -> Byte]
    BY <1>1, <1>2, <1>5, StoreBytesType DEF Machine
  <2> QED
    BY <1>1, <1>6, <1>8, <2>1 DEF Store, Machine
<1>9. registers' \in [Register -> Word] /\ ram' \in [Ram -> Byte]
  BY <1>1, <1>3, <1>7, <1>8 DEF Machine
<1>10. Machine'
  BY <1>1, <1>9 DEF singleDataTranferEval, Machine, block
<1> QED
  BY <1>4, <1>10, PartsNext

\* The loop index stays next to a register number.
LEMMA AdvanceType ==
  ASSUME NEW t, NEW index \in Register
  PROVE  Advance(t, index) \in -1 .. 16
BY DEF Advance, Register

\* The stepped offset is a word.
LEMMA StrideType ==
  ASSUME NEW t, NEW address \in Word
  PROVE  Stride(t, address) \in Word
<1>1. address \in Int
  BY WordRange
<1> QED
  BY <1>1, WrapType DEF Stride

\* Every step of blockDataTransferEval() preserves the invariant.
LEMMA BlockTransferInv == ASSUME IInv, blockDataTransferEval PROVE IInv'
<1> DEFINE t == instruction
<1>1. Machine /\ Control
  BY Parts
<1>2. phase \in {"evaluate", "transfer"} /\ t.format = "block_data_transfer"
  BY <1>1 DEF blockDataTransferEval, BeginTransfer, SkipRegister, TransferRegister,
              EscapeTransfer, EndTransfer, Executing, Control, RunInv, TurnsLeft
<1>3. t \in BlockTransferInstruction /\ t.rn \in Register /\ t.registerList \subseteq Register
  BY <1>1, <1>2, FormatType DEF Machine, BlockTransferInstruction
<1>4. CASE BeginTransfer
  <2>1. Control'
    BY <1>1, <1>2, <1>4
       DEF BeginTransfer, Executing, Control, RunInv, TurnsLeft, Phase, Inside, run
  <2>2. First(t) \in -1 .. 16 /\ registers[t.rn] \in Word
    BY <1>1, <1>3 DEF First, Machine
  <2>3. Machine'
    BY <1>1, <1>4, <2>2 DEF BeginTransfer, Machine, memory
  <2> QED
    BY <2>1, <2>3, PartsNext
<1>5. CASE SkipRegister
  <2>1. Control'
    BY <1>1, <1>5 DEF SkipRegister, Control, RunInv, TurnsLeft, run
  <2>2. Machine'
    BY <1>1, <1>5, AdvanceType DEF SkipRegister, Machine, memory
  <2> QED
    BY <2>1, <2>2, PartsNext
<1>6. CASE TransferRegister
  <2>1. Control'
    BY <1>1, <1>6 DEF TransferRegister, Control, RunInv, TurnsLeft, run
  <2>2. i \in Register /\ Slot(t) \in Word /\ Slot(t) \in Int /\ Stride(t, offset) \in Word
    BY <1>1, <1>3, <1>6, StrideType, WordRange DEF TransferRegister, Slot, Machine
  <2>3. StoredRegister(i) \in Word
    <3>0. PC \in Register
      BY DEF PC, Register
    <3>1. registers[i] \in Word /\ registers[PC] \in Int
      BY <1>1, <2>2, <3>0, WordRange DEF Machine
    <3> QED
      BY <3>1, WrapType DEF StoredRegister
  <2>4. WordAt(Slot(t)) \in Word
    BY <1>1, <1>6, <2>2, WordAtType DEF TransferRegister, Machine
  <2>5. StoreBytes(Slot(t), 4, StoredRegister(i)) \in [Ram -> Byte]
    BY <1>1, <2>2, <2>3, StoreBytesType DEF Machine
  <2>6. registers' \in [Register -> Word] /\ ram' \in [Ram -> Byte]
    BY <1>1, <1>6, <2>4, <2>5 DEF TransferRegister, Machine
  <2>7. Machine'
    BY <1>1, <1>6, <2>2, <2>6, AdvanceType DEF TransferRegister, Machine
  <2> QED
    BY <2>1, <2>7, PartsNext
<1>7. CASE EscapeTransfer
  <2>1. Control'
    BY <1>7, LeaveControl DEF EscapeTransfer
  <2>2. Machine'
    BY <1>1, <1>7 DEF EscapeTransfer, Machine, memory, block
  <2> QED
    BY <2>1, <2>2, PartsNext
<1>8. CASE EndTransfer
  <2>1. Control'
    BY <1>2, <1>8, CompleteControl, LeaveControl DEF EndTransfer
  <2>2. registers' \in [Register -> Word]
    BY <1>1, <1>3, <1>8 DEF EndTransfer, Machine
  <2>3. Machine'
    BY <1>1, <1>8, <2>2 DEF EndTransfer, Machine, memory, block
  <2> QED
    BY <2>1, <2>3, PartsNext
<1> QED
  BY <1>4, <1>5, <1>6, <1>7, <1>8 DEF blockDataTransferEval

-----------------------------------------------------------------------------
(* The multiplications.                                                    *)

\* MUL and MLA give a word.
LEMMA MultiplyResultType ==
  ASSUME NEW t \in MultiplyInstruction, registers \in [Register -> Word]
  PROVE  MultiplyResult(t) \in Word
<1>1. /\ registers[t.rm] \in Int /\ registers[t.rs] \in Int
      /\ registers[t.rn] \in Int
  BY WordRange DEF MultiplyInstruction
<1>2. registers[t.rm] * registers[t.rs] \in Int
  BY <1>1
<1>3. registers[t.rm] * registers[t.rs] + (IF t.a THEN registers[t.rn] ELSE 0) \in Int
  BY <1>1, <1>2
<1> QED
  BY <1>3, WrapType DEF MultiplyResult

\* multiplyEval() preserves the invariant.
LEMMA MultiplyInv == ASSUME IInv, multiplyEval PROVE IInv'
<1>1. Machine /\ instruction \in MultiplyInstruction /\ phase = "evaluate"
  BY Parts, FormatType DEF multiplyEval, Executing, Machine
<1>2. Control'
  BY <1>1, CompleteControl DEF multiplyEval
<1>3. MultiplyResult(instruction) \in Word
  BY <1>1, MultiplyResultType DEF Machine
<1>4. registers' \in [Register -> Word]
  BY <1>1, <1>3 DEF multiplyEval, Machine
<1>5. cpsr' \in Flags
  BY <1>1, FlagOfType DEF multiplyEval, Machine, Flags
<1> QED
  BY <1>1, <1>2, <1>4, <1>5, PartsNext DEF multiplyEval, Machine, memory, block

\* A 64-bit result, signed or not, is a natural number below 2^64, and splits
\* into two words that make it up.
LEMMA LongResultType ==
  ASSUME NEW t \in MultiplyLongInstruction, registers \in [Register -> Word]
  PROVE  /\ LongResult(t) \in Nat /\ LongResult(t) < DoubleModulus
         /\ LongResult(t) \div Modulus \in Word /\ LongResult(t) % Modulus \in Word
         /\ Modulus * (LongResult(t) \div Modulus) + (LongResult(t) % Modulus) = LongResult(t)
<1>1. /\ registers[t.rm] \in Int /\ registers[t.rs] \in Int
      /\ registers[t.rdhi] \in Int /\ registers[t.rdlo] \in Int
  BY WordRange DEF MultiplyLongInstruction
<1>2. Factor(t, t.rm) \in Int /\ Factor(t, t.rs) \in Int
  BY <1>1, ModulusFacts DEF Factor, signedCastTo64
<1>3. LongProduct(t) \in Int
  BY <1>2 DEF LongProduct
<1>4. Accumulator(t) \in Int
  <2>1. Modulus * registers[t.rdhi] \in Int
    BY <1>1, ModulusFacts
  <2>2. t.a \in BOOLEAN /\ t.u \in BOOLEAN
    BY DEF MultiplyLongInstruction
  <2> QED
    BY <1>1, <1>3, <2>1, <2>2 DEF Accumulator
<1>5. DoubleModulus \in Nat \ {0}
  BY ModulusFacts DEF DoubleModulus
<1>6. LongResult(t) \in Nat /\ LongResult(t) < DoubleModulus
  BY <1>3, <1>4, <1>5 DEF LongResult
<1>7. ASSUME NEW x \in Nat, x < DoubleModulus
      PROVE  /\ x \div Modulus \in Word /\ x % Modulus \in Word
             /\ Modulus * (x \div Modulus) + (x % Modulus) = x
  <2>1. Modulus \in Nat \ {0} /\ x < Modulus * Modulus
    BY <1>7, ModulusFacts DEF DoubleModulus
  <2>2. x % Modulus \in 0 .. Modulus - 1 /\ Modulus * (x \div Modulus) + (x % Modulus) = x
    BY <2>1
  <2>3. x \div Modulus \in Nat
    BY <2>1
  <2>4. x \div Modulus < Modulus
    BY <2>1, <2>2, <2>3, SMTT(20)
  <2> QED
    BY <2>1, <2>2, <2>3, <2>4 DEF Word
<1> QED
  BY <1>6, <1>7

\* multiplyLongEval() preserves the invariant.
LEMMA MultiplyLongInv == ASSUME IInv, multiplyLongEval PROVE IInv'
<1>1. Machine /\ instruction \in MultiplyLongInstruction /\ phase = "evaluate"
  BY Parts, FormatType DEF multiplyLongEval, Executing, Machine
<1>2. Control'
  BY <1>1, CompleteControl DEF multiplyLongEval
<1>3. /\ LongResult(instruction) \div Modulus \in Word
      /\ LongResult(instruction) % Modulus \in Word
  BY <1>1, LongResultType DEF Machine
<1>4. registers' \in [Register -> Word]
  BY <1>1, <1>3 DEF multiplyLongEval, Machine
<1>5. cpsr' \in Flags
  BY <1>1, FlagOfType DEF multiplyLongEval, LongFlags, Machine, Flags
<1> QED
  BY <1>1, <1>2, <1>4, <1>5, PartsNext DEF multiplyLongEval, Machine, memory, block

-----------------------------------------------------------------------------
(* The halfword transfers.                                                 *)

\* Half a word is two bytes, and not wider than a word.
LEMMA HalfFacts ==
  /\ HalfBits \in 0 .. WordBits
  /\ HalfModulus \in Nat \ {0} /\ HalfModulus <= Modulus
<1>1. HalfBits \in 0 .. WordBits
  BY ByteFacts DEF HalfBits
<1> QED
  BY <1>1, PowerType DEF HalfModulus

\* An access to memory preserves the invariant, whether it stays in the
\* guest's data or escapes.
LEMMA AccessInv ==
  ASSUME IInv, phase = "evaluate", NEW touched, NEW word, NEW file, NEW contents,
         Access(touched, file, contents) \/ Overreach(touched, word),
         Data(touched) => file \in [Register -> Word] /\ contents \in [Ram -> Byte],
         UNCHANGED <<cpsr, code, programSize, instruction, block>>
  PROVE  IInv'
<1>1. Control'
  BY CompleteControl, LeaveControl DEF Access, Overreach
<1>2. registers' \in [Register -> Word] /\ ram' \in [Ram -> Byte]
  BY Parts DEF Access, Overreach, Machine
<1> QED
  BY <1>1, <1>2, Parts, PartsNext DEF Machine, block

\* What a load gives is a word, and displaced addresses are words.
LEMMA LoadedType ==
  ASSUME NEW t, t.s \in BOOLEAN, t.h \in BOOLEAN, NEW a \in Int,
         ram \in [Ram -> Byte], Data(LoadedBytes(t, a))
  PROVE  Loaded(t, a) \in Word
<1>1. a \in Ram /\ (t.h => a + 1 \in Ram)
  BY DEF Data, LoadedBytes, Bytes
<1>2. ram[a] \in Word /\ ram[a] \in Int
  BY <1>1, ByteFacts, WordRange
<1>3. t.h => HalfAt(a) \in Word
  <2> SUFFICES ASSUME t.h PROVE HalfAt(a) \in Word
    OBVIOUS
  <2>1. ram[a + 1] \in Word
    BY <1>1, ByteFacts
  <2>2. ShiftLeft(ram[a + 1], ByteBits) \in Int
    BY <2>1, ByteFacts, ShiftTypes, WordRange
  <2>3. ram[a] + ShiftLeft(ram[a + 1], ByteBits) \in Int
    BY <1>2, <2>2
  <2> QED
    BY <2>3, WrapType DEF HalfAt
<1>4. getSigned8(ram[a]) \in Word
  BY <1>2, ByteFacts, SignExtendedType DEF getSigned8
<1>5. t.h => getSigned16(HalfAt(a)) \in Word
  BY <1>3, WordRange, HalfFacts, SignExtendedType DEF getSigned16
<1> QED
  BY <1>2, <1>3, <1>4, <1>5 DEF Loaded

LEMMA DisplacedType ==
  ASSUME NEW t, NEW a \in Word, NEW distance \in Int
  PROVE  Displaced(t, a, distance) \in Word
<1>1. a \in Int
  BY WordRange
<1> QED
  BY <1>1, WrapType DEF Displaced

\* A base moved by two stays a word.
LEMMA MovedBaseType == \A a \in Word : Retreated(a) \in Word /\ Advanced(a) \in Word
<1> SUFFICES ASSUME NEW a \in Word PROVE Retreated(a) \in Word /\ Advanced(a) \in Word
  OBVIOUS
<1>1. a \in Int
  BY WordRange
<1> QED
  BY <1>1, WrapType DEF Retreated, Advanced

\* Writing back a word leaves words.
LEMMA BasedType ==
  ASSUME NEW t, t.rn \in Register, NEW file \in [Register -> Word], NEW a \in Word
  PROVE  Based(t, file, a) \in [Register -> Word]
BY DEF Based

\* STRH leaves a memory of bytes, misplaced or not.
LEMMA AfterHalfStoredType ==
  ASSUME NEW t, t.rd \in Register, NEW a \in Int, Data(StoredBytes(t, a)),
         registers \in [Register -> Word], ram \in [Ram -> Byte]
  PROVE  AfterHalfStored(t, a) \in [Ram -> Byte]
<1>1. CASE ~Misplaces(t, a)
  BY <1>1, StoreBytesType DEF AfterHalfStored
<1>2. CASE Misplaces(t, a)
  <2>1. a \in Ram /\ a + 1 \in Ram
    BY <1>2 DEF StoredBytes, Data, Bytes
  <2>2. ram[a] \in Int /\ ram[a + 1] \in Word
    BY <2>1, ByteFacts, WordRange
  <2>3. ShiftLeft(ram[a + 1], ByteBits) \in Int
    BY <2>2, ByteFacts, ShiftTypes, WordRange
  <2>4. ram[a] + ShiftLeft(ram[a + 1], ByteBits) \in Int
    BY <2>2, <2>3
  <2>5. HalfAt(a) \in Word
    BY <2>4, WrapType DEF HalfAt
  <2>6. StoreBytes(a - 2, 2, HalfAt(a)) \in [Ram -> Byte]
    BY <2>5, StoreBytesType
  <2>7. AfterStore(StoreBytes(a - 2, 2, HalfAt(a)), a, 2, registers[t.rd]) \in [Ram -> Byte]
    BY <2>6, AfterStoreType
  <2> QED
    BY <1>2, <2>7 DEF AfterHalfStored
<1> QED
  BY <1>1, <1>2

\* halfwordDataTransferImmediateOffEval() preserves the invariant.
LEMMA HalfwordImmediateInv ==
  ASSUME IInv, halfwordDataTransferImmediateOffEval
  PROVE  IInv'
<1> DEFINE t == instruction
           base == registers[t.rn]
           next == Displaced(t, base, t.distance)
           a == IF t.p THEN next ELSE base
<1>1. Machine /\ t \in HalfwordImmediateInstruction /\ phase = "evaluate"
  BY Parts, FormatType DEF halfwordDataTransferImmediateOffEval, Executing, Machine
<1>2. UNCHANGED <<cpsr, code, programSize, instruction, block>>
  BY DEF halfwordDataTransferImmediateOffEval
<1>3. /\ t.rn \in Register /\ t.rd \in Register
      /\ t.s \in BOOLEAN /\ t.h \in BOOLEAN /\ t.distance \in Int
  BY <1>1 DEF HalfwordImmediateInstruction
<1>4. base \in Word /\ next \in Word /\ a \in Word /\ a \in Int
  BY <1>1, <1>3, DisplacedType, WordRange DEF Machine
<1> HIDE DEF a, next, base
<1>5. CASE Abort /\ UNCHANGED <<registers, ram>>
  <2>1. Control'
    BY <1>5, LeaveControl
  <2> QED
    BY <1>1, <1>2, <1>5, <2>1, PartsNext DEF Machine, block
<1>6. CASE /\ t.load
           /\ \/ Access(LoadedBytes(t, a),
                        Based(t, [registers EXCEPT ![t.rd] = Loaded(t, a)], next), ram)
              \/ Overreach(LoadedBytes(t, a), Bytes(a, 4))
  <2>1. ASSUME Data(LoadedBytes(t, a))
        PROVE  Based(t, [registers EXCEPT ![t.rd] = Loaded(t, a)], next) \in [Register -> Word]
    <3>1. Loaded(t, a) \in Word
      BY <1>1, <1>3, <1>4, <2>1, LoadedType DEF Machine
    <3>2. [registers EXCEPT ![t.rd] = Loaded(t, a)] \in [Register -> Word]
      BY <1>1, <1>3, <3>1 DEF Machine
    <3> QED
      BY <1>3, <1>4, <3>2, BasedType
  <2>2. ram \in [Ram -> Byte]
    BY <1>1 DEF Machine
  <2> QED
    BY <1>1, <1>2, <1>6, <2>1, <2>2, AccessInv
<1>7. CASE \/ Access(StoredBytes(t, a),
                     Based(t, registers, Retreated(next)), AfterHalfStored(t, a))
           \/ Overreach(StoredBytes(t, a), StoreReach(t, a))
  <2>1. Based(t, registers, Retreated(next)) \in [Register -> Word]
    BY <1>1, <1>3, <1>4, MovedBaseType, BasedType DEF Machine
  <2>2. Data(StoredBytes(t, a)) => AfterHalfStored(t, a) \in [Ram -> Byte]
    BY <1>1, <1>3, <1>4, AfterHalfStoredType DEF Machine
  <2> QED
    BY <1>1, <1>2, <1>7, <2>1, <2>2, AccessInv
<1> QED
  BY <1>5, <1>6, <1>7
     DEF halfwordDataTransferImmediateOffEval, ImmediateTransfer, a, next, base

\* A halfword twice is a word.
LEMMA DoubledType == \A w \in Word : Doubled(w) \in Word
<1> SUFFICES ASSUME NEW w \in Word PROVE Doubled(w) \in Word
  OBVIOUS
<1>1. ShiftLeft(w, HalfBits) \in Int
  BY HalfFacts, ShiftTypes, WordRange
<1>2. w \in Int /\ HalfModulus \in Nat \ {0}
  BY HalfFacts, WordRange
<1>3. w % HalfModulus \in Int
  BY <1>2
<1>4. (w % HalfModulus) + ShiftLeft(w, HalfBits) \in Int
  BY <1>1, <1>3
<1> QED
  BY <1>4, WrapType DEF Doubled

\* halfwordDataTransferRegisterOffEval() preserves the invariant.
LEMMA HalfwordRegisterInv ==
  ASSUME IInv, halfwordDataTransferRegisterOffEval
  PROVE  IInv'
<1> DEFINE t == instruction
           base == registers[t.rn]
           before == Displaced(t, base, registers[t.rm])
<1>1. Machine /\ t \in HalfwordRegisterInstruction /\ phase = "evaluate"
  BY Parts, FormatType DEF halfwordDataTransferRegisterOffEval, Executing, Machine
<1>2. UNCHANGED <<cpsr, code, programSize, instruction, block>>
  BY DEF halfwordDataTransferRegisterOffEval
<1>3. /\ t.rn \in Register /\ t.rd \in Register /\ t.rm \in Register
      /\ t.s \in BOOLEAN /\ t.h \in BOOLEAN
  BY <1>1 DEF HalfwordRegisterInstruction
<1>4. base \in Word /\ before \in Word /\ registers[t.rd] \in Word
  BY <1>1, <1>3, DisplacedType, WordRange DEF Machine
<1> HIDE DEF before, base
<1>5. CASE RegisterLoad(t)
  <2> DEFINE a == IF t.p THEN before ELSE base
             file == [registers EXCEPT ![t.rd] = Loaded(t, a)]
             next == IF t.p THEN a ELSE Advanced(Displaced(t, base, file[t.rm]))
  <2>1. Access(LoadedBytes(t, a), Based(t, file, next), ram)
          \/ Overreach(LoadedBytes(t, a), Bytes(a, 4))
    BY <1>5 DEF RegisterLoad, before, base
  <2>2. a \in Word /\ a \in Int
    BY <1>4, WordRange
  <2>3. ASSUME Data(LoadedBytes(t, a))
        PROVE  Based(t, file, next) \in [Register -> Word]
    <3>1. Loaded(t, a) \in Word
      BY <1>1, <1>3, <2>2, <2>3, LoadedType DEF Machine
    <3> HIDE DEF a
    <3>2. file \in [Register -> Word]
      BY <1>1, <1>3, <3>1 DEF Machine
    <3> HIDE DEF file
    <3>3. next \in Word
      BY <1>3, <1>4, <2>2, <3>2, DisplacedType, MovedBaseType, WordRange
    <3> QED
      BY <1>3, <3>2, <3>3, BasedType
  <2>4. ram \in [Ram -> Byte]
    BY <1>1 DEF Machine
  <2> QED
    BY <1>1, <1>2, <2>1, <2>3, <2>4, AccessInv
<1>6. CASE RegisterStore(t)
  <2> DEFINE next == Advanced(before)
             a == IF t.p THEN next ELSE base
  <2>1. Access(Bytes(a, 4), Based(t, registers, next),
               StoreBytes(a, 4, Doubled(registers[t.rd])))
    BY <1>6 DEF RegisterStore, before, base
  <2>2. next \in Word /\ a \in Int
    BY <1>4, MovedBaseType, WordRange
  <2> HIDE DEF a, next
  <2>3. Based(t, registers, next) \in [Register -> Word]
    BY <1>1, <1>3, <2>2, BasedType DEF Machine
  <2>4. StoreBytes(a, 4, Doubled(registers[t.rd])) \in [Ram -> Byte]
    BY <1>1, <1>4, <2>2, DoubledType, StoreBytesType DEF Machine
  <2> QED
    BY <1>1, <1>2, <2>1, <2>3, <2>4, AccessInv
<1> QED
  BY <1>5, <1>6 DEF halfwordDataTransferRegisterOffEval

-----------------------------------------------------------------------------
(* Branches and software interrupts.                                       *)

\* getSigned24() gives a word.
LEMMA Signed24Type == \A x \in Int : getSigned24(x) \in Word
<1>1. FieldBits \in 0 .. WordBits
  BY WidthAssumption
<1> QED
  BY <1>1, SignExtendedType DEF getSigned24

\* branchEval() and branchAndExchangeEval() preserve the invariant.
LEMMA BranchInv ==
  ASSUME IInv, branchEval \/ branchAndExchangeEval
  PROVE  IInv'
<1>1. Machine /\ phase = "evaluate" /\ Complete
  BY Parts DEF branchEval, branchAndExchangeEval, Executing
<1>2. Control'
  BY <1>1, CompleteControl
<1>3. /\ registers[PC] \in Word
      /\ PC \in Register /\ LR \in Register
  BY <1>1 DEF Machine, PC, LR, Register
<1>4. CASE branchEval
  <2>1. instruction.offset \in Int
    <3>1. instruction.offset \in Field
      BY <1>1, <1>4, FormatType DEF branchEval, Executing, Machine, BranchInstruction
    <3> QED
      BY <3>1 DEF Field
  <2>2. Wrap(registers[PC] + getSigned24(4 * instruction.offset) + 4) \in Word
    <3>1. 4 * instruction.offset \in Int
      BY <2>1
    <3>2. getSigned24(4 * instruction.offset) \in Int /\ registers[PC] \in Int
      BY <1>3, <3>1, Signed24Type, WordRange
    <3> QED
      BY <3>2, WrapType
  <2>3. registers' \in [Register -> Word]
    BY <1>1, <1>3, <1>4, <2>2 DEF branchEval, Machine
  <2> QED
    BY <1>1, <1>2, <1>4, <2>3, PartsNext DEF branchEval, Machine, memory, block
<1>5. CASE branchAndExchangeEval
  <2>1. instruction.rn \in Register
    BY <1>1, <1>5, FormatType
       DEF branchAndExchangeEval, Executing, Machine, BranchAndExchangeInstruction
  <2>2. registers' \in [Register -> Word]
    BY <1>1, <1>3, <1>5, <2>1 DEF branchAndExchangeEval, Machine
  <2> QED
    BY <1>1, <1>2, <1>5, <2>2, PartsNext DEF branchAndExchangeEval, Machine, memory, block
<1> QED
  BY <1>4, <1>5

\* softwareInterruptEval() preserves the invariant.
LEMMA SoftwareInterruptInv == ASSUME IInv, softwareInterruptEval PROVE IInv'
<1>1. Interrupt(instruction.comment) \in {"Resume", "Stop", "Suspend", "Undefined"}
  BY DEF Interrupt
<1>2. Control'
  BY <1>1, ReturnControl DEF softwareInterruptEval
<1> QED
  BY <1>2, Parts, PartsNext DEF softwareInterruptEval, Machine, memory, block

-----------------------------------------------------------------------------
(* The steps that are not handlers.                                        *)

\* init() preserves the invariant.
LEMMA InitialiseInv == ASSUME IInv, init PROVE IInv'
<1>1. 0 \in Word /\ 0 \in Byte
  BY WordRange, ByteFacts DEF Byte
<1>2. Control'
  BY Parts DEF init, Control, RunInv, TurnsLeft, Phase, run
<1>3. Machine'
  BY <1>1, Parts DEF init, Machine, LoadedCode, Flags, Flag, NoFlags, block
<1> QED
  BY <1>2, <1>3, PartsNext

\* load() preserves the invariant, whether it finds a file or not.
LEMMA LoadInv == ASSUME IInv, load PROVE IInv'
<1>1. CASE LoadFailure
  <2>1. Control'
    BY <1>1, Parts DEF LoadFailure, Control, RunInv, TurnsLeft, Phase, run
  <2> QED
    BY <1>1, <2>1, Parts, PartsNext DEF LoadFailure, Machine, block
<1>2. ASSUME NEW image \in Images, LoadImage(image)
      PROVE  IInv'
  <2>1. Control'
    BY <1>2, Parts DEF LoadImage, Control, RunInv, TurnsLeft, Phase, Lost, run
  <2>2. programSize' \in Nat
    BY <1>2, ImagesAssumption DEF LoadImage
  <2>3. ram' \in [Ram -> Byte]
    BY <1>2, ImagesAssumption, Parts DEF LoadImage, Machine
  <2>4. code' \in LoadedCode
    BY <1>2 DEF LoadImage, LoadedCode
  <2>5. Machine'
    BY <1>2, <2>2, <2>3, <2>4, Parts DEF LoadImage, Machine, block
  <2> QED
    BY <2>1, <2>5, PartsNext
<1> QED
  BY <1>1, <1>2 DEF load

\* The start of run() preserves the invariant.
LEMMA BeginRunInv == ASSUME IInv, NEW n \in Budgets, BeginRun(n) PROVE IInv'
<1>1. n \in Nat
  BY BudgetsAssumption
<1>2. Control'
  BY <1>1, Parts DEF BeginRun, Control, RunInv, TurnsLeft, Phase, Inside
<1> QED
  BY <1>2, Parts, PartsNext DEF BeginRun, Machine, memory, block

\* The end of a limited run() preserves the invariant.
LEMMA ExhaustedInv == ASSUME IInv, Exhausted PROVE IInv'
<1>1. Control'
  BY ReturnControl DEF Exhausted
<1> QED
  BY <1>1, Parts, PartsNext DEF Exhausted, Machine, memory, block

\* Every instruction fetch() can find is one decode() can return.
LEMMA FetchedType == ASSUME Machine PROVE \A pc \in DOMAIN code : code[pc] \in Instruction
BY ImagesAssumption DEF Machine, LoadedCode, NoCode

\* fetch() and decode() preserve the invariant.
LEMMA FetchDecodeInv == ASSUME IInv, FetchDecode PROVE IInv'
<1>1. Machine /\ Control /\ phase = "fetch" /\ (limit = 0 \/ iter < limit)
  BY Parts DEF FetchDecode, TurnsLeft
<1>2. ZeroInstruction \in Instruction
  BY ZeroType
<1>3. registers' \in [Register -> Word]
  <2>1. PC \in Register
    BY DEF PC, Register
  <2>2. registers[PC] \in Int
    BY <1>1, <2>1, WordRange DEF Machine
  <2>3. Wrap(registers[PC] + 4) \in Word
    BY <2>2, WrapType
  <2> QED
    BY <1>1, <2>3 DEF FetchDecode, Machine
<1>4. CASE Escape(Bytes(registers[PC], 4)) /\ UNCHANGED instruction
  <2>1. Control'
    BY <1>4, LeaveControl
  <2> QED
    BY <1>1, <1>3, <1>4, <2>1, PartsNext DEF FetchDecode, Machine, memory, block
<1>5. CASE phase' = "evaluate" /\ instruction' \in Instruction /\ UNCHANGED run
  <2>1. Control'
    BY <1>1, <1>5 DEF Control, RunInv, TurnsLeft, Phase, Inside, run
  <2> QED
    BY <1>1, <1>3, <1>5, <2>1, PartsNext DEF FetchDecode, Machine, memory, block
<1> QED
  BY <1>1, <1>2, <1>4, <1>5, FetchedType DEF FetchDecode

\* A handler whose condition fails preserves the invariant.
LEMMA SkipInv == ASSUME IInv, SkipInstruction PROVE IInv'
<1>1. Control'
  BY CompleteControl DEF SkipInstruction
<1> QED
  BY <1>1, Parts, PartsNext DEF SkipInstruction, Machine, memory, block

\* An assertion preserves the invariant, in either build.
LEMMA AssertInv == ASSUME IInv, AssertInstruction PROVE IInv'
<1>1. Control'
  BY LeaveControl, CompleteControl DEF AssertInstruction
<1> QED
  BY <1>1, Parts, PartsNext DEF AssertInstruction, Machine, memory, block

\* Every step of the machine preserves the invariant.
LEMMA NextInv == IInv /\ [Next]_vars => IInv'
<1> SUFFICES ASSUME IInv, [Next]_vars PROVE IInv'
  OBVIOUS
<1>1. CASE init
  BY <1>1, InitialiseInv
<1>2. CASE load
  BY <1>2, LoadInv
<1>3. CASE \E nbMaxIteration \in Budgets : BeginRun(nbMaxIteration)
  BY <1>3, BeginRunInv
<1>4. CASE Exhausted
  BY <1>4, ExhaustedInv
<1>5. CASE FetchDecode
  BY <1>5, FetchDecodeInv
<1>6. CASE SkipInstruction
  BY <1>6, SkipInv
<1>7. CASE AssertInstruction
  BY <1>7, AssertInv
<1>8. CASE dataProcessingEval
  BY <1>8, DataProcessingInv
<1>9. CASE singleDataTranferEval
  BY <1>9, SingleTransferInv
<1>10. CASE blockDataTransferEval
  BY <1>10, BlockTransferInv
<1>11. CASE branchEval \/ branchAndExchangeEval
  BY <1>11, BranchInv
<1>12. CASE softwareInterruptEval
  BY <1>12, SoftwareInterruptInv
<1>13. CASE multiplyEval \/ multiplyLongEval
  BY <1>13, MultiplyInv, MultiplyLongInv
<1>14. CASE halfwordDataTransferImmediateOffEval
  BY <1>14, HalfwordImmediateInv
<1>15. CASE halfwordDataTransferRegisterOffEval
  BY <1>15, HalfwordRegisterInv
<1>16. CASE UNCHANGED vars
  BY <1>16 DEF vars, IInv, TypeOK, RunInv, TurnsLeft
<1> QED
  BY <1>1, <1>2, <1>3, <1>4, <1>5, <1>6, <1>7, <1>8, <1>9, <1>10, <1>11, <1>12, <1>13,
     <1>14, <1>15, <1>16
     DEF Next, Turn, Evaluate

-----------------------------------------------------------------------------
(* From a property of the steps to a property of the handlers.             *)

\* A step of the machine inside evaluate(), with the condition true, is the
\* handler of the instruction's format.
LEMMA OnlyTheHandler ==
  ASSUME NEW format \in {"data_processing", "branch", "multiply_long"},
         Executing(format), Next
  PROVE  /\ format = "data_processing" => dataProcessingEval
         /\ format = "branch" => branchEval
         /\ format = "multiply_long" => multiplyLongEval
<1>1. phase = "evaluate" /\ instruction.format = format
      /\ TestCondition(instruction.condition)
  BY DEF Executing
<1>2. instruction.condition # "NV"
  BY <1>1 DEF TestCondition
<1>3. ~init /\ ~load /\ ~Exhausted /\ ~FetchDecode /\ ~(\E n \in Budgets : BeginRun(n))
  BY <1>1 DEF init, load, LoadImage, LoadFailure, Exhausted, FetchDecode, BeginRun
<1>4. ~SkipInstruction /\ ~AssertInstruction
  BY <1>1, <1>2 DEF SkipInstruction, AssertInstruction, Unsupported
<1>5. /\ format # "data_processing" => ~dataProcessingEval
      /\ format # "branch" => ~branchEval
      /\ format # "multiply_long" => ~multiplyLongEval
  BY <1>1 DEF dataProcessingEval, branchEval, multiplyLongEval, Executing
<1>6. ~singleDataTranferEval /\ ~branchAndExchangeEval /\ ~softwareInterruptEval
  BY <1>1 DEF singleDataTranferEval, branchAndExchangeEval, softwareInterruptEval, Executing
<1>7. ~blockDataTransferEval
  BY <1>1 DEF blockDataTransferEval, BeginTransfer, SkipRegister, TransferRegister,
              EscapeTransfer, EndTransfer, Executing
<1>8. /\ ~multiplyEval
      /\ ~halfwordDataTransferImmediateOffEval /\ ~halfwordDataTransferRegisterOffEval
  BY <1>1 DEF multiplyEval, halfwordDataTransferImmediateOffEval,
              halfwordDataTransferRegisterOffEval, Executing
<1> QED
  BY <1>3, <1>4, <1>5, <1>6, <1>7, <1>8 DEF Next, Turn, Evaluate

\* A step that begins, carries on or ends a block transfer is one of its own.
LEMMA OnlyBlockSteps ==
  ASSUME Next, phase = "transfer" \/ phase' = "transfer"
  PROVE  \/ BeginTransfer
         \/ SkipRegister
         \/ TransferRegister
         \/ EscapeTransfer
         \/ EndTransfer
<1>1. ~init /\ ~load /\ ~(\E n \in Budgets : BeginRun(n))
  BY DEF init, load, LoadImage, LoadFailure, BeginRun
<1>2. ~Exhausted /\ ~SkipInstruction /\ ~AssertInstruction
  BY DEF Exhausted, Return, SkipInstruction, AssertInstruction, Complete, Abort
<1>3. ~FetchDecode
  BY DEF FetchDecode, Escape
<1>4. /\ ~dataProcessingEval /\ ~branchEval /\ ~branchAndExchangeEval
      /\ ~multiplyEval /\ ~multiplyLongEval
  BY DEF dataProcessingEval, branchEval, branchAndExchangeEval, multiplyEval,
         multiplyLongEval, Executing, Complete
<1>5. ~singleDataTranferEval
  BY DEF singleDataTranferEval, Executing, Complete, Escape
<1>6. ~softwareInterruptEval
  BY DEF softwareInterruptEval, Executing, Complete, Return
<1>7. ~halfwordDataTransferImmediateOffEval
  BY DEF halfwordDataTransferImmediateOffEval, ImmediateTransfer, Access, Overreach,
         Executing, Complete, Escape, Abort
<1>8. ~halfwordDataTransferRegisterOffEval
  BY DEF halfwordDataTransferRegisterOffEval, RegisterLoad, RegisterStore, Access, Overreach,
         Executing, Complete, Escape
<1> QED
  BY <1>1, <1>2, <1>3, <1>4, <1>5, <1>6, <1>7, <1>8 DEF Next, Turn, Evaluate, blockDataTransferEval

-----------------------------------------------------------------------------
(* The theorems.                                                           *)

(***************************************************************************)
(* Whatever the program image, the size of the memory and the limit of a   *)
(* run, registers and offsets stay words, memory stays bytes, a block      *)
(* transfer's index stays within one of the register numbers, and run()    *)
(* never counts beyond its limit.                                          *)
(***************************************************************************)
THEOREM InvariantHolds == Spec => []IInv
<1>1. Init => IInv
  BY InitInv
<1>2. IInv /\ [Next]_vars => IInv'
  BY NextInv
<1> QED
  BY <1>1, <1>2, PTL DEF Spec

\* Type correctness of the whole machine.
THEOREM TypeCorrect == Spec => []TypeOK
<1>1. IInv => TypeOK
  BY DEF IInv
<1> QED
  BY <1>1, InvariantHolds, PTL
=============================================================================
