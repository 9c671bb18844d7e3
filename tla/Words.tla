------------------------------- MODULE Words -------------------------------
(***************************************************************************)
(* Machine words.  vm.cpp keeps every register in a uint32_t and computes  *)
(* flags from the top bit of operands and result.  The width is a          *)
(* parameter: WordBits = 32 is the program, a small width is what TLC can  *)
(* enumerate, and the theorems hold for every width.                       *)
(***************************************************************************)
EXTENDS Integers

CONSTANTS
  WordBits,         \* 32 in the program
  FieldBits,        \* 24: width of a branch offset and of an SWI comment
  BitAnd(_, _),     \* the host's &, | and ^ on uint32_t
  BitOr(_, _),
  BitXor(_, _)

SignBit == 2^(WordBits - 1)      \* 0x80000000
Modulus == 2 * SignBit           \* 2^32
Word == 0 .. Modulus - 1

\* What uint32_t arithmetic keeps of an integer.
Wrap(i) == i % Modulus

\* The last conjunct is a fact about powers of two that the proofs use.
ASSUME WidthAssumption ==
  /\ WordBits \in Nat \ {0}
  /\ FieldBits \in 1 .. WordBits
  /\ \A n \in 0 .. WordBits : 2^n \in Nat \ {0} /\ 2^n <= Modulus

\* Another one: the prover does not unfold the definition of powers.
ASSUME PowerAssumption == \A n \in 1 .. WordBits : 2^n = 2 * 2^(n - 1)

ASSUME BitwiseAssumption ==
  \A a, b \in Word : /\ BitAnd(a, b) \in Word
                     /\ BitOr(a, b) \in Word
                     /\ BitXor(a, b) \in Word

BitNot(a) == Modulus - 1 - a
Bit(a, k) == (a \div 2^k) % 2
FlagOf(holds) == IF holds THEN 1 ELSE 0
ShiftLeft(a, n) == Wrap(a * 2^n)
ShiftRight(a, n) == a \div 2^n

-----------------------------------------------------------------------------
(* Bytes: a word is four of them, least significant first.                 *)

ByteBits == WordBits \div 4
ByteModulus == 2^ByteBits
Byte == 0 .. ByteModulus - 1

HalfBits == 2 * ByteBits
HalfModulus == 2^HalfBits

ByteOf(w, k) == ShiftRight(w, k * ByteBits) % ByteModulus

Bytes(address, n) == address .. address + n - 1

\* The word at an address of a memory, and a memory after a store of n bytes.
WordIn(memory, a) == Wrap(  memory[a]
                          + ShiftLeft(memory[a + 1], ByteBits)
                          + ShiftLeft(memory[a + 2], 2 * ByteBits)
                          + ShiftLeft(memory[a + 3], 3 * ByteBits))

AfterStore(memory, a, n, w) ==
  [b \in DOMAIN memory |-> IF b \in Bytes(a, n) THEN ByteOf(w, b - a) ELSE memory[b]]

-----------------------------------------------------------------------------
(* The sign tests and the flag functions of the ALU.                       *)

NEG(a) == a >= SignBit
POS(a) == ~NEG(a)

isOverflowAdd(op1, op2, result) ==
  \/ NEG(op1) /\ NEG(op2) /\ POS(result)
  \/ POS(op1) /\ POS(op2) /\ NEG(result)

isOverflowSub(op1, op2, result) ==
  \/ NEG(op1) /\ POS(op2) /\ POS(result)
  \/ POS(op1) /\ NEG(op2) /\ NEG(result)

carryOfSigns(op1, op2, result) ==      \* without the carry a positive op1 can give
  \/ NEG(op1) /\ NEG(op2)
  \/ NEG(op1) /\ POS(result)

isCarryFromALUAdd(op1, op2, result) ==
  \/ NEG(op1) /\ NEG(op2)
  \/ NEG(op1) /\ POS(result)
  \/ NEG(op2) /\ POS(result)

borrowFromALUSub(op1, op2, result) ==  \* the borrow, which ARM keeps inverted
  \/ POS(op1) /\ NEG(op2)
  \/ POS(op1) /\ NEG(result)
  \/ NEG(op2) /\ NEG(result)

isCarryFromALUSub(op1, op2, result) ==
  \/ NEG(op1) /\ POS(op2)
  \/ NEG(op1) /\ POS(result)
  \/ POS(op2) /\ POS(result)

-----------------------------------------------------------------------------
(* getSigned24 and its like: the sign is bit 23, 15 or 7, whatever the bits *)
(* above it hold.                                                          *)

FieldModulus == 2^FieldBits
FieldSign == 2^(FieldBits - 1)
Field == 0 .. FieldModulus - 1

getUnsigned24(i) == i % FieldModulus   \* no sign extension

\* The low n bits of a word, with their top bit repeated above them.
SignExtended(i, n) ==
  LET low == i % 2^n
  IN  IF low >= 2^(n - 1) THEN low + Modulus - 2^n ELSE low

getSigned24(i) == SignExtended(i, FieldBits)
getSigned16(i) == SignExtended(i, HalfBits)
getSigned8(i) == SignExtended(i, ByteBits)
=============================================================================
