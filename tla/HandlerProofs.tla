--------------------------- MODULE HandlerProofs ---------------------------
(***************************************************************************)
(* The handlers, at every width of the word and of the branch field, for   *)
(* every program, register list and size of the memory:                    *)
(*   - the promises of AluContract about flags, comparisons and shifts, of *)
(*     MultiplyContract about the long multiplications and of Vm about the *)
(*     target of a branch;                                                 *)
(*   - what LDR, STR and STRH do to memory: when they take the host        *)
(*     outside the buffer, and which bytes a halfword store changes;       *)
(*   - that blockDataTransferEval() implements MultipleTransfer.           *)
(***************************************************************************)
EXTENDS AluContract, MultiplyContract, TransferContract, BlockContract,
        VmProofs, FiniteSetTheorems

-----------------------------------------------------------------------------
(* Words as integers.                                                      *)

\* Wrapping an integer less than a modulus away from the words.
LEMMA WrapNear ==
  ASSUME NEW x \in Int, x >= -Modulus, x < 2 * Modulus
  PROVE  Wrap(x) = IF x < 0 THEN x + Modulus ELSE IF x >= Modulus THEN x - Modulus ELSE x
BY ModulusFacts DEF Wrap

(***************************************************************************)
(* The carry out of an addition, and its signed overflow, can be told from *)
(* the signs of the operands and of the result, with or without carry in.  *)
(***************************************************************************)
THEOREM AddFlags ==
  ASSUME NEW x \in Word, NEW y \in Word, NEW carry \in {0, 1}
  PROVE  LET sum == Wrap(x + y + carry)
         IN  /\ isCarryFromALUAdd(x, y, sum) <=> x + y + carry >= Modulus
             /\ isOverflowAdd(x, y, sum) <=> ~FitsSigned(Signed(x) + Signed(y) + carry)
<1>1. /\ x \in Int /\ x >= 0 /\ x < Modulus
      /\ y \in Int /\ y >= 0 /\ y < Modulus
      /\ carry \in Int /\ carry >= 0 /\ carry <= 1
      /\ SignBit \in Int /\ Modulus = 2 * SignBit /\ SignBit > 0
  BY ModulusFacts DEF Word
<1> DEFINE sum == Wrap(x + y + carry)
<1>2. sum = IF x + y + carry >= Modulus THEN x + y + carry - Modulus ELSE x + y + carry
  BY <1>1, WrapNear
<1> HIDE DEF sum
<1>3. isCarryFromALUAdd(x, y, sum) <=> x + y + carry >= Modulus
  BY <1>1, <1>2 DEF isCarryFromALUAdd, NEG, POS
<1>4. isOverflowAdd(x, y, sum) <=> ~FitsSigned(Signed(x) + Signed(y) + carry)
  BY <1>1, <1>2 DEF isOverflowAdd, NEG, POS, FitsSigned, Signed
<1> QED
  BY <1>3, <1>4 DEF sum

(***************************************************************************)
(* The same of a subtraction: the carry is set when nothing is borrowed.   *)
(***************************************************************************)
THEOREM SubFlags ==
  ASSUME NEW x \in Word, NEW y \in Word, NEW borrow \in {0, 1}
  PROVE  LET difference == Wrap(x - y - borrow)
         IN  /\ isCarryFromALUSub(x, y, difference) <=> x - y - borrow >= 0
             /\ isOverflowSub(x, y, difference) <=> ~FitsSigned(Signed(x) - Signed(y) - borrow)
<1>1. /\ x \in Int /\ x >= 0 /\ x < Modulus
      /\ y \in Int /\ y >= 0 /\ y < Modulus
      /\ borrow \in Int /\ borrow >= 0 /\ borrow <= 1
      /\ SignBit \in Int /\ Modulus = 2 * SignBit /\ SignBit > 0
  BY ModulusFacts DEF Word
<1> DEFINE difference == Wrap(x - y - borrow)
<1>2. difference = IF x - y - borrow < 0 THEN x - y - borrow + Modulus ELSE x - y - borrow
  BY <1>1, WrapNear
<1> HIDE DEF difference
<1>3. isCarryFromALUSub(x, y, difference) <=> x - y - borrow >= 0
  BY <1>1, <1>2 DEF isCarryFromALUSub, NEG, POS
<1>4. isOverflowSub(x, y, difference) <=> ~FitsSigned(Signed(x) - Signed(y) - borrow)
  BY <1>1, <1>2 DEF isOverflowSub, NEG, POS, FitsSigned, Signed
<1> QED
  BY <1>3, <1>4 DEF difference

-----------------------------------------------------------------------------
(* The handler.                                                            *)

\* Where the host decides the carry of a rotation it does not decide its value.
LEMMA OneValue ==
  ASSUME NEW operand2,
         NEW s1 \in Operand2(operand2), NEW s2 \in Operand2(operand2),
         operand2 \in ShiftedByValue \cup ShiftedByRegister \cup RotatedImmediate
  PROVE  s1.value = s2.value
<1>1. ASSUME NEW a, NEW n, NEW byRegister,
             NEW r1 \in RotateRight(a, n, byRegister), NEW r2 \in RotateRight(a, n, byRegister)
      PROVE  r1.value = r2.value
  <2>1. ASSUME NEW x, NEW carry
        PROVE  Shifted(x, carry).value = Wrap(x)
    BY DEF Shifted
  <2> QED
    BY <1>1, <2>1 DEF RotateRight
<1>2. CASE operand2 \in RotatedImmediate
  BY <1>2 DEF Operand2, RotatedImmediate
<1>3. CASE operand2 \in ShiftedByValue \cup ShiftedByRegister
  <2>1. operand2.kind # "immediate" /\ operand2.type \in ShiftType
    BY <1>3 DEF ShiftedByValue, ShiftedByRegister
  <2> QED
    BY <1>1, <2>1 DEF Operand2, shift, ShiftType
<1> QED
  BY <1>2, <1>3

\* Which flag functions an opcode uses.
LEMMA FlagFunctions ==
  ASSUME NEW opcode, NEW x, NEW y, NEW value, NEW fromShifter
  PROVE  /\ opcode \in Additions =>
              /\ CarryFlag(opcode, x, y, value, fromShifter) = FlagOf(isCarryFromALUAdd(x, y, value))
              /\ OverflowFlag(opcode, x, y, value) = FlagOf(isOverflowAdd(x, y, value))
         /\ opcode \in Forward =>
              /\ CarryFlag(opcode, x, y, value, fromShifter) = FlagOf(isCarryFromALUSub(x, y, value))
              /\ OverflowFlag(opcode, x, y, value) = FlagOf(isOverflowSub(x, y, value))
              /\ opcode \notin Additions
         /\ opcode \in Reversed =>
              /\ CarryFlag(opcode, x, y, value, fromShifter) = FlagOf(isCarryFromALUSub(y, x, value))
              /\ OverflowFlag(opcode, x, y, value) = FlagOf(isOverflowSub(y, x, value))
              /\ opcode \notin Additions
BY DEF CarryFlag, OverflowFlag, Logical, Additions, Reversed, Forward

\* The flags one arithmetic opcode leaves.
LEMMA OpcodeFlags ==
  ASSUME NEW opcode \in Additions \cup Subtractions, NEW rn,
         NEW x \in Word, NEW y \in Word, NEW fromShifter, cpsr \in Flags,
         cpsr' = [n |-> FlagOf(NEG(Result(opcode, rn, x, y))),
                  z |-> FlagOf(Result(opcode, rn, x, y) = 0),
                  c |-> CarryFlag(opcode, x, y, Result(opcode, rn, x, y), fromShifter),
                  v |-> OverflowFlag(opcode, x, y, Result(opcode, rn, x, y))]
  PROVE  FlagsDescribe(opcode, x, y)
<1>1. /\ x \in Int /\ y \in Int /\ Signed(x) \in Int /\ Signed(y) \in Int
      /\ cpsr.c \in {0, 1} /\ 1 - cpsr.c \in {0, 1} /\ cpsr.c \in Int
  BY WordRange, ModulusFacts DEF Signed, Flags, Flag
<1> DEFINE value == Result(opcode, rn, x, y)
           exact == Exact(opcode, x, y, Unsigned)
           exactSigned == Exact(opcode, x, y, Signed)
<1>2. /\ value = Wrap(exact)
      /\ CarryFlag(opcode, x, y, value, fromShifter)
           = FlagOf(IF opcode \in Additions THEN exact >= Modulus ELSE exact >= 0)
      /\ OverflowFlag(opcode, x, y, value) = FlagOf(~FitsSigned(exactSigned))
  <2>1. CASE opcode \in {"ADD", "CMN"}
    <3>1. value = Wrap(x + y) /\ exact = x + y /\ exactSigned = Signed(x) + Signed(y)
      BY <2>1 DEF Result, Exact, Unsigned
    <3>2. /\ x + y + 0 = x + y /\ Signed(x) + Signed(y) + 0 = Signed(x) + Signed(y)
      BY <1>1
    <3>3. /\ isCarryFromALUAdd(x, y, value) <=> exact >= Modulus
          /\ isOverflowAdd(x, y, value) <=> ~FitsSigned(exactSigned)
      BY <3>1, <3>2, AddFlags
    <3> QED
      BY <2>1, <3>1, <3>3, FlagFunctions DEF FlagOf, Additions, Forward, Reversed
  <2>2. CASE opcode = "ADC"
    <3>1. /\ value = Wrap(x + y + cpsr.c) /\ exact = x + y + cpsr.c
          /\ exactSigned = Signed(x) + Signed(y) + cpsr.c
      BY <2>2 DEF Result, Exact, Unsigned
    <3>2. /\ isCarryFromALUAdd(x, y, value) <=> exact >= Modulus
          /\ isOverflowAdd(x, y, value) <=> ~FitsSigned(exactSigned)
      BY <1>1, <3>1, AddFlags
    <3> QED
      BY <2>2, <3>1, <3>2, FlagFunctions DEF FlagOf, Additions, Forward, Reversed
  <2>3. CASE opcode \in {"SUB", "CMP"}
    <3>1. value = Wrap(x - y) /\ exact = x - y /\ exactSigned = Signed(x) - Signed(y)
      BY <2>3 DEF Result, Exact, Unsigned
    <3>2. /\ x - y - 0 = x - y /\ Signed(x) - Signed(y) - 0 = Signed(x) - Signed(y)
      BY <1>1
    <3>3. /\ isCarryFromALUSub(x, y, value) <=> exact >= 0
          /\ isOverflowSub(x, y, value) <=> ~FitsSigned(exactSigned)
      BY <3>1, <3>2, SubFlags
    <3> QED
      BY <2>3, <3>1, <3>3, FlagFunctions DEF FlagOf, Additions, Forward, Reversed
  <2>4. CASE opcode = "SBC"
    <3>1. /\ value = Wrap(x - y + cpsr.c - 1) /\ exact = x - y + cpsr.c - 1
          /\ exactSigned = Signed(x) - Signed(y) + cpsr.c - 1
      BY <2>4 DEF Result, Exact, Unsigned
    <3>2. /\ x - y + cpsr.c - 1 = x - y - (1 - cpsr.c)
          /\ Signed(x) - Signed(y) + cpsr.c - 1 = Signed(x) - Signed(y) - (1 - cpsr.c)
      BY <1>1
    <3>3. /\ isCarryFromALUSub(x, y, value) <=> exact >= 0
          /\ isOverflowSub(x, y, value) <=> ~FitsSigned(exactSigned)
      BY <1>1, <3>1, <3>2, SubFlags
    <3> QED
      BY <2>4, <3>1, <3>3, FlagFunctions DEF FlagOf, Additions, Forward, Reversed
  <2>5. CASE opcode = "RSB"
    <3>1. value = Wrap(y - x) /\ exact = y - x /\ exactSigned = Signed(y) - Signed(x)
      BY <2>5 DEF Result, Exact, Unsigned
    <3>2. /\ y - x - 0 = y - x /\ Signed(y) - Signed(x) - 0 = Signed(y) - Signed(x)
      BY <1>1
    <3>3. /\ isCarryFromALUSub(y, x, value) <=> exact >= 0
          /\ isOverflowSub(y, x, value) <=> ~FitsSigned(exactSigned)
      BY <3>1, <3>2, SubFlags
    <3> QED
      BY <2>5, <3>1, <3>3, FlagFunctions DEF FlagOf, Additions, Forward, Reversed
  <2>6. CASE opcode = "RSC"
    <3>1. /\ value = Wrap(y - x + cpsr.c - 1) /\ exact = y - x + cpsr.c - 1
          /\ exactSigned = Signed(y) - Signed(x) + cpsr.c - 1
      BY <2>6 DEF Result, Exact, Unsigned
    <3>2. /\ y - x + cpsr.c - 1 = y - x - (1 - cpsr.c)
          /\ Signed(y) - Signed(x) + cpsr.c - 1 = Signed(y) - Signed(x) - (1 - cpsr.c)
      BY <1>1
    <3>3. /\ isCarryFromALUSub(y, x, value) <=> exact >= 0
          /\ isOverflowSub(y, x, value) <=> ~FitsSigned(exactSigned)
      BY <1>1, <3>1, <3>2, SubFlags
    <3> QED
      BY <2>6, <3>1, <3>3, FlagFunctions DEF FlagOf, Additions, Forward, Reversed
  <2> QED
    BY <2>1, <2>2, <2>3, <2>4, <2>5, <2>6 DEF Additions, Subtractions, Forward, Reversed
<1>3. /\ cpsr'.n = FlagOf(NEG(value)) /\ cpsr'.z = FlagOf(value = 0)
      /\ cpsr'.c = CarryFlag(opcode, x, y, value, fromShifter)
      /\ cpsr'.v = OverflowFlag(opcode, x, y, value)
  OBVIOUS
<1> HIDE DEF value
<1> QED
  BY <1>2, <1>3 DEF FlagsDescribe, NEG

\* The flags every arithmetic instruction with the S bit leaves.
LEMMA HandlerFlags ==
  ASSUME IInv, Next, Executing("data_processing"), instruction.s,
         instruction.opcode \in Additions \cup Subtractions,
         NEW shifted \in Operand2(instruction.operand2)
  PROVE  /\ FlagsDescribe(instruction.opcode, Operand1(instruction.rn), shifted.value)
         /\ Operand1(instruction.rn) \in Word /\ shifted.value \in Word
<1>1. dataProcessingEval /\ Machine
  BY OnlyTheHandler, Parts
<1>2. instruction \in DataProcessingInstruction
  BY <1>1, FormatType DEF Executing, Machine
<1> DEFINE opcode == instruction.opcode
           rn == instruction.rn
           op1 == Operand1(rn)
<1>3. PICK picked \in Operand2(instruction.operand2) :
        LET op2 == picked.value
            value == Result(opcode, rn, op1, op2)
        IN  cpsr' = IF ~instruction.s THEN cpsr
                    ELSE [n |-> FlagOf(NEG(value)),
                          z |-> FlagOf(value = 0),
                          c |-> CarryFlag(opcode, op1, op2, value, picked.carry),
                          v |-> OverflowFlag(opcode, op1, op2, value)]
  BY <1>1 DEF dataProcessingEval
<1>4. /\ rn \in Register
      /\ instruction.operand2 \in ShiftedByValue \cup ShiftedByRegister \cup RotatedImmediate
  BY <1>2 DEF DataProcessingInstruction
<1>5. Operand2(instruction.operand2) \subseteq ShiftResult
  BY <1>1, <1>4, Operand2Type DEF Machine
<1>6. op1 \in Word /\ shifted.value \in Word
  BY <1>1, <1>4, <1>5, Operand1Type DEF ShiftResult, Machine
<1>7. picked.value = shifted.value
  BY <1>3, <1>4, OneValue
<1>8. cpsr' = [n |-> FlagOf(NEG(Result(opcode, rn, op1, shifted.value))),
               z |-> FlagOf(Result(opcode, rn, op1, shifted.value) = 0),
               c |-> CarryFlag(opcode, op1, shifted.value,
                               Result(opcode, rn, op1, shifted.value), picked.carry),
               v |-> OverflowFlag(opcode, op1, shifted.value,
                                  Result(opcode, rn, op1, shifted.value))]
  BY <1>3, <1>7
<1>9. cpsr \in Flags
  BY <1>1 DEF Machine
<1> HIDE DEF op1
<1>10. FlagsDescribe(opcode, op1, shifted.value)
  BY <1>6, <1>8, <1>9, OpcodeFlags
<1> QED
  BY <1>6, <1>10 DEF op1

(***************************************************************************)
(* The flags of ADD, ADC, SUB, SBC, RSB, RSC, CMP and CMN, which the code  *)
(* computes from three sign bits, describe the exact result whatever the   *)
(* width of a word.                                                        *)
(***************************************************************************)
THEOREM FlagsAreExact == Spec => FlagsDescribeExactResult
<1> DEFINE Step ==
      /\ Executing("data_processing") /\ instruction.s
      /\ instruction.opcode \in Additions \cup Subtractions
      => \A shifted \in Operand2(instruction.operand2) :
           FlagsDescribe(instruction.opcode, Operand1(instruction.rn), shifted.value)
<1>1. IInv /\ [Next]_vars => [Step]_vars
  BY HandlerFlags
<1> QED
  BY <1>1, InvariantHolds, PTL DEF Spec, FlagsDescribeExactResult

\* Flags that describe a difference decide every relation of its operands.
LEMMA FlagsDecide ==
  ASSUME NEW x \in Word, NEW y \in Word, FlagsDescribe("CMP", x, y),
         NEW condition \in Condition \ {"NV"}
  PROVE  TestCondition(condition)' <=> Relation(condition, x, y)
<1>1. /\ x \in Int /\ x >= 0 /\ x < Modulus
      /\ y \in Int /\ y >= 0 /\ y < Modulus
      /\ SignBit \in Int /\ Modulus = 2 * SignBit /\ SignBit > 0
  BY ModulusFacts DEF Word
<1>2. Wrap(x - y) = IF x - y < 0 THEN x - y + Modulus ELSE x - y
  BY <1>1, WrapNear
<1>3. /\ cpsr'.n = FlagOf(Wrap(x - y) >= SignBit)
      /\ cpsr'.z = FlagOf(Wrap(x - y) = 0)
      /\ cpsr'.c = FlagOf(x - y >= 0)
      /\ cpsr'.v = FlagOf(~FitsSigned(Signed(x) - Signed(y)))
  BY DEF FlagsDescribe, Exact, Unsigned, Additions
<1>4. /\ cpsr'.z = 1 <=> x = y
      /\ cpsr'.c = 1 <=> x >= y
      /\ cpsr'.n = 1 <=> Wrap(x - y) >= SignBit
      /\ cpsr'.v = 1 <=> ~FitsSigned(Signed(x) - Signed(y))
  BY <1>1, <1>2, <1>3 DEF FlagOf
<1>5. cpsr'.n = cpsr'.v <=> Signed(x) >= Signed(y)
  BY <1>1, <1>2, <1>3 DEF FlagOf, FitsSigned, Signed
<1>6. /\ cpsr'.z = 0 <=> x # y
      /\ cpsr'.c = 0 <=> x < y
      /\ cpsr'.n = 0 <=> Wrap(x - y) < SignBit
      /\ cpsr'.v = 0 <=> FitsSigned(Signed(x) - Signed(y))
  BY <1>1, <1>2, <1>3 DEF FlagOf
<1>7. /\ x >= y /\ x # y <=> x > y
      /\ x = y \/ x < y <=> x <= y
      /\ Signed(x) >= Signed(y) /\ x # y <=> Signed(x) > Signed(y)
      /\ ~(Signed(x) >= Signed(y)) <=> Signed(x) < Signed(y)
      /\ x = y \/ ~(Signed(x) >= Signed(y)) <=> Signed(x) <= Signed(y)
  BY <1>1 DEF Signed
<1> QED
  BY <1>4, <1>5, <1>6, <1>7 DEF TestCondition, Relation, Condition

(***************************************************************************)
(* After CMP each of the fourteen conditions, and AL, answers the relation *)
(* of the two operands it is named for, signed and unsigned.               *)
(***************************************************************************)
THEOREM CompareIsExact == Spec => CompareDecidesConditions
<1> DEFINE Step ==
      Executing("data_processing") /\ instruction.opcode = "CMP" /\ instruction.s =>
        \A shifted \in Operand2(instruction.operand2) :
          \A condition \in Condition \ {"NV"} :
            TestCondition(condition)'
              <=> Relation(condition, Operand1(instruction.rn), shifted.value)
<1>1. IInv /\ [Next]_vars => [Step]_vars
  <2> SUFFICES ASSUME IInv, Next, Executing("data_processing"),
                      instruction.opcode = "CMP", instruction.s,
                      NEW shifted \in Operand2(instruction.operand2),
                      NEW condition \in Condition \ {"NV"}
               PROVE  TestCondition(condition)'
                        <=> Relation(condition, Operand1(instruction.rn), shifted.value)
    OBVIOUS
  <2>1. instruction.opcode \in Additions \cup Subtractions
    BY DEF Subtractions, Forward
  <2>2. /\ FlagsDescribe(instruction.opcode, Operand1(instruction.rn), shifted.value)
        /\ Operand1(instruction.rn) \in Word /\ shifted.value \in Word
    BY <2>1, HandlerFlags
  <2>3. FlagsDescribe("CMP", Operand1(instruction.rn), shifted.value)
    BY <2>2
  <2> QED
    BY <2>2, <2>3, FlagsDecide
<1> QED
  BY <1>1, InvariantHolds, PTL DEF Spec, CompareDecidesConditions

-----------------------------------------------------------------------------
(* Integers.                                                               *)

\* A product of numbers of a bounded size is bounded by the product of the
\* bounds.
LEMMA ProductBound ==
  ASSUME NEW s \in Nat, NEW x \in -s .. s, NEW y \in -s .. s
  PROVE  x * y \in -(s * s) .. s * s
<1>1. ASSUME NEW a \in 0 .. s, NEW b \in 0 .. s
      PROVE  a * b \in 0 .. s * s
  <2>1. a * b >= 0 /\ a * b \in Int
    BY SMTT(20)
  <2>2. a * b <= s * b
    BY SMTT(20)
  <2>3. s * b <= s * s
    BY SMTT(20)
  <2> QED
    BY <2>1, <2>2, <2>3
<1>2. CASE x >= 0 /\ y >= 0
  BY <1>1, <1>2
<1>3. CASE x >= 0 /\ y < 0
  <2>1. x * (-y) \in 0 .. s * s
    BY <1>1, <1>3
  <2>2. x * y = -(x * (-y))
    OBVIOUS
  <2> QED
    BY <2>1, <2>2
<1>4. CASE x < 0 /\ y >= 0
  <2>1. (-x) * y \in 0 .. s * s
    BY <1>1, <1>4
  <2>2. x * y = -((-x) * y)
    OBVIOUS
  <2> QED
    BY <2>1, <2>2
<1>5. CASE x < 0 /\ y < 0
  <2>1. (-x) * (-y) \in 0 .. s * s
    BY <1>1, <1>5
  <2>2. x * y = (-x) * (-y)
    OBVIOUS
  <2> QED
    BY <2>1, <2>2
<1> QED
  BY <1>2, <1>3, <1>4, <1>5

\* The words of a number, high and low, read as a signed number of twice the
\* width: the number, or the number less 2^64 when its high word is negative.
LEMMA SignedWords ==
  ASSUME NEW hi \in Word, NEW lo \in Word, NEW n, n = Modulus * hi + lo
  PROVE  Modulus * Signed(hi) + lo = IF NEG(hi) THEN n - DoubleModulus ELSE n
<1>1. hi \in Int /\ lo \in Int /\ Modulus \in Int
  BY ModulusFacts, WordRange
<1>2. Modulus * (hi - Modulus) = Modulus * hi - Modulus * Modulus
  BY <1>1
<1> QED
  BY <1>1, <1>2 DEF Signed, NEG, DoubleModulus

\* The high word is negative exactly when the number is in the upper half.
LEMMA HighSign ==
  ASSUME NEW hi \in Word, NEW lo \in Word
  PROVE  NEG(hi) <=> Modulus * hi + lo >= 2 * SignBit * SignBit
<1>1. /\ hi \in Int /\ lo \in Int /\ 0 <= lo /\ lo < Modulus
      /\ SignBit \in Nat /\ Modulus = 2 * SignBit
  BY ModulusFacts DEF Word
<1>2. ASSUME hi >= SignBit
      PROVE  Modulus * hi + lo >= 2 * SignBit * SignBit
  <2>1. Modulus * hi >= Modulus * SignBit
    BY <1>1, <1>2, SMTT(20)
  <2> QED
    BY <1>1, <2>1
<1>3. ASSUME hi < SignBit
      PROVE  Modulus * hi + lo < 2 * SignBit * SignBit
  <2>1. Modulus * (hi + 1) <= Modulus * SignBit
    BY <1>1, <1>3, SMTT(20)
  <2>2. Modulus * (hi + 1) = Modulus * hi + Modulus
    BY <1>1
  <2> QED
    BY <1>1, <2>1, <2>2
<1> QED
  BY <1>1, <1>2, <1>3 DEF NEG

\* A number that fits twice the width, taken modulo it and read back signed.
LEMMA SignedReadBack ==
  ASSUME NEW x \in -(SignBit * SignBit) .. SignBit * SignBit,
         NEW hi \in Word, NEW lo \in Word,
         Modulus * hi + lo = x % DoubleModulus
  PROVE  Modulus * Signed(hi) + lo = x
<1> DEFINE q == SignBit * SignBit
<1>1. /\ q \in Nat \ {0} /\ DoubleModulus = 4 * q
      /\ 2 * SignBit * SignBit = 2 * q
  BY ModulusFacts, SMTT(20) DEF DoubleModulus
<1>2. x \in -q .. q
  OBVIOUS
<1> HIDE DEF q
<1> DEFINE n == Modulus * hi + lo
<1>3. /\ n = x % DoubleModulus
      /\ NEG(hi) <=> n >= 2 * q
      /\ Modulus * Signed(hi) + lo = IF NEG(hi) THEN n - DoubleModulus ELSE n
  <2>1. n = x % DoubleModulus
    OBVIOUS
  <2>2. NEG(hi) <=> n >= 2 * q
    <3>1. NEG(hi) <=> n >= 2 * SignBit * SignBit
      BY HighSign
    <3> QED
      BY <1>1, <3>1
  <2>3. Modulus * Signed(hi) + lo = IF NEG(hi) THEN n - DoubleModulus ELSE n
    BY SignedWords
  <2> QED
    BY <2>1, <2>2, <2>3
<1> HIDE DEF n
<1>4. CASE x >= 0
  <2>1. x % DoubleModulus = x
    BY <1>1, <1>2, <1>4
  <2>2. ~NEG(hi)
    BY <1>3, <1>1, <1>2, <2>1
  <2> QED
    BY <1>3, <2>1, <2>2
<1>5. CASE x < 0
  <2>1. x % DoubleModulus = x + DoubleModulus
    BY <1>1, <1>2, <1>5
  <2>2. NEG(hi)
    BY <1>3, <1>1, <1>2, <2>1
  <2>3. x + DoubleModulus - DoubleModulus = x
    BY <1>1, <1>2
  <2> QED
    BY <1>3, <1>1, <1>2, <2>1, <2>2, <2>3
<1> QED
  BY <1>2, <1>4, <1>5

-----------------------------------------------------------------------------
(* The handler.                                                            *)

\* What multiplyLongEval() computes, one instruction at a time.
LEMMA LongResults ==
  ASSUME NEW t \in MultiplyLongInstruction, registers \in [Register -> Word]
  PROVE  LET product == registers[t.rm] * registers[t.rs]
             signed == Signed(registers[t.rm]) * Signed(registers[t.rs])
             before == Modulus * registers[t.rdhi] + registers[t.rdlo]
         IN  /\ ~t.u /\ ~t.a => LongResult(t) = product
             /\ ~t.u /\ t.a => LongResult(t) = (before + product) % DoubleModulus
             /\ t.u /\ ~t.a => /\ LongResult(t) = signed % DoubleModulus
                               /\ signed \in -(SignBit * SignBit) .. SignBit * SignBit
<1> DEFINE x == registers[t.rm]
           y == registers[t.rs]
<1>1. /\ x \in Word /\ y \in Word /\ t.u \in BOOLEAN /\ t.a \in BOOLEAN
      /\ x \in 0 .. Modulus - 1 /\ y \in 0 .. Modulus - 1
  BY DEF MultiplyLongInstruction, Word
<1>2. ASSUME ~t.u, ~t.a
      PROVE  LongResult(t) = x * y
  <2>1. x * y \in 0 .. DoubleModulus - 1
    <3>1. x * y >= 0 /\ x * y \in Int
      BY <1>1, ModulusFacts, SMTT(20)
    <3>2. x * y <= (Modulus - 1) * (Modulus - 1)
      <4>1. x \in -(Modulus - 1) .. Modulus - 1 /\ y \in -(Modulus - 1) .. Modulus - 1
            /\ Modulus - 1 \in Nat
        BY <1>1, ModulusFacts
      <4>2. x * y \in -((Modulus - 1) * (Modulus - 1)) .. (Modulus - 1) * (Modulus - 1)
        BY <4>1, ProductBound
      <4> QED
        BY <4>2, ModulusFacts
    <3>3. (Modulus - 1) * (Modulus - 1) < Modulus * Modulus
      BY ModulusFacts, SMTT(20)
    <3> QED
      BY <3>1, <3>2, <3>3, ModulusFacts DEF DoubleModulus
  <2>2. LongResult(t) = (0 + x * y) % DoubleModulus
    BY <1>2 DEF LongResult, Accumulator, LongProduct, Factor
  <2>3. DoubleModulus \in Nat \ {0}
    BY ModulusFacts DEF DoubleModulus
  <2> HIDE DEF x, y
  <2> QED
    BY <2>1, <2>2, <2>3
<1>3. ASSUME ~t.u, t.a
      PROVE  LongResult(t)
               = (Modulus * registers[t.rdhi] + registers[t.rdlo] + x * y) % DoubleModulus
  BY <1>3 DEF LongResult, Accumulator, LongProduct, Factor
<1>4. Signed(x) = signedCastTo64(x) /\ Signed(y) = signedCastTo64(y)
  BY DEF Signed, signedCastTo64, NEG
<1>5. ASSUME t.u, ~t.a
      PROVE  LongResult(t) = (Signed(x) * Signed(y)) % DoubleModulus
  <2>1. LongResult(t) = (0 + Signed(x) * Signed(y)) % DoubleModulus
    BY <1>4, <1>5 DEF LongResult, Accumulator, LongProduct, Factor
  <2>2. Signed(x) * Signed(y) \in Int
    <3>1. Signed(x) \in Int /\ Signed(y) \in Int
      BY <1>1, ModulusFacts DEF Signed
    <3> QED
      BY <3>1
  <2> QED
    BY <2>1, <2>2
<1>6. Signed(x) * Signed(y) \in -(SignBit * SignBit) .. SignBit * SignBit
  <2>1. Signed(x) \in -SignBit .. SignBit /\ Signed(y) \in -SignBit .. SignBit
    BY <1>1, ModulusFacts DEF Signed
  <2> QED
    BY <2>1, ProductBound, ModulusFacts
<1> QED
  BY <1>2, <1>3, <1>5, <1>6

(***************************************************************************)
(* UMULL, UMLAL and SMULL leave in two registers what the integers give,   *)
(* at every width and for every choice of registers, and the S bit sets N  *)
(* from its sign and Z when it is zero.                                    *)
(***************************************************************************)
THEOREM LongMultiplyIsExact == Spec => LongProductExact
<1> DEFINE t == instruction
           Claim ==
             LongMultiply =>
               /\ ~t.u /\ ~t.a => Pair(registers', t.rdhi, t.rdlo) = UnsignedFactors
               /\ ~t.u /\ t.a =>
                    Pair(registers', t.rdhi, t.rdlo)
                      = (Pair(registers, t.rdhi, t.rdlo) + UnsignedFactors) % DoubleModulus
               /\ t.u /\ ~t.a => SignedPair(registers', t.rdhi, t.rdlo) = SignedFactors
               /\ SetsFlags => (cpsr'.n = 1 <=> SignedPair(registers', t.rdhi, t.rdlo) < 0)
               /\ SetsFlags /\ Pair(registers', t.rdhi, t.rdlo) = 0 => cpsr'.z = 1
<1>1. IInv /\ [Next]_vars => [Claim]_vars
  <2> SUFFICES ASSUME IInv, Next, LongMultiply PROVE Claim
    OBVIOUS
  <2>1. multiplyLongEval /\ Machine
    BY OnlyTheHandler, Parts DEF LongMultiply
  <2>2. t \in MultiplyLongInstruction /\ registers \in [Register -> Word]
    BY <2>1, FormatType DEF LongMultiply, Executing, Machine
  <2>3. t.rdhi \in Register /\ t.rdlo \in Register /\ t.rdhi # t.rdlo
    BY <2>2 DEF LongMultiply, MultiplyLongInstruction
  <2> DEFINE hi == LongResult(t) \div Modulus
             lo == LongResult(t) % Modulus
  <2>4. hi \in Word /\ lo \in Word /\ Modulus * hi + lo = LongResult(t)
    BY <2>2, LongResultType
  <2>5. registers'[t.rdhi] = hi /\ registers'[t.rdlo] = lo
    BY <2>1, <2>2, <2>3 DEF multiplyLongEval
  <2> HIDE DEF hi, lo
  <2>6. /\ Pair(registers', t.rdhi, t.rdlo) = LongResult(t)
        /\ SignedPair(registers', t.rdhi, t.rdlo) = Modulus * Signed(hi) + lo
    BY <2>4, <2>5 DEF Pair, SignedPair
  <2>7. /\ ~t.u /\ ~t.a => LongResult(t) = UnsignedFactors
        /\ ~t.u /\ t.a =>
             LongResult(t) = (Pair(registers, t.rdhi, t.rdlo) + UnsignedFactors) % DoubleModulus
        /\ t.u /\ ~t.a => /\ LongResult(t) = SignedFactors % DoubleModulus
                          /\ SignedFactors \in -(SignBit * SignBit) .. SignBit * SignBit
    BY <2>2, LongResults DEF UnsignedFactors, SignedFactors, Pair
  <2>8. ASSUME t.u, ~t.a
        PROVE  SignedPair(registers', t.rdhi, t.rdlo) = SignedFactors
    <3>1. Modulus * hi + lo = SignedFactors % DoubleModulus
      BY <2>4, <2>7, <2>8
    <3> QED
      BY <2>4, <2>6, <2>7, <2>8, <3>1, SignedReadBack
  <2>9. ASSUME SetsFlags
        PROVE  cpsr'.n = 1 <=> SignedPair(registers', t.rdhi, t.rdlo) < 0
    <3>1. t.s /\ t.rdhi # PC /\ t.rdlo # PC /\ cpsr \in Flags
      BY <2>1, <2>9 DEF SetsFlags, Machine
    <3>2. cpsr'.n = FlagOf(NEG(hi))
      BY <2>1, <2>5, <3>1 DEF multiplyLongEval, LongFlags, Flags
    <3>3. Modulus * Signed(hi) + lo < 0 <=> NEG(hi)
      <4>1. /\ hi \in Int /\ lo \in Int /\ 0 <= hi /\ hi < Modulus /\ 0 <= lo /\ lo < Modulus
            /\ Modulus \in Nat
        BY <2>4, ModulusFacts DEF Word
      <4>2. CASE NEG(hi)
        <5>1. Modulus * (hi - Modulus) <= Modulus * (-1)
          BY <4>1, SMTT(20)
        <5>2. Modulus * (hi - Modulus) + lo < 0 /\ Signed(hi) = hi - Modulus
          BY <4>1, <4>2, <5>1 DEF Signed, NEG
        <5> QED
          BY <4>2, <5>2
      <4>3. CASE ~NEG(hi)
        <5>1. Modulus * hi >= 0
          BY <4>1, SMTT(20)
        <5>2. Modulus * hi + lo >= 0 /\ Signed(hi) = hi /\ Modulus * hi + lo \in Int
          BY <4>1, <4>3, <5>1 DEF Signed, NEG
        <5> QED
          BY <4>3, <5>2
      <4> QED
        BY <4>2, <4>3
    <3> QED
      BY <2>6, <3>2, <3>3 DEF FlagOf
  <2>10. ASSUME SetsFlags, Pair(registers', t.rdhi, t.rdlo) = 0
         PROVE  cpsr'.z = 1
    <3>1. t.s /\ t.rdhi # PC /\ t.rdlo # PC /\ cpsr \in Flags
      BY <2>1, <2>10 DEF SetsFlags, Machine
    <3>2. cpsr'.z = FlagOf(lo = 0)
      BY <2>1, <2>5, <3>1 DEF multiplyLongEval, LongFlags, Flags
    <3>3. hi \in Int /\ lo \in Int /\ 0 <= hi /\ 0 <= lo /\ Modulus \in Nat
      BY <2>4, ModulusFacts DEF Word
    <3>4. Modulus * hi >= 0 /\ Modulus * hi \in Int
      BY <3>3, SMTT(20)
    <3>5. Modulus * hi + lo = 0
      BY <2>4, <2>6, <2>10
    <3>6. lo = 0
      BY <3>3, <3>4, <3>5
    <3> QED
      BY <3>2, <3>6 DEF FlagOf
  <2> QED
    BY <2>6, <2>7, <2>8, <2>9, <2>10
<1>2. Spec => [][Claim]_vars
  BY <1>1, InvariantHolds, PTL DEF Spec
<1> QED
  BY <1>2 DEF LongProductExact

-----------------------------------------------------------------------------
(* The target of a branch.                                                 *)


\* The modulus of the field is positive and twice its sign bit.
LEMMA FieldFacts ==
  /\ FieldSign \in Nat \ {0} /\ FieldModulus \in Nat \ {0}
  /\ FieldModulus = 2 * FieldSign
<1>1. FieldBits \in 1 .. WordBits /\ FieldBits \in 0 .. WordBits /\ FieldBits - 1 \in 0 .. WordBits
  BY WidthAssumption
<1>2. 2^FieldBits = 2 * 2^(FieldBits - 1)
  BY <1>1, PowerAssumption
<1> QED
  BY <1>1, <1>2, PowerType DEF FieldModulus, FieldSign

\* While four times the signed field stays within the field's own range,
\* extending the sign after the shift gives that distance modulo 2^32.
LEMMA NearOffset ==
  ASSUME NEW f \in Field,
         4 * SignedField(f) >= -FieldSign, 4 * SignedField(f) < FieldSign
  PROVE  \/ getSigned24(4 * f) = 4 * SignedField(f)
         \/ getSigned24(4 * f) = 4 * SignedField(f) + Modulus
<1>1. /\ f \in Int /\ 0 <= f /\ f < FieldModulus
      /\ FieldSign \in Nat \ {0} /\ FieldModulus = 2 * FieldSign /\ Modulus \in Int
  BY FieldFacts, ModulusFacts DEF Field
<1> DEFINE low == (4 * f) % FieldModulus
<1>2. getSigned24(4 * f) = IF low >= FieldSign THEN low + Modulus - FieldModulus ELSE low
  BY DEF getSigned24, SignExtended, FieldModulus, FieldSign
<1>3. CASE f >= FieldSign
  <2>1. SignedField(f) = f - FieldModulus
    BY <1>3 DEF SignedField
  <2>2. 4 * f - 3 * FieldModulus \in FieldSign .. FieldModulus - 1
    BY <1>1, <2>1
  <2>3. low = 4 * f - 3 * FieldModulus
    BY <1>1, <2>2
  <2> QED
    BY <1>1, <1>2, <2>1, <2>2, <2>3
<1>4. CASE f < FieldSign
  <2>1. SignedField(f) = f
    BY <1>1, <1>4 DEF SignedField
  <2>2. 4 * f \in 0 .. FieldSign - 1
    BY <1>1, <2>1
  <2>3. low = 4 * f
    BY <1>1, <2>2
  <2> QED
    BY <1>1, <1>2, <2>1, <2>2, <2>3
<1> QED
  BY <1>1, <1>3, <1>4

(***************************************************************************)
(* At every width a B or BL whose distance getSigned24() can represent     *)
(* goes where its offset says, and BL leaves the next address in lr.       *)
(***************************************************************************)
THEOREM NearBranchesReachTarget == Spec => NearBranchReachesTarget
<1> DEFINE distance == 4 * SignedField(instruction.offset)
           Claim ==
             Executing("branch") =>
               /\ distance >= -FieldSign /\ distance < FieldSign
                    => registers'[PC] = BranchTarget
               /\ registers'[LR] = IF instruction.l THEN registers[PC] ELSE registers[LR]
<1>1. IInv /\ [Next]_vars => [Claim]_vars
  <2> SUFFICES ASSUME IInv, Next, Executing("branch") PROVE Claim
    OBVIOUS
  <2>1. branchEval /\ Machine
    BY OnlyTheHandler, Parts
  <2>2. /\ instruction.offset \in Field
        /\ registers \in [Register -> Word] /\ PC \in Register /\ LR \in Register /\ PC # LR
    BY <2>1, FormatType DEF Executing, Machine, BranchInstruction, PC, LR, Register
  <2>3. /\ registers'[PC]
             = Wrap(registers[PC] + getSigned24(4 * instruction.offset) + 4)
        /\ registers'[LR] = IF instruction.l THEN registers[PC] ELSE registers[LR]
    BY <2>1, <2>2 DEF branchEval
  <2>4. ASSUME distance >= -FieldSign, distance < FieldSign
        PROVE  registers'[PC] = BranchTarget
    <3> DEFINE pc == registers[PC]
    <3>1. pc \in Int /\ distance \in Int
      <4>1. SignedField(instruction.offset) \in Int
        BY <2>2, FieldFacts DEF SignedField, Field
      <4>2. registers[PC] \in Int
        BY <2>2, WordRange
      <4> QED
        BY <4>1, <4>2
    <3>2. BranchTarget = Wrap(pc + 4 + distance)
      BY DEF BranchTarget
    <3>3. \/ getSigned24(4 * instruction.offset) = distance
          \/ getSigned24(4 * instruction.offset) = distance + Modulus
      BY <2>2, <2>4, NearOffset
    <3> HIDE DEF pc, distance
    <3>4. CASE getSigned24(4 * instruction.offset) = distance
      <4>1. pc + distance + 4 = pc + 4 + distance
        BY <3>1
      <4> QED
        BY <2>3, <3>2, <3>4, <4>1 DEF pc
    <3>5. CASE getSigned24(4 * instruction.offset) = distance + Modulus
      <4>1. /\ pc + (distance + Modulus) + 4 = (pc + 4 + distance) + Modulus
            /\ pc + 4 + distance \in Int
        BY <3>1, ModulusFacts
      <4>2. Wrap(pc + (distance + Modulus) + 4) = Wrap(pc + 4 + distance)
        <5>1. 1 * Modulus = Modulus
          BY ModulusFacts
        <5> QED
          BY <4>1, <5>1, WrapMultiple
      <4> QED
        BY <2>3, <3>2, <3>5, <4>2 DEF pc
    <3> QED
      BY <3>3, <3>4, <3>5
  <2> QED
    BY <2>3, <2>4
<1>2. Spec => [][Claim]_vars
  BY <1>1, InvariantHolds, PTL DEF Spec
<1> QED
  BY <1>2 DEF NearBranchReachesTarget

-----------------------------------------------------------------------------
(* The bits of a word.                                                     *)

\* A quotient is the only one with a remainder below the divisor.
LEMMA QuotientIs ==
  ASSUME NEW d \in Nat \ {0}, NEW h \in Int, NEW r \in 0 .. d - 1
  PROVE  (d * h + r) \div d = h
<1> DEFINE x == d * h + r
           q == x \div d
           s == x % d
<1>1. x \in Int
  OBVIOUS
<1> HIDE DEF x
<1>2. q \in Int /\ s \in 0 .. d - 1 /\ x = d * q + s
  BY <1>1
<1> HIDE DEF q, s
<1>3. d * (q - h) = r - s
  <2>1. d * (q - h) = d * q - d * h
    BY <1>2, SMTT(20)
  <2>2. d * q \in Int /\ d * h \in Int
    BY <1>2
  <2> QED
    BY <1>2, <2>1, <2>2 DEF x
<1>4. ~(q - h >= 1)
  <2> SUFFICES ASSUME q - h >= 1 PROVE FALSE
    OBVIOUS
  <2>1. d * (q - h) >= d
    BY <1>2, SMTT(20)
  <2> QED
    BY <1>2, <1>3, <2>1
<1>5. ~(q - h <= -1)
  <2> SUFFICES ASSUME q - h <= -1 PROVE FALSE
    OBVIOUS
  <2>1. d * (q - h) <= -d
    BY <1>2, SMTT(20)
  <2> QED
    BY <1>2, <1>3, <2>1
<1>6. q = h
  BY <1>2, <1>4, <1>5
<1> QED
  BY <1>6 DEF q, x

\* Dividing twice is dividing by the product.
LEMMA DivideTwice ==
  ASSUME NEW a \in Nat, NEW x \in Nat \ {0}, NEW y \in Nat \ {0}
  PROVE  (a \div x) \div y = a \div (x * y)
<1> DEFINE q == a \div x
           r == a % x
           h == q \div y
           s == q % y
           xy == x * y
           rest == x * s + r
<1>1. q \in Nat /\ r \in 0 .. x - 1 /\ a = x * q + r
  OBVIOUS
<1> HIDE DEF q, r
<1>2. h \in Nat /\ s \in 0 .. y - 1 /\ q = y * h + s
  BY <1>1
<1> HIDE DEF h, s
<1>3. xy \in Nat \ {0} /\ x * s \in Nat /\ x * s <= xy - x
  <2>1. x * s <= x * (y - 1)
    BY <1>2, SMTT(20)
  <2>2. x * (y - 1) = x * y - x
    OBVIOUS
  <2>3. x * s \in Nat /\ x * y \in Nat /\ x * y >= 1
    BY <1>2, SMTT(20)
  <2> QED
    BY <2>1, <2>2, <2>3
<1>4. a = xy * h + rest
  <2>1. x * q = x * (y * h) + x * s
    BY <1>2, SMTT(20)
  <2>2. x * (y * h) = xy * h
    BY <1>2, SMTT(20)
  <2> DEFINE xs == x * s
             up == xy * h
  <2>3. up \in Int /\ xs \in Int /\ x * q = up + xs
    BY <1>2, <1>3, <2>1, <2>2
  <2> HIDE DEF up, xs, xy
  <2>4. a = up + (xs + r)
    BY <1>1, <2>3
  <2> QED
    BY <2>4 DEF up, xs
<1>5. rest \in 0 .. xy - 1
  <2> DEFINE xs == x * s
  <2>1. xy \in Nat /\ xs \in Nat /\ xs <= xy - x
    BY <1>3
  <2> HIDE DEF xy, xs
  <2>2. xs + r \in 0 .. xy - 1
    BY <1>1, <2>1
  <2> QED
    BY <2>2 DEF xs
<1> HIDE DEF xy, rest
<1>6. a \div xy = h
  BY <1>2, <1>3, <1>4, <1>5, QuotientIs
<1> QED
  BY <1>6 DEF h, q, xy

\* The same of two powers of two.
LEMMA DividePowers ==
  ASSUME NEW a \in Nat, NEW n \in Nat, NEW k \in Nat, n + k <= WordBits
  PROVE  (a \div 2^n) \div 2^k = a \div 2^(n + k)
<1>1. n \in 0 .. WordBits /\ k \in 0 .. WordBits
  BY WidthAssumption
<1>2. 2^n \in Nat \ {0} /\ 2^k \in Nat \ {0}
  BY <1>1, PowerType
<1>3. 2^(n + k) = 2^n * 2^k
  BY PowerOfSum
<1> DEFINE x == 2^n
           y == 2^k
<1>4. x \in Nat \ {0} /\ y \in Nat \ {0}
  BY <1>2
<1> HIDE DEF x, y
<1>5. (a \div x) \div y = a \div (x * y)
  BY <1>4, DivideTwice
<1> QED
  BY <1>3, <1>5 DEF x, y

\* The modulus is a power of two too.
LEMMA ModulusIsPower == WordBits \in Nat \ {0} /\ Modulus = 2^WordBits
BY WidthAssumption, PowerAssumption DEF Modulus, SignBit

\* What is added above a bit does not change it.
LEMMA AddAbove ==
  ASSUME NEW x \in Nat, NEW q \in Nat, NEW k \in Nat, NEW m \in 0 .. WordBits, k < m
  PROVE  Bit(x + q * 2^m, k) = Bit(x, k)
<1> DEFINE p == 2^k
           t == 2^(m - k - 1)
           h == x \div p
           r == x % p
           g == q * t
<1>1. p \in Nat \ {0} /\ t \in Nat
  <2>1. k \in 0 .. WordBits /\ m - k - 1 \in 0 .. WordBits
    BY WidthAssumption
  <2> QED
    BY <2>1, PowerType
<1>2. 2^m = (2 * t) * p
  <2>1. m - k \in Nat /\ (m - k) + k = m /\ m \in Nat /\ m <= WordBits /\ WordBits \in Nat
    BY WidthAssumption
  <2>2. 2^m = 2^(m - k) * p
    BY <2>1, PowerOfSum
  <2>3. 2^(m - k) = 2 * t
    <3>1. m - k \in 1 .. WordBits
      BY <2>1
    <3> QED
      BY <3>1, PowerAssumption
  <2> QED
    BY <2>2, <2>3
<1> HIDE DEF p, t
<1>3. h \in Nat /\ r \in 0 .. p - 1 /\ x = p * h + r
  BY <1>1
<1> HIDE DEF h, r
<1>4. g \in Nat
  BY <1>1
<1>5. x + q * 2^m = p * (h + g * 2) + r
  <2>1. q * ((2 * t) * p) = p * (g * 2)
    BY <1>1, SMTT(20)
  <2>2. p * (h + g * 2) = p * h + p * (g * 2)
    BY <1>1, <1>3, <1>4, SMTT(20)
  <2>3. p * h \in Int /\ p * (g * 2) \in Int
    BY <1>1, <1>3, <1>4
  <2> QED
    BY <1>2, <1>3, <2>1, <2>2, <2>3
<1> HIDE DEF g
<1>6. (x + q * 2^m) \div p = h + g * 2
  <2>1. h + g * 2 \in Int
    BY <1>3, <1>4
  <2> QED
    BY <1>1, <1>3, <1>5, <2>1, QuotientIs
<1>7. (h + g * 2) % 2 = h % 2
  BY <1>3, <1>4
<1> QED
  BY <1>6, <1>7 DEF Bit, p, h

\* Wrapping keeps the bits of a word.
LEMMA BitOfWrap ==
  ASSUME NEW x \in Nat, NEW k \in 0 .. WordBits - 1
  PROVE  Bit(Wrap(x), k) = Bit(x, k)
<1> DEFINE q == x \div Modulus
<1>1. q \in Nat /\ Wrap(x) \in Nat /\ x = Wrap(x) + q * Modulus
  <2>1. Modulus \in Nat \ {0}
    BY ModulusFacts
  <2>2. q \in Nat /\ x % Modulus \in Nat /\ x = Modulus * q + (x % Modulus)
    BY <2>1
  <2>3. Modulus * q = q * Modulus /\ q * Modulus \in Nat
    BY <2>1, <2>2
  <2> QED
    BY <2>2, <2>3 DEF Wrap
<1> HIDE DEF q
<1>2. Bit(Wrap(x) + q * 2^WordBits, k) = Bit(Wrap(x), k)
  <2>1. WordBits \in 0 .. WordBits /\ k \in Nat /\ k < WordBits
    BY WidthAssumption
  <2> QED
    BY <1>1, <2>1, AddAbove
<1> QED
  BY <1>1, <1>2, ModulusIsPower

\* The bits of a number without bits.
LEMMA BitOfZero == \A k \in 0 .. WordBits - 1 : Bit(0, k) = 0
<1> SUFFICES ASSUME NEW k \in 0 .. WordBits - 1 PROVE Bit(0, k) = 0
  OBVIOUS
<1> DEFINE p == 2^k
<1>1. p \in Nat \ {0}
  <2>1. k \in 0 .. WordBits
    BY WidthAssumption
  <2> QED
    BY <2>1, PowerType
<1> HIDE DEF p
<1>2. (0 \div p) % 2 = 0
  BY <1>1
<1> QED
  BY <1>2 DEF Bit, p

\* Shifting right moves every bit down and fills with zeroes.
LEMMA BitOfRight ==
  ASSUME NEW a \in Word, NEW n \in 0 .. WordBits, NEW k \in 0 .. WordBits - 1
  PROVE  Bit(ShiftRight(a, n), k) = IF k + n < WordBits THEN Bit(a, k + n) ELSE 0
<1>1. a \in Nat /\ a < Modulus /\ n \in Nat /\ k \in Nat /\ k < WordBits /\ WordBits \in Nat
  BY ModulusFacts, WidthAssumption DEF Word
<1>2. CASE k + n < WordBits
  <2>1. (a \div 2^n) \div 2^k = a \div 2^(k + n)
    <3>1. n + k <= WordBits /\ n + k = k + n
      BY <1>1, <1>2
    <3> QED
      BY <1>1, <3>1, DividePowers
  <2> QED
    BY <1>2, <2>1 DEF Bit, ShiftRight
<1>3. CASE ~(k + n < WordBits)
  <2> DEFINE b == a \div 2^n
             top == 2^(WordBits - n)
             p == 2^k
  <2>1. WordBits - n \in Nat /\ k - (WordBits - n) \in Nat
    BY <1>1, <1>3
  <2>2. 2^n \in Nat \ {0} /\ top \in Nat \ {0} /\ p \in Nat \ {0}
        /\ 2^(k - (WordBits - n)) \in Nat \ {0}
    <3>1. n \in 0 .. WordBits /\ WordBits - n \in 0 .. WordBits /\ k \in 0 .. WordBits
          /\ k - (WordBits - n) \in 0 .. WordBits
      BY <1>1, <2>1
    <3> QED
      BY <3>1, PowerType
  <2>3. Modulus = top * 2^n
    <3>1. (WordBits - n) + n = WordBits /\ WordBits <= WordBits
      BY <1>1
    <3> QED
      BY <1>1, <2>1, <3>1, PowerOfSum, ModulusIsPower
  <2>4. p >= top
    <3>1. (k - (WordBits - n)) + (WordBits - n) = k /\ k <= WordBits
      BY <1>1
    <3>2. p = 2^(k - (WordBits - n)) * top
      BY <2>1, <3>1, PowerOfSum
    <3> QED
      BY <2>2, <3>2, SMTT(20)
  <2> DEFINE d == 2^n
  <2>5. d \in Nat \ {0} /\ Modulus = top * d
    BY <2>2, <2>3
  <2> HIDE DEF d, top, p
  <2>6. a \div d \in Nat /\ d * (a \div d) <= a
    BY <1>1, <2>5
  <2>7. a \div d < top
    <3> SUFFICES ASSUME a \div d >= top PROVE FALSE
      BY <2>2, <2>6
    <3>1. d * (a \div d) >= d * top
      BY <2>2, <2>5, <2>6, SMTT(20)
    <3>2. d * top = top * d /\ d * (a \div d) \in Int /\ top * d \in Int
      BY <2>2, <2>5, <2>6
    <3> QED
      BY <1>1, <2>5, <2>6, <3>1, <3>2
  <2>8. (a \div d) \div p = 0
    <3>1. p * 0 + (a \div d) = a \div d /\ a \div d \in 0 .. p - 1
      BY <2>2, <2>4, <2>6, <2>7
    <3> QED
      BY <2>2, <3>1, QuotientIs
  <2> QED
    BY <1>3, <2>8 DEF Bit, ShiftRight, p, d
<1> QED
  BY <1>2, <1>3

\* Shifting left moves every bit up and fills with zeroes.
LEMMA BitOfLeft ==
  ASSUME NEW a \in Word, NEW n \in 0 .. WordBits, NEW k \in 0 .. WordBits - 1
  PROVE  Bit(ShiftLeft(a, n), k) = IF k >= n THEN Bit(a, k - n) ELSE 0
<1>1. a \in Nat /\ n \in Nat /\ k \in Nat /\ k < WordBits /\ WordBits \in Nat
  BY ModulusFacts, WidthAssumption DEF Word
<1>2. 2^n \in Nat \ {0} /\ a * 2^n \in Nat
  BY <1>1, PowerType
<1>3. Bit(ShiftLeft(a, n), k) = Bit(a * 2^n, k)
  BY <1>2, BitOfWrap DEF ShiftLeft
<1>4. CASE k >= n
  <2> DEFINE d == 2^n
  <2>1. k - n \in Nat /\ n + (k - n) = k
    BY <1>1, <1>4
  <2>2. ((a * d) \div d) \div 2^(k - n) = (a * d) \div 2^k
    <3>1. n + (k - n) <= WordBits
      BY <1>1, <2>1
    <3>2. \A x \in Nat : (x \div 2^n) \div 2^(k - n) = x \div 2^(n + (k - n))
      <4> SUFFICES ASSUME NEW e \in Nat, n + e <= WordBits, NEW x \in Nat
                   PROVE  (x \div 2^n) \div 2^e = x \div 2^(n + e)
        BY <2>1, <3>1
      <4> HIDE DEF d
      <4> QED
        BY <1>1, DividePowers
    <3>3. \A x \in Nat : (x \div 2^n) \div 2^(k - n) = x \div 2^k
      BY <2>1, <3>2
    <3> QED
      BY <1>2, <3>3
  <2>3. (a * d) \div d = a
    <3>1. d \in Nat \ {0} /\ 0 \in 0 .. d - 1
      BY <1>2
    <3> HIDE DEF d
    <3>2. d * a + 0 = a * d
      BY <1>1, <3>1
    <3>3. (d * a + 0) \div d = a
      BY <1>1, <3>1, QuotientIs
    <3> QED
      BY <3>2, <3>3
  <2> QED
    BY <1>3, <1>4, <2>2, <2>3 DEF Bit
<1>5. CASE ~(k >= n)
  <2>1. Bit(0 + a * 2^n, k) = Bit(0, k)
    BY <1>1, <1>5, AddAbove
  <2>2. 0 + a * 2^n = a * 2^n
    BY <1>2
  <2> QED
    BY <1>3, <1>5, <2>1, <2>2, BitOfZero
<1> QED
  BY <1>4, <1>5

\* All the bits of the largest word are set.
LEMMA BitOfOnes == \A k \in 0 .. WordBits - 1 : Bit(Modulus - 1, k) = 1
<1> SUFFICES ASSUME NEW k \in 0 .. WordBits - 1 PROVE Bit(Modulus - 1, k) = 1
  OBVIOUS
<1> DEFINE p == 2^k
           s == 2^(WordBits - k - 1)
<1>1. k \in Nat /\ WordBits - k \in Nat /\ (WordBits - k) + k = WordBits
      /\ WordBits - k \in 1 .. WordBits /\ k \in 0 .. WordBits
      /\ WordBits - k - 1 \in 0 .. WordBits /\ WordBits <= WordBits
  BY WidthAssumption
<1>2. p \in Nat \ {0} /\ s \in Nat \ {0}
  BY <1>1, PowerType
<1>3. Modulus = (2 * s) * p
  <2>1. 2^(WordBits - k) = 2 * s
    BY <1>1, PowerAssumption
  <2>2. 2^WordBits = 2^(WordBits - k) * p
    BY <1>1, PowerOfSum
  <2> QED
    BY <2>1, <2>2, ModulusIsPower
<1> HIDE DEF p, s
<1>4. Modulus - 1 = p * (2 * s - 1) + (p - 1)
  <2>1. p * (2 * s - 1) = (2 * s) * p - p
    BY <1>2, SMTT(20)
  <2>2. (2 * s) * p \in Int
    BY <1>2
  <2> QED
    BY <1>2, <1>3, <2>1, <2>2
<1>5. (Modulus - 1) \div p = 2 * s - 1
  <2>1. 2 * s - 1 \in Int /\ p - 1 \in 0 .. p - 1
    BY <1>2
  <2> QED
    BY <1>2, <1>4, <2>1, QuotientIs
<1>6. (2 * s - 1) % 2 = 1
  BY <1>2
<1> QED
  BY <1>5, <1>6 DEF Bit, p

\* The sign test looks at the top bit.
LEMMA TopBit ==
  ASSUME NEW a \in Word
  PROVE  Bit(a, WordBits - 1) = FlagOf(NEG(a))
<1>1. a \in Nat /\ a < 2 * SignBit /\ SignBit \in Nat \ {0} /\ SignBit = 2^(WordBits - 1)
  BY ModulusFacts DEF Word, SignBit
<1>2. a \div SignBit = IF a >= SignBit THEN 1 ELSE 0
  <2> DEFINE d == SignBit
  <2>1. d \in Nat \ {0} /\ a \in Nat /\ a < 2 * d
    BY <1>1
  <2> HIDE DEF d
  <2>2. CASE a >= d
    <3>1. d * 1 + (a - d) = a /\ a - d \in 0 .. d - 1
      BY <2>1, <2>2
    <3> QED
      BY <2>1, <2>2, <3>1, QuotientIs DEF d
  <2>3. CASE ~(a >= d)
    <3>1. d * 0 + a = a /\ a \in 0 .. d - 1
      BY <2>1, <2>3
    <3>2. a \div d = 0
      BY <2>1, <3>1, QuotientIs
    <3> QED
      BY <2>3, <3>2 DEF d
  <2> QED
    BY <2>2, <2>3
<1> QED
  BY <1>1, <1>2 DEF Bit, FlagOf, NEG
-----------------------------------------------------------------------------
(* The shifter.                                                            *)

\* A result that has every bit where the shift says, and the last one out.
Moves(type, a, n, shifted) ==
  /\ \A k \in 0 .. WordBits - 1 : Bit(shifted.value, k) = MovedBit(type, a, n, k)
  /\ \/ shifted.carry = LastBitOut(type, a, n)
     \/ type = "ROR" /\ n > WordBits /\ n % WordBits = 0

\* A result that is a word is kept as it is.
LEMMA ShiftedWord ==
  ASSUME NEW x \in Word, NEW carry
  PROVE  Shifted(x, carry).value = x /\ Shifted(x, carry).carry = carry
BY WrapWord DEF Shifted

\* LSL.
LEMMA LeftMoves ==
  ASSUME NEW a \in Word, NEW n \in Nat \ {0}
  PROVE  Moves("LSL", a, n, LogicalLeft(a, n))
<1>1. WordBits \in Nat \ {0} /\ 0 \in Word
  BY WidthAssumption, WordRange
<1>2. CASE n \in 1 .. WordBits - 1
  <2>1. LogicalLeft(a, n) = Shifted(ShiftLeft(a, n), Bit(a, WordBits - n))
    BY <1>1, <1>2 DEF LogicalLeft
  <2>2. n \in 0 .. WordBits /\ n <= WordBits
    BY <1>1, <1>2
  <2>3. ShiftLeft(a, n) \in Word
    BY <2>2, ShiftTypes
  <2>4. \A k \in 0 .. WordBits - 1 :
          Bit(ShiftLeft(a, n), k) = IF k >= n THEN Bit(a, k - n) ELSE 0
    BY <2>2, BitOfLeft
  <2> QED
    BY <2>1, <2>2, <2>3, <2>4, ShiftedWord DEF Moves, MovedBit, LastBitOut
<1>3. CASE n >= WordBits
  <2>1. LogicalLeft(a, n) = Shifted(0, IF n = WordBits THEN Bit(a, 0) ELSE 0)
    BY <1>1, <1>3 DEF LogicalLeft
  <2>2. \A k \in 0 .. WordBits - 1 : ~(k >= n)
    BY <1>1, <1>3
  <2>3. LastBitOut("LSL", a, n) = IF n = WordBits THEN Bit(a, 0) ELSE 0
    <3>1. n <= WordBits <=> n = WordBits
      BY <1>1, <1>3
    <3>2. WordBits - WordBits = 0
      BY <1>1
    <3> QED
      BY <3>1, <3>2 DEF LastBitOut
  <2> QED
    BY <1>1, <2>1, <2>2, <2>3, ShiftedWord, BitOfZero DEF Moves, MovedBit
<1> QED
  BY <1>1, <1>2, <1>3

\* LSR.
LEMMA RightMoves ==
  ASSUME NEW a \in Word, NEW n \in Nat \ {0}
  PROVE  Moves("LSR", a, n, LogicalRight(a, n))
<1>1. WordBits \in Nat \ {0} /\ 0 \in Word
  BY WidthAssumption, WordRange
<1>2. CASE n \in 1 .. WordBits - 1
  <2>1. LogicalRight(a, n) = Shifted(ShiftRight(a, n), Bit(a, n - 1))
    BY <1>1, <1>2 DEF LogicalRight
  <2>2. n \in 0 .. WordBits /\ n <= WordBits
    BY <1>1, <1>2
  <2>3. ShiftRight(a, n) \in Word
    BY <2>2, ShiftTypes
  <2>4. \A k \in 0 .. WordBits - 1 :
          Bit(ShiftRight(a, n), k) = IF k + n < WordBits THEN Bit(a, k + n) ELSE 0
    BY <2>2, BitOfRight
  <2> QED
    BY <2>1, <2>2, <2>3, <2>4, ShiftedWord DEF Moves, MovedBit, LastBitOut
<1>3. CASE n >= WordBits
  <2>1. LogicalRight(a, n) = Shifted(0, IF n = WordBits THEN FlagOf(NEG(a)) ELSE 0)
    BY <1>1, <1>3 DEF LogicalRight
  <2>2. \A k \in 0 .. WordBits - 1 : ~(k + n < WordBits)
    BY <1>1, <1>3
  <2>3. LastBitOut("LSR", a, n) = IF n = WordBits THEN FlagOf(NEG(a)) ELSE 0
    <3>1. n <= WordBits <=> n = WordBits
      BY <1>1, <1>3
    <3> QED
      BY <3>1, TopBit DEF LastBitOut
  <2> QED
    BY <1>1, <2>1, <2>2, <2>3, ShiftedWord, BitOfZero DEF Moves, MovedBit
<1> QED
  BY <1>1, <1>2, <1>3

\* Filling from the top with copies of the sign.
LEMMA BitOfSignFilled ==
  ASSUME NEW a \in Word, NEW n \in 1 .. WordBits - 1, NEW k \in 0 .. WordBits - 1
  PROVE  /\ SignFilled(a, n) \in Word
         /\ Bit(SignFilled(a, n), k)
              = IF k + n < WordBits THEN Bit(a, k + n) ELSE Bit(a, WordBits - 1)
<1>1. /\ WordBits \in Nat /\ n \in 0 .. WordBits /\ WordBits - n \in 0 .. WordBits
      /\ k + n < WordBits => k + n \in 0 .. WordBits - 1
  BY WidthAssumption
<1> DEFINE low == ShiftRight(a, n)
           high == ShiftLeft(Modulus - 1, WordBits - n)
<1>2. low \in Word /\ high \in Word
  BY <1>1, ShiftTypes, WordRange
<1>3. Bit(low, k) = IF k + n < WordBits THEN Bit(a, k + n) ELSE 0
  BY <1>1, BitOfRight
<1>4. Bit(high, k) = IF k + n < WordBits THEN 0 ELSE 1
  <2>1. Bit(high, k) = IF k >= WordBits - n THEN Bit(Modulus - 1, k - (WordBits - n)) ELSE 0
    BY <1>1, BitOfLeft, WordRange
  <2>2. k >= WordBits - n <=> ~(k + n < WordBits)
    BY <1>1
  <2>3. k >= WordBits - n => k - (WordBits - n) \in 0 .. WordBits - 1
    BY <1>1
  <2> QED
    BY <2>1, <2>2, <2>3, BitOfOnes
<1>5. Bit(a, WordBits - 1) = IF NEG(a) THEN 1 ELSE 0
  BY TopBit DEF FlagOf
<1>6. k + n < WordBits => Bit(a, k + n) \in {0, 1}
  <2>1. k + n < WordBits => k + n \in 0 .. WordBits
    BY <1>1
  <2> QED
    BY <2>1, BitType DEF Flag
<1> HIDE DEF low, high
<1>7. CASE NEG(a)
  <2>1. SignFilled(a, n) = BitOr(low, high)
    BY <1>7 DEF SignFilled, low, high
  <2>2. Bit(BitOr(low, high), k) = IF Bit(low, k) = 0 /\ Bit(high, k) = 0 THEN 0 ELSE 1
    BY <1>2, OrAssumption
  <2>3. BitOr(low, high) \in Word
    BY <1>2, BitwiseAssumption
  <2> QED
    BY <1>3, <1>4, <1>5, <1>6, <1>7, <2>1, <2>2, <2>3
<1>8. CASE ~NEG(a)
  <2>1. SignFilled(a, n) = low
    BY <1>8 DEF SignFilled, low
  <2> QED
    BY <1>2, <1>3, <1>5, <1>8, <2>1
<1> QED
  BY <1>7, <1>8

\* ASR.
LEMMA ArithmeticMoves ==
  ASSUME NEW a \in Word, NEW n \in Nat \ {0}
  PROVE  Moves("ASR", a, n, ArithmeticRight(a, n))
<1>1. WordBits \in Nat \ {0} /\ 0 \in Word /\ Modulus - 1 \in Word
  BY WidthAssumption, WordRange
<1>2. CASE n \in 1 .. WordBits - 1
  <2>1. ArithmeticRight(a, n) = Shifted(SignFilled(a, n), Bit(a, n - 1))
    BY <1>1, <1>2 DEF ArithmeticRight
  <2>2. n <= WordBits /\ 0 \in 0 .. WordBits - 1
    BY <1>1, <1>2
  <2>3. /\ SignFilled(a, n) \in Word
        /\ \A k \in 0 .. WordBits - 1 :
             Bit(SignFilled(a, n), k)
               = IF k + n < WordBits THEN Bit(a, k + n) ELSE Bit(a, WordBits - 1)
    BY <1>2, <2>2, BitOfSignFilled
  <2> QED
    BY <2>1, <2>2, <2>3, ShiftedWord DEF Moves, MovedBit, LastBitOut
<1>3. CASE n >= WordBits
  <2>1. ArithmeticRight(a, n) = Shifted(IF NEG(a) THEN Modulus - 1 ELSE 0, FlagOf(NEG(a)))
    BY <1>1, <1>3 DEF ArithmeticRight
  <2>2. \A k \in 0 .. WordBits - 1 : ~(k + n < WordBits)
    BY <1>1, <1>3
  <2>3. LastBitOut("ASR", a, n) = FlagOf(NEG(a))
    <3>1. n <= WordBits => n = WordBits
      BY <1>1, <1>3
    <3> QED
      BY <3>1, TopBit DEF LastBitOut
  <2>4. \A k \in 0 .. WordBits - 1 :
          Bit(IF NEG(a) THEN Modulus - 1 ELSE 0, k) = FlagOf(NEG(a))
    BY BitOfOnes, BitOfZero DEF FlagOf
  <2> QED
    BY <1>1, <2>1, <2>2, <2>3, <2>4, ShiftedWord, TopBit DEF Moves, MovedBit
<1> QED
  BY <1>1, <1>2, <1>3

\* A rotation by less than the width.
LEMMA BitOfRotated ==
  ASSUME NEW a \in Word, NEW m \in 1 .. WordBits - 1, NEW k \in 0 .. WordBits - 1
  PROVE  /\ RotatedRight(a, m) \in Word
         /\ Bit(RotatedRight(a, m), k) = Bit(a, (k + m) % WordBits)
<1>1. /\ WordBits \in Nat \ {0} /\ m \in 0 .. WordBits /\ WordBits - m \in 0 .. WordBits
      /\ k + m \in Nat /\ (k >= WordBits - m <=> ~(k + m < WordBits))
      /\ k - (WordBits - m) = (k + m) - WordBits
  BY WidthAssumption
<1> DEFINE low == ShiftRight(a, m)
           high == ShiftLeft(a, WordBits - m)
<1>2. low \in Word /\ high \in Word
  BY <1>1, ShiftTypes
<1>3. Bit(low, k) = IF k + m < WordBits THEN Bit(a, k + m) ELSE 0
  BY <1>1, BitOfRight
<1>4. Bit(high, k) = IF k + m < WordBits THEN 0 ELSE Bit(a, (k + m) - WordBits)
  BY <1>1, BitOfLeft
<1>5. (k + m) % WordBits = IF k + m < WordBits THEN k + m ELSE (k + m) - WordBits
  <2> DEFINE w == WordBits
  <2>1. w \in Nat \ {0} /\ k \in 0 .. w - 1 /\ m \in 1 .. w - 1
    BY <1>1
  <2> HIDE DEF w
  <2>2. (k + m) % w = IF k + m < w THEN k + m ELSE (k + m) - w
    BY <2>1
  <2> QED
    BY <2>2 DEF w
<1>6. Bit(a, (k + m) % WordBits) \in {0, 1}
  <2>1. (k + m) % WordBits \in 0 .. WordBits
    BY <1>1, <1>5
  <2> QED
    BY <2>1, BitType DEF Flag
<1> HIDE DEF low, high
<1>7. RotatedRight(a, m) = BitOr(high, low)
  BY DEF RotatedRight, low, high
<1>8. /\ BitOr(high, low) \in Word
      /\ Bit(BitOr(high, low), k) = IF Bit(high, k) = 0 /\ Bit(low, k) = 0 THEN 0 ELSE 1
  BY <1>2, BitwiseAssumption, OrAssumption
<1> QED
  BY <1>3, <1>4, <1>5, <1>6, <1>7, <1>8

\* Remainders of an amount by the width of a word.
LEMMA AmountRemainder ==
  ASSUME NEW n \in Nat \ {0}, NEW k \in 0 .. WordBits - 1
  PROVE  /\ n % WordBits \in 0 .. WordBits - 1
         /\ (k + n) % WordBits = (k + (n % WordBits)) % WordBits
         /\ (n - 1) % WordBits = IF n % WordBits = 0 THEN WordBits - 1 ELSE (n % WordBits) - 1
<1> DEFINE w == WordBits
           m == n % w
           q == n \div w
<1>1. w \in Nat \ {0} /\ k \in 0 .. w - 1
  BY WidthAssumption
<1> HIDE DEF w
<1>2. m \in 0 .. w - 1 /\ q \in Nat /\ n = w * q + m
  BY <1>1
<1> HIDE DEF m, q
<1>3. w * q = q * w /\ q * w \in Int /\ w * (q - 1) \in Int
  BY <1>1, <1>2
<1>4. (k + n) % w = (k + m) % w
  <2>1. ((k + m) + q * w) % w = (k + m) % w
    <3> DEFINE x == (k + m)
    <3>1. x \in Int /\ q \in Int
      BY <1>1, <1>2
    <3> HIDE DEF x
    <3>2. (x + q * w) % w = x % w
      BY <1>1, <3>1, RemainderOfMultiple
    <3> QED
      BY <3>2 DEF x
  <2>2. k + n = (k + m) + q * w
    BY <1>1, <1>2, <1>3
  <2> QED
    BY <2>1, <2>2
<1>5. (n - 1) % w = (m - 1) % w
  <2>1. ((m - 1) + q * w) % w = (m - 1) % w
    <3> DEFINE x == (m - 1)
    <3>1. x \in Int /\ q \in Int
      BY <1>1, <1>2
    <3> HIDE DEF x
    <3>2. (x + q * w) % w = x % w
      BY <1>1, <3>1, RemainderOfMultiple
    <3> QED
      BY <3>2 DEF x
  <2>2. n - 1 = (m - 1) + q * w
    BY <1>1, <1>2, <1>3
  <2> QED
    BY <2>1, <2>2
<1>6. (m - 1) % w = IF m = 0 THEN w - 1 ELSE m - 1
  BY <1>1, <1>2
<1> QED
  BY <1>2, <1>4, <1>5, <1>6 DEF w, m

\* ROR: by one or more, or by a register.
LEMMA RotateMoves ==
  ASSUME NEW a \in Word, NEW n \in Nat \ {0}, NEW byRegister \in BOOLEAN,
         NEW shifted \in RotateRight(a, n, byRegister)
  PROVE  Moves("ROR", a, n, shifted)
<1> DEFINE m == n % WordBits
<1>1. /\ WordBits \in Nat \ {0} /\ m \in 0 .. WordBits - 1 /\ 0 \in 0 .. WordBits - 1
      /\ \A k \in 0 .. WordBits - 1 : (k + n) % WordBits = (k + m) % WordBits
      /\ (n - 1) % WordBits = IF m = 0 THEN WordBits - 1 ELSE m - 1
  <2>1. WordBits \in Nat \ {0} /\ 0 \in 0 .. WordBits - 1
    BY WidthAssumption
  <2> QED
    BY <2>1, AmountRemainder
<1>2. CASE m = 0
  <2>1. shifted \in {Shifted(a, FlagOf(NEG(a))), Shifted(a, 0)}
    BY <1>2 DEF RotateRight
  <2>2. shifted.value = a
    BY <2>1, ShiftedWord
  <2>3. \A k \in 0 .. WordBits - 1 : (k + n) % WordBits = k
    <3> SUFFICES ASSUME NEW k \in 0 .. WordBits - 1 PROVE (k + 0) % WordBits = k
      BY <1>1, <1>2
    <3> QED
      BY <1>1
  <2>4. \/ shifted.carry = LastBitOut("ROR", a, n)
        \/ n > WordBits
    <3>1. n >= WordBits
      <4> DEFINE w == WordBits
      <4>1. w \in Nat \ {0} /\ n % w = 0
        BY <1>1, <1>2
      <4> HIDE DEF w
      <4>2. n >= w
        BY <4>1
      <4> QED
        BY <4>2 DEF w
    <3>2. CASE n = WordBits
      <4>1. shifted = Shifted(a, FlagOf(NEG(a)))
        BY <3>2 DEF RotateRight
      <4>2. (n - 1) % WordBits = WordBits - 1
        BY <1>1, <1>2
      <4>3. LastBitOut("ROR", a, n) = Bit(a, (n - 1) % WordBits)
        BY DEF LastBitOut
      <4> QED
        BY <4>1, <4>2, <4>3, ShiftedWord, TopBit
    <3> QED
      BY <1>1, <3>1, <3>2
  <2> QED
    BY <1>2, <2>2, <2>3, <2>4 DEF Moves, MovedBit
<1>3. CASE m # 0
  <2>1. m \in 1 .. WordBits - 1
    BY <1>1, <1>3
  <2>2. shifted = Shifted(RotatedRight(a, m), Bit(a, m - 1))
    <3>1. n # WordBits
      <4> SUFFICES ASSUME n = WordBits PROVE m = 0
        BY <1>3
      <4> QED
        BY <1>1
    <3> QED
      BY <1>3, <3>1 DEF RotateRight
  <2>3. \A k \in 0 .. WordBits - 1 :
          RotatedRight(a, m) \in Word
          /\ Bit(RotatedRight(a, m), k) = Bit(a, (k + m) % WordBits)
    BY <2>1, BitOfRotated
  <2>4. RotatedRight(a, m) \in Word
    BY <1>1, <2>3
  <2>5. LastBitOut("ROR", a, n) = Bit(a, m - 1)
    BY <1>1, <1>3 DEF LastBitOut
  <2> HIDE DEF m
  <2> QED
    BY <1>1, <2>2, <2>3, <2>4, <2>5, ShiftedWord DEF Moves, MovedBit
<1> QED
  BY <1>2, <1>3

\* ROR #0: by one, with the carry in at the top.
LEMMA ExtendMoves ==
  ASSUME NEW a \in Word, NEW c \in Flag,
         NEW shifted, shifted = Shifted(SignBit * c + ShiftRight(a, 1), Bit(a, 0))
  PROVE  /\ \A k \in 0 .. WordBits - 1 :
              Bit(shifted.value, k) = IF k = WordBits - 1 THEN c ELSE Bit(a, k + 1)
         /\ shifted.carry = Bit(a, 0)
<1> DEFINE low == ShiftRight(a, 1)
           x == SignBit * c + low
<1>1. /\ a \in Nat /\ a < Modulus /\ c \in {0, 1}
      /\ SignBit \in Nat \ {0} /\ Modulus = 2 * SignBit /\ SignBit = 2^(WordBits - 1)
      /\ WordBits \in Nat \ {0} /\ WordBits - 1 \in 0 .. WordBits /\ 1 \in 0 .. WordBits
  BY ModulusFacts, WidthAssumption DEF Word, Flag, SignBit
<1>2. low \in 0 .. SignBit - 1
  <2>1. low = a \div 2
    BY WidthAssumption, PowerAssumption DEF ShiftRight
  <2> QED
    BY <1>1, <2>1
<1>3. \A k \in 0 .. WordBits - 1 : Bit(low, k) = IF k + 1 < WordBits THEN Bit(a, k + 1) ELSE 0
  BY <1>1, BitOfRight
<1> HIDE DEF low
<1>4. x \in Word /\ x \in Nat
  BY <1>1, <1>2 DEF Word
<1>5. shifted.value = x /\ shifted.carry = Bit(a, 0)
  <2> HIDE DEF x
  <2>1. shifted = Shifted(x, Bit(a, 0))
    BY DEF x, low
  <2> QED
    BY <1>4, <2>1, ShiftedWord
<1>6. ASSUME NEW k \in 0 .. WordBits - 1, k # WordBits - 1
      PROVE  Bit(x, k) = Bit(a, k + 1)
  <2>1. k \in Nat /\ k < WordBits - 1 /\ k + 1 < WordBits
    BY <1>1, <1>6
  <2>2. Bit(low + c * 2^(WordBits - 1), k) = Bit(low, k)
    BY <1>1, <1>2, <2>1, AddAbove
  <2>3. x = low + c * 2^(WordBits - 1)
    BY <1>1, <1>2
  <2> QED
    BY <1>3, <2>1, <2>2, <2>3
<1>7. Bit(x, WordBits - 1) = c
  <2>1. NEG(x) <=> c = 1
    BY <1>1, <1>2 DEF NEG
  <2> HIDE DEF x
  <2> QED
    BY <1>1, <1>4, <2>1, TopBit DEF FlagOf
<1> QED
  BY <1>5, <1>6, <1>7

\* No shift by zero changes the word, but for ROR #0.
LEMMA ZeroKeeps ==
  ASSUME NEW a \in Word
  PROVE  /\ LogicalLeft(a, 0).value = a /\ LogicalLeft(a, 0).carry = cpsr.c
         /\ LogicalRight(a, 0).value = a
         /\ ArithmeticRight(a, 0).value = a
         /\ \A shifted \in RotateRight(a, 0, TRUE) : shifted.value = a
<1>1. WordBits \in Nat \ {0}
  BY WidthAssumption
<1>2. RotateRight(a, 0, TRUE) = {Shifted(a, FlagOf(NEG(a)))}
  BY <1>1 DEF RotateRight
<1>3. /\ LogicalLeft(a, 0) = Shifted(a, cpsr.c)
      /\ LogicalRight(a, 0) = Shifted(a, 0)
      /\ ArithmeticRight(a, 0) = Shifted(a, 0)
  BY <1>1 DEF LogicalLeft, LogicalRight, ArithmeticRight
<1>4. \A carry : Shifted(a, carry).value = a /\ Shifted(a, carry).carry = carry
  BY ShiftedWord
<1>5. \A shifted \in RotateRight(a, 0, TRUE) : shifted.value = a
  BY <1>2, <1>4
<1> QED
  BY <1>3, <1>4, <1>5

\* What a second operand owes, all forms together.
Owed(operand2, shifted) ==
  LET asked == Asked(operand2)
  IN  /\ asked.n >= 1 => Moves(asked.type, asked.a, asked.n, shifted)
      /\ Extends(operand2) =>
           /\ \A k \in 0 .. WordBits - 1 :
                Bit(shifted.value, k) = IF k = WordBits - 1 THEN cpsr.c ELSE Bit(asked.a, k + 1)
           /\ shifted.carry = Bit(asked.a, 0)
      /\ asked.n = 0 /\ ~Extends(operand2) =>
           /\ shifted.value = asked.a
           /\ KeepsCarry(operand2) => shifted.carry = cpsr.c

\* shift(), by a value or by a register.
LEMMA ShiftOwed ==
  ASSUME NEW operand2 \in ShiftedByValue \cup ShiftedByRegister,
         registers \in [Register -> Word], cpsr \in Flags,
         NEW shifted \in shift(operand2)
  PROVE  Owed(operand2, shifted)
<1> DEFINE asked == Asked(operand2)
           type == operand2.type
           byRegister == operand2.kind = "by_register"
           a == asked.a
           n == asked.n
<1>1. /\ type \in ShiftType /\ operand2.rm \in Register
      /\ operand2.kind \in {"by_value", "by_register"}
      /\ operand2.kind = "by_value" => operand2.amount \in Nat
      /\ operand2.kind = "by_register" => operand2.rs \in Register
  BY WidthAssumption DEF ShiftedByValue, ShiftedByRegister
<1>2. asked.type = type
  BY <1>1 DEF Asked
<1>3. a = Wrap(registers[operand2.rm]
               + (IF operand2.rm # PC THEN 0 ELSE IF byRegister THEN 8 ELSE 4))
  <2>1. registers[operand2.rm] \in Word /\ registers[operand2.rm] \in Int
    BY <1>1, WordRange
  <2>2. Wrap(registers[operand2.rm] + 0) = registers[operand2.rm]
    BY <2>1, WrapWord
  <2> QED
    BY <1>1, <2>2 DEF Asked
<1>4. n = IF byRegister THEN registers[operand2.rs] % 256 ELSE operand2.amount
  BY <1>1 DEF Asked
<1>5. a \in Word
  <2>1. registers[operand2.rm] \in Int
    BY <1>1, WordRange
  <2> QED
    BY <1>3, <2>1, WrapType
<1>6. n \in Nat
  <2>1. byRegister => registers[operand2.rs] \in Int
    BY <1>1, WordRange
  <2> QED
    BY <1>1, <1>4, <2>1
<1>7. /\ type = "LSL" => shifted = LogicalLeft(a, n)
      /\ type = "LSR" => shifted = LogicalRight(a, n)
      /\ type = "ASR" => shifted = ArithmeticRight(a, n)
      /\ type = "ROR" => shifted \in RotateRight(a, n, byRegister)
  <2> DEFINE x == a
             y == n
  <2> HIDE DEF x, y
  <2>1. shifted \in CASE type = "LSL" -> {LogicalLeft(x, y)}
                      [] type = "LSR" -> {LogicalRight(x, y)}
                      [] type = "ASR" -> {ArithmeticRight(x, y)}
                      [] type = "ROR" -> RotateRight(x, y, byRegister)
    BY <1>3, <1>4, ZenonT(40) DEF shift, x, y
  <2>2. /\ type = "LSL" => shifted = LogicalLeft(x, y)
        /\ type = "LSR" => shifted = LogicalRight(x, y)
        /\ type = "ASR" => shifted = ArithmeticRight(x, y)
        /\ type = "ROR" => shifted \in RotateRight(x, y, byRegister)
    BY <2>1
  <2> QED
    BY <2>2 DEF x, y
<1>8. byRegister \in BOOLEAN /\ cpsr.c \in Flag
  BY DEF Flags
<1>9. Extends(operand2) <=> type = "ROR" /\ n = 0 /\ ~byRegister
  BY <1>1, <1>4 DEF Extends
<1>10. KeepsCarry(operand2) <=> type = "LSL"
  BY <1>1 DEF KeepsCarry
<1> HIDE DEF asked, type, byRegister, a, n
<1>11. n >= 1 => Moves(type, a, n, shifted)
  <2> SUFFICES ASSUME n >= 1 PROVE Moves(type, a, n, shifted)
    OBVIOUS
  <2>1. n \in Nat \ {0}
    BY <1>6
  <2> QED
    BY <1>1, <1>5, <1>7, <1>8, <2>1, LeftMoves, RightMoves, ArithmeticMoves, RotateMoves
       DEF ShiftType
<1>12. Extends(operand2) =>
         /\ \A k \in 0 .. WordBits - 1 :
              Bit(shifted.value, k) = IF k = WordBits - 1 THEN cpsr.c ELSE Bit(a, k + 1)
         /\ shifted.carry = Bit(a, 0)
  <2> SUFFICES ASSUME type = "ROR", n = 0, ~byRegister
               PROVE  /\ \A k \in 0 .. WordBits - 1 :
                           Bit(shifted.value, k) = IF k = WordBits - 1 THEN cpsr.c
                                                   ELSE Bit(a, k + 1)
                      /\ shifted.carry = Bit(a, 0)
    BY <1>9
  <2>1. WordBits \in Nat \ {0} /\ 0 # WordBits
    BY WidthAssumption
  <2>2. shifted = Shifted(SignBit * cpsr.c + ShiftRight(a, 1), Bit(a, 0))
    <3>1. byRegister = FALSE
      BY <1>8
    <3>2. RotateRight(a, 0, FALSE) = {Shifted(SignBit * cpsr.c + ShiftRight(a, 1), Bit(a, 0))}
      BY <2>1 DEF RotateRight
    <3> QED
      BY <1>7, <3>1, <3>2
  <2> QED
    BY <1>5, <1>8, <2>2, ExtendMoves
<1>13. n = 0 /\ ~Extends(operand2) =>
         /\ shifted.value = a
         /\ KeepsCarry(operand2) => shifted.carry = cpsr.c
  <2> SUFFICES ASSUME n = 0, type = "ROR" => byRegister = TRUE
               PROVE  /\ shifted.value = a
                      /\ type = "LSL" => shifted.carry = cpsr.c
    BY <1>8, <1>9, <1>10
  <2> QED
    BY <1>1, <1>5, <1>7, ZeroKeeps DEF ShiftType, type
<1> QED
  BY <1>2, <1>11, <1>12, <1>13 DEF Owed, asked, a, n

\* rotate(), of an immediate.
LEMMA RotateOwed ==
  ASSUME NEW operand2 \in RotatedImmediate, cpsr \in Flags
  PROVE  Owed(operand2, rotate(operand2))
<1> DEFINE a == operand2.byte
           n == 2 * operand2.rotation
           shifted == rotate(operand2)
<1>1. /\ a \in Word /\ n \in 0 .. WordBits - 1 /\ operand2.kind = "immediate"
      /\ WordBits \in Nat \ {0}
  BY ByteFacts, WidthAssumption DEF RotatedImmediate
<1>2. Asked(operand2).type = "ROR" /\ Asked(operand2).a = a /\ Asked(operand2).n = n
  BY <1>1 DEF Asked
<1>3. ~Extends(operand2)
  BY <1>1 DEF Extends
<1>4. shifted = IF n = 0 THEN Shifted(a, cpsr.c)
                ELSE Shifted(RotatedRight(a, n), FlagOf(NEG(RotatedRight(a, n))))
  BY DEF rotate
<1> HIDE DEF a, n, shifted
<1>5. CASE n = 0
  <2>1. shifted.value = a /\ shifted.carry = cpsr.c
    BY <1>1, <1>4, <1>5, ShiftedWord
  <2> QED
    BY <1>2, <1>3, <1>5, <2>1 DEF Owed, shifted
<1>6. CASE n # 0
  <2>1. n \in 1 .. WordBits - 1 /\ WordBits - 1 \in 0 .. WordBits - 1 /\ n \in Nat \ {0}
    BY <1>1, <1>6
  <2>2. /\ RotatedRight(a, n) \in Word
        /\ \A k \in 0 .. WordBits - 1 :
             Bit(RotatedRight(a, n), k) = Bit(a, (k + n) % WordBits)
    BY <1>1, <2>1, BitOfRotated
  <2>3. shifted.value = RotatedRight(a, n) /\ shifted.carry = FlagOf(NEG(RotatedRight(a, n)))
    BY <1>4, <1>6, <2>2, ShiftedWord
  <2>4. FlagOf(NEG(RotatedRight(a, n))) = Bit(a, ((WordBits - 1) + n) % WordBits)
    BY <2>1, <2>2, TopBit
  <2>5. ((WordBits - 1) + n) % WordBits = (n - 1) % WordBits
    <3> DEFINE w == WordBits
    <3>1. w \in Nat \ {0} /\ n \in 1 .. w - 1
      BY <1>1, <2>1
    <3> HIDE DEF w
    <3>2. ((w - 1) + n) % w = (n - 1) % w
      BY <3>1
    <3> QED
      BY <3>2 DEF w
  <2>6. Moves("ROR", a, n, shifted)
    BY <2>2, <2>3, <2>4, <2>5 DEF Moves, MovedBit, LastBitOut
  <2> QED
    BY <1>2, <1>3, <1>6, <2>6 DEF Owed, shifted
<1> QED
  BY <1>5, <1>6

(***************************************************************************)
(* MOVS moves every bit of its operand where the shift says and leaves the *)
(* last one out in C, at every width and for every amount.                 *)
(***************************************************************************)
THEOREM ShiftsMoveBits == Spec => ShifterMovesBits
<1> DEFINE Claim ==
      Executing("data_processing") /\ instruction.opcode = "MOV" /\ instruction.s =>
        LET asked == Asked(instruction.operand2)
            moved == registers'[instruction.rd]
            bits == 0 .. WordBits - 1
            hostCarry == asked.type = "ROR" /\ asked.n > WordBits /\ asked.n % WordBits = 0
        IN  /\ asked.n >= 1 =>
                 /\ \A k \in bits : Bit(moved, k) = MovedBit(asked.type, asked.a, asked.n, k)
                 /\ hostCarry \/ cpsr'.c = LastBitOut(asked.type, asked.a, asked.n)
            /\ Extends(instruction.operand2) =>
                 /\ \A k \in bits :
                      Bit(moved, k) = IF k = WordBits - 1 THEN cpsr.c ELSE Bit(asked.a, k + 1)
                 /\ cpsr'.c = Bit(asked.a, 0)
            /\ asked.n = 0 /\ ~Extends(instruction.operand2) =>
                 /\ moved = asked.a
                 /\ KeepsCarry(instruction.operand2) => cpsr'.c = cpsr.c
<1>1. IInv /\ [Next]_vars => [Claim]_vars
  <2> SUFFICES ASSUME IInv, Next, Executing("data_processing"),
                      instruction.opcode = "MOV", instruction.s
               PROVE  Claim
    OBVIOUS
  <2>1. dataProcessingEval /\ Machine
    BY OnlyTheHandler, Parts
  <2>2. instruction \in DataProcessingInstruction
    BY <2>1, FormatType DEF Executing, Machine
  <2>3. /\ instruction.rd \in Register
        /\ instruction.operand2 \in ShiftedByValue \cup ShiftedByRegister \cup RotatedImmediate
    BY <2>2 DEF DataProcessingInstruction
  <2>4. PICK shifted \in Operand2(instruction.operand2) :
          /\ registers' = [registers EXCEPT ![instruction.rd] = shifted.value]
          /\ cpsr'.c = shifted.carry
    <3>1. \A rn, x, y, value, carry :
            Result("MOV", rn, x, y) = y /\ CarryFlag("MOV", x, y, value, carry) = carry
      <4>1. \A rn, x, y : Result("MOV", rn, x, y) = y
        BY DEF Result
      <4>2. \A x, y, value, carry : CarryFlag("MOV", x, y, value, carry) = carry
        BY DEF CarryFlag, Logical, Additions, Reversed, Forward
      <4> QED
        BY <4>1, <4>2
    <3>2. "MOV" \notin Tests
      BY DEF Tests
    <3> DEFINE op1 == Operand1(instruction.rn)
               value(op2) == Result("MOV", instruction.rn, op1, op2)
    <3>3. PICK shifted \in Operand2(instruction.operand2) :
            /\ registers' = [registers EXCEPT ![instruction.rd] = value(shifted.value)]
            /\ cpsr' = [n |-> FlagOf(NEG(value(shifted.value))),
                        z |-> FlagOf(value(shifted.value) = 0),
                        c |-> CarryFlag("MOV", op1, shifted.value, value(shifted.value),
                                        shifted.carry),
                        v |-> OverflowFlag("MOV", op1, shifted.value, value(shifted.value))]
      BY <2>1, <3>2 DEF dataProcessingEval
    <3>4. value(shifted.value) = shifted.value
      BY <3>1
    <3>5. CarryFlag("MOV", op1, shifted.value, value(shifted.value), shifted.carry)
            = shifted.carry
      BY <3>1
    <3> HIDE DEF value, op1
    <3> QED
      BY <3>3, <3>4, <3>5
  <2>5. registers'[instruction.rd] = shifted.value
    BY <2>1, <2>3, <2>4 DEF Machine
  <2>6. Owed(instruction.operand2, shifted)
    <3>1. CASE instruction.operand2 \in RotatedImmediate
      <4>1. shifted = rotate(instruction.operand2)
        BY <3>1 DEF Operand2, RotatedImmediate
      <4> QED
        BY <2>1, <3>1, <4>1, RotateOwed DEF Machine
    <3>2. CASE instruction.operand2 \in ShiftedByValue \cup ShiftedByRegister
      <4>1. shifted \in shift(instruction.operand2)
        BY <3>2 DEF Operand2, ShiftedByValue, ShiftedByRegister
      <4> QED
        BY <2>1, <3>2, <4>1, ShiftOwed DEF Machine
    <3> QED
      BY <2>3, <3>1, <3>2
  <2> QED
    BY <2>4, <2>5, <2>6 DEF Owed, Moves
<1>2. Spec => [][Claim]_vars
  BY <1>1, InvariantHolds, PTL DEF Spec
<1> QED
  BY <1>2 DEF ShifterMovesBits

-----------------------------------------------------------------------------
(* The handlers.                                                           *)

\* A step of the machine inside evaluate(), with the condition true, is the
\* handler of the transfer.
LEMMA OnlyTheTransfer ==
  ASSUME NEW format \in {"single_data_transfer", "halfword_data_transfer_immediate_off"},
         Executing(format), Next
  PROVE  /\ format = "single_data_transfer" => singleDataTranferEval
         /\ format = "halfword_data_transfer_immediate_off" => halfwordDataTransferImmediateOffEval
<1>1. phase = "evaluate" /\ instruction.format = format
      /\ TestCondition(instruction.condition)
  BY DEF Executing
<1>2. instruction.condition # "NV"
  BY <1>1 DEF TestCondition
<1>3. ~init /\ ~load /\ ~Exhausted /\ ~FetchDecode /\ ~(\E n \in Budgets : BeginRun(n))
  BY <1>1 DEF init, load, LoadImage, LoadFailure, Exhausted, FetchDecode, BeginRun
<1>4. ~SkipInstruction /\ ~AssertInstruction
  BY <1>1, <1>2 DEF SkipInstruction, AssertInstruction, Unsupported
<1>5. /\ format # "single_data_transfer" => ~singleDataTranferEval
      /\ format # "halfword_data_transfer_immediate_off" => ~halfwordDataTransferImmediateOffEval
  BY <1>1 DEF singleDataTranferEval, halfwordDataTransferImmediateOffEval, Executing
<1>6. ~dataProcessingEval /\ ~branchEval /\ ~branchAndExchangeEval /\ ~softwareInterruptEval
  BY <1>1 DEF dataProcessingEval, branchEval, branchAndExchangeEval, softwareInterruptEval,
              Executing
<1>7. ~blockDataTransferEval
  BY <1>1 DEF blockDataTransferEval, BeginTransfer, SkipRegister, TransferRegister,
              EscapeTransfer, EndTransfer, Executing
<1>8. ~multiplyEval /\ ~multiplyLongEval /\ ~halfwordDataTransferRegisterOffEval
  BY <1>1 DEF multiplyEval, multiplyLongEval, halfwordDataTransferRegisterOffEval, Executing
<1> QED
  BY <1>3, <1>4, <1>5, <1>6, <1>7, <1>8 DEF Next, Turn, Evaluate

-----------------------------------------------------------------------------
(* Where the program and the pc are.                                       *)

(***************************************************************************)
(* A machine that is not lost has its whole program in its buffer, and     *)
(* evaluates an instruction it has read there: the pc, one instruction     *)
(* ahead, is at most at the end of the buffer.                             *)
(***************************************************************************)
FetchInv ==
  /\ phase \notin Lost => Code \subseteq Ram
  /\ phase = "evaluate" => registers[PC] <= MemSize

\* Only init() and load() change the code, and a lost machine does not step.
LEMMA CodeSteps ==
  ASSUME Next
  PROVE  /\ phase \notin Lost
         /\ init \/ (\E image \in Images : LoadImage(image)) \/ code' = code
<1>1. CASE init \/ load \/ (\E n \in Budgets : BeginRun(n))
  BY <1>1 DEF init, load, LoadImage, LoadFailure, BeginRun, Lost, memory
<1>2. CASE Exhausted \/ FetchDecode \/ SkipInstruction \/ AssertInstruction
  BY <1>2 DEF Exhausted, FetchDecode, SkipInstruction, AssertInstruction, Lost, memory
<1>3. CASE dataProcessingEval \/ branchEval \/ branchAndExchangeEval \/ softwareInterruptEval
           \/ multiplyEval \/ multiplyLongEval
  BY <1>3 DEF dataProcessingEval, branchEval, branchAndExchangeEval, softwareInterruptEval,
              multiplyEval, multiplyLongEval, Executing, Lost, memory
<1>4. CASE singleDataTranferEval \/ halfwordDataTransferImmediateOffEval
           \/ halfwordDataTransferRegisterOffEval
  BY <1>4 DEF singleDataTranferEval, halfwordDataTransferImmediateOffEval,
              halfwordDataTransferRegisterOffEval, Executing, Lost
<1>5. CASE blockDataTransferEval
  BY <1>5 DEF blockDataTransferEval, BeginTransfer, SkipRegister, TransferRegister,
              EscapeTransfer, EndTransfer, Executing, Lost, memory
<1> QED
  BY <1>1, <1>2, <1>3, <1>4, <1>5 DEF Next, Turn, Evaluate

\* Only fetch() and decode() lead to evaluate().
LEMMA OnlyFetched ==
  ASSUME Next, phase' = "evaluate"
  PROVE  FetchDecode
<1>1. ~init /\ ~load /\ ~(\E n \in Budgets : BeginRun(n))
  BY DEF init, load, LoadImage, LoadFailure, BeginRun
<1>2. ~Exhausted /\ ~SkipInstruction /\ ~AssertInstruction
  BY DEF Exhausted, Return, SkipInstruction, AssertInstruction, Complete, Abort
<1>3. /\ ~dataProcessingEval /\ ~branchEval /\ ~branchAndExchangeEval
      /\ ~multiplyEval /\ ~multiplyLongEval /\ ~softwareInterruptEval
  BY DEF dataProcessingEval, branchEval, branchAndExchangeEval, multiplyEval,
         multiplyLongEval, softwareInterruptEval, Complete, Return
<1>4. ~singleDataTranferEval
  BY DEF singleDataTranferEval, Complete, Escape
<1>5. ~halfwordDataTransferImmediateOffEval
  BY DEF halfwordDataTransferImmediateOffEval, ImmediateTransfer, Access, Overreach,
         Complete, Escape, Abort
<1>6. ~halfwordDataTransferRegisterOffEval
  BY DEF halfwordDataTransferRegisterOffEval, RegisterLoad, RegisterStore, Access, Overreach,
         Complete, Escape
<1>7. ~blockDataTransferEval
  BY DEF blockDataTransferEval, BeginTransfer, SkipRegister, TransferRegister,
         EscapeTransfer, EndTransfer, Complete, Escape, Abort
<1> QED
  BY <1>1, <1>2, <1>3, <1>4, <1>5, <1>6, <1>7 DEF Next, Turn, Evaluate

\* The code is in the buffer at first and after every step.
LEMMA CodeStays ==
  ASSUME IInv, FetchInv, Next, phase' \notin Lost
  PROVE  Code' \subseteq Ram
<1>1. phase \notin Lost
  BY CodeSteps
<1>2. CASE code' = code
  BY <1>1, <1>2 DEF FetchInv, Code
<1>3. CASE init
  BY <1>3 DEF init, NoCode, Code
<1>4. ASSUME NEW image \in Images, LoadImage(image)
      PROVE  Code' \subseteq Ram
  <2>1. code' = image.code /\ image.size <= MemSize
    BY <1>4 DEF LoadImage, Lost
  <2>2. image.size \in Nat /\ \A a \in DOMAIN image.code : Bytes(a, 4) \subseteq Bytes(0, image.size)
    BY ImagesAssumption
  <2>3. Bytes(0, image.size) \subseteq Ram
    BY <2>1, <2>2, MemSizeAssumption DEF Bytes, Ram
  <2> QED
    BY <2>1, <2>2, <2>3 DEF Code
<1> QED
  BY <1>2, <1>3, <1>4, CodeSteps

\* An instruction that fetch() finds, in the code or as a word of zeroes, is
\* inside the buffer, and so is the end of it.
LEMMA FetchedInside ==
  ASSUME IInv, FetchInv, FetchDecode, phase' = "evaluate"
  PROVE  registers'[PC] <= MemSize
<1> DEFINE pc == registers[PC]
<1>1. PC \in Register /\ registers \in [Register -> Word] /\ phase \notin Lost
  BY Parts DEF PC, Register, Machine, FetchDecode, Lost
<1>2. pc \in Int /\ pc >= 0
  BY <1>1, ModulusFacts DEF Word
<1>3. pc \in DOMAIN code \/ Data(Bytes(pc, 4))
  BY DEF FetchDecode, Escape
<1>4. Bytes(pc, 4) \subseteq Ram
  BY <1>1, <1>3 DEF FetchInv, Code, Data
<1>5. pc + 4 <= MemSize
  <2>1. pc + 3 \in Bytes(pc, 4)
    BY <1>2 DEF Bytes
  <2> QED
    BY <1>2, <1>4, <2>1, MemSizeAssumption DEF Ram
<1>6. Wrap(pc + 4) = pc + 4
  <2>1. pc + 4 \in Word
    BY <1>2, <1>5, BufferAssumption, MemSizeAssumption, ModulusFacts DEF Word
  <2> QED
    BY <2>1, WrapWord
<1>7. registers'[PC] = Wrap(pc + 4)
  BY <1>1 DEF FetchDecode
<1> QED
  BY <1>5, <1>6, <1>7

(***************************************************************************)
(* Whatever is loaded and run, the guest's program is inside its buffer    *)
(* and every instruction it evaluates has been read there.                 *)
(***************************************************************************)
THEOREM ProgramStaysInside == Spec => []FetchInv
<1>1. Init => FetchInv
  BY DEF Init, FetchInv, NoCode, Code
<1>2. IInv /\ FetchInv /\ [Next]_vars => FetchInv'
  <2> SUFFICES ASSUME IInv, FetchInv, [Next]_vars PROVE FetchInv'
    OBVIOUS
  <2>1. CASE Next
    <3>1. phase' \notin Lost => Code' \subseteq Ram
      BY <2>1, CodeStays
    <3>2. phase' = "evaluate" => registers'[PC] <= MemSize
      BY <2>1, OnlyFetched, FetchedInside
    <3> QED
      BY <3>1, <3>2 DEF FetchInv
  <2>2. CASE UNCHANGED vars
    BY <2>2 DEF vars, FetchInv, Code
  <2> QED
    BY <2>1, <2>2
<1> QED
  BY <1>1, <1>2, InvariantHolds, PTL DEF Spec

-----------------------------------------------------------------------------
(* LDR, STR, LDRB and STRB.                                                *)

\* Rotating by a value of less than the width has one outcome.
LEMMA OneRotation ==
  ASSUME NEW x, NEW n \in 0 .. WordBits - 1, NEW byRegister \in BOOLEAN, ~byRegister
  PROVE  \E shifted : RotateRight(x, n, byRegister) = {shifted}
<1>1. n # WordBits /\ (n = 0 <=> n % WordBits = 0)
  BY WidthAssumption
<1> DEFINE extended == Shifted(SignBit * cpsr.c + ShiftRight(x, 1), Bit(x, 0))
           rotated == Shifted(RotatedRight(x, n % WordBits), Bit(x, (n % WordBits) - 1))
<1> HIDE DEF extended, rotated
<1>2. CASE n = 0
  <2>1. RotateRight(x, n, byRegister) = {extended}
    BY <1>1, <1>2 DEF RotateRight, extended
  <2> QED
    BY <2>1
<1>3. CASE n # 0
  <2>1. RotateRight(x, n, byRegister) = {rotated}
    BY <1>1, <1>3 DEF RotateRight, rotated
  <2> QED
    BY <2>1
<1> QED
  BY <1>2, <1>3

\* So has every shift by a value, and a transfer has one offset.
LEMMA OneOffset ==
  ASSUME NEW t \in SingleTransferInstruction,
         NEW d1 \in Offsets(t), NEW d2 \in Offsets(t)
  PROVE  d1 = d2
<1>1. t.offset \in Distance \cup ShiftedByValue
  BY DEF SingleTransferInstruction
<1>2. CASE t.offset \in Distance
  BY <1>2 DEF Offsets, Distance
<1>3. CASE t.offset \in ShiftedByValue
  <2> DEFINE n == t.offset.amount
             byRegister == t.offset.kind = "by_register"
             x == Wrap(registers[t.offset.rm] + (IF t.offset.rm # PC THEN 0 ELSE 4))
  <2>1. /\ t.offset.kind = "by_value" /\ t.offset.type \in ShiftType
        /\ n \in 0 .. WordBits - 1
    BY <1>3 DEF ShiftedByValue
  <2>2. byRegister \in BOOLEAN /\ ~byRegister
    BY <2>1
  <2>3. shift(t.offset) \in {{LogicalLeft(x, n)}, {LogicalRight(x, n)},
                             {ArithmeticRight(x, n)}, RotateRight(x, n, byRegister)}
    BY <2>1, <2>2 DEF shift, ShiftType
  <2>4. \E shifted : RotateRight(x, n, byRegister) = {shifted}
    BY <2>1, <2>2, OneRotation
  <2> HIDE DEF x, n
  <2>5. \E shifted : shift(t.offset) = {shifted}
    BY <2>3, <2>4
  <2> QED
    BY <2>1, <2>5 DEF Offsets
<1> QED
  BY <1>1, <1>2, <1>3

\* Where the base does not reach the last word, and the pc does not, the
\* address of a transfer is the sum the guest computes.
LEMMA AddressIsSum ==
  ASSUME IInv, FetchInv, phase = "evaluate", instruction \in SingleTransferInstruction,
         NEW distance \in Word
  PROVE  Address(instruction, distance) = Sum(distance) /\ Sum(distance) \in Int
<1> DEFINE t == instruction
           base == registers[t.rn] + (IF t.rn = PC THEN 4 ELSE 0)
<1>1. /\ t.rn \in Register /\ t.p \in BOOLEAN /\ t.u \in BOOLEAN
      /\ registers[t.rn] \in Word /\ distance \in Int
  BY Parts, WordRange DEF SingleTransferInstruction, Machine
<1>2. base \in Word
  BY <1>1, BufferAssumption, MemSizeAssumption, ModulusFacts DEF FetchInv, Word
<1>3. Base(t) = base /\ base \in Int
  BY <1>2, WrapWord, WordRange DEF Base
<1> QED
  BY <1>1, <1>3 DEF Address, Indexed, Sum

(***************************************************************************)
(* A legal access takes the host outside the buffer in two cases only: the *)
(* sum of base and offset does not fit a word, or a byte is loaded as part *)
(* of a word that passes the end of the buffer.                            *)
(***************************************************************************)
THEOREM LegalAccessStaysInside == Spec => HostStaysInside
<1> DEFINE Claim ==
      \A distance \in Word :
        /\ Executing("single_data_transfer") /\ distance \in Offsets(instruction)
        /\ Meant(distance) \subseteq Ram
        /\ phase' = "wild"
        => \/ Sum(distance) \notin Word
           \/ instruction.load /\ instruction.b /\ Sum(distance) > MemSize - 4
<1>1. IInv /\ FetchInv /\ [Next]_vars => [Claim]_vars
  <2> SUFFICES ASSUME IInv, FetchInv, Next,
                      NEW distance \in Word,
                      Executing("single_data_transfer"), distance \in Offsets(instruction),
                      Meant(distance) \subseteq Ram, phase' = "wild", Sum(distance) \in Word
               PROVE  instruction.load /\ instruction.b /\ Sum(distance) > MemSize - 4
    OBVIOUS
  <2> DEFINE t == instruction
             a == Address(t, distance)
  <2>1. phase = "evaluate" /\ t \in SingleTransferInstruction
    BY Parts, FormatType DEF Executing, Machine
  <2>2. a = Sum(distance) /\ a \in Word /\ a \in Int
    BY <2>1, AddressIsSum
  <2>3. Touched(t, distance) \subseteq Ram
    <3>1. Wrap(Sum(distance)) = a
      BY <2>2, WrapWord
    <3> QED
      BY <3>1 DEF Meant, Width, Touched
  <2>4. singleDataTranferEval
    BY OnlyTheTransfer
  <2>5. PICK d \in Offsets(t) :
          \/ Complete
          \/ Escape(Touched(t, d))
          \/ Overreads(t, d) /\ Escape(Bytes(Address(t, d), 4))
    BY <2>4 DEF singleDataTranferEval
  <2>6. d = distance
    BY <2>1, <2>5, OneOffset
  <2>7. ~Complete /\ ~Escape(Touched(t, distance))
    BY <2>3 DEF Complete, Escape
  <2>8. t.load /\ t.b /\ ~(Bytes(a, 4) \subseteq Ram)
    BY <2>5, <2>6, <2>7 DEF Overreads
  <2>9. a > MemSize - 4
    BY <2>2, <2>8, MemSizeAssumption, ModulusFacts DEF Bytes, Ram, Word
  <2> QED
    BY <2>2, <2>8, <2>9
<1>2. Spec => [][Claim]_vars
  BY <1>1, InvariantHolds, ProgramStaysInside, PTL DEF Spec
<1> QED
  BY <1>2 DEF HostStaysInside

-----------------------------------------------------------------------------
(* The bytes of a halfword and of a word.                                  *)

\* Half a word is a byte times a byte.
LEMMA HalfIsTwoBytes == HalfModulus = ByteModulus * ByteModulus
<1>1. ByteBits \in Nat /\ ByteBits + ByteBits <= WordBits /\ 2 * ByteBits = ByteBits + ByteBits
  BY ByteFacts
<1> QED
  BY <1>1, PowerOfSum DEF HalfModulus, HalfBits, ByteModulus

\* The remainder by p and the digit above it make the remainder by p * m.
LEMMA DigitAbove ==
  ASSUME NEW p \in Nat \ {0}, NEW m \in Nat \ {0}, NEW w \in Nat
  PROVE  (w % p) + p * ((w \div p) % m) = w % (p * m)
<1> DEFINE q == w \div p
           r == w % p
           h == q \div m
           s == q % m
           pm == p * m
           low == r + p * s
<1>1. q \in Nat /\ r \in 0 .. p - 1 /\ w = p * q + r
  OBVIOUS
<1> HIDE DEF q, r
<1>2. h \in Nat /\ s \in 0 .. m - 1 /\ q = m * h + s
  BY <1>1
<1> HIDE DEF h, s
<1>3. p * s \in Nat /\ p * s <= pm - p /\ pm \in Nat \ {0}
  <2>1. p * s <= p * (m - 1)
    BY <1>2, SMTT(20)
  <2>2. p * (m - 1) = p * m - p
    OBVIOUS
  <2>3. p * s \in Nat /\ p * m \in Nat /\ p * m >= 1
    BY <1>2, SMTT(20)
  <2> QED
    BY <2>1, <2>2, <2>3
<1>4. low \in 0 .. pm - 1
  <2> DEFINE ps == p * s
  <2>1. pm \in Nat /\ ps \in Nat /\ ps <= pm - p
    BY <1>3
  <2> HIDE DEF pm, ps
  <2>2. r + ps \in 0 .. pm - 1
    BY <1>1, <2>1
  <2> QED
    BY <2>2 DEF ps
<1>5. w = low + h * pm
  <2>1. p * q = p * (m * h) + p * s
    BY <1>2, SMTT(20)
  <2>2. p * (m * h) = h * pm
    BY <1>2, SMTT(20)
  <2>3. p * q \in Int /\ p * s \in Int /\ h * pm \in Int
    BY <1>1, <1>2, <1>3
  <2> QED
    BY <1>1, <2>1, <2>2, <2>3
<1> HIDE DEF pm, low
<1>6. low \in Int /\ low % pm = low
  BY <1>3, <1>4
<1>7. (low + h * pm) % pm = low % pm
  <2>1. pm \in Nat \ {0} /\ h \in Int /\ low \in Int
    BY <1>2, <1>3, <1>6
  <2> QED
    BY <2>1, RemainderOfMultiple
<1> QED
  BY <1>5, <1>6, <1>7 DEF q, r, s, pm, low

\* The two bytes STRH writes make the low half of the word.
LEMMA BytesOfHalf ==
  ASSUME NEW w \in Word
  PROVE  ByteOf(w, 0) + ByteModulus * ByteOf(w, 1) = w % HalfModulus
<1>1. w \in Nat /\ ByteModulus \in Nat \ {0}
  BY ByteFacts, ModulusFacts DEF Word
<1>2. ByteOf(w, 0) = w % ByteModulus
  <2>1. 0 * ByteBits = 0
    BY ByteFacts
  <2>2. w \div 1 = w /\ 2^0 = 1
    BY <1>1
  <2> QED
    BY <2>1, <2>2 DEF ByteOf, ShiftRight
<1>3. ByteOf(w, 1) = (w \div ByteModulus) % ByteModulus
  <2>1. 1 * ByteBits = ByteBits
    BY ByteFacts
  <2> QED
    BY <2>1 DEF ByteOf, ShiftRight, ByteModulus
<1> QED
  BY <1>1, <1>2, <1>3, DigitAbove, HalfIsTwoBytes

\* With a word of four bytes, the four bytes of a word make the word.
LEMMA BytesOfWord ==
  ASSUME NEW w \in Word, WordBits = 4 * ByteBits
  PROVE  ByteOf(w, 0) + ByteOf(w, 1) * 2^ByteBits + ByteOf(w, 2) * 2^(2 * ByteBits)
           + ByteOf(w, 3) * 2^(3 * ByteBits) = w
<1> DEFINE m == ByteModulus
           m2 == 2^(2 * ByteBits)
           m3 == 2^(3 * ByteBits)
<1>1. w \in Nat /\ w < Modulus /\ m \in Nat \ {0} /\ m2 \in Nat \ {0} /\ m3 \in Nat \ {0}
  BY ByteFacts, ModulusFacts, PowerType DEF Word
<1>2. m2 = m * m /\ m3 = m2 * m /\ Modulus = m3 * m
  <2>1. ByteBits \in Nat /\ 2 * ByteBits \in Nat /\ 3 * ByteBits \in Nat
    BY ByteFacts
  <2>2. /\ 2 * ByteBits = ByteBits + ByteBits
        /\ 3 * ByteBits = 2 * ByteBits + ByteBits
        /\ WordBits = 3 * ByteBits + ByteBits
    BY <2>1
  <2>3. WordBits \in Nat /\ 2 * ByteBits <= WordBits /\ 3 * ByteBits <= WordBits
    BY <2>1, <2>2, WidthAssumption
  <2> QED
    <3>1. m2 = m * m
      BY <2>1, <2>2, <2>3, PowerOfSum DEF ByteModulus
    <3>2. m3 = m2 * m
      BY <2>1, <2>2, <2>3, PowerOfSum DEF ByteModulus
    <3>3. 2^WordBits = m3 * m
      BY <2>1, <2>2, <2>3, PowerOfSum DEF ByteModulus
    <3>4. Modulus = 2^WordBits
      BY WidthAssumption, PowerAssumption DEF Modulus, SignBit
    <3> QED
      BY <3>1, <3>2, <3>3, <3>4
<1>3. /\ ByteOf(w, 0) = w % m
      /\ ByteOf(w, 1) = (w \div m) % m
      /\ ByteOf(w, 2) = (w \div m2) % m
      /\ ByteOf(w, 3) = (w \div m3) % m
  <2>1. 0 * ByteBits = 0 /\ 1 * ByteBits = ByteBits
    BY ByteFacts
  <2>2. w \div 1 = w /\ 2^0 = 1
    BY <1>1
  <2> QED
    BY <2>1, <2>2 DEF ByteOf, ShiftRight, ByteModulus
<1> HIDE DEF m, m2, m3
<1>4. /\ (w % m) + m * ((w \div m) % m) = w % m2
      /\ (w % m2) + m2 * ((w \div m2) % m) = w % m3
      /\ (w % m3) + m3 * ((w \div m3) % m) = w % Modulus
  BY <1>1, <1>2, DigitAbove
<1>5. w % Modulus = w
  BY <1>1, ModulusFacts
<1> DEFINE b1 == (w \div m) % m
           b2 == (w \div m2) % m
           b3 == (w \div m3) % m
<1>6. w % m \in Int /\ b1 \in Int /\ b2 \in Int /\ b3 \in Int
  BY <1>1
<1> HIDE DEF b1, b2, b3
<1>7. b1 * m = m * b1 /\ b2 * m2 = m2 * b2 /\ b3 * m3 = m3 * b3
  BY <1>1, <1>6
<1>8. (w % m) + b1 * m + b2 * m2 + b3 * m3 = w
  BY <1>4, <1>5, <1>7 DEF b1, b2, b3
<1> QED
  BY <1>3, <1>8 DEF b1, b2, b3, m, m2, m3, ByteModulus

(***************************************************************************)
(* What STR and STM leave in memory is what LDR and LDM find there: the    *)
(* word at the address of a store is the word stored, whatever was there   *)
(* and whether or not the address is a multiple of four, and no other byte *)
(* changes.  The hypothesis on the width is that a word is four bytes.     *)
(***************************************************************************)
THEOREM StoredWordsReadBack ==
  ASSUME NEW bytes \in [Ram -> Byte], NEW a \in Int, Bytes(a, 4) \subseteq Ram,
         NEW w \in Word, WordBits = 4 * ByteBits
  PROVE  /\ WordIn(AfterStore(bytes, a, 4, w), a) = w
         /\ \A b \in Ram \ Bytes(a, 4) : AfterStore(bytes, a, 4, w)[b] = bytes[b]
<1> DEFINE after == AfterStore(bytes, a, 4, w)
           x == ByteOf(w, 1) * 2^ByteBits
           y == ByteOf(w, 2) * 2^(2 * ByteBits)
           z == ByteOf(w, 3) * 2^(3 * ByteBits)
<1>1. /\ after[a] = ByteOf(w, 0) /\ after[a + 1] = ByteOf(w, 1)
      /\ after[a + 2] = ByteOf(w, 2) /\ after[a + 3] = ByteOf(w, 3)
  <2>1. {a, a + 1, a + 2, a + 3} \subseteq Bytes(a, 4)
    BY DEF Bytes
  <2>2. a - a = 0 /\ (a + 1) - a = 1 /\ (a + 2) - a = 2 /\ (a + 3) - a = 3
    OBVIOUS
  <2> QED
    BY <2>1, <2>2 DEF AfterStore
<1>2. WordIn(after, a) = Wrap(ByteOf(w, 0) + Wrap(x) + Wrap(y) + Wrap(z))
  BY <1>1 DEF WordIn, ShiftLeft
<1>3. ByteOf(w, 0) \in Int /\ x \in Int /\ y \in Int /\ z \in Int
  <2>1. \A k \in 0 .. 3 : ByteOf(w, k) \in Int
    BY ByteOfType, ByteFacts, WordRange
  <2>2. 2^ByteBits \in Int /\ 2^(2 * ByteBits) \in Int /\ 2^(3 * ByteBits) \in Int
    BY ByteFacts, PowerType
  <2> QED
    BY <2>1, <2>2
<1>4. ByteOf(w, 0) + x + y + z = w
  BY BytesOfWord
<1> HIDE DEF x, y, z, after
<1>5. Wrap(x) \in Int /\ Wrap(y) \in Int /\ Wrap(z) \in Int
  BY <1>3, WrapType, WordRange
<1> DEFINE o == ByteOf(w, 0)
<1>6. o \in Int
  BY <1>3
<1> HIDE DEF o
<1>7. Wrap(o + Wrap(x) + Wrap(y) + Wrap(z)) = Wrap(o + x + y + z)
  <2>1. Wrap(Wrap(x) + (o + Wrap(y) + Wrap(z))) = Wrap(x + (o + Wrap(y) + Wrap(z)))
    <3>1. x \in Int /\ o + Wrap(y) + Wrap(z) \in Int
      BY <1>3, <1>5, <1>6
    <3> QED
      BY <3>1, WrapAbsorbs
  <2>2. Wrap(Wrap(y) + (o + x + Wrap(z))) = Wrap(y + (o + x + Wrap(z)))
    BY <1>3, <1>5, <1>6, WrapAbsorbs, SMTT(30)
  <2>3. Wrap(Wrap(z) + (o + x + y)) = Wrap(z + (o + x + y))
    BY <1>3, <1>5, <1>6, WrapAbsorbs
  <2>4. /\ o + Wrap(x) + Wrap(y) + Wrap(z) = Wrap(x) + (o + Wrap(y) + Wrap(z))
        /\ x + (o + Wrap(y) + Wrap(z)) = Wrap(y) + (o + x + Wrap(z))
        /\ y + (o + x + Wrap(z)) = Wrap(z) + (o + x + y)
        /\ z + (o + x + y) = o + x + y + z
    BY <1>3, <1>5, <1>6
  <2> QED
    BY <2>1, <2>2, <2>3, <2>4
<1>8. WordIn(after, a) = w
  BY <1>2, <1>4, <1>7, WrapWord DEF o
<1>9. \A b \in Ram \ Bytes(a, 4) : after[b] = bytes[b]
  BY DEF after, AfterStore
<1> QED
  BY <1>8, <1>9 DEF after

-----------------------------------------------------------------------------
(* STRH.                                                                   *)

\* A byte of a memory after a store of two bytes.
LEMMA AfterHalf ==
  ASSUME NEW bytes \in [Ram -> Byte], NEW a \in Int, NEW w
  PROVE  /\ a \in Ram => AfterStore(bytes, a, 2, w)[a] = ByteOf(w, 0)
         /\ a + 1 \in Ram => AfterStore(bytes, a, 2, w)[a + 1] = ByteOf(w, 1)
         /\ \A b \in Ram \ {a, a + 1} : AfterStore(bytes, a, 2, w)[b] = bytes[b]
<1>1. DOMAIN bytes = Ram
  OBVIOUS
<1>2. a \in Bytes(a, 2) /\ a + 1 \in Bytes(a, 2) /\ a - a = 0 /\ (a + 1) - a = 1
  BY DEF Bytes
<1>3. \A b \in Ram \ {a, a + 1} : b \notin Bytes(a, 2)
  BY MemSizeAssumption DEF Bytes, Ram
<1> QED
  BY <1>1, <1>2, <1>3 DEF AfterStore

\* What a store of a halfword makes of the memory.
LEMMA AfterHalfStoredBytes ==
  ASSUME NEW t, t.rd \in Register, t.p \in BOOLEAN, NEW a \in Word, Data(StoredBytes(t, a)),
         registers \in [Register -> Word], ram \in [Ram -> Byte]
  PROVE  LET spoilt == IF t.p \/ a % 4 = 0 THEN {} ELSE {a - 2, a - 1}
         IN  /\ AfterHalfStored(t, a)[a] + ByteModulus * AfterHalfStored(t, a)[a + 1]
                  = registers[t.rd] % HalfModulus
             /\ \A b \in Ram \ ({a, a + 1} \cup spoilt) : AfterHalfStored(t, a)[b] = ram[b]
<1> DEFINE w == registers[t.rd]
<1>1. a \in Int /\ w \in Word
  BY WordRange
<1>2. a \in Ram /\ a + 1 \in Ram
  BY <1>1 DEF Data, StoredBytes, Bytes
<1>3. ByteOf(w, 0) + ByteModulus * ByteOf(w, 1) = w % HalfModulus
  BY <1>1, BytesOfHalf
<1> HIDE DEF w
<1>4. CASE ~Misplaces(t, a)
  <2>1. AfterHalfStored(t, a) = AfterStore(ram, a, 2, w)
    BY <1>4 DEF AfterHalfStored, StoreBytes, w
  <2> QED
    BY <1>1, <1>2, <1>3, <2>1, AfterHalf DEF w
<1>5. CASE Misplaces(t, a)
  <2> DEFINE below == StoreBytes(a - 2, 2, HalfAt(a))
  <2>1. AfterHalfStored(t, a) = AfterStore(below, a, 2, w)
    BY <1>5 DEF AfterHalfStored, w
  <2>2. below \in [Ram -> Byte]
    <3>1. HalfAt(a) \in Word
      <4>1. ram[a] \in Int /\ ram[a + 1] \in Word
        BY <1>2, ByteFacts, WordRange
      <4>2. ShiftLeft(ram[a + 1], ByteBits) \in Int
        BY <4>1, ByteFacts, ShiftTypes, WordRange
      <4>3. ram[a] + ShiftLeft(ram[a + 1], ByteBits) \in Int
        BY <4>1, <4>2
      <4> QED
        BY <4>3, WrapType DEF HalfAt
    <3>2. a - 2 \in Int
      BY <1>1
    <3> QED
      BY <3>1, <3>2, StoreBytesType
  <2>3. \A b \in Ram \ {a - 2, a - 1} : below[b] = ram[b]
    <3>1. a - 2 \in Int /\ (a - 2) + 1 = a - 1
      BY <1>1
    <3> QED
      BY <3>1, AfterHalf DEF StoreBytes
  <2>4. ~(t.p \/ a % 4 = 0)
    BY <1>5 DEF Misplaces, Aligned
  <2> HIDE DEF below
  <2> QED
    BY <1>1, <1>2, <1>3, <2>1, <2>2, <2>3, <2>4, AfterHalf DEF w
<1> QED
  BY <1>4, <1>5

(***************************************************************************)
(* STRH writes the low half of its register at its address and no other    *)
(* byte, but for the two below where it is misplaced, and moves the base   *)
(* by the distance, or two short of it.                                    *)
(***************************************************************************)
THEOREM HalfwordStoreIsExact == Spec => StoresOnlyItsHalfword
<1> DEFINE Claim ==
      StoresHalfword /\ phase' = "fetch" =>
        LET a == StoreAddress
            spoilt == IF instruction.p \/ a % 4 = 0 THEN {} ELSE {a - 2, a - 1}
        IN  /\ ram'[a] + ByteModulus * ram'[a + 1] = registers[instruction.rd] % HalfModulus
            /\ \A b \in Ram \ ({a, a + 1} \cup spoilt) : ram'[b] = ram[b]
            /\ registers'[instruction.rn] # registers[instruction.rn] =>
                 \/ registers'[instruction.rn] = MovedBase
                 \/ MovedBase % 4 = 0 /\ registers'[instruction.rn] = Wrap(MovedBase - 2)
            /\ \A r \in Register \ {instruction.rn} : registers'[r] = registers[r]
<1>1. IInv /\ [Next]_vars => [Claim]_vars
  <2> SUFFICES ASSUME IInv, Next, StoresHalfword, phase' = "fetch" PROVE Claim
    OBVIOUS
  <2> DEFINE t == instruction
             a == StoreAddress
  <2>1. /\ t \in HalfwordImmediateInstruction /\ Machine /\ phase = "evaluate"
        /\ ~t.load /\ t.rn # PC
    BY Parts, FormatType DEF StoresHalfword, Executing, Machine
  <2>2. /\ t.rn \in Register /\ t.rd \in Register /\ t.p \in BOOLEAN
        /\ t.distance \in Int /\ registers[t.rn] \in Word
    BY <2>1 DEF HalfwordImmediateInstruction, Machine
  <2>3. MovedBase \in Word /\ a \in Word
    BY <2>2, DisplacedType DEF MovedBase, StoreAddress
  <2>4. ImmediateTransfer(t)
    <3>1. halfwordDataTransferImmediateOffEval
      BY OnlyTheTransfer DEF StoresHalfword
    <3> QED
      BY <2>1, <3>1 DEF halfwordDataTransferImmediateOffEval
  <2>5. /\ Data(StoredBytes(t, a))
        /\ registers' = Based(t, registers, Retreated(MovedBase))
        /\ ram' = AfterHalfStored(t, a)
    BY <2>1, <2>4
       DEF ImmediateTransfer, Access, Overreach, Escape, MovedBase, StoreAddress
  <2>6. LET spoilt == IF t.p \/ a % 4 = 0 THEN {} ELSE {a - 2, a - 1}
        IN  /\ ram'[a] + ByteModulus * ram'[a + 1] = registers[t.rd] % HalfModulus
            /\ \A b \in Ram \ ({a, a + 1} \cup spoilt) : ram'[b] = ram[b]
    BY <2>1, <2>2, <2>3, <2>5, AfterHalfStoredBytes DEF Machine
  <2>7. /\ registers'[t.rn] # registers[t.rn] => registers'[t.rn] = Retreated(MovedBase)
        /\ \A r \in Register \ {t.rn} : registers'[r] = registers[r]
    BY <2>1, <2>2, <2>5 DEF Based, Machine
  <2>8. \/ Retreated(MovedBase) = MovedBase
        \/ MovedBase % 4 = 0 /\ Retreated(MovedBase) = Wrap(MovedBase - 2)
    BY DEF Retreated, Aligned
  <2> QED
    BY <2>6, <2>7, <2>8
<1>2. Spec => [][Claim]_vars
  BY <1>1, InvariantHolds, PTL DEF Spec
<1> QED
  BY <1>2 DEF StoresOnlyItsHalfword

-----------------------------------------------------------------------------
(* Block transfers.  Where the loop is.                                    *)

\* The index runs up from r0 or down from r15 and leaves the register numbers
\* at the far end only: without this a loop upwards at -1 would finish with
\* registers still pending.
LoopInv == phase = "transfer" => IF instruction.u THEN i >= 0 ELSE i <= 15

BlockInv == IInv /\ LoopInv

\* Where the loop stands when it is under way.
LEMMA BlockFacts ==
  ASSUME BlockInv
  PROVE  /\ registers \in [Register -> Word] /\ ram \in [Ram -> Byte]
         /\ offset \in Word /\ i \in -1 .. 16
         /\ phase = "transfer" => instruction \in BlockTransferInstruction
BY Parts, FormatType DEF BlockInv, Machine, Control, RunInv

\* The bound on the index is inductive.
LEMMA BlockInvNext == BlockInv /\ [Next]_vars => BlockInv'
<1> SUFFICES ASSUME BlockInv, [Next]_vars PROVE BlockInv'
  OBVIOUS
<1>1. IInv'
  BY NextInv DEF BlockInv
<1>2. LoopInv'
  <2>1. CASE UNCHANGED vars
    BY <2>1 DEF vars, BlockInv, LoopInv
  <2>2. CASE Next /\ phase' = "transfer"
    <3>1. BeginTransfer \/ SkipRegister \/ TransferRegister \/ EscapeTransfer \/ EndTransfer
      BY <2>2, OnlyBlockSteps
    <3>2. ~EscapeTransfer /\ ~EndTransfer
      BY <2>2 DEF EscapeTransfer, EndTransfer, Escape, Abort, Complete
    <3>3. CASE BeginTransfer
      BY <3>3 DEF BeginTransfer, First, LoopInv
    <3>4. CASE SkipRegister \/ TransferRegister
      <4>1. phase = "transfer" /\ i \in Register
        BY <3>4, BlockFacts DEF SkipRegister, TransferRegister, BlockTransferInstruction
      <4>2. instruction' = instruction /\ i' = Advance(instruction, i)
        BY <3>4 DEF SkipRegister, TransferRegister
      <4> QED
        BY <4>1, <4>2 DEF Advance, Register, LoopInv
    <3> QED
      BY <3>1, <3>2, <3>3, <3>4
  <2>3. CASE phase' # "transfer"
    BY <2>3 DEF LoopInv
  <2> QED
    BY <2>1, <2>2, <2>3
<1> QED
  BY <1>1, <1>2 DEF BlockInv

-----------------------------------------------------------------------------
(* The registers on either side of the index.                              *)

Below(list, n) == {q \in list : q < n}
Above(list, n) == {q \in list : q > n}

\* Register lists are finite, and so is what lies below or above an index.
LEMMA CountType ==
  ASSUME NEW list \in SUBSET Register, NEW n \in Int
  PROVE  /\ IsFiniteSet(list) /\ Cardinality(list) \in Nat
         /\ IsFiniteSet(Below(list, n)) /\ Cardinality(Below(list, n)) \in Nat
         /\ IsFiniteSet(Above(list, n)) /\ Cardinality(Above(list, n)) \in Nat
<1>1. IsFiniteSet(Register)
  <2>1. 0 \in Int /\ 15 \in Int
    OBVIOUS
  <2>2. IsFiniteSet(0 .. 15)
    BY <2>1, FS_Interval
  <2> QED
    BY <2>2 DEF Register
<1>2. /\ list \in SUBSET Register /\ Below(list, n) \in SUBSET Register
      /\ Above(list, n) \in SUBSET Register
  BY DEF Below, Above
<1>3. IsFiniteSet(list) /\ IsFiniteSet(Below(list, n)) /\ IsFiniteSet(Above(list, n))
  BY <1>1, <1>2, FS_Subset
<1> QED
  BY <1>3, FS_CardinalityType

\* One listed register further there is one more below, and one fewer above.
LEMMA CountStep ==
  ASSUME NEW list \in SUBSET Register, NEW n \in list
  PROVE  /\ Cardinality(Below(list, n + 1)) = Cardinality(Below(list, n)) + 1
         /\ Cardinality(Above(list, n - 1)) = Cardinality(Above(list, n)) + 1
<1>1. n \in Int /\ n + 1 \in Int /\ n - 1 \in Int /\ \A q \in list : q \in Int
  BY DEF Register
<1>2. /\ Below(list, n + 1) = Below(list, n) \cup {n} /\ n \notin Below(list, n)
      /\ Above(list, n - 1) = Above(list, n) \cup {n} /\ n \notin Above(list, n)
  <2>1. /\ \A q \in list : /\ q < n + 1 <=> q < n \/ q = n
                          /\ q > n - 1 <=> q > n \/ q = n
        /\ ~(n < n) /\ ~(n > n)
    BY <1>1
  <2>2. ASSUME NEW S, S \subseteq list, NEW T, \A q : q \in T <=> q \in S \/ q = n
        PROVE  T = S \cup {n}
    BY <2>2, Zenon
  <2>3. \A q : q \in Below(list, n + 1) <=> q \in Below(list, n) \/ q = n
    <3> TAKE q
    <3>1. CASE q \in list
      BY <1>1, <3>1 DEF Below
    <3>2. CASE q \notin list
      BY <3>2 DEF Below
    <3> QED
      BY <3>1, <3>2
  <2>4. \A q : q \in Above(list, n - 1) <=> q \in Above(list, n) \/ q = n
    <3> TAKE q
    <3>1. CASE q \in list
      BY <1>1, <3>1 DEF Above
    <3>2. CASE q \notin list
      BY <3>2 DEF Above
    <3> QED
      BY <3>1, <3>2
  <2>5. Below(list, n) \subseteq list /\ Above(list, n) \subseteq list
    BY Zenon DEF Below, Above
  <2> QED
    BY <2>1, <2>2, <2>3, <2>4, <2>5, Zenon DEF Below, Above
<1>3. IsFiniteSet(Below(list, n)) /\ IsFiniteSet(Above(list, n))
  BY <1>1, CountType
<1> QED
  BY <1>2, <1>3, FS_AddElement

\* A listed register divides the list.
LEMMA CountSplit ==
  ASSUME NEW list \in SUBSET Register, NEW n \in list
  PROVE  Cardinality(list) = Cardinality(Below(list, n)) + 1 + Cardinality(Above(list, n))
<1>1. n \in Int /\ n + 1 \in Int /\ n - 1 \in Int /\ \A q \in list : q \in Int
  BY DEF Register
<1>2. /\ list = Below(list, n + 1) \cup Above(list, n)
      /\ Below(list, n + 1) \cap Above(list, n) = {}
  <2>1. \A q \in list : q < n + 1 <=> ~(q > n)
    BY <1>1
  <2> QED
    BY <2>1, Zenon DEF Below, Above
<1>3. /\ IsFiniteSet(Below(list, n + 1)) /\ IsFiniteSet(Above(list, n))
      /\ Cardinality(Below(list, n + 1)) \in Nat /\ Cardinality(Above(list, n)) \in Nat
      /\ Cardinality(Below(list, n)) \in Nat
  BY <1>1, CountType
<1>4. Cardinality(Below(list, n + 1) \cup Above(list, n))
        = Cardinality(Below(list, n + 1)) + Cardinality(Above(list, n))
  BY <1>2, <1>3, FS_Union, FS_EmptySet
<1>5. Cardinality(Below(list, n + 1)) = Cardinality(Below(list, n)) + 1
  BY CountStep
<1> QED
  BY <1>2, <1>3, <1>4, <1>5

\* The registers the loop has passed are those below its index, or above it.
LEMMA PassedRegisters ==
  ASSUME NEW list \in SUBSET Register, NEW n \in Int
  PROVE  /\ list \ {r \in list : r >= n} = Below(list, n)
         /\ list \ {r \in list : r <= n} = Above(list, n)
<1>1. \A q \in list : (~(q >= n) <=> q < n) /\ (~(q <= n) <=> q > n)
  BY DEF Register
<1> QED
  BY <1>1, Zenon DEF Below, Above

-----------------------------------------------------------------------------
(* Addresses and bases.                                                    *)

\* Going back by what was added, modulo the modulus.
LEMMA WrapReturns ==
  ASSUME NEW x \in Int, NEW y \in Int, NEW z \in Int
  PROVE  /\ Wrap(Wrap(x - y) + (y + z)) = Wrap(x + z)
         /\ Wrap(Wrap(x + y) - (y + z)) = Wrap(x - z)
<1>1. Wrap(Wrap(x - y) + (y + z)) = Wrap((x - y) + (y + z))
  BY WrapAbsorbs
<1>2. Wrap(Wrap(x + y) + (-(y + z))) = Wrap((x + y) + (-(y + z)))
  BY WrapAbsorbs
<1>3. /\ (x - y) + (y + z) = x + z /\ (x + y) + (-(y + z)) = x - z
      /\ Wrap(x + y) + (-(y + z)) = Wrap(x + y) - (y + z)
  <2>1. x + y \in Int
    OBVIOUS
  <2>2. Wrap(x + y) \in Int
    BY <2>1, WrapType, WordRange
  <2> QED
    BY <2>2
<1> QED
  BY <1>1, <1>2, <1>3

\* The base the loop started from, in terms of its index.
LEMMA BaseOfLoop ==
  ASSUME BlockInv, phase = "transfer"
  PROVE  OriginalBase =
           IF instruction.u
           THEN Wrap(offset - 4 * Cardinality(Below(instruction.registerList, i)))
           ELSE Wrap(offset + 4 * Cardinality(Above(instruction.registerList, i)))
<1>1. instruction.registerList \in SUBSET Register /\ i \in Int
  BY BlockFacts DEF BlockTransferInstruction
<1> QED
  BY <1>1, PassedRegisters DEF OriginalBase, Moved, Pending

\* The instance counts and wraps as the machine does.
LEMMA SameOperators ==
  /\ \A S : Transfers!Cardinality(S) = Cardinality(S)
  /\ \A x : Transfers!Wrap(x) = Wrap(x)
<1>1. \A S : Transfers!Cardinality(S) = Cardinality(S)
  BY DEF Transfers!Cardinality, Cardinality
<1>2. \A x : Transfers!Wrap(x) = Wrap(x)
  BY DEF Transfers!Wrap, Wrap, Transfers!Modulus, Modulus, Transfers!SignBit, SignBit
<1> QED
  BY <1>1, <1>2

\* The word the loop moves its register to or from is the register's slot.
LEMMA SlotIsAddress ==
  ASSUME BlockInv, phase = "transfer", i \in instruction.registerList
  PROVE  Transfers!Address(i) = Slot(instruction)
<1> DEFINE t == instruction
           list == t.registerList
           below == Cardinality(Below(list, i))
           above == Cardinality(Above(list, i))
           size == Cardinality(list)
<1>1. t \in BlockTransferInstruction /\ offset \in Int /\ offset = Wrap(offset)
  BY BlockFacts, WordRange, WrapWord
<1>2. list \in SUBSET Register /\ t.u \in BOOLEAN /\ t.p \in BOOLEAN /\ i \in Int
  BY <1>1, BlockFacts DEF BlockTransferInstruction
<1>3. below \in Nat /\ above \in Nat /\ size = below + 1 + above
  BY <1>2, CountType, CountSplit
<1>4. Transfers!Address(i) = Wrap(Transfers!Lowest + 4 * below)
  BY SameOperators DEF Transfers!Address, Below
<1>5. Transfers!Lowest =
        IF t.u THEN IF t.p THEN OriginalBase + 4 ELSE OriginalBase
        ELSE IF t.p THEN OriginalBase - 4 * size ELSE OriginalBase - 4 * size + 4
  BY <1>2, SameOperators DEF Transfers!Lowest, Transfers!Size
<1>6. OriginalBase = IF t.u THEN Wrap(offset - 4 * below) ELSE Wrap(offset + 4 * above)
  BY BaseOfLoop
<1>7. Slot(t) = IF ~t.p THEN offset ELSE IF t.u THEN Wrap(offset + 4) ELSE Wrap(offset - 4)
  BY DEF Slot, Stride
<1> HIDE DEF below, above, size
<1>8. CASE t.u
  <2>0. 4 * below \in Int /\ offset - 4 * below \in Int
    BY <1>1, <1>3
  <2>1. OriginalBase \in Int
    BY <1>6, <1>8, <2>0, WrapType, WordRange
  <2>2. \A z \in {0, 4} :
          Wrap(Wrap(offset - 4 * below) + (4 * below + z)) = Wrap(offset + z)
    <3> DEFINE y == 4 * below
    <3>1. \A z \in Int : Wrap(Wrap(offset - y) + (y + z)) = Wrap(offset + z)
      <4> HIDE DEF y
      <4> QED
        BY <1>1, <2>0, WrapReturns DEF y
    <3> QED
      BY <3>1
  <2>3. /\ OriginalBase + (4 * below + 0) = OriginalBase + 4 * below
        /\ OriginalBase + (4 * below + 4) = OriginalBase + 4 + 4 * below
        /\ offset + 0 = offset
    BY <1>1, <2>0, <2>1
  <2> QED
    <3>1. CASE t.p
      BY <1>4, <1>5, <1>6, <1>7, <1>8, <2>2, <2>3, <3>1
    <3>2. CASE ~t.p
      BY <1>1, <1>4, <1>5, <1>6, <1>7, <1>8, <2>2, <2>3, <3>2
    <3> QED
      BY <3>1, <3>2
<1>9. CASE ~t.u
  <2>0. 4 * above \in Int /\ offset + 4 * above \in Int
    BY <1>1, <1>3
  <2>1. OriginalBase \in Int
    BY <1>6, <1>9, <2>0, WrapType, WordRange
  <2>2. \A z \in {0, 4} :
          Wrap(Wrap(offset + 4 * above) - (4 * above + z)) = Wrap(offset - z)
    <3> DEFINE y == 4 * above
    <3>1. \A z \in Int : Wrap(Wrap(offset + y) - (y + z)) = Wrap(offset - z)
      <4> HIDE DEF y
      <4> QED
        BY <1>1, <2>0, WrapReturns DEF y
    <3> QED
      BY <3>1
  <2>3. /\ OriginalBase - 4 * size + 4 * below = OriginalBase - (4 * above + 4)
        /\ OriginalBase - 4 * size + 4 + 4 * below = OriginalBase - (4 * above + 0)
        /\ offset - 0 = offset
    BY <1>1, <1>3, <2>1
  <2> QED
    <3>1. CASE t.p
      BY <1>4, <1>5, <1>6, <1>7, <1>9, <2>2, <2>3, <3>1
    <3>2. CASE ~t.p
      BY <1>1, <1>4, <1>5, <1>6, <1>7, <1>9, <2>2, <2>3, <3>2
    <3> QED
      BY <3>1, <3>2
<1> QED
  BY <1>8, <1>9

-----------------------------------------------------------------------------
(* The steps of the loop are steps of the promise.                         *)

\* The handler of a block transfer begins one: nothing has been moved.
LEMMA BeginStep == ASSUME BlockInv, BeginTransfer PROVE Transfers!Begin
<1> DEFINE list == instruction.registerList
<1>1. /\ phase = "evaluate" /\ phase' = "transfer" /\ instruction' = instruction
      /\ offset' = registers[instruction.rn] /\ i' = First(instruction)
      /\ instruction.format = "block_data_transfer"
      /\ registers' = registers /\ ram' = ram
  BY DEF BeginTransfer, Executing, memory
<1>2. instruction \in BlockTransferInstruction
  BY <1>1, FormatType DEF BlockInv, IInv, TypeOK
<1>3. list \in SUBSET Register /\ instruction.u \in BOOLEAN /\ instruction.rn \in Register
  BY <1>2 DEF BlockTransferInstruction
<1>4. Pending' = list
  BY <1>1, <1>3 DEF Pending, First, Register
<1>5. Moved' = 0
  <2>1. list \ Pending' = {}
    BY <1>4
  <2> QED
    BY <1>1, <2>1, FS_EmptySet DEF Moved
<1>6. OriginalBase' = registers[instruction.rn]
  <2>1. registers[instruction.rn] \in Word
    BY <1>3, BlockFacts
  <2>2. \A x \in Int : x - 4 * 0 = x /\ x + 4 * 0 = x
    OBVIOUS
  <2> QED
    BY <1>1, <1>5, <2>1, <2>2, WordRange, WrapWord DEF OriginalBase
<1> QED
  BY <1>1, <1>4, <1>6 DEF Transfers!Begin

\* An unlisted register changes nothing of the promise.
LEMMA SkipStep == ASSUME BlockInv, SkipRegister PROVE UNCHANGED Transfers!transferVars
<1> DEFINE list == instruction.registerList
<1>1. /\ phase = "transfer" /\ phase' = phase /\ instruction' = instruction
      /\ i \in Register /\ i \notin list /\ i' = Advance(instruction, i)
      /\ offset' = offset /\ registers' = registers /\ ram' = ram
  BY DEF SkipRegister, memory
<1>2. list \in SUBSET Register
  BY <1>1, BlockFacts DEF BlockTransferInstruction
<1>3. Pending' = Pending
  <2>1. \A r \in list : r \in Int /\ r # i
    BY <1>1, <1>2 DEF Register
  <2>2. \A r \in list : (r >= i + 1 <=> r >= i) /\ (r <= i - 1 <=> r <= i)
    BY <1>1, <2>1 DEF Register
  <2> QED
    BY <1>1, <2>2 DEF Pending, Advance
<1>4. OriginalBase' = OriginalBase
  BY <1>1, <1>3 DEF OriginalBase, Moved
<1> QED
  BY <1>1, <1>3, <1>4 DEF Transfers!transferVars

\* The base the promise starts from does not move with the offset.
LEMMA BaseStays == ASSUME BlockInv, TransferRegister PROVE OriginalBase' = OriginalBase
<1> DEFINE t == instruction
           list == t.registerList
           below == Cardinality(Below(list, i))
           above == Cardinality(Above(list, i))
<1>1. /\ phase = "transfer" /\ i \in list /\ instruction' = instruction
      /\ i' = Advance(t, i) /\ offset' = Stride(t, offset)
  BY DEF TransferRegister
<1>2. /\ list \in SUBSET Register /\ i \in Int /\ i + 1 \in Int /\ i - 1 \in Int
      /\ offset \in Int
  <2>1. list \in SUBSET Register /\ offset \in Word
    BY <1>1, BlockFacts DEF BlockTransferInstruction
  <2>2. i \in Int
    BY BlockFacts
  <2> QED
    BY <2>1, <2>2, WordRange
<1>3. below \in Nat /\ above \in Nat
  BY <1>2, CountType
<1>4. OriginalBase = IF t.u THEN Wrap(offset - 4 * below) ELSE Wrap(offset + 4 * above)
  BY <1>1, BaseOfLoop
<1>5. Moved' = IF t.u THEN below + 1 ELSE above + 1
  <2>1. list \ {r \in list : r >= i + 1} = Below(list, i + 1)
    BY <1>2, PassedRegisters
  <2>2. list \ {r \in list : r <= i - 1} = Above(list, i - 1)
    BY <1>2, PassedRegisters
  <2> QED
    BY <1>1, <1>2, <2>1, <2>2, CountStep DEF Moved, Pending, Advance
<1>6. OriginalBase' = IF t.u THEN Wrap(Wrap(offset + 4) - (4 + 4 * below))
                      ELSE Wrap(Wrap(offset - 4) + (4 + 4 * above))
  <2>1. 4 * (below + 1) = 4 + 4 * below /\ 4 * (above + 1) = 4 + 4 * above
    BY <1>3
  <2> QED
    BY <1>1, <1>5, <2>1 DEF OriginalBase, Stride
<1> HIDE DEF below, above
<1>7. 4 * below \in Int /\ 4 * above \in Int
  BY <1>3
<1>8. /\ Wrap(Wrap(offset + 4) - (4 + 4 * below)) = Wrap(offset - 4 * below)
      /\ Wrap(Wrap(offset - 4) + (4 + 4 * above)) = Wrap(offset + 4 * above)
  <2> DEFINE y == 4 * below
             z == 4 * above
  <2>1. y \in Int /\ z \in Int /\ 4 \in Int
    BY <1>7
  <2> HIDE DEF y, z
  <2>2. Wrap(Wrap(offset + 4) - (4 + y)) = Wrap(offset - y)
    BY <1>2, <2>1, WrapReturns, ZenonT(40)
  <2>3. Wrap(Wrap(offset - 4) + (4 + z)) = Wrap(offset + z)
    BY <1>2, <2>1, WrapReturns, ZenonT(40)
  <2> QED
    BY <2>2, <2>3 DEF y, z
<1> QED
  BY <1>4, <1>6, <1>8

\* The bytes and words of the instance are the machine's.
LEMMA SameMemory ==
  /\ \A a, n : Transfers!Bytes(a, n) = Bytes(a, n)
  /\ \A bytes, a : Transfers!WordIn(bytes, a) = WordIn(bytes, a)
  /\ \A bytes, a, n, w : Transfers!AfterStore(bytes, a, n, w) = AfterStore(bytes, a, n, w)
<1>1. \A a, n : Transfers!Bytes(a, n) = Bytes(a, n)
  BY DEF Transfers!Bytes, Bytes
<1>2. \A x, n : /\ Transfers!ShiftLeft(x, n) = ShiftLeft(x, n)
                /\ Transfers!ShiftRight(x, n) = ShiftRight(x, n)
  BY SameOperators DEF Transfers!ShiftLeft, ShiftLeft, Transfers!ShiftRight, ShiftRight
<1>3. Transfers!ByteBits = ByteBits /\ Transfers!ByteModulus = ByteModulus
  BY DEF Transfers!ByteBits, ByteBits, Transfers!ByteModulus, ByteModulus
<1>4. \A w, k : Transfers!ByteOf(w, k) = ByteOf(w, k)
  BY <1>2, <1>3 DEF Transfers!ByteOf, ByteOf
<1>5. \A bytes, a : Transfers!WordIn(bytes, a) = WordIn(bytes, a)
  BY <1>2, <1>3, SameOperators DEF Transfers!WordIn, WordIn
<1>6. ASSUME NEW bytes, NEW a, NEW n, NEW w
      PROVE  Transfers!AfterStore(bytes, a, n, w) = AfterStore(bytes, a, n, w)
  BY <1>1, <1>4 DEF Transfers!AfterStore, AfterStore
<1> QED
  BY <1>1, <1>5, <1>6

\* A listed register is moved, at its own address.
LEMMA MoveStep ==
  ASSUME BlockInv, TransferRegister
  PROVE  \E r \in Pending : Transfers!Move(r)
<1> DEFINE t == instruction
           list == t.registerList
<1>1. /\ phase = "transfer" /\ phase' = "transfer" /\ i \in list /\ instruction' = instruction
      /\ i' = Advance(t, i) /\ Data(Bytes(Slot(t), 4))
  BY DEF TransferRegister
<1>2. list \in SUBSET Register /\ i \in Int
  BY <1>1, BlockFacts DEF BlockTransferInstruction
<1>3. Transfers!Address(i) = Slot(t)
  BY <1>1, SlotIsAddress
<1>4. OriginalBase' = OriginalBase
  BY BaseStays
<1>5. i \in Pending /\ Pending' = Pending \ {i}
  <2>1. \A r \in list : /\ r >= i + 1 <=> r >= i /\ r # i
                        /\ r <= i - 1 <=> r <= i /\ r # i
                        /\ i >= i /\ i <= i
    BY <1>2 DEF Register
  <2> QED
    BY <1>1, <2>1 DEF Pending, Advance
<1>6. Transfers!Bytes(Transfers!Address(i), 4) \subseteq DOMAIN ram
  <2>1. DOMAIN ram = Ram
    BY BlockFacts
  <2> QED
    BY <1>1, <1>3, <2>1, SameMemory DEF Data
<1>7. CASE t.l
  <2>1. registers' = [registers EXCEPT ![i] = WordIn(ram, Slot(t))] /\ ram' = ram
    BY <1>7 DEF TransferRegister, WordAt
  <2> QED
    BY <1>1, <1>3, <1>4, <1>5, <1>6, <1>7, <2>1, SameMemory DEF Transfers!Move
<1>8. CASE ~t.l
  <2>1. /\ ram' = AfterStore(ram, Slot(t), 4, StoredRegister(i))
        /\ registers' = registers
    BY <1>8 DEF TransferRegister, StoreBytes
  <2>2. Transfers!Held(i) = StoredRegister(i)
    BY SameOperators DEF Transfers!Held, StoredRegister, PC
  <2> QED
    BY <1>1, <1>3, <1>4, <1>5, <1>6, <1>8, <2>1, <2>2, SameMemory DEF Transfers!Move
<1> QED
  BY <1>7, <1>8

\* The loop ends with every register moved, and writes the moved base back.
LEMMA FinishStep == ASSUME BlockInv, EndTransfer PROVE Transfers!Finish
<1> DEFINE t == instruction
           list == t.registerList
           size == Cardinality(list)
<1>1. /\ phase = "transfer" /\ phase' # "transfer" /\ i \notin Register
      /\ registers' = IF t.w THEN [registers EXCEPT ![t.rn] = offset] ELSE registers
      /\ ram' = ram
  BY DEF EndTransfer, Abort, Complete, memory
<1>2. list \in SUBSET Register /\ offset \in Word /\ offset \in Int /\ t.u \in BOOLEAN
  BY <1>1, BlockFacts, WordRange DEF BlockTransferInstruction
<1>3. IF t.u THEN i = 16 ELSE i = -1
  BY <1>1, BlockFacts DEF BlockInv, LoopInv, Register
<1>4. Pending = {}
  BY <1>2, <1>3 DEF Pending, Register
<1>5. Moved = size
  <2>1. list \ Pending = list
    BY <1>4
  <2> QED
    BY <2>1 DEF Moved
<1>6. size \in Nat
  BY <1>2, CountType
<1>7. OriginalBase = IF t.u THEN Wrap(offset - 4 * size) ELSE Wrap(offset + 4 * size)
  BY <1>5 DEF OriginalBase
<1>8. /\ Wrap(Wrap(offset - 4 * size) + 4 * size) = offset
      /\ Wrap(Wrap(offset + 4 * size) - 4 * size) = offset
  <2> DEFINE y == 4 * size
  <2>1. y \in Int /\ 0 \in Int
    BY <1>6
  <2> HIDE DEF y
  <2>2. /\ Wrap(Wrap(offset - y) + (y + 0)) = Wrap(offset + 0)
        /\ Wrap(Wrap(offset + y) - (y + 0)) = Wrap(offset - 0)
    BY <1>2, <2>1, WrapReturns
  <2>3. y + 0 = y /\ offset + 0 = offset /\ offset - 0 = offset
    BY <1>2, <2>1
  <2> QED
    BY <1>2, <2>2, <2>3, WrapWord DEF y
<1>9. Transfers!Wrap(IF t.u THEN OriginalBase + Transfers!Size
                     ELSE OriginalBase - Transfers!Size) = offset
  BY <1>7, <1>8, SameOperators DEF Transfers!Size
<1> QED
  BY <1>1, <1>4, <1>9 DEF Transfers!Finish

\* A bad address ends the transfer early and changes nothing.
LEMMA StopStep == ASSUME BlockInv, EscapeTransfer PROVE Transfers!Stop
<1>1. /\ phase = "transfer" /\ phase' # "transfer" /\ i \in instruction.registerList
      /\ registers' = registers /\ ram' = ram
  BY DEF EscapeTransfer, Escape, memory
<1>2. i \in Pending
  <2>1. i \in Int
    BY BlockFacts
  <2> QED
    BY <1>1, <2>1 DEF Pending
<1> QED
  BY <1>1, <1>2 DEF Transfers!Stop

\* Every step of the machine is a step of the promise or leaves it alone.
LEMMA StepImplements ==
  BlockInv /\ [Next]_vars => [Transfers!TransferNext]_(Transfers!transferVars)
<1> SUFFICES ASSUME BlockInv, [Next]_vars
             PROVE  Transfers!TransferNext \/ UNCHANGED Transfers!transferVars
  OBVIOUS
<1>1. CASE UNCHANGED vars
  <2>1. Pending' = Pending
    BY <1>1 DEF vars, Pending
  <2>2. OriginalBase' = OriginalBase
    BY <1>1, <2>1 DEF vars, OriginalBase, Moved
  <2>3. /\ phase' = phase /\ instruction' = instruction
        /\ registers' = registers /\ ram' = ram
    BY <1>1 DEF vars
  <2> QED
    BY <2>1, <2>2, <2>3 DEF Transfers!transferVars
<1>2. CASE Next /\ (phase = "transfer" \/ phase' = "transfer")
  <2>1. BeginTransfer \/ SkipRegister \/ TransferRegister \/ EscapeTransfer \/ EndTransfer
    BY <1>2, OnlyBlockSteps
  <2>2. CASE BeginTransfer
    BY <2>2, BeginStep DEF Transfers!TransferNext
  <2>3. CASE SkipRegister
    BY <2>3, SkipStep
  <2>4. CASE TransferRegister
    <3>1. phase = "transfer"
      BY <2>4 DEF TransferRegister
    <3> QED
      BY <2>4, <3>1, MoveStep DEF Transfers!TransferNext
  <2>5. CASE EscapeTransfer
    BY <2>5, StopStep DEF Transfers!TransferNext
  <2>6. CASE EndTransfer
    BY <2>6, FinishStep DEF Transfers!TransferNext
  <2> QED
    BY <2>1, <2>2, <2>3, <2>4, <2>5, <2>6
<1>3. CASE phase # "transfer" /\ phase' # "transfer"
  BY <1>3 DEF Transfers!TransferNext, Transfers!Other
<1> QED
  BY <1>1, <1>2, <1>3

-----------------------------------------------------------------------------
(* The theorems.                                                           *)

\* The loop of every block transfer stays between the ends of the register
\* file, and leaves it at the far end only.
THEOREM BlockInvariant == Spec => []BlockInv
<1>1. Init => BlockInv
  BY InitInv DEF Init, BlockInv, LoopInv
<1>2. BlockInv /\ [Next]_vars => BlockInv'
  BY BlockInvNext
<1> QED
  BY <1>1, <1>2, PTL DEF Spec

(***************************************************************************)
(* blockDataTransferEval() implements MultipleTransfer: at every width of  *)
(* a word and size of the memory, for every register list, base and        *)
(* addressing mode, each listed register moves to or from its own slot,    *)
(* lowest register at the lowest address, and the base is written back     *)
(* once, after the last of them.                                           *)
(***************************************************************************)
THEOREM BlockTransferImplements == Spec => ImplementsMultipleTransfer
<1>1. Init => Transfers!TransferInit
  BY DEF Init, Transfers!TransferInit
<1>2. BlockInv /\ [Next]_vars => [Transfers!TransferNext]_(Transfers!transferVars)
  BY StepImplements
<1> QED
  BY <1>1, <1>2, BlockInvariant, PTL
     DEF Spec, ImplementsMultipleTransfer, Transfers!TransferSpec

-----------------------------------------------------------------------------
(* A store of a register list and the load that walks it back.             *)

\* The lowest address of the run a transfer makes from a base, the word of each
\* register in it, and the base it leaves.
LowestOf(t, base) ==
  LET size == 4 * Cardinality(t.registerList)
  IN  IF t.u THEN IF t.p THEN base + 4 ELSE base
      ELSE IF t.p THEN base - size ELSE base - size + 4
SlotOf(t, base, r) == Wrap(LowestOf(t, base) + 4 * Cardinality(Below(t.registerList, r)))
BaseAfter(t, base) ==
  LET size == 4 * Cardinality(t.registerList)
  IN  Wrap(IF t.u THEN base + size ELSE base - size)

\* A word of four bytes that can address more than sixteen is at least six bits
\* wide: no run of registers goes round the addresses.
LEMMA RunFits ==
  ASSUME WordBits = 4 * ByteBits, 16 < MemSize
  PROVE  Modulus >= 64
<1>1. WordBits \in Nat \ {0} /\ ByteBits \in Nat
  BY WidthAssumption, ByteFacts
<1>2. ASSUME WordBits = 4 PROVE FALSE
  <2>1. 2^3 = 8
    <3>1. 2^1 = 2 * 2^0 /\ 2^2 = 2 * 2^1 /\ 2^3 = 2 * 2^2
      BY <1>2, PowerAssumption
    <3>2. 2^0 = 1
      OBVIOUS
    <3> QED
      BY <3>1, <3>2
  <2>2. SignBit = 8
    <3>1. WordBits - 1 = 3
      BY <1>2
    <3> QED
      BY <2>1, <3>1 DEF SignBit
  <2> QED
    BY <2>2, MemSizeAssumption DEF Modulus
<1>3. WordBits >= 8
  BY <1>1, <1>2
<1>4. 2^5 = 32
  <2>1. 2^1 = 2 * 2^0 /\ 2^2 = 2 * 2^1 /\ 2^3 = 2 * 2^2 /\ 2^4 = 2 * 2^3 /\ 2^5 = 2 * 2^4
    BY <1>1, <1>3, PowerAssumption
  <2>2. 2^0 = 1
    OBVIOUS
  <2> QED
    BY <2>1, <2>2
<1> DEFINE k == WordBits - 6
           high == 2^k
<1>5. k \in Nat /\ 5 + k = WordBits - 1 /\ k + 5 = WordBits - 1 /\ k \in 0 .. WordBits
  BY <1>1, <1>3
<1>6. SignBit = high * 32
  <2>1. 2^(k + 5) = 2^k * 2^5
    <3>1. k \in Nat /\ 5 \in Nat /\ k + 5 <= WordBits
      BY <1>1, <1>5
    <3> HIDE DEF k
    <3> QED
      BY <3>1, PowerOfSum
  <2> QED
    BY <1>4, <1>5, <2>1 DEF SignBit
<1>7. high \in Nat /\ high >= 1
  BY <1>5, PowerType
<1> HIDE DEF high
<1> QED
  BY <1>6, <1>7 DEF Modulus

\* Fewer registers lie below a lower one, and at most fifteen below any.
LEMMA FewerBelow ==
  ASSUME NEW list \in SUBSET Register, NEW r \in list, NEW q \in list, r < q
  PROVE  /\ Cardinality(Below(list, r)) \in Nat /\ Cardinality(Below(list, q)) \in Nat
         /\ Cardinality(Below(list, r)) < Cardinality(Below(list, q))
         /\ Cardinality(Below(list, q)) <= 15
<1>1. r \in Int /\ q \in Int /\ r + 1 \in Int
  BY DEF Register
<1>2. Cardinality(Below(list, r + 1)) = Cardinality(Below(list, r)) + 1
  BY CountStep
<1>3. Below(list, r + 1) \in SUBSET Below(list, q)
  <2>1. \A n \in list : n < r + 1 => n < q
    BY <1>1 DEF Register
  <2> QED
    BY <2>1 DEF Below
<1>4. /\ IsFiniteSet(Below(list, q)) /\ Cardinality(Below(list, q)) \in Nat
      /\ Cardinality(Below(list, r)) \in Nat /\ Cardinality(Below(list, r + 1)) \in Nat
  BY <1>1, CountType
<1>5. Cardinality(Below(list, r + 1)) <= Cardinality(Below(list, q))
  BY <1>3, <1>4, FS_Subset
<1>6. Cardinality(Below(list, q)) <= 15
  <2>1. Below(list, q) \in SUBSET (0 .. 14)
    <3>1. \A n \in list : n < q => n \in 0 .. 14
      BY <1>1 DEF Register
    <3> QED
      BY <3>1 DEF Below
  <2>2. IsFiniteSet(0 .. 14) /\ Cardinality(0 .. 14) = 15
    <3>1. 0 \in Int /\ 14 \in Int /\ ~(0 > 14) /\ (14 - 0) + 1 = 15
      OBVIOUS
    <3>2. IsFiniteSet(0 .. 14) /\ Cardinality(0 .. 14) = IF 0 > 14 THEN 0 ELSE (14 - 0) + 1
      BY <3>1, FS_Interval
    <3> QED
      BY <3>1, <3>2
  <2>3. Cardinality(Below(list, q)) <= Cardinality(0 .. 14)
    BY <2>1, <2>2, FS_Subset
  <2> QED
    BY <2>2, <2>3
<1> QED
  BY <1>2, <1>4, <1>5, <1>6

\* Two addresses a few words apart stay a word apart when they are wrapped.
LEMMA WordsApart ==
  ASSUME NEW x \in Int, NEW m \in 1 .. 15, Modulus >= 64
  PROVE  LET a == Wrap(x)
             b == Wrap(x + 4 * m)
         IN  a \in Int /\ b \in Int /\ (b - a >= 4 \/ a - b >= 4)
<1> DEFINE a == Wrap(x)
           b == Wrap(x + 4 * m)
<1>1. a \in Word /\ 4 * m \in Int /\ x + 4 * m \in Int
  BY WrapType
<1>2. b = Wrap(a + 4 * m)
  BY <1>1, WrapAbsorbs
<1>3. a \in Int /\ a >= 0 /\ a < Modulus /\ Modulus \in Int
  BY <1>1, ModulusFacts DEF Word
<1> HIDE DEF a
<1>4. CASE a + 4 * m < Modulus
  <2>1. a + 4 * m \in Word
    BY <1>3, <1>4, ModulusFacts DEF Word
  <2>2. b = a + 4 * m
    BY <1>2, <2>1, WrapWord
  <2> QED
    BY <1>3, <2>2 DEF a
<1>5. CASE a + 4 * m >= Modulus
  <2> DEFINE c == a + 4 * m - Modulus
  <2>1. c \in Word
    BY <1>3, <1>5, ModulusFacts DEF Word
  <2>2. c + 1 * Modulus = a + 4 * m
    BY <1>3
  <2>3. Wrap(c + 1 * Modulus) = Wrap(c)
    <3>1. c \in Int /\ 1 \in Int
      BY <1>3
    <3> HIDE DEF c
    <3> QED
      BY <3>1, WrapMultiple
  <2>4. b = c
    BY <1>2, <2>1, <2>2, <2>3, WrapWord
  <2> QED
    BY <1>3, <2>4 DEF a
<1> QED
  BY <1>3, <1>4, <1>5

\* So each register of a list has a slot of its own.
LEMMA SlotsApart ==
  ASSUME NEW t, t.registerList \in SUBSET Register, NEW base \in Int,
         t.u \in BOOLEAN, t.p \in BOOLEAN,
         NEW r \in t.registerList, NEW q \in t.registerList, r # q, Modulus >= 64
  PROVE  Bytes(SlotOf(t, base, r), 4) \cap Bytes(SlotOf(t, base, q), 4) = {}
<1> DEFINE list == t.registerList
           low == LowestOf(t, base)
<1>1. low \in Int
  <2>1. Cardinality(list) \in Nat /\ 0 \in Int
    BY CountType
  <2> QED
    BY <2>1 DEF LowestOf
<1>2. ASSUME NEW m \in list, NEW n \in list, m < n
      PROVE  LET a == SlotOf(t, base, m)
                 b == SlotOf(t, base, n)
             IN  a \in Int /\ b \in Int /\ (b - a >= 4 \/ a - b >= 4)
  <2> DEFINE first == Cardinality(Below(list, m))
             second == Cardinality(Below(list, n))
             x == low + 4 * first
             d == second - first
  <2>1. first \in Nat /\ second \in Nat /\ first < second /\ second <= 15
    BY <1>2, FewerBelow
  <2> HIDE DEF first, second, low
  <2>2. x \in Int /\ d \in 1 .. 15 /\ x + 4 * d = low + 4 * second
    BY <1>1, <2>1
  <2>3. SlotOf(t, base, m) = Wrap(x) /\ SlotOf(t, base, n) = Wrap(x + 4 * d)
    BY <2>2 DEF SlotOf, first, second, low
  <2> HIDE DEF x, d
  <2> QED
    BY <2>2, <2>3, WordsApart
<1>3. r < q \/ q < r
  BY DEF Register
<1> DEFINE a == SlotOf(t, base, r)
           b == SlotOf(t, base, q)
<1>4. a \in Int /\ b \in Int /\ (b - a >= 4 \/ a - b >= 4)
  BY <1>2, <1>3
<1> HIDE DEF a, b
<1>5. Bytes(a, 4) \cap Bytes(b, 4) = {}
  BY <1>4 DEF Bytes
<1> QED
  BY <1>5 DEF a, b

\* Their addresses are words.
LEMMA SlotType ==
  ASSUME NEW t, t.registerList \in SUBSET Register, NEW base \in Int,
         t.u \in BOOLEAN, t.p \in BOOLEAN, NEW r \in Register
  PROVE  SlotOf(t, base, r) \in Int
<1> DEFINE size == Cardinality(t.registerList)
           below == Cardinality(Below(t.registerList, r))
<1>1. size \in Nat /\ below \in Nat
  <2>1. r \in Int
    BY DEF Register
  <2> QED
    BY <2>1, CountType
<1>2. LowestOf(t, base) \in Int
  BY <1>1 DEF LowestOf
<1> HIDE DEF below
<1>3. LowestOf(t, base) + 4 * below \in Int
  BY <1>1, <1>2
<1> QED
  BY <1>3, WrapType, WordRange DEF SlotOf, below

\* The loop moves its register to or from its slot, and leaves the base there.
LEMMA SlotOfLoop ==
  ASSUME BlockInv, phase = "transfer", i \in instruction.registerList
  PROVE  Slot(instruction) = SlotOf(instruction, OriginalBase, i)
<1>1. instruction.u \in BOOLEAN /\ instruction.p \in BOOLEAN
  BY BlockFacts DEF BlockTransferInstruction
<1>2. Transfers!Address(i) = Slot(instruction)
  BY SlotIsAddress
<1>3. Transfers!Address(i)
        = Wrap(Transfers!Lowest + 4 * Cardinality(Below(instruction.registerList, i)))
  BY SameOperators DEF Transfers!Address, Below
<1>4. Transfers!Lowest = LowestOf(instruction, OriginalBase)
  BY <1>1, SameOperators DEF Transfers!Lowest, Transfers!Size, LowestOf
<1> QED
  BY <1>2, <1>3, <1>4 DEF SlotOf

\* What the write-back leaves in the base register.
LEMMA BaseOfEnd ==
  ASSUME BlockInv, EndTransfer, instruction.w
  PROVE  registers' = [registers EXCEPT ![instruction.rn] = BaseAfter(instruction, OriginalBase)]
<1>1. phase = "transfer" /\ Transfers!Finish
  BY FinishStep DEF EndTransfer
<1> QED
  BY <1>1, SameOperators DEF Transfers!Finish, Transfers!Size, BaseAfter

\* The opposite transfer from the base the first one leaves walks the same run,
\* and back to the same base.
LEMMA RunsMeet ==
  ASSUME NEW s, NEW t, NEW base \in Word, s.registerList \in SUBSET Register,
         t.registerList = s.registerList, s.u \in BOOLEAN, s.p \in BOOLEAN,
         t.u \in BOOLEAN, t.p \in BOOLEAN, t.u <=> ~s.u, t.p <=> ~s.p
  PROVE  /\ \A r \in Register : SlotOf(t, BaseAfter(s, base), r) = SlotOf(s, base, r)
         /\ BaseAfter(t, BaseAfter(s, base)) = base
<1> DEFINE size == 4 * Cardinality(s.registerList)
           next == BaseAfter(s, base)
<1>1. size \in Int /\ base \in Int
  <2>1. 0 \in Int
    OBVIOUS
  <2>2. Cardinality(s.registerList) \in Nat
    BY <2>1, CountType
  <2> QED
    BY <2>2, WordRange
<1>2. next = Wrap(IF s.u THEN base + size ELSE base - size)
  BY DEF BaseAfter
<1>3. /\ LowestOf(s, base) = IF s.u THEN IF s.p THEN base + 4 ELSE base
                             ELSE IF s.p THEN base - size ELSE base - size + 4
      /\ LowestOf(t, next) = IF s.u THEN IF s.p THEN next - size + 4 ELSE next - size
                             ELSE IF s.p THEN next ELSE next + 4
  BY DEF LowestOf
<1>4. BaseAfter(t, next) = Wrap(IF s.u THEN next - size ELSE next + size)
  BY DEF BaseAfter
<1> HIDE DEF size, next
<1>5. \A z \in Int :
        /\ s.u => Wrap((next - size) + z) = Wrap(base + z)
        /\ ~s.u => Wrap(next + z) = Wrap((base - size) + z)
        /\ ~s.u => Wrap((next + size) + z) = Wrap(base + z)
  <2> SUFFICES ASSUME NEW z \in Int
               PROVE  /\ s.u => Wrap((next - size) + z) = Wrap(base + z)
                      /\ ~s.u => Wrap(next + z) = Wrap((base - size) + z)
                      /\ ~s.u => Wrap((next + size) + z) = Wrap(base + z)
    OBVIOUS
  <2>0. next \in Int
    <3>1. base + size \in Int /\ base - size \in Int
      BY <1>1
    <3> QED
      BY <1>2, <3>1, WrapType, WordRange
  <2>1. CASE s.u
    <3>1. base + size \in Int /\ z - size \in Int
      BY <1>1
    <3>2. Wrap(Wrap(base + size) + (z - size)) = Wrap((base + size) + (z - size))
      BY <3>1, WrapAbsorbs
    <3>3. (base + size) + (z - size) = base + z /\ next + (z - size) = (next - size) + z
      BY <1>1, <2>0
    <3> QED
      BY <1>2, <2>1, <3>2, <3>3
  <2>2. CASE ~s.u
    <3>1. base - size \in Int /\ size + z \in Int
      BY <1>1
    <3>2. /\ Wrap(Wrap(base - size) + z) = Wrap((base - size) + z)
          /\ Wrap(Wrap(base - size) + (size + z)) = Wrap((base - size) + (size + z))
      BY <3>1, WrapAbsorbs
    <3>3. (base - size) + (size + z) = base + z /\ next + (size + z) = (next + size) + z
      BY <1>1, <2>0
    <3> QED
      BY <1>2, <2>2, <3>2, <3>3
  <2> QED
    BY <2>1, <2>2
<1>6. next \in Int
  <2>1. base + size \in Int /\ base - size \in Int
    BY <1>1
  <2> QED
    BY <1>2, <2>1, WrapType, WordRange
<1>7. ASSUME NEW r \in Register
      PROVE  SlotOf(t, next, r) = SlotOf(s, base, r)
  <2> DEFINE y == 4 * Cardinality(Below(s.registerList, r))
  <2>1. y \in Int
    <3>1. r \in Int
      BY DEF Register
    <3>2. Cardinality(Below(s.registerList, r)) \in Nat
      BY <3>1, CountType
    <3> QED
      BY <3>2
  <2>2. SlotOf(t, next, r) = Wrap(LowestOf(t, next) + y) /\ SlotOf(s, base, r) = Wrap(LowestOf(s, base) + y)
    BY DEF SlotOf
  <2> HIDE DEF y
  <2>3. CASE s.u /\ s.p
    <3>1. Wrap((next - size) + (4 + y)) = Wrap(base + (4 + y))
      BY <1>5, <2>1, <2>3
    <3>2. /\ (next - size) + (4 + y) = (next - size + 4) + y
          /\ base + (4 + y) = (base + 4) + y
      BY <1>1, <1>6, <2>1
    <3> QED
      BY <1>3, <2>2, <2>3, <3>1, <3>2
  <2>4. CASE s.u /\ ~s.p
    BY <1>3, <1>5, <2>1, <2>2, <2>4
  <2>5. CASE ~s.u /\ s.p
    BY <1>3, <1>5, <2>1, <2>2, <2>5
  <2>6. CASE ~s.u /\ ~s.p
    <3>1. Wrap(next + (4 + y)) = Wrap((base - size) + (4 + y))
      BY <1>5, <2>1, <2>6
    <3>2. /\ next + (4 + y) = (next + 4) + y
          /\ (base - size) + (4 + y) = (base - size + 4) + y
      BY <1>1, <1>6, <2>1
    <3> QED
      BY <1>3, <2>2, <2>6, <3>1, <3>2
  <2> QED
    BY <2>3, <2>4, <2>5, <2>6
<1>8. BaseAfter(t, next) = base
  <2>1. /\ s.u => Wrap((next - size) + 0) = Wrap(base + 0)
        /\ ~s.u => Wrap((next + size) + 0) = Wrap(base + 0)
    BY <1>5
  <2>2. /\ (next - size) + 0 = next - size /\ (next + size) + 0 = next + size
        /\ base + 0 = base
    BY <1>1, <1>6
  <2> QED
    BY <1>4, <2>1, <2>2, WrapWord
<1> QED
  BY <1>7, <1>8 DEF next

\* The runs of one register and of two, below a base or from it.
LEMMA RunOfOne ==
  ASSUME NEW t, NEW base \in Int, NEW a \in Register, t.registerList = {a}
  PROVE  /\ t.u = FALSE /\ t.p = TRUE =>
              SlotOf(t, base, a) = Wrap(base - 4) /\ BaseAfter(t, base) = Wrap(base - 4)
         /\ t.u = TRUE /\ t.p = FALSE =>
              SlotOf(t, base, a) = Wrap(base) /\ BaseAfter(t, base) = Wrap(base + 4)
<1>1. Cardinality({a}) = 1 /\ Cardinality({}) = 0
  BY FS_Singleton, FS_EmptySet
<1>2. Below({a}, a) = {}
  BY DEF Below, Register
<1> QED
  BY <1>1, <1>2 DEF LowestOf, SlotOf, BaseAfter

LEMMA RunOfTwo ==
  ASSUME NEW t, NEW base \in Int, NEW a \in Register, NEW b \in Register, a < b,
         t.registerList = {a, b}
  PROVE  /\ t.u = FALSE /\ t.p = TRUE =>
              /\ SlotOf(t, base, a) = Wrap(base - 8) /\ SlotOf(t, base, b) = Wrap(base - 4)
              /\ BaseAfter(t, base) = Wrap(base - 8)
         /\ t.u = TRUE /\ t.p = FALSE =>
              /\ SlotOf(t, base, a) = Wrap(base) /\ SlotOf(t, base, b) = Wrap(base + 4)
              /\ BaseAfter(t, base) = Wrap(base + 8)
<1>1. a \in Int /\ b \in Int /\ a # b
  BY DEF Register
<1>2. Cardinality({a, b}) = 2 /\ Cardinality({a}) = 1 /\ Cardinality({}) = 0
  <2>1. {a, b} = {a} \cup {b} /\ IsFiniteSet({a}) /\ Cardinality({a}) = 1
    BY FS_Singleton
  <2>2. Cardinality({a} \cup {b}) = 1 + 1
    BY <1>1, <2>1, FS_AddElement
  <2> QED
    BY <2>1, <2>2, FS_EmptySet
<1>3. Below({a, b}, a) = {} /\ Below({a, b}, b) = {a}
  BY <1>1 DEF Below
<1>4. base - 8 + 4 = base - 4
  OBVIOUS
<1>5. /\ LowestOf(t, base) = IF t.u THEN IF t.p THEN base + 4 ELSE base
                             ELSE IF t.p THEN base - 8 ELSE base - 4
      /\ BaseAfter(t, base) = Wrap(IF t.u THEN base + 8 ELSE base - 8)
  BY <1>2 DEF LowestOf, BaseAfter
<1>6. /\ SlotOf(t, base, a) = Wrap(LowestOf(t, base) + 0)
      /\ SlotOf(t, base, b) = Wrap(LowestOf(t, base) + 4)
  BY <1>2, <1>3 DEF SlotOf
<1> QED
  BY <1>4, <1>5, <1>6
=============================================================================
