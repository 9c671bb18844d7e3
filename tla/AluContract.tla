---------------------------- MODULE AluContract ----------------------------
(***************************************************************************)
(* What the ALU promises, against the integers: a comparison decides the   *)
(* fourteen conditions, the flags of an arithmetic instruction describe    *)
(* the exact result, and two words add, subtract and compare as one number *)
(* of twice the width.                                                     *)
(***************************************************************************)
EXTENDS Vm

Signed(a) == IF a >= SignBit THEN a - Modulus ELSE a
FitsSigned(x) == x >= -SignBit /\ x < SignBit

-----------------------------------------------------------------------------
\* What each condition means of a comparison of two words.
Relation(condition, a, b) ==
  \/ condition = "AL"
  \/ condition = "EQ" /\ a = b
  \/ condition = "NE" /\ a # b
  \/ condition = "CS" /\ a >= b
  \/ condition = "CC" /\ a < b
  \/ condition = "HI" /\ a > b
  \/ condition = "LS" /\ a <= b
  \/ condition = "GE" /\ Signed(a) >= Signed(b)
  \/ condition = "LT" /\ Signed(a) < Signed(b)
  \/ condition = "GT" /\ Signed(a) > Signed(b)
  \/ condition = "LE" /\ Signed(a) <= Signed(b)
  \/ condition = "VS" /\ ~FitsSigned(Signed(a) - Signed(b))
  \/ condition = "VC" /\ FitsSigned(Signed(a) - Signed(b))
  \/ condition = "MI" /\ Wrap(a - b) >= SignBit
  \/ condition = "PL" /\ Wrap(a - b) < SignBit

(***************************************************************************)
(* After CMP, testCondition() answers what the condition means of the two  *)
(* operands, signed or unsigned: the flags are computed from sign bits in  *)
(* dataProcessingEval() and read back bit by bit in testCondition().       *)
(***************************************************************************)
CompareDecidesConditions ==
  [][Executing("data_processing") /\ instruction.opcode = "CMP" /\ instruction.s =>
       \A shifted \in Operand2(instruction.operand2) :
         \A condition \in Condition \ {"NV"} :
           TestCondition(condition)'
             <=> Relation(condition, Operand1(instruction.rn), shifted.value)]_vars

-----------------------------------------------------------------------------
\* The exact result of an arithmetic instruction, read through view.
Exact(opcode, x, y, view(_)) ==
  CASE opcode \in {"SUB", "CMP"} -> view(x) - view(y)
    [] opcode = "RSB" -> view(y) - view(x)
    [] opcode \in {"ADD", "CMN"} -> view(x) + view(y)
    [] opcode = "ADC" -> view(x) + view(y) + cpsr.c
    [] opcode = "SBC" -> view(x) - view(y) + cpsr.c - 1
    [] opcode = "RSC" -> view(y) - view(x) + cpsr.c - 1

Unsigned(a) == a

(***************************************************************************)
(* With the S bit, ADD, ADC, SUB, SBC, RSB, RSC, CMP and CMN set N and Z   *)
(* from the result, C to the carry out (no borrow) of the unsigned         *)
(* operation and V when the signed result does not fit.                    *)
(***************************************************************************)
FlagsDescribe(opcode, x, y) ==
  LET exact == Exact(opcode, x, y, Unsigned)
  IN  /\ cpsr'.n = FlagOf(Wrap(exact) >= SignBit)
      /\ cpsr'.z = FlagOf(Wrap(exact) = 0)
      /\ cpsr'.c = FlagOf(IF opcode \in Additions THEN exact >= Modulus ELSE exact >= 0)
      /\ cpsr'.v = FlagOf(~FitsSigned(Exact(opcode, x, y, Signed)))

FlagsDescribeExactResult ==
  [][/\ Executing("data_processing") /\ instruction.s
     /\ instruction.opcode \in Additions \cup Subtractions
     => \A shifted \in Operand2(instruction.operand2) :
          FlagsDescribe(instruction.opcode, Operand1(instruction.rn), shifted.value)]_vars

-----------------------------------------------------------------------------
(* The shifter, bit by bit.                                                *)

\* The host's | works on each bit by itself.
ASSUME OrAssumption ==
  \A a, b \in Word : \A k \in 0 .. WordBits - 1 :
    Bit(BitOr(a, b), k) = IF Bit(a, k) = 0 /\ Bit(b, k) = 0 THEN 0 ELSE 1

\* Bit k of a shifted or rotated by n >= 1, and the last bit moved out.
MovedBit(type, a, n, k) ==
  CASE type = "LSL" -> IF k >= n THEN Bit(a, k - n) ELSE 0
    [] type = "LSR" -> IF k + n < WordBits THEN Bit(a, k + n) ELSE 0
    [] type = "ASR" -> IF k + n < WordBits THEN Bit(a, k + n) ELSE Bit(a, WordBits - 1)
    [] type = "ROR" -> Bit(a, (k + n) % WordBits)

LastBitOut(type, a, n) ==
  CASE type = "LSL" -> IF n <= WordBits THEN Bit(a, WordBits - n) ELSE 0
    [] type = "LSR" -> IF n <= WordBits THEN Bit(a, n - 1) ELSE 0
    [] type = "ASR" -> IF n <= WordBits THEN Bit(a, n - 1) ELSE Bit(a, WordBits - 1)
    [] type = "ROR" -> Bit(a, (n - 1) % WordBits)

\* What the second operand asks for.
Asked(operand2) ==
  CASE operand2.kind = "immediate" ->
         [type |-> "ROR", a |-> operand2.byte, n |-> 2 * operand2.rotation]
    [] operand2.kind = "by_value" ->
         [type |-> operand2.type, n |-> operand2.amount,
          a |-> IF operand2.rm = PC THEN Wrap(registers[PC] + 4) ELSE registers[operand2.rm]]
    [] operand2.kind = "by_register" ->
         [type |-> operand2.type, n |-> registers[operand2.rs] % 256,
          a |-> IF operand2.rm = PC THEN Wrap(registers[PC] + 8) ELSE registers[operand2.rm]]

\* ROR #0 rotates by one through the carry.
Extends(operand2) ==
  operand2.kind = "by_value" /\ operand2.type = "ROR" /\ operand2.amount = 0

\* When it shifts by zero.
KeepsCarry(operand2) == operand2.kind = "immediate" \/ operand2.type = "LSL"

(***************************************************************************)
(* MOVS with a shifted operand moves every bit where the shift says and    *)
(* leaves the last bit out in C, for every amount from 1, beyond the width *)
(* too; ROR #0 brings the carry in; LSL and an immediate by 0 keep the     *)
(* carry and no shift by 0 changes the operand.  (The carry of a rotation  *)
(* by 64, 96... depends on the host.  LSR #0 and ASR #0 are discussed in   *)
(* the README.)                                                            *)
(***************************************************************************)
ShifterMovesBits ==
  [][Executing("data_processing") /\ instruction.opcode = "MOV" /\ instruction.s =>
       LET asked == Asked(instruction.operand2)
           moved == registers'[instruction.rd]
           bits == 0 .. WordBits - 1
           hostCarry == asked.type = "ROR" /\ asked.n > WordBits /\ asked.n % WordBits = 0
       IN  /\ asked.n >= 1 =>
                /\ \A k \in bits : Bit(moved, k) = MovedBit(asked.type, asked.a, asked.n, k)
                /\ hostCarry \/ cpsr'.c = LastBitOut(asked.type, asked.a, asked.n)
           /\ Extends(instruction.operand2) =>
                /\ \A k \in bits :
                     Bit(moved, k) = IF k = WordBits - 1 THEN cpsr.c ELSE Bit(asked.a, k + 1)
                /\ cpsr'.c = Bit(asked.a, 0)
           /\ asked.n = 0 /\ ~Extends(instruction.operand2) =>
                /\ moved = asked.a
                /\ KeepsCarry(instruction.operand2) => cpsr'.c = cpsr.c]_vars
=============================================================================
