--------------------------- MODULE DataProcessing ---------------------------
(***************************************************************************)
(* dataProcessingEval() and the barrel shifter behind its second operand,  *)
(* rotate() and shift().  The handler is one action: nothing else runs     *)
(* between its assignments and it touches no memory.                       *)
(***************************************************************************)
EXTENDS Cpu

Tests == {"TST", "TEQ", "CMP", "CMN"}            \* rd is not written
Logical == {"AND", "EOR", "TST", "TEQ", "ORR", "MOV", "BIC", "MVN"}
Additions == {"ADD", "ADC", "CMN"}
Reversed == {"RSB", "RSC"}
Forward == {"SUB", "SBC", "CMP"}
Subtractions == Forward \cup Reversed
OpCode == Logical \cup Additions \cup Subtractions

ShiftType == {"LSL", "LSR", "ASR", "ROR"}

ShiftedByValue ==
  [kind : {"by_value"}, type : ShiftType, rm : Register, amount : 0 .. WordBits - 1]
ShiftedByRegister ==
  [kind : {"by_register"}, type : ShiftType, rm : Register, rs : Register]
RotatedImmediate ==
  [kind : {"immediate"}, byte : Byte, rotation : 0 .. (WordBits \div 2) - 1]

DataProcessingInstruction ==
  [format : {"data_processing"}, condition : Condition, opcode : OpCode,
   s : BOOLEAN, rd : Register, rn : Register,
   operand2 : ShiftedByValue \cup ShiftedByRegister \cup RotatedImmediate]

-----------------------------------------------------------------------------
(***************************************************************************)
(* The shifter.  A result is a value and the carry it leaves.  shift() is  *)
(* a set of results, one unless the code shifts a uint32_t by an amount    *)
(* C++ leaves undefined.                                                   *)
(***************************************************************************)
Shifted(value, carry) == [value |-> Wrap(value), carry |-> carry]

RotatedRight(a, n) == BitOr(ShiftLeft(a, WordBits - n), ShiftRight(a, n))

\* With no rotation the code shifts left by 32; every host leaves the byte.
rotate(operand2) ==
  LET n == 2 * operand2.rotation
      value == RotatedRight(operand2.byte, n)
  IN  IF n = 0 THEN Shifted(operand2.byte, cpsr.c)
               ELSE Shifted(value, FlagOf(NEG(value)))

LogicalLeft(a, n) ==
  CASE n = 0                   -> Shifted(a, cpsr.c)
    [] n \in 1 .. WordBits - 1 -> Shifted(ShiftLeft(a, n), Bit(a, WordBits - n))
    [] n = WordBits            -> Shifted(0, Bit(a, 0))
    [] n > WordBits            -> Shifted(0, 0)

LogicalRightCarry(a, n) ==             \* the carry taken one bit too high
  CASE n = 0                   -> Shifted(a, 0)
    [] n \in 1 .. WordBits - 1 -> Shifted(ShiftRight(a, n), Bit(a, n))
    [] n = WordBits            -> Shifted(0, FlagOf(NEG(a)))
    [] n > WordBits            -> Shifted(0, 0)

LogicalRight(a, n) ==
  CASE n = 0                   -> Shifted(a, 0)
    [] n \in 1 .. WordBits - 1 -> Shifted(ShiftRight(a, n), Bit(a, n - 1))
    [] n = WordBits            -> Shifted(0, FlagOf(NEG(a)))
    [] n > WordBits            -> Shifted(0, 0)

\* A right shift that fills with copies of the sign.
SignFilled(a, n) ==
  IF NEG(a) THEN BitOr(ShiftRight(a, n), ShiftLeft(Modulus - 1, WordBits - n))
            ELSE ShiftRight(a, n)

ArithmeticRight(a, n) ==
  CASE n = 0                   -> Shifted(a, 0)
    [] n \in 1 .. WordBits - 1 -> Shifted(SignFilled(a, n), Bit(a, n - 1))
    [] n >= WordBits           -> Shifted(IF NEG(a) THEN Modulus - 1 ELSE 0, FlagOf(NEG(a)))

\* By a non-zero multiple of 32 above 32 the code reads bit (0 - 1) of the
\* value: bit 31 on a host that masks the amount, 0 on one that does not.
RotateRight(a, n, byRegister) ==
  CASE n = WordBits \/ (n = 0 /\ byRegister) -> {Shifted(a, FlagOf(NEG(a)))}
    [] n = 0 /\ ~byRegister -> {Shifted(SignBit * cpsr.c + ShiftRight(a, 1), Bit(a, 0))}
    [] n \notin {0, WordBits} /\ n % WordBits = 0 ->
         {Shifted(a, FlagOf(NEG(a))), Shifted(a, 0)}
    [] n % WordBits # 0 ->
         {Shifted(RotatedRight(a, n % WordBits), Bit(a, (n % WordBits) - 1))}

\* shift() reads the pc as the address of the instruction plus 8, or 12 when
\* the amount is in a register: it has been incremented once by fetch().
shift(operand2) ==
  LET byRegister == operand2.kind = "by_register"
      ahead == IF operand2.rm # PC THEN 0 ELSE IF byRegister THEN 8 ELSE 4
      a == Wrap(registers[operand2.rm] + ahead)
      n == IF byRegister THEN registers[operand2.rs] % 256 ELSE operand2.amount
  IN  CASE operand2.type = "LSL" -> {LogicalLeft(a, n)}
        [] operand2.type = "LSR" -> {LogicalRight(a, n)}
        [] operand2.type = "ASR" -> {ArithmeticRight(a, n)}
        [] operand2.type = "ROR" -> RotateRight(a, n, byRegister)

Operand2(operand2) ==
  IF operand2.kind = "immediate" THEN {rotate(operand2)} ELSE shift(operand2)

-----------------------------------------------------------------------------
(* The ALU.                                                                *)

\* The 32-bit result; BIC reads rn again and misses the pipeline offset.
Result(opcode, rn, op1, op2) ==
  CASE opcode \in {"AND", "TST"} -> BitAnd(op1, op2)
    [] opcode \in {"EOR", "TEQ"} -> BitXor(op1, op2)
    [] opcode \in {"SUB", "CMP"} -> Wrap(op1 - op2)
    [] opcode = "RSB" -> Wrap(op2 - op1)
    [] opcode \in {"ADD", "CMN"} -> Wrap(op1 + op2)
    [] opcode = "ADC" -> Wrap(op1 + op2 + cpsr.c)
    [] opcode = "SBC" -> Wrap(op1 - op2 + cpsr.c - 1)
    [] opcode = "RSC" -> Wrap(op2 - op1 + cpsr.c - 1)
    [] opcode = "ORR" -> BitOr(op1, op2)
    [] opcode = "MOV" -> op2
    [] opcode = "BIC" -> BitAnd(registers[rn], BitNot(op2))
    [] opcode = "MVN" -> BitNot(op2)

CarryFlag(opcode, op1, op2, value, fromShifter) ==
  CASE opcode \in Logical -> fromShifter
    [] opcode \in Additions -> FlagOf(isCarryFromALUAdd(op1, op2, value))
    [] opcode \in Reversed -> FlagOf(isCarryFromALUSub(op2, op1, value))
    [] opcode \in Forward -> FlagOf(isCarryFromALUSub(op1, op2, value))

OverflowFlag(opcode, op1, op2, value) ==
  CASE opcode \in Logical -> cpsr.v
    [] opcode \in Additions -> FlagOf(isOverflowAdd(op1, op2, value))
    [] opcode \in Reversed -> FlagOf(isOverflowSub(op2, op1, value))
    [] opcode \in Forward -> FlagOf(isOverflowSub(op1, op2, value))

\* The pc has been incremented once by fetch().
Operand1(rn) == Wrap(registers[rn] + (IF rn # PC THEN 0 ELSE 4))

dataProcessingEval ==
  /\ Executing("data_processing")
  /\ \E shifted \in Operand2(instruction.operand2) :
       LET opcode == instruction.opcode
           op1 == Operand1(instruction.rn)
           op2 == shifted.value
           value == Result(opcode, instruction.rn, op1, op2)
       IN  /\ registers' = IF opcode \in Tests THEN registers
                           ELSE [registers EXCEPT ![instruction.rd] = value]
           /\ cpsr' = IF ~instruction.s THEN cpsr
                      ELSE [n |-> FlagOf(NEG(value)),
                            z |-> FlagOf(value = 0),
                            c |-> CarryFlag(opcode, op1, op2, value, shifted.carry),
                            v |-> OverflowFlag(opcode, op1, op2, value)]
  /\ Complete
  /\ UNCHANGED <<memory, instruction, block>>
=============================================================================
