------------------------------- MODULE MCAlu -------------------------------
(***************************************************************************)
(* One call of run() on short programs of data processing instructions,    *)
(* from every value of the registers they read: an instruction that sets   *)
(* the flags, a shift, and two instructions that compute on double words.  *)
(***************************************************************************)
EXTENDS AluContract, MCRun

FlagPrograms ==
  {<<AluS(opcode, 2, 0, Reg(1))>> : opcode \in OpCode}

ShiftPrograms ==
  {<<AluS("MOV", 2, 0, operand2)>> : operand2 \in
       [kind : {"by_value"}, type : ShiftType, rm : {0, PC}, amount : 0 .. WordBits - 1]
  \cup [kind : {"by_register"}, type : ShiftType, rm : {0, PC}, rs : {1}]
  \cup RotatedImmediate}

\* r1:r0 and r3:r2 are the operands, r5:r4 the result.
Double(first, second) == <<AluS(first, 4, 0, Reg(2)), AluS(second, 5, 1, Reg(3))>>
DoubleAdd == Double("ADD", "ADC")
DoubleSubtract == Double("SUB", "SBC")
DoubleReverse == Double("RSB", "RSC")
DoubleCompare == Double("CMP", "SBC")
DoublePrograms == {DoubleAdd, DoubleSubtract, DoubleReverse, DoubleCompare}

AluPrograms == FlagPrograms \cup ShiftPrograms \cup DoublePrograms

-----------------------------------------------------------------------------
AllFlags == [n |-> 1, z |-> 1, c |-> 1, v |-> 1]

AluInit ==
  \/ /\ \E program \in FlagPrograms : Start(program)
     /\ Operands(Word, 2) /\ cpsr \in Flags
  \/ /\ \E program \in ShiftPrograms : Start(program)
     /\ Operands(Word, 2) /\ cpsr \in {NoFlags, AllFlags}
  \/ /\ \E program \in DoublePrograms : Start(program)
     /\ Operands(Ends, 4) /\ cpsr = NoFlags

-----------------------------------------------------------------------------
DoubleWord(lo, hi) == Modulus * registers[hi] + registers[lo]
SignedDouble(lo, hi) == Modulus * Signed(registers[hi]) + registers[lo]

(***************************************************************************)
(* ADDS/ADC, SUBS/SBC and RSBS/RSC on two words give the double word the   *)
(* integers give, and CMP/SBCS leaves the flags that order two double      *)
(* words: the carry one instruction leaves is the one the next consumes.   *)
(***************************************************************************)
DoubleWordArithmetic ==
  phase = "idle" =>
    LET x == DoubleWord(0, 1)
        y == DoubleWord(2, 3)
        z == DoubleWord(4, 5)
    IN  /\ code = CodeOf(DoubleAdd) => z = (x + y) % DoubleModulus
        /\ code = CodeOf(DoubleSubtract) => z = (x - y) % DoubleModulus
        /\ code = CodeOf(DoubleReverse) => z = (y - x) % DoubleModulus
        /\ code = CodeOf(DoubleCompare) =>
             /\ TestCondition("CS") <=> x >= y
             /\ TestCondition("GE") <=> SignedDouble(0, 1) >= SignedDouble(2, 3)
=============================================================================
