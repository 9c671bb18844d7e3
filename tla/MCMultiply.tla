----------------------------- MODULE MCMultiply -----------------------------
(***************************************************************************)
(* Every long multiplication from every value of its operands, and the     *)
(* sequences of multiplications a compiler emits for wider arithmetic.     *)
(***************************************************************************)
EXTENDS MultiplyContract, MCRun

Mul(rd, rm, rs) ==
  [format |-> "multiply", condition |-> "AL", a |-> FALSE, s |-> FALSE,
   rd |-> rd, rn |-> 0, rs |-> rs, rm |-> rm]
Mla(rd, rm, rs, rn) == [Mul(rd, rm, rs) EXCEPT !.a = TRUE, !.rn = rn]
Long(u, a, lo, hi, rm, rs) ==
  [format |-> "multiply_long", condition |-> "AL", u |-> u, a |-> a, s |-> FALSE,
   rdhi |-> hi, rdlo |-> lo, rs |-> rs, rm |-> rm]
Umull(lo, hi, rm, rs) == Long(FALSE, FALSE, lo, hi, rm, rs)
Umlal(lo, hi, rm, rs) == Long(FALSE, TRUE, lo, hi, rm, rs)
Smull(lo, hi, rm, rs) == Long(TRUE, FALSE, lo, hi, rm, rs)

\* The results over the operands, over each other, or apart.
LongPrograms ==
  {<<[Long(u, a, lo, hi, 0, 1) EXCEPT !.s = s]>> :
     u \in BOOLEAN, a \in BOOLEAN, s \in BOOLEAN, lo \in {0, 2}, hi \in {1, 2, 3}}

\* r1:r0 and r3:r2 are the operands; long long multiplication.
DoubleProduct == <<Umull(4, 5, 0, 2), Mla(5, 0, 3, 5), Mla(5, 1, 2, 5)>>
\* r1:r0 by r2, kept whole in r6:r5:r4.
TripleProduct == <<Umull(4, 5, 0, 2), Mov(6, Imm(0)), Umlal(5, 6, 1, 2)>>
\* Does the signed product of r0 and r2 fit a word?
Fits == <<Smull(4, 5, 0, 2),
          Cmp(5, [Reg(4) EXCEPT !.type = "ASR", !.amount = WordBits - 1])>>
\* Is the product of r0 and r2 zero, modulo the width?
Vanishes == <<[Mul(4, 0, 2) EXCEPT !.s = TRUE]>>
WidePrograms == {DoubleProduct, TripleProduct, Fits, Vanishes}

MultiplyPrograms == LongPrograms \cup WidePrograms

MultiplyInit ==
  \/ /\ \E program \in LongPrograms : Start(program)
     /\ \E x, y \in Word, lo, hi \in {0, 1, SignBit, Modulus - 1} :
          registers = [r \in Register |->
                         CASE r = 0 -> x [] r = 1 -> y [] r = 2 -> lo [] r = 3 -> hi
                           [] OTHER -> 0]
     /\ cpsr = NoFlags
  \/ /\ \E program \in WidePrograms : Start(program)
     /\ Operands(Ends \cup {SignBit \div 2 + 1}, 4) /\ cpsr = NoFlags

(***************************************************************************)
(* The multiplications chain: a double word product from three of them, a  *)
(* three-word product through the accumulator of UMLAL, the test for an    *)
(* overflow on the high word of SMULL, and a conditional on MULS give what *)
(* the integers give.                                                      *)
(***************************************************************************)
WideArithmetic ==
  phase = "idle" =>
    LET x == Pair(registers, 1, 0)
        y == Pair(registers, 3, 2)
    IN  /\ code = CodeOf(DoubleProduct) => Pair(registers, 5, 4) = (x * y) % DoubleModulus
        /\ code = CodeOf(TripleProduct) =>
             DoubleModulus * registers[6] + Pair(registers, 5, 4) = x * registers[2]
        /\ code = CodeOf(Fits) =>
             (TestCondition("EQ") <=> FitsSigned(Signed(registers[0]) * Signed(registers[2])))
        /\ code = CodeOf(Vanishes) =>
             (TestCondition("EQ") <=> (registers[0] * registers[2]) % Modulus = 0)
=============================================================================
