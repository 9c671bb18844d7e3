-------------------------- MODULE MultiplyContract --------------------------
(***************************************************************************)
(* What the long multiplications promise, against the integers.            *)
(***************************************************************************)
EXTENDS AluContract

\* Two registers of a register file as one number, unsigned and signed.
Pair(file, hi, lo) == Modulus * file[hi] + file[lo]
SignedPair(file, hi, lo) == Modulus * Signed(file[hi]) + file[lo]

\* Two registers as the result are two different registers.
LongMultiply == Executing("multiply_long") /\ instruction.rdhi # instruction.rdlo
SetsFlags == instruction.s /\ PC \notin {instruction.rdhi, instruction.rdlo}

UnsignedFactors == registers[instruction.rm] * registers[instruction.rs]
SignedFactors == Signed(registers[instruction.rm]) * Signed(registers[instruction.rs])

(***************************************************************************)
(* UMULL and SMULL give the product itself, signed or not, UMLAL the sum   *)
(* modulo twice the width, whichever registers are also operands; with the *)
(* S bit, N is the sign of the result and Z is set when all of it is zero  *)
(* (and also when only its low word is, see the README).                   *)
(***************************************************************************)
LongProductExact ==
  [][LongMultiply =>
       LET hi == instruction.rdhi
           lo == instruction.rdlo
       IN  /\ ~instruction.u /\ ~instruction.a => Pair(registers', hi, lo) = UnsignedFactors
           /\ ~instruction.u /\ instruction.a =>
                Pair(registers', hi, lo)
                  = (Pair(registers, hi, lo) + UnsignedFactors) % DoubleModulus
           /\ instruction.u /\ ~instruction.a =>
                SignedPair(registers', hi, lo) = SignedFactors
           /\ SetsFlags => (cpsr'.n = 1 <=> SignedPair(registers', hi, lo) < 0)
           /\ SetsFlags /\ Pair(registers', hi, lo) = 0 => cpsr'.z = 1]_vars

(***************************************************************************)
(* "Multiply accumulate RdHi,RdLo := Rm * Rs + RdHi,RdLo" (vm.cpp:660), of *)
(* the signed branch: SMLAL adds one product to the accumulator.           *)
(***************************************************************************)
SignedAccumulates ==
  [][LongMultiply /\ instruction.u /\ instruction.a =>
       LET hi == instruction.rdhi
           lo == instruction.rdlo
       IN  Pair(registers', hi, lo)
             = (Pair(registers, hi, lo) + SignedFactors) % DoubleModulus]_vars
=============================================================================
