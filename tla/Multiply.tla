------------------------------ MODULE Multiply ------------------------------
(***************************************************************************)
(* multiplyEval() and multiplyLongEval(): MUL and MLA on one word, UMULL,  *)
(* UMLAL, SMULL and SMLAL on two.  In the long instructions the bit u is   *)
(* the one the code tests under the comment "signed".                      *)
(***************************************************************************)
EXTENDS Cpu

MultiplyInstruction ==
  [format : {"multiply"}, condition : Condition, a : BOOLEAN, s : BOOLEAN,
   rd : Register, rn : Register, rs : Register, rm : Register]
MultiplyLongInstruction ==
  [format : {"multiply_long"}, condition : Condition, u : BOOLEAN, a : BOOLEAN,
   s : BOOLEAN, rdhi : Register, rdlo : Register, rs : Register, rm : Register]

-----------------------------------------------------------------------------
\* MLA with the addend forgotten.
PlainProduct(t) == Wrap(registers[t.rm] * registers[t.rs])

MultiplyResult(t) ==
  Wrap(registers[t.rm] * registers[t.rs] + (IF t.a THEN registers[t.rn] ELSE 0))

multiplyEval ==
  /\ Executing("multiply")
  /\ LET product == MultiplyResult(instruction)
     IN  /\ registers' = [registers EXCEPT ![instruction.rd] = product]
         /\ cpsr' = IF instruction.s /\ instruction.rd # PC
                    THEN [cpsr EXCEPT !.z = FlagOf(product = 0), !.n = FlagOf(NEG(product))]
                    ELSE cpsr
  /\ Complete
  /\ UNCHANGED <<memory, instruction, block>>

-----------------------------------------------------------------------------
(* Two words.  The code computes in int64_t or uint64_t; every build wraps *)
(* the signed sums too.                                                    *)

DoubleModulus == Modulus * Modulus     \* 2^64

signedCastTo64(value) == IF NEG(value) THEN value - Modulus ELSE value

Factor(t, r) == IF t.u THEN signedCastTo64(registers[r]) ELSE registers[r]
LongProduct(t) == Factor(t, t.rm) * Factor(t, t.rs)

\* The signed branch already adds the product here, and so once too often.
Accumulator(t) ==
  CASE ~t.a -> 0
    [] t.a /\ ~t.u -> Modulus * registers[t.rdhi] + registers[t.rdlo]
    [] t.a /\ t.u -> Modulus * registers[t.rdhi] + registers[t.rdlo] + LongProduct(t)

\* A product of words where one of double words is meant.
NarrowResult(t) == Wrap(Accumulator(t) + LongProduct(t))

LongResult(t) == (Accumulator(t) + LongProduct(t)) % DoubleModulus

\* Z is set from the low word alone: "rdlo | rdlo".
LongFlags(t, file) ==
  IF t.s /\ t.rdhi # PC /\ t.rdlo # PC
  THEN [cpsr EXCEPT !.z = FlagOf(file[t.rdlo] = 0), !.n = FlagOf(NEG(file[t.rdhi]))]
  ELSE cpsr

multiplyLongEval ==
  /\ Executing("multiply_long")
  /\ LET long == LongResult(instruction)
     IN  registers' = [registers EXCEPT ![instruction.rdhi] = long \div Modulus,
                                        ![instruction.rdlo] = long % Modulus]
  /\ cpsr' = LongFlags(instruction, registers')
  /\ Complete
  /\ UNCHANGED <<memory, instruction, block>>
=============================================================================
