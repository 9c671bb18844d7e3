------------------------------- MODULE MCRun -------------------------------
(***************************************************************************)
(* One call of run() for as many turns as a program has instructions, as   *)
(* the host can start it once the program is loaded: what the instances    *)
(* that try every operand of a few instructions have in common.            *)
(***************************************************************************)
EXTENDS Assembler, MCWords

Begun(program) ==
  /\ code = CodeOf(program)
  /\ instruction = ZeroInstruction
  /\ phase = "fetch"
  /\ i = 0 /\ offset = 0
  /\ limit = Len(program) /\ iter = 0
  /\ programSize = 4 * Len(program)
  /\ result = "none"

Start(program) == Begun(program) /\ ram = [a \in Ram |-> 0]

\* A guest can load any value in its registers.
Operands(values, n) ==
  \E f \in [0 .. n - 1 -> values] :
    registers = [r \in Register |-> IF r < n THEN f[r] ELSE 0]

\* The words around the ends of the signed and unsigned ranges.
Ends == {0, 1, SignBit - 2, SignBit - 1, SignBit, SignBit + 1, Modulus - 2, Modulus - 1}

\* An address away from the program and the ends, and a memory without zeroes.
Middle == 40
Pattern(a) == (a * 7 + a \div 3) % ByteModulus

ImagesOf(programs) == {File(CodeOf(p), NoData) : p \in programs}
=============================================================================
