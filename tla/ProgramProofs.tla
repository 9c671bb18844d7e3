--------------------------- MODULE ProgramProofs ---------------------------
(***************************************************************************)
(* What straight-line programs compute in one call of run(), from any      *)
(* registers, flags and memory, at every width of a word.  The programs    *)
(* and what they owe are those of the instances TLC checks.                *)
(***************************************************************************)
EXTENDS HandlerProofs, MCAlu, MCMultiply, MCSingle, MCHalfword, MCBlock,
        SequenceTheorems

-----------------------------------------------------------------------------
(* From instruction to instruction.                                        *)

\* run() has just been called with a turn for each instruction of a loaded
\* program, whatever the registers, the flags and the memory hold.
Begins(program) ==
  /\ Begun(program)
  /\ TypeOK
  /\ registers[PC] = 0
  /\ programSize <= MemSize

\* The instruction that is fetched or evaluated is the one iter counts to.
Following(program) ==
  /\ code = CodeOf(program)
  /\ 4 * Len(program) <= MemSize
  /\ phase \in Inside => limit = Len(program)
  /\ phase = "fetch" /\ iter < limit => registers[PC] = 4 * iter
  /\ phase \in {"evaluate", "transfer"} => instruction = program[iter + 1]
  /\ phase = "evaluate" => registers[PC] = Wrap(4 * (iter + 1))

\* The instruction at the address of each instruction of a program.
LEMMA CodeOfProgram ==
  ASSUME NEW program, Len(program) \in Nat, DOMAIN program = 1 .. Len(program)
  PROVE  /\ DOMAIN CodeOf(program) = {4 * k : k \in 0 .. Len(program) - 1}
         /\ \A k \in 0 .. Len(program) - 1 : CodeOf(program)[4 * k] = program[k + 1]
<1> DEFINE n == Len(program)
           places == {0 + 4 * (k - 1) : k \in DOMAIN program}
<1>1. CodeOf(program) = [a \in places |-> program[((a - 0) \div 4) + 1]]
  BY DEF CodeOf, CodeAt
<1>2. places = {4 * k : k \in 0 .. n - 1}
  <2>1. ASSUME NEW a \in places PROVE a \in {4 * k : k \in 0 .. n - 1}
    <3>1. PICK k \in 1 .. n : a = 0 + 4 * (k - 1)
      BY <2>1
    <3>2. k - 1 \in 0 .. n - 1 /\ a = 4 * (k - 1)
      BY <3>1
    <3> QED
      BY <3>2
  <2>2. ASSUME NEW a \in {4 * k : k \in 0 .. n - 1} PROVE a \in places
    <3>1. PICK k \in 0 .. n - 1 : a = 4 * k
      BY <2>2
    <3>2. k + 1 \in 1 .. n /\ a = 0 + 4 * ((k + 1) - 1)
      BY <3>1
    <3> QED
      BY <3>2
  <2> QED
    BY <2>1, <2>2
<1>3. ASSUME NEW k \in 0 .. n - 1
      PROVE  CodeOf(program)[4 * k] = program[k + 1]
  <2>1. 4 * k \in places
    BY <1>2
  <2>2. (4 * k - 0) \div 4 = k
    BY QuotientIs
  <2> HIDE DEF places
  <2> QED
    BY <1>1, <2>1, <2>2
<1> QED
  BY <1>1, <1>2, <1>3

\* A program that begins is followed, and nothing has been done of it.
LEMMA BeginFollows ==
  ASSUME NEW program, Len(program) \in Nat, Begins(program)
  PROVE  /\ IInv /\ Following(program)
         /\ phase = "fetch" /\ iter = 0
BY DEF Begins, Begun, IInv, RunInv, Following, Inside

\* The turns of the loop that are not an evaluation.
Fetches(program) ==
  /\ phase = "fetch" /\ phase' = "evaluate"
  /\ iter < Len(program) /\ UNCHANGED <<iter, limit>>
  /\ instruction' = program[iter + 1]
  /\ registers' = [registers EXCEPT ![PC] = Wrap(4 * (iter + 1))]
  /\ UNCHANGED <<cpsr, ram, code, programSize, offset, i>>

ComesBack(program) ==
  /\ phase = "fetch" /\ phase' = "idle" /\ iter = Len(program)
  /\ UNCHANGED <<registers, cpsr, ram, code, programSize>>

\* A turn of the loop over a program that is followed fetches the next
\* instruction, comes back after the last, or evaluates one.
LEMMA ProgramTurn ==
  ASSUME NEW program, Len(program) \in Nat \ {0}, DOMAIN program = 1 .. Len(program),
         IInv, Following(program), Turn
  PROVE  \/ Fetches(program)
         \/ ComesBack(program)
         \/ phase \in {"evaluate", "transfer"} /\ Evaluate
<1>1. Machine /\ Control /\ phase \notin {"idle", "constructed", "initialised"} \cup Lost
  <2>1. phase \notin {"idle", "constructed", "initialised"} \cup Lost
    BY DEF Turn, Exhausted, FetchDecode, Evaluate, SkipInstruction, AssertInstruction,
           dataProcessingEval, singleDataTranferEval, blockDataTransferEval, BeginTransfer,
           SkipRegister, TransferRegister, EscapeTransfer, EndTransfer, branchEval,
           branchAndExchangeEval, softwareInterruptEval, multiplyEval, multiplyLongEval,
           halfwordDataTransferImmediateOffEval, halfwordDataTransferRegisterOffEval,
           Executing, Lost
  <2> QED
    BY <2>1, Parts
<1>2. phase \in Inside /\ limit = Len(program)
  BY <1>1 DEF Control, Phase, Following, Inside
<1>3. ASSUME phase = "fetch", FetchDecode
      PROVE  Fetches(program)
  <2>1. iter \in 0 .. Len(program) - 1 /\ iter < limit
    BY <1>1, <1>2, <1>3 DEF FetchDecode, TurnsLeft, Control
  <2>2. registers[PC] = 4 * iter
    BY <1>3, <2>1 DEF Following
  <2>3. /\ code = CodeOf(program)
        /\ registers[PC] \in DOMAIN code /\ code[registers[PC]] = program[iter + 1]
    BY <2>1, <2>2, CodeOfProgram DEF Following
  <2>4. /\ phase' = "evaluate" /\ instruction' = code[registers[PC]]
        /\ UNCHANGED run
    BY <1>3, <2>3 DEF FetchDecode
  <2>5. registers' = [registers EXCEPT ![PC] = Wrap(registers[PC] + 4)]
        /\ UNCHANGED <<cpsr, memory, block>>
    BY <1>3 DEF FetchDecode
  <2>6. registers[PC] + 4 = 4 * (iter + 1)
    BY <2>1, <2>2
  <2>7. UNCHANGED <<iter, limit>>
    BY <2>4 DEF run
  <2>8. UNCHANGED <<cpsr, ram, code, programSize, offset, i>>
    BY <2>5 DEF memory, block
  <2>9. iter < Len(program)
    BY <2>1
  <2> QED
    BY <1>3, <2>3, <2>4, <2>5, <2>6, <2>7, <2>8, <2>9 DEF Fetches
<1>4. ASSUME phase = "fetch", Exhausted
      PROVE  ComesBack(program)
  <2>1. phase' = "idle" /\ UNCHANGED <<registers, cpsr, ram, code, programSize>>
    BY <1>4 DEF Exhausted, Return, memory
  <2>2. iter \in 0 .. limit /\ ~(iter < limit)
    BY <1>1, <1>4 DEF Exhausted, TurnsLeft, Control
  <2>3. iter = limit
    <3>1. limit \in Nat
      BY <1>2
    <3> QED
      BY <2>2, <3>1
  <2> QED
    BY <1>2, <1>4, <2>1, <2>3 DEF ComesBack
<1>5. ASSUME Evaluate PROVE phase \in {"evaluate", "transfer"}
  BY <1>5 DEF Evaluate, SkipInstruction, AssertInstruction,
           dataProcessingEval, singleDataTranferEval, blockDataTransferEval, BeginTransfer,
           SkipRegister, TransferRegister, EscapeTransfer, EndTransfer, branchEval,
           branchAndExchangeEval, softwareInterruptEval, multiplyEval, multiplyLongEval,
           halfwordDataTransferImmediateOffEval, halfwordDataTransferRegisterOffEval, Executing
<1>6. (FetchDecode \/ Exhausted) => phase = "fetch"
  BY DEF FetchDecode, Exhausted
<1> QED
  BY <1>3, <1>4, <1>5, <1>6 DEF Turn

\* The invariant of the machine goes on, and but for an evaluation the program
\* is still followed.
LEMMA ProgramStep ==
  ASSUME NEW program, Len(program) \in Nat \ {0}, DOMAIN program = 1 .. Len(program),
         IInv, Following(program), [Turn]_vars
  PROVE  /\ IInv'
         /\ \/ UNCHANGED vars /\ Following(program)'
            \/ Fetches(program) /\ Following(program)'
            \/ ComesBack(program) /\ Following(program)'
            \/ phase \in {"evaluate", "transfer"} /\ Evaluate
<1>1. IInv'
  BY NextInv DEF Next
<1>2. UNCHANGED vars => Following(program)'
  BY DEF vars, Following
<1>3. Fetches(program) => Following(program)'
  <2>1. registers \in [Register -> Word] /\ PC \in Register
    BY Parts DEF Machine, PC, Register
  <2> QED
    BY <2>1 DEF Fetches, Following, Inside
<1>4. ComesBack(program) => Following(program)'
  BY DEF ComesBack, Following, Inside
<1> QED
  BY <1>1, <1>2, <1>3, <1>4, ProgramTurn

\* An evaluation whose condition is always true is the handler of the format.
LEMMA AlwaysHandled ==
  ASSUME Evaluate, phase = "evaluate", instruction.condition = "AL"
  PROVE  /\ instruction.format = "data_processing" => dataProcessingEval
         /\ instruction.format = "single_data_transfer" => singleDataTranferEval
         /\ instruction.format = "block_data_transfer" => BeginTransfer
         /\ instruction.format = "multiply" => multiplyEval
         /\ instruction.format = "multiply_long" => multiplyLongEval
         /\ instruction.format = "halfword_data_transfer_immediate_off"
              => halfwordDataTransferImmediateOffEval
         /\ instruction.format = "halfword_data_transfer_register_off" /\ ~Asserting
              => halfwordDataTransferRegisterOffEval
<1>1. TestCondition(instruction.condition)
  BY DEF TestCondition
<1>2. ~SkipInstruction
  BY <1>1 DEF SkipInstruction
<1>3. AssertInstruction => \/ instruction.format = "unimplemented"
                           \/ instruction.format = "halfword_data_transfer_register_off"
                              /\ Asserting
  BY DEF AssertInstruction, Unsupported
<1>4. /\ dataProcessingEval => instruction.format = "data_processing"
      /\ singleDataTranferEval => instruction.format = "single_data_transfer"
      /\ branchEval => instruction.format = "branch"
      /\ branchAndExchangeEval => instruction.format = "branch_and_exchange"
      /\ softwareInterruptEval => instruction.format = "software_interrupt"
      /\ multiplyEval => instruction.format = "multiply"
      /\ multiplyLongEval => instruction.format = "multiply_long"
  BY DEF dataProcessingEval, singleDataTranferEval, branchEval, branchAndExchangeEval,
         softwareInterruptEval, multiplyEval, multiplyLongEval, Executing
<1>5. blockDataTransferEval => BeginTransfer /\ instruction.format = "block_data_transfer"
  BY DEF blockDataTransferEval, BeginTransfer, SkipRegister, TransferRegister, EscapeTransfer,
         EndTransfer, Executing
<1>6. /\ halfwordDataTransferImmediateOffEval
           => instruction.format = "halfword_data_transfer_immediate_off"
      /\ halfwordDataTransferRegisterOffEval
           => instruction.format = "halfword_data_transfer_register_off"
  BY DEF halfwordDataTransferImmediateOffEval, halfwordDataTransferRegisterOffEval, Executing
<1> QED
  BY <1>2, <1>3, <1>4, <1>5, <1>6 DEF Evaluate

\* A handler that returns to the loop and leaves pc alone goes on with the
\* program.
LEMMA HandlerFollows ==
  ASSUME NEW program, Len(program) \in Nat \ {0}, IInv, Following(program),
         phase = "evaluate", Complete, registers'[PC] = registers[PC],
         code' = code
  PROVE  Following(program)' /\ phase' = "fetch" /\ iter' = iter + 1 /\ iter < Len(program)
<1>1. /\ limit = Len(program) /\ iter \in Nat /\ iter < limit
      /\ registers[PC] = Wrap(4 * (iter + 1))
  BY Parts DEF Following, Inside, Control, RunInv
<1>2. iter' = iter + 1 /\ limit' = limit /\ phase' = "fetch"
  BY <1>1 DEF Complete
<1>3. iter' < limit' => registers'[PC] = 4 * iter'
  <2> SUFFICES ASSUME iter' < limit'
               PROVE  Wrap(4 * (iter + 1)) = 4 * (iter + 1)
    BY <1>1, <1>2
  <2>1. 4 * (iter + 1) < MemSize
    BY <1>1, <1>2, MemSizeAssumption DEF Following
  <2>2. 4 * (iter + 1) \in Word
    BY <1>1, <2>1, MemSizeAssumption, ModulusFacts DEF Word
  <2> QED
    BY <2>2, WrapWord
<1> QED
  BY <1>1, <1>2, <1>3 DEF Following, Inside

-----------------------------------------------------------------------------
(* Data processing.                                                        *)

\* A register as the second operand is the word it holds.
LEMMA PlainOperand ==
  ASSUME NEW rm \in Register \ {PC}, registers \in [Register -> Word]
  PROVE  \E carry : Operand2(Reg(rm)) = {[value |-> registers[rm], carry |-> carry]}
<1> DEFINE a == Wrap(registers[rm] + 0)
<1>1. registers[rm] \in Word
  OBVIOUS
<1>2. registers[rm] + 0 = registers[rm]
  BY <1>1, ModulusFacts DEF Word
<1>3. a = registers[rm]
  BY <1>1, <1>2, WrapWord
<1>4. Operand2(Reg(rm)) = {LogicalLeft(a, 0)}
  BY DEF Operand2, Reg, shift
<1>5. LogicalLeft(a, 0) = Shifted(a, cpsr.c)
  BY WidthAssumption DEF LogicalLeft
<1>6. Shifted(a, cpsr.c) = [value |-> registers[rm], carry |-> cpsr.c]
  BY <1>1, <1>3, WrapWord DEF Shifted
<1> QED
  BY <1>4, <1>5, <1>6

\* An arithmetic instruction with the S bit on registers: its result and flags.
LEMMA ArithmeticStep ==
  ASSUME NEW opcode \in Additions \cup Subtractions,
         NEW rd \in Register \ {PC}, NEW rn \in Register \ {PC}, NEW rm \in Register \ {PC},
         IInv, Evaluate, phase = "evaluate", instruction = AluS(opcode, rd, rn, Reg(rm))
  PROVE  /\ registers' = IF opcode \in Tests THEN registers
                         ELSE [registers EXCEPT
                                 ![rd] = Result(opcode, rn, registers[rn], registers[rm])]
         /\ FlagsDescribe(opcode, registers[rn], registers[rm])
         /\ Complete /\ UNCHANGED <<memory, instruction, block>>
<1>1. /\ instruction.condition = "AL" /\ instruction.format = "data_processing"
      /\ instruction.s /\ instruction.opcode = opcode /\ instruction.operand2 = Reg(rm)
      /\ instruction.rn = rn /\ instruction.rd = rd
  BY DEF AluS, Alu
<1>2. dataProcessingEval
  BY <1>1, AlwaysHandled
<1>3. /\ registers \in [Register -> Word] /\ registers[rn] \in Word
      /\ registers[rn] + 0 = registers[rn]
  <2>1. registers \in [Register -> Word]
    BY Parts DEF Machine
  <2>2. registers[rn] \in Word
    BY <2>1
  <2> QED
    BY <2>1, <2>2, ModulusFacts DEF Word
<1>4. Operand1(rn) = registers[rn]
  BY <1>3, WrapWord DEF Operand1
<1>5. PICK carry : Operand2(Reg(rm)) = {[value |-> registers[rm], carry |-> carry]}
  BY <1>3, PlainOperand
<1>6. FlagsDescribe(opcode, registers[rn], registers[rm])
  <2>1. Executing("data_processing") /\ Next
    BY <1>2 DEF dataProcessingEval, Next, Turn
  <2> QED
    BY <1>1, <1>4, <1>5, <2>1, HandlerFlags
<1>7. registers' = IF opcode \in Tests THEN registers
                   ELSE [registers EXCEPT
                           ![rd] = Result(opcode, rn, registers[rn], registers[rm])]
  <2>1. PICK shifted \in Operand2(Reg(rm)) :
          registers' = IF opcode \in Tests THEN registers
                       ELSE [registers EXCEPT
                               ![rd] = Result(opcode, rn, Operand1(rn), shifted.value)]
    BY <1>1, <1>2, SMTT(30) DEF dataProcessingEval
  <2>2. shifted.value = registers[rm]
    BY <1>5
  <2> QED
    BY <1>4, <2>1, <2>2
<1>8. Complete /\ UNCHANGED <<memory, instruction, block>>
  BY <1>2 DEF dataProcessingEval
<1> QED
  BY <1>6, <1>7, <1>8

-----------------------------------------------------------------------------
(* Double words.                                                           *)

\* Two numbers of two words each are compared by their high words, and by the
\* borrow of the low ones.
LEMMA HighDecides ==
  ASSUME NEW a \in Int, NEW b \in Int, NEW x0 \in Word, NEW y0 \in Word
  PROVE  LET noBorrow == FlagOf(x0 - y0 >= 0)
         IN  (a - b) + (noBorrow - 1) >= 0 <=> Modulus * a + x0 >= Modulus * b + y0
<1> DEFINE M == Modulus
           d == a - b
           x == M * a + x0
           y == M * b + y0
           noBorrow == FlagOf(x0 - y0 >= 0)
<1>1. /\ M \in Nat \ {0} /\ d \in Int
      /\ x0 \in 0 .. M - 1 /\ y0 \in 0 .. M - 1
  BY ModulusFacts DEF Word
<1>2. x - y = M * d + (x0 - y0) /\ x \in Int /\ y \in Int
  BY <1>1
<1>3. CASE d >= 1
  <2>1. M * d >= M
    <3> HIDE DEF M, d
    <3> QED BY <1>1, <1>3
  <2> QED
    BY <1>1, <1>2, <1>3, <2>1 DEF FlagOf
<1>4. CASE d = 0
  BY <1>1, <1>2, <1>4 DEF FlagOf
<1>5. CASE d <= -1
  <2>1. M * d <= -M
    <3> HIDE DEF M, d
    <3> QED BY <1>1, <1>5
  <2> QED
    BY <1>1, <1>2, <1>5, <2>1 DEF FlagOf
<1> QED
  BY <1>1, <1>3, <1>4, <1>5

\* The carry, or no borrow, of the low words makes the sum, or difference, of
\* the high words that of the double words.
LEMMA CarryChains ==
  ASSUME NEW x0 \in Word, NEW x1 \in Word, NEW y0 \in Word, NEW y1 \in Word
  PROVE  LET x == Modulus * x1 + x0
             y == Modulus * y1 + y0
             carry == FlagOf(x0 + y0 >= Modulus)
             noBorrow == FlagOf(x0 - y0 >= 0)
         IN  /\ Modulus * Wrap(x1 + y1 + carry) + Wrap(x0 + y0) = (x + y) % DoubleModulus
             /\ Modulus * Wrap(x1 - y1 + noBorrow - 1) + Wrap(x0 - y0)
                  = (x - y) % DoubleModulus
<1> DEFINE x == Modulus * x1 + x0
           y == Modulus * y1 + y0
           carry == FlagOf(x0 + y0 >= Modulus)
           noBorrow == FlagOf(x0 - y0 >= 0)
           M == Modulus
           z == M * Wrap(x1 + y1 + carry) + Wrap(x0 + y0)
           w == M * Wrap(x1 - y1 + noBorrow - 1) + Wrap(x0 - y0)
<1>1. M \in Nat \ {0} /\ M * M \in Nat \ {0}
  BY ModulusFacts
<1>2. /\ x0 \in 0 .. M - 1 /\ x1 \in 0 .. M - 1 /\ y0 \in 0 .. M - 1 /\ y1 \in 0 .. M - 1
      /\ M * x1 \in Nat /\ M * y1 \in Nat
  BY <1>1 DEF Word
<1>3. \A hi, lo \in 0 .. M - 1 : M * hi + lo \in 0 .. M * M - 1
  <2> SUFFICES ASSUME NEW hi \in 0 .. M - 1, NEW lo \in 0 .. M - 1
               PROVE  M * hi + lo \in 0 .. M * M - 1
    OBVIOUS
  <2> HIDE DEF M
  <2>1. M * hi <= M * (M - 1) /\ M * hi >= 0 /\ M * hi \in Int
    BY <1>1
  <2>2. M * (M - 1) = M * M - M
    BY <1>1
  <2> QED
    BY <1>1, <2>1, <2>2
<1>4. z = (x + y) % DoubleModulus
  <2>1. PICK c1 \in {0, 1} : Wrap(x0 + y0) = x0 + y0 - M * c1 /\ carry = c1
    BY <1>1, <1>2, WrapNear DEF FlagOf
  <2>2. PICK c2 \in {0, 1} : Wrap(x1 + y1 + carry) = x1 + y1 + carry - M * c2
    BY <1>1, <1>2, <2>1, WrapNear
  <2>3. z = x + y + (-c2) * (M * M)
    <3>1. /\ Wrap(x0 + y0) = x0 + y0 - M * c1
          /\ Wrap(x1 + y1 + carry) = x1 + y1 + c1 - M * c2
      BY <2>1, <2>2
    <3> HIDE DEF M, carry
    <3>2. M * (x1 + y1 + c1 - M * c2) = M * x1 + M * y1 + M * c1 - c2 * (M * M)
      BY <1>1, <1>2
    <3>3. z = M * x1 + M * y1 + M * c1 - c2 * (M * M) + (x0 + y0 - M * c1)
      BY <3>1, <3>2
    <3>4. M * c1 \in Int /\ c2 * (M * M) \in Int /\ (-c2) * (M * M) = -(c2 * (M * M))
      BY <1>1
    <3>5. x + y = M * x1 + x0 + (M * y1 + y0)
      BY DEF M
    <3> QED
      BY <1>2, <3>3, <3>4, <3>5
  <2>4. x + y \in Int /\ -c2 \in Int
    BY <1>2
  <2>5. z \in 0 .. M * M - 1
    <3>1. Wrap(x1 + y1 + carry) \in 0 .. M - 1 /\ Wrap(x0 + y0) \in 0 .. M - 1
      BY <1>2, <2>1, WrapType DEF Word
    <3> HIDE DEF M, carry
    <3> QED
      BY <1>3, <3>1
  <2> HIDE DEF x, y, M, z
  <2>6. (x + y + (-c2) * (M * M)) % (M * M) = (x + y) % (M * M)
    BY <1>1, <2>4, RemainderOfMultiple
  <2>7. z % (M * M) = z
    BY <1>1, <2>5
  <2> QED
    BY <2>3, <2>6, <2>7 DEF DoubleModulus, M
<1>5. w = (x - y) % DoubleModulus
  <2>1. PICK b1 \in {0, 1} : Wrap(x0 - y0) = x0 - y0 + M * b1 /\ noBorrow = 1 - b1
    BY <1>1, <1>2, WrapNear DEF FlagOf
  <2>2. PICK b2 \in {0, 1} : Wrap(x1 - y1 + noBorrow - 1) = x1 - y1 - b1 + M * b2
    <3>1. x1 - y1 + noBorrow - 1 = x1 - y1 - b1
      BY <1>2, <2>1
    <3>2. x1 - y1 - b1 \in Int /\ x1 - y1 - b1 >= -M /\ x1 - y1 - b1 < 2 * M
      BY <1>1, <1>2
    <3>3. Wrap(x1 - y1 - b1) = IF x1 - y1 - b1 < 0 THEN x1 - y1 - b1 + M
                               ELSE IF x1 - y1 - b1 >= M THEN x1 - y1 - b1 - M
                               ELSE x1 - y1 - b1
      BY <3>2, WrapNear
    <3>4. x1 - y1 - b1 < M /\ M * 1 = M /\ M * 0 = 0
      BY <1>1, <1>2
    <3> HIDE DEF M, noBorrow
    <3>5. x1 - y1 - b1 + 0 = x1 - y1 - b1
      BY <1>2
    <3>6. \/ Wrap(x1 - y1 - b1) = x1 - y1 - b1 + M * 1
          \/ Wrap(x1 - y1 - b1) = x1 - y1 - b1 + M * 0
      BY <1>1, <1>2, <3>3, <3>4, <3>5 DEF M
    <3> QED
      BY <3>1, <3>6
  <2>3. w = x - y + b2 * (M * M)
    <3> HIDE DEF M, noBorrow
    <3>2. M * (x1 - y1 - b1 + M * b2) = M * x1 - M * y1 - M * b1 + b2 * (M * M)
      BY <1>1, <1>2
    <3>3. w = M * x1 - M * y1 - M * b1 + b2 * (M * M) + (x0 - y0 + M * b1)
      BY <2>1, <2>2, <3>2
    <3>4. M * b1 \in Int /\ b2 * (M * M) \in Int
      BY <1>1
    <3>5. x - y = (M * x1 + x0) - (M * y1 + y0)
      BY DEF M
    <3> QED
      BY <1>2, <3>3, <3>4, <3>5
  <2>4. x - y \in Int /\ b2 \in Int
    BY <1>2
  <2>5. w \in 0 .. M * M - 1
    <3>1. Wrap(x1 - y1 + noBorrow - 1) \in 0 .. M - 1 /\ Wrap(x0 - y0) \in 0 .. M - 1
      BY <1>2, <2>1, WrapType DEF Word
    <3> HIDE DEF M, noBorrow
    <3> QED
      BY <1>3, <3>1
  <2> HIDE DEF x, y, M, w
  <2>6. (x - y + b2 * (M * M)) % (M * M) = (x - y) % (M * M)
    BY <1>1, <2>4, RemainderOfMultiple
  <2>7. w % (M * M) = w
    BY <1>1, <2>5
  <2> QED
    BY <2>3, <2>6, <2>7 DEF DoubleModulus, M
<1> QED
  BY <1>4, <1>5

\* N and V together are the sign of the exact result.
LEMMA FlagsOrder ==
  ASSUME NEW e \in Int, e >= -Modulus, e < Modulus, NEW k \in Int
  PROVE  FlagOf(Wrap(e + k * Modulus) >= SignBit) = FlagOf(~FitsSigned(e)) <=> e >= 0
<1>1. Wrap(e + k * Modulus) = Wrap(e)
  BY WrapMultiple
<1>2. Wrap(e) = IF e < 0 THEN e + Modulus ELSE e
  BY ModulusFacts, WrapNear
<1> QED
  BY <1>1, <1>2, ModulusFacts DEF FlagOf, FitsSigned

\* The carry and the low word the first of two instructions leaves.
LowFlag(first) ==
  CASE first = "ADD" -> FlagOf(registers[0] + registers[2] >= Modulus)
    [] first \in {"SUB", "CMP"} -> FlagOf(registers[0] - registers[2] >= 0)
    [] first = "RSB" -> FlagOf(registers[2] - registers[0] >= 0)
LowWord(first) ==
  CASE first = "ADD" -> Wrap(registers[0] + registers[2])
    [] first \in {"SUB", "CMP"} -> Wrap(registers[0] - registers[2])
    [] first = "RSB" -> Wrap(registers[2] - registers[0])

Pairs == {<<"ADD", "ADC">>, <<"SUB", "SBC">>, <<"RSB", "RSC">>, <<"CMP", "SBC">>}

\* What the two instructions leave.
DoubleDone(first) ==
  LET x == DoubleWord(0, 1)
      y == DoubleWord(2, 3)
      z == DoubleWord(4, 5)
  IN  /\ first = "ADD" => z = (x + y) % DoubleModulus
      /\ first = "SUB" => z = (x - y) % DoubleModulus
      /\ first = "RSB" => z = (y - x) % DoubleModulus
      /\ first = "CMP" => /\ TestCondition("CS") <=> x >= y
                          /\ TestCondition("GE") <=> SignedDouble(0, 1) >= SignedDouble(2, 3)

\* Between the two the carry is that of the low words; when they are done so is
\* the double word.
DoubleInv(first, second) ==
  /\ IInv
  /\ Following(Double(first, second))
  /\ phase \in {"fetch", "evaluate", "idle"}
  /\ phase # "idle" /\ iter = 1 =>
       /\ cpsr.c = LowFlag(first)
       /\ first # "CMP" => registers[4] = LowWord(first)
  /\ phase = "idle" \/ iter = 2 => DoubleDone(first)

\* The two instructions of a program over two words.
LEMMA DoubleProgram ==
  ASSUME NEW first, NEW second
  PROVE  LET program == Double(first, second)
         IN  /\ Len(program) = 2 /\ DOMAIN program = 1 .. Len(program)
             /\ program[1] = AluS(first, 4, 0, Reg(2))
             /\ program[2] = AluS(second, 5, 1, Reg(3))
BY DEF Double

\* The first instruction.
LEMMA LowStep ==
  ASSUME NEW pair \in Pairs, DoubleInv(pair[1], pair[2]), phase = "evaluate", iter = 0,
         Evaluate
  PROVE  /\ cpsr'.c = LowFlag(pair[1])'
         /\ pair[1] # "CMP" => registers'[4] = LowWord(pair[1])'
         /\ registers'[PC] = registers[PC]
         /\ Complete /\ code' = code
<1> DEFINE first == pair[1]
<1>1. first \in {"ADD", "SUB", "RSB", "CMP"}
  BY DEF Pairs
<1>2. /\ first \in Additions \cup Subtractions
      /\ 4 \in Register \ {PC} /\ 0 \in Register \ {PC} /\ 2 \in Register \ {PC}
  BY <1>1 DEF Additions, Subtractions, Forward, Reversed, Register, PC
<1>3. instruction = AluS(first, 4, 0, Reg(2))
  BY DoubleProgram DEF DoubleInv, Following
<1>4. registers \in [Register -> Word] /\ IInv
  BY Parts DEF DoubleInv, Machine
<1> DEFINE x == registers[0]
           y == registers[2]
<1>5. /\ registers' = IF first \in Tests THEN registers
                      ELSE [registers EXCEPT ![4] = Result(first, 0, x, y)]
      /\ FlagsDescribe(first, x, y)
      /\ Complete /\ UNCHANGED <<memory, instruction, block>>
  BY <1>2, <1>3, <1>4, ArithmeticStep
<1>6. registers'[0] = x /\ registers'[2] = y /\ registers'[PC] = registers[PC]
  BY <1>2, <1>4, <1>5
<1>7. cpsr'.c = FlagOf(IF first \in Additions THEN Exact(first, x, y, Unsigned) >= Modulus
                       ELSE Exact(first, x, y, Unsigned) >= 0)
  BY <1>5 DEF FlagsDescribe
<1>8. /\ first = "ADD" => Exact(first, x, y, Unsigned) = x + y /\ first \in Additions
      /\ first \in {"SUB", "CMP"} => /\ Exact(first, x, y, Unsigned) = x - y
                                     /\ first \notin Additions
      /\ first = "RSB" => Exact(first, x, y, Unsigned) = y - x /\ first \notin Additions
  BY DEF Exact, Unsigned, Additions
<1>9. /\ first = "ADD" => Result(first, 0, x, y) = Wrap(x + y)
      /\ first = "SUB" => Result(first, 0, x, y) = Wrap(x - y)
      /\ first = "RSB" => Result(first, 0, x, y) = Wrap(y - x)
  BY DEF Result
<1>10. cpsr'.c = LowFlag(first)'
  BY <1>1, <1>6, <1>7, <1>8 DEF LowFlag
<1>11. first # "CMP" => registers'[4] = Result(first, 0, x, y)
  BY <1>1, <1>2, <1>4, <1>5 DEF Tests
<1>12. first # "CMP" => registers'[4] = LowWord(first)'
  BY <1>1, <1>6, <1>9, <1>11 DEF LowWord
<1> QED
  BY <1>5, <1>6, <1>10, <1>12 DEF memory

\* The second, which uses that carry.
LEMMA HighStep ==
  ASSUME NEW pair \in Pairs, DoubleInv(pair[1], pair[2]), phase = "evaluate", iter = 1,
         Evaluate
  PROVE  /\ DoubleDone(pair[1])'
         /\ registers'[PC] = registers[PC]
         /\ Complete /\ code' = code
<1> DEFINE first == pair[1]
           second == pair[2]
           x0 == registers[0]
           x1 == registers[1]
           y0 == registers[2]
           y1 == registers[3]
           result2 == Result(second, 1, x1, y1)
<1>1. <<first, second>> \in Pairs /\ second \in {"ADC", "SBC", "RSC"}
  BY DEF Pairs
<1>2. /\ second \in Additions \cup Subtractions /\ second \notin Tests
      /\ 5 \in Register \ {PC} /\ 1 \in Register \ {PC} /\ 3 \in Register \ {PC}
  BY <1>1 DEF Additions, Subtractions, Forward, Reversed, Tests, Register, PC
<1>3. instruction = AluS(second, 5, 1, Reg(3))
  BY DoubleProgram DEF DoubleInv, Following
<1>4. registers \in [Register -> Word] /\ cpsr \in Flags /\ IInv
  BY Parts DEF DoubleInv, Machine
<1>5. /\ registers' = [registers EXCEPT ![5] = result2]
      /\ FlagsDescribe(second, x1, y1)
      /\ Complete /\ UNCHANGED <<memory, instruction, block>>
  BY <1>2, <1>3, <1>4, ArithmeticStep
<1>6. /\ registers'[0] = x0 /\ registers'[1] = x1 /\ registers'[2] = y0 /\ registers'[3] = y1
      /\ registers'[4] = registers[4] /\ registers'[5] = result2
      /\ registers'[PC] = registers[PC]
  BY <1>4, <1>5 DEF Register, PC
<1>7. x0 \in Word /\ x1 \in Word /\ y0 \in Word /\ y1 \in Word
  BY <1>4 DEF Register
<1>8. cpsr.c = LowFlag(first) /\ (first # "CMP" => registers[4] = LowWord(first))
  BY DEF DoubleInv
<1>9. /\ DoubleWord(0, 1)' = Modulus * x1 + x0
      /\ DoubleWord(2, 3)' = Modulus * y1 + y0
      /\ DoubleWord(4, 5)' = Modulus * result2 + registers[4]
      /\ SignedDouble(0, 1)' = Modulus * Signed(x1) + x0
      /\ SignedDouble(2, 3)' = Modulus * Signed(y1) + y0
  BY <1>6 DEF DoubleWord, SignedDouble
<1>10. ASSUME first = "ADD" PROVE DoubleDone(first)'
  <2>1. second = "ADC" /\ cpsr.c = FlagOf(x0 + y0 >= Modulus) /\ registers[4] = Wrap(x0 + y0)
    BY <1>1, <1>8, <1>10 DEF Pairs, LowFlag, LowWord
  <2>2. result2 = Wrap(x1 + y1 + cpsr.c)
    BY <2>1 DEF Result
  <2>3. Modulus * result2 + registers[4]
          = ((Modulus * x1 + x0) + (Modulus * y1 + y0)) % DoubleModulus
    BY <1>7, <2>1, <2>2, CarryChains, SMTT(30)
  <2> QED
    BY <1>9, <1>10, <2>3 DEF DoubleDone
<1>11. ASSUME first = "SUB" PROVE DoubleDone(first)'
  <2>1. second = "SBC" /\ cpsr.c = FlagOf(x0 - y0 >= 0) /\ registers[4] = Wrap(x0 - y0)
    BY <1>1, <1>8, <1>11 DEF Pairs, LowFlag, LowWord
  <2>2. result2 = Wrap(x1 - y1 + cpsr.c - 1)
    BY <2>1 DEF Result
  <2>3. Modulus * result2 + registers[4]
          = ((Modulus * x1 + x0) - (Modulus * y1 + y0)) % DoubleModulus
    BY <1>7, <2>1, <2>2, CarryChains, SMTT(30)
  <2> QED
    BY <1>9, <1>11, <2>3 DEF DoubleDone
<1>12. ASSUME first = "RSB" PROVE DoubleDone(first)'
  <2>1. second = "RSC" /\ cpsr.c = FlagOf(y0 - x0 >= 0) /\ registers[4] = Wrap(y0 - x0)
    BY <1>1, <1>8, <1>12 DEF Pairs, LowFlag, LowWord
  <2>2. result2 = Wrap(y1 - x1 + cpsr.c - 1)
    BY <2>1 DEF Result
  <2>3. Modulus * result2 + registers[4]
          = ((Modulus * y1 + y0) - (Modulus * x1 + x0)) % DoubleModulus
    BY <1>7, <2>1, <2>2, CarryChains
  <2> QED
    BY <1>9, <1>12, <2>3 DEF DoubleDone
<1>13. ASSUME first = "CMP" PROVE DoubleDone(first)'
  <2>1. second = "SBC" /\ cpsr.c = FlagOf(x0 - y0 >= 0) /\ second \notin Additions
    BY <1>1, <1>8, <1>13 DEF Pairs, LowFlag, Additions
  <2> DEFINE unsigned == (x1 - y1) + (cpsr.c - 1)
             signed == (Signed(x1) - Signed(y1)) + (cpsr.c - 1)
  <2>2. /\ Exact(second, x1, y1, Unsigned) = unsigned
        /\ Exact(second, x1, y1, Signed) = signed
    BY <2>1 DEF Exact, Unsigned
  <2>3. /\ cpsr'.n = FlagOf(Wrap(unsigned) >= SignBit)
        /\ cpsr'.c = FlagOf(unsigned >= 0)
        /\ cpsr'.v = FlagOf(~FitsSigned(signed))
    BY <1>5, <2>1, <2>2 DEF FlagsDescribe
  <2>4. TestCondition("CS")' <=> Modulus * x1 + x0 >= Modulus * y1 + y0
    <3>1. TestCondition("CS")' <=> cpsr'.c = 1
      BY DEF TestCondition
    <3>2. unsigned >= 0 <=> Modulus * x1 + x0 >= Modulus * y1 + y0
      <4>1. x1 \in Int /\ y1 \in Int
        BY <1>7, ModulusFacts DEF Word
      <4> QED
        BY <1>7, <2>1, <4>1, HighDecides
    <3> QED
      BY <2>3, <3>1, <3>2 DEF FlagOf
  <2>5. TestCondition("GE")' <=> Modulus * Signed(x1) + x0 >= Modulus * Signed(y1) + y0
    <3>1. TestCondition("GE")' <=> cpsr'.n = cpsr'.v
      BY DEF TestCondition
    <3>2. /\ Signed(x1) \in -SignBit .. SignBit - 1 /\ Signed(y1) \in -SignBit .. SignBit - 1
          /\ \E k \in Int : unsigned = signed + k * Modulus
      <4>1. \A w \in Word : /\ Signed(w) \in -SignBit .. SignBit - 1
                            /\ \E j \in {0, 1} : w = Signed(w) + j * Modulus
        BY ModulusFacts DEF Signed, Word
      <4>2. PICK j1 \in {0, 1}, j2 \in {0, 1} :
              x1 = Signed(x1) + j1 * Modulus /\ y1 = Signed(y1) + j2 * Modulus
        BY <1>7, <4>1
      <4>3. j1 * Modulus - j2 * Modulus = (j1 - j2) * Modulus /\ j1 - j2 \in Int
        BY ModulusFacts
      <4>4. Signed(x1) \in Int /\ Signed(y1) \in Int /\ cpsr.c \in Int
            /\ j1 * Modulus \in Int /\ j2 * Modulus \in Int
        BY <1>4, <1>7, <4>1, ModulusFacts DEF Flags, Flag
      <4>5. unsigned = signed + (j1 * Modulus - j2 * Modulus)
        BY <4>2, <4>4
      <4> QED
        BY <1>7, <4>1, <4>3, <4>5
    <3>3. PICK k \in Int : unsigned = signed + k * Modulus
      BY <3>2
    <3>4. signed \in Int /\ signed >= -Modulus /\ signed < Modulus
      BY <1>4, <3>2, ModulusFacts DEF Flags, Flag
    <3>5. signed >= 0 <=> Modulus * Signed(x1) + x0 >= Modulus * Signed(y1) + y0
      <4>1. Signed(x1) \in Int /\ Signed(y1) \in Int
        BY <3>2
      <4> QED
        BY <1>7, <2>1, <4>1, HighDecides
    <3> HIDE DEF signed, unsigned
    <3> QED
      BY <2>3, <3>1, <3>3, <3>4, <3>5, FlagsOrder
  <2> QED
    BY <1>9, <1>13, <2>4, <2>5 DEF DoubleDone
<1>14. DoubleDone(first)'
  BY <1>1, <1>10, <1>11, <1>12, <1>13 DEF Pairs
<1> QED
  BY <1>5, <1>6, <1>14 DEF memory

\* The invariant of two instructions on double words.
LEMMA DoubleStep ==
  ASSUME NEW pair \in Pairs, DoubleInv(pair[1], pair[2]), [Turn]_vars
  PROVE  DoubleInv(pair[1], pair[2])'
<1> DEFINE first == pair[1]
           program == Double(pair[1], pair[2])
<1>1. Len(program) = 2 /\ DOMAIN program = 1 .. Len(program)
  BY DoubleProgram
<1>2. /\ IInv'
      /\ \/ UNCHANGED vars /\ Following(program)'
         \/ Fetches(program) /\ Following(program)'
         \/ ComesBack(program) /\ Following(program)'
         \/ phase \in {"evaluate", "transfer"} /\ Evaluate
  BY <1>1, ProgramStep DEF DoubleInv
<1> HIDE DEF program
<1>3. CASE UNCHANGED vars /\ Following(program)'
  BY <1>2, <1>3, ZenonT(40) DEF DoubleInv, vars, LowFlag, LowWord, DoubleDone, DoubleWord, SignedDouble,
                    TestCondition, program
<1>4. ASSUME UNCHANGED cpsr, \A r \in 0 .. 5 : registers'[r] = registers[r]
      PROVE  /\ DoubleDone(first)' <=> DoubleDone(first)
             /\ LowFlag(first)' = LowFlag(first) /\ LowWord(first)' = LowWord(first)
  <2>1. /\ registers'[0] = registers[0] /\ registers'[1] = registers[1]
        /\ registers'[2] = registers[2] /\ registers'[3] = registers[3]
        /\ registers'[4] = registers[4] /\ registers'[5] = registers[5]
    BY <1>4
  <2>2. /\ \A lo, hi \in 0 .. 5 : /\ DoubleWord(lo, hi)' = DoubleWord(lo, hi)
                                 /\ SignedDouble(lo, hi)' = SignedDouble(lo, hi)
        /\ \A condition : TestCondition(condition)' <=> TestCondition(condition)
    BY <1>4 DEF DoubleWord, SignedDouble, TestCondition
  <2> QED
    BY <2>1, <2>2 DEF LowFlag, LowWord, DoubleDone
<1>5. CASE Fetches(program) /\ Following(program)'
  <2>1. \A r \in 0 .. 5 : registers'[r] = registers[r]
    BY <1>5, Parts, SMTT(30) DEF DoubleInv, Machine, Fetches, Register, PC
  <2>2. phase' = "evaluate" /\ iter' = iter /\ iter < 2 /\ cpsr' = cpsr /\ phase # "idle"
    BY <1>1, <1>5 DEF Fetches, program
  <2>3. iter \in Nat
    BY Parts DEF DoubleInv, Control
  <2> QED
    BY <1>2, <1>4, <1>5, <2>1, <2>2, <2>3 DEF DoubleInv, program
<1>6. CASE ComesBack(program) /\ Following(program)'
  <2>1. \A r \in 0 .. 5 : registers'[r] = registers[r]
    BY <1>6 DEF ComesBack
  <2>2. phase' = "idle" /\ iter = 2 /\ cpsr' = cpsr
    BY <1>1, <1>6 DEF ComesBack, program
  <2> QED
    BY <1>2, <1>4, <1>6, <2>1, <2>2 DEF DoubleInv, program
<1>7. CASE phase \in {"evaluate", "transfer"} /\ Evaluate
  <2>1. phase = "evaluate" /\ Evaluate /\ IInv /\ Following(program)
    BY <1>7 DEF DoubleInv, program
  <2>2. iter = 0 \/ iter = 1
    BY <1>1, <2>1, Parts DEF Control, RunInv, Following, Inside, program
  <2>3. /\ Complete /\ code' = code /\ registers'[PC] = registers[PC]
        /\ iter = 0 => /\ cpsr'.c = LowFlag(first)'
                       /\ first # "CMP" => registers'[4] = LowWord(first)'
        /\ iter = 1 => DoubleDone(first)'
    BY <2>1, <2>2, LowStep, HighStep
  <2>4. Following(program)' /\ phase' = "fetch" /\ iter' = iter + 1
    <3>1. Len(program) \in Nat \ {0}
      BY <1>1
    <3> QED
      BY <1>1, <2>1, <2>3, <3>1, HandlerFollows
  <2> QED
    BY <1>2, <2>2, <2>3, <2>4 DEF DoubleInv, program
<1> QED
  BY <1>2, <1>3, <1>5, <1>6, <1>7

\* One program is not another.
LEMMA DoubleCodes ==
  ASSUME NEW f1, NEW s1, NEW f2, NEW s2, CodeOf(Double(f1, s1)) = CodeOf(Double(f2, s2))
  PROVE  f1 = f2
<1>1. \A f, s : CodeOf(Double(f, s))[0] = AluS(f, 4, 0, Reg(2))
  <2> SUFFICES ASSUME NEW f, NEW s PROVE CodeOf(Double(f, s))[0] = AluS(f, 4, 0, Reg(2))
    OBVIOUS
  <2>1. 0 \in 0 .. 2 - 1 /\ 4 * 0 = 0 /\ 0 + 1 = 1
    OBVIOUS
  <2>2. /\ Len(Double(f, s)) = 2 /\ DOMAIN Double(f, s) = 1 .. Len(Double(f, s))
        /\ Double(f, s)[1] = AluS(f, 4, 0, Reg(2))
    BY DoubleProgram
  <2> DEFINE program == Double(f, s)
  <2> HIDE DEF program
  <2>3. /\ Len(program) \in Nat /\ 0 \in 0 .. Len(program) - 1
        /\ DOMAIN program = 1 .. Len(program)
    BY <2>2 DEF program
  <2>4. CodeOf(program)[4 * 0] = program[0 + 1]
    BY <2>3, CodeOfProgram
  <2> QED
    BY <2>1, <2>2, <2>4 DEF program
<1>2. \A f : AluS(f, 4, 0, Reg(2)).opcode = f
  BY DEF AluS, Alu
<1> QED
  BY <1>1, <1>2

(***************************************************************************)
(* ADDS/ADC, SUBS/SBC, RSBS/RSC and CMP/SBCS compute on double words what  *)
(* the integers give, at every width of a word and from every value of the *)
(* registers and flags.                                                    *)
(***************************************************************************)
THEOREM DoubleWordsAreExact ==
  ASSUME NEW program \in DoublePrograms
  PROVE  Begins(program) /\ [][Turn]_vars => []DoubleWordArithmetic
<1>1. PICK pair \in Pairs : program = Double(pair[1], pair[2])
  <2>1. \A first, second : <<first, second>>[1] = first /\ <<first, second>>[2] = second
    OBVIOUS
  <2> QED
    BY <2>1 DEF DoublePrograms, DoubleAdd, DoubleSubtract, DoubleReverse, DoubleCompare, Pairs
<1> DEFINE I == DoubleInv(pair[1], pair[2])
<1>2. Begins(program) => I
  BY <1>1, DoubleProgram, BeginFollows DEF DoubleInv
<1>3. I /\ [Turn]_vars => I'
  BY DoubleStep
<1>4. I => DoubleWordArithmetic
  <2> SUFFICES ASSUME I, phase = "idle"
               PROVE  LET x == DoubleWord(0, 1)
                          y == DoubleWord(2, 3)
                          z == DoubleWord(4, 5)
                      IN  /\ code = CodeOf(DoubleAdd) => z = (x + y) % DoubleModulus
                          /\ code = CodeOf(DoubleSubtract) => z = (x - y) % DoubleModulus
                          /\ code = CodeOf(DoubleReverse) => z = (y - x) % DoubleModulus
                          /\ code = CodeOf(DoubleCompare) =>
                               /\ TestCondition("CS") <=> x >= y
                               /\ TestCondition("GE") <=> SignedDouble(0, 1) >= SignedDouble(2, 3)
    BY DEF DoubleWordArithmetic
  <2>1. DoubleDone(pair[1]) /\ code = CodeOf(Double(pair[1], pair[2]))
    BY DEF DoubleInv, Following
  <2>2. /\ code = CodeOf(DoubleAdd) => pair[1] = "ADD"
        /\ code = CodeOf(DoubleSubtract) => pair[1] = "SUB"
        /\ code = CodeOf(DoubleReverse) => pair[1] = "RSB"
        /\ code = CodeOf(DoubleCompare) => pair[1] = "CMP"
    BY <2>1, DoubleCodes DEF DoubleAdd, DoubleSubtract, DoubleReverse, DoubleCompare
  <2> QED
    BY <2>1, <2>2 DEF DoubleDone
<1> HIDE DEF I
<1> QED
  BY <1>2, <1>3, <1>4, PTL

-----------------------------------------------------------------------------
(* Multiplications.                                                        *)

\* A program can be told from the code it is loaded as.
LEMMA CodesDiffer ==
  ASSUME NEW p, NEW q, Len(p) \in Nat, Len(q) \in Nat,
         p = [k \in 1 .. Len(p) |-> p[k]], q = [k \in 1 .. Len(q) |-> q[k]],
         CodeOf(p) = CodeOf(q)
  PROVE  p = q
<1> DEFINE m == Len(p)
           n == Len(q)
<1>1. /\ DOMAIN p = 1 .. m /\ DOMAIN q = 1 .. n
      /\ m \in Nat /\ n \in Nat
  OBVIOUS
<1>2. /\ DOMAIN CodeOf(p) = {4 * k : k \in 0 .. m - 1}
      /\ \A k \in 0 .. m - 1 : CodeOf(p)[4 * k] = p[k + 1]
  BY <1>1, CodeOfProgram
<1>3. /\ DOMAIN CodeOf(q) = {4 * k : k \in 0 .. n - 1}
      /\ \A k \in 0 .. n - 1 : CodeOf(q)[4 * k] = q[k + 1]
  BY <1>1, CodeOfProgram
<1>4. {4 * k : k \in 0 .. m - 1} = {4 * k : k \in 0 .. n - 1}
  BY <1>2, <1>3
<1> HIDE DEF m, n
<1>5. \A k \in Int : k \in 0 .. m - 1 <=> k \in 0 .. n - 1
  <2> SUFFICES ASSUME NEW k \in Int PROVE k \in 0 .. m - 1 <=> k \in 0 .. n - 1
    OBVIOUS
  <2>1. k \in 0 .. m - 1 <=> 4 * k \in {4 * j : j \in 0 .. m - 1}
    BY <1>1
  <2>2. k \in 0 .. n - 1 <=> 4 * k \in {4 * j : j \in 0 .. n - 1}
    BY <1>1
  <2> QED
    BY <1>4, <2>1, <2>2
<1>6. m = n
  <2>1. ~(m < n)
    BY <1>1, <1>5
  <2>2. ~(n < m)
    BY <1>1, <1>5
  <2> QED
    BY <1>1, <2>1, <2>2
<1>7. ASSUME NEW k \in 1 .. m PROVE p[k] = q[k]
  <2>1. k - 1 \in 0 .. m - 1 /\ (k - 1) + 1 = k
    BY <1>1
  <2>2. CodeOf(p)[4 * (k - 1)] = p[(k - 1) + 1] /\ CodeOf(q)[4 * (k - 1)] = q[(k - 1) + 1]
    BY <1>2, <1>3, <1>6, <2>1
  <2> QED
    BY <2>1, <2>2
<1> QED
  BY <1>6, <1>7 DEF m, n

\* A number of two words, taken modulo twice the width, keeps its low word.
LEMMA HighWraps ==
  ASSUME NEW hi \in Int, NEW lo \in Word
  PROVE  Modulus * Wrap(hi) + lo = (Modulus * hi + lo) % DoubleModulus
<1> DEFINE M == Modulus
           q == hi \div M
           w == Wrap(hi)
           z == M * w + lo
<1>1. M \in Nat \ {0} /\ M * M \in Nat \ {0}
  BY ModulusFacts
<1>2. q \in Int /\ w \in 0 .. M - 1 /\ hi = M * q + w /\ lo \in 0 .. M - 1
  BY <1>1 DEF Wrap, Word
<1> HIDE DEF M, q, w
<1>3. M * hi = M * w + q * (M * M)
  BY <1>1, <1>2, SMTT(20)
<1>4. M * w \in Int /\ q * (M * M) \in Int
  BY <1>1, <1>2
<1>5. M * hi + lo = z + q * (M * M)
  BY <1>2, <1>3, <1>4
<1>6. z \in 0 .. M * M - 1
  <2>1. M * w >= 0 /\ M * w <= M * (M - 1)
    BY <1>1, <1>2, SMTT(20)
  <2>2. M * (M - 1) = M * M - M
    BY <1>1
  <2> QED
    BY <1>1, <1>2, <1>4, <2>1, <2>2
<1> HIDE DEF z
<1>7. (z + q * (M * M)) % (M * M) = z % (M * M)
  <2>1. z \in Int
    BY <1>1, <1>6
  <2> QED
    BY <1>1, <1>2, <2>1, RemainderOfMultiple
<1>8. z % (M * M) = z
  BY <1>1, <1>6
<1> QED
  BY <1>5, <1>7, <1>8 DEF DoubleModulus, M, w, z

\* The high word of a signed product is the sign of the low word when it fits.
LEMMA SignOfLow ==
  ASSUME NEW hi \in Word, NEW lo \in Word, NEW p, p = Modulus * Signed(hi) + lo
  PROVE  FitsSigned(p) <=> hi = IF NEG(lo) THEN Modulus - 1 ELSE 0
<1> DEFINE M == Modulus
           S == SignBit
           s == Signed(hi)
<1>1. M \in Nat \ {0} /\ S \in Nat \ {0} /\ M = 2 * S
  BY ModulusFacts
<1>2. hi \in 0 .. M - 1 /\ lo \in 0 .. M - 1
  BY DEF Word
<1>3. s = IF hi >= S THEN hi - M ELSE hi
  BY DEF Signed
<1>4. p = M * s + lo /\ (FitsSigned(p) <=> p >= -S /\ p < S) /\ (NEG(lo) <=> lo >= S)
  BY DEF FitsSigned, NEG
<1> HIDE DEF M, S, s
<1>5. s \in Int
  BY <1>1, <1>2, <1>3
<1>6. (p >= -S /\ p < S) <=> hi = IF lo >= S THEN M - 1 ELSE 0
  <2>1. CASE s >= 1
    <3>1. M * s >= M /\ M * s \in Int
      BY <1>1, <1>5, <2>1, SMTT(20)
    <3>2. ~(p < S)
      BY <1>1, <1>2, <1>4, <3>1
    <3> QED
      BY <1>1, <1>2, <1>3, <2>1, <3>2
  <2>2. CASE s = 0
    <3>1. p = lo
      BY <1>1, <1>2, <1>4, <2>2
    <3> QED
      BY <1>1, <1>2, <1>3, <2>2, <3>1
  <2>3. CASE s = -1
    <3>1. p = lo - M
      BY <1>1, <1>2, <1>4, <2>3
    <3> QED
      BY <1>1, <1>2, <1>3, <2>3, <3>1
  <2>4. CASE s <= -2
    <3>1. M * s <= -(2 * M) /\ M * s \in Int
      BY <1>1, <1>5, <2>4, SMTT(20)
    <3>2. ~(p >= -S)
      BY <1>1, <1>2, <1>4, <3>1
    <3> QED
      BY <1>1, <1>2, <1>3, <2>4, <3>2
  <2> QED
    BY <1>5, <2>1, <2>2, <2>3, <2>4
<1> QED
  BY <1>4, <1>6 DEF M, S

\* The bits of a number below one more bit.
LEMMA OneMoreBit ==
  ASSUME NEW x \in Nat, NEW j \in 1 .. WordBits
  PROVE  x % 2^j = 2^(j - 1) * Bit(x, j - 1) + (x % 2^(j - 1))
<1> DEFINE d == 2^(j - 1)
           q == x \div d
           r == x % d
           h == q \div 2
           b == q % 2
<1>1. d \in Nat \ {0} /\ 2^j = 2 * d
  <2>1. j - 1 \in 0 .. WordBits
    BY WidthAssumption
  <2> QED
    BY <2>1, PowerType, PowerAssumption
<1> HIDE DEF d
<1>2. q \in Nat /\ r \in 0 .. d - 1 /\ x = d * q + r
  BY <1>1
<1> HIDE DEF q, r
<1>3. h \in Nat /\ b \in {0, 1} /\ q = 2 * h + b
  BY <1>2
<1> HIDE DEF h, b
<1> DEFINE low == d * b + r
<1>4. low \in 0 .. 2 * d - 1
  BY <1>1, <1>2, <1>3
<1>5. x = low + h * (2 * d)
  <2>1. d * (2 * h + b) = d * b + h * (2 * d)
    BY <1>1, <1>3, SMTT(20)
  <2>2. d * b \in Int /\ h * (2 * d) \in Int
    BY <1>1, <1>3
  <2> QED
    BY <1>1, <1>2, <1>3, <2>1, <2>2
<1> HIDE DEF low
<1>6. (low + h * (2 * d)) % (2 * d) = low % (2 * d)
  <2>1. 2 * d \in Nat \ {0} /\ low \in Int /\ h \in Int
    BY <1>1, <1>3, <1>4
  <2> QED
    BY <2>1, RemainderOfMultiple
<1>7. low % (2 * d) = low
  BY <1>1, <1>4
<1> QED
  BY <1>1, <1>5, <1>6, <1>7 DEF Bit, low, d, q, r, b

\* Words of the same bits are the same.
LEMMA SameBits ==
  ASSUME NEW x \in Word, NEW y \in Word, \A k \in 0 .. WordBits - 1 : Bit(x, k) = Bit(y, k)
  PROVE  x = y
<1> DEFINE Differ == {j \in 0 .. WordBits : x % 2^j # y % 2^j}
<1>1. x \in Nat /\ y \in Nat /\ WordBits \in Nat
  BY WidthAssumption DEF Word
<1>2. ASSUME Differ # {} PROVE FALSE
  <2>1. PICK j \in Differ : \A other \in Differ : j <= other
    <3>1. Differ \subseteq Nat
      OBVIOUS
    <3> HIDE DEF Differ
    <3> QED
      BY <1>2, <3>1, LeastNatural
  <2>2. j \in 0 .. WordBits /\ x % 2^j # y % 2^j
    OBVIOUS
  <2>3. j # 0
    <3>1. 2^0 = 1
      OBVIOUS
    <3>2. x % 1 = 0 /\ y % 1 = 0
      BY <1>1
    <3>3. x % 2^0 = y % 2^0
      BY <3>1, <3>2
    <3> QED
      BY <2>2, <3>3
  <2>4. j \in 1 .. WordBits /\ j - 1 \in 0 .. WordBits - 1 /\ j - 1 \in 0 .. WordBits
        /\ ~(j <= j - 1)
    BY <1>1, <2>2, <2>3
  <2>5. x % 2^(j - 1) = y % 2^(j - 1)
    BY <2>1, <2>4
  <2>6. Bit(x, j - 1) = Bit(y, j - 1)
    BY <2>4
  <2>7. /\ x % 2^j = 2^(j - 1) * Bit(x, j - 1) + (x % 2^(j - 1))
        /\ y % 2^j = 2^(j - 1) * Bit(y, j - 1) + (y % 2^(j - 1))
    BY <1>1, <2>4, OneMoreBit
  <2> QED
    BY <2>2, <2>5, <2>6, <2>7
<1>3. x % 2^WordBits = y % 2^WordBits
  <2>1. WordBits \in 0 .. WordBits
    BY <1>1
  <2> QED
    BY <1>2, <2>1
<1>4. x % Modulus = x /\ y % Modulus = y
  BY WrapWord DEF Wrap
<1> QED
  BY <1>3, <1>4, ModulusIsPower

\* ASR by all but one bit leaves copies of the sign.
LEMMA SignCopies ==
  ASSUME NEW a \in Word
  PROVE  ArithmeticRight(a, WordBits - 1).value = IF NEG(a) THEN Modulus - 1 ELSE 0
<1> DEFINE copies == IF NEG(a) THEN Modulus - 1 ELSE 0
           value == ArithmeticRight(a, WordBits - 1).value
<1>1. WordBits \in Nat \ {0} /\ 0 \in Word /\ Modulus - 1 \in Word
  BY WidthAssumption, WordRange
<1>2. value \in Word
  <2>1. WordBits - 1 \in Nat
    BY <1>1
  <2> QED
    BY <2>1, ArithmeticRightType DEF ShiftResult
<1>3. \A k \in 0 .. WordBits - 1 : Bit(copies, k) = Bit(a, WordBits - 1)
  BY BitOfOnes, BitOfZero, TopBit DEF FlagOf
<1>4. \A k \in 0 .. WordBits - 1 : Bit(value, k) = Bit(a, WordBits - 1)
  <2>1. CASE WordBits = 1
    <3>1. ArithmeticRight(a, 0) = Shifted(a, 0)
      BY <1>1 DEF ArithmeticRight
    <3>2. value = a
      BY <2>1, <3>1, ShiftedWord
    <3> QED
      BY <2>1, <3>2
  <2>2. CASE WordBits # 1
    <3>1. WordBits - 1 \in Nat \ {0}
      BY <1>1, <2>2
    <3>2. \A k \in 0 .. WordBits - 1 : Bit(value, k) = MovedBit("ASR", a, WordBits - 1, k)
      BY <3>1, ArithmeticMoves DEF Moves
    <3>3. \A k \in 0 .. WordBits - 1 :
            k + (WordBits - 1) < WordBits => k + (WordBits - 1) = WordBits - 1
      BY <1>1
    <3> QED
      BY <3>2, <3>3 DEF MovedBit
  <2> QED
    BY <2>1, <2>2
<1>5. copies \in Word
  BY <1>1
<1> HIDE DEF copies, value
<1> QED
  BY <1>2, <1>3, <1>4, <1>5, SameBits DEF copies, value

\* The product of two numbers of two words, from three products of words.
LEMMA ProductOfPairs ==
  ASSUME NEW x0 \in Word, NEW x1 \in Word, NEW y0 \in Word, NEW y1 \in Word,
         NEW h \in Word, NEW l \in Word, Modulus * h + l = x0 * y0
  PROVE  Modulus * Wrap(x1 * y0 + Wrap(x0 * y1 + h)) + l
           = ((Modulus * x1 + x0) * (Modulus * y1 + y0)) % DoubleModulus
<1> DEFINE M == Modulus
           a == x0 * y1
           b == x1 * y0
           c == x1 * y1
           z == (a + h) + b
<1>1. /\ M \in Nat \ {0} /\ M * M \in Nat \ {0}
      /\ x0 \in Int /\ x1 \in Int /\ y0 \in Int /\ y1 \in Int /\ h \in Int /\ l \in Int
  BY ModulusFacts, WordRange
<1>2. a \in Int /\ b \in Int /\ c \in Int /\ z \in Int /\ a + h \in Int
  BY <1>1
<1>3. Wrap(b + Wrap(a + h)) = Wrap(z)
  <2> HIDE DEF a, b
  <2>1. Wrap(Wrap(a + h) + b) = Wrap(z)
    BY <1>2, WrapAbsorbs
  <2>2. Wrap(a + h) \in Int
    BY <1>2, WrapType, WordRange
  <2>3. b + Wrap(a + h) = Wrap(a + h) + b
    BY <1>2, <2>2
  <2> QED
    BY <2>1, <2>3
<1>4. M * Wrap(z) + l = (M * z + l) % DoubleModulus
  <2> HIDE DEF z
  <2> QED
    BY <1>2, HighWraps
<1>5. (M * x1 + x0) * (M * y1 + y0) = (M * z + l) + c * (M * M)
  <2>1. M * h + l = x0 * y0
    OBVIOUS
  <2> HIDE DEF M
  <2>2. (M * x1 + x0) * (M * y1 + y0)
          = (M * x1) * (M * y1) + (M * x1) * y0 + x0 * (M * y1) + x0 * y0
    BY <1>1, SMTT(20)
  <2>3. (M * x1) * (M * y1) = c * (M * M) /\ (M * x1) * y0 = M * b /\ x0 * (M * y1) = M * a
    BY <1>1, SMTT(20)
  <2> HIDE DEF a, b, c
  <2>4. M * z = M * a + M * h + M * b
    BY <1>1, <1>2, SMTT(20)
  <2>5. M * a \in Int /\ M * b \in Int /\ M * h \in Int /\ c * (M * M) \in Int
    BY <1>1, <1>2
  <2> HIDE DEF z
  <2> QED
    BY <1>1, <2>1, <2>2, <2>3, <2>4, <2>5
<1>6. ((M * z + l) + c * (M * M)) % (M * M) = (M * z + l) % (M * M)
  <2>1. M * z + l \in Int
    BY <1>1, <1>2
  <2> HIDE DEF z, c, M
  <2> QED
    BY <1>1, <1>2, <2>1, RemainderOfMultiple
<1> QED
  BY <1>3, <1>4, <1>5, <1>6 DEF DoubleModulus

\* The product of a number of two words and one of one, kept whole.
LEMMA ProductOfPairAndWord ==
  ASSUME NEW x0 \in Word, NEW x1 \in Word, NEW y \in Word,
         NEW h \in Word, NEW l \in Word, Modulus * h + l = x0 * y,
         NEW hi \in Word, NEW mid \in Word,
         Modulus * hi + mid = (Modulus * 0 + h + x1 * y) % DoubleModulus
  PROVE  DoubleModulus * hi + (Modulus * mid + l) = (Modulus * x1 + x0) * y
<1> DEFINE M == Modulus
           a == x0 * y
           b == x1 * y
<1>1. /\ M \in Nat \ {0} /\ M * M \in Nat \ {0}
      /\ x0 \in 0 .. M - 1 /\ x1 \in 0 .. M - 1 /\ y \in 0 .. M - 1 /\ h \in 0 .. M - 1
      /\ hi \in Int /\ mid \in Int /\ l \in Int
  BY ModulusFacts, WordRange DEF Word
<1>2. /\ M * h + l = a /\ M * hi + mid = (M * 0 + h + b) % (M * M)
      /\ a \in Int /\ b \in Int
  BY <1>1 DEF DoubleModulus
<1>3. b \in 0 .. (M - 1) * (M - 1)
  <2> HIDE DEF M
  <2>1. b >= 0
    BY <1>1, SMTT(20)
  <2>2. x1 * y <= (M - 1) * y
    BY <1>1, SMTT(20)
  <2>3. (M - 1) * y <= (M - 1) * (M - 1)
    BY <1>1, SMTT(20)
  <2>4. (M - 1) * y \in Int /\ (M - 1) * (M - 1) \in Int
    BY <1>1
  <2> QED
    BY <1>2, <2>1, <2>2, <2>3, <2>4
<1> HIDE DEF M
<1>4. (M - 1) * (M - 1) = M * M - 2 * M + 1
  BY <1>1, SMTT(20)
<1> HIDE DEF b
<1>5. h + b \in 0 .. M * M - 1 /\ M * 0 + h + b = h + b
  BY <1>1, <1>2, <1>3, <1>4
<1>6. M * hi + mid = h + b
  BY <1>1, <1>2, <1>5
<1>7. M * (M * hi + mid) = (M * M) * hi + M * mid /\ M * (h + b) = M * h + M * b
  BY <1>1, <1>2, SMTT(20)
<1>8. (M * x1 + x0) * y = M * b + a
  BY <1>1, SMTT(20) DEF b
<1> HIDE DEF a
<1>9. (M * M) * hi \in Int /\ M * mid \in Int /\ M * b \in Int /\ M * h \in Int
  BY <1>1, <1>2
<1> QED
  BY <1>1, <1>2, <1>6, <1>7, <1>8, <1>9 DEF DoubleModulus, M

\* MUL and MLA.
LEMMA MultiplyStep ==
  ASSUME IInv, Evaluate, phase = "evaluate", instruction.condition = "AL",
         instruction.format = "multiply"
  PROVE  /\ registers' = [registers EXCEPT ![instruction.rd] = MultiplyResult(instruction)]
         /\ cpsr' = IF instruction.s /\ instruction.rd # PC
                    THEN [cpsr EXCEPT !.z = FlagOf(MultiplyResult(instruction) = 0),
                                      !.n = FlagOf(NEG(MultiplyResult(instruction)))]
                    ELSE cpsr
         /\ Complete /\ UNCHANGED <<memory, instruction, block>>
BY AlwaysHandled DEF multiplyEval

\* UMULL, UMLAL and SMULL on two registers other than each other.
LEMMA LongStep ==
  ASSUME IInv, Evaluate, phase = "evaluate", instruction.condition = "AL",
         instruction.format = "multiply_long", ~(instruction.u /\ instruction.a),
         instruction.rdhi # instruction.rdlo
  PROVE  LET hi == instruction.rdhi
             lo == instruction.rdlo
         IN  /\ ~instruction.u /\ ~instruction.a =>
                  Pair(registers', hi, lo) = UnsignedFactors
             /\ ~instruction.u /\ instruction.a =>
                  Pair(registers', hi, lo)
                    = (Pair(registers, hi, lo) + UnsignedFactors) % DoubleModulus
             /\ instruction.u /\ ~instruction.a =>
                  SignedPair(registers', hi, lo) = SignedFactors
             /\ \A r \in Register \ {hi, lo} : registers'[r] = registers[r]
             /\ Complete /\ UNCHANGED <<memory, instruction, block>>
<1> DEFINE t == instruction
           high == LongResult(t) \div Modulus
           low == LongResult(t) % Modulus
<1>1. t \in MultiplyLongInstruction /\ registers \in [Register -> Word]
  BY Parts, FormatType DEF Machine
<1>2. t.rdhi \in Register /\ t.rdlo \in Register /\ t.rdhi # t.rdlo
  BY <1>1 DEF MultiplyLongInstruction
<1>3. multiplyLongEval
  BY AlwaysHandled
<1>4. high \in Word /\ low \in Word /\ Modulus * high + low = LongResult(t)
  BY <1>1, LongResultType
<1>5. registers' = [registers EXCEPT ![t.rdhi] = high, ![t.rdlo] = low]
  BY <1>3 DEF multiplyLongEval
<1> HIDE DEF high, low
<1>6. /\ registers'[t.rdhi] = high /\ registers'[t.rdlo] = low
      /\ \A r \in Register \ {t.rdhi, t.rdlo} : registers'[r] = registers[r]
  BY <1>1, <1>2, <1>5
<1>7. /\ Pair(registers', t.rdhi, t.rdlo) = LongResult(t)
      /\ SignedPair(registers', t.rdhi, t.rdlo) = Modulus * Signed(high) + low
  BY <1>4, <1>6 DEF Pair, SignedPair
<1>8. /\ ~t.u /\ ~t.a => LongResult(t) = UnsignedFactors
      /\ ~t.u /\ t.a => LongResult(t) = (Modulus * registers[t.rdhi] + registers[t.rdlo]
                                           + UnsignedFactors) % DoubleModulus
      /\ t.u /\ ~t.a => /\ LongResult(t) = SignedFactors % DoubleModulus
                        /\ SignedFactors \in -(SignBit * SignBit) .. SignBit * SignBit
  BY <1>1, LongResults DEF UnsignedFactors, SignedFactors
<1>9. t.u /\ ~t.a => Modulus * Signed(high) + low = SignedFactors
  BY <1>4, <1>8, SignedReadBack
<1>10. Complete /\ UNCHANGED <<memory, instruction, block>>
  BY <1>3 DEF multiplyLongEval
<1> QED
  BY <1>6, <1>7, <1>8, <1>9, <1>10 DEF Pair

\* The fields of MLA.
LEMMA MultiplyFields ==
  \A rd, rm, rs, rn :
    LET t == Mla(rd, rm, rs, rn)
    IN  /\ t.condition = "AL" /\ t.format = "multiply" /\ t.a
        /\ t.rd = rd /\ t.rm = rm /\ t.rs = rs /\ t.rn = rn
BY DEF Mla, Mul

\* MOV of a small number.
LEMMA SmallMove ==
  ASSUME NEW rd \in Register, NEW n \in Word, IInv, Evaluate, phase = "evaluate",
         instruction = Mov(rd, Imm(n))
  PROVE  /\ registers' = [registers EXCEPT ![rd] = n]
         /\ Complete /\ UNCHANGED <<memory, instruction, block>>
<1>1. /\ instruction.condition = "AL" /\ instruction.format = "data_processing"
      /\ instruction.opcode = "MOV" /\ instruction.operand2 = Imm(n) /\ instruction.rd = rd
  BY DEF Mov, Alu
<1>2. dataProcessingEval
  BY <1>1, AlwaysHandled
<1>3. PICK shifted \in Operand2(Imm(n)) :
        registers' = [registers EXCEPT
                        ![rd] = Result("MOV", instruction.rn, Operand1(instruction.rn),
                                       shifted.value)]
  <2>1. "MOV" \notin Tests
    BY DEF Tests
  <2>2. PICK shifted \in Operand2(instruction.operand2) :
          registers' = IF instruction.opcode \in Tests THEN registers
                       ELSE [registers EXCEPT
                               ![instruction.rd] =
                                  Result(instruction.opcode, instruction.rn,
                                         Operand1(instruction.rn), shifted.value)]
    BY <1>2 DEF dataProcessingEval
  <2> QED
    BY <1>1, <2>1, <2>2
<1>4. Operand2(Imm(n)) = {Shifted(n, cpsr.c)}
  BY DEF Operand2, Imm, rotate
<1>5. shifted.value = n
  BY <1>3, <1>4, ShiftedWord
<1>6. Result("MOV", instruction.rn, Operand1(instruction.rn), shifted.value) = shifted.value
  BY DEF Result
<1> QED
  BY <1>2, <1>3, <1>5, <1>6 DEF dataProcessingEval

\* CMP of a word with the copies of the sign of another.
LEMMA CompareSignStep ==
  ASSUME IInv, Evaluate, phase = "evaluate",
         instruction = Cmp(5, [Reg(4) EXCEPT !.type = "ASR", !.amount = WordBits - 1])
  PROVE  /\ registers' = registers
         /\ cpsr'.z = 1 <=> registers[5] = IF NEG(registers[4]) THEN Modulus - 1 ELSE 0
         /\ Complete /\ UNCHANGED <<memory, instruction, block>>
<1> DEFINE operand2 == [Reg(4) EXCEPT !.type = "ASR", !.amount = WordBits - 1]
           a == registers[5]
           copies == IF NEG(registers[4]) THEN Modulus - 1 ELSE 0
           shifted == ArithmeticRight(registers[4], WordBits - 1)
<1>1. /\ instruction.condition = "AL" /\ instruction.format = "data_processing"
      /\ instruction.s /\ instruction.opcode = "CMP" /\ instruction.rn = 5
      /\ instruction.operand2 = operand2
  BY DEF Cmp, AluS, Alu
<1>2. dataProcessingEval
  BY <1>1, AlwaysHandled
<1>3. /\ registers \in [Register -> Word]
      /\ a \in Word /\ registers[4] \in Word
      /\ a + 0 = a /\ registers[4] + 0 = registers[4]
  <2>1. registers \in [Register -> Word]
    BY Parts DEF Machine
  <2>2. a \in Word /\ registers[4] \in Word
    BY <2>1 DEF Register
  <2> QED
    BY <2>1, <2>2, ModulusFacts DEF Word
<1>4. Operand1(5) = a
  BY <1>3, WrapWord DEF Operand1, PC
<1>5. shifted \in Operand2(operand2)
  <2>1. /\ operand2.kind = "by_value" /\ operand2.type = "ASR" /\ operand2.rm = 4
        /\ operand2.amount = WordBits - 1
    BY DEF Reg
  <2>2. Wrap(registers[4] + 0) = registers[4]
    BY <1>3, WrapWord
  <2> HIDE DEF operand2
  <2>3. Operand2(operand2) = {ArithmeticRight(registers[4], WordBits - 1)}
    BY <2>1, <2>2 DEF Operand2, shift, PC
  <2> QED
    BY <2>3
<1>6. shifted.value = copies
  BY <1>3, SignCopies
<1>7. FlagsDescribe("CMP", a, copies)
  <2>1. Executing("data_processing") /\ Next
    BY <1>2 DEF dataProcessingEval, Next, Turn
  <2>2. "CMP" \in Additions \cup Subtractions
    BY DEF Subtractions, Forward
  <2> HIDE DEF shifted, operand2, a, copies
  <2> QED
    BY <1>1, <1>4, <1>5, <1>6, <2>1, <2>2, HandlerFlags
<1>8. cpsr'.z = FlagOf(Wrap(a - copies) = 0)
  <2>1. Exact("CMP", a, copies, Unsigned) = a - copies
    BY DEF Exact, Unsigned
  <2> HIDE DEF a, copies
  <2> QED
    BY <1>7, <2>1 DEF FlagsDescribe
<1>9. Wrap(a - copies) = 0 <=> a = copies
  <2>1. copies \in Word
    BY WordRange
  <2> HIDE DEF a, copies
  <2>2. /\ a \in 0 .. Modulus - 1 /\ copies \in 0 .. Modulus - 1
        /\ a - copies \in Int /\ a - copies >= -Modulus /\ a - copies < Modulus
    BY <1>3, <2>1, ModulusFacts DEF Word, a
  <2>3. Wrap(a - copies) = IF a - copies < 0 THEN a - copies + Modulus ELSE a - copies
    BY <2>2, WrapNear, ModulusFacts
  <2> QED
    BY <2>2, <2>3, ModulusFacts
<1>10. registers' = registers
  BY <1>1, <1>2 DEF dataProcessingEval, Tests
<1> QED
  BY <1>2, <1>8, <1>9, <1>10 DEF dataProcessingEval, FlagOf

\* The programs, their results, and what holds before the last instruction.
WideNames == {"DoubleProduct", "TripleProduct", "Fits", "Vanishes"}
WideProgram(name) ==
  CASE name = "DoubleProduct" -> DoubleProduct
    [] name = "TripleProduct" -> TripleProduct
    [] name = "Fits" -> Fits
    [] name = "Vanishes" -> Vanishes

WideDone(name) ==
  LET x == Pair(registers, 1, 0)
      y == Pair(registers, 3, 2)
  IN  /\ name = "DoubleProduct" => Pair(registers, 5, 4) = (x * y) % DoubleModulus
      /\ name = "TripleProduct" =>
           DoubleModulus * registers[6] + Pair(registers, 5, 4) = x * registers[2]
      /\ name = "Fits" =>
           (TestCondition("EQ") <=> FitsSigned(Signed(registers[0]) * Signed(registers[2])))
      /\ name = "Vanishes" =>
           (TestCondition("EQ") <=> (registers[0] * registers[2]) % Modulus = 0)

WideAfter(file, name, k) ==
  LET product == file[0] * file[2]
  IN  /\ name \in {"DoubleProduct", "TripleProduct"} /\ k = 1 =>
           Pair(file, 5, 4) = product
      /\ name = "DoubleProduct" /\ k = 2 =>
           \E h \in Word : /\ Modulus * h + file[4] = product
                           /\ file[5] = Wrap(file[0] * file[3] + h)
      /\ name = "TripleProduct" /\ k = 2 =>
           Pair(file, 5, 4) = product /\ file[6] = 0
      /\ name = "Fits" /\ k = 1 =>
           SignedPair(file, 5, 4) = Signed(file[0]) * Signed(file[2])

WideInv(name) ==
  /\ IInv
  /\ Following(WideProgram(name))
  /\ phase \in {"fetch", "evaluate", "idle"}
  /\ phase # "idle" => WideAfter(registers, name, iter)
  /\ phase = "idle" \/ iter = Len(WideProgram(name)) => WideDone(name)

\* The programs are sequences, and their lengths.
LEMMA WideProgramFacts ==
  ASSUME NEW name \in WideNames
  PROVE  LET program == WideProgram(name)
         IN  /\ Len(program) \in 1 .. 3 /\ DOMAIN program = 1 .. Len(program)
             /\ program = [k \in 1 .. Len(program) |-> program[k]]
             /\ name = "DoubleProduct" => Len(program) = 3 /\ program = DoubleProduct
             /\ name = "TripleProduct" => Len(program) = 3 /\ program = TripleProduct
             /\ name = "Fits" => Len(program) = 2 /\ program = Fits
             /\ name = "Vanishes" => Len(program) = 1 /\ program = Vanishes
<1>0. \A a, b, c :
        /\ Len(<<a, b, c>>) = 3 /\ DOMAIN <<a, b, c>> = 1 .. 3
        /\ <<a, b, c>> = [k \in 1 .. 3 |-> <<a, b, c>>[k]]
        /\ Len(<<a, b>>) = 2 /\ DOMAIN <<a, b>> = 1 .. 2
        /\ <<a, b>> = [k \in 1 .. 2 |-> <<a, b>>[k]]
        /\ Len(<<a>>) = 1 /\ DOMAIN <<a>> = 1 .. 1
        /\ <<a>> = [k \in 1 .. 1 |-> <<a>>[k]]
  OBVIOUS
<1>1. CASE name = "DoubleProduct"
  <2>1. WideProgram(name) = DoubleProduct
    BY <1>1 DEF WideProgram
  <2>2. /\ Len(DoubleProduct) = 3 /\ DOMAIN DoubleProduct = 1 .. 3
        /\ DoubleProduct = [k \in 1 .. 3 |-> DoubleProduct[k]]
    BY DEF DoubleProduct
  <2>3. 3 \in 1 .. 3
    OBVIOUS
  <2> QED
    BY <1>1, <2>1, <2>2, <2>3, Zenon
<1>2. CASE name = "TripleProduct"
  <2>1. WideProgram(name) = TripleProduct
    BY <1>2 DEF WideProgram
  <2>2. /\ Len(TripleProduct) = 3 /\ DOMAIN TripleProduct = 1 .. 3
        /\ TripleProduct = [k \in 1 .. 3 |-> TripleProduct[k]]
    BY DEF TripleProduct
  <2>3. 3 \in 1 .. 3
    OBVIOUS
  <2> QED
    BY <1>2, <2>1, <2>2, <2>3, Zenon
<1>3. CASE name = "Fits"
  <2>1. WideProgram(name) = Fits
    BY <1>3 DEF WideProgram
  <2>2. /\ Len(Fits) = 2 /\ DOMAIN Fits = 1 .. 2
        /\ Fits = [k \in 1 .. 2 |-> Fits[k]]
    BY <1>0, Zenon DEF Fits
  <2> QED
    BY <1>3, <2>1, <2>2
<1>4. CASE name = "Vanishes"
  <2>1. WideProgram(name) = Vanishes
    BY <1>4 DEF WideProgram
  <2>2. /\ Len(Vanishes) = 1 /\ DOMAIN Vanishes = 1 .. 1
        /\ Vanishes = [k \in 1 .. 1 |-> Vanishes[k]]
    BY <1>0, Zenon DEF Vanishes
  <2> QED
    BY <1>4, <2>1, <2>2
<1> QED
  BY <1>1, <1>2, <1>3, <1>4 DEF WideNames

\* A step of a program does what its results, or the next step, need.
WideGoes(name) ==
  /\ Complete /\ code' = code /\ registers'[PC] = registers[PC]
  /\ iter + 1 = Len(WideProgram(name)) => WideDone(name)'
  /\ iter + 1 < Len(WideProgram(name)) => WideAfter(registers', name, iter + 1)

\* Each of the four programs.
LEMMA DoubleProductGoes ==
  ASSUME WideInv("DoubleProduct"), phase = "evaluate", iter \in 0 .. 2, Evaluate
  PROVE  WideGoes("DoubleProduct")
<1> DEFINE name == "DoubleProduct"
<1>1. /\ WideProgram(name) = DoubleProduct /\ Len(WideProgram(name)) = 3
      /\ instruction = DoubleProduct[iter + 1] /\ WideAfter(registers, name, iter)
      /\ IInv /\ registers \in [Register -> Word]
  BY WideProgramFacts, Parts DEF WideNames, WideInv, Following, Machine
<1>2. /\ 0 .. 6 \subseteq Register \ {PC} /\ PC \in Register
      /\ registers[0] \in Word /\ registers[1] \in Word /\ registers[2] \in Word
      /\ registers[3] \in Word /\ registers[4] \in Word /\ registers[5] \in Word
  BY <1>1 DEF Register, PC
<1>3. PC \notin 0 .. 6
  BY DEF PC
<1>4. CASE iter = 0
  <2>1. /\ instruction.condition = "AL" /\ instruction.format = "multiply_long"
        /\ ~instruction.u /\ ~instruction.a
        /\ instruction.rdhi = 5 /\ instruction.rdlo = 4
        /\ instruction.rm = 0 /\ instruction.rs = 2
    <3>1. instruction = Long(FALSE, FALSE, 4, 5, 0, 2)
      BY <1>1, <1>4 DEF DoubleProduct, Umull
    <3> QED
      BY <3>1 DEF Long
  <2>2. /\ Pair(registers', 5, 4) = registers[0] * registers[2]
        /\ \A r \in Register \ {5, 4} : registers'[r] = registers[r]
        /\ Complete /\ UNCHANGED <<memory, instruction, block>>
    BY <1>1, <2>1, LongStep DEF UnsignedFactors, SignedFactors
  <2>3. registers'[0] = registers[0] /\ registers'[2] = registers[2]
        /\ registers'[PC] = registers[PC]
    BY <1>2, <1>3, <2>2
  <2>4. iter + 1 # Len(WideProgram(name)) /\ WideAfter(registers', name, iter + 1)
    BY <1>1, <1>4, <2>2, <2>3 DEF WideAfter
  <2> QED
    BY <2>2, <2>3, <2>4, Zenon DEF WideGoes, memory
<1>5. CASE iter = 1 \/ iter = 2
  <2>1. /\ instruction.condition = "AL" /\ instruction.format = "multiply" /\ instruction.a
        /\ instruction.rd = 5 /\ instruction.rn = 5
        /\ iter = 1 => instruction.rm = 0 /\ instruction.rs = 3
        /\ iter = 2 => instruction.rm = 1 /\ instruction.rs = 2
    <3>1. /\ iter = 1 => instruction = Mla(5, 0, 3, 5)
          /\ iter = 2 => instruction = Mla(5, 1, 2, 5)
      BY <1>1 DEF DoubleProduct
    <3> QED
      BY <1>5, <3>1, MultiplyFields
  <2>2. /\ registers' = [registers EXCEPT ![5] = MultiplyResult(instruction)]
        /\ Complete /\ UNCHANGED <<memory, instruction, block>>
    BY <1>1, <2>1, MultiplyStep
  <2>3. /\ \A r \in Register \ {5} : registers'[r] = registers[r]
        /\ registers'[5] = MultiplyResult(instruction)
    BY <1>1, <1>2, <2>2
  <2>4. /\ registers'[0] = registers[0] /\ registers'[1] = registers[1]
        /\ registers'[2] = registers[2] /\ registers'[3] = registers[3]
        /\ registers'[4] = registers[4] /\ registers'[PC] = registers[PC]
    BY <1>2, <1>3, <2>3
  <2>5. CASE iter = 1
    <3>1. registers'[5] = Wrap(registers[0] * registers[3] + registers[5])
      BY <2>1, <2>3, <2>5 DEF MultiplyResult
    <3>2. Modulus * registers[5] + registers[4] = registers[0] * registers[2]
      BY <1>1, <2>5 DEF WideAfter, Pair
    <3>3. \E h \in Word : /\ Modulus * h + registers'[4] = registers'[0] * registers'[2]
                          /\ registers'[5] = Wrap(registers'[0] * registers'[3] + h)
      BY <1>2, <2>4, <3>1, <3>2
    <3>4. iter + 1 # Len(WideProgram(name)) /\ WideAfter(registers', name, iter + 1)
      BY <1>1, <2>5, <3>3 DEF WideAfter
    <3> QED
      BY <2>2, <2>4, <3>4, Zenon DEF WideGoes, memory
  <2>6. CASE iter = 2
    <3>1. registers'[5] = Wrap(registers[1] * registers[2] + registers[5])
      BY <2>1, <2>3, <2>6 DEF MultiplyResult
    <3>2. PICK h \in Word : /\ Modulus * h + registers[4] = registers[0] * registers[2]
                            /\ registers[5] = Wrap(registers[0] * registers[3] + h)
      BY <1>1, <2>6 DEF WideAfter
    <3>3. Modulus * Wrap(registers[1] * registers[2] + Wrap(registers[0] * registers[3] + h))
            + registers[4]
            = ((Modulus * registers[1] + registers[0])
                 * (Modulus * registers[3] + registers[2])) % DoubleModulus
      <4> DEFINE x0 == registers[0]
                 x1 == registers[1]
                 y0 == registers[2]
                 y1 == registers[3]
                 l == registers[4]
      <4>1. /\ x0 \in Word /\ x1 \in Word /\ y0 \in Word /\ y1 \in Word /\ l \in Word
            /\ Modulus * h + l = x0 * y0
        BY <1>2, <3>2
      <4> HIDE DEF x0, x1, y0, y1, l
      <4>2. Modulus * Wrap(x1 * y0 + Wrap(x0 * y1 + h)) + l
              = ((Modulus * x1 + x0) * (Modulus * y1 + y0)) % DoubleModulus
        BY <4>1, ProductOfPairs
      <4> QED
        BY <4>2 DEF x0, x1, y0, y1, l
    <3>4. /\ Pair(registers', 5, 4) = Modulus * registers'[5] + registers[4]
          /\ Pair(registers', 1, 0) = Modulus * registers[1] + registers[0]
          /\ Pair(registers', 3, 2) = Modulus * registers[3] + registers[2]
      BY <2>4 DEF Pair
    <3>5. WideDone(name)'
      BY <3>1, <3>2, <3>3, <3>4 DEF WideDone
    <3>6. ~(iter + 1 < Len(WideProgram(name)))
      <4>1. iter + 1 = 3 /\ ~(3 < 3)
        BY <2>6
      <4> QED
        BY <1>1, <4>1
    <3> QED
      BY <2>2, <2>4, <3>5, <3>6, Zenon DEF WideGoes, memory
  <2> QED
    BY <1>5, <2>5, <2>6
<1> QED
  BY <1>4, <1>5

\* The product of a pair and a word, its high word zeroed before it is added to.
LEMMA TripleProductGoes ==
  ASSUME WideInv("TripleProduct"), phase = "evaluate", iter \in 0 .. 2, Evaluate
  PROVE  WideGoes("TripleProduct")
<1> DEFINE name == "TripleProduct"
<1>1. /\ WideProgram(name) = TripleProduct /\ Len(WideProgram(name)) = 3
      /\ instruction = TripleProduct[iter + 1] /\ WideAfter(registers, name, iter)
      /\ IInv /\ registers \in [Register -> Word]
  BY WideProgramFacts, Parts DEF WideNames, WideInv, Following, Machine
<1>2. /\ 0 .. 6 \subseteq Register \ {PC} /\ PC \in Register
      /\ registers[0] \in Word /\ registers[1] \in Word /\ registers[2] \in Word
      /\ registers[3] \in Word /\ registers[4] \in Word /\ registers[5] \in Word
  BY <1>1 DEF Register, PC
<1>3. PC \notin 0 .. 6
  BY DEF PC
<1>4. CASE iter = 0
  <2>1. /\ instruction.condition = "AL" /\ instruction.format = "multiply_long"
        /\ ~instruction.u /\ ~instruction.a
        /\ instruction.rdhi = 5 /\ instruction.rdlo = 4
        /\ instruction.rm = 0 /\ instruction.rs = 2
    <3>1. instruction = Long(FALSE, FALSE, 4, 5, 0, 2)
      BY <1>1, <1>4 DEF TripleProduct, Umull
    <3> QED
      BY <3>1 DEF Long
  <2>2. /\ Pair(registers', 5, 4) = registers[0] * registers[2]
        /\ \A r \in Register \ {5, 4} : registers'[r] = registers[r]
        /\ Complete /\ UNCHANGED <<memory, instruction, block>>
    BY <1>1, <2>1, LongStep DEF UnsignedFactors, SignedFactors
  <2>3. registers'[0] = registers[0] /\ registers'[2] = registers[2]
        /\ registers'[PC] = registers[PC]
    BY <1>2, <1>3, <2>2
  <2>4. iter + 1 # Len(WideProgram(name)) /\ WideAfter(registers', name, iter + 1)
    BY <1>1, <1>4, <2>2, <2>3 DEF WideAfter
  <2> QED
    BY <2>2, <2>3, <2>4, Zenon DEF WideGoes, memory
<1>5. CASE iter = 1
  <2>1. instruction = Mov(6, Imm(0))
    BY <1>1, <1>5 DEF TripleProduct
  <2>2. /\ registers' = [registers EXCEPT ![6] = 0]
        /\ Complete /\ UNCHANGED <<memory, instruction, block>>
    BY <1>1, <1>2, <2>1, WordRange, SmallMove
  <2>3. /\ registers'[0] = registers[0] /\ registers'[2] = registers[2]
        /\ registers'[4] = registers[4] /\ registers'[5] = registers[5]
        /\ registers'[PC] = registers[PC] /\ registers'[6] = 0
    BY <1>1, <1>2, <1>3, <2>2
  <2>4. Pair(registers', 5, 4) = registers[0] * registers[2]
    BY <1>1, <1>5, <2>3 DEF WideAfter, Pair
  <2>5. iter + 1 # Len(WideProgram(name)) /\ WideAfter(registers', name, iter + 1)
    BY <1>1, <1>5, <2>3, <2>4 DEF WideAfter
  <2> QED
    BY <2>2, <2>3, <2>5, Zenon DEF WideGoes, memory
<1>6. CASE iter = 2
  <2>1. /\ instruction.condition = "AL" /\ instruction.format = "multiply_long"
        /\ ~instruction.u /\ instruction.a
        /\ instruction.rdhi = 6 /\ instruction.rdlo = 5
        /\ instruction.rm = 1 /\ instruction.rs = 2
    <3>1. instruction = Long(FALSE, TRUE, 5, 6, 1, 2)
      BY <1>1, <1>6 DEF TripleProduct, Umlal
    <3> QED
      BY <3>1 DEF Long
  <2>2. /\ Pair(registers', 6, 5)
             = (Pair(registers, 6, 5) + registers[1] * registers[2]) % DoubleModulus
        /\ \A r \in Register \ {6, 5} : registers'[r] = registers[r]
        /\ Complete /\ UNCHANGED <<memory, instruction, block>>
    BY <1>1, <2>1, LongStep DEF UnsignedFactors, SignedFactors
  <2>3. /\ registers'[0] = registers[0] /\ registers'[1] = registers[1]
        /\ registers'[2] = registers[2] /\ registers'[4] = registers[4]
        /\ registers'[PC] = registers[PC]
    BY <1>2, <1>3, <2>2
  <2>4. registers'[5] \in Word /\ registers'[6] \in Word
    <3>1. IInv'
      <4>1. Next
        BY DEF Next, Turn
      <4> QED
        BY <1>1, <4>1, NextInv
    <3>2. registers' \in [Register -> Word]
      BY <3>1, PartsNext DEF Machine
    <3> QED
      BY <1>2, <3>2
  <2>5. /\ Modulus * registers[5] + registers[4] = registers[0] * registers[2]
        /\ registers[6] = 0
    BY <1>1, <1>6 DEF WideAfter, Pair
  <2>6. Modulus * registers'[6] + registers'[5]
          = (Modulus * 0 + registers[5] + registers[1] * registers[2]) % DoubleModulus
    BY <2>2, <2>5 DEF Pair
  <2>7. DoubleModulus * registers'[6] + (Modulus * registers'[5] + registers[4])
          = (Modulus * registers[1] + registers[0]) * registers[2]
    <3> DEFINE x0 == registers[0]
               x1 == registers[1]
               y == registers[2]
               h == registers[5]
               l == registers[4]
               hi == registers'[6]
               mid == registers'[5]
    <3>1. /\ x0 \in Word /\ x1 \in Word /\ y \in Word /\ h \in Word /\ l \in Word
          /\ hi \in Word /\ mid \in Word
      BY <1>2, <2>4
    <3>2. /\ Modulus * h + l = x0 * y
          /\ Modulus * hi + mid = (Modulus * 0 + h + x1 * y) % DoubleModulus
      BY <2>5, <2>6
    <3> HIDE DEF x0, x1, y, h, l, hi, mid
    <3>3. DoubleModulus * hi + (Modulus * mid + l) = (Modulus * x1 + x0) * y
      BY <3>1, <3>2, ProductOfPairAndWord
    <3> QED
      BY <3>3 DEF x0, x1, y, h, l, hi, mid
  <2>8. WideDone(name)'
    BY <2>3, <2>7 DEF WideDone, Pair
  <2>9. ~(iter + 1 < Len(WideProgram(name)))
    BY <1>1, <1>6
  <2> QED
    BY <2>2, <2>3, <2>8, <2>9, Zenon DEF WideGoes, memory
<1> QED
  BY <1>4, <1>5, <1>6

\* SMULL, and the comparison of its high word with the sign of the low one.
LEMMA FitsGoes ==
  ASSUME WideInv("Fits"), phase = "evaluate", iter \in 0 .. 1, Evaluate
  PROVE  WideGoes("Fits")
<1> DEFINE name == "Fits"
           product == Signed(registers[0]) * Signed(registers[2])
<1>1. /\ WideProgram(name) = Fits /\ Len(WideProgram(name)) = 2
      /\ instruction = Fits[iter + 1] /\ WideAfter(registers, name, iter)
      /\ IInv /\ registers \in [Register -> Word]
  BY WideProgramFacts, Parts DEF WideNames, WideInv, Following, Machine
<1>2. /\ 0 .. 6 \subseteq Register \ {PC} /\ PC \in Register
      /\ registers[0] \in Word /\ registers[1] \in Word /\ registers[2] \in Word
      /\ registers[3] \in Word /\ registers[4] \in Word /\ registers[5] \in Word
  BY <1>1 DEF Register, PC
<1>3. PC \notin 0 .. 6
  BY DEF PC
<1>4. CASE iter = 0
  <2>1. /\ instruction.condition = "AL" /\ instruction.format = "multiply_long"
        /\ instruction.u /\ ~instruction.a
        /\ instruction.rdhi = 5 /\ instruction.rdlo = 4
        /\ instruction.rm = 0 /\ instruction.rs = 2
    <3>1. instruction = Long(TRUE, FALSE, 4, 5, 0, 2)
      BY <1>1, <1>4 DEF Fits, Smull
    <3> QED
      BY <3>1 DEF Long
  <2>2. /\ SignedPair(registers', 5, 4) = product
        /\ \A r \in Register \ {5, 4} : registers'[r] = registers[r]
        /\ Complete /\ UNCHANGED <<memory, instruction, block>>
    BY <1>1, <2>1, LongStep DEF UnsignedFactors, SignedFactors
  <2>3. registers'[0] = registers[0] /\ registers'[2] = registers[2]
        /\ registers'[PC] = registers[PC]
    BY <1>2, <1>3, <2>2
  <2>4. iter + 1 # Len(WideProgram(name)) /\ WideAfter(registers', name, iter + 1)
    BY <1>1, <1>4, <2>2, <2>3 DEF WideAfter
  <2> QED
    BY <2>2, <2>3, <2>4, Zenon DEF WideGoes, memory
<1>5. CASE iter = 1
  <2>1. instruction = Cmp(5, [Reg(4) EXCEPT !.type = "ASR", !.amount = WordBits - 1])
    BY <1>1, <1>5 DEF Fits
  <2>2. /\ registers' = registers
        /\ cpsr'.z = 1 <=> registers[5] = IF NEG(registers[4]) THEN Modulus - 1 ELSE 0
        /\ Complete /\ UNCHANGED <<memory, instruction, block>>
    BY <1>1, <2>1, CompareSignStep
  <2>3. product = Modulus * Signed(registers[5]) + registers[4]
    BY <1>1, <1>5 DEF WideAfter, SignedPair
  <2>4. FitsSigned(product) <=> registers[5] = IF NEG(registers[4]) THEN Modulus - 1 ELSE 0
    BY <1>2, <2>3, SignOfLow
  <2>5. TestCondition("EQ")' <=> FitsSigned(product)
    BY <2>2, <2>4 DEF TestCondition
  <2>6. WideDone(name)'
    BY <2>2, <2>5 DEF WideDone
  <2> QED
    BY <1>1, <1>5, <2>2, <2>6 DEF WideGoes, WideAfter, memory
<1> QED
  BY <1>4, <1>5

\* MULS alone.
LEMMA VanishesGoes ==
  ASSUME WideInv("Vanishes"), phase = "evaluate", iter = 0, Evaluate
  PROVE  WideGoes("Vanishes")
<1> DEFINE name == "Vanishes"
<1>1. /\ WideProgram(name) = Vanishes /\ Len(WideProgram(name)) = 1
      /\ instruction = Vanishes[iter + 1]
      /\ IInv /\ registers \in [Register -> Word] /\ cpsr \in Flags
  BY WideProgramFacts, Parts DEF WideNames, WideInv, Following, Machine
<1>2. /\ instruction.condition = "AL" /\ instruction.format = "multiply" /\ instruction.s
      /\ ~instruction.a /\ instruction.rd = 4 /\ instruction.rm = 0 /\ instruction.rs = 2
  BY <1>1 DEF Vanishes, Mul
<1> DEFINE value == MultiplyResult(instruction)
<1>3. /\ registers' = [registers EXCEPT ![4] = value]
      /\ cpsr' = [cpsr EXCEPT !.z = FlagOf(value = 0), !.n = FlagOf(NEG(value))]
      /\ Complete /\ UNCHANGED <<memory, instruction, block>>
  <2>1. 4 # PC
    BY DEF PC
  <2> QED
    BY <1>1, <1>2, <2>1, MultiplyStep
<1>4. value = (registers[0] * registers[2]) % Modulus
  <2>1. registers[0] \in Int /\ registers[2] \in Int
    <3>1. registers[0] \in Word /\ registers[2] \in Word
      BY <1>1 DEF Register
    <3> QED
      BY <3>1, WordRange
  <2>2. value = (registers[0] * registers[2] + 0) % Modulus
    BY <1>2 DEF MultiplyResult, Wrap
  <2>3. registers[0] * registers[2] + 0 = registers[0] * registers[2]
    BY <2>1
  <2> QED
    BY <2>2, <2>3
<1>5. /\ registers'[0] = registers[0] /\ registers'[2] = registers[2]
      /\ registers'[PC] = registers[PC]
  BY <1>1, <1>3 DEF Register, PC
<1>6. cpsr'.z = FlagOf(value = 0)
  BY <1>1, <1>3 DEF Flags
<1> HIDE DEF value
<1>7. WideDone(name)'
  BY <1>4, <1>5, <1>6 DEF WideDone, TestCondition, FlagOf
<1> QED
  BY <1>1, <1>3, <1>5, <1>7 DEF WideGoes, WideAfter, memory

\* Nothing is needed after the last instruction.
LEMMA NothingNeeded ==
  ASSUME NEW file, NEW name, NEW k,
         name \notin {"DoubleProduct", "TripleProduct"} \/ (k # 1 /\ k # 2),
         name # "Fits" \/ k # 1
  PROVE  WideAfter(file, name, k)
<1>1. ~(name \in {"DoubleProduct", "TripleProduct"} /\ k = 1)
  OBVIOUS
<1>2. ~(name = "DoubleProduct" /\ k = 2) /\ ~(name = "TripleProduct" /\ k = 2)
  OBVIOUS
<1>3. ~(name = "Fits" /\ k = 1)
  OBVIOUS
<1> QED
  BY <1>1, <1>2, <1>3, Zenon DEF WideAfter

\* The invariant of a sequence of multiplications.
LEMMA WideStep ==
  ASSUME NEW name \in WideNames, WideInv(name), [Turn]_vars
  PROVE  WideInv(name)'
<1> DEFINE program == WideProgram(name)
           n == Len(program)
<1>1. /\ n \in 1 .. 3 /\ n \in Nat \ {0} /\ DOMAIN program = 1 .. n
      /\ name = "DoubleProduct" => n = 3
      /\ name = "TripleProduct" => n = 3
      /\ name = "Fits" => n = 2
      /\ name = "Vanishes" => n = 1
  BY WideProgramFacts
<1> HIDE DEF program
<1>2. /\ IInv'
      /\ \/ UNCHANGED vars /\ Following(program)'
         \/ Fetches(program) /\ Following(program)'
         \/ ComesBack(program) /\ Following(program)'
         \/ phase \in {"evaluate", "transfer"} /\ Evaluate
  <2>1. IInv /\ Following(program)
    BY DEF WideInv, program
  <2> QED
    BY <1>1, <2>1, ProgramStep
<1>3. CASE UNCHANGED vars /\ Following(program)'
  BY <1>2, <1>3 DEF WideInv, vars, WideAfter, WideDone, TestCondition, program
<1>4. ASSUME UNCHANGED cpsr, \A r \in 0 .. 6 : registers'[r] = registers[r]
      PROVE  /\ WideDone(name)' <=> WideDone(name)
             /\ \A k : WideAfter(registers', name, k) <=> WideAfter(registers, name, k)
  <2>1. /\ registers'[0] = registers[0] /\ registers'[1] = registers[1]
        /\ registers'[2] = registers[2] /\ registers'[3] = registers[3]
        /\ registers'[4] = registers[4] /\ registers'[5] = registers[5]
        /\ registers'[6] = registers[6]
    BY <1>4
  <2>2. TestCondition("EQ")' <=> TestCondition("EQ")
    BY <1>4 DEF TestCondition
  <2> QED
    BY <2>1, <2>2 DEF WideDone, WideAfter, Pair, SignedPair
<1>5. CASE Fetches(program) /\ Following(program)'
  <2>1. \A r \in 0 .. 6 : registers'[r] = registers[r]
    BY <1>5, Parts, SMTT(30) DEF WideInv, Machine, Fetches, Register, PC
  <2>2. phase' = "evaluate" /\ iter' = iter /\ iter < n /\ cpsr' = cpsr /\ phase # "idle"
    BY <1>5 DEF Fetches
  <2>3. iter \in Nat
    BY Parts DEF WideInv, Control
  <2> QED
    BY <1>1, <1>2, <1>4, <1>5, <2>1, <2>2, <2>3 DEF WideInv, program
<1>6. CASE ComesBack(program) /\ Following(program)'
  <2>1. \A r \in 0 .. 6 : registers'[r] = registers[r]
    BY <1>6 DEF ComesBack
  <2>2. phase' = "idle" /\ iter = n /\ cpsr' = cpsr
    BY <1>6 DEF ComesBack
  <2> QED
    BY <1>2, <1>4, <1>6, <2>1, <2>2 DEF WideInv, program
<1>7. CASE phase \in {"evaluate", "transfer"} /\ Evaluate
  <2>1. phase = "evaluate" /\ Evaluate /\ IInv /\ Following(program)
    BY <1>7 DEF WideInv, program
  <2>2. iter \in 0 .. n - 1
    BY <1>1, <2>1, Parts DEF Control, RunInv, Following, Inside, program
  <2>3. WideGoes(name)
    <3>1. CASE name = "DoubleProduct"
      BY <1>1, <2>1, <2>2, <3>1, DoubleProductGoes
    <3>2. CASE name = "TripleProduct"
      BY <1>1, <2>1, <2>2, <3>2, TripleProductGoes
    <3>3. CASE name = "Fits"
      BY <1>1, <2>1, <2>2, <3>3, FitsGoes
    <3>4. CASE name = "Vanishes"
      BY <1>1, <2>1, <2>2, <3>4, VanishesGoes
    <3> QED
      BY <3>1, <3>2, <3>3, <3>4 DEF WideNames
  <2>4. Following(program)' /\ phase' = "fetch" /\ iter' = iter + 1
    BY <1>1, <2>1, <2>3, HandlerFollows DEF WideGoes
  <2>5. /\ iter + 1 = n => WideDone(name)'
        /\ iter + 1 < n => WideAfter(registers', name, iter + 1)
    BY <2>3 DEF WideGoes, program
  <2>6. WideAfter(registers', name, iter')
    <3>1. CASE iter + 1 < n
      BY <2>4, <2>5, <3>1
    <3>2. CASE iter + 1 = n
      <4>1. iter' = n
        BY <2>4, <3>2
      <4>2. /\ name = "DoubleProduct" => iter' # 1 /\ iter' # 2
            /\ name = "TripleProduct" => iter' # 1 /\ iter' # 2
            /\ name = "Fits" => iter' # 1
        <5>1. 3 # 1 /\ 3 # 2 /\ 2 # 1
          OBVIOUS
        <5>2. name = "DoubleProduct" \/ name = "TripleProduct" => iter' = 3
          BY <1>1, <4>1
        <5>3. name = "Fits" => iter' = 2
          BY <1>1, <4>1
        <5> QED
          BY <5>1, <5>2, <5>3, Zenon
      <4>3. /\ name \notin {"DoubleProduct", "TripleProduct"} \/ (iter' # 1 /\ iter' # 2)
            /\ name # "Fits" \/ iter' # 1
        BY <4>2
      <4> QED
        BY <4>3, NothingNeeded, Zenon
    <3>3. iter + 1 < n \/ iter + 1 = n
      <4>1. n \in Nat
        BY <1>1
      <4> HIDE DEF n
      <4> QED
        BY <2>2, <4>1
    <3> QED
      BY <3>1, <3>2, <3>3, Zenon
  <2> QED
    BY <1>2, <2>4, <2>5, <2>6 DEF WideInv, program
<1> QED
  BY <1>2, <1>3, <1>5, <1>6, <1>7

(***************************************************************************)
(* The multiplications chain: the sequences for a double word product, a   *)
(* three-word product, the test of a signed product for an overflow and    *)
(* the test of a product for zero give what the integers give, at every    *)
(* width of a word and from every value of the registers and flags.        *)
(***************************************************************************)
THEOREM WideArithmeticIsExact ==
  ASSUME NEW program \in WidePrograms
  PROVE  Begins(program) /\ [][Turn]_vars => []WideArithmetic
<1>1. PICK name \in WideNames : program = WideProgram(name)
  <2>1. /\ WideProgram("DoubleProduct") = DoubleProduct
        /\ WideProgram("TripleProduct") = TripleProduct
        /\ WideProgram("Fits") = Fits
        /\ WideProgram("Vanishes") = Vanishes
    BY DEF WideProgram
  <2> QED
    BY <2>1 DEF WidePrograms, WideNames
<1> DEFINE I == WideInv(name)
<1>2. Begins(program) => I
  <2> SUFFICES ASSUME Begins(program) PROVE I
    OBVIOUS
  <2>1. Len(program) \in Nat /\ Len(program) # 0
    BY <1>1, WideProgramFacts
  <2>2. IInv /\ Following(program) /\ phase = "fetch" /\ iter = 0
    BY <2>1, BeginFollows
  <2>3. WideAfter(registers, name, 0)
    BY DEF WideAfter
  <2> QED
    BY <1>1, <2>1, <2>2, <2>3 DEF WideInv
<1>3. I /\ [Turn]_vars => I'
  BY WideStep
<1>4. I => WideArithmetic
  <2> SUFFICES ASSUME I, phase = "idle" PROVE WideArithmetic
    BY DEF WideArithmetic
  <2>1. WideDone(name) /\ code = CodeOf(program)
    BY <1>1 DEF WideInv, Following
  <2>2. ASSUME NEW other \in WideNames, code = CodeOf(WideProgram(other))
        PROVE  program = WideProgram(other)
    <3> DEFINE second == WideProgram(other)
    <3>1. /\ Len(program) \in Nat /\ program = [k \in 1 .. Len(program) |-> program[k]]
          /\ Len(second) \in Nat /\ second = [k \in 1 .. Len(second) |-> second[k]]
      BY <1>1, WideProgramFacts
    <3>2. CodeOf(program) = CodeOf(second)
      BY <2>1, <2>2
    <3> HIDE DEF second
    <3> QED
      BY <3>1, <3>2, CodesDiffer DEF second
  <2>3. ASSUME NEW other \in WideNames, WideProgram(other) = program
        PROVE  other = name
    <3>1. \A t \in WideNames :
            /\ t \in {"DoubleProduct", "TripleProduct"} <=> Len(WideProgram(t)) = 3
            /\ t = "Fits" <=> Len(WideProgram(t)) = 2
            /\ t = "Vanishes" <=> Len(WideProgram(t)) = 1
      <4> SUFFICES ASSUME NEW t \in WideNames
                   PROVE  /\ t \in {"DoubleProduct", "TripleProduct"} <=> Len(WideProgram(t)) = 3
                          /\ t = "Fits" <=> Len(WideProgram(t)) = 2
                          /\ t = "Vanishes" <=> Len(WideProgram(t)) = 1
        OBVIOUS
      <4>1. /\ t = "DoubleProduct" => Len(WideProgram(t)) = 3
            /\ t = "TripleProduct" => Len(WideProgram(t)) = 3
            /\ t = "Fits" => Len(WideProgram(t)) = 2
            /\ t = "Vanishes" => Len(WideProgram(t)) = 1
        BY WideProgramFacts
      <4> QED
        BY <4>1 DEF WideNames
    <3>2. WideProgram("DoubleProduct") # WideProgram("TripleProduct")
      <4>1. DoubleProduct[2].format = "multiply"
        BY DEF DoubleProduct, Mla, Mul
      <4>2. TripleProduct[2].format = "data_processing"
        BY DEF TripleProduct, Mov, Alu
      <4>3. DoubleProduct # TripleProduct
        BY <4>1, <4>2
      <4> QED
        BY <4>3 DEF WideProgram
    <3> QED
      BY <1>1, <2>3, <3>1, <3>2 DEF WideNames
  <2>4. /\ code = CodeOf(DoubleProduct) => name = "DoubleProduct"
        /\ code = CodeOf(TripleProduct) => name = "TripleProduct"
        /\ code = CodeOf(Fits) => name = "Fits"
        /\ code = CodeOf(Vanishes) => name = "Vanishes"
    BY <2>2, <2>3 DEF WideProgram, WideNames
  <2> QED
    BY <2>1, <2>4 DEF WideDone, WideArithmetic
<1> HIDE DEF I
<1> QED
  BY <1>2, <1>3, <1>4, PTL

-----------------------------------------------------------------------------
(* Word and byte transfers, in steps.                                      *)

\* A transfer whose condition is always true has happened, or the machine is
\* lost and nothing has.
LEMMA SingleStep ==
  ASSUME Evaluate, phase = "evaluate", instruction.format = "single_data_transfer",
         instruction.condition = "AL"
  PROVE  \E distance \in Offsets(instruction) :
           /\ UNCHANGED <<cpsr, code, programSize, instruction, block>>
           /\ \/ /\ Data(Touched(instruction, distance))
                 /\ Load(instruction, distance) \/ Store(instruction, distance)
                 /\ Complete
              \/ phase' \in Lost /\ UNCHANGED <<registers, ram>>
<1>1. singleDataTranferEval
  BY AlwaysHandled
<1>2. \A bytes : Escape(bytes) => phase' \in Lost
  BY DEF Escape, Lost
<1> QED
  BY <1>1, <1>2 DEF singleDataTranferEval

\* A program whose machine is lost is still the one it runs.
LEMMA LostFollows ==
  ASSUME NEW program, Following(program), phase' \in Lost, code' = code
  PROVE  Following(program)'
BY DEF Following, Lost, Inside

\* The first instruction, the addition or subtraction and the plain load.
Steps(program, t, operand2) ==
  /\ Len(program) = 3 /\ DOMAIN program = 1 .. 3
  /\ operand2 \in ByDistance \cup ByIndex
  /\ t.format = "single_data_transfer" /\ t.condition = "AL"
  /\ t.load \in BOOLEAN /\ t.b \in BOOLEAN /\ t.p \in BOOLEAN /\ t.u \in BOOLEAN /\ t.w \in BOOLEAN
  /\ t.rd \in {1, 2} /\ t.rn = 1 /\ t.offset = OffsetOf(operand2)
  /\ program[1] = t
  /\ program[IF t.p THEN 2 ELSE 3] = Index(t.u, operand2)
  /\ program[IF t.p THEN 3 ELSE 2] = Plain(t.b)

\* One instruction before two.
LEMMA OneAndTwo ==
  ASSUME NEW x, NEW y, NEW z
  PROVE  <<x>> \o <<y, z>> = <<x, y, z>>
<1> DEFINE S == {x, y, z}
           one == <<x>>
           two == <<y, z>>
           three == <<x, y, z>>
           both == one \o two
<1>1. one \in Seq(S) /\ two \in Seq(S) /\ three \in Seq(S)
  OBVIOUS
<1>2. /\ Len(one) = 1 /\ one[1] = x
      /\ Len(two) = 2 /\ two[1] = y /\ two[2] = z
      /\ Len(three) = 3 /\ three[1] = x /\ three[2] = y /\ three[3] = z
  OBVIOUS
<1> HIDE DEF one, two, three, S
<1>3. /\ both \in Seq(S) /\ Len(both) = Len(one) + Len(two)
      /\ \A n \in 1 .. Len(one) + Len(two) :
           both[n] = IF n <= Len(one) THEN one[n] ELSE two[n - Len(one)]
  BY <1>1
<1>4. Len(both) = 3 /\ both[1] = three[1] /\ both[2] = three[2] /\ both[3] = three[3]
  BY <1>2, <1>3
<1> HIDE DEF both
<1>5. \A n \in 1 .. Len(three) : both[n] = three[n]
  BY <1>2, <1>4
<1>6. both = three
  BY <1>1, <1>2, <1>3, <1>4, <1>5, SeqEqual
<1> QED
  BY <1>6 DEF both, one, two, three

\* Each of the programs is of that form.
LEMMA StepsOfProgram ==
  ASSUME NEW program \in WordPrograms
  PROVE  \E t, operand2 : Steps(program, t, operand2)
<1>1. PICK l \in BOOLEAN, b \in BOOLEAN, p \in BOOLEAN, u \in BOOLEAN, w \in BOOLEAN,
           rd \in {1, 2}, operand2 \in ByDistance \cup ByIndex :
        program = Stepwise(l, b, p, u, w, rd, operand2)
  BY DEF WordPrograms
<1> DEFINE t == Transferred(l, b, p, u, w, rd, operand2)
<1>2. /\ t.format = "single_data_transfer" /\ t.condition = "AL"
      /\ t.load = l /\ t.b = b /\ t.p = p /\ t.u = u /\ t.w = w
      /\ t.rd = rd /\ t.rn = 1 /\ t.offset = OffsetOf(operand2)
  BY DEF Transferred, Transfer
<1> HIDE DEF t
<1>3. program = IF p THEN <<t, Index(u, operand2), Plain(b)>>
                     ELSE <<t, Plain(b), Index(u, operand2)>>
  <2>1. \A x, y, z : <<x>> \o <<y, z>> = <<x, y, z>>
    BY OneAndTwo, Zenon
  <2>2. CASE p
    <3>1. program = <<t>> \o <<Index(u, operand2), Plain(b)>>
      BY <1>1, <2>2, Zenon DEF Stepwise, t
    <3> QED
      BY <2>1, <2>2, <3>1, Zenon
  <2>3. CASE ~p
    <3>1. program = <<t>> \o <<Plain(b), Index(u, operand2)>>
      BY <1>1, <2>3, Zenon DEF Stepwise, t
    <3> QED
      BY <2>1, <2>3, <3>1, Zenon
  <2> QED
    BY <2>2, <2>3, Zenon
<1>4. Len(program) = 3 /\ DOMAIN program = 1 .. 3 /\ program[1] = t
  BY <1>3
<1>5. /\ program[IF t.p THEN 2 ELSE 3] = Index(t.u, operand2)
      /\ program[IF t.p THEN 3 ELSE 2] = Plain(t.b)
  BY <1>2, <1>3
<1> QED
  BY <1>1, <1>2, <1>4, <1>5 DEF Steps

\* The values a second operand can have: those of an addition, and of the
\* offset of a transfer.
Values(operand2) == {shifted.value : shifted \in Operand2(operand2)}

\* There is one such value, whichever way the build shifts.
LEMMA OneIndex ==
  ASSUME NEW operand2 \in ByDistance \cup ByIndex, IInv, 12 <= MemSize,
         NEW t, t.offset = OffsetOf(operand2)
  PROVE  Offsets(t) = Values(operand2) /\ \E d \in Word : Values(operand2) = {d}
<1>1. WordBits # 1 /\ WordBits \in Nat \ {0}
  <2>1. ASSUME WordBits = 1 PROVE FALSE
    <3>1. SignBit = 2^0
      BY <2>1 DEF SignBit
    <3>2. 2^0 = 1
      OBVIOUS
    <3> QED
      BY <3>1, <3>2, MemSizeAssumption DEF Modulus
  <2> QED
    BY <2>1, WidthAssumption
<1>2. registers \in [Register -> Word] /\ cpsr \in Flags
  BY Parts DEF Machine
<1>3. CASE operand2 \in ByDistance
  <2>1. PICK n \in {0, 1, 3} : operand2 = Imm(n)
    BY <1>3 DEF ByDistance
  <2>2. n \in Word
    BY MemSizeAssumption, ModulusFacts DEF Word
  <2>3. Offsets(t) = {n}
    BY <2>1 DEF Offsets, OffsetOf, Imm
  <2>4. Operand2(operand2) = {Shifted(n, cpsr.c)}
    BY <2>1 DEF Operand2, rotate, Imm
  <2>5. Shifted(n, cpsr.c).value = n
    BY <2>2, WrapWord DEF Shifted
  <2> QED
    BY <2>2, <2>3, <2>4, <2>5 DEF Values
<1>4. CASE operand2 \in ByIndex
  <2>1. PICK by \in {<<"LSL", 0>>, <<"LSL", 1>>, <<"ASR", 1>>, <<"ROR", 0>>} :
          operand2 = [Reg(3) EXCEPT !.type = by[1], !.amount = by[2]]
    BY <1>4 DEF ByIndex
  <2> DEFINE n == operand2.amount
             byRegister == operand2.kind = "by_register"
             x == Wrap(registers[operand2.rm] + 0)
  <2>2. /\ operand2 \in ShiftedByValue /\ operand2.kind = "by_value" /\ operand2.rm = 3
        /\ operand2.type \in ShiftType /\ n \in 0 .. WordBits - 1
        /\ operand2.type = "ROR" => n = 0
    <3>1. by[1] \in ShiftType /\ by[2] \in {0, 1} /\ (by[1] = "ROR" => by[2] = 0)
      BY <2>1 DEF ShiftType
    <3>2. operand2 = [kind |-> "by_value", type |-> by[1], rm |-> 3, amount |-> by[2]]
      BY <2>1 DEF Reg
    <3>3. by[2] \in 0 .. WordBits - 1
      BY <1>1, <3>1
    <3> HIDE <2>1
    <3> QED
      BY <3>1, <3>2, <3>3 DEF ShiftedByValue, Register
  <2>3. byRegister \in BOOLEAN /\ ~byRegister
    BY <2>2
  <2>4. shift(operand2) \in {{LogicalLeft(x, n)}, {LogicalRight(x, n)},
                             {ArithmeticRight(x, n)}, RotateRight(x, n, byRegister)}
    BY <2>2, <2>3 DEF shift, ShiftType, PC
  <2>5. \E shifted : RotateRight(x, n, byRegister) = {shifted}
    BY <2>2, <2>3, OneRotation
  <2> HIDE DEF x, n
  <2>6. PICK shifted : shift(operand2) = {shifted}
    BY <2>4, <2>5
  <2>7. Operand2(operand2) = {shifted} /\ shifted.value \in Word
    BY <1>2, <2>2, <2>6, Operand2Type DEF Operand2, ShiftResult
  <2>8. Offsets(t) = {shifted.value}
    BY <2>2, <2>6 DEF Offsets, OffsetOf
  <2> QED
    BY <2>7, <2>8 DEF Values
<1> QED
  BY <1>3, <1>4

\* It depends on the index register and the flags only.
LEMMA IndexStays ==
  ASSUME NEW operand2 \in ByDistance \cup ByIndex, registers'[3] = registers[3], cpsr' = cpsr
  PROVE  Values(operand2)' = Values(operand2)
<1>1. CASE operand2 \in ByDistance
  <2>1. operand2.kind = "immediate"
    BY <1>1 DEF ByDistance, Imm
  <2>2. rotate(operand2)' = rotate(operand2)
    BY DEF rotate
  <2> QED
    BY <2>1, <2>2 DEF Values, Operand2
<1>2. CASE operand2 \in ByIndex
  <2>1. operand2.kind = "by_value" /\ operand2.rm = 3
    BY <1>2 DEF ByIndex, Reg
  <2>2. \A a, n : /\ LogicalLeft(a, n)' = LogicalLeft(a, n)
    BY DEF LogicalLeft
  <2>3. \A a, n, byRegister : RotateRight(a, n, byRegister)' = RotateRight(a, n, byRegister)
    BY DEF RotateRight
  <2>4. shift(operand2)' = shift(operand2)
    BY <2>1, <2>2, <2>3 DEF shift, PC
  <2> QED
    BY <2>1, <2>4 DEF Values, Operand2
<1> QED
  BY <1>1, <1>2

\* Where a transfer whose base is x and whose distance is d leaves its base,
\* which bytes it moves, and what a memory holds there.
NewBase(t, x, d) == Wrap(IF t.u THEN x + d ELSE x - d)
Where(t, x, d) == IF t.p THEN NewBase(t, x, d) ELSE x
Reach(t, a) == Bytes(a, IF t.b THEN 1 ELSE 4)
Seen(t, bytes, a) == IF t.b THEN bytes[a] ELSE WordIn(bytes, a)

\* What the transfer leaves in the base, in the register it loads and in the
\* bytes it stores.
HasMoved(t, x, d) ==
  LET seen == Seen(t, ram, Where(t, x, d))
      stored == IF t.rd = 1 THEN x ELSE registers[2]
  IN  /\ registers[1] = IF t.w \/ ~t.p THEN NewBase(t, x, d)
                        ELSE IF t.load /\ t.rd = 1 THEN seen ELSE x
      /\ t.load /\ t.rd = 2 => registers[2] = seen
      /\ ~t.load => seen = IF t.b THEN stored % ByteModulus ELSE stored

\* The rest of the program leaves that as it is.
LEMMA MovedStays ==
  ASSUME NEW t, NEW x, NEW d, HasMoved(t, x, d), ram' = ram,
         registers'[1] = registers[1], registers'[2] = registers[2]
  PROVE  HasMoved(t, x, d)'
<1>1. Seen(t, ram, Where(t, x, d))' = Seen(t, ram, Where(t, x, d))
  BY DEF Seen, Where, NewBase
<1> QED
  BY <1>1 DEF HasMoved

\* What holds of the k instructions behind.
StepsAfter(t, x, d, k) ==
  /\ registers[7] = x
  /\ registers[5] = IF k < (IF t.p THEN 2 ELSE 3) THEN x ELSE NewBase(t, x, d)
  /\ IF k >= 1 THEN HasMoved(t, x, d) ELSE registers[1] = x
  /\ k >= (IF t.p THEN 3 ELSE 2) => registers[6] = Seen(t, ram, Where(t, x, d))
  /\ \A a \in Ram : ram[a] = Pattern(a) \/ (k >= 1 /\ ~t.load /\ a \in Reach(t, Where(t, x, d)))

\* Adding or subtracting the distance.
LEMMA IndexStep ==
  ASSUME IInv, Evaluate, phase = "evaluate", NEW t, t.u \in BOOLEAN, NEW operand2, NEW d,
         instruction = Index(t.u, operand2), Values(operand2) = {d}
  PROVE  /\ registers' = [registers EXCEPT ![5] = NewBase(t, registers[5], d)]
         /\ Complete /\ UNCHANGED <<memory, instruction, block, cpsr>>
<1> DEFINE opcode == IF t.u THEN "ADD" ELSE "SUB"
<1>1. /\ instruction.condition = "AL" /\ instruction.format = "data_processing"
      /\ ~instruction.s /\ instruction.opcode = opcode /\ instruction.operand2 = operand2
      /\ instruction.rn = 5 /\ instruction.rd = 5
  BY DEF Index, Alu
<1>2. dataProcessingEval
  BY <1>1, AlwaysHandled
<1>3. Operand1(5) = registers[5]
  <2>1. registers[5] \in Word
    BY Parts DEF Machine, Register
  <2>2. registers[5] + 0 = registers[5]
    BY <2>1, ModulusFacts DEF Word
  <2> QED
    BY <2>1, <2>2, WrapWord DEF Operand1, PC
<1>4. opcode \notin Tests /\ opcode \in {"ADD", "SUB"}
  BY DEF Tests
<1>5. PICK shifted \in Operand2(operand2) :
        /\ registers' = [registers EXCEPT ![5] = Result(opcode, 5, registers[5], shifted.value)]
        /\ cpsr' = cpsr
  <2> HIDE DEF opcode
  <2>1. PICK shifted \in Operand2(operand2) :
          /\ registers' = IF opcode \in Tests THEN registers
                          ELSE [registers EXCEPT
                                  ![5] = Result(opcode, 5, Operand1(5), shifted.value)]
          /\ ~instruction.s => cpsr' = cpsr
    BY <1>1, <1>2 DEF dataProcessingEval
  <2> QED
    BY <1>1, <1>3, <1>4, <2>1
<1>6. shifted.value = d
  BY <1>5 DEF Values
<1>7. Result(opcode, 5, registers[5], d) = NewBase(t, registers[5], d)
  <2>1. CASE t.u
    BY <2>1 DEF Result, NewBase
  <2>2. CASE ~t.u
    BY <2>2 DEF Result, NewBase
  <2> QED
    BY <2>1, <2>2
<1>8. Complete /\ UNCHANGED <<memory, instruction, block>>
  BY <1>2 DEF dataProcessingEval
<1> HIDE DEF opcode
<1> QED
  BY <1>5, <1>6, <1>7, <1>8

\* A load from the address in r5.
LEMMA PlainStep ==
  ASSUME IInv, Evaluate, phase = "evaluate", NEW t, t.b \in BOOLEAN, instruction = Plain(t.b)
  PROVE  /\ UNCHANGED <<cpsr, code, programSize, instruction, block>>
         /\ \/ /\ registers' = [registers EXCEPT ![6] = Seen(t, ram, registers[5])]
               /\ ram' = ram /\ Complete
            \/ phase' \in Lost
<1> DEFINE s == instruction
<1>1. /\ s.condition = "AL" /\ s.format = "single_data_transfer"
      /\ s.load /\ s.b = t.b /\ s.p /\ s.u /\ ~s.w
      /\ s.rn = 5 /\ s.rd = 6 /\ s.offset = [kind |-> "distance", value |-> 0]
  BY DEF Plain, Transfer
<1>2. Offsets(s) = {0}
  BY <1>1 DEF Offsets
<1>3. /\ UNCHANGED <<cpsr, code, programSize, instruction, block>>
      /\ \/ /\ Data(Touched(s, 0))
            /\ Load(s, 0) \/ Store(s, 0)
            /\ Complete
         \/ phase' \in Lost /\ UNCHANGED <<registers, ram>>
  <2> HIDE DEF s
  <2>1. s = instruction
    BY DEF s
  <2> QED
    BY <1>1, <1>2, <2>1, SingleStep
<1>4. Address(s, 0) = registers[5]
  <2>1. registers[5] \in Word
    BY Parts DEF Machine, Register
  <2>2. registers[5] + 0 = registers[5]
    BY <2>1, ModulusFacts DEF Word
  <2>3. Base(s) = registers[5]
    BY <1>1, <2>1, <2>2, WrapWord DEF Base, PC
  <2> QED
    BY <1>1, <2>2, <2>3 DEF Address, Indexed
<1>5. ASSUME Load(s, 0)
      PROVE  registers' = [registers EXCEPT ![6] = Seen(t, ram, registers[5])] /\ ram' = ram
  BY <1>1, <1>4, <1>5 DEF Load, WriteBack, Seen, WordAt
<1>6. ~Store(s, 0)
  BY <1>1 DEF Store
<1> QED
  BY <1>3, <1>5, <1>6

\* The transfer itself: it has moved the bytes at its address.
LEMMA MovedStep ==
  ASSUME IInv, Evaluate, phase = "evaluate", NEW program, NEW t, NEW operand2, NEW x \in Word,
         NEW d \in Word, Steps(program, t, operand2), instruction = t, Offsets(t) = {d},
         WordBits = 4 * ByteBits, StepsAfter(t, x, d, 0)
  PROVE  /\ UNCHANGED <<cpsr, code, programSize, instruction, block>>
         /\ \/ StepsAfter(t, x, d, 1)' /\ Complete
               /\ registers'[3] = registers[3] /\ registers'[PC] = registers[PC]
            \/ phase' \in Lost
<1>1. /\ t.condition = "AL" /\ t.format = "single_data_transfer"
      /\ t.load \in BOOLEAN /\ t.b \in BOOLEAN /\ t.p \in BOOLEAN /\ t.u \in BOOLEAN
      /\ t.w \in BOOLEAN /\ t.rn = 1 /\ t.rd \in {1, 2}
  BY DEF Steps
<1>2. /\ UNCHANGED <<cpsr, code, programSize, instruction, block>>
      /\ \/ /\ Data(Touched(t, d))
            /\ Load(t, d) \/ Store(t, d)
            /\ Complete
         \/ phase' \in Lost /\ UNCHANGED <<registers, ram>>
  BY <1>1, SingleStep
<1>3. /\ registers \in [Register -> Word] /\ ram \in [Ram -> Byte]
      /\ 1 \in Register /\ 2 \in Register /\ 3 \in Register /\ 5 \in Register /\ 7 \in Register
      /\ PC \in Register /\ PC \notin {1, 2}
  BY Parts DEF Machine, Register, PC
<1>4. registers[1] = x /\ registers[5] = x /\ registers[7] = x
  BY <1>1 DEF StepsAfter
<1>5. Base(t) = x
  <2>1. x + 0 = x
    BY WordRange
  <2> QED
    BY <1>1, <1>4, <2>1, WrapWord DEF Base, PC
<1>6. Wrap(Indexed(t, d)) = NewBase(t, x, d)
  BY <1>1, <1>5 DEF Indexed, NewBase
<1> DEFINE a == Where(t, x, d)
           stored == IF t.rd = 1 THEN x ELSE registers[2]
<1>7. Stored(t) = stored /\ stored \in Word /\ stored = registers[t.rd]
  <2>1. registers[t.rd] = stored /\ stored \in Word
    BY <1>1, <1>3, <1>4
  <2> HIDE DEF stored
  <2>2. stored + 0 = stored
    BY <2>1, ModulusFacts DEF Word
  <2> QED
    BY <1>1, <2>1, <2>2, WrapWord DEF Stored, PC
<1>8. ASSUME Data(Touched(t, d))
      PROVE  Address(t, d) = a /\ a \in Int /\ Reach(t, a) \subseteq Ram /\ a \in Ram
  <2>1. Address(t, d) \in Int
    BY <1>1, <1>5, WordRange DEF Address, Indexed
  <2>2. Touched(t, d) \subseteq Ram /\ Address(t, d) \in Touched(t, d)
    BY <1>1, <1>8, <2>1 DEF Data, Touched, Bytes
  <2>3. Address(t, d) \in Word
    BY <2>2, MemSizeAssumption, ModulusFacts DEF Ram, Word
  <2>4. Address(t, d) = a
    BY <1>1, <1>5, <1>6, <2>3, WrapWord DEF Address, Where
  <2> QED
    BY <2>1, <2>2, <2>4 DEF Touched, Reach
<1>9. ASSUME Data(Touched(t, d)), Load(t, d)
      PROVE  /\ StepsAfter(t, x, d, 1)'
             /\ registers'[3] = registers[3] /\ registers'[PC] = registers[PC]
  <2> DEFINE value == Seen(t, ram, a)
  <2>1. /\ t.load /\ ram' = ram
        /\ registers' = IF t.w \/ ~t.p
                        THEN [[registers EXCEPT ![t.rd] = value] EXCEPT ![1] = NewBase(t, x, d)]
                        ELSE [registers EXCEPT ![t.rd] = value]
    BY <1>1, <1>6, <1>8, <1>9 DEF Load, WriteBack, Seen, WordAt
  <2> HIDE DEF value
  <2>2. /\ registers'[7] = x /\ registers'[5] = x
        /\ t.rd = 2 => registers'[2] = value
        /\ registers'[1] = IF t.w \/ ~t.p THEN NewBase(t, x, d)
                           ELSE IF t.rd = 1 THEN value ELSE x
        /\ registers'[3] = registers[3] /\ registers'[PC] = registers[PC]
    BY <1>1, <1>3, <1>4, <2>1
  <2>3. \A b \in Ram : ram[b] = Pattern(b)
    BY DEF StepsAfter
  <2>4. Seen(t, ram', a) = value
    BY <2>1 DEF value
  <2>5. HasMoved(t, x, d)'
    BY <1>1, <2>1, <2>2, <2>4 DEF HasMoved
  <2> QED
    BY <1>1, <2>1, <2>2, <2>3, <2>5 DEF StepsAfter
<1>10. ASSUME Data(Touched(t, d)), Store(t, d)
       PROVE  /\ StepsAfter(t, x, d, 1)'
              /\ registers'[3] = registers[3] /\ registers'[PC] = registers[PC]
  <2> HIDE DEF stored
  <2>1. /\ ~t.load
        /\ ram' = AfterStore(ram, a, IF t.b THEN 1 ELSE 4, stored)
        /\ registers' = IF t.w \/ ~t.p THEN [registers EXCEPT ![1] = NewBase(t, x, d)]
                        ELSE registers
    BY <1>1, <1>6, <1>7, <1>8, <1>10 DEF Store, WriteBack, StoreBytes
  <2>2. /\ registers'[7] = x /\ registers'[5] = x /\ registers'[2] = registers[2]
        /\ registers'[1] = IF t.w \/ ~t.p THEN NewBase(t, x, d) ELSE x
        /\ registers'[3] = registers[3] /\ registers'[PC] = registers[PC]
    BY <1>1, <1>3, <1>4, <2>1
  <2>3. \A b \in Ram : ram'[b] = Pattern(b) \/ b \in Reach(t, a)
    <3>1. \A b \in Ram : ram[b] = Pattern(b)
      BY DEF StepsAfter
    <3> QED
      BY <1>3, <2>1, <3>1 DEF AfterStore, Reach
  <2>4. Seen(t, ram', a) = IF t.b THEN stored % ByteModulus ELSE stored
    <3>1. CASE t.b
      <4>1. ram'[a] = ByteOf(stored, a - a) /\ a - a = 0
        BY <1>3, <1>8, <1>10, <2>1, <3>1 DEF AfterStore, Bytes
      <4>2. ByteOf(stored, 0) = stored % ByteModulus
        <5>1. stored \in Int /\ 0 * ByteBits = 0 /\ 2^0 = 1
          <6>1. 2^0 = 1
            OBVIOUS
          <6>2. 0 * ByteBits = 0
            BY ByteFacts
          <6> QED
            BY <1>7, <6>1, <6>2, WordRange
        <5>2. stored \div 1 = stored
          BY <5>1
        <5> QED
          BY <5>1, <5>2 DEF ByteOf, ShiftRight
      <4> QED
        BY <3>1, <4>1, <4>2 DEF Seen
    <3>2. CASE ~t.b
      <4>1. WordIn(AfterStore(ram, a, 4, stored), a) = stored
        <5>1. stored \in Word /\ Bytes(a, 4) \subseteq Ram /\ a \in Int
          BY <1>3, <1>7, <1>8, <1>10, <3>2 DEF Reach
        <5> HIDE DEF a
        <5> QED
          BY <1>3, <5>1, StoredWordsReadBack
      <4> QED
        BY <1>1, <2>1, <3>2, <4>1 DEF Seen
    <3> QED
      BY <1>1, <3>1, <3>2
  <2>5. HasMoved(t, x, d)'
    <3>1. stored = IF t.rd = 1 THEN x ELSE registers'[2]
      BY <2>2 DEF stored
    <3> QED
      BY <1>1, <2>1, <2>2, <2>4, <3>1 DEF HasMoved
  <2> QED
    BY <1>1, <2>1, <2>2, <2>3, <2>5 DEF StepsAfter
<1> QED
  BY <1>2, <1>9, <1>10

\* The invariant of such a program, from a base and a distance.
StepsInv(program, t, operand2, x, d) ==
  /\ IInv /\ Following(program)
  /\ phase \in {"fetch", "evaluate", "idle"} \cup Lost
  /\ phase \notin Lost =>
       /\ Values(operand2) = {d}
       /\ StepsAfter(t, x, d, IF phase = "idle" THEN 3 ELSE iter)

\* Fetching and coming back change nothing of it.
LEMMA StepsStay ==
  ASSUME NEW t, NEW x, NEW d, NEW k, StepsAfter(t, x, d, k), ram' = ram,
         \A r \in Register \ {PC} : registers'[r] = registers[r]
  PROVE  StepsAfter(t, x, d, k)'
<1>1. /\ registers'[1] = registers[1] /\ registers'[2] = registers[2]
      /\ registers'[5] = registers[5] /\ registers'[6] = registers[6]
      /\ registers'[7] = registers[7]
  BY DEF Register, PC
<1>2. HasMoved(t, x, d) => HasMoved(t, x, d)'
  BY <1>1, MovedStays
<1> QED
  BY <1>1, <1>2 DEF StepsAfter

\* An evaluation takes it one instruction further.
LEMMA StepsGo ==
  ASSUME NEW program, NEW t, NEW operand2, NEW x \in Word, NEW d \in Word,
         Steps(program, t, operand2), StepsInv(program, t, operand2, x, d),
         WordBits = 4 * ByteBits, phase = "evaluate", Evaluate, NEW k \in Nat, k = iter + 1
  PROVE  \/ /\ StepsAfter(t, x, d, k)' /\ Complete /\ code' = code
            /\ registers'[3] = registers[3] /\ registers'[PC] = registers[PC] /\ cpsr' = cpsr
         \/ phase' \in Lost /\ code' = code
<1>1. /\ IInv /\ Following(program) /\ Values(operand2) = {d} /\ StepsAfter(t, x, d, iter)
      /\ instruction = program[iter + 1]
  BY DEF StepsInv, Lost, Following
<1>2. /\ Len(program) = 3 /\ t.p \in BOOLEAN /\ t.u \in BOOLEAN /\ t.b \in BOOLEAN
      /\ t.load \in BOOLEAN /\ t.w \in BOOLEAN
      /\ operand2 \in ByDistance \cup ByIndex /\ t.offset = OffsetOf(operand2)
      /\ program[1] = t
      /\ program[IF t.p THEN 2 ELSE 3] = Index(t.u, operand2)
      /\ program[IF t.p THEN 3 ELSE 2] = Plain(t.b)
  BY DEF Steps
<1>3. iter \in 0 .. 2 /\ 12 <= MemSize
  BY <1>1, <1>2, Parts, MemSizeAssumption DEF Control, RunInv, Following, Inside
<1>4. /\ registers \in [Register -> Word]
      /\ 1 \in Register /\ 2 \in Register /\ 3 \in Register /\ 5 \in Register
      /\ 6 \in Register /\ 7 \in Register /\ PC \in Register /\ PC \notin {5, 6}
  BY <1>1, Parts DEF Machine, Register, PC
<1>5. CASE iter = 0
  <2>1. Offsets(t) = {d} /\ instruction = t
    BY <1>1, <1>2, <1>3, <1>5, OneIndex
  <2>2. StepsAfter(t, x, d, 0)
    BY <1>1, <1>5
  <2>3. \/ StepsAfter(t, x, d, 1)' /\ Complete
           /\ registers'[3] = registers[3] /\ registers'[PC] = registers[PC]
        \/ phase' \in Lost
    BY <1>1, <2>1, <2>2, MovedStep
  <2>4. UNCHANGED <<cpsr, code>>
    BY <1>1, <2>1, <2>2, MovedStep
  <2> QED
    BY <1>3, <1>5, <2>3, <2>4
<1>6. CASE iter # 0 /\ (t.p <=> iter = 1)
  <2>1. instruction = Index(t.u, operand2)
    BY <1>1, <1>2, <1>3, <1>6
  <2>2. /\ registers' = [registers EXCEPT ![5] = NewBase(t, registers[5], d)]
        /\ Complete /\ UNCHANGED <<ram, code, cpsr>>
    <3>1. IInv /\ Evaluate /\ t.u \in BOOLEAN /\ Values(operand2) = {d}
      BY <1>1, <1>2
    <3> QED
      BY <2>1, <3>1, IndexStep DEF memory
  <2>3. registers[5] = x
    BY <1>1, <1>2, <1>3, <1>6 DEF StepsAfter
  <2>4. /\ registers'[5] = NewBase(t, x, d)
        /\ registers'[1] = registers[1] /\ registers'[2] = registers[2]
        /\ registers'[3] = registers[3] /\ registers'[6] = registers[6]
        /\ registers'[7] = registers[7] /\ registers'[PC] = registers[PC]
    BY <1>4, <2>2, <2>3
  <2>5. StepsAfter(t, x, d, k)'
    <3> DEFINE seen == Seen(t, ram, Where(t, x, d))
    <3>1. /\ registers[7] = x /\ HasMoved(t, x, d)
          /\ iter >= (IF t.p THEN 3 ELSE 2) => registers[6] = seen
          /\ \A a \in Ram : ram[a] = Pattern(a) \/ (~t.load /\ a \in Reach(t, Where(t, x, d)))
      BY <1>1, <1>2, <1>3, <1>6 DEF StepsAfter
    <3>2. iter >= (IF t.p THEN 3 ELSE 2) <=> k >= (IF t.p THEN 3 ELSE 2)
      BY <1>2, <1>3, <1>6
    <3>3. ~(k < (IF t.p THEN 2 ELSE 3)) /\ k >= 1
      BY <1>2, <1>3, <1>6
    <3> HIDE DEF seen
    <3>4. registers'[7] = x /\ registers'[5] = NewBase(t, x, d)
      BY <2>4, <3>1
    <3>5. Seen(t, ram', Where(t, x, d)) = seen
      BY <2>2 DEF seen
    <3>6. HasMoved(t, x, d)'
      BY <2>2, <2>4, <3>1, MovedStays
    <3>7. k >= (IF t.p THEN 3 ELSE 2) => registers'[6] = seen
      BY <2>4, <3>1, <3>2
    <3>8. \A a \in Ram : ram'[a] = Pattern(a) \/ (~t.load /\ a \in Reach(t, Where(t, x, d)))
      BY <2>2, <3>1
    <3> QED
      BY <1>3, <1>6, <2>2, <3>1, <3>3, <3>4, <3>5, <3>6, <3>7, <3>8
         DEF StepsAfter, Complete
  <2> QED
    BY <2>2, <2>4, <2>5
<1>7. CASE iter # 0 /\ ~(t.p <=> iter = 1)
  <2>1. instruction = Plain(t.b)
    BY <1>1, <1>2, <1>3, <1>7
  <2>2. /\ UNCHANGED <<cpsr, code>>
        /\ \/ /\ registers' = [registers EXCEPT ![6] = Seen(t, ram, registers[5])]
              /\ ram' = ram /\ Complete
           \/ phase' \in Lost
    BY <1>1, <1>2, <2>1, PlainStep
  <2> SUFFICES ASSUME registers' = [registers EXCEPT ![6] = Seen(t, ram, registers[5])],
                      ram' = ram, Complete
               PROVE  /\ StepsAfter(t, x, d, k)'
                      /\ registers'[3] = registers[3] /\ registers'[PC] = registers[PC]
    BY <2>2
  <2>3. registers[5] = Where(t, x, d)
    BY <1>1, <1>2, <1>3, <1>7 DEF StepsAfter, Where
  <2>4. /\ registers'[6] = Seen(t, ram, Where(t, x, d))
        /\ registers'[1] = registers[1] /\ registers'[2] = registers[2]
        /\ registers'[3] = registers[3] /\ registers'[5] = registers[5]
        /\ registers'[7] = registers[7] /\ registers'[PC] = registers[PC]
    BY <1>4, <2>3
  <2>5. StepsAfter(t, x, d, k)'
    <3> DEFINE seen == Seen(t, ram, Where(t, x, d))
    <3>1. /\ registers[7] = x /\ HasMoved(t, x, d)
          /\ registers[5] = IF iter < (IF t.p THEN 2 ELSE 3) THEN x ELSE NewBase(t, x, d)
          /\ \A a \in Ram : ram[a] = Pattern(a) \/ (~t.load /\ a \in Reach(t, Where(t, x, d)))
      BY <1>1, <1>2, <1>3, <1>7 DEF StepsAfter
    <3>2. iter < (IF t.p THEN 2 ELSE 3) <=> k < (IF t.p THEN 2 ELSE 3)
      BY <1>2, <1>3, <1>7
    <3>3. k >= 1
      BY <1>3
    <3> HIDE DEF seen
    <3>4. Seen(t, ram', Where(t, x, d)) = seen /\ registers'[6] = seen
      BY <2>4 DEF seen
    <3>5. HasMoved(t, x, d)'
      BY <2>4, <3>1, MovedStays
    <3>6. \A a \in Ram : ram'[a] = Pattern(a) \/ (~t.load /\ a \in Reach(t, Where(t, x, d)))
      BY <3>1
    <3>7. registers'[5] = IF k < (IF t.p THEN 2 ELSE 3) THEN x ELSE NewBase(t, x, d)
      BY <2>4, <3>1, <3>2
    <3> QED
      BY <2>4, <3>1, <3>3, <3>4, <3>5, <3>6, <3>7 DEF StepsAfter
  <2> QED
    BY <2>4, <2>5
<1> QED
  BY <1>5, <1>6, <1>7

\* The invariant of a transfer next to its steps.
LEMMA StepsStep ==
  ASSUME NEW program, NEW t, NEW operand2, NEW x \in Word, NEW d \in Word,
         Steps(program, t, operand2), WordBits = 4 * ByteBits,
         StepsInv(program, t, operand2, x, d), [Turn]_vars
  PROVE  StepsInv(program, t, operand2, x, d)'
<1>1. /\ Len(program) = 3 /\ Len(program) \in Nat \ {0} /\ DOMAIN program = 1 .. Len(program)
      /\ operand2 \in ByDistance \cup ByIndex
  BY DEF Steps
<1>2. IInv /\ Following(program)
  BY DEF StepsInv
<1>3. /\ IInv'
      /\ \/ UNCHANGED vars /\ Following(program)'
         \/ Fetches(program) /\ Following(program)'
         \/ ComesBack(program) /\ Following(program)'
         \/ phase \in {"evaluate", "transfer"} /\ Evaluate
  BY <1>1, <1>2, ProgramStep
<1>4. /\ 3 \in Register \ {PC} /\ registers \in [Register -> Word] /\ iter \in Nat
  BY <1>2, Parts DEF Machine, Control, Register, PC
<1>5. CASE UNCHANGED vars /\ Following(program)'
  <2>1. Values(operand2)' = Values(operand2)
    BY <1>1, <1>5, IndexStays DEF vars
  <2>2. ASSUME NEW k, StepsAfter(t, x, d, k) PROVE StepsAfter(t, x, d, k)'
    BY <1>5, <2>2, StepsStay DEF vars, memory
  <2> QED
    BY <1>3, <1>5, <2>1, <2>2 DEF StepsInv, vars, run
<1>6. CASE Fetches(program) /\ Following(program)'
  <2>1. \A r \in Register \ {PC} : registers'[r] = registers[r]
    BY <1>4, <1>6 DEF Fetches
  <2>2. /\ phase' = "evaluate" /\ phase = "fetch" /\ iter' = iter /\ cpsr' = cpsr /\ ram' = ram
    BY <1>6 DEF Fetches
  <2>3. Values(operand2) = {d} /\ StepsAfter(t, x, d, iter)
    BY <2>2 DEF StepsInv, Lost
  <2>4. Values(operand2)' = {d}
    BY <1>1, <1>4, <2>1, <2>2, <2>3, IndexStays
  <2>5. \A k : StepsAfter(t, x, d, k) => StepsAfter(t, x, d, k)'
    BY <2>1, <2>2, StepsStay
  <2>6. \A k : StepsAfter(t, x, d, k) /\ k = iter' => StepsAfter(t, x, d, iter)'
    BY <2>5
  <2> QED
    BY <1>3, <1>6, <2>2, <2>3, <2>4, <2>6 DEF StepsInv, Lost
<1>7. CASE ComesBack(program) /\ Following(program)'
  <2>1. \A r \in Register \ {PC} : registers'[r] = registers[r]
    BY <1>7 DEF ComesBack
  <2>2. /\ phase' = "idle" /\ phase = "fetch" /\ iter = 3 /\ cpsr' = cpsr /\ ram' = ram
    BY <1>1, <1>7 DEF ComesBack
  <2>3. Values(operand2) = {d} /\ StepsAfter(t, x, d, 3)
    BY <2>2 DEF StepsInv, Lost
  <2>4. Values(operand2)' = {d}
    BY <1>1, <1>4, <2>1, <2>2, <2>3, IndexStays
  <2>5. StepsAfter(t, x, d, 3)'
    BY <2>1, <2>2, <2>3, StepsStay
  <2> QED
    BY <1>3, <1>7, <2>2, <2>4, <2>5 DEF StepsInv, Lost
<1>8. CASE phase \in {"evaluate", "transfer"} /\ Evaluate
  <2>1. phase = "evaluate" /\ Evaluate /\ Values(operand2) = {d}
    BY <1>8 DEF StepsInv, Lost
  <2> DEFINE k == iter + 1
  <2>2. k \in Nat
    BY <1>4
  <2>3. ASSUME NEW m \in Nat, m = iter + 1
        PROVE  \/ /\ StepsAfter(t, x, d, m)' /\ Complete /\ code' = code
                  /\ registers'[3] = registers[3] /\ registers'[PC] = registers[PC]
                  /\ cpsr' = cpsr
               \/ phase' \in Lost /\ code' = code
    BY <2>1, <2>3, StepsGo
  <2>4. CASE phase' \in Lost /\ code' = code
    <3>1. Following(program)'
      BY <1>2, <2>4, LostFollows
    <3> QED
      BY <1>3, <2>4, <3>1 DEF StepsInv
  <2>5. CASE ~(phase' \in Lost /\ code' = code)
    <3>1. /\ Complete /\ code' = code
          /\ registers'[3] = registers[3] /\ registers'[PC] = registers[PC] /\ cpsr' = cpsr
      BY <2>2, <2>3, <2>5
    <3>2. Following(program)' /\ phase' = "fetch" /\ iter' = iter + 1
      BY <1>1, <1>2, <2>1, <3>1, HandlerFollows
    <3>3. ASSUME NEW m \in Nat, m = iter' PROVE StepsAfter(t, x, d, m)'
      BY <2>3, <2>5, <3>2, <3>3
    <3>4. iter' \in Nat
      BY <2>2, <3>2
    <3>5. StepsAfter(t, x, d, iter)'
      BY <3>3, <3>4 DEF StepsAfter
    <3>6. Values(operand2)' = {d}
      BY <1>1, <2>1, <3>1, IndexStays
    <3> QED
      BY <1>3, <3>2, <3>5, <3>6 DEF StepsInv, Lost
  <2> QED
    BY <2>4, <2>5
<1> QED
  BY <1>3, <1>5, <1>6, <1>7, <1>8

(***************************************************************************)
(* The sixteen arms of singleDataTranferEval() agree with one another: a   *)
(* word or byte transfer that comes back moved the bytes its P and U bits  *)
(* and its offset ask for, changed no others, and moved the base if and    *)
(* only if it is post-indexed or asks for it, after a load into that base  *)
(* and after its own value was stored; at every width of a word and from   *)
(* every base, index, stored word and flags.                               *)
(***************************************************************************)
THEOREM TransfersTakeSteps ==
  ASSUME NEW program \in WordPrograms, WordBits = 4 * ByteBits
  PROVE  /\ Begins(program)
         /\ registers[5] = registers[1] /\ registers[7] = registers[1]
         /\ ram = [a \in Ram |-> Pattern(a)]
         /\ [][Turn]_vars
         => []TransferInSteps
<1>1. PICK t, operand2 : Steps(program, t, operand2)
  BY StepsOfProgram
<1>2. /\ Len(program) = 3 /\ Len(program) \in Nat /\ DOMAIN program = 1 .. Len(program)
      /\ operand2 \in ByDistance \cup ByIndex /\ t.offset = OffsetOf(operand2)
      /\ program[1] = t /\ t.rn = 1 /\ t.rd \in {1, 2}
      /\ t.load \in BOOLEAN /\ t.b \in BOOLEAN /\ t.p \in BOOLEAN /\ t.u \in BOOLEAN
      /\ t.w \in BOOLEAN
  BY <1>1 DEF Steps
<1> DEFINE I == \E x \in Word, d \in Word : StepsInv(program, t, operand2, x, d)
           Initially == /\ Begins(program)
                        /\ registers[5] = registers[1] /\ registers[7] = registers[1]
                        /\ ram = [a \in Ram |-> Pattern(a)]
<1>3. Initially => I
  <2> SUFFICES ASSUME Initially PROVE I
    OBVIOUS
  <2>1. IInv /\ Following(program) /\ phase = "fetch" /\ iter = 0
    BY <1>2, BeginFollows
  <2>2. 12 <= MemSize
    BY <1>2, <2>1, MemSizeAssumption DEF Following
  <2>3. PICK d \in Word : Values(operand2) = {d}
    BY <1>2, <2>1, <2>2, OneIndex
  <2>4. registers[1] \in Word
    BY <2>1, Parts DEF Machine, Register
  <2>5. StepsAfter(t, registers[1], d, 0)
    BY <1>2 DEF StepsAfter
  <2>6. StepsInv(program, t, operand2, registers[1], d)
    BY <2>1, <2>3, <2>5 DEF StepsInv
  <2> QED
    BY <2>4, <2>6
<1>4. I /\ [Turn]_vars => I'
  <2> SUFFICES ASSUME NEW x \in Word, NEW d \in Word, StepsInv(program, t, operand2, x, d),
                      [Turn]_vars
               PROVE  I'
    OBVIOUS
  <2>1. StepsInv(program, t, operand2, x, d)'
    BY <1>1, StepsStep
  <2> QED
    BY <2>1
<1>5. I => TransferInSteps
  <2> SUFFICES ASSUME NEW x \in Word, NEW d \in Word, StepsInv(program, t, operand2, x, d),
                      phase = "idle"
               PROVE  TransferInSteps
    BY DEF TransferInSteps
  <2>1. IInv /\ Following(program) /\ StepsAfter(t, x, d, 3)
    BY DEF StepsInv, Lost
  <2>2. code[0] = t
    <3>1. 0 \in 0 .. Len(program) - 1 /\ 4 * 0 = 0 /\ 0 + 1 = 1
      BY <1>2
    <3>2. Len(program) \in Nat /\ DOMAIN program = 1 .. Len(program) /\ program[1] = t
      BY <1>2
    <3>3. code = CodeOf(program)
      BY <2>1 DEF Following
    <3> QED
      BY <3>1, <3>2, <3>3, CodeOfProgram
  <2>3. /\ registers[7] = x /\ registers[5] = NewBase(t, x, d)
        /\ HasMoved(t, x, d) /\ registers[6] = Seen(t, ram, Where(t, x, d))
        /\ Where(t, x, d) = IF t.p THEN registers[5] ELSE registers[7]
        /\ \A a \in Ram : ram[a] = Pattern(a) \/ (~t.load /\ a \in Reach(t, Where(t, x, d)))
    BY <1>2, <2>1 DEF StepsAfter, Where
  <2> QED
    BY <1>2, <2>2, <2>3 DEF TransferInSteps, HasMoved, Reach
<1> HIDE DEF I
<1> QED
  BY <1>3, <1>4, <1>5, PTL

-----------------------------------------------------------------------------
(* A store of a register list and the load that walks it back.             *)

\* The four instructions, in terms of the fields that count.
Trip(program, st, ld) ==
  /\ Len(program) = 4 /\ DOMAIN program = 1 .. 4
  /\ program[1] = st /\ program[4] = ld
  /\ program[2] = Mov(0, Imm(3)) /\ program[3] = Mov(14, Imm(2))
  /\ \A t \in {st, ld} :
       /\ t.format = "block_data_transfer" /\ t.condition = "AL" /\ t.w /\ ~t.s
       /\ t.rn = SP /\ t.u \in BOOLEAN /\ t.p \in BOOLEAN
  /\ ~st.l /\ ld.l /\ (ld.u <=> ~st.u) /\ (ld.p <=> ~st.p)
  /\ st.registerList \in SUBSET (Register \ {SP}) /\ ld.registerList = st.registerList

\* A round trip is of that form.
LEMMA TripOfRoundTrip ==
  ASSUME NEW p \in BOOLEAN, NEW u \in BOOLEAN, NEW list \in SUBSET (Register \ {SP})
  PROVE  Trip(RoundTrip(p, u, list), Block(FALSE, p, u, SP, list), Block(TRUE, ~p, ~u, SP, list))
<1> DEFINE st == Block(FALSE, p, u, SP, list)
           ld == Block(TRUE, ~p, ~u, SP, list)
<1>1. /\ st.format = "block_data_transfer" /\ st.condition = "AL" /\ st.w /\ ~st.s
      /\ st.rn = SP /\ st.u = u /\ st.p = p /\ ~st.l /\ st.registerList = list
  BY DEF Block
<1>2. /\ ld.format = "block_data_transfer" /\ ld.condition = "AL" /\ ld.w /\ ~ld.s
      /\ ld.rn = SP /\ ld.u = ~u /\ ld.p = ~p /\ ld.l /\ ld.registerList = list
  BY DEF Block
<1> HIDE DEF st, ld
<1>3. RoundTrip(p, u, list) = <<st, Mov(0, Imm(3)), Mov(14, Imm(2)), ld>>
  BY Zenon DEF RoundTrip, st, ld
<1>4. (ld.u <=> ~st.u) /\ (ld.p <=> ~st.p)
  BY <1>1, <1>2, Zenon
<1>5. ld.u \in BOOLEAN /\ ld.p \in BOOLEAN /\ st.u \in BOOLEAN /\ st.p \in BOOLEAN
  BY <1>1, <1>2, Zenon
<1>6. \A t \in {st, ld} :
        /\ t.format = "block_data_transfer" /\ t.condition = "AL" /\ t.w /\ ~t.s
        /\ t.rn = SP /\ t.u \in BOOLEAN /\ t.p \in BOOLEAN
  BY <1>1, <1>2, <1>5, Zenon
<1> DEFINE program == RoundTrip(p, u, list)
<1>7. /\ Len(program) = 4 /\ DOMAIN program = 1 .. 4
      /\ program[1] = st /\ program[4] = ld
      /\ program[2] = Mov(0, Imm(3)) /\ program[3] = Mov(14, Imm(2))
  BY <1>3
<1>8. st.registerList \in SUBSET (Register \ {SP}) /\ ld.registerList = st.registerList
  BY <1>1, <1>2
<1> HIDE DEF program
<1>9. Trip(program, st, ld)
  BY <1>1, <1>2, <1>4, <1>6, <1>7, <1>8, Zenon DEF Trip
<1> QED
  BY <1>9 DEF st, ld, program

\* What a listed register is given back: pc is stored as the address of the
\* store plus 12.
Restored(file, r) == IF r = PC THEN 12 ELSE file[r]

\* A register is in its slot of the run.
Laid(st, file, r) ==
  /\ Bytes(SlotOf(st, file[SP], r), 4) \subseteq Ram
  /\ WordAt(SlotOf(st, file[SP], r)) = Restored(file, r)

\* Before and during the store, during the load, and after it.
Storing(st, file) ==
  /\ \A r \in Register \ {PC} : registers[r] = file[r]
  /\ phase = "transfer" =>
       /\ registers[PC] = 4 /\ OriginalBase = file[SP]
       /\ \A r \in st.registerList \ Pending : Laid(st, file, r)
Saved(st, file) == \A r \in st.registerList : Laid(st, file, r)
Loading(st, file) ==
  /\ OriginalBase = BaseAfter(st, file[SP])
  /\ \A r \in st.registerList \ Pending : registers[r] = Restored(file, r)
  /\ PC \notin st.registerList \ Pending => registers[PC] = 16
TripDone(st, file) ==
  /\ \A r \in st.registerList : registers[r] = Restored(file, r)
  /\ registers[SP] = file[SP]
  /\ PC \notin st.registerList => registers[PC] = 16

\* The invariant of a round trip that began with the registers of a file.
TripInv(program, st, file) ==
  /\ BlockInv /\ Following(program)
  /\ phase \in {"fetch", "evaluate", "transfer", "idle"} \cup Lost
  /\ phase \in Inside /\ iter = 0 => Storing(st, file)
  /\ phase \in Inside /\ iter \in 1 .. 3 =>
       /\ Saved(st, file)
       /\ phase # "transfer" => registers[SP] = BaseAfter(st, file[SP])
       /\ phase = "transfer" => Loading(st, file)
  /\ phase = "idle" \/ (phase = "fetch" /\ iter = 4) => TripDone(st, file)

\* The end of the loop of a block transfer goes on with the program.
LEMMA EndFollows ==
  ASSUME NEW program, Len(program) \in Nat \ {0}, IInv, Following(program),
         phase = "transfer", Complete, code' = code,
         iter + 1 < Len(program) => registers'[PC] = 4 * (iter + 1)
  PROVE  Following(program)' /\ phase' = "fetch" /\ iter' = iter + 1 /\ iter < Len(program)
<1>1. limit = Len(program) /\ iter \in Nat /\ iter < limit
  BY Parts DEF Following, Inside, Control, RunInv
<1>2. iter' = iter + 1 /\ limit' = limit /\ phase' = "fetch"
  BY <1>1 DEF Complete
<1> QED
  BY <1>1, <1>2 DEF Following, Inside

\* A step of the loop is one of four.
LEMMA LoopSteps ==
  ASSUME Evaluate, phase = "transfer"
  PROVE  SkipRegister \/ TransferRegister \/ EscapeTransfer \/ EndTransfer
BY DEF Evaluate, SkipInstruction, AssertInstruction,
       dataProcessingEval, singleDataTranferEval, blockDataTransferEval, BeginTransfer,
       branchEval, branchAndExchangeEval, softwareInterruptEval, multiplyEval,
       multiplyLongEval, halfwordDataTransferImmediateOffEval,
       halfwordDataTransferRegisterOffEval, Executing

\* Beginning, skipping and moving a register go on with the instruction.
LEMMA LoopFollows ==
  ASSUME NEW program, Following(program), phase \in {"evaluate", "transfer"},
         phase' = "transfer", UNCHANGED <<code, instruction, run>>
  PROVE  Following(program)' /\ iter' = iter
BY DEF Following, Inside, run

\* One register less is pending.
LEMMA PendingStep ==
  ASSUME BlockInv, TransferRegister
  PROVE  /\ i \in instruction.registerList /\ Pending' = Pending \ {i}
         /\ instruction' = instruction
<1>1. /\ phase = "transfer" /\ i \in instruction.registerList /\ instruction' = instruction
      /\ i' = Advance(instruction, i)
  BY DEF TransferRegister
<1>2. instruction.registerList \in SUBSET Register /\ i \in Int
  BY <1>1, BlockFacts DEF BlockTransferInstruction
<1>3. \A r \in instruction.registerList :
        /\ r >= i + 1 <=> r >= i /\ r # i
        /\ r <= i - 1 <=> r <= i /\ r # i
  BY <1>2 DEF Register
<1> QED
  BY <1>1, <1>3 DEF Pending, Advance

\* A word stored elsewhere leaves this one.
LEMMA WordStays ==
  ASSUME NEW bytes \in [Ram -> Byte], NEW a \in Int, NEW b \in Int, NEW w,
         Bytes(b, 4) \subseteq Ram, Bytes(a, 4) \cap Bytes(b, 4) = {}
  PROVE  WordIn(AfterStore(bytes, a, 4, w), b) = WordIn(bytes, b)
<1>1. b \in Bytes(b, 4) /\ b + 1 \in Bytes(b, 4) /\ b + 2 \in Bytes(b, 4) /\ b + 3 \in Bytes(b, 4)
  BY DEF Bytes
<1>2. \A c \in Bytes(b, 4) : AfterStore(bytes, a, 4, w)[c] = bytes[c]
  BY DEF AfterStore
<1> QED
  BY <1>1, <1>2 DEF WordIn

\* What beginning, skipping and ending do to the base and to what is pending.
LEMMA LoopBase ==
  ASSUME BlockInv
  PROVE  /\ BeginTransfer => /\ OriginalBase' = registers[instruction.rn]
                             /\ Pending' = instruction.registerList
         /\ SkipRegister => OriginalBase' = OriginalBase /\ Pending' = Pending
         /\ EndTransfer => Pending = {}
<1>1. ASSUME BeginTransfer
      PROVE  /\ OriginalBase' = registers[instruction.rn]
             /\ Pending' = instruction.registerList
  <2>1. Transfers!Begin
    BY <1>1, BeginStep
  <2>2. phase' = "transfer" /\ instruction' = instruction
    BY <1>1 DEF BeginTransfer
  <2> QED
    BY <2>1, <2>2 DEF Transfers!Begin
<1>2. ASSUME SkipRegister PROVE OriginalBase' = OriginalBase /\ Pending' = Pending
  <2>1. UNCHANGED Transfers!transferVars
    BY <1>2, SkipStep
  <2>2. phase = "transfer" /\ phase' = "transfer"
    BY <1>2 DEF SkipRegister
  <2> QED
    BY <2>1, <2>2 DEF Transfers!transferVars
<1>3. ASSUME EndTransfer PROVE Pending = {}
  <2>1. Transfers!Finish
    BY <1>3, FinishStep
  <2>2. phase = "transfer"
    BY <1>3 DEF EndTransfer
  <2> QED
    BY <2>1, <2>2 DEF Transfers!Finish
<1> QED
  BY <1>1, <1>2, <1>3

\* A word that stays where it is in a memory that does not change.
LEMMA LaidStays ==
  ASSUME NEW st, NEW file, NEW r, ram' = ram
  PROVE  Laid(st, file, r)' <=> Laid(st, file, r)
BY DEF Laid, WordAt

\* A turn of the loop of the store.
LEMMA StoreTurn ==
  ASSUME NEW program, NEW st, NEW ld, NEW file \in [Register -> Word], Trip(program, st, ld),
         WordBits = 4 * ByteBits, 16 < MemSize, BlockInv', TripInv(program, st, file),
         phase = "transfer", iter = 0, Evaluate
  PROVE  TripInv(program, st, file)'
<1> DEFINE list == st.registerList
           base == file[SP]
<1>1. /\ BlockInv /\ Following(program) /\ Storing(st, file) /\ instruction = st
      /\ Len(program) = 4 /\ IInv
  BY DEF TripInv, Inside, Following, Trip, BlockInv
<1>2. /\ st.u \in BOOLEAN /\ st.p \in BOOLEAN /\ list \in SUBSET Register /\ SP \notin list
      /\ ~st.l /\ st.w /\ ~st.s /\ st.rn = SP
      /\ SP \in Register /\ SP # PC /\ PC \in Register /\ base \in Word /\ base \in Int
  <2>1. SP \in Register /\ SP # PC /\ PC \in Register
    BY DEF SP, PC, Register
  <2> QED
    BY <2>1, WordRange DEF Trip
<1>3. /\ registers[PC] = 4 /\ OriginalBase = base
      /\ \A r \in list \ Pending : Laid(st, file, r)
      /\ \A r \in Register \ {PC} : registers[r] = file[r]
  BY <1>1 DEF Storing
<1>4. /\ registers \in [Register -> Word] /\ ram \in [Ram -> Byte]
  BY <1>1, BlockFacts
<1>5. ASSUME SkipRegister PROVE TripInv(program, st, file)'
  <2>1. /\ UNCHANGED <<registers, ram, code, instruction, run>> /\ phase' = "transfer"
    BY <1>5 DEF SkipRegister, memory
  <2>2. Following(program)' /\ iter' = 0
    BY <1>1, <2>1, LoopFollows
  <2>3. OriginalBase' = OriginalBase /\ Pending' = Pending
    BY <1>1, <1>5, LoopBase
  <2>4. \A r \in list \ Pending' : Laid(st, file, r)'
    BY <1>3, <2>1, <2>3, LaidStays
  <2>5. Storing(st, file)'
    BY <1>3, <2>1, <2>3, <2>4 DEF Storing
  <2> QED
    BY <2>1, <2>2, <2>5 DEF TripInv
<1>6. ASSUME TransferRegister PROVE TripInv(program, st, file)'
  <2>1. /\ i \in list /\ Pending' = Pending \ {i} /\ OriginalBase' = OriginalBase
    BY <1>1, <1>6, PendingStep, BaseStays
  <2> DEFINE a == SlotOf(st, base, i)
  <2>2. Slot(st) = a
    BY <1>1, <1>3, <2>1, SlotOfLoop
  <2>3. /\ Bytes(a, 4) \subseteq Ram /\ registers' = registers
        /\ ram' = AfterStore(ram, a, 4, StoredRegister(i))
        /\ UNCHANGED <<code, instruction, run>> /\ phase' = "transfer"
    BY <1>1, <1>2, <1>6, <2>2 DEF TransferRegister, Data, StoreBytes
  <2>4. Following(program)' /\ iter' = 0
    BY <1>1, <2>3, LoopFollows
  <2>5. StoredRegister(i) = Restored(file, i) /\ StoredRegister(i) \in Word
    <3>1. 12 \in Word /\ 4 + 8 = 12
      BY MemSizeAssumption, ModulusFacts DEF Word
    <3>2. i = PC => StoredRegister(i) = 12
      BY <1>3, <3>1, WrapWord DEF StoredRegister
    <3>3. i # PC => StoredRegister(i) = file[i]
      BY <1>2, <1>3, <2>1 DEF StoredRegister
    <3> QED
      BY <1>2, <2>1, <3>1, <3>2, <3>3 DEF Restored
  <2>6. ASSUME NEW r \in list \ Pending' PROVE Laid(st, file, r)'
    <3>1. SlotOf(st, base, r) \in Int /\ a \in Int
      BY <1>2, <2>1, SlotType
    <3>2. CASE r = i
      <4>1. WordIn(AfterStore(ram, a, 4, StoredRegister(i)), a) = StoredRegister(i)
        <5> HIDE DEF a
        <5> QED
          BY <1>4, <2>3, <2>5, <3>1, StoredWordsReadBack
      <4> QED
        BY <2>3, <2>5, <3>2, <4>1 DEF Laid, WordAt
    <3>3. CASE r # i
      <4> DEFINE b == SlotOf(st, base, r)
      <4>1. Laid(st, file, r)
        BY <1>3, <2>1, <2>6, <3>3
      <4>2. Bytes(b, 4) \subseteq Ram /\ WordIn(ram, b) = Restored(file, r)
        BY <4>1 DEF Laid, WordAt
      <4>3. Bytes(a, 4) \cap Bytes(b, 4) = {}
        BY <1>2, <2>1, <2>6, <3>3, RunFits, SlotsApart
      <4>4. WordIn(AfterStore(ram, a, 4, StoredRegister(i)), b) = WordIn(ram, b)
        <5> HIDE DEF a, b
        <5> QED
          BY <1>4, <3>1, <4>2, <4>3, WordStays DEF b
      <4> QED
        BY <2>3, <4>2, <4>4 DEF Laid, WordAt
    <3> QED
      BY <3>2, <3>3
  <2>7. Storing(st, file)'
    BY <1>3, <2>1, <2>3, <2>6 DEF Storing
  <2> QED
    BY <2>3, <2>4, <2>7 DEF TripInv
<1>7. ASSUME EscapeTransfer PROVE TripInv(program, st, file)'
  <2>1. phase' \in Lost /\ code' = code
    BY <1>7 DEF EscapeTransfer, Escape, Lost, memory
  <2>2. Following(program)'
    BY <1>1, <2>1, LostFollows
  <2> QED
    BY <2>1, <2>2 DEF TripInv, Lost, Inside
<1>8. ASSUME EndTransfer PROVE TripInv(program, st, file)'
  <2>1. /\ registers' = [registers EXCEPT ![SP] = BaseAfter(st, base)]
        /\ Complete /\ code' = code /\ ram' = ram
    BY <1>1, <1>2, <1>3, <1>8, BaseOfEnd DEF EndTransfer, memory
  <2>2. registers'[PC] = 4 /\ registers'[SP] = BaseAfter(st, base)
    BY <1>2, <1>3, <1>4, <2>1
  <2>3. Following(program)' /\ phase' = "fetch" /\ iter' = 1
    <3>1. Len(program) \in Nat \ {0} /\ 4 * (iter + 1) = 4 /\ iter + 1 = 1
      BY <1>1
    <3> QED
      BY <1>1, <2>1, <2>2, <3>1, EndFollows
  <2>4. \A r \in list : Laid(st, file, r)'
    <3>1. Pending = {}
      BY <1>1, <1>8, LoopBase
    <3> QED
      BY <1>3, <2>1, <3>1, LaidStays
  <2>5. Saved(st, file)'
    BY <2>4 DEF Saved
  <2> QED
    BY <2>2, <2>3, <2>5 DEF TripInv
<1> QED
  BY <1>5, <1>6, <1>7, <1>8, LoopSteps

\* A turn of the loop of the load.
LEMMA LoadTurn ==
  ASSUME NEW program, NEW st, NEW ld, NEW file \in [Register -> Word], Trip(program, st, ld),
         BlockInv', TripInv(program, st, file), phase = "transfer", iter = 3, Evaluate
  PROVE  TripInv(program, st, file)'
<1> DEFINE list == st.registerList
           base == file[SP]
<1>1. /\ BlockInv /\ Following(program) /\ Saved(st, file) /\ Loading(st, file)
      /\ instruction = ld /\ Len(program) = 4 /\ IInv
  BY DEF TripInv, Inside, Following, Trip, BlockInv
<1>2. /\ st.u \in BOOLEAN /\ st.p \in BOOLEAN /\ list \in SUBSET Register /\ SP \notin list
      /\ ld.u \in BOOLEAN /\ ld.p \in BOOLEAN /\ (ld.u <=> ~st.u) /\ (ld.p <=> ~st.p)
      /\ ld.registerList = list /\ ld.l /\ ld.w /\ ~ld.s /\ ld.rn = SP
      /\ SP \in Register /\ SP # PC /\ PC \in Register /\ base \in Word
  <2>1. SP \in Register /\ SP # PC /\ PC \in Register
    BY DEF SP, PC, Register
  <2> QED
    BY <2>1 DEF Trip
<1>3. /\ OriginalBase = BaseAfter(st, base)
      /\ \A r \in list \ Pending : registers[r] = Restored(file, r)
      /\ PC \notin list \ Pending => registers[PC] = 16
      /\ \A r \in list : Laid(st, file, r)
  BY <1>1 DEF Loading, Saved
<1>4. registers \in [Register -> Word]
  BY <1>1, BlockFacts
<1>5. /\ \A r \in Register : SlotOf(ld, BaseAfter(st, base), r) = SlotOf(st, base, r)
      /\ BaseAfter(ld, BaseAfter(st, base)) = base
  <2> DEFINE b == base
  <2>1. /\ b \in Word /\ st.registerList \in SUBSET Register
        /\ ld.registerList = st.registerList
    BY <1>2
  <2> HIDE DEF b
  <2>2. /\ \A r \in Register : SlotOf(ld, BaseAfter(st, b), r) = SlotOf(st, b, r)
        /\ BaseAfter(ld, BaseAfter(st, b)) = b
    BY <1>2, <2>1, RunsMeet, ZenonT(40)
  <2> QED
    BY <2>2 DEF b
<1>6. ASSUME SkipRegister PROVE TripInv(program, st, file)'
  <2>1. /\ UNCHANGED <<registers, ram, code, instruction, run>> /\ phase' = "transfer"
    BY <1>6 DEF SkipRegister, memory
  <2>2. Following(program)' /\ iter' = 3
    BY <1>1, <2>1, LoopFollows
  <2>3. OriginalBase' = OriginalBase /\ Pending' = Pending
    BY <1>1, <1>6, LoopBase
  <2>4. Saved(st, file)'
    BY <1>3, <2>1, LaidStays DEF Saved
  <2>5. Loading(st, file)'
    BY <1>3, <2>1, <2>3 DEF Loading
  <2> QED
    BY <2>1, <2>2, <2>4, <2>5 DEF TripInv
<1>7. ASSUME TransferRegister PROVE TripInv(program, st, file)'
  <2>1. /\ i \in list /\ i \in Register
        /\ Pending' = Pending \ {i} /\ OriginalBase' = OriginalBase
    BY <1>1, <1>2, <1>7, PendingStep, BaseStays
  <2>2. Slot(ld) = SlotOf(st, base, i)
    <3>1. Slot(ld) = SlotOf(ld, BaseAfter(st, base), i)
      BY <1>1, <1>2, <1>3, <2>1, SlotOfLoop
    <3> QED
      BY <1>5, <2>1, <3>1
  <2>3. /\ registers' = [registers EXCEPT ![i] = WordAt(SlotOf(st, base, i))]
        /\ ram' = ram /\ UNCHANGED <<code, instruction, run>> /\ phase' = "transfer"
    BY <1>1, <1>2, <1>7, <2>2 DEF TransferRegister
  <2>4. Following(program)' /\ iter' = 3
    BY <1>1, <2>3, LoopFollows
  <2>5. Saved(st, file)'
    BY <1>3, <2>3, LaidStays DEF Saved
  <2>6. WordAt(SlotOf(st, base, i)) = Restored(file, i)
    BY <1>3, <2>1 DEF Laid
  <2>7. \A r \in Register : registers'[r] = IF r = i THEN Restored(file, i) ELSE registers[r]
    BY <1>4, <2>1, <2>3, <2>6
  <2>8. \A r \in list \ Pending' : registers'[r] = Restored(file, r)
    BY <1>2, <1>3, <2>1, <2>7
  <2>9. PC \notin list \ Pending' => registers'[PC] = 16
    <3>1. list \ Pending' = (list \ Pending) \cup {i}
      BY <2>1
    <3> QED
      BY <1>2, <1>3, <2>1, <2>7, <3>1
  <2>10. Loading(st, file)'
    BY <1>3, <2>1, <2>8, <2>9 DEF Loading
  <2> QED
    BY <2>3, <2>4, <2>5, <2>10 DEF TripInv
<1>8. ASSUME EscapeTransfer PROVE TripInv(program, st, file)'
  <2>1. phase' \in Lost /\ code' = code
    BY <1>8 DEF EscapeTransfer, Escape, Lost, memory
  <2>2. Following(program)'
    BY <1>1, <2>1, LostFollows
  <2> QED
    BY <2>1, <2>2 DEF TripInv, Lost, Inside
<1>9. ASSUME EndTransfer PROVE TripInv(program, st, file)'
  <2>1. Pending = {}
    BY <1>1, <1>9, LoopBase
  <2>3. registers' = [registers EXCEPT ![SP] = BaseAfter(ld, OriginalBase)]
    BY <1>1, <1>2, <1>9, BaseOfEnd
  <2>4. registers' = [registers EXCEPT ![SP] = base] /\ Complete /\ code' = code
    BY <1>1, <1>2, <1>3, <1>9, <1>5, <2>3 DEF EndTransfer, memory
  <2>5. /\ registers'[SP] = base
        /\ \A r \in Register \ {SP} : registers'[r] = registers[r]
    BY <1>2, <1>4, <2>4
  <2>6. TripDone(st, file)'
    BY <1>2, <1>3, <2>1, <2>5 DEF TripDone
  <2>7. Following(program)' /\ phase' = "fetch" /\ iter' = 4
    <3>1. Len(program) \in Nat \ {0} /\ ~(iter + 1 < Len(program)) /\ iter + 1 = 4
      BY <1>1
    <3> QED
      BY <1>1, <2>4, <3>1, EndFollows
  <2> QED
    BY <2>6, <2>7 DEF TripInv
<1> QED
  BY <1>6, <1>7, <1>8, <1>9, LoopSteps

\* A loop is a store or a load.
LEMMA LoopOfTrip ==
  ASSUME NEW program, NEW st, NEW ld, NEW file, Trip(program, st, ld),
         TripInv(program, st, file), phase \in {"evaluate", "transfer"}
  PROVE  /\ iter \in 0 .. 3 /\ instruction = program[iter + 1]
         /\ phase = "transfer" => iter \in {0, 3}
<1>1. /\ IInv /\ Following(program) /\ Len(program) = 4
  BY DEF TripInv, BlockInv, Trip
<1>2. iter \in 0 .. 3 /\ instruction = program[iter + 1] /\ RunInv
  BY <1>1, Parts DEF Control, RunInv, Following, Inside
<1>3. ASSUME phase = "transfer", iter = 1 \/ iter = 2 PROVE FALSE
  <2>1. instruction.format = "block_data_transfer"
    BY <1>2, <1>3 DEF RunInv
  <2>2. instruction \in {Mov(0, Imm(3)), Mov(14, Imm(2))}
    BY <1>2, <1>3 DEF Trip
  <2>3. instruction.format = "data_processing"
    BY <2>2 DEF Mov, Alu
  <2> QED
    BY <2>1, <2>3
<1> QED
  BY <1>2, <1>3

\* An evaluation of a round trip: the store and the load enter their loop, and
\* the two moves between them spoil r0 and lr.
LEMMA TripEvaluates ==
  ASSUME NEW program, NEW st, NEW ld, NEW file \in [Register -> Word], Trip(program, st, ld),
         WordBits = 4 * ByteBits, 16 < MemSize, BlockInv', TripInv(program, st, file),
         phase = "evaluate", Evaluate
  PROVE  TripInv(program, st, file)'
<1>1. /\ BlockInv /\ IInv /\ Following(program) /\ Len(program) = 4 /\ registers \in [Register -> Word]
      /\ SP \in Register /\ PC \in Register /\ SP # PC /\ 0 \in Register /\ 14 \in Register
      /\ SP # 0 /\ SP # 14 /\ PC # 0 /\ PC # 14
  BY BlockFacts DEF TripInv, BlockInv, Trip, SP, PC, Register
<1>2. iter \in 0 .. 3 /\ instruction = program[iter + 1]
  BY LoopOfTrip
<1>3. registers[PC] = Wrap(4 * (iter + 1)) /\ registers[PC] = 4 * (iter + 1)
  <2>1. 4 * (iter + 1) \in Word
    BY <1>2, MemSizeAssumption, ModulusFacts DEF Word
  <2> QED
    BY <1>1, <2>1, WrapWord DEF Following
<1>4. CASE iter = 0
  <2>1. instruction = st /\ st.format = "block_data_transfer" /\ st.condition = "AL" /\ st.rn = SP
    BY <1>2, <1>4 DEF Trip
  <2>2. BeginTransfer
    BY <2>1, AlwaysHandled
  <2>3. UNCHANGED <<registers, ram, code, instruction, run>> /\ phase' = "transfer"
    BY <2>2 DEF BeginTransfer, memory
  <2>4. Following(program)' /\ iter' = 0
    BY <1>1, <1>4, <2>3, LoopFollows
  <2>5. OriginalBase' = registers[SP] /\ Pending' = st.registerList
    BY <1>1, <2>1, <2>2, LoopBase
  <2>6. Storing(st, file)'
    <3>1. \A r \in Register \ {PC} : registers[r] = file[r]
      BY <1>4 DEF TripInv, Storing, Inside
    <3>2. st.registerList \ Pending' = {}
      BY <2>5
    <3>3. registers'[PC] = 4
      BY <1>3, <1>4, <2>3
    <3> QED
      BY <1>1, <2>3, <2>5, <3>1, <3>2, <3>3 DEF Storing
  <2> QED
    BY <2>3, <2>4, <2>6 DEF TripInv
<1>5. CASE iter = 3
  <2>1. instruction = ld /\ ld.format = "block_data_transfer" /\ ld.condition = "AL" /\ ld.rn = SP
        /\ ld.registerList = st.registerList
    BY <1>2, <1>5 DEF Trip
  <2>2. BeginTransfer
    BY <2>1, AlwaysHandled
  <2>3. UNCHANGED <<registers, ram, code, instruction, run>> /\ phase' = "transfer"
    BY <2>2 DEF BeginTransfer, memory
  <2>4. Following(program)' /\ iter' = 3
    BY <1>1, <1>5, <2>3, LoopFollows
  <2>5. OriginalBase' = registers[SP] /\ Pending' = st.registerList
    BY <1>1, <2>1, <2>2, LoopBase
  <2>6. Saved(st, file) /\ registers[SP] = BaseAfter(st, file[SP])
    BY <1>5 DEF TripInv, Inside
  <2>7. Saved(st, file)'
    BY <2>3, <2>6, LaidStays DEF Saved
  <2>8. Loading(st, file)'
    <3>1. st.registerList \ Pending' = {}
      BY <2>5
    <3>2. registers'[PC] = 16
      BY <1>3, <1>5, <2>3
    <3> QED
      BY <2>5, <2>6, <3>1, <3>2 DEF Loading
  <2> QED
    BY <2>3, <2>4, <2>7, <2>8 DEF TripInv
<1>6. CASE iter \in 1 .. 2
  <2>1. PICK rd \in {0, 14}, n \in {2, 3} : instruction = Mov(rd, Imm(n))
    BY <1>2, <1>6 DEF Trip
  <2>2. n \in Word
    BY MemSizeAssumption, ModulusFacts DEF Word
  <2>3. registers' = [registers EXCEPT ![rd] = n] /\ Complete /\ UNCHANGED <<ram, code>>
    BY <1>1, <2>1, <2>2, SmallMove DEF memory
  <2>4. registers'[PC] = registers[PC] /\ registers'[SP] = registers[SP]
    BY <1>1, <2>1, <2>3
  <2>5. Following(program)' /\ phase' = "fetch" /\ iter' = iter + 1
    <3>1. Len(program) \in Nat \ {0}
      BY <1>1
    <3> QED
      BY <1>1, <2>3, <2>4, <3>1, HandlerFollows
  <2>6. Saved(st, file) /\ registers[SP] = BaseAfter(st, file[SP])
    BY <1>6 DEF TripInv, Inside
  <2>7. Saved(st, file)'
    BY <2>3, <2>6, LaidStays DEF Saved
  <2>8. iter' \in 2 .. 3
    BY <1>6, <2>5
  <2> QED
    BY <2>4, <2>5, <2>6, <2>7, <2>8 DEF TripInv
<1> QED
  BY <1>2, <1>4, <1>5, <1>6

\* The invariant of a round trip next to its steps.
LEMMA TripStep ==
  ASSUME NEW program, NEW st, NEW ld, NEW file \in [Register -> Word], Trip(program, st, ld),
         WordBits = 4 * ByteBits, 16 < MemSize, TripInv(program, st, file), [Turn]_vars
  PROVE  TripInv(program, st, file)'
<1>1. /\ Len(program) = 4 /\ Len(program) \in Nat \ {0} /\ DOMAIN program = 1 .. Len(program)
      /\ SP \in Register /\ PC \in Register /\ SP # PC
  BY DEF Trip, SP, PC, Register
<1>2. BlockInv /\ IInv /\ Following(program) /\ registers \in [Register -> Word]
  BY BlockFacts DEF TripInv, BlockInv
<1>3. BlockInv'
  <2>1. [Next]_vars
    BY DEF Next
  <2> QED
    BY <1>2, <2>1, BlockInvNext
<1>4. \/ UNCHANGED vars /\ Following(program)'
      \/ Fetches(program) /\ Following(program)'
      \/ ComesBack(program) /\ Following(program)'
      \/ phase \in {"evaluate", "transfer"} /\ Evaluate
  BY <1>1, <1>2, ProgramStep
<1>5. CASE UNCHANGED vars /\ Following(program)'
  <2>1. /\ UNCHANGED <<registers, ram, phase, iter, i, offset, instruction>>
    BY <1>5 DEF vars, memory, run, block
  <2>2. OriginalBase' = OriginalBase /\ Pending' = Pending
    BY <2>1 DEF OriginalBase, Pending, Moved
  <2>3. Storing(st, file)' <=> Storing(st, file)
    BY <2>1, <2>2, LaidStays DEF Storing
  <2>4. Saved(st, file)' <=> Saved(st, file)
    BY <2>1, LaidStays DEF Saved
  <2>5. Loading(st, file)' <=> Loading(st, file)
    BY <2>1, <2>2 DEF Loading
  <2>6. TripDone(st, file)' <=> TripDone(st, file)
    BY <2>1 DEF TripDone
  <2> QED
    BY <1>3, <1>5, <2>1, <2>3, <2>4, <2>5, <2>6 DEF TripInv
<1>6. CASE Fetches(program) /\ Following(program)'
  <2>1. /\ phase = "fetch" /\ phase' = "evaluate" /\ iter' = iter /\ ram' = ram
        /\ iter \in 0 .. 3
        /\ \A r \in Register \ {PC} : registers'[r] = registers[r]
    BY <1>1, <1>2, <1>6, Parts DEF Fetches, Control
  <2>2. ASSUME iter = 0 PROVE Storing(st, file)'
    <3>1. \A r \in Register \ {PC} : registers[r] = file[r]
      BY <2>1, <2>2 DEF TripInv, Storing, Inside
    <3> QED
      BY <2>1, <3>1 DEF Storing
  <2>3. ASSUME iter \in 1 .. 3
        PROVE  Saved(st, file)' /\ registers'[SP] = BaseAfter(st, file[SP])
    <3>1. Saved(st, file) /\ registers[SP] = BaseAfter(st, file[SP])
      BY <2>1, <2>3 DEF TripInv, Inside
    <3>2. Saved(st, file)'
      BY <2>1, <3>1, LaidStays DEF Saved
    <3> QED
      BY <1>1, <2>1, <3>1, <3>2
  <2> QED
    BY <1>3, <1>6, <2>1, <2>2, <2>3 DEF TripInv
<1>7. CASE ComesBack(program) /\ Following(program)'
  <2>1. /\ phase = "fetch" /\ phase' = "idle" /\ iter = 4 /\ registers' = registers
    BY <1>1, <1>7 DEF ComesBack
  <2>2. TripDone(st, file)'
    <3>1. TripDone(st, file)
      BY <2>1 DEF TripInv
    <3> QED
      BY <2>1, <3>1 DEF TripDone
  <2> QED
    BY <1>3, <1>7, <2>1, <2>2 DEF TripInv, Inside
<1>8. CASE phase \in {"evaluate", "transfer"} /\ Evaluate
  <2>1. CASE phase = "evaluate"
    BY <1>3, <1>8, <2>1, TripEvaluates
  <2>2. CASE phase = "transfer"
    <3>1. iter \in {0, 3}
      BY <2>2, LoopOfTrip
    <3> QED
      BY <1>3, <1>8, <2>2, <3>1, StoreTurn, LoadTurn
  <2> QED
    BY <1>8, <2>1, <2>2
<1> QED
  BY <1>4, <1>5, <1>6, <1>7, <1>8

\* What a round trip is to leave when run() comes back.
RestoredAtEnd(file, list) ==
  phase = "idle" =>
    /\ \A r \in (list \cup {SP}) \ {PC} : registers[r] = file[r]
    /\ registers[PC] = IF PC \in list THEN 12 ELSE 16

\* The invariant of a round trip holds when it begins...
LEMMA TripBegins ==
  ASSUME NEW program, NEW st, NEW ld, NEW file, Trip(program, st, ld),
         Begins(program), registers = file
  PROVE  TripInv(program, st, file)
<1>1. Len(program) \in Nat
  BY DEF Trip
<1>2. IInv /\ Following(program) /\ phase = "fetch" /\ iter = 0
  BY <1>1, BeginFollows
<1>3. Storing(st, file)
  BY <1>2 DEF Storing
<1>4. BlockInv
  BY <1>2 DEF BlockInv, LoopInv
<1> QED
  BY <1>2, <1>3, <1>4 DEF TripInv

\* ...and says what is left when it ends.
LEMMA TripEnds ==
  ASSUME NEW program, NEW st, NEW file, TripInv(program, st, file)
  PROVE  code = CodeOf(program) /\ RestoredAtEnd(file, st.registerList)
<1>1. code = CodeOf(program)
  BY DEF TripInv, Following
<1>2. ASSUME phase = "idle"
      PROVE  /\ \A r \in (st.registerList \cup {SP}) \ {PC} : registers[r] = file[r]
             /\ registers[PC] = IF PC \in st.registerList THEN 12 ELSE 16
  <2>1. TripDone(st, file)
    BY <1>2 DEF TripInv
  <2> QED
    BY <2>1 DEF TripDone, Restored
<1> QED
  BY <1>1, <1>2 DEF RestoredAtEnd

(***************************************************************************)
(* A store with write-back to sp and the opposite load with write-back     *)
(* give every listed register its value back and sp its own, whatever the  *)
(* two instructions between them did to the registers; a listed pc comes   *)
(* back as the address of the store plus 12.  This is for every list       *)
(* without sp, every mode, every starting file of registers, every memory  *)
(* and every width, the runs that wrap around the end of the address       *)
(* space included.                                                         *)
(***************************************************************************)
THEOREM RoundTripRestores ==
  ASSUME NEW p \in BOOLEAN, NEW u \in BOOLEAN, NEW list \in SUBSET (Register \ {SP}),
         NEW file \in [Register -> Word], WordBits = 4 * ByteBits, 16 < MemSize
  PROVE  Begins(RoundTrip(p, u, list)) /\ registers = file /\ [][Turn]_vars
         => []RestoredAtEnd(file, list)
<1> DEFINE program == RoundTrip(p, u, list)
           st == Block(FALSE, p, u, SP, list)
           ld == Block(TRUE, ~p, ~u, SP, list)
           I == TripInv(program, st, file)
<1>1. Trip(program, st, ld)
  BY TripOfRoundTrip
<1>2. st.registerList = list
  BY DEF Block
<1> HIDE DEF program, st, ld
<1>3. Begins(program) /\ registers = file => I
  BY <1>1, TripBegins
<1>4. I /\ [Turn]_vars => I'
  BY <1>1, TripStep
<1>5. I => RestoredAtEnd(file, list)
  BY <1>2, TripEnds
<1> HIDE DEF I
<1>6. Begins(program) /\ registers = file /\ [][Turn]_vars => []RestoredAtEnd(file, list)
  BY <1>3, <1>4, <1>5, PTL
<1> QED
  BY <1>6 DEF program

\* The program that is followed names its list.
LEMMA ListOfTrip ==
  ASSUME NEW p1 \in BOOLEAN, NEW u1 \in BOOLEAN, NEW list1 \in SUBSET (Register \ {SP}),
         NEW p2 \in BOOLEAN, NEW u2 \in BOOLEAN, NEW list2 \in SUBSET (Register \ {SP}),
         CodeOf(RoundTrip(p1, u1, list1)) = CodeOf(RoundTrip(p2, u2, list2))
  PROVE  list1 = list2
<1> DEFINE one == RoundTrip(p1, u1, list1)
           two == RoundTrip(p2, u2, list2)
<1>1. /\ Len(one) = 4 /\ one = [k \in 1 .. Len(one) |-> one[k]]
      /\ one[1] = Block(FALSE, p1, u1, SP, list1)
      /\ Len(two) = 4 /\ two = [k \in 1 .. Len(two) |-> two[k]]
      /\ two[1] = Block(FALSE, p2, u2, SP, list2)
  BY DEF RoundTrip
<1> HIDE DEF one, two
<1>2. one = two
  <2>1. CodeOf(one) = CodeOf(two)
    BY DEF one, two
  <2> QED
    BY <1>1, <2>1, CodesDiffer
<1> QED
  BY <1>1, <1>2 DEF Block

(***************************************************************************)
(* What the run of block transfers checks of the round trips, for every    *)
(* one of them from the registers it starts with: the property does not    *)
(* name the program, so the code of the machine has to tell which list it  *)
(* is about.                                                               *)
(***************************************************************************)
THEOREM PushAndPopRestore ==
  ASSUME NEW program \in RoundTrips, WordBits = 4 * ByteBits, Centre < MemSize
  PROVE  /\ Begins(program)
         /\ registers = [r \in Register |-> StartRegister(r, Centre)]
         /\ [][Turn]_vars
         => []StoreThenLoadRestores
<1> DEFINE file == [r \in Register |-> StartRegister(r, Centre)]
<1>1. PICK p \in BOOLEAN, u \in BOOLEAN, list \in SUBSET (Listed \ {SP}) :
        program = RoundTrip(p, u, list)
  BY DEF RoundTrips
<1>2. Listed \subseteq Register /\ list \in SUBSET (Register \ {SP}) /\ PC # SP
  BY DEF Listed, Register, PC, SP
<1>3. file \in [Register -> Word] /\ 16 < MemSize
  <2>1. Centre = 64
    BY DEF Centre
  <2>2. \A n \in 0 .. Centre : n \in Word
    BY <2>1, MemSizeAssumption, ModulusFacts DEF Word
  <2>3. \A r \in Register : StartRegister(r, Centre) \in 0 .. Centre
    BY <2>1 DEF StartRegister, Register, PC, SP
  <2> QED
    BY <2>1, <2>2, <2>3, MemSizeAssumption
<1>4. \A r \in Register : file[r] = StartRegister(r, Centre)
  OBVIOUS
<1> DEFINE st == Block(FALSE, p, u, SP, list)
           ld == Block(TRUE, ~p, ~u, SP, list)
           I == TripInv(program, st, file)
<1> HIDE DEF file
<1>5. Trip(program, st, ld)
  BY <1>1, <1>2, TripOfRoundTrip
<1>6. st.registerList = list
  BY DEF Block
<1> HIDE DEF st, ld
<1>7. Begins(program) /\ registers = file => I
  BY <1>5, TripBegins
<1>8. I /\ [Turn]_vars => I'
  BY <1>3, <1>5, TripStep
<1>9. I => StoreThenLoadRestores
  <2> SUFFICES ASSUME I, NEW p2 \in BOOLEAN, NEW u2 \in BOOLEAN,
                      NEW list2 \in SUBSET (Listed \ {SP}),
                      phase = "idle", code = CodeOf(RoundTrip(p2, u2, list2))
               PROVE  /\ \A r \in (list2 \cup {SP}) \ {PC} : registers[r] = StartRegister(r, Centre)
                      /\ registers[PC] = IF PC \in list2 THEN 12 ELSE 16
    BY DEF StoreThenLoadRestores
  <2>1. code = CodeOf(program) /\ RestoredAtEnd(file, list)
    BY <1>6, TripEnds
  <2>2. list2 = list
    <3>1. list2 \in SUBSET (Register \ {SP})
      BY <1>2
    <3>2. CodeOf(RoundTrip(p, u, list)) = CodeOf(RoundTrip(p2, u2, list2))
      BY <1>1, <2>1
    <3> HIDE <1>1, <2>1
    <3> QED
      BY <1>2, <3>1, <3>2, ListOfTrip
  <2>3. \A r \in (list \cup {SP}) \ {PC} : file[r] = StartRegister(r, Centre)
    BY <1>2, <1>4 DEF SP, Register
  <2> QED
    BY <2>1, <2>2, <2>3 DEF RestoredAtEnd
<1> HIDE DEF I
<1>10. Begins(program) /\ registers = file /\ [][Turn]_vars => []StoreThenLoadRestores
  BY <1>7, <1>8, <1>9, PTL
<1> QED
  BY <1>10 DEF file

-----------------------------------------------------------------------------
(* Halfwords, in straight lines.                                           *)

\* A program of single steps, run or lost, and how many of them are behind.
Straight(program) ==
  /\ IInv /\ Following(program)
  /\ phase \in {"fetch", "evaluate", "idle"} \cup Lost
Behind(program) == IF phase = "idle" THEN Len(program) ELSE iter

\* A step leaves what the program can see, takes one instruction or loses the
\* machine.
LEMMA StraightStep ==
  ASSUME NEW program, Len(program) \in Nat \ {0}, DOMAIN program = 1 .. Len(program),
         Straight(program), [Turn]_vars,
         phase = "evaluate" /\ Evaluate =>
           \/ Complete /\ code' = code /\ registers'[PC] = registers[PC]
           \/ phase' \in Lost /\ code' = code
  PROVE  /\ Straight(program)'
         /\ phase \notin Lost => Behind(program) \in 0 .. Len(program)
         /\ \/ /\ Behind(program)' = Behind(program) /\ ram' = ram
               /\ phase \notin Lost /\ phase' \notin Lost
               /\ \A r \in Register \ {PC} : registers'[r] = registers[r]
            \/ /\ phase = "evaluate" /\ Evaluate /\ iter \in 0 .. Len(program) - 1
               /\ instruction = program[iter + 1] /\ Behind(program) = iter
               /\ Complete /\ Behind(program)' = iter + 1 /\ phase' \notin Lost
            \/ phase' \in Lost
<1>1. IInv /\ Following(program)
  BY DEF Straight
<1>2. /\ IInv'
      /\ \/ UNCHANGED vars /\ Following(program)'
         \/ Fetches(program) /\ Following(program)'
         \/ ComesBack(program) /\ Following(program)'
         \/ phase \in {"evaluate", "transfer"} /\ Evaluate
  BY <1>1, ProgramStep
<1>3. /\ phase \notin Lost => Behind(program) \in 0 .. Len(program)
      /\ registers \in [Register -> Word]
  BY <1>1, Parts DEF Behind, Straight, Control, Following, Inside, Machine
<1>4. CASE UNCHANGED vars /\ Following(program)'
  BY <1>2, <1>3, <1>4 DEF Straight, Behind, vars, memory, run
<1>5. CASE Fetches(program) /\ Following(program)'
  <2>1. \A r \in Register \ {PC} : registers'[r] = registers[r]
    BY <1>3, <1>5 DEF Fetches
  <2> QED
    BY <1>2, <1>3, <1>5, <2>1 DEF Straight, Behind, Fetches, Lost
<1>6. CASE ComesBack(program) /\ Following(program)'
  BY <1>2, <1>3, <1>6 DEF Straight, Behind, ComesBack, Lost
<1>7. CASE phase \in {"evaluate", "transfer"} /\ Evaluate
  <2>1. phase = "evaluate" /\ Evaluate
    BY <1>7 DEF Straight, Lost
  <2>2. /\ iter \in 0 .. Len(program) - 1 /\ instruction = program[iter + 1]
        /\ Behind(program) = iter
    BY <1>1, <2>1, Parts DEF Control, RunInv, Following, Inside, Behind
  <2>3. CASE phase' \in Lost /\ code' = code
    <3>1. Following(program)'
      BY <1>1, <2>3, LostFollows
    <3> QED
      BY <1>2, <1>3, <2>3, <3>1 DEF Straight
  <2>4. CASE ~(phase' \in Lost /\ code' = code)
    <3>1. Complete /\ code' = code /\ registers'[PC] = registers[PC]
      BY <2>1, <2>4
    <3>2. Following(program)' /\ phase' = "fetch" /\ iter' = iter + 1
      BY <1>1, <2>1, <3>1, HandlerFollows
    <3> QED
      BY <1>2, <1>3, <2>1, <2>2, <3>1, <3>2 DEF Straight, Behind, Lost
  <2> QED
    BY <2>3, <2>4
<1> QED
  BY <1>2, <1>4, <1>5, <1>6, <1>7

\* It begins with nothing behind.
LEMMA StraightBegins ==
  ASSUME NEW program, Len(program) \in Nat, Begins(program)
  PROVE  Straight(program) /\ phase \notin Lost /\ Behind(program) = 0
BY BeginFollows DEF Straight, Behind, Lost

\* The address a halfword transfer steps to, and the one it uses.
HalfNext(t) == Displaced(t, registers[t.rn], t.distance)
HalfPlace(t) == IF t.p THEN HalfNext(t) ELSE registers[t.rn]

\* A halfword or signed byte transfer with an immediate offset, its base not pc.
LEMMA HalfStep ==
  ASSUME IInv, Evaluate, phase = "evaluate", NEW t, instruction = t, t.condition = "AL",
         t.format = "halfword_data_transfer_immediate_off", t.rn # PC
  PROVE  /\ UNCHANGED <<cpsr, code, programSize, instruction, block>>
         /\ \/ /\ t.load /\ LoadedBytes(t, HalfPlace(t)) \subseteq Ram
               /\ registers' = Based(t, [registers EXCEPT ![t.rd] = Loaded(t, HalfPlace(t))],
                                     HalfNext(t))
               /\ ram' = ram /\ Complete
            \/ /\ ~t.load /\ Data(StoredBytes(t, HalfPlace(t)))
               /\ registers' = Based(t, registers, Retreated(HalfNext(t)))
               /\ ram' = AfterHalfStored(t, HalfPlace(t)) /\ Complete
            \/ phase' \in Lost
<1>1. halfwordDataTransferImmediateOffEval
  BY AlwaysHandled
<1>2. ImmediateTransfer(t) /\ UNCHANGED <<cpsr, code, programSize, instruction, block>>
  BY <1>1 DEF halfwordDataTransferImmediateOffEval
<1>3. \A bytes : Escape(bytes) => phase' \in Lost
  BY DEF Escape, Lost
<1>4. \A bytes : Data(bytes) => bytes \subseteq Ram
  BY DEF Data
<1>5. \A touched, word : Overreach(touched, word) => phase' \in Lost
  BY <1>3 DEF Overreach
<1>6. \A touched, file, contents :
        Access(touched, file, contents) =>
          \/ Data(touched) /\ registers' = file /\ ram' = contents /\ Complete
          \/ phase' \in Lost
  BY <1>3 DEF Access
<1>7. \/ /\ t.load
         /\ \/ Access(LoadedBytes(t, HalfPlace(t)),
                      Based(t, [registers EXCEPT ![t.rd] = Loaded(t, HalfPlace(t))], HalfNext(t)),
                      ram)
            \/ Overreach(LoadedBytes(t, HalfPlace(t)), Bytes(HalfPlace(t), 4))
      \/ /\ ~t.load
         /\ \/ Access(StoredBytes(t, HalfPlace(t)),
                      Based(t, registers, Retreated(HalfNext(t))), AfterHalfStored(t, HalfPlace(t)))
            \/ Overreach(StoredBytes(t, HalfPlace(t)), StoreReach(t, HalfPlace(t)))
  BY <1>2, Zenon DEF ImmediateTransfer, HalfPlace, HalfNext
<1> QED
  BY <1>2, <1>4, <1>5, <1>6, <1>7

\* A load by register, then by immediate, in terms of the fields that count.
Both(program, byRegister, byImmediate) ==
  /\ Len(program) = 2 /\ DOMAIN program = 1 .. 2
  /\ program[1] = byRegister /\ program[2] = byImmediate
  /\ \A t \in {byRegister, byImmediate} :
       t.condition = "AL" /\ t.load /\ t.p /\ ~t.w /\ t.rn = 1
  /\ byRegister.format = "halfword_data_transfer_register_off"
  /\ byRegister.rm = 4 /\ byRegister.rd = 3
  /\ byImmediate.format = "halfword_data_transfer_immediate_off"
  /\ byImmediate.distance = 4 /\ byImmediate.rd = 2
  /\ byRegister.u = byImmediate.u /\ byRegister.s = byImmediate.s
  /\ byRegister.h = byImmediate.h

\* Each pair of loads is of that form.
LEMMA BothOfTwice ==
  ASSUME NEW program \in Twices
  PROVE  \E byRegister, byImmediate : Both(program, byRegister, byImmediate)
<1>1. PICK word \in Loads \cup {Down(l) : l \in Loads} : program = Twice(word)
  BY Zenon DEF Twices
<1> DEFINE fields == {"format", "condition", "load", "s", "h", "p", "u", "w", "rd", "rn", "distance"}
           moved == [word EXCEPT !.rd = 3]
           first == ByRegister(moved, 4)
<1>2. /\ DOMAIN word = fields
      /\ word.format = "halfword_data_transfer_immediate_off" /\ word.condition = "AL"
      /\ word.load = TRUE /\ word.p = TRUE /\ word.w = FALSE
      /\ word.rd = 2 /\ word.rn = 1 /\ word.distance = 4
      /\ word = [f \in fields |-> word[f]]
  <2>1. PICK l \in Loads : word = l \/ word = Down(l)
    BY <1>1
  <2>2. PICK s \in BOOLEAN, h \in BOOLEAN : l = Half(TRUE, s, h, 2, 1, 4)
    BY <2>1 DEF Loads, Half
  <2>3. CASE word = l
    BY <2>2, <2>3 DEF Half
  <2>4. CASE word = Down(l)
    BY <2>2, <2>4 DEF Half, Down
  <2> QED
    BY <2>1, <2>3, <2>4
<1>3. /\ DOMAIN moved = fields
      /\ \A f \in fields : moved[f] = IF f = "rd" THEN 3 ELSE word[f]
  BY <1>2
<1> HIDE DEF moved
<1>4. \A f \in {"condition", "load", "s", "h", "p", "u", "w", "rn"} : first[f] = word[f]
  BY <1>3 DEF ByRegister
<1>5. first.format = "halfword_data_transfer_register_off" /\ first.rm = 4 /\ first.rd = 3
  BY <1>3 DEF ByRegister
<1>6. program = <<first, word>>
  BY <1>1 DEF Twice, moved
<1> HIDE DEF first
<1>7. /\ first.condition = "AL" /\ first.load = TRUE /\ first.p = TRUE /\ first.w = FALSE
      /\ first.rn = 1 /\ first.u = word.u /\ first.s = word.s /\ first.h = word.h
  BY <1>2, <1>4
<1>8. Len(program) = 2 /\ DOMAIN program = 1 .. 2 /\ program[1] = first /\ program[2] = word
  BY <1>6
<1>9. \A t \in {first, word} : t.condition = "AL" /\ t.load /\ t.p /\ ~t.w /\ t.rn = 1
  BY <1>2, <1>7
<1> HIDE <1>1, <1>6
<1>10. Both(program, first, word)
  BY <1>2, <1>5, <1>7, <1>8, <1>9, Zenon DEF Both
<1> QED
  BY <1>10

\* What the load by register does: without assertions it loads, with them the
\* machine is lost.
LEMMA RegisterOffsetStep ==
  ASSUME IInv, Evaluate, phase = "evaluate", NEW t, instruction = t, t.condition = "AL",
         t.format = "halfword_data_transfer_register_off", t.load, t.p, ~t.w, t.rn # PC
  PROVE  \/ /\ registers' = [registers EXCEPT
                              ![t.rd] = Loaded(t, Displaced(t, registers[t.rn], registers[t.rm]))]
            /\ ram' = ram /\ code' = code /\ Complete
         \/ phase' \in Lost /\ code' = code
<1>1. CASE Asserting
  <2>1. AssertInstruction
    BY <1>1 DEF Evaluate, SkipInstruction, Unsupported, dataProcessingEval,
       singleDataTranferEval, blockDataTransferEval, BeginTransfer, SkipRegister,
       TransferRegister, EscapeTransfer, EndTransfer, branchEval, branchAndExchangeEval,
       softwareInterruptEval, multiplyEval, multiplyLongEval,
       halfwordDataTransferImmediateOffEval, halfwordDataTransferRegisterOffEval, Executing
  <2> QED
    BY <1>1, <2>1 DEF AssertInstruction, Abort, Lost, memory
<1>2. CASE ~Asserting
  <2>1. halfwordDataTransferRegisterOffEval
    BY <1>2, AlwaysHandled
  <2>2. RegisterLoad(t) /\ code' = code
    BY <2>1 DEF halfwordDataTransferRegisterOffEval
  <2>3. \A bytes : Escape(bytes) => phase' \in Lost
    BY DEF Escape, Lost
  <2> QED
    BY <2>2, <2>3 DEF RegisterLoad, Access, Overreach, Based, WritesBack
<1> QED
  BY <1>1, <1>2

\* What holds of the two loads.
BothAfter(byImmediate, k) ==
  /\ registers[4] = 4
  /\ k = 1 => registers[3] = Loaded(byImmediate, Displaced(byImmediate, registers[1], 4))
  /\ k = 2 => registers[2] = registers[3]
BothInv(program, byImmediate) ==
  /\ Straight(program)
  /\ phase \notin Lost => BothAfter(byImmediate, Behind(program))

\* The invariant of the two loads next to their steps.
LEMMA BothStep ==
  ASSUME NEW program, NEW one, NEW two, Both(program, one, two), BothInv(program, two), [Turn]_vars
  PROVE  BothInv(program, two)'
<1>1. /\ Len(program) = 2 /\ Len(program) \in Nat \ {0} /\ DOMAIN program = 1 .. Len(program)
  BY DEF Both
<1>2. Straight(program) /\ IInv /\ Following(program)
  BY DEF BothInv, Straight
<1>3. /\ registers \in [Register -> Word] /\ 1 \in Register /\ 2 \in Register /\ 3 \in Register
      /\ 4 \in Register /\ PC \in Register /\ PC \notin {1, 2, 3, 4}
  BY <1>2, Parts DEF Machine, Register, PC
<1>4. ASSUME phase = "evaluate", Evaluate, NEW k, k = iter + 1
      PROVE  \/ BothAfter(two, k)' /\ Complete /\ code' = code /\ registers'[PC] = registers[PC]
             \/ phase' \in Lost /\ code' = code
  <2>1. /\ iter \in 0 .. 1 /\ instruction = program[iter + 1]
    BY <1>1, <1>2, <1>4, Parts DEF Control, RunInv, Following, Inside
  <2>2. BothAfter(two, iter)
    BY <1>4 DEF BothInv, Lost, Behind
  <2>3. CASE iter = 0
    <3>1. instruction = one /\ registers[one.rm] = 4
      BY <2>1, <2>2, <2>3 DEF Both, BothAfter
    <3>2. \/ /\ registers' = [registers EXCEPT
                               ![3] = Loaded(one, Displaced(one, registers[1], 4))]
             /\ ram' = ram /\ code' = code /\ Complete
          \/ phase' \in Lost /\ code' = code
      BY <1>2, <1>3, <1>4, <3>1, RegisterOffsetStep DEF Both
    <3>3. \A a : Displaced(one, a, 4) = Displaced(two, a, 4) /\ Loaded(one, a) = Loaded(two, a)
      BY DEF Both, Displaced, Loaded
    <3>4. \A a : ram' = ram => Loaded(two, a)' = Loaded(two, a)
      BY DEF Loaded, HalfAt
    <3> QED
      BY <1>3, <1>4, <2>2, <2>3, <3>2, <3>3, <3>4 DEF BothAfter
  <2>4. CASE iter = 1
    <3>1. instruction = two /\ HalfPlace(two) = Displaced(two, registers[1], 4)
      BY <2>1, <2>4 DEF Both, HalfPlace, HalfNext
    <3>2. \/ /\ registers' = [registers EXCEPT ![2] = Loaded(two, HalfPlace(two))]
             /\ code' = code /\ Complete
          \/ phase' \in Lost /\ code' = code
      BY <1>2, <1>3, <1>4, <3>1, HalfStep DEF Both, Based, WritesBack
    <3>3. registers[3] = Loaded(two, HalfPlace(two)) /\ registers[4] = 4
      BY <2>2, <2>4, <3>1 DEF BothAfter
    <3> QED
      BY <1>3, <1>4, <2>4, <3>2, <3>3 DEF BothAfter
  <2> QED
    BY <2>1, <2>3, <2>4
<1>5. ASSUME phase = "evaluate", Evaluate
      PROVE  \/ Complete /\ code' = code /\ registers'[PC] = registers[PC]
             \/ phase' \in Lost /\ code' = code
  BY <1>4, <1>5
<1>6. /\ Straight(program)'
      /\ \/ /\ Behind(program)' = Behind(program) /\ ram' = ram /\ phase \notin Lost
            /\ \A r \in Register \ {PC} : registers'[r] = registers[r]
         \/ /\ phase = "evaluate" /\ Evaluate /\ iter \in 0 .. Len(program) - 1
            /\ Behind(program)' = iter + 1 /\ phase' \notin Lost
         \/ phase' \in Lost
  BY <1>1, <1>2, <1>5, StraightStep
<1>7. CASE /\ Behind(program)' = Behind(program) /\ ram' = ram /\ phase \notin Lost
           /\ \A r \in Register \ {PC} : registers'[r] = registers[r]
  <2>1. /\ registers'[1] = registers[1] /\ registers'[2] = registers[2]
        /\ registers'[3] = registers[3] /\ registers'[4] = registers[4]
    BY <1>3, <1>7
  <2>2. \A a : Loaded(two, a)' = Loaded(two, a)
    BY <1>7 DEF Loaded, HalfAt
  <2>3. ASSUME NEW k, BothAfter(two, k) PROVE BothAfter(two, k)'
    BY <2>1, <2>2, <2>3 DEF BothAfter
  <2>4. ASSUME NEW k, k = Behind(program), k = Behind(program)'
        PROVE  BothAfter(two, Behind(program))'
    <3>1. BothAfter(two, k)
      BY <1>7, <2>4 DEF BothInv
    <3> QED
      BY <2>3, <2>4, <3>1 DEF BothAfter
  <2> QED
    BY <1>6, <1>7, <2>4 DEF BothInv
<1>8. CASE /\ phase = "evaluate" /\ Evaluate /\ iter \in 0 .. Len(program) - 1
           /\ Behind(program)' = iter + 1 /\ phase' \notin Lost
  <2>1. ASSUME NEW k, k = iter + 1 PROVE BothAfter(two, Behind(program))'
    BY <1>4, <1>8, <2>1 DEF BothAfter
  <2> QED
    BY <1>6, <2>1 DEF BothInv
<1> QED
  BY <1>6, <1>7, <1>8 DEF BothInv

(***************************************************************************)
(* The handler of the register offsets, which runs only in a build without *)
(* assertions, loads what the one of the immediate offsets loads from the  *)
(* same address: halfwords and bytes, signed or not, above the base and    *)
(* below it, at every width and from any base and memory.                  *)
(***************************************************************************)
THEOREM RegisterOffsetsAgree ==
  ASSUME NEW program \in Twices
  PROVE  Begins(program) /\ registers[4] = 4 /\ [][Turn]_vars => []RegisterOffsetAgrees
<1>1. PICK one, two : Both(program, one, two)
  BY BothOfTwice
<1> DEFINE I == BothInv(program, two)
<1>2. Begins(program) /\ registers[4] = 4 => I
  BY <1>1, StraightBegins DEF Both, BothInv, BothAfter
<1>3. I /\ [Turn]_vars => I'
  BY <1>1, BothStep
<1>4. I => RegisterOffsetAgrees
  BY <1>1 DEF BothInv, BothAfter, Both, Behind, Lost, RegisterOffsetAgrees
<1> HIDE DEF I
<1> QED
  BY <1>2, <1>3, <1>4, PTL

\* What four bytes of a word, its halves and their signs are worth.
LEMMA FourBytes ==
  ASSUME WordBits = 4 * ByteBits
  PROVE  /\ ByteModulus \in Nat /\ ByteModulus >= 2 /\ HalfModulus = ByteModulus * ByteModulus
         /\ HalfModulus \in Nat /\ HalfModulus >= 4 /\ HalfModulus <= Modulus
         /\ Modulus = HalfModulus * HalfModulus
         /\ 2 * 2^(HalfBits - 1) = HalfModulus /\ 2^(HalfBits - 1) \in Nat
         /\ 2 * 2^(ByteBits - 1) = ByteModulus /\ 2^(ByteBits - 1) \in Nat
<1>1. ByteBits \in Nat \ {0} /\ HalfBits \in 1 .. WordBits /\ ByteBits \in 1 .. WordBits
      /\ WordBits = HalfBits + HalfBits /\ HalfBits <= WordBits
  BY WidthAssumption, ByteFacts DEF HalfBits
<1>2. 2 * 2^(HalfBits - 1) = HalfModulus /\ 2 * 2^(ByteBits - 1) = ByteModulus
  BY <1>1, PowerAssumption DEF HalfModulus, ByteModulus
<1>3. HalfBits - 1 \in 0 .. WordBits /\ ByteBits - 1 \in 0 .. WordBits
  BY <1>1, WidthAssumption
<1>4. 2^(HalfBits - 1) \in Nat \ {0} /\ 2^(ByteBits - 1) \in Nat \ {0}
  BY <1>3, PowerType
<1>5. HalfModulus = ByteModulus * ByteModulus
  BY HalfIsTwoBytes
<1>6. Modulus = HalfModulus * HalfModulus
  <2>1. HalfBits \in Nat /\ HalfBits + HalfBits <= WordBits
    BY <1>1, WidthAssumption
  <2> QED
    BY <1>1, <2>1, PowerOfSum, ModulusIsPower DEF HalfModulus
<1>7. ByteModulus \in Nat /\ ByteModulus >= 2
  BY <1>2, <1>4
<1> DEFINE b == ByteModulus
           h == HalfModulus
<1>8. h \in Nat /\ h >= 4
  BY <1>5, <1>7
<1>9. h * h >= h
  <2> HIDE DEF h
  <2> QED
    BY <1>8
<1> QED
  BY <1>2, <1>4, <1>5, <1>6, <1>7, <1>8, <1>9

\* The word a signed halfword or a signed byte becomes.
LEMMA SignedParts ==
  ASSUME WordBits = 4 * ByteBits
  PROVE  /\ \A v \in 0 .. HalfModulus - 1 :
              getSigned16(v) = IF 2 * v >= HalfModulus THEN v + Modulus - HalfModulus ELSE v
         /\ \A v \in 0 .. ByteModulus - 1 :
              getSigned8(v) = IF 2 * v >= ByteModulus THEN v + Modulus - ByteModulus ELSE v
<1>1. /\ 2 * 2^(HalfBits - 1) = HalfModulus /\ 2^(HalfBits - 1) \in Nat /\ HalfModulus \in Nat
      /\ 2 * 2^(ByteBits - 1) = ByteModulus /\ 2^(ByteBits - 1) \in Nat /\ ByteModulus \in Nat
      /\ HalfModulus = 2^HalfBits /\ ByteModulus = 2^ByteBits
  BY FourBytes DEF HalfModulus, ByteModulus
<1>2. ASSUME NEW v \in 0 .. HalfModulus - 1
      PROVE  getSigned16(v) = IF 2 * v >= HalfModulus THEN v + Modulus - HalfModulus ELSE v
  <2>1. v % HalfModulus = v /\ (v >= 2^(HalfBits - 1) <=> 2 * v >= HalfModulus)
    BY <1>1
  <2> QED
    BY <1>1, <2>1 DEF getSigned16, SignExtended
<1>3. ASSUME NEW v \in 0 .. ByteModulus - 1
      PROVE  getSigned8(v) = IF 2 * v >= ByteModulus THEN v + Modulus - ByteModulus ELSE v
  <2>1. v % ByteModulus = v /\ (v >= 2^(ByteBits - 1) <=> 2 * v >= ByteModulus)
    BY <1>1
  <2> QED
    BY <1>1, <2>1 DEF getSigned8, SignExtended
<1> QED
  BY <1>2, <1>3

\* A digit below a base, and one above it.
LEMMA TwoDigits ==
  ASSUME NEW m \in Nat \ {0}, NEW n \in Nat \ {0}, NEW x \in 0 .. m - 1, NEW y \in 0 .. n - 1
  PROVE  /\ x + m * y \in 0 .. m * n - 1
         /\ (x + m * y) % m = x /\ (x + m * y) \div m = y
<1> DEFINE p == m * y
<1>1. p \in Nat /\ p <= m * n - m
  <2>1. y <= n - 1
    OBVIOUS
  <2>2. m * y <= m * (n - 1)
    BY <2>1
  <2>3. m * (n - 1) = m * n - m
    OBVIOUS
  <2> QED
    BY <2>2, <2>3
<1>2. (x + m * y) % m = x
  BY RemainderOfMultiple
<1>3. (x + m * y) \div m = y
  BY QuotientIs
<1> QED
  BY <1>1, <1>2, <1>3

\* A halfword of a memory, and a word of it.
LEMMA HalvesOfMemory ==
  ASSUME ram \in [Ram -> Byte], NEW a \in Int
  PROVE  /\ Bytes(a, 2) \subseteq Ram =>
              /\ HalfAt(a) = ram[a] + ByteModulus * ram[a + 1]
              /\ HalfAt(a) \in 0 .. HalfModulus - 1
         /\ Bytes(a, 4) \subseteq Ram /\ WordBits = 4 * ByteBits =>
              WordIn(ram, a) = HalfAt(a) + HalfModulus * HalfAt(a + 2)
<1>1. ByteModulus \in Nat \ {0} /\ HalfModulus = ByteModulus * ByteModulus
  BY ByteFacts, HalfIsTwoBytes
<1>2. HalfModulus \in Nat /\ HalfModulus <= Modulus /\ Modulus \in Nat \ {0}
  BY ByteFacts, PowerType, ModulusFacts DEF HalfModulus, HalfBits
<1>3. ASSUME NEW c \in Int, Bytes(c, 2) \subseteq Ram
      PROVE  /\ HalfAt(c) = ram[c] + ByteModulus * ram[c + 1]
             /\ HalfAt(c) \in 0 .. HalfModulus - 1
  <2>1. ram[c] \in 0 .. ByteModulus - 1 /\ ram[c + 1] \in 0 .. ByteModulus - 1
    BY <1>3 DEF Bytes, Byte
  <2> DEFINE x == ram[c]
             y == ram[c + 1]
             v == x + ByteModulus * y
  <2>2. v \in 0 .. HalfModulus - 1
    <3> HIDE DEF x, y
    <3> QED
      BY <1>1, <2>1, TwoDigits DEF x, y
  <2>3. ByteModulus * y \in 0 .. Modulus - 1
    <3>1. y \in Nat
      BY <2>1
    <3>2. ByteModulus * y \in Nat
      BY <1>1, <3>1
    <3> QED
      BY <1>2, <2>1, <2>2, <3>2
  <2>4. Wrap(y * ByteModulus) = ByteModulus * y
    BY <1>1, <1>2, <2>1, <2>3, WrapWord DEF Word
  <2>5. HalfAt(c) = Wrap(v)
    BY <2>4 DEF HalfAt, ShiftLeft, ByteModulus
  <2> QED
    BY <1>2, <2>2, <2>5, WrapWord DEF Word
<1>4. ASSUME Bytes(a, 4) \subseteq Ram, WordBits = 4 * ByteBits
      PROVE  WordIn(ram, a) = HalfAt(a) + HalfModulus * HalfAt(a + 2)
  <2>1. Bytes(a, 2) \subseteq Ram /\ Bytes(a + 2, 2) \subseteq Ram
    BY <1>4 DEF Bytes
  <2>2. /\ HalfAt(a) = ram[a] + ByteModulus * ram[a + 1] /\ HalfAt(a) \in 0 .. HalfModulus - 1
        /\ HalfAt(a + 2) = ram[a + 2] + ByteModulus * ram[a + 3]
        /\ HalfAt(a + 2) \in 0 .. HalfModulus - 1
    <3>1. a + 2 + 1 = a + 3 /\ a + 2 \in Int
      OBVIOUS
    <3> QED
      BY <1>3, <2>1, <3>1
  <2> DEFINE w0 == ram[a]
             w1 == ram[a + 1]
             w2 == ram[a + 2]
             w3 == ram[a + 3]
             m == ByteModulus
             h == HalfModulus
  <2>3. w0 \in Nat /\ w1 \in Nat /\ w2 \in Nat /\ w3 \in Nat
    BY <1>4, ByteFacts DEF Bytes, Byte
  <2>4. 2^ByteBits = m /\ 2^(2 * ByteBits) = h /\ 2^(3 * ByteBits) = h * m
    <3>1. /\ 2 * ByteBits \in Nat /\ ByteBits \in Nat
          /\ 3 * ByteBits = 2 * ByteBits + ByteBits /\ 2 * ByteBits + ByteBits <= WordBits
      BY <1>4, ByteFacts
    <3>2. 2^(2 * ByteBits + ByteBits) = 2^(2 * ByteBits) * 2^ByteBits
      BY <3>1, PowerOfSum
    <3> QED
      BY <3>1, <3>2 DEF ByteModulus, HalfModulus, HalfBits
  <2> DEFINE total == (w0 + m * w1) + h * (w2 + m * w3)
  <2>5. total \in 0 .. Modulus - 1
    <3>1. Modulus = h * h /\ h \in Nat \ {0}
      BY <1>4, FourBytes
    <3> HIDE DEF h, m, w0, w1, w2, w3
    <3>2. w0 + m * w1 \in 0 .. h - 1 /\ w2 + m * w3 \in 0 .. h - 1
      BY <2>2 DEF h, m, w0, w1, w2, w3
    <3> QED
      BY <3>1, <3>2, TwoDigits
  <2>6. /\ w1 * m \in 0 .. Modulus - 1 /\ w2 * h \in 0 .. Modulus - 1
        /\ w3 * (h * m) \in 0 .. Modulus - 1
        /\ total = w0 + w1 * m + w2 * h + w3 * (h * m)
    <3>1. m \in Nat /\ h \in Nat
      BY <1>1, <1>2
    <3> HIDE DEF m, h, w0, w1, w2, w3
    <3>2. /\ w1 * m \in Nat /\ w2 * h \in Nat /\ w3 * (h * m) \in Nat
          /\ total = w0 + w1 * m + w2 * h + w3 * (h * m)
      <4>1. h * m \in Nat
        BY <3>1
      <4>2. h * (w2 + m * w3) = w2 * h + w3 * (h * m)
        BY <2>3, <3>1
      <4> QED
        BY <2>3, <3>1, <4>1, <4>2
    <3> HIDE DEF total
    <3> QED
      BY <1>2, <2>3, <2>5, <3>2
  <2>7. WordIn(ram, a) = Wrap(total)
    <3>1. /\ Wrap(w1 * m) = w1 * m /\ Wrap(w2 * h) = w2 * h /\ Wrap(w3 * (h * m)) = w3 * (h * m)
      BY <1>2, <2>6, WrapWord DEF Word
    <3>2. WordIn(ram, a) = Wrap(w0 + Wrap(w1 * m) + Wrap(w2 * h) + Wrap(w3 * (h * m)))
      BY <2>4 DEF WordIn, ShiftLeft
    <3> HIDE DEF total, m, h, w0, w1, w2, w3
    <3> QED
      BY <2>6, <3>1, <3>2
  <2>8. Wrap(total) = total
    <3> HIDE DEF total
    <3> QED
      BY <1>2, <2>5, WrapWord DEF Word
  <2> QED
    BY <2>2, <2>7, <2>8
<1> QED
  BY <1>3, <1>4

\* ADD of two registers.
LEMMA AddStep ==
  ASSUME NEW rd \in Register \ {PC}, NEW rn \in Register \ {PC}, NEW rm \in Register \ {PC},
         IInv, Evaluate, phase = "evaluate", instruction = Alu("ADD", rd, rn, Reg(rm))
  PROVE  /\ registers' = [registers EXCEPT ![rd] = Wrap(registers[rn] + registers[rm])]
         /\ Complete /\ UNCHANGED <<memory, instruction, block>>
<1>1. /\ instruction.condition = "AL" /\ instruction.format = "data_processing"
      /\ instruction.opcode = "ADD" /\ instruction.operand2 = Reg(rm)
      /\ instruction.rd = rd /\ instruction.rn = rn
  BY DEF Alu
<1>2. dataProcessingEval
  BY <1>1, AlwaysHandled
<1>3. registers \in [Register -> Word] /\ registers[rn] \in Word /\ registers[rn] + 0 = registers[rn]
  <2>1. registers \in [Register -> Word]
    BY Parts DEF Machine
  <2>2. registers[rn] \in Word
    BY <2>1
  <2>3. registers[rn] + 0 = registers[rn]
    BY <2>2, ModulusFacts DEF Word
  <2> QED
    BY <2>1, <2>2, <2>3
<1>4. Operand1(rn) = registers[rn]
  BY <1>3, WrapWord DEF Operand1
<1>5. \A shifted \in Operand2(Reg(rm)) : shifted.value = registers[rm]
  BY <1>3, PlainOperand
<1>6. PICK shifted \in Operand2(Reg(rm)) :
        registers' = [registers EXCEPT ![rd] = Result("ADD", rn, Operand1(rn), shifted.value)]
  <2>1. "ADD" \notin Tests
    BY DEF Tests
  <2>2. PICK shifted \in Operand2(instruction.operand2) :
          registers' = IF instruction.opcode \in Tests THEN registers
                       ELSE [registers EXCEPT
                               ![instruction.rd] =
                                  Result(instruction.opcode, instruction.rn,
                                         Operand1(instruction.rn), shifted.value)]
    BY <1>2 DEF dataProcessingEval
  <2> QED
    BY <1>1, <2>1, <2>2
<1>7. \A v : Result("ADD", rn, Operand1(rn), v) = Wrap(registers[rn] + v)
  BY <1>4 DEF Result
<1>8. registers' = [registers EXCEPT ![rd] = Wrap(registers[rn] + registers[rm])]
  BY <1>5, <1>6, <1>7
<1> QED
  BY <1>2, <1>8 DEF dataProcessingEval

\* The loads of the walk, in terms of the fields that count.
WalkLoad(t) ==
  /\ t.format = "halfword_data_transfer_immediate_off" /\ t.condition = "AL"
  /\ t.load = TRUE /\ t.s = TRUE /\ t.h = TRUE /\ t.p = FALSE /\ t.u = TRUE
  /\ t.rd = 3 /\ t.rn = 1 /\ t.distance = 2
WalkBack(t) ==
  /\ t.format = "halfword_data_transfer_immediate_off" /\ t.condition = "AL"
  /\ t.load = TRUE /\ t.s = FALSE /\ t.h = TRUE /\ t.p = TRUE /\ t.u = FALSE /\ t.w = TRUE
  /\ t.rd = 3 /\ t.rn = 1 /\ t.distance = 6

\* The seven instructions of the walk.
LEMMA WalkFacts ==
  /\ Len(Walk) = 7 /\ DOMAIN Walk = 1 .. 7
  /\ WalkLoad(Walk[1]) /\ WalkLoad(Walk[3]) /\ WalkLoad(Walk[5]) /\ WalkBack(Walk[7])
  /\ \A k \in {2, 4, 6} : Walk[k] = Alu("ADD", 2, 2, Reg(3))
<1>1. WalkLoad(Post(Ldrsh(3, 1, 2)))
  BY DEF Post, Ldrsh, Half, WalkLoad
<1>2. WalkBack([Down(Ldrh(3, 1, 6)) EXCEPT !.w = TRUE])
  BY DEF Down, Ldrh, Half, WalkBack
<1> DEFINE one == Post(Ldrsh(3, 1, 2))
           add == Alu("ADD", 2, 2, Reg(3))
           back == [Down(Ldrh(3, 1, 6)) EXCEPT !.w = TRUE]
<1>3. Walk = <<one, add, one, add, one, add, back>>
  BY Zenon DEF Walk
<1> HIDE DEF one, add, back
<1> QED
  BY <1>1, <1>2, <1>3 DEF one, add, back

\* What is read, summed and left of the base after k instructions from a base x.
WalkAfter(x, k) ==
  /\ ram = [a \in Ram |-> Pattern(a)]
  /\ registers[1] = IF k = 0 \/ k = 7 THEN x
                    ELSE IF k <= 2 THEN x + 2 ELSE IF k <= 4 THEN x + 4 ELSE x + 6
  /\ registers[2] = Wrap(  (IF k >= 2 THEN Element(x) ELSE 0)
                         + (IF k >= 4 THEN Element(x + 2) ELSE 0)
                         + (IF k >= 6 THEN Element(x + 4) ELSE 0))
  /\ k = 1 => registers[3] = Wrap(Element(x))
  /\ k = 3 => registers[3] = Wrap(Element(x + 2))
  /\ k = 5 => registers[3] = Wrap(Element(x + 4))
  /\ k = 7 => registers[3] = Element(x) % HalfModulus
WalkInv(x) ==
  /\ Straight(Walk)
  /\ phase \notin Lost => WalkAfter(x, Behind(Walk))

\* An element of the array, as the memory holds it.
LEMMA ElementOfMemory ==
  ASSUME WordBits = 4 * ByteBits, ram = [b \in Ram |-> Pattern(b)],
         NEW a \in Nat, a + 1 < MemSize
  PROVE  /\ Element(a) \in Int /\ Bytes(a, 2) \subseteq Ram
         /\ getSigned16(HalfAt(a)) = Wrap(Element(a))
         /\ HalfAt(a) = Element(a) % HalfModulus
<1> DEFINE v == HalfAt(a)
<1>1. /\ ByteModulus \in Nat \ {0} /\ HalfModulus \in Nat \ {0} /\ HalfModulus <= Modulus
      /\ Modulus \in Nat \ {0} /\ MemSize \in Nat
  BY FourBytes, ModulusFacts, MemSizeAssumption
<1>2. ram \in [Ram -> Byte]
  <2>1. ASSUME NEW b \in Ram PROVE Pattern(b) \in Byte
    <3>1. b * 7 + b \div 3 \in Int
      BY <1>1 DEF Ram
    <3> QED
      BY <1>1, <3>1 DEF Pattern, Byte
  <2> QED
    BY <2>1
<1>3. Bytes(a, 2) \subseteq Ram /\ a \in Ram /\ a + 1 \in Ram
  BY <1>1 DEF Bytes, Ram
<1>4. v = Pattern(a) + ByteModulus * Pattern(a + 1) /\ v \in 0 .. HalfModulus - 1
  <2>1. a \in Int
    OBVIOUS
  <2>2. v = ram[a] + ByteModulus * ram[a + 1] /\ v \in 0 .. HalfModulus - 1
    BY <1>2, <1>3, <2>1, HalvesOfMemory
  <2>3. ram[a] = Pattern(a) /\ ram[a + 1] = Pattern(a + 1)
    BY <1>3
  <2> QED
    BY <2>2, <2>3
<1>5. Element(a) = IF 2 * v >= HalfModulus THEN v - HalfModulus ELSE v
  BY <1>4 DEF Element
<1>6. getSigned16(v) = IF 2 * v >= HalfModulus THEN v + Modulus - HalfModulus ELSE v
  BY <1>4, SignedParts
<1> HIDE DEF v
<1>7. Wrap(Element(a)) = getSigned16(v)
  <2>1. CASE 2 * v >= HalfModulus
    <3>1. Element(a) < 0 /\ Element(a) >= -Modulus
      BY <1>1, <1>4, <1>5, <2>1
    <3> QED
      BY <1>1, <1>4, <1>5, <1>6, <2>1, <3>1, WrapNear
  <2>2. CASE ~(2 * v >= HalfModulus)
    <3>1. v \in Word
      BY <1>1, <1>4 DEF Word
    <3> QED
      BY <1>5, <1>6, <2>2, <3>1, WrapWord
  <2> QED
    BY <2>1, <2>2
<1>8. Element(a) % HalfModulus = v
  <2>1. CASE 2 * v >= HalfModulus
    <3>1. Element(a) = v - HalfModulus
      BY <1>5, <2>1
    <3>2. (v - HalfModulus) % HalfModulus = v
      BY <1>1, <1>4
    <3> QED
      BY <3>1, <3>2
  <2>2. CASE ~(2 * v >= HalfModulus)
    BY <1>1, <1>4, <1>5, <2>2
  <2> QED
    BY <2>1, <2>2
<1> QED
  BY <1>1, <1>3, <1>4, <1>5, <1>7, <1>8 DEF v

\* An evaluation takes the walk one instruction further.
LEMMA WalkGoes ==
  ASSUME WordBits = 4 * ByteBits, NEW x \in Middle .. MemSize - 12, WalkInv(x),
         phase = "evaluate", Evaluate, NEW k, k = iter + 1
  PROVE  \/ WalkAfter(x, k)' /\ Complete /\ code' = code /\ registers'[PC] = registers[PC]
         \/ phase' \in Lost /\ code' = code
<1>1. /\ Len(Walk) = 7 /\ DOMAIN Walk = 1 .. 7
      /\ WalkLoad(Walk[1]) /\ WalkLoad(Walk[3]) /\ WalkLoad(Walk[5]) /\ WalkBack(Walk[7])
      /\ \A n \in {2, 4, 6} : Walk[n] = Alu("ADD", 2, 2, Reg(3))
  BY WalkFacts
<1>2. Straight(Walk) /\ IInv /\ Following(Walk) /\ WalkAfter(x, iter)
  BY DEF WalkInv, Straight, Behind, Lost
<1>3. iter \in 0 .. 6 /\ instruction = Walk[iter + 1]
  BY <1>1, <1>2, Parts DEF Control, RunInv, Following, Inside
<1>4. /\ registers \in [Register -> Word] /\ PC \in Register /\ PC \notin {1, 2, 3}
      /\ 1 \in Register /\ 2 \in Register /\ 3 \in Register
  BY <1>2, Parts DEF Machine, Register, PC
<1>5. /\ x \in Nat /\ MemSize \in Nat /\ x + 12 <= MemSize /\ MemSize <= Modulus
      /\ Modulus \in Nat \ {0} /\ \A n \in 0 .. 11 : Wrap(x + n) = x + n
  <2>1. x \in Nat /\ MemSize \in Nat /\ x + 12 <= MemSize /\ MemSize <= Modulus /\ Modulus \in Nat \ {0}
    BY MemSizeAssumption, ModulusFacts DEF Middle
  <2>2. \A n \in 0 .. 11 : x + n \in Word
    BY <2>1 DEF Word
  <2> QED
    BY <2>1, <2>2, WrapWord
<1>6. ASSUME NEW n \in 0 .. 6
      PROVE  /\ Element(x + n) \in Int
             /\ getSigned16(HalfAt(x + n)) = Wrap(Element(x + n))
             /\ HalfAt(x + n) = Element(x + n) % HalfModulus
  <2>1. x + n \in Nat /\ x + n + 1 < MemSize
    BY <1>5
  <2> QED
    BY <1>2, <2>1, ElementOfMemory DEF WalkAfter
<1>7. Element(x) \in Int /\ Element(x + 2) \in Int /\ Element(x + 4) \in Int
  <2>1. x + 0 = x
    BY <1>5
  <2> QED
    BY <1>6, <2>1
<1>8. CASE iter \in {0, 2, 4}
  <2> DEFINE t == instruction
             a == x + iter
  <2>1. WalkLoad(t)
    BY <1>1, <1>3, <1>8
  <2>2. registers[1] = a
    BY <1>2, <1>5, <1>8 DEF WalkAfter
  <2>3. HalfPlace(t) = a /\ HalfNext(t) = a + 2
    <3>1. HalfNext(t) = Wrap(registers[1] + 2)
      BY <2>1 DEF HalfNext, Displaced, WalkLoad
    <3>2. Wrap(a + 2) = a + 2
      BY <1>5, <1>8
    <3> QED
      BY <2>1, <2>2, <3>1, <3>2 DEF HalfPlace, WalkLoad
  <2>4. Loaded(t, a) = Wrap(Element(a))
    <3>1. Loaded(t, a) = getSigned16(HalfAt(a))
      BY <2>1 DEF Loaded, WalkLoad
    <3> QED
      BY <1>6, <1>8, <3>1
  <2>5. /\ code' = code
        /\ \/ /\ registers' = [[registers EXCEPT ![3] = Wrap(Element(a))] EXCEPT ![1] = a + 2]
              /\ ram' = ram /\ Complete
           \/ phase' \in Lost
    <3>1. t.condition = "AL" /\ t.load /\ t.rn # PC /\ t.rd = 3 /\ t.rn = 1 /\ ~t.p
          /\ t.format = "halfword_data_transfer_immediate_off"
      BY <1>4, <2>1 DEF WalkLoad
    <3> HIDE DEF a
    <3> QED
      BY <1>2, <2>3, <2>4, <3>1, HalfStep DEF Based, WritesBack
  <2>6. ASSUME registers' = [[registers EXCEPT ![3] = Wrap(Element(a))] EXCEPT ![1] = a + 2],
               ram' = ram
        PROVE  WalkAfter(x, k)' /\ registers'[PC] = registers[PC]
    <3>1. /\ registers'[1] = a + 2 /\ registers'[3] = Wrap(Element(a))
          /\ registers'[2] = registers[2] /\ registers'[PC] = registers[PC]
      BY <1>4, <2>6
    <3>2. CASE iter = 0
      BY <1>2, <1>5, <2>6, <3>1, <3>2 DEF WalkAfter
    <3>3. CASE iter = 2
      BY <1>2, <1>5, <2>6, <3>1, <3>3 DEF WalkAfter
    <3>4. CASE iter = 4
      BY <1>2, <1>5, <2>6, <3>1, <3>4 DEF WalkAfter
    <3> QED
      BY <1>8, <3>2, <3>3, <3>4
  <2> QED
    BY <2>5, <2>6
<1>9. CASE iter \in {1, 3, 5}
  <2>1. instruction = Alu("ADD", 2, 2, Reg(3))
    BY <1>1, <1>3, <1>9
  <2>2. registers' = [registers EXCEPT ![2] = Wrap(registers[2] + registers[3])]
        /\ Complete /\ UNCHANGED <<ram, code>>
    BY <1>2, <1>4, <2>1, AddStep DEF memory
  <2>3. /\ registers'[2] = Wrap(registers[2] + registers[3]) /\ registers'[1] = registers[1]
        /\ registers'[3] = registers[3] /\ registers'[PC] = registers[PC]
    BY <1>4, <2>2
  <2>4. ASSUME NEW s \in Int, NEW e \in Int PROVE Wrap(Wrap(s) + Wrap(e)) = Wrap(s + e)
    <3>1. Wrap(e) \in Int /\ Wrap(s) \in Int
      BY WrapType, WordRange
    <3>2. Wrap(Wrap(s) + Wrap(e)) = Wrap(s + Wrap(e))
      BY <3>1, WrapAbsorbs
    <3>3. s + Wrap(e) = Wrap(e) + s /\ e + s = s + e
      BY <3>1
    <3>4. Wrap(Wrap(e) + s) = Wrap(e + s)
      BY WrapAbsorbs
    <3> QED
      BY <3>2, <3>3, <3>4
  <2>5. WalkAfter(x, k)'
    <3>1. CASE iter = 1
      <4>1. registers[2] = Wrap(0) /\ registers[3] = Wrap(Element(x))
        BY <1>2, <3>1 DEF WalkAfter
      <4>2. registers'[2] = Wrap(0 + Element(x)) /\ 0 + Element(x) = Element(x)
        <5> DEFINE e == Wrap(Element(x))
        <5>1. Wrap(0) = 0 /\ e \in Word /\ e \in Int /\ Wrap(e) = e
          BY <1>7, WrapType, WrapWord, WordRange
        <5>2. registers'[2] = Wrap(0 + e)
          BY <2>3, <4>1, <5>1
        <5> HIDE DEF e
        <5>3. registers'[2] = e
          BY <5>1, <5>2
        <5> QED
          BY <1>7, <5>3 DEF e
      <4> QED
        BY <1>2, <1>5, <1>7, <2>2, <2>3, <3>1, <4>2 DEF WalkAfter
    <3>2. CASE iter = 3
      <4>1. registers[2] = Wrap(Element(x)) /\ registers[3] = Wrap(Element(x + 2))
        BY <1>2, <1>7, <3>2 DEF WalkAfter
      <4>2. registers'[2] = Wrap(Element(x) + Element(x + 2))
        BY <1>7, <2>3, <2>4, <4>1
      <4> QED
        BY <1>2, <1>5, <1>7, <2>2, <2>3, <3>2, <4>2 DEF WalkAfter
    <3>3. CASE iter = 5
      <4>1. registers[2] = Wrap(Element(x) + Element(x + 2)) /\ registers[3] = Wrap(Element(x + 4))
        BY <1>2, <1>7, <3>3 DEF WalkAfter
      <4>2. registers'[2] = Wrap(Element(x) + Element(x + 2) + Element(x + 4))
        <5> DEFINE s == Element(x) + Element(x + 2)
        <5>1. s \in Int
          BY <1>7
        <5> HIDE DEF s
        <5>2. Wrap(Wrap(s) + Wrap(Element(x + 4))) = Wrap(s + Element(x + 4))
          BY <1>7, <2>4, <5>1
        <5>3. registers'[2] = Wrap(Wrap(s) + Wrap(Element(x + 4)))
          BY <2>3, <4>1 DEF s
        <5> QED
          BY <5>2, <5>3 DEF s
      <4> QED
        BY <1>2, <1>5, <1>7, <2>2, <2>3, <3>3, <4>2 DEF WalkAfter
    <3> QED
      BY <1>9, <3>1, <3>2, <3>3
  <2> QED
    BY <2>2, <2>3, <2>5
<1>10. CASE iter = 6
  <2> DEFINE t == instruction
  <2>1. WalkBack(t) /\ registers[1] = x + 6
    BY <1>1, <1>2, <1>3, <1>10 DEF WalkAfter
  <2>2. HalfPlace(t) = x /\ HalfNext(t) = x
    <3>1. HalfNext(t) = Wrap(registers[1] - 6)
      BY <2>1 DEF HalfNext, Displaced, WalkBack
    <3>2. x + 6 - 6 = x + 0 /\ x + 0 = x
      BY <1>5
    <3>3. HalfNext(t) = x
      BY <1>5, <2>1, <3>1, <3>2
    <3> QED
      BY <2>1, <3>3 DEF HalfPlace, WalkBack
  <2>3. Loaded(t, x) = Element(x) % HalfModulus
    <3>1. Loaded(t, x) = HalfAt(x) /\ x + 0 = x
      BY <1>5, <2>1 DEF Loaded, WalkBack
    <3> QED
      BY <1>6, <3>1
  <2>4. /\ code' = code
        /\ \/ /\ registers' = [[registers EXCEPT ![3] = Element(x) % HalfModulus] EXCEPT ![1] = x]
              /\ ram' = ram /\ Complete
           \/ phase' \in Lost
    <3>1. t.condition = "AL" /\ t.load /\ t.rn # PC /\ t.rd = 3 /\ t.rn = 1 /\ t.w
          /\ t.format = "halfword_data_transfer_immediate_off"
      BY <1>4, <2>1 DEF WalkBack
    <3> QED
      BY <1>2, <2>2, <2>3, <3>1, HalfStep DEF Based, WritesBack
  <2>5. ASSUME registers' = [[registers EXCEPT ![3] = Element(x) % HalfModulus] EXCEPT ![1] = x],
               ram' = ram
        PROVE  WalkAfter(x, k)' /\ registers'[PC] = registers[PC]
    <3>1. /\ registers'[1] = x /\ registers'[3] = Element(x) % HalfModulus
          /\ registers'[2] = registers[2] /\ registers'[PC] = registers[PC]
      BY <1>4, <2>5
    <3> QED
      BY <1>2, <1>10, <2>5, <3>1 DEF WalkAfter
  <2> QED
    BY <2>4, <2>5
<1> QED
  BY <1>3, <1>8, <1>9, <1>10

\* The invariant of the walk next to its steps.
LEMMA WalkStep ==
  ASSUME WordBits = 4 * ByteBits, NEW x \in Middle .. MemSize - 12, WalkInv(x), [Turn]_vars
  PROVE  WalkInv(x)'
<1>1. Len(Walk) = 7 /\ Len(Walk) \in Nat \ {0} /\ DOMAIN Walk = 1 .. Len(Walk)
  BY WalkFacts
<1>2. Straight(Walk)
  BY DEF WalkInv
<1>3. ASSUME phase = "evaluate", Evaluate, NEW k, k = iter + 1
      PROVE  \/ WalkAfter(x, k)' /\ Complete /\ code' = code /\ registers'[PC] = registers[PC]
             \/ phase' \in Lost /\ code' = code
  BY <1>3, WalkGoes
<1>4. ASSUME phase = "evaluate", Evaluate
      PROVE  \/ Complete /\ code' = code /\ registers'[PC] = registers[PC]
             \/ phase' \in Lost /\ code' = code
  BY <1>3, <1>4
<1>5. /\ Straight(Walk)'
      /\ \/ /\ Behind(Walk)' = Behind(Walk) /\ ram' = ram /\ phase \notin Lost
            /\ \A r \in Register \ {PC} : registers'[r] = registers[r]
         \/ /\ phase = "evaluate" /\ Evaluate /\ Behind(Walk)' = iter + 1 /\ phase' \notin Lost
         \/ phase' \in Lost
  BY <1>1, <1>2, <1>4, StraightStep
<1>6. CASE /\ Behind(Walk)' = Behind(Walk) /\ ram' = ram /\ phase \notin Lost
           /\ \A r \in Register \ {PC} : registers'[r] = registers[r]
  <2>1. registers'[1] = registers[1] /\ registers'[2] = registers[2] /\ registers'[3] = registers[3]
    BY <1>6 DEF Register, PC
  <2>2. WalkAfter(x, Behind(Walk))
    BY <1>6 DEF WalkInv
  <2>3. WalkAfter(x, Behind(Walk))'
    BY <1>6, <2>1, <2>2 DEF WalkAfter
  <2> QED
    BY <1>5, <2>3 DEF WalkInv
<1>7. CASE phase = "evaluate" /\ Evaluate /\ Behind(Walk)' = iter + 1 /\ phase' \notin Lost
  <2>1. ASSUME NEW k, k = iter + 1 PROVE WalkAfter(x, Behind(Walk))'
    BY <1>3, <1>7, <2>1 DEF WalkAfter
  <2> QED
    BY <1>5, <2>1 DEF WalkInv
<1> QED
  BY <1>5, <1>6, <1>7 DEF WalkInv

(***************************************************************************)
(* Post-indexed LDRSH adds up an array of signed halfwords and a           *)
(* pre-indexed LDRH with write-back brings the base back to its first      *)
(* element: at every width of four bytes to a word, from every base and    *)
(* every size of the memory.                                               *)
(***************************************************************************)
THEOREM WalkSumsHalfwords ==
  ASSUME NEW base \in Middle .. MemSize - 12, WordBits = 4 * ByteBits
  PROVE  /\ Begins(Walk) /\ registers[1] = base /\ registers[2] = 0
         /\ ram = [a \in Ram |-> Pattern(a)]
         /\ [][Turn]_vars
         => []HalfwordWalk
<1> DEFINE I == WalkInv(base)
           Initially == /\ Begins(Walk) /\ registers[1] = base /\ registers[2] = 0
                        /\ ram = [a \in Ram |-> Pattern(a)]
<1>1. Initially => I
  <2>1. Wrap(0 + 0 + 0) = 0
    BY WordRange, WrapWord
  <2>2. Len(Walk) \in Nat
    BY WalkFacts
  <2>3. Initially => Straight(Walk) /\ Behind(Walk) = 0
    BY <2>2, StraightBegins
  <2> QED
    BY <2>1, <2>3 DEF WalkInv, WalkAfter
<1>2. I /\ [Turn]_vars => I'
  BY WalkStep
<1>3. I => HalfwordWalk
  <2> SUFFICES ASSUME I, phase = "idle"
               PROVE  /\ registers[1] = base
                      /\ registers[2] = Wrap(Element(base) + Element(base + 2) + Element(base + 4))
                      /\ registers[3] = Element(base) % HalfModulus
    BY DEF HalfwordWalk
  <2>1. WalkAfter(base, 7)
    BY WalkFacts DEF WalkInv, Behind, Lost
  <2> QED
    BY <2>1 DEF WalkAfter
<1> HIDE DEF I
<1> QED
  BY <1>1, <1>2, <1>3, PTL

\* A digit is in the upper half of its base if and only if the number above a
\* lower digit is in the upper half of the product.
LEMMA UpperHalf ==
  ASSUME NEW m \in Nat \ {0}, NEW c \in Nat \ {0}, NEW x \in 0 .. m - 1, NEW y \in Nat
  PROVE  x + m * y >= m * c <=> y >= c
<1>1. CASE y >= c
  <2>1. m * (y - c) >= 0 /\ m * (y - c) = m * y - m * c
    BY <1>1
  <2>2. m * y \in Int /\ m * c \in Int
    OBVIOUS
  <2> QED
    BY <1>1, <2>1, <2>2
<1>2. CASE y <= c - 1
  <2>1. m * (c - 1 - y) >= 0 /\ m * (c - 1 - y) = m * c - m - m * y
    BY <1>2
  <2>2. m * y \in Int /\ m * c \in Int
    OBVIOUS
  <2> QED
    BY <1>2, <2>1, <2>2
<1> QED
  BY <1>1, <1>2

\* A word as a two's complement number.
SignedWord(w) == IF NEG(w) THEN w - Modulus ELSE w

\* The signed halves and the signed last byte of a word of four bytes.
LEMMA SignedViews ==
  ASSUME WordBits = 4 * ByteBits, NEW lo \in 0 .. HalfModulus - 1, NEW b2 \in 0 .. ByteModulus - 1,
         NEW b3 \in 0 .. ByteModulus - 1, NEW hi, hi = b2 + ByteModulus * b3,
         NEW w, w = lo + HalfModulus * hi
  PROVE  /\ SignedWord(getSigned16(hi)) = SignedWord(w) \div HalfModulus
         /\ SignedWord(getSigned8(b3)) = SignedWord(w) \div (HalfModulus * ByteModulus)
         /\ SignedWord(getSigned16(lo)) - lo \in {0, -HalfModulus}
         /\ 2 * lo >= HalfModulus <=> SignedWord(getSigned16(lo)) < 0
<1> DEFINE m == ByteModulus
           h == HalfModulus
           c == 2^(ByteBits - 1)
           d == 2^(HalfBits - 1)
<1>1. /\ m \in Nat /\ m >= 2 /\ h = m * m /\ h \in Nat /\ h >= 4 /\ h <= Modulus
      /\ Modulus = h * h /\ 2 * d = h /\ d \in Nat /\ 2 * c = m /\ c \in Nat
      /\ Modulus = 2 * SignBit /\ SignBit \in Nat
  BY FourBytes, ModulusFacts
<1>2. /\ \A v \in 0 .. h - 1 : getSigned16(v) = IF 2 * v >= h THEN v + Modulus - h ELSE v
      /\ \A v \in 0 .. m - 1 : getSigned8(v) = IF 2 * v >= m THEN v + Modulus - m ELSE v
  BY SignedParts
<1>3. hi = b2 + m * b3 /\ w = lo + h * hi
  OBVIOUS
<1>0. lo \in 0 .. h - 1 /\ b2 \in 0 .. m - 1 /\ b3 \in 0 .. m - 1
  OBVIOUS
<1> HIDE DEF m, h, c, d
<1>4. SignBit = h * d /\ d = m * c /\ SignBit >= h /\ h >= m
  <2>1. h * h = 2 * (h * d) /\ h * d \in Nat /\ m * m = 2 * (m * c) /\ m * c \in Nat
    BY <1>1
  <2>2. h * d >= h /\ m * m >= m
    BY <1>1
  <2> QED
    BY <1>1, <2>1, <2>2
<1>5. /\ lo \in 0 .. h - 1 /\ b2 \in 0 .. m - 1 /\ b3 \in 0 .. m - 1 /\ hi \in 0 .. h - 1
  <2>1. m \in Nat \ {0}
    BY <1>1
  <2>2. b2 + m * b3 \in 0 .. m * m - 1
    BY <1>0, <2>1, TwoDigits
  <2> QED
    BY <1>1, <1>3, <1>0, <2>2
<1>6. /\ hi >= d <=> b3 >= c
      /\ w >= SignBit <=> hi >= d
  <2>1. c \in Nat \ {0} /\ m \in Nat \ {0} /\ d \in Nat \ {0} /\ h \in Nat \ {0}
        /\ b3 \in Nat /\ hi \in Nat
    BY <1>1, <1>5
  <2>2. hi >= m * c <=> b3 >= c
    BY <1>3, <1>5, <2>1, UpperHalf
  <2>3. w >= h * d <=> hi >= d
    BY <1>3, <1>5, <2>1, UpperHalf
  <2> QED
    BY <1>4, <2>2, <2>3
<1>7. ASSUME NEW v \in 0 .. h - 1
      PROVE  SignedWord(getSigned16(v)) = IF v >= d THEN v - h ELSE v
  <2>1. CASE 2 * v >= h
    <3>1. getSigned16(v) = v + Modulus - h /\ v >= d
      BY <1>1, <1>2, <2>1
    <3>2. v + Modulus - h >= SignBit
      BY <1>1, <1>4
    <3> QED
      BY <1>1, <3>1, <3>2 DEF SignedWord, NEG
  <2>2. CASE ~(2 * v >= h)
    <3>1. getSigned16(v) = v /\ ~(v >= d) /\ ~(v >= SignBit)
      BY <1>1, <1>2, <1>4, <2>2
    <3> QED
      BY <3>1 DEF SignedWord, NEG
  <2> QED
    BY <2>1, <2>2
<1>8. SignedWord(getSigned8(b3)) = IF b3 >= c THEN b3 - m ELSE b3
  <2>1. CASE 2 * b3 >= m
    <3>1. getSigned8(b3) = b3 + Modulus - m /\ b3 >= c
      BY <1>1, <1>2, <1>5, <2>1
    <3>2. b3 + Modulus - m >= SignBit
      BY <1>1, <1>4, <1>5
    <3> QED
      BY <1>1, <1>5, <3>1, <3>2 DEF SignedWord, NEG
  <2>2. CASE ~(2 * b3 >= m)
    <3>1. getSigned8(b3) = b3 /\ ~(b3 >= c) /\ ~(b3 >= SignBit)
      BY <1>1, <1>2, <1>4, <1>5, <2>2, SMTT(30)
    <3> QED
      BY <3>1 DEF SignedWord, NEG
  <2> QED
    BY <2>1, <2>2
<1>9. SignedWord(w) = IF hi >= d THEN w - Modulus ELSE w
  BY <1>6 DEF SignedWord, NEG
<1>10. SignedWord(getSigned16(hi)) = SignedWord(w) \div h
  <2> DEFINE q == IF hi >= d THEN hi - h ELSE hi
  <2>1. SignedWord(w) = h * q + lo
    BY <1>1, <1>3, <1>5, <1>9
  <2>2. h \in Nat \ {0} /\ q \in Int
    BY <1>1, <1>5
  <2>3. q = SignedWord(getSigned16(hi))
    BY <1>5, <1>7
  <2> HIDE DEF q
  <2>4. (h * q + lo) \div h = q
    BY <1>5, <2>2, QuotientIs
  <2> QED
    BY <2>1, <2>3, <2>4
<1>11. SignedWord(getSigned8(b3)) = SignedWord(w) \div (h * m)
  <2> DEFINE q == IF b3 >= c THEN b3 - m ELSE b3
             r == lo + h * b2
             p == h * m
  <2>1. r \in 0 .. p - 1
    BY <1>1, <1>5, TwoDigits
  <2>2. p * q + r = SignedWord(w)
    <3>1. h * m * m = h * h /\ h * (b2 + m * b3) = h * b2 + h * m * b3
      BY <1>1, <1>5
    <3>2. w = lo + h * b2 + h * m * b3
      <4>1. w = lo + h * (b2 + m * b3)
        BY <1>3
      <4>2. lo \in Int /\ h * b2 \in Int /\ h * m * b3 \in Int
        <5>1. h * m \in Int
          BY <1>1
        <5> QED
          BY <1>1, <1>5, <5>1
      <4> DEFINE y == h * b2
                 z == h * m * b3
      <4>3. h * (b2 + m * b3) = y + z
        BY <3>1
      <4> HIDE DEF y, z
      <4>4. w = lo + y + z
        <5>1. y \in Int /\ z \in Int
          BY <4>2 DEF y, z
        <5> QED
          BY <4>1, <4>2, <4>3, <5>1
      <4> QED
        BY <4>4 DEF y, z
    <3>3. CASE b3 >= c
      <4>1. p * q = h * m * b3 - h * m * m
        BY <1>1, <1>5, <3>3
      <4>2. SignedWord(w) = w - Modulus
        BY <1>6, <1>9, <3>3
      <4> QED
        BY <1>1, <1>5, <3>1, <3>2, <4>1, <4>2
    <3>4. CASE ~(b3 >= c)
      <4>1. p * q = h * m * b3
        BY <1>1, <1>5, <3>4
      <4>2. SignedWord(w) = w
        BY <1>6, <1>9, <3>4
      <4> QED
        BY <1>1, <1>5, <3>2, <4>1, <4>2
    <3> QED
      BY <3>3, <3>4
  <2>3. p \in Nat \ {0} /\ q \in Int
    BY <1>1, <1>5
  <2>4. q = SignedWord(getSigned8(b3))
    BY <1>8
  <2> HIDE DEF q, r
  <2>5. (p * q + r) \div p = q
    <3> HIDE DEF p
    <3> QED
      BY <2>1, <2>3, QuotientIs
  <2> QED
    BY <2>2, <2>4, <2>5
<1>12. /\ SignedWord(getSigned16(lo)) - lo \in {0, -h}
       /\ 2 * lo >= h <=> SignedWord(getSigned16(lo)) < 0
  BY <1>1, <1>5, <1>7
<1> QED
  BY <1>10, <1>11, <1>12 DEF h, m

\* A word that is stored or loaded at the address in a register.
LEMMA WordStep ==
  ASSUME IInv, Evaluate, phase = "evaluate", NEW rd \in Register \ {PC},
         NEW rn \in Register \ {PC}, instruction \in {Ldr(rd, rn, 0), Str(rd, rn, 0)}
  PROVE  /\ UNCHANGED <<cpsr, code, programSize, instruction, block>>
         /\ \/ /\ Bytes(registers[rn], 4) \subseteq Ram /\ Complete
               /\ \/ /\ instruction.load /\ ram' = ram
                     /\ registers' = [registers EXCEPT ![rd] = WordIn(ram, registers[rn])]
                  \/ /\ ~instruction.load /\ registers' = registers
                     /\ ram' = AfterStore(ram, registers[rn], 4, registers[rd])
            \/ phase' \in Lost
<1> DEFINE s == instruction
<1>1. /\ s.condition = "AL" /\ s.format = "single_data_transfer"
      /\ ~s.b /\ s.p /\ s.u /\ ~s.w
      /\ s.rn = rn /\ s.rd = rd /\ s.offset = [kind |-> "distance", value |-> 0]
  BY DEF Ldr, Str, Transfer
<1>2. Offsets(s) = {0}
  <2>1. s.offset.kind = "distance" /\ s.offset.value = 0
    BY <1>1
  <2> QED
    BY <2>1, Zenon DEF Offsets
<1>3. /\ UNCHANGED <<cpsr, code, programSize, instruction, block>>
      /\ \/ /\ Data(Touched(s, 0))
            /\ Load(s, 0) \/ Store(s, 0)
            /\ Complete
         \/ phase' \in Lost /\ UNCHANGED <<registers, ram>>
  <2> HIDE DEF s
  <2>1. s = instruction
    BY DEF s
  <2> QED
    BY <1>1, <1>2, <2>1, SingleStep
<1>4. registers[rn] \in Word /\ registers[rd] \in Word
  BY Parts DEF Machine
<1>5. registers[rn] + 0 = registers[rn] /\ registers[rd] + 0 = registers[rd]
  BY <1>4, ModulusFacts DEF Word
<1>6. Base(s) = registers[rn] /\ Stored(s) = registers[rd]
  BY <1>1, <1>4, <1>5, WrapWord DEF Base, Stored
<1>7. Address(s, 0) = registers[rn]
  BY <1>1, <1>5, <1>6 DEF Address, Indexed
<1>8. Data(Touched(s, 0)) => Bytes(registers[rn], 4) \subseteq Ram
  BY <1>1, <1>7 DEF Touched, Data
<1>9. ASSUME Load(s, 0)
      PROVE  /\ s.load /\ ram' = ram
             /\ registers' = [registers EXCEPT ![rd] = WordIn(ram, registers[rn])]
  BY <1>1, <1>7, <1>9 DEF Load, WriteBack, WordAt
<1>10. ASSUME Store(s, 0)
       PROVE  /\ ~s.load /\ registers' = registers
              /\ ram' = AfterStore(ram, registers[rn], 4, registers[rd])
  BY <1>1, <1>6, <1>7, <1>10 DEF Store, WriteBack, StoreBytes
<1> QED
  BY <1>3, <1>8, <1>9, <1>10

\* A pre-indexed halfword transfer from the base r1 without write-back.
Plainly(t, rd, distance) ==
  /\ t.format = "halfword_data_transfer_immediate_off" /\ t.condition = "AL"
  /\ t.p = TRUE /\ t.u = TRUE /\ t.w = FALSE
  /\ t.rd = rd /\ t.rn = 1 /\ t.distance = distance
LoadsHalf(t, rd, n) == Plainly(t, rd, n) /\ t.load = TRUE /\ t.s = FALSE /\ t.h = TRUE
LoadsSignedHalf(t, rd, n) == Plainly(t, rd, n) /\ t.load = TRUE /\ t.s = TRUE /\ t.h = TRUE
LoadsSignedByte(t, rd, n) == Plainly(t, rd, n) /\ t.load = TRUE /\ t.s = TRUE /\ t.h = FALSE
StoresHalf(t, rd, n) == Plainly(t, rd, n) /\ t.load = FALSE /\ t.s = FALSE /\ t.h = TRUE

\* The two programs.
LEMMA ViewPrograms ==
  /\ Len(Views) = 6 /\ DOMAIN Views = 1 .. 6
  /\ Views[1] = Str(0, 1, 0)
  /\ LoadsHalf(Views[2], 2, 0) /\ LoadsHalf(Views[3], 3, 2)
  /\ LoadsSignedHalf(Views[4], 4, 2) /\ LoadsSignedByte(Views[5], 5, 3)
  /\ LoadsSignedHalf(Views[6], 6, 0)
  /\ Len(Join) = 3 /\ DOMAIN Join = 1 .. 3
  /\ StoresHalf(Join[1], 0, 0) /\ StoresHalf(Join[2], 2, 2)
  /\ Join[3] = Ldr(3, 1, 0)
<1>1. /\ LoadsHalf(Ldrh(2, 1, 0), 2, 0) /\ LoadsHalf(Ldrh(3, 1, 2), 3, 2)
      /\ LoadsSignedHalf(Ldrsh(4, 1, 2), 4, 2) /\ LoadsSignedByte(Ldrsb(5, 1, 3), 5, 3)
      /\ LoadsSignedHalf(Ldrsh(6, 1, 0), 6, 0)
      /\ StoresHalf(Strh(0, 1, 0), 0, 0) /\ StoresHalf(Strh(2, 1, 2), 2, 2)
  BY DEF Ldrh, Ldrsh, Ldrsb, Strh, Half, Plainly, LoadsHalf, LoadsSignedHalf, LoadsSignedByte,
         StoresHalf
<1>2. /\ Views[1] = Str(0, 1, 0) /\ Views[2] = Ldrh(2, 1, 0) /\ Views[3] = Ldrh(3, 1, 2)
      /\ Views[4] = Ldrsh(4, 1, 2) /\ Views[5] = Ldrsb(5, 1, 3) /\ Views[6] = Ldrsh(6, 1, 0)
      /\ Len(Views) = 6 /\ DOMAIN Views = 1 .. 6
  BY DEF Views
<1>3. /\ Join[1] = Strh(0, 1, 0) /\ Join[2] = Strh(2, 1, 2) /\ Join[3] = Ldr(3, 1, 0)
      /\ Len(Join) = 3 /\ DOMAIN Join = 1 .. 3
  BY DEF Join
<1> QED
  BY <1>1, <1>2, <1>3

\* An address in a word of the memory is not wrapped.
LEMMA PlaceInside ==
  ASSUME IInv, NEW t, NEW n \in 0 .. 4, t.rn = 1, t.p = TRUE, t.u = TRUE, t.distance = n,
         registers[1] \in Ram
  PROVE  HalfPlace(t) = registers[1] + n /\ HalfPlace(t) \in Word
<1>1. registers[1] + n \in Word
  BY BufferAssumption, MemSizeAssumption, ModulusFacts DEF Ram, Word
<1> QED
  BY <1>1, WrapWord DEF HalfPlace, HalfNext, Displaced

\* A load of a halfword or a byte of a word in the memory.
LEMMA ViewStep ==
  ASSUME IInv, Evaluate, phase = "evaluate", NEW t, instruction = t, NEW rd \in Register,
         NEW n \in 0 .. 4, Plainly(t, rd, n), t.load = TRUE, registers[1] \in Ram
  PROVE  /\ UNCHANGED code
         /\ \/ /\ registers' = [registers EXCEPT ![rd] = Loaded(t, registers[1] + n)]
               /\ ram' = ram /\ Complete
            \/ phase' \in Lost
<1>1. HalfPlace(t) = registers[1] + n
  BY PlaceInside DEF Plainly
<1>2. /\ t.condition = "AL" /\ t.format = "halfword_data_transfer_immediate_off" /\ t.rn # PC
      /\ t.load /\ ~t.w /\ t.p /\ t.rd = rd
  BY DEF Plainly, PC
<1> DEFINE a == HalfPlace(t)
<1>3. \A file, b : Based(t, file, b) = file
  BY <1>2 DEF Based, WritesBack
<1>4. /\ UNCHANGED code
      /\ \/ /\ registers' = Based(t, [registers EXCEPT ![t.rd] = Loaded(t, a)], HalfNext(t))
            /\ ram' = ram /\ Complete
         \/ phase' \in Lost
  BY <1>2, HalfStep
<1> QED
  BY <1>1, <1>2, <1>3, <1>4

\* What is stored and seen after k instructions of Views.
Upper == HalfAt(registers[1] + 2)
ViewsAfter(k) ==
  /\ k >= 1 => Bytes(registers[1], 4) \subseteq Ram /\ WordIn(ram, registers[1]) = registers[0]
  /\ k >= 2 => registers[2] = HalfAt(registers[1])
  /\ k >= 3 => registers[3] = Upper
  /\ k >= 4 => registers[4] = getSigned16(Upper)
  /\ k >= 5 => registers[5] = getSigned8(ram[registers[1] + 3])
  /\ k >= 6 => registers[6] = getSigned16(HalfAt(registers[1]))
ViewsInv ==
  /\ Straight(Views)
  /\ phase \notin Lost => ViewsAfter(Behind(Views))

\* One more view in its register, and the others as they were.
ViewAdded(v) ==
  /\ registers'[iter + 1] = v /\ registers'[PC] = registers[PC]
  /\ registers'[0] = registers[0] /\ registers'[1] = registers[1]
  /\ iter >= 2 => registers'[2] = registers[2]
  /\ iter >= 3 => registers'[3] = registers[3]
  /\ iter >= 4 => registers'[4] = registers[4]
  /\ iter >= 5 => registers'[5] = registers[5]
  /\ Upper' = Upper /\ HalfAt(registers[1])' = HalfAt(registers[1])

\* What a step of Views does if it does not lose the machine.
LEMMA ViewsGo ==
  ASSUME WordBits = 4 * ByteBits, ViewsInv, phase = "evaluate", Evaluate, NEW k, k = iter + 1
  PROVE  \/ ViewsAfter(k)' /\ Complete /\ code' = code /\ registers'[PC] = registers[PC]
         \/ phase' \in Lost /\ code' = code
<1>1. Straight(Views) /\ IInv /\ Following(Views) /\ ViewsAfter(iter)
  BY DEF ViewsInv, Straight, Behind, Lost
<1>2. iter \in 0 .. 5 /\ instruction = Views[iter + 1]
  BY <1>1, ViewPrograms, Parts DEF Control, RunInv, Following, Inside
<1>3. /\ registers \in [Register -> Word] /\ ram \in [Ram -> Byte] /\ PC \in Register
      /\ \A r \in 0 .. 6 : r \in Register \ {PC}
      /\ registers[0] \in Word /\ registers[1] \in Int
  <2>1. registers \in [Register -> Word] /\ ram \in [Ram -> Byte]
    BY <1>1, Parts DEF Machine
  <2>2. 0 \in Register /\ 1 \in Register /\ PC \in Register /\ \A r \in 0 .. 6 : r \in Register \ {PC}
    BY DEF Register, PC
  <2>3. registers[0] \in Word /\ registers[1] \in Word
    BY <2>1, <2>2
  <2> QED
    BY <2>1, <2>2, <2>3, WordRange
<1>4. CASE iter = 0
  <2>1. instruction = Str(0, 1, 0) /\ ~instruction.load
    <3>1. iter + 1 = 1
      BY <1>4
    <3>2. instruction = Str(0, 1, 0)
      BY <1>2, <3>1, ViewPrograms, Zenon
    <3> QED
      BY <3>2 DEF Str, Transfer
  <2>2. /\ code' = code
        /\ \/ /\ Bytes(registers[1], 4) \subseteq Ram /\ Complete
              /\ ram' = AfterStore(ram, registers[1], 4, registers[0])
              /\ registers' = registers
           \/ phase' \in Lost
    <3>1. 0 \in Register \ {PC} /\ 1 \in Register \ {PC}
      BY <1>3
    <3> QED
      BY <1>1, <2>1, <3>1, WordStep
  <2>3. ASSUME Bytes(registers[1], 4) \subseteq Ram,
               ram' = AfterStore(ram, registers[1], 4, registers[0]), registers' = registers
        PROVE  ViewsAfter(k)'
    <3>1. WordIn(AfterStore(ram, registers[1], 4, registers[0]), registers[1]) = registers[0]
      BY <1>3, <2>3, StoredWordsReadBack
    <3> QED
      BY <1>4, <2>3, <3>1 DEF ViewsAfter
  <2> QED
    BY <2>2, <2>3
<1>5. CASE iter \in 1 .. 5
  <2>1. Bytes(registers[1], 4) \subseteq Ram /\ registers[1] \in Int
    BY <1>1, <1>3, <1>5 DEF ViewsAfter
  <2>2. registers[1] \in Ram /\ registers[1] + 0 = registers[1]
    BY <2>1 DEF Bytes
  <2>3. ASSUME NEW n \in 0 .. 4, Plainly(instruction, iter + 1, n), instruction.load = TRUE, NEW v,
               Loaded(instruction, registers[1] + n) = v
        PROVE  /\ code' = code
               /\ \/ registers' = [registers EXCEPT ![iter + 1] = v] /\ ram' = ram /\ Complete
                  \/ phase' \in Lost
    <3> DEFINE t == instruction
               rd == iter + 1
    <3>1. rd \in Register /\ t = instruction
      BY <1>3, <1>5
    <3>2. n \in 0 .. 4 /\ Plainly(t, rd, n) /\ t.load = TRUE /\ Loaded(t, registers[1] + n) = v
      BY <2>3
    <3> HIDE DEF t, rd
    <3>3. /\ UNCHANGED code
          /\ \/ /\ registers' = [registers EXCEPT ![rd] = Loaded(t, registers[1] + n)]
                /\ ram' = ram /\ Complete
             \/ phase' \in Lost
      BY <1>1, <2>2, <3>1, <3>2, ViewStep, ZenonT(60)
    <3> QED
      BY <3>2, <3>3 DEF rd
  <2>4. ASSUME NEW v, registers' = [registers EXCEPT ![iter + 1] = v], ram' = ram
        PROVE  ViewAdded(v)
    <3>1. iter + 1 \in Register \ {PC} /\ \A r \in 0 .. iter : r \in Register /\ r # iter + 1
      BY <1>3, <1>5
    <3>2. \A r \in 0 .. iter : registers'[r] = registers[r]
      BY <1>3, <2>4, <3>1
    <3>3. /\ 0 \in 0 .. iter /\ 1 \in 0 .. iter /\ (iter >= 2 => 2 \in 0 .. iter)
          /\ (iter >= 3 => 3 \in 0 .. iter) /\ (iter >= 4 => 4 \in 0 .. iter)
          /\ (iter >= 5 => 5 \in 0 .. iter)
      BY <1>5
    <3>4. registers'[iter + 1] = v /\ registers'[PC] = registers[PC]
      BY <1>3, <2>4, <3>1
    <3> QED
      BY <2>4, <3>2, <3>3, <3>4 DEF ViewAdded, Upper, HalfAt
  <2>5. CASE iter = 1
    <3>1. LoadsHalf(instruction, iter + 1, 0)
      <4>1. iter + 1 = 2
        BY <2>5
      <4> QED
        BY <1>2, <4>1, ViewPrograms, Zenon
    <3>2. Loaded(instruction, registers[1] + 0) = HalfAt(registers[1])
      BY <2>2, <3>1 DEF LoadsHalf, Loaded
    <3>3. /\ code' = code
          /\ \/ registers' = [registers EXCEPT ![iter + 1] = HalfAt(registers[1])]
                /\ ram' = ram /\ Complete
             \/ phase' \in Lost
      <4>1. 0 \in 0 .. 4 /\ Plainly(instruction, iter + 1, 0) /\ instruction.load = TRUE
        BY <3>1 DEF LoadsHalf
      <4> QED
        BY <2>3, <3>2, <4>1, Zenon
    <3>4. ASSUME registers' = [registers EXCEPT ![iter + 1] = HalfAt(registers[1])], ram' = ram
          PROVE  ViewsAfter(k)' /\ registers'[PC] = registers[PC]
      <4>1. ViewAdded(HalfAt(registers[1]))
        BY <2>4, <3>4, Zenon
      <4> QED
        BY <1>1, <2>5, <3>4, <4>1 DEF ViewsAfter, ViewAdded
    <3> QED
      BY <3>3, <3>4
  <2>6. CASE iter = 2
    <3>1. LoadsHalf(instruction, iter + 1, 2)
      <4>1. iter + 1 = 3
        BY <2>6
      <4> QED
        BY <1>2, <4>1, ViewPrograms, Zenon
    <3>2. Loaded(instruction, registers[1] + 2) = Upper
      BY <3>1 DEF LoadsHalf, Loaded, Upper
    <3>3. /\ code' = code
          /\ \/ registers' = [registers EXCEPT ![iter + 1] = Upper] /\ ram' = ram /\ Complete
             \/ phase' \in Lost
      <4>1. 2 \in 0 .. 4 /\ Plainly(instruction, iter + 1, 2) /\ instruction.load = TRUE
        BY <3>1 DEF LoadsHalf
      <4> QED
        BY <2>3, <3>2, <4>1, Zenon
    <3>4. ASSUME registers' = [registers EXCEPT ![iter + 1] = Upper], ram' = ram
          PROVE  ViewsAfter(k)' /\ registers'[PC] = registers[PC]
      <4>1. ViewAdded(Upper)
        BY <2>4, <3>4, Zenon
      <4> QED
        BY <1>1, <2>6, <3>4, <4>1 DEF ViewsAfter, ViewAdded
    <3> QED
      BY <3>3, <3>4
  <2>7. CASE iter = 3
    <3>1. LoadsSignedHalf(instruction, iter + 1, 2)
      <4>1. iter + 1 = 4
        BY <2>7
      <4> QED
        BY <1>2, <4>1, ViewPrograms, Zenon
    <3>2. Loaded(instruction, registers[1] + 2) = getSigned16(Upper)
      BY <3>1 DEF LoadsSignedHalf, Loaded, Upper
    <3>3. /\ code' = code
          /\ \/ registers' = [registers EXCEPT ![iter + 1] = getSigned16(Upper)]
                /\ ram' = ram /\ Complete
             \/ phase' \in Lost
      <4>1. 2 \in 0 .. 4 /\ Plainly(instruction, iter + 1, 2) /\ instruction.load = TRUE
        BY <3>1 DEF LoadsSignedHalf
      <4> QED
        BY <2>3, <3>2, <4>1, Zenon
    <3>4. ASSUME registers' = [registers EXCEPT ![iter + 1] = getSigned16(Upper)],
                 ram' = ram
          PROVE  ViewsAfter(k)' /\ registers'[PC] = registers[PC]
      <4>1. ViewAdded(getSigned16(Upper))
        BY <2>4, <3>4, Zenon
      <4> QED
        BY <1>1, <2>7, <3>4, <4>1 DEF ViewsAfter, ViewAdded
    <3> QED
      BY <3>3, <3>4
  <2>8. CASE iter = 4
    <3>1. LoadsSignedByte(instruction, iter + 1, 3)
      <4>1. iter + 1 = 5
        BY <2>8
      <4> QED
        BY <1>2, <4>1, ViewPrograms, Zenon
    <3>2. Loaded(instruction, registers[1] + 3) = getSigned8(ram[registers[1] + 3])
      BY <3>1 DEF LoadsSignedByte, Loaded
    <3>3. /\ code' = code
          /\ \/ registers' = [registers EXCEPT ![iter + 1] = getSigned8(ram[registers[1] + 3])]
                /\ ram' = ram /\ Complete
             \/ phase' \in Lost
      <4>1. 3 \in 0 .. 4 /\ Plainly(instruction, iter + 1, 3) /\ instruction.load = TRUE
        BY <3>1 DEF LoadsSignedByte
      <4> QED
        BY <2>3, <3>2, <4>1, Zenon
    <3>4. ASSUME registers' = [registers EXCEPT ![iter + 1] = getSigned8(ram[registers[1] + 3])],
                 ram' = ram
          PROVE  ViewsAfter(k)' /\ registers'[PC] = registers[PC]
      <4>1. ViewAdded(getSigned8(ram[registers[1] + 3]))
        BY <2>4, <3>4, Zenon
      <4> QED
        BY <1>1, <2>8, <3>4, <4>1 DEF ViewsAfter, ViewAdded
    <3> QED
      BY <3>3, <3>4
  <2>9. CASE iter = 5
    <3>1. LoadsSignedHalf(instruction, iter + 1, 0)
      <4>1. iter + 1 = 6
        BY <2>9
      <4> QED
        BY <1>2, <4>1, ViewPrograms, Zenon
    <3>2. Loaded(instruction, registers[1] + 0) = getSigned16(HalfAt(registers[1]))
      BY <2>2, <3>1 DEF LoadsSignedHalf, Loaded
    <3>3. /\ code' = code
          /\ \/ registers' = [registers EXCEPT ![iter + 1] = getSigned16(HalfAt(registers[1]))]
                /\ ram' = ram /\ Complete
             \/ phase' \in Lost
      <4>1. 0 \in 0 .. 4 /\ Plainly(instruction, iter + 1, 0) /\ instruction.load = TRUE
        BY <3>1 DEF LoadsSignedHalf
      <4> QED
        BY <2>3, <3>2, <4>1, Zenon
    <3>4. ASSUME registers' = [registers EXCEPT ![iter + 1] = getSigned16(HalfAt(registers[1]))],
                 ram' = ram
          PROVE  ViewsAfter(k)' /\ registers'[PC] = registers[PC]
      <4>1. ViewAdded(getSigned16(HalfAt(registers[1])))
        BY <2>4, <3>4, Zenon
      <4> QED
        BY <1>1, <2>9, <3>4, <4>1 DEF ViewsAfter, ViewAdded
    <3> QED
      BY <3>3, <3>4
  <2> QED
    BY <1>5, <2>5, <2>6, <2>7, <2>8, <2>9
<1> QED
  BY <1>2, <1>4, <1>5

\* The invariant of Views next to its steps.
LEMMA ViewsStep == ASSUME WordBits = 4 * ByteBits, ViewsInv, [Turn]_vars PROVE ViewsInv'
<1>1. Len(Views) \in Nat \ {0} /\ DOMAIN Views = 1 .. Len(Views)
  BY ViewPrograms
<1>2. Straight(Views)
  BY DEF ViewsInv
<1>3. ASSUME phase = "evaluate", Evaluate, NEW k, k = iter + 1
      PROVE  \/ ViewsAfter(k)' /\ Complete /\ code' = code /\ registers'[PC] = registers[PC]
             \/ phase' \in Lost /\ code' = code
  BY <1>3, ViewsGo
<1>4. ASSUME phase = "evaluate", Evaluate
      PROVE  \/ Complete /\ code' = code /\ registers'[PC] = registers[PC]
             \/ phase' \in Lost /\ code' = code
  BY <1>3, <1>4
<1>5. /\ Straight(Views)'
      /\ \/ /\ Behind(Views)' = Behind(Views) /\ ram' = ram /\ phase \notin Lost
            /\ \A r \in Register \ {PC} : registers'[r] = registers[r]
         \/ /\ phase = "evaluate" /\ Evaluate /\ Behind(Views)' = iter + 1 /\ phase' \notin Lost
         \/ phase' \in Lost
  BY <1>1, <1>2, <1>4, StraightStep
<1>6. CASE /\ Behind(Views)' = Behind(Views) /\ ram' = ram /\ phase \notin Lost
           /\ \A r \in Register \ {PC} : registers'[r] = registers[r]
  <2>1. /\ registers'[0] = registers[0] /\ registers'[1] = registers[1]
        /\ registers'[2] = registers[2] /\ registers'[3] = registers[3]
        /\ registers'[4] = registers[4] /\ registers'[5] = registers[5]
        /\ registers'[6] = registers[6]
    BY <1>6 DEF Register, PC
  <2>2. ViewsAfter(Behind(Views))
    BY <1>6 DEF ViewsInv
  <2>3. ViewsAfter(Behind(Views))'
    BY <1>6, <2>1, <2>2 DEF ViewsAfter, HalfAt, Upper
  <2> QED
    BY <1>5, <2>3 DEF ViewsInv
<1>7. CASE phase = "evaluate" /\ Evaluate /\ Behind(Views)' = iter + 1 /\ phase' \notin Lost
  <2>1. ASSUME NEW k, k = iter + 1 PROVE ViewsAfter(Behind(Views))'
    BY <1>3, <1>7, <2>1 DEF ViewsAfter
  <2> QED
    BY <1>5, <2>1 DEF ViewsInv
<1> QED
  BY <1>5, <1>6, <1>7 DEF ViewsInv

\* What the views of a word are worth at the end.
LEMMA ViewsEnd ==
  ASSUME WordBits = 4 * ByteBits, ViewsInv, phase = "idle"
  PROVE  /\ HalfModulus * registers[3] + registers[2] = registers[0]
         /\ Wide(4) = Wide(0) \div HalfModulus
         /\ Wide(5) = Wide(0) \div (HalfModulus * ByteModulus)
         /\ (Wide(6) - registers[2]) \in {0, -HalfModulus}
         /\ 2 * registers[2] >= HalfModulus <=> Wide(6) < 0
<1>1. IInv /\ ViewsAfter(6)
  BY ViewPrograms DEF ViewsInv, Straight, Behind, Lost
<1>2. registers \in [Register -> Word] /\ ram \in [Ram -> Byte] /\ registers[1] \in Int
  <2>1. registers \in [Register -> Word] /\ ram \in [Ram -> Byte]
    BY <1>1, Parts DEF Machine
  <2>2. registers[1] \in Word
    BY <2>1 DEF Register
  <2> QED
    BY <2>1, <2>2, WordRange
<1> DEFINE a == registers[1]
           lo == HalfAt(a)
           hi == HalfAt(a + 2)
           b2 == ram[a + 2]
           b3 == ram[a + 3]
<1>3. /\ Bytes(a, 4) \subseteq Ram /\ WordIn(ram, a) = registers[0]
      /\ registers[2] = lo /\ registers[3] = hi
      /\ registers[4] = getSigned16(hi) /\ registers[5] = getSigned8(b3)
      /\ registers[6] = getSigned16(lo)
  BY <1>1 DEF ViewsAfter, Upper
<1>4. Bytes(a, 2) \subseteq Ram /\ Bytes(a + 2, 2) \subseteq Ram /\ a + 2 \in Int
      /\ a + 2 + 1 = a + 3 /\ a + 2 \in Ram /\ a + 3 \in Ram
  BY <1>2, <1>3 DEF Bytes
<1>5. /\ lo \in 0 .. HalfModulus - 1 /\ hi \in 0 .. HalfModulus - 1
      /\ hi = b2 + ByteModulus * b3
      /\ registers[0] = lo + HalfModulus * hi
  <2>1. /\ HalfAt(a) \in 0 .. HalfModulus - 1
        /\ WordIn(ram, a) = HalfAt(a) + HalfModulus * HalfAt(a + 2)
    BY <1>2, <1>3, <1>4, HalvesOfMemory
  <2>2. HalfAt(a + 2) = ram[a + 2] + ByteModulus * ram[a + 2 + 1]
        /\ HalfAt(a + 2) \in 0 .. HalfModulus - 1
    BY <1>2, <1>4, HalvesOfMemory
  <2> QED
    BY <1>3, <1>4, <2>1, <2>2
<1>6. b2 \in 0 .. ByteModulus - 1 /\ b3 \in 0 .. ByteModulus - 1
  BY <1>2, <1>4 DEF Byte
<1>7. HalfModulus \in Nat
  BY FourBytes
<1> HIDE DEF lo, hi, b2, b3
<1>8. /\ SignedWord(getSigned16(hi)) = SignedWord(registers[0]) \div HalfModulus
      /\ SignedWord(getSigned8(b3)) = SignedWord(registers[0]) \div (HalfModulus * ByteModulus)
      /\ SignedWord(getSigned16(lo)) - lo \in {0, -HalfModulus}
      /\ 2 * lo >= HalfModulus <=> SignedWord(getSigned16(lo)) < 0
  BY <1>5, <1>6, SignedViews
<1>9. \A r : Wide(r) = SignedWord(registers[r])
  BY DEF Wide, SignedWord
<1>10. HalfModulus * hi + lo = lo + HalfModulus * hi
  BY <1>5, <1>7
<1> QED
  BY <1>3, <1>5, <1>8, <1>9, <1>10

\* STRH of a halfword of a word in the memory.
LEMMA JoinStore ==
  ASSUME IInv, Evaluate, phase = "evaluate", NEW t, instruction = t, NEW rd \in Register,
         NEW n \in 0 .. 4, StoresHalf(t, rd, n), NEW a, a = registers[1] + n,
         HalfPlace(t) = a, a \in Word
  PROVE  /\ UNCHANGED code
         /\ \/ /\ registers' = registers /\ Complete /\ Bytes(a, 2) \subseteq Ram
               /\ ram'[a] + ByteModulus * ram'[a + 1] = registers[rd] % HalfModulus
               /\ \A b \in Ram \ {a, a + 1} : ram'[b] = ram[b]
            \/ phase' \in Lost
<1>1. /\ t.condition = "AL" /\ t.format = "halfword_data_transfer_immediate_off" /\ t.rn # PC
      /\ ~t.load /\ ~t.w /\ t.p /\ t.p \in BOOLEAN /\ t.rd = rd
  <2>1. t.p = TRUE
    BY DEF StoresHalf, Plainly
  <2>2. t.p \in BOOLEAN /\ t.p
    BY <2>1, Zenon
  <2> QED
    BY <2>2 DEF StoresHalf, Plainly, PC
<1>2. \A file, b : Based(t, file, b) = file
  BY <1>1 DEF Based, WritesBack
<1>3. StoredBytes(t, a) = Bytes(a, 2)
  BY <1>1 DEF StoredBytes, Misplaces
<1>4. /\ UNCHANGED code
      /\ \/ /\ Data(StoredBytes(t, a)) /\ Complete
            /\ registers' = Based(t, registers, Retreated(HalfNext(t)))
            /\ ram' = AfterHalfStored(t, a)
         \/ phase' \in Lost
  BY <1>1, HalfStep
<1>5. ASSUME Data(StoredBytes(t, a)), ram' = AfterHalfStored(t, a)
      PROVE  /\ Bytes(a, 2) \subseteq Ram
             /\ ram'[a] + ByteModulus * ram'[a + 1] = registers[rd] % HalfModulus
             /\ \A b \in Ram \ {a, a + 1} : ram'[b] = ram[b]
  <2>1. registers \in [Register -> Word] /\ ram \in [Ram -> Byte] /\ t.rd \in Register
    BY <1>1, Parts DEF Machine
  <2>2. /\ AfterHalfStored(t, a)[a] + ByteModulus * AfterHalfStored(t, a)[a + 1]
             = registers[t.rd] % HalfModulus
        /\ \A b \in Ram \ ({a, a + 1} \cup {}) : AfterHalfStored(t, a)[b] = ram[b]
    BY <1>1, <1>5, <2>1, AfterHalfStoredBytes
  <2> QED
    BY <1>1, <1>3, <1>5, <2>2 DEF Data
<1> QED
  BY <1>2, <1>4, <1>5

\* What is stored and read after k instructions of Join.
JoinAfter(k) ==
  LET a == registers[1]
  IN  /\ \A b \in Ram \ Bytes(a, 4) : ram[b] = Pattern(b)
      /\ k >= 1 => /\ Bytes(a, 2) \subseteq Ram
                   /\ ram[a] + ByteModulus * ram[a + 1] = registers[0] % HalfModulus
      /\ k >= 2 => /\ Bytes(a + 2, 2) \subseteq Ram
                   /\ ram[a + 2] + ByteModulus * ram[a + 3] = registers[2] % HalfModulus
      /\ k >= 3 => registers[3] = (registers[0] % HalfModulus)
                                  + HalfModulus * (registers[2] % HalfModulus)
JoinInv ==
  /\ Straight(Join)
  /\ phase \notin Lost => JoinAfter(Behind(Join))

\* What a step of Join does if it does not lose the machine.
LEMMA JoinGoes ==
  ASSUME WordBits = 4 * ByteBits, JoinInv, phase = "evaluate", Evaluate, NEW k, k = iter + 1
  PROVE  \/ JoinAfter(k)' /\ Complete /\ code' = code /\ registers'[PC] = registers[PC]
         \/ phase' \in Lost /\ code' = code
<1> DEFINE a == registers[1]
<1>1. Straight(Join) /\ IInv /\ Following(Join) /\ JoinAfter(iter)
  BY DEF JoinInv, Straight, Behind, Lost
<1>2. iter \in 0 .. 2 /\ instruction = Join[iter + 1]
  BY <1>1, ViewPrograms, Parts DEF Control, RunInv, Following, Inside
<1>3. /\ registers \in [Register -> Word] /\ ram \in [Ram -> Byte] /\ PC \in Register
      /\ \A r \in 0 .. 3 : r \in Register \ {PC}
      /\ a \in Word /\ a \in Int
  <2>1. registers \in [Register -> Word] /\ ram \in [Ram -> Byte]
    BY <1>1, Parts DEF Machine
  <2>2. 1 \in Register /\ PC \in Register /\ \A r \in 0 .. 3 : r \in Register \ {PC}
    BY DEF Register, PC
  <2>3. registers[1] \in Word
    BY <2>1, <2>2
  <2> QED
    BY <2>1, <2>2, <2>3, WordRange
<1>4. CASE iter = 0
  <2> DEFINE t == instruction
  <2>1. StoresHalf(t, 0, 0) /\ t = instruction
    <3>1. iter + 1 = 1
      BY <1>4
    <3> QED
      BY <1>2, <3>1, ViewPrograms, Zenon
  <2>2. HalfPlace(t) = a /\ a = registers[1] + 0
    <3>1. a + 0 = a
      BY <1>3
    <3>2. HalfNext(t) = Wrap(a + 0)
      BY <2>1 DEF StoresHalf, Plainly, HalfNext, Displaced
    <3> QED
      BY <1>3, <2>1, <3>1, <3>2, WrapWord DEF StoresHalf, Plainly, HalfPlace
  <2>3. 0 \in 0 .. 4 /\ 0 \in Register
    BY <1>3
  <2> HIDE DEF t
  <2>4. /\ UNCHANGED code
        /\ \/ /\ registers' = registers /\ Complete /\ Bytes(a, 2) \subseteq Ram
              /\ ram'[a] + ByteModulus * ram'[a + 1] = registers[0] % HalfModulus
              /\ \A b \in Ram \ {a, a + 1} : ram'[b] = ram[b]
           \/ phase' \in Lost
    BY <1>1, <1>3, <2>1, <2>2, <2>3, JoinStore
  <2>5. \A b \in Ram \ Bytes(a, 4) : b \in Ram \ {a, a + 1}
    BY <1>3 DEF Bytes
  <2> QED
    BY <1>1, <1>4, <2>4, <2>5 DEF JoinAfter
<1>5. CASE iter = 1
  <2> DEFINE t == instruction
  <2>1. StoresHalf(t, 2, 2) /\ t = instruction
    <3>1. iter + 1 = 2
      BY <1>5
    <3> QED
      BY <1>2, <3>1, ViewPrograms, Zenon
  <2>2. Bytes(a, 2) \subseteq Ram /\ a \in Ram
    <3>1. Bytes(a, 2) \subseteq Ram
      BY <1>1, <1>5 DEF JoinAfter
    <3> QED
      BY <1>3, <3>1 DEF Bytes
  <2>3. 2 \in 0 .. 4 /\ 2 \in Register
    BY <1>3
  <2> HIDE DEF t
  <2>4. HalfPlace(t) = a + 2 /\ a + 2 \in Word
    <3>1. t.rn = 1 /\ t.p = TRUE /\ t.u = TRUE /\ t.distance = 2
      BY <2>1 DEF StoresHalf, Plainly
    <3> QED
      BY <1>1, <2>2, <2>3, <3>1, PlaceInside
  <2>5. /\ UNCHANGED code
        /\ \/ /\ registers' = registers /\ Complete /\ Bytes(a + 2, 2) \subseteq Ram
              /\ ram'[a + 2] + ByteModulus * ram'[a + 2 + 1] = registers[2] % HalfModulus
              /\ \A b \in Ram \ {a + 2, a + 2 + 1} : ram'[b] = ram[b]
           \/ phase' \in Lost
    BY <1>1, <1>3, <2>1, <2>3, <2>4, JoinStore
  <2>6. /\ \A b \in Ram \ Bytes(a, 4) : b \in Ram \ {a + 2, a + 2 + 1}
        /\ a \in Ram \ {a + 2, a + 2 + 1} /\ a + 1 \in Ram \ {a + 2, a + 2 + 1}
        /\ a + 2 + 1 = a + 3
    BY <1>3, <2>2 DEF Bytes
  <2> QED
    BY <1>1, <1>5, <2>5, <2>6 DEF JoinAfter
<1>6. CASE iter = 2
  <2>1. instruction = Ldr(3, 1, 0) /\ instruction.load
    <3>1. iter + 1 = 3
      BY <1>6
    <3>2. instruction = Ldr(3, 1, 0)
      BY <1>2, <3>1, ViewPrograms, Zenon
    <3> QED
      BY <3>2 DEF Ldr, Transfer
  <2>2. /\ code' = code
        /\ \/ /\ Bytes(a, 4) \subseteq Ram /\ Complete /\ ram' = ram
              /\ registers' = [registers EXCEPT ![3] = WordIn(ram, a)]
           \/ phase' \in Lost
    <3>1. 3 \in Register \ {PC} /\ 1 \in Register \ {PC}
      BY <1>3
    <3> QED
      BY <1>1, <2>1, <3>1, WordStep
  <2>3. ASSUME Bytes(a, 4) \subseteq Ram
        PROVE  WordIn(ram, a) = (registers[0] % HalfModulus)
                                + HalfModulus * (registers[2] % HalfModulus)
    <3>1. Bytes(a, 2) \subseteq Ram /\ Bytes(a + 2, 2) \subseteq Ram
          /\ a + 2 \in Int /\ a + 2 + 1 = a + 3
      BY <1>3, <2>3 DEF Bytes
    <3>2. HalfAt(a) = ram[a] + ByteModulus * ram[a + 1]
          /\ WordIn(ram, a) = HalfAt(a) + HalfModulus * HalfAt(a + 2)
      BY <1>3, <2>3, <3>1, HalvesOfMemory
    <3>3. HalfAt(a + 2) = ram[a + 2] + ByteModulus * ram[a + 2 + 1]
      BY <1>3, <3>1, HalvesOfMemory
    <3> QED
      BY <1>1, <1>6, <3>1, <3>2, <3>3 DEF JoinAfter
  <2>4. ASSUME Bytes(a, 4) \subseteq Ram, ram' = ram,
               registers' = [registers EXCEPT ![3] = WordIn(ram, a)]
        PROVE  JoinAfter(k)' /\ registers'[PC] = registers[PC]
    <3>1. /\ registers'[3] = WordIn(ram, a) /\ registers'[PC] = registers[PC]
          /\ registers'[0] = registers[0] /\ registers'[1] = registers[1]
          /\ registers'[2] = registers[2]
      BY <1>3, <2>4
    <3> QED
      BY <1>1, <1>6, <2>3, <2>4, <3>1 DEF JoinAfter
  <2> QED
    BY <2>2, <2>4
<1> QED
  BY <1>2, <1>4, <1>5, <1>6

\* The invariant of Join next to its steps.
LEMMA JoinStep == ASSUME WordBits = 4 * ByteBits, JoinInv, [Turn]_vars PROVE JoinInv'
<1>1. Len(Join) \in Nat \ {0} /\ DOMAIN Join = 1 .. Len(Join)
  BY ViewPrograms
<1>2. Straight(Join)
  BY DEF JoinInv
<1>3. ASSUME phase = "evaluate", Evaluate, NEW k, k = iter + 1
      PROVE  \/ JoinAfter(k)' /\ Complete /\ code' = code /\ registers'[PC] = registers[PC]
             \/ phase' \in Lost /\ code' = code
  BY <1>3, JoinGoes
<1>4. ASSUME phase = "evaluate", Evaluate
      PROVE  \/ Complete /\ code' = code /\ registers'[PC] = registers[PC]
             \/ phase' \in Lost /\ code' = code
  BY <1>3, <1>4
<1>5. /\ Straight(Join)'
      /\ \/ /\ Behind(Join)' = Behind(Join) /\ ram' = ram /\ phase \notin Lost
            /\ \A r \in Register \ {PC} : registers'[r] = registers[r]
         \/ /\ phase = "evaluate" /\ Evaluate /\ Behind(Join)' = iter + 1 /\ phase' \notin Lost
         \/ phase' \in Lost
  BY <1>1, <1>2, <1>4, StraightStep
<1>6. CASE /\ Behind(Join)' = Behind(Join) /\ ram' = ram /\ phase \notin Lost
           /\ \A r \in Register \ {PC} : registers'[r] = registers[r]
  <2>1. /\ registers'[0] = registers[0] /\ registers'[1] = registers[1]
        /\ registers'[2] = registers[2] /\ registers'[3] = registers[3]
    BY <1>6 DEF Register, PC
  <2>2. JoinAfter(Behind(Join))
    BY <1>6 DEF JoinInv
  <2>3. JoinAfter(Behind(Join))'
    BY <1>6, <2>1, <2>2 DEF JoinAfter
  <2> QED
    BY <1>5, <2>3 DEF JoinInv
<1>7. CASE phase = "evaluate" /\ Evaluate /\ Behind(Join)' = iter + 1 /\ phase' \notin Lost
  <2>1. ASSUME NEW k, k = iter + 1 PROVE JoinAfter(Behind(Join))'
    BY <1>3, <1>7, <2>1 DEF JoinAfter
  <2> QED
    BY <1>5, <2>1 DEF JoinInv
<1> QED
  BY <1>5, <1>6, <1>7 DEF JoinInv

\* What the word of two halves is worth at the end.
LEMMA JoinEnd ==
  ASSUME JoinInv, phase = "idle"
  PROVE  /\ registers[3] % HalfModulus = registers[0] % HalfModulus
         /\ registers[3] \div HalfModulus = registers[2] % HalfModulus
         /\ \A a \in Ram \ Bytes(registers[1], 4) : ram[a] = Pattern(a)
<1>1. IInv /\ JoinAfter(3)
  BY ViewPrograms DEF JoinInv, Straight, Behind, Lost
<1> DEFINE h == HalfModulus
           x == registers[0] % h
           y == registers[2] % h
<1>2. h \in Nat \ {0}
  BY HalfFacts
<1>3. x \in 0 .. h - 1 /\ y \in 0 .. h - 1
  <2>1. registers[0] \in Word /\ registers[2] \in Word
    BY <1>1, Parts DEF Machine, Register
  <2>2. registers[0] \in Int /\ registers[2] \in Int
    BY <2>1, WordRange
  <2> QED
    BY <1>2, <2>2
<1>4. registers[3] = x + h * y /\ \A a \in Ram \ Bytes(registers[1], 4) : ram[a] = Pattern(a)
  BY <1>1 DEF JoinAfter
<1> HIDE DEF x, y, h
<1>5. (x + h * y) % h = x /\ (x + h * y) \div h = y
  BY <1>2, <1>3, TwoDigits
<1> QED
  BY <1>4, <1>5 DEF x, y, h

(***************************************************************************)
(* A word stored by STR and read back by LDRH, LDRSH and LDRSB is seen as  *)
(* its quotients and remainders, signed or not, and two halves stored by   *)
(* STRH are read back by LDR as their word, next to bytes left as they     *)
(* were: at every width of four bytes to a word and from any registers,    *)
(* the base at any address, a multiple of four or not.                     *)
(***************************************************************************)
THEOREM HalvesMakeTheWord ==
  ASSUME NEW program \in {Views, Join}, WordBits = 4 * ByteBits
  PROVE  /\ Begins(program) /\ ram = [a \in Ram |-> Pattern(a)]
         /\ [][Turn]_vars
         => []HalfwordViews
<1> DEFINE Initially == Begins(program) /\ ram = [a \in Ram |-> Pattern(a)]
           I == (program = Views => ViewsInv) /\ (program = Join => JoinInv)
<1>1. Initially => I
  <2>1. Len(Views) \in Nat /\ Len(Join) \in Nat
    BY ViewPrograms
  <2>2. Begins(Views) => Straight(Views) /\ phase \notin Lost /\ Behind(Views) = 0
    BY <2>1, StraightBegins
  <2>3. Begins(Join) => Straight(Join) /\ phase \notin Lost /\ Behind(Join) = 0
    BY <2>1, StraightBegins
  <2> QED
    BY <2>2, <2>3 DEF ViewsInv, ViewsAfter, JoinInv, JoinAfter
<1>2. I /\ [Turn]_vars => I'
  <2> SUFFICES ASSUME I, [Turn]_vars PROVE I'
    OBVIOUS
  <2>1. program = Views => ViewsInv'
    BY ViewsStep
  <2>2. program = Join => JoinInv'
    BY JoinStep
  <2> QED
    BY <2>1, <2>2
<1>3. CodeOf(Views) # CodeOf(Join)
  <2>1. /\ Len(Views) = 6 /\ Len(Join) = 3
        /\ Views = [k \in 1 .. Len(Views) |-> Views[k]]
        /\ Join = [k \in 1 .. Len(Join) |-> Join[k]]
    BY ViewPrograms DEF Views, Join
  <2> SUFFICES ASSUME CodeOf(Views) = CodeOf(Join) PROVE FALSE
    OBVIOUS
  <2>2. Views = Join
    BY <2>1, CodesDiffer
  <2> QED
    BY <2>1, <2>2
<1>4. I => HalfwordViews
  <2>1. ASSUME ViewsInv PROVE code = CodeOf(Views) /\ HalfwordViews
    <3>1. code = CodeOf(Views)
      BY <2>1 DEF ViewsInv, Straight, Following
    <3> QED
      BY <1>3, <2>1, <3>1, ViewsEnd DEF HalfwordViews
  <2>2. ASSUME JoinInv PROVE code = CodeOf(Join) /\ HalfwordViews
    <3>1. code = CodeOf(Join)
      BY <2>2 DEF JoinInv, Straight, Following
    <3> QED
      BY <1>3, <2>2, <3>1, JoinEnd DEF HalfwordViews
  <2> QED
    BY <2>1, <2>2
<1> HIDE DEF I
<1> QED
  BY <1>1, <1>2, <1>4, PTL
=============================================================================
