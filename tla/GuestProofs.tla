---------------------------- MODULE GuestProofs ----------------------------
(***************************************************************************)
(* A guest under the host of README.md.  First whatever the guest: the     *)
(* limits the host gives run() change nothing but where the calls end.     *)
(* Then what the guest programs have done when they stop, whatever those   *)
(* limits, at every width of a word that holds their addresses.  MCGuests: *)
(* the loop that copies bytes, the recursive sum and the switch have       *)
(* computed their result.  MCHello: the host has printed the message of    *)
(* the guest, as Channel says.                                             *)
(***************************************************************************)
EXTENDS ProgramProofs, MCGuests, MCHello

-----------------------------------------------------------------------------
(* The host: where the machine is at each place of its main().             *)

\* A turn of the loop happens inside run(), leaves the size load() returned
\* alone, and ends inside run(), having counted the instruction if that is
\* done, with the machine lost or with a result.
Controls ==
  /\ phase \in Inside
  /\ programSize' = programSize
  /\ \/ /\ phase' \in Inside \cup Lost
        /\ UNCHANGED <<limit, result>>
        /\ limit # 0 => iter' = IF Evaluated THEN iter + 1 ELSE iter
     \/ /\ phase' = "idle" /\ limit' = 0
        /\ result' \in {"Resume", "Stop", "Suspend", "Undefined"}
        /\ phase # "evaluate" => RunsOut /\ ~TurnsLeft /\ result' = "Undefined"

\* Every turn is one.
LEMMA TurnControls == ASSUME Turn PROVE Controls
<1>1. ASSUME phase \in {"evaluate", "transfer"}, programSize' = programSize, NEW bytes,
             Complete \/ Abort \/ Escape(bytes)
      PROVE  Controls
  BY <1>1 DEF Controls, Complete, Abort, Escape, Inside, Lost, Evaluated
<1>2. CASE Exhausted
  BY <1>2 DEF Controls, Exhausted, Return, Inside, RunsOut, memory
<1>3. CASE softwareInterruptEval
  BY <1>3 DEF Controls, softwareInterruptEval, Executing, Return, Interrupt, Inside, memory
<1>4. CASE FetchDecode \/ SkipInstruction \/ AssertInstruction
  BY <1>4 DEF Controls, FetchDecode, SkipInstruction, AssertInstruction,
              Complete, Abort, Escape, Inside, Lost, Evaluated, memory, run
<1>5. CASE dataProcessingEval \/ branchEval \/ branchAndExchangeEval
           \/ multiplyEval \/ multiplyLongEval
  BY <1>1, <1>5 DEF dataProcessingEval, branchEval, branchAndExchangeEval, multiplyEval,
              multiplyLongEval, Executing, Inside, memory
<1>6. CASE singleDataTranferEval
  BY <1>1, <1>6 DEF singleDataTranferEval, Executing, Inside
<1>7. CASE blockDataTransferEval
  <2>1. CASE BeginTransfer \/ SkipRegister \/ TransferRegister
    BY <2>1 DEF BeginTransfer, SkipRegister, TransferRegister, Executing, Controls, Inside,
                Evaluated, memory, run
  <2>2. CASE EscapeTransfer
    BY <1>1, <2>2 DEF EscapeTransfer, Inside, memory
  <2>3. CASE EndTransfer
    BY <1>1, <2>3 DEF EndTransfer, Inside, memory
  <2> QED
    BY <1>7, <2>1, <2>2, <2>3 DEF blockDataTransferEval
<1>8. CASE halfwordDataTransferImmediateOffEval
  <2>1. phase = "evaluate" /\ programSize' = programSize
    BY <1>8 DEF halfwordDataTransferImmediateOffEval, Executing
  <2>2. \/ Abort
        \/ \E bytes, file, contents : Access(bytes, file, contents)
        \/ \E bytes, word : Overreach(bytes, word)
    BY <1>8 DEF halfwordDataTransferImmediateOffEval, ImmediateTransfer
  <2> QED
    BY <1>1, <2>1, <2>2 DEF Access, Overreach
<1>9. CASE halfwordDataTransferRegisterOffEval
  <2>1. phase = "evaluate" /\ programSize' = programSize
    BY <1>9 DEF halfwordDataTransferRegisterOffEval, Executing
  <2>2. \/ \E bytes, file, contents : Access(bytes, file, contents)
        \/ \E bytes, word : Overreach(bytes, word)
    BY <1>9 DEF halfwordDataTransferRegisterOffEval, RegisterLoad, RegisterStore
  <2> QED
    BY <1>1, <2>1, <2>2 DEF Access, Overreach
<1> QED
  BY <1>2, <1>3, <1>4, <1>5, <1>6, <1>7, <1>8, <1>9 DEF Turn, Evaluate

-----------------------------------------------------------------------------
(* The host of README.md.                                                  *)

\* Where the machine is at each place of the host's main(), what came back
\* from run() when main() returned, and what it printed.
HostInv ==
  /\ host \in {"init", "load", "running", "switch", "done"}
  /\ host = "init" => phase = "constructed"
  /\ host = "load" => phase = "initialised"
  /\ host = "running" => phase \in {"idle", "wild"}
  /\ host = "switch" => phase \in Inside \cup Lost \cup {"idle"}
  /\ host \in {"init", "load", "running"} => result # "Stop"
  /\ host = "switch" /\ phase # "idle" => result # "Stop"
  /\ host = "done" => phase = "idle" /\ (result = "Stop" \/ programSize = 0)
  /\ output \in Seq(Byte)

\* It holds when main() begins.
LEMMA HostInvInit == HostInit => HostInv
BY DEF HostInit, Init, HostInv

\* Whatever the host does is a step of the machine, or none.
LEMMA HostStepIsNext == [HostNext]_hostVars => [Next]_vars
BY DEF HostNext, HostStep, Construct, LoadProgram, Run, Guest, HandleResult, Done, hostVars, Next

\* Every step of the host keeps it.
LEMMA HostInvNext ==
  ASSUME IInv, HostInv, [HostNext]_hostVars
  PROVE  HostInv'
<1>1. CASE Construct
  BY <1>1 DEF HostInv, Construct, init, run
<1>2. CASE LoadProgram
  <2>1. CASE LoadFailure
    BY <1>2, <2>1 DEF HostInv, LoadProgram, LoadFailure, run
  <2>2. ASSUME NEW image \in Images, LoadImage(image)
        PROVE  HostInv'
    <3>1. image.size = 0 => image.size <= MemSize
      BY MemSizeAssumption
    <3> QED
      BY <1>2, <2>2, <3>1 DEF HostInv, LoadProgram, LoadImage, run
  <2> QED
    BY <1>2, <2>1, <2>2 DEF LoadProgram, load
<1>3. CASE Run
  BY <1>3 DEF HostInv, Run, BeginRun, Inside
<1>4. CASE Guest
  <2>1. Controls
    BY <1>4, TurnControls DEF Guest
  <2> QED
    BY <1>4, <2>1 DEF Controls, HostInv, Guest, Inside, Lost
<1>5. CASE HandleResult
  <2>1. ram[Uart] \in Byte
    BY UartAssumption DEF IInv, TypeOK
  <2>2. output' \in Seq(Byte)
    BY <1>5, <2>1 DEF HandleResult, HostInv
  <2> QED
    BY <1>5, <2>2 DEF HandleResult, HostInv, vars, Inside, Lost
<1>6. CASE UNCHANGED hostVars
  BY <1>6 DEF HostInv, hostVars, vars
<1> QED
  BY <1>1, <1>2, <1>3, <1>4, <1>5, <1>6 DEF HostNext, HostStep, Done

\* The host of README.md uses the machine as Vm allows: whatever is true of
\* every behaviour of Vm is true under it.
THEOREM HostDrivesVm == HostSpec => Spec
<1>1. HostInit => Init
  BY DEF HostInit
<1> QED
  BY <1>1, HostStepIsNext, PTL DEF HostSpec, Spec

\* Under the host the machine keeps its invariant, and the host knows where
\* the machine is: main() calls run() only after load() returned a size.
THEOREM HostKeepsInvariant == HostSpec => [](IInv /\ HostInv)
<1>1. HostInit => IInv /\ HostInv
  BY HostInvInit, InitInv DEF HostInit
<1>2. IInv /\ HostInv /\ [HostNext]_hostVars => (IInv /\ HostInv)'
  BY HostStepIsNext, NextInv, HostInvNext
<1> QED
  BY <1>1, <1>2, PTL DEF HostSpec

-----------------------------------------------------------------------------
(* Without a limit.  What has nothing to do with control is the same.      *)

\* Words.
LEMMA WordsUncut ==
  /\ Uncut!Modulus = Modulus /\ Uncut!SignBit = SignBit
  /\ \A x : Uncut!Wrap(x) = Wrap(x)
  /\ \A x : Uncut!NEG(x) <=> NEG(x)
  /\ \A x : Uncut!FlagOf(x) = FlagOf(x)
  /\ \A x : Uncut!BitNot(x) = BitNot(x)
  /\ \A x, n : Uncut!Bit(x, n) = Bit(x, n)
  /\ \A x, n : Uncut!ShiftLeft(x, n) = ShiftLeft(x, n)
  /\ \A x, n : Uncut!ShiftRight(x, n) = ShiftRight(x, n)
  /\ \A x, n : Uncut!SignExtended(x, n) = SignExtended(x, n)
BY DEF Uncut!Modulus, Modulus, Uncut!SignBit, SignBit, Uncut!Wrap, Wrap, Uncut!NEG, NEG,
       Uncut!FlagOf, FlagOf, Uncut!BitNot, BitNot, Uncut!Bit, Bit,
       Uncut!ShiftLeft, ShiftLeft, Uncut!ShiftRight, ShiftRight,
       Uncut!SignExtended, SignExtended

\* The bytes of a word, and memories.
LEMMA BytesUncut ==
  /\ Uncut!ByteBits = ByteBits /\ Uncut!HalfBits = HalfBits /\ Uncut!HalfModulus = HalfModulus
  /\ \A a, n : Uncut!Bytes(a, n) = Bytes(a, n)
  /\ \A bytes, a : Uncut!WordIn(bytes, a) = WordIn(bytes, a)
  /\ \A bytes, a, n, w : Uncut!AfterStore(bytes, a, n, w) = AfterStore(bytes, a, n, w)
<1>1. /\ Uncut!ByteBits = ByteBits /\ Uncut!ByteModulus = ByteModulus
      /\ Uncut!HalfBits = HalfBits /\ Uncut!HalfModulus = HalfModulus
  BY DEF Uncut!ByteBits, ByteBits, Uncut!ByteModulus, ByteModulus, Uncut!HalfBits, HalfBits,
         Uncut!HalfModulus, HalfModulus
<1>2. \A a, n : Uncut!Bytes(a, n) = Bytes(a, n)
  BY DEF Uncut!Bytes, Bytes
<1>3. \A w, k : Uncut!ByteOf(w, k) = ByteOf(w, k)
  BY <1>1, WordsUncut DEF Uncut!ByteOf, ByteOf
<1>4. \A bytes, a : Uncut!WordIn(bytes, a) = WordIn(bytes, a)
  BY <1>1, WordsUncut DEF Uncut!WordIn, WordIn
<1>5. ASSUME NEW bytes, NEW a, NEW n, NEW w
      PROVE  Uncut!AfterStore(bytes, a, n, w) = AfterStore(bytes, a, n, w)
  BY <1>2, <1>3 DEF Uncut!AfterStore, AfterStore
<1> QED
  BY <1>1, <1>2, <1>4, <1>5

\* The conditions of the instruction set and the way control is passed on by
\* an instruction, which no limit cuts in the middle.
Unbroken == ~cut /\ Remember /\ phase \in {"evaluate", "transfer"}

LEMMA ControlUncut ==
  ASSUME Unbroken
  PROVE  /\ \A condition : Uncut!TestCondition(condition) <=> TestCondition(condition)
         /\ \A format : Uncut!Executing(format) <=> Executing(format)
         /\ Complete => Uncut!Complete
         /\ Abort => Uncut!Abort
         /\ phase = "evaluate" => \A interrupt : Return(interrupt) => Uncut!Return(interrupt)
         /\ \A bytes : Escape(bytes) => Uncut!Escape(bytes)
         /\ phase' = "transfer" /\ UNCHANGED run => UNCHANGED Uncut!run
         /\ ~cut'
<1> USE DEF Unbroken
<1>1. \A condition : Uncut!TestCondition(condition) <=> TestCondition(condition)
  BY DEF Uncut!TestCondition, TestCondition
<1>2. \A format : Uncut!Executing(format) <=> Executing(format)
  BY <1>1 DEF Uncut!Executing, Executing
<1>3. ~cut'
  BY DEF Remember, Calls, RunsOut
<1>4. phase' # "idle" => answer' = answer
  BY DEF Remember, Answers
<1>5. (Complete => Uncut!Complete) /\ (Abort => Uncut!Abort)
  BY <1>3, <1>4 DEF Uncut!Complete, Complete, Uncut!Abort, Abort
<1>6. ASSUME phase = "evaluate", NEW interrupt, Return(interrupt)
      PROVE  Uncut!Return(interrupt)
  BY <1>3, <1>6 DEF Uncut!Return, Return, Remember, Answers
<1>7. ASSUME NEW bytes, Escape(bytes)
      PROVE  Uncut!Escape(bytes)
  BY <1>3, <1>4, <1>7 DEF Uncut!Escape, Escape, Uncut!Ram, Ram
<1>8. phase' = "transfer" /\ UNCHANGED run => UNCHANGED Uncut!run
  BY <1>4 DEF Uncut!run
<1> QED
  BY <1>1, <1>2, <1>3, <1>5, <1>6, <1>7, <1>8

\* Guest memory.
LEMMA MemoryUncut ==
  /\ Uncut!Ram = Ram
  /\ \A bytes : Uncut!Data(bytes) <=> Data(bytes)
  /\ \A a : Uncut!WordAt(a) = WordAt(a)
  /\ \A a, n, w : Uncut!StoreBytes(a, n, w) = StoreBytes(a, n, w)
<1>1. Uncut!Code = Code
  BY BytesUncut DEF Uncut!Code, Code
<1>2. Uncut!Ram = Ram
  BY DEF Uncut!Ram, Ram
<1>3. \A bytes : Uncut!Data(bytes) <=> Data(bytes)
  BY <1>1, <1>2 DEF Uncut!Data, Data
<1> QED
  BY <1>2, <1>3, BytesUncut DEF Uncut!WordAt, WordAt, Uncut!StoreBytes, StoreBytes

\* The shifter and the ALU.
LEMMA AluUncut ==
  /\ \A operand2 : Uncut!Operand2(operand2) = Operand2(operand2)
  /\ \A operand2 : Uncut!shift(operand2) = shift(operand2)
  /\ \A rn : Uncut!Operand1(rn) = Operand1(rn)
  /\ \A opcode, rn, op1, op2 :
       Uncut!Result(opcode, rn, op1, op2) = Result(opcode, rn, op1, op2)
  /\ \A opcode, op1, op2, value, carry :
       /\ Uncut!CarryFlag(opcode, op1, op2, value, carry)
            = CarryFlag(opcode, op1, op2, value, carry)
       /\ Uncut!OverflowFlag(opcode, op1, op2, value)
            = OverflowFlag(opcode, op1, op2, value)
<1>1. \A value, carry : Uncut!Shifted(value, carry) = Shifted(value, carry)
  BY WordsUncut DEF Uncut!Shifted, Shifted
<1>2. \A a, n : Uncut!RotatedRight(a, n) = RotatedRight(a, n)
  BY WordsUncut DEF Uncut!RotatedRight, RotatedRight
<1>3. \A a, n : Uncut!LogicalLeft(a, n) = LogicalLeft(a, n)
  BY <1>1, WordsUncut DEF Uncut!LogicalLeft, LogicalLeft
<1>4. \A a, n : Uncut!LogicalRight(a, n) = LogicalRight(a, n)
  BY <1>1, WordsUncut DEF Uncut!LogicalRight, LogicalRight
<1>5. \A a, n : Uncut!ArithmeticRight(a, n) = ArithmeticRight(a, n)
  BY <1>1, WordsUncut
     DEF Uncut!ArithmeticRight, ArithmeticRight, Uncut!SignFilled, SignFilled
<1>6. \A a, n, byRegister : Uncut!RotateRight(a, n, byRegister) = RotateRight(a, n, byRegister)
  BY <1>1, <1>2, WordsUncut DEF Uncut!RotateRight, RotateRight
<1>7. \A operand2 : Uncut!shift(operand2) = shift(operand2)
  BY <1>3, <1>4, <1>5, <1>6, WordsUncut DEF Uncut!shift, shift, Uncut!PC, PC
<1>8. \A operand2 : Uncut!rotate(operand2) = rotate(operand2)
  BY <1>1, <1>2, WordsUncut DEF Uncut!rotate, rotate
<1>9. \A operand2 : Uncut!Operand2(operand2) = Operand2(operand2)
  BY <1>7, <1>8 DEF Uncut!Operand2, Operand2
<1>10. \A rn : Uncut!Operand1(rn) = Operand1(rn)
  BY WordsUncut DEF Uncut!Operand1, Operand1, Uncut!PC, PC
<1>11. \A opcode, rn, op1, op2 :
         Uncut!Result(opcode, rn, op1, op2) = Result(opcode, rn, op1, op2)
  BY WordsUncut DEF Uncut!Result, Result
<1>12. \A op1, op2, value :
         /\ Uncut!isCarryFromALUAdd(op1, op2, value) <=> isCarryFromALUAdd(op1, op2, value)
         /\ Uncut!isCarryFromALUSub(op1, op2, value) <=> isCarryFromALUSub(op1, op2, value)
         /\ Uncut!isOverflowAdd(op1, op2, value) <=> isOverflowAdd(op1, op2, value)
         /\ Uncut!isOverflowSub(op1, op2, value) <=> isOverflowSub(op1, op2, value)
  BY WordsUncut
     DEF Uncut!isCarryFromALUAdd, isCarryFromALUAdd, Uncut!isCarryFromALUSub,
         isCarryFromALUSub, Uncut!isOverflowAdd, isOverflowAdd, Uncut!isOverflowSub,
         isOverflowSub, Uncut!POS, POS
<1>13. \A opcode, op1, op2, value, carry :
         /\ Uncut!CarryFlag(opcode, op1, op2, value, carry)
              = CarryFlag(opcode, op1, op2, value, carry)
         /\ Uncut!OverflowFlag(opcode, op1, op2, value)
              = OverflowFlag(opcode, op1, op2, value)
  BY <1>12
     DEF Uncut!CarryFlag, CarryFlag, Uncut!OverflowFlag, OverflowFlag, Uncut!FlagOf, FlagOf,
         Uncut!Logical, Logical, Uncut!Additions, Additions, Uncut!Reversed, Reversed,
         Uncut!Forward, Forward
<1> QED
  BY <1>7, <1>9, <1>10, <1>11, <1>13

-----------------------------------------------------------------------------
(* The handlers: each does without a limit what it does with one.          *)

\* dataProcessingEval().
LEMMA DataProcessingUncut ==
  ASSUME dataProcessingEval, Unbroken
  PROVE  Uncut!dataProcessingEval
<1> DEFINE Outcome(shifted) ==
             LET opcode == instruction.opcode
                 op1 == Operand1(instruction.rn)
                 op2 == shifted.value
                 value == Result(opcode, instruction.rn, op1, op2)
             IN  /\ registers' = IF opcode \in Tests THEN registers
                                 ELSE [registers EXCEPT ![instruction.rd] = value]
                 /\ cpsr' = IF ~instruction.s THEN cpsr
                            ELSE [n |-> FlagOf(NEG(value)),
                                  z |-> FlagOf(value = 0),
                                  c |-> CarryFlag(opcode, op1, op2, value, shifted.carry),
                                  v |-> OverflowFlag(opcode, op1, op2, value)]
           UncutOutcome(shifted) ==
             LET opcode == instruction.opcode
                 op1 == Uncut!Operand1(instruction.rn)
                 op2 == shifted.value
                 value == Uncut!Result(opcode, instruction.rn, op1, op2)
             IN  /\ registers' = IF opcode \in Uncut!Tests THEN registers
                                 ELSE [registers EXCEPT ![instruction.rd] = value]
                 /\ cpsr' = IF ~instruction.s THEN cpsr
                            ELSE [n |-> Uncut!FlagOf(Uncut!NEG(value)),
                                  z |-> Uncut!FlagOf(value = 0),
                                  c |-> Uncut!CarryFlag(opcode, op1, op2, value, shifted.carry),
                                  v |-> Uncut!OverflowFlag(opcode, op1, op2, value)]
<1>1. \E shifted \in Operand2(instruction.operand2) : Outcome(shifted)
  BY DEF dataProcessingEval
<1>2. Uncut!Tests = Tests
  BY DEF Uncut!Tests, Tests
<1>3. \A x : Uncut!FlagOf(Uncut!NEG(x)) = FlagOf(NEG(x))
  BY DEF Uncut!FlagOf, FlagOf, Uncut!NEG, NEG, Uncut!SignBit, SignBit
<1>4. ASSUME NEW shifted, Outcome(shifted)
      PROVE  UncutOutcome(shifted)
  BY <1>2, <1>3, <1>4, AluUncut, WordsUncut
<1>5. \E shifted \in Uncut!Operand2(instruction.operand2) : UncutOutcome(shifted)
  <2> HIDE DEF Outcome, UncutOutcome
  <2> QED
    BY <1>1, <1>4, AluUncut
<1> QED
  BY <1>5, ControlUncut
     DEF dataProcessingEval, Uncut!dataProcessingEval,
         memory, Uncut!memory, block, Uncut!block

\* singleDataTranferEval().
LEMMA SingleTransferUncut ==
  ASSUME singleDataTranferEval, Unbroken
  PROVE  Uncut!singleDataTranferEval
<1>1. \A t : Uncut!Offsets(t) = Offsets(t) /\ Uncut!Base(t) = Base(t) /\ Uncut!Stored(t) = Stored(t)
  BY AluUncut, WordsUncut
     DEF Offsets, Uncut!Offsets, Base, Uncut!Base, Stored, Uncut!Stored, PC, Uncut!PC
<1>2. \A t, distance : /\ Uncut!Indexed(t, distance) = Indexed(t, distance)
                       /\ Uncut!Address(t, distance) = Address(t, distance)
  BY <1>1 DEF Indexed, Uncut!Indexed, Address, Uncut!Address
<1>3. \A t, distance : /\ Uncut!Touched(t, distance) = Touched(t, distance)
                       /\ Uncut!Overreads(t, distance) <=> Overreads(t, distance)
  BY <1>2, BytesUncut, MemoryUncut DEF Touched, Uncut!Touched, Overreads, Uncut!Overreads
<1>4. \A t, distance, file :
         Uncut!WriteBack(t, distance, file) = WriteBack(t, distance, file)
  BY <1>2, WordsUncut DEF WriteBack, Uncut!WriteBack
<1>5. \A t, distance : /\ Uncut!Load(t, distance) <=> Load(t, distance)
                       /\ Uncut!Store(t, distance) <=> Store(t, distance)
  BY <1>1, <1>2, <1>4, MemoryUncut DEF Load, Uncut!Load, Store, Uncut!Store
<1> QED
  BY <1>1, <1>2, <1>3, <1>5, ControlUncut, MemoryUncut, BytesUncut
     DEF singleDataTranferEval, Uncut!singleDataTranferEval, block, Uncut!block

\* The branches and the software interrupt.
LEMMA BranchUncut ==
  ASSUME branchEval \/ branchAndExchangeEval \/ softwareInterruptEval,
         Unbroken
  PROVE  Uncut!branchEval \/ Uncut!branchAndExchangeEval \/ Uncut!softwareInterruptEval
<1>1. \A x : Uncut!getSigned24(x) = getSigned24(x)
  BY WordsUncut DEF getSigned24, Uncut!getSigned24
<1>2. \A comment : Uncut!Interrupt(comment) = Interrupt(comment)
  BY DEF Interrupt, Uncut!Interrupt
<1>3. LR = Uncut!LR /\ PC = Uncut!PC
  BY DEF LR, Uncut!LR, PC, Uncut!PC
<1>4. CASE branchEval
  BY <1>1, <1>3, <1>4, ControlUncut, WordsUncut
     DEF branchEval, Uncut!branchEval, memory, Uncut!memory, block, Uncut!block
<1>5. CASE branchAndExchangeEval
  BY <1>3, <1>5, ControlUncut
     DEF branchAndExchangeEval, Uncut!branchAndExchangeEval, memory, Uncut!memory,
         block, Uncut!block
<1>6. CASE softwareInterruptEval
  <2>1. phase = "evaluate"
    BY <1>6 DEF softwareInterruptEval, Executing
  <2> QED
    BY <1>2, <1>6, <2>1, ControlUncut
       DEF softwareInterruptEval, Uncut!softwareInterruptEval, memory, Uncut!memory,
           block, Uncut!block
<1> QED
  BY <1>4, <1>5, <1>6

\* The multiplications.
LEMMA MultiplyUncut ==
  ASSUME multiplyEval \/ multiplyLongEval, Unbroken
  PROVE  Uncut!multiplyEval \/ Uncut!multiplyLongEval
<1>1. \A t : Uncut!MultiplyResult(t) = MultiplyResult(t)
  BY WordsUncut DEF MultiplyResult, Uncut!MultiplyResult
<1>2. \A t : Uncut!LongProduct(t) = LongProduct(t)
  BY WordsUncut
     DEF LongProduct, Uncut!LongProduct, Factor, Uncut!Factor,
         signedCastTo64, Uncut!signedCastTo64
<1>3. \A t : Uncut!LongResult(t) = LongResult(t)
  BY <1>2, WordsUncut
     DEF LongResult, Uncut!LongResult, Accumulator, Uncut!Accumulator,
         DoubleModulus, Uncut!DoubleModulus
<1>4. \A t, file : Uncut!LongFlags(t, file) = LongFlags(t, file)
  BY WordsUncut DEF LongFlags, Uncut!LongFlags, PC, Uncut!PC
<1> QED
  BY <1>1, <1>3, <1>4, ControlUncut, WordsUncut
     DEF multiplyEval, Uncut!multiplyEval, multiplyLongEval, Uncut!multiplyLongEval,
         PC, Uncut!PC, memory, Uncut!memory, block, Uncut!block

\* The halfword transfers.
LEMMA HalfwordUncut ==
  ASSUME halfwordDataTransferImmediateOffEval \/ halfwordDataTransferRegisterOffEval,
         Unbroken
  PROVE  \/ Uncut!halfwordDataTransferImmediateOffEval
         \/ Uncut!halfwordDataTransferRegisterOffEval
<1>1. \A a : Uncut!HalfAt(a) = HalfAt(a)
  BY WordsUncut, BytesUncut DEF HalfAt, Uncut!HalfAt
<1>2. \A t, a : Uncut!Loaded(t, a) = Loaded(t, a) /\ Uncut!LoadedBytes(t, a) = LoadedBytes(t, a)
  BY <1>1, WordsUncut, BytesUncut
     DEF Loaded, Uncut!Loaded, LoadedBytes, Uncut!LoadedBytes,
         getSigned16, Uncut!getSigned16, getSigned8, Uncut!getSigned8
<1>3. /\ \A t, a, distance : Uncut!Displaced(t, a, distance) = Displaced(t, a, distance)
      /\ \A t, file, a : Uncut!Based(t, file, a) = Based(t, file, a)
      /\ \A a : Uncut!Retreated(a) = Retreated(a) /\ Uncut!Advanced(a) = Advanced(a)
      /\ \A w : Uncut!Doubled(w) = Doubled(w)
  BY WordsUncut, BytesUncut
     DEF Displaced, Uncut!Displaced, Based, Uncut!Based, WritesBack, Uncut!WritesBack,
         Retreated, Uncut!Retreated, Advanced, Uncut!Advanced, Aligned, Uncut!Aligned,
         Doubled, Uncut!Doubled
<1>4. /\ \A t, a : Uncut!AfterHalfStored(t, a) = AfterHalfStored(t, a)
      /\ \A t, a : Uncut!StoredBytes(t, a) = StoredBytes(t, a)
      /\ \A t, a : Uncut!StoreReach(t, a) = StoreReach(t, a)
  BY <1>1, BytesUncut, MemoryUncut
     DEF AfterHalfStored, Uncut!AfterHalfStored, StoredBytes, Uncut!StoredBytes,
         StoreReach, Uncut!StoreReach, Misplaces, Uncut!Misplaces,
         Container, Uncut!Container, Aligned, Uncut!Aligned
<1>5. /\ \A touched, file, contents :
           Access(touched, file, contents) => Uncut!Access(touched, file, contents)
      /\ \A touched, word : Overreach(touched, word) => Uncut!Overreach(touched, word)
  BY ControlUncut, MemoryUncut DEF Access, Uncut!Access, Overreach, Uncut!Overreach
<1>6. \A t : ImmediateTransfer(t) => Uncut!ImmediateTransfer(t)
  BY <1>2, <1>3, <1>4, <1>5, BytesUncut DEF ImmediateTransfer, Uncut!ImmediateTransfer
<1>7. \A t : /\ RegisterLoad(t) => Uncut!RegisterLoad(t)
             /\ RegisterStore(t) => Uncut!RegisterStore(t)
  BY <1>2, <1>3, <1>5, BytesUncut, MemoryUncut
     DEF RegisterLoad, Uncut!RegisterLoad, RegisterStore, Uncut!RegisterStore
<1> QED
  BY <1>6, <1>7, ControlUncut
     DEF halfwordDataTransferImmediateOffEval, Uncut!halfwordDataTransferImmediateOffEval,
         halfwordDataTransferRegisterOffEval, Uncut!halfwordDataTransferRegisterOffEval,
         PC, Uncut!PC, block, Uncut!block

\* blockDataTransferEval().
LEMMA BlockTransferUncut ==
  ASSUME blockDataTransferEval, Unbroken
  PROVE  Uncut!blockDataTransferEval
<1> USE DEF Uncut!blockDataTransferEval, Uncut!memory, memory, Uncut!block, block
<1>1. /\ \A t, index : Uncut!Advance(t, index) = Advance(t, index)
      /\ \A t : Uncut!First(t) = First(t)
      /\ Uncut!Register = Register
  BY DEF Advance, Uncut!Advance, First, Uncut!First, Register, Uncut!Register
<1>2. \A t, address : Uncut!Stride(t, address) = Stride(t, address)
  BY WordsUncut DEF Stride, Uncut!Stride
<1>3. \A index : Uncut!StoredRegister(index) = StoredRegister(index)
  BY WordsUncut DEF StoredRegister, Uncut!StoredRegister, PC, Uncut!PC
<1>4. \A t : Uncut!Slot(t) = Slot(t)
  BY <1>2 DEF Slot, Uncut!Slot
<1>5. CASE BeginTransfer
  BY <1>1, <1>5, ControlUncut DEF BeginTransfer, Uncut!BeginTransfer
<1>6. CASE SkipRegister
  BY <1>1, <1>6, ControlUncut DEF SkipRegister, Uncut!SkipRegister, Unbroken
<1>7. CASE TransferRegister
  BY <1>1, <1>2, <1>3, <1>4, <1>7, ControlUncut, MemoryUncut, BytesUncut
     DEF TransferRegister, Uncut!TransferRegister, Unbroken
<1>8. CASE EscapeTransfer
  BY <1>4, <1>8, MemoryUncut, BytesUncut, ControlUncut
     DEF EscapeTransfer, Uncut!EscapeTransfer, Unbroken
<1>9. CASE EndTransfer
  BY <1>1, <1>9, ControlUncut DEF EndTransfer, Uncut!EndTransfer, Unbroken
<1> QED
  BY <1>5, <1>6, <1>7, <1>8, <1>9 DEF blockDataTransferEval

\* The handlers that return at once.
LEMMA SkipUncut ==
  ASSUME SkipInstruction \/ AssertInstruction, Unbroken
  PROVE  Uncut!SkipInstruction \/ Uncut!AssertInstruction
<1>1. Uncut!Unsupported <=> Unsupported
  BY DEF Unsupported, Uncut!Unsupported
<1> QED
  BY <1>1, ControlUncut
     DEF SkipInstruction, Uncut!SkipInstruction, AssertInstruction, Uncut!AssertInstruction,
         memory, Uncut!memory, block, Uncut!block, Unbroken

\* fetch() and decode(), in a turn the limit allows.
LEMMA FetchUncut ==
  ASSUME FetchDecode, ~cut, Remember
  PROVE  Uncut!FetchDecode
<1>1. Uncut!PC = PC /\ Uncut!ZeroInstruction = ZeroInstruction /\ Uncut!TurnsLeft
  BY DEF PC, Uncut!PC, ZeroInstruction, Uncut!ZeroInstruction, Uncut!TurnsLeft
<1>2. phase' # "idle"
  BY DEF FetchDecode, Escape
<1>3. ~cut' /\ answer' = answer
  BY <1>2 DEF Remember, Calls, RunsOut, Answers
<1>4. \A bytes : Escape(bytes) => Uncut!Escape(bytes)
  BY <1>3 DEF Escape, Uncut!Escape, Ram, Uncut!Ram
<1> QED
  BY <1>1, <1>3, <1>4, MemoryUncut, BytesUncut, WordsUncut
     DEF FetchDecode, Uncut!FetchDecode, memory, Uncut!memory, block, Uncut!block,
         run, Uncut!run

-----------------------------------------------------------------------------
(* The steps.                                                              *)

\* After a cut the host is on its way to the next call, which has nothing to
\* tell it; otherwise it looks at what the guest answered.  The loop of run()
\* has counted the instructions of its call.
SliceInv ==
  /\ cut \in BOOLEAN
  /\ cut => phase = "idle" /\ result = "Undefined" /\ host \in {"running", "switch"}
  /\ host = "switch" /\ phase = "idle" /\ ~cut => answer = result
  /\ limit # 0 => turns = iter

\* At the start.
LEMMA SliceInvInit == SliceInit => SliceInv /\ Uncut!HostInit
BY DEF SliceInit, HostInit, Uncut!HostInit, Init, Uncut!Init, SliceInv, Register, Uncut!Register,
       Ram, Uncut!Ram, NoFlags, Uncut!NoFlags, NoCode, Uncut!NoCode, ZeroInstruction,
       Uncut!ZeroInstruction

\* The history changes nothing of what the host does.
LEMMA SlicesDrive ==
  [SliceNext]_sliceVars => [HostNext]_hostVars
BY DEF SliceNext, sliceVars

\* The history of every step.
LEMMA SliceInvNext ==
  ASSUME IInv, HostInv, SliceInv, [SliceNext]_sliceVars
  PROVE  SliceInv'
<1>1. CASE (Construct \/ LoadProgram) /\ Remember
  <2>1. /\ host \in {"init", "load"} /\ phase \in {"constructed", "initialised"}
        /\ phase' \in {"initialised", "idle", "wild"}
        /\ host' # "switch" /\ UNCHANGED <<limit, iter>>
    BY <1>1 DEF Construct, LoadProgram, init, load, LoadFailure, LoadImage, run, HostInv
  <2> QED
    BY <1>1, <2>1 DEF SliceInv, Remember, Calls, RunsOut, Answers, Evaluated
<1>2. CASE Run /\ Remember
  BY <1>2 DEF Run, BeginRun, SliceInv, Remember, Calls, RunsOut, Answers
<1>3. CASE Guest /\ Remember
  <2>1. Controls /\ host = "switch" /\ ~cut /\ UNCHANGED host
    <3>1. Controls
      BY <1>3, TurnControls DEF Guest
    <3> QED
      BY <1>3, <3>1 DEF Controls, Guest, SliceInv, HostInv, Inside
  <2>2. RunsOut => result' = "Undefined"
    BY <2>1 DEF Controls, RunsOut, Inside, Lost
  <2>3. phase' = "idle" => RunsOut \/ Answers
    BY <2>1 DEF Controls, RunsOut, Answers, Inside, Lost
  <2>4. ~Calls
    BY <2>1 DEF Controls, Calls, Inside
  <2>5. limit' # 0 => turns' = iter'
    BY <1>3, <2>1, <2>4 DEF Controls, SliceInv, Remember, Inside, Lost
  <2> QED
    BY <1>3, <2>1, <2>2, <2>3, <2>4, <2>5
       DEF SliceInv, Remember, RunsOut, Answers, Controls, Inside, Lost
<1>4. CASE HandleResult /\ Remember
  BY <1>4 DEF HandleResult, vars, SliceInv, Remember, Calls, RunsOut, Answers, Evaluated
<1>5. CASE Done /\ Remember
  BY <1>5 DEF Done, hostVars, vars, HostInv, SliceInv, Remember, Calls, RunsOut, Answers, Evaluated
<1>6. CASE UNCHANGED sliceVars
  BY <1>6 DEF sliceVars, hostVars, vars, SliceInv
<1> QED
  BY <1>1, <1>2, <1>3, <1>4, <1>5, <1>6 DEF SliceNext, HostNext, HostStep

\* An instruction, or its part, in the loop of a call that nothing has cut.
LEMMA EvaluateUncut ==
  ASSUME Evaluate, Unbroken
  PROVE  Uncut!Evaluate
<1>1. CASE SkipInstruction \/ AssertInstruction
  BY <1>1, SkipUncut DEF Uncut!Evaluate
<1>2. CASE dataProcessingEval \/ singleDataTranferEval \/ blockDataTransferEval
  BY <1>2, DataProcessingUncut, SingleTransferUncut, BlockTransferUncut DEF Uncut!Evaluate
<1>3. CASE branchEval \/ branchAndExchangeEval \/ softwareInterruptEval
  BY <1>3, BranchUncut DEF Uncut!Evaluate
<1>4. CASE multiplyEval \/ multiplyLongEval
  BY <1>4, MultiplyUncut DEF Uncut!Evaluate
<1>5. CASE halfwordDataTransferImmediateOffEval \/ halfwordDataTransferRegisterOffEval
  BY <1>5, HalfwordUncut DEF Uncut!Evaluate
<1> QED
  BY <1>1, <1>2, <1>3, <1>4, <1>5 DEF Evaluate

\* The guest's turn: without a limit the loop would go on where the limit ends it.
LEMMA GuestUncut ==
  ASSUME Guest, Remember, HostInv, SliceInv
  PROVE  Uncut!Guest \/ UNCHANGED Uncut!hostVars
<1>1. Controls
  BY TurnControls DEF Guest
<1>2. host = "switch" /\ ~cut
  BY <1>1 DEF Controls, SliceInv, HostInv, Inside
<1>3. CASE Exhausted
  <2>1. RunsOut /\ UNCHANGED <<registers, cpsr, ram, code, programSize, instruction, i, offset>>
    BY <1>3 DEF Exhausted, Return, RunsOut, memory, block
  <2>2. cut' /\ answer' = answer
    BY <2>1 DEF Remember, RunsOut, Calls, Answers
  <2> QED
    BY <1>2, <2>1, <2>2 DEF Guest, Uncut!hostVars, Uncut!vars, RunsOut
<1>4. ~cut' /\ UNCHANGED <<host, output>> => UNCHANGED <<IF cut THEN "switch" ELSE host, output>>
  BY <1>2
<1>5. CASE FetchDecode
  <2>1. ~cut'
    BY <1>2, <1>5 DEF Remember, Calls, RunsOut, FetchDecode, Escape
  <2> QED
    BY <1>2, <1>4, <1>5, <2>1, FetchUncut DEF Guest, Uncut!Guest, Uncut!Turn
<1>6. CASE Evaluate
  <2>1. phase # "fetch"
    BY <1>6
       DEF Evaluate, SkipInstruction, AssertInstruction, dataProcessingEval,
           singleDataTranferEval, blockDataTransferEval, BeginTransfer, SkipRegister,
           TransferRegister, EscapeTransfer, EndTransfer, branchEval, branchAndExchangeEval,
           softwareInterruptEval, multiplyEval, multiplyLongEval,
           halfwordDataTransferImmediateOffEval, halfwordDataTransferRegisterOffEval, Executing
  <2>2. Unbroken
    BY <1>1, <1>2, <2>1 DEF Unbroken, Controls, Inside
  <2>3. Uncut!Evaluate /\ ~cut'
    BY <1>6, <2>2, EvaluateUncut, ControlUncut
  <2> QED
    BY <1>2, <1>4, <2>3 DEF Guest, Uncut!Guest, Uncut!Turn
<1> QED
  BY <1>3, <1>5, <1>6 DEF Guest, Turn

\* The calls of the host.  A call after a cut goes on with the one before.
LEMMA HostUncut ==
  ASSUME Construct \/ LoadProgram \/ Run \/ HandleResult \/ Done, Remember, HostInv, SliceInv
  PROVE  [Uncut!HostNext]_(Uncut!hostVars)
<1> USE DEF Uncut!HostNext, Uncut!HostStep
<1>1. Uncut!Ram = Ram /\ Uncut!Register = Register /\ Uncut!NoFlags = NoFlags
  BY DEF Ram, Uncut!Ram, Register, Uncut!Register, NoFlags, Uncut!NoFlags
<1>2. Uncut!NoCode = NoCode
  BY DEF NoCode, Uncut!NoCode, ZeroInstruction, Uncut!ZeroInstruction
<1>3. ASSUME ~cut, ~Calls, phase \notin {"fetch", "evaluate"}
      PROVE  ~cut' /\ answer' = answer
  BY <1>3 DEF Remember, RunsOut, Answers
<1>4. CASE Construct
  <2>1. ~cut /\ phase = "constructed"
    BY <1>4 DEF Construct, HostInv, SliceInv
  <2>2. ~cut' /\ answer' = answer
    BY <1>3, <2>1 DEF Calls
  <2> QED
    BY <1>1, <1>2, <1>4, <2>1, <2>2
       DEF Construct, Uncut!Construct, init, Uncut!init, block, Uncut!block, run, Uncut!run
<1>5. CASE LoadProgram
  <2>1. ~cut /\ phase = "initialised"
    BY <1>5 DEF LoadProgram, HostInv, SliceInv
  <2>2. ~cut' /\ answer' = answer
    BY <1>3, <2>1 DEF Calls
  <2>3. CASE LoadFailure
    BY <1>5, <2>1, <2>2, <2>3
       DEF LoadProgram, Uncut!LoadProgram, LoadFailure, Uncut!LoadFailure, Uncut!load,
           block, Uncut!block, run, Uncut!run
  <2>4. ASSUME NEW image \in Images, LoadImage(image)
        PROVE  Uncut!LoadImage(image)
    BY <1>1, <2>1, <2>2, <2>4
       DEF LoadImage, Uncut!LoadImage, block, Uncut!block, run, Uncut!run
  <2> QED
    BY <1>5, <2>1, <2>2, <2>3, <2>4 DEF LoadProgram, Uncut!LoadProgram, load, Uncut!load
<1>6. CASE Run
  <2>1. Calls /\ host = "running" /\ host' = "switch"
    BY <1>6 DEF Run, BeginRun, Calls
  <2>2. ~cut' /\ answer' = answer
    BY <2>1 DEF Remember, Calls, Answers
  <2>3. UNCHANGED <<registers, cpsr, ram, code, programSize, instruction, i, offset, output>>
    BY <1>6 DEF Run, BeginRun, memory, block
  <2>4. CASE cut
    BY <2>1, <2>2, <2>3, <2>4 DEF Calls, Uncut!hostVars, Uncut!vars
  <2>5. CASE ~cut
    <3>1. Uncut!BeginRun(0)
      BY <2>1, <2>2, <2>3, <2>5
         DEF Calls, Uncut!BeginRun, Uncut!memory, Uncut!block
    <3> QED
      BY <2>1, <2>2, <2>3, <2>5, <3>1 DEF Uncut!Run
  <2> QED
    BY <2>4, <2>5
<1>7. CASE HandleResult
  <2>1. phase = "idle" /\ host = "switch" /\ phase' = "idle" /\ UNCHANGED vars
    BY <1>7 DEF HandleResult, vars
  <2>2. cut' = cut /\ answer' = answer
    BY <2>1 DEF Remember, Calls, RunsOut, Answers, SliceInv
  <2>3. CASE cut
    BY <1>7, <2>1, <2>2, <2>3
       DEF HandleResult, SliceInv, vars, Uncut!hostVars, Uncut!vars
  <2>4. CASE ~cut
    <3>1. answer = result
      BY <2>1, <2>4 DEF SliceInv
    <3> QED
      BY <1>7, <2>1, <2>2, <2>4, <3>1
         DEF HandleResult, Uncut!HandleResult, vars, Uncut!vars
  <2> QED
    BY <2>3, <2>4
<1>8. CASE Done
  <2>1. ~cut /\ phase = "idle" /\ UNCHANGED hostVars
    BY <1>8 DEF Done, HostInv, SliceInv
  <2>2. ~cut' /\ answer' = answer
    BY <2>1 DEF Remember, Calls, RunsOut, Answers, hostVars, vars
  <2> QED
    BY <2>1, <2>2 DEF hostVars, vars, Uncut!hostVars, Uncut!vars
<1> QED
  BY <1>4, <1>5, <1>6, <1>7, <1>8

\* Every step.
LEMMA SliceStepUncut ==
  ASSUME HostInv, SliceInv, [SliceNext]_sliceVars
  PROVE  [Uncut!HostNext]_(Uncut!hostVars)
<1>1. CASE Guest /\ Remember
  BY <1>1, GuestUncut DEF Uncut!HostNext, Uncut!HostStep
<1>2. CASE UNCHANGED sliceVars
  BY <1>2 DEF sliceVars, hostVars, vars, Uncut!hostVars, Uncut!vars
<1> QED
  BY <1>1, <1>2, HostUncut DEF SliceNext, HostNext, HostStep

\* What a step may do to the count.
LEMMA StepCounts ==
  ASSUME IInv, HostInv, SliceInv, [SliceNext]_sliceVars
  PROVE  /\ limit # 0 => turns <= limit
         /\ RunsOut => turns = limit
<1>1. limit \in Nat /\ iter \in 0 .. limit
  BY BudgetsAssumption DEF IInv, TypeOK
<1>2. ASSUME RunsOut
      PROVE  limit # 0 /\ ~(iter < limit)
  <2>1. CASE Guest
    BY <1>2, <2>1, TurnControls DEF Guest, Controls, RunsOut, TurnsLeft, Inside, Lost
  <2>2. CASE Construct \/ LoadProgram \/ Run
    BY <1>2, <2>2 DEF Construct, LoadProgram, Run, BeginRun, HostInv, RunsOut
  <2> QED
    BY <1>2, <2>1, <2>2
       DEF SliceNext, HostNext, HostStep, HandleResult, Done, sliceVars, hostVars, vars, RunsOut
<1> QED
  BY <1>1, <1>2 DEF SliceInv

-----------------------------------------------------------------------------
(* The theorems on limits.                                                 *)

\* What always holds under a host with its history.
LEMMA SlicesKeepInvariant == SliceSpec => [](IInv /\ HostInv /\ SliceInv)
<1>1. SliceInit => IInv /\ HostInv /\ SliceInv
  BY SliceInvInit, HostInvInit, InitInv DEF SliceInit, HostInit
<1>2. IInv /\ HostInv /\ SliceInv /\ [SliceNext]_sliceVars => (IInv /\ HostInv /\ SliceInv)'
  BY SlicesDrive, HostStepIsNext, NextInv, HostInvNext, SliceInvNext
<1> QED
  BY <1>1, <1>2, PTL DEF SliceSpec

(***************************************************************************)
(* Whatever the program, the memory and the limits, a guest under a host   *)
(* that gives run() limits goes through the states it would go through     *)
(* under a host that gives none, and the host prints what it would print.  *)
(***************************************************************************)
THEOREM LimitsAreInvisible == SliceSpec => SlicesAreInvisible
<1>1. SliceInit => Uncut!HostInit
  BY SliceInvInit
<1>2. IInv /\ HostInv /\ SliceInv /\ [SliceNext]_sliceVars
        => [Uncut!HostNext]_(Uncut!hostVars)
  BY SliceStepUncut
<1> QED
  BY <1>1, <1>2, SlicesKeepInvariant, PTL DEF SliceSpec, SlicesAreInvisible

(***************************************************************************)
(* A call of run() with a limit n that no interrupt ends evaluates exactly *)
(* n instructions, and no call with a limit evaluates more.                *)
(***************************************************************************)
THEOREM LimitIsExact == SliceSpec => EvaluatesWhatWasAsked
<1>1. IInv /\ HostInv /\ SliceInv /\ [SliceNext]_sliceVars
        => [(limit # 0 => turns <= limit) /\ (RunsOut => turns = limit)]_sliceVars
  BY StepCounts
<1> QED
  BY <1>1, SlicesKeepInvariant, PTL DEF SliceSpec, EvaluatesWhatWasAsked

-----------------------------------------------------------------------------
(* A guest under the host.                                                 *)

\* Control is at an address of the program: run() fetches that instruction
\* next, now or when it is called again, or has just fetched it.
Placed(a) ==
  /\ a \in DOMAIN code
  /\ \/ phase \in {"fetch", "idle"} /\ registers[PC] = a
     \/ phase = "evaluate" /\ instruction = code[a] /\ registers[PC] = Wrap(a + 4)
     \/ phase = "transfer" /\ instruction = code[a]

\* The host has loaded a program, and the guest is neither lost nor stopped.
Going ==
  /\ IInv /\ HostInv
  /\ host \in {"running", "switch", "done"}
  /\ programSize # 0
  /\ phase \notin Lost /\ result # "Stop"

\* What the host does between the instructions, and fetch(): no register but
\* pc, no flag and no byte of the memory changes.
Between ==
  /\ UNCHANGED <<cpsr, ram, code, programSize>>
  /\ \A r \in Register \ {PC} : registers'[r] = registers[r]
  /\ phase' \notin Lost /\ result' # "Stop"
  /\ phase' = "transfer" => UNCHANGED vars

\* The guest has suspended itself, and the host has not printed its character yet.
Waiting == host = "switch" /\ phase = "idle" /\ result = "Suspend"

\* The host prints it, or prints nothing.
Printing ==
  \/ Waiting /\ ~Waiting' /\ output' = Append(output, ram[Uart])
  \/ (Waiting <=> Waiting') /\ output' = output

\* A step of the host moves control to the same place, or evaluates what is there.
LEMMA GuestTurn ==
  ASSUME Going, [HostNext]_hostVars, NEW a \in DOMAIN code, Placed(a)
  PROVE  /\ host \in {"running", "switch"} /\ host' \in {"running", "switch"}
         /\ \/ Between /\ Placed(a)' /\ Printing
            \/ /\ Evaluate /\ phase \in {"evaluate", "transfer"}
               /\ host' = host /\ output' = output
<1>1. /\ host \in {"running", "switch"}
      /\ registers \in [Register -> Word] /\ PC \in Register
      /\ phase \in {"fetch", "evaluate", "transfer", "idle"}
  BY Parts DEF Going, HostInv, Machine, Placed, Register, PC
<1>2. CASE HandleResult \/ UNCHANGED hostVars
  <2>1. UNCHANGED vars
    BY <1>2 DEF HandleResult, hostVars
  <2>2. Between /\ Placed(a)'
    BY <2>1 DEF Going, Between, Placed, vars
  <2>3. CASE HandleResult
    <3>1. /\ host = "switch" /\ phase = "idle" /\ host' = "running"
          /\ output' = IF result = "Suspend" THEN Append(output, ram[Uart]) ELSE output
      BY <2>3 DEF HandleResult, Going
    <3> QED
      BY <2>2, <3>1 DEF Printing, Waiting
  <2>4. CASE UNCHANGED hostVars
    BY <1>1, <2>1, <2>2, <2>4 DEF Printing, Waiting, hostVars, vars, run
  <2> QED
    BY <1>2, <2>3, <2>4
<1>3. CASE Run
  <2>1. PICK n \in Budgets : BeginRun(n)
    BY <1>3 DEF Run
  <2>2. host = "running" /\ host' = "switch" /\ phase' = "fetch" /\ output' = output
    BY <1>3, <2>1 DEF Run, BeginRun
  <2>3. Between /\ Placed(a)'
    BY <2>1 DEF BeginRun, Going, Between, Placed, memory, Lost
  <2> QED
    BY <2>2, <2>3 DEF Printing, Waiting
<1>4. CASE Guest /\ Exhausted
  <2>1. phase = "fetch" /\ result' = "Undefined" /\ host' = host /\ output' = output
    BY <1>4 DEF Guest, Exhausted, Return
  <2>2. Between /\ Placed(a)'
    BY <1>4 DEF Exhausted, Return, Going, Between, Placed, memory, Lost
  <2> QED
    BY <1>1, <2>1, <2>2 DEF Printing, Waiting
<1>5. CASE Guest /\ FetchDecode
  <2>1. phase = "fetch" /\ registers[PC] = a
    BY <1>5 DEF FetchDecode, Placed
  <2>2. /\ phase' = "evaluate" /\ instruction' = code[a]
        /\ registers' = [registers EXCEPT ![PC] = Wrap(a + 4)]
        /\ UNCHANGED <<cpsr, memory, block, run>>
    BY <1>5, <2>1 DEF FetchDecode
  <2>3. Between /\ Placed(a)'
    BY <1>1, <2>2 DEF Going, Between, Placed, memory, run, Lost
  <2>4. host' = host /\ output' = output
    BY <1>5 DEF Guest
  <2> QED
    BY <1>1, <2>1, <2>2, <2>3, <2>4 DEF Printing, Waiting
<1>6. ASSUME Evaluate PROVE phase \in {"evaluate", "transfer"}
  BY <1>6 DEF Evaluate, SkipInstruction, AssertInstruction,
           dataProcessingEval, singleDataTranferEval, blockDataTransferEval, BeginTransfer,
           SkipRegister, TransferRegister, EscapeTransfer, EndTransfer, branchEval,
           branchAndExchangeEval, softwareInterruptEval, multiplyEval, multiplyLongEval,
           halfwordDataTransferImmediateOffEval, halfwordDataTransferRegisterOffEval, Executing
<1>7. CASE Guest /\ Evaluate
  BY <1>1, <1>6, <1>7 DEF Guest
<1>8. ~Construct /\ ~LoadProgram /\ ~Done
  BY <1>1 DEF Construct, LoadProgram, Done
<1> QED
  BY <1>2, <1>3, <1>4, <1>5, <1>7, <1>8 DEF HostNext, HostStep, Guest, Turn

\* Once the guest has stopped nothing moves.
LEMMA StoppedStays ==
  ASSUME IInv, HostInv, host \in {"running", "switch", "done"}, result = "Stop",
         [HostNext]_hostVars
  PROVE  /\ UNCHANGED <<vars, output>> /\ phase = "idle" /\ host' \in {"switch", "done"}
         /\ host \in {"switch", "done"} /\ (host = "done" => host' = "done")
<1>1. host \in {"switch", "done"} /\ phase = "idle"
  BY DEF HostInv
<1>2. ~Construct /\ ~LoadProgram /\ ~Run
  BY <1>1 DEF Construct, LoadProgram, Run
<1>3. ~Guest
  <2>1. ASSUME Guest PROVE phase \in Inside
    BY <2>1, TurnControls DEF Guest, Controls
  <2> QED
    BY <1>1, <2>1 DEF Inside
<1> QED
  BY <1>1, <1>2, <1>3 DEF HostNext, HostStep, HandleResult, Done, hostVars

\* An instruction that completes hands control to where pc is.
LEMMA Completes ==
  ASSUME Going, phase \in {"evaluate", "transfer"}, Complete, code' = code,
         NEW a \in DOMAIN code, registers'[PC] = a
  PROVE  Placed(a)' /\ phase' = "fetch" /\ result' # "Stop"
BY DEF Complete, Placed, Going

-----------------------------------------------------------------------------
(* The instructions the guests are made of.                                *)

\* The second operands they use: a small constant, a register.
LEMMA ConstantOperand ==
  ASSUME NEW n \in Byte
  PROVE  Operand2(Imm(n)) = {[value |-> n, carry |-> cpsr.c]}
<1>1. n \in Word
  BY ByteFacts DEF Byte, Word
<1>2. rotate(Imm(n)) = Shifted(n, cpsr.c)
  BY DEF rotate, Imm
<1> QED
  BY <1>1, <1>2, WrapWord DEF Operand2, Imm, Shifted

\* A register as it is.
LEMMA RegisterOperand ==
  ASSUME NEW rm \in Register, registers \in [Register -> Word]
  PROVE  Operand2(Reg(rm)) =
           {[value |-> Wrap(registers[rm] + (IF rm = PC THEN 4 ELSE 0)), carry |-> cpsr.c]}
<1> DEFINE a == Wrap(registers[rm] + (IF rm = PC THEN 4 ELSE 0))
<1>1. registers[rm] \in Int
  BY WordRange
<1>2. a \in Word
  BY <1>1, WrapType
<1>3. Operand2(Reg(rm)) = {LogicalLeft(a, 0)}
  BY DEF Operand2, Reg, shift
<1>4. LogicalLeft(a, 0) = Shifted(a, cpsr.c)
  BY WidthAssumption DEF LogicalLeft
<1> HIDE DEF a
<1>5. Shifted(a, cpsr.c) = [value |-> a, carry |-> cpsr.c]
  BY <1>2, WrapWord DEF Shifted
<1> QED
  BY <1>3, <1>4, <1>5 DEF a

\* An instruction of the ALU that is always executed.
LEMMA AluStep ==
  ASSUME Evaluate, phase = "evaluate",
         instruction.format = "data_processing", instruction.condition = "AL",
         NEW op2, Operand2(instruction.operand2) = {[value |-> op2, carry |-> cpsr.c]},
         NEW word,
         word = Result(instruction.opcode, instruction.rn, Operand1(instruction.rn), op2)
  PROVE  /\ registers' = IF instruction.opcode \in Tests THEN registers
                         ELSE [registers EXCEPT ![instruction.rd] = word]
         /\ instruction.s => cpsr'.z = FlagOf(word = 0)
         /\ ~instruction.s => cpsr' = cpsr
         /\ Complete /\ UNCHANGED <<memory, instruction, block>>
<1>1. dataProcessingEval
  BY AlwaysHandled
<1>2. PICK shifted \in Operand2(instruction.operand2) :
        LET opcode == instruction.opcode
            op1 == Operand1(instruction.rn)
            value == Result(opcode, instruction.rn, op1, shifted.value)
        IN  /\ registers' = IF opcode \in Tests THEN registers
                            ELSE [registers EXCEPT ![instruction.rd] = value]
            /\ cpsr' = IF ~instruction.s THEN cpsr
                       ELSE [n |-> FlagOf(NEG(value)), z |-> FlagOf(value = 0),
                             c |-> CarryFlag(opcode, op1, shifted.value, value, shifted.carry),
                             v |-> OverflowFlag(opcode, op1, shifted.value, value)]
  BY <1>1, Zenon DEF dataProcessingEval
<1>3. shifted.value = op2
  OBVIOUS
<1> QED
  BY <1>1, <1>2, <1>3 DEF dataProcessingEval

\* What a transfer at a distance does once its address is known.
DistanceDone(t, d) ==
  LET a == IF t.p THEN Base(t) + d ELSE Base(t)
      file == IF t.load THEN [registers EXCEPT ![t.rd] = IF t.b THEN ram[a] ELSE WordAt(a)]
              ELSE registers
  IN  /\ registers' = IF t.p THEN file ELSE [file EXCEPT ![t.rn] = Wrap(Base(t) + d)]
      /\ ram' = IF t.load THEN ram
                ELSE AfterStore(ram, a, IF t.b THEN 1 ELSE 4, registers[t.rd])
      /\ Bytes(a, IF t.b THEN 1 ELSE 4) \subseteq Ram
      /\ Complete

\* A word or a byte at a distance above a base, or the machine is lost.
LEMMA DistanceStep ==
  ASSUME IInv, Evaluate, phase = "evaluate",
         instruction.format = "single_data_transfer", instruction.condition = "AL",
         instruction.u = TRUE, instruction.w = FALSE, instruction.load \in BOOLEAN,
         instruction.b \in BOOLEAN, instruction.p \in BOOLEAN,
         instruction.rd \in Register \ {PC}, instruction.rn \in Register,
         NEW d \in Nat, instruction.offset = [kind |-> "distance", value |-> d]
  PROVE  /\ UNCHANGED <<cpsr, code, programSize, instruction, block>>
         /\ DistanceDone(instruction, d) \/ phase' \in Lost
<1> DEFINE s == instruction
           a == IF s.p THEN Base(s) + d ELSE Base(s)
<1>2. Offsets(s) = {d}
  BY DEF Offsets
<1>3. /\ UNCHANGED <<cpsr, code, programSize, instruction, block>>
      /\ \/ /\ Data(Touched(s, d))
            /\ Load(s, d) \/ Store(s, d)
            /\ Complete
         \/ phase' \in Lost
  <2> HIDE DEF s
  <2>1. s = instruction
    BY DEF s
  <2> QED
    BY <1>2, <2>1, SingleStep
<1>4. registers \in [Register -> Word]
  BY Parts DEF Machine
<1>5. Base(s) \in Int
  <2>1. registers[s.rn] \in Int
    BY <1>4, WordRange
  <2>2. Base(s) \in Word
    BY <2>1, WrapType DEF Base
  <2> QED
    BY <2>2, WordRange
<1>6. Address(s, d) = a /\ Indexed(s, d) = Base(s) + d
  BY DEF Address, Indexed
<1>7. Stored(s) = registers[s.rd]
  <2>1. registers[s.rd] \in Word
    BY <1>4
  <2>2. registers[s.rd] + 0 = registers[s.rd]
    BY <2>1, ModulusFacts DEF Word
  <2> QED
    BY <2>1, <2>2, WrapWord DEF Stored
<1>8. Data(Touched(s, d)) => Bytes(a, IF s.b THEN 1 ELSE 4) \subseteq Ram
  BY <1>6 DEF Data, Touched
<1>9. CASE Load(s, d) /\ Data(Touched(s, d)) /\ Complete
  BY <1>3, <1>6, <1>8, <1>9 DEF Load, WriteBack, DistanceDone
<1>10. CASE Store(s, d) /\ Data(Touched(s, d)) /\ Complete
  BY <1>3, <1>6, <1>7, <1>8, <1>10 DEF Store, WriteBack, StoreBytes, DistanceDone
<1> QED
  BY <1>3, <1>9, <1>10

\* A word from the literal pool.
LEMMA LiteralStep ==
  ASSUME IInv, Evaluate, phase = "evaluate", NEW rd \in Register \ {PC}, NEW x \in Nat, NEW d \in Nat,
         registers[PC] = x, x + 4 \in Word, instruction = Ldr(rd, PC, d)
  PROVE  /\ UNCHANGED <<cpsr, code, programSize, instruction, block>>
         /\ \/ /\ registers' = [registers EXCEPT ![rd] = WordAt(x + 4 + d)]
               /\ ram' = ram /\ Complete
            \/ phase' \in Lost
<1> DEFINE s == instruction
<1>1. /\ s.condition = "AL" /\ s.format = "single_data_transfer"
      /\ s.load = TRUE /\ s.b = FALSE /\ s.p = TRUE /\ s.u = TRUE /\ s.w = FALSE
      /\ s.rn = PC /\ s.rd = rd /\ s.offset = [kind |-> "distance", value |-> d]
      /\ PC \in Register
  BY DEF Ldr, Transfer, PC, Register
<1>2. Base(s) = x + 4
  BY <1>1, WrapWord DEF Base
<1> HIDE DEF s
<1>3. s = instruction
  BY DEF s
<1>4. /\ UNCHANGED <<cpsr, code, programSize, instruction, block>>
      /\ DistanceDone(s, d) \/ phase' \in Lost
  BY <1>1, <1>3, DistanceStep
<1> QED
  BY <1>1, <1>2, <1>4 DEF DistanceDone

\* The byte at an address, and the address of the next.
LEMMA NextByteStep ==
  ASSUME IInv, Evaluate, phase = "evaluate", NEW rd \in Register \ {PC}, NEW rn \in Register \ {PC},
         NEW l \in BOOLEAN, instruction = Transfer(l, TRUE, FALSE, rd, rn, 1)
  PROVE  /\ UNCHANGED <<cpsr, code, programSize, instruction, block>>
         /\ \/ /\ l => /\ registers' = [[registers EXCEPT ![rd] = ram[registers[rn]]]
                                          EXCEPT ![rn] = Wrap(registers[rn] + 1)]
                       /\ ram' = ram
               /\ ~l => /\ registers' = [registers EXCEPT ![rn] = Wrap(registers[rn] + 1)]
                        /\ ram' = AfterStore(ram, registers[rn], 1, registers[rd])
               /\ Complete
            \/ phase' \in Lost
<1> DEFINE s == instruction
<1>1. /\ s.condition = "AL" /\ s.format = "single_data_transfer"
      /\ s.load = l /\ s.b = TRUE /\ s.p = FALSE /\ s.u = TRUE /\ s.w = FALSE
      /\ s.rn = rn /\ s.rd = rd /\ s.offset = [kind |-> "distance", value |-> 1]
  BY DEF Transfer
<1>2. Base(s) = registers[rn]
  <2>1. registers \in [Register -> Word]
    BY Parts DEF Machine
  <2>2. registers[rn] \in Word
    BY <2>1
  <2>3. registers[rn] + 0 = registers[rn]
    BY <2>2, ModulusFacts DEF Word
  <2> QED
    BY <1>1, <2>2, <2>3, WrapWord DEF Base
<1> HIDE DEF s
<1>3. s = instruction
  BY DEF s
<1>4. /\ UNCHANGED <<cpsr, code, programSize, instruction, block>>
      /\ DistanceDone(s, 1) \/ phase' \in Lost
  BY <1>1, <1>3, DistanceStep
<1> QED
  BY <1>1, <1>2, <1>4 DEF DistanceDone

\* A constant or a register into a register.
LEMMA ConstantStep ==
  ASSUME Evaluate, phase = "evaluate", NEW rd \in Register, NEW n \in Byte,
         instruction = Mov(rd, Imm(n))
  PROVE  /\ registers' = [registers EXCEPT ![rd] = n]
         /\ Complete /\ UNCHANGED <<cpsr, memory, instruction, block>>
<1>1. /\ instruction.format = "data_processing" /\ instruction.condition = "AL"
      /\ instruction.s = FALSE /\ instruction.opcode = "MOV" /\ instruction.rd = rd
      /\ instruction.operand2 = Imm(n)
  BY DEF Mov, Alu
<1>2. Operand2(instruction.operand2) = {[value |-> n, carry |-> cpsr.c]}
  BY <1>1, ConstantOperand
<1>3. Result("MOV", instruction.rn, Operand1(instruction.rn), n) = n /\ "MOV" \notin Tests
  BY DEF Result, Tests
<1> QED
  BY <1>1, <1>2, <1>3, AluStep

\* A register into a register.
LEMMA RegisterStep ==
  ASSUME IInv, Evaluate, phase = "evaluate", NEW rd \in Register, NEW rm \in Register,
         instruction = Mov(rd, Reg(rm))
  PROVE  /\ registers' = [registers EXCEPT
                            ![rd] = Wrap(registers[rm] + (IF rm = PC THEN 4 ELSE 0))]
         /\ Complete /\ UNCHANGED <<cpsr, memory, instruction, block>>
<1> DEFINE value == Wrap(registers[rm] + (IF rm = PC THEN 4 ELSE 0))
<1>1. /\ instruction.format = "data_processing" /\ instruction.condition = "AL"
      /\ instruction.s = FALSE /\ instruction.opcode = "MOV" /\ instruction.rd = rd
      /\ instruction.operand2 = Reg(rm)
  BY DEF Mov, Alu
<1>2. Operand2(instruction.operand2) = {[value |-> value, carry |-> cpsr.c]}
  <2>1. registers \in [Register -> Word]
    BY Parts DEF Machine
  <2> QED
    BY <1>1, <2>1, RegisterOperand
<1> HIDE DEF value
<1>3. Result("MOV", instruction.rn, Operand1(instruction.rn), value) = value /\ "MOV" \notin Tests
  BY DEF Result, Tests
<1>4. /\ registers' = [registers EXCEPT ![rd] = value]
      /\ Complete /\ UNCHANGED <<cpsr, memory, instruction, block>>
  BY <1>1, <1>2, <1>3, AluStep
<1> QED
  BY <1>4 DEF value

\* The first operand, when it is not pc.
LEMMA PlainOperand1 ==
  ASSUME IInv, NEW rn \in Register \ {PC}
  PROVE  Operand1(rn) = registers[rn] /\ registers[rn] \in Word /\ Wrap(registers[rn] + 0) = registers[rn]
<1>1. registers \in [Register -> Word]
  BY Parts DEF Machine
<1>2. registers[rn] \in Word
  BY <1>1
<1>3. registers[rn] + 0 = registers[rn]
  BY <1>2, ModulusFacts DEF Word
<1> QED
  BY <1>2, <1>3, WrapWord DEF Operand1

\* A register and a constant, with or without the flags.
CountedTo(opcode, rn, n) ==
  Wrap(IF opcode = "ADD" THEN registers[rn] + n ELSE registers[rn] - n)

\* Adding, subtracting or comparing with a constant.
LEMMA CountingStep ==
  ASSUME IInv, Evaluate, phase = "evaluate", NEW opcode \in {"ADD", "SUB", "CMP"},
         NEW rd \in Register, NEW rn \in Register \ {PC}, NEW n \in Byte,
         instruction \in {Alu(opcode, rd, rn, Imm(n)), AluS(opcode, rd, rn, Imm(n))}
  PROVE  /\ registers' = IF opcode = "CMP" THEN registers
                         ELSE [registers EXCEPT ![rd] = CountedTo(opcode, rn, n)]
         /\ instruction = AluS(opcode, rd, rn, Imm(n)) =>
              cpsr'.z = FlagOf(CountedTo(opcode, rn, n) = 0)
         /\ instruction = Alu(opcode, rd, rn, Imm(n)) => cpsr' = cpsr
         /\ Complete /\ UNCHANGED <<memory, instruction, block>>
<1>1. /\ instruction.format = "data_processing" /\ instruction.condition = "AL"
      /\ instruction = AluS(opcode, rd, rn, Imm(n)) => instruction.s = TRUE
      /\ instruction = Alu(opcode, rd, rn, Imm(n)) => instruction.s = FALSE
      /\ instruction.opcode = opcode /\ instruction.rd = rd
      /\ instruction.rn = rn /\ instruction.operand2 = Imm(n)
  BY DEF Alu, AluS
<1>2. Operand2(instruction.operand2) = {[value |-> n, carry |-> cpsr.c]}
  BY <1>1, ConstantOperand
<1>3. Result(opcode, rn, Operand1(rn), n) = CountedTo(opcode, rn, n)
  BY PlainOperand1 DEF Result, CountedTo
<1>4. opcode \in Tests <=> opcode = "CMP"
  BY DEF Tests
<1> QED
  BY <1>1, <1>2, <1>3, <1>4, AluStep

\* Two registers.
LEMMA SumStep ==
  ASSUME IInv, Evaluate, phase = "evaluate",
         NEW rd \in Register, NEW rn \in Register \ {PC}, NEW rm \in Register \ {PC},
         instruction = Alu("ADD", rd, rn, Reg(rm))
  PROVE  /\ registers' = [registers EXCEPT ![rd] = Wrap(registers[rn] + registers[rm])]
         /\ Complete /\ UNCHANGED <<cpsr, memory, instruction, block>>
<1>1. /\ instruction.format = "data_processing" /\ instruction.condition = "AL"
      /\ instruction.s = FALSE /\ instruction.opcode = "ADD" /\ instruction.rd = rd
      /\ instruction.rn = rn /\ instruction.operand2 = Reg(rm)
  BY DEF Alu
<1>2. Operand2(instruction.operand2) = {[value |-> registers[rm], carry |-> cpsr.c]}
  <2>1. registers \in [Register -> Word] /\ Wrap(registers[rm] + 0) = registers[rm]
    BY PlainOperand1, Parts DEF Machine
  <2> QED
    BY <1>1, <2>1, RegisterOperand
<1>3. Result("ADD", rn, Operand1(rn), registers[rm]) = Wrap(registers[rn] + registers[rm])
      /\ "ADD" \notin Tests
  BY PlainOperand1 DEF Result, Tests
<1> QED
  BY <1>1, <1>2, <1>3, AluStep

\* A branch, conditional or not, from one address to another.
LEMMA BranchStep ==
  ASSUME IInv, Evaluate, phase = "evaluate", NEW l \in BOOLEAN, NEW condition \in {"AL", "NE"},
         NEW from \in Nat, NEW to \in Nat, NEW q \in Int, to - from - 8 = 4 * q,
         4 * q >= -FieldSign, 4 * q < FieldSign, to \in Word, from + 4 \in Word,
         instruction.format = "branch", instruction.condition = condition,
         instruction.l = l, instruction.offset = ((to - from - 8) \div 4) % FieldModulus,
         registers[PC] = from + 4
  PROVE  /\ registers' = IF TestCondition(condition)
                         THEN [registers EXCEPT ![LR] = IF l THEN registers[PC] ELSE @,
                                                ![PC] = to]
                         ELSE registers
         /\ Complete /\ UNCHANGED <<cpsr, memory, instruction, block>>
<1> DEFINE field == ((to - from - 8) \div 4) % FieldModulus
<1>1. /\ instruction.format = "branch" /\ instruction.condition = condition
      /\ instruction.l = l /\ instruction.offset = field
  OBVIOUS
<1>2. field = q % FieldModulus
  <2>1. (to - from - 8) \div 4 = q
    <3>1. 4 * q + 0 = to - from - 8 /\ 4 \in Nat \ {0} /\ 0 \in 0 .. 4 - 1
      OBVIOUS
    <3>2. (4 * q + 0) \div 4 = q
      BY <3>1, QuotientIs
    <3> QED
      BY <3>1, <3>2
  <2> QED
    BY <2>1
<1> HIDE DEF field
<1>3. field \in Field /\ SignedField(field) = q
  <2>1. q \in -FieldSign .. FieldSign - 1
    BY FieldFacts
  <2>2. CASE q >= 0
    <3>1. field = q
      BY <1>2, <2>1, <2>2, FieldFacts
    <3> QED
      BY <2>1, <2>2, <3>1, FieldFacts DEF Field, SignedField
  <2>3. CASE q < 0
    <3>1. q + FieldModulus \in 0 .. FieldModulus - 1
      BY <2>1, <2>3, FieldFacts
    <3>2. field = q + FieldModulus
      BY <1>2, <2>1, <2>3, <3>1, FieldFacts
    <3> QED
      BY <2>1, <2>3, <3>1, <3>2, FieldFacts DEF Field, SignedField
  <2> QED
    BY <2>2, <2>3
<1>4. Wrap(registers[PC] + getSigned24(4 * field) + 4) = to
  <2>1. \/ getSigned24(4 * field) = 4 * q
        \/ getSigned24(4 * field) = 4 * q + Modulus
    BY <1>3, NearOffset
  <2>2. from + 4 + 4 * q + 4 = to /\ from + 4 + (4 * q + Modulus) + 4 = to + 1 * Modulus
    BY ModulusFacts
  <2>3. Wrap(to) = to /\ Wrap(to + 1 * Modulus) = Wrap(to)
    BY WrapWord, WrapMultiple
  <2> QED
    BY <2>1, <2>2, <2>3
<1>5. CASE TestCondition(condition)
  <2>1. branchEval
    BY <1>1, <1>5 DEF Evaluate, SkipInstruction, AssertInstruction, Unsupported,
           dataProcessingEval, singleDataTranferEval, blockDataTransferEval, BeginTransfer,
           SkipRegister, TransferRegister, EscapeTransfer, EndTransfer,
           branchAndExchangeEval, softwareInterruptEval, multiplyEval, multiplyLongEval,
           halfwordDataTransferImmediateOffEval, halfwordDataTransferRegisterOffEval, Executing
  <2> QED
    BY <1>1, <1>4, <1>5, <2>1 DEF branchEval
<1>6. CASE ~TestCondition(condition)
  <2>1. SkipInstruction
    BY <1>1, <1>6 DEF Evaluate, AssertInstruction, Unsupported,
           dataProcessingEval, singleDataTranferEval, blockDataTransferEval, BeginTransfer,
           SkipRegister, TransferRegister, EscapeTransfer, EndTransfer, branchEval,
           branchAndExchangeEval, softwareInterruptEval, multiplyEval, multiplyLongEval,
           halfwordDataTransferImmediateOffEval, halfwordDataTransferRegisterOffEval, Executing
  <2> QED
    BY <1>6, <2>1 DEF SkipInstruction
<1> QED
  BY <1>5, <1>6

\* The interrupt that stops the guest.
LEMMA GuestStops ==
  ASSUME Evaluate, phase = "evaluate", instruction = Swi(2)
  PROVE  /\ phase' = "idle" /\ result' = "Stop"
         /\ UNCHANGED <<registers, cpsr, memory, instruction, block>>
<1>1. /\ instruction.format = "software_interrupt" /\ instruction.condition = "AL"
      /\ instruction.comment = 2
  BY DEF Swi
<1>2. TestCondition("AL")
  BY DEF TestCondition
<1>3. softwareInterruptEval
  BY <1>1, <1>2 DEF Evaluate, SkipInstruction, AssertInstruction, Unsupported,
         dataProcessingEval, singleDataTranferEval, blockDataTransferEval, BeginTransfer,
         SkipRegister, TransferRegister, EscapeTransfer, EndTransfer, branchEval,
         branchAndExchangeEval, multiplyEval, multiplyLongEval,
         halfwordDataTransferImmediateOffEval, halfwordDataTransferRegisterOffEval, Executing
<1> QED
  BY <1>1, <1>3 DEF softwareInterruptEval, Return, Interrupt

-----------------------------------------------------------------------------
(* Programs and their literals.                                            *)

\* Once there is a program the host leaves it in place, and a machine that is
\* lost stays so.
LEMMA HostLater ==
  ASSUME IInv, HostInv, host \in {"running", "switch", "done"}, [HostNext]_hostVars
  PROVE  /\ host' \in {"running", "switch", "done"}
         /\ code' = code /\ programSize' = programSize
         /\ phase \in Lost => phase' \in Lost
<1>1. ~Construct /\ ~LoadProgram
  BY DEF Construct, LoadProgram
<1>2. CASE Run
  BY <1>2 DEF Run, BeginRun, memory, Lost
<1>3. CASE Guest
  <2>1. Controls /\ Next /\ host' = host
    BY <1>3, TurnControls DEF Guest, Next
  <2>2. phase \notin {"constructed", "initialised"}
    BY <2>1 DEF Controls, Inside
  <2>3. ~init /\ ~(\E image \in Images : LoadImage(image))
    <3>1. ASSUME init PROVE FALSE
      <4>1. phase' = "initialised"
        BY <3>1 DEF init
      <4> QED
        BY <2>1, <4>1 DEF Controls, Inside, Lost
    <3> QED
      BY <2>2, <3>1 DEF LoadImage
  <2>4. code' = code
    BY <2>1, <2>3, CodeSteps
  <2> QED
    BY <2>1, <2>4 DEF Controls, Inside, Lost
<1>4. CASE HandleResult \/ Done \/ UNCHANGED hostVars
  BY <1>4 DEF HandleResult, Done, hostVars, vars
<1> QED
  BY <1>1, <1>2, <1>3, <1>4 DEF HostNext, HostStep

\* The memory load() leaves, and a word of a literal pool in it.
Fresh(data) == [a \in Ram |-> IF a \in DOMAIN data THEN data[a] ELSE 0]

\* The words of a literal pool, read back byte by byte.
LEMMA LiteralReads ==
  ASSUME NEW m \in [Ram -> Byte], NEW a \in Int, NEW w \in Word, Bytes(a, 4) \subseteq Ram,
         WordBits = 4 * ByteBits, \A k \in 0 .. 3 : m[a + k] = ByteOf(w, k)
  PROVE  WordIn(m, a) = w
<1>1. \A b \in Bytes(a, 4) : m[b] = ByteOf(w, b - a)
  <2> SUFFICES ASSUME NEW b \in Bytes(a, 4) PROVE m[b] = ByteOf(w, b - a)
    OBVIOUS
  <2>1. b - a \in 0 .. 3 /\ a + (b - a) = b
    BY DEF Bytes
  <2> QED
    BY <2>1
<1>2. AfterStore(m, a, 4, w) = m
  BY <1>1 DEF AfterStore
<1> QED
  BY <1>2, StoredWordsReadBack

\* They are bytes, at the addresses of the pool.
LEMMA LiteralBytes ==
  ASSUME NEW address \in Nat, NEW words, Len(words) \in Nat, NEW j \in 1 .. Len(words),
         NEW k \in 0 .. 3
  PROVE  /\ address + 4 * (j - 1) + k \in DOMAIN Literal(address, words)
         /\ Literal(address, words)[address + 4 * (j - 1) + k] = ByteOf(words[j], k)
<1> DEFINE a == address + 4 * (j - 1) + k
<1>1. a \in Bytes(address, 4 * Len(words)) /\ a - address = 4 * (j - 1) + k
  BY DEF Bytes
<1>2. (4 * (j - 1) + k) \div 4 = j - 1
  BY QuotientIs
<1>3. (4 * (j - 1) + k) % 4 = k
  OBVIOUS
<1>4. Literal(address, words) =
        [b \in Bytes(address, 4 * Len(words)) |->
           ByteOf(words[((b - address) \div 4) + 1], (b - address) % 4)]
  BY DEF Literal
<1>5. (j - 1) + 1 = j
  OBVIOUS
<1> HIDE DEF a
<1>6. Literal(address, words)[a] = ByteOf(words[((a - address) \div 4) + 1], (a - address) % 4)
  BY <1>1, <1>4
<1> QED
  BY <1>1, <1>2, <1>3, <1>4, <1>5, <1>6 DEF a

\* A literal in the memory of a program just loaded.
LEMMA LiteralLoaded ==
  ASSUME NEW address \in Nat, NEW words, Len(words) \in Nat, NEW j \in 1 .. Len(words),
         NEW rest, Fresh(Joined(Literal(address, words), rest)) \in [Ram -> Byte],
         words[j] \in Word, WordBits = 4 * ByteBits, Bytes(address + 4 * (j - 1), 4) \subseteq Ram
  PROVE  WordIn(Fresh(Joined(Literal(address, words), rest)), address + 4 * (j - 1)) = words[j]
<1>0. \A k \in 0 .. 3 :
        /\ address + 4 * (j - 1) + k \in DOMAIN Literal(address, words)
        /\ Literal(address, words)[address + 4 * (j - 1) + k] = ByteOf(words[j], k)
  <2> SUFFICES ASSUME NEW k \in 0 .. 3
               PROVE  /\ address + 4 * (j - 1) + k \in DOMAIN Literal(address, words)
                      /\ Literal(address, words)[address + 4 * (j - 1) + k] = ByteOf(words[j], k)
    OBVIOUS
  <2>1. address \in Nat /\ Len(words) \in Nat /\ j \in 1 .. Len(words)
    OBVIOUS
  <2> QED
    BY ONLY <2>1, LiteralBytes
<1> DEFINE data == Joined(Literal(address, words), rest)
           a == address + 4 * (j - 1)
<1>1. ASSUME NEW k \in 0 .. 3
      PROVE  Fresh(data)[a + k] = ByteOf(words[j], k)
  <2>1. a + k \in Bytes(a, 4)
    BY DEF Bytes
  <2>2. /\ a + k \in DOMAIN Literal(address, words)
        /\ Literal(address, words)[a + k] = ByteOf(words[j], k)
    BY <1>0, Zenon
  <2>3. a + k \in DOMAIN data /\ data[a + k] = ByteOf(words[j], k)
    BY <2>2 DEF Joined
  <2> HIDE DEF data, a
  <2> QED
    BY <2>1, <2>3 DEF Fresh, a, data
<1>2. a \in Int
  OBVIOUS
<1> HIDE DEF data, a
<1> QED
  BY <1>1, <1>2, LiteralReads DEF data, a

-----------------------------------------------------------------------------
(* The loop that copies bytes.                                             *)

\* The instruction at each address of it.
LEMMA CopyCodes ==
  ASSUME NEW n, NEW program, program = CopyCode(n)
  PROVE  /\ DOMAIN program = {0, 4, 8, 12, 16, 20, 24, 28}
         /\ program[0] = Ldr(0, PC, 24) /\ program[4] = Ldr(1, PC, 24)
         /\ program[8] = Mov(2, Imm(n))
         /\ program[12] = LdrbPost(3, 0, 1) /\ program[16] = StrbPost(3, 1, 1)
         /\ program[20] = AluS("SUB", 2, 2, Imm(1)) /\ program[24] = If("NE", B(24, 12))
         /\ program[28] = Swi(2)
<1> DEFINE words == <<
             Ldr(0, PC, 24), Ldr(1, PC, 24), Mov(2, Imm(n)),
             LdrbPost(3, 0, 1), StrbPost(3, 1, 1),
             AluS("SUB", 2, 2, Imm(1)), If("NE", B(24, 12)), Swi(2)>>
<1>1. program = CodeOf(words)
  BY Zenon DEF CopyCode
<1>2. /\ Len(words) = 8 /\ DOMAIN words = 1 .. 8
      /\ words[1] = Ldr(0, PC, 24) /\ words[2] = Ldr(1, PC, 24) /\ words[3] = Mov(2, Imm(n))
      /\ words[4] = LdrbPost(3, 0, 1) /\ words[5] = StrbPost(3, 1, 1)
      /\ words[6] = AluS("SUB", 2, 2, Imm(1)) /\ words[7] = If("NE", B(24, 12))
      /\ words[8] = Swi(2)
  OBVIOUS
<1> HIDE DEF words
<1>3. /\ DOMAIN program = {4 * k : k \in 0 .. 7}
      /\ \A k \in 0 .. 7 : program[4 * k] = words[k + 1]
  <2>1. Len(words) \in Nat /\ Len(words) - 1 = 7 /\ DOMAIN words = 1 .. Len(words)
    BY <1>2
  <2> QED
    BY <1>1, <2>1, CodeOfProgram
<1>4. /\ program[4 * 0] = words[0 + 1] /\ program[4 * 1] = words[1 + 1]
      /\ program[4 * 2] = words[2 + 1] /\ program[4 * 3] = words[3 + 1]
      /\ program[4 * 4] = words[4 + 1] /\ program[4 * 5] = words[5 + 1]
      /\ program[4 * 6] = words[6 + 1] /\ program[4 * 7] = words[7 + 1]
  BY <1>3
<1>5. {4 * k : k \in 0 .. 7} = {0, 4, 8, 12, 16, 20, 24, 28}
  OBVIOUS
<1> QED
  BY <1>2, <1>3, <1>4, <1>5

\* The bytes are in the buffer, and apart; so are code and literals.
CopyFits(n, source, destination) ==
  /\ n \in Byte \ {0} /\ source \in Nat /\ destination \in Nat
  /\ Bytes(source, n) \subseteq Ram /\ Bytes(destination, n) \subseteq Ram
  /\ Bytes(source, n) \cap Bytes(destination, n) = {}
  /\ Bytes(0, 40) \subseteq Ram

\* A memory after its first k bytes have been copied.
Copied(m, source, destination, k) ==
  [a \in Ram |-> IF a \in Bytes(destination, k) THEN m[source + (a - destination)] ELSE m[a]]

\* With k bytes behind and control at an address, what the registers hold.
CopyAt(m, n, source, destination, a, k) ==
  /\ ram = Copied(m, source, destination, IF a \in {20, 24, 28} THEN k + 1 ELSE k)
  /\ a \in {0, 4, 8} => k = 0
  /\ a # 0 => registers[0] = IF a \in {4, 8, 12} THEN source + k ELSE Wrap(source + k + 1)
  /\ a \notin {0, 4} =>
       registers[1] = IF a \in {8, 12, 16} THEN destination + k ELSE Wrap(destination + k + 1)
  /\ a \in {12, 16, 20} => registers[2] = n - k
  /\ a \in {24, 28} => registers[2] = n - k - 1
  /\ a = 16 => registers[3] = m[source + k]
  /\ a = 24 => cpsr.z = FlagOf(n - k - 1 = 0)
  /\ a = 28 => k = n - 1

\* The invariant of the copy: control is somewhere in the loop, the host
\* is lost, or the bytes have been copied.
CopyInv(m, n, source, destination) ==
  /\ code = CopyCode(n) /\ programSize # 0
  /\ phase \notin Lost /\ result # "Stop" =>
       /\ phase # "transfer"
       /\ \E a \in DOMAIN code, k \in 0 .. n - 1 :
            Placed(a) /\ CopyAt(m, n, source, destination, a, k)
  /\ phase \notin Lost /\ result = "Stop" => ram = Copied(m, source, destination, n)

\* What the instruction at each address does.
CopyContext(m, n, source, destination) ==
  /\ WordBits = 4 * ByteBits /\ FieldSign >= 20
  /\ m \in [Ram -> Byte] /\ CopyFits(n, source, destination)
  /\ WordIn(m, 32) = source /\ WordIn(m, 36) = destination

\* The numbers are words.
LEMMA CopyNumbers ==
  ASSUME NEW n, NEW source, NEW destination, CopyFits(n, source, destination),
         NEW k \in 0 .. n - 1
  PROVE  /\ n \in Nat /\ n \in Word /\ n < ByteModulus /\ k \in Nat
         /\ source + k \in Ram /\ destination + k \in Ram
         /\ Ram \subseteq Word /\ 40 \in Word
         /\ Wrap(source + k + 1) = source + k + 1
         /\ Wrap(destination + k + 1) = destination + k + 1
<1>1. n \in Nat /\ n < ByteModulus /\ n \in Word /\ k \in Nat
  BY ByteFacts DEF CopyFits, Byte, Word
<1>2. source + k \in Ram /\ destination + k \in Ram /\ 39 \in Ram
  BY <1>1 DEF CopyFits, Bytes
<1>3. Ram \subseteq Word /\ 40 \in Word
      /\ source + k + 1 \in Word /\ destination + k + 1 \in Word
  BY <1>2, BufferAssumption, MemSizeAssumption, ModulusFacts DEF Ram, Word, CopyFits
<1> QED
  BY <1>1, <1>2, <1>3, WrapWord

\* Storing the next byte.
LEMMA CopyOneMore ==
  ASSUME NEW m \in [Ram -> Byte], NEW n, NEW source, NEW destination,
         CopyFits(n, source, destination), NEW k \in 0 .. n - 1
  PROVE  AfterStore(Copied(m, source, destination, k), destination + k, 1, m[source + k])
           = Copied(m, source, destination, k + 1)
<1>1. /\ source + k \in Ram /\ destination + k \in Ram /\ k \in Nat /\ n \in Nat
      /\ source \in Nat /\ destination \in Nat
  BY CopyNumbers DEF CopyFits
<1> DEFINE v == m[source + k]
           before == Copied(m, source, destination, k)
<1>2. v \in Byte /\ v \in 0 .. ByteModulus - 1 /\ ByteModulus \in Nat \ {0}
  BY <1>1, ByteFacts DEF Byte
<1>3. ByteOf(v, 0) = v
  <2>1. v \in Int /\ 0 * ByteBits = 0 /\ 2^0 = 1
    <3>1. 2^0 = 1
      OBVIOUS
    <3>2. 0 * ByteBits = 0
      BY ByteFacts
    <3> HIDE DEF v
    <3> QED
      BY <1>2, <3>1, <3>2
  <2> HIDE DEF v
  <2>2. v \div 1 = v
    BY <2>1
  <2>3. v % ByteModulus = v
    BY <1>2
  <2> QED
    BY <2>1, <2>2, <2>3 DEF ByteOf, ShiftRight
<1>4. AfterStore(before, destination + k, 1, v) =
        [b \in Ram |-> IF b \in Bytes(destination + k, 1) THEN ByteOf(v, b - (destination + k))
                       ELSE before[b]]
  BY DEF AfterStore, Copied
<1>5. ASSUME NEW b \in Ram
      PROVE  (IF b \in Bytes(destination + k, 1) THEN ByteOf(v, b - (destination + k))
              ELSE before[b])
               = IF b \in Bytes(destination, k + 1) THEN m[source + (b - destination)] ELSE m[b]
  <2>1. b \in Int
    BY MemSizeAssumption DEF Ram
  <2>2. CASE b = destination + k
    <3>1. b - (destination + k) = 0 /\ source + (b - destination) = source + k
          /\ b \in Bytes(destination + k, 1) /\ b \in Bytes(destination, k + 1)
      BY <1>1, <2>2 DEF Bytes
    <3> QED
      BY <1>3, <3>1
  <2>3. CASE b # destination + k
    <3>1. /\ b \notin Bytes(destination + k, 1)
          /\ b \in Bytes(destination, k + 1) <=> b \in Bytes(destination, k)
      BY <1>1, <2>1, <2>3 DEF Bytes
    <3> QED
      BY <3>1 DEF Copied
  <2> QED
    BY <2>2, <2>3
<1> HIDE DEF v, before
<1>6. AfterStore(before, destination + k, 1, v) = Copied(m, source, destination, k + 1)
  BY <1>4, <1>5 DEF Copied
<1> QED
  BY <1>6 DEF v, before

\* Moving on from an instruction to the next, with k or one more behind.
CopyGoesTo(m, n, source, destination, a, k) ==
  /\ a \in DOMAIN code /\ k \in 0 .. n - 1
  /\ registers'[PC] = a /\ Complete /\ code' = code /\ programSize' = programSize
  /\ CopyAt(m, n, source, destination, a, k)'

\* There the invariant holds.
LEMMA CopyMovesOn ==
  ASSUME NEW m, NEW n, NEW source, NEW destination, Going, phase = "evaluate",
         code = CopyCode(n), NEW a, NEW k, CopyGoesTo(m, n, source, destination, a, k)
  PROVE  CopyInv(m, n, source, destination)'
<1>1. Placed(a)' /\ phase' = "fetch" /\ result' # "Stop"
  BY Completes DEF CopyGoesTo
<1>2. a \in (DOMAIN code)'
  BY DEF CopyGoesTo
<1> QED
  BY <1>1, <1>2 DEF CopyGoesTo, CopyInv, Going

\* The two literals and the length.
LEMMA CopyPrologue ==
  ASSUME NEW m, NEW n, NEW source, NEW destination, CopyContext(m, n, source, destination),
         Going, phase = "evaluate", Evaluate, code = CopyCode(n),
         NEW a \in {0, 4, 8}, NEW k \in 0 .. n - 1, Placed(a),
         CopyAt(m, n, source, destination, a, k)
  PROVE  phase' \in Lost \/ CopyGoesTo(m, n, source, destination, a + 4, 0)
<1>1. /\ registers \in [Register -> Word] /\ IInv
      /\ 0 \in Register /\ 1 \in Register /\ 2 \in Register /\ PC \in Register
      /\ PC \notin {0, 1, 2}
  BY Parts DEF Going, Machine, Register, PC
<1>2. /\ CopyFits(n, source, destination) /\ WordIn(m, 32) = source
      /\ WordIn(m, 36) = destination /\ m \in [Ram -> Byte]
  BY DEF CopyContext
<1>3. /\ n \in Nat /\ n \in Word /\ Ram \subseteq Word /\ 40 \in Word /\ 0 \in 0 .. n - 1
  <2>1. n \in Nat /\ n \in Word /\ Ram \subseteq Word /\ 40 \in Word
    BY <1>2, CopyNumbers
  <2> QED
    BY <2>1
<1>4. k = 0 /\ ram = Copied(m, source, destination, 0) /\ ram = m
  <2>1. k = 0 /\ ram = Copied(m, source, destination, 0)
    BY DEF CopyAt
  <2>2. Bytes(destination, 0) = {}
    BY <1>2 DEF Bytes, CopyFits
  <2>3. Copied(m, source, destination, 0) = [b \in Ram |-> m[b]]
    BY <2>2 DEF Copied
  <2> QED
    BY <1>2, <2>1, <2>3
<1>5. registers[PC] = a + 4 /\ instruction = code[a]
  <2>1. a + 4 \in Word
    BY <1>3, ModulusFacts DEF Word
  <2> QED
    BY <2>1, WrapWord DEF Placed
<1>6. \A x \in 0 .. 16 : Wrap(x) = x
  <2>1. 0 .. 16 \subseteq Word
    BY <1>3, ModulusFacts DEF Word
  <2> QED
    BY <2>1, WrapWord
<1>7. CASE a = 0
  <2>1. instruction = Ldr(0, PC, 24)
    BY <1>5, <1>7, CopyCodes
  <2>2. /\ registers[PC] = 4 /\ 8 \in Word /\ 4 \in Nat
        /\ 24 \in Nat /\ 4 + 4 + 24 = 32
    BY <1>5, <1>3, <1>7, ModulusFacts DEF Word
  <2>3. /\ UNCHANGED <<cpsr, code, programSize, instruction, block>>
        /\ \/ /\ registers' = [registers EXCEPT ![0] = WordAt(32)]
              /\ ram' = ram /\ Complete
           \/ phase' \in Lost
    BY <1>1, <2>1, <2>2, LiteralStep
  <2>4. WordAt(32) = source
    BY <1>2, <1>4 DEF WordAt
  <2>5. ASSUME phase' \notin Lost
        PROVE  CopyGoesTo(m, n, source, destination, 4, 0)
    <3>1. registers'[0] = source + 0 /\ registers'[PC] = 4 /\ ram' = Copied(m, source, destination, 0)
      BY <1>1, <1>2, <1>4, <1>5, <1>7, <2>3, <2>4, <2>5 DEF CopyFits
    <3>2. CopyAt(m, n, source, destination, 4, 0)'
      BY <3>1 DEF CopyAt
    <3> QED
      BY <1>3, <2>3, <2>5, <3>1, <3>2, CopyCodes DEF CopyGoesTo
  <2> QED
    BY <1>7, <2>5
<1>8. CASE a = 4
  <2>1. instruction = Ldr(1, PC, 24)
    BY <1>5, <1>8, CopyCodes
  <2>2. /\ registers[PC] = 8 /\ 12 \in Word /\ 8 \in Nat
        /\ 24 \in Nat /\ 8 + 4 + 24 = 36
    BY <1>5, <1>3, <1>8, ModulusFacts DEF Word
  <2>3. /\ UNCHANGED <<cpsr, code, programSize, instruction, block>>
        /\ \/ /\ registers' = [registers EXCEPT ![1] = WordAt(36)]
              /\ ram' = ram /\ Complete
           \/ phase' \in Lost
    BY <1>1, <2>1, <2>2, LiteralStep
  <2>4. WordAt(36) = destination /\ registers[0] = source + 0
    BY <1>2, <1>4, <1>8 DEF WordAt, CopyAt
  <2>5. ASSUME phase' \notin Lost
        PROVE  CopyGoesTo(m, n, source, destination, 8, 0)
    <3>1. /\ registers'[0] = source + 0 /\ registers'[1] = destination + 0 /\ registers'[PC] = 8
          /\ ram' = Copied(m, source, destination, 0)
      BY <1>1, <1>2, <1>4, <1>5, <1>8, <2>3, <2>4, <2>5 DEF CopyFits
    <3>2. CopyAt(m, n, source, destination, 8, 0)'
      BY <3>1 DEF CopyAt
    <3> QED
      BY <1>3, <2>3, <2>5, <3>1, <3>2, CopyCodes DEF CopyGoesTo
  <2> QED
    BY <1>8, <2>5
<1>9. CASE a = 8
  <2>1. instruction = Mov(2, Imm(n)) /\ n \in Byte
    BY <1>2, <1>5, <1>9, CopyCodes DEF CopyFits
  <2>4. /\ registers' = [registers EXCEPT ![2] = n]
        /\ Complete /\ UNCHANGED <<memory, instruction, block>>
    BY <1>1, <2>1, ConstantStep
  <2>5. registers[0] = source + 0 /\ registers[1] = destination + 0
    BY <1>4, <1>9 DEF CopyAt
  <2>6. /\ registers'[0] = source + 0 /\ registers'[1] = destination + 0 /\ registers'[2] = n - 0
        /\ registers'[PC] = 12 /\ ram' = Copied(m, source, destination, 0)
    BY <1>1, <1>3, <1>4, <1>5, <1>9, <2>4, <2>5 DEF memory
  <2>7. CopyAt(m, n, source, destination, 12, 0)'
    BY <2>6 DEF CopyAt
  <2>8. CopyGoesTo(m, n, source, destination, 12, 0)
    BY <1>3, <2>4, <2>6, <2>7, CopyCodes DEF CopyGoesTo, memory
  <2> QED
    BY <1>9, <2>8
<1> QED
  BY <1>7, <1>8, <1>9

\* A byte is loaded, stored, counted, and the loop goes round or ends.
LEMMA CopyLoop ==
  ASSUME NEW m, NEW n, NEW source, NEW destination, CopyContext(m, n, source, destination),
         Going, phase = "evaluate", Evaluate, code = CopyCode(n),
         NEW a \in {12, 16, 20, 24}, NEW k \in 0 .. n - 1, Placed(a),
         CopyAt(m, n, source, destination, a, k)
  PROVE  \/ phase' \in Lost
         \/ CopyGoesTo(m, n, source, destination, a + 4, k)
         \/ a = 24 /\ k + 1 < n /\ CopyGoesTo(m, n, source, destination, 12, k + 1)
<1>1. /\ registers \in [Register -> Word] /\ IInv
      /\ 0 \in Register \ {PC} /\ 1 \in Register \ {PC} /\ 2 \in Register \ {PC}
      /\ 3 \in Register \ {PC} /\ PC \in Register
  BY Parts DEF Going, Machine, Register, PC
<1>2. CopyFits(n, source, destination) /\ m \in [Ram -> Byte] /\ FieldSign >= 20
  BY DEF CopyContext
<1>3. /\ n \in Nat /\ n \in Word /\ n < ByteModulus /\ k \in Nat /\ k < n
      /\ Ram \subseteq Word /\ 40 \in Word
      /\ source + k \in Ram /\ destination + k \in Ram
      /\ Wrap(source + k + 1) = source + k + 1
      /\ Wrap(destination + k + 1) = destination + k + 1
  BY <1>2, CopyNumbers
<1>4. source \in Nat /\ destination \in Nat
  BY <1>2 DEF CopyFits
<1>5. registers[PC] = a + 4 /\ instruction = code[a]
  <2>1. a + 4 \in Word
    BY <1>3, ModulusFacts DEF Word
  <2> QED
    BY <2>1, WrapWord DEF Placed
<1>6. CASE a = 12
  <2>1. instruction = Transfer(TRUE, TRUE, FALSE, 3, 0, 1)
    BY <1>5, <1>6, CopyCodes DEF LdrbPost
  <2>2. /\ ram = Copied(m, source, destination, k)
        /\ registers[0] = source + k /\ registers[1] = destination + k /\ registers[2] = n - k
    BY <1>6 DEF CopyAt
  <2>3. ram[source + k] = m[source + k]
    <3>1. source + k \in Bytes(source, n)
      BY <1>3, <1>4 DEF Bytes
    <3>2. source + k \notin Bytes(destination, k)
      <4>1. Bytes(destination, k) \subseteq Bytes(destination, n)
        BY <1>3, <1>4 DEF Bytes
      <4> QED
        BY <1>2, <3>1, <4>1 DEF CopyFits
    <3> QED
      BY <1>3, <2>2, <3>2 DEF Copied
  <2>4. /\ UNCHANGED <<cpsr, code, programSize, instruction, block>>
        /\ \/ /\ registers' = [[registers EXCEPT ![3] = ram[registers[0]]]
                                 EXCEPT ![0] = Wrap(registers[0] + 1)]
              /\ ram' = ram /\ Complete
           \/ phase' \in Lost
    BY <1>1, <2>1, NextByteStep
  <2>5. ASSUME phase' \notin Lost
        PROVE  CopyGoesTo(m, n, source, destination, 16, k)
    <3>1. /\ registers'[0] = Wrap(source + k + 1) /\ registers'[1] = destination + k
          /\ registers'[2] = n - k /\ registers'[3] = m[source + k] /\ registers'[PC] = 16
          /\ ram' = Copied(m, source, destination, k)
      BY <1>1, <1>5, <1>6, <2>2, <2>3, <2>4, <2>5
    <3>2. CopyAt(m, n, source, destination, 16, k)'
      BY <3>1 DEF CopyAt
    <3> QED
      BY <2>4, <2>5, <3>1, <3>2, CopyCodes DEF CopyGoesTo
  <2> QED
    BY <1>6, <2>5
<1>7. CASE a = 16
  <2>1. instruction = Transfer(FALSE, TRUE, FALSE, 3, 1, 1)
    BY <1>5, <1>7, CopyCodes DEF StrbPost
  <2>2. /\ ram = Copied(m, source, destination, k)
        /\ registers[0] = Wrap(source + k + 1) /\ registers[1] = destination + k
        /\ registers[2] = n - k /\ registers[3] = m[source + k]
    BY <1>7 DEF CopyAt
  <2>3. AfterStore(ram, registers[1], 1, registers[3]) = Copied(m, source, destination, k + 1)
    BY <1>2, <2>2, CopyOneMore
  <2>4. /\ UNCHANGED <<cpsr, code, programSize, instruction, block>>
        /\ \/ /\ registers' = [registers EXCEPT ![1] = Wrap(registers[1] + 1)]
              /\ ram' = AfterStore(ram, registers[1], 1, registers[3]) /\ Complete
           \/ phase' \in Lost
    BY <1>1, <2>1, NextByteStep
  <2>5. ASSUME phase' \notin Lost
        PROVE  CopyGoesTo(m, n, source, destination, 20, k)
    <3>1. /\ registers'[0] = Wrap(source + k + 1) /\ registers'[1] = Wrap(destination + k + 1)
          /\ registers'[2] = n - k /\ registers'[PC] = 20
          /\ ram' = Copied(m, source, destination, k + 1)
      BY <1>1, <1>5, <1>7, <2>2, <2>3, <2>4, <2>5
    <3>2. CopyAt(m, n, source, destination, 20, k)'
      BY <3>1 DEF CopyAt
    <3> QED
      BY <2>4, <2>5, <3>1, <3>2, CopyCodes DEF CopyGoesTo
  <2> QED
    BY <1>7, <2>5
<1>8. CASE a = 20
  <2>1. instruction = AluS("SUB", 2, 2, Imm(1))
    BY <1>5, <1>8, CopyCodes
  <2>2. /\ ram = Copied(m, source, destination, k + 1)
        /\ registers[0] = Wrap(source + k + 1) /\ registers[1] = Wrap(destination + k + 1)
        /\ registers[2] = n - k
    BY <1>8 DEF CopyAt
  <2>3. CountedTo("SUB", 2, 1) = n - k - 1
    <3>1. n - k - 1 \in Word
      BY <1>3, ModulusFacts DEF Word
    <3> QED
      BY <2>2, <3>1, WrapWord DEF CountedTo
  <2>4. /\ registers' = [registers EXCEPT ![2] = n - k - 1]
        /\ cpsr'.z = FlagOf(n - k - 1 = 0)
        /\ Complete /\ UNCHANGED <<memory, instruction, block>>
    <3>1. 1 \in Byte
      BY <1>2, <1>3, ByteFacts DEF CopyFits, Byte
    <3>2. /\ registers' = [registers EXCEPT ![2] = CountedTo("SUB", 2, 1)]
          /\ cpsr'.z = FlagOf(CountedTo("SUB", 2, 1) = 0)
          /\ Complete /\ UNCHANGED <<memory, instruction, block>>
      BY <1>1, <2>1, <3>1, CountingStep
    <3> QED
      BY <2>3, <3>2
  <2>5. /\ registers'[0] = Wrap(source + k + 1) /\ registers'[1] = Wrap(destination + k + 1)
        /\ registers'[2] = n - k - 1 /\ registers'[PC] = 24
        /\ ram' = Copied(m, source, destination, k + 1)
    BY <1>1, <1>5, <1>8, <2>2, <2>4 DEF memory
  <2>6. CopyAt(m, n, source, destination, 24, k)'
    BY <2>4, <2>5 DEF CopyAt
  <2>7. CopyGoesTo(m, n, source, destination, 24, k)
    BY <2>4, <2>5, <2>6, CopyCodes DEF CopyGoesTo, memory
  <2> QED
    BY <1>8, <2>7
<1>9. CASE a = 24
  <2>1. instruction = If("NE", Branch(FALSE, 24, 12))
    BY <1>5, <1>9, CopyCodes DEF B
  <2>2. /\ ram = Copied(m, source, destination, k + 1)
        /\ registers[0] = Wrap(source + k + 1) /\ registers[1] = Wrap(destination + k + 1)
        /\ registers[2] = n - k - 1 /\ cpsr.z = FlagOf(n - k - 1 = 0)
    BY <1>9 DEF CopyAt
  <2>3. TestCondition("NE") <=> k + 1 < n
    BY <1>3, <2>2 DEF TestCondition, FlagOf
  <2>4. /\ registers' = IF k + 1 < n
                        THEN [registers EXCEPT ![LR] = registers[LR], ![PC] = 12]
                        ELSE registers
        /\ Complete /\ UNCHANGED <<cpsr, memory, instruction, block>>
    <3>1. /\ 24 \in Nat /\ 12 \in Nat /\ -5 \in Int /\ 12 - 24 - 8 = 4 * (-5)
          /\ 4 * (-5) >= -FieldSign /\ 4 * (-5) < FieldSign /\ 12 \in Word /\ 24 + 4 \in Word
      BY <1>2, <1>3, FieldFacts, ModulusFacts DEF Word
    <3>2. registers[PC] = 24 + 4
      BY <1>5, <1>9
    <3>3. /\ instruction.format = "branch" /\ instruction.condition = "NE"
          /\ instruction.l = FALSE
          /\ instruction.offset = ((12 - 24 - 8) \div 4) % FieldModulus
      BY <2>1 DEF If, Branch
    <3>4. /\ registers' = IF TestCondition("NE")
                           THEN [registers EXCEPT ![LR] = registers[LR], ![PC] = 12]
                           ELSE registers
          /\ Complete /\ UNCHANGED <<cpsr, memory, instruction, block>>
      <4>1. IInv
        BY <1>1
      <4>2. /\ registers' = IF TestCondition("NE")
                             THEN [registers EXCEPT ![LR] = IF FALSE THEN registers[PC] ELSE @,
                                                    ![PC] = 12]
                             ELSE registers
            /\ Complete /\ UNCHANGED <<cpsr, memory, instruction, block>>
        BY <3>1, <3>2, <3>3, <4>1, BranchStep, Zenon
      <4> QED
        BY ONLY <4>2
    <3> QED
      BY <2>3, <3>4
  <2>5. CASE k + 1 < n
    <3>1. /\ registers'[0] = source + (k + 1) /\ registers'[1] = destination + (k + 1)
          /\ registers'[2] = n - (k + 1) /\ registers'[PC] = 12
          /\ ram' = Copied(m, source, destination, k + 1)
      BY <1>1, <1>3, <1>4, <2>2, <2>4, <2>5 DEF memory, LR, PC
    <3>2. CopyAt(m, n, source, destination, 12, k + 1)'
      BY <3>1 DEF CopyAt
    <3>3. k + 1 \in 0 .. n - 1
      BY <1>3, <2>5
    <3> QED
      BY <1>9, <2>4, <2>5, <3>1, <3>2, <3>3, CopyCodes DEF CopyGoesTo, memory
  <2>6. CASE ~(k + 1 < n)
    <3>1. k = n - 1
      BY <1>3, <2>6
    <3>2. /\ registers'[0] = Wrap(source + k + 1) /\ registers'[1] = Wrap(destination + k + 1)
          /\ registers'[2] = n - k - 1 /\ registers'[PC] = 28
          /\ ram' = Copied(m, source, destination, k + 1)
      BY <1>1, <1>5, <1>9, <2>2, <2>4, <2>6 DEF memory
    <3>3. CopyAt(m, n, source, destination, 28, k)'
      BY <3>1, <3>2 DEF CopyAt
    <3> QED
      BY <1>9, <2>4, <3>2, <3>3, CopyCodes DEF CopyGoesTo, memory
  <2> QED
    BY <2>5, <2>6
<1> QED
  BY <1>6, <1>7, <1>8, <1>9

\* The invariant of the copy goes on.
LEMMA CopyNext ==
  ASSUME NEW m, NEW n, NEW source, NEW destination, CopyContext(m, n, source, destination),
         IInv, HostInv, host \in {"running", "switch", "done"},
         CopyInv(m, n, source, destination), [HostNext]_hostVars
  PROVE  CopyInv(m, n, source, destination)'
<1>1. code' = code /\ programSize' = programSize /\ (phase \in Lost => phase' \in Lost)
  BY HostLater
<1>2. CASE phase' \in Lost
  BY <1>1, <1>2 DEF CopyInv
<1>3. CASE phase' \notin Lost /\ result = "Stop"
  BY <1>1, <1>3, StoppedStays DEF CopyInv, vars
<1>4. CASE phase' \notin Lost /\ result # "Stop"
  <2>1. Going /\ code = CopyCode(n) /\ phase # "transfer"
    BY <1>1, <1>4 DEF Going, CopyInv
  <2>2. PICK a \in DOMAIN code, k \in 0 .. n - 1 :
          Placed(a) /\ CopyAt(m, n, source, destination, a, k)
    BY <2>1 DEF CopyInv, Going
  <2>3. CASE Between /\ Placed(a)'
    <3>1. CopyAt(m, n, source, destination, a, k)'
      <4>1. /\ registers'[0] = registers[0] /\ registers'[1] = registers[1]
            /\ registers'[2] = registers[2] /\ registers'[3] = registers[3]
        BY <2>3 DEF Between, Register, PC
      <4> QED
        BY <2>2, <2>3, <4>1 DEF Between, CopyAt
    <3>2. phase' # "transfer"
      BY <2>1, <2>3 DEF Between, vars
    <3>3. a \in (DOMAIN code)' /\ result' # "Stop"
      BY <1>1, <2>3 DEF Between
    <3> QED
      BY <1>1, <2>1, <2>3, <3>1, <3>2, <3>3 DEF CopyInv, Going
  <2>4. CASE Evaluate /\ phase = "evaluate"
    <3>1. a \in {0, 4, 8, 12, 16, 20, 24, 28}
      BY <2>1, <2>2, CopyCodes
    <3>2. CASE a \in {0, 4, 8}
      BY <1>4, <2>1, <2>2, <2>4, <3>2, CopyPrologue, CopyMovesOn
    <3>3. CASE a \in {12, 16, 20, 24}
      BY <1>4, <2>1, <2>2, <2>4, <3>3, CopyLoop, CopyMovesOn
    <3>4. CASE a = 28
      <4>1. instruction = Swi(2)
        BY <2>1, <2>2, <2>4, <3>4, CopyCodes DEF Placed
      <4>2. phase' = "idle" /\ result' = "Stop" /\ ram' = ram
        BY <2>4, <4>1, GuestStops DEF memory
      <4>3. ram = Copied(m, source, destination, n)
        <5>1. k = n - 1 /\ ram = Copied(m, source, destination, k + 1)
          BY <2>2, <3>4 DEF CopyAt
        <5>2. n \in Nat
          BY CopyNumbers DEF CopyContext
        <5> QED
          BY <5>1, <5>2
      <4> QED
        BY <1>1, <2>1, <4>2, <4>3 DEF CopyInv, Going
    <3> QED
      BY <3>1, <3>2, <3>3, <3>4
  <2> QED
    BY <2>1, <2>2, <2>3, <2>4, GuestTurn
<1> QED
  BY <1>2, <1>3, <1>4

\* What load() leaves of a program with an instruction at address 0.
JustLoaded(image) ==
  /\ code = image.code /\ programSize # 0 /\ result # "Stop"
  /\ phase = "idle" => Placed(0)
  /\ phase \in {"idle", "wild"} /\ host = "running"
  /\ registers = [r \in Register |-> 0]
  /\ ram = Fresh(image.data)
  /\ Fresh(image.data) \in [Ram -> Byte]

\* Nothing is left of an earlier program when load() begins.
Cleared == host = "load" => registers = [r \in Register |-> 0] /\ ram = [a \in Ram |-> 0]

\* load() leaves that.
LEMMA LoadsProgram ==
  ASSUME IInv, HostInv, Cleared, [HostNext]_hostVars,
         host \notin {"running", "switch", "done"}, host' \in {"running", "switch", "done"},
         NEW start \in DOMAIN code', start = 0
  PROVE  \E image \in Images : JustLoaded(image)'
<1>1. LoadProgram /\ host = "load"
  <2>1. host \in {"init", "load"} /\ phase \in {"constructed", "initialised"}
    BY DEF HostInv
  <2>2. ~Guest
    BY <2>1, TurnControls DEF Guest, Controls, Inside
  <2> QED
    BY <2>1, <2>2 DEF HostNext, HostStep, Construct, Run, HandleResult, Done, hostVars
<1>2. ~LoadFailure
  <2>1. ASSUME LoadFailure PROVE FALSE
    <3>1. code = NoCode /\ code' = code
      BY <1>1, <2>1 DEF LoadFailure, HostInv, IInv, Machine
    <3> QED
      BY <3>1 DEF NoCode
  <2> QED
    BY <2>1
<1>3. PICK image \in Images : LoadImage(image)
  BY <1>1, <1>2 DEF LoadProgram, load
<1>4. image.size # 0
  <2>1. Bytes(start, 4) \subseteq Bytes(0, image.size) /\ image.size \in Nat
    BY <1>3, ImagesAssumption DEF LoadImage
  <2> QED
    BY <2>1 DEF Bytes
<1>5. Fresh(image.data) \in [Ram -> Byte]
  BY ImagesAssumption, ByteFacts DEF Fresh, Byte
<1>6. ram' = Fresh(image.data)
  BY <1>1, <1>3 DEF LoadImage, Cleared, Fresh
<1>7. registers' = [r \in Register |-> 0] /\ PC \in Register
  BY <1>1, <1>3 DEF LoadImage, Cleared, Register, PC
<1>8. result' # "Stop" /\ phase' \in {"idle", "wild"} /\ host' = "running"
  BY <1>1, <1>3, <1>4 DEF HostInv, LoadProgram, LoadImage, run
<1> QED
  BY <1>3, <1>4, <1>5, <1>6, <1>7, <1>8 DEF LoadImage, JustLoaded, Placed

\* Every step of the host keeps the machine so.
LEMMA ClearedNext ==
  ASSUME HostInv, Cleared, [HostNext]_hostVars
  PROVE  Cleared'
<1>1. CASE Construct
  BY <1>1 DEF Construct, init, Cleared
<1>2. CASE LoadProgram
  BY <1>2 DEF LoadProgram, Cleared
<1>3. CASE Run
  BY <1>3 DEF Run, Cleared
<1>4. CASE Guest
  BY <1>4, TurnControls DEF Guest, Controls, Cleared, HostInv, Inside
<1>5. CASE HandleResult \/ UNCHANGED hostVars
  BY <1>5 DEF HandleResult, hostVars, vars, Cleared
<1> QED
  BY <1>1, <1>2, <1>3, <1>4, <1>5 DEF HostNext, HostStep, Done

-----------------------------------------------------------------------------
\* The invariant, when the loaded program is the copy.
CopyGuest(n, source, destination) ==
  host \in {"running", "switch", "done"} /\ code = CopyCode(n) =>
    \E image \in Images :
      /\ image.code = CopyCode(n)
      /\ CopyContext(Fresh(image.data), n, source, destination)
      /\ CopyInv(Fresh(image.data), n, source, destination)

\* Every program with the code of the copy is one that copies these bytes.
CopiesOnly(n, source, destination) ==
  \A image \in Images :
    image.code = CopyCode(n) =>
      \E bytes \in [Bytes(source, n) -> Byte] : image = CopyFile(n, source, destination, bytes)

\* It holds of a program just loaded.
LEMMA CopyLoaded ==
  ASSUME NEW n, NEW source, NEW destination, NEW image \in Images,
         WordBits = 4 * ByteBits, FieldSign >= 20, CopyFits(n, source, destination),
         CopiesOnly(n, source, destination), code' = CopyCode(n), JustLoaded(image)'
  PROVE  /\ CopyContext(Fresh(image.data), n, source, destination)
         /\ CopyInv(Fresh(image.data), n, source, destination)'
<1>1. image.code = CopyCode(n) /\ Fresh(image.data) \in [Ram -> Byte]
  BY DEF JustLoaded
<1>2. PICK bytes \in [Bytes(source, n) -> Byte] :
        image = CopyFile(n, source, destination, bytes)
  BY <1>1 DEF CopiesOnly
<1>3. image.data = Joined(Literal(32, <<source, destination>>), bytes)
  BY <1>2 DEF CopyFile, File
<1>4. source \in Word /\ destination \in Word /\ 0 \in 0 .. n - 1 /\ n \in Nat
      /\ source \in Nat /\ destination \in Nat
  <2>1. n \in Nat \ {0} /\ source \in Nat /\ destination \in Nat
    BY DEF CopyFits, Byte
  <2>2. 0 \in 0 .. n - 1
    BY <2>1
  <2> QED
    BY <2>1, <2>2, CopyNumbers
<1>5. WordIn(Fresh(image.data), 32) = source /\ WordIn(Fresh(image.data), 36) = destination
  <2> DEFINE words == <<source, destination>>
  <2>1. /\ Len(words) \in Nat /\ 1 \in 1 .. Len(words) /\ 2 \in 1 .. Len(words)
        /\ words[1] = source /\ words[2] = destination
    OBVIOUS
  <2>2. Bytes(32, 4) \subseteq Ram /\ Bytes(36, 4) \subseteq Ram
    BY DEF CopyFits, Bytes
  <2>3. image.data = Joined(Literal(32, words), bytes)
    BY <1>3
  <2> HIDE DEF words
  <2>4. Fresh(Joined(Literal(32, words), bytes)) \in [Ram -> Byte]
    BY <1>1, <2>3
  <2>5. ASSUME NEW j \in 1 .. Len(words), words[j] \in Word, Bytes(32 + 4 * (j - 1), 4) \subseteq Ram
        PROVE  WordIn(Fresh(Joined(Literal(32, words), bytes)), 32 + 4 * (j - 1)) = words[j]
    BY ONLY WordBits = 4 * ByteBits, <2>1, <2>4, <2>5, LiteralLoaded
  <2> QED
    BY <1>4, <2>1, <2>2, <2>3, <2>5
<1>6. CopyContext(Fresh(image.data), n, source, destination)
  BY <1>1, <1>5 DEF CopyContext
<1>7. ram' = Copied(Fresh(image.data), source, destination, 0)
  <2>1. Bytes(destination, 0) = {}
    BY <1>4 DEF Bytes
  <2> QED
    BY <1>1, <2>1 DEF Copied, JustLoaded
<1>8. CopyAt(Fresh(image.data), n, source, destination, 0, 0)'
  BY <1>7 DEF CopyAt
<1>9. CopyInv(Fresh(image.data), n, source, destination)'
  <2>1. 0 \in DOMAIN code'
    BY CopyCodes
  <2> QED
    BY <1>4, <1>8, <2>1 DEF CopyInv, JustLoaded, Lost
<1> QED
  BY <1>6, <1>9

\* Every step of the host keeps it.
LEMMA CopyGuestNext ==
  ASSUME NEW n, NEW source, NEW destination,
         WordBits = 4 * ByteBits, FieldSign >= 20, CopyFits(n, source, destination),
         CopiesOnly(n, source, destination),
         IInv, IInv', HostInv, Cleared, CopyGuest(n, source, destination), [HostNext]_hostVars
  PROVE  CopyGuest(n, source, destination)'
<1> SUFFICES ASSUME host' \in {"running", "switch", "done"}, code' = CopyCode(n)
             PROVE  CopyGuest(n, source, destination)'
  BY DEF CopyGuest
<1>1. CASE host \in {"running", "switch", "done"}
  <2>1. code = CopyCode(n)
    BY <1>1, HostLater
  <2>2. PICK image \in Images :
          /\ image.code = CopyCode(n)
          /\ CopyContext(Fresh(image.data), n, source, destination)
          /\ CopyInv(Fresh(image.data), n, source, destination)
    BY <1>1, <2>1 DEF CopyGuest
  <2>3. CopyInv(Fresh(image.data), n, source, destination)'
    BY <1>1, <2>2, CopyNext
  <2> QED
    BY <2>2, <2>3 DEF CopyGuest, CopyContext
<1>2. CASE host \notin {"running", "switch", "done"}
  <2>1. 0 \in DOMAIN code'
    BY CopyCodes
  <2>2. PICK image \in Images : JustLoaded(image)'
    BY <1>2, <2>1, LoadsProgram
  <2>3. CopyContext(Fresh(image.data), n, source, destination) /\ CopyInv(Fresh(image.data), n, source, destination)'
    BY <2>2, CopyLoaded
  <2> QED
    BY <2>2, <2>3 DEF CopyGuest, CopyContext, JustLoaded
<1> QED
  BY <1>1, <1>2

\* What the copy owes.
CopyDone(n, source, destination) ==
  host = "done" /\ code = CopyCode(n) =>
    \E image \in Images :
      image.code = CopyCode(n) /\ ram = Copied(Fresh(image.data), source, destination, n)

\* A guest that copies bytes has copied them when the host is done, whatever
\* the bytes, their number, where they are, and the budgets of run().
THEOREM CopyGuestCopies ==
  ASSUME NEW n, NEW source, NEW destination,
         WordBits = 4 * ByteBits, FieldSign >= 20, CopyFits(n, source, destination),
         CopiesOnly(n, source, destination)
  PROVE  HostSpec => []CopyDone(n, source, destination)
<1> DEFINE Inv == IInv /\ HostInv /\ Cleared /\ CopyGuest(n, source, destination)
<1>1. HostInit => Inv
  BY HostInvInit, InitInv DEF HostInit, Cleared, CopyGuest
<1>2. Inv /\ [HostNext]_hostVars => Inv'
  BY HostStepIsNext, NextInv, HostInvNext, ClearedNext, CopyGuestNext
<1>3. Inv => CopyDone(n, source, destination)
  <2> SUFFICES ASSUME IInv, HostInv, CopyGuest(n, source, destination),
                      host = "done", code = CopyCode(n)
               PROVE  CopyDone(n, source, destination)
    BY DEF CopyDone
  <2>1. PICK image \in Images :
          /\ image.code = CopyCode(n)
          /\ CopyInv(Fresh(image.data), n, source, destination)
    BY DEF CopyGuest
  <2>2. phase = "idle" /\ result = "Stop"
    BY <2>1 DEF HostInv, CopyInv
  <2> QED
    BY <2>1, <2>2 DEF CopyDone, CopyInv, Lost
<1> QED
  BY <1>1, <1>2, <1>3, PTL DEF HostSpec

-----------------------------------------------------------------------------
(* A stack.                                                                *)

\* A jump to the address in a register.
LEMMA ExchangeStep ==
  ASSUME Evaluate, phase = "evaluate", NEW condition \in {"AL", "EQ"}, NEW rn \in Register,
         instruction.format = "branch_and_exchange", instruction.condition = condition,
         instruction.rn = rn
  PROVE  /\ registers' = IF TestCondition(condition)
                         THEN [registers EXCEPT ![PC] = registers[rn]] ELSE registers
         /\ Complete /\ UNCHANGED <<cpsr, memory, instruction, block>>
<1>1. /\ instruction.format = "branch_and_exchange" /\ instruction.condition = condition
      /\ instruction.rn = rn
  OBVIOUS
<1>2. CASE TestCondition(condition)
  <2>1. branchAndExchangeEval
    BY <1>1, <1>2 DEF Evaluate, SkipInstruction, AssertInstruction, Unsupported,
           dataProcessingEval, singleDataTranferEval, blockDataTransferEval, BeginTransfer,
           SkipRegister, TransferRegister, EscapeTransfer, EndTransfer, branchEval,
           softwareInterruptEval, multiplyEval, multiplyLongEval,
           halfwordDataTransferImmediateOffEval, halfwordDataTransferRegisterOffEval, Executing
  <2> QED
    BY <1>1, <1>2, <2>1 DEF branchAndExchangeEval
<1>3. CASE ~TestCondition(condition)
  <2>1. SkipInstruction
    BY <1>1, <1>3 DEF Evaluate, AssertInstruction, Unsupported,
           dataProcessingEval, singleDataTranferEval, blockDataTransferEval, BeginTransfer,
           SkipRegister, TransferRegister, EscapeTransfer, EndTransfer, branchEval,
           branchAndExchangeEval, softwareInterruptEval, multiplyEval, multiplyLongEval,
           halfwordDataTransferImmediateOffEval, halfwordDataTransferRegisterOffEval, Executing
  <2> QED
    BY <1>3, <2>1 DEF SkipInstruction
<1> QED
  BY <1>2, <1>3

\* A listed register on the way out or in, from a base.
Pushing(list, base) ==
  /\ phase = "transfer" /\ instruction = Push(list) /\ OriginalBase = base
  /\ \A r \in list \ Pending :
       /\ Bytes(SlotOf(Push(list), base, r), 4) \subseteq Ram
       /\ WordAt(SlotOf(Push(list), base, r)) = registers[r]
Popping(list, base) ==
  /\ phase = "transfer" /\ instruction = Pop(list) /\ OriginalBase = base
  /\ \A r \in list \ Pending : registers[r] = WordAt(SlotOf(Pop(list), base, r))

\* Words outside of a run.
Elsewhere(t, base, b) ==
  /\ b \in Int /\ Bytes(b, 4) \subseteq Ram
  /\ \A r \in t.registerList : Bytes(SlotOf(t, base, r), 4) \cap Bytes(b, 4) = {}

\* The fields of PUSH and POP.
LEMMA StackFields ==
  ASSUME NEW list
  PROVE  /\ Push(list).format = "block_data_transfer" /\ Push(list).condition = "AL"
         /\ Push(list).l = FALSE /\ Push(list).p = TRUE /\ Push(list).u = FALSE
         /\ Push(list).w = TRUE /\ Push(list).s = FALSE /\ Push(list).rn = SP
         /\ Push(list).registerList = list
         /\ Pop(list).format = "block_data_transfer" /\ Pop(list).condition = "AL"
         /\ Pop(list).l = TRUE /\ Pop(list).p = FALSE /\ Pop(list).u = TRUE
         /\ Pop(list).w = TRUE /\ Pop(list).s = FALSE /\ Pop(list).rn = SP
         /\ Pop(list).registerList = list
BY DEF Push, Pop, Block

\* The transfer begins at the base.
LEMMA StackBegins ==
  ASSUME BlockInv, Evaluate, phase = "evaluate", NEW list,
         instruction = Push(list) \/ instruction = Pop(list)
  PROVE  /\ UNCHANGED <<registers, cpsr, memory, instruction, run>> /\ phase' = "transfer"
         /\ instruction = Push(list) => Pushing(list, registers[SP])'
         /\ instruction = Pop(list) => Popping(list, registers[SP])'
<1>1. /\ instruction.format = "block_data_transfer" /\ instruction.condition = "AL"
      /\ instruction.rn = SP /\ instruction.registerList = list
  <2>1. CASE instruction = Push(list)
    BY <2>1, StackFields
  <2>2. CASE instruction = Pop(list)
    BY <2>2, StackFields
  <2> QED
    BY <2>1, <2>2
<1>2. BeginTransfer
  BY <1>1, AlwaysHandled
<1>3. UNCHANGED <<registers, cpsr, memory, instruction, run>> /\ phase' = "transfer"
  BY <1>2 DEF BeginTransfer
<1>4. OriginalBase' = registers[SP] /\ Pending' = list
  BY <1>1, <1>2, LoopBase
<1> QED
  BY <1>3, <1>4 DEF Pushing, Popping

\* A register goes out, or the last one has and the base moves.
LEMMA PushTurn ==
  ASSUME BlockInv, Evaluate, NEW list \in SUBSET (Register \ {SP, PC}), NEW base \in Word,
         Modulus >= 64, WordBits = 4 * ByteBits, Pushing(list, base)
  PROVE  /\ UNCHANGED <<cpsr, code, programSize, instruction>>
         /\ \/ phase' \in Lost
            \/ /\ Pushing(list, base)' /\ UNCHANGED <<registers, run>>
               /\ \A b : Elsewhere(Push(list), base, b) => WordIn(ram', b) = WordIn(ram, b)
               /\ \A b \in Ram :
                    (\A r \in list : b \notin Bytes(SlotOf(Push(list), base, r), 4)) => ram'[b] = ram[b]
            \/ /\ registers' = [registers EXCEPT ![SP] = BaseAfter(Push(list), base)]
               /\ ram' = ram /\ Complete
               /\ \A r \in list : /\ Bytes(SlotOf(Push(list), base, r), 4) \subseteq Ram
                                  /\ WordAt(SlotOf(Push(list), base, r)) = registers[r]
<1> DEFINE t == Push(list)
<1>1. /\ t.l = FALSE /\ t.p = TRUE /\ t.u = FALSE /\ t.w = TRUE /\ t.s = FALSE /\ t.rn = SP
      /\ t.registerList = list /\ list \in SUBSET Register /\ PC \notin list
  BY StackFields
<1> HIDE DEF t
<1>2. /\ phase = "transfer" /\ instruction = t /\ OriginalBase = base
      /\ \A r \in list \ Pending :
           /\ Bytes(SlotOf(t, base, r), 4) \subseteq Ram
           /\ WordAt(SlotOf(t, base, r)) = registers[r]
  BY DEF Pushing, t
<1>3. registers \in [Register -> Word] /\ ram \in [Ram -> Byte] /\ base \in Int
  BY BlockFacts, WordRange
<1>4. ASSUME SkipRegister
      PROVE  /\ UNCHANGED <<cpsr, code, programSize, instruction, registers, ram, run>>
             /\ Pushing(list, base)'
  <2>1. UNCHANGED <<cpsr, code, programSize, instruction, registers, ram, run>> /\ phase' = "transfer"
    BY <1>4 DEF SkipRegister, memory
  <2>2. OriginalBase' = OriginalBase /\ Pending' = Pending
    BY <1>4, LoopBase
  <2> QED
    BY <1>2, <2>1, <2>2 DEF Pushing, WordAt, t
<1>5. ASSUME TransferRegister
      PROVE  /\ UNCHANGED <<cpsr, code, programSize, instruction, registers, run>>
             /\ Pushing(list, base)'
             /\ \A b : Elsewhere(t, base, b) => WordIn(ram', b) = WordIn(ram, b)
             /\ \A b \in Ram :
                  (\A r \in list : b \notin Bytes(SlotOf(t, base, r), 4)) => ram'[b] = ram[b]
  <2>1. i \in list /\ Pending' = Pending \ {i} /\ OriginalBase' = OriginalBase
    BY <1>1, <1>2, <1>5, PendingStep, BaseStays
  <2> DEFINE a == SlotOf(t, base, i)
  <2>2. Slot(t) = a
    BY <1>1, <1>2, <2>1, SlotOfLoop
  <2>3. StoredRegister(i) = registers[i] /\ registers[i] \in Word
    BY <1>1, <1>3, <2>1 DEF StoredRegister
  <2>4. /\ Bytes(a, 4) \subseteq Ram /\ ram' = AfterStore(ram, a, 4, registers[i])
        /\ UNCHANGED <<cpsr, code, programSize, instruction, registers, run>>
        /\ phase' = "transfer"
    BY <1>1, <1>2, <1>5, <2>2, <2>3 DEF TransferRegister, Data, StoreBytes
  <2>5. a \in Int
    BY <1>1, <1>3, <2>1, SlotType
  <2>6. ASSUME NEW b, b \in Int, Bytes(b, 4) \subseteq Ram, Bytes(a, 4) \cap Bytes(b, 4) = {}
        PROVE  WordIn(ram', b) = WordIn(ram, b)
    <3> HIDE DEF a
    <3> QED
      BY <1>3, <2>4, <2>5, <2>6, WordStays
  <2>7. ASSUME NEW r \in list \ Pending'
        PROVE  Bytes(SlotOf(t, base, r), 4) \subseteq Ram /\ WordIn(ram', SlotOf(t, base, r)) = registers[r]
    <3>1. CASE r = i
      <4>1. WordIn(AfterStore(ram, a, 4, registers[i]), a) = registers[i]
        <5> HIDE DEF a
        <5> QED
          BY <1>3, <2>3, <2>4, <2>5, StoredWordsReadBack
      <4> QED
        BY <2>4, <3>1, <4>1
    <3>2. CASE r # i
      <4>1. Bytes(SlotOf(t, base, r), 4) \subseteq Ram /\ WordIn(ram, SlotOf(t, base, r)) = registers[r]
        BY <1>2, <2>1, <2>7, <3>2 DEF WordAt
      <4>2. SlotOf(t, base, r) \in Int
        BY <1>1, <1>3, <2>7, SlotType
      <4>3. Bytes(a, 4) \cap Bytes(SlotOf(t, base, r), 4) = {}
        BY <1>1, <1>3, <2>1, <2>7, <3>2, SlotsApart
      <4> QED
        BY <2>6, <4>1, <4>2, <4>3
    <3> QED
      BY <3>1, <3>2
  <2>8. Pushing(list, base)'
    BY <1>2, <2>1, <2>4, <2>7 DEF Pushing, WordAt, t
  <2>9. \A b : Elsewhere(t, base, b) => WordIn(ram', b) = WordIn(ram, b)
    BY <1>1, <2>1, <2>6 DEF Elsewhere
  <2>10. ASSUME NEW b \in Ram, b \notin Bytes(a, 4) PROVE ram'[b] = ram[b]
    BY <1>3, <2>4, <2>10 DEF AfterStore
  <2> QED
    BY <2>1, <2>4, <2>8, <2>9, <2>10
<1>6. ASSUME EscapeTransfer
      PROVE  UNCHANGED <<cpsr, code, programSize, instruction>> /\ phase' \in Lost
  BY <1>6 DEF EscapeTransfer, Escape, Lost, memory
<1>7. ASSUME EndTransfer
      PROVE  /\ UNCHANGED <<cpsr, code, programSize, instruction, ram>> /\ Complete
             /\ registers' = [registers EXCEPT ![SP] = BaseAfter(t, base)]
             /\ \A r \in list : /\ Bytes(SlotOf(t, base, r), 4) \subseteq Ram
                                /\ WordAt(SlotOf(t, base, r)) = registers[r]
  <2>1. Pending = {} /\ registers' = [registers EXCEPT ![SP] = BaseAfter(t, base)]
    BY <1>1, <1>2, <1>7, LoopBase, BaseOfEnd
  <2> QED
    BY <1>1, <1>2, <1>7, <2>1 DEF EndTransfer, memory
<1> QED
  BY <1>2, <1>4, <1>5, <1>6, <1>7, LoopSteps DEF t

\* A register comes back, or the last one has and the base moves.
LEMMA PopTurn ==
  ASSUME BlockInv, Evaluate, NEW list \in SUBSET (Register \ {SP}), NEW base \in Word,
         Popping(list, base)
  PROVE  /\ UNCHANGED <<cpsr, code, programSize, instruction>>
         /\ \/ phase' \in Lost
            \/ /\ Popping(list, base)' /\ UNCHANGED <<ram, run>>
               /\ \A r \in Register \ list : registers'[r] = registers[r]
            \/ /\ registers' = [registers EXCEPT ![SP] = BaseAfter(Pop(list), base)]
               /\ ram' = ram /\ Complete
               /\ \A r \in list : registers[r] = WordAt(SlotOf(Pop(list), base, r))
<1> DEFINE t == Pop(list)
<1>1. /\ t.l = TRUE /\ t.p = FALSE /\ t.u = TRUE /\ t.w = TRUE /\ t.s = FALSE /\ t.rn = SP
      /\ t.registerList = list /\ list \in SUBSET Register
  BY StackFields
<1> HIDE DEF t
<1>2. /\ phase = "transfer" /\ instruction = t /\ OriginalBase = base
      /\ \A r \in list \ Pending : registers[r] = WordAt(SlotOf(t, base, r))
  BY DEF Popping, t
<1>3. registers \in [Register -> Word]
  BY BlockFacts
<1>4. ASSUME SkipRegister
      PROVE  /\ UNCHANGED <<cpsr, code, programSize, instruction, registers, ram, run>>
             /\ Popping(list, base)'
  <2>1. UNCHANGED <<cpsr, code, programSize, instruction, registers, ram, run>> /\ phase' = "transfer"
    BY <1>4 DEF SkipRegister, memory
  <2>2. OriginalBase' = OriginalBase /\ Pending' = Pending
    BY <1>4, LoopBase
  <2> QED
    BY <1>2, <2>1, <2>2 DEF Popping, WordAt, t
<1>5. ASSUME TransferRegister
      PROVE  /\ UNCHANGED <<cpsr, code, programSize, instruction, ram, run>>
             /\ Popping(list, base)'
             /\ \A r \in Register \ list : registers'[r] = registers[r]
  <2>1. i \in list /\ Pending' = Pending \ {i} /\ OriginalBase' = OriginalBase
    BY <1>1, <1>2, <1>5, PendingStep, BaseStays
  <2>2. Slot(t) = SlotOf(t, base, i)
    BY <1>1, <1>2, <2>1, SlotOfLoop
  <2>3. /\ registers' = [registers EXCEPT ![i] = WordAt(SlotOf(t, base, i))]
        /\ UNCHANGED <<cpsr, code, programSize, instruction, ram, run>>
        /\ phase' = "transfer"
    BY <1>1, <1>2, <1>5, <2>2 DEF TransferRegister
  <2>4. \A r \in Register :
          registers'[r] = IF r = i THEN WordAt(SlotOf(t, base, i)) ELSE registers[r]
    BY <1>1, <1>3, <2>1, <2>3
  <2>5. \A r \in list \ Pending' : registers'[r] = WordAt(SlotOf(t, base, r))'
    BY <1>1, <1>2, <2>1, <2>3, <2>4 DEF WordAt
  <2> QED
    BY <1>2, <2>1, <2>3, <2>4, <2>5 DEF Popping, t
<1>6. ASSUME EscapeTransfer
      PROVE  UNCHANGED <<cpsr, code, programSize, instruction>> /\ phase' \in Lost
  BY <1>6 DEF EscapeTransfer, Escape, Lost, memory
<1>7. ASSUME EndTransfer
      PROVE  /\ UNCHANGED <<cpsr, code, programSize, instruction, ram>> /\ Complete
             /\ registers' = [registers EXCEPT ![SP] = BaseAfter(t, base)]
             /\ \A r \in list : registers[r] = WordAt(SlotOf(t, base, r))
  <2>1. Pending = {} /\ registers' = [registers EXCEPT ![SP] = BaseAfter(t, base)]
    BY <1>1, <1>2, <1>7, LoopBase, BaseOfEnd
  <2> QED
    BY <1>1, <1>2, <1>7, <2>1 DEF EndTransfer, memory
<1> QED
  BY <1>2, <1>4, <1>5, <1>6, <1>7, LoopSteps DEF t

\* The slots of one or two registers.
LEMMA StackSlots ==
  ASSUME NEW a \in Register, NEW b \in Register, a < b, NEW base \in Word
  PROVE  /\ base >= 8 => /\ SlotOf(Push({a, b}), base, a) = base - 8
                         /\ SlotOf(Push({a, b}), base, b) = base - 4
                         /\ BaseAfter(Push({a, b}), base) = base - 8
         /\ base + 4 \in Word => /\ SlotOf(Pop({a, b}), base, a) = base
                                 /\ SlotOf(Pop({a, b}), base, b) = base + 4
         /\ base + 8 \in Word => BaseAfter(Pop({a, b}), base) = base + 8
         /\ base >= 4 => /\ SlotOf(Push({a}), base, a) = base - 4
                         /\ BaseAfter(Push({a}), base) = base - 4
         /\ SlotOf(Pop({a}), base, a) = base
         /\ base + 4 \in Word => BaseAfter(Pop({a}), base) = base + 4
<1>1. a # b
  BY DEF Register
<1>3. base \in Int /\ base >= 0
  BY WordRange DEF Word
<1>5. \A w \in Word : Wrap(w) = w
  BY WrapWord
<1>6. base >= 8 => base - 8 \in Word /\ base - 4 \in Word
  BY <1>3, ModulusFacts DEF Word
<1>7. base >= 4 => base - 4 \in Word
  BY <1>3, ModulusFacts DEF Word
<1>8. /\ SlotOf(Push({a, b}), base, a) = Wrap(base - 8)
      /\ SlotOf(Push({a, b}), base, b) = Wrap(base - 4)
      /\ BaseAfter(Push({a, b}), base) = Wrap(base - 8)
  <2> DEFINE t == Push({a, b})
  <2>1. t.registerList = {a, b} /\ t.u = FALSE /\ t.p = TRUE
    BY StackFields
  <2> HIDE DEF t
  <2>2. /\ SlotOf(t, base, a) = Wrap(base - 8)
        /\ SlotOf(t, base, b) = Wrap(base - 4)
        /\ BaseAfter(t, base) = Wrap(base - 8)
    BY ONLY a \in Register, b \in Register, a < b, <1>3, <2>1, RunOfTwo, ZenonT(90)
  <2> QED
    BY <2>2 DEF t
<1>9. /\ SlotOf(Pop({a, b}), base, a) = Wrap(base)
      /\ SlotOf(Pop({a, b}), base, b) = Wrap(base + 4)
      /\ BaseAfter(Pop({a, b}), base) = Wrap(base + 8)
  <2> DEFINE t == Pop({a, b})
  <2>1. t.registerList = {a, b} /\ t.u = TRUE /\ t.p = FALSE
    BY StackFields
  <2> HIDE DEF t
  <2>2. /\ SlotOf(t, base, a) = Wrap(base)
        /\ SlotOf(t, base, b) = Wrap(base + 4)
        /\ BaseAfter(t, base) = Wrap(base + 8)
    BY ONLY a \in Register, b \in Register, a < b, <1>3, <2>1, RunOfTwo, ZenonT(90)
  <2> QED
    BY <2>2 DEF t
<1>10. /\ SlotOf(Push({a}), base, a) = Wrap(base - 4)
       /\ BaseAfter(Push({a}), base) = Wrap(base - 4)
  <2> DEFINE t == Push({a})
  <2>1. t.registerList = {a} /\ t.u = FALSE /\ t.p = TRUE
    BY StackFields
  <2> HIDE DEF t
  <2>2. /\ SlotOf(t, base, a) = Wrap(base - 4)
        /\ BaseAfter(t, base) = Wrap(base - 4)
    BY ONLY a \in Register, b \in Register, a < b, <1>3, <2>1, RunOfOne
  <2> QED
    BY <2>2 DEF t
<1>11. /\ SlotOf(Pop({a}), base, a) = Wrap(base)
       /\ BaseAfter(Pop({a}), base) = Wrap(base + 4)
  <2> DEFINE t == Pop({a})
  <2>1. t.registerList = {a} /\ t.u = TRUE /\ t.p = FALSE
    BY StackFields
  <2> HIDE DEF t
  <2>2. /\ SlotOf(t, base, a) = Wrap(base)
        /\ BaseAfter(t, base) = Wrap(base + 4)
    BY ONLY a \in Register, b \in Register, a < b, <1>3, <2>1, RunOfOne
  <2> QED
    BY <2>2 DEF t
<1> QED
  BY <1>5, <1>6, <1>7, <1>8, <1>9, <1>10, <1>11

-----------------------------------------------------------------------------
(* The recursive sum.                                                      *)

\* The instruction at each address of it.
LEMMA SumCodes ==
  ASSUME NEW n, NEW program, program = SumCode(n)
  PROVE  /\ DOMAIN program = {0, 4, 8, 12, 16, 20, 24, 28, 32, 36, 40, 44}
         /\ program[0] = Ldr(SP, PC, 40) /\ program[4] = Mov(0, Imm(n))
         /\ program[8] = Bl(8, 16) /\ program[12] = Swi(2)
         /\ program[16] = Cmp(0, Imm(0)) /\ program[20] = If("EQ", Bx(LR))
         /\ program[24] = Push({4, LR}) /\ program[28] = Mov(4, Reg(0))
         /\ program[32] = Alu("SUB", 0, 0, Imm(1)) /\ program[36] = Bl(36, 16)
         /\ program[40] = Alu("ADD", 0, 0, Reg(4)) /\ program[44] = Pop({4, PC})
<1> DEFINE words == <<
             Ldr(SP, PC, 40), Mov(0, Imm(n)), Bl(8, 16), Swi(2),
             Cmp(0, Imm(0)), If("EQ", Bx(LR)),
             Push({4, LR}), Mov(4, Reg(0)), Alu("SUB", 0, 0, Imm(1)), Bl(36, 16),
             Alu("ADD", 0, 0, Reg(4)), Pop({4, PC})>>
<1>1. program = CodeOf(words)
  BY Zenon DEF SumCode
<1>2. /\ Len(words) = 12 /\ DOMAIN words = 1 .. 12
      /\ words[1] = Ldr(SP, PC, 40) /\ words[2] = Mov(0, Imm(n))
      /\ words[3] = Bl(8, 16) /\ words[4] = Swi(2)
      /\ words[5] = Cmp(0, Imm(0)) /\ words[6] = If("EQ", Bx(LR))
      /\ words[7] = Push({4, LR}) /\ words[8] = Mov(4, Reg(0))
      /\ words[9] = Alu("SUB", 0, 0, Imm(1)) /\ words[10] = Bl(36, 16)
      /\ words[11] = Alu("ADD", 0, 0, Reg(4)) /\ words[12] = Pop({4, PC})
  OBVIOUS
<1> HIDE DEF words
<1>3. /\ DOMAIN program = {4 * k : k \in 0 .. 11}
      /\ \A k \in 0 .. 11 : program[4 * k] = words[k + 1]
  <2>1. Len(words) \in Nat /\ Len(words) - 1 = 11 /\ DOMAIN words = 1 .. Len(words)
    BY <1>2
  <2> QED
    BY <1>1, <2>1, CodeOfProgram
<1>4. /\ program[4 * 0] = words[0 + 1] /\ program[4 * 1] = words[1 + 1]
      /\ program[4 * 2] = words[2 + 1] /\ program[4 * 3] = words[3 + 1]
      /\ program[4 * 4] = words[4 + 1] /\ program[4 * 5] = words[5 + 1]
      /\ program[4 * 6] = words[6 + 1] /\ program[4 * 7] = words[7 + 1]
      /\ program[4 * 8] = words[8 + 1] /\ program[4 * 9] = words[9 + 1]
      /\ program[4 * 10] = words[10 + 1] /\ program[4 * 11] = words[11 + 1]
  BY <1>3
<1>5. {4 * k : k \in 0 .. 11} = {0, 4, 8, 12, 16, 20, 24, 28, 32, 36, 40, 44}
  OBVIOUS
<1> QED
  BY <1>2, <1>3, <1>4, <1>5

\* 0 + 1 + ... + k.
UpTo(k) == (k * (k + 1)) \div 2

\* The stack holds a frame for each argument but 0, and the sum is a word.
SumFits(n, top) ==
  /\ WordBits = 4 * ByteBits /\ FieldSign >= 28
  /\ n \in Byte /\ UpTo(n) \in Word
  /\ top \in Nat /\ 8 * n <= top /\ top <= MemSize
  /\ Bytes(48, 4) \subseteq Ram

\* Below d frames runs the call with the argument n - d.  Where it returns
\* to, and what its caller has in r4.
Link(d) == IF d = 0 THEN 12 ELSE 40
Kept(n, d) == IF d = 0 THEN 0 ELSE n - d + 1

\* Each frame holds what its call found in r4 and lr.
Frames(n, top, d) ==
  \A j \in 0 .. d - 1 :
    /\ WordAt(top - 8 * j - 8) = Kept(n, j)
    /\ WordAt(top - 8 * j - 4) = Link(j)

\* With d frames on the stack and control at an address, what the registers hold.
SumAt(n, top, a, d) ==
  /\ Frames(n, top, d)
  /\ a = 0 => WordAt(48) = top
  /\ a # 0 => registers[SP] = top - 8 * d
  /\ a \in {0, 4, 8, 12} => d = 0 /\ registers[4] = 0
  /\ a \in {28, 32, 36, 40, 44} => d > 0
  /\ a = 24 => d < n
  /\ a = 8 => registers[0] = n
  /\ a = 12 => registers[0] = UpTo(n)
  /\ a \in {16, 20, 24} =>
       registers[0] = n - d /\ registers[4] = Kept(n, d) /\ registers[LR] = Link(d)
  /\ a = 20 => cpsr.z = FlagOf(n - d = 0)
  /\ a \in {28, 32} => registers[0] = n - d + 1
  /\ a = 36 => registers[0] = n - d
  /\ a \in {32, 36, 40} => registers[4] = n - d + 1
  /\ a = 40 => registers[0] = UpTo(n - d)
  /\ a = 44 => registers[0] = UpTo(n - d + 1)

\* The invariant of the sum: control is somewhere in it with as many frames
\* as calls, a frame is on its way, the host is lost, or the sum is in r0.
SumInv(n, top) ==
  /\ code = SumCode(n) /\ programSize # 0
  /\ phase \notin Lost /\ result # "Stop" =>
       \E a \in DOMAIN code, d \in 0 .. n :
         /\ Placed(a) /\ SumAt(n, top, a, d)
         /\ phase = "transfer" => \/ a = 24 /\ registers[PC] = 28 /\ Pushing({4, LR}, top - 8 * d)
                                  \/ a = 44 /\ Popping({4, PC}, top - 8 * d)
  /\ phase \notin Lost /\ result = "Stop" =>
       registers[0] = UpTo(n) /\ registers[4] = 0 /\ registers[SP] = top

\* Sums grow by their last number.
LEMMA UpToGrows ==
  ASSUME NEW k \in Nat
  PROVE  UpTo(k) \in Nat /\ UpTo(k) + (k + 1) = UpTo(k + 1)
<1> DEFINE x == k * (k + 1)
<1>1. x \in Nat
  OBVIOUS
<1>2. (k + 1) * ((k + 1) + 1) = x + 2 * (k + 1)
  OBVIOUS
<1> HIDE DEF x
<1>3. x \div 2 \in Nat /\ x \div 2 + (k + 1) = (x + 2 * (k + 1)) \div 2
  BY <1>1
<1> QED
  BY <1>2, <1>3 DEF UpTo, x

\* They are at most the last.
LEMMA UpToBelow ==
  ASSUME NEW n \in Nat, NEW k \in 0 .. n
  PROVE  UpTo(k) \in Nat /\ UpTo(k) <= UpTo(n)
<1>1. k * (k + 1) <= n * (n + 1) /\ k * (k + 1) \in Nat /\ n * (n + 1) \in Nat
  <2>1. k * (k + 1) <= k * (n + 1)
    OBVIOUS
  <2>2. k * (n + 1) <= n * (n + 1)
    OBVIOUS
  <2> QED
    BY <2>1, <2>2
<1> DEFINE x == k * (k + 1)
           y == n * (n + 1)
<1> HIDE DEF x, y
<1>2. x \in Nat /\ y \in Nat /\ x <= y
  BY <1>1 DEF x, y
<1>3. x \div 2 \in Nat /\ x \div 2 <= y \div 2
  BY <1>2
<1> QED
  BY <1>3 DEF UpTo, x, y

\* The numbers are words.
LEMMA SumNumbers ==
  ASSUME NEW n, NEW top, SumFits(n, top), NEW d \in 0 .. n
  PROVE  /\ n \in Nat /\ n \in Word /\ d \in Nat /\ top \in Nat
         /\ n - d \in Nat /\ n - d \in Word
         /\ d > 0 => n - d + 1 \in Word
         /\ top - 8 * d \in Word /\ top - 8 * d \in Nat /\ top \in Word
         /\ Modulus >= 64 /\ 0 .. 48 \subseteq Word
         /\ UpTo(n - d) \in Word
         /\ UpTo(0) = 0
         /\ d > 0 => /\ UpTo(n - d) + (n - d + 1) = UpTo(n - d + 1)
                     /\ UpTo(n - d + 1) \in Word
<1>1. n \in Nat /\ n \in Word /\ d \in Nat /\ top \in Nat /\ n - d \in Nat /\ n - d \in Word
  BY ByteFacts DEF SumFits, Byte, Word
<1>2. d > 0 => n - d + 1 \in 0 .. n /\ n - d + 1 \in Word
  BY <1>1, ModulusFacts DEF Word
<1>3. 48 \in Ram /\ 16 < MemSize /\ 48 < MemSize
  <2>1. 48 \in Ram
    BY DEF SumFits, Bytes
  <2> QED
    BY <2>1, MemSizeAssumption DEF Ram
<1>4. Modulus >= 64
  BY <1>3, RunFits DEF SumFits
<1>5. MemSize \in Word /\ MemSize \in Nat
  BY MemSizeAssumption, BufferAssumption, ModulusFacts DEF Word
<1>6. top - 8 * d \in Nat /\ top - 8 * d \in Word /\ top \in Word
  BY <1>1, <1>5, ModulusFacts DEF SumFits, Word
<1>7. 0 .. 48 \subseteq Word
  BY <1>4, ModulusFacts DEF Word
<1>8. UpTo(n - d) \in Word /\ UpTo(0) = 0
  <2>1. n - d \in 0 .. n
    BY <1>1
  <2>2. UpTo(n - d) \in Nat /\ UpTo(n - d) <= UpTo(n)
    BY <1>1, <2>1, UpToBelow
  <2>3. UpTo(n) \in Word
    BY DEF SumFits
  <2>4. UpTo(0) = 0
    BY DEF UpTo
  <2> QED
    BY <2>2, <2>3, <2>4, ModulusFacts DEF Word
<1>9. ASSUME d > 0
      PROVE  /\ UpTo(n - d) + (n - d + 1) = UpTo(n - d + 1)
             /\ UpTo(n - d + 1) \in Word
  <2>1. UpTo(n - d + 1) \in Nat /\ UpTo(n - d + 1) <= UpTo(n)
    BY <1>1, <1>2, <1>9, UpToBelow
  <2>2. UpTo(n) \in Word
    BY DEF SumFits
  <2> QED
    BY <1>1, <2>1, <2>2, UpToGrows, ModulusFacts DEF Word
<1> QED
  BY <1>1, <1>2, <1>4, <1>6, <1>7, <1>8, <1>9

\* Moving on from an instruction to another.
SumGoesTo(n, top, a, d) ==
  /\ a \in DOMAIN code /\ d \in 0 .. n
  /\ registers'[PC] = a /\ Complete /\ code' = code /\ programSize' = programSize
  /\ SumAt(n, top, a, d)'

\* There the invariant holds.
LEMMA SumMovesOn ==
  ASSUME NEW n, NEW top, Going, phase \in {"evaluate", "transfer"},
         code = SumCode(n), NEW a, NEW d, SumGoesTo(n, top, a, d)
  PROVE  SumInv(n, top)'
<1>1. Placed(a)' /\ phase' = "fetch" /\ result' # "Stop"
  BY Completes DEF SumGoesTo
<1>2. a \in (DOMAIN code)'
  BY DEF SumGoesTo
<1> QED
  BY <1>1, <1>2 DEF SumGoesTo, SumInv, Going

\* Where memory stays the frames do.
LEMMA FramesStay ==
  ASSUME NEW n, NEW top, NEW d, ram' = ram, Frames(n, top, d)
  PROVE  Frames(n, top, d)'
BY DEF Frames, WordAt

\* What is known at every evaluation.
LEMMA SumFacts ==
  ASSUME NEW n, NEW top, SumFits(n, top), Going, phase = "evaluate", code = SumCode(n),
         NEW a \in DOMAIN code, NEW d \in 0 .. n, Placed(a)
  PROVE  /\ a \in {0, 4, 8, 12, 16, 20, 24, 28, 32, 36, 40, 44}
         /\ instruction = code[a] /\ registers[PC] = a + 4 /\ a + 4 \in Word
         /\ registers \in [Register -> Word] /\ ram \in [Ram -> Byte] /\ IInv
         /\ 0 \in Register /\ 4 \in Register /\ SP \in Register /\ LR \in Register
         /\ PC \in Register /\ PC = 15 /\ SP = 13 /\ LR = 14
<1>1. a \in {0, 4, 8, 12, 16, 20, 24, 28, 32, 36, 40, 44}
  BY SumCodes
<1>2. a + 4 \in Word
  <2>1. a + 4 \in 0 .. 48
    BY <1>1
  <2> QED
    BY <2>1, SumNumbers
<1>3. registers[PC] = a + 4 /\ instruction = code[a]
  BY <1>2, WrapWord DEF Placed
<1> QED
  BY <1>1, <1>2, <1>3, Parts DEF Going, Machine, Register, PC, SP, LR

\* A branch with link.
LEMMA CallStep ==
  ASSUME IInv, Evaluate, phase = "evaluate", NEW from \in Nat, NEW to \in Nat, NEW q \in Int,
         to - from - 8 = 4 * q, 4 * q >= -FieldSign, 4 * q < FieldSign, to \in Word,
         from + 4 \in Word, instruction = Bl(from, to), registers[PC] = from + 4
  PROVE  /\ registers' = [registers EXCEPT ![LR] = registers[PC], ![PC] = to]
         /\ Complete /\ UNCHANGED <<cpsr, memory, instruction, block>>
<1>1. /\ instruction.format = "branch" /\ instruction.condition = "AL"
      /\ instruction.l = TRUE /\ instruction.offset = ((to - from - 8) \div 4) % FieldModulus
  BY DEF Bl, Branch
<1>2. TestCondition("AL")
  BY DEF TestCondition
<1> QED
  BY <1>1, <1>2, BranchStep

\* The stack, the argument and the first call.
LEMMA SumPrologue ==
  ASSUME NEW n, NEW top, SumFits(n, top), Going, phase = "evaluate", Evaluate,
         code = SumCode(n), NEW a \in {0, 4, 8}, NEW d \in 0 .. n, Placed(a),
         SumAt(n, top, a, d)
  PROVE  \/ phase' \in Lost
         \/ a # 8 /\ SumGoesTo(n, top, a + 4, 0)
         \/ a = 8 /\ SumGoesTo(n, top, 16, 0)
<1>1. /\ a \in DOMAIN code /\ instruction = code[a] /\ registers[PC] = a + 4 /\ a + 4 \in Word
      /\ registers \in [Register -> Word] /\ IInv
      /\ 0 \in Register /\ 4 \in Register /\ SP \in Register /\ LR \in Register
      /\ PC \in Register /\ PC = 15 /\ SP = 13 /\ LR = 14
  BY SumFacts DEF Placed
<1>2. d = 0 /\ registers[4] = 0 /\ Frames(n, top, 0)
  BY DEF SumAt
<1>3. /\ n \in Nat /\ n \in Byte /\ 0 \in 0 .. n /\ top - 8 * 0 = top
      /\ 0 .. 48 \subseteq Word
  <2>1. n \in Nat /\ top \in Nat /\ 0 .. 48 \subseteq Word
    BY SumNumbers
  <2> QED
    BY <2>1 DEF SumFits
<1>4. CASE a = 0
  <2>1. instruction = Ldr(SP, PC, 40) /\ registers[PC] = 4 /\ WordAt(48) = top
    BY <1>1, <1>4, SumCodes DEF SumAt
  <2>2. 4 + 4 \in Word /\ 4 \in Nat /\ 40 \in Nat /\ 4 + 4 + 40 = 48 /\ SP \in Register \ {PC}
    BY <1>1, <1>3
  <2>3. /\ UNCHANGED <<cpsr, code, programSize, instruction, block>>
        /\ \/ /\ registers' = [registers EXCEPT ![SP] = WordAt(48)]
              /\ ram' = ram /\ Complete
           \/ phase' \in Lost
    BY <1>1, <2>1, <2>2, LiteralStep
  <2>4. ASSUME phase' \notin Lost
        PROVE  SumGoesTo(n, top, 4, 0)
    <3>1. registers'[SP] = top - 8 * 0 /\ registers'[PC] = 4 /\ registers'[4] = 0
      BY <1>1, <1>2, <1>3, <2>1, <2>3, <2>4
    <3>2. Frames(n, top, 0)'
      BY <1>2, <2>3, <2>4, FramesStay
    <3>3. SumAt(n, top, 4, 0)'
      BY <3>1, <3>2 DEF SumAt
    <3> QED
      BY <1>3, <2>3, <2>4, <3>1, <3>3, SumCodes DEF SumGoesTo
  <2> QED
    BY <1>4, <2>4
<1>5. CASE a = 4
  <2>1. instruction = Mov(0, Imm(n)) /\ registers[SP] = top - 8 * 0
    BY <1>1, <1>2, <1>5, SumCodes DEF SumAt
  <2>2. /\ registers' = [registers EXCEPT ![0] = n]
        /\ Complete /\ UNCHANGED <<cpsr, memory, instruction, block>>
    BY <1>1, <1>3, <2>1, ConstantStep
  <2>3. /\ registers'[SP] = top - 8 * 0 /\ registers'[PC] = 8 /\ registers'[4] = 0
        /\ registers'[0] = n
    BY <1>1, <1>2, <1>5, <2>1, <2>2
  <2>4. Frames(n, top, 0)' /\ UNCHANGED <<ram, code, programSize>>
    BY <1>2, <2>2, FramesStay DEF memory
  <2>5. SumAt(n, top, 8, 0)'
    BY <2>3, <2>4 DEF SumAt
  <2>6. SumGoesTo(n, top, 8, 0)
    BY <1>3, <2>2, <2>3, <2>4, <2>5, SumCodes DEF SumGoesTo
  <2> QED
    BY <1>5, <2>6
<1>6. CASE a = 8
  <2>1. /\ instruction = Bl(8, 16) /\ registers[PC] = 12
        /\ registers[SP] = top - 8 * 0 /\ registers[0] = n
    BY <1>1, <1>2, <1>6, SumCodes DEF SumAt
  <2>2. /\ registers' = [registers EXCEPT ![LR] = registers[PC], ![PC] = 16]
        /\ Complete /\ UNCHANGED <<cpsr, memory, instruction, block>>
    <3>1. /\ 8 \in Nat /\ 16 \in Nat /\ 0 \in Int /\ 16 - 8 - 8 = 4 * 0 /\ 4 * 0 >= -FieldSign
          /\ 4 * 0 < FieldSign /\ 16 \in Word /\ 8 + 4 \in Word /\ registers[PC] = 8 + 4
      BY <1>3, <2>1, FieldFacts DEF SumFits
    <3> QED
      BY <1>1, <2>1, <3>1, CallStep
  <2>3. /\ registers'[SP] = top - 8 * 0 /\ registers'[PC] = 16 /\ registers'[4] = 0
        /\ registers'[0] = n - 0 /\ registers'[LR] = 12
    BY <1>1, <1>2, <1>3, <2>1, <2>2
  <2>4. Frames(n, top, 0)' /\ UNCHANGED <<ram, code, programSize>>
    BY <1>2, <2>2, FramesStay DEF memory
  <2>5. SumAt(n, top, 16, 0)'
    BY <2>3, <2>4 DEF SumAt, Kept, Link
  <2>6. SumGoesTo(n, top, 16, 0)
    BY <1>3, <2>2, <2>3, <2>4, <2>5, SumCodes DEF SumGoesTo
  <2> QED
    BY <1>6, <2>6
<1> QED
  BY <1>4, <1>5, <1>6

\* The test, and the return of the innermost call.
LEMMA SumEntry ==
  ASSUME NEW n, NEW top, SumFits(n, top), Going, phase = "evaluate", Evaluate,
         code = SumCode(n), NEW a \in {16, 20}, NEW d \in 0 .. n, Placed(a),
         SumAt(n, top, a, d)
  PROVE  \/ SumGoesTo(n, top, a + 4, d)
         \/ a = 20 /\ d = n /\ SumGoesTo(n, top, Link(d), d)
<1>1. /\ a \in DOMAIN code /\ instruction = code[a] /\ registers[PC] = a + 4 /\ a + 4 \in Word
      /\ registers \in [Register -> Word] /\ IInv
      /\ 0 \in Register /\ 4 \in Register /\ SP \in Register /\ LR \in Register
      /\ PC \in Register /\ PC = 15 /\ SP = 13 /\ LR = 14
  BY SumFacts DEF Placed
<1>2. /\ Frames(n, top, d) /\ registers[SP] = top - 8 * d
      /\ registers[0] = n - d /\ registers[4] = Kept(n, d) /\ registers[LR] = Link(d)
  BY DEF SumAt
<1>3. /\ n \in Nat /\ d \in Nat /\ n - d \in Nat /\ n - d \in Word /\ n \in Byte
      /\ UpTo(0) = 0
  <2>1. /\ n \in Nat /\ d \in Nat /\ n - d \in Nat /\ n - d \in Word /\ UpTo(0) = 0
    BY SumNumbers
  <2> QED
    BY <2>1 DEF SumFits
<1>4. CASE a = 16
  <2>1. instruction = AluS("CMP", 0, 0, Imm(0)) /\ 0 \in Byte /\ 0 \in Register \ {PC}
    BY <1>1, <1>3, <1>4, SumCodes, ByteFacts DEF Cmp, Byte
  <2>2. CountedTo("CMP", 0, 0) = n - d
    <3>1. n - d - 0 = n - d
      BY <1>3
    <3> QED
      BY <1>2, <1>3, <3>1, WrapWord DEF CountedTo
  <2>3. /\ registers' = registers /\ cpsr'.z = FlagOf(n - d = 0)
        /\ Complete /\ UNCHANGED <<memory, instruction, block>>
    <3>1. /\ registers' = registers /\ cpsr'.z = FlagOf(CountedTo("CMP", 0, 0) = 0)
          /\ Complete /\ UNCHANGED <<memory, instruction, block>>
      BY <1>1, <2>1, CountingStep
    <3> QED
      BY <2>2, <3>1
  <2>4. Frames(n, top, d)' /\ UNCHANGED <<ram, code, programSize>>
    BY <1>2, <2>3, FramesStay DEF memory
  <2>5. SumAt(n, top, 20, d)'
    BY <1>2, <2>3, <2>4 DEF SumAt
  <2>6. SumGoesTo(n, top, 20, d)
    BY <1>1, <1>4, <2>3, <2>4, <2>5, SumCodes DEF SumGoesTo
  <2> QED
    BY <1>4, <2>6
<1>5. CASE a = 20
  <2>1. instruction = If("EQ", Bx(LR)) /\ cpsr.z = FlagOf(n - d = 0)
    BY <1>1, <1>5, SumCodes DEF SumAt
  <2>2. TestCondition("EQ") <=> d = n
    BY <1>3, <2>1 DEF TestCondition, FlagOf
  <2>3. /\ registers' = IF d = n THEN [registers EXCEPT ![PC] = Link(d)] ELSE registers
        /\ Complete /\ UNCHANGED <<cpsr, memory, instruction, block>>
    <3>1. /\ instruction.format = "branch_and_exchange" /\ instruction.condition = "EQ"
          /\ instruction.rn = LR
      BY <2>1 DEF If, Bx
    <3> QED
      BY <1>1, <1>2, <2>2, <3>1, ExchangeStep
  <2>4. Frames(n, top, d)' /\ UNCHANGED <<ram, code, programSize>>
    BY <1>2, <2>3, FramesStay DEF memory
  <2>5. CASE d # n
    <3>1. SumAt(n, top, 24, d)'
      BY <1>2, <1>3, <2>3, <2>4, <2>5 DEF SumAt
    <3>2. SumGoesTo(n, top, 24, d)
      BY <1>1, <1>5, <2>3, <2>4, <2>5, <3>1, SumCodes DEF SumGoesTo
    <3> QED
      BY <1>5, <3>2
  <2>6. CASE d = n
    <3>1. /\ registers'[SP] = top - 8 * d /\ registers'[PC] = Link(d)
          /\ registers'[4] = Kept(n, d) /\ registers'[0] = 0
      BY <1>1, <1>2, <1>3, <2>3, <2>6
    <3>2. CASE d = 0
      <4>1. SumAt(n, top, 12, d)'
        BY <1>3, <2>4, <2>6, <3>1, <3>2 DEF SumAt, Kept, Link
      <4> QED
        BY <1>5, <2>3, <2>4, <2>6, <3>1, <3>2, <4>1, SumCodes DEF SumGoesTo, Link
    <3>3. CASE d # 0
      <4>1. d > 0 /\ n - d = 0
        BY <1>3, <2>6, <3>3
      <4>2. SumAt(n, top, 40, d)'
        BY <1>3, <2>4, <3>1, <3>3, <4>1 DEF SumAt, Kept, Link
      <4> QED
        BY <1>5, <2>3, <2>4, <2>6, <3>1, <3>3, <4>2, SumCodes DEF SumGoesTo, Link
    <3> QED
      BY <3>2, <3>3
  <2> QED
    BY <2>5, <2>6
<1> QED
  BY <1>4, <1>5

\* The recursive call and the addition.
LEMMA SumBody ==
  ASSUME NEW n, NEW top, SumFits(n, top), Going, phase = "evaluate", Evaluate,
         code = SumCode(n), NEW a \in {28, 32, 36, 40}, NEW d \in 0 .. n, Placed(a),
         SumAt(n, top, a, d)
  PROVE  SumGoesTo(n, top, IF a = 36 THEN 16 ELSE a + 4, d)
<1>1. /\ a \in DOMAIN code /\ instruction = code[a] /\ registers[PC] = a + 4 /\ a + 4 \in Word
      /\ registers \in [Register -> Word] /\ IInv
      /\ 0 \in Register /\ 4 \in Register /\ SP \in Register /\ LR \in Register
      /\ PC \in Register /\ PC = 15 /\ SP = 13 /\ LR = 14
  BY SumFacts DEF Placed
<1>2. /\ Frames(n, top, d) /\ registers[SP] = top - 8 * d /\ d > 0
  BY DEF SumAt
<1>3. /\ n \in Nat /\ d \in Nat /\ n - d \in Nat /\ n - d \in Word /\ n - d + 1 \in Word
      /\ 0 .. 48 \subseteq Word /\ n \in Byte /\ d # 0
      /\ UpTo(n - d) + (n - d + 1) = UpTo(n - d + 1) /\ UpTo(n - d + 1) \in Word
  <2>1. /\ n \in Nat /\ d \in Nat /\ n - d \in Nat /\ n - d \in Word /\ n - d + 1 \in Word
        /\ 0 .. 48 \subseteq Word
        /\ UpTo(n - d) + (n - d + 1) = UpTo(n - d + 1) /\ UpTo(n - d + 1) \in Word
    BY <1>2, SumNumbers
  <2> QED
    BY <1>2, <2>1 DEF SumFits
<1>4. CASE a = 28
  <2>1. instruction = Mov(4, Reg(0)) /\ registers[0] = n - d + 1
    BY <1>1, <1>4, SumCodes DEF SumAt
  <2>2. Wrap(registers[0] + 0) = n - d + 1
    <3>1. n - d + 1 + 0 = n - d + 1
      BY <1>3
    <3> QED
      BY <1>3, <2>1, <3>1, WrapWord
  <2>3. /\ registers' = [registers EXCEPT ![4] = n - d + 1]
        /\ Complete /\ UNCHANGED <<cpsr, memory, instruction, block>>
    <3>1. /\ registers' = [registers EXCEPT
                             ![4] = Wrap(registers[0] + (IF 0 = PC THEN 4 ELSE 0))]
          /\ Complete /\ UNCHANGED <<cpsr, memory, instruction, block>>
      BY <1>1, <2>1, RegisterStep
    <3>2. (IF 0 = PC THEN 4 ELSE 0) = 0
      BY <1>1
    <3>3. Wrap(registers[0] + (IF 0 = PC THEN 4 ELSE 0)) = n - d + 1
      BY <2>2, <3>2
    <3> QED
      BY <3>1, <3>3
  <2>4. /\ registers'[SP] = top - 8 * d /\ registers'[PC] = 32
        /\ registers'[0] = n - d + 1 /\ registers'[4] = n - d + 1
    BY <1>1, <1>2, <1>4, <2>1, <2>3
  <2>5. Frames(n, top, d)' /\ UNCHANGED <<ram, code, programSize>>
    BY <1>2, <2>3, FramesStay DEF memory
  <2>6. SumAt(n, top, 32, d)'
    BY <1>2, <2>4, <2>5 DEF SumAt
  <2>7. SumGoesTo(n, top, 32, d)
    BY <2>3, <2>4, <2>5, <2>6, SumCodes DEF SumGoesTo
  <2> QED
    BY <1>4, <2>7
<1>5. CASE a = 32
  <2>1. /\ instruction = Alu("SUB", 0, 0, Imm(1)) /\ registers[0] = n - d + 1
        /\ registers[4] = n - d + 1
    BY <1>1, <1>5, SumCodes DEF SumAt
  <2>2. CountedTo("SUB", 0, 1) = n - d
    <3>1. n - d + 1 - 1 = n - d
      BY <1>3
    <3> QED
      BY <1>3, <2>1, <3>1, WrapWord DEF CountedTo
  <2>3. /\ registers' = [registers EXCEPT ![0] = n - d]
        /\ Complete /\ UNCHANGED <<memory, instruction, block>>
    <3>1. 1 \in Byte /\ 0 \in Register \ {PC}
      BY <1>1, <1>2, <1>3, ByteFacts DEF Byte
    <3>2. /\ registers' = [registers EXCEPT ![0] = CountedTo("SUB", 0, 1)]
          /\ Complete /\ UNCHANGED <<memory, instruction, block>>
      BY <1>1, <2>1, <3>1, CountingStep
    <3> QED
      BY <2>2, <3>2
  <2>4. /\ registers'[SP] = top - 8 * d /\ registers'[PC] = 36
        /\ registers'[0] = n - d /\ registers'[4] = n - d + 1
    BY <1>1, <1>2, <1>5, <2>1, <2>3
  <2>5. Frames(n, top, d)' /\ UNCHANGED <<ram, code, programSize>>
    BY <1>2, <2>3, FramesStay DEF memory
  <2>6. SumAt(n, top, 36, d)'
    BY <1>2, <2>4, <2>5 DEF SumAt
  <2>7. SumGoesTo(n, top, 36, d)
    BY <2>3, <2>4, <2>5, <2>6, SumCodes DEF SumGoesTo
  <2> QED
    BY <1>5, <2>7
<1>6. CASE a = 36
  <2>1. /\ instruction = Bl(36, 16) /\ registers[0] = n - d /\ registers[4] = n - d + 1
        /\ registers[PC] = 40
    BY <1>1, <1>6, SumCodes DEF SumAt
  <2>2. /\ registers' = [registers EXCEPT ![LR] = registers[PC], ![PC] = 16]
        /\ Complete /\ UNCHANGED <<cpsr, memory, instruction, block>>
    <3>1. /\ 36 \in Nat /\ 16 \in Nat /\ -7 \in Int /\ 16 - 36 - 8 = 4 * (-7)
          /\ 4 * (-7) >= -FieldSign
          /\ 4 * (-7) < FieldSign /\ 16 \in Word /\ 36 + 4 \in Word /\ registers[PC] = 36 + 4
      BY <1>3, <2>1, FieldFacts DEF SumFits
    <3> QED
      BY <1>1, <2>1, <3>1, CallStep
  <2>4. /\ registers'[SP] = top - 8 * d /\ registers'[PC] = 16
        /\ registers'[0] = n - d /\ registers'[4] = n - d + 1 /\ registers'[LR] = 40
    BY <1>1, <1>2, <1>6, <2>1, <2>2
  <2>5. Frames(n, top, d)' /\ UNCHANGED <<ram, code, programSize>>
    BY <1>2, <2>2, FramesStay DEF memory
  <2>6. SumAt(n, top, 16, d)'
    BY <1>3, <2>4, <2>5 DEF SumAt, Kept, Link
  <2>7. SumGoesTo(n, top, 16, d)
    BY <2>2, <2>4, <2>5, <2>6, SumCodes DEF SumGoesTo
  <2> QED
    BY <1>6, <2>7
<1>7. CASE a = 40
  <2>1. /\ instruction = Alu("ADD", 0, 0, Reg(4)) /\ registers[0] = UpTo(n - d)
        /\ registers[4] = n - d + 1
    BY <1>1, <1>7, SumCodes DEF SumAt
  <2>2. /\ registers' = [registers EXCEPT ![0] = UpTo(n - d + 1)]
        /\ Complete /\ UNCHANGED <<cpsr, memory, instruction, block>>
    <3>1. 0 \in Register \ {PC} /\ 4 \in Register \ {PC}
      BY <1>1
    <3>2. /\ registers' = [registers EXCEPT ![0] = Wrap(registers[0] + registers[4])]
          /\ Complete /\ UNCHANGED <<cpsr, memory, instruction, block>>
      BY <1>1, <2>1, <3>1, SumStep
    <3>3. Wrap(registers[0] + registers[4]) = UpTo(n - d + 1)
      BY <1>3, <2>1, WrapWord
    <3> QED
      BY <3>2, <3>3
  <2>4. registers'[SP] = top - 8 * d /\ registers'[PC] = 44 /\ registers'[0] = UpTo(n - d + 1)
    BY <1>1, <1>2, <1>7, <2>1, <2>2
  <2>5. Frames(n, top, d)' /\ UNCHANGED <<ram, code, programSize>>
    BY <1>2, <2>2, FramesStay DEF memory
  <2>6. SumAt(n, top, 44, d)'
    BY <1>2, <2>4, <2>5 DEF SumAt
  <2>7. SumGoesTo(n, top, 44, d)
    BY <2>2, <2>4, <2>5, <2>6, SumCodes DEF SumGoesTo
  <2> QED
    BY <1>7, <2>7
<1> QED
  BY <1>4, <1>5, <1>6, <1>7

\* The frames and the two words the next one takes, or the last one holds.
LEMMA FrameNumbers ==
  ASSUME NEW n, NEW top, SumFits(n, top), NEW d \in 0 .. n - 1
  PROVE  /\ d \in Nat /\ d + 1 \in 0 .. n /\ d \in 0 .. n /\ n \in Nat /\ top \in Nat
         /\ top - 8 * (d + 1) = top - 8 * d - 8 /\ top - 8 * (d + 1) + 4 = top - 8 * d - 4
         /\ top - 8 * d \in Word /\ top - 8 * d >= 8
         /\ top - 8 * (d + 1) \in Word /\ top - 8 * (d + 1) + 4 \in Word
         /\ top - 8 * (d + 1) + 8 = top - 8 * d
<1>1. n \in Nat
  BY ByteFacts DEF SumFits, Byte
<1>2. d \in Nat /\ d \in 0 .. n /\ d + 1 \in 0 .. n
  BY <1>1
<1>3. /\ top - 8 * d \in Word /\ top - 8 * (d + 1) \in Word /\ top \in Nat /\ n \in Nat
  BY <1>2, SumNumbers
<1>4. top >= 8 * n
  BY DEF SumFits
<1>5. top - 8 * (d + 1) + 4 \in Word
  BY <1>2, <1>3, ModulusFacts DEF Word
<1> QED
  BY <1>1, <1>2, <1>3, <1>4, <1>5

\* A frame goes onto the stack, a register at a time.
LEMMA SumPush ==
  ASSUME NEW n, NEW top, SumFits(n, top), BlockInv, Going, Evaluate, phase = "transfer",
         code = SumCode(n), NEW d \in 0 .. n, SumAt(n, top, 24, d),
         registers[PC] = 28, Pushing({4, LR}, top - 8 * d)
  PROVE  \/ phase' \in Lost
         \/ /\ SumAt(n, top, 24, d)' /\ Pushing({4, LR}, top - 8 * d)'
            /\ UNCHANGED <<registers, code, programSize, instruction, run>>
         \/ SumGoesTo(n, top, 28, d + 1)
<1> DEFINE base == top - 8 * d
           t == Push({4, LR})
<1>1. /\ d < n /\ Frames(n, top, d) /\ registers[SP] = base
      /\ registers[0] = n - d /\ registers[4] = Kept(n, d) /\ registers[LR] = Link(d)
  BY DEF SumAt
<1>2. d \in 0 .. n - 1 /\ WordBits = 4 * ByteBits /\ Modulus >= 64
  <2>1. n \in Nat /\ Modulus >= 64
    BY SumNumbers
  <2> QED
    BY <1>1, <2>1 DEF SumFits
<1>3. /\ d \in Nat /\ d + 1 \in 0 .. n /\ n \in Nat /\ top \in Nat
      /\ top - 8 * (d + 1) = base - 8 /\ top - 8 * (d + 1) + 4 = base - 4
      /\ base \in Word /\ base >= 8
  BY <1>2, FrameNumbers
<1>4. /\ {4, LR} \in SUBSET (Register \ {SP, PC}) /\ 4 \in Register /\ LR \in Register
      /\ 0 \in Register /\ SP \in Register /\ PC \in Register
      /\ 4 < LR /\ 0 # SP /\ PC # SP /\ registers \in [Register -> Word]
  BY Parts DEF Going, Machine, Register, LR, SP, PC
<1>5. /\ SlotOf(t, base, 4) = base - 8 /\ SlotOf(t, base, LR) = base - 4
      /\ BaseAfter(t, base) = base - 8 /\ t.registerList = {4, LR}
  <2>1. t.registerList = {4, LR}
    BY StackFields
  <2> HIDE DEF base
  <2>2. /\ SlotOf(t, base, 4) = base - 8 /\ SlotOf(t, base, LR) = base - 4
        /\ BaseAfter(t, base) = base - 8
    <3>1. 4 \in Register /\ LR \in Register /\ 4 < LR /\ base \in Word /\ base >= 8
      BY <1>3, <1>4
    <3> QED
      BY ONLY <3>1, StackSlots
  <2> QED
    BY <2>1, <2>2
<1>6. base = top - 8 * d /\ t = Push({4, LR})
  OBVIOUS
<1> HIDE DEF base, t
<1>7. /\ UNCHANGED <<cpsr, code, programSize, instruction>>
      /\ \/ phase' \in Lost
         \/ /\ Pushing({4, LR}, base)' /\ UNCHANGED <<registers, run>>
            /\ \A b : Elsewhere(t, base, b) => WordIn(ram', b) = WordIn(ram, b)
         \/ /\ registers' = [registers EXCEPT ![SP] = BaseAfter(t, base)]
            /\ ram' = ram /\ Complete
            /\ \A r \in {4, LR} : /\ Bytes(SlotOf(t, base, r), 4) \subseteq Ram
                                  /\ WordAt(SlotOf(t, base, r)) = registers[r]
  <2> DEFINE list == {4, LR}
  <2>1. list \in SUBSET (Register \ {SP, PC}) /\ Pushing(list, base) /\ t = Push(list)
    BY <1>4, <1>6
  <2> HIDE DEF list
  <2>2. /\ UNCHANGED <<cpsr, code, programSize, instruction>>
        /\ \/ phase' \in Lost
           \/ /\ Pushing(list, base)' /\ UNCHANGED <<registers, run>>
              /\ \A b : Elsewhere(t, base, b) => WordIn(ram', b) = WordIn(ram, b)
           \/ /\ registers' = [registers EXCEPT ![SP] = BaseAfter(t, base)]
              /\ ram' = ram /\ Complete
              /\ \A r \in list : /\ Bytes(SlotOf(t, base, r), 4) \subseteq Ram
                                 /\ WordAt(SlotOf(t, base, r)) = registers[r]
    BY <1>2, <1>3, <2>1, PushTurn
  <2> QED
    BY <2>2 DEF list
<1>8. ASSUME Pushing({4, LR}, base)', UNCHANGED <<registers, run>>,
             \A b : Elsewhere(t, base, b) => WordIn(ram', b) = WordIn(ram, b)
      PROVE  SumAt(n, top, 24, d)'
  <2>1. ASSUME NEW b \in {top - 8 * j - 8 : j \in 0 .. d - 1} \cup {top - 8 * j - 4 : j \in 0 .. d - 1}
        PROVE  WordIn(ram', b) = WordIn(ram, b)
    <3>1. b \in Int /\ b >= base /\ b + 4 <= top
      BY <1>3, <1>6
    <3>2. Bytes(b, 4) \subseteq Ram
      BY <1>3, <3>1, MemSizeAssumption DEF Bytes, Ram, SumFits
    <3>3. ASSUME NEW r \in t.registerList
          PROVE  Bytes(SlotOf(t, base, r), 4) \cap Bytes(b, 4) = {}
      <4>1. SlotOf(t, base, r) \in {base - 8, base - 4}
        BY <1>5, <3>3
      <4> HIDE DEF base
      <4> QED
        BY <1>3, <3>1, <4>1 DEF Bytes
    <3> QED
      BY <1>8, <3>1, <3>2, <3>3 DEF Elsewhere
  <2>2. Frames(n, top, d)'
    BY <1>1, <2>1 DEF Frames, WordAt
  <2> QED
    BY <1>7, <1>8, <2>2 DEF SumAt
<1>9. ASSUME registers' = [registers EXCEPT ![SP] = BaseAfter(t, base)], ram' = ram, Complete,
             WordAt(SlotOf(t, base, 4)) = registers[4], WordAt(SlotOf(t, base, LR)) = registers[LR]
      PROVE  SumGoesTo(n, top, 28, d + 1)
  <2>1. /\ registers'[SP] = top - 8 * (d + 1) /\ registers'[0] = n - (d + 1) + 1
        /\ registers'[PC] = 28
    BY <1>1, <1>3, <1>4, <1>5, <1>9
  <2>2. Frames(n, top, d + 1)'
    <3> SUFFICES ASSUME NEW j \in 0 .. d
                 PROVE  /\ WordIn(ram, top - 8 * j - 8) = Kept(n, j)
                        /\ WordIn(ram, top - 8 * j - 4) = Link(j)
      BY <1>3, <1>9 DEF Frames, WordAt
    <3>1. CASE j = d
      BY <1>1, <1>5, <1>6, <1>9, <3>1 DEF WordAt
    <3>2. CASE j # d
      <4>1. j \in 0 .. d - 1
        BY <1>3, <3>2
      <4> QED
        BY <1>1, <4>1 DEF Frames, WordAt
    <3> QED
      BY <3>1, <3>2
  <2>3. d + 1 > 0
    BY <1>3
  <2>4. SumAt(n, top, 28, d + 1)'
    BY <2>1, <2>2, <2>3 DEF SumAt
  <2> QED
    BY <1>3, <1>7, <1>9, <2>1, <2>4, SumCodes DEF SumGoesTo
<1> QED
  BY <1>6, <1>7, <1>8, <1>9

\* A frame comes back from it, pc with it.
LEMMA SumPop ==
  ASSUME NEW n, NEW top, SumFits(n, top), BlockInv, Going, Evaluate, phase = "transfer",
         code = SumCode(n), NEW d \in 0 .. n, SumAt(n, top, 44, d),
         Popping({4, PC}, top - 8 * d)
  PROVE  \/ phase' \in Lost
         \/ /\ SumAt(n, top, 44, d)' /\ Popping({4, PC}, top - 8 * d)'
            /\ UNCHANGED <<code, programSize, instruction, run>>
         \/ SumGoesTo(n, top, Link(d - 1), d - 1)
<1> DEFINE base == top - 8 * d
           t == Pop({4, PC})
<1>1. d > 0 /\ Frames(n, top, d) /\ registers[SP] = base /\ registers[0] = UpTo(n - d + 1)
  BY DEF SumAt
<1>2. d - 1 \in 0 .. n - 1 /\ d \in Nat /\ n \in Nat /\ top \in Nat
  <2>1. n \in Nat /\ top \in Nat /\ d \in Nat
    BY SumNumbers
  <2> QED
    BY <1>1, <2>1
<1>3. /\ base \in Word /\ base + 4 \in Word /\ base + 8 \in Word
      /\ base + 8 = top - 8 * (d - 1)
      /\ top - 8 * (d - 1) - 8 = base /\ top - 8 * (d - 1) - 4 = base + 4
  <2> DEFINE e == d - 1
  <2>1. e \in 0 .. n - 1 /\ e + 1 = d
    BY <1>2
  <2> HIDE DEF e
  <2>2. /\ top - 8 * e \in Word /\ top - 8 * (e + 1) \in Word /\ top - 8 * (e + 1) + 4 \in Word
        /\ top - 8 * (e + 1) + 8 = top - 8 * e
    BY <2>1, FrameNumbers
  <2> QED
    BY <1>2, <2>1, <2>2 DEF e
<1>4. /\ {4, PC} \in SUBSET (Register \ {SP}) /\ 4 \in Register /\ PC \in Register
      /\ 0 \in Register \ {4, PC} /\ SP \in Register \ {4, PC} /\ 0 # SP
      /\ 4 < PC /\ registers \in [Register -> Word]
  BY Parts DEF Going, Machine, Register, SP, PC
<1>5. /\ SlotOf(t, base, 4) = base /\ SlotOf(t, base, PC) = base + 4
      /\ BaseAfter(t, base) = base + 8
  <2>1. /\ 4 \in Register /\ PC \in Register /\ 4 < PC
        /\ base \in Word /\ base + 4 \in Word /\ base + 8 \in Word
    BY <1>3, <1>4
  <2> QED
    BY ONLY <2>1, StackSlots
<1>6. base = top - 8 * d /\ t = Pop({4, PC})
  OBVIOUS
<1> HIDE DEF base, t
<1>7. /\ UNCHANGED <<cpsr, code, programSize, instruction>>
      /\ \/ phase' \in Lost
         \/ /\ Popping({4, PC}, base)' /\ UNCHANGED <<ram, run>>
            /\ \A r \in Register \ {4, PC} : registers'[r] = registers[r]
         \/ /\ registers' = [registers EXCEPT ![SP] = BaseAfter(t, base)]
            /\ ram' = ram /\ Complete
            /\ \A r \in {4, PC} : registers[r] = WordAt(SlotOf(t, base, r))
  BY <1>3, <1>4, <1>6, PopTurn
<1>8. ASSUME UNCHANGED <<ram, run>>, \A r \in Register \ {4, PC} : registers'[r] = registers[r]
      PROVE  SumAt(n, top, 44, d)'
  <2>1. Frames(n, top, d)'
    BY <1>1, <1>8, FramesStay
  <2>2. registers'[SP] = base /\ registers'[0] = UpTo(n - d + 1)
    BY <1>1, <1>4, <1>8
  <2> QED
    BY <1>1, <1>6, <2>1, <2>2 DEF SumAt
<1>9. ASSUME registers' = [registers EXCEPT ![SP] = BaseAfter(t, base)], ram' = ram, Complete,
             registers[4] = WordAt(SlotOf(t, base, 4)), registers[PC] = WordAt(SlotOf(t, base, PC))
      PROVE  SumGoesTo(n, top, Link(d - 1), d - 1)
  <2>1. WordAt(base) = Kept(n, d - 1) /\ WordAt(base + 4) = Link(d - 1)
    <3>1. d - 1 \in 0 .. d - 1
      BY <1>2
    <3>2. /\ WordAt(top - 8 * (d - 1) - 8) = Kept(n, d - 1)
          /\ WordAt(top - 8 * (d - 1) - 4) = Link(d - 1)
      BY <1>1, <3>1 DEF Frames
    <3> QED
      BY <1>3, <3>2
  <2>2. /\ registers'[SP] = top - 8 * (d - 1) /\ registers'[4] = Kept(n, d - 1)
        /\ registers'[PC] = Link(d - 1) /\ registers'[0] = UpTo(n - d + 1)
    BY <1>1, <1>3, <1>4, <1>5, <1>9, <2>1
  <2>3. n - (d - 1) = n - d + 1 /\ d - 1 \in 0 .. n
    BY <1>2
  <2>4. Frames(n, top, d - 1)'
    <3>1. Frames(n, top, d - 1)
      BY <1>1, <1>2 DEF Frames
    <3> QED
      BY <1>9, <3>1, FramesStay
  <2>5. CASE d = 1
    <3>1. d - 1 = 0 /\ n - d + 1 = n
      BY <1>2, <2>5
    <3>2. SumAt(n, top, 12, 0)'
      BY <2>2, <2>4, <3>1 DEF SumAt, Kept
    <3> QED
      BY <1>7, <1>9, <2>2, <2>3, <3>1, <3>2, SumCodes DEF SumGoesTo, Link
  <2>6. CASE d # 1
    <3>1. d - 1 > 0 /\ d - 1 # 0
      BY <1>1, <1>2, <2>6
    <3>2. SumAt(n, top, 40, d - 1)'
      BY <2>2, <2>3, <2>4, <3>1 DEF SumAt, Kept
    <3> QED
      BY <1>7, <1>9, <2>2, <2>3, <3>1, <3>2, SumCodes DEF SumGoesTo, Link
  <2> QED
    BY <2>5, <2>6
<1> QED
  BY <1>6, <1>7, <1>8, <1>9

\* A transfer of a frame begins at the address it is at.
LEMMA SumBegins ==
  ASSUME NEW n, NEW top, SumFits(n, top), BlockInv, Going, phase = "evaluate", Evaluate,
         code = SumCode(n), NEW a \in {24, 44}, NEW d \in 0 .. n, Placed(a),
         SumAt(n, top, a, d)
  PROVE  SumInv(n, top)'
<1>1. /\ a \in DOMAIN code /\ instruction = code[a] /\ registers[PC] = a + 4
      /\ registers[SP] = top - 8 * d
  BY SumFacts DEF Placed, SumAt
<1>2. a = 24 => instruction = Push({4, LR}) /\ registers[PC] = 28
  BY <1>1, SumCodes
<1>3. a = 44 => instruction = Pop({4, PC})
  BY <1>1, SumCodes
<1>4. UNCHANGED <<registers, cpsr, memory, instruction, run>> /\ phase' = "transfer"
  <2>1. CASE a = 24
    BY <1>2, <2>1, StackBegins
  <2>2. CASE a = 44
    BY <1>3, <2>2, StackBegins
  <2> QED
    BY <2>1, <2>2
<1>5. a = 24 => Pushing({4, LR}, top - 8 * d)'
  BY <1>1, <1>2, StackBegins
<1>6. a = 44 => Popping({4, PC}, top - 8 * d)'
  BY <1>1, <1>3, StackBegins
<1>7. Frames(n, top, d)'
  BY <1>4, FramesStay DEF SumAt, memory
<1>8. SumAt(n, top, a, d)' /\ Placed(a)'
  BY <1>1, <1>4, <1>7 DEF SumAt, Placed, memory
<1>9. result' # "Stop"
  BY <1>4 DEF Going, run
<1> QED
  BY <1>1, <1>2, <1>4, <1>5, <1>6, <1>8, <1>9 DEF SumInv, Going, memory

\* A step that leaves the machine alone keeps it.
LEMMA VarsKeepSum ==
  ASSUME NEW n, NEW top, SumInv(n, top), UNCHANGED vars
  PROVE  SumInv(n, top)'
<1>1. UNCHANGED <<registers, cpsr, ram, code, programSize, instruction, phase, result>>
  BY DEF vars, memory, run
<1>2. Pending' = Pending /\ OriginalBase' = OriginalBase
  BY DEF vars, block, Pending, OriginalBase, Moved
<1>3. /\ \A list, base : Pushing(list, base) => Pushing(list, base)'
      /\ \A list, base : Popping(list, base) => Popping(list, base)'
  BY <1>1, <1>2 DEF Pushing, Popping, WordAt
<1>4. \A a, d : Placed(a) /\ SumAt(n, top, a, d) => Placed(a)' /\ SumAt(n, top, a, d)'
  BY <1>1 DEF Placed, SumAt, Frames, WordAt
<1> QED
  BY <1>1, <1>3, <1>4 DEF SumInv

\* The invariant of the sum goes on.
LEMMA SumNext ==
  ASSUME NEW n, NEW top, SumFits(n, top), BlockInv,
         HostInv, host \in {"running", "switch", "done"},
         SumInv(n, top), [HostNext]_hostVars
  PROVE  SumInv(n, top)'
<1>0. IInv
  BY DEF BlockInv
<1>1. code' = code /\ programSize' = programSize /\ (phase \in Lost => phase' \in Lost)
  BY <1>0, HostLater
<1>2. CASE phase' \in Lost
  BY <1>1, <1>2 DEF SumInv
<1>3. CASE phase' \notin Lost /\ result = "Stop"
  BY <1>0, <1>1, <1>3, StoppedStays DEF SumInv, vars
<1>4. CASE phase' \notin Lost /\ result # "Stop"
  <2>1. Going /\ code = SumCode(n)
    BY <1>0, <1>1, <1>4 DEF Going, SumInv
  <2>2. PICK a \in DOMAIN code, d \in 0 .. n :
          /\ Placed(a) /\ SumAt(n, top, a, d)
          /\ phase = "transfer" =>
               \/ a = 24 /\ registers[PC] = 28 /\ Pushing({4, LR}, top - 8 * d)
               \/ a = 44 /\ Popping({4, PC}, top - 8 * d)
    BY <2>1 DEF SumInv, Going
  <2>3. CASE Between /\ Placed(a)'
    <3>1. CASE phase' = "transfer"
      <4>1. UNCHANGED vars
        BY <2>3, <3>1 DEF Between
      <4> QED
        BY <4>1, VarsKeepSum
    <3>2. CASE phase' # "transfer"
      <4>1. SumAt(n, top, a, d)'
        <5>1. /\ registers'[0] = registers[0] /\ registers'[4] = registers[4]
              /\ registers'[SP] = registers[SP] /\ registers'[LR] = registers[LR]
          BY <2>3 DEF Between, Register, PC, SP, LR
        <5>2. Frames(n, top, d)' /\ WordAt(48)' = WordAt(48)
          BY <2>2, <2>3, FramesStay DEF Between, SumAt, WordAt
        <5> QED
          BY <2>2, <2>3, <5>1, <5>2 DEF Between, SumAt
      <4>2. a \in (DOMAIN code)' /\ result' # "Stop"
        BY <1>1, <2>3 DEF Between
      <4> QED
        BY <1>1, <2>1, <2>3, <3>2, <4>1, <4>2 DEF SumInv, Going
    <3> QED
      BY <3>1, <3>2
  <2>4. CASE Evaluate /\ phase = "evaluate"
    <3>1. a \in {0, 4, 8, 12, 16, 20, 24, 28, 32, 36, 40, 44}
      BY <2>1, <2>2, SumCodes
    <3>2. CASE a \in {0, 4, 8}
      BY <1>4, <2>1, <2>2, <2>4, <3>2, SumPrologue, SumMovesOn
    <3>3. CASE a = 12
      <4>1. instruction = Swi(2)
        BY <2>1, <2>2, <2>4, <3>3, SumCodes DEF Placed
      <4>2. phase' = "idle" /\ result' = "Stop" /\ registers' = registers
        BY <2>4, <4>1, GuestStops
      <4>3. registers[0] = UpTo(n) /\ registers[4] = 0 /\ registers[SP] = top
        <5>1. d = 0 /\ registers[SP] = top - 8 * d /\ registers[0] = UpTo(n) /\ registers[4] = 0
          BY <2>2, <3>3 DEF SumAt
        <5>2. top \in Nat
          BY DEF SumFits
        <5> QED
          BY <5>1, <5>2
      <4> QED
        BY <1>1, <2>1, <4>2, <4>3 DEF SumInv, Going
    <3>4. CASE a \in {16, 20}
      BY <1>4, <2>1, <2>2, <2>4, <3>4, SumEntry, SumMovesOn
    <3>5. CASE a \in {24, 44}
      BY <2>1, <2>2, <2>4, <3>5, SumBegins
    <3>6. CASE a \in {28, 32, 36, 40}
      BY <1>4, <2>1, <2>2, <2>4, <3>6, SumBody, SumMovesOn
    <3> QED
      BY <3>1, <3>2, <3>3, <3>4, <3>5, <3>6
  <2>5. CASE Evaluate /\ phase = "transfer"
    <3>1. CASE a = 24
      <4>0. registers[PC] = 28 /\ Pushing({4, LR}, top - 8 * d)
        BY <2>2, <2>5, <3>1
      <4>1. \/ /\ SumAt(n, top, 24, d)' /\ Pushing({4, LR}, top - 8 * d)'
               /\ UNCHANGED <<registers, code, programSize, instruction, run>>
            \/ SumGoesTo(n, top, 28, d + 1)
        BY <1>4, <2>1, <2>2, <2>5, <3>1, <4>0, SumPush
      <4>2. CASE /\ SumAt(n, top, 24, d)' /\ Pushing({4, LR}, top - 8 * d)'
                 /\ UNCHANGED <<registers, code, programSize, instruction, run>>
        <5>1. Placed(24)' /\ registers'[PC] = 28 /\ result' # "Stop"
          BY <1>4, <2>2, <2>5, <3>1, <4>0, <4>2 DEF Placed, Pushing, run
        <5> QED
          BY <1>1, <2>1, <2>2, <3>1, <4>2, <5>1 DEF SumInv, Going
      <4> QED
        BY <2>1, <2>5, <4>1, <4>2, SumMovesOn
    <3>2. CASE a = 44
      <4>0. Popping({4, PC}, top - 8 * d)
        BY <2>2, <2>5, <3>2
      <4>1. \/ /\ SumAt(n, top, 44, d)' /\ Popping({4, PC}, top - 8 * d)'
               /\ UNCHANGED <<code, programSize, instruction, run>>
            \/ SumGoesTo(n, top, Link(d - 1), d - 1)
        BY <1>4, <2>1, <2>2, <2>5, <3>2, <4>0, SumPop
      <4>2. CASE /\ SumAt(n, top, 44, d)' /\ Popping({4, PC}, top - 8 * d)'
                 /\ UNCHANGED <<code, programSize, instruction, run>>
        <5>1. Placed(44)' /\ result' # "Stop"
          BY <1>4, <2>2, <2>5, <3>2, <4>0, <4>2 DEF Placed, Popping, run
        <5> QED
          BY <1>1, <2>1, <2>2, <3>2, <4>2, <5>1 DEF SumInv, Going
      <4> QED
        BY <2>1, <2>5, <4>1, <4>2, SumMovesOn
    <3> QED
      BY <2>2, <2>5, <3>1, <3>2
  <2> QED
    BY <2>1, <2>2, <2>3, <2>4, <2>5, GuestTurn
<1> QED
  BY <1>2, <1>3, <1>4

-----------------------------------------------------------------------------
\* The invariant, when the loaded program is the sum.
SumGuest(n, top) ==
  host \in {"running", "switch", "done"} /\ code = SumCode(n) => SumInv(n, top)

\* Every program with the code of the sum is one with this stack.
SumsOnly(n, top) == \A image \in Images : image.code = SumCode(n) => image = SumFile(n, top)

\* It holds of a program just loaded.
LEMMA SumLoaded ==
  ASSUME NEW n, NEW top, NEW image \in Images, SumFits(n, top), SumsOnly(n, top),
         code' = SumCode(n), JustLoaded(image)'
  PROVE  SumInv(n, top)'
<1>1. image.code = SumCode(n) /\ Fresh(image.data) \in [Ram -> Byte]
  BY DEF JustLoaded
<1>2. image.data = Literal(48, <<top>>)
  <2>1. image = SumFile(n, top)
    BY <1>1, Zenon DEF SumsOnly
  <2>2. SumFile(n, top).data = Literal(48, <<top>>)
    BY DEF SumFile, File
  <2> QED
    BY <2>1, <2>2
<1>3. n \in Nat /\ 0 \in 0 .. n /\ top \in Word
  <2>1. n \in Nat
    BY DEF SumFits, Byte
  <2>2. 0 \in 0 .. n
    BY <2>1
  <2> QED
    BY <2>1, <2>2, SumNumbers
<1>4. WordIn(Fresh(image.data), 48) = top
  <2> DEFINE words == <<top>>
  <2>1. Len(words) \in Nat /\ 1 \in 1 .. Len(words) /\ words[1] = top
    OBVIOUS
  <2> HIDE DEF words
  <2>2. image.data = Literal(48, words)
    BY <1>2 DEF words
  <2>3. ASSUME NEW k \in 0 .. 3 PROVE Fresh(image.data)[48 + k] = ByteOf(top, k)
    <3>1. /\ 48 + 4 * (1 - 1) + k \in DOMAIN Literal(48, words)
          /\ Literal(48, words)[48 + 4 * (1 - 1) + k] = ByteOf(words[1], k)
      <4>1. ASSUME NEW address \in Nat, NEW j \in 1 .. Len(words), NEW x \in 0 .. 3
            PROVE  /\ address + 4 * (j - 1) + x \in DOMAIN Literal(address, words)
                   /\ Literal(address, words)[address + 4 * (j - 1) + x] = ByteOf(words[j], x)
        BY ONLY <2>1, <4>1, LiteralBytes
      <4>2. 48 \in Nat
        OBVIOUS
      <4> QED
        BY ONLY k \in 0 .. 3, <2>1, <4>1, <4>2, Zenon
    <3>2. 48 + 4 * (1 - 1) + k = 48 + k /\ 48 + k \in Ram
      BY DEF SumFits, Bytes
    <3>3. 48 + k \in DOMAIN image.data /\ image.data[48 + k] = ByteOf(top, k)
      BY <2>1, <2>2, <3>1, <3>2
    <3> QED
      BY <3>2, <3>3 DEF Fresh
  <2>4. 48 \in Int /\ Bytes(48, 4) \subseteq Ram /\ WordBits = 4 * ByteBits
    BY DEF SumFits
  <2> QED
    BY <1>1, <1>3, <2>3, <2>4, LiteralReads
<1>5. SumAt(n, top, 0, 0)'
  <2>1. WordAt(48)' = top /\ registers'[4] = 0
    BY <1>4 DEF JustLoaded, WordAt, Register
  <2> QED
    BY <2>1 DEF SumAt, Frames
<1>6. 0 \in DOMAIN code'
  BY SumCodes
<1> QED
  BY <1>3, <1>5, <1>6 DEF SumInv, JustLoaded, Lost

\* Every step of the host keeps it.
LEMMA SumGuestNext ==
  ASSUME NEW n, NEW top, SumFits(n, top), SumsOnly(n, top),
         BlockInv, HostInv, Cleared, SumGuest(n, top), [HostNext]_hostVars
  PROVE  SumGuest(n, top)'
<1> SUFFICES ASSUME host' \in {"running", "switch", "done"}, code' = SumCode(n)
             PROVE  SumInv(n, top)'
  BY DEF SumGuest
<1>0. IInv
  BY DEF BlockInv
<1>1. CASE host \in {"running", "switch", "done"}
  <2>1. code = SumCode(n)
    BY <1>0, <1>1, HostLater
  <2> QED
    BY <1>1, <2>1, SumNext DEF SumGuest
<1>2. CASE host \notin {"running", "switch", "done"}
  <2>1. 0 \in DOMAIN code'
    BY SumCodes
  <2>2. PICK image \in Images : JustLoaded(image)'
    BY <1>0, <1>2, <2>1, LoadsProgram
  <2> QED
    BY <2>2, SumLoaded
<1> QED
  BY <1>1, <1>2

\* What the sum owes.
SumDone(n, top) ==
  host = "done" /\ code = SumCode(n) =>
    registers[0] = UpTo(n) /\ registers[4] = 0 /\ registers[SP] = top

\* A recursive guest has the sum in r0 when the host is done, r4 and the stack
\* as they were, whatever the argument and the budgets of run().
THEOREM SumGuestSums ==
  ASSUME NEW n, NEW top, SumFits(n, top), SumsOnly(n, top)
  PROVE  HostSpec => []SumDone(n, top)
<1> DEFINE Inv == BlockInv /\ HostInv /\ Cleared /\ SumGuest(n, top)
<1>1. HostInit => Inv
  <2>1. Init => LoopInv
    BY DEF Init, LoopInv
  <2> QED
    BY <2>1, HostInvInit, InitInv DEF HostInit, Cleared, SumGuest, BlockInv
<1>2. Inv /\ [HostNext]_hostVars => Inv'
  <2> SUFFICES ASSUME Inv, [HostNext]_hostVars PROVE Inv'
    OBVIOUS
  <2>1. IInv
    BY DEF BlockInv
  <2> QED
    BY <2>1, HostStepIsNext, BlockInvNext, HostInvNext, ClearedNext, SumGuestNext
<1>3. Inv => SumDone(n, top)
  <2> SUFFICES ASSUME HostInv, SumGuest(n, top), host = "done", code = SumCode(n)
               PROVE  SumDone(n, top)
    BY DEF SumDone
  <2>1. SumInv(n, top)
    BY DEF SumGuest
  <2>2. phase = "idle" /\ result = "Stop"
    BY <2>1 DEF HostInv, SumInv
  <2> QED
    BY <2>1, <2>2 DEF SumDone, SumInv, Lost
<1> QED
  BY <1>1, <1>2, <1>3, PTL DEF HostSpec

-----------------------------------------------------------------------------
(* The switch.                                                             *)

\* The instruction at each address of it.
LEMMA SwitchCodes ==
  ASSUME NEW k, NEW program, program = SwitchCode(k)
  PROVE  /\ DOMAIN program = {0, 4, 8, 12, 16} \cup {36, 40, 44, 48, 52, 56, 60, 64, 68, 72}
         /\ program[0] = Ldr(SP, PC, 80) /\ program[4] = Mov(0, Imm(k))
         /\ program[8] = Bl(8, 16) /\ program[12] = Swi(2)
         /\ program[16] = [Ldr(PC, PC, 0) EXCEPT !.offset = [Reg(0) EXCEPT !.amount = 2]]
         /\ program[36] = Mov(1, Imm(1)) /\ program[40] = Mov(PC, Reg(LR))
         /\ program[44] = Mov(1, Imm(2)) /\ program[48] = Mov(PC, Reg(LR))
         /\ program[52] = Push({LR}) /\ program[56] = Ldr(5, PC, 28)
         /\ program[60] = Mov(LR, Reg(PC)) /\ program[64] = Bx(5)
         /\ program[68] = Alu("ADD", 1, 1, Imm(2)) /\ program[72] = Pop({PC})
<1> DEFINE words == <<
             Ldr(SP, PC, 80), Mov(0, Imm(k)), Bl(8, 16), Swi(2),
             [Ldr(PC, PC, 0) EXCEPT !.offset = [Reg(0) EXCEPT !.amount = 2]]>>
           cases == <<
             Mov(1, Imm(1)), Mov(PC, Reg(LR)),
             Mov(1, Imm(2)), Mov(PC, Reg(LR)),
             Push({LR}), Ldr(5, PC, 28), Mov(LR, Reg(PC)), Bx(5),
             Alu("ADD", 1, 1, Imm(2)), Pop({PC})>>
<1>1. program = Joined(CodeOf(words), CodeAt(36, cases))
  BY Zenon DEF SwitchCode
<1>2. /\ Len(words) = 5 /\ DOMAIN words = 1 .. 5
      /\ words[1] = Ldr(SP, PC, 80) /\ words[2] = Mov(0, Imm(k))
      /\ words[3] = Bl(8, 16) /\ words[4] = Swi(2)
      /\ words[5] = [Ldr(PC, PC, 0) EXCEPT !.offset = [Reg(0) EXCEPT !.amount = 2]]
  OBVIOUS
<1>3. /\ Len(cases) = 10 /\ DOMAIN cases = 1 .. 10
      /\ cases[1] = Mov(1, Imm(1)) /\ cases[2] = Mov(PC, Reg(LR))
      /\ cases[3] = Mov(1, Imm(2)) /\ cases[4] = Mov(PC, Reg(LR))
      /\ cases[5] = Push({LR}) /\ cases[6] = Ldr(5, PC, 28)
      /\ cases[7] = Mov(LR, Reg(PC)) /\ cases[8] = Bx(5)
      /\ cases[9] = Alu("ADD", 1, 1, Imm(2)) /\ cases[10] = Pop({PC})
  OBVIOUS
<1> HIDE DEF words, cases
<1>4. /\ DOMAIN CodeOf(words) = {4 * x : x \in 0 .. 4}
      /\ \A x \in 0 .. 4 : CodeOf(words)[4 * x] = words[x + 1]
  <2>1. Len(words) \in Nat /\ Len(words) - 1 = 4 /\ DOMAIN words = 1 .. Len(words)
    BY <1>2
  <2> QED
    BY <2>1, CodeOfProgram
<1> DEFINE low == CodeOf(words)
           high == CodeAt(36, cases)
<1>5. high = [a \in {36, 40, 44, 48, 52, 56, 60, 64, 68, 72} |-> cases[((a - 36) \div 4) + 1]]
  <2>1. {36 + 4 * (j - 1) : j \in DOMAIN cases} = {36, 40, 44, 48, 52, 56, 60, 64, 68, 72}
    BY <1>3
  <2> QED
    BY <2>1 DEF CodeAt
<1>6. {4 * x : x \in 0 .. 4} = {0, 4, 8, 12, 16}
  OBVIOUS
<1>7. /\ low[4 * 0] = words[0 + 1] /\ low[4 * 1] = words[1 + 1] /\ low[4 * 2] = words[2 + 1]
      /\ low[4 * 3] = words[3 + 1] /\ low[4 * 4] = words[4 + 1]
  BY <1>4
<1>8. /\ ((36 - 36) \div 4) + 1 = 1 /\ ((40 - 36) \div 4) + 1 = 2
      /\ ((44 - 36) \div 4) + 1 = 3 /\ ((48 - 36) \div 4) + 1 = 4
      /\ ((52 - 36) \div 4) + 1 = 5 /\ ((56 - 36) \div 4) + 1 = 6
      /\ ((60 - 36) \div 4) + 1 = 7 /\ ((64 - 36) \div 4) + 1 = 8
      /\ ((68 - 36) \div 4) + 1 = 9 /\ ((72 - 36) \div 4) + 1 = 10
  OBVIOUS
<1>9. /\ DOMAIN low = {0, 4, 8, 12, 16}
      /\ low[0] = words[1] /\ low[4] = words[2] /\ low[8] = words[3] /\ low[12] = words[4]
      /\ low[16] = words[5]
  BY <1>4, <1>6, <1>7
<1>10. /\ DOMAIN high = {36, 40, 44, 48, 52, 56, 60, 64, 68, 72}
       /\ high[36] = cases[1] /\ high[40] = cases[2] /\ high[44] = cases[3]
       /\ high[48] = cases[4] /\ high[52] = cases[5] /\ high[56] = cases[6]
       /\ high[60] = cases[7] /\ high[64] = cases[8] /\ high[68] = cases[9]
       /\ high[72] = cases[10]
  <2> HIDE DEF high
  <2> QED
    BY <1>5, <1>8
<1>11. program = [a \in DOMAIN low \cup DOMAIN high |-> IF a \in DOMAIN low THEN low[a] ELSE high[a]]
  BY <1>1 DEF Joined
<1> HIDE DEF low, high
<1>12. DOMAIN program = DOMAIN low \cup DOMAIN high
  BY <1>11
<1>13. /\ program[0] = low[0] /\ program[4] = low[4] /\ program[8] = low[8]
       /\ program[12] = low[12] /\ program[16] = low[16]
  BY <1>9, <1>11
<1>14. /\ program[36] = high[36] /\ program[40] = high[40] /\ program[44] = high[44]
       /\ program[48] = high[48] /\ program[52] = high[52] /\ program[56] = high[56]
       /\ program[60] = high[60] /\ program[64] = high[64] /\ program[68] = high[68]
       /\ program[72] = high[72]
  BY <1>9, <1>10, <1>11
<1> QED
  BY <1>2, <1>3, <1>9, <1>10, <1>12, <1>13, <1>14

\* A jump through a table of words.
LEMMA TableStep ==
  ASSUME IInv, Evaluate, phase = "evaluate", NEW x \in Nat, NEW index \in Nat, WordBits = 4 * ByteBits,
         registers[PC] = x, x + 4 \in Word, registers[0] = index, 4 * index \in Word,
         instruction = [Ldr(PC, PC, 0) EXCEPT !.offset = [Reg(0) EXCEPT !.amount = 2]]
  PROVE  /\ UNCHANGED <<cpsr, code, programSize, instruction, block>>
         /\ \/ /\ registers' = [registers EXCEPT ![PC] = WordAt(x + 4 + 4 * index)]
               /\ ram' = ram /\ Complete
            \/ phase' \in Lost
<1> DEFINE s == instruction
<1>1. /\ s.condition = "AL" /\ s.format = "single_data_transfer"
      /\ s.load = TRUE /\ s.b = FALSE /\ s.p = TRUE /\ s.u = TRUE /\ s.w = FALSE
      /\ s.rn = PC /\ s.rd = PC
      /\ s.offset.kind = "by_value" /\ s.offset.type = "LSL" /\ s.offset.rm = 0
      /\ s.offset.amount = 2
  BY DEF Ldr, Transfer, Reg
<1> HIDE DEF s
<1>2. s = instruction
  BY DEF s
<1>3. Base(s) = x + 4
  BY <1>1, WrapWord DEF Base
<1>4. index \in Word
  BY ModulusFacts DEF Word
<1>5. Offsets(s) = {4 * index}
  <2>1. shift(s.offset) = {LogicalLeft(index, 2)}
    <3>1. 0 # PC /\ registers[0] + 0 = index
      BY DEF PC
    <3>2. Wrap(index) = index
      BY <1>4, WrapWord
    <3> QED
      BY <1>1, <3>1, <3>2 DEF shift
  <2>2. LogicalLeft(index, 2).value = 4 * index
    <3>1. WordBits \in Nat /\ 2 \in 1 .. WordBits - 1 /\ 2 # 0
      BY WidthAssumption, ByteFacts
    <3>2. LogicalLeft(index, 2).value = Wrap(ShiftLeft(index, 2))
      BY <3>1 DEF LogicalLeft, Shifted
    <3>3. 2^2 = 4 /\ index * 4 = 4 * index
      OBVIOUS
    <3>4. ShiftLeft(index, 2) = 4 * index
      BY <3>3, WrapWord DEF ShiftLeft
    <3> QED
      BY <3>2, <3>4, WrapWord
  <2> QED
    BY <1>1, <2>1, <2>2 DEF Offsets
<1>6. /\ UNCHANGED <<cpsr, code, programSize, instruction, block>>
      /\ \/ /\ Data(Touched(s, 4 * index))
            /\ Load(s, 4 * index) \/ Store(s, 4 * index)
            /\ Complete
         \/ phase' \in Lost
  BY <1>1, <1>2, <1>5, SingleStep
<1>7. Address(s, 4 * index) = x + 4 + 4 * index
  BY <1>1, <1>3 DEF Address, Indexed
<1> QED
  BY <1>1, <1>6, <1>7 DEF Load, Store, WriteBack

\* The stack is above the literals, which end at 96, and its one word in the buffer.
SwitchFits(k, top) ==
  /\ WordBits = 4 * ByteBits
  /\ k \in 0 .. 2 /\ 2 \in Byte
  /\ top \in Nat /\ 100 <= top /\ top <= MemSize

\* The table, the literals and, in the case that calls, the return address.
SwitchMemory(top, d) ==
  /\ WordAt(24) = 36 /\ WordAt(28) = 44 /\ WordAt(32) = 52
  /\ WordAt(88) = top /\ WordAt(92) = 36
  /\ d = 1 => WordAt(top - 4) = 12

\* With control at an address, inside (d = 1) or outside of the case that
\* calls the first, what the registers hold.
SwitchAt(k, top, a, d) ==
  /\ SwitchMemory(top, d)
  /\ d = 1 => k = 2
  /\ a # 0 => registers[SP] = top - 4 * d
  /\ a \in {0, 4, 8, 12, 16, 44, 48, 52} => d = 0
  /\ a \in {56, 60, 64, 68, 72} => d = 1
  /\ a \in {8, 16} => registers[0] = k
  /\ a = 12 => registers[1] = k + 1
  /\ a \in {16, 44, 48, 52} => registers[LR] = 12
  /\ a \in {36, 40} => IF d = 0 THEN k = 0 /\ registers[LR] = 12 ELSE registers[LR] = 68
  /\ a = 64 => registers[LR] = 68
  /\ a \in {40, 68} => registers[1] = 1
  /\ a \in {44, 48} => k = 1
  /\ a = 48 => registers[1] = 2
  /\ a = 52 => k = 2
  /\ a \in {60, 64} => registers[5] = 36
  /\ a = 72 => registers[1] = 3

\* The invariant of the switch: control is somewhere in it, the return
\* address is on its way, the host is lost, or the case has run.
SwitchInv(k, top) ==
  /\ code = SwitchCode(k) /\ programSize # 0
  /\ phase \notin Lost /\ result # "Stop" =>
       \E a \in DOMAIN code, d \in {0, 1} :
         /\ Placed(a) /\ SwitchAt(k, top, a, d)
         /\ phase = "transfer" => \/ a = 52 /\ registers[PC] = 56 /\ Pushing({LR}, top)
                                  \/ a = 72 /\ Popping({PC}, top - 4)
  /\ phase \notin Lost /\ result = "Stop" =>
       registers[1] = k + 1 /\ registers[SP] = top

\* The numbers are words.
LEMMA SwitchNumbers ==
  ASSUME NEW k, NEW top, SwitchFits(k, top)
  PROVE  /\ 0 .. 100 \subseteq Word /\ top \in Word /\ top - 4 \in Word /\ top \in Nat
         /\ Modulus >= 64 /\ WordBits = 4 * ByteBits
         /\ k \in Byte /\ k \in Nat /\ 1 \in Byte /\ 2 \in Byte
         /\ Bytes(24, 12) \subseteq Ram /\ Bytes(88, 8) \subseteq Ram
<1>1. MemSize \in Word /\ MemSize \in Nat /\ 100 <= MemSize
  BY MemSizeAssumption, BufferAssumption, ModulusFacts DEF Word, SwitchFits
<1>2. 0 .. 100 \subseteq Word /\ top \in Word /\ top - 4 \in Word
  BY <1>1, ModulusFacts DEF Word, SwitchFits
<1>3. k \in Byte /\ k \in Nat /\ 1 \in Byte /\ 2 \in Byte
  BY ByteFacts DEF SwitchFits, Byte
<1>4. Bytes(24, 12) \subseteq Ram /\ Bytes(88, 8) \subseteq Ram
  BY <1>1, MemSizeAssumption DEF Bytes, Ram
<1>5. Modulus >= 64
  BY <1>1, RunFits DEF SwitchFits
<1> QED
  BY <1>2, <1>3, <1>4, <1>5 DEF SwitchFits

\* What is known at every evaluation.
LEMMA SwitchFacts ==
  ASSUME NEW k, NEW top, SwitchFits(k, top), Going, phase = "evaluate", code = SwitchCode(k),
         NEW a \in DOMAIN code, Placed(a)
  PROVE  /\ a \in {0, 4, 8, 12, 16} \cup {36, 40, 44, 48, 52, 56, 60, 64, 68, 72}
         /\ instruction = code[a] /\ registers[PC] = a + 4 /\ a + 4 \in Word
         /\ registers \in [Register -> Word] /\ ram \in [Ram -> Byte] /\ IInv
         /\ 0 \in Register /\ 1 \in Register /\ 5 \in Register /\ SP \in Register
         /\ LR \in Register /\ PC \in Register /\ PC = 15 /\ SP = 13 /\ LR = 14
<1>1. a \in {0, 4, 8, 12, 16} \cup {36, 40, 44, 48, 52, 56, 60, 64, 68, 72}
  BY SwitchCodes
<1>2. a + 4 \in Word
  <2>1. a + 4 \in 0 .. 100
    BY <1>1
  <2> QED
    BY <2>1, SwitchNumbers
<1>3. registers[PC] = a + 4 /\ instruction = code[a]
  BY <1>2, WrapWord DEF Placed
<1> QED
  BY <1>1, <1>2, <1>3, Parts DEF Going, Machine, Register, PC, SP, LR

\* Where memory stays the table and the literals do.
LEMMA SwitchMemoryStays ==
  ASSUME NEW top, NEW d, ram' = ram, SwitchMemory(top, d)
  PROVE  SwitchMemory(top, d)'
BY DEF SwitchMemory, WordAt

\* Moving on from an instruction to another.
SwitchGoesTo(k, top, a, d) ==
  /\ a \in DOMAIN code /\ d \in {0, 1}
  /\ registers'[PC] = a /\ Complete /\ code' = code /\ programSize' = programSize
  /\ SwitchAt(k, top, a, d)'

\* There the invariant holds.
LEMMA SwitchMovesOn ==
  ASSUME NEW k, NEW top, Going, phase \in {"evaluate", "transfer"},
         code = SwitchCode(k), NEW a, NEW d, SwitchGoesTo(k, top, a, d)
  PROVE  SwitchInv(k, top)'
<1>1. Placed(a)' /\ phase' = "fetch" /\ result' # "Stop"
  BY Completes DEF SwitchGoesTo
<1>2. a \in (DOMAIN code)'
  BY DEF SwitchGoesTo
<1> QED
  BY <1>1, <1>2 DEF SwitchGoesTo, SwitchInv, Going

\* The stack, the argument and the call.
LEMMA SwitchPrologue ==
  ASSUME NEW k, NEW top, SwitchFits(k, top), Going, phase = "evaluate", Evaluate,
         code = SwitchCode(k), NEW a \in {0, 4, 8}, NEW d \in {0, 1}, Placed(a),
         SwitchAt(k, top, a, d)
  PROVE  \/ phase' \in Lost
         \/ a # 8 /\ SwitchGoesTo(k, top, a + 4, 0)
         \/ a = 8 /\ SwitchGoesTo(k, top, 16, 0)
<1>1. /\ a \in DOMAIN code /\ instruction = code[a] /\ registers[PC] = a + 4 /\ a + 4 \in Word
      /\ registers \in [Register -> Word] /\ IInv
      /\ 0 \in Register /\ 1 \in Register /\ SP \in Register /\ LR \in Register
      /\ PC \in Register /\ PC = 15 /\ SP = 13 /\ LR = 14
  BY SwitchFacts DEF Placed
<1>2. d = 0 /\ SwitchMemory(top, 0) /\ WordAt(88) = top
  BY DEF SwitchAt, SwitchMemory
<1>3. /\ 0 .. 100 \subseteq Word /\ k \in Byte /\ top - 4 * 0 = top /\ top \in Nat
  BY SwitchNumbers
<1>4. CASE a = 0
  <2>1. instruction = Ldr(SP, PC, 80) /\ registers[PC] = 4
    BY <1>1, <1>4, SwitchCodes
  <2>2. 4 + 4 \in Word /\ 4 \in Nat /\ 80 \in Nat /\ 4 + 4 + 80 = 88 /\ SP \in Register \ {PC}
    BY <1>1, <1>3
  <2>3. /\ UNCHANGED <<cpsr, code, programSize, instruction, block>>
        /\ \/ /\ registers' = [registers EXCEPT ![SP] = WordAt(88)]
              /\ ram' = ram /\ Complete
           \/ phase' \in Lost
    BY <1>1, <2>1, <2>2, LiteralStep
  <2>4. ASSUME phase' \notin Lost
        PROVE  SwitchGoesTo(k, top, 4, 0)
    <3>1. registers'[SP] = top - 4 * 0 /\ registers'[PC] = 4
      BY <1>1, <1>2, <1>3, <2>1, <2>3, <2>4
    <3>2. SwitchMemory(top, 0)'
      BY <1>2, <2>3, <2>4, SwitchMemoryStays
    <3>3. SwitchAt(k, top, 4, 0)'
      BY <3>1, <3>2 DEF SwitchAt
    <3> QED
      BY <2>3, <2>4, <3>1, <3>3, SwitchCodes DEF SwitchGoesTo
  <2> QED
    BY <1>4, <2>4
<1>5. CASE a = 4
  <2>1. instruction = Mov(0, Imm(k)) /\ registers[SP] = top - 4 * 0
    BY <1>1, <1>2, <1>5, SwitchCodes DEF SwitchAt
  <2>2. /\ registers' = [registers EXCEPT ![0] = k]
        /\ Complete /\ UNCHANGED <<cpsr, memory, instruction, block>>
    BY <1>1, <1>3, <2>1, ConstantStep
  <2>3. registers'[SP] = top - 4 * 0 /\ registers'[PC] = 8 /\ registers'[0] = k
    BY <1>1, <1>2, <1>5, <2>1, <2>2
  <2>4. SwitchMemory(top, 0)' /\ UNCHANGED <<ram, code, programSize>>
    BY <1>2, <2>2, SwitchMemoryStays DEF memory
  <2>5. SwitchAt(k, top, 8, 0)'
    BY <2>3, <2>4 DEF SwitchAt
  <2>6. SwitchGoesTo(k, top, 8, 0)
    BY <2>2, <2>3, <2>4, <2>5, SwitchCodes DEF SwitchGoesTo
  <2> QED
    BY <1>5, <2>6
<1>6. CASE a = 8
  <2>1. /\ instruction = Bl(8, 16) /\ registers[PC] = 12
        /\ registers[SP] = top - 4 * 0 /\ registers[0] = k
    BY <1>1, <1>2, <1>6, SwitchCodes DEF SwitchAt
  <2>2. /\ registers' = [registers EXCEPT ![LR] = registers[PC], ![PC] = 16]
        /\ Complete /\ UNCHANGED <<cpsr, memory, instruction, block>>
    <3>1. /\ 8 \in Nat /\ 16 \in Nat /\ 0 \in Int /\ 16 - 8 - 8 = 4 * 0 /\ 4 * 0 >= -FieldSign
          /\ 4 * 0 < FieldSign /\ 16 \in Word /\ 8 + 4 \in Word /\ registers[PC] = 8 + 4
      BY <1>3, <2>1, FieldFacts
    <3> QED
      BY <1>1, <2>1, <3>1, CallStep
  <2>3. /\ registers'[SP] = top - 4 * 0 /\ registers'[PC] = 16
        /\ registers'[0] = k /\ registers'[LR] = 12
    BY <1>1, <1>2, <1>3, <2>1, <2>2
  <2>4. SwitchMemory(top, 0)' /\ UNCHANGED <<ram, code, programSize>>
    BY <1>2, <2>2, SwitchMemoryStays DEF memory
  <2>5. SwitchAt(k, top, 16, 0)'
    BY <2>3, <2>4 DEF SwitchAt
  <2>6. SwitchGoesTo(k, top, 16, 0)
    BY <2>2, <2>3, <2>4, <2>5, SwitchCodes DEF SwitchGoesTo
  <2> QED
    BY <1>6, <2>6
<1> QED
  BY <1>4, <1>5, <1>6

\* The jump to the case.
LEMMA SwitchJumps ==
  ASSUME NEW k, NEW top, SwitchFits(k, top), Going, phase = "evaluate", Evaluate,
         code = SwitchCode(k), NEW d \in {0, 1}, 16 \in DOMAIN code, Placed(16),
         SwitchAt(k, top, 16, d)
  PROVE  phase' \in Lost \/ SwitchGoesTo(k, top, 36 + 8 * k, 0)
<1>1. /\ instruction = code[16] /\ registers[PC] = 20
      /\ registers \in [Register -> Word] /\ IInv
      /\ 0 \in Register /\ 1 \in Register /\ SP \in Register /\ LR \in Register
      /\ PC \in Register /\ PC = 15 /\ SP = 13 /\ LR = 14
  BY SwitchFacts
<1>2. /\ SwitchMemory(top, 0) /\ d = 0
      /\ registers[SP] = top - 4 * 0 /\ registers[0] = k /\ registers[LR] = 12
  BY DEF SwitchAt
<1>3. k \in {0, 1, 2} /\ 0 .. 100 \subseteq Word
  BY SwitchNumbers DEF SwitchFits
<1>4. WordAt(20 + 4 + 4 * k) = 36 + 8 * k
  <2>1. WordAt(24) = 36 /\ WordAt(28) = 44 /\ WordAt(32) = 52
    BY <1>2 DEF SwitchMemory
  <2> QED
    BY <1>3, <2>1
<1>5. instruction = [Ldr(PC, PC, 0) EXCEPT !.offset = [Reg(0) EXCEPT !.amount = 2]]
  BY <1>1, SwitchCodes
<1>6. /\ UNCHANGED <<cpsr, code, programSize, instruction, block>>
      /\ \/ /\ registers' = [registers EXCEPT ![PC] = 36 + 8 * k]
            /\ ram' = ram /\ Complete
         \/ phase' \in Lost
  <2>1. 20 \in Nat /\ k \in Nat /\ 20 + 4 \in Word /\ 4 * k \in Word /\ WordBits = 4 * ByteBits
    BY <1>3 DEF SwitchFits
  <2>2. /\ UNCHANGED <<cpsr, code, programSize, instruction, block>>
        /\ \/ /\ registers' = [registers EXCEPT ![PC] = WordAt(20 + 4 + 4 * k)]
              /\ ram' = ram /\ Complete
           \/ phase' \in Lost
    BY <1>1, <1>2, <1>5, <2>1, TableStep
  <2> QED
    BY <1>4, <2>2
<1>7. ASSUME phase' \notin Lost
      PROVE  SwitchGoesTo(k, top, 36 + 8 * k, 0)
  <2>1. /\ registers'[SP] = top - 4 * 0 /\ registers'[LR] = 12 /\ registers'[PC] = 36 + 8 * k
    BY <1>1, <1>2, <1>6, <1>7
  <2>2. SwitchMemory(top, 0)'
    BY <1>2, <1>6, <1>7, SwitchMemoryStays
  <2>3. 36 + 8 * k = IF k = 0 THEN 36 ELSE IF k = 1 THEN 44 ELSE 52
    BY <1>3
  <2>4. SwitchAt(k, top, 36 + 8 * k, 0)'
    BY <1>3, <2>1, <2>2, <2>3 DEF SwitchAt
  <2>5. 36 + 8 * k \in DOMAIN code
    BY <1>3, <2>3, SwitchCodes
  <2> QED
    BY <1>6, <1>7, <2>1, <2>4, <2>5 DEF SwitchGoesTo
<1> QED
  BY <1>7

\* The first two cases, the first one called or not.
LEMMA SwitchCases ==
  ASSUME NEW k, NEW top, SwitchFits(k, top), Going, phase = "evaluate", Evaluate,
         code = SwitchCode(k), NEW a \in {36, 40, 44, 48}, NEW d \in {0, 1}, Placed(a),
         SwitchAt(k, top, a, d)
  PROVE  \/ a \in {36, 44} /\ SwitchGoesTo(k, top, a + 4, d)
         \/ d = 0 /\ SwitchGoesTo(k, top, 12, 0)
         \/ d = 1 /\ SwitchGoesTo(k, top, 68, 1)
<1>1. /\ a \in DOMAIN code /\ instruction = code[a] /\ registers[PC] = a + 4 /\ a + 4 \in Word
      /\ registers \in [Register -> Word] /\ IInv
      /\ 0 \in Register /\ 1 \in Register /\ SP \in Register /\ LR \in Register
      /\ PC \in Register /\ PC = 15 /\ SP = 13 /\ LR = 14
  BY SwitchFacts DEF Placed
<1>2. /\ SwitchMemory(top, d) /\ registers[SP] = top - 4 * d
      /\ a \in {44, 48} => d = 0 /\ k = 1 /\ registers[LR] = 12
      /\ a \in {36, 40} => IF d = 0 THEN k = 0 /\ registers[LR] = 12 ELSE registers[LR] = 68
      /\ d = 1 => k = 2
  BY DEF SwitchAt
<1>3. 0 .. 100 \subseteq Word /\ 1 \in Byte /\ 2 \in Byte
  BY SwitchNumbers
<1>4. CASE a \in {36, 44}
  <2> DEFINE c == IF a = 36 THEN 1 ELSE 2
  <2>1. instruction = Mov(1, Imm(c)) /\ c \in Byte
    BY <1>1, <1>3, <1>4, SwitchCodes
  <2> HIDE DEF c
  <2>2. /\ registers' = [registers EXCEPT ![1] = c]
        /\ Complete /\ UNCHANGED <<cpsr, memory, instruction, block>>
    BY <1>1, <2>1, ConstantStep
  <2>3. /\ registers'[SP] = top - 4 * d /\ registers'[PC] = a + 4 /\ registers'[1] = c
        /\ registers'[LR] = registers[LR]
    BY <1>1, <1>2, <2>2
  <2>4. SwitchMemory(top, d)' /\ UNCHANGED <<ram, code, programSize>>
    BY <1>2, <2>2, SwitchMemoryStays DEF memory
  <2>5. SwitchAt(k, top, a + 4, d)'
    <3>1. CASE a = 36
      BY <1>2, <2>3, <2>4, <3>1 DEF SwitchAt, c
    <3>2. CASE a = 44
      BY <1>2, <2>3, <2>4, <3>2 DEF SwitchAt, c
    <3> QED
      BY <1>4, <3>1, <3>2
  <2>6. a + 4 \in DOMAIN code
    BY <1>4, SwitchCodes
  <2> QED
    BY <1>4, <2>2, <2>3, <2>4, <2>5, <2>6 DEF SwitchGoesTo
<1>5. CASE a \in {40, 48}
  <2> DEFINE back == IF d = 0 THEN 12 ELSE 68
  <2>1. instruction = Mov(PC, Reg(LR)) /\ registers[LR] = back
    BY <1>1, <1>2, <1>5, SwitchCodes
  <2>2. back \in Word
    BY <1>3
  <2> HIDE DEF back
  <2>3. /\ registers' = [registers EXCEPT ![PC] = back]
        /\ Complete /\ UNCHANGED <<cpsr, memory, instruction, block>>
    <3>1. /\ registers' = [registers EXCEPT
                             ![PC] = Wrap(registers[LR] + (IF LR = PC THEN 4 ELSE 0))]
          /\ Complete /\ UNCHANGED <<cpsr, memory, instruction, block>>
      BY <1>1, <2>1, RegisterStep
    <3>2. (IF LR = PC THEN 4 ELSE 0) = 0
      BY <1>1
    <3>3. Wrap(registers[LR] + 0) = back
      BY <1>1, <2>1, PlainOperand1
    <3>4. Wrap(registers[LR] + (IF LR = PC THEN 4 ELSE 0)) = back
      BY <3>2, <3>3
    <3> QED
      BY <3>1, <3>4
  <2>4. /\ registers'[SP] = top - 4 * d /\ registers'[PC] = back /\ registers'[1] = registers[1]
    BY <1>1, <1>2, <2>3
  <2>5. SwitchMemory(top, d)' /\ UNCHANGED <<ram, code, programSize>>
    BY <1>2, <2>3, SwitchMemoryStays DEF memory
  <2>6. CASE d = 0
    <3>1. registers[1] = k + 1
      BY <1>2, <1>5, <2>6 DEF SwitchAt
    <3>2. SwitchAt(k, top, 12, 0)'
      BY <2>4, <2>5, <2>6, <3>1 DEF SwitchAt
    <3> QED
      BY <2>3, <2>4, <2>5, <2>6, <3>2, SwitchCodes DEF SwitchGoesTo, back
  <2>7. CASE d = 1
    <3>1. registers[1] = 1
      BY <1>2, <1>5, <2>7 DEF SwitchAt
    <3>2. SwitchAt(k, top, 68, 1)'
      BY <1>2, <2>4, <2>5, <2>7, <3>1 DEF SwitchAt
    <3> QED
      BY <2>3, <2>4, <2>5, <2>7, <3>2, SwitchCodes DEF SwitchGoesTo, back
  <2> QED
    BY <2>6, <2>7
<1> QED
  BY <1>4, <1>5

\* The case that calls the first through a pointer, and adds to what it leaves.
LEMMA SwitchCalls ==
  ASSUME NEW k, NEW top, SwitchFits(k, top), Going, phase = "evaluate", Evaluate,
         code = SwitchCode(k), NEW a \in {56, 60, 64, 68}, NEW d \in {0, 1}, Placed(a),
         SwitchAt(k, top, a, d)
  PROVE  \/ phase' \in Lost
         \/ a # 64 /\ SwitchGoesTo(k, top, a + 4, 1)
         \/ a = 64 /\ SwitchGoesTo(k, top, 36, 1)
<1>1. /\ a \in DOMAIN code /\ instruction = code[a] /\ registers[PC] = a + 4 /\ a + 4 \in Word
      /\ registers \in [Register -> Word] /\ IInv
      /\ 1 \in Register /\ 5 \in Register /\ SP \in Register /\ LR \in Register
      /\ PC \in Register /\ PC = 15 /\ SP = 13 /\ LR = 14
  BY SwitchFacts DEF Placed
<1>2. /\ d = 1 /\ k = 2 /\ SwitchMemory(top, 1) /\ registers[SP] = top - 4 * 1
      /\ WordAt(92) = 36
  BY DEF SwitchAt, SwitchMemory
<1>3. 0 .. 100 \subseteq Word /\ 2 \in Byte
  BY SwitchNumbers
<1>4. CASE a = 56
  <2>1. instruction = Ldr(5, PC, 28) /\ registers[PC] = 60
    BY <1>1, <1>4, SwitchCodes
  <2>2. 60 + 4 \in Word /\ 60 \in Nat /\ 28 \in Nat /\ 60 + 4 + 28 = 92 /\ 5 \in Register \ {PC}
    BY <1>1, <1>3
  <2>3. /\ UNCHANGED <<cpsr, code, programSize, instruction, block>>
        /\ \/ /\ registers' = [registers EXCEPT ![5] = WordAt(92)]
              /\ ram' = ram /\ Complete
           \/ phase' \in Lost
    BY <1>1, <2>1, <2>2, LiteralStep
  <2>4. ASSUME phase' \notin Lost
        PROVE  SwitchGoesTo(k, top, 60, 1)
    <3>1. registers'[SP] = top - 4 * 1 /\ registers'[PC] = 60 /\ registers'[5] = 36
      BY <1>1, <1>2, <2>1, <2>3, <2>4
    <3>2. SwitchMemory(top, 1)'
      BY <1>2, <2>3, <2>4, SwitchMemoryStays
    <3>3. SwitchAt(k, top, 60, 1)'
      BY <1>2, <3>1, <3>2 DEF SwitchAt
    <3> QED
      BY <2>3, <2>4, <3>1, <3>3, SwitchCodes DEF SwitchGoesTo
  <2> QED
    BY <1>4, <2>4
<1>5. CASE a = 60
  <2>1. instruction = Mov(LR, Reg(PC)) /\ registers[PC] = 64 /\ registers[5] = 36
    BY <1>1, <1>5, SwitchCodes DEF SwitchAt
  <2>2. /\ registers' = [registers EXCEPT ![LR] = 68]
        /\ Complete /\ UNCHANGED <<cpsr, memory, instruction, block>>
    <3>1. /\ registers' = [registers EXCEPT
                             ![LR] = Wrap(registers[PC] + (IF PC = PC THEN 4 ELSE 0))]
          /\ Complete /\ UNCHANGED <<cpsr, memory, instruction, block>>
      BY <1>1, <2>1, RegisterStep
    <3>2. registers[PC] + (IF PC = PC THEN 4 ELSE 0) = 68 /\ 68 \in Word
      BY <1>3, <2>1
    <3>3. Wrap(registers[PC] + (IF PC = PC THEN 4 ELSE 0)) = 68
      BY <3>2, WrapWord
    <3> QED
      BY <3>1, <3>3
  <2>3. /\ registers'[SP] = top - 4 * 1 /\ registers'[PC] = 64 /\ registers'[5] = 36
        /\ registers'[LR] = 68
    BY <1>1, <1>2, <2>1, <2>2
  <2>4. SwitchMemory(top, 1)' /\ UNCHANGED <<ram, code, programSize>>
    BY <1>2, <2>2, SwitchMemoryStays DEF memory
  <2>5. SwitchAt(k, top, 64, 1)'
    BY <1>2, <2>3, <2>4 DEF SwitchAt
  <2>6. SwitchGoesTo(k, top, 64, 1)
    BY <2>2, <2>3, <2>4, <2>5, SwitchCodes DEF SwitchGoesTo
  <2> QED
    BY <1>5, <2>6
<1>6. CASE a = 64
  <2>1. instruction = Bx(5) /\ registers[5] = 36 /\ registers[LR] = 68
    BY <1>1, <1>6, SwitchCodes DEF SwitchAt
  <2>2. instruction.format = "branch_and_exchange" /\ instruction.condition = "AL" /\ instruction.rn = 5
    BY <2>1 DEF Bx
  <2>3. /\ registers' = [registers EXCEPT ![PC] = 36]
        /\ Complete /\ UNCHANGED <<cpsr, memory, instruction, block>>
    <3>1. TestCondition("AL")
      BY DEF TestCondition
    <3> QED
      BY <1>1, <2>1, <2>2, <3>1, ExchangeStep
  <2>4. registers'[SP] = top - 4 * 1 /\ registers'[PC] = 36 /\ registers'[LR] = 68
    BY <1>1, <1>2, <2>1, <2>3
  <2>5. SwitchMemory(top, 1)' /\ UNCHANGED <<ram, code, programSize>>
    BY <1>2, <2>3, SwitchMemoryStays DEF memory
  <2>6. SwitchAt(k, top, 36, 1)'
    BY <1>2, <2>4, <2>5 DEF SwitchAt
  <2>7. SwitchGoesTo(k, top, 36, 1)
    BY <2>3, <2>4, <2>5, <2>6, SwitchCodes DEF SwitchGoesTo
  <2> QED
    BY <1>6, <2>7
<1>7. CASE a = 68
  <2>1. instruction = Alu("ADD", 1, 1, Imm(2)) /\ registers[1] = 1
    BY <1>1, <1>7, SwitchCodes DEF SwitchAt
  <2>2. CountedTo("ADD", 1, 2) = 3
    BY <1>3, <2>1, WrapWord DEF CountedTo
  <2>3. /\ registers' = [registers EXCEPT ![1] = 3]
        /\ Complete /\ UNCHANGED <<memory, instruction, block>>
    <3>1. 1 \in Register \ {PC}
      BY <1>1
    <3>2. /\ registers' = [registers EXCEPT ![1] = CountedTo("ADD", 1, 2)]
          /\ Complete /\ UNCHANGED <<memory, instruction, block>>
      BY <1>1, <1>3, <2>1, <3>1, CountingStep
    <3> QED
      BY <2>2, <3>2
  <2>4. registers'[SP] = top - 4 * 1 /\ registers'[PC] = 72 /\ registers'[1] = 3
    BY <1>1, <1>2, <1>7, <2>3
  <2>5. SwitchMemory(top, 1)' /\ UNCHANGED <<ram, code, programSize>>
    BY <1>2, <2>3, SwitchMemoryStays DEF memory
  <2>6. SwitchAt(k, top, 72, 1)'
    BY <1>2, <2>4, <2>5 DEF SwitchAt
  <2>7. SwitchGoesTo(k, top, 72, 1)
    BY <2>3, <2>4, <2>5, <2>6, SwitchCodes DEF SwitchGoesTo
  <2> QED
    BY <1>7, <2>7
<1> QED
  BY <1>4, <1>5, <1>6, <1>7

\* A transfer of the return address begins at the address it is at.
LEMMA SwitchBegins ==
  ASSUME NEW k, NEW top, SwitchFits(k, top), BlockInv, Going, phase = "evaluate", Evaluate,
         code = SwitchCode(k), NEW a \in {52, 72}, NEW d \in {0, 1}, Placed(a),
         SwitchAt(k, top, a, d)
  PROVE  SwitchInv(k, top)'
<1>0. a \in DOMAIN code /\ instruction = code[a] /\ registers[PC] = a + 4 /\ top \in Nat
  BY SwitchFacts, SwitchNumbers DEF Placed
<1>1. a = 52 => registers[SP] = top
  <2>1. a = 52 => d = 0 /\ registers[SP] = top - 4 * d
    BY DEF SwitchAt
  <2> QED
    BY <1>0, <2>1
<1>2. a = 72 => registers[SP] = top - 4
  <2>1. a = 72 => d = 1 /\ registers[SP] = top - 4 * d
    BY DEF SwitchAt
  <2> QED
    BY <1>0, <2>1
<1>3. a = 52 => instruction = Push({LR}) /\ registers[PC] = 56
  BY <1>0, SwitchCodes
<1>4. a = 72 => instruction = Pop({PC})
  BY <1>0, SwitchCodes
<1>5. UNCHANGED <<registers, cpsr, memory, instruction, run>> /\ phase' = "transfer"
  <2>1. CASE a = 52
    BY <1>3, <2>1, StackBegins
  <2>2. CASE a = 72
    BY <1>4, <2>2, StackBegins
  <2> QED
    BY <2>1, <2>2
<1>6. a = 52 => Pushing({LR}, top)'
  BY <1>1, <1>3, StackBegins
<1>7. a = 72 => Popping({PC}, top - 4)'
  BY <1>2, <1>4, StackBegins
<1>8. SwitchMemory(top, d)'
  BY <1>5, SwitchMemoryStays DEF SwitchAt, memory
<1>9. SwitchAt(k, top, a, d)' /\ Placed(a)' /\ result' # "Stop"
  BY <1>0, <1>5, <1>8 DEF SwitchAt, Placed, memory, Going, run
<1> QED
  BY <1>0, <1>3, <1>5, <1>6, <1>7, <1>9 DEF SwitchInv, Going, memory

\* The return address goes onto the stack.
LEMMA SwitchPush ==
  ASSUME NEW k, NEW top, SwitchFits(k, top), BlockInv, Going, Evaluate, phase = "transfer",
         code = SwitchCode(k), NEW d \in {0, 1}, SwitchAt(k, top, 52, d),
         registers[PC] = 56, Pushing({LR}, top)
  PROVE  \/ phase' \in Lost
         \/ /\ SwitchAt(k, top, 52, 0)' /\ Pushing({LR}, top)'
            /\ UNCHANGED <<registers, code, programSize, instruction, run>>
         \/ SwitchGoesTo(k, top, 56, 1)
<1> DEFINE t == Push({LR})
           list == {LR}
<1>1. /\ SwitchMemory(top, 0) /\ registers[SP] = top - 4 * 0
      /\ registers[LR] = 12 /\ k = 2 /\ d = 0
  BY DEF SwitchAt
<1>2. /\ top \in Word /\ top \in Nat /\ top >= 100 /\ top - 4 \in Int
      /\ WordBits = 4 * ByteBits /\ Modulus >= 64
  BY SwitchNumbers DEF SwitchFits
<1>3. /\ list \in SUBSET (Register \ {SP, PC}) /\ LR \in Register /\ LR \in list
      /\ SP \in Register /\ PC \in Register
      /\ LR < PC /\ LR # SP /\ PC # SP /\ registers \in [Register -> Word]
  BY Parts DEF Going, Machine, Register, LR, SP, PC
<1>4. t = Push(list) /\ t.registerList = list /\ Pushing(list, top)
  BY StackFields
<1>5. SlotOf(t, top, LR) = top - 4 /\ BaseAfter(t, top) = top - 4
  <2>1. t.registerList = {LR} /\ t.u = FALSE /\ t.p = TRUE
    BY StackFields
  <2>2. top \in Int /\ Wrap(top - 4) = top - 4
    BY <1>2, SwitchNumbers, WrapWord
  <2>3. LR \in Register
    BY <1>3
  <2> HIDE DEF t
  <2>4. SlotOf(t, top, LR) = Wrap(top - 4) /\ BaseAfter(t, top) = Wrap(top - 4)
    BY ONLY <2>1, <2>2, <2>3, RunOfOne, Zenon
  <2> QED
    BY <2>2, <2>4
<1>6. \A r \in list : r = LR
  OBVIOUS
<1> HIDE DEF t, list
<1>7. /\ UNCHANGED <<cpsr, code, programSize, instruction>>
      /\ \/ phase' \in Lost
         \/ /\ Pushing(list, top)' /\ UNCHANGED <<registers, run>>
            /\ \A b : Elsewhere(t, top, b) => WordIn(ram', b) = WordIn(ram, b)
         \/ /\ registers' = [registers EXCEPT ![SP] = BaseAfter(t, top)]
            /\ ram' = ram /\ Complete
            /\ \A r \in list : /\ Bytes(SlotOf(t, top, r), 4) \subseteq Ram
                               /\ WordAt(SlotOf(t, top, r)) = registers[r]
  BY <1>2, <1>3, <1>4, PushTurn
<1>8. ASSUME Pushing(list, top)', UNCHANGED <<registers, run>>,
             \A b : Elsewhere(t, top, b) => WordIn(ram', b) = WordIn(ram, b)
      PROVE  SwitchAt(k, top, 52, 0)'
  <2>1. ASSUME NEW b \in {24, 28, 32, 88, 92}
        PROVE  WordIn(ram', b) = WordIn(ram, b)
    <3>1. b \in Int /\ b + 4 <= 96 /\ b >= 24
      OBVIOUS
    <3>2. Bytes(b, 4) \subseteq Ram
      <4>1. Bytes(24, 12) \subseteq Ram /\ Bytes(88, 8) \subseteq Ram
        BY SwitchNumbers
      <4>2. Bytes(b, 4) \subseteq Bytes(24, 12) \cup Bytes(88, 8)
        BY DEF Bytes
      <4> QED
        BY <4>1, <4>2
    <3>3. ASSUME NEW r \in t.registerList
          PROVE  Bytes(SlotOf(t, top, r), 4) \cap Bytes(b, 4) = {}
      <4>1. SlotOf(t, top, r) = top - 4
        BY <1>4, <1>5, <1>6
      <4>2. Bytes(top - 4, 4) \cap Bytes(b, 4) = {}
        BY <1>2, <3>1 DEF Bytes
      <4> QED
        BY <4>1, <4>2
    <3> QED
      BY <1>8, <3>1, <3>2, <3>3 DEF Elsewhere
  <2>2. SwitchMemory(top, 0)'
    BY <1>1, <2>1 DEF SwitchMemory, WordAt
  <2> QED
    BY <1>1, <1>8, <2>2 DEF SwitchAt
<1>9. ASSUME registers' = [registers EXCEPT ![SP] = BaseAfter(t, top)], ram' = ram, Complete,
             WordAt(SlotOf(t, top, LR)) = registers[LR]
      PROVE  SwitchGoesTo(k, top, 56, 1)
  <2>1. registers'[SP] = top - 4 * 1 /\ registers'[PC] = 56
    BY <1>2, <1>3, <1>5, <1>9
  <2>2. SwitchMemory(top, 1)'
    BY <1>1, <1>5, <1>9 DEF SwitchMemory, WordAt
  <2>3. SwitchAt(k, top, 56, 1)'
    BY <1>1, <2>1, <2>2 DEF SwitchAt
  <2> QED
    BY <1>7, <1>9, <2>1, <2>3, SwitchCodes DEF SwitchGoesTo
<1> QED
  BY <1>3, <1>7, <1>8, <1>9 DEF list

\* The return address comes back as pc.
LEMMA SwitchPop ==
  ASSUME NEW k, NEW top, SwitchFits(k, top), BlockInv, Going, Evaluate, phase = "transfer",
         code = SwitchCode(k), NEW d \in {0, 1}, SwitchAt(k, top, 72, d),
         Popping({PC}, top - 4)
  PROVE  \/ phase' \in Lost
         \/ /\ SwitchAt(k, top, 72, 1)' /\ Popping({PC}, top - 4)'
            /\ UNCHANGED <<code, programSize, instruction, run>>
         \/ SwitchGoesTo(k, top, 12, 0)
<1> DEFINE t == Pop({PC})
           list == {PC}
           base == top - 4
<1>1. /\ SwitchMemory(top, 1) /\ registers[SP] = top - 4 * 1 /\ WordAt(base) = 12
      /\ registers[1] = 3 /\ k = 2 /\ d = 1
  BY DEF SwitchAt, SwitchMemory
<1>2. /\ base \in Word /\ base + 4 \in Word /\ base + 4 = top /\ top - 4 * 1 = base
      /\ top - 4 * 0 = top
  BY SwitchNumbers DEF SwitchFits
<1>3. /\ list \in SUBSET (Register \ {SP}) /\ PC \in Register /\ PC \in list
      /\ 1 \in Register \ list /\ SP \in Register \ list /\ 1 # SP
      /\ registers \in [Register -> Word]
  BY Parts DEF Going, Machine, Register, SP, PC
<1>4. t = Pop(list) /\ Popping(list, base)
  OBVIOUS
<1> HIDE DEF base
<1>5. SlotOf(t, base, PC) = base /\ BaseAfter(t, base) = base + 4
  <2>1. t.registerList = {PC} /\ t.u = TRUE /\ t.p = FALSE
    BY StackFields
  <2>2. base \in Int /\ Wrap(base) = base /\ Wrap(base + 4) = base + 4
    BY <1>2, WordRange, WrapWord
  <2>3. PC \in Register
    BY <1>3
  <2> HIDE DEF t
  <2>4. SlotOf(t, base, PC) = Wrap(base) /\ BaseAfter(t, base) = Wrap(base + 4)
    BY ONLY <2>1, <2>2, <2>3, RunOfOne, Zenon
  <2> QED
    BY <2>2, <2>4
<1> HIDE DEF t, list
<1>6. /\ UNCHANGED <<cpsr, code, programSize, instruction>>
      /\ \/ phase' \in Lost
         \/ /\ Popping(list, base)' /\ UNCHANGED <<ram, run>>
            /\ \A r \in Register \ list : registers'[r] = registers[r]
         \/ /\ registers' = [registers EXCEPT ![SP] = BaseAfter(t, base)]
            /\ ram' = ram /\ Complete
            /\ \A r \in list : registers[r] = WordAt(SlotOf(t, base, r))
  BY <1>2, <1>3, <1>4, PopTurn
<1>7. ASSUME UNCHANGED <<ram, run>>, \A r \in Register \ list : registers'[r] = registers[r]
      PROVE  SwitchAt(k, top, 72, 1)'
  <2>1. SwitchMemory(top, 1)'
    BY <1>1, <1>7, SwitchMemoryStays
  <2>2. registers'[SP] = top - 4 * 1 /\ registers'[1] = 3
    BY <1>1, <1>3, <1>7
  <2> QED
    BY <1>1, <2>1, <2>2 DEF SwitchAt
<1>8. ASSUME registers' = [registers EXCEPT ![SP] = BaseAfter(t, base)], ram' = ram, Complete,
             registers[PC] = WordAt(SlotOf(t, base, PC))
      PROVE  SwitchGoesTo(k, top, 12, 0)
  <2>1. registers'[SP] = top - 4 * 0 /\ registers'[PC] = 12 /\ registers'[1] = k + 1
    <3>1. PC # SP /\ PC \in Register
      BY <1>3
    <3> QED
      BY <1>1, <1>2, <1>3, <1>5, <1>8, <3>1
  <2>2. SwitchMemory(top, 0)'
    BY <1>1, <1>8 DEF SwitchMemory, WordAt
  <2>3. SwitchAt(k, top, 12, 0)'
    BY <2>1, <2>2 DEF SwitchAt
  <2> QED
    BY <1>6, <1>8, <2>1, <2>3, SwitchCodes DEF SwitchGoesTo
<1> QED
  BY <1>3, <1>6, <1>7, <1>8 DEF list, base

\* A step that leaves the machine alone keeps it.
LEMMA VarsKeepSwitch ==
  ASSUME NEW k, NEW top, SwitchInv(k, top), UNCHANGED vars
  PROVE  SwitchInv(k, top)'
<1>1. UNCHANGED <<registers, cpsr, ram, code, programSize, instruction, phase, result>>
  BY DEF vars, memory, run
<1>2. Pending' = Pending /\ OriginalBase' = OriginalBase
  BY DEF vars, block, Pending, OriginalBase, Moved
<1>3. /\ \A list, base : Pushing(list, base) => Pushing(list, base)'
      /\ \A list, base : Popping(list, base) => Popping(list, base)'
  BY <1>1, <1>2 DEF Pushing, Popping, WordAt
<1>4. \A a, d : Placed(a) /\ SwitchAt(k, top, a, d) => Placed(a)' /\ SwitchAt(k, top, a, d)'
  BY <1>1 DEF Placed, SwitchAt, SwitchMemory, WordAt
<1>5. CASE phase \notin Lost /\ result # "Stop"
  <2>1. PICK a \in DOMAIN code, d \in {0, 1} :
          /\ Placed(a) /\ SwitchAt(k, top, a, d)
          /\ phase = "transfer" => \/ a = 52 /\ registers[PC] = 56 /\ Pushing({LR}, top)
                                   \/ a = 72 /\ Popping({PC}, top - 4)
    BY <1>5 DEF SwitchInv
  <2>2. Placed(a)' /\ SwitchAt(k, top, a, d)'
    BY <1>4, <2>1
  <2>3. a = 52 /\ Pushing({LR}, top) => Pushing({LR}, top)'
    BY <1>3
  <2>4. a = 72 /\ Popping({PC}, top - 4) => Popping({PC}, top - 4)'
    BY <1>3
  <2>5. phase' = "transfer" => \/ a = 52 /\ registers'[PC] = 56 /\ Pushing({LR}, top)'
                               \/ a = 72 /\ Popping({PC}, top - 4)'
    BY <1>1, <2>1, <2>3, <2>4
  <2>6. a \in (DOMAIN code)' /\ code' = SwitchCode(k) /\ programSize' # 0 /\ result' # "Stop"
    BY <1>1, <1>5 DEF SwitchInv
  <2>7. \E b \in (DOMAIN code)', e \in {0, 1} :
          /\ Placed(b)' /\ SwitchAt(k, top, b, e)'
          /\ phase' = "transfer" => \/ b = 52 /\ registers'[PC] = 56 /\ Pushing({LR}, top)'
                                    \/ b = 72 /\ Popping({PC}, top - 4)'
    BY <2>2, <2>5, <2>6
  <2> QED
    BY <2>6, <2>7, Zenon DEF SwitchInv
<1>6. CASE phase \in Lost \/ result = "Stop"
  BY <1>1, <1>6 DEF SwitchInv
<1> QED
  BY <1>5, <1>6

\* The invariant of the switch goes on.
LEMMA SwitchNext ==
  ASSUME NEW k, NEW top, SwitchFits(k, top), BlockInv,
         HostInv, host \in {"running", "switch", "done"},
         SwitchInv(k, top), [HostNext]_hostVars
  PROVE  SwitchInv(k, top)'
<1>0. IInv
  BY DEF BlockInv
<1>1. code' = code /\ programSize' = programSize /\ (phase \in Lost => phase' \in Lost)
  BY <1>0, HostLater
<1>2. CASE phase' \in Lost
  BY <1>1, <1>2 DEF SwitchInv
<1>3. CASE phase' \notin Lost /\ result = "Stop"
  BY <1>0, <1>1, <1>3, StoppedStays DEF SwitchInv, vars
<1>4. CASE phase' \notin Lost /\ result # "Stop"
  <2>1. Going /\ code = SwitchCode(k)
    BY <1>0, <1>1, <1>4 DEF Going, SwitchInv
  <2>2. PICK a \in DOMAIN code, d \in {0, 1} :
          /\ Placed(a) /\ SwitchAt(k, top, a, d)
          /\ phase = "transfer" => \/ a = 52 /\ registers[PC] = 56 /\ Pushing({LR}, top)
                                   \/ a = 72 /\ Popping({PC}, top - 4)
    BY <2>1 DEF SwitchInv, Going
  <2>3. CASE Between /\ Placed(a)'
    <3>1. CASE phase' = "transfer"
      <4>1. UNCHANGED vars
        BY <2>3, <3>1 DEF Between
      <4> QED
        BY <4>1, VarsKeepSwitch
    <3>2. CASE phase' # "transfer"
      <4>1. SwitchAt(k, top, a, d)'
        <5>1. /\ registers'[0] = registers[0] /\ registers'[1] = registers[1]
              /\ registers'[5] = registers[5]
              /\ registers'[SP] = registers[SP] /\ registers'[LR] = registers[LR]
          BY <2>3 DEF Between, Register, PC, SP, LR
        <5>2. SwitchMemory(top, d)'
          BY <2>2, <2>3, SwitchMemoryStays DEF Between, SwitchAt
        <5> QED
          BY <2>2, <2>3, <5>1, <5>2 DEF Between, SwitchAt
      <4>2. a \in (DOMAIN code)' /\ result' # "Stop"
        BY <1>1, <2>3 DEF Between
      <4> QED
        BY <1>1, <2>1, <2>3, <3>2, <4>1, <4>2 DEF SwitchInv, Going
    <3> QED
      BY <3>1, <3>2
  <2>4. CASE Evaluate /\ phase = "evaluate"
    <3>1. a \in {0, 4, 8, 12, 16} \cup {36, 40, 44, 48, 52, 56, 60, 64, 68, 72}
      BY <2>1, <2>2, SwitchCodes
    <3>2. CASE a \in {0, 4, 8}
      BY <1>4, <2>1, <2>2, <2>4, <3>2, SwitchPrologue, SwitchMovesOn
    <3>3. CASE a = 12
      <4>1. instruction = Swi(2)
        BY <2>1, <2>2, <2>4, <3>3, SwitchCodes DEF Placed
      <4>2. phase' = "idle" /\ result' = "Stop" /\ registers' = registers
        BY <2>4, <4>1, GuestStops
      <4>3. registers[1] = k + 1 /\ registers[SP] = top
        <5>1. d = 0 /\ registers[SP] = top - 4 * d /\ registers[1] = k + 1
          BY <2>2, <3>3 DEF SwitchAt
        <5>2. top \in Nat
          BY SwitchNumbers
        <5> QED
          BY <5>1, <5>2
      <4> QED
        BY <1>1, <2>1, <4>2, <4>3 DEF SwitchInv, Going
    <3>4. CASE a = 16
      BY <1>4, <2>1, <2>2, <2>4, <3>4, SwitchJumps, SwitchMovesOn
    <3>5. CASE a \in {36, 40, 44, 48}
      BY <1>4, <2>1, <2>2, <2>4, <3>5, SwitchCases, SwitchMovesOn
    <3>6. CASE a \in {52, 72}
      BY <2>1, <2>2, <2>4, <3>6, SwitchBegins
    <3>7. CASE a \in {56, 60, 64, 68}
      BY <1>4, <2>1, <2>2, <2>4, <3>7, SwitchCalls, SwitchMovesOn
    <3> QED
      BY <3>1, <3>2, <3>3, <3>4, <3>5, <3>6, <3>7
  <2>5. CASE Evaluate /\ phase = "transfer"
    <3>1. CASE a = 52
      <4>0. registers[PC] = 56 /\ Pushing({LR}, top)
        BY <2>2, <2>5, <3>1
      <4>1. \/ /\ SwitchAt(k, top, 52, 0)' /\ Pushing({LR}, top)'
               /\ UNCHANGED <<registers, code, programSize, instruction, run>>
            \/ SwitchGoesTo(k, top, 56, 1)
        BY <1>4, <2>1, <2>2, <2>5, <3>1, <4>0, SwitchPush
      <4>2. CASE /\ SwitchAt(k, top, 52, 0)' /\ Pushing({LR}, top)'
                 /\ UNCHANGED <<registers, code, programSize, instruction, run>>
        <5>1. Placed(52)' /\ registers'[PC] = 56 /\ result' # "Stop"
          BY <1>4, <2>2, <2>5, <3>1, <4>0, <4>2 DEF Placed, Pushing, run
        <5> QED
          BY <1>1, <2>1, <2>2, <3>1, <4>2, <5>1 DEF SwitchInv, Going
      <4> QED
        BY <2>1, <2>5, <4>1, <4>2, SwitchMovesOn
    <3>2. CASE a = 72
      <4>0. Popping({PC}, top - 4)
        BY <2>2, <2>5, <3>2
      <4>1. \/ /\ SwitchAt(k, top, 72, 1)' /\ Popping({PC}, top - 4)'
               /\ UNCHANGED <<code, programSize, instruction, run>>
            \/ SwitchGoesTo(k, top, 12, 0)
        BY <1>4, <2>1, <2>2, <2>5, <3>2, <4>0, SwitchPop
      <4>2. CASE /\ SwitchAt(k, top, 72, 1)' /\ Popping({PC}, top - 4)'
                 /\ UNCHANGED <<code, programSize, instruction, run>>
        <5>1. Placed(72)' /\ result' # "Stop"
          BY <1>4, <2>2, <2>5, <3>2, <4>0, <4>2 DEF Placed, Popping, run
        <5> QED
          BY <1>1, <2>1, <2>2, <3>2, <4>2, <5>1 DEF SwitchInv, Going
      <4> QED
        BY <2>1, <2>5, <4>1, <4>2, SwitchMovesOn
    <3> QED
      BY <2>2, <2>5, <3>1, <3>2
  <2> QED
    BY <2>1, <2>2, <2>3, <2>4, <2>5, GuestTurn
<1> QED
  BY <1>2, <1>3, <1>4

-----------------------------------------------------------------------------
\* The invariant, when the loaded program is the switch.
SwitchGuest(k, top) ==
  host \in {"running", "switch", "done"} /\ code = SwitchCode(k) => SwitchInv(k, top)

\* Every program with the code of the switch is one with this stack.
SwitchesOnly(k, top) ==
  \A image \in Images : image.code = SwitchCode(k) => image = SwitchFile(k, top)

\* It holds of a program just loaded.
LEMMA SwitchLoaded ==
  ASSUME NEW k, NEW top, NEW image \in Images, SwitchFits(k, top), SwitchesOnly(k, top),
         code' = SwitchCode(k), JustLoaded(image)'
  PROVE  SwitchInv(k, top)'
<1> DEFINE table == <<36, 44, 52>>
           pool == <<top, 36>>
<1>1. image.code = SwitchCode(k) /\ Fresh(image.data) \in [Ram -> Byte]
  BY DEF JustLoaded
<1>2. image.data = Joined(Literal(24, table), Literal(88, pool))
  <2>1. image = SwitchFile(k, top)
    BY <1>1, Zenon DEF SwitchesOnly
  <2>2. SwitchFile(k, top).data = Joined(Literal(24, table), Literal(88, pool))
    BY DEF SwitchFile, File
  <2> QED
    BY <2>1, <2>2
<1>3. /\ Len(table) = 3 /\ table[1] = 36 /\ table[2] = 44 /\ table[3] = 52
      /\ Len(pool) = 2 /\ pool[1] = top /\ pool[2] = 36
  OBVIOUS
<1> HIDE DEF table, pool
<1>4. /\ 0 .. 100 \subseteq Word /\ top \in Word
      /\ Bytes(24, 12) \subseteq Ram /\ Bytes(88, 8) \subseteq Ram /\ WordBits = 4 * ByteBits
  BY SwitchNumbers
<1>5. /\ \A j \in 1 .. 3, x \in 0 .. 3 :
           /\ 24 + 4 * (j - 1) + x \in DOMAIN Literal(24, table)
           /\ Literal(24, table)[24 + 4 * (j - 1) + x] = ByteOf(table[j], x)
      /\ \A j \in 1 .. 2, x \in 0 .. 3 :
           /\ 88 + 4 * (j - 1) + x \in DOMAIN Literal(88, pool)
           /\ Literal(88, pool)[88 + 4 * (j - 1) + x] = ByteOf(pool[j], x)
  <2>1. Len(table) \in Nat /\ Len(pool) \in Nat
    BY <1>3
  <2>2. ASSUME NEW address \in Nat, NEW j \in 1 .. Len(table), NEW x \in 0 .. 3
        PROVE  /\ address + 4 * (j - 1) + x \in DOMAIN Literal(address, table)
               /\ Literal(address, table)[address + 4 * (j - 1) + x] = ByteOf(table[j], x)
    BY ONLY <2>1, <2>2, LiteralBytes
  <2>3. ASSUME NEW address \in Nat, NEW j \in 1 .. Len(pool), NEW x \in 0 .. 3
        PROVE  /\ address + 4 * (j - 1) + x \in DOMAIN Literal(address, pool)
               /\ Literal(address, pool)[address + 4 * (j - 1) + x] = ByteOf(pool[j], x)
    BY ONLY <2>1, <2>3, LiteralBytes
  <2>4. 24 \in Nat /\ 88 \in Nat
    OBVIOUS
  <2>5. \A j \in 1 .. Len(table), x \in 0 .. 3 :
           /\ 24 + 4 * (j - 1) + x \in DOMAIN Literal(24, table)
           /\ Literal(24, table)[24 + 4 * (j - 1) + x] = ByteOf(table[j], x)
    BY ONLY <2>2, <2>4, Zenon
  <2>6. \A j \in 1 .. Len(pool), x \in 0 .. 3 :
           /\ 88 + 4 * (j - 1) + x \in DOMAIN Literal(88, pool)
           /\ Literal(88, pool)[88 + 4 * (j - 1) + x] = ByteOf(pool[j], x)
    BY ONLY <2>3, <2>4, Zenon
  <2> QED
    BY <1>3, <2>5, <2>6
<1>6. ASSUME NEW j \in 1 .. 3
      PROVE  WordIn(Fresh(image.data), 24 + 4 * (j - 1)) = table[j]
  <2>1. ASSUME NEW x \in 0 .. 3
        PROVE  Fresh(image.data)[24 + 4 * (j - 1) + x] = ByteOf(table[j], x)
    <3>1. 24 + 4 * (j - 1) + x \in Ram
      BY <1>4 DEF Bytes
    <3> QED
      BY <1>2, <1>5, <3>1 DEF Fresh, Joined
  <2>2. 24 + 4 * (j - 1) \in Int /\ Bytes(24 + 4 * (j - 1), 4) \subseteq Ram /\ table[j] \in Word
    BY <1>3, <1>4 DEF Bytes
  <2> DEFINE a == 24 + 4 * (j - 1)
  <2> HIDE DEF a
  <2>3. WordIn(Fresh(image.data), a) = table[j]
    BY <1>1, <1>4, <2>1, <2>2, LiteralReads DEF a
  <2> QED
    BY <2>3 DEF a
<1>7. ASSUME NEW j \in 1 .. 2
      PROVE  WordIn(Fresh(image.data), 88 + 4 * (j - 1)) = pool[j]
  <2>1. ASSUME NEW x \in 0 .. 3
        PROVE  Fresh(image.data)[88 + 4 * (j - 1) + x] = ByteOf(pool[j], x)
    <3>1. 88 + 4 * (j - 1) + x \in Ram
      BY <1>4 DEF Bytes
    <3>2. 88 + 4 * (j - 1) + x \notin DOMAIN Literal(24, table)
      BY <1>3 DEF Literal, Bytes
    <3> QED
      BY <1>2, <1>5, <3>1, <3>2 DEF Fresh, Joined
  <2>2. 88 + 4 * (j - 1) \in Int /\ Bytes(88 + 4 * (j - 1), 4) \subseteq Ram /\ pool[j] \in Word
    BY <1>3, <1>4 DEF Bytes
  <2> DEFINE a == 88 + 4 * (j - 1)
  <2> HIDE DEF a
  <2>3. WordIn(Fresh(image.data), a) = pool[j]
    BY <1>1, <1>4, <2>1, <2>2, LiteralReads DEF a
  <2> QED
    BY <2>3 DEF a
<1>8. SwitchMemory(top, 0)'
  <2>1. /\ WordIn(Fresh(image.data), 24 + 4 * (1 - 1)) = 36
        /\ WordIn(Fresh(image.data), 24 + 4 * (2 - 1)) = 44
        /\ WordIn(Fresh(image.data), 24 + 4 * (3 - 1)) = 52
    BY <1>3, <1>6
  <2>2. /\ WordIn(Fresh(image.data), 88 + 4 * (1 - 1)) = top
        /\ WordIn(Fresh(image.data), 88 + 4 * (2 - 1)) = 36
    BY <1>3, <1>7
  <2> QED
    BY <2>1, <2>2 DEF SwitchMemory, WordAt, JustLoaded
<1>9. SwitchAt(k, top, 0, 0)'
  BY <1>8 DEF SwitchAt
<1>10. 0 \in DOMAIN code'
  BY SwitchCodes
<1> QED
  BY <1>9, <1>10 DEF SwitchInv, JustLoaded, Lost

\* Every step of the host keeps it.
LEMMA SwitchGuestNext ==
  ASSUME NEW k, NEW top, SwitchFits(k, top), SwitchesOnly(k, top),
         BlockInv, HostInv, Cleared, SwitchGuest(k, top), [HostNext]_hostVars
  PROVE  SwitchGuest(k, top)'
<1> SUFFICES ASSUME host' \in {"running", "switch", "done"}, code' = SwitchCode(k)
             PROVE  SwitchInv(k, top)'
  BY DEF SwitchGuest
<1>0. IInv
  BY DEF BlockInv
<1>1. CASE host \in {"running", "switch", "done"}
  <2>1. code = SwitchCode(k)
    BY <1>0, <1>1, HostLater
  <2> QED
    BY <1>1, <2>1, SwitchNext DEF SwitchGuest
<1>2. CASE host \notin {"running", "switch", "done"}
  <2>1. 0 \in DOMAIN code'
    BY SwitchCodes
  <2>2. PICK image \in Images : JustLoaded(image)'
    BY <1>0, <1>2, <2>1, LoadsProgram
  <2> QED
    BY <2>2, SwitchLoaded
<1> QED
  BY <1>1, <1>2

\* What the switch owes.
SwitchDone(k, top) ==
  host = "done" /\ code = SwitchCode(k) => registers[1] = k + 1 /\ registers[SP] = top

\* A guest that switches has run the case of its argument when the host is
\* done, and its stack is as it was, whatever the budgets of run().
THEOREM SwitchGuestSwitches ==
  ASSUME NEW k, NEW top, SwitchFits(k, top), SwitchesOnly(k, top)
  PROVE  HostSpec => []SwitchDone(k, top)
<1> DEFINE Inv == BlockInv /\ HostInv /\ Cleared /\ SwitchGuest(k, top)
<1>1. HostInit => Inv
  <2>1. Init => LoopInv
    BY DEF Init, LoopInv
  <2> QED
    BY <2>1, HostInvInit, InitInv DEF HostInit, Cleared, SwitchGuest, BlockInv
<1>2. Inv /\ [HostNext]_hostVars => Inv'
  <2> SUFFICES ASSUME Inv, [HostNext]_hostVars PROVE Inv'
    OBVIOUS
  <2>1. IInv
    BY DEF BlockInv
  <2> QED
    BY <2>1, HostStepIsNext, BlockInvNext, HostInvNext, ClearedNext, SwitchGuestNext
<1>3. Inv => SwitchDone(k, top)
  <2> SUFFICES ASSUME HostInv, SwitchGuest(k, top), host = "done", code = SwitchCode(k)
               PROVE  SwitchDone(k, top)
    BY DEF SwitchDone
  <2>1. SwitchInv(k, top)
    BY DEF SwitchGuest
  <2>2. phase = "idle" /\ result = "Stop"
    BY <2>1 DEF HostInv, SwitchInv
  <2> QED
    BY <2>1, <2>2 DEF SwitchDone, SwitchInv, Lost
<1> QED
  BY <1>1, <1>2, <1>3, PTL DEF HostSpec

-----------------------------------------------------------------------------
(* The guests of the model-checked instance.                               *)

\* The buffer and the words are large enough for them.
GuestsFit ==
  /\ WordBits = 4 * ByteBits /\ FieldSign >= 28
  /\ 3 \in Byte /\ StackTop <= MemSize

\* Then each of them fits.
LEMMA GuestNumbers ==
  ASSUME GuestsFit
  PROVE  /\ CopyFits(Length, Source, Destination)
         /\ \A n \in Arguments : SumFits(n, StackTop)
         /\ \A k \in Cases : SwitchFits(k, StackTop)
<1>1. MemSize \in Nat /\ 120 <= MemSize /\ MemSize \in Word /\ 0 .. 3 \subseteq Byte /\ 0 .. 6 \subseteq Word
  BY MemSizeAssumption, BufferAssumption, ByteFacts, ModulusFacts DEF GuestsFit, StackTop, Byte, Word
<1>2. CopyFits(Length, Source, Destination)
  BY <1>1 DEF CopyFits, Length, Source, Destination, Bytes, Ram
<1>3. ASSUME NEW n \in Arguments PROVE SumFits(n, StackTop)
  <2>1. n \in {0, 1, 2, 3}
    BY DEF Arguments
  <2>2. UpTo(0) = 0 /\ UpTo(1) = 1 /\ UpTo(2) = 3 /\ UpTo(3) = 6
    BY DEF UpTo
  <2>3. n \in Byte /\ UpTo(n) \in Word /\ 8 * n <= 120
    BY <1>1, <2>1, <2>2
  <2>4. Bytes(48, 4) \subseteq Ram
    BY <1>1 DEF Bytes, Ram
  <2> QED
    BY <1>1, <2>3, <2>4 DEF SumFits, GuestsFit, StackTop
<1>4. ASSUME NEW k \in Cases PROVE SwitchFits(k, StackTop)
  BY <1>1 DEF SwitchFits, GuestsFit, StackTop, Cases
<1> QED
  BY <1>2, <1>3, <1>4

\* A program is known by its code.
LEMMA GuestCodes ==
  ASSUME GuestsFit, Images \subseteq GuestImages
  PROVE  /\ CopiesOnly(Length, Source, Destination)
         /\ \A image \in Images : image.code = CopyCode(Length) => image \in Copies
         /\ \A n \in Arguments : SumsOnly(n, StackTop)
         /\ \A k \in Cases : SwitchesOnly(k, StackTop)
<1>1. ASSUME NEW image \in Images
      PROVE  \/ image \in Copies /\ image.code = CopyCode(Length)
             \/ \E m \in Arguments : image = SumFile(m, StackTop) /\ image.code = SumCode(m)
             \/ \E m \in Cases : image = SwitchFile(m, StackTop) /\ image.code = SwitchCode(m)
  <2>1. image \in Copies \cup Sums \cup Switches
    BY <1>1 DEF GuestImages
  <2>2. CASE image \in Copies
    <3>1. PICK bytes \in [Bytes(Source, Length) -> {1, 3}] :
            image = CopyFile(Length, Source, Destination, bytes)
      BY <2>2 DEF Copies
    <3> QED
      BY <2>2, <3>1 DEF CopyFile, File
  <2>3. CASE image \in Sums
    <3>1. PICK m \in Arguments : image = SumFile(m, StackTop)
      BY <2>3 DEF Sums
    <3> QED
      BY <3>1 DEF SumFile, File
  <2>4. CASE image \in Switches
    <3>1. PICK m \in Cases : image = SwitchFile(m, StackTop)
      BY <2>4 DEF Switches
    <3> QED
      BY <3>1 DEF SwitchFile, File
  <2> QED
    BY <2>1, <2>2, <2>3, <2>4
<1>2. /\ \A n : 44 \notin DOMAIN CopyCode(n) /\ 72 \notin DOMAIN CopyCode(n)
      /\ \A n : 44 \in DOMAIN SumCode(n) /\ 72 \notin DOMAIN SumCode(n)
      /\ \A n : 72 \in DOMAIN SwitchCode(n)
  <2>1. ASSUME NEW n PROVE 44 \notin DOMAIN CopyCode(n) /\ 72 \notin DOMAIN CopyCode(n)
    BY CopyCodes
  <2>2. ASSUME NEW n PROVE 44 \in DOMAIN SumCode(n) /\ 72 \notin DOMAIN SumCode(n)
    BY SumCodes
  <2>3. ASSUME NEW n PROVE 72 \in DOMAIN SwitchCode(n)
    BY SwitchCodes
  <2> QED
    BY <2>1, <2>2, <2>3
<1>3. ASSUME NEW m, NEW n, SumCode(m) = SumCode(n) \/ SwitchCode(m) = SwitchCode(n)
      PROVE  m = n
  <2>1. Mov(0, Imm(m)) = Mov(0, Imm(n))
    BY <1>3, SumCodes, SwitchCodes
  <2>2. \A x : Mov(0, Imm(x)).operand2.byte = x
    BY DEF Mov, Alu, Imm
  <2> QED
    BY <2>1, <2>2
<1>4. \A image \in Images : image.code = CopyCode(Length) => image \in Copies
  BY <1>1, <1>2
<1>5. CopiesOnly(Length, Source, Destination)
  <2> SUFFICES ASSUME NEW image \in Images, image.code = CopyCode(Length)
               PROVE  \E bytes \in [Bytes(Source, Length) -> Byte] :
                        image = CopyFile(Length, Source, Destination, bytes)
    BY DEF CopiesOnly
  <2>1. PICK bytes \in [Bytes(Source, Length) -> {1, 3}] :
          image = CopyFile(Length, Source, Destination, bytes)
    BY <1>4 DEF Copies
  <2>2. {1, 3} \subseteq Byte
    BY ByteFacts DEF GuestsFit, Byte
  <2>3. bytes \in [Bytes(Source, Length) -> Byte]
    BY <2>1, <2>2
  <2> QED
    BY <2>1, <2>3
<1>6. ASSUME NEW n \in Arguments PROVE SumsOnly(n, StackTop)
  BY <1>1, <1>2, <1>3 DEF SumsOnly
<1>7. ASSUME NEW k \in Cases PROVE SwitchesOnly(k, StackTop)
  BY <1>1, <1>2, <1>3 DEF SwitchesOnly
<1> QED
  BY <1>4, <1>5, <1>6, <1>7

\* Whatever the budgets of run() and the widths, if the words and the buffer
\* are large enough for them, the guests compute what their source says: the
\* bytes are copied, the sum is right, the case ran, and the stack is back.
THEOREM GuestsAlwaysCompute ==
  ASSUME GuestsFit, Images \subseteq GuestImages
  PROVE  HostSpec => []GuestsCompute
<1> DEFINE Inv == /\ BlockInv /\ HostInv /\ Cleared
                  /\ CopyGuest(Length, Source, Destination)
                  /\ \A n \in Arguments : SumGuest(n, StackTop)
                  /\ \A k \in Cases : SwitchGuest(k, StackTop)
<1>1. HostInit => Inv
  <2>1. Init => LoopInv
    BY DEF Init, LoopInv
  <2> QED
    BY <2>1, HostInvInit, InitInv DEF HostInit, Cleared, CopyGuest, SumGuest, SwitchGuest, BlockInv
<1>2. Inv /\ [HostNext]_hostVars => Inv'
  <2> SUFFICES ASSUME Inv, [HostNext]_hostVars PROVE Inv'
    OBVIOUS
  <2>1. /\ CopyFits(Length, Source, Destination) /\ CopiesOnly(Length, Source, Destination)
        /\ \A n \in Arguments : SumFits(n, StackTop) /\ SumsOnly(n, StackTop)
        /\ \A k \in Cases : SwitchFits(k, StackTop) /\ SwitchesOnly(k, StackTop)
        /\ WordBits = 4 * ByteBits /\ FieldSign >= 20
    BY GuestNumbers, GuestCodes, FieldFacts DEF GuestsFit
  <2>2. BlockInv' /\ HostInv' /\ Cleared' /\ IInv /\ IInv'
    <3>1. IInv
      BY DEF BlockInv
    <3>2. BlockInv' /\ HostInv' /\ Cleared'
      BY <3>1, HostStepIsNext, BlockInvNext, HostInvNext, ClearedNext
    <3> QED
      BY <3>1, <3>2 DEF BlockInv
  <2>3. CopyGuest(Length, Source, Destination)'
    BY <2>1, <2>2, CopyGuestNext
  <2>4. ASSUME NEW n \in Arguments PROVE SumGuest(n, StackTop)'
    BY <2>1, SumGuestNext
  <2>5. ASSUME NEW k \in Cases PROVE SwitchGuest(k, StackTop)'
    BY <2>1, SwitchGuestNext
  <2> QED
    BY <2>2, <2>3, <2>4, <2>5
<1>3. Inv => GuestsCompute
  <2> SUFFICES ASSUME Inv, host = "done" PROVE GuestsCompute
    BY DEF GuestsCompute
  <2>1. phase = "idle" /\ (result = "Stop" \/ programSize = 0) /\ phase \notin Lost
    BY DEF HostInv, Lost
  <2>2. ASSUME code = CopyCode(Length)
        PROVE  \E image \in Copies :
                 ram = [a \in Ram |->
                          IF a \in Bytes(Destination, Length)
                          THEN image.data[Source + a - Destination]
                          ELSE IF a \in DOMAIN image.data THEN image.data[a] ELSE 0]
    <3>1. PICK image \in Images :
            /\ image.code = CopyCode(Length)
            /\ CopyInv(Fresh(image.data), Length, Source, Destination)
      BY <2>2 DEF CopyGuest
    <3>2. image \in Copies /\ ram = Copied(Fresh(image.data), Source, Destination, Length)
      BY <2>1, <3>1, GuestCodes DEF CopyInv
    <3>3. PICK bytes \in [Bytes(Source, Length) -> {1, 3}] :
            image = CopyFile(Length, Source, Destination, bytes)
      BY <3>2 DEF Copies
    <3>4. Bytes(Source, Length) \subseteq DOMAIN image.data
      <4>1. image.data = Joined(Literal(32, <<Source, Destination>>), bytes)
        BY <3>3 DEF CopyFile, File
      <4> QED
        BY <4>1 DEF Joined
    <3>5. ASSUME NEW a \in Bytes(Destination, Length)
          PROVE  Fresh(image.data)[Source + (a - Destination)] = image.data[Source + a - Destination]
      <4>1. /\ Source + (a - Destination) = Source + a - Destination
            /\ Source + a - Destination \in Bytes(Source, Length)
        BY DEF Bytes, Source, Destination, Length
      <4>2. Bytes(Source, Length) \subseteq Ram
        BY GuestNumbers DEF CopyFits
      <4> QED
        BY <3>4, <4>1, <4>2 DEF Fresh
    <3>6. ram = [a \in Ram |->
                   IF a \in Bytes(Destination, Length)
                   THEN image.data[Source + a - Destination]
                   ELSE IF a \in DOMAIN image.data THEN image.data[a] ELSE 0]
      BY <3>2, <3>5 DEF Copied, Fresh
    <3> QED
      BY <3>2, <3>6
  <2>3. ASSUME NEW n \in Arguments, code = SumCode(n)
        PROVE  registers[0] = (n * (n + 1)) \div 2 /\ registers[4] = 0 /\ registers[SP] = StackTop
    <3>1. SumInv(n, StackTop)
      BY <2>3 DEF SumGuest
    <3> QED
      BY <2>1, <3>1 DEF SumInv, UpTo
  <2>4. ASSUME NEW k \in Cases, code = SwitchCode(k)
        PROVE  registers[1] = k + 1 /\ registers[SP] = StackTop
    <3>1. SwitchInv(k, StackTop)
      BY <2>4 DEF SwitchGuest
    <3> QED
      BY <2>1, <3>1 DEF SwitchInv
  <2> QED
    BY <2>2, <2>3, <2>4 DEF GuestsCompute
<1> QED
  BY <1>1, <1>2, <1>3, PTL DEF HostSpec

-----------------------------------------------------------------------------
(* The message on the console.                                             *)

\* A word from a register to the address in another.
LEMMA StoreStep ==
  ASSUME IInv, Evaluate, phase = "evaluate", NEW rd \in Register \ {PC}, NEW rn \in Register \ {PC},
         instruction = Str(rd, rn, 0)
  PROVE  /\ UNCHANGED <<cpsr, code, programSize, instruction, block>>
         /\ \/ /\ registers' = registers
               /\ ram' = AfterStore(ram, registers[rn], 4, registers[rd])
               /\ Bytes(registers[rn], 4) \subseteq Ram /\ Complete
            \/ phase' \in Lost
<1> DEFINE s == instruction
<1>1. /\ s.condition = "AL" /\ s.format = "single_data_transfer"
      /\ s.load = FALSE /\ s.b = FALSE /\ s.p = TRUE /\ s.u = TRUE /\ s.w = FALSE
      /\ s.rn = rn /\ s.rd = rd /\ s.offset = [kind |-> "distance", value |-> 0]
  BY DEF Str, Transfer
<1>2. Base(s) = registers[rn] /\ Base(s) + 0 = registers[rn]
  <2>1. registers[rn] \in Word /\ Wrap(registers[rn] + 0) = registers[rn]
    BY PlainOperand1
  <2>2. registers[rn] + 0 = registers[rn]
    BY <2>1, ModulusFacts DEF Word
  <2> QED
    BY <1>1, <2>1, <2>2 DEF Base
<1> HIDE DEF s
<1>3. s = instruction
  BY DEF s
<1>4. /\ UNCHANGED <<cpsr, code, programSize, instruction, block>>
      /\ DistanceDone(s, 0) \/ phase' \in Lost
  BY <1>1, <1>3, DistanceStep
<1> QED
  BY <1>1, <1>2, <1>4 DEF DistanceDone

\* The interrupt that hands a character over.
LEMMA GuestSuspends ==
  ASSUME Evaluate, phase = "evaluate", instruction = Swi(3)
  PROVE  /\ phase' = "idle" /\ result' = "Suspend"
         /\ UNCHANGED <<registers, cpsr, memory, instruction, block>>
<1>1. /\ instruction.format = "software_interrupt" /\ instruction.condition = "AL"
      /\ instruction.comment = 3
  BY DEF Swi
<1>2. TestCondition("AL")
  BY DEF TestCondition
<1>3. softwareInterruptEval
  BY <1>1, <1>2 DEF Evaluate, SkipInstruction, AssertInstruction, Unsupported,
         dataProcessingEval, singleDataTranferEval, blockDataTransferEval, BeginTransfer,
         SkipRegister, TransferRegister, EscapeTransfer, EndTransfer, branchEval,
         branchAndExchangeEval, multiplyEval, multiplyLongEval,
         halfwordDataTransferImmediateOffEval, halfwordDataTransferRegisterOffEval, Executing
<1> QED
  BY <1>1, <1>3 DEF softwareInterruptEval, Return, Interrupt

\* A byte is its own lowest byte.
LEMMA LowestByte ==
  ASSUME NEW v \in Byte
  PROVE  ByteOf(v, 0) = v
<1>1. v \in 0 .. ByteModulus - 1 /\ ByteModulus \in Nat \ {0}
  BY ByteFacts DEF Byte
<1>2. 0 * ByteBits = 0 /\ 2^0 = 1
  <2>1. 2^0 = 1
    OBVIOUS
  <2> QED
    BY <2>1, ByteFacts
<1>3. v \div 1 = v /\ v % ByteModulus = v
  BY <1>1
<1> QED
  BY <1>2, <1>3 DEF ByteOf, ShiftRight

\* The instruction at each address of the guest.
LEMMA HelloCodes ==
  ASSUME NEW n, NEW program, program = HelloCode(n)
  PROVE  /\ DOMAIN program = {0, 4, 8, 12, 16, 20, 24, 28, 32, 36, 40, 44, 48, 52, 56}
         /\ program[0] = Ldr(SP, PC, 52) /\ program[4] = Bl(4, 12)
         /\ program[8] = Swi(2) /\ program[12] = Push({4, LR})
         /\ program[16] = Ldr(0, PC, 40) /\ program[20] = Mov(2, Imm(n))
         /\ program[24] = Bl(24, 32) /\ program[28] = Pop({4, PC})
         /\ program[32] = Ldr(1, PC, 28) /\ program[36] = LdrbPost(3, 0, 1)
         /\ program[40] = Str(3, 1, 0) /\ program[44] = Swi(3)
         /\ program[48] = AluS("SUB", 2, 2, Imm(1)) /\ program[52] = If("NE", B(52, 36))
         /\ program[56] = Bx(LR)
<1> DEFINE words == <<
             Ldr(SP, PC, 52), Bl(4, 12), Swi(2),
             Push({4, LR}), Ldr(0, PC, 40), Mov(2, Imm(n)), Bl(24, 32),
             Pop({4, PC}),
             Ldr(1, PC, 28), LdrbPost(3, 0, 1), Str(3, 1, 0), Swi(3),
             AluS("SUB", 2, 2, Imm(1)), If("NE", B(52, 36)), Bx(LR)>>
<1>1. program = CodeOf(words)
  BY Zenon DEF HelloCode
<1>2. /\ Len(words) = 15 /\ DOMAIN words = 1 .. 15
      /\ words[1] = Ldr(SP, PC, 52) /\ words[2] = Bl(4, 12) /\ words[3] = Swi(2)
      /\ words[4] = Push({4, LR}) /\ words[5] = Ldr(0, PC, 40)
      /\ words[6] = Mov(2, Imm(n)) /\ words[7] = Bl(24, 32) /\ words[8] = Pop({4, PC})
      /\ words[9] = Ldr(1, PC, 28) /\ words[10] = LdrbPost(3, 0, 1)
      /\ words[11] = Str(3, 1, 0) /\ words[12] = Swi(3)
      /\ words[13] = AluS("SUB", 2, 2, Imm(1)) /\ words[14] = If("NE", B(52, 36))
      /\ words[15] = Bx(LR)
  OBVIOUS
<1> HIDE DEF words
<1>3. /\ DOMAIN program = {4 * k : k \in 0 .. 14}
      /\ \A k \in 0 .. 14 : program[4 * k] = words[k + 1]
  <2>1. Len(words) \in Nat /\ Len(words) - 1 = 14 /\ DOMAIN words = 1 .. Len(words)
    BY <1>2
  <2> QED
    BY <1>1, <2>1, CodeOfProgram
<1>4. /\ program[4 * 0] = words[0 + 1] /\ program[4 * 1] = words[1 + 1]
      /\ program[4 * 2] = words[2 + 1] /\ program[4 * 3] = words[3 + 1]
      /\ program[4 * 4] = words[4 + 1] /\ program[4 * 5] = words[5 + 1]
      /\ program[4 * 6] = words[6 + 1] /\ program[4 * 7] = words[7 + 1]
      /\ program[4 * 8] = words[8 + 1] /\ program[4 * 9] = words[9 + 1]
      /\ program[4 * 10] = words[10 + 1] /\ program[4 * 11] = words[11 + 1]
      /\ program[4 * 12] = words[12 + 1] /\ program[4 * 13] = words[13 + 1]
      /\ program[4 * 14] = words[14 + 1]
  BY <1>3
<1>5. {4 * k : k \in 0 .. 14} = {0, 4, 8, 12, 16, 20, 24, 28, 32, 36, 40, 44, 48, 52, 56}
  OBVIOUS
<1> QED
  BY <1>2, <1>3, <1>4, <1>5

\* Words are four bytes, the branches fit their field, and code, literals,
\* message, stack and UART do not overlap.
HelloFits(message, text, top) ==
  /\ WordBits = 4 * ByteBits /\ FieldSign >= 24
  /\ message \in Seq(Byte) /\ Len(message) \in Byte \ {0}
  /\ text \in Nat /\ top \in Nat /\ 72 <= text /\ text + Len(message) + 8 <= top
  /\ top <= Uart /\ Bytes(Uart, 4) \subseteq Ram

\* What load() has put behind the code.
HelloContext(m, message, text, top) ==
  /\ m \in [Ram -> Byte] /\ HelloFits(message, text, top)
  /\ WordIn(m, 60) = top /\ WordIn(m, 64) = text /\ WordIn(m, 68) = Uart
  /\ \A j \in 0 .. Len(message) - 1 : m[text + j] = message[j + 1]

\* Literals and message are as load() left them.
Steady(m, message, text) == \A b \in Bytes(60, text + Len(message) - 60) : ram[b] = m[b]

\* The console shows the first k characters.
Printed(message, k) == Len(output) = k /\ \A j \in 1 .. k : output[j] = message[j]

\* Of the k characters the guest has handed over the last one is still to be
\* printed while the host has not looked, and all are on the console otherwise.
Told(message, a, k) ==
  IF Waiting THEN a = 48 /\ k > 0 /\ ram[Uart] = message[k] /\ Printed(message, k - 1)
  ELSE Printed(message, k)

\* With k characters handed over and control at an address, what memory,
\* registers and flags hold.
HelloAt(m, message, text, top, a, k) ==
  /\ Steady(m, message, text)
  /\ a # 0 => registers[SP] = IF a \in {4, 8, 12} THEN top ELSE top - 8
  /\ a = 12 => registers[LR] = 8
  /\ a \notin {0, 4, 8, 12} => WordAt(top - 4) = 8
  /\ a \in {0, 4, 12, 16, 20, 24, 32} => k = 0
  /\ a \in {36, 40, 44} => k < Len(message)
  /\ a \in {48, 52} => k > 0
  /\ a \in {8, 28, 56} => k = Len(message)
  /\ a \in {20, 24, 32, 36, 48, 52} => registers[0] = text + k
  /\ a \in {40, 44} => registers[0] = text + k + 1
  /\ a \in {36, 40, 44, 48, 52} => registers[1] = Uart
  /\ a \in {24, 32, 36, 40, 44, 52} => registers[2] = Len(message) - k
  /\ a = 48 => registers[2] = Len(message) - k + 1
  /\ a = 40 => registers[3] = message[k + 1]
  /\ a = 44 => ram[Uart] = message[k + 1]
  /\ a = 52 => cpsr.z = FlagOf(Len(message) - k = 0)
  /\ a \in {32, 36, 40, 44, 48, 52, 56} => registers[LR] = 28

\* The invariant of the guest: control is somewhere in it and the console shows
\* what has been handed over, the host is lost, or the whole message is there.
HelloInv(m, message, text, top) ==
  /\ code = HelloCode(Len(message)) /\ programSize # 0
  /\ phase \notin Lost /\ result # "Stop" =>
       \E a \in DOMAIN code, k \in 0 .. Len(message) :
         /\ Placed(a) /\ HelloAt(m, message, text, top, a, k) /\ Told(message, a, k)
         /\ phase = "transfer" => \/ a = 12 /\ registers[PC] = 16 /\ Pushing({4, LR}, top)
                                  \/ a = 28 /\ Popping({4, PC}, top - 8)
  /\ phase \notin Lost /\ result = "Stop" => output = message

\* The numbers are words, and where the parts are.
LEMMA HelloNumbers ==
  ASSUME NEW message, NEW text, NEW top, HelloFits(message, text, top),
         NEW k \in 0 .. Len(message)
  PROVE  /\ Len(message) \in Nat /\ Len(message) \in Byte /\ Len(message) > 0
         /\ message \in Seq(Byte) /\ \A j \in 1 .. Len(message) : message[j] \in Byte
         /\ k \in Nat /\ Len(message) - k \in Word
         /\ k > 0 => Len(message) - k + 1 \in Word
         /\ text \in Nat /\ text >= 72 /\ top \in Nat /\ Uart \in Int /\ Uart >= top
         /\ text + Len(message) <= top - 8
         /\ text + k \in Word /\ text + k + 1 \in Word
         /\ top \in Word /\ top - 8 \in Word /\ top - 4 \in Word /\ Uart \in Word
         /\ Bytes(60, text + Len(message) - 60) \subseteq Ram /\ Bytes(Uart, 4) \subseteq Ram
         /\ Uart \in Ram /\ 0 .. 76 \subseteq Word /\ Byte \subseteq Word /\ Ram \subseteq Word
         /\ WordBits = 4 * ByteBits /\ FieldSign >= 24 /\ Modulus >= 64 /\ 1 \in Byte
<1>1. /\ message \in Seq(Byte) /\ Len(message) \in Byte \ {0}
      /\ text \in Nat /\ top \in Nat /\ 72 <= text /\ text + Len(message) + 8 <= top
      /\ top <= Uart /\ Bytes(Uart, 4) \subseteq Ram
      /\ WordBits = 4 * ByteBits /\ FieldSign >= 24
  BY DEF HelloFits
<1>2. /\ Len(message) \in Nat /\ Len(message) > 0 /\ Len(message) < ByteModulus
      /\ ByteModulus \in Nat /\ 1 \in Byte /\ Byte \subseteq Word
  BY <1>1, ByteFacts DEF Byte
<1>3. \A j \in 1 .. Len(message) : message[j] \in Byte
  BY <1>1
<1>4. Uart \in Ram /\ Uart \in Nat /\ Uart + 3 < MemSize /\ MemSize \in Nat /\ MemSize + 4 < Modulus
  <2>1. Uart \in Nat
    BY UartAssumption, MemSizeAssumption DEF Ram
  <2>2. Uart + 3 \in Bytes(Uart, 4)
    BY <2>1 DEF Bytes
  <2> QED
    BY <1>1, <2>1, <2>2, UartAssumption, MemSizeAssumption, BufferAssumption DEF Ram
<1>5. Ram \subseteq Word /\ 0 .. MemSize \subseteq Word
  BY <1>4, ModulusFacts DEF Ram, Word
<1>6. Bytes(60, text + Len(message) - 60) \subseteq Ram
  BY <1>1, <1>2, <1>4 DEF Bytes, Ram
<1>7. Modulus >= 64
  BY <1>1, <1>2, <1>4, RunFits
<1>8. /\ k \in Nat /\ Len(message) - k \in Nat /\ Len(message) - k \in Word
      /\ k > 0 => Len(message) - k + 1 \in Word
  <2>1. Len(message) \in Word
    BY <1>1, <1>2
  <2> QED
    BY <1>2, <2>1, ModulusFacts DEF Word
<1>9. 0 .. 76 \subseteq Word
  <2>1. 76 <= MemSize
    BY <1>1, <1>2, <1>4
  <2>2. ASSUME NEW x \in 0 .. 76 PROVE x \in 0 .. MemSize
    BY <1>4, <2>1
  <2> QED
    BY <1>5, <2>2
<1>10. /\ text + k \in Word /\ text + k + 1 \in Word
       /\ top \in Word /\ top - 8 \in Word /\ top - 4 \in Word /\ Uart \in Word
  <2>1. /\ text + k \in 0 .. MemSize /\ text + k + 1 \in 0 .. MemSize
        /\ top \in 0 .. MemSize /\ top - 8 \in 0 .. MemSize /\ top - 4 \in 0 .. MemSize
        /\ Uart \in 0 .. MemSize
    BY <1>1, <1>2, <1>4
  <2> QED
    BY <1>5, <2>1
<1>11. text + Len(message) <= top - 8
  BY <1>1, <1>2
<1>12. Uart \in Int /\ Uart >= top /\ text >= 72
  BY <1>1, <1>4
<1> QED
  BY <1>1, <1>2, <1>3, <1>4, <1>5, <1>6, <1>7, <1>8, <1>9, <1>10, <1>11, <1>12, Zenon

\* A literal is still there, and a character of the message.
LEMMA SteadyReads ==
  ASSUME NEW m, NEW message, NEW text, NEW top, HelloContext(m, message, text, top),
         Steady(m, message, text)
  PROVE  /\ WordAt(60) = top /\ WordAt(64) = text /\ WordAt(68) = Uart
         /\ \A j \in 0 .. Len(message) - 1 : ram[text + j] = message[j + 1]
<1>1. /\ HelloFits(message, text, top)
      /\ WordIn(m, 60) = top /\ WordIn(m, 64) = text /\ WordIn(m, 68) = Uart
      /\ \A j \in 0 .. Len(message) - 1 : m[text + j] = message[j + 1]
  BY DEF HelloContext
<1>2. Len(message) \in Nat /\ text \in Nat /\ text >= 72
  <2>1. Len(message) \in Nat
    BY <1>1 DEF HelloFits, Byte
  <2> QED
    BY <1>1, <2>1 DEF HelloFits
<1>3. \A b \in 60 .. text + Len(message) - 1 : ram[b] = m[b]
  BY <1>2 DEF Steady, Bytes
<1>4. /\ ram[60] = m[60] /\ ram[61] = m[61] /\ ram[62] = m[62] /\ ram[63] = m[63]
      /\ ram[64] = m[64] /\ ram[65] = m[65] /\ ram[66] = m[66] /\ ram[67] = m[67]
      /\ ram[68] = m[68] /\ ram[69] = m[69] /\ ram[70] = m[70] /\ ram[71] = m[71]
  BY <1>2, <1>3
<1>5. WordIn(ram, 60) = WordIn(m, 60) /\ WordIn(ram, 64) = WordIn(m, 64) /\ WordIn(ram, 68) = WordIn(m, 68)
  BY <1>4 DEF WordIn
<1>6. \A j \in 0 .. Len(message) - 1 : text + j \in 60 .. text + Len(message) - 1
  BY <1>2
<1> QED
  BY <1>1, <1>3, <1>5, <1>6 DEF WordAt

\* What is known at every evaluation.
LEMMA HelloFacts ==
  ASSUME NEW message, NEW text, NEW top, HelloFits(message, text, top),
         Going, phase = "evaluate", code = HelloCode(Len(message)), NEW a \in DOMAIN code, Placed(a)
  PROVE  /\ a \in {0, 4, 8, 12, 16, 20, 24, 28, 32, 36, 40, 44, 48, 52, 56}
         /\ instruction = code[a] /\ registers[PC] = a + 4 /\ a + 4 \in Word
         /\ registers \in [Register -> Word] /\ ram \in [Ram -> Byte] /\ IInv
         /\ 0 \in Register /\ 1 \in Register /\ 2 \in Register /\ 3 \in Register
         /\ SP \in Register /\ LR \in Register
         /\ PC \in Register /\ PC = 15 /\ SP = 13 /\ LR = 14
<1>1. a \in {0, 4, 8, 12, 16, 20, 24, 28, 32, 36, 40, 44, 48, 52, 56}
  BY HelloCodes
<1>2. a + 4 \in Word
  <2>1. a + 4 \in 0 .. 76
    BY ONLY <1>1
  <2>2. 0 \in 0 .. Len(message)
    BY DEF HelloFits, Byte
  <2> QED
    BY <2>1, <2>2, HelloNumbers
<1>3. registers[PC] = a + 4 /\ instruction = code[a]
  BY <1>2, WrapWord DEF Placed
<1> QED
  BY <1>1, <1>2, <1>3, Parts DEF Going, Machine, Register, PC, SP, LR

\* Moving on from an instruction to another.
HelloGoesTo(m, message, text, top, a, k) ==
  /\ a \in DOMAIN code /\ k \in 0 .. Len(message)
  /\ registers'[PC] = a /\ Complete /\ code' = code /\ programSize' = programSize
  /\ HelloAt(m, message, text, top, a, k)'

\* There the invariant holds.
LEMMA HelloMovesOn ==
  ASSUME NEW m, NEW message, NEW text, NEW top, Going, phase \in {"evaluate", "transfer"},
         code = HelloCode(Len(message)), NEW a, NEW k, HelloGoesTo(m, message, text, top, a, k),
         Printed(message, k), output' = output
  PROVE  HelloInv(m, message, text, top)'
<1>1. Placed(a)' /\ phase' = "fetch" /\ result' # "Stop"
  BY Completes DEF HelloGoesTo
<1>2. a \in (DOMAIN code)'
  BY DEF HelloGoesTo
<1>3. Told(message, a, k)'
  BY <1>1 DEF Told, Waiting, Printed
<1> QED
  BY <1>1, <1>2, <1>3 DEF HelloGoesTo, HelloInv, Going

\* Where memory stays, literals, message and return address do.
LEMMA HelloStays ==
  ASSUME NEW m, NEW message, NEW text, NEW top, ram' = ram
  PROVE  /\ Steady(m, message, text) => Steady(m, message, text)'
         /\ WordAt(top - 4)' = WordAt(top - 4)
BY DEF Steady, WordAt

\* The stack and the call of main().
LEMMA HelloStart ==
  ASSUME NEW m, NEW message, NEW text, NEW top, HelloContext(m, message, text, top),
         Going, phase = "evaluate", Evaluate, code = HelloCode(Len(message)),
         NEW a \in {0, 4}, NEW k \in 0 .. Len(message), Placed(a),
         HelloAt(m, message, text, top, a, k)
  PROVE  phase' \in Lost \/ HelloGoesTo(m, message, text, top, IF a = 0 THEN 4 ELSE 12, k)
<1>0. HelloFits(message, text, top)
  BY DEF HelloContext
<1>1. /\ instruction = code[a] /\ registers[PC] = a + 4 /\ a + 4 \in Word
      /\ registers \in [Register -> Word] /\ IInv
      /\ SP \in Register /\ LR \in Register
      /\ PC \in Register /\ PC = 15 /\ SP = 13 /\ LR = 14
  BY <1>0, HelloFacts DEF Placed
<1>2. k = 0 /\ Steady(m, message, text)
  BY DEF HelloAt
<1>3. 0 .. 76 \subseteq Word /\ FieldSign >= 24
  BY <1>0, HelloNumbers
<1>4. CASE a = 0
  <2>1. instruction = Ldr(SP, PC, 52) /\ registers[PC] = 4 /\ WordAt(60) = top
    BY <1>1, <1>2, <1>4, HelloCodes, SteadyReads
  <2>2. 4 + 4 \in Word /\ 4 \in Nat /\ 52 \in Nat /\ 4 + 4 + 52 = 60 /\ SP \in Register \ {PC}
    BY <1>1, <1>3
  <2>3. /\ UNCHANGED <<cpsr, code, programSize, instruction, block>>
        /\ \/ /\ registers' = [registers EXCEPT ![SP] = WordAt(60)]
              /\ ram' = ram /\ Complete
           \/ phase' \in Lost
    BY <1>1, <2>1, <2>2, LiteralStep
  <2>4. ASSUME phase' \notin Lost
        PROVE  HelloGoesTo(m, message, text, top, 4, k)
    <3>1. registers'[SP] = top /\ registers'[PC] = 4
      BY <1>1, <2>1, <2>3, <2>4
    <3>2. Steady(m, message, text)'
      BY <1>2, <2>3, <2>4, HelloStays
    <3>3. HelloAt(m, message, text, top, 4, k)'
      BY <1>2, <3>1, <3>2 DEF HelloAt
    <3> QED
      BY <2>3, <2>4, <3>1, <3>3, HelloCodes DEF HelloGoesTo
  <2> QED
    BY <1>4, <2>4
<1>5. CASE a = 4
  <2>1. instruction = Bl(4, 12) /\ registers[PC] = 8 /\ registers[SP] = top
    BY <1>1, <1>5, HelloCodes DEF HelloAt
  <2>2. /\ registers' = [registers EXCEPT ![LR] = registers[PC], ![PC] = 12]
        /\ Complete /\ UNCHANGED <<cpsr, memory, instruction, block>>
    <3>1. /\ 4 \in Nat /\ 12 \in Nat /\ 0 \in Int /\ 12 - 4 - 8 = 4 * 0 /\ 4 * 0 >= -FieldSign
          /\ 4 * 0 < FieldSign /\ 12 \in Word /\ 4 + 4 \in Word /\ registers[PC] = 4 + 4
      BY <1>3, <2>1, FieldFacts
    <3> QED
      BY <1>1, <2>1, <3>1, CallStep
  <2>3. registers'[SP] = top /\ registers'[PC] = 12 /\ registers'[LR] = 8
    BY <1>1, <2>1, <2>2
  <2>4. Steady(m, message, text)' /\ UNCHANGED <<ram, code, programSize>>
    BY <1>2, <2>2, HelloStays DEF memory
  <2>5. HelloAt(m, message, text, top, 12, k)'
    BY <1>2, <2>3, <2>4 DEF HelloAt
  <2>6. HelloGoesTo(m, message, text, top, 12, k)
    BY <2>2, <2>3, <2>4, <2>5, HelloCodes DEF HelloGoesTo
  <2> QED
    BY <1>5, <2>6
<1> QED
  BY <1>4, <1>5

\* The arguments of _write() and its call.
LEMMA HelloMain ==
  ASSUME NEW m, NEW message, NEW text, NEW top, HelloContext(m, message, text, top),
         Going, phase = "evaluate", Evaluate, code = HelloCode(Len(message)),
         NEW a \in {16, 20, 24, 32}, NEW k \in 0 .. Len(message), Placed(a),
         HelloAt(m, message, text, top, a, k)
  PROVE  phase' \in Lost \/ HelloGoesTo(m, message, text, top, IF a = 24 THEN 32 ELSE a + 4, k)
<1>0. HelloFits(message, text, top)
  BY DEF HelloContext
<1>1. /\ instruction = code[a] /\ registers[PC] = a + 4 /\ a + 4 \in Word
      /\ registers \in [Register -> Word] /\ IInv
      /\ 0 \in Register /\ 1 \in Register /\ 2 \in Register
      /\ SP \in Register /\ LR \in Register
      /\ PC \in Register /\ PC = 15 /\ SP = 13 /\ LR = 14
  BY <1>0, HelloFacts DEF Placed
<1>2. /\ k = 0 /\ Steady(m, message, text) /\ registers[SP] = top - 8
      /\ WordAt(top - 4) = 8
  BY DEF HelloAt
<1>3. /\ 0 .. 76 \subseteq Word /\ FieldSign >= 24 /\ Len(message) \in Byte /\ Len(message) > 0
      /\ text + 0 = text /\ Len(message) - 0 = Len(message)
  <2>1. /\ 0 .. 76 \subseteq Word /\ FieldSign >= 24 /\ Len(message) \in Byte /\ Len(message) > 0
        /\ text \in Nat /\ Len(message) \in Nat
    BY <1>0, HelloNumbers
  <2> QED
    BY <2>1
<1>4. CASE a = 16
  <2>1. instruction = Ldr(0, PC, 40) /\ registers[PC] = 20 /\ WordAt(64) = text
    BY <1>1, <1>2, <1>4, HelloCodes, SteadyReads
  <2>2. 20 + 4 \in Word /\ 20 \in Nat /\ 40 \in Nat /\ 20 + 4 + 40 = 64 /\ 0 \in Register \ {PC}
    BY <1>1, <1>3
  <2>3. /\ UNCHANGED <<cpsr, code, programSize, instruction, block>>
        /\ \/ /\ registers' = [registers EXCEPT ![0] = WordAt(64)]
              /\ ram' = ram /\ Complete
           \/ phase' \in Lost
    BY <1>1, <2>1, <2>2, LiteralStep
  <2>4. ASSUME phase' \notin Lost
        PROVE  HelloGoesTo(m, message, text, top, 20, k)
    <3>1. registers'[SP] = top - 8 /\ registers'[PC] = 20 /\ registers'[0] = text
      BY <1>1, <1>2, <2>1, <2>3, <2>4
    <3>2. Steady(m, message, text)' /\ WordAt(top - 4)' = 8
      BY <1>2, <2>3, <2>4, HelloStays
    <3>3. HelloAt(m, message, text, top, 20, k)'
      BY <1>2, <1>3, <3>1, <3>2 DEF HelloAt
    <3> QED
      BY <2>3, <2>4, <3>1, <3>3, HelloCodes DEF HelloGoesTo
  <2> QED
    BY <1>4, <2>4
<1>5. CASE a = 20
  <2>1. instruction = Mov(2, Imm(Len(message))) /\ registers[0] = text + 0
    BY <1>1, <1>2, <1>5, HelloCodes DEF HelloAt
  <2>2. /\ registers' = [registers EXCEPT ![2] = Len(message)]
        /\ Complete /\ UNCHANGED <<cpsr, memory, instruction, block>>
    BY <1>1, <1>3, <2>1, ConstantStep
  <2>3. /\ registers'[SP] = top - 8 /\ registers'[PC] = 24 /\ registers'[0] = text + k
        /\ registers'[2] = Len(message) - k
    BY <1>1, <1>2, <1>3, <1>5, <2>1, <2>2
  <2>4. /\ Steady(m, message, text)' /\ WordAt(top - 4)' = 8
        /\ UNCHANGED <<ram, code, programSize>>
    BY <1>2, <2>2, HelloStays DEF memory
  <2>5. HelloAt(m, message, text, top, 24, k)'
    BY <1>2, <2>3, <2>4 DEF HelloAt
  <2>6. HelloGoesTo(m, message, text, top, 24, k)
    BY <2>2, <2>3, <2>4, <2>5, HelloCodes DEF HelloGoesTo
  <2> QED
    BY <1>5, <2>6
<1>6. CASE a = 24
  <2>1. /\ instruction = Bl(24, 32) /\ registers[PC] = 28
        /\ registers[0] = text + k /\ registers[2] = Len(message) - k
    BY <1>1, <1>6, HelloCodes DEF HelloAt
  <2>2. /\ registers' = [registers EXCEPT ![LR] = registers[PC], ![PC] = 32]
        /\ Complete /\ UNCHANGED <<cpsr, memory, instruction, block>>
    <3>1. /\ 24 \in Nat /\ 32 \in Nat /\ 0 \in Int /\ 32 - 24 - 8 = 4 * 0 /\ 4 * 0 >= -FieldSign
          /\ 4 * 0 < FieldSign /\ 32 \in Word /\ 24 + 4 \in Word /\ registers[PC] = 24 + 4
      BY <1>3, <2>1, FieldFacts
    <3> QED
      BY <1>1, <2>1, <3>1, CallStep
  <2>3. /\ registers'[SP] = top - 8 /\ registers'[PC] = 32 /\ registers'[LR] = 28
        /\ registers'[0] = text + k /\ registers'[2] = Len(message) - k
    BY <1>1, <1>2, <2>1, <2>2
  <2>4. /\ Steady(m, message, text)' /\ WordAt(top - 4)' = 8
        /\ UNCHANGED <<ram, code, programSize>>
    BY <1>2, <2>2, HelloStays DEF memory
  <2>5. HelloAt(m, message, text, top, 32, k)'
    BY <1>2, <2>3, <2>4 DEF HelloAt
  <2>6. HelloGoesTo(m, message, text, top, 32, k)
    BY <2>2, <2>3, <2>4, <2>5, HelloCodes DEF HelloGoesTo
  <2> QED
    BY <1>6, <2>6
<1>7. CASE a = 32
  <2>1. /\ instruction = Ldr(1, PC, 28) /\ registers[PC] = 36 /\ WordAt(68) = Uart
        /\ registers[0] = text + k /\ registers[2] = Len(message) - k /\ registers[LR] = 28
    BY <1>1, <1>2, <1>7, HelloCodes, SteadyReads DEF HelloAt
  <2>2. 36 + 4 \in Word /\ 36 \in Nat /\ 28 \in Nat /\ 36 + 4 + 28 = 68 /\ 1 \in Register \ {PC}
    BY <1>1, <1>3
  <2>3. /\ UNCHANGED <<cpsr, code, programSize, instruction, block>>
        /\ \/ /\ registers' = [registers EXCEPT ![1] = WordAt(68)]
              /\ ram' = ram /\ Complete
           \/ phase' \in Lost
    <3>1. IInv /\ instruction = Ldr(1, PC, 28) /\ registers[PC] = 36
      BY <1>1, <2>1
    <3> QED
      BY <2>2, <3>1, LiteralStep
  <2>4. ASSUME phase' \notin Lost
        PROVE  HelloGoesTo(m, message, text, top, 36, k)
    <3>1. /\ registers'[SP] = top - 8 /\ registers'[PC] = 36 /\ registers'[0] = text + k
          /\ registers'[1] = Uart /\ registers'[2] = Len(message) - k /\ registers'[LR] = 28
      BY <1>1, <1>2, <2>1, <2>3, <2>4
    <3>2. Steady(m, message, text)' /\ WordAt(top - 4)' = 8
      BY <1>2, <2>3, <2>4, HelloStays
    <3>3. HelloAt(m, message, text, top, 36, k)'
      BY <1>2, <1>3, <3>1, <3>2 DEF HelloAt
    <3> QED
      BY <2>3, <2>4, <3>1, <3>3, HelloCodes DEF HelloGoesTo
  <2> QED
    BY <1>7, <2>4
<1> QED
  BY <1>4, <1>5, <1>6, <1>7

\* A character from the message to the UART.
LEMMA HelloCharacter ==
  ASSUME NEW m, NEW message, NEW text, NEW top, HelloContext(m, message, text, top),
         Going, phase = "evaluate", Evaluate, code = HelloCode(Len(message)),
         NEW a \in {36, 40}, NEW k \in 0 .. Len(message), Placed(a),
         HelloAt(m, message, text, top, a, k)
  PROVE  phase' \in Lost \/ HelloGoesTo(m, message, text, top, a + 4, k)
<1>0. HelloFits(message, text, top)
  BY DEF HelloContext
<1>1. /\ instruction = code[a] /\ registers[PC] = a + 4 /\ a + 4 \in Word
      /\ registers \in [Register -> Word] /\ ram \in [Ram -> Byte] /\ IInv
      /\ 0 \in Register /\ 1 \in Register /\ 2 \in Register /\ 3 \in Register
      /\ SP \in Register /\ LR \in Register
      /\ PC \in Register /\ PC = 15 /\ SP = 13 /\ LR = 14
  BY <1>0, HelloFacts DEF Placed
<1>2. /\ Steady(m, message, text) /\ registers[SP] = top - 8 /\ WordAt(top - 4) = 8
      /\ k < Len(message) /\ registers[1] = Uart /\ registers[2] = Len(message) - k
      /\ registers[LR] = 28
  BY DEF HelloAt
<1>3. /\ Len(message) \in Nat /\ k \in Nat /\ text \in Nat /\ text >= 72 /\ top \in Nat
      /\ Uart \in Int /\ Uart >= top /\ text + Len(message) <= top - 8
      /\ text + k + 1 \in Word /\ Bytes(60, text + Len(message) - 60) \subseteq Ram
      /\ Bytes(Uart, 4) \subseteq Ram /\ Uart \in Ram
  <2>1. /\ Len(message) \in Nat /\ k \in Nat /\ text \in Nat /\ text >= 72 /\ top \in Nat
        /\ text + k + 1 \in Word
    BY <1>0, HelloNumbers
  <2>2. /\ Uart \in Int /\ Uart >= top /\ text + Len(message) <= top - 8
        /\ Bytes(60, text + Len(message) - 60) \subseteq Ram
    BY <1>0, HelloNumbers
  <2>3. Bytes(Uart, 4) \subseteq Ram /\ Uart \in Ram
    BY <1>0, HelloNumbers
  <2> QED
    BY <2>1, <2>2, <2>3
<1>4. \A j \in 1 .. Len(message) : message[j] \in Byte
  BY <1>0, HelloNumbers, Zenon
<1>5. CASE a = 36
  <2>1. instruction = Transfer(TRUE, TRUE, FALSE, 3, 0, 1) /\ registers[0] = text + k
    <3>1. code[36] = LdrbPost(3, 0, 1)
      BY HelloCodes
    <3>2. registers[0] = text + k
      BY <1>5 DEF HelloAt
    <3> QED
      BY <1>1, <1>5, <3>1, <3>2 DEF LdrbPost
  <2>2. ram[text + k] = message[k + 1]
    <3>1. k \in 0 .. Len(message) - 1
      BY <1>2, <1>3
    <3>2. \A j \in 0 .. Len(message) - 1 : ram[text + j] = message[j + 1]
      BY <1>2, SteadyReads
    <3> QED
      BY <3>1, <3>2
  <2>3. Wrap(text + k + 1) = text + k + 1 /\ 0 \in Register \ {PC} /\ 3 \in Register \ {PC}
    BY <1>1, <1>3, WrapWord
  <2>4. /\ UNCHANGED <<cpsr, code, programSize, instruction, block>>
        /\ \/ /\ registers' = [[registers EXCEPT ![3] = ram[registers[0]]]
                                 EXCEPT ![0] = Wrap(registers[0] + 1)]
              /\ ram' = ram /\ Complete
           \/ phase' \in Lost
    <3>1. /\ IInv /\ Evaluate /\ phase = "evaluate" /\ 0 \in Register \ {PC}
          /\ 3 \in Register \ {PC} /\ instruction = Transfer(TRUE, TRUE, FALSE, 3, 0, 1)
      BY <1>1, <2>1, <2>3
    <3> QED
      BY ONLY <3>1, NextByteStep, ZenonT(40)
  <2>5. ASSUME phase' \notin Lost
        PROVE  HelloGoesTo(m, message, text, top, 40, k)
    <3>1. /\ registers'[0] = text + k + 1 /\ registers'[1] = Uart
          /\ registers'[2] = Len(message) - k /\ registers'[3] = message[k + 1]
          /\ registers'[PC] = 40 /\ registers'[SP] = top - 8 /\ registers'[LR] = 28
      BY <1>1, <1>2, <1>5, <2>1, <2>2, <2>3, <2>4, <2>5
    <3>2. Steady(m, message, text)' /\ WordAt(top - 4)' = 8
      BY <1>2, <2>4, <2>5, HelloStays
    <3>3. HelloAt(m, message, text, top, 40, k)'
      BY <1>2, <3>1, <3>2 DEF HelloAt
    <3> QED
      BY <2>4, <2>5, <3>1, <3>3, HelloCodes DEF HelloGoesTo
  <2> QED
    BY <1>5, <2>5
<1>6. CASE a = 40
  <2>1. /\ instruction = Str(3, 1, 0) /\ registers[0] = text + k + 1
        /\ registers[3] = message[k + 1]
    BY <1>1, <1>6, HelloCodes DEF HelloAt
  <2>2. 1 \in Register \ {PC} /\ 3 \in Register \ {PC}
    BY <1>1
  <2>3. /\ UNCHANGED <<cpsr, code, programSize, instruction, block>>
        /\ \/ /\ registers' = registers
              /\ ram' = AfterStore(ram, Uart, 4, message[k + 1]) /\ Complete
           \/ phase' \in Lost
    BY <1>1, <1>2, <2>1, <2>2, StoreStep
  <2>4. ASSUME phase' \notin Lost
        PROVE  HelloGoesTo(m, message, text, top, 44, k)
    <3>1. ram' = [b \in Ram |-> IF b \in Bytes(Uart, 4) THEN ByteOf(message[k + 1], b - Uart) ELSE ram[b]]
      BY <1>1, <2>3, <2>4 DEF AfterStore
    <3>2. ram'[Uart] = message[k + 1]
      <4>1. Uart \in Bytes(Uart, 4) /\ Uart - Uart = 0
        BY <1>3 DEF Bytes
      <4>2. message[k + 1] \in Byte
        BY <1>2, <1>3, <1>4
      <4>3. ByteOf(message[k + 1], 0) = message[k + 1]
        BY <4>2, LowestByte
      <4> QED
        BY <1>3, <3>1, <4>1, <4>3
    <3>3. ASSUME NEW b \in Ram, b < Uart PROVE ram'[b] = ram[b]
      <4>1. b \notin Bytes(Uart, 4)
        BY <1>3, <3>3 DEF Bytes
      <4> QED
        BY <3>1, <4>1
    <3>4. Steady(m, message, text)'
      <4> SUFFICES ASSUME NEW b \in Bytes(60, text + Len(message) - 60) PROVE ram'[b] = m[b]
        BY DEF Steady
      <4>1. b \in Ram /\ b < Uart
        BY <1>3 DEF Bytes
      <4> QED
        BY <1>2, <3>3, <4>1 DEF Steady
    <3>5. WordAt(top - 4)' = 8
      <4>1. /\ top - 4 \in Int /\ Bytes(Uart, 4) \cap Bytes(top - 4, 4) = {}
            /\ Bytes(top - 4, 4) \subseteq Ram
        BY <1>3, MemSizeAssumption DEF Bytes, Ram
      <4>2. WordIn(AfterStore(ram, Uart, 4, message[k + 1]), top - 4) = WordIn(ram, top - 4)
        BY <1>1, <1>3, <4>1, WordStays
      <4> QED
        BY <1>2, <2>3, <2>4, <4>2 DEF WordAt
    <3>6. HelloAt(m, message, text, top, 44, k)'
      BY <1>2, <2>1, <2>3, <2>4, <3>2, <3>4, <3>5 DEF HelloAt
    <3>7. registers'[PC] = 44
      BY <1>1, <1>6, <2>3, <2>4
    <3> QED
      BY <2>3, <2>4, <3>6, <3>7, HelloCodes DEF HelloGoesTo
  <2> QED
    BY <1>6, <2>4
<1> QED
  BY <1>5, <1>6

\* Handing it over.
LEMMA HelloHandsOver ==
  ASSUME NEW m, NEW message, NEW text, NEW top, HelloContext(m, message, text, top),
         Going, phase = "evaluate", Evaluate, code = HelloCode(Len(message)),
         NEW k \in 0 .. Len(message), Placed(44), HelloAt(m, message, text, top, 44, k),
         Printed(message, k), host' = host, output' = output
  PROVE  HelloInv(m, message, text, top)'
<1>0. HelloFits(message, text, top) /\ 44 \in DOMAIN code
  BY HelloCodes DEF HelloContext
<1>1. /\ instruction = code[44] /\ registers[PC] = 44 + 4
  BY <1>0, HelloFacts
<1>2. instruction = Swi(3)
  BY <1>1, HelloCodes
<1>3. /\ phase' = "idle" /\ result' = "Suspend"
      /\ UNCHANGED <<registers, cpsr, memory, instruction, block>>
  BY <1>2, GuestSuspends
<1>4. k + 1 \in 0 .. Len(message) /\ k + 1 > 0 /\ k + 1 - 1 = k
      /\ text + k + 1 = text + (k + 1) /\ Len(message) - k = Len(message) - (k + 1) + 1
  <2>1. k < Len(message)
    BY DEF HelloAt
  <2>2. Len(message) \in Nat /\ k \in Nat /\ text \in Nat
    BY <1>0, HelloNumbers
  <2> QED
    BY <2>1, <2>2
<1>5. /\ Steady(m, message, text) /\ registers[SP] = top - 8 /\ WordAt(top - 4) = 8
      /\ registers[0] = text + (k + 1) /\ registers[1] = Uart
      /\ registers[2] = Len(message) - (k + 1) + 1
      /\ registers[LR] = 28 /\ ram[Uart] = message[k + 1]
  BY <1>4 DEF HelloAt
<1>6. Steady(m, message, text)' /\ WordAt(top - 4)' = 8 /\ UNCHANGED <<ram, code, programSize>>
  BY <1>3, <1>5, HelloStays DEF memory
<1>7. HelloAt(m, message, text, top, 48, k + 1)'
  BY <1>3, <1>4, <1>5, <1>6 DEF HelloAt
<1>8. Placed(48)' /\ 48 \in (DOMAIN code)'
  BY <1>1, <1>3, <1>6, HelloCodes DEF Placed
<1>9. Told(message, 48, k + 1)'
  <2>1. host = "switch"
    BY DEF Going, HostInv
  <2>2. Waiting'
    BY <1>3, <2>1 DEF Waiting
  <2>3. Printed(message, k)'
    BY DEF Printed
  <2> QED
    BY <1>4, <1>5, <1>6, <2>2, <2>3 DEF Told
<1> QED
  BY <1>3, <1>4, <1>6, <1>7, <1>8, <1>9 DEF HelloInv, Going

\* Counting it, and going back for the next or to main().
LEMMA HelloCounts ==
  ASSUME NEW m, NEW message, NEW text, NEW top, HelloContext(m, message, text, top),
         Going, phase = "evaluate", Evaluate, code = HelloCode(Len(message)),
         NEW a \in {48, 52, 56}, NEW k \in 0 .. Len(message), Placed(a),
         HelloAt(m, message, text, top, a, k)
  PROVE  \/ a = 48 /\ HelloGoesTo(m, message, text, top, 52, k)
         \/ a = 52 /\ \/ HelloGoesTo(m, message, text, top, 36, k)
                      \/ HelloGoesTo(m, message, text, top, 56, k)
         \/ a = 56 /\ HelloGoesTo(m, message, text, top, 28, k)
<1>0. HelloFits(message, text, top)
  BY DEF HelloContext
<1>1. /\ instruction = code[a] /\ registers[PC] = a + 4 /\ a + 4 \in Word
      /\ registers \in [Register -> Word] /\ IInv
      /\ 0 \in Register /\ 1 \in Register /\ 2 \in Register
      /\ SP \in Register /\ LR \in Register
      /\ PC \in Register /\ PC = 15 /\ SP = 13 /\ LR = 14
  BY <1>0, HelloFacts DEF Placed
<1>2. /\ Steady(m, message, text) /\ registers[SP] = top - 8 /\ WordAt(top - 4) = 8
      /\ registers[LR] = 28
  BY DEF HelloAt
<1>3. /\ Len(message) \in Nat /\ k \in Nat /\ Len(message) - k \in Word /\ 1 \in Byte
      /\ 0 .. 76 \subseteq Word /\ FieldSign >= 24
  BY <1>0, HelloNumbers
<1>4. CASE a = 48
  <2>1. /\ instruction = AluS("SUB", 2, 2, Imm(1)) /\ k > 0
        /\ registers[0] = text + k /\ registers[1] = Uart
        /\ registers[2] = Len(message) - k + 1
    BY <1>1, <1>4, HelloCodes DEF HelloAt
  <2>2. CountedTo("SUB", 2, 1) = Len(message) - k
    <3>1. Len(message) - k + 1 - 1 = Len(message) - k
      BY <1>3
    <3> QED
      BY <1>3, <2>1, <3>1, WrapWord DEF CountedTo
  <2>3. /\ registers' = [registers EXCEPT ![2] = Len(message) - k]
        /\ cpsr'.z = FlagOf(Len(message) - k = 0)
        /\ Complete /\ UNCHANGED <<memory, instruction, block>>
    <3>1. 2 \in Register \ {PC} /\ 2 \in Register /\ 1 \in Byte
      BY <1>1, <1>3
    <3>2. /\ registers' = [registers EXCEPT ![2] = CountedTo("SUB", 2, 1)]
          /\ cpsr'.z = FlagOf(CountedTo("SUB", 2, 1) = 0)
          /\ Complete /\ UNCHANGED <<memory, instruction, block>>
      BY ONLY Evaluate, phase = "evaluate", <1>1, <2>1, <3>1, CountingStep
    <3> QED
      BY <2>2, <3>2
  <2>4. /\ registers'[0] = text + k /\ registers'[1] = Uart
        /\ registers'[2] = Len(message) - k /\ registers'[PC] = 52
        /\ registers'[SP] = top - 8 /\ registers'[LR] = 28
    BY <1>1, <1>2, <1>4, <2>1, <2>3
  <2>5. /\ Steady(m, message, text)' /\ WordAt(top - 4)' = 8
        /\ UNCHANGED <<ram, code, programSize>>
    BY <1>2, <2>3, HelloStays DEF memory
  <2>6. HelloAt(m, message, text, top, 52, k)'
    BY <2>1, <2>3, <2>4, <2>5 DEF HelloAt
  <2>7. HelloGoesTo(m, message, text, top, 52, k)
    BY <2>3, <2>4, <2>5, <2>6, HelloCodes DEF HelloGoesTo
  <2> QED
    BY <1>4, <2>7
<1>5. CASE a = 52
  <2>1. /\ instruction = If("NE", Branch(FALSE, 52, 36))
        /\ registers[0] = text + k /\ registers[1] = Uart
        /\ registers[2] = Len(message) - k /\ cpsr.z = FlagOf(Len(message) - k = 0)
    <3>1. instruction = If("NE", Branch(FALSE, 52, 36))
      BY <1>1, <1>5, HelloCodes DEF B
    <3> QED
      BY <1>5, <3>1 DEF HelloAt
  <2>2. TestCondition("NE") <=> k < Len(message)
    <3>1. Len(message) - k = 0 <=> ~(k < Len(message))
      <4>1. Len(message) \in Nat /\ k \in Nat /\ k <= Len(message)
        BY <1>3
      <4> QED
        BY ONLY <4>1
    <3> QED
      BY <2>1, <3>1 DEF TestCondition, FlagOf
  <2>3. /\ registers' = IF k < Len(message)
                        THEN [registers EXCEPT ![LR] = registers[LR], ![PC] = 36]
                        ELSE registers
        /\ Complete /\ UNCHANGED <<cpsr, memory, instruction, block>>
    <3>1. /\ 52 \in Nat /\ 36 \in Nat /\ -6 \in Int /\ 36 - 52 - 8 = 4 * (-6)
          /\ 4 * (-6) >= -FieldSign /\ 4 * (-6) < FieldSign /\ 36 \in Word /\ 52 + 4 \in Word
      BY <1>3, FieldFacts
    <3>2. registers[PC] = 52 + 4
      BY <1>1, <1>5
    <3>3. /\ instruction.format = "branch" /\ instruction.condition = "NE"
          /\ instruction.l = FALSE
          /\ instruction.offset = ((36 - 52 - 8) \div 4) % FieldModulus
      BY <2>1 DEF If, Branch
    <3>4. /\ registers' = IF TestCondition("NE")
                           THEN [registers EXCEPT ![LR] = registers[LR], ![PC] = 36]
                           ELSE registers
          /\ Complete /\ UNCHANGED <<cpsr, memory, instruction, block>>
      <4>1. IInv /\ Evaluate /\ phase = "evaluate"
        BY <1>1
      <4>2. /\ registers' = IF TestCondition("NE")
                             THEN [registers EXCEPT ![LR] = IF FALSE THEN registers[PC] ELSE @,
                                                    ![PC] = 36]
                             ELSE registers
            /\ Complete /\ UNCHANGED <<cpsr, memory, instruction, block>>
        BY ONLY <3>1, <3>2, <3>3, <4>1, BranchStep, ZenonT(40)
      <4> QED
        BY ONLY <4>2
    <3> QED
      BY <2>2, <3>4
  <2>4. /\ Steady(m, message, text)' /\ WordAt(top - 4)' = 8
        /\ UNCHANGED <<ram, code, programSize>>
    BY <1>2, <2>3, HelloStays DEF memory
  <2>5. CASE k < Len(message)
    <3>1. /\ registers'[0] = text + k /\ registers'[1] = Uart
          /\ registers'[2] = Len(message) - k /\ registers'[PC] = 36
          /\ registers'[SP] = top - 8 /\ registers'[LR] = 28
      BY <1>1, <1>2, <2>1, <2>3, <2>5
    <3>2. HelloAt(m, message, text, top, 36, k)'
      BY <2>4, <2>5, <3>1 DEF HelloAt
    <3> QED
      BY <1>5, <2>3, <2>4, <3>1, <3>2, HelloCodes DEF HelloGoesTo
  <2>6. CASE ~(k < Len(message))
    <3>1. k = Len(message)
      BY <1>3, <2>6
    <3>2. registers'[PC] = 56 /\ registers'[SP] = top - 8 /\ registers'[LR] = 28
      BY <1>1, <1>2, <1>5, <2>3, <2>6
    <3>3. HelloAt(m, message, text, top, 56, k)'
      BY <2>4, <3>1, <3>2 DEF HelloAt
    <3> QED
      BY <1>5, <2>3, <2>4, <3>2, <3>3, HelloCodes DEF HelloGoesTo
  <2> QED
    BY <2>5, <2>6
<1>6. CASE a = 56
  <2>1. instruction = Bx(LR) /\ k = Len(message)
    BY <1>1, <1>6, HelloCodes DEF HelloAt
  <2>2. /\ registers' = [registers EXCEPT ![PC] = registers[LR]]
        /\ Complete /\ UNCHANGED <<cpsr, memory, instruction, block>>
    <3>1. /\ instruction.format = "branch_and_exchange" /\ instruction.condition = "AL"
          /\ instruction.rn = LR
      BY <2>1 DEF Bx
    <3>2. TestCondition("AL")
      BY DEF TestCondition
    <3> QED
      BY <1>1, <3>1, <3>2, ExchangeStep
  <2>3. registers'[PC] = 28 /\ registers'[SP] = top - 8
    BY <1>1, <1>2, <2>2
  <2>4. /\ Steady(m, message, text)' /\ WordAt(top - 4)' = 8
        /\ UNCHANGED <<ram, code, programSize>>
    BY <1>2, <2>2, HelloStays DEF memory
  <2>5. HelloAt(m, message, text, top, 28, k)'
    BY <2>1, <2>3, <2>4 DEF HelloAt
  <2>6. HelloGoesTo(m, message, text, top, 28, k)
    BY <2>2, <2>3, <2>4, <2>5, HelloCodes DEF HelloGoesTo
  <2> QED
    BY <1>6, <2>6
<1> QED
  BY <1>4, <1>5, <1>6

\* The return address goes onto the stack, below it the message stays.
LEMMA HelloPush ==
  ASSUME NEW m, NEW message, NEW text, NEW top, HelloContext(m, message, text, top),
         BlockInv, Going, Evaluate, phase = "transfer", code = HelloCode(Len(message)),
         NEW k \in 0 .. Len(message), HelloAt(m, message, text, top, 12, k),
         registers[PC] = 16, Pushing({4, LR}, top)
  PROVE  \/ phase' \in Lost
         \/ /\ HelloAt(m, message, text, top, 12, k)' /\ Pushing({4, LR}, top)'
            /\ UNCHANGED <<registers, code, programSize, instruction, run>>
         \/ HelloGoesTo(m, message, text, top, 16, k)
<1> DEFINE t == Push({4, LR})
<1>0. HelloFits(message, text, top)
  BY DEF HelloContext
<1>1. k = 0 /\ Steady(m, message, text) /\ registers[SP] = top /\ registers[LR] = 8
  BY DEF HelloAt
<1>2. /\ Len(message) \in Nat /\ text \in Nat /\ text >= 72 /\ top \in Nat /\ top \in Word
      /\ text + Len(message) <= top - 8
      /\ Bytes(60, text + Len(message) - 60) \subseteq Ram
      /\ WordBits = 4 * ByteBits /\ Modulus >= 64
  BY <1>0, HelloNumbers
<1>3. top >= 8
  BY <1>2
<1>4. /\ {4, LR} \in SUBSET (Register \ {SP, PC}) /\ 4 \in Register /\ LR \in Register
      /\ SP \in Register /\ PC \in Register /\ 4 < LR /\ PC # SP /\ LR # SP
      /\ registers \in [Register -> Word]
  BY Parts DEF Going, Machine, Register, LR, SP, PC
<1>5. /\ SlotOf(t, top, 4) = top - 8 /\ SlotOf(t, top, LR) = top - 4
      /\ BaseAfter(t, top) = top - 8 /\ t.registerList = {4, LR}
  <2>1. t.registerList = {4, LR}
    BY StackFields
  <2>2. /\ SlotOf(t, top, 4) = top - 8 /\ SlotOf(t, top, LR) = top - 4
        /\ BaseAfter(t, top) = top - 8
    BY <1>2, <1>3, <1>4, StackSlots
  <2> QED
    BY <2>1, <2>2
<1>6. t = Push({4, LR})
  OBVIOUS
<1> HIDE DEF t
<1>7. /\ UNCHANGED <<cpsr, code, programSize, instruction>>
      /\ \/ phase' \in Lost
         \/ /\ Pushing({4, LR}, top)' /\ UNCHANGED <<registers, run>>
            /\ \A b \in Ram :
                 (\A r \in {4, LR} : b \notin Bytes(SlotOf(t, top, r), 4)) => ram'[b] = ram[b]
         \/ /\ registers' = [registers EXCEPT ![SP] = BaseAfter(t, top)]
            /\ ram' = ram /\ Complete
            /\ \A r \in {4, LR} : /\ Bytes(SlotOf(t, top, r), 4) \subseteq Ram
                                  /\ WordAt(SlotOf(t, top, r)) = registers[r]
  <2> DEFINE list == {4, LR}
  <2>1. list \in SUBSET (Register \ {SP, PC}) /\ Pushing(list, top) /\ t = Push(list)
    BY <1>4, <1>6
  <2> HIDE DEF list
  <2>2. /\ UNCHANGED <<cpsr, code, programSize, instruction>>
        /\ \/ phase' \in Lost
           \/ /\ Pushing(list, top)' /\ UNCHANGED <<registers, run>>
              /\ \A b \in Ram :
                   (\A r \in list : b \notin Bytes(SlotOf(t, top, r), 4)) => ram'[b] = ram[b]
           \/ /\ registers' = [registers EXCEPT ![SP] = BaseAfter(t, top)]
              /\ ram' = ram /\ Complete
              /\ \A r \in list : /\ Bytes(SlotOf(t, top, r), 4) \subseteq Ram
                                 /\ WordAt(SlotOf(t, top, r)) = registers[r]
    BY <1>2, <2>1, PushTurn
  <2> QED
    BY <2>2 DEF list
<1>8. ASSUME Pushing({4, LR}, top)', UNCHANGED <<registers, run>>,
             \A b \in Ram :
               (\A r \in {4, LR} : b \notin Bytes(SlotOf(t, top, r), 4)) => ram'[b] = ram[b]
      PROVE  HelloAt(m, message, text, top, 12, k)'
  <2>1. ASSUME NEW b \in Bytes(60, text + Len(message) - 60) PROVE ram'[b] = m[b]
    <3>1. b \in Ram /\ b < top - 8
      BY <1>2 DEF Bytes
    <3>2. b \notin Bytes(top - 8, 4) /\ b \notin Bytes(top - 4, 4)
      BY <1>2, <3>1 DEF Bytes
    <3>3. ram'[b] = ram[b]
      BY <1>5, <1>8, <3>1, <3>2
    <3> QED
      BY <1>1, <3>3 DEF Steady
  <2>2. Steady(m, message, text)'
    BY <2>1 DEF Steady
  <2> QED
    BY <1>1, <1>8, <2>2 DEF HelloAt
<1>9. ASSUME registers' = [registers EXCEPT ![SP] = BaseAfter(t, top)], ram' = ram, Complete,
             WordAt(SlotOf(t, top, LR)) = registers[LR]
      PROVE  HelloGoesTo(m, message, text, top, 16, k)
  <2>1. registers'[SP] = top - 8 /\ registers'[PC] = 16
    BY <1>4, <1>5, <1>9
  <2>2. Steady(m, message, text)' /\ WordAt(top - 4)' = 8
    BY <1>1, <1>5, <1>9, HelloStays
  <2>3. HelloAt(m, message, text, top, 16, k)'
    BY <1>1, <2>1, <2>2 DEF HelloAt
  <2> QED
    BY <1>7, <1>9, <2>1, <2>3, HelloCodes DEF HelloGoesTo
<1> QED
  BY <1>7, <1>8, <1>9

\* It comes back into pc.
LEMMA HelloPop ==
  ASSUME NEW m, NEW message, NEW text, NEW top, HelloContext(m, message, text, top),
         BlockInv, Going, Evaluate, phase = "transfer", code = HelloCode(Len(message)),
         NEW k \in 0 .. Len(message), HelloAt(m, message, text, top, 28, k),
         Popping({4, PC}, top - 8)
  PROVE  \/ phase' \in Lost
         \/ /\ HelloAt(m, message, text, top, 28, k)' /\ Popping({4, PC}, top - 8)'
            /\ UNCHANGED <<code, programSize, instruction, run>>
         \/ HelloGoesTo(m, message, text, top, 8, k)
<1> DEFINE base == top - 8
           t == Pop({4, PC})
<1>0. HelloFits(message, text, top)
  BY DEF HelloContext
<1>1. /\ k = Len(message) /\ Steady(m, message, text) /\ registers[SP] = top - 8
      /\ WordAt(top - 4) = 8
  BY DEF HelloAt
<1>2. /\ base \in Word /\ base + 4 \in Word /\ base + 8 \in Word
      /\ base + 8 = top /\ base + 4 = top - 4
  <2>1. top \in Word /\ top - 8 \in Word /\ top - 4 \in Word /\ top \in Nat
    BY <1>0, HelloNumbers
  <2>2. top - 8 + 8 = top /\ top - 8 + 4 = top - 4
    BY <2>1
  <2> QED
    BY <2>1, <2>2
<1>4. /\ {4, PC} \in SUBSET (Register \ {SP}) /\ 4 \in Register /\ PC \in Register
      /\ SP \in Register \ {4, PC} /\ 4 < PC /\ registers \in [Register -> Word]
  BY Parts DEF Going, Machine, Register, SP, PC
<1>5. /\ SlotOf(t, base, 4) = base /\ SlotOf(t, base, PC) = base + 4
      /\ BaseAfter(t, base) = base + 8
  <2>1. /\ 4 \in Register /\ PC \in Register /\ 4 < PC
        /\ base \in Word /\ base + 4 \in Word /\ base + 8 \in Word
    BY <1>2, <1>4
  <2> QED
    BY ONLY <2>1, StackSlots
<1>6. base = top - 8 /\ t = Pop({4, PC})
  OBVIOUS
<1> HIDE DEF base, t
<1>7. /\ UNCHANGED <<cpsr, code, programSize, instruction>>
      /\ \/ phase' \in Lost
         \/ /\ Popping({4, PC}, base)' /\ UNCHANGED <<ram, run>>
            /\ \A r \in Register \ {4, PC} : registers'[r] = registers[r]
         \/ /\ registers' = [registers EXCEPT ![SP] = BaseAfter(t, base)]
            /\ ram' = ram /\ Complete
            /\ \A r \in {4, PC} : registers[r] = WordAt(SlotOf(t, base, r))
  BY <1>2, <1>4, <1>6, PopTurn
<1>8. ASSUME UNCHANGED <<ram, run>>, \A r \in Register \ {4, PC} : registers'[r] = registers[r]
      PROVE  HelloAt(m, message, text, top, 28, k)'
  <2>1. Steady(m, message, text)' /\ WordAt(top - 4)' = 8
    BY <1>1, <1>8, HelloStays
  <2>2. registers'[SP] = top - 8
    BY <1>1, <1>4, <1>8
  <2> QED
    BY <1>1, <2>1, <2>2 DEF HelloAt
<1>9. ASSUME registers' = [registers EXCEPT ![SP] = BaseAfter(t, base)], ram' = ram, Complete,
             registers[PC] = WordAt(SlotOf(t, base, PC))
      PROVE  HelloGoesTo(m, message, text, top, 8, k)
  <2>1. registers'[SP] = top /\ registers'[PC] = 8
    BY <1>1, <1>2, <1>4, <1>5, <1>9
  <2>2. Steady(m, message, text)' /\ WordAt(top - 4)' = 8
    BY <1>1, <1>9, HelloStays
  <2>3. HelloAt(m, message, text, top, 8, k)'
    BY <1>1, <2>1, <2>2 DEF HelloAt
  <2> QED
    BY <1>7, <1>9, <2>1, <2>3, HelloCodes DEF HelloGoesTo
<1> QED
  BY <1>6, <1>7, <1>8, <1>9

\* The transfer of the frame begins.
LEMMA HelloBegins ==
  ASSUME NEW m, NEW message, NEW text, NEW top, HelloContext(m, message, text, top),
         BlockInv, Going, phase = "evaluate", Evaluate, code = HelloCode(Len(message)),
         NEW a \in {12, 28}, NEW k \in 0 .. Len(message), Placed(a),
         HelloAt(m, message, text, top, a, k), Printed(message, k), output' = output
  PROVE  HelloInv(m, message, text, top)'
<1>0. HelloFits(message, text, top)
  BY DEF HelloContext
<1>1. a \in DOMAIN code /\ instruction = code[a] /\ registers[PC] = a + 4
  BY <1>0, HelloFacts DEF Placed
<1>2. a = 12 => /\ instruction = Push({4, LR}) /\ registers[PC] = 16 /\ registers[SP] = top
  <2>1. code[12] = Push({4, LR})
    BY HelloCodes
  <2>2. a = 12 => registers[SP] = top
    BY DEF HelloAt
  <2> QED
    BY <1>1, <2>1, <2>2
<1>3. a = 28 => instruction = Pop({4, PC}) /\ registers[SP] = top - 8
  <2>1. code[28] = Pop({4, PC})
    BY HelloCodes
  <2>2. a = 28 => registers[SP] = top - 8
    BY DEF HelloAt
  <2> QED
    BY <1>1, <2>1, <2>2
<1>4. UNCHANGED <<registers, cpsr, memory, instruction, run>> /\ phase' = "transfer"
  <2>1. CASE a = 12
    BY <1>2, <2>1, StackBegins
  <2>2. CASE a = 28
    BY <1>3, <2>2, StackBegins
  <2> QED
    BY <2>1, <2>2
<1>5. a = 12 => Pushing({4, LR}, top)'
  BY <1>2, StackBegins
<1>6. a = 28 => Popping({4, PC}, top - 8)'
  BY <1>3, StackBegins
<1>7. Steady(m, message, text)' /\ WordAt(top - 4)' = WordAt(top - 4)
  BY <1>4, HelloStays DEF HelloAt, memory
<1>8. HelloAt(m, message, text, top, a, k)' /\ Placed(a)'
  BY <1>1, <1>4, <1>7 DEF HelloAt, Placed, memory
<1>9. result' # "Stop" /\ Told(message, a, k)'
  BY <1>4 DEF Going, run, Told, Waiting, Printed
<1> QED
  BY <1>1, <1>2, <1>4, <1>5, <1>6, <1>8, <1>9 DEF HelloInv, Going, memory

\* What is handed over and printed is what the console shows.
LEMMA OneMorePrinted ==
  ASSUME NEW message, message \in Seq(Byte), NEW k \in 1 .. Len(message),
         output \in Seq(Byte), Printed(message, k - 1), output' = Append(output, message[k])
  PROVE  Printed(message, k)' /\ Len(output) + 1 = k /\ Len(output) < Len(message)
<1>1. /\ k \in Nat /\ Len(message) \in Nat /\ Len(output) = k - 1 /\ message[k] \in Byte
      /\ \A j \in 1 .. k - 1 : output[j] = message[j]
  BY DEF Printed
<1>2. Len(output') = k /\ output'[k] = message[k] /\ \A j \in 1 .. k - 1 : output'[j] = output[j]
  BY <1>1
<1>3. ASSUME NEW j \in 1 .. k PROVE output'[j] = message[j]
  <2>1. CASE j = k
    BY <1>2, <2>1
  <2>2. CASE j # k
    BY <1>1, <1>2, <2>2
  <2> QED
    BY <2>1, <2>2
<1> QED
  BY <1>1, <1>2, <1>3 DEF Printed

\* What happens between the instructions of the guest.
LEMMA HelloBetween ==
  ASSUME NEW m, NEW message, NEW text, NEW top, HelloContext(m, message, text, top),
         Going, code = HelloCode(Len(message)), NEW a \in DOMAIN code, NEW k \in 0 .. Len(message),
         Placed(a), HelloAt(m, message, text, top, a, k), Told(message, a, k),
         Between, Placed(a)', Printing
  PROVE  /\ HelloAt(m, message, text, top, a, k)' /\ Told(message, a, k)'
         /\ \/ output' = output
            \/ /\ Len(output) < Len(message)
               /\ output' = Append(output, message[Len(output) + 1])
<1>1. /\ registers'[0] = registers[0] /\ registers'[1] = registers[1]
      /\ registers'[2] = registers[2] /\ registers'[3] = registers[3]
      /\ registers'[SP] = registers[SP] /\ registers'[LR] = registers[LR]
  BY DEF Between, Register, PC, SP, LR
<1>2. Steady(m, message, text)' /\ WordAt(top - 4)' = WordAt(top - 4) /\ UNCHANGED <<ram, cpsr>>
  BY HelloStays DEF Between, HelloAt
<1>3. HelloAt(m, message, text, top, a, k)'
  BY <1>1, <1>2 DEF HelloAt
<1>4. CASE Waiting /\ ~Waiting' /\ output' = Append(output, ram[Uart])
  <2>1. k > 0 /\ ram[Uart] = message[k] /\ Printed(message, k - 1)
    BY <1>4 DEF Told
  <2>2. message \in Seq(Byte) /\ k \in 1 .. Len(message) /\ output \in Seq(Byte)
    BY <2>1 DEF HelloContext, HelloFits, Going, HostInv
  <2>3. Printed(message, k)' /\ Len(output) + 1 = k /\ Len(output) < Len(message)
    BY <1>4, <2>1, <2>2, OneMorePrinted
  <2>4. Told(message, a, k)'
    BY <1>4, <2>3 DEF Told
  <2> QED
    BY <1>3, <1>4, <2>1, <2>3, <2>4
<1>5. CASE (Waiting <=> Waiting') /\ output' = output
  <2>1. Told(message, a, k)'
    BY <1>2, <1>5 DEF Told, Printed
  <2> QED
    BY <1>3, <1>5, <2>1
<1> QED
  BY <1>4, <1>5 DEF Printing

\* The invariant of the guest goes on.
LEMMA HelloNext ==
  ASSUME NEW m, NEW message, NEW text, NEW top, HelloContext(m, message, text, top),
         BlockInv, HostInv, host \in {"running", "switch", "done"},
         HelloInv(m, message, text, top), [HostNext]_hostVars
  PROVE  HelloInv(m, message, text, top)'
<1>0. IInv
  BY DEF BlockInv
<1>1. code' = code /\ programSize' = programSize /\ (phase \in Lost => phase' \in Lost)
  BY <1>0, HostLater
<1>2. CASE phase' \in Lost
  BY <1>1, <1>2 DEF HelloInv
<1>3. CASE phase' \notin Lost /\ result = "Stop"
  BY <1>0, <1>1, <1>3, StoppedStays DEF HelloInv, vars, run
<1>4. CASE phase' \notin Lost /\ result # "Stop"
  <2>1. Going /\ code = HelloCode(Len(message))
    BY <1>0, <1>1, <1>4 DEF Going, HelloInv
  <2>2. PICK a \in DOMAIN code, k \in 0 .. Len(message) :
          /\ Placed(a) /\ HelloAt(m, message, text, top, a, k) /\ Told(message, a, k)
          /\ phase = "transfer" => \/ a = 12 /\ registers[PC] = 16 /\ Pushing({4, LR}, top)
                                   \/ a = 28 /\ Popping({4, PC}, top - 8)
    BY <2>1 DEF HelloInv, Going
  <2>3. CASE Between /\ Placed(a)' /\ Printing
    <3>1. HelloAt(m, message, text, top, a, k)' /\ Told(message, a, k)'
      BY <2>1, <2>2, <2>3, HelloBetween
    <3>2. a \in (DOMAIN code)' /\ result' # "Stop"
      BY <1>1, <2>3 DEF Between
    <3>3. CASE phase' = "transfer"
      <4>1. UNCHANGED <<registers, ram, instruction, phase>> /\ UNCHANGED vars
        BY <2>3, <3>3 DEF Between, vars, memory, run
      <4>2. Pending' = Pending /\ OriginalBase' = OriginalBase
        BY <4>1 DEF vars, block, Pending, OriginalBase, Moved
      <4>3. /\ Pushing({4, LR}, top) => Pushing({4, LR}, top)'
            /\ Popping({4, PC}, top - 8) => Popping({4, PC}, top - 8)'
        BY <4>1, <4>2 DEF Pushing, Popping, WordAt
      <4> QED
        BY <1>1, <2>1, <2>2, <2>3, <3>1, <3>2, <4>1, <4>3 DEF HelloInv, Going
    <3>4. CASE phase' # "transfer"
      BY <1>1, <2>1, <2>3, <3>1, <3>2, <3>4 DEF HelloInv, Going
    <3> QED
      BY <3>3, <3>4
  <2>4. CASE Evaluate /\ phase = "evaluate" /\ host' = host /\ output' = output
    <3>0. Printed(message, k)
      BY <2>2, <2>4 DEF Told, Waiting
    <3>1. a \in {0, 4, 8, 12, 16, 20, 24, 28, 32, 36, 40, 44, 48, 52, 56}
      BY <2>1, <2>2, HelloCodes
    <3>2. CASE a \in {0, 4}
      BY <1>4, <2>1, <2>2, <2>4, <3>0, <3>2, HelloStart, HelloMovesOn
    <3>3. CASE a = 8
      <4>1. instruction = Swi(2)
        BY <2>1, <2>2, <2>4, <3>3, HelloCodes DEF Placed
      <4>2. phase' = "idle" /\ result' = "Stop"
        BY <2>4, <4>1, GuestStops
      <4>3. output = message
        <5>1. Len(output) = Len(message) /\ \A j \in 1 .. Len(message) : output[j] = message[j]
          BY <2>2, <3>0, <3>3 DEF HelloAt, Printed
        <5>2. output \in Seq(Byte) /\ message \in Seq(Byte)
          BY DEF HostInv, HelloContext, HelloFits
        <5> QED
          BY <5>1, <5>2
      <4> QED
        BY <1>1, <2>1, <2>4, <4>2, <4>3 DEF HelloInv, Going
    <3>4. CASE a \in {12, 28}
      BY <2>1, <2>2, <2>4, <3>0, <3>4, HelloBegins
    <3>5. CASE a \in {16, 20, 24, 32}
      BY <1>4, <2>1, <2>2, <2>4, <3>0, <3>5, HelloMain, HelloMovesOn
    <3>6. CASE a \in {36, 40}
      BY <1>4, <2>1, <2>2, <2>4, <3>0, <3>6, HelloCharacter, HelloMovesOn
    <3>7. CASE a = 44
      BY <2>1, <2>2, <2>4, <3>0, <3>7, HelloHandsOver
    <3>8. CASE a \in {48, 52, 56}
      BY <2>1, <2>2, <2>4, <3>0, <3>8, HelloCounts, HelloMovesOn
    <3> QED
      BY <3>1, <3>2, <3>3, <3>4, <3>5, <3>6, <3>7, <3>8
  <2>5. CASE Evaluate /\ phase = "transfer" /\ host' = host /\ output' = output
    <3>0. Printed(message, k)
      BY <2>2, <2>5 DEF Told, Waiting
    <3>1. CASE a = 12
      <4>0. registers[PC] = 16 /\ Pushing({4, LR}, top)
        BY <2>2, <2>5, <3>1
      <4>1. \/ /\ HelloAt(m, message, text, top, 12, k)' /\ Pushing({4, LR}, top)'
               /\ UNCHANGED <<registers, code, programSize, instruction, run>>
            \/ HelloGoesTo(m, message, text, top, 16, k)
        BY <1>4, <2>1, <2>2, <2>5, <3>1, <4>0, HelloPush
      <4>2. CASE /\ HelloAt(m, message, text, top, 12, k)' /\ Pushing({4, LR}, top)'
                 /\ UNCHANGED <<registers, code, programSize, instruction, run>>
        <5>1. Placed(12)' /\ registers'[PC] = 16 /\ result' # "Stop"
          BY <1>4, <2>2, <2>5, <3>1, <4>0, <4>2 DEF Placed, Pushing, run
        <5>2. Told(message, 12, k)'
          BY <2>5, <3>0, <4>2 DEF Told, Waiting, Printed, Pushing
        <5> QED
          BY <1>1, <2>1, <2>2, <3>1, <4>2, <5>1, <5>2 DEF HelloInv, Going
      <4> QED
        BY <2>1, <2>5, <3>0, <4>1, <4>2, HelloMovesOn
    <3>2. CASE a = 28
      <4>0. Popping({4, PC}, top - 8)
        BY <2>2, <2>5, <3>2
      <4>1. \/ /\ HelloAt(m, message, text, top, 28, k)' /\ Popping({4, PC}, top - 8)'
               /\ UNCHANGED <<code, programSize, instruction, run>>
            \/ HelloGoesTo(m, message, text, top, 8, k)
        BY <1>4, <2>1, <2>2, <2>5, <3>2, <4>0, HelloPop
      <4>2. CASE /\ HelloAt(m, message, text, top, 28, k)' /\ Popping({4, PC}, top - 8)'
                 /\ UNCHANGED <<code, programSize, instruction, run>>
        <5>1. Placed(28)' /\ result' # "Stop"
          BY <1>4, <2>2, <2>5, <3>2, <4>0, <4>2 DEF Placed, Popping, run
        <5>2. Told(message, 28, k)'
          BY <2>5, <3>0, <4>2 DEF Told, Waiting, Printed, Popping
        <5> QED
          BY <1>1, <2>1, <2>2, <3>2, <4>2, <5>1, <5>2 DEF HelloInv, Going
      <4> QED
        BY <2>1, <2>5, <3>0, <4>1, <4>2, HelloMovesOn
    <3> QED
      BY <2>2, <2>5, <3>1, <3>2
  <2> QED
    BY <2>1, <2>2, <2>3, <2>4, <2>5, GuestTurn
<1> QED
  BY <1>2, <1>3, <1>4

\* The channel of any message.
Hears(message) == INSTANCE Channel WITH Message <- message, stopped <- host = "done"

\* A step of the host prints the next character, or stops after the last one,
\* or leaves the console alone.
LEMMA HelloSpeaks ==
  ASSUME NEW m, NEW message, NEW text, NEW top, HelloContext(m, message, text, top),
         BlockInv, HostInv, host \in {"running", "switch", "done"},
         HelloInv(m, message, text, top), [HostNext]_hostVars
  PROVE  [Hears(message)!ChannelNext]_(Hears(message)!channelVars)
<1>0. IInv
  BY DEF BlockInv
<1>1. CASE phase \in Lost
  <2>1. phase # "idle" /\ phase \notin Inside /\ host \in {"running", "switch"}
    BY <1>1 DEF Lost, Inside, HostInv
  <2>2. ~Guest
    BY <2>1, TurnControls DEF Guest, Controls
  <2>3. output' = output /\ host' = host
    BY <2>1, <2>2 DEF HostNext, HostStep, Construct, LoadProgram, Run, BeginRun, HandleResult,
           Done, hostVars
  <2> QED
    BY <2>3 DEF Hears!channelVars
<1>2. CASE phase \notin Lost /\ result = "Stop"
  <2>1. output = message
    BY <1>2 DEF HelloInv
  <2>2. output' = output /\ (host = "done" => host' = "done")
    BY <1>0, <1>2, StoppedStays
  <2>3. CASE host = "done" \/ host' # "done"
    BY <2>2, <2>3 DEF Hears!channelVars
  <2>4. CASE host # "done" /\ host' = "done"
    BY <2>1, <2>2, <2>4 DEF Hears!ChannelNext, Hears!StopAfterMessage
  <2> QED
    BY <2>3, <2>4
<1>3. CASE phase \notin Lost /\ result # "Stop"
  <2>1. Going /\ code = HelloCode(Len(message))
    BY <1>0, <1>3 DEF Going, HelloInv
  <2>2. PICK a \in DOMAIN code, k \in 0 .. Len(message) :
          Placed(a) /\ HelloAt(m, message, text, top, a, k) /\ Told(message, a, k)
    BY <1>3 DEF HelloInv
  <2>3. host # "done" /\ host' # "done"
    BY <2>1, <2>2, GuestTurn
  <2>4. \/ output' = output
        \/ Len(output) < Len(message) /\ output' = Append(output, message[Len(output) + 1])
    <3>1. CASE Between /\ Placed(a)' /\ Printing
      BY <2>1, <2>2, <3>1, HelloBetween
    <3> QED
      BY <2>1, <2>2, <3>1, GuestTurn
  <2> QED
    BY <2>3, <2>4 DEF Hears!ChannelNext, Hears!Deliver, Hears!channelVars
<1> QED
  BY <1>1, <1>2, <1>3

\* Every program is the one that writes this message.
HelloOnly(message, text, top) == \A image \in Images : image = HelloFile(message, text, top)

\* The invariant: the console is empty until the program is loaded.
HelloGuest(message, text, top) ==
  IF host \in {"running", "switch", "done"}
  THEN /\ HelloContext(Fresh(HelloData(message, text, top)), message, text, top)
       /\ HelloInv(Fresh(HelloData(message, text, top)), message, text, top)
  ELSE output = <<>>

\* What load() puts behind the code.
LEMMA HelloMemory ==
  ASSUME NEW message, NEW text, NEW top, HelloFits(message, text, top),
         Fresh(HelloData(message, text, top)) \in [Ram -> Byte]
  PROVE  HelloContext(Fresh(HelloData(message, text, top)), message, text, top)
<1> DEFINE words == <<top, text, Uart>>
           rest == [b \in Bytes(text, Len(message)) |-> message[b - text + 1]]
           data == Joined(Literal(60, words), rest)
<1>1. data = HelloData(message, text, top)
  BY DEF HelloData
<1>2. /\ Len(words) = 3 /\ Len(words) \in Nat
      /\ 1 \in 1 .. Len(words) /\ 2 \in 1 .. Len(words) /\ 3 \in 1 .. Len(words)
      /\ words[1] = top /\ words[2] = text /\ words[3] = Uart
  OBVIOUS
<1>3. 0 \in 0 .. Len(message)
  BY DEF HelloFits, Byte
<1>4. /\ top \in Word /\ text \in Word /\ Uart \in Word
      /\ text \in Nat /\ text >= 72 /\ Len(message) \in Nat
      /\ Bytes(60, text + Len(message) - 60) \subseteq Ram /\ WordBits = 4 * ByteBits
  <2>1. text + 0 = text
    BY DEF HelloFits
  <2>2. /\ top \in Word /\ text + 0 \in Word /\ Uart \in Word
        /\ text \in Nat /\ text >= 72 /\ Len(message) \in Nat
        /\ Bytes(60, text + Len(message) - 60) \subseteq Ram /\ WordBits = 4 * ByteBits
    BY <1>3, HelloNumbers, Zenon
  <2> QED
    BY <2>1, <2>2
<1>5. DOMAIN rest = Bytes(text, Len(message)) /\ DOMAIN Literal(60, words) = Bytes(60, 12)
  <2>1. DOMAIN Literal(60, words) = Bytes(60, 4 * Len(words))
    BY DEF Literal
  <2> QED
    BY <1>2, <2>1
<1>6. \A b \in Bytes(text, Len(message)) : rest[b] = message[b - text + 1]
  OBVIOUS
<1>7. \A b \in Bytes(text, Len(message)) : b \notin Bytes(60, 12) /\ b \in Ram
  BY <1>4 DEF Bytes
<1> HIDE DEF words, rest
<1>8. \A b \in Bytes(text, Len(message)) : Fresh(data)[b] = message[b - text + 1]
  <2> SUFFICES ASSUME NEW b \in Bytes(text, Len(message))
               PROVE  Fresh(data)[b] = message[b - text + 1]
    OBVIOUS
  <2>1. b \in DOMAIN data /\ data[b] = rest[b]
    BY <1>5, <1>7 DEF Joined
  <2> HIDE DEF data
  <2> QED
    BY <1>6, <1>7, <2>1 DEF Fresh
<1>9. \A j \in 0 .. Len(message) - 1 : Fresh(data)[text + j] = message[j + 1]
  <2> SUFFICES ASSUME NEW j \in 0 .. Len(message) - 1
               PROVE  Fresh(data)[text + j] = message[j + 1]
    OBVIOUS
  <2> HIDE DEF data
  <2>1. text + j \in Bytes(text, Len(message)) /\ text + j - text + 1 = j + 1
    BY <1>4 DEF Bytes
  <2> QED
    BY <1>4, <1>8, <2>1
<1>10. WordIn(Fresh(data), 60) = top /\ WordIn(Fresh(data), 64) = text /\ WordIn(Fresh(data), 68) = Uart
  <2>1. /\ Bytes(60 + 4 * (1 - 1), 4) \subseteq Ram /\ Bytes(60 + 4 * (2 - 1), 4) \subseteq Ram
        /\ Bytes(60 + 4 * (3 - 1), 4) \subseteq Ram
    <3>1. \A b \in 60 .. 71 : b \in Bytes(60, text + Len(message) - 60)
      BY <1>4 DEF Bytes
    <3>2. \A b \in 60 .. 71 : b \in Ram
      BY <1>4, <3>1
    <3> QED
      BY <3>2 DEF Bytes
  <2>2. Fresh(Joined(Literal(60, words), rest)) \in [Ram -> Byte]
    BY <1>1
  <2>3. ASSUME NEW j \in 1 .. Len(words), words[j] \in Word, Bytes(60 + 4 * (j - 1), 4) \subseteq Ram
        PROVE  WordIn(Fresh(Joined(Literal(60, words), rest)), 60 + 4 * (j - 1)) = words[j]
    <3>1. WordBits = 4 * ByteBits /\ 60 \in Nat
      BY <1>4
    <3> QED
      BY ONLY <3>1, <1>2, <2>2, <2>3, LiteralLoaded
  <2>4. /\ WordIn(Fresh(data), 60 + 4 * (1 - 1)) = words[1]
        /\ WordIn(Fresh(data), 60 + 4 * (2 - 1)) = words[2]
        /\ WordIn(Fresh(data), 60 + 4 * (3 - 1)) = words[3]
    BY <1>2, <1>4, <2>1, <2>3
  <2> QED
    BY <1>2, <2>4
<1> HIDE DEF data
<1> QED
  BY <1>1, <1>9, <1>10 DEF HelloContext

\* The invariant holds of the program just loaded.
LEMMA HelloLoaded ==
  ASSUME NEW message, NEW text, NEW top, NEW image \in Images,
         HelloFits(message, text, top), HelloOnly(message, text, top),
         code' = HelloCode(Len(message)), JustLoaded(image)', output' = <<>>
  PROVE  /\ HelloContext(Fresh(HelloData(message, text, top)), message, text, top)
         /\ HelloInv(Fresh(HelloData(message, text, top)), message, text, top)'
<1> DEFINE m == Fresh(HelloData(message, text, top))
<1>1. image.data = HelloData(message, text, top)
  <2>1. image = HelloFile(message, text, top)
    BY Zenon DEF HelloOnly
  <2>2. HelloFile(message, text, top).data = HelloData(message, text, top)
    BY DEF HelloFile, File
  <2> QED
    BY <2>1, <2>2
<1>2. m \in [Ram -> Byte] /\ ram' = m
  BY <1>1 DEF JustLoaded
<1>3. HelloContext(m, message, text, top)
  BY <1>2, HelloMemory
<1>4. 0 \in DOMAIN code' /\ 0 \in 0 .. Len(message)
  BY HelloCodes DEF HelloFits, Byte
<1> HIDE DEF m
<1>5. HelloAt(m, message, text, top, 0, 0)'
  BY <1>2, <1>4 DEF HelloAt, Steady
<1>6. Told(message, 0, 0)'
  BY DEF Told, Waiting, Printed, JustLoaded
<1>7. HelloInv(m, message, text, top)'
  BY <1>4, <1>5, <1>6 DEF HelloInv, JustLoaded, Lost
<1> QED
  BY <1>3, <1>7 DEF m

\* Every step of the host keeps it.
LEMMA HelloGuestNext ==
  ASSUME NEW message, NEW text, NEW top, HelloFits(message, text, top),
         HelloOnly(message, text, top), MayFail = FALSE,
         BlockInv, HostInv, Cleared, HelloGuest(message, text, top), [HostNext]_hostVars
  PROVE  /\ HelloGuest(message, text, top)'
         /\ [Hears(message)!ChannelNext]_(Hears(message)!channelVars)
<1>0. IInv
  BY DEF BlockInv
<1> DEFINE m == Fresh(HelloData(message, text, top))
<1>1. CASE host \in {"running", "switch", "done"}
  <2>1. HelloContext(m, message, text, top) /\ HelloInv(m, message, text, top)
    BY <1>1 DEF HelloGuest
  <2>2. host' \in {"running", "switch", "done"}
    BY <1>0, <1>1, HostLater
  <2> HIDE DEF m
  <2>3. HelloInv(m, message, text, top)' /\ [Hears(message)!ChannelNext]_(Hears(message)!channelVars)
    BY <1>1, <2>1, HelloNext, HelloSpeaks
  <2> QED
    BY <2>1, <2>2, <2>3 DEF HelloGuest, HelloContext, m
<1>2. CASE host \notin {"running", "switch", "done"} /\ host' \notin {"running", "switch", "done"}
  <2>1. output = <<>> /\ output' = output
    BY <1>2, TurnControls
       DEF HelloGuest, HostInv, HostNext, HostStep, Construct, LoadProgram, Run, Guest,
           HandleResult, Done, hostVars
  <2> QED
    BY <1>2, <2>1 DEF HelloGuest, Hears!channelVars
<1>3. CASE host \notin {"running", "switch", "done"} /\ host' \in {"running", "switch", "done"}
  <2>1. LoadProgram
    <3>1. host \in {"init", "load"} /\ phase \in {"constructed", "initialised"}
      BY <1>3 DEF HostInv
    <3>2. ~Guest
      BY <3>1, TurnControls DEF Guest, Controls, Inside
    <3> QED
      BY <1>3, <3>1, <3>2 DEF HostNext, HostStep, Construct, Run, HandleResult, Done, hostVars
  <2>2. code' = HelloCode(Len(message))
    <3>1. PICK image \in Images : LoadImage(image)
      BY <2>1 DEF LoadProgram, load, LoadFailure
    <3>2. image = HelloFile(message, text, top)
      BY Zenon DEF HelloOnly
    <3>3. HelloFile(message, text, top).code = HelloCode(Len(message))
      BY DEF HelloFile, File
    <3> QED
      BY <3>1, <3>2, <3>3 DEF LoadImage
  <2>3. 0 \in DOMAIN code'
    BY <2>2, HelloCodes
  <2>4. PICK image \in Images : JustLoaded(image)'
    BY <1>0, <1>3, <2>3, LoadsProgram
  <2>5. output = <<>> /\ output' = output /\ host # "done" /\ host' = "running"
    BY <1>3, <2>1, <2>4 DEF HelloGuest, LoadProgram, JustLoaded
  <2>6. HelloContext(m, message, text, top) /\ HelloInv(m, message, text, top)'
    BY <2>2, <2>4, <2>5, HelloLoaded
  <2> QED
    BY <2>5, <2>6 DEF HelloGuest, HelloContext, Hears!channelVars
<1> QED
  BY <1>1, <1>2, <1>3

\* A guest that writes a message to the console and the host of README.md are a
\* channel: whatever the message, where it is, and the budgets of run(), the
\* host prints the characters in order, none lost and none twice, and stops
\* only after the last one.
THEOREM HelloGuestDelivers ==
  ASSUME NEW message, NEW text, NEW top, HelloFits(message, text, top),
         HelloOnly(message, text, top), MayFail = FALSE
  PROVE  HostSpec => Hears(message)!ChannelSafety
<1> DEFINE Inv == BlockInv /\ HostInv /\ Cleared /\ HelloGuest(message, text, top)
<1>1. HostInit => Inv /\ Hears(message)!ChannelInit
  <2>1. Init => LoopInv
    BY DEF Init, LoopInv
  <2> QED
    BY <2>1, HostInvInit, InitInv
       DEF HostInit, Cleared, HelloGuest, BlockInv, Hears!ChannelInit
<1>2. Inv /\ [HostNext]_hostVars =>
        Inv' /\ [Hears(message)!ChannelNext]_(Hears(message)!channelVars)
  <2> SUFFICES ASSUME Inv, [HostNext]_hostVars
               PROVE  Inv' /\ [Hears(message)!ChannelNext]_(Hears(message)!channelVars)
    OBVIOUS
  <2>1. IInv
    BY DEF BlockInv
  <2> QED
    BY <2>1, HostStepIsNext, BlockInvNext, HostInvNext, ClearedNext, HelloGuestNext
<1> QED
  BY <1>1, <1>2, PTL DEF HostSpec, Hears!ChannelSafety

\* The hello program of test_compile in particular: host and guest implement
\* the channel, whatever the size of the machine and the budgets of run().
THEOREM HelloImplementsChannel ==
  ASSUME HelloFits(Message, Text, HelloTop), Images = HelloImages, MayFail = FALSE
  PROVE  HostSpec => DeliversMessage
<1>1. HelloOnly(Message, Text, HelloTop)
  BY DEF HelloOnly, HelloImages
<1>2. HostSpec => Hears(Message)!ChannelSafety
  BY <1>1, HelloGuestDelivers
<1>3. Hears(Message)!ChannelInit => Console!ChannelInit
  BY DEF Hears!ChannelInit, Console!ChannelInit
<1>4. [Hears(Message)!ChannelNext]_(Hears(Message)!channelVars) =>
        [Console!ChannelNext]_(Console!channelVars)
  BY DEF Hears!ChannelNext, Hears!channelVars, Console!ChannelNext, Console!channelVars,
         Hears!Deliver, Console!Deliver, Hears!StopAfterMessage, Console!StopAfterMessage
<1> QED
  BY <1>2, <1>3, <1>4, PTL DEF Hears!ChannelSafety, Console!ChannelSafety, DeliversMessage
=============================================================================
