------------------------- MODULE SharedLocalsProofs -------------------------
(***************************************************************************)
(* A machine that shares the static locals of blockDataTransferEval() does *)
(* what it would do alone: it reads them in the loop of a transfer only,   *)
(* and sets both before it enters the loop.                                *)
(***************************************************************************)
EXTENDS SharedLocals, VmProofs

-----------------------------------------------------------------------------
(* What has nothing to do with the statics is the same for both.           *)

\* Words.
LEMMA SameWords ==
  /\ Alone!Modulus = Modulus /\ Alone!SignBit = SignBit
  /\ \A x : Alone!Wrap(x) = Wrap(x)
  /\ \A x : Alone!NEG(x) <=> NEG(x)
  /\ \A x : Alone!FlagOf(x) = FlagOf(x)
  /\ \A x : Alone!BitNot(x) = BitNot(x)
  /\ \A x, n : Alone!Bit(x, n) = Bit(x, n)
  /\ \A x, n : Alone!ShiftLeft(x, n) = ShiftLeft(x, n)
  /\ \A x, n : Alone!ShiftRight(x, n) = ShiftRight(x, n)
  /\ \A x, n : Alone!SignExtended(x, n) = SignExtended(x, n)
BY DEF Alone!Modulus, Modulus, Alone!SignBit, SignBit, Alone!Wrap, Wrap, Alone!NEG, NEG,
       Alone!FlagOf, FlagOf, Alone!BitNot, BitNot, Alone!Bit, Bit,
       Alone!ShiftLeft, ShiftLeft, Alone!ShiftRight, ShiftRight,
       Alone!SignExtended, SignExtended

\* The bytes of a word, and memories.
LEMMA SameBytes ==
  /\ Alone!ByteBits = ByteBits /\ Alone!HalfBits = HalfBits /\ Alone!HalfModulus = HalfModulus
  /\ \A a, n : Alone!Bytes(a, n) = Bytes(a, n)
  /\ \A bytes, a : Alone!WordIn(bytes, a) = WordIn(bytes, a)
  /\ \A bytes, a, n, w : Alone!AfterStore(bytes, a, n, w) = AfterStore(bytes, a, n, w)
<1>1. /\ Alone!ByteBits = ByteBits /\ Alone!ByteModulus = ByteModulus
      /\ Alone!HalfBits = HalfBits /\ Alone!HalfModulus = HalfModulus
  BY DEF Alone!ByteBits, ByteBits, Alone!ByteModulus, ByteModulus, Alone!HalfBits, HalfBits,
         Alone!HalfModulus, HalfModulus
<1>2. \A a, n : Alone!Bytes(a, n) = Bytes(a, n)
  BY DEF Alone!Bytes, Bytes
<1>3. \A w, k : Alone!ByteOf(w, k) = ByteOf(w, k)
  BY <1>1, SameWords DEF Alone!ByteOf, ByteOf
<1>4. \A bytes, a : Alone!WordIn(bytes, a) = WordIn(bytes, a)
  BY <1>1, SameWords DEF Alone!WordIn, WordIn
<1>5. ASSUME NEW bytes, NEW a, NEW n, NEW w
      PROVE  Alone!AfterStore(bytes, a, n, w) = AfterStore(bytes, a, n, w)
  BY <1>2, <1>3 DEF Alone!AfterStore, AfterStore
<1> QED
  BY <1>1, <1>2, <1>4, <1>5

\* The conditions of the instruction set and the way control is passed on.
LEMMA SameControl ==
  /\ \A condition : Alone!TestCondition(condition) <=> TestCondition(condition)
  /\ \A format : Alone!Executing(format) <=> Executing(format)
  /\ Alone!TurnsLeft <=> TurnsLeft
  /\ Alone!Complete <=> Complete
  /\ Alone!Abort <=> Abort
  /\ \A interrupt : Alone!Return(interrupt) <=> Return(interrupt)
  /\ \A bytes : Alone!Escape(bytes) <=> Escape(bytes)
<1>1. \A condition : Alone!TestCondition(condition) <=> TestCondition(condition)
  BY DEF Alone!TestCondition, TestCondition
<1>2. \A format : Alone!Executing(format) <=> Executing(format)
  BY <1>1 DEF Alone!Executing, Executing
<1>3. Alone!TurnsLeft <=> TurnsLeft
  BY DEF Alone!TurnsLeft, TurnsLeft
<1>4. (Alone!Complete <=> Complete) /\ (Alone!Abort <=> Abort)
  BY DEF Alone!Complete, Complete, Alone!Abort, Abort
<1>5. \A interrupt : Alone!Return(interrupt) <=> Return(interrupt)
  BY DEF Alone!Return, Return
<1>6. \A bytes : Alone!Escape(bytes) <=> Escape(bytes)
  BY DEF Alone!Escape, Escape, Alone!Ram, Ram
<1> QED
  BY <1>1, <1>2, <1>3, <1>4, <1>5, <1>6

\* Guest memory.
LEMMA SameMemory ==
  /\ Alone!Ram = Ram
  /\ \A bytes : Alone!Data(bytes) <=> Data(bytes)
  /\ \A a : Alone!WordAt(a) = WordAt(a)
  /\ \A a, n, w : Alone!StoreBytes(a, n, w) = StoreBytes(a, n, w)
<1>1. Alone!Code = Code
  BY SameBytes DEF Alone!Code, Code
<1>2. Alone!Ram = Ram
  BY DEF Alone!Ram, Ram
<1>3. \A bytes : Alone!Data(bytes) <=> Data(bytes)
  BY <1>1, <1>2 DEF Alone!Data, Data
<1> QED
  BY <1>2, <1>3, SameBytes DEF Alone!WordAt, WordAt, Alone!StoreBytes, StoreBytes

\* The shifter and the ALU.
LEMMA SameAlu ==
  /\ \A operand2 : Alone!Operand2(operand2) = Operand2(operand2)
  /\ \A operand2 : Alone!shift(operand2) = shift(operand2)
  /\ \A rn : Alone!Operand1(rn) = Operand1(rn)
  /\ \A opcode, rn, op1, op2 :
       Alone!Result(opcode, rn, op1, op2) = Result(opcode, rn, op1, op2)
  /\ \A opcode, op1, op2, value, carry :
       /\ Alone!CarryFlag(opcode, op1, op2, value, carry)
            = CarryFlag(opcode, op1, op2, value, carry)
       /\ Alone!OverflowFlag(opcode, op1, op2, value)
            = OverflowFlag(opcode, op1, op2, value)
<1>1. \A value, carry : Alone!Shifted(value, carry) = Shifted(value, carry)
  BY SameWords DEF Alone!Shifted, Shifted
<1>2. \A a, n : Alone!RotatedRight(a, n) = RotatedRight(a, n)
  BY SameWords DEF Alone!RotatedRight, RotatedRight
<1>3. \A a, n : Alone!LogicalLeft(a, n) = LogicalLeft(a, n)
  BY <1>1, SameWords DEF Alone!LogicalLeft, LogicalLeft
<1>4. \A a, n : Alone!LogicalRight(a, n) = LogicalRight(a, n)
  BY <1>1, SameWords DEF Alone!LogicalRight, LogicalRight
<1>5. \A a, n : Alone!ArithmeticRight(a, n) = ArithmeticRight(a, n)
  BY <1>1, SameWords
     DEF Alone!ArithmeticRight, ArithmeticRight, Alone!SignFilled, SignFilled
<1>6. \A a, n, byRegister : Alone!RotateRight(a, n, byRegister) = RotateRight(a, n, byRegister)
  BY <1>1, <1>2, SameWords DEF Alone!RotateRight, RotateRight
<1>7. \A operand2 : Alone!shift(operand2) = shift(operand2)
  BY <1>3, <1>4, <1>5, <1>6, SameWords DEF Alone!shift, shift, Alone!PC, PC
<1>8. \A operand2 : Alone!rotate(operand2) = rotate(operand2)
  BY <1>1, <1>2, SameWords DEF Alone!rotate, rotate
<1>9. \A operand2 : Alone!Operand2(operand2) = Operand2(operand2)
  BY <1>7, <1>8 DEF Alone!Operand2, Operand2
<1>10. \A rn : Alone!Operand1(rn) = Operand1(rn)
  BY SameWords DEF Alone!Operand1, Operand1, Alone!PC, PC
<1>11. \A opcode, rn, op1, op2 :
         Alone!Result(opcode, rn, op1, op2) = Result(opcode, rn, op1, op2)
  BY SameWords DEF Alone!Result, Result
<1>12. \A op1, op2, value :
         /\ Alone!isCarryFromALUAdd(op1, op2, value) <=> isCarryFromALUAdd(op1, op2, value)
         /\ Alone!isCarryFromALUSub(op1, op2, value) <=> isCarryFromALUSub(op1, op2, value)
         /\ Alone!isOverflowAdd(op1, op2, value) <=> isOverflowAdd(op1, op2, value)
         /\ Alone!isOverflowSub(op1, op2, value) <=> isOverflowSub(op1, op2, value)
  BY SameWords
     DEF Alone!isCarryFromALUAdd, isCarryFromALUAdd, Alone!isCarryFromALUSub,
         isCarryFromALUSub, Alone!isOverflowAdd, isOverflowAdd, Alone!isOverflowSub,
         isOverflowSub, Alone!POS, POS
<1>13. \A opcode, op1, op2, value, carry :
         /\ Alone!CarryFlag(opcode, op1, op2, value, carry)
              = CarryFlag(opcode, op1, op2, value, carry)
         /\ Alone!OverflowFlag(opcode, op1, op2, value)
              = OverflowFlag(opcode, op1, op2, value)
  BY <1>12
     DEF Alone!CarryFlag, CarryFlag, Alone!OverflowFlag, OverflowFlag, Alone!FlagOf, FlagOf,
         Alone!Logical, Logical, Alone!Additions, Additions, Alone!Reversed, Reversed,
         Alone!Forward, Forward
<1> QED
  BY <1>7, <1>9, <1>10, <1>11, <1>13

-----------------------------------------------------------------------------
(* The handlers that leave the statics alone.                              *)

\* dataProcessingEval().
LEMMA DataProcessingAlone ==
  ASSUME dataProcessingEval, UNCHANGED <<iOwn, offsetOwn>>
  PROVE  Alone!dataProcessingEval
<1> DEFINE Outcome(shifted) ==
             LET opcode == instruction.opcode
                 op1 == Operand1(instruction.rn)
                 op2 == shifted.value
                 value == Result(opcode, instruction.rn, op1, op2)
             IN  /\ registers' = IF opcode \in Tests THEN registers
                                 ELSE [registers EXCEPT ![instruction.rd] = value]
                 /\ cpsr' = IF ~instruction.s THEN cpsr
                            ELSE [n |-> FlagOf(NEG(value)),
                                  z |-> FlagOf(value = 0),
                                  c |-> CarryFlag(opcode, op1, op2, value, shifted.carry),
                                  v |-> OverflowFlag(opcode, op1, op2, value)]
           AloneOutcome(shifted) ==
             LET opcode == instruction.opcode
                 op1 == Alone!Operand1(instruction.rn)
                 op2 == shifted.value
                 value == Alone!Result(opcode, instruction.rn, op1, op2)
             IN  /\ registers' = IF opcode \in Alone!Tests THEN registers
                                 ELSE [registers EXCEPT ![instruction.rd] = value]
                 /\ cpsr' = IF ~instruction.s THEN cpsr
                            ELSE [n |-> Alone!FlagOf(Alone!NEG(value)),
                                  z |-> Alone!FlagOf(value = 0),
                                  c |-> Alone!CarryFlag(opcode, op1, op2, value, shifted.carry),
                                  v |-> Alone!OverflowFlag(opcode, op1, op2, value)]
<1>1. \E shifted \in Operand2(instruction.operand2) : Outcome(shifted)
  BY DEF dataProcessingEval
<1>2. Alone!Tests = Tests
  BY DEF Alone!Tests, Tests
<1>3. \A x : Alone!FlagOf(Alone!NEG(x)) = FlagOf(NEG(x))
  BY DEF Alone!FlagOf, FlagOf, Alone!NEG, NEG, Alone!SignBit, SignBit
<1>4. ASSUME NEW shifted, Outcome(shifted)
      PROVE  AloneOutcome(shifted)
  BY <1>2, <1>3, <1>4, SameAlu, SameWords
<1>5. \E shifted \in Alone!Operand2(instruction.operand2) : AloneOutcome(shifted)
  <2> HIDE DEF Outcome, AloneOutcome
  <2> QED
    BY <1>1, <1>4, SameAlu
<1> QED
  BY <1>5, SameControl
     DEF dataProcessingEval, Alone!dataProcessingEval,
         memory, Alone!memory, block, Alone!block

\* singleDataTranferEval().
LEMMA SingleTransferAlone ==
  ASSUME singleDataTranferEval, UNCHANGED <<iOwn, offsetOwn>>
  PROVE  Alone!singleDataTranferEval
<1>1. \A t : Alone!Offsets(t) = Offsets(t) /\ Alone!Base(t) = Base(t) /\ Alone!Stored(t) = Stored(t)
  BY SameAlu, SameWords
     DEF Offsets, Alone!Offsets, Base, Alone!Base, Stored, Alone!Stored, PC, Alone!PC
<1>2. \A t, distance : /\ Alone!Indexed(t, distance) = Indexed(t, distance)
                       /\ Alone!Address(t, distance) = Address(t, distance)
  BY <1>1 DEF Indexed, Alone!Indexed, Address, Alone!Address
<1>3. \A t, distance : /\ Alone!Touched(t, distance) = Touched(t, distance)
                       /\ Alone!Overreads(t, distance) <=> Overreads(t, distance)
  BY <1>2, SameBytes, SameMemory DEF Touched, Alone!Touched, Overreads, Alone!Overreads
<1>4. \A t, distance, file :
         Alone!WriteBack(t, distance, file) = WriteBack(t, distance, file)
  BY <1>2, SameWords DEF WriteBack, Alone!WriteBack
<1>5. \A t, distance : /\ Alone!Load(t, distance) <=> Load(t, distance)
                       /\ Alone!Store(t, distance) <=> Store(t, distance)
  BY <1>1, <1>2, <1>4, SameMemory DEF Load, Alone!Load, Store, Alone!Store
<1> QED
  BY <1>1, <1>2, <1>3, <1>5, SameControl, SameMemory, SameBytes
     DEF singleDataTranferEval, Alone!singleDataTranferEval, block, Alone!block

\* The branches and the software interrupt.
LEMMA BranchAlone ==
  ASSUME branchEval \/ branchAndExchangeEval \/ softwareInterruptEval,
         UNCHANGED <<iOwn, offsetOwn>>
  PROVE  Alone!branchEval \/ Alone!branchAndExchangeEval \/ Alone!softwareInterruptEval
<1>1. \A x : Alone!getSigned24(x) = getSigned24(x)
  BY SameWords DEF getSigned24, Alone!getSigned24
<1>2. \A comment : Alone!Interrupt(comment) = Interrupt(comment)
  BY DEF Interrupt, Alone!Interrupt
<1> QED
  BY <1>1, <1>2, SameControl, SameWords
     DEF branchEval, Alone!branchEval, branchAndExchangeEval, Alone!branchAndExchangeEval,
         softwareInterruptEval, Alone!softwareInterruptEval,
         LR, Alone!LR, PC, Alone!PC, memory, Alone!memory, block, Alone!block

\* The multiplications.
LEMMA MultiplyAlone ==
  ASSUME multiplyEval \/ multiplyLongEval, UNCHANGED <<iOwn, offsetOwn>>
  PROVE  Alone!multiplyEval \/ Alone!multiplyLongEval
<1>1. \A t : Alone!MultiplyResult(t) = MultiplyResult(t)
  BY SameWords DEF MultiplyResult, Alone!MultiplyResult
<1>2. \A t : Alone!LongProduct(t) = LongProduct(t)
  BY SameWords
     DEF LongProduct, Alone!LongProduct, Factor, Alone!Factor,
         signedCastTo64, Alone!signedCastTo64
<1>3. \A t : Alone!LongResult(t) = LongResult(t)
  BY <1>2, SameWords
     DEF LongResult, Alone!LongResult, Accumulator, Alone!Accumulator,
         DoubleModulus, Alone!DoubleModulus
<1>4. \A t, file : Alone!LongFlags(t, file) = LongFlags(t, file)
  BY SameWords DEF LongFlags, Alone!LongFlags, PC, Alone!PC
<1> QED
  BY <1>1, <1>3, <1>4, SameControl, SameWords
     DEF multiplyEval, Alone!multiplyEval, multiplyLongEval, Alone!multiplyLongEval,
         PC, Alone!PC, memory, Alone!memory, block, Alone!block

\* The halfword transfers.
LEMMA HalfwordAlone ==
  ASSUME halfwordDataTransferImmediateOffEval \/ halfwordDataTransferRegisterOffEval,
         UNCHANGED <<iOwn, offsetOwn>>
  PROVE  \/ Alone!halfwordDataTransferImmediateOffEval
         \/ Alone!halfwordDataTransferRegisterOffEval
<1>1. \A a : Alone!HalfAt(a) = HalfAt(a)
  BY SameWords, SameBytes DEF HalfAt, Alone!HalfAt
<1>2. \A t, a : Alone!Loaded(t, a) = Loaded(t, a) /\ Alone!LoadedBytes(t, a) = LoadedBytes(t, a)
  BY <1>1, SameWords, SameBytes
     DEF Loaded, Alone!Loaded, LoadedBytes, Alone!LoadedBytes,
         getSigned16, Alone!getSigned16, getSigned8, Alone!getSigned8
<1>3. /\ \A t, a, distance : Alone!Displaced(t, a, distance) = Displaced(t, a, distance)
      /\ \A t, file, a : Alone!Based(t, file, a) = Based(t, file, a)
      /\ \A a : Alone!Retreated(a) = Retreated(a) /\ Alone!Advanced(a) = Advanced(a)
      /\ \A w : Alone!Doubled(w) = Doubled(w)
  BY SameWords, SameBytes
     DEF Displaced, Alone!Displaced, Based, Alone!Based, WritesBack, Alone!WritesBack,
         Retreated, Alone!Retreated, Advanced, Alone!Advanced, Aligned, Alone!Aligned,
         Doubled, Alone!Doubled
<1>4. /\ \A t, a : Alone!AfterHalfStored(t, a) = AfterHalfStored(t, a)
      /\ \A t, a : Alone!StoredBytes(t, a) = StoredBytes(t, a)
      /\ \A t, a : Alone!StoreReach(t, a) = StoreReach(t, a)
  BY <1>1, SameBytes, SameMemory
     DEF AfterHalfStored, Alone!AfterHalfStored, StoredBytes, Alone!StoredBytes,
         StoreReach, Alone!StoreReach, Misplaces, Alone!Misplaces,
         Container, Alone!Container, Aligned, Alone!Aligned
<1>5. /\ \A touched, file, contents :
           Alone!Access(touched, file, contents) <=> Access(touched, file, contents)
      /\ \A touched, word : Alone!Overreach(touched, word) <=> Overreach(touched, word)
  BY SameControl, SameMemory DEF Access, Alone!Access, Overreach, Alone!Overreach
<1>6. \A t : Alone!ImmediateTransfer(t) <=> ImmediateTransfer(t)
  BY <1>2, <1>3, <1>4, <1>5, SameBytes, ZenonT(40) DEF ImmediateTransfer, Alone!ImmediateTransfer
<1>7. \A t : /\ Alone!RegisterLoad(t) <=> RegisterLoad(t)
             /\ Alone!RegisterStore(t) <=> RegisterStore(t)
  BY <1>2, <1>3, <1>5, SameBytes, SameMemory, ZenonT(40)
     DEF RegisterLoad, Alone!RegisterLoad, RegisterStore, Alone!RegisterStore
<1> QED
  BY <1>6, <1>7, SameControl
     DEF halfwordDataTransferImmediateOffEval, Alone!halfwordDataTransferImmediateOffEval,
         halfwordDataTransferRegisterOffEval, Alone!halfwordDataTransferRegisterOffEval,
         PC, Alone!PC, block, Alone!block

-----------------------------------------------------------------------------
(* The loop of a block transfer, and the rest.                             *)

\* The statics are both set before the loop, and in it they are its own.
LEMMA BlockTransferAlone ==
  ASSUME blockDataTransferEval, Undisturbed,
         iOwn' = i', offsetOwn' = offset'
  PROVE  Alone!blockDataTransferEval
<1>1. \A t, index : Alone!Advance(t, index) = Advance(t, index) /\ Alone!First(t) = First(t)
  BY DEF Advance, Alone!Advance, First, Alone!First
<1>2. \A t, address : Alone!Stride(t, address) = Stride(t, address)
  BY SameWords DEF Stride, Alone!Stride
<1>3. \A index : Alone!StoredRegister(index) = StoredRegister(index)
  BY SameWords DEF StoredRegister, Alone!StoredRegister, PC, Alone!PC
<1>4. Alone!Register = Register
  BY DEF Register, Alone!Register
<1>5. CASE BeginTransfer
  BY <1>1, <1>5, SameControl
     DEF BeginTransfer, Alone!BeginTransfer, memory, Alone!memory, run, Alone!run,
         Alone!blockDataTransferEval
<1>6. CASE phase = "transfer"
  <2>1. iOwn = i /\ offsetOwn = offset
    BY <1>6 DEF Undisturbed
  <2>2. \A t : Alone!Slot(t) = Slot(t)
    BY <1>2, <2>1 DEF Slot, Alone!Slot
  <2>3. CASE SkipRegister
    BY <1>1, <1>4, <2>1, <2>3
       DEF SkipRegister, Alone!SkipRegister, memory, Alone!memory, run, Alone!run,
           Alone!blockDataTransferEval
  <2>4. CASE TransferRegister
    BY <1>1, <1>2, <1>3, <2>1, <2>2, <2>4, SameMemory, SameBytes
       DEF TransferRegister, Alone!TransferRegister, run, Alone!run,
           Alone!blockDataTransferEval
  <2>5. CASE EscapeTransfer
    BY <2>1, <2>2, <2>5, SameMemory, SameBytes, SameControl
       DEF EscapeTransfer, Alone!EscapeTransfer, memory, Alone!memory, block, Alone!block,
           Alone!blockDataTransferEval
  <2>6. CASE EndTransfer
    BY <1>4, <2>1, <2>6, SameControl
       DEF EndTransfer, Alone!EndTransfer, memory, Alone!memory, block, Alone!block,
           Alone!blockDataTransferEval
  <2> QED
    BY <1>6, <2>3, <2>4, <2>5, <2>6 DEF blockDataTransferEval, BeginTransfer, Executing
<1> QED
  BY <1>5, <1>6
     DEF blockDataTransferEval, SkipRegister, TransferRegister, EscapeTransfer, EndTransfer

\* The calls of the host.
LEMMA CallAlone ==
  ASSUME init \/ load \/ (\E n \in Budgets : BeginRun(n)), UNCHANGED <<iOwn, offsetOwn>>
  PROVE  Alone!init \/ Alone!load \/ (\E n \in Budgets : Alone!BeginRun(n))
<1>1. Alone!Ram = Ram /\ Alone!Register = Register /\ Alone!NoFlags = NoFlags
  BY DEF Ram, Alone!Ram, Register, Alone!Register, NoFlags, Alone!NoFlags
<1>2. Alone!NoCode = NoCode
  BY DEF NoCode, Alone!NoCode, ZeroInstruction, Alone!ZeroInstruction
<1>3. CASE init
  BY <1>1, <1>2, <1>3 DEF init, Alone!init, block, Alone!block, run, Alone!run
<1>4. CASE load
  <2>1. CASE LoadFailure
    BY <2>1 DEF LoadFailure, Alone!LoadFailure, block, Alone!block, run, Alone!run, Alone!load
  <2>2. ASSUME NEW image \in Images, LoadImage(image)
        PROVE  Alone!LoadImage(image)
    BY <1>1, <2>2 DEF LoadImage, Alone!LoadImage, block, Alone!block, run, Alone!run
  <2> QED
    BY <1>4, <2>1, <2>2 DEF load, Alone!load
<1>5. ASSUME NEW n \in Budgets, BeginRun(n)
      PROVE  Alone!BeginRun(n)
  BY <1>5 DEF BeginRun, Alone!BeginRun, memory, Alone!memory, block, Alone!block
<1> QED
  BY <1>3, <1>4, <1>5

\* The loop of run() and the handlers that return at once.
LEMMA LoopAlone ==
  ASSUME Exhausted \/ FetchDecode \/ SkipInstruction \/ AssertInstruction,
         UNCHANGED <<iOwn, offsetOwn>>
  PROVE  \/ Alone!Exhausted \/ Alone!FetchDecode
         \/ Alone!SkipInstruction \/ Alone!AssertInstruction
<1>1. CASE Exhausted
  BY <1>1, SameControl
     DEF Exhausted, Alone!Exhausted, memory, Alone!memory, block, Alone!block
<1>2. CASE FetchDecode
  <2>1. Alone!PC = PC /\ Alone!ZeroInstruction = ZeroInstruction
    BY DEF PC, Alone!PC, ZeroInstruction, Alone!ZeroInstruction
  <2> QED
    BY <1>2, <2>1, SameControl, SameMemory, SameBytes, SameWords
       DEF FetchDecode, Alone!FetchDecode, memory, Alone!memory, block, Alone!block,
           run, Alone!run
<1>3. CASE SkipInstruction \/ AssertInstruction
  <2>1. Alone!Unsupported <=> Unsupported
    BY DEF Unsupported, Alone!Unsupported
  <2> QED
    BY <1>3, <2>1, SameControl
       DEF SkipInstruction, Alone!SkipInstruction, AssertInstruction,
           Alone!AssertInstruction, memory, Alone!memory, block, Alone!block
<1> QED
  BY <1>1, <1>2, <1>3

-----------------------------------------------------------------------------
(* The steps.                                                              *)

\* At the start the machine is as if alone.
LEMMA StartAlone == Start => Alone!Init /\ Undisturbed
BY DEF Start, Init, Alone!Init, Undisturbed, Register, Alone!Register, Ram, Alone!Ram,
       NoFlags, Alone!NoFlags, NoCode, Alone!NoCode, ZeroInstruction, Alone!ZeroInstruction

\* Each of its steps is a step it could take alone, and after it the statics
\* are as it left them.
LEMMA StepAlone ==
  ASSUME Step, Undisturbed
  PROVE  Alone!Next /\ Undisturbed'
<1>1. Undisturbed'
  BY DEF Step, Undisturbed, Transferring
<1>2. CASE Transferring
  <2>1. blockDataTransferEval
    BY <1>2, OnlyBlockSteps DEF Step, Transferring, blockDataTransferEval
  <2>2. Alone!blockDataTransferEval
    BY <1>2, <2>1, BlockTransferAlone DEF Step
  <2> QED
    BY <1>1, <2>2 DEF Alone!Next, Alone!Turn, Alone!Evaluate
<1>3. CASE ~Transferring
  <2>1. UNCHANGED <<iOwn, offsetOwn>>
    BY <1>3 DEF Step
  <2>2. ~blockDataTransferEval
    BY <1>3
       DEF Transferring, blockDataTransferEval, BeginTransfer, SkipRegister,
           TransferRegister, EscapeTransfer, EndTransfer
  <2>3. CASE init \/ load \/ (\E n \in Budgets : BeginRun(n))
    BY <1>1, <2>1, <2>3, CallAlone DEF Alone!Next
  <2>4. CASE Exhausted \/ FetchDecode \/ SkipInstruction \/ AssertInstruction
    BY <1>1, <2>1, <2>4, LoopAlone DEF Alone!Next, Alone!Turn, Alone!Evaluate
  <2>5. CASE dataProcessingEval \/ singleDataTranferEval
    BY <1>1, <2>1, <2>5, DataProcessingAlone, SingleTransferAlone
       DEF Alone!Next, Alone!Turn, Alone!Evaluate
  <2>6. CASE branchEval \/ branchAndExchangeEval \/ softwareInterruptEval
    BY <1>1, <2>1, <2>6, BranchAlone DEF Alone!Next, Alone!Turn, Alone!Evaluate
  <2>7. CASE multiplyEval \/ multiplyLongEval
    BY <1>1, <2>1, <2>7, MultiplyAlone DEF Alone!Next, Alone!Turn, Alone!Evaluate
  <2>8. CASE halfwordDataTransferImmediateOffEval \/ halfwordDataTransferRegisterOffEval
    BY <1>1, <2>1, <2>8, HalfwordAlone DEF Alone!Next, Alone!Turn, Alone!Evaluate
  <2> QED
    BY <1>1, <2>2, <2>3, <2>4, <2>5, <2>6, <2>7, <2>8 DEF Step, Next, Turn, Evaluate
<1> QED
  BY <1>2, <1>3
=============================================================================
