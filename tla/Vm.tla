--------------------------------- MODULE Vm ---------------------------------
(***************************************************************************)
(* The virtual machine: init(), load() and run(), whose loop fetches,      *)
(* decodes and evaluates one instruction per turn.  The host calls them    *)
(* from one thread.                                                        *)
(***************************************************************************)
EXTENDS SingleTransfer, BlockTransfer, Branches, Multiply, HalfwordTransfer

CONSTANTS
  Images,           \* the program files load() may be given
  Budgets,          \* the values run() is called with
  MayFail           \* whether the program file may be missing

(***************************************************************************)
(* An image is the instruction at each address that holds one, the other   *)
(* bytes of the file that are not zero, and its size.  "unimplemented"     *)
(* stands for the formats without a handler: the coprocessor ones assert   *)
(* in decode() and again, like the swap and undefined ones, in evaluate(). *)
(***************************************************************************)
Unimplemented == [format : {"unimplemented"}, condition : Condition]

Instruction ==
  DataProcessingInstruction \cup SingleTransferInstruction
    \cup BlockTransferInstruction \cup BranchInstruction
    \cup BranchAndExchangeInstruction \cup SoftwareInterruptInstruction
    \cup MultiplyInstruction \cup MultiplyLongInstruction
    \cup HalfwordImmediateInstruction \cup HalfwordRegisterInstruction
    \cup Unimplemented

\* A word of zeroes is ANDEQ r0, r0, r0.
ZeroInstruction ==
  [format |-> "data_processing", condition |-> "EQ", opcode |-> "AND",
   s |-> FALSE, rd |-> 0, rn |-> 0,
   operand2 |-> [kind |-> "by_value", type |-> "LSL", rm |-> 0, amount |-> 0]]

NoCode == [a \in {} |-> ZeroInstruction]

LoadedCode == {NoCode} \cup {image.code : image \in Images}

ASSUME ImagesAssumption ==
  \A image \in Images :
    /\ image.size \in Nat
    /\ \A a \in DOMAIN image.code : Bytes(a, 4) \subseteq Bytes(0, image.size)
    /\ DOMAIN image.data \subseteq Bytes(0, image.size)
    /\ \A a \in DOMAIN image.code : image.code[a] \in Instruction
    /\ \A a \in DOMAIN image.data : image.data[a] \in Byte
ASSUME BudgetsAssumption == Budgets \subseteq Nat /\ MayFail \in BOOLEAN

-----------------------------------------------------------------------------
(* Construction.  The constructor leaves the registers uninitialised, and  *)
(* nothing reads them before init().                                       *)

Init ==
  /\ registers = [r \in Register |-> 0]
  /\ cpsr = NoFlags
  /\ ram = [a \in Ram |-> 0]
  /\ code = NoCode
  /\ instruction = ZeroInstruction
  /\ phase = "constructed"
  /\ i = 0 /\ offset = 0
  /\ limit = 0 /\ iter = 0
  /\ programSize = 0
  /\ result = "none"

\* The host may start over between two runs: a new buffer, nothing kept.
init ==
  /\ phase \in {"constructed", "idle"}
  /\ phase' = "initialised"
  /\ registers' = [r \in Register |-> 0]
  /\ cpsr' = NoFlags
  /\ ram' = [a \in Ram |-> 0]
  /\ code' = NoCode
  /\ UNCHANGED <<programSize, instruction, block, run>>

\* The file is read into the buffer whatever its size.
LoadImage(image) ==
  /\ phase = "initialised"
  /\ phase' = IF image.size <= MemSize THEN "idle" ELSE "wild"
  /\ ram' = [a \in Ram |-> IF a \in DOMAIN image.data THEN image.data[a] ELSE ram[a]]
  /\ code' = image.code
  /\ programSize' = image.size
  /\ UNCHANGED <<registers, cpsr, instruction, block, run>>

\* No such file: load() returns (uint64_t)-1 and the buffer stays empty.
LoadFailure ==
  /\ MayFail
  /\ phase = "initialised"
  /\ phase' = "idle"
  /\ programSize' = -1
  /\ UNCHANGED <<registers, cpsr, ram, code, instruction, block, run>>

load == LoadFailure \/ \E image \in Images : LoadImage(image)

-----------------------------------------------------------------------------
(* run().                                                                  *)

\* A run() that starts the guest again instead of going on with it.
BeginRunFromReset(nbMaxIteration) ==
  /\ phase = "idle"
  /\ phase' = "fetch"
  /\ limit' = nbMaxIteration
  /\ iter' = 0
  /\ registers' = [registers EXCEPT ![PC] = 0]
  /\ UNCHANGED <<cpsr, memory, instruction, block, result>>

BeginRun(nbMaxIteration) ==
  /\ phase = "idle"
  /\ phase' = "fetch"
  /\ limit' = nbMaxIteration
  /\ iter' = 0
  /\ UNCHANGED <<registers, cpsr, memory, instruction, block, result>>

\* The loop is over: run() returns what it was initialised to.
Exhausted ==
  /\ phase = "fetch"
  /\ ~TurnsLeft
  /\ Return("Undefined")
  /\ UNCHANGED <<registers, cpsr, memory, instruction, block>>

\* fetch() and decode().
FetchDecode ==
  LET pc == registers[PC]
      Holds(word) == /\ phase' = "evaluate"
                     /\ instruction' = word
                     /\ UNCHANGED run
      zero == Data(Bytes(pc, 4)) /\ WordAt(pc) = 0
  IN  /\ phase = "fetch"
      /\ TurnsLeft
      /\ registers' = [registers EXCEPT ![PC] = Wrap(pc + 4)]
      /\ \/ pc \in DOMAIN code /\ Holds(code[pc])
         \/ pc \notin DOMAIN code /\ zero /\ Holds(ZeroInstruction)
         \/ /\ pc \notin DOMAIN code /\ ~zero
            /\ Escape(Bytes(pc, 4))
            /\ UNCHANGED instruction
      /\ UNCHANGED <<cpsr, memory, block>>

\* What an assertion guards, at the top of a handler, in testCondition() or
\* because there is no handler.
Unsupported ==
  \/ instruction.format = "unimplemented"
  \/ instruction.format = "halfword_data_transfer_register_off" /\ Asserting
  \/ instruction.condition = "NV"

\* testCondition() failed: the handler returns at once.
SkipInstruction ==
  /\ phase = "evaluate"
  /\ ~Unsupported
  /\ ~TestCondition(instruction.condition)
  /\ Complete
  /\ UNCHANGED <<registers, cpsr, memory, instruction, block>>

\* Without assertions nothing happens and the loop goes on.
AssertInstruction ==
  /\ phase = "evaluate"
  /\ Unsupported
  /\ IF Asserting THEN Abort ELSE Complete
  /\ UNCHANGED <<registers, cpsr, memory, instruction, block>>

Evaluate ==
  \/ SkipInstruction
  \/ AssertInstruction
  \/ dataProcessingEval
  \/ singleDataTranferEval
  \/ blockDataTransferEval
  \/ branchEval
  \/ branchAndExchangeEval
  \/ softwareInterruptEval
  \/ multiplyEval
  \/ multiplyLongEval
  \/ halfwordDataTransferImmediateOffEval
  \/ halfwordDataTransferRegisterOffEval

\* What the thread inside run() does.
Turn == Exhausted \/ FetchDecode \/ Evaluate

Next ==
  \/ init
  \/ load
  \/ \E nbMaxIteration \in Budgets : BeginRun(nbMaxIteration)
  \/ Turn

\* run() is a loop in one thread: once inside, it keeps turning.
Fairness == WF_vars(Turn)

Spec == Init /\ [][Next]_vars
FairSpec == Spec /\ Fairness

-----------------------------------------------------------------------------
(* Types, and the end of a limited run.                                    *)

TypeOK ==
  /\ registers \in [Register -> Word]
  /\ cpsr \in Flags
  /\ ram \in [Ram -> Byte]
  /\ code \in LoadedCode
  /\ instruction \in Instruction
  /\ phase \in Phase
  /\ i \in -1 .. 16
  /\ offset \in Word
  /\ limit \in Budgets \cup {0}
  /\ iter \in 0 .. limit
  /\ programSize \in Nat \cup {-1}
  /\ result \in {"none", "Resume", "Stop", "Suspend", "Undefined"}

(***************************************************************************)
(* run() with a limit comes back: whatever the guest does, the call        *)
(* returns or the machine is lost.                                         *)
(***************************************************************************)
BoundedRunReturns == (phase \in Inside /\ limit # 0) ~> (phase \notin Inside)

-----------------------------------------------------------------------------
(* Branches.  The data sheet the code follows puts the target at the       *)
(* address of the branch, plus 8, plus four times the signed field.        *)

SignedField(field) == IF field >= FieldSign THEN field - FieldModulus ELSE field
BranchTarget == Wrap(registers[PC] + 4 + 4 * SignedField(instruction.offset))

\* "offset : 24; // Signed ! §4.4" (vm.cpp:897): the field is signed.
BranchReachesTarget ==
  [][Executing("branch") => registers'[PC] = BranchTarget]_vars

(***************************************************************************)
(* A branch over a distance that getSigned24() can represent after the     *)
(* field has been shifted goes where it says, forward and backward, and    *)
(* with the L bit leaves the address of the next instruction in lr.        *)
(***************************************************************************)
NearBranchReachesTarget ==
  [][Executing("branch") =>
       LET distance == 4 * SignedField(instruction.offset)
       IN  /\ distance >= -FieldSign /\ distance < FieldSign => registers'[PC] = BranchTarget
           /\ registers'[LR] = IF instruction.l THEN registers[PC] ELSE registers[LR]]_vars
=============================================================================
