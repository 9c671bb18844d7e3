------------------------------ MODULE Branches ------------------------------
(***************************************************************************)
(* The handlers that move control: branchEval(), branchAndExchangeEval()   *)
(* and softwareInterruptEval(), which leaves run() by longjmp().           *)
(***************************************************************************)
EXTENDS Cpu

BranchInstruction ==
  [format : {"branch"}, condition : Condition, l : BOOLEAN, offset : Field]
BranchAndExchangeInstruction ==
  [format : {"branch_and_exchange"}, condition : Condition, rn : Register]
SoftwareInterruptInstruction ==
  [format : {"software_interrupt"}, condition : Condition, comment : Field]

branchEval ==
  /\ Executing("branch")
  /\ LET target == Wrap(registers[PC] + getSigned24(4 * instruction.offset) + 4)
     IN  registers' = [registers EXCEPT ![LR] = IF instruction.l THEN registers[PC] ELSE @,
                                        ![PC] = target]
  /\ Complete
  /\ UNCHANGED <<cpsr, memory, instruction, block>>

branchAndExchangeEval ==
  /\ Executing("branch_and_exchange")
  /\ registers' = [registers EXCEPT ![PC] = registers[instruction.rn]]
  /\ Complete
  /\ UNCHANGED <<cpsr, memory, instruction, block>>

\* What run() returns for the value setjmp() returns: the comment, except
\* that longjmp() turns 0 into 1.
Interrupt(comment) ==
  CASE comment \in {0, 1} -> "Resume"
    [] comment = 2 -> "Stop"
    [] comment = 3 -> "Suspend"
    [] comment \notin 0 .. 3 -> "Undefined"

softwareInterruptEval ==
  /\ Executing("software_interrupt")
  /\ Return(Interrupt(instruction.comment))
  /\ UNCHANGED <<registers, cpsr, memory, instruction, block>>
=============================================================================
