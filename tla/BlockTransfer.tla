--------------------------- MODULE BlockTransfer ---------------------------
(***************************************************************************)
(* blockDataTransferEval(): LDM and STM.  The loop over the register list  *)
(* is modelled one turn per step, so that the registers and the memory can *)
(* be seen when it is half way, which is where a bad address stops it.     *)
(***************************************************************************)
EXTENDS Cpu

BlockTransferInstruction ==
  [format : {"block_data_transfer"}, condition : Condition,
   l : BOOLEAN, p : BOOLEAN, u : BOOLEAN, w : BOOLEAN, s : BOOLEAN,
   rn : Register, registerList : SUBSET Register]

\* The loop runs up from r0 or down from r15.  (The code takes r15 out of the
\* loop of a store, at the same end of it.)
First(t) == IF t.u THEN 0 ELSE 15
Advance(t, index) == IF t.u THEN index + 1 ELSE index - 1

Stride(t, address) == Wrap(IF t.u THEN address + 4 ELSE address - 4)

\* A store that steps after each register whatever the P bit.
SlotAfter(t) == IF t.p /\ t.l THEN Stride(t, offset) ELSE offset

\* The address register i is loaded from or stored to.
Slot(t) == IF t.p THEN Stride(t, offset) ELSE offset

StoredAsFetched(index) == registers[index]    \* the pc without the pipeline offset

StoredRegister(index) ==
  IF index = PC THEN Wrap(registers[PC] + 8) ELSE registers[index]

\* A handler that leaves the base to the initialiser of the static.
BeginTransferWhereLeft ==
  /\ Executing("block_data_transfer")
  /\ phase' = "transfer"
  /\ i' = First(instruction)
  /\ offset' = IF offset = 0 THEN registers[instruction.rn] ELSE offset
  /\ UNCHANGED <<registers, cpsr, memory, instruction, run>>

BeginTransfer ==
  /\ Executing("block_data_transfer")
  /\ phase' = "transfer"
  /\ i' = First(instruction)
  /\ offset' = registers[instruction.rn]
  /\ UNCHANGED <<registers, cpsr, memory, instruction, run>>

SkipRegister ==
  /\ phase = "transfer"
  /\ i \in Register \ instruction.registerList
  /\ i' = Advance(instruction, i)
  /\ UNCHANGED <<registers, cpsr, memory, instruction, phase, offset, run>>

TransferRegister ==
  /\ phase = "transfer"
  /\ i \in instruction.registerList
  /\ Data(Bytes(Slot(instruction), 4))
  /\ IF instruction.l
     THEN /\ registers' = [registers EXCEPT ![i] = WordAt(Slot(instruction))]
          /\ UNCHANGED ram
     ELSE /\ ram' = StoreBytes(Slot(instruction), 4, StoredRegister(i))
          /\ UNCHANGED registers
  /\ i' = Advance(instruction, i)
  /\ offset' = Stride(instruction, offset)
  /\ UNCHANGED <<cpsr, code, programSize, instruction, phase, run>>

EscapeTransfer ==
  /\ phase = "transfer"
  /\ i \in instruction.registerList
  /\ ~Data(Bytes(Slot(instruction), 4))
  /\ Escape(Bytes(Slot(instruction), 4))
  /\ UNCHANGED <<registers, cpsr, memory, instruction, block>>

\* The base is written back last, over a loaded value; the S bit asserts
\* after everything else is done.
EndTransfer ==
  /\ phase = "transfer"
  /\ i \notin Register
  /\ registers' = IF instruction.w THEN [registers EXCEPT ![instruction.rn] = offset]
                  ELSE registers
  /\ IF instruction.s /\ Asserting THEN Abort ELSE Complete
  /\ UNCHANGED <<cpsr, memory, instruction, block>>

blockDataTransferEval ==
  \/ BeginTransfer
  \/ SkipRegister
  \/ TransferRegister
  \/ EscapeTransfer
  \/ EndTransfer
=============================================================================
