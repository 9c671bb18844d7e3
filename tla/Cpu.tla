-------------------------------- MODULE Cpu --------------------------------
(***************************************************************************)
(* The state of one VirtualMachine and what every instruction handler has  *)
(* in common: the condition test that opens it, access to guest memory,    *)
(* and the way control goes back to the loop of run().                     *)
(***************************************************************************)
EXTENDS Words, Sequences, FiniteSets

CONSTANTS
  MemSize,          \* VmProperties::m_memsize, in bytes
  Asserting         \* FALSE in a build with NDEBUG, such as CMake's Release

\* A register can address all of it.
ASSUME MemSizeAssumption == MemSize \in Nat /\ MemSize <= Modulus
ASSUME AssertingAssumption == Asserting \in BOOLEAN

VARIABLES
  registers,        \* m_registers[16]; 13 is sp, 14 lr, 15 pc
  cpsr,             \* the four condition flags of m_cpsr
  ram,              \* the buffer m_ram points to
  code,             \* the instruction each code address of the buffer holds
  instruction,      \* m_workingInstruction, decoded
  phase,            \* where control is
  i, offset,        \* the static locals of blockDataTransferEval()
  limit, iter,      \* nbMaxIteration (0: no limit) and the loop counter
  programSize,      \* what load() returned last
  result            \* what run() returned last

memory == <<ram, code, programSize>>
block == <<i, offset>>
run == <<limit, iter, result>>
vars == <<registers, cpsr, ram, code, instruction, phase, i, offset, limit, iter,
          programSize, result>>

Register == 0 .. 15
LR == 14
PC == 15

Flag == {0, 1}
Flags == [n : Flag, z : Flag, c : Flag, v : Flag]
NoFlags == [n |-> 0, z |-> 0, c |-> 0, v |-> 0]
Condition == {"EQ", "NE", "CS", "CC", "MI", "PL", "VS", "VC",
              "HI", "LS", "GE", "LT", "GT", "LE", "AL", "NV"}

(***************************************************************************)
(* phase: "constructed" before init(), "initialised" before load(), "idle" *)
(* between two calls of run(); "fetch", "evaluate" and "transfer" inside   *)
(* run(), the last one in the loop of a block transfer.  A machine stays   *)
(* in "aborted" (qt_assert called abort()), "wild" (the host touched a     *)
(* byte that is not in its buffer: nothing is known of what follows) and   *)
(* "astray" (the guest executes its data, or reads or writes its code as   *)
(* data: the program does that, this model does not follow it).            *)
(***************************************************************************)
Inside == {"fetch", "evaluate", "transfer"}
Lost == {"aborted", "wild", "astray"}
Phase == {"constructed", "initialised", "idle"} \cup Inside \cup Lost

-----------------------------------------------------------------------------
(* testCondition().  "NV" is its default case, which asserts.              *)

TestCondition(condition) ==
  \/ condition = "AL"
  \/ condition = "EQ" /\ cpsr.z = 1
  \/ condition = "NE" /\ cpsr.z = 0
  \/ condition = "CS" /\ cpsr.c = 1
  \/ condition = "CC" /\ cpsr.c = 0
  \/ condition = "MI" /\ cpsr.n = 1
  \/ condition = "PL" /\ cpsr.n = 0
  \/ condition = "VS" /\ cpsr.v = 1
  \/ condition = "VC" /\ cpsr.v = 0
  \/ condition = "HI" /\ cpsr.z = 0 /\ cpsr.c = 1
  \/ condition = "LS" /\ (cpsr.z = 1 \/ cpsr.c = 0)
  \/ condition = "GE" /\ cpsr.n = cpsr.v
  \/ condition = "LT" /\ cpsr.n # cpsr.v
  \/ condition = "GT" /\ cpsr.z = 0 /\ cpsr.n = cpsr.v
  \/ condition = "LE" /\ (cpsr.z = 1 \/ cpsr.n # cpsr.v)

\* evaluate() reached the handler of this format and the condition holds.
Executing(format) ==
  /\ phase = "evaluate"
  /\ instruction.format = format
  /\ TestCondition(instruction.condition)

-----------------------------------------------------------------------------
(* Where control goes after a handler.                                     *)

\* A loop that forgets to count its turns, and one that counts when it should not.
CompleteUncounted ==
  /\ phase' = "fetch"
  /\ UNCHANGED <<limit, iter, result>>
CompleteUnlimited ==
  /\ phase' = "fetch"
  /\ iter' = iter + 1
  /\ UNCHANGED <<limit, result>>

\* The condition of the loop in run(); "for (i = 0; i <= n; i++)" would be the second.
TurnsAtLeast == limit = 0 \/ iter <= limit
TurnsLeft == limit = 0 \/ iter < limit

\* The handler returned: the next turn of the loop in run().
Complete ==
  /\ phase' = "fetch"
  /\ iter' = IF limit = 0 THEN 0 ELSE iter + 1
  /\ UNCHANGED <<limit, result>>

\* run() returns; its loop variables are locals.
Return(interrupt) ==
  /\ phase' = "idle"
  /\ limit' = 0
  /\ iter' = 0
  /\ result' = interrupt

\* qt_assert(): assert(0), so abort().
Abort ==
  /\ phase' = "aborted"
  /\ UNCHANGED <<limit, iter, result>>

-----------------------------------------------------------------------------
(* Guest memory.  An address is m_ram plus a 64-bit integer, never wrapped *)
(* to the width of a register.                                             *)

Ram == 0 .. MemSize - 1
Code == UNION {Bytes(a, 4) : a \in DOMAIN code}
Data(bytes) == bytes \subseteq Ram \ Code

\* An access to other bytes than the guest's data.
Escape(bytes) ==
  /\ phase' = IF bytes \subseteq Ram THEN "astray" ELSE "wild"
  /\ UNCHANGED <<limit, iter, result>>

WordAt(a) == WordIn(ram, a)
StoreBytes(a, n, w) == AfterStore(ram, a, n, w)
=============================================================================
