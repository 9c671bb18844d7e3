-------------------------- MODULE TransferContract --------------------------
(***************************************************************************)
(* What LDR, STR, LDRB and STRB owe the host, which follows the guest's    *)
(* addresses with a pointer of 64 bits, and what STRH with an immediate    *)
(* offset changes.                                                         *)
(***************************************************************************)
EXTENDS Vm

\* m_memsize is an int (vm.h:54), so that the buffer ends far below the
\* last word and an address relative to pc does not wrap.
ASSUME BufferAssumption == MemSize + 4 < Modulus

\* The address a guest computes with a pre- or post-index, as the integer
\* sum and as the word it means by it.
Sum(distance) ==
  LET base == registers[instruction.rn] + (IF instruction.rn = PC THEN 4 ELSE 0)
  IN  IF ~instruction.p THEN base
      ELSE IF instruction.u THEN base + distance ELSE base - distance
Width == IF instruction.b THEN 1 ELSE 4
Meant(distance) == Bytes(Wrap(Sum(distance)), Width)

(***************************************************************************)
(* "Illegal memory access by the guest program will probably cause a host  *)
(* program fault" (README.md:77).  A legal one, of bytes inside the        *)
(* buffer, takes the host outside it in two cases only: its sum does not   *)
(* fit a word, which m_ram + rn + offset does not wrap, or it loads one of *)
(* the last three bytes, as part of a word that is not all there.          *)
(***************************************************************************)
HostStaysInside ==
  [][\A distance \in Word :
       /\ Executing("single_data_transfer") /\ distance \in Offsets(instruction)
       /\ Meant(distance) \subseteq Ram
       /\ phase' = "wild"
       => \/ Sum(distance) \notin Word
          \/ instruction.load /\ instruction.b /\ Sum(distance) > MemSize - 4]_vars

-----------------------------------------------------------------------------
StoresHalfword ==
  /\ Executing("halfword_data_transfer_immediate_off")
  /\ ~instruction.load /\ instruction.rn # PC

\* The base moved by the distance, and the address of the store.
MovedBase == Displaced(instruction, registers[instruction.rn], instruction.distance)
StoreAddress == IF instruction.p THEN MovedBase ELSE registers[instruction.rn]

(***************************************************************************)
(* The store rewrites the word around its halfword, which is the low or    *)
(* the high half of it: it leaves every other byte as it was, but for the  *)
(* post-indexed one off a multiple of four, which spoils the two bytes     *)
(* below.  The base moves by the distance, or ends two short of it when    *)
(* that is a multiple of four; any other register is left alone.           *)
(***************************************************************************)
StoresOnlyItsHalfword ==
  [][StoresHalfword /\ phase' = "fetch" =>
       LET a == StoreAddress
           spoilt == IF instruction.p \/ a % 4 = 0 THEN {} ELSE {a - 2, a - 1}
       IN  /\ ram'[a] + ByteModulus * ram'[a + 1] = registers[instruction.rd] % HalfModulus
           /\ \A b \in Ram \ ({a, a + 1} \cup spoilt) : ram'[b] = ram[b]
           /\ registers'[instruction.rn] # registers[instruction.rn] =>
                \/ registers'[instruction.rn] = MovedBase
                \/ MovedBase % 4 = 0 /\ registers'[instruction.rn] = Wrap(MovedBase - 2)
           /\ \A r \in Register \ {instruction.rn} : registers'[r] = registers[r]]_vars
=============================================================================
