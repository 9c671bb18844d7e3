--------------------------- MODULE BlockContract ---------------------------
(***************************************************************************)
(* blockDataTransferEval() implements MultipleTransfer: its loop from one  *)
(* end of the register list, with an offset stepped before or after each   *)
(* register, puts every register where the addressing mode says.           *)
(***************************************************************************)
EXTENDS Vm

\* The registers the loop has still to reach, and the base it started from.
Pending == {r \in instruction.registerList : IF instruction.u THEN r >= i ELSE r <= i}
Moved == Cardinality(instruction.registerList \ Pending)
OriginalBase == Wrap(IF instruction.u THEN offset - 4 * Moved ELSE offset + 4 * Moved)

Transfers ==
  INSTANCE MultipleTransfer WITH
    moving <- phase = "transfer",
    order <- instruction,
    base <- IF phase = "transfer" THEN OriginalBase ELSE 0,
    pending <- IF phase = "transfer" THEN Pending ELSE {}

(***************************************************************************)
(* Every LDM and STM moves each listed register to or from its own slot,   *)
(* whatever the addressing mode, the base and the register list, and       *)
(* writes the base back once, after the last one.                          *)
(***************************************************************************)
ImplementsMultipleTransfer == Transfers!TransferSpec
=============================================================================
