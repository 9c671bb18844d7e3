------------------------------ MODULE Encoding ------------------------------
(***************************************************************************)
(* The instruction set as the assembler writes it: the word of each        *)
(* instruction record, and the format a word has in the data sheet the     *)
(* README refers to.  Words are sets of bit numbers.                       *)
(***************************************************************************)
EXTENDS Decoder

At(number, low) == {low + k : k \in BitsOf(number)}
If(holds, k) == IF holds THEN {k} ELSE {}
Ordinal(names, name) == (CHOOSE k \in DOMAIN names : names[k] = name) - 1

ConditionBits(t) == At(Ordinal(Conditions, t.condition), 28)

\* Two halves of a word: TLC's integers have 31 bits.
Halves(high, low) == At(high, 16) \cup At(low, 0)

ShiftBits(shift) ==
  At(shift.rm, 0) \cup At(Ordinal(ShiftTypes, shift.type), 5)
    \cup IF shift.kind = "by_register" THEN {4} \cup At(shift.rs, 8) ELSE At(shift.amount, 7)

Operand2Bits(operand2) ==
  IF operand2.kind = "immediate"
  THEN {25} \cup At(operand2.byte, 0) \cup At(operand2.rotation, 8)
  ELSE ShiftBits(operand2)

OffsetBits(distance) ==
  IF distance.kind = "distance" THEN At(distance.value, 0) ELSE {25} \cup ShiftBits(distance)

\* The bits a word transfer, a block transfer and a halfword transfer share.
TransferBits(t) ==
  If(t.p, 24) \cup If(t.u, 23) \cup If(t.w, 21) \cup At(t.rn, 16)

HalfwordBits(t) ==
  {4, 7} \cup TransferBits(t) \cup If(t.load, 20) \cup At(t.rd, 12) \cup If(t.s, 6) \cup If(t.h, 5)

Body(t) ==
  CASE t.format = "data_processing" ->
         At(Ordinal(OpCodes, t.opcode), 21) \cup If(t.s, 20) \cup At(t.rn, 16)
           \cup At(t.rd, 12) \cup Operand2Bits(t.operand2)
    [] t.format = "multiply" ->
         {4, 7} \cup If(t.a, 21) \cup If(t.s, 20) \cup At(t.rd, 16) \cup At(t.rn, 12)
           \cup At(t.rs, 8) \cup At(t.rm, 0)
    [] t.format = "multiply_long" ->
         {4, 7, 23} \cup If(t.u, 22) \cup If(t.a, 21) \cup If(t.s, 20) \cup At(t.rdhi, 16)
           \cup At(t.rdlo, 12) \cup At(t.rs, 8) \cup At(t.rm, 0)
    [] t.format = "single_data_transfer" ->
         {26} \cup TransferBits(t) \cup If(t.b, 22) \cup If(t.load, 20) \cup At(t.rd, 12)
           \cup OffsetBits(t.offset)
    [] t.format = "halfword_data_transfer_register_off" -> HalfwordBits(t) \cup At(t.rm, 0)
    [] t.format = "halfword_data_transfer_immediate_off" ->
         {22} \cup HalfwordBits(t) \cup At(t.distance \div 16, 8) \cup At(t.distance % 16, 0)
    [] t.format = "block_data_transfer" ->
         {27} \cup TransferBits(t) \cup If(t.s, 22) \cup If(t.l, 20) \cup t.registerList
    [] t.format = "branch" -> {25, 27} \cup If(t.l, 24) \cup At(t.offset, 0)
    [] t.format = "branch_and_exchange" -> At(\h012FFF10, 0) \cup At(t.rn, 0)
    [] t.format = "software_interrupt" -> At(\hF000000, 0) \cup At(t.comment, 0)

Encode(t) == ConditionBits(t) \cup Body(t)

-----------------------------------------------------------------------------
(* The data sheet's summary of formats, from the top bits down.            *)

\* Bits 7 and 4 set under 000: multiplications, swaps and halfwords.
ExtensionFormat(word) ==
  CASE {5, 6} \cap word # {} ->
         IF 22 \in word THEN "halfword_data_transfer_immediate_off"
         ELSE IF word \cap (8 .. 11) = {} THEN "halfword_data_transfer_register_off" ELSE "none"
    [] {5, 6} \cap word = {} /\ 24 \notin word ->
         IF 23 \in word THEN "multiply_long" ELSE IF 22 \in word THEN "none" ELSE "multiply"
    [] {5, 6} \cap word = {} /\ 24 \in word ->
         IF word \cap ({20, 21, 23} \cup (8 .. 11)) = {} THEN "single_data_swap" ELSE "none"

ArmFormat(word) ==
  LET class == word \cap (25 .. 27)
      exchanges == word \cap (4 .. 27) = BitsOf(\h012FFF10)
  IN  CASE class = {} /\ {4, 7} \subseteq word -> ExtensionFormat(word)
        [] class = {} /\ exchanges -> "branch_and_exchange"
        [] class = {} /\ ~({4, 7} \subseteq word) /\ ~exchanges -> "data_processing"
        [] class = {25} -> "data_processing"
        [] class = {26} -> "single_data_transfer"
        [] class = {25, 26} -> IF 4 \in word THEN "undefined" ELSE "single_data_transfer"
        [] class = {27} -> "block_data_transfer"
        [] class = {25, 27} -> "branch"
        [] class = {26, 27} -> "coprocessor_data_transfer"
        [] class = {25, 26, 27} -> IF 24 \in word THEN "software_interrupt"
                                   ELSE IF 4 \in word THEN "coprocessor_register_transfer"
                                   ELSE "coprocessor_data_operation"

-----------------------------------------------------------------------------
\* UMULL and UMLAL whose multiplier rs is r0.
UnsignedLongByR0(word) ==
  ArmFormat(word) = "multiply_long" /\ word \cap ({22} \cup (8 .. 11)) = {}

(***************************************************************************)
(* Fifteen overlapping tests in a chain (vm.cpp:242) give every word the   *)
(* format the data sheet gives it, whatever the other bits, but for the    *)
(* words excepted above and those the data sheet leaves without a format.  *)
(***************************************************************************)
FormatAgrees ==
  stage # "fetched" =>
    \/ ArmFormat(m_workingInstruction) \in {"none", m_instructionSetFormat}
    \/ UnsignedLongByR0(m_workingInstruction)

(***************************************************************************)
(* A word that has the data sheet's format of its handler is read whole:   *)
(* assembling the fields the handler has read gives the same 32 bits, so   *)
(* that no field overlaps another, misses a bit or reads a wrong one.      *)
(***************************************************************************)
FieldsReadBack ==
  /\ stage = "evaluated" /\ instruction.format # "unimplemented"
  /\ ArmFormat(m_workingInstruction) = m_instructionSetFormat
  => Encode(instruction) = m_workingInstruction
=============================================================================
