------------------------------ MODULE Decoder ------------------------------
(***************************************************************************)
(* decode() and the bit-fields the handlers read: from the 32 bits of an   *)
(* instruction to the record the rest of the development works on.  Words  *)
(* are sets of bit numbers, so that the & of a mask is an intersection.    *)
(***************************************************************************)
EXTENDS Integers, Sequences, TLC, FiniteSetsExt

CONSTANTS
  FetchedWords,     \* the words fetch() may find in memory
  Asserting         \* FALSE in a build with NDEBUG

ASSUME FetchedWordsAssumption == FetchedWords \subseteq SUBSET (0 .. 31)
ASSUME AssertingAssumption == Asserting \in BOOLEAN

VARIABLES
  m_workingInstruction,
  m_instructionSetFormat,    \* kept from the instruction before until set
  instruction,               \* the bit-fields its handler has read
  stage                      \* "fetched", "decoded", "evaluated" or "aborted"

vars == <<m_workingInstruction, m_instructionSetFormat, instruction, stage>>

BitsOf(number) == {k \in 0 .. 30 : (number \div 2^k) % 2 = 1}
Field(word, low, width) == SumSet({2^(k - low) : k \in word \cap (low .. low + width - 1)})

-----------------------------------------------------------------------------
(* The tests of decode(), the first one that matches decides.              *)

Test(format, mask, value) ==
  [format |-> format, mask |-> BitsOf(mask), value |-> BitsOf(value)]

Exchanges == Test("branch_and_exchange", \h0FFFFFF0, \h012FFF10)
Swaps == Test("single_data_swap", \h0FB00FF0, \h01000090)
Multiplies == Test("multiply", \h0FC000F0, \h00000090)
LongMultiplies == Test("multiply_long", \h0F8000F0, \h00800090)
HalfwordsByRegister ==
  Test("halfword_data_transfer_register_off", \h0E400F90, \h00000090)
HalfwordsByImmediate ==
  Test("halfword_data_transfer_immediate_off", \h0E400090, \h00400090)

\* The formats that share 1001 in bits 7 to 4, with a halfword format first.
SpecialTestsReordered ==
  <<Exchanges, HalfwordsByImmediate, Swaps, Multiplies, HalfwordsByRegister, LongMultiplies>>

SpecialTests ==
  <<Exchanges, Swaps, Multiplies, HalfwordsByRegister, LongMultiplies, HalfwordsByImmediate>>

DecodeTests ==
  SpecialTests \o
  <<Test("coprocessor_data_operation", \h0F000010, \h0E000000),
    Test("coprocessor_register_transfer", \h0F000010, \h0E000010),
    Test("software_interrupt", \h0F000000, \h0F000000),
    Test("undefined", \h0E000010, \h06000010),
    Test("block_data_transfer", \h0E000000, \h08000000),
    Test("branch", \h0E000000, \h0A000000),
    Test("coprocessor_data_transfer", \h0E000000, \h0C000000),
    Test("data_processing", \h0C000000, \h00000000),
    Test("single_data_transfer", \h0C000000, \h04000000)>>

Matches(word, test) == word \cap test.mask = test.value

\* The tests that match; without one, the last else only asserts.
Matching(word) == {k \in DOMAIN DecodeTests : Matches(word, DecodeTests[k])}

Coprocessor ==
  {"coprocessor_data_operation", "coprocessor_register_transfer", "coprocessor_data_transfer"}

decode ==
  LET matching == Matching(m_workingInstruction)
      format == IF matching = {} THEN m_instructionSetFormat
                ELSE DecodeTests[Min(matching)].format
  IN  /\ stage = "fetched"
      /\ m_instructionSetFormat' = format
      /\ stage' = IF Asserting /\ (matching = {} \/ format \in Coprocessor)
                  THEN "aborted" ELSE "decoded"
      /\ UNCHANGED <<m_workingInstruction, instruction>>

-----------------------------------------------------------------------------
(* The bit-fields.                                                         *)

Conditions == <<"EQ", "NE", "CS", "CC", "MI", "PL", "VS", "VC",
                "HI", "LS", "GE", "LT", "GT", "LE", "AL", "NV">>
OpCodes == <<"AND", "EOR", "SUB", "RSB", "ADD", "ADC", "SBC", "RSC",
             "TST", "TEQ", "CMP", "CMN", "ORR", "MOV", "BIC", "MVN">>
ShiftTypes == <<"LSL", "LSR", "ASR", "ROR">>

Condition(word) == Conditions[Field(word, 28, 4) + 1]

Shift(word) ==
  LET type == ShiftTypes[Field(word, 5, 2) + 1]
      rm == Field(word, 0, 4)
  IN  IF 4 \in word
      THEN [kind |-> "by_register", type |-> type, rm |-> rm, rs |-> Field(word, 8, 4)]
      ELSE [kind |-> "by_value", type |-> type, rm |-> rm, amount |-> Field(word, 7, 5)]

\* The I bit means an immediate here...
Operand2(word) ==
  IF 25 \in word
  THEN [kind |-> "immediate", byte |-> Field(word, 0, 8), rotation |-> Field(word, 8, 4)]
  ELSE Shift(word)

\* ...and a register there; "& 0xFEF" clears bit 4.
Offset(word) ==
  IF 25 \in word THEN Shift(word \ {4})
  ELSE [kind |-> "distance", value |-> Field(word, 0, 12)]

DataProcessing(word) ==
  [format |-> "data_processing", condition |-> Condition(word), s |-> 20 \in word,
   opcode |-> OpCodes[Field(word, 21, 4) + 1], rn |-> Field(word, 16, 4),
   rd |-> Field(word, 12, 4), operand2 |-> Operand2(word)]

Multiply(word) ==
  [format |-> "multiply", condition |-> Condition(word), a |-> 21 \in word, s |-> 20 \in word,
   rd |-> Field(word, 16, 4), rn |-> Field(word, 12, 4), rs |-> Field(word, 8, 4),
   rm |-> Field(word, 0, 4)]

MultiplyLong(word) ==
  [format |-> "multiply_long", condition |-> Condition(word), u |-> 22 \in word,
   a |-> 21 \in word, s |-> 20 \in word, rdhi |-> Field(word, 16, 4),
   rdlo |-> Field(word, 12, 4), rs |-> Field(word, 8, 4), rm |-> Field(word, 0, 4)]

SingleDataTransfer(word) ==
  [format |-> "single_data_transfer", condition |-> Condition(word), p |-> 24 \in word,
   u |-> 23 \in word, b |-> 22 \in word, w |-> 21 \in word, load |-> 20 \in word,
   rn |-> Field(word, 16, 4), rd |-> Field(word, 12, 4), offset |-> Offset(word)]

BranchWithLink(word) ==
  [format |-> "branch", condition |-> Condition(word), l |-> 24 \in word,
   offset |-> Field(word, 0, 24)]

Exchange(word) ==
  [format |-> "branch_and_exchange", condition |-> Condition(word), rn |-> Field(word, 0, 4)]

SoftwareInterrupt(word) ==
  [format |-> "software_interrupt", condition |-> Condition(word), comment |-> Field(word, 0, 24)]

BlockDataTransfer(word) ==
  [format |-> "block_data_transfer", condition |-> Condition(word), p |-> 24 \in word,
   u |-> 23 \in word, s |-> 22 \in word, w |-> 21 \in word, l |-> 20 \in word,
   rn |-> Field(word, 16, 4), registerList |-> word \cap (0 .. 15)]

\* Both halfword formats but for the offset, at the high nibble and the low.
Halfword(word) ==
  [condition |-> Condition(word), p |-> 24 \in word, u |-> 23 \in word, w |-> 21 \in word,
   load |-> 20 \in word, rn |-> Field(word, 16, 4), rd |-> Field(word, 12, 4),
   s |-> 6 \in word, h |-> 5 \in word]
HalfwordDistanceSwapped(word) == 16 * Field(word, 0, 4) + Field(word, 8, 4)
HalfwordDistance(word) == 16 * Field(word, 8, 4) + Field(word, 0, 4)

HalfwordRegister(word) ==
  [format |-> "halfword_data_transfer_register_off", rm |-> Field(word, 0, 4)] @@ Halfword(word)
HalfwordImmediate(word) ==
  [format |-> "halfword_data_transfer_immediate_off", distance |-> HalfwordDistance(word)]
    @@ Halfword(word)

\* What the handler of a format reads; the others have none.
Fields(format, word) ==
  CASE format = "data_processing" -> DataProcessing(word)
    [] format = "multiply" -> Multiply(word)
    [] format = "multiply_long" -> MultiplyLong(word)
    [] format = "single_data_transfer" -> SingleDataTransfer(word)
    [] format = "branch_and_exchange" -> Exchange(word)
    [] format = "halfword_data_transfer_register_off" -> HalfwordRegister(word)
    [] format = "halfword_data_transfer_immediate_off" -> HalfwordImmediate(word)
    [] format = "branch" -> BranchWithLink(word)
    [] format = "block_data_transfer" -> BlockDataTransfer(word)
    [] format = "software_interrupt" -> SoftwareInterrupt(word)
    [] OTHER -> [format |-> "unimplemented", condition |-> Condition(word)]

Handled == {"data_processing", "multiply", "multiply_long", "single_data_transfer",
            "branch_and_exchange", "halfword_data_transfer_immediate_off",
            "branch", "block_data_transfer", "software_interrupt"}

NoInstruction == [format |-> "unimplemented", condition |-> "NV"]

\* The switch of evaluate().  The halfword handler of the register offsets
\* asserts before it reads its fields.
evaluate ==
  LET asserts == Asserting /\ m_instructionSetFormat \notin Handled
  IN  /\ stage = "decoded"
      /\ stage' = IF asserts THEN "aborted" ELSE "evaluated"
      /\ instruction' = IF asserts THEN instruction
                        ELSE Fields(m_instructionSetFormat, m_workingInstruction)
      /\ UNCHANGED <<m_workingInstruction, m_instructionSetFormat>>

-----------------------------------------------------------------------------
\* The constructor sets no format: the first one comes from decode().
Init ==
  /\ m_workingInstruction \in FetchedWords
  /\ m_instructionSetFormat = "unset"
  /\ instruction = NoInstruction
  /\ stage = "fetched"

Next == decode \/ evaluate

Spec == Init /\ [][Next]_vars
=============================================================================
