------------------------------ MODULE MCDecode ------------------------------
(***************************************************************************)
(* The words decode() is tried on: every combination of the bits its masks *)
(* test, over fields that differ from one another.                         *)
(***************************************************************************)
EXTENDS Encoding

\* Condition AL, and NE with rn = r4, rd = r1 and rm = r2.  Bits 12 to 19 only
\* matter to the one mask that wants all of them set.
Always == {29, 30, 31}
Swept ==
  {tested \cup others : tested \in SUBSET ((4 .. 11) \cup (20 .. 27)),
                        others \in {Always, Always \cup (12 .. 19), {1, 12, 18, 28}}}

-----------------------------------------------------------------------------
(* Words of the unit tests under the assembly the tests give them.         *)

Register(rm) == [kind |-> "by_value", type |-> "LSL", rm |-> rm, amount |-> 0]
Unconditional(t) == t @@ [condition |-> "AL"]

ASSUME UnitTestWords ==
  \A pair \in {
      <<Halves(\he002, \h0190), [format |-> "multiply", a |-> FALSE, s |-> FALSE,
          rd |-> 2, rn |-> 0, rs |-> 1, rm |-> 0]>>,
      <<Halves(\he020, \h3291), [format |-> "multiply", a |-> TRUE, s |-> FALSE,
          rd |-> 0, rn |-> 3, rs |-> 2, rm |-> 1]>>,
      <<Halves(\he08e, \hc290), [format |-> "multiply_long", u |-> FALSE, a |-> FALSE,
          s |-> FALSE, rdhi |-> 14, rdlo |-> 12, rs |-> 2, rm |-> 0]>>,
      <<Halves(\he1d1, \h20de), [format |-> "halfword_data_transfer_immediate_off",
          load |-> TRUE, s |-> TRUE, h |-> FALSE, p |-> TRUE, u |-> TRUE, w |-> FALSE,
          rd |-> 2, rn |-> 1, distance |-> 14]>>,
      <<Halves(\he0c3, \h20b2), [format |-> "halfword_data_transfer_immediate_off",
          load |-> FALSE, s |-> FALSE, h |-> TRUE, p |-> FALSE, u |-> TRUE, w |-> FALSE,
          rd |-> 2, rn |-> 3, distance |-> 2]>>,
      <<Halves(\he7b1, \h0002), [format |-> "single_data_transfer", load |-> TRUE, b |-> FALSE,
          p |-> TRUE, u |-> TRUE, w |-> TRUE, rd |-> 0, rn |-> 1, offset |-> Register(2)]>>,
      <<Halves(\he401, \h0018), [format |-> "single_data_transfer", load |-> FALSE,
          b |-> FALSE, p |-> FALSE, u |-> FALSE, w |-> FALSE, rd |-> 0, rn |-> 1,
          offset |-> [kind |-> "distance", value |-> 24]]>>,
      <<Halves(\he0b1, \h1553), [format |-> "data_processing", opcode |-> "ADC", s |-> TRUE,
          rd |-> 1, rn |-> 1,
          operand2 |-> [kind |-> "by_register", type |-> "ASR", rm |-> 3, rs |-> 5]]>>,
      <<Halves(\he311, \h0102), [format |-> "data_processing", opcode |-> "TST", s |-> TRUE,
          rd |-> 0, rn |-> 1,
          operand2 |-> [kind |-> "immediate", byte |-> 2, rotation |-> 1]]>>,
      <<Halves(\he8bd, \h000f), [format |-> "block_data_transfer", l |-> TRUE, p |-> FALSE,
          u |-> TRUE, w |-> TRUE, s |-> FALSE, rn |-> 13, registerList |-> 0 .. 3]>> } :
    Encode(Unconditional(pair[2])) = pair[1]
=============================================================================
