-------------------------------- MODULE MCVm --------------------------------
(***************************************************************************)
(* The whole specification on programs of one or two instructions: the     *)
(* ways a machine starts, is loaded, started over, comes back from run()   *)
(* and gets lost.                                                          *)
(***************************************************************************)
EXTENDS Assembler, MCWords

Branches64 == {<<[Branch(l, 0, 0) EXCEPT !.offset = f]>> : l \in BOOLEAN, f \in Field}

Endings ==
  { <<[format |-> "unimplemented", condition |-> "NE"]>>,
    <<If("NV", Mov(0, Imm(1)))>>,
    <<If("EQ", Mov(0, Imm(1))), If("NE", Mov(0, Imm(2)))>>,
    <<Ldr(0, PC, MemSize)>>,                          \* past the end
    <<LdrbPost(0, 1, 1), Str(0, 1, 0)>>,              \* over the program
    <<[LdrbPost(0, PC, MemSize - 9) EXCEPT !.p = TRUE]>>,
    <<Mov(PC, Imm(2))>>,                              \* into the program
    <<[Pop({1}) EXCEPT !.s = TRUE]>>,                 \* the user bank
    <<[format |-> "halfword_data_transfer_immediate_off", condition |-> "AL",
       load |-> TRUE, s |-> FALSE, h |-> TRUE, p |-> TRUE, u |-> TRUE, w |-> FALSE,
       rd |-> 0, rn |-> PC, distance |-> 0]>>,
    <<Mov(1, Imm(0)), Bx(1)>> }                       \* round and round
  \cup {<<Swi(comment)>> : comment \in 0 .. 4}

MCImages ==
  {File(CodeOf(p), NoData) : p \in Branches64 \cup Endings}
  \cup {File(CodeOf(<<Swi(2)>>), Literal(MemSize - 4, <<1, 2>>))}
MCBudgets == {0, 1, 2}
=============================================================================
