----------------------------- MODULE MCSingle ------------------------------
(***************************************************************************)
(* Each word and byte transfer next to the instructions that do the same   *)
(* one thing at a time: its index computed by an addition or subtraction,  *)
(* then a plain load.  Bases are inside the memory, at both of its ends    *)
(* and over the program; an index in a register may be negative.           *)
(***************************************************************************)
EXTENDS TransferContract, MCRun

\* As the second operand of an addition, and as the offset of a transfer.
ByDistance == {Imm(n) : n \in {0, 1, 3}}
ByIndex ==
  {[Reg(3) EXCEPT !.type = by[1], !.amount = by[2]] :
     by \in {<<"LSL", 0>>, <<"LSL", 1>>, <<"ASR", 1>>, <<"ROR", 0>>}}
OffsetOf(operand2) ==
  IF operand2.kind = "immediate" THEN [kind |-> "distance", value |-> operand2.byte] ELSE operand2

\* The transfer indexes r1, from or to which it may also move; r5 is a copy of
\* it and r7 another.
Transferred(l, b, p, u, w, rd, operand2) ==
  [Transfer(l, b, p, rd, 1, 0) EXCEPT !.u = u, !.w = w, !.offset = OffsetOf(operand2)]
Index(u, operand2) == Alu(IF u THEN "ADD" ELSE "SUB", 5, 5, operand2)
Plain(b) == Transfer(TRUE, b, TRUE, 6, 5, 0)

Stepwise(l, b, p, u, w, rd, operand2) ==
  LET rest == IF p THEN <<Index(u, operand2), Plain(b)>> ELSE <<Plain(b), Index(u, operand2)>>
  IN  <<Transferred(l, b, p, u, w, rd, operand2)>> \o rest

WordPrograms ==
  {Stepwise(l, b, p, u, w, rd, operand2) : l \in BOOLEAN, b \in BOOLEAN, p \in BOOLEAN,
     u \in BOOLEAN, w \in BOOLEAN, rd \in {1, 2}, operand2 \in ByDistance \cup ByIndex}

SingleInit ==
  /\ \E program \in WordPrograms : Begun(program)
  /\ \E base \in {0, 12, 14, Middle, MemSize - 4, MemSize - 1, Modulus - 1},
        stored \in {3, 228}, index \in {1, 4, Modulus - 4}, c \in Flag :
       /\ registers = [r \in Register |-> CASE r \in {1, 5, 7} -> base [] r = 2 -> stored
                                            [] r = 3 -> index [] OTHER -> 0]
       /\ cpsr = [NoFlags EXCEPT !.c = c]
  /\ ram = [a \in Ram |-> Pattern(a)]

-----------------------------------------------------------------------------
\* The program is one of WordPrograms.
Stepping == programSize = 12 /\ code[0].format = "single_data_transfer"

(***************************************************************************)
(* The sixteen arms of singleDataTranferEval() agree with one another: a   *)
(* transfer that comes back moved the bytes at the address its P and U     *)
(* bits and its offset ask for, a store changed no others, and the base    *)
(* moved by the offset if and only if it is post-indexed or asks for it.   *)
(* When the register moved is the base, a store takes it before it moves,  *)
(* and a load is lost under the base that is written back.                 *)
(***************************************************************************)
TransferInSteps ==
  phase = "idle" /\ Stepping =>
    LET t == code[0]
        address == IF t.p THEN registers[5] ELSE registers[7]
        bytes == Bytes(address, IF t.b THEN 1 ELSE 4)
        stored == IF t.rd = 1 THEN registers[7] ELSE registers[2]
    IN  /\ registers[1] = IF t.w \/ ~t.p THEN registers[5]
                          ELSE IF t.load /\ t.rd = 1 THEN registers[6] ELSE registers[7]
        /\ t.load /\ t.rd = 2 => registers[2] = registers[6]
        /\ ~t.load => registers[6] = IF t.b THEN stored % ByteModulus ELSE stored
        /\ \A a \in Ram : ram[a] = Pattern(a) \/ (~t.load /\ a \in bytes)
=============================================================================
