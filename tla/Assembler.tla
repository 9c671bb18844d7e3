----------------------------- MODULE Assembler -----------------------------
(***************************************************************************)
(* Instruction records under their assembly names, and program images, for *)
(* the guest programs the model-checked instances run.  Nothing here       *)
(* models code: the records are the ones Vm decodes.                       *)
(***************************************************************************)
EXTENDS Vm, TLC
LOCAL INSTANCE FiniteSetsExt

SP == 13

Imm(byte) == [kind |-> "immediate", byte |-> byte, rotation |-> 0]
Reg(rm) == [kind |-> "by_value", type |-> "LSL", rm |-> rm, amount |-> 0]

Alu(opcode, rd, rn, operand2) ==
  [format |-> "data_processing", condition |-> "AL", opcode |-> opcode,
   s |-> FALSE, rd |-> rd, rn |-> rn, operand2 |-> operand2]
AluS(opcode, rd, rn, operand2) == [Alu(opcode, rd, rn, operand2) EXCEPT !.s = TRUE]
Mov(rd, operand2) == Alu("MOV", rd, 0, operand2)
Cmp(rn, operand2) == AluS("CMP", 0, rn, operand2)

\* [rn, #distance]: pre-indexed without, post-indexed with write-back.
Transfer(l, b, p, rd, rn, distance) ==
  [format |-> "single_data_transfer", condition |-> "AL", load |-> l, b |-> b,
   p |-> p, u |-> TRUE, w |-> FALSE, rd |-> rd, rn |-> rn,
   offset |-> [kind |-> "distance", value |-> distance]]
Ldr(rd, rn, distance) == Transfer(TRUE, FALSE, TRUE, rd, rn, distance)
Str(rd, rn, distance) == Transfer(FALSE, FALSE, TRUE, rd, rn, distance)
LdrbPost(rd, rn, distance) == Transfer(TRUE, TRUE, FALSE, rd, rn, distance)
StrbPost(rd, rn, distance) == Transfer(FALSE, TRUE, FALSE, rd, rn, distance)

Block(l, p, u, rn, list) ==
  [format |-> "block_data_transfer", condition |-> "AL", l |-> l, p |-> p, u |-> u,
   w |-> TRUE, s |-> FALSE, rn |-> rn, registerList |-> list]
Push(list) == Block(FALSE, TRUE, FALSE, SP, list)       \* STMFD sp!
Pop(list) == Block(TRUE, FALSE, TRUE, SP, list)         \* LDMFD sp!

\* The offset field of a branch from one address to another.
Branch(l, from, to) ==
  [format |-> "branch", condition |-> "AL", l |-> l,
   offset |-> ((to - from - 8) \div 4) % FieldModulus]
B(from, to) == Branch(FALSE, from, to)
Bl(from, to) == Branch(TRUE, from, to)
Bx(rn) == [format |-> "branch_and_exchange", condition |-> "AL", rn |-> rn]
Swi(comment) ==
  [format |-> "software_interrupt", condition |-> "AL", comment |-> comment]

If(condition, word) == [word EXCEPT !.condition = condition]

\* A program from an address on, and the words of its literal pool.
CodeAt(start, program) ==
  [a \in {start + 4 * (k - 1) : k \in DOMAIN program} |-> program[((a - start) \div 4) + 1]]
CodeOf(program) == CodeAt(0, program)
\* Two parts of a program or of its data: f @@ g, unfolded.
Joined(f, g) == [a \in DOMAIN f \cup DOMAIN g |-> IF a \in DOMAIN f THEN f[a] ELSE g[a]]
NoData == [a \in {} |-> 0]
Literal(address, words) ==
  [a \in Bytes(address, 4 * Len(words)) |->
     ByteOf(words[((a - address) \div 4) + 1], (a - address) % 4)]

\* The file ends with its last byte of code or data.
File(program, constants) ==
  [code |-> program, data |-> constants,
   size |-> 1 + Max(DOMAIN constants \cup UNION {Bytes(a, 4) : a \in DOMAIN program})]
=============================================================================
