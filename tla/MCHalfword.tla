----------------------------- MODULE MCHalfword -----------------------------
(***************************************************************************)
(* Halfwords and signed bytes of one memory, seen through every transfer   *)
(* that can see them, with the base on either halfword of a word, at both  *)
(* ends of the memory and over the program.                                *)
(***************************************************************************)
EXTENDS TransferContract, MCRun

Half(l, s, h, rd, rn, distance) ==
  [format |-> "halfword_data_transfer_immediate_off", condition |-> "AL",
   load |-> l, s |-> s, h |-> h, p |-> TRUE, u |-> TRUE, w |-> FALSE,
   rd |-> rd, rn |-> rn, distance |-> distance]
Ldrh(rd, rn, distance) == Half(TRUE, FALSE, TRUE, rd, rn, distance)
Ldrsh(rd, rn, distance) == Half(TRUE, TRUE, TRUE, rd, rn, distance)
Ldrsb(rd, rn, distance) == Half(TRUE, TRUE, FALSE, rd, rn, distance)
Strh(rd, rn, distance) == Half(FALSE, FALSE, TRUE, rd, rn, distance)
Post(word) == [word EXCEPT !.p = FALSE]
Down(word) == [word EXCEPT !.u = FALSE]

\* A word stored whole and read in parts, and one stored in parts.
Views == <<Str(0, 1, 0), Ldrh(2, 1, 0), Ldrh(3, 1, 2), Ldrsh(4, 1, 2), Ldrsb(5, 1, 3),
           Ldrsh(6, 1, 0)>>
Join == <<Strh(0, 1, 0), Strh(2, 1, 2), Ldr(3, 1, 0)>>

\* The sum of three halfwords of an array, and the way back over them.
Walk == <<Post(Ldrsh(3, 1, 2)), Alu("ADD", 2, 2, Reg(3)), Post(Ldrsh(3, 1, 2)),
          Alu("ADD", 2, 2, Reg(3)), Post(Ldrsh(3, 1, 2)), Alu("ADD", 2, 2, Reg(3)),
          [Down(Ldrh(3, 1, 6)) EXCEPT !.w = TRUE]>>

\* Every load by register, and the same by immediate.
ByRegister(word, rm) ==
  [r \in (DOMAIN word \ {"distance"}) \cup {"rm"} |->
     IF r = "rm" THEN rm
     ELSE IF r = "format" THEN "halfword_data_transfer_register_off" ELSE word[r]]
Loads == {Half(TRUE, s, h, 2, 1, 4) : s \in BOOLEAN, h \in BOOLEAN}
Twice(word) == <<ByRegister([word EXCEPT !.rd = 3], 4), word>>
Twices == {Twice(word) : word \in Loads \cup {Down(word) : word \in Loads}}

Singles ==
  {<<t>> : t \in [format : {"halfword_data_transfer_immediate_off"}, condition : {"AL"},
                  load : BOOLEAN, s : {FALSE}, h : {TRUE}, p : BOOLEAN, u : BOOLEAN,
                  w : BOOLEAN, rd : {0}, rn : {1, PC}, distance : {0, 2}]
             \cup [format : {"halfword_data_transfer_register_off"}, condition : {"AL"},
                   load : BOOLEAN, s : {FALSE}, h : {TRUE}, p : BOOLEAN, u : BOOLEAN,
                   w : BOOLEAN, rd : {0}, rn : {1}, rm : {4}]}
Omitted == {<<[format |-> "unimplemented", condition |-> "AL"], If("NV", Mov(0, Imm(1)))>>}

HalfwordPrograms == {Views, Join, Walk} \cup Twices \cup Singles \cup Omitted

PatternStart(program, r0, base, r2) ==
  /\ Begun(program)
  /\ registers = [r \in Register |->
                    CASE r = 0 -> r0 [] r = 1 -> base [] r = 2 -> r2 [] r = 4 -> 4
                      [] OTHER -> 0]
  /\ cpsr = NoFlags
  /\ ram = [a \in Ram |-> Pattern(a)]

HalfwordInit ==
  \/ \E r0 \in Word : PatternStart(Views, r0, Middle, 0)
  \/ \E r0 \in Word, r2 \in Ends, base \in {Middle, Middle + 2} : PatternStart(Join, r0, base, r2)
  \/ \E base \in Middle .. MemSize - 12 : PatternStart(Walk, 0, base, 0)
  \/ \E program \in Twices, base \in Middle .. MemSize - 8 : PatternStart(program, 0, base, 0)
  \/ \E program \in Singles, base \in {0, 1, 4, Middle, Middle + 2, MemSize - 4, MemSize - 2,
                                       MemSize - 1, Modulus - 1} :
       PatternStart(program, 3, base, 0)
  \/ \E program \in Omitted : PatternStart(program, 0, 0, 0)

-----------------------------------------------------------------------------
(***************************************************************************)
(* A word and its halves and bytes are one memory: the halves of a stored  *)
(* word are its quotient and remainder, the signed ones are those of the   *)
(* signed word, and two stored halves make the word, whichever half of a   *)
(* word the base is on, with every other byte left as it was.              *)
(***************************************************************************)
Wide(r) == IF NEG(registers[r]) THEN registers[r] - Modulus ELSE registers[r]
HalfwordViews ==
  phase = "idle" =>
    /\ code = CodeOf(Views) =>
         /\ HalfModulus * registers[3] + registers[2] = registers[0]
         /\ Wide(4) = Wide(0) \div HalfModulus
         /\ Wide(5) = Wide(0) \div (HalfModulus * ByteModulus)
         /\ (Wide(6) - registers[2]) \in {0, -HalfModulus}
         /\ 2 * registers[2] >= HalfModulus <=> Wide(6) < 0
    /\ code = CodeOf(Join) =>
         /\ registers[3] % HalfModulus = registers[0] % HalfModulus
         /\ registers[3] \div HalfModulus = registers[2] % HalfModulus
         /\ \A a \in Ram \ Bytes(registers[1], 4) : ram[a] = Pattern(a)

(***************************************************************************)
(* LDRSH with post-indexing walks an array of signed halfwords and a       *)
(* pre-indexed load with write-back walks back: the sum is the one of the  *)
(* signed elements and the base returns.                                   *)
(***************************************************************************)
Element(a) ==
  LET half == Pattern(a) + ByteModulus * Pattern(a + 1)
  IN  IF 2 * half >= HalfModulus THEN half - HalfModulus ELSE half
HalfwordWalk ==
  phase = "idle" /\ code = CodeOf(Walk) =>
    \E base \in Middle .. MemSize - 12 :
      /\ registers[1] = base
      /\ registers[2] = Wrap(Element(base) + Element(base + 2) + Element(base + 4))
      /\ registers[3] = Element(base) % HalfModulus

(***************************************************************************)
(* In a build without assertions the handler of the register offsets runs, *)
(* and a pre-indexed load gives what the immediate offset gives.           *)
(***************************************************************************)
RegisterOffsetAgrees ==
  \A word \in Loads \cup {Down(l) : l \in Loads} :
    phase = "idle" /\ code = CodeOf(Twice(word)) => registers[2] = registers[3]
=============================================================================
