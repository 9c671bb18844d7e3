------------------------------ MODULE MCGuests ------------------------------
(***************************************************************************)
(* Guest programs of the kind a compiler emits, run by the host loop with  *)
(* budgets chosen anew for every call of run(): a loop that copies bytes,  *)
(* a recursive function, and a jump table with an indirect call.           *)
(***************************************************************************)
EXTENDS Slices, Assembler, MCWords

StackTop == 120

\* do *dst++ = *src++; while (--n);
CopyCode(n) == CodeOf(<<
  Ldr(0, PC, 24), Ldr(1, PC, 24), Mov(2, Imm(n)),
  LdrbPost(3, 0, 1), StrbPost(3, 1, 1),
  AluS("SUB", 2, 2, Imm(1)), If("NE", B(24, 12)), Swi(2)>>)
CopyFile(n, source, destination, bytes) ==
  File(CopyCode(n), Joined(Literal(32, <<source, destination>>), bytes))
Source == 41
Destination == 50
Length == 3
Copies ==
  {CopyFile(Length, Source, Destination, bytes) :
     bytes \in [Bytes(Source, Length) -> {1, 3}]}

\* sum(n) = n ? n + sum(n - 1) : 0
SumCode(n) == CodeOf(<<
  Ldr(SP, PC, 40), Mov(0, Imm(n)), Bl(8, 16), Swi(2),
  Cmp(0, Imm(0)), If("EQ", Bx(LR)),
  Push({4, LR}), Mov(4, Reg(0)), Alu("SUB", 0, 0, Imm(1)), Bl(36, 16),
  Alu("ADD", 0, 0, Reg(4)), Pop({4, PC})>>)
SumFile(n, top) == File(SumCode(n), Literal(48, <<top>>))
Arguments == 0 .. 3
Sums == {SumFile(n, StackTop) : n \in Arguments}

\* A switch through a table of addresses: each case leaves its number in
\* r1, the last one by calling the first through a function pointer.
SwitchCode(k) ==
  Joined(
    CodeOf(<<Ldr(SP, PC, 80), Mov(0, Imm(k)), Bl(8, 16), Swi(2),
             [Ldr(PC, PC, 0) EXCEPT !.offset = [Reg(0) EXCEPT !.amount = 2]]>>),
    CodeAt(36, <<Mov(1, Imm(1)), Mov(PC, Reg(LR)),                     \* case 0
                 Mov(1, Imm(2)), Mov(PC, Reg(LR)),                     \* case 1
                 Push({LR}), Ldr(5, PC, 28), Mov(LR, Reg(PC)), Bx(5),  \* case 2
                 Alu("ADD", 1, 1, Imm(2)), Pop({PC})>>))
SwitchFile(k, top) ==
  File(SwitchCode(k), Joined(Literal(24, <<36, 44, 52>>), Literal(88, <<top, 36>>)))
Cases == 0 .. 2
Switches == {SwitchFile(k, StackTop) : k \in Cases}

GuestImages == Copies \cup Sums \cup Switches
GuestBudgets == {0, 1, 2}

(***************************************************************************)
(* Whatever the budgets, a guest that stops has computed what its source   *)
(* says: the bytes are copied and nothing else is written, the sum is      *)
(* right and the callee-saved register and the stack are back, and the     *)
(* right case of the switch ran.                                           *)
(***************************************************************************)
GuestsCompute ==
  host = "done" =>
    /\ code = CopyCode(Length) =>
         \E image \in Copies :
           ram = [a \in Ram |->
                    IF a \in Bytes(Destination, Length)
                    THEN image.data[Source + a - Destination]
                    ELSE IF a \in DOMAIN image.data THEN image.data[a] ELSE 0]
    /\ \A n \in Arguments :
         code = SumCode(n) =>
           registers[0] = (n * (n + 1)) \div 2 /\ registers[4] = 0 /\ registers[SP] = StackTop
    /\ \A k \in Cases :
         code = SwitchCode(k) => registers[1] = k + 1 /\ registers[SP] = StackTop
=============================================================================
