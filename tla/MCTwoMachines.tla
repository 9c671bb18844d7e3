--------------------------- MODULE MCTwoMachines ---------------------------
(***************************************************************************)
(* Two guests that push and pop, one of them suspended in between, run for *)
(* one or two instructions at a time.                                      *)
(***************************************************************************)
EXTENDS TwoMachines, MCWords, Sequences

Asm == INSTANCE Assembler WITH registers <- registersA, cpsr <- cpsrA, ram <- ramA,
         code <- codeA, instruction <- instructionA, phase <- phaseA, limit <- limitA,
         iter <- iterA, programSize <- programSizeA, result <- resultA,
         Images <- {}, Budgets <- {}

\* 2 rotated by 4 in 8 bits.
Top == [Asm!Imm(2) EXCEPT !.rotation = 2]

Straight == <<Asm!Mov(13, Top), Asm!Push({0, 13}), Asm!Pop({2, 3}), Asm!Swi(2)>>
Suspended == <<Asm!Mov(13, Top), Asm!Push({1, 13, 15}), Asm!Swi(3), Asm!Pop({2, 3, 4}),
               Asm!Swi(2)>>

MCImages == {Asm!File(Asm!CodeOf(p), Asm!NoData) : p \in {Straight, Suspended}}
MCBudgets == {1, 2}
=============================================================================
