------------------------------ MODULE MCHello ------------------------------
(***************************************************************************)
(* The guest side of the console, as test_compile builds it: startup.s     *)
(* calls main, main calls _write(), which leaves each character at the     *)
(* UART and suspends the machine.  Host and guest together are a Channel.  *)
(***************************************************************************)
EXTENDS Slices, Assembler, MCWords

HelloCode(n) == CodeOf(<<
  Ldr(SP, PC, 52), Bl(4, 12), Swi(2),                              \* reset
  Push({4, LR}), Ldr(0, PC, 40), Mov(2, Imm(n)), Bl(24, 32),       \* main
  Pop({4, PC}),
  Ldr(1, PC, 28), LdrbPost(3, 0, 1), Str(3, 1, 0), Swi(3),         \* _write
  AluS("SUB", 2, 2, Imm(1)), If("NE", B(52, 36)), Bx(LR)>>)
HelloData(message, text, top) ==
  Joined(Literal(60, <<top, text, Uart>>),
         [a \in Bytes(text, Len(message)) |-> message[a - text + 1]])
HelloFile(message, text, top) == File(HelloCode(Len(message)), HelloData(message, text, top))

Message == <<1, 3, 3>>
Text == 72
HelloTop == 120
HelloImages == {HelloFile(Message, Text, HelloTop)}
HelloBudgets == {0, 1, 2, 3}

Console == INSTANCE Channel WITH stopped <- host = "done"

(***************************************************************************)
(* Host and guest implement the channel: every character the guest writes  *)
(* is printed once and in order, however often run() comes back early with *)
(* its budget spent, and the host stops only after the last one.           *)
(***************************************************************************)
DeliversMessage == Console!ChannelSafety

(***************************************************************************)
(* The guest goes on from where run() left it: they are never stuck with   *)
(* part of the message on the console, nor with all of it and the host     *)
(* still in its loop.                                                      *)
(***************************************************************************)
DeliversAll == Console!ChannelFairness
=============================================================================
