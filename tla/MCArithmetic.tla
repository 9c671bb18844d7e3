---------------------------- MODULE MCArithmetic ----------------------------
(***************************************************************************)
(* One call of run() on the programs of MCAlu and MCMultiply.              *)
(***************************************************************************)
EXTENDS MCAlu, MCMultiply

MCImages == ImagesOf(AluPrograms \cup MultiplyPrograms)
MCBudgets == {1, 2, 3}

MCInit == AluInit \/ MultiplyInit
MCSpec == MCInit /\ [][Turn]_vars
=============================================================================
