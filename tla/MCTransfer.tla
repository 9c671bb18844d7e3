----------------------------- MODULE MCTransfer -----------------------------
(***************************************************************************)
(* One call of run() on the programs of MCSingle and MCHalfword, in a      *)
(* build without assertions.                                               *)
(***************************************************************************)
EXTENDS MCSingle, MCHalfword

MCImages == ImagesOf(WordPrograms \cup HalfwordPrograms)
MCBudgets == {1, 2, 3, 6, 7}

MCInit == SingleInit \/ HalfwordInit
MCSpec == MCInit /\ [][Turn]_vars
=============================================================================
