--------------------------- MODULE MCGuestMemory ---------------------------
(***************************************************************************)
(* The map of armv4vm.ld in units of 1 MiB, with the small and the large   *)
(* requests a C library can make.                                          *)
(***************************************************************************)
EXTENDS GuestMemory

MCIncrements == {-16, -1, 0, 1, 3, 16, 61, 2047}
MCFrames == {1, 2}
=============================================================================
