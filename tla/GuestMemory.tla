---------------------------- MODULE GuestMemory ----------------------------
(***************************************************************************)
(* The memory of a guest: the regions its linker script lays out, the heap *)
(* _sbrk() hands to the C library from one of them, and the stack that     *)
(* calls and returns move in another.  Addresses are in any unit.          *)
(***************************************************************************)
EXTENDS Integers

CONSTANTS
  AddressModulus,               \* 2^32 bytes
  RomLength,                    \* rom is at 0
  RamOrigin, RamLength,
  StackOrigin, StackLength,
  UartOrigin, UartLength,
  Increments,                   \* what the C library asks _sbrk() for
  Frames                        \* what calls take off the stack

ld_heap_low == RamOrigin
ld_heap_top == RamOrigin + RamLength
ld_stack_top == StackOrigin + StackLength

\* An int is half of the addresses each way.
ASSUME LayoutAssumption ==
  /\ AddressModulus \in Nat /\ RomLength \in Nat /\ RamLength \in Nat
  /\ StackOrigin \in Nat /\ StackLength \in Nat /\ UartOrigin \in Nat /\ UartLength \in Nat
  /\ RamOrigin \in Nat \ {0} /\ RomLength <= RamOrigin
  /\ ld_stack_top <= UartOrigin
  /\ 2 * ld_heap_top <= AddressModulus
ASSUME SizesAssumption ==
  /\ \A incr \in Increments :
       incr \in Int /\ -AddressModulus <= 2 * incr /\ 2 * incr < AddressModulus
  /\ Frames \subseteq Nat

VARIABLES
  ld_heap_end,                  \* 0 until the first call
  returned,                     \* by the last call of _sbrk()
  sp

vars == <<ld_heap_end, returned, sp>>

HeapEnd == IF ld_heap_end = 0 THEN ld_heap_low ELSE ld_heap_end
Held == ld_heap_low .. HeapEnd - 1
Stacked == sp .. ld_stack_top - 1

-----------------------------------------------------------------------------
\* A test of where the heap ends now, not of where it would end.
EndsPastTop(from, to) == from > ld_heap_top
Collides(from, to) == to > ld_heap_top

\* What a successful call returns: prev_heap_end, or by mistake the new end.
GrantedEnd(from, to) == to
Granted(from, to) == from

_sbrk(incr) ==
  LET to == (HeapEnd + incr) % AddressModulus
  IN  /\ returned' = IF Collides(HeapEnd, to) THEN 0 ELSE Granted(HeapEnd, to)
      /\ ld_heap_end' = IF Collides(HeapEnd, to) THEN HeapEnd ELSE to
      /\ UNCHANGED sp

\* The C library gives back no more than it has.
Allocate == \E incr \in Increments : ld_heap_low <= HeapEnd + incr /\ _sbrk(incr)

\* Nothing checks sp: a guest is one whose frames fit its stack.
Call(frame) ==
  /\ StackOrigin <= sp - frame
  /\ sp' = sp - frame
  /\ UNCHANGED <<ld_heap_end, returned>>

Leave(frame) ==
  /\ sp + frame <= ld_stack_top
  /\ sp' = sp + frame
  /\ UNCHANGED <<ld_heap_end, returned>>

\* startup.s loads sp; ld_heap_end is in .data.
Init ==
  /\ ld_heap_end = 0
  /\ returned = 0
  /\ sp = ld_stack_top

Next == Allocate \/ \E frame \in Frames : Call(frame) \/ Leave(frame)

Spec == Init /\ [][Next]_vars

-----------------------------------------------------------------------------
(***************************************************************************)
(* "Heap and stack collision" (syscalls.cpp:80) is what _sbrk() tests for  *)
(* with ld_heap_top alone: the heap never reaches the stack, whatever has  *)
(* been pushed on it, nor the program below it or the uart above.          *)
(***************************************************************************)
HeapClearOfStack ==
  /\ RomLength <= ld_heap_low /\ ld_heap_low <= HeapEnd
  /\ HeapEnd <= sp /\ sp <= ld_stack_top
  /\ ld_stack_top <= UartOrigin

(***************************************************************************)
(* A call of _sbrk() that succeeds returns where the heap ended and adds   *)
(* memory that neither the library nor the stack holds; one that fails     *)
(* takes nothing away.                                                     *)
(***************************************************************************)
GrantsAreFresh ==
  [][Allocate =>
       /\ \/ returned' = 0 /\ HeapEnd' = HeapEnd
          \/ returned' = HeapEnd
       /\ \A a \in Held' \ Held : a \notin Stacked /\ a >= RomLength /\ a < UartOrigin]_vars
=============================================================================
