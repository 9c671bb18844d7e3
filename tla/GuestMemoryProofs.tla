------------------------- MODULE GuestMemoryProofs -------------------------
(***************************************************************************)
(* In every layout that ends the heap's region below the stack's, as       *)
(* armv4vm.ld does, the heap never reaches the stack.                      *)
(***************************************************************************)
EXTENDS GuestMemory, TLAPS

\* What the two scripts differ in: game.ld puts the stack inside the ram.
HeapRegionBelowStack == ld_heap_top <= StackOrigin

\* The bound of the heap is the top of its region; the stack stays in its own.
IInv ==
  /\ ld_heap_end \in Nat
  /\ sp \in Int
  /\ ld_heap_low <= HeapEnd /\ HeapEnd <= ld_heap_top
  /\ StackOrigin <= sp /\ sp <= ld_stack_top

LEMMA Regions ==
  /\ ld_heap_low \in Nat \ {0} /\ ld_heap_top \in Nat /\ ld_stack_top \in Nat
  /\ ld_heap_low <= ld_heap_top /\ StackOrigin <= ld_stack_top
  /\ RomLength <= ld_heap_low /\ ld_stack_top <= UartOrigin
  /\ StackOrigin \in Nat /\ RomLength \in Nat /\ UartOrigin \in Nat
BY LayoutAssumption DEF ld_heap_low, ld_heap_top, ld_stack_top

LEMMA HeapEndType == ASSUME IInv PROVE HeapEnd \in Nat \ {0}
BY Regions DEF IInv, HeapEnd

\* The sum of a heap end and an increment is an address, not wrapped.
LEMMA NoWrap ==
  ASSUME IInv, NEW incr \in Increments, ld_heap_low <= HeapEnd + incr
  PROVE  (HeapEnd + incr) % AddressModulus = HeapEnd + incr
<1>1. /\ HeapEnd \in Nat /\ HeapEnd <= ld_heap_top
      /\ incr \in Int /\ 2 * incr < AddressModulus
  BY HeapEndType, SizesAssumption DEF IInv
<1>2. AddressModulus \in Nat /\ 2 * ld_heap_top <= AddressModulus
  BY LayoutAssumption
<1>3. HeapEnd + incr \in 0 .. AddressModulus - 1
  BY <1>1, <1>2, Regions
<1>4. \A x \in Int, m \in Nat : x \in 0 .. m - 1 => x % m = x
  OBVIOUS
<1> QED
  BY <1>1, <1>2, <1>3, <1>4

\* Both outcomes of _sbrk(): nothing changes, or the heap ends higher or
\* lower and still in its region.
LEMMA SbrkOutcome ==
  ASSUME IInv, NEW incr \in Increments, ld_heap_low <= HeapEnd + incr, _sbrk(incr)
  PROVE  /\ ld_heap_end' \in Nat \ {0} /\ HeapEnd' = ld_heap_end' /\ sp' = sp
         /\ \/ HeapEnd' = HeapEnd /\ returned' = 0
            \/ /\ HeapEnd' = HeapEnd + incr /\ HeapEnd' <= ld_heap_top
               /\ returned' = HeapEnd
<1>1. /\ HeapEnd \in Nat \ {0} /\ incr \in Int
      /\ HeapEnd + incr \in Nat \ {0}
  BY HeapEndType, Regions, SizesAssumption
<1>2. \/ ld_heap_end' = HeapEnd /\ returned' = 0
      \/ /\ ld_heap_end' = HeapEnd + incr /\ HeapEnd + incr <= ld_heap_top
         /\ returned' = HeapEnd
  BY <1>1, NoWrap, Regions DEF _sbrk, Collides, Granted
<1>3. ld_heap_end' \in Nat \ {0} /\ HeapEnd' = ld_heap_end'
  BY <1>1, <1>2 DEF HeapEnd
<1> QED
  BY <1>1, <1>2, <1>3 DEF _sbrk

LEMMA InitInv == Init => IInv
BY Regions DEF Init, IInv, HeapEnd

LEMMA NextInv == IInv /\ [Next]_vars => IInv'
<1> SUFFICES ASSUME IInv, [Next]_vars PROVE IInv'
  OBVIOUS
<1>1. CASE Allocate
  <2>1. PICK incr \in Increments : ld_heap_low <= HeapEnd + incr /\ _sbrk(incr)
    BY <1>1 DEF Allocate
  <2>2. incr \in Int
    BY SizesAssumption
  <2> QED
    BY <2>1, <2>2, SbrkOutcome, Regions DEF IInv, ld_heap_low, ld_heap_top, ld_stack_top
<1>2. CASE \E frame \in Frames : Call(frame)
  <2>1. PICK frame \in Frames : Call(frame)
    BY <1>2
  <2>2. frame \in Nat /\ HeapEnd' = HeapEnd
    BY <2>1, SizesAssumption DEF Call, HeapEnd
  <2> QED
    BY <2>1, <2>2, Regions DEF Call, IInv, ld_heap_low, ld_heap_top, ld_stack_top
<1>3. CASE \E frame \in Frames : Leave(frame)
  <2>1. PICK frame \in Frames : Leave(frame)
    BY <1>3
  <2>2. frame \in Nat /\ HeapEnd' = HeapEnd
    BY <2>1, SizesAssumption DEF Leave, HeapEnd
  <2> QED
    BY <2>1, <2>2, Regions DEF Leave, IInv, ld_heap_low, ld_heap_top, ld_stack_top
<1>4. CASE UNCHANGED vars
  BY <1>4 DEF vars, IInv, HeapEnd
<1> QED
  BY <1>1, <1>2, <1>3, <1>4 DEF Next

\* The heap keeps clear of the stack, the program and the uart, for every
\* layout of that kind, every request and every frame.
THEOREM HeapStaysClear ==
  ASSUME HeapRegionBelowStack
  PROVE  Spec => []HeapClearOfStack
<1>1. IInv => HeapClearOfStack
  BY HeapEndType, Regions DEF IInv, HeapClearOfStack, HeapRegionBelowStack
<1> QED
  BY InitInv, NextInv, <1>1, PTL DEF Spec

\* A successful _sbrk() grants memory that is nobody else's.
THEOREM GrantsStayFresh ==
  ASSUME HeapRegionBelowStack
  PROVE  Spec => GrantsAreFresh
<1>1. IInv /\ [Next]_vars =>
        [Allocate =>
           /\ \/ returned' = 0 /\ HeapEnd' = HeapEnd
              \/ returned' = HeapEnd
           /\ \A a \in Held' \ Held : a \notin Stacked /\ a >= RomLength /\ a < UartOrigin]_vars
  <2> SUFFICES ASSUME IInv, Allocate
               PROVE  /\ \/ returned' = 0 /\ HeapEnd' = HeapEnd
                         \/ returned' = HeapEnd
                      /\ \A a \in Held' \ Held :
                           a \notin Stacked /\ a >= RomLength /\ a < UartOrigin
    OBVIOUS
  <2>1. PICK incr \in Increments : ld_heap_low <= HeapEnd + incr /\ _sbrk(incr)
    BY DEF Allocate
  <2>2. incr \in Int /\ HeapEnd \in Nat /\ sp \in Int /\ StackOrigin <= sp
    BY HeapEndType, SizesAssumption DEF IInv
  <2>3. /\ HeapEnd' \in Nat
        /\ \/ HeapEnd' = HeapEnd /\ returned' = 0
           \/ HeapEnd' <= ld_heap_top /\ returned' = HeapEnd
    BY <2>1, SbrkOutcome
  <2>4. ASSUME NEW a \in Held' \ Held
        PROVE  a \notin Stacked /\ a >= RomLength /\ a < UartOrigin
    <3>1. a \in ld_heap_low .. HeapEnd' - 1 /\ a \notin ld_heap_low .. HeapEnd - 1
      BY <2>4 DEF Held, ld_heap_low
    <3>2. HeapEnd' # HeapEnd
      BY <3>1
    <3>3. HeapEnd' <= ld_heap_top /\ ld_heap_top \in Nat /\ ld_heap_low \in Nat
      BY <2>3, <3>2, Regions
    <3>4. \A low, end, top \in Nat : \A x \in low .. end - 1 :
            end <= top => x \in Int /\ low <= x /\ x < top
      OBVIOUS
    <3>5. a \in Int /\ ld_heap_low <= a /\ a < ld_heap_top
      BY <2>3, <3>1, <3>3, <3>4
    <3> QED
      BY <2>2, <3>5, Regions DEF Stacked, HeapRegionBelowStack
  <2> QED
    BY <2>3, <2>4
<1> QED
  BY InitInv, NextInv, <1>1, PTL DEF Spec, GrantsAreFresh
=============================================================================
