------------------------------ MODULE MCWords ------------------------------
(***************************************************************************)
(* Values TLC gives the bitwise operators of Words on words of up to eight *)
(* bits: two nibbles, each looked up in a table that is computed once.     *)
(***************************************************************************)
EXTENDS Integers

Nibble == 0 .. 15

\* An operator on bits, on each of the four bits of two nibbles.
OfBits(bit(_, _), x, y) ==
  LET At(k) == 2^k * bit((x \div 2^k) % 2, (y \div 2^k) % 2)
  IN  At(0) + At(1) + At(2) + At(3)

AndBit(x, y) == x * y
OrBit(x, y) == x + y - x * y
XorBit(x, y) == (x + y) % 2

AndTable == [x \in Nibble |-> [y \in Nibble |-> OfBits(AndBit, x, y)]]
OrTable == [x \in Nibble |-> [y \in Nibble |-> OfBits(OrBit, x, y)]]
XorTable == [x \in Nibble |-> [y \in Nibble |-> OfBits(XorBit, x, y)]]

Nibbles(table, a, b) == 16 * table[a \div 16][b \div 16] + table[a % 16][b % 16]

MCAnd(a, b) == Nibbles(AndTable, a, b)
MCOr(a, b) == Nibbles(OrTable, a, b)
MCXor(a, b) == Nibbles(XorTable, a, b)
=============================================================================
