-------------------------- MODULE MultipleTransfer --------------------------
(***************************************************************************)
(* What a block transfer promises.  The listed registers occupy one run of *)
(* words, the lowest register at the lowest address, above or below the    *)
(* base; each is moved once, in no particular order; the base moves by the *)
(* size of the run, last.  A transfer may end early on a bad address.      *)
(***************************************************************************)
EXTENDS Words, FiniteSets

VARIABLES
  registers, ram,
  moving,           \* a transfer is under way...
  order,            \* ...this instruction...
  base,             \* ...from this base...
  pending           \* ...and these registers are still to be moved

transferVars == <<registers, ram, moving, order, base, pending>>

Size == 4 * Cardinality(order.registerList)

Lowest ==
  CASE order.u /\ ~order.p -> base                   \* IA
    [] order.u /\ order.p -> base + 4                \* IB
    [] ~order.u /\ ~order.p -> base - Size + 4       \* DA
    [] ~order.u /\ order.p -> base - Size            \* DB

Address(r) == Wrap(Lowest + 4 * Cardinality({q \in order.registerList : q < r}))

\* The pc is stored as the address of the instruction plus 12.
Held(r) == IF r = 15 THEN Wrap(registers[15] + 8) ELSE registers[r]

Begin ==
  /\ ~moving /\ moving'
  /\ base' = registers[order'.rn]
  /\ pending' = order'.registerList
  /\ UNCHANGED <<registers, ram>>

Move(r) ==
  /\ moving /\ r \in pending
  /\ Bytes(Address(r), 4) \subseteq DOMAIN ram
  /\ pending' = pending \ {r}
  /\ IF order.l
     THEN registers' = [registers EXCEPT ![r] = WordIn(ram, Address(r))] /\ ram' = ram
     ELSE ram' = AfterStore(ram, Address(r), 4, Held(r)) /\ registers' = registers
  /\ UNCHANGED <<moving, order, base>>

Finish ==
  /\ moving /\ ~moving'
  /\ pending = {}
  /\ registers' = IF ~order.w THEN registers
                  ELSE [registers EXCEPT ![order.rn] =
                          Wrap(IF order.u THEN base + Size ELSE base - Size)]
  /\ UNCHANGED ram

Stop ==
  /\ moving /\ ~moving'
  /\ pending # {}
  /\ UNCHANGED <<registers, ram>>

\* Everything else the machine does.
Other == ~moving /\ ~moving'

TransferInit == ~moving
TransferNext == Begin \/ (\E r \in pending : Move(r)) \/ Finish \/ Stop \/ Other
TransferSpec == TransferInit /\ [][TransferNext]_transferVars
=============================================================================
