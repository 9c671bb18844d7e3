------------------------------ MODULE MCBlock ------------------------------
(***************************************************************************)
(* Block transfers: every addressing mode over the subsets of a few        *)
(* registers, with the base inside the memory, at either end of it, over   *)
(* the program and in the list; and a store undone by the opposite load.   *)
(***************************************************************************)
EXTENDS BlockContract, MCRun

Listed == {0, 2, 13, 14, 15}

SinglePrograms ==
  {<<t>> : t \in [format : {"block_data_transfer"}, condition : {"AL"}, l : BOOLEAN,
                  p : BOOLEAN, u : BOOLEAN, w : BOOLEAN, s : BOOLEAN,
                  rn : {0, SP}, registerList : SUBSET Listed]}

\* STM, spoil two registers, and the LDM that walks the run back.
RoundTrip(p, u, list) ==
  <<Block(FALSE, p, u, SP, list), Mov(0, Imm(3)), Mov(14, Imm(2)),
    Block(TRUE, ~p, ~u, SP, list)>>
RoundTrips == {RoundTrip(p, u, list) :
                 p \in BOOLEAN, u \in BOOLEAN, list \in SUBSET (Listed \ {SP})}

Programs == SinglePrograms \cup RoundTrips
MCImages == ImagesOf(Programs)
MCBudgets == {1, 4}

\* Every register and every word of the memory holds a value of its own.
StartRegister(r, base) == IF r = PC THEN 0 ELSE IF r \in {0, SP} THEN base ELSE r + 1

StartAt(program, base) ==
  /\ Begun(program)
  /\ registers = [r \in Register |-> StartRegister(r, base)]
  /\ cpsr = NoFlags
  /\ ram = [a \in Ram |-> ByteOf(100 + (a \div 4), a % 4)]

Centre == 64

MCInit ==
  \/ \E program \in SinglePrograms, base \in {0, 12, Centre, MemSize - 8} : StartAt(program, base)
  \/ \E program \in RoundTrips : StartAt(program, Centre)

MCSpec == MCInit /\ [][Turn]_vars

(***************************************************************************)
(* A store with write-back followed by the opposite load with write-back,  *)
(* IA and DB, IB and DA, gives every listed register its value back and    *)
(* the base its own: what a push in the prologue of a guest function and   *)
(* the pop in its epilogue rely on.  A listed pc comes back as the address *)
(* after the second instruction that follows the store.                    *)
(***************************************************************************)
StoreThenLoadRestores ==
  \A p \in BOOLEAN, u \in BOOLEAN, list \in SUBSET (Listed \ {SP}) :
    phase = "idle" /\ code = CodeOf(RoundTrip(p, u, list)) =>
      /\ \A r \in (list \cup {SP}) \ {PC} : registers[r] = StartRegister(r, Centre)
      /\ registers[PC] = IF PC \in list THEN 12 ELSE 16
=============================================================================
