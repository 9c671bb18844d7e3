-------------------------- MODULE HalfwordTransfer --------------------------
(***************************************************************************)
(* LDRH, LDRSH, LDRSB and STRH: the handler of the immediate offsets, and  *)
(* the one of the register offsets, which opens with an assertion and runs *)
(* only in a build without assertions.  Addresses are 32-bit words here:   *)
(* both keep them in a static uint32_t.                                    *)
(***************************************************************************)
EXTENDS Cpu

\* The two nibbles of an immediate make 8 bits.
HalfwordImmediateInstruction ==
  [format : {"halfword_data_transfer_immediate_off"}, condition : Condition,
   load : BOOLEAN, s : BOOLEAN, h : BOOLEAN, p : BOOLEAN, u : BOOLEAN, w : BOOLEAN,
   rd : Register, rn : Register, distance : 0 .. 255]
HalfwordRegisterInstruction ==
  [format : {"halfword_data_transfer_register_off"}, condition : Condition,
   load : BOOLEAN, s : BOOLEAN, h : BOOLEAN, p : BOOLEAN, u : BOOLEAN, w : BOOLEAN,
   rd : Register, rn : Register, rm : Register]

-----------------------------------------------------------------------------
(* What both handlers do.                                                  *)

HalfAt(a) == Wrap(ram[a] + ShiftLeft(ram[a + 1], ByteBits))

\* A byte of the wrong sign.
LoadedUnsigned(t, a) == IF t.h THEN HalfAt(a) ELSE ram[a]

Loaded(t, a) ==
  CASE t.s /\ t.h -> getSigned16(HalfAt(a))
    [] t.s /\ ~t.h -> getSigned8(ram[a])
    [] ~t.s /\ t.h -> HalfAt(a)
    [] ~t.s /\ ~t.h -> ram[a]
LoadedBytes(t, a) == Bytes(a, IF t.h THEN 2 ELSE 1)

Displaced(t, a, distance) == Wrap(IF t.u THEN a + distance ELSE a - distance)

WritesBackIfAsked(t) == t.w            \* and not when post-indexed
WritesBack(t) == t.w \/ ~t.p
Based(t, file, a) == IF WritesBack(t) THEN [file EXCEPT ![t.rn] = a] ELSE file

\* An access whose outcome depends on the touched bytes, ...
Access(touched, file, contents) ==
  \/ /\ Data(touched)
     /\ registers' = file /\ ram' = contents
     /\ Complete
  \/ /\ ~Data(touched)
     /\ Escape(touched)
     /\ UNCHANGED <<registers, ram>>

\* ...and one whose word, what the code reads or rewrites around those bytes,
\* is not all in the buffer.
Overreach(touched, word) ==
  /\ Data(touched) /\ ~(word \subseteq Ram)
  /\ Escape(word)
  /\ UNCHANGED <<registers, ram>>

-----------------------------------------------------------------------------
(* Immediate offsets.                                                      *)

\* STRH reads the word its halfword is the low or the high half of, and
\* writes it back.
Aligned(a) == a % 4 = 0
Container(a) == IF Aligned(a) THEN a ELSE a - 2

\* A store at any other address than a multiple of four, post-indexed, takes
\* the low half of the container from the address, not from the container.
MisplacesAlways(t, a) == ~Aligned(a)     \* pre-indexed, too
Misplaces(t, a) == ~t.p /\ ~Aligned(a)

AfterHalfStored(t, a) ==
  IF Misplaces(t, a)
  THEN AfterStore(StoreBytes(a - 2, 2, HalfAt(a)), a, 2, registers[t.rd])
  ELSE StoreBytes(a, 2, registers[t.rd])
StoredBytes(t, a) == IF Misplaces(t, a) THEN Bytes(a - 2, 4) ELSE Bytes(a, 2)
StoreReach(t, a) == Bytes(Container(a), 4) \cup (IF Misplaces(t, a) THEN Bytes(a, 4) ELSE {})

\* The base a store writes back is moved off the multiples of four.
Retreated(a) == IF Aligned(a) THEN Wrap(a - 2) ELSE a

ImmediateTransfer(t) ==
  LET base == registers[t.rn]
      next == Displaced(t, base, t.distance)
      a == IF t.p THEN next ELSE base
  IN  IF t.load
      THEN \/ Access(LoadedBytes(t, a),
                     Based(t, [registers EXCEPT ![t.rd] = Loaded(t, a)], next), ram)
           \/ Overreach(LoadedBytes(t, a), Bytes(a, 4))
      ELSE \/ Access(StoredBytes(t, a),
                     Based(t, registers, Retreated(next)), AfterHalfStored(t, a))
           \/ Overreach(StoredBytes(t, a), StoreReach(t, a))

halfwordDataTransferImmediateOffEval ==
  /\ Executing("halfword_data_transfer_immediate_off")
  /\ IF instruction.rn = PC /\ Asserting
     THEN Abort /\ UNCHANGED <<registers, ram>>
     ELSE ImmediateTransfer(instruction)
  /\ UNCHANGED <<cpsr, code, programSize, instruction, block>>

-----------------------------------------------------------------------------
(* Register offsets.  Nothing but an assertion says that this is not done. *)

Advanced(a) == IF Aligned(a) THEN Wrap(a + 2) ELSE a

Doubled(w) == Wrap((w % HalfModulus) + ShiftLeft(w, HalfBits))

\* A load as if the P bit were the other way round.
RegisterLoadSwapped(t) ==
  LET a == IF t.p THEN registers[t.rn] ELSE Displaced(t, registers[t.rn], registers[t.rm])
  IN  Access(LoadedBytes(t, a), [registers EXCEPT ![t.rd] = Loaded(t, a)], ram)

\* A post-indexed load reads the offset after it has loaded rd.
RegisterLoad(t) ==
  LET base == registers[t.rn]
      a == IF t.p THEN Displaced(t, base, registers[t.rm]) ELSE base
      file == [registers EXCEPT ![t.rd] = Loaded(t, a)]
      next == IF t.p THEN a ELSE Advanced(Displaced(t, base, file[t.rm]))
  IN  \/ Access(LoadedBytes(t, a), Based(t, file, next), ram)
      \/ Overreach(LoadedBytes(t, a), Bytes(a, 4))

RegisterStore(t) ==
  LET base == registers[t.rn]
      next == Advanced(Displaced(t, base, registers[t.rm]))
      a == IF t.p THEN next ELSE base
  IN  Access(Bytes(a, 4), Based(t, registers, next),
             StoreBytes(a, 4, Doubled(registers[t.rd])))

halfwordDataTransferRegisterOffEval ==
  /\ Executing("halfword_data_transfer_register_off")
  /\ ~Asserting
  /\ IF instruction.load THEN RegisterLoad(instruction) ELSE RegisterStore(instruction)
  /\ UNCHANGED <<cpsr, code, programSize, instruction, block>>
=============================================================================
