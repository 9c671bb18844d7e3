--------------------------- MODULE SingleTransfer ---------------------------
(***************************************************************************)
(* singleDataTranferEval(): LDR, STR, LDRB and STRB.  The address a load   *)
(* or store uses is an integer; the base it writes back is a word.         *)
(***************************************************************************)
EXTENDS DataProcessing

\* 12 bits of the instruction.
Distance == [kind : {"distance"}, value : Word]

SingleTransferInstruction ==
  [format : {"single_data_transfer"}, condition : Condition,
   load : BOOLEAN, b : BOOLEAN, p : BOOLEAN, u : BOOLEAN, w : BOOLEAN,
   rd : Register, rn : Register,
   offset : Distance \cup ShiftedByValue]

Base(t) == Wrap(registers[t.rn] + (IF t.rn # PC THEN 0 ELSE 4))
Stored(t) == Wrap(registers[t.rd] + (IF t.rd # PC THEN 0 ELSE 8))

\* shift() is called with bit 4 cleared, so a shift by a value.
Offsets(t) == IF t.offset.kind = "distance" THEN {t.offset.value}
              ELSE {shifted.value : shifted \in shift(t.offset)}

IndexedUp(t, distance) == Base(t) + distance      \* the U bit ignored
Indexed(t, distance) == IF t.u THEN Base(t) + distance ELSE Base(t) - distance
Address(t, distance) == IF t.p THEN Indexed(t, distance) ELSE Base(t)

\* The bytes the outcome depends on.  A byte load reads a word and keeps
\* one byte of it.
Touched(t, distance) == Bytes(Address(t, distance), IF t.b THEN 1 ELSE 4)
\* A store that rewrites the word around its byte.
OverreadsEither(t, distance) ==
  t.b /\ ~(Bytes(Address(t, distance), 4) \subseteq Ram)

Overreads(t, distance) ==
  t.load /\ t.b /\ ~(Bytes(Address(t, distance), 4) \subseteq Ram)

\* Without the write-back that post-indexing implies.
WriteBackAsked(t, distance, file) ==
  IF t.w THEN [file EXCEPT ![t.rn] = Wrap(Indexed(t, distance))] ELSE file

\* A post-indexed transfer always writes the base back.
WriteBack(t, distance, file) ==
  IF t.w \/ ~t.p THEN [file EXCEPT ![t.rn] = Wrap(Indexed(t, distance))] ELSE file

\* A load whose base is written back before the loaded value, as both are
\* the same register when it loads into its own base.
LoadOverBase(t, distance) ==
  LET address == Address(t, distance)
      value == IF t.b THEN ram[address] ELSE WordAt(address)
  IN  /\ t.load
      /\ registers' = [WriteBack(t, distance, registers) EXCEPT ![t.rd] = value]
      /\ UNCHANGED ram

\* The base is written back last, from where it was before the load.
Load(t, distance) ==
  LET address == Address(t, distance)
      value == IF t.b THEN ram[address] ELSE WordAt(address)
  IN  /\ t.load
      /\ registers' = WriteBack(t, distance, [registers EXCEPT ![t.rd] = value])
      /\ UNCHANGED ram

Store(t, distance) ==
  /\ ~t.load
  /\ ram' = StoreBytes(Address(t, distance), IF t.b THEN 1 ELSE 4, Stored(t))
  /\ registers' = WriteBack(t, distance, registers)

singleDataTranferEval ==
  /\ Executing("single_data_transfer")
  /\ \E distance \in Offsets(instruction) :
       LET bytes == Touched(instruction, distance)
       IN  \/ /\ Data(bytes)
              /\ Load(instruction, distance) \/ Store(instruction, distance)
              /\ Complete
           \/ /\ ~Data(bytes)
              /\ Escape(bytes)
              /\ UNCHANGED <<registers, ram>>
           \/ /\ Data(bytes) /\ Overreads(instruction, distance)
              /\ Escape(Bytes(Address(instruction, distance), 4))
              /\ UNCHANGED <<registers, ram>>
  /\ UNCHANGED <<cpsr, code, programSize, instruction, block>>
=============================================================================
