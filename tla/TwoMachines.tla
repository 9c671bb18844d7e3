---------------------------- MODULE TwoMachines ----------------------------
(***************************************************************************)
(* Two VirtualMachine objects that one host thread runs by turns.  Their   *)
(* members are their own; the locals of blockDataTransferEval() are static *)
(* and so belong to both.                                                  *)
(***************************************************************************)
EXTENDS Integers, TLAPS

CONSTANTS WordBits, FieldBits, BitAnd(_, _), BitOr(_, _), BitXor(_, _),
          MemSize, Asserting, Images, Budgets, MayFail

VARIABLES
  i, offset,                   \* shared
  registersA, cpsrA, ramA, codeA, instructionA, phaseA, limitA, iterA, programSizeA, resultA,
  registersB, cpsrB, ramB, codeB, instructionB, phaseB, limitB, iterB, programSizeB, resultB,
  iA, offsetA, iB, offsetB     \* as each machine left them: history, read by nothing

shared == <<i, offset>>
membersA == <<registersA, cpsrA, ramA, codeA, instructionA, phaseA, limitA, iterA,
              programSizeA, resultA>>
membersB == <<registersB, cpsrB, ramB, codeB, instructionB, phaseB, limitB, iterB,
              programSizeB, resultB>>
vars == <<shared, membersA, membersB, iA, offsetA, iB, offsetB>>

\* Each machine, with what is proved of one that shares its statics.
A == INSTANCE SharedLocalsProofs WITH registers <- registersA, cpsr <- cpsrA, ram <- ramA,
       code <- codeA, instruction <- instructionA, phase <- phaseA, limit <- limitA,
       iter <- iterA, programSize <- programSizeA, result <- resultA,
       iOwn <- iA, offsetOwn <- offsetA
B == INSTANCE SharedLocalsProofs WITH registers <- registersB, cpsr <- cpsrB, ram <- ramB,
       code <- codeB, instruction <- instructionB, phase <- phaseB, limit <- limitB,
       iter <- iterB, programSize <- programSizeB, result <- resultB,
       iOwn <- iB, offsetOwn <- offsetB

\* The constants are the same for both; this is what Vm assumes of them, under
\* either name.
ASSUME MachinesAssumption ==
  /\ A!WidthAssumption /\ A!PowerAssumption /\ A!BitwiseAssumption
  /\ A!MemSizeAssumption /\ A!AssertingAssumption
  /\ A!ImagesAssumption /\ A!BudgetsAssumption
  /\ B!WidthAssumption /\ B!PowerAssumption /\ B!BitwiseAssumption
  /\ B!MemSizeAssumption /\ B!AssertingAssumption
  /\ B!ImagesAssumption /\ B!BudgetsAssumption

-----------------------------------------------------------------------------
\* The thread is in no call of the other machine, and the process lives.
FreeOf(phase) == phase \in {"constructed", "initialised", "idle"}

StepA ==
  /\ FreeOf(phaseB)
  /\ A!Step
  /\ UNCHANGED <<membersB, iB, offsetB>>

StepB ==
  /\ FreeOf(phaseA)
  /\ B!Step
  /\ UNCHANGED <<membersA, iA, offsetA>>

Init == A!Start /\ B!Start

Next == StepA \/ StepB

Spec == Init /\ [][Next]_vars

-----------------------------------------------------------------------------
(***************************************************************************)
(* Each machine behaves as the only one, with statics of its own: what the *)
(* other leaves in the shared ones between two calls of run(), also one    *)
(* that its limit ends right before a transfer, is never read.             *)
(***************************************************************************)
EachIsAlone == A!Alone!Spec /\ B!Alone!Spec

-----------------------------------------------------------------------------
(* Sharing the static locals changes neither machine.                      *)

\* In the loop of a transfer the statics are as its machine left them: only
\* the machine whose call the thread is in can be in that loop.
StaticsInv == A!Undisturbed /\ B!Undisturbed

\* At the start both machines are as if alone.
LEMMA InitAlone == Init => StaticsInv /\ A!Alone!Init /\ B!Alone!Init
BY A!StartAlone, B!StartAlone, MachinesAssumption DEF Init, StaticsInv

\* A step of machine A is one it could take alone; B does not notice.
LEMMA StepAAlone ==
  ASSUME StaticsInv, StepA
  PROVE  A!Alone!Next /\ StaticsInv' /\ UNCHANGED B!Alone!vars
<1>1. A!Alone!Next /\ A!Undisturbed'
  BY A!StepAlone, MachinesAssumption DEF StaticsInv, StepA
<1>2. B!Undisturbed'
  BY DEF StepA, FreeOf, membersB, B!Undisturbed
<1>3. UNCHANGED B!Alone!vars
  BY DEF StepA, membersB, B!Alone!vars
<1> QED
  BY <1>1, <1>2, <1>3 DEF StaticsInv

\* And the other way round.
LEMMA StepBAlone ==
  ASSUME StaticsInv, StepB
  PROVE  B!Alone!Next /\ StaticsInv' /\ UNCHANGED A!Alone!vars
<1>1. B!Alone!Next /\ B!Undisturbed'
  BY B!StepAlone, MachinesAssumption DEF StaticsInv, StepB
<1>2. A!Undisturbed'
  BY DEF StepB, FreeOf, membersA, A!Undisturbed
<1>3. UNCHANGED A!Alone!vars
  BY DEF StepB, membersA, A!Alone!vars
<1> QED
  BY <1>1, <1>2, <1>3 DEF StaticsInv

\* Every step is a step of one machine alone or of neither.
LEMMA NextAlone ==
  StaticsInv /\ [Next]_vars =>
    /\ StaticsInv'
    /\ [A!Alone!Next]_(A!Alone!vars)
    /\ [B!Alone!Next]_(B!Alone!vars)
<1>1. ASSUME StaticsInv, UNCHANGED vars
      PROVE  StaticsInv' /\ UNCHANGED A!Alone!vars /\ UNCHANGED B!Alone!vars
  BY <1>1
     DEF vars, shared, membersA, membersB, StaticsInv, A!Undisturbed, B!Undisturbed,
         A!Alone!vars, B!Alone!vars
<1> QED
  BY <1>1, StepAAlone, StepBAlone DEF Next

(***************************************************************************)
(* However the host takes turns between two machines and their calls, and  *)
(* wherever the limit of a run() ends one in the middle of its program,    *)
(* each machine behaves as the only one in the process.                    *)
(***************************************************************************)
THEOREM MachinesAreAlone == Spec => EachIsAlone
<1>1. Init => StaticsInv /\ A!Alone!Init /\ B!Alone!Init
  BY InitAlone
<1>2. StaticsInv /\ [Next]_vars =>
        StaticsInv' /\ [A!Alone!Next]_(A!Alone!vars) /\ [B!Alone!Next]_(B!Alone!vars)
  BY NextAlone
<1> QED
  BY <1>1, <1>2, PTL DEF Spec, EachIsAlone, A!Alone!Spec, B!Alone!Spec
=============================================================================
