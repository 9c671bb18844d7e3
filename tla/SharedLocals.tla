---------------------------- MODULE SharedLocals ----------------------------
(***************************************************************************)
(* One VirtualMachine among others.  Its members are its own; i and offset *)
(* are static locals of blockDataTransferEval(), which belong to all       *)
(* machines of the process.  A machine alone has the two for itself: what  *)
(* it would be is followed in iOwn and offsetOwn.                          *)
(***************************************************************************)
EXTENDS Vm

VARIABLES iOwn, offsetOwn     \* as this machine left them: history, read by nothing

\* The same machine with the statics to itself.
Alone == INSTANCE Vm WITH i <- iOwn, offset <- offsetOwn

\* A step of the loop of a block transfer, its first and its last ones too.
Transferring == "transfer" \in {phase, phase'}

Start == Init /\ iOwn = 0 /\ offsetOwn = 0

Step ==
  /\ Next
  /\ iOwn' = IF Transferring THEN i' ELSE iOwn
  /\ offsetOwn' = IF Transferring THEN offset' ELSE offsetOwn

\* In the loop, the statics are as this machine left them.
Undisturbed == phase = "transfer" => iOwn = i /\ offsetOwn = offset
=============================================================================
