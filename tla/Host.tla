-------------------------------- MODULE Host --------------------------------
(***************************************************************************)
(* A machine in the hands of the host program README.md gives: init(),     *)
(* load(), then run() until the guest stops it, printing the character the *)
(* guest left at the UART each time it suspends.                           *)
(***************************************************************************)
EXTENDS Vm

CONSTANTS
  Uart              \* UARTPOS: where host and guest exchange characters

ASSUME UartAssumption == Uart \in Ram

VARIABLES
  host,             \* where the host's main() is
  output            \* what it wrote to std::cout

hostVars == <<vars, host, output>>

HostInit ==
  /\ Init
  /\ host = "init"
  /\ output = <<>>

Construct ==
  /\ host = "init" /\ host' = "load"
  /\ init
  /\ UNCHANGED output

\* if (vm.load()): any value but 0 will do.
LoadProgram ==
  /\ host = "load"
  /\ load
  /\ host' = IF programSize' # 0 THEN "running" ELSE "done"
  /\ UNCHANGED output

Run ==
  /\ host = "running" /\ host' = "switch"
  /\ \E nbMaxIteration \in Budgets : BeginRun(nbMaxIteration)
  /\ UNCHANGED output

\* The thread is inside run().
Guest == Turn /\ UNCHANGED <<host, output>>

\* A host that prints whenever run() comes back.
PrintAlways ==
  /\ host = "switch" /\ phase = "idle"
  /\ host' = IF result = "Stop" THEN "done" ELSE "running"
  /\ output' = IF result # "Stop" THEN Append(output, ram[Uart]) ELSE output
  /\ UNCHANGED vars

\* switch (vm.run())
HandleResult ==
  /\ host = "switch" /\ phase = "idle"
  /\ host' = IF result = "Stop" THEN "done" ELSE "running"
  /\ output' = IF result = "Suspend" THEN Append(output, ram[Uart]) ELSE output
  /\ UNCHANGED vars

\* main() returned; the deadlock check then says that nothing else ends.
Done == host = "done" /\ UNCHANGED hostVars

HostStep == Construct \/ LoadProgram \/ Run \/ Guest \/ HandleResult
HostNext == HostStep \/ Done

\* One thread does everything.
HostSpec == HostInit /\ [][HostNext]_hostVars /\ WF_hostVars(HostStep)

-----------------------------------------------------------------------------
(***************************************************************************)
(* A host that checks the result of load(), as README.md:50 does, never    *)
(* runs a machine whose program could not be read.                         *)
(***************************************************************************)
RunsOnlyLoadedProgram == programSize = -1 => host \notin {"running", "switch"}

(* The host's loop ends: the guest reaches its SWI 2 whatever the budgets. *)
HostTerminates == <>(host = "done")
=============================================================================
