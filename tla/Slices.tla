------------------------------- MODULE Slices -------------------------------
(***************************************************************************)
(* A host that gives run() a limit cuts the guest's execution in slices.   *)
(* Three history variables, which nothing reads, tell what the guest has   *)
(* seen of that: nothing at all.                                           *)
(***************************************************************************)
EXTENDS Host

VARIABLES
  cut,              \* the last run() came back because its limit was spent
  answer,           \* what the last software interrupt made run() return
  turns             \* instructions evaluated in a call of run() with a limit

sliceVars == <<hostVars, cut, answer, turns>>

SliceInit ==
  /\ HostInit
  /\ cut = FALSE
  /\ answer = "none"
  /\ turns = 0

\* run() is called; comes back with its limit spent; or from its longjmp().
Calls == phase = "idle" /\ phase' = "fetch"
RunsOut == phase = "fetch" /\ phase' = "idle"
Answers == phase = "evaluate" /\ phase' = "idle"
Evaluated == phase \in {"evaluate", "transfer"} /\ phase' = "fetch"

Remember ==
  /\ cut' = (~Calls /\ (cut \/ RunsOut))
  /\ answer' = IF Answers THEN result' ELSE answer
  /\ turns' = IF Calls THEN 0 ELSE IF Evaluated /\ limit # 0 THEN turns + 1 ELSE turns

SliceNext == HostNext /\ Remember

SliceSpec == SliceInit /\ [][SliceNext]_sliceVars /\ WF_sliceVars(HostStep /\ Remember)

-----------------------------------------------------------------------------
\* The same guest under a host that gives no limit: what comes after a cut is
\* still the call that was cut.
Uncut == INSTANCE Host WITH
  Budgets <- {0}, limit <- 0, iter <- 0,
  phase <- IF cut THEN "fetch" ELSE phase,
  host <- IF cut THEN "switch" ELSE host,
  result <- answer

(***************************************************************************)
(* Limits are invisible: whatever limits the host gives run(), registers,  *)
(* flags, memory, console and the answers to the guest's interrupts go     *)
(* through the states they would go through under a host that calls run()  *)
(* without one.  A cut between any two instructions, also the last one     *)
(* before a software interrupt, loses nothing, repeats nothing and is not  *)
(* taken for an answer.                                                    *)
(***************************************************************************)
SlicesAreInvisible == Uncut!HostInit /\ [][Uncut!HostNext]_(Uncut!hostVars)

(***************************************************************************)
(* run(n) evaluates n instructions, if the guest does not end it earlier:  *)
(* the call comes back with its limit spent after the n-th, a block        *)
(* transfer or an instruction whose condition fails counting as one.       *)
(***************************************************************************)
EvaluatesWhatWasAsked ==
  [][/\ limit # 0 => turns <= limit
     /\ RunsOut => turns = limit]_sliceVars
=============================================================================
