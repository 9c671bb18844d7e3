# armv4vm in TLA+

`vm.cpp` interprets the ARMv4 instruction set: `VirtualMachine` owns a buffer that is
the guest's memory, sixteen registers and the status flags, and its host calls
`init()`, `load()` and then `run()` again and again. This directory models that
program, checks it with TLC on small instances and proves its main properties with
TLAPS for every width of a word, size of the memory, program image and limit of a run.

## 1. The system

| Component | State | Operations | Where |
|---|---|---|---|
| Words and flags | none | `uint32_t` arithmetic, `POS`/`NEG`, the carry and overflow functions, `getSigned24()` | `vm.cpp:41`, `339-360` |
| Machine state | `m_registers`, `m_cpsr`, `m_ram` | `testCondition()`, `qt_assert()`, reads and writes through `m_ram + address` | `vm.h:117-191`, `vm.cpp:1395-1468` |
| Data processing and shifter | flags, `rd` | `dataProcessingEval()`, `rotate()`, `shift()` | `vm.cpp:362-579`, `1470-1609` |
| Single data transfer | memory, `rd`, `rn` | `singleDataTranferEval()`: LDR, STR, LDRB, STRB | `vm.cpp:690-868` |
| Block data transfer | memory, registers, static `i`, `offset` | `blockDataTransferEval()`: LDM, STM | `vm.cpp:920-1110` |
| Branches, SWI | `pc`, `lr`; leaves `run()` | `branchEval()`, `branchAndExchangeEval()`, `softwareInterruptEval()` (`longjmp()`) | `vm.cpp:870-918`, `1375-1393` |
| Life cycle and run loop | the loop of `run()` | constructor, `init()`, `load()`, `run()`, `fetch()`, `decode()`, `evaluate()` | `vm.cpp:50-198`, `289-337` |
| Decoder | `m_instructionSetFormat` | `decode()`: fifteen masks in a fixed order | `vm.cpp:200-287` |
| Multiply | registers, flags | `multiplyEval()`, `multiplyLongEval()` | `vm.cpp:581-688` |
| Halfword transfers | memory, registers | two handlers, register and immediate offset | `vm.cpp:1112-1373` |
| Host loop | `running`, the console | the `main()` of `README.md:33-72` | `README.md` |
| Guest runtime | heap pointer | `_write()`, `_read()`, `_sbrk()`, `startup.s`, memory map | `test_compile/` |
| Two machines | function statics of the handlers | any of the above, by turns | `vm.cpp:385-398`, `938-939` |

How they interact. There is one thread. The host calls `run()`, which loops over
`fetch()`, `decode()` and `evaluate()`; `evaluate()` calls one handler, which first calls
`testCondition()`, then changes registers, flags and memory. A handler returns to the
loop; a software interrupt instead jumps back to the `setjmp()` at the top of `run()`,
whose value becomes the result of the call. Host and guest share the buffer: the guest
leaves a character at the UART address and suspends itself, the host prints that byte.

What is hard:

* arithmetic at the ends of the ranges: flags are inferred from sign bits, and the
  shifter has separate cases around 0 and 32;
* agreement over several instructions: one sets a flag, the next consumes it; one stores
  a block of registers, another loads it;
* order inside a handler: write-back against load, eight copies of the block transfer's loop;
* where `run()` comes back: after any instruction (its limit), or by `longjmp()`;
* what nothing protects: accesses outside the buffer, `qt_assert()`, a failing `load()`.

* what is kept outside the object: the locals of the handlers are static, so that two
  machines of one process share them;
* fifteen masks tested in a row, and the bit-fields each handler overlays on the word;
* what depends on something the code does not check: the linker script for the heap.

There is no concurrency and nothing is persisted, so nothing here is about crashes or
lost messages.

What makes each component correct: flags describe the exact result and conditions read
them consistently (words, data processing); the shifter moves every bit and keeps the
last one out; a block transfer puts each listed register in its own slot and moves the
base once; a word, byte or halfword transfer does what its parts do one after the other and
touches nothing else; a long product is the product of the integers; every word decodes to
its format and its fields are all of it; the heap and the stack stay apart; a machine does
not notice another one; a branch reaches its target; a limited run comes back, a guest resumes where
it was; every character the guest writes is printed once and in order.

## 2. The modules

| Module | What it models |
|---|---|
| `Words` | integers as machine words, bytes, the flag functions, `getSigned24`, `getSigned16`, `getSigned8` |
| `Cpu` | the variables of one machine, `TestCondition`, how a handler ends (`Complete`, `Return`, `Abort`, `Escape`), access to memory |
| `DataProcessing`, `SingleTransfer`, `BlockTransfer`, `Branches` | one handler each (the last, three) |
| `Multiply`, `HalfwordTransfer` | two handlers each |
| `Vm` | composes them: `Init`, `init`, `load`, `BeginRun`, `Exhausted`, `FetchDecode`, `Evaluate`, `Next`, `Spec`, `FairSpec`, types |
| `Host` | a machine and the host loop of the README |
| `SharedLocals` | one machine whose statics `i` and `offset` others may change between its calls |
| `TwoMachines` | two of these, with the statics in common |
| `Decoder` | `decode()`, `evaluate()` and the bit-fields, on the 32 bits of a word |
| `GuestMemory` | the regions of a linker script, `_sbrk()`, the stack |
| `AluContract`, `MultiplyContract` | what the ALU, the shifter and the multiplications promise, stated on integers and on bits |
| `TransferContract` | what word, byte and halfword transfers touch |
| `Slices` | `Host` with three history variables, and what the limits of `run()` may not change |
| `Encoding` | the assembler, and the data sheet's table of formats |
| `MultipleTransfer`, `BlockContract` | an abstract block transfer, and the refinement mapping from `BlockTransfer` |
| `Channel` | the abstract console; `MCHello` maps host and guest to it |
| `VmProofs` | types, the invariant behind them, and the lemmas the others use |
| `HandlerProofs`, `DecoderProofs`, `GuestMemoryProofs` | theorems on the contracts of the ALU, multiplications, branches and word, halfword and block transfers; on `Encoding`; on the heap |
| `ProgramProofs` | what sequences of instructions compute: the properties of `MCAlu`, `MCMultiply`, `MCSingle`, `MCHalfword` and `MCBlock` |
| `GuestProofs` | a machine under its host: that the limits of `run()` change nothing, what the guests of `MCGuests` have computed when they stop, and that the guest of `MCHello` and the host are a `Channel` |
| `SharedLocalsProofs` | that sharing the statics changes no machine; its consequence for two is in `TwoMachines` |
| `MCWords`, `Assembler`, `MCRun`, `MC*` | bitwise operators for TLC, instruction builders, one call of `run()`, instances |

`MCArithmetic` composes the programs of `MCAlu` and `MCMultiply`, `MCTransfer` those of
`MCSingle` and `MCHalfword`.

Names are those of the source. A definition that says it leaves out something or gets
something wrong (`carryOfSigns`, `LogicalRightCarry`, `SlotAfter`, `PrintAlways`...) is not
used by the specification: it is a plausible mistake, stored next to the definition it
stands for. `PROJECT.json` lists, for each checked property, the mistake it catches.

### State and actions against the code

* `registers`, `cpsr` and `ram` are `m_registers`, the four flag bits of `m_cpsr` and the
  buffer, byte by byte. A flag is 0 or 1.
* `code` and `ram` together are the buffer. An instruction is a record, one set of records
  per format, with the fields the handler's bit-field struct names; `code` says which
  record the four bytes at an address hold and `ram` is 0 there. `FetchDecode` reads the
  record at `pc`; four zero bytes of data are the instruction they encode, `ANDEQ r0,r0,r0`.
* That the records are what `decode()` and the handlers make of 32 bits is the subject of
  `Decoder`, on its own: its variables are `m_workingInstruction` (the set of the numbers of
  its bits, so that `&` is an intersection), `m_instructionSetFormat`, which keeps its value
  when no test matches, and `instruction`, the fields read.
* `phase` is the control point. `fetch`, `evaluate` and `transfer` are inside `run()`; each
  handler is one action, except the block transfer, whose loop takes a step per turn, so
  that what it has done when an access fails can be seen.
* `limit` and `iter` are the parameter and the counter of the loop of `run()`; 0 is no limit.
* A handler opens with `Executing(format)`: its `case` in `evaluate()` and `testCondition()`.
  All handlers whose condition fails are the one action `SkipInstruction`. `AssertInstruction`
  is the `default` of `testCondition()` and of `evaluate()` and the assertions in `decode()`.
* `Asserting` tells the build: in one with `NDEBUG` what `AssertInstruction` guards is stepped
  over, `halfwordDataTransferRegisterOffEval()`, whose first statement is an assertion, runs,
  and a halfword transfer with pc as its base goes on.
* `phase = "aborted"` is after an assertion. `"wild"` is after the host touched a byte
  outside the buffer; C++ says nothing of what follows, nor does the model, which stops there.
  `"astray"` is after the guest executed data other than zeroes, or read or wrote its code:
  the program goes on there and this model does not. These are the three ways a
  behaviour may stop, and the runs whose guests may be lost turn the deadlock check off.
* Undefined operations that builds do survive are choices: the carry of a rotation by
  64, 96... (`RotateRight`), and the bytes a byte or halfword access reads beyond the buffer,
  next to the ones it is about (`Overreads`, `Overreach`).
* In `Slices`, `cut`, `answer` and `turns` are history: whether the last call came back because its limit was
  spent, what the last software interrupt made `run()` return, and the instructions a call with
  a limit has evaluated. `Remember` writes them and nothing reads them, so a behaviour of `HostSpec` is one of
  `SliceSpec` with these added, and fairness of `HostStep /\ Remember` is fairness of `HostStep`.
* In `TwoMachines`, `StepA` and `StepB` are steps of the one thread of the process, inside at most one
  `run()` at a time. `iA`, `offsetA`, `iB`, `offsetB` are history: what each machine left in the
  shared statics, and the values it would find there if they were its own.
* In `GuestMemory`, `_sbrk` is the function, `Allocate` the C library that calls it, `Call` and `Leave`
  move the stack pointer. Addresses are in any unit; `AddressModulus` is where pointers wrap.

### Abstractions

* The width of a word is `WordBits`, 32 in the program; a byte is a quarter of it, the branch
  and comment fields have `FieldBits` bits, 24 in the program. An instruction takes four
  bytes and a word four bytes at any width. `Decoder` has the program's 32 bits.
* `&`, `|` and `^` are parameters; the proofs assume that they give words, and of `|`, which the
  shifter uses, that it works bit by bit.
* The build is the one without Qt and without `DEBUG`, on a host with 64-bit pointers:
  `m_ram + rn + offset` never wraps. (The addresses of block and halfword transfers are
  32-bit variables and do.)
* `load()` follows `init()` directly. A file is larger than the buffer or is read whole.
* Registers are 0 until `init()`, where the constructor leaves them uninitialised; nothing
  reads them in between.
* Function statics other than `i` and `offset` are rewritten before they are read, in the same
  call of their handler; `TwoMachines` therefore shares those two only.
* A guest's frames fit its stack, and a C library gives back no more heap than it got:
  nothing in the code checks either.

## 3. The runs

| Run | Instance | What it shows |
|---|---|---|
| `alu` | 4-bit words; every opcode from all pairs of operands and all flags; every shift; every long multiplication from all pairs of factors, results over the operands too; double and triple words over the ends of the ranges | `CompareDecidesConditions`, `FlagsDescribeExactResult`, `ShifterMovesBits`, `DoubleWordArithmetic`, `LongProductExact`, `WideArithmetic` |
| `block` | 8-bit words, 128 bytes; every LDM/STM over the subsets of r0, r2, r13, r14, r15, bases inside, at the ends and over the program; store-load round trips | `ImplementsMultipleTransfer`, `StoreThenLoadRestores` |
| `transfer` | 8-bit words, 64 bytes without zeroes, no assertions; LDR, STR, LDRB, STRB in every addressing mode, into another register and into the base, with distances and with shifted, also negative, indices; halfwords and signed bytes by both handlers; bases inside, at the ends, over the program, aligned or not | `TransferInSteps`, `HostStaysInside`, `HalfwordViews`, `HalfwordWalk`, `StoresOnlyItsHalfword`, `RegisterOffsetAgrees` |
| `decode` | 32-bit words; the 65536 values of the bits 4-11 and 20-27 over three patterns of the others | `FormatAgrees`, `FieldsReadBack` |
| `vm` | all of `Next`; every branch field; one guest per way of ending; missing and oversized files; limits 0, 1, 2 | `NearBranchReachesTarget`, `BoundedRunReturns`, types |
| `guests` | a byte copy loop, a recursive sum, a jump table; a new limit for each call of `run()` | `GuestsCompute`, `HostTerminates`, `EvaluatesWhatWasAsked` |
| `hello` | `startup.s`, `main`, `_write()`, three characters, limits 0 to 3 | `DeliversMessage` (the safety of `Channel`, implemented by host and guest), `DeliversAll` (its fairness), `SlicesAreInvisible` (a host that gives limits implements the host that gives none) |
| `two_machines` | two guests that push and pop, one of them suspended in between, limits 1 and 2, every order of calls | `EachIsAlone`: each machine implements `Vm` alone |
| `guest_memory` | `armv4vm.ld` in MiB; requests from -16 MiB to the largest an `int` holds | `HeapClearOfStack`, `GrantsAreFresh` |
| `branch_range` | as `vm` | the violation of `BranchReachesTarget` |
| `load_failure` | as `hello`, the file may be missing | the violation of `RunsOnlyLoadedProgram` |
| `smlal` | as `alu` | the violation of `SignedAccumulates` |

Why the bounds are enough. Everything in the ALU depends on the sign bits, on carries and on
equality, all of which 4-bit words have in every combination; shift amounts go to twice
their width, past every case of the shifter, by register up to 15 of the 255, which
includes 0, the width, twice and three times the width. A multiplication depends on no more
than the factors' signs and the two words of the result. In `alu`, `block` and `transfer`
machines start inside `run()` with any registers, since a guest can load them with
anything; the registers not read are 0. Block transfers treat registers alike but for the
base and `pc`, so five registers at both ends and in the middle stand for sixteen; other
transfers tell a register only from pc and from their own base. In `decode` the swept bits
are all those any mask tests but for 12-19, which one mask wants set together, and the
patterns have them clear, set and mixed; the fields at other bits are read whole or not
at all. `MCDecode` also checks the assembler against words the unit tests give with their assembly
(`UnitTestWords`). Guests run to completion; the limit of each call is chosen anew, so calls
end at every instruction. Memory map and requests are multiples of 1 MiB, as the regions are.

Fairness. One thread runs the machine and its host: in `Vm`, `WF_vars(Turn)` says that once
inside `run()` the loop goes on, and nothing is assumed of when the host calls it. In `Host`
the whole program is one thread, `WF_hostVars(HostStep)`. The other specifications state safety
only. `guests`, `hello` and `load_failure` run `SliceSpec`, which is `HostSpec` with history.

`CHECK_DEADLOCK FALSE` is in the runs whose machines stop: after one call of `run()` (`alu`,
`block`, `transfer`, `smlal`), after one word (`decode`) or when lost (`vm`, `branch_range`,
`two_machines`). `guests`, `hello` and `guest_memory` check deadlock; for the first two that says
that no guest of theirs is ever lost.

## 4. The proofs

`VmProofs` proves `Spec => []IInv`, where `IInv` is `TypeOK /\ RunInv`. `TypeOK` alone is not
inductive: that `iter` stays below `limit` needs to know that an evaluation only starts with a
turn left, and that the loop index of a block transfer stays next to a register number needs to
know that the instruction in the `transfer` phase is a block transfer. `RunInv` says both; it is a
part of the induction and no claim of its own. The argument goes bottom up: words (`WrapType`,
`ShiftTypes`, `BitType`), each case of the shifter, the ALU's result and flags, products, memory
(`WordAtType`, `StoreBytesType`), then one lemma per action, and `NextInv`. From it `TypeCorrect`.
In particular no instruction, whatever its shift amount, address or list,
leaves anything but a word in a register or anything but a byte in memory.

The first part of `HandlerProofs` proves action properties of `Spec`. It uses the invariant for the types of
the operands and `OnlyTheHandler` for the fact that no other action can run.

* On the integers the sign-bit formulas are right: `AddFlags` (with carry in) and `SubFlags` (with
  borrow in). From them `FlagsAreExact`, the flags of the eight arithmetic opcodes, and
  `CompareIsExact`, that after CMP each condition answers its relation. `OneValue` says that the
  outcomes C++ leaves open differ in the carry only.
* The product of two signed words is bounded (`ProductBound`), a number within the bound is read back
  from the two words it is cut into (`SignedReadBack`, by the sign of the high word), hence
  `LongMultiplyIsExact` for UMULL, SMULL and UMLAL.
* While four times the offset fits the signed field, extending the sign after the shift instead of
  before it gives the same distance (`NearOffset`), hence `NearBranchesReachTarget`.
* `BitOfLeft`, `BitOfRight`, `BitOfSignFilled` and `BitOfRotated` say where a shift by less than the width
  puts each bit, from facts on division alone (`QuotientIs`, `DivideTwice`, `AddAbove`); the amounts at
  0, at the width and above it are cases of `LeftMoves` ... `RotateMoves`. Hence `ShiftsMoveBits`. That
  `|` works bit by bit is `OrAssumption`.

Its second part is about what transfers touch.

* `LegalAccessStaysInside`: the host leaves its buffer on a legal access in the two named cases only.
  The inductive invariant is `FetchInv`: the program is inside the buffer, which `load()` gives and
  no store can change, and an instruction is evaluated only if `pc` was inside the buffer when it was
  fetched, so that adding 4 to it for a pc-relative address does not wrap. `AddressIsSum` is where
  that is needed, and why `BufferAssumption` keeps the buffer away from the last word.
* `StoredWordsReadBack`: a word cut into four bytes and read again is the same word. The digits
  of a number (`DigitAbove`) and the sums of exponents (`PowerOfSum` of `VmProofs`) give it; the
  latter is an induction, done on the least counterexample (`LeastNatural`) because the
  library's induction rules take an operator.
* `HalfwordStoreIsExact`: what STRH changes, spoilt bytes and short base included.

It also proves that `BlockTransfer` implements `MultipleTransfer` (`BlockTransferImplements`),
step by step under the refinement mapping of `BlockContract`. The mapping counts the registers the
loop has passed to find the base it started from; `CountStep` and `CountSplit` count one
register more or fewer, `BaseStays` says that a turn of the loop leaves that base where it was,
and `SlotIsAddress` that the address the loop has stepped to is the one the abstract transfer gives
the register. The inductive invariant, `BlockInv`, adds to `IInv` that a loop upwards leaves the register
numbers at 16 only and one downwards at -1 only: without it a loop could end with registers still to
be moved, which `Finish` forbids.

Its last section closes the circle that a push and a pop make. `SlotOf` is the slot of a register as a
function of the mode, the list and the base, and `SlotOfLoop` says that the loop steps to it;
`SlotsApart`, that no two slots share a byte; `RunsMeet`, that the slots of a store are those of the
opposite load from the base the store left, even when the run wraps around the end of the
addresses.

`ProgramProofs` proves what programs compute in one call of `run()`, from the end of `load()` on: the
properties of `alu`, `block` and `transfer` that speak of the end of a sequence of instructions, for every
program those runs try, but from any registers and flags instead of the ones listed in the MC modules (and
`RoundTripRestores` for every register list instead of the ones over five registers).

* `Begins` is the state `run()` is called in, with any registers, flags and memory. `Following` says which
  instruction is being fetched or evaluated: the code is the program, `pc` is four times `iter`, one more
  after a fetch. `ProgramStep` and `HandlerFollows` show that it is kept by every turn whose handler comes back and
  leaves `pc` alone; `Straight` and `StraightStep` package that for programs in which every handler does.
  What a theorem then needs of its own is what the registers and the memory hold after k
  instructions (`DoubleInv`, `WideInv`, `StepsInv`, `BothInv`, `WalkInv`, `ViewsInv`, `JoinInv`), and one lemma for the
  evaluation that takes it from k to k + 1. Programs the machine may be lost in are covered: a lost
  machine never comes back from `run()`.
* A property names the program by the code of the machine, so two programs must not be loaded as the same
  code: `CodesDiffer`.
* `DoubleWordsAreExact`: the carry one instruction leaves is the one the next takes in (`CarryChains`), the high words
  decide the order (`HighDecides`, `FlagsOrder`).
* `WideArithmeticIsExact`: products of numbers in two words (`ProductOfPairs`), and that a long product fits
  one word when its high word repeats the sign of the low one (`SameBits`, `SignCopies`).
* `TransfersTakeSteps`: `MovedStep`, `IndexStep` and `PlainStep` for the transfer, the addition and the plain load.
  The transfers into or of their own base are among them: `HasMoved` says what the base and the
  register transferred hold afterwards, the base last if it is written back and the loaded
  value last if it is not.
* `RoundTripRestores`, from which `PushAndPopRestore`: `TripInv` follows the store and the load through
  their loops (`StoreTurn`, `LoadTurn`): what has been stored is in its slot and no later store touches it
  (`SlotsApart`), what has been loaded is the register's first value (`RunsMeet`, `StoredWordsReadBack`).
* `RegisterOffsetsAgree`, `WalkSumsHalfwords`, `HalvesMakeTheWord`: a word is its halves and its bytes
  (`HalvesOfMemory`, `TwoDigits`), signed ones included (`SignedParts`, `SignedViews`).

Their hypotheses, where they have any, are that a word is four bytes (`WordBits = 4 * ByteBits`), as in the
program, that the memory holds the four instructions of a round trip (`16 < MemSize`) or the base of the run's round
trips (`Centre < MemSize`), that the base of the walk leaves room for the array, and what the MC
modules put in the memory (`Pattern`) and in the registers the property compares with.

`GuestProofs` takes the machine under the host of the README, so that control leaves `run()` and
comes back at any instruction, and proves what guests with loops, calls and a stack have computed
when the host is done, and what the host has printed all along.

* A step of the host is a step of `Vm` or none (`HostDrivesVm`), so that the theorems on `Spec` hold under
  the host. `HostKeepsInvariant`: `IInv`, and `HostInv`, where the machine is at each place of the host's
  `main()`, what came back from `run()` last, and that the console holds bytes.
* `LimitsAreInvisible`: a host that gives limits implements, step by step, the same host with the limit
  0 in every call, for any program. The mapping (`Uncut` of `Slices`) takes a machine whose call was cut to one
  that is about to fetch. Each handler is shown to be the same action on both sides (the lemmas
  `...Uncut`), then `run()` coming back with its limit spent and being called again are stutters, and coming back from
  an interrupt is the same answer. That needs `SliceInv`: a call is cut in `switch` or `running`, between two
  instructions, with `Undefined` as its result, and what came back otherwise is the last answer.
* `LimitIsExact`: a call its limit ends has evaluated exactly that many instructions. `SliceInv` has `turns`
  equal to the counter of the loop; `TurnControls` says of every step of the machine that it counts if
  and only if it completes an instruction, block transfers once, and that the limit ends a call only
  when no turn is left (`StepCounts`).
* `Placed(a)` says that control is at an address: the next fetch is from it, now or when `run()` is called
  again, or its instruction is being evaluated. `GuestTurn`: while the guest is neither lost nor stopped
  (`Going`), each step of the host either leaves it placed where it was and changes no register but
  `pc`, no flag and no byte, or evaluates the instruction. What the host does and where the limits
  fall is thereby out of the way, and a guest needs an invariant indexed by addresses, and one lemma per
  instruction: `AluStep`, `DistanceStep`, `LiteralStep`, `NextByteStep`, `CountingStep`, `BranchStep`,
  `ExchangeStep`, `PushTurn`, `PopTurn`...
* `CopyGuestCopies`: `CopyInv`, with k bytes behind, has in `CopyAt` what the three registers hold at each
  address, and the memory is the first one with k bytes copied (`CopyOneMore`).
* `SumGuestSums`: in `SumInv` the depth d of the recursion is a number with no bound of its own; `Frames`
  says what each of the d frames on the stack holds, which a frame on its way out or in
  (`Pushing`, `Popping`) leaves alone (`SumPush`, `SumPop`, from the slots of `HandlerProofs`); `SumAt` has the argument
  on the way down and the sum so far on the way up (`UpToGrows`).
* `SwitchGuestSwitches`: `SwitchInv` keeps the table of addresses and, inside the case that calls, the
  return address on the stack; `TableStep` is the load into `pc` through a shifted index, `SwitchCalls` the
  call through a pointer.
* `GuestsAlwaysCompute`: together they are the property of the run `guests`.
* `HelloGuestDelivers`: host and the guest that writes a message are a `Channel` of that message (`Hears`).
  `HelloInv` counts the characters handed over: `HelloAt` has registers, flags, frame and UART at each address.
  The console is one behind them while the guest has suspended itself and the host has not looked
  (`Waiting`), and level otherwise (`Told`); `Printing`, a part of `GuestTurn`, says that the host prints on
  leaving that state and nowhere else. A call of `run()` that comes back with its limit spent is thus no
  character. `HelloSpeaks` maps each step of the host to a delivery, to the stop after the whole message
  or to a stutter. `HelloImplementsChannel`: for the message of the run it is `DeliversMessage`.

Length, addresses, argument, message and top of the stack are parameters of `CopyGuestCopies`,
`SumGuestSums`, `SwitchGuestSwitches` and `HelloGuestDelivers`. Their hypotheses are that words are four bytes, that the branches fit their field (`FieldSign`, half its range),
that literals, bytes and stack are in the buffer and the numbers are words or bytes (`CopyFits`, `SumFits`,
`SwitchFits`, `HelloFits`), and that a program with the code of the guest has its data too
(`CopiesOnly`...). `GuestsFit` is all of this for the parameters of the run `guests`. A message has at
least one character and at most 255, since its length is an immediate of one byte; its program is the
only one and its file is there (`HelloOnly`, `MayFail = FALSE`), since a host with nothing to run stops
without a message. The theorems do not say that such a guest stops, nor that it is never lost; the
runs show both, by `HostTerminates`, `DeliversAll` and the deadlock check.

`DecoderProofs` proves that `decode()` agrees with the table of the data sheet on each of the
2^32 words (`DecodeAgrees`), where the run `decode` sweeps sixteen bits. A mask is a sum of
powers of two; `MaskBits` and `ValueBits` turn the fifteen masks and values into sets of bits
through a table of the powers (`Powers`). Then a test is a statement about which bits are set
(`TestsOfBits`), the first that holds decides (`FirstDecides`, `TestFormats`), and `FirstAgrees`
compares it with the table, format by format.

`SharedLocalsProofs` takes one machine whose statics may hold anything between its calls: as long as
nobody disturbs them inside a transfer (`Undisturbed`), each of its steps is one of a machine that
has them for itself, and starting a transfer writes both before any step reads them. `TwoMachines`
gives each of two machines that hypothesis, `StaticsInv`, from the fact that the thread is in one
call of `run()` at a time, and concludes `MachinesAreAlone`: each implements `Vm`. The theorems of
the other modules then hold of each machine.

`GuestMemoryProofs` proves `HeapStaysClear` and `GrantsStayFresh` under the hypothesis
`HeapRegionBelowStack`, which `armv4vm.ld` satisfies and `game.ld` does not. The inductive invariant
adds that the heap ends in its region and the stack pointer stays in its own; `NoWrap` is the
arithmetic behind `_sbrk()`'s comparison of pointers, and why a large request cannot pass it.

Assumptions, each evaluated by TLC in every run whose module extends the one that states it:

* `Words`: `WidthAssumption` (a positive width, a field no wider, and that powers of two up to the width
  are positive and at most the modulus), `PowerAssumption` (each is twice the one before),
  `BitwiseAssumption` (`&`, `|` and `^` of words are words);
* `AluContract`: `OrAssumption` (`|` works on each bit by itself);
* `Cpu`: `MemSizeAssumption` (a memory a register can address), `AssertingAssumption`;
* `TransferContract`: `BufferAssumption` (the size of the memory is an `int`, `vm.h:54`, so that it ends
  well before the last word);
* `Vm`: `ImagesAssumption` (an image holds instructions and bytes within its size), `BudgetsAssumption`;
  `Host`: `UartAssumption` (the byte of the console is in the buffer);
  `TwoMachines`: `MachinesAssumption` (those of `Words`, `Cpu` and `Vm`, of both machines);
* `GuestMemory`: `LayoutAssumption` and `SizesAssumption` (regions in order, addresses of half the range,
  increments that are an `int`).

`FetchedWordsAssumption` is used by no theorem. `StoredWordsReadBack` has the
hypothesis that a word is four bytes.

Only model-checked:

* `FieldsReadBack`, whose words are sums over sets of powers: a sum over a set is a recursive
  definition, and what it gives for every set needs an induction the provers do not have.
* liveness: `BoundedRunReturns`, `HostTerminates`, `DeliversAll`.

## 5. What the work shows about the code

Three disagreements are shown by runs.

1. `branchEval()` shifts the offset left by two and then sign-extends from bit 23
   (`vm.cpp:917`), so branches over 8 MiB or more go astray; the field is declared as
   signed 24 bits (`vm.cpp:897`), 32 MiB each way. `NearBranchReachesTarget` states what holds.
2. `load()` without Qt returns -1 for a missing file (`vm.cpp:117`), which the README's
   `if(vm.load())` takes for success.
3. SMLAL adds its product twice (`vm.cpp:663` and `666`), against the comment at `vm.cpp:660`.

The properties make explicit exceptions of what follows, so that each holds of the code and says
where the code departs from the architecture:

* `LongProductExact`: Z after a long multiplication looks at the low word twice (`vm.cpp:685`), and
  so is also set when the high word is not zero.
* `FormatAgrees`: UMULL and UMLAL whose multiplier is r0 match the mask of the halfword transfers by
  register, which is tested first (`vm.cpp:245`), and assert (`UnsignedLongByR0`).
* `ShifterMovesBits`: LSR #0 and ASR #0 do not shift, where the architecture reads a shift by 32
  (`vm.cpp:1544`), LSR and ASR by a register that holds 0 clear the carry, and ROR by a register that
  holds 0 sets it to bit 31 of the operand (`vm.cpp:1587-1590`), where the architecture keeps it.
* `HostStaysInside`: a byte load reads the whole word at its address (`vm.cpp:735`), beyond the buffer
  for its last three bytes; and `m_ram + rn + offset` (`vm.cpp:764`) is not wrapped to 32 bits, so that
  a base with a negative number in an index register reads outside the buffer although the
  address it means is inside. The base that is written back does wrap.
* `StoresOnlyItsHalfword`: a post-indexed STRH to an address that is not a multiple of four
  overwrites the two bytes below with those it stores over (`vm.cpp:1358`; the test at
  `test.cpp:1676` passes since both halves are equal there), and the base an STRH writes back is
  two short when it is a multiple of four (`vm.cpp:1345`, `1365`; `test.cpp:1656` tries another).
* `HeapStaysClear` needs `HeapRegionBelowStack`: in `game.ld` the ram region (`game.ld:7`) ends at the top of
  the stack, so `_sbrk()`'s comparison keeps nothing apart.

Modelled as the code has it, with no property: BIC reads `rn` without the pipeline offset of the
other opcodes (`vm.cpp:509`); a load with the base in the list is overwritten by the write-back; SWI 0
is Resume (`longjmp()` makes 1 of 0); without assertions, transfers by register offset step
their base off the multiples of four (`vm.cpp:1197-1200`) and STRH doubles its halfword
(`vm.cpp:1218`).

## 6. Not modelled, and the plan

Not modelled: the Qt variants of the constructor and `load()`, the `DEBUG` build, the unit
tests (they test single instructions and were read as a reference), sample guest programs as
such, build files. `_read()` takes its input from the word `_write()` leaves its output in, and
the host of the README neither sets the flag it polls nor supplies a character: it returns the
guest's own last output, at once; there is nothing to state of it without a host that has an
input side. The other system calls of `syscalls.cpp` return constants.

Planned, in this order:

1. `Vm` on top of `Decoder`: a memory of words that are both data and instructions, for guests
   that read their code.
2. A host with an input side for `_read()`.
