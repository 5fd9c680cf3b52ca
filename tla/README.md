# NCP-8: specifications, model checks and proofs

NCP-8 is a small machine with three implementations of one instruction set: a
reference simulator in plain integers (`src/golden_sim.py`), a circuit that
computes every row of the datapath and selects by masks
(`src/circuit_torch.py`), and one kernel that branches on the opcode
(`src/circuit_triton.py`), which also runs in batches with all rows in flight.
Machines can form a bank group (`src/banks.py`) and reach one another's pages.
The repository asks the three implementations to agree bit for bit and checks it by
running them against each other. This project states what they should agree *on*,
checks it over every interleaving of small instances, and proves the central
properties for all sizes.

## Inventory

| part | state it keeps | operations | what is hard about it | what makes it correct |
|---|---|---|---|---|
| Reference machine, `golden_sim.NCP8` | registers, PC, SP, flags, DATA, CODE, TDEPTH, STC_COUNT/STC_FIRST, output, input cursor, tick, status and two fault fields | `step`, `run`, `install_state`, `load_state` | an instruction may fail after it has fetched and moved things; frames, pushes and stores share one DATA with the vector table; SP is a register programs write | a fault leaves only the fault fields; no push under the floor; no write to a region; a return reaches its caller; a stop is final |
| Bank group, `banks.BankGroup` | the members, one latch of their statuses, a tick count | `step`, `run`, and a member's `install_state` | members are stepped one after the other over shared pages, and some stop half-way through a group tick | a running machine's page is its own; what a member is refused does not depend on the stepping order |
| Batch, `circuit_triton.TritonBatch` | one STATE and DATA row per machine, a copy of the statuses per launch | `run`, `step(k)`, `install_state`, `set_state` | rows run in parallel, byte by byte, for up to k ticks on one copy of the statuses; the last group may be short | no row in flight reaches another live row's page |
| Masked circuit, `circuit_torch.TorchCircuit.step` | the same machine as tensors | `step` | every signal is computed whatever the others say, from clamped reads; one mask commits | its cause and its next state are the reference's |
| Kernel tick, `circuit_triton._tick` | the same machine as a state row | one tick | three checks come after the branch instead of inside the instruction; store addresses wrap | its cause and its next state are the reference's |
| ISA table, `isa_table.py` | constants: opcode ROM, fault sites, configuration and record fields | `decode`, `MachineConfig`, `check_record`, `fault_state_error` | two load-time declarations may collide; a record comes from anywhere | a record that is let through is a state a machine can be in |
| Debugger, `debug.py` | a trace, breakpoints, a wrapped DATA, the frames so far | `run`, `resume`, `checkpoint`, `replay` | it substitutes the machine's page and resumes from another tick | a resumed session is the session that was never interrupted |
| Records, `recordlib.py` | none of its own | `agree`, `reexecute` | four paths and a fresh process must agree before anything is written | no record without agreement |
| Loader and assembler, `loader.py`, `golden_sim.asm` | symbol tables and placed sections during a load | `load`, `link`, `asm` | sections and declarations that overlap; expressions that refer forward | an image is placed once or refused |
| Disassembler, forms, profiler, symbol export | tables; counters over a finished run | pure functions | — | round trips and accounting identities |

How they interact: a group calls `step` of its members in a loop and hands each of
them the list of statuses it latched before the loop; a bank instruction reads that list and
the neighbour's page directly, which is the same bytearray the neighbour executes
from. A batch does the same with a status row copied at the launch. Records travel
between all paths through `install_state`. Debugger, profiler and record tools wrap
a machine from outside and only ever call `step`.

## Modules

| module | what it models | lines it stands for |
|---|---|---|
| `OwnedPages` | the promise of a bank group, without a driver: turns in any order, a write to one's own page or to one that was quiet when the tick began | the docstring of `banks.py` and ISA.md section 4.8, in terms of the code |
| `BankGroup` | `BankGroup.step`/`run` over `NCP8.step` of each member; refinement of `OwnedPages` | `banks.py` 20–151, `golden_sim.py` 245–397, 455–503, 654–764 |
| `BankOrder` | two `BankGroup`s over the same instructions, one stepped by index and one in any other order (`OtherOrder`; the instance takes the reverse), compared at each boundary | the same |
| `BatchGroup` | launches of a batch, the rows in flight, accesses byte by byte; refinement of `OwnedPages` | `circuit_triton.py` 389–398, 796–870, 1096–1201, 1222–1421 |
| `Machine` | one `NCP8.step`: fetch, checks in order, rollback, frames, output, STC, budget | `golden_sim.py` 88–171, 275–908 |
| `Alu` | the values and flags of the register, pointer and branch instructions, as the reference, the masked circuit and the kernel each compute them | `golden_sim.py` 50–879; `circuit_torch.py` 230–685; `circuit_triton.py` 329–1166; `isa_table.py` 669–708 |
| `StateRecord` | the configuration block and its way through a dict, construction of a machine, `snap`/`record_state`, `check_record`, `install_state` on the reference and the three circuit paths | `isa_table.py` 328–855; the constructors and `install_state`s in `golden_sim.py`, `circuit_torch.py` and `circuit_triton.py` |
| `Session` | `Debug` over one machine, `checkpoint`, `resume`, `run_trajectory`, `replay`, and a second machine of the same program on another path; refinement of `Rollout` | `debug.py` 58–418 |
| `Rollout` | the promise of a session: every state visited is reached from a boot, one tick at a time | the docstring of `debug.py`, in terms of the code |
| `Loader` | `loader.link`: place pass, merging of units, emit pass, declarations; and what `MachineConfig` and `NCP8` make of the result | `loader.py` 31–917; `isa_table.py` 357–516 |
| `Circuit` | one tick of the masked circuit and one of the kernel, either of which may take the next tick of a `Machine` | `circuit_torch.py` 35–50, 298–312, 381–685; `circuit_triton.py` 377–484, 541–546, 862–1166 |
| `BankGroupProofs`, `BankOrderProofs`, `BatchGroupProofs`, `MachineProofs`, `CircuitProofs`, `SessionProofs`, `AluProofs`, `LoaderProofs` | the theorems | |
| `MC*` | the instances for TLC | |

### State and actions

`BankGroup` keeps, of each member, only what the rest of the group can see: its
page, status, cause, tick, and what its last bank load brought in. `latched` is
`bank_owner_status`, `pos` is the driver's place in its loop. One call of
`BankGroup.step` is `BeginTick` and then one of `StepStopped`, `StepOverrun`,
`StepFault`, `StepLoad`, `StepStore`, `StepPlain` per member; `Install` is
`install_state`, which overwrites the page in place and leaves the latch. The
stepping order is a constant, so that the theorems hold for every order although the
code has one.

`Machine` has one action for each way a tick can end: `Overrun`, `Fault`, and an
action for each group of instructions that do the same thing to the control.
The instruction a tick decodes is drawn from `Program` with its operands
evaluated. This is coarser than the code on purpose: an image that writes its own
CODE can decode anything at any PC, and what matters here is the sequence of checks
(`checks`), which one names the cause (`first_of`, `verdict`), and what is committed if none
does. `open` is the one history variable: the frames pushed and not yet
returned through.

`Circuit` has the same variables. `TorchTick` has one line for each assignment of
`TorchCircuit.step`, guarded by the masks `over`, `fault_w` and `m` and not by actions,
because the code computes whatever the status; `fired` lists the sites in the order
of `FAULT_SITE_ORDER`. `KernelStop` and `KernelCommit` are the two ends of `_tick`;
`branch_cause` is what the branch names and `tick_cause` adds the three checks after
it. `ran` remembers which instruction a tick ran, so that `PathsAgree` can say: the
step was the reference's step *of that instruction*.

`BatchGroup` splits a memory instruction into its verdict (`RowAccess`) and one `RowByte`
for each byte, since rows run in parallel and nothing holds them together.

`Alu` keeps one machine's registers, pointers and flags, and takes one tick by
`RefTick`, `TorchTick` or `KernelTick`. The three are written apart, from three
sources: the reference computes the instruction it decoded, the masked circuit
computes every row (`row_*`, `rows_C`, `rows_V`) and selects one, and the kernel
branches and writes C through a latch of its own. A byte has `ByteBits` bits.

`StateRecord` has operators and no variables: `boot`, `record_of`, `check_record`,
`state_error`, and `install_state(path, m, rec)`, which returns the machine that the
call leaves and its answer. The reference checks the scalars and then assigns; a
circuit path stores one tensor at a time, so a scalar that does not fit a 32-bit
tensor stops it half-way (`half`), and the contract knows nothing of cells.

`Session` runs on it. `m` is the session's machine and `cm` another machine of the
same program on `path`; `rec` is the record in hand. A call of `run` or `run_until`
is `Begin` and then one action per iteration of its loop, ended by `RunStopped`,
`RunExhausted`, `UntilFails` or a reason to stop in `RunStep` and `UntilStep`; `loop`
is the call under way. One tick is the constant operator `Exec`, of which only
`ExecAssumption` is known: module `Machine` is about the tick, this one about what is
done around it. `spoiled` are the records no machine publishes, one for each
component the contract looks at; `wide` are the records the contract lets through
although a cell of a circuit cannot hold them: `tick` has no upper end and `STC_COUNT`
has twice a cell's. `InstallPublished`, `InstallSpoiled` and `InstallWide` are one
`install_state` with each of these. `astray` says that what is in the second machine
is no machine of the program: a wide record on the reference, half of one on a circuit.
Such a machine is neither stepped nor recorded, since what it would compute is no run of
the program, but it still takes and refuses records. `hosts` says where a second machine
can be built: not on a batch if the program length is declared, and not on a circuit if the
budget does not fit its cell. `seen` is a history variable, for `Rollout`.

`Loader` has one action per kind of line and pass, and `own`, `settled` and `merged`
for the tables as they grow: `.org` and `.equ` read what is known at that point,
while a datum reads the whole. A second pass that reads a fuller table than the
first did is why `MeaningHolds` is worth stating. `at` is a history variable: where
the place pass stood at each line.

### Abstractions

- In `Machine` and `Circuit`, r0–r3, HL, DE, MB and the input are abstracted to the
  operands of the instruction, and flags after an ALU instruction are any flags;
  `Alu` has their values and leaves out memory, budget and faults but those of a branch,
  the end of CODE and a division by zero.
- CODE's bytes are abstracted; STC's effect on what is decoded is that anything may be.
  Its window, first address and written cells are kept.
- `Radix` stands for 256: a word is two bytes in that radix. No property depends
  on the value, and the proofs hold for every radix.
- Bank instructions are in `BankGroup` and `BatchGroup`, with a verdict `FAULT` for what
  `Machine` details; `Machine` and `Circuit` leave them out.
- A word that runs off the page answers like any word that does, so one pointer past
  the end and one selector past the count stand for the rest.
- Division by zero, unassigned opcodes and unassigned subcodes are one kind, `BAD`:
  none of them has another check to race with once its bytes are fetched.
- Scalars of a record that the contract treats alike stand for one another: one
  register, one trap count, one fault cause. `INT32_MAX` stands for 2^31-1; `STC_COUNT`
  keeps its width of twice that and one.
- In `Loader` an expression is a constant or a name plus a constant, and lexing, the
  match of a line to its form and its encoding are left out; an instruction is a
  datum with the slot of its operand. `.byte` and `.word` place each expression in
  turn where the model places one block: a refusal in between ends the link either
  way, and nobody sees what had been placed.
- Left out of modelled components: `LDI HL` and `LDI DE` (two immediate bytes), the
  `ext` override of the masked circuit, `load_state` (used by tests to set one field),
  `set_program`/`set_inputs` of a batch.

## Runs

| run | question | bounds |
|---|---|---|
| `bank_group` | what may a group's members do to each other's pages and to their own stop, also when a record is put back between ticks? does a run end? | three machines, pages of two cells, budgets 2, 1 and 1, one restore, two group ticks |
| `bank_order` | what does not depend on the stepping order? | three machines, three group ticks |
| `bank_order_shows` | what does, against what the documents say | the same |
| `batch_group` | rows in flight, launched a tick at a time or without limit: is the promise kept, between groups too? | a group of three rows and a partial one of one, pages of three cells, the last protected, budget 2, two launches, one restore |
| `batch_stale` | whether a refusal in a longer launch is of a running owner, as the documents say | two rows, two ticks per launch |
| `circuit` | are faults atomic, is the stack protected, do returns match, does a machine stop, and do both circuits take the reference's tick? | ten cells, ten bytes of image, three ticks on any path and the one that overruns, every kind of instruction and the prefixed forms |
| `session` | does a session stay on the run of the machine it watches, through stops, records and resumes? are recordings exact? what can a refused record leave behind? | three programs, one with a budget above a cell; the second machine on the reference, the masked circuit or a batch; CODE of four cells, DATA of two, cells up to 3, `tick` the scalar above one, runs of up to two ticks, one frame before single steps and runs are no longer begun, one breakpoint, one watched cell |
| `session_wide` | whether a refused record leaves the machine as it was, as the documents say | the same, with `tick` or `STC_COUNT` above a cell |
| `session_edge` | whether whatever a session publishes is taken, as a test says | an image that fills CODE |
| `alu` | do the three paths compute the same values and flags? do chains of bytes make words? | bytes of two bits, one tick, every content of r0–r3 with four of the sixteen contents of the flags, every content of HL and DE |
| `loader` | does a line mean on the second pass what it meant on the first? can what links be run? | programs of one unit of up to three lines, two of up to two, three of up to one, from a pool of thirteen lines over two names; CODE of four bytes; each declaration inside, at and past its range |
| `loader_entry` | whether every refusal is the loader's own, as it says | the same |

Three machines are enough for a group because an access involves an owner and a
visitor, and the order of two visitors matters only on a page of a third; a fourth
machine could only repeat one of these roles. Pages have two cells because a word is two
bytes and a region can cover one of them; the batch needs a third cell so that a
protected one lies next to a word. Ten cells of DATA hold a four-byte vector table and six
cells above it: one trap frame and a call frame. Three ticks are enough to push
a frame, do something and return through it, and the budget ends the run. The
theorems remove these bounds for all safety properties except those named at the end of
the next section but one.

A byte of two bits has every combination of carry, sign and overflow of its
operands, and a product with a high half; one tick from every content is every tick.
In `session` every record is taken at every tick of every program, spoiled in
every way and widened, so what the bound leaves out is only longer histories of the same calls.
The kernel's single circuit is not among the instance's paths: it stores a record in the order
a batch row does, and differs from it only in the output's length. `STC_COUNT` above a cell
is `session_wide`'s; `session` puts only `tick` there, which both store orders have half-way.
In `loader` three lines are an `.equ` or `.org` that reads a name, the name, and something
placed after them; a third unit is the first that can read a name two others agree on.

`MaxGroupTicks`, `MaxLaunches`, `MaxInstalls`, `MaxFrames`, `MaxSteps` and `MaxTicks`
bound drivers that could go on for ever; they only bound how often somebody calls
from outside.

### Fairness

`RunEnds` (group) assumes weak fairness of the driver: `BankGroup.run` is a loop
that calls `step`, and `step` is a loop over the members; neither waits for anything.
`RunEnds` (circuit) assumes the same of `NCP8.run`, whichever path takes the ticks.
`RunReturns` assumes it of `Debug.run` and `run_until` (`RunLoop`), loops over ticks;
nothing else in a session is fair, nobody has to begin a run, step or resume. `LaunchEnds` assumes weak
fairness of each row: the device runs every program of a grid to its end.
`install_state` is never fair, nobody has to call it.

## What is proved

All proofs are by invariant and, where a step matters, by an action property of the
next-state relation under that invariant. The assumptions are those named in the modules:
`GroupAssumption`, `MachineAssumption` (the configuration `MachineConfig` lets
through: an entry inside the image, a floor inside DATA, a window inside CODE,
a vector table that fits) and `CircuitAssumption` (the lengths the two circuits write out
as `PC + 2` and `PC + 3`, and a vector table that is not empty).

`BankGroupProofs`. `TypeOK` is inductive, and `LatchHolds` and `FaultPaired` are inductive
under it: the latch survives a restored record only because one is put back between
group ticks, where `LatchHolds` asks for nothing and the next `BeginTick` copies the statuses anew
(the mutant that restores at any time breaks it). `OwnerExclusive` is an action property and
needs `LatchHolds`: an access to another page was let through by the latch, and
what the latch calls quiet is quiet. `InStep` is inductive with the driver's position in it:
a running member that has been stepped in this group tick has counted one more
than the group. `GroupKeepsPromise` maps `Stepped` to `done` and the latch to `quiet`; each
member's step is a turn that idles or a write, a restored record is `ARestore`, and
`LatchHolds` is again what makes a write of another page one the promise allows.

`BankOrderProofs`, under `OrderAssumption`, which allows any second order that names each member
once. In the middle of a tick the two groups have
stepped different members, so they are compared member by member: one that both or neither
have stepped shows the same verdict, and one that only one group has stepped is one turn
ahead there (`Ahead`). A turn's verdict reads the latch, the instruction and the member's own
counter, which is why `VerdictsNeverDiffer` needs no word about pages. For pages, `Alone`: in a
tick without a meeting, a cell somebody stores into is read and written by nobody else,
since a running member's page is closed to the others and only quiet pages are
left. So a cell holds what its one writer leaves, or what it held (`PagesTrack`), and what a
member loaded is still there (`SeenTrack`); at the boundary that makes the groups equal
(`OrderShowsOnlyAtMeetings`).

`BatchGroupProofs`, under `BatchAssumption`. The invariant says that a live row was running when the
launch latched its status (`LiveRuns`), that a row with accesses in flight still has the tick
to count (`TickOpen`), and that every access in flight passed the verdict against that
latch (`Aimed`). The rows move byte by byte between the verdict and the last store, and the
latch is all that keeps an owner's page closed meanwhile: it does not change before every row
has left the loop. `InFlightAlone` follows, then `OwnerExclusive` and `RegionsIntact` for one byte
at a time, and the promise with the launch as its tick. The other side is whom a refusal is of:
a row that was running when the launch began is in the loop or has left it by a tick of its
own (`LatchedRan`), so `BANK_BUSY` always names a neighbour that runs or ran in this launch
(`RefusalsHaveOwners`), and in launches of one tick what finding 2 says of longer ones
cannot happen (`OneTickRefusals`).

`MachineProofs`. `TypeOK` carries the stack bounds, so it is where the checks are used: a
push that passed `stack_room` leaves SP between SPLIM and DATA_SIZE. `FloorKept` and
`RegionsKept` rest on one lemma, `DataStep`: a step leaves DATA alone, or pushes below SP
and above the floor, or stores in an interval; in both cases clear of the
regions. `ReturnsToCaller` is about one step: given that the latest frame is intact,
the bytes a return reads are the bytes a call or a trap pushed, in that order.

`CircuitProofs`. The central lemma is `CausesAgree`: for an instruction whose fetch is in the image,
the first site that fired, the first cause the kernel names and the first check
the reference fails are the same. Its parts are one lemma per path
(`TorchNames`, `KernelNames`, `ReferenceNames`) which give the same nested condition, and
`ReadsClamped`, which says where a clamped read is the cell's value. `WrapsNothing` shows
that a committed tick's addresses are in range, so the kernel's wrapping is never seen, and
`Landing` that writing a frame port by port gives the interval the reference stores.
`PathsImplement` follows under `TypeOK`, which `CSpec` preserves because each of its steps
is a step of `Machine`; so whatever is proved of `Machine` holds of the circuit
paths (`CircuitsAreTheMachine`, `CircuitsReturn`, `CircuitsKeepRegions`).

`SessionProofs`. The assumptions are `RecordAssumption` (sizes), `SessionAssumption` (sizes, and starts `Debug` accepts),
`MachinesAssumption` (what a machine is: scalars within their widths, and within a cell
unless the budget is above one, since a tick adds at most one to `tick`, `STC_COUNT` and
`ipos`; a status with its cause, a block `MachineConfig` let through, and a record of its own that passes the contract it
was built with, which `record_state` checks before it publishes) and `ExecAssumption` (a tick leads to such a
machine, changes no block and no input, and writes nothing if it raised). Three
lemmas carry the rest: `BlockCarried`, a block survives `as_dict` and `from_dict`;
`StoresAll`, a path stores all scalars exactly if each fits its cell, in whatever order it stores them; and
`Taken`, hence a published record installs and makes the machine it was taken from. The
invariant `IInv` says, besides types and frames, that all machines in hand share the
block and the inputs, the second one also while it is astray, that the second one's path
has a cell for the budget, and that the record in hand is the record of a visited machine. `SessionKeepsToRun` is the refinement of `Rollout`: an install or a resume
leads back to a machine already seen. `PublishedIsTaken` has a hypothesis: every machine's PC is inside
CODE. That is exactly what the edge case of finding 3 breaks, so the theorem says there is no
other. `OneContract` is about a record from anywhere, not only from a session: its
scalars may be any integers. The four paths answer alike except for a record the reference
takes and a cell of 32 bits cannot hold, which the circuit paths refuse half-way. That there are
such records within the contract, for every program, path and width of a cell, is
`WideSplitsPaths`: the registers and PC of the refused record are in the machine, the memories
are its own (finding 5). `RefusalsContained` is what remains of the promise that a refusal
writes nothing: whatever the contract refuses writes nothing at all (`SpoiledRefused`, which is
about a second machine in any state), a record above the cells writes no memory, and the session's own
machine, on the reference, is never touched; the next published record the second machine takes
makes it whole again, which follows from `SeenOK` because no half-write touches its block or its inputs.

A session also never leaves one run. `steps`, the loop of `run_trajectory`, is a function
of the number of ticks, and the proofs unfold it by induction over that number
(`StepsUnfold`): two recordings under the same arguments go through the same machines as
long as they run, and the block a recording is replayed under has come back from a dict
unchanged (`BlockCarried`), which is `RecordingReplays`. `VisitedIsOnOneRun`: every machine
visited, by a step, an install or a resume, is one the recording from the boot comes to.

`AluProofs`. `ByteWidth` and `BitwiseByte` come first, by induction over the number of bits: half
the span is a positive number, the span is twice that, and AND, OR and XOR of anything are
bytes. The central lemma is `TicksAgree`: from any machine with bytes in its registers and words
in its pointers the three ticks give the same machine. The masked circuit does in one form what the
reference does by cases (`TorchForm`), and `FaultsAgree` says when the three stop; then there is a
lemma for each group of instructions that computes alike (`Sums`, `Difs`, `Copies`,
`Pointers`, `Branches`, ...). `TypeCorrect` needs only that an operand is one the decoder makes
(`AluAssumption`) and carries all the others, since it names the states they are about.
`PathsCompute` and `FlagsAsDeclared` follow, the second from the rows of the masked circuit alone
(`RowsDeclared`). `CompareOrders`: after `CMP`, C and Z order the operands as bytes and S # V
orders them as signed bytes. `ChainsAreWords` has an arithmetic half, lemmas over plain integers
(`SumWord`, `DifWord`, `ShiftWord`: the carry of the low half is what makes the high half exact, and
only the high half's overflow counts), and a half about the program (`Chain`): what stands
between leaves C and the registers, so that the second instruction begins where the first
ended. All of it for every width of a byte.

`LoaderProofs`. The two passes are compared through the counters the place pass leaves
in `at`. A line *means* what it says at a counter under a table (`Means`); that
does not change when names are added (`MeansGrow`). Each unit is placed under its own
table (`Current`); names that disagree with those before are refused, so the settled tables lie
within the merged one (`Settled`), and the emit pass stands where the place pass stood
(`Follows`). `NothingOverwritten` is about the image's bytes and the blocks placed;
`LinkedCanRun` about the declarations: whatever `link` lets through is accepted again by
`MachineConfig` and `NCP8`, the entry of finding 4 aside.

`FaultsPaired`, `MembersInStep`, `RefusalsHaveOwners`, `OneTickRefusals`, `OneContract`,
`WideSplitsPaths`, `VisitedIsOnOneRun` and the three that carry the machine's theorems to the circuits are theorems
without a run of their own.

Only model-checked: the liveness properties (`RunEnds` of the group and of the circuit, `LaunchEnds`,
`RunReturns`), which the prover does not do. Every safety property of a passing run is also a
theorem. Induction is over numbers only, from the fact that the naturals are well-founded: the
induction theorems with an operator as a parameter are out of the installed provers' reach, a least
counterexample (`Least`, `AllNumbers`) is not.

## What the checks found

1. *The stepping order can be seen.* `banks.py` lines 4–6 and ISA.md section 4.8 say that
   a cross-page access does not depend on it. Verdicts do not (`VerdictsAgree`), but two
   running members that meet on the page of a stopped one do see each other's order:
   `OrderInvisible` is violated, and `OnlyMeetingsShow` says that this is the only way.
2. *A long launch uses old statuses.* `TritonBatch.step(k)` with k above one refuses
   `BANK_BUSY` for an owner that stopped in an earlier tick of the same launch
   (`BusyMeansRunning`). `run` launches groups one tick at a time and is right
   (`OneTickRefusals`). The
   safety side holds for any k: a row never reaches a live page, only
   keeps off a quiet one for longer.
3. *A session can publish what it cannot resume.* `Debug.__init__` refuses a PC at the
   image's end, where a program that fills CODE stands after its last instruction; every path
   installs that record and `resume` does not (`TakenInstalls`, `src/debug.py` 108, against
   `src/test_debug_resume.py` 115).
4. *The entry `main` is not looked at.* `entry=` is held to its range and a symbol `main`
   is not, so `.equ main, -5` links and `LoadResult.config` raises a `ConfigError` where
   the loader says every refusal is its own (`RefusedHere`, `src/loader.py` 815).
5. *A refused record may be half installed.* The contract lets `tick` be anything and `STC_COUNT`
   reach 2^32-1 (`src/isa_table.py` 652-660); a circuit path checks the contract and then stores
   one 32-bit tensor after the other, so such a record raises with the scalars before it
   stored (`src/circuit_torch.py` 770-780; `_write_row_state` of the kernel paths). ISA.md 453 says
   that `install_state` "refuses, before writing anything" and ISA.md 464-466 that "a rejected
   record leaves the machine exactly as it was" (`RefusalWritesNothing`). The reference installs
   the record. No run of a machine gets there, only a record from elsewhere; the half-written
   machine is recognised by nothing until another record is installed.

Met while reading, without a run: ISA.md lines 244-246 say that EXT "commits PC and the three
fault fields and touches no other state", line 231 that "nothing is saved", and README.md lines
116-117 "Nothing is saved and no trap depth is counted", while the code pushes a frame of four
bytes and counts TDEPTH (`src/golden_sim.py` 783-803, as ISA.md line 14 says and `Machine`
models); ISA.md line 417 and `loader.py` lines 9–10 say that every
implementation boots at CODE[0], while `NCP8` boots at its entry (as ISA.md line 331 says);
ISA.md line 145 gives GETF as Z and C only, while the code packs all four flags; and a
character above latin-1 in `.ascii` raises a `ValueError`, which is not a `LoaderError`.

## Plan

Done so far, in order: the group and its promise, the machine, the circuits' control, the
batch, the state contract and the debugger, the registers, the loader. Left:

1. `set_program` and `set_inputs` of a batch between launches.
2. The decode ROM: that `isa_table.DECODE` and the accepted forms are inverse to each other on
   every opcode and prefix, which `asm`, `loader` and `disasm` rely on.

## Not modelled

- The assembler `golden_sim.asm` is one pass of what `Loader` models plus forms and
  encodings; those, the disassembler and the accepted forms are functions over tables
  of text, and every error in them is visible in one call.
- `recordlib`: `agree` and `reexecute` compare finished runs and start a process of the host. What
  they rely on is that the paths agree (`PathsAgree`) and that a run is a
  function of its start (`ReplayExact`).
- The profiler and the symbol export count and format a run that has ended.
- The programs in the machine's own code are inputs: `Program` allows every
  instruction sequence. The report tables of `banks.py` and the tests keep no state.
- Wall-clock, device memory and the process boundary of `recordlib` are outside.

## Running it

    tlc -workers 2 -config BankGroup.cfg MCBankGroup
    tlc -workers 2 -config Session.cfg MCSession
    tlapm BankGroupProofs.tla
    tlapm SessionProofs.tla

Each `.cfg` says in its first line what its instance is; `BatchStale.cfg` and
`BatchGroup.cfg` go with `MCBatchGroup`, the three of a session with `MCSession`, and so on:
a run's module is named in `PROJECT.json`. `MCMachine` is the instance `MCCircuit` extends.
The longest run (`session`) takes about three minutes and the longest proof (`AluProofs`) about four.
