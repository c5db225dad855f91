# A TLA+ model of SystemScope

SystemScope is a deterministic discrete-event simulator of small computer systems,
written in Rust. This directory holds TLA+ specifications of its parts, the TLC
configurations that check them on small instances, and TLAPS proofs of the
properties that matter most for every instance. `PROJECT.json` maps every
definition to the source lines it models, and lists the hazards the properties are
aimed at, the line of code where each bites, and the mutants each property catches.

Contents: [the system](#the-system), [modules](#modules-and-the-code),
[runs](#what-the-runs-check), [bounds](#bounds), [fairness](#fairness),
[proofs](#what-is-proved), [finding](#a-disagreement-found),
[not modelled](#what-is-not-modelled), [next](#next).

## The system

A *session* (`runtime/src/runtime.rs`) owns a fixed set of components connected
port to port. Everything that happens is an *event*: a message on a port or a
component's own wake, due at a tick and a phase (Request < Transfer < Complete <
Commit < Observe). The *scheduler* (`runtime/src/scheduler.rs`) orders events by
(tick, phase, sequence number); the runtime pops one, chains it into the execution
digest, and runs the target's handler, which may schedule further events. Nothing
is concurrent in the host program; all the concurrency is in the *simulated*
system, where handlers of different components interleave in event order.

A session can be saved between any two events and restored into a fresh one. Every
component validates what it restores, and the documentation promises both that
every state of a run is accepted and that a state no run reaches is not. The first
promise is checked of every component (`RestoreAccepts`, `Restorable`, `Resumable`,
`RestoredShadowIsMemory`): `restore` is the code's own list of its invariants, so
showing that it accepts every reachable state checks that list and the handlers against
each other.

### Inventory

| Part | Source | State | Operations | What is hard about it |
|---|---|---|---|---|
| Scheduler | `runtime/src/scheduler.rs` | heap, cursor, count in phase, next sequence | schedule, pop, snapshot, restore | same-slot scheduling, the per-phase limit, continuing after a restore |
| Session | `runtime/src/runtime.rs`, `snapshot.rs` | lifecycle, fault, digest, observe points | init, step, run, observe_at, snapshot, restore; `Ctx` calls of handlers | errors a handler swallows, pauses between observe points, a restore that fails halfway |
| Trace | `runtime/src/trace.rs` | recorded prefix, pending records | start, take, resume | a prefix of another branch of the run |
| Topology | `runtime/src/topology.rs` | what was declared | declare, elaborate | links checked one by one, in any order of declaration |
| RNG, export | `runtime/src/rng.rs`, `export.rs` | none during a run | draw; format | nothing over time |
| Multi-master bus | `components/platform/src/mmbus.rs` | per region: active transaction, FIFO per master, cursor | request, arbitrate, response | wakes lost between a response and the next grant, starvation, duplicate answers |
| Address bus | `components/platform/src/bus.rs` | outstanding transactions | request, response | out-of-order answers |
| RAM, UART | `components/platform/src/ram.rs`, `uart.rs` | sparse pages; output bytes | one request per event | the canonical form of the pages |
| Block media | `components/platform/src/media.rs` | blocks | read, write | bad blocks, capacity |
| Block DMA controller | `components/platform/src/dma.rs` | registers, status, engine position, buffer | register writes, issue, beat and block results | registers rewritten while busy, failures in mid-transfer, counters at their limit |
| Interrupt controller | `components/platform/src/irqc.rs` | pending, enable, output | level in, ENABLE write | edges under way on several lines |
| Modeled kernel | `components/os/src/kernel.rs`, `procop.rs`, `syscall.rs`, `space.rs`, `boot.rs` | life, engine, stage, held ENTER | ENTER, issue, answer; boot, trap, system calls, dispatch, shutdown | an operation spread over many events, boot with failing images, user buffers walked one entry at a time |
| Process table | `components/os/src/process.rs`, `frames.rs` | PCBs, run queue, current, frame owners | reserve, admit, yield, end, schedule | tables broken long before they are used |
| Kernel prototype mode | `components/os/src/core.rs` | held ENTER, step of the script, frame read so far, next TxnId | ENTER, issue, answer | a frame that straddles pages, answers out of protocol, TxnIds that run out |
| RV32I CPU | `components/rv32i/src/` | registers, CSRs, privilege, pipeline state | wake, response, commit, irq | interrupts sampled only at retirement, page walks in flight |
| Toy system | `components/toy/src/`, `reference/src/` | random initiators, bus, memory | issue, arbitrate, route, answer | wake bookkeeping when full |
| Program loading | `elf/src/`, `components/os/src/image.rs`, `config.rs`, `space.rs` | staging, frames, page tables | parse table and files, plan pages, build | range arithmetic at every boundary, prefixes that are too short, entries written before what they point at |
| Workspace tasks | `xtask/src/` | none | run tools, compare files | nothing over time |

How they interact: the CPU and the DMA controller are masters of the multi-master
bus; RAM, UART, the controllers' registers and the kernel's gate are its regions.
The DMA controller has its own link to the media and a line to the interrupt
controller, whose output is the CPU's interrupt input. The modeled kernel replaces
supervisor software: the trap stub writes the address of the trap frame to the gate
(`ENTER`), the kernel holds that request while it reads and writes memory through
its own bus master, and answers it when the hart may go on.

## Modules and the code

### Event order: `Scheduler`, `Calendar`, `SchedulerRefinement`, `SchedulerForeign`

`Scheduler` has the fields of the Rust struct as variables and one action per method
that changes state: `Schedule`, `Pop`, `TakeSnapshot`, `Restore`. The heap is a set,
since keys are unique. `RestoreOk` translates every check of `restore`. `dispatched`
is a history variable. Failing calls change nothing, so they are not steps here;
`Runtime` turns them into faults.

`Calendar` is the abstract promise: each slot (tick, phase) has a FIFO of payloads, a
cursor moves forward, and no slot is served more often than the limit. It has no
sequence numbers and no heap. `SchedulerRefinement` maps a scheduler state to a
calendar (the slot's pending events sorted by sequence) and checks that
`Scheduler!Spec` implements it, snapshots included.

`SchedulerForeign` restores snapshots that pass validation without having been saved
by a run; see [the finding](#a-disagreement-found).

### The session: `Runtime`, `MCRuntime`

Extends `Scheduler` with the session: lifecycle, the call in progress with its
program point (`call`), observe points, digest, trace, pending records, and the
sticky error of `Ctx`. The driver's calls are actions; `run` and `step` are executed
step by step (`FirePoint`, `Dispatch`, `HandlerReturns`, ...), so that a handler's
sends, failures and refused sends, and an observer's pause, can fall anywhere the code
lets them. A second session, created with `Elaborate`, can be restored from what
the first one saved and can resume its trace. `MCRuntime` has two settings: one in which
sessions are saved, restored and resumed, and one, without restores, in which handlers
send into two phases and into the tick being dispatched while observe points are
registered at that tick and at the next.

### Components seen from the runtime: `EventQueue`

The same calendar in relative time, as operators: a component that runs for ever then
has finitely many states. Used by the bus.

### Setting a session up: `Checks`, `Topology`, `ElfImages`, `ExecTable`, `AddressSpace`, `ProgramLoading`, `MCSessionSetup`

The code that runs before there is anything to simulate, and the code a disk boot
applies to the bytes it reads, is a series of validations with an early return each.
`Checks` has that form once (`FirstFailure`: the error of the first check that fails), so
that the order of the checks, which decides the error, is the order in the code.

`Topology` declares clock domains, components and links in any order; `elaborate` is
every pass of `Topology::elaborate` in order and pairs the ports. `Wired` compares it with
a wiring stated without any order.

`ElfImages` has the two loaders: `load_elf32` (firmware placed in RAM) and
`parse_user_elf32` (the page plan of a user executable, from a prefix of its file).
`ExecTable` is the table in block 0. `AddressSpace` is `KernelConfig::validate`,
`DiskBoot::validate` and `Space`: the frames of a process, what goes in each and the
accesses that put it there. `ProgramLoading` composes them into a disk boot on real
bytes, one access at a time, in frames that hold stale data: what `ModeledKernel` leaves
out. A file is a record of its header fields; byte *i* of a file is a value that tells
offsets apart.

### `MultiMasterBus`, `MCBus`

Variables are the fields of the struct; `HandleRequest`, `HandleWake` and
`HandleResponse` are the three handlers with every fault they raise. Masters issue
requests with any delay in `Gaps`; targets answer after any delay in `Latencies`. With
`Conformant = FALSE` masters reuse live txns, send empty requests or send in the wrong
phase, and targets answer twice, with the wrong kind or in the wrong phase. An address is the index of
its region or `Unmapped`.

### `SparseStore`, `SnapshotLists`, `MemoryPath`, `MCMemoryPath`

The single-initiator path: the address bus with the checks of its memory map, the RAM,
the UART, and the block media beside them. `SparseStore` is the page map of the RAM,
stored to page by page as in the code's loop, and the block map of the media; neither
holds an all-zero entry. `MemoryPath` has one action per
handler; a response holds the data sampled when its request was accepted, and responses
arrive in any order, which covers every latency. Beside it runs a flat memory of single
bytes: `Served` compares every answer with it. `SnapshotLists` is the form in which
snapshots hold a map: entries by ascending key, checked on restore.

### `DmaBlockController`, `BlockTransfer`, `MCDma`

The registers, status bits, engine state and position are the code's. One action per
register write (`WriteLba`, ..., `WriteCommand`, `WriteAck`), `Issue`, `MediaResult`,
`BeatResult`; the memory and the media are part of the module as environment
(`RamServes`, `MediaServes`). The driver may write any register at any time, with levels
of the interrupt line still under way: a write that could move the line (`IRQ_ENABLE`,
`ACK`) waits only while `MaxWire` levels are. With `Conformant = FALSE` answers come
unasked, twice, for another txn, of another kind or outside Complete.
`BlockTransfer` is what a driver may rely on: beats or blocks are copied in order,
errors leave a prefix, nothing else is written. `Transfers` in `MCDma` is the refinement.

### `BitWords`, `Sv32`, `Privilege`, `Rv32iCpu`, `MCRv32iCpu`

The CPU component. `BitWords` has words as sets of their one bits, so that masks and
fields are set operations at full width. `Sv32` is the page-table walk, step by step
(`WalkStep`) and at once (`sv32_translate`), scaled by the number of VPN bits per level.
`Privilege` has the machine CSRs and the M3 privilege state: reads, writes with their
legalisation, MRET, SRET, delegated exceptions and interrupt entry. `Rv32iCpu` is the
state machine of `cpu.rs`: `Wake` and `Respond` are its handlers, with every state, walk,
trap, halt and fault, in the profiles M1, M2 and M3; `restore` rebuilds the plan of a
pending access that a snapshot leaves out. An instruction is a record of its operation
and operands; the arithmetic of ALU instructions and branches is abstracted to the value
or target that results. The memory is external: a fetch outside the rom may return any of
the configured words, a page-table read any of `Ptes`, and anything may fault.

### `ToySystem`, `MCToySystem`

The CPU, the DMA, the round-robin bus and the memory of the M0 scenario, wired together.
Random draws, think times and latencies are free choices. A message carries the phase it
was sent for and is delivered in it.

### `IrqController`

The whole path from the devices' lines through the controller to the hart's input, with
the levels under way on every line.

### `Processes`, `ProcessTable`

`Processes` is the process table as pure operators on a record: each operation `Op`
comes with `CanOp`, true exactly when the code does not return a `Violation`, and
`Check` is `Processes::check` conjunct by conjunct. `ProcessTable` closes it with every
order of calls the callers' contracts allow.

### `ModeledKernel`, `PrototypeKernel`, `MCKernel`

The gate, the engine that makes one access at a time (`Issue`, `MemResponse`) and the
operations of process mode. `Start` and `Advance` are `Model::start` and
`Model::advance`: they return a decision (new life, table and stage), which `Adopt`
installs. Page tables are in memory (`ptes`): creations write them, the user-copy walk
reads them back entry by entry, and `RestoreOk` compares what the walk found with the
image, as the code's `syscall_space` does. The hart with its trap stub, the processes,
the memory and the block controller are the environment; a process may trap at any pc,
for any cause, with any buffer. With `Conformant = FALSE` anyone may write the gate and
the trap frame at any time and the memory may answer unasked.

Abstractions: a context is its pc; a stage of several accesses makes two, and its
effect on memory happens when it ends; a page of a buffer is output as one chunk; the
two megapages every address space maps are one; the two sources of boot images (plan
and disk) are both modelled.

`PrototypeKernel` is the same gate and engine in prototype mode, with the operations of
`core.rs` in full detail: the split of the frame into accesses (`chunks`), the data
gathered by the reads, the writes with `sepc` stepped, the TxnIds and their exhaustion.
The frame is a sequence of words in memory and each access reads or writes its part of it
when the memory serves it. `MCKernel` has it as a fourth setting: `Restorable` is its
`RestoreAccepts` there, `Continues` its `OperationApplied`. With `config.wild` a peer sends
a gate request or a response of any kind, length, phase and TxnId at any time.

### Settings of one run

Some runs check a module in more than one setting: peers that follow the protocol and
peers that do not, a plan and a disk. The MC module extends the component (its constants
are those of the first setting), instantiates it again with other constants for the
others, and has a variable `scene` (`part` in `MCSessionSetup`) that is chosen initially
and never changes. Properties say which settings they are about; fairness is stated only
of those in which progress is claimed.

## What the runs check

| Run | What it shows | Distinct states |
|---|---|---|
| `scheduler` | dispatch order strict, the S5 limit counts across restores, every state restorable, the heap implements the FIFO calendar | 127,122 |
| `scheduler_foreign_restore` | violated on purpose: see the finding | stops at the counterexample |
| `runtime` | a session watched while it sends into the current tick and the next, and two sessions: observe points fire between the right events, refusals fault the session, traces replay to the digest across snapshots, restores and resumes, calls return | 490,157 |
| `session_setup` | disks, files, configurations and topologies at and around every limit: a boot accepts exactly what a byte-by-byte reference accepts whatever prefix was read first (`Verdict`), a process sees its file, zeros and its stack and nothing else (`MappedAsFile`), no write leaves its target and no entry points at anything still to be written (`SafeLoad`), firmware lands where its headers say (`Firmware`), every port is paired with its peer (`Wired`) | 449,946 |
| `bus` | three masters on one region; two masters, one of which uses two txns, and two regions that break the protocol, with a downstream counter that runs out: no master passed over twice by another, the first wake of a phase grants everything, one answer per request and in order, restorable states, everything answered | 602,876 |
| `memory_path` | accesses across region, page and device ends, several outstanding, answered in any order: answers are those of a flat memory, snapshots are canonical, everything is answered | 129,822 |
| `dma` | registers rewritten at any time, refused commands, bad blocks, faulting memory, exhausted counters; and unsolicited, repeated and wrong answers: commands copy exactly their blocks, end, and drive the line; every state is restorable and has exactly what it waits for under way | 272,520 |
| `irq_controller` | no edge lost, the hart's input follows the enabled devices | 14,175 |
| `process_table` | every legal order of calls passes `check`, no call reports a violation | 3,625 |
| `kernel` | three processes that call, write, yield and exit, and a trap of the kernel itself; boot through the block controller with transfer errors, an invalid table, files that do not parse or need two reads; images that are skipped while anyone writes gate and frame; prototype scripts until the TxnIds run out: restorable states, one thing under way at a time, no access across a page, each process continues where it was, shutdown reports the truth, every ENTER answered, waiting processes run | 287,584 |
| `rv32i_cpu` | user, supervisor and machine code of any of a few words, over any page table, with the interrupt line moving at any time and stray messages: exactly one event is awaited, every state restores to itself, walks agree with translation at once, returns go back to what was interrupted, U and S are confined | 219,562 |
| `toy_system` | every operation of both initiators finishes, the restored CPU's shadow is the memory | 220,648 |

`PROJECT.json` names the properties of each run; each is stated in words above its
definition. For each property of each run it also names a mutant, a changed definition
such as a plausible slip in the code would give (a wake not posted, a cursor not
moved, a return to the `ecall` itself), under which TLC reports the property violated.

Deadlock is checked where the system cannot stop (`irq_controller`, and `rv32i_cpu`, in
which only a halt or a fault ends the run). Elsewhere it
is switched off because stopping is legal: a scheduler or a session with no event left, a
bus whose masters have used their budget, a faulted session, a table all of whose
processes have ended, a halted hart, a boot that is over.

## Bounds

Each bound is a constant of the model.

- `MaxTick`, `MaxSequence`: two or three ticks and two or three events are enough for events
  in the same slot, in later phases of the tick and in a later tick, and for the sequence
  counter to run out. `max_events_per_phase` of 1 or 2 makes S5 bite.
- `SendPhases`, `Points`, `MaxSessions`: with two phases and points at the first two ticks,
  a point can be registered for the tick whose events are being dispatched, after some of
  them and before others, and for a later tick that still has events; a second session,
  with one phase and one point, gives a restore into fresh state and a resumed trace. All
  of it in one setting is too large.
- `Budget`, `MaxDownstream`: the requests masters issue in total; six let three masters
  each be served twice, so that one could overtake another. Two downstream txns make the
  counter run out in the middle of an arbitration pass.
- `BEATS_PER_BLOCK = BEAT_SIZE = 2`, two blocks of memory, three of media: the first and
  the last beat and block are different, and there is memory around the transfer that
  must not change. `MaxCommands = 2` gives a command after a failed one. `MaxTxn` 4 or 5
  makes the counters run out in the middle of a command.
- `MaxWire`: levels under way per line. In `dma`, two: the level the device drives and the
  one at the end of the line then differ while an earlier level is still to arrive, and the
  driver can mask, unmask and acknowledge with a full pulse under way. In
  `irq_controller`, three.
- `MaxPid`, `NFrames`: three or four processes, and frames for some but not all of them.
  `PerSlot = 2` and three root entries give a buffer that crosses from one level-0 table
  into the next, into an unmapped page, and into the kernel's megapage. `PcMod = 2` makes
  pc arithmetic wrap. The stray setting has no `write` trap: its state space with
  arbitrary frame contents and buffers is too large; the other two cover the walk.
- In the prototype setting, pages of four words and accesses of two: a frame of five words
  at 3 straddles a page after its first word, one at 4 between action and reason.
  `MaxTxn = 15` is enough for two scripts and runs out in the third operation;
  `MaxStrays = 1` message out of protocol (the invariants also hold with two).
- `PAGE = 16`, `PER_SLOT = 4`, `MAX_ACCESS = 8`, `BLOCK_SIZE = 8` in `session_setup`: an
  address space of 256 bytes with four slots, so that a segment can end at, before and
  after a page, a slot, a megapage and the end of the address space, and a page takes two
  accesses. `Boots` enumerates files, tables, configurations and layouts on both sides of
  each limit; nearly every error of the code is produced by some input, and boots of two
  processes and of a file read twice succeed.
- `RamSize = 3`, `PAGE = 2`, `AddrMax = 15` in `memory_path`: a last page that is not full,
  regions longer and shorter than their device and at the end of the address space;
  `MaxRequests = 3` with two txns gives two outstanding and a reuse.
- `VpnBits = 2` in `rv32i_cpu`: tables of four entries, pages of 16 bytes and 8-bit
  addresses; `TxnSpace = 26` lets the firmware install translation and delegation and the
  program then trap, be interrupted and return, and makes the TxnIds run out.
- Toy: three CPU operations (two outstanding) on three slots and two DMA writes (one
  outstanding) on a slot of its own: both initiators pause on their limit and two
  operations meet on a slot.

No symmetry is used: runs with liveness properties must not, and in the others PIDs,
masters and frames are ordered in the code.

## Fairness

- `MultiMasterBus`, `DmaBlockController`, `IrqController`, `MemoryPath`: weak fairness of
  the delivery of pending events. The driver's loop pops events until none is left, and
  an event in the queue is eventually the least (`PhaseLimit` bounds the events of a
  slot, so time cannot stand still). Nothing is assumed of masters, drivers
  or devices: they need never act.
- `Runtime`: weak fairness of the progress of a call, which the driver's own thread
  executes. Sends of a handler are not fair, and a handler makes finitely many of them:
  each takes a sequence number.
- `ToySystem`: weak fairness of its steps, each of which is the delivery of a pending wake
  or message.
- `ModeledKernel`: weak fairness of the delivery of events (gate, issue, answer), of the
  memory's and the block controller's answers, and of the boot and trap stub, which are
  straight-line code; the same in `PrototypeKernel`. No fairness of processes: they need not trap. `EveryoneRuns` is
  therefore conditional on the running processes giving up the hart again and again,
  as the design's cooperative switching is.

## What is proved

TLAPS proves, for every value of the constants that satisfies the named assumptions:

`SchedulerProofs` (assumptions `BoundsAssumption`, `LimitAssumption`,
`NoKeyAssumption`): type correctness, `RestoreAccepts`, `PhaseLimit`, the action
property `DispatchInOrder`, and two facts behind them, `PendingAfterDispatched` and
`SequenceIdentifies`. None is inductive alone. `restore` installs the saved snapshot, so
each must hold of that snapshot too; and S5 counts only the current slot, so the bound
on every slot needs the order in which slots were left. `Sound(s)` says all of it of one
state and its history; `IInv` says `Sound` of the scheduler and of the snapshot, and
that the snapshot's history is part of the current one. There is a lemma per action.

`IrqControllerProofs` (`IrqAssumption`): `RestoreAccepts` and `EndToEnd` for any number
of sources and any length of the lines. The inductive invariant adds that every line
settles at its sender's level; the two lemmas about `Settled` say what appending to and
delivering from a line do.

`ProcessesProofs`, `ProcessTableProofs` (`ProcessesAssumption`): for any numbers of PIDs,
frames and contexts, every legal order of calls keeps `Checked` and `NoViolation`. One
lemma per operation says that it takes a table that passes `check` to one that does; they
are stated about the operators, not about `ProcessTable`'s variables. The inductive
invariant adds that a creation's PID is above all PCBs' and that it has frames, without
which its admission could not be shown legal.

`ModeledKernelProofs` (`ProcessesAssumption`, `KernelAssumption`): that the kernel's calls
are legal ones. For any images and any size of the pool, from a plan or a disk, and with
anybody writing the gate and the trap frame, the table of every reachable state passes
`check` with the creation in flight (`TableAlwaysChecked`), `advance` never returns a
`Violation`, and `start` returns one only after the shutdown (`ViolationFree`); the run
`kernel` checks both within `Restorable`. The inductive invariant `KInv` says what each
stage needs of the model: a creation or a boot cursor is above every PCB while nothing
runs, the stages of a trap have a running process, an idle kernel has not booted, runs a
process or is down. There is a lemma per decision of the model (`DispatchOk`,
`NextCreationOk`, `NextLoadOk`, `AckedOk`, `StagedImageOk`, `DecideOk`...), each of which
cites the lemmas about the table's operations.

Only model-checked: all liveness (the prover has no rules for fairness), both
refinements, and everything about the buses, the DMA controller, the session and its
set-up, the CPU and the toy system; of the kernel, all but its use of the process table.

## A disagreement found

`scheduler_foreign_restore`. `restore` says it "Rejects snapshots that no sequence of
valid operations could have produced" (`runtime/src/scheduler.rs:260`). It compares
the queued events with the cursor and with `next_sequence`, but not the cursor with
`next_sequence`. A snapshot whose cursor has a sequence number at or above
`next_sequence` is accepted; the next event scheduled into the cursor's slot then gets
a key at or before the cursor and is dispatched out of order. Snapshots saved by a
run are never of this kind: that is `PendingAfterDispatched`, proved.

## What is not modelled

- The `contracts` crate (clocks, protocol messages, snapshot encoding) is not part of
  this source tree. A handler's delay is a choice of a tick not before now; snapshots are
  modelled as the values they encode, and the byte formats are left out.
- The decoding and the arithmetic of RV32I instructions (`decode.rs`, `instr.rs`, most of
  `execute.rs`): pure functions on 32-bit words with nothing over time.
- The canonical encoding of trace records and the exports (`trace.rs`, `export.rs`), the
  random number generator (`rng.rs`), the reference scenario and the workspace tasks
  (`reference/src`, `xtask/src`): formatting, a fixed recurrence, wiring, and processes
  of the host.
- MMIO accesses of a wrong width or alignment, and register reads, of the block and
  interrupt controllers: they change nothing.
- The TxnIds of an M1 CPU running out: in M2 and M3 `send` faults at 2^64, in M1 it does
  not check, and 2^64 requests are taken not to happen.
- In the kernel: trace notes, user data, and in process mode torn reads of a trap frame
  that is written while it is read.
- Staging whose size is not a multiple of a block. A file's length is compared with the
  staging size in bytes (`elf/src/exec_table.rs:191`), the controller transfers whole
  blocks, and `DiskBoot::validate` does not ask for a multiple: the last block of a file
  that just fits may then reach past staging. `SafeLoad` claims that transfers stay inside
  staging under that condition only.

## Next

- Proofs of the DMA controller's `OnePending` and `RestoreAccepts`, of the bus's
  `ActiveInFlight`, and of `ModeledKernel`'s `OneThingUnderWay`.
- A composition of DMA controller, interrupt controller, bus and CPU on one event queue.
