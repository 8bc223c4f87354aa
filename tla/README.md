# KIM-1 simulator: TLA+ models and proofs

This directory models the simulator in `src/` (a Go program: a 6502 core, the
KIM-1's two RIOT chips, a teletype, an SD card, and a web server whose browsers
are the front panel) and checks it with TLC and with the TLA+ proof system.
`PROJECT.json` lists the runs, maps every definition to the lines it stands for,
and lists the hazards, findings, mutants and theorems.

Contents: [the system](#the-system), [the modules](#the-modules),
[the runs](#the-runs), [fairness](#fairness), [the proofs](#the-proofs),
[disagreements](#where-code-and-documentation-disagree),
[what is left out](#what-is-not-modelled), [the plan](#plan).

## The system

Three kinds of goroutine share one `kim1.System`, always under `Server.mu`:
`RunCPU` steps it in batches of cycles, `BroadcastLoop` samples it thirty times a
second, and one handler per browser connection (plus the snapshot HTTP handlers)
changes it. A sample travels to the browsers through one bounded channel each,
under a second lock, `clientsMu`; a writer goroutine per browser empties it.
Inside the system everything is synchronous: `System.Step` runs one instruction
or interrupt of `cpu.CPU`, ticks both timers by its cycles, samples the printer
line and drives the single-step circuit. Devices are reached by bus reads and
writes that have side effects: a write to a port clocks the SPI lines, a read of
Port A reports a poll to the teletype, a read of a timer clears its flag.

| Component | Source | State | Operations | What makes it correct |
|---|---|---|---|---|
| CPU: interrupts, control flow | `internal/cpu/cpu.go`, `execute.go` | registers, two interrupt latches, `lastStepWasInterrupt` | `Step`, `Reset`, `NMI`, `IRQ` | every return finds its own frame, at any nesting and round the end of the stack page; the B bit tells BRK from IRQ |
| CPU: instruction set | `execute.go`, `addressing.go`, `opcodes.go` | registers, cycle count | `execute`, `dispatch`, `adc`, `sbc` | programs compute what they mean, in the right number of cycles, whatever interrupts them |
| Disassembler | `disassemble.go`, `display_decode.go` | - | `Disassemble` | reads nothing that has side effects (it does: `display_reads`) |
| Single-step circuit, recent-PC ring | `internal/kim1/system.go` | `SST`, `pcHist`, `pcHead`, `pcCount` | `Step`, `Reset`, ST, SST switch, `RecentPCs` | one NMI behind each user instruction, no more; the ring is the last instructions in order |
| Teletype | `internal/kim1/tty.go` | key queue and byte on the line; receiver state | `Type`, `Send`, `KbdLevel`, `CPUPolled`, `ObservePtr`, `Reset` | the hardware echo loses, repeats and damages no byte; pasted bytes wait for a poll |
| RIOT timers | `internal/riot/timer.go` | value, prescaler, divider, flag | `Write`, `Tick`, `ReadValue`, `ReadInterruptFlag` | count and flag independent of how cycles are cut into instructions |
| SD card | `internal/sdcard/sdcard.go` | command state machine, response queue, image | `Exchange`, `Deselect` | a block read is the block last acknowledged; one sector's failure harms no other |
| SPI wiring | `internal/kim1/spi.go` | shift registers, bit count, edges | `clockSPI`, `appPortAInput`, `SetAppSwitch` | whole bytes arrive in order both ways, from any state a killed driver left; card and driver stay one byte apart |
| RIOT ports | `internal/riot/riot.go` | latch, direction | `Read`, `Write`, `WriteDDR` | used by SPI, display and keypad |
| Address decoding, expansion RAM | `memmap.go`, `system.go` | RAM, hole, expansion RAM | `Read`, `Write`, `Peek` | what `Peek` allows has no side effects |
| Loaders | `loader.go`, `server.go` | - | `ParsePAP`, `ParseIntelHex`, `LoadRecords`, `handleLoad` | all or nothing; every byte where it was aimed; devices untouched |
| Snapshots, memory editor and viewer | `snapshot.go`, `server.go`, `ws.go` | `memViewAddr` | save, restore, `memview`, `memwrite`, `memWindow` | a restore brings back all RAM |
| Running machine | `server.go`, `ws.go` | `mu`, `halted`, `haltReason`, the throttle's clock | `RunCPU`, `stepBatch`, its recovery, messages | a panic releases the lock, freezes the view, and RS revives; lateness does not add up |
| Broadcast | `server.go`, `ws.go` | `clients`, their channels | `broadcastState`, register, unregister, `writeLoop` | never a send on a closed channel; no older state after a newer one; browsers catch up |
| Keypad, display, 74145 | `keypad.go`, `display.go`, `decoder.go` | pressed keys, shadow digits | `refreshDisplay`, `Snapshot`, `SetPressed`, `keypadColumnInput` | a digit shows what the monitor gave it or nothing; keys come up again; the scan finds those down |
| Browser page | `webui/static/app.js` | pointers, connection, editor and terminal | key presses, reconnection | every press is followed by its release |
| Command line | `cmd/kim1/main.go` | flags | start-up | not modelled |

What is hard about it: instruction ends fall anywhere relative to bit edges and
timer counts; the NMI of the single-step circuit is raised behind one step and
taken by the next, with key presses, resets and panics between; reset restarts the
processor but not the devices, so the SD card keeps whatever state a killed driver
left it in; a second reader (the broadcaster) looks at pins whose reading has side
effects; disconnecting browsers race the broadcaster.

## The modules

| Module | Models | Uses |
|---|---|---|
| `Cpu` | latches, `Reset`, the cases of `CPU.Step`; where an ordinary instruction goes, and what it does to I, is left open | |
| `Interrupts` | the stack page and every instruction and interrupt that pushes on it or pops from it | `Cpu` |
| `Alu` | `adc`, `sbc` and `compare` with their flags, at full width | |
| `Instructions` | every instruction, addressing mode and cycle count | `Alu` |
| `Programs` | a dozen short programs on it, with an NMI anywhere, and what they mean | `Instructions` |
| `RecentTrail` | abstract: "the last n instructions since reset, newest first" | |
| `Kim1System` | `System.Step`, `Reset`, ST, SST, the ring | `Cpu`, implements `RecentTrail` |
| `Machine` | `stepBatch`, its `recover`, and browser messages under `Server.mu` | `Kim1System` |
| `Throttle` | `RunCPU` against the clock | |
| `Tty` | both teletype lines and the gates around them, in cycles | |
| `Timer` | one interval timer as `Step` drives it | |
| `RiotPort` | one I/O port | |
| `ByteBus` | abstract: host and card exchange whole bytes | |
| `Spi` | `clockSPI` edge by edge, and the bit-banging program of the SPI tests | `RiotPort`, implements `ByteBus` |
| `SdCard` | the card byte by byte | |
| `Disk` | abstract: what a program that asks for blocks is promised | |
| `SdHost` | the byte pipeline and the driver of the SPI tests (waitResult, initialisation, block read and write), restarted at any byte | `SdCard`, implements `Disk` |
| `FrontPanel` | the 74145, the shadow display and the key matrix, as operators | `RiotPort` |
| `Display` | the monitor's display scan, interrupted by GO and RS | `FrontPanel` |
| `Keypad` | browsers' pointers, connections and messages, and the monitor's key scan | `FrontPanel` |
| `Broadcast` | the goroutines between the machine and the browsers | |
| `Memory` | address decoding, loaders, editor, viewer, snapshots, and what building a state message reads | |
| `*Proofs` | theorems, see [the proofs](#the-proofs): `MachineProofs` (`Kim1System` and `Machine`), `CpuProofs` (`Interrupts`, `Alu`, `Instructions`, `Throttle`, types of `Programs`), `ProgramProofs` (`Programs`), `TtyProofs`, `SdHostProofs`, `DeviceProofs` (`Timer`, `Spi`, `Display`, `Keypad`), `BrowserProofs` (`Broadcast` and `Memory`) | |
| `CommonProofs` | lemmas about numbers and recursive functions that several of them cite | |
| `MC*` | constants of the TLC runs; `MCCpu`, `MCDevices`, `MCSerial` and `MCBrowsers` put several modules that share no state on benches of one run | |

State and actions follow the code: a variable or record field has the name of the
Go field, an action that of the function, or of the case of `handleClientMsg`,
that it stands for. Where the abstraction is not obvious:

* **Time.** `Tty` stores how long ago a byte started where the code stores the
  absolute cycle; the code only ever uses the difference. `Timer` counts
  cycles since the last write as a history variable.
* **Programs.** Memory may be rewritten by programs, loaders and the editor
  at any time, so `Cpu` and `Kim1System` leave open what is executed, and keep the
  decoding of addresses. `Interrupts` keeps the stack and assumes a program that
  pops what it pushed; each frame is recorded with the room it left on the page.
  `Instructions` takes a program as given, instruction by
  instruction at its addresses: opcodes are not encoded, and a program does not
  rewrite itself. A register holds a number of full width; P is the set of its
  flags. AND, OR and EOR are spelled bit by bit.
* **Panics.** An illegal opcode panics inside `CPU.Step`: `StepPanics` keeps the
  updates made before it, `BatchPanics` is the deferred recovery and unlock.
* **Devices in `Memory`.** An I/O window is one register, its timer: the thing a
  stray read or write would damage. The devices have their own modules. The
  address on the display may be any, and the instruction there of any length.
* **Pins.** `RiotPort` represents a byte of pins by the set of those that are 1.
  `Spi` represents a byte by the sequence of its bits; the bit counter of the code
  is the length of the bits collected.
* **The throttle's time** is counted in cycles at `TargetHz`; the conversion to
  nanoseconds through floating point is left out. A batch costs the host any
  time of a set, which may exceed its cycles: nothing bounds the wait for `mu` nor
  what else the host does. A sleeper may wake late.
* **A refresh of the browsers** reads the Port A pins and, while the display shows an
  address at which the disassembler finds Port A (`$1740`, say), reads it through
  `System.Read` as well, which counts as a poll: `BroadcastReadsA` and
  `BroadcastShowsA` of `Tty`. Which address the display shows is left open.
* **The monitor ROM** is not part of the source. `Display` and `Keypad` drive the
  decoder with scans as `display.go`, `decoder.go` and `keypad.go` describe them,
  marked external.
* **Lines of a file** are blank, malformed or records; the arithmetic on a
  record's length byte keeps its width, because it wraps.
* **The driver in `SdHost`** is a 6502 program and not part of the source. It is
  taken from the test helpers of `spi_test.go` and `sdcard_test.go`, and its
  definitions are marked external.

A definition whose comment begins "Faulty variant" is not part of any model. It is
the same operation with a plausible mistake (a dropped guard, a wrong bound, a
missing reset), kept to show that the property named with it in `PROJECT.json`
would notice.

History variables (`stepped`, `fresh`, `late`, `typed`, `printed`, `disturbed`,
`start`, `elapsed`, `readAt`, `acked`, `damaged`, `frames`, `kept`, `asked`, `wire`,
`heard`, `given`, `givenAge`, `drivenAge`, `during`, `abandoned`, `owing`,
`lost`, `runningSince`, `executedBefore`) are marked as
such, and no guard reads them except to state a bound.

## The runs

Passing runs:

| Run | Shows | Bounds, and why they are enough |
|---|---|---|
| `cpu` | `Resumes`, `BreakTold`: NMI, IRQ, BRK, JSR and PHP nested in any order resume with their own address and mask | a stack page of six bytes holds two interrupt frames, or three calls, or mixtures with flag bytes: every kind on top of every other, and frames that straddle the end of the page |
| | `ProgramsRight`, `CyclesTold`: multi-byte arithmetic, comparison, multiplication, copying, delay loops, subroutines and traps leave what they mean and take the cycles they should, with an NMI handler that computes in decimal between any two instructions | full-width registers, addresses and memory cells; operands on both sides of every carry, borrow and sign of one and two bytes or digits. Every instruction and addressing mode occurs, with page-crossing reads and branches and the two page-wrap cases. All operands are covered by the proofs |
| | `KeepsPace` | batches of four cycles or a little more, that cost nothing, less than their cycles or more than twice as much; a halt longer than a batch; lateness of two; a horizon of six batches lets deviations add up |
| `machine` | `SingleStep`, `SwitchOffEnds`, `TrailSpec` (refinement), `HaltFreezes`, `ResetRevives`, `NmiServed`, `BatchesEnd` | one address in RAM, two in ROM, one unpopulated; a ring of three, which wraps after a reset in mid-array; batches of one or two steps, that overshoot their cycles or not |
| `tty` | `Echo`, `PacedNeedsRead`, `WholeFrames` | two data bits, a bit time of 7 cycles against steps of 1 or 2. With bit time C and longest step m the receiver's error is below 2m - 1 cycles, so it needs C div 2 + 2m - 1 < C (`Margin`, which the run asserts and the proof assumes). 7 is the shortest bit time for m = 2: with 6 the run fails. At 9600 baud the real machine has 104 cycles per bit and steps of at most 7, so the small instance is tighter than the real one. Two bytes, because the interplay is between one byte and the next; one reset at any cycle |
| `serial` | `ReadsBack`, `OthersIntact`, `ProbesTold`, `ImplementsDisk` (refinement of `Disk` by `SdHost`), `JobsEnd`, `BootsAgain` | two sectors of two bytes whose contents look like a start token, a command and an idle bus; image errors at every access; one restart at any byte. A second sector is what can be damaged wrongly; the restarted program may do any further jobs |
| | `AllPrinted` while the monitor polls | the bit time of `tty`, two resets, each with its RUBOUT |
| `devices` | `CountsExactly`, `FlagExact` (timer) | counts of two bits; dividers shorter and longer than an instruction; 54 cycles reach the third underflow of the slowest setting, so the count is followed through several wraps |
| | `CarriesBytes` (refinement of `ByteBus` by `Spi`) | three-bit bytes, two per selection: a byte after another and after a release at any edge; every byte in both directions |
| | `PictureTrue` | two digits, two patterns that light one segment each, so that they have none in common; a scan of just as many cycles as a digit stays lit, so that staleness is met exactly and missed by one |
| | `NoKeyHangs`, `ScanFindsHeld` | two browsers, two keys in different rows and columns, two connections in all and two messages under way: one browser may replace another or itself |
| `browsers` | `ClientsLeaveIO`, `RestoreBrings`, `LoadExact` | nine addresses: RAM on both sides of the two device windows, a gap, ROM, expansion RAM below the vectors, and wrap-around from the vectors to RAM; eight files, each with something a loader may get wrong |
| | `NoSendOnClosed`, `InOrder`, `CatchesUp` | two browsers, one of which may never take data; channels of two, full and overflowing within three versions. A slot is reused by later connections |

Each also checks type invariants (`CpuBenchesTypeOK`, `DevicesTypeOK` and
`BrowsersTypeOK` join those of their benches). All properties listed under a run are safety properties
(invariants or properties of steps) except `ResetRevives`, `NmiServed`, `BatchesEnd`,
`AllPrinted`, `JobsEnd`, `BootsAgain` and `CatchesUp`.

A run with several benches chooses one of them initially (`bench`); the other modules
then stay in their initial state. The modules on the benches of a run share no
variable and no call in the code that the properties could notice, so nothing is lost
over separate runs. Deadlock is checked in all of them.

Six runs end in a violation of what a comment says: `sst_expansion`, `reset_nmi`,
`timer_free_run`, `hex_length`, `halt_catch_up` and `display_reads`, described
[below](#where-code-and-documentation-disagree). The first two use
`MCKim1System`, which runs `Kim1System` without the server around it, on a stock
and on an expanded board; the last four run their one module.

## Fairness

Fairness is stated only for what the program itself schedules; nothing is asked of
users, browsers or the 6502 program beyond what is named here.

* `MachineSpec`: weak fairness of `RunCPU`. It is a goroutine that waits for
  nothing but `mu` and bounded sleeps, and Go's mutex does not starve a waiter.
* `GetchSpec` (`Tty`): weak fairness of a poll of Port A. The monitor's GETCH
  loop keeps reading it with the gate open; the CPU goroutine keeps stepping.
  Only the run about a waiting monitor assumes it.
* `HostSpec` (`SdHost`): weak fairness of the driver's own steps, for the same
  reason; starting a job and pressing RS are not fair.
* `Broadcast`: weak fairness of the broadcaster (a ticker that always fires
  again), of a handler that is closing, and of the writers of clients outside
  `Stuck`: those whose network takes data.

Where such a module sits on a bench, the fairness is asked of its steps on that
bench only, which leaves it as it was. `Cpu`, `Throttle`, the devices and `Memory`
have safety properties only and no fairness.

## The proofs

All theorems hold for every value of the constants that satisfies the `ASSUME`s
of the module. They ask no more than that numbers are numbers, that addresses lie
in the address space, that files consist of lines, that a program consists of
instructions of the opcode table with operands of their width, that those of `Programs`
are where they are listed and their decimal operands are packed digits, and that a card is
smaller than 8 GB, so that three of the four bytes of a sector number count and the
fourth is 0. Every safety property of every passing run is a theorem.

* **`MachineProofs`, the system.**
  `TypeCorrect`: the type invariant is inductive; it needs the bounds of
  `x % PCHistoryLen`.
  `SingleStepHolds`, for boards *without* expansion RAM: `stepped <= 1` says
  nothing about why a second instruction cannot run, so the invariant `StepInv`
  adds that the NMI of the first is latched, and `CircuitSeesTraceable` shows that
  the code's comparison `pc < AppROMStart` covers all that can be fetched outside
  the ROMs. On an expanded board it does not, see `sst_expansion`.
  `SwitchOffHolds`: `LateInv` adds that behind an interrupt taken with the switch
  off the latch is empty.
  `RingImplementsTrail`: the ring, of any length, refines `RecentTrail`. The lemmas
  compute where `(head - i + 2n) % n` points before and after the head moves: an
  entry shifts by one place, the oldest falls out, and a reset that leaves the head
  in place yields the empty trail.
* **`MachineProofs`, the running machine.** Every step of the machine is a step of
  the system or changes none of it (`MachineImplementsSystem`), so `SingleStep` holds
  on the running machine (`MachineSingleSteps`). `HaltFreezesHolds` rests on
  `HaltInv`: a halted machine has no batch under way.
* **`CpuProofs`, the stack.** `ResumesHolds` and `BreakToldHolds`, for any page size,
  any nesting and any interleaving of NMI, IRQ, BRK, JSR and PHP. Neither says
  anything about frames further down, so `StackInv` does: the frames lie one on the
  other (`FramesFit`: the room a frame left, plus its own bytes, is the room the one
  below left), and each frame's bytes are still on the page (`FramesIntact`). Pushing
  then writes outside every frame, also round the end of the page, because a push is
  only made into room that is left; popping finds its own frame on top.
* **`CpuProofs`, arithmetic.** For all 65536 pairs of bytes, both carries and any other
  flags: binary and decimal `adc` and `sbc` give the sum or difference modulo 256 or
  100 with the right carry or borrow (`AdcBinary`, `AdcDecimal`, `SbcBinary`,
  `SbcDecimal`; decimal digits are assumed to be valid), and `compare` orders bytes
  (`CompareTells`). Because the carry out of one byte is proved to be the carry in of
  the next, chains add words (`WordSum`, `DecimalWordSum`). `LogicExact` and `StatusByteExact`: the three
  logical operations act on each bit by itself, and the status byte read back
  gives the flags that were pushed.
* **`CpuProofs`, instructions.** For any program and any machine state,
  `InstructionsKeepCore`: no instruction and no interrupt leaves the width of a
  register or a cell, each takes 2 to 7 cycles (an NMI 7), and memory changes in
  RAM only. One lemma per class of instructions, and tables for the addressing
  modes. `ReturnsToInterrupted`: RTI behind an interrupt or BRK brings back PC, SP and
  all flags at any PC and SP, with SP wrapping; `ReturnsToCaller`: RTS behind JSR
  continues behind the call. Both assume that SP is back and the bytes are still where
  they were pushed, which `StackInv` says of a program that pops what it pushed.
  `CpuTypesHold`: the type invariants of all three benches. A second set of lemmas says
  exactly what each instruction used by the programs does to every field of the
  processor; whole programs are followed with these.
* **`ProgramProofs`.** `ProgramsComputeRight` and `ProgramsTakeTheirTime`: each of the
  programs ends with what it means, in the cycles it should take, for any set of words
  and of packed decimals as operands (copy, delay, call and trap have the few that
  `Jobs` names) and with an NMI between any two instructions or none. Neither property
  says anything before the end, so `ProgramsInv` does. For each program there is a
  predicate of the state at each of its addresses (`WorkRuns` joins them): the cycles so
  far, and the registers, flags and cells in terms of the operands. At the head of the
  multiplication's loop, for example, what A and the shifted cell hold so far and what the
  rest of the first operand still has to add make up the product (`Turn`); at that of the
  word chains X tells which byte is done and C is its carry. A program that has not been
  interrupted is in such a state (`Undisturbed`), one whose NMI is behind it is in the
  same with 58 more cycles (`Returned`), and one in its handler has on the stack what
  brings back a state that was (`InHandler`). An instruction leads from one such state to the next
  (`RunsOn`), the handler's RTI back to the one interrupted (`RunsResume`), because
  the handler writes below the stack pointer and to its own counter only; and in the last
  one the meaning and the cycles follow by arithmetic (`RunsEnd`), for the decimal programs from
  the digits. `ProgramsInv` speaks of a state that is past, which TLC cannot
  enumerate; the run checks what follows from it.
* **`CpuProofs`, the throttle.** `KeepsPaceHolds`, for any batch size, sleep and
  lateness, and for batches of any cost: what they take beyond their cycles is counted
  (`lost`) until the machine has caught up. The bound on being behind is not inductive:
  a batch may only be run when what was executed before is within the lateness and
  `lost` of now, and a sleep may only end late by what it was due. `PaceInv` adds that
  the machine is never ahead of the time its sleep ends, and is asleep until exactly
  what it executed is due unless it owes for a halt.
* **`TtyProofs`.** `EchoHolds`, for any bit period, any set of step lengths, any
  bytes and any number of resets, under `Margin`, which leaves room for two of the
  longest steps behind the middle of a bit. `Echo` speaks of whole bytes and is far
  from inductive; `EchoInv` adds that, while the program leaves the gates alone, the
  receiver is in step with the line (`InStep`): it follows the
  sender by at most half of what remains of a bit behind its middle, it holds the bits of the byte on the
  line that it has sampled, and it has not missed a sample. From there each sample
  falls into the bit it is meant for, the stop bit included, and the line is back at
  mark before the next start bit can come. `WholeFramesHolds`, `PacedNeedsReadHolds`
  and `TypesHold` need no margin; the second rests on a case analysis of what can
  shorten the key queue.
* **`SdHostProofs`.** `BlocksReadBack`, `OthersKept` and `ProbesAnswered`, for sectors
  and cards of any size, any blocks, any number of polls and restarts, and an image
  that may fail at any access. The card and the driver are two state machines one byte
  apart, and `HostInv` says for each phase of the driver what the card is in the
  middle of (`Protocol`): while a command is being sent, what the card has collected and
  what is still to come are that command; once it is sent, the reply is on the shift
  register or to come behind at most two idle bytes; while a block is read,
  what was received and what is queued are the sector and its checksum; and behind a
  restart in the middle of a write (`Lost`), CMD0 is being taken for data or for a gap,
  and nothing the card sends looks like the answer CMD0 waits for. A card that still
  takes data has its sector in `damaged` (`WriteUnfinished`), which is what keeps the
  other sectors out of reach.
  `DiskImplemented`: card, driver, image errors and restarts together implement `Disk`,
  which knows of sectors and blocks only. A request stands from the moment the driver
  asks until its job ends (`Requested`); what it ends with is an `Answered` block, an
  acknowledged write or a request given up, and behind a restart it is given up. The
  refinement mapping takes the image for the disk's contents and `damaged` for the
  sectors that are torn. There is one lemma per action of `SdHost`; each says which step
  of `Disk` it is, or that it is none, and uses `HostInv` for what an
  answer or an acknowledgement is worth when it arrives.
* **`DeviceProofs`, the timer.** `TimerCountsExactly` and `TimerFlagExact`, for any
  dividers and any lengths of instruction. `TickLoop` is a recursive function; the
  lemmas show what one round of it does and that it ends, and `TicksOnTime` carries
  `OnTime` through the rounds: the next underflow is the k-th, k underflows came before,
  and value and prescaler are what is missing to it. `CountsExactly` reads count and
  prescaler off that remainder, before the first underflow and after any; it does not
  say that the timer goes on at one per cycle, which `timer_free_run` refutes.
* **`DeviceProofs`, the SPI wiring.** `CarriesBytesHolds`: `Spi` implements `ByteBus` for bytes of any
  width. `SpiInv` says in each phase of the program what CS and SCK the bus saw
  last, that the bits the card has collected are the first of the byte asked for, and
  that the bits the program has sampled are the first of the byte the card shifts out.
  At the last rising edge the card takes the byte and replaces its own by the next
  before the program has sampled the last bit: `LastBit` keeps track of it in what
  the exchange drove. Each edge is then one step of `ByteBus`, or none.
* **`DeviceProofs`, the display.** `PictureHolds`, for any digits, any patterns and
  scans of any length interrupted anywhere. `DisplayInv` says what the ports hold
  at each step of the scan (`Ready`) and that a digit that is selected while its
  segments are driven shows the pattern it was given last.
* **`DeviceProofs`, the keypad.** `KeysComeUp` and `ScanHolds`, for any browsers, keys,
  connections and messages under way. A key that is down is held by a browser or its
  release is under way on the connection that pressed it, or that connection has ended:
  the server never releases what such a connection left down or had news of, and
  `NoKeyHangs` excepts it (`abandoned`; `NewsPending`, `LostNamed`,
  `HeldOrLeaving`); the scan has recorded no more than what changed during its pass
  (`PassSound`). `DeviceTypesHold` joins the types of all the benches.
* **`BrowserProofs`, the broadcast.** `NoSendOnClosedHolds`, for any set of browsers: the
  property is not inductive; `LockInv` says that the broadcaster holds the lock
  while it sends, that what it has still to visit is registered, that a
  registered client's handler is open, and that only an unlisted one closes its
  channel. `InOrderHolds`: `InOrder` is inductive given the types, as every
  value in a channel lies between what is shown and the current sample.
  `TypesHold`: channels never exceed their capacity;
  `BrowserTypesHold` joins these types with those of `Memory`.
* **`BrowserProofs`, memory.** `RestoreBringsHolds`, for every map, board and set of
  files: `SnapshotInv` ties the saved image to the RAM at the time; the two lemmas show
  that all RAM is readable by `Peek` and covered by the ranges a restore writes.
  `LoadExactHolds`: `LoadRecords` is a loop over the bytes of a file, and `LoadInv` is its
  invariant: after k bytes each cell of RAM holds the last of those aimed at it or what
  it held before, and the count and the bounds reported are of the bytes that `Peek`
  lets through: those that landed in RAM and those aimed at the ROMs or the vectors,
  which `Write` drops.
  `ClientsLeaveIOHolds`: loaders, restores and edits stay out of the I/O
  windows. `MemTypesHold` needs that parsers keep within a byte and the address space,
  wrapping included.

**Loops and recursion.** Where the code loops, the model has a recursive function, and
the proof needs an induction that the library's theorems cannot give, because they
take a predicate as a parameter. `CommonProofs` goes round it: a set of numbers has a
least element (`LeastNat`), so a set of rounds at which an invariant fails has a
first, and a function defined by primitive or tail recursion satisfies its equation
(`PrimitiveRecursion`, `TailRecursion`, `LoopEnds`). The invariant is then carried
through one round by an ordinary lemma.

**Only model-checked.** All liveness properties (`ResetRevives`, `NmiServed`,
`BatchesEnd`, `AllPrinted`, `JobsEnd`, `BootsAgain`, `CatchesUp`): liveness under fairness
and ENABLED are beyond the prover used. The refutations by the six violation
runs are TLC's too.

## Where code and documentation disagree

1. **An NMI latched before a reset survives it** (`reset_nmi`).
   `CPU.Reset` (`cpu.go:110`) sets PC and I and leaves `nmiPending`, so after ST
   then RS, or RS behind a single-stepped instruction, the first step enters the
   NMI handler instead of the reset routine.
2. **The single-step circuit ignores expansion RAM** (`sst_expansion`).
   `system.go:241` compares with the first ROM address only; `system.go:36` says
   each instruction from outside ROM raises an NMI. With the expansion enabled, code at
   `$2000` and above is never stopped.
3. **The timer does not free-run by one** (`timer_free_run`).
   `timer.go:45` sets the prescaler to 1 for the first count after an underflow;
   the next reloads the written divider (`timer.go:48`).
4. **HEX records of 252 to 255 bytes panic** (`hex_length`).
   `loader.go:133` adds 4 to the length in a byte; the slice's end wraps below its
   start. The lock is released by its defer; the browser loses its connection.

5. **A halt is made up for** (`halt_catch_up`). `server.go:155` computes what is due
   from all cycles executed since the start, halts included; after RS the machine runs
   without a sleep until it has caught up, where `server.go:116` says it is throttled to
   approximately `TargetHz`. `KeepsPace` says what does hold.
6. **The disassembly line reads devices** (`display_reads`). `server.go:225` hands the
   bus itself to the disassembler. While the display shows an address of an I/O
   window, each state message reads a register there, clears the timer's flag or
   releases a paced teletype byte at `$1740`, where the comment of `TTY.Send`
   (`tty.go:96`) has it wait for the CPU (`PacedNeedsRead` says what does hold).
   `server.go:353` says that disassembling
   never triggers such reads; the trail's does not.

Known, without a run:

* `cpu.go:117-118` says an IRQ takes effect on the next Step call if I is clear.
  With an NMI latched too, the NMI goes first and sets I, and the Step after that
  finds the IRQ masked and discards it (`cpu.go:150` on). `ServiceIRQ` and
  `NoInterrupt` in `Cpu` do as the code does. Nothing in the program calls `IRQ`.
* A card in `stWriteWait` (CMD24 accepted, RS pressed before the start token) takes
  every command byte for a gap until a start token comes; raising CS does not help
  (`sdcard.go:91`). `BootsAgain` excepts exactly this state.
* `LoadRecords` counts bytes aimed at ROM as written although `Write` drops them;
  `LoadStats` (`loader.go:158`) speaks of bytes that "actually landed in memory".
  `LoadExact` tells the two apart: it states what landed, and that the count adds
  what was dropped.
* A key held by a browser whose connection ends stays down for good: `ws.go:184`
  releases nothing. `NoKeyHangs` excepts such keys.

## What is not modelled

* The encoding of opcodes, and with it programs that rewrite themselves: an
  instruction is its row of `opcodeTable`. Illegal opcodes are the panics of `Cpu`
  and `Machine`. The text the disassembler makes.
* In `Memory`, the registers behind an I/O window except the timer; each of the
  others is in its device's module.
* The browser's rendering, its audio, paste dialog and the widgets of the memory
  editor: presentation. The editor's address comes from the last message received
  (`app.js:369`), which the server's side, an edit at any address, covers.
* The conversion of cycles to nanoseconds in `RunCPU`.
* Text: the characters of a file's line, messages, JSON, HTML.
* Command line, file access and ROM loading: sequential start-up. A baud rate above
  one million gives a bit period of 0 (`main.go:48`), which `Tty` excludes.

## Plan

Built, most important behaviour first: `Cpu`, `Kim1System`, `RecentTrail`,
`Machine` with their proofs; `Tty`; `SdCard` and `SdHost`; `Timer`; `Broadcast` with its
proofs; `Interrupts`; `Memory` with its first proof; then `Alu`, `Instructions` and
`Programs` with the proofs of `Alu`; `Throttle` with its proofs; `Spi` against `ByteBus`
with its proof; the proofs of `Tty`;
`FrontPanel`, `Display` and `Keypad`; the reads of a state message in `Memory`.

Then, for the proofs, the refactoring of the modules that used recursive operators or
bitwise ones, and the proofs of `Interrupts`, `Instructions`, `SdHost`, `Timer`, `Display`,
`Keypad` and the rest of `Memory`; then `Disk`, and the proof
that `SdHost` implements it; last, the proof of `Programs`.

Left, models: an abstract line that the echo of `Tty` implements; the page's memory
editor against a window another browser moves.

Left, proofs: that `Tty` implements the abstract line, once it is stated (`EchoInv` is
the invariant it takes).
