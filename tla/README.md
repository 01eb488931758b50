# Verification of the WS281x driver and its lab firmware, the payload runner, the Xtensa emitter, linker and emulator

TLA+ modules, TLC configurations and TLAPS proofs about this repository. All is
translated from the Rust sources; `PROJECT.json`, `map`, has the lines of every
definition.

To run: `tlc -config X.cfg M` for a run of the table in section 5, `tlapm M.tla`
for the eight `*Proofs` modules.

## 1. Inventory

| Part | State it keeps | Operations | Talks to | Hard behaviour |
|---|---|---|---|---|
| **`lp-ws281x` driver** (`driver.rs`, `state.rs`, `hw.rs`) | per channel: frame descriptor, bit cursor, latch flag, completion flag, counters; the RMT RAM window | `start_frame`, `on_interrupt` (finish, refill), `send_blocking`, `send_blocking_all`, `abort` | backend registers; the interrupt handler and the caller share the atomics of `ChannelState` | three clocks: thread, handler, transmitter. Late and lost interrupts, stale reads of the ring position, an abort racing the frame it ends; several channels on one interrupt line; a set of frames that half starts |
| **RMT peripheral** (`mock.rs` and the three backends) | read position, threshold, raw causes | emit, halt, raise | the driver | the threshold is a position (S3, C6) or a repeating count that each write restarts (classic); stop is immediate or a wipe of the window |
| **Block plan** (`blocks.rs`) | counts per channel | `new`, `uniform`, `one_per_channel` | the driver's window addresses | overlap and end-of-group arithmetic |
| **Pulse codes** (`pulse.rs`, `timing.rs`) | - | compile a timing to three words; decode a word | the driver plays them; the lab's oracle decodes them | nanoseconds, ticks and 15-bit fields; a word that reads as STOP |
| **LED lab firmware** (`fw/led-lab-esp32`) | loop variables, receivers, counters kept and printed, the verdict | demo, loopback self-test, diagnostic, stress scenarios, sweep | the driver; RMT receivers; a CPU loop that samples a pad | a report that blames the wrong part: stale counters, a capture of the low before a frame, a frame that hung, or several of a set, receivers dropped half-way, one fault seen by two witnesses |
| **Runner core** (`xt-runner-core`) | RTC cells build-id, STATE, SEQ, fault; the pending report | boot, announce, dispatch, arm, call, disarm, answer, record_crash | serial link; watchdog; panic handler | a reset between any two stores; the watchdog racing the payload's return |
| **Runner firmware** (`fw/xt-runner-*`) | RWDT; code memory | arm, disarm, panic handler, software reset, load a payload | the core | a faulting payload leaves the watchdog counting; code memory is word-mirrored on one chip, aliased on the other |
| **Runner client** (`xt-runner-client`, `xt-testkit`) | open port, seq, deadlines | open, handshake, `load_exec`, reopen | serial link | dropped ports, answers left in the port, seqs reused by every session, a process killed in mid-call or in mid-write |
| **`xt-mini-emit`** | items, labels, literals, the layout | lower, relax, encode | the host patches its symbol slots; the emulator or a board runs the bytes | scratch registers shared by staging and lowering, immediates at the end of a field, branches that grow and push others out of reach, frames shared with overflow handlers |
| **`lp-xt-elf`** | placed sections, symbol table, output regions | place, define, relocate, load | objects of the assembler; emulator memory | ranges and alignment of PC-relative fields, a region filled to the last byte |
| **`lp-xt-inst`** | - | decode, encode | linker, emitter, emulator | two tables written apart that must agree |
| **`lp-xt-emu`** (`emu.rs`, `memory.rs`, `board.rs`, `executor/*`) | registers, memory regions, a shadow stack of frames, the trap | fetch, execute, spill and reload windows, resolve addresses | everything that runs code | the register ring wraps and there are two records of who is resident; one byte has an instruction and a data address |
| `fw/led-lab-esp32s3`, `-esp32c6`, `fw/spike-*`, `fixtures`, `scripts`, `docs` | - | the same experiments on other chips; measurements and data | - | - |

What makes each correct:

- driver: a frame goes out whole, in order and once, and is reported complete
  then and not before; if interrupts are late or lost the strip sees a prefix,
  never a mixture of old and new words; the caller is never left waiting and its
  buffer is never read after it took it back; the counters tell the truth;
  channels do not disturb each other, and a call leaves nothing of its own in
  flight, however it ends;
- block plan: accepted windows are disjoint and inside the group's RAM, and a
  refusal names a real reason;
- pulse codes: what is accepted is played as asked;
- lab firmware: what is printed is what happened: the channel, the witness and
  the cause that are blamed are the ones that erred, and a frame that did not
  err is not counted; buffers are touched at rest only;
- runner: after any reset the board says of the payload it was running what
  happened to it, once, and of nothing else; `load_exec` returns the outcome of
  the payload it sent;
- emitter: the code does what the input language says, and gives up only where
  it must;
- linker and loader: every patched site leads where its relocation says, nothing
  else changes, what is loaded is fetched, and a refusal is one of the impossible;
- windows: a call leaves its caller's registers as they were, however deep.

The hazards this code is exposed to are listed in `PROJECT.json` with the line
where each bites, the properties that watch it, or the reason none does.

## 2. Modules

| Module | What it is | Source |
|---|---|---|
| `WireFrame` | abstract specification of one channel: a begun frame goes out bit by bit, one latch, then complete - or is given up | - |
| `RmtChannel` | the channel in detail: thread, handler, transmitter | `driver.rs`, `state.rs`, `mock.rs`, the backends |
| `RmtChannelProps` | its properties, and the refinement mapping to `WireFrame` | |
| `RmtChannelProofs` | theorems about it: the handler and the thread, the wire (one per timing), the refinement of `WireFrame` | |
| `RmtGroup`, `MCRmtGroup` | the channels of one driver together: one interrupt line, `send_blocking_all` | `driver.rs`, `mock.rs` |
| `RmtGroupProofs` | theorems about it | |
| `BlockPlan` | `BlockPlan::new` as its loop, `uniform` feeding it | `blocks.rs` |
| `Pulses` | words, colour orders, the compilation of a timing | `pulse.rs`, `timing.rs` |
| `SetupProofs` | theorems about `BlockPlan` and `Pulses` | |
| `Capture` | how the lab turns what it captured into bits and judges them | `loopback.rs`, `diag.rs` |
| `LabBench` | driver, wires, receivers and faults, as a program of the lab meets them | `main.rs`, `loopback.rs`, `driver.rs` |
| `Diag`, `Loopback`, `Soaks` | the five programs: diagnostic; self-test; demo, stress, sweep | `diag.rs`, `loopback.rs`, `main.rs`, `stress.rs`, `sweep.rs` |
| `Lab`, `MCLab` | block plan, set-up and programs together; their properties | `main.rs` |
| `LabProofs` | theorem about it | |
| `RunnerDevice` | one board: ledger, runner loop, panic handler, watchdog, resets | `xt-runner-core`, `fw/xt-runner-*` |
| `RunnerLink`, `MCRunner` | composes it with the client over one port | `xt-runner-client`, `xt-testkit` |
| `RunnerProofs` | theorems about `RunnerLink` | |
| `CallStack` | abstract specification: calls over a plain stack | - |
| `Windows` | the emulator's windows, and the mapping to `CallStack` | `executor/window.rs`, `executor/call.rs`, `cpu.rs` |
| `MiniVM` | abstract specification: what a MiniVInst program does | `vinst.rs` |
| `Words`, `Imm` | machine words of either width; the table of immediates | `imm.rs`, `executor/arith.rs` |
| `Emit`, `Relax` | lowering as operators; the sizing loop | `emit.rs`, `abi.rs`, `gpr.rs` |
| `XtExec` | what one instruction does | `executor/*` |
| `EmitRun`, `MCEmit` | lower, lay out, encode, load, run; the mapping to `MiniVM` | `emit.rs`, `emu.rs` |
| `EmitProofs` | theorems about it | |
| `Codec` | the 24-bit and 16-bit instruction words | `lp-xt-inst` |
| `Memory` | alias rules, regions, resolution, loading | `memory.rs` |
| `EmulatorProofs` | theorems about `Windows` | |
| `Boards` | the two boards, the runners' code memories | `board.rs`, `codemem.rs`, `jitbuf.rs` |
| `Linker`, `LinkerProps`, `MCLinker` | linking, and the three ways of loading; its properties; inputs | `lp-xt-elf` |
| `LinkerProofs` | theorems about `Memory` and `Linker` | |

### 2.1 RmtChannel

State. `ram`, `pos`, `running`, `txLim`, `entries`, `pend` are the peripheral
(`entries` is the classic chip's count towards its next threshold, which every
write of `CH_TX_LIM` restarts, so that a late refill puts the later thresholds
off by as much); `frameLen`,
`totalBits`, `bitCursor`, `latchWritten`, `frameComplete` and the counters are
`ChannelState`; `isr` and `pc` are where `on_interrupt` and the calling thread
are; `fill` holds the locals of `fill_half` for either context.

Steps. `Emit`/`Halt` is `MockRmt::advance`, one word. `Finish`, `RefillBegin`,
`RefillLimit`, `RefillGuard`, `RefillFill`, `RefillEnd` are `on_interrupt`, in
the code's order (position read, threshold armed, guard planted, half refilled,
lag measured); each RAM or register write is a step, so the transmitter can move
in between. `Arm`, `Prefill`, `PrefillSecond`, `StartTx` are `start_frame`;
`Return`, `DropGuard` the end of `send_blocking`; `GiveUp`, `StopTx`,
`DropFrame`, `PublishComplete` the timeout and `abort`.

Scheduling. One core: the handler preempts the thread and runs to its end. With
`Masked` false a pending cause is served before the thread takes another step;
with `Masked` true it may wait.

Time is counted in words sent: a threshold cause is served between `MinLat` and
`MaxLat` words after it is raised, and a refill falls behind the transmitter by
at most `Burst` words beyond one per RAM write. "Healthy" is
`MaxLat + Burst < Half`. `LoseThreshold` drops a cause, as the mock does.

Data. A RAM word is the index of the bit it carries, or LATCH, STOP or BLANK.
Frames are counted in bits and need not be whole pixels: the boundary cases of
`fill_half` are then reachable with halves of two to four words.

### 2.2 RmtGroup

`RmtChannel` has one channel with its RAM; `RmtGroup` has all of a driver's and
abstracts each RAM to three counts since the frame began: `good` words written,
STOP words behind the frame's latch included, the place `guard` of the planted
STOP, the place `at` of the transmitter. A transmitter stops at a STOP that has
been written and nowhere else: one that reaches its latch before the refill that
lays STOP behind it goes on into old words. What
`RmtChannel` shows of one channel - a refill in time writes where the transmitter
is not - is here `spoilt`: a frame is spoilt when its transmitter stops anywhere
but at its end, passes the words written, or is refilled into the wrong half.

`TakeInterrupts` clears the causes of every channel at once; `Finish`,
`SkipComplete`, `RefillBegin` and `RefillEnd` serve the lowest channel still
flagged, and the pass goes on while the others send. `StartNext` is one turn of
the loop in `send_blocking_all`; `StartError` its `?` (no such channel, not
configured, busy); `Unwind` a panic in `spin`; `AbortNext` and `Leave` the drop
of `AbortSetGuard`. `StartOther` is a frame begun by `start_frame` beside the
call. `owner`, `spoilt`, `missed`, `cut` are history.

The handler preempts the thread; a pending cause may wait, up to `MaxLat` words,
while the thread goes on (interrupts masked), so an abort can leave a cause of
its channel behind. Assumed: `spin` begins no frame on a channel of the call's
own list (then the busy check, and not the guard, is at stake); channels send
one word each per tick, all with the same window; `stop_tx` is immediate, as on
S3 and C6. Which channels `configure` accepted is the constant `Configured`.

### 2.3 RunnerDevice and RunnerLink

`pc` is the firmware's next store or call, so a reset may fall between any two:
`Stamp`, `Clear`, `Swap` are `Ledger::boot`; `ArmSeq` and `ArmState` are
`Ledger::arm`; then `ArmWdt`, the payload, `DisarmWdt`, `Disarm`, `Answer`.
`Blame` is `record_crash`. A payload is what it does (`Fates`): returns, is slow
(as long as the watchdog's window), hangs, faults, is too big to load, or makes
the runner itself panic. `cut` is history: where the run was that a reset ended.

`RunnerLink` adds the client: `Open` and `Reopen`, which are both `open_port`
(`OpenPort`), the `Info` handshake (`SendInfo`, `RecvInfo`, `InfoTimeout`,
`Unreachable`), `SendExec`, `RecvExec`, the deadline (`ExecTimeout` with nothing more under way, `ExecLate` with an answer
still to come), `Close`, `Kill`. Frames are in order on both ways; a reset loses
what the host had not read over USB-CDC and some of the oldest frames on their
way to the board; a killed process may leave a frame without its delimiter,
before a busy board or an idle one. While nobody has the port open, what the
board says may be lost (`Unheard`) or wait there: `open_port` discards nothing,
so the next session reads it first. `sess` in a seq is history: the wire carries
`n` alone, and nothing with an `Info`, and the client compares `n` only.

One timing fact is assumed and named. `Settled`: the client's 10 s are longer
than the 3 s watchdog window, the reset and the boot together; a deadline that
passes earlier all the same is `ExecLate`, and is budgeted.

What keeps the sessions apart is that the wire is a queue. A session whose
handshake ended with the answer to an `Info` of its own (`greeted`, history) has
read past everything older. `open_board` cannot tell: it takes any `Info`, and
one that an earlier session did not read lets it proceed with that session's
answers still to come. `OutcomeTruth` and `NoAnswerLost` are stated with
`greeted`; what happens without it is told in section 5.

### 2.4 Windows

The ring is `NumBases` units of four registers, as WindowBase counts. A unit
carries who wrote it last and, for a0, the call increment packed into its top
bits. `Call`, `Entry` (with `Victims` and `SpilledMem`: `ensure_window_free` and
`spill_frame`) and `Retw` (with `Reloaded`: `reload_frame`) are the emulator's;
`Work` and `Result`, what a function does between them, are the program and
external. A frame reserves `SaveArea` words at its top, as `xt-mini-emit` does
(32 bytes are two words), and uses the rest for locals. `FrameRec.sp` stands for
a1; MOVSP, CALL0 and RET do not rotate and are left out.

The mapping to `CallStack` reads a suspended frame's registers from the ring
while it is resident and from its save area when it is not; the abstract stack
must not be able to tell.


### 2.5 MiniVM, Emit, Relax, XtExec, EmitRun

`EmitRun` follows one program from its MiniVInsts to its end. `Lower` is
`emit_program_with`'s lowering (every MiniVInst, both callee forms, three call
increments), `SizePass` and `NotConverging` one pass of `finish` and its
assertion, `EncodeAndLoad` the encoding loop with the host's patching of symbol
slots, `Step` one instruction of `run_loop`. The bytes of an instruction are one
symbol: `Linker` has the bytes. `WellFormed` is what emission takes for granted
of a program and panics on otherwise (unknown labels, three results): an
assumption about `Programs`, which TLC checks of every one.

`shown` is history: what a reader of the program would see, taken from the
machine whenever it stands at the first byte of a MiniVInst's code. `MiniVM`
says how that may change, one action per MiniVInst, with registers, slots and
memory and nothing of scratch registers, frames or addresses; `ImplementsMini`
is its specification. Two consecutive MiniVInsts without code are one step.

`ByteMod` scales the machine: 16 gives bytes of four bits and words of sixteen,
with every field of data, shift amount and branch reach in proportion, so that
both ends of every field are reached by short programs; 256 is the code's. The
fields of J, CALLn and L32R keep their size. The register file does not wrap:
`Windows` is about that.

### 2.6 Codec, Memory, Boards, Linker

An input is a set of relocatable objects, an executable or a bare payload, with
its contents given sparsely. `PlaceSection`, `DefineSymbol`, `ApplyReloc` and
`LoadRange` are the passes of `link_objects` and the loader, one item at a time,
in the code's order, each with its own errors (`NoEntrySymbol` and the flaws of
an input are others); `DeviceLoad` is the board's own loading of a payload;
`placed`, `globals`, `out` and `mem` are the maps of the code. `Codec` decodes and encodes every form of `lp-xt-inst` from two
tables written apart, as in the code. `Memory` has the three alias rules of
`memory.rs` (offset, identity, word-mirrored) and first-match resolution for data
and for fetches; `Boards` the two board profiles, and what the two runner
firmwares write into their own chips, for the comparison. `WellPlaced` is what
`memory.rs` leaves to its caller, and an assumption of `Boards` that TLC checks
address by address.

`WellFormed` is what the parsers of the code make sure of: contents are bytes and
lie within their section or segment, indices and offsets are numbers.

The object crate's parsing decides what a section or a symbol is and is left
out: a malformed file is an input with a `flaw`.

### 2.7 Pulses, Capture, LabBench, Diag, Loopback, Soaks, Lab

`Pulses` compiles a timing (nanoseconds) at a clock into three words and decodes
words. `Capture` is the lab's oracle over them: from items to pulses (`Halves`),
to bits (`parse`), to a verdict (`check`, `check_range`, `check_from`), and from
the edge times of the CPU witness to bits.

`LabBench` is what a program meets: `tx` is `is_complete`, `stats` the driver's
counters, `rx` the esp-hal receivers (a receiver given up with its transaction
is lost for good), and `upset` what goes wrong in a round, a set of faults, on
one channel or on several and of any kinds together: a bit flipped, stretched,
added or cut on the wire, a wire crossed with its neighbour, a frame that hangs
or reports an error or stops at its guard, a receiver that misreads, refuses,
errs or ends late, a foreign word in RAM, a CPU loop that is blind for a while. `TxEnd` and `RxEnd` are the hardware's side. What a wire carries is
computed from the frame, the channel's words and the faults; what a receiver
hands over from that, `ragged` or not (with the low before the frame and the idle
after it).

`Diag`: phases, experiments, `BeginRound`, `Arm`/`ArmFails`, `StartBlock` or
`StartWitness`, the two timeouts, `Collect`, `JudgeBlock` and `JudgeWitness`.
`Loopback`: the four stages, each capture with its fatal ends. `Soaks`: the
rounds and reports of the demo in both modes, the stress scenarios and the
sweep's cells; a set of frames in which several hang is aborted as a whole, and is
one timeout. `truth` is history, kept from the faults and never from what the
program computed; the properties compare it with `log`.

`Lab` puts the block plan first, then one of `Programs`, the features a firmware
is built with: the programs run only on a plan of `uniform`
that configures every channel, and otherwise halt in set-up. With
`BLOCKS_PER_CHANNEL` of 2 or more some channel has no window and
`configure_default_clock` refuses it, so every program halts, although the
comments of `esp32_rmt.rs` (lines 90-105) and on `SLOT_STRIDE` in `sweep.rs` say
such a build fits; esp-hal may also refuse any set-up.

Timing facts assumed: a blink of the CPU loop lies inside the frame (one before
the first edge it sees, or over the end, leaves no gap and is not noticed);
a receiver ends some time, since `wait()` blocks; the diagnostic's stagger delays
edges and no poll, and is left out.

## 3. Fairness

- `RmtChannel!FairSpec`: `WF(Transmitter)`, the peripheral is clocked;
  `WF(Isr)`, a pending cause is served at some time; `WF(InCall)`, the core goes
  on executing a call. Nothing is assumed of `Arm`, `GiveUp` and
  `LoseThreshold`: callers need not send, give up, or lose anything.
- `RmtGroup!FairSpec`: `WF(Tick)`, `WF(Isr)`, `WF(InCall)`, as above; nothing of
  `StartOther`, `SendAll`, `Unwind` and `LoseThreshold`.
- `RunnerLink!LinkSpec`: `WF(Board)`, the processor runs and the watchdog
  counts; `WF(RecvExec \/ Reopen \/ ExecTimeout)`, a client inside `load_exec`
  keeps reading, reopening and watching its deadline. That loop is one thread
  polling a port with a timeout. No fairness on the handshake, on resets, or on
  the user.
- The rest is safety and refinement of safety: `Lab`, `Windows`, `EmitRun` and
  `Linker` have none, and `CallStack` and `MiniVM` ask for none. In `EmitRun` and
  `Linker` every behaviour is a finite path.

`Lab` is checked for deadlock: `Rest` names the states where a program of the lab
may stop, and a program that waits for ever elsewhere is an error of the run.
The other runs say `CHECK_DEADLOCK FALSE`: their work is bounded (frames,
sessions, calls, one input), and a system that has done it stops.

## 4. Bounds

Counters named "bound" in the modules (`MaxLost`, `MaxFrames`, `MaxOthers`, `MaxAborts`,
`MaxWire`, `MaxSessions`, `MaxExecs`, `MaxResets`, `MaxLate`, `MaxCalls`, `Upsets`,
`MaxRun`, `Rounds`) limit how often the environment acts; none limits what the
code does in answer. `MaxTries` is the handshake's own deadline, counted in
attempts; `MaxSteps` the emulator's step budget, which no program of the run
needs; `MaxIter` the 64 passes of `finish`, here 3, so that its assertion is
within reach.

- Half = 2..4 and frames of up to 17 bits: a frame shorter than a half, ending
  on a half, ending on the window, one bit past it, and two windows long. The
  empty frame is included.
- Two frames and one abort: an abort, and a frame that starts after it. Two lost
  interrupts: the first lost twice, first and a later one, two later ones.
- MaxLat = 7 with Half = 3: more than a window late.
- Two configured channels of three, halves of four words, frames of three halves,
  a latency and a refill of a word each: every channel has a refill with data, one
  that only lays STOP words and that must come before the transmitter does, and a
  tx_end that may share a snapshot with a threshold. It is as late as two channels
  can bear (`2 * Cost + 2 * MaxLat = Half`). The lists name two channels, one
  twice, one that is not configured, one that does not exist; the frame beside the
  call, begun at any distance from it, makes a listed channel busy or shares its
  snapshots.
- Two sessions, two payloads then one: the second session reuses seq 1. One
  outside reset, one early deadline: either can hit any step, and together they
  reach a stale answer. Two Infos for each handshake: one answered late leaves one
  over. The fates of a payload are the four that differ most: it returns as the
  watchdog's window ends or in time, overruns it, faults, or panics the runner;
  one that always returns is among the behaviours of the first, and one the board
  refuses (`tooBig`) is in the theorems only.
- Eight CALL8 calls on sixteen units: the ring holds seven frames and the
  runner's context, so it wraps.
- The lab: four channels; counts 0..6 for the plan, over-large ones included.
  Bytes of two bits: frames of one and two pixels are 6 and 12 bits, the
  truncation test's are longer than window and first refill. Two frames of an
  experiment, of the soak and of a scenario, two rounds of the demo: a counter
  that is not reset, and a frame after one that hung. A behaviour of the
  diagnostic has one fault, of the self-test any two, of the counting programs any
  three: two hung in one set and one in the next, or one each late, failing and
  hung in one set. Fault bits 1 and 4: the first of a frame, and one in the middle
  of the shortest. The CPU loop opens before the first edge, inside the first
  pulse, between two, inside the second.
- Emitted programs, 4,381 in thirteen families: every operation over the extreme
  words; every immediate around the ends of its fields; loads and stores around
  theirs; forward and backward branches around the reach of BRI12 and chains
  where one's growth pushes the next out; calls under every increment with up to
  eight arguments, by name and by symbol, with all ways two returned words can
  land on each other; recursion; frames up to and past what ENTRY holds.
- Linked inputs, 32,426: under one relocation, op0 = 0 with every op1, op2 and r,
  and the other opcodes with their immediates at the edges; every patchable form
  around both ends of its reach from each place of its word; pairs of objects
  that define, shadow or miss each other's symbols; regions filled to the last
  byte and past it; payloads of one byte up to the whole code memory.

## 5. Runs

| Run | Instance | States | Shows |
|---|---|---|---|
| `RmtHealthy` | Half 4, lat 1..2, Burst 1, no loss, 2 frames, 1 abort | 22,991 | `ImplementsWireFrame`, `NoEarlyFinish`, `CompleteMeansStopped` |
| `RmtLost` | Half 3, lat 1..2, 2 lost | 7,250 | `ReplayThenPrefix`, `WholeUnlessCounted`, `FrameCompletes` |
| `RmtLate` | Half 3, lat 0..7, 1 lost | 366,689 | `TypeOK`, `CleanPrefix`, `TripsTruthful`, `LagTruthful` |
| `RmtAbortClassic` | Half 3, classic, lat 0..3, 1 lost, 1 abort | 200,017 | `FrameReadsAlive`, `AbortSilences` |
| `RmtGroup` | 3 channels, 2 configured, Half 4, lat 0..1, refill cost 1, 1 lost, 1 call, 1 other frame | 326,019 | `SetReturned`, `AbortsOwn`, `Isolated`, `CallEnds` |
| `Lab` | 4 channels, all plans of up to 6 blocks; 1 fault in the diagnostic, 2 in the self-test, 3 in demo, stress and sweep | 2,241,388 | `WindowsDisjoint`, `ErrorNamesCulprit`, `MissesTruthful`, `WitnessTruthful`, `VerdictTruthful`, `ReportsTruthful`, `BuffersAtRest`, no deadlock |
| `Runner` | 2 sessions, 4 fates, 1 reset, 1 early deadline, kills, both transports | 1,771,136 | `ReportTruth`, `NoForeignReport`, `OutcomeTruth`, `NoAnswerLost`, `Answered` |
| `Windows` | 16 units, CALL8, frames of 2 and 3 words, 8 calls | 418,447 | `WindowStartTruth`, `CallEffect`, `ImplementsCallStack` |
| `Emit` | 4,381 programs, words of 16 bits | 67,857 | `LeastLong`, `NoPanic`, `ImplementsMini`, `SaveAreasKept` |
| `Linker` | 32,426 inputs, regions of 64 KiB | 193,447 | `SectionsFit`, `SitesReach`, `RefusedOnlyIfImpossible`, `RoundTrip`, `FetchesWhatWasLoaded` |
| `RmtStaleEnd` | classic, 2 frames, 1 abort | violation | `NoEarlyFinish` |
| `WindowsMixed` | entered by CALL8, calls by CALL12 | violation | `CallEffect` |

What the passing runs say:

- With interrupts inside the deadline the driver implements `WireFrame`. Late
  ones leave a clean prefix, but for two exceptions the sources document: before
  the first interrupt no guard is planted, so the window may be replayed, and a
  guard is skipped when the transmitter stands on its slot. `CleanPrefix` is
  stated with both.
- `guard_trips` never over-reports; what it misses lies in the last half
  (`TripsTruthful`).
- Only a channel that lost an interrupt of its own sends anything but its frame,
  as long as `n * Cost + 2 * MaxLat <= Half` for n configured channels, a refill
  taking at least one unit: a cause may wait for the rest of one pass, and then
  in the next one stand behind channels that were served before it; its own
  refill counts, since the guard it moves stands until its end. The factor 2 is
  TLC's: with three channels and `Cost = 1`, `Isolated` holds at `Half = 5`,
  `MaxLat = 1` (section 6) and fails at `Half = 4`, `MaxLat = 1`, where the factor 1 would
  allow it. The run takes the tight case of two channels.
- A session greeted by an `Info` of its own gets the outcome of its own payloads,
  and silence only where the runner itself panicked.
- The report a board announces is always that of the payload the reset ended.
  `NoForeignReport` excepts a reset between the two stores of a new build's
  first boot (build-id, then STATE).
- One increment per program: the windows implement the call stack (for CALL8,
  at any depth: section 6).
- Emitted code does what the program says, short branches are used wherever they
  reach, and no store of a program touches what overflow handlers save. One case
  is left out of the instance because the code does not have it right: see below.
- Linking patches what it should and nothing else, and refuses only what cannot
  be done; the two tables of the codec are inverse on every word of the run but
  SSAI with ignored bits set.
- What the lab prints is what happened, also when faults come together. A
  scenario and a cell count the frames that ended, whole and short; their timeouts
  are sets of frames with some missing (`stress.rs:378`: "Frame batches that did
  not complete"), and not the missing frames: with two channels hung in one set,
  two frames are missing and one timeout is counted. The exceptions
  stand in the properties: a pad that adds or drops a whole pulse
  (`WitnessTruthful`), a receiver lost earlier, which the diagnostic counts as
  misses with `plumbing=ok` (`MissesTruthful`), and frames aborted at a change of
  the demo's mode (`ReportsTruthful`).

What the failing ones say (`PROJECT.json`, `findings`, quotes the sources):

- **RmtStaleEnd**: the classic `abort` reports the channel complete while the
  transmitter still runs into the STOP words; the next `start_frame` arms the
  channel, and the late tx_end completes the new frame before `start_tx` drops
  it.
- **WindowsMixed**: the emulator spills a frame by the increment it was entered
  with; what must survive is given by the call it makes.

What else was met while modelling, and no run states:

- A test file's process is killed with a payload on the board and a surplus `Info`
  in the port. The next file that starts its seqs at the same base is greeted by
  that `Info`, and takes the old payload's crash report for its own (the reason
  `OutcomeTruth` is stated with `greeted`). `xt-testkit/src/lib.rs:154` says
  "per-file bases keep crash reports attributable", but two pairs of files of
  `xt-mini-emit/tests` share one: 8000 (`p6_emitter_completion.rs`,
  `call_boundary_torture.rs`) and 7000 (`p4_stack_args.rs`, `call_inc_study.rs`).
- The drain before the demo's change of mode (`main.rs:601`) aborts a frame that
  hung, counts no timeout and prints nothing, and the next report may be a PASS;
  `main.rs:174` says of a frame that hung: "abort it and say so". The `drained`
  of `ReportsTruthful` are these.
- `xt-mini-emit` under CALL4: a call through a symbol with three or more register
  arguments loads the callee's address into a register that already holds a
  staged argument (`emit.rs`, `lower_call`). `MCEmit!Calls` leaves out exactly
  these programs; with them `ImplementsMini` fails.
- `lp-xt-inst`: the decoder of SSAI ignores bits 5 to 7 of the word, so
  `encode(decode(w)) == w`, which `lib.rs:227` states, fails for words that have
  them set. `RoundTrip` excepts them.
- A Rust panic in the runner while it handles a payload, before `Ledger::arm`,
  is reported by nothing, and leaves the host with its own deadline.
- Without any loss and with interrupts up to a window late, `guard_trips` is not
  exact: a refill served with the transmitter on the guard word advances the
  cursor to the end of the frame.
- The diagnostic takes the bits the CPU loop saw for "unambiguously the last" of
  the frame (`diag.rs`): not if the pad dropped or added a pulse.
- A round of the demo's simultaneous frames in which one hangs is a timeout of
  every channel.
- The sweep's DONE line prints `SWEEP_LEDS.len() * TX_CHANNELS` cells, but only
  the `USABLE_CHANNELS` of a plan run.
- After `tx_timeout` a block of the diagnostic still blocks in `wait()`: were the
  wire never to carry an edge, for ever.

`AbortSilences` needs `Masked = FALSE`: were interrupts masked between `stop_tx`
and `disarm`, a refill that runs after the wipe would lay data over the STOP
words. The sources neither mask there nor say that callers must not.

A guard skip (`guard_skips`) also happens on a refill late by exactly one half:
the transmitter then stands on the STOP word planted before, and the frame is
truncated, where `state.rs` reads a skip as a frame protected. No run states it;
`CleanPrefix` is stated for frames without a skip because of it.

Every property of a passing run has a mutant: a definition changed as a
plausible bug would change it (named `Definition_Mutation` beside it), which
violates the property in that run.

## 6. Proofs

TLAPS proves, for every value of the constants that the `ASSUME`s of the modules
allow:

**RmtChannelProofs.** The assumptions are those of `RmtChannel`: `Half >= 2`,
natural bounds, frames of any lengths.
- `TypeCorrect`: `[]TypeOK`. `TypeOK` is not inductive: that a fill's word stays
  below the end of its half needs `FillInv`, the relation of stage, word and end
  (`TypeInv == TypeOK /\ FillInv`). One lemma per component: transmitter,
  handler, thread.
- `BufferLent`: `[]FrameReadsAlive`, with interrupts masked or not, either
  backend, any timing. `BorrowInv`: the frame length is non-zero only while the
  buffer is lent.
- `EndIsOwn` and `CompleteIsStopped`, for an immediate stop and unmasked
  interrupts (the classic chip violates the first: `RmtStaleEnd`). `StopInv`
  ties the transmitter, the pending tx_end and the completion flag to the
  thread's place.
- `LagIsTrue`: the measured lag is the true one if `Burst < Half`. `LagInv`:
  `posBefore + adv` is `pos` on the ring, and `adv` is less than a window since
  a refill makes at most `Half` writes (`RefilledBound`).

The wire rests on the ring invariant, one lemma per step. A frame whose first `k` words on the wire were replays has sent
`Sent(k)` of its own; `Left(k, e)` slots ahead of the transmitter are fresh, and
hold `Content` from there on: bits in order, the latch, then STOP (`InWindow`);
`fill_half`'s locals stand at the first word not yet written (`Cursor`); the
transmitter is where the words sent put it (`Place`); and during a refill the
threshold, the position read at its start and the lag agree (`InRefill`).
`e` says what a transmitter at the guard's own slot means: a window just filled
(`Ram` fresh words), or a half used up (none).

What reaches the wire is proved under four timings. All are for an immediate stop and unmasked interrupts (the S3 and the C6; on the classic chip
`RmtStaleEnd` shows a frame that is completed before it starts), and ask that the
log of the wire (`MaxWire`, the model's own bound) holds the frame; the last one
is stated of the states whose log is not full (`Logged`), for any `MaxWire`.
- `WireIsTheFrame` (`InTime`: no interrupt lost, `MaxLat + Burst < Half`): the
  channel implements `WireFrame`, initial states to initial states and steps to
  steps or stutters, aborts included. `Pace` is the clock: a waiting event is as
  old as the transmitter is past its threshold; `Healthy` has it in the half
  before. The bound is tight: at `MaxLat + Burst = Half` TLC finds a frame cut
  by its guard.
- `WireIsClean` (`AnyLatency`: any latency, any loss, `Burst <= 1`): `CleanPrefix`.
  Until a guard is skipped the frame is behind its barrier: the STOP of the last
  refill, or, while none was planted, the end of the initial window (`Guarded`).
  A refill that comes when the transmitter is already at the barrier is
  `Doomed` to skip its guard, and a wire that went past the initial window
  unrefilled is `Replayed` for good. `Burst <= 1` is what keeps a doomed refill
  from sending a word before it counts the skip.
- `ReplaysThenFrame` and `CompleteMeansWhole` (`SomeLost`: any loss, prompt
  otherwise: `1 <= MinLat`, `MaxLat < Half`, `MaxLat + Burst <= Half`):
  `ReplayThenPrefix` and `WholeUnlessCounted`. `Shifted`: some number of replays
  of the initial window, each paid for by a lost interrupt (`Room`), then the
  frame, and it ends at its end or at a barrier. `finish` counts the latter
  because bits are left (`Missing`).
- `TripsAreTrue` (`AnyTime`: any latency, any loss, `Burst <= 1`, guards skipped
  or not): `TripsTruthful`. Not over: no word on the wire or in the window is
  past the cursor (`Reached`), a counted frame's cursor is short of its end, and
  every frame started was counted or is being sent (`CountInv`). Hardly under: a
  refill begins a lap of the ring (`LapStart`, `Progress`), at a word `m` of the
  frame. What lies behind the transmitter on its lap was sent, and what lies
  ahead is the frame, or is left from the lap before and was sent then
  (`OnLap`); a lap that was completed unrefilled has sent all it held
  (`Covered`). So wherever a STOP ends the frame, only the half written last may
  be unsent (`CoverHalt`). `Burst <= 1` keeps the transmitter off the slots a
  refill has yet to write.

**RmtGroupProofs.** Any number of channels, any lists, any timing and loss.
`SetReturned` speaks of the moment the call is over. `GuardInv` follows the
guard's bookkeeping at every step: a frame of the call that is in flight is in
`started` (`Guarded`), `started` holds channels the call owns only (`Ours`), and
what is cut off was in it (`CutOurs`); a call that succeeds has only complete
channels left for its guard (`OkIsWhole`). `SetIsReturned` and `AbortsAreOwn`
follow.

`ChannelsIsolated`: `Isolated`, for any number of channels, any losses, and any
latency and cost with which the handler keeps up (`Keeps`: `Cost >= 1`,
`n * Cost + 2 * MaxLat <= Half`). It is a schedulability argument. `Age` is how
long a channel's cause has waited, or, below zero, how far off its next one is;
`Dues` adds the time to the next snapshot. `Schedule` says that all causes are
served in time: either each in this pass and the next is due within its half
(`Timely`), or no new one comes before the last tick of the pass (`Clear`), or,
between passes, all were raised since the last (`Recent`). Taking a snapshot
(`Takes`) is where `Keeps` is spent; everything else only lets `Dues` fall. From
it, a waiting cause and a running refill have a tick left (`Headroom`), so that
a frame which lost no interrupt is where its threshold says (`OnTrack`): before
the end of the words written, before the guard, and read by `on_interrupt` in the
half it means to refill. At its end this says that the STOP behind its latch was
laid in time.

**SetupProofs.** Any number of channels, any counts. `PlanInv`: `claimed` is
the union of the windows accepted so far, which are disjoint and in order.
`PlanSafe` and `RefusalJust` follow. `CodesPlayTheTiming`: whatever timing and
clock `PulseCodes::new` accepts, the three words decode to the pulses asked for,
with the durations rounded as `timing.rs` rounds them, and none reads as STOP.

**RunnerProofs.** Any set of seqs, any number of sessions, payloads, resets.
`ReportTruth` speaks of `pc = "announce"` only, and is far from inductive.
`LedgerInv` follows the cells at every step: outside the boot, STATE and SEQ are
a function of `pc` and the request (`CellsFollow`); a reset freezes them; until
STATE is cleared, or the cells belong to another build, they tell what `cut`
deserves (`BootTells`, `BootForgets`). `ReportsAreTrue` and `ReportsAreOwn`
follow. The client appears only in that it leaves the board's variables alone,
resets apart (`ClientLedger`).

- `OutcomesAreTrue`: what `load_exec` returns is about the payload it sent.
  `OutcomeTruth` speaks of an answer already taken; `OutcomeInv` follows every
  seq that may still come. Each is at a place of the board (`Owed`), in the inbox
  or in the outbox, and was given out by some session (`SeqsKnown`). The wire is
  a queue: while a session shakes hands, the payloads of the earlier ones are
  ahead of the `Info` that answers it (`Handshake`), so a session greeted by that
  one meets its own seqs only (`SeqsOwn`); a session greeted by an older one may
  meet any, and of its answers the theorem says only that those under its own seq
  are true. Whatever comes under the last seq fits the last
  payload (`Fits`): a record of the ledger through `LedgerInv`, an answer through
  `Ran`.
- `SilenceIsPanic`: a deadline passes in silence only for a payload on which the
  runner itself panics, unless somebody reset the board or an earlier deadline
  cut an answer off (`Undisturbed`, which is what `BudgetAssumption` is for), or
  the session was greeted by an older `Info`. The payload is followed from the inbox to the answer, through the watchdog, the
  reset it causes and the report of the boot (`Followed`). That a handshake comes
  between a torn frame of a killed client and the next payload is `WireTorn`.

Both rest on `Settled` (2.3), and hold for either transport; torn frames at an idle
board and ports nobody reads are among their cases.

**EmitProofs.** Both widths, any programs, any number of passes. `AddImmSplit`:
the two halves of `add_imm` are legal immediates and add up, with every wrap on
the way. `EncodedReaches`: when the loop ends, the offsets are those of its own
last layout and every branch left short reaches; the invariant is that `offset`
belongs to the `long` of the pass before, and that a pass which changes nothing
found every short branch in reach. `PanicNeedsBranches`: `long` only grows, so
after `k` passes it has `k` members at least, and giving up takes as many
conditional branches as there are passes.

`ShortestForms` is `LeastLong` for every program the emitter accepts
(`ProgramsAssumption`: what it refuses by a panic is left out). Two facts carry
it. A branch stays within its function (`Local`): every lowering gives items of
its own function only, with no function start among them (`Body...`, one lemma
per lowering, up to `BodyInst`), and every label a branch names is among them
(`FunctionIs`, `ProgramIs`). And a stretch of items without a function start only
grows when more branches are long (`StretchGrows`), so what is too far stays too
far (`StaysTooFar`); across a function start this is false, since the padding may
shrink. So the long forms of each pass are in every choice that works
(`LeastPass`). Both need induction over the items. The library's induction
theorems are out of the provers' reach, but `Induction`, the same as a statement
about sets of numbers, follows from the least member of such a set (`LeastNat`),
and that from the well-foundedness of inclusion among finite sets; that the
recursive functions of `Layout` and `FlattenSeq` exist (`LayoutExists`,
`FlattenExists`) is proved with it first.

**EmulatorProofs.** Any ring of eight units or more, frames of any sizes with a largest,
any number of CALL8s to any depth, and a save area of two words or more
(`CallsAlike`): `16 * units` bytes, as `abi.rs` reserves. CALL8 is the emitter's
policy (`CALL_INC` there); calls of mixed increments are out because the code
does not have them right (`WindowsMixed`). `WindowInv` is the inductive
invariant, and each part is there because the next needs it:
- `ControlInv`: the place in the program fits the depth and the staged increment;
- `RotationInv`: frame `i` starts `2 * (i - 1)` units past the first, around the
  ring (`Ring`); the resident frames are the innermost ones, WindowStart has
  their bases and no other, and with the running window they fit in one turn, so
  that a base names one resident frame although bases are reused;
- `StackInv`: the frames lie one below the other, each with its save area, so
  that no save slot is another's and none meets a local;
- `SavedInv` and `OwnInv`: wherever a suspended frame's registers are, in the
  ring or in its save area, they are its own, and a0 carries the increment
  its caller used.

`ensure_window_free` spills at most one frame, the oldest (`VictimSet`).
`Call`, `Work` and `Result` move nothing of a suspended frame (`Quiet`);
`EntryKeeps` and `RetwKeeps` say the same of the content, whose place does move.
From the invariant: `WindowTypes` (`TypeOK`), `WindowStartAgrees`
(`WindowStartTruth`), `CallsKeepRegisters` (`CallEffect`), and
`WindowsAreACallStack`, the refinement of `CallStack` step by step (`EntryMaps`,
`RetwMaps`, `QuietMaps`). TLC found `WindowInv` to hold on rings of 8, 9 and 16 units
before it was proved.

**LinkerProofs.** `Memory`: any regions, in any number and order, that are
`WellPlaced`: aliases are one of the three rules, a mirrored window starts and ends on a word
(what the code takes for granted in its masks), and no address is of two regions
or of both views of one. `AliasInverse`: each rule and its inverse undo each
other. `OneCell`: an address of a cell resolves to that cell only, so the order
of the regions does not matter, and a fetch does so through the instruction view
only. `LoadedIsRead`: a byte loaded through either view is what both read, and a
cell outside the range keeps its own. Addresses are integers: the argument is
for regions that do not wrap around the 32-bit space.

`Linker`: any well-formed objects, executables and payloads, in any number
(2.6). `SectionsAreApart` is `SectionsFit`, for regions of any size of which the
board's code memory holds two (`RegionAssumption`). `LayoutInv`: the items of
each pass are what the pass is about (`StageInv`), and what was placed lies
aligned and before its region's cursor, apart from what else lies there and
after the literals of its object (`PlaceInv`). That an item still to come was not
placed yet, and that no literal of the object comes after it, is the order of the
list the pass works through (`Laid`, `FlattenIs`, `PlaceWork`); the lists are
made by `FlattenSeq`, whose recursion is reached as in `EmitProofs`.

`LoadedIsFetched` is `FetchesWhatWasLoaded`, under one hypothesis,
`SegmentsApart`: the segments of an executable share no byte of the board's
memory. The tool that links an executable sees to it and the loader does not
look; `MCLinker` assumes it of the run's inputs, so TLC evaluates it. The
outputs of `link_objects` and a bare payload need no hypothesis: they are one
range, or two that `SectionsAreApart` and the boards' tables keep apart. To
`LayoutInv` the invariant `LoadInv` adds that each output is contents of its
region's length, whatever a relocation patched (`ContentInv`), and that every
range loaded so far fits and is held, byte for byte, by the cells its addresses
resolve to (`RangesLoaded`). A later range takes nothing from an earlier one: an
address has one cell, cells of ranges apart differ, and on the board of the
mirrored alias the words' order is reversed but not their bytes (`Sram1Fetch`),
so that the firmware's own writes give what the emulator fetches.

`WordsRoundTrip` is `RoundTrip`, for each of the 2^24 words at a relocation's
site: decoder by decoder (`QrstAgrees`, `Rri8Agrees`, `Op6Agrees`, `Op7Agrees`,
`WideAgrees`, `NarrowAgrees`), from the six fields of a word (`FieldsAre`,
`Packed`) and the tables of the two directions, entry by entry (`Rst0Is` to
`ConstTables`). The words for which it fails are SSAI's with ignored bits set
(section 5), and no others.

**LabProofs.** Any number of channels, all five programs, and in every round any
set of the bench's faults. `BuffersAtRest` speaks of the places that touch a frame, and is not
inductive: that a round is armed with every channel complete rests on the wait
that came before. `RestInv` has all channels complete wherever things are
settled: there, while receivers are waited for and read out, and at the end of a
loop body - save the free-running demo's, which leaves frames in flight and must
not come to arm or start a set before it has drained them. `FramesRest` follows.

`ReportsAreTrue` is `ReportsTruthful`: the demo's verdict on the last second, and
the result line of every scenario and every cell, for any number of rounds. The
run allows three faults; the theorem any number, on as many channels of a round
as there are. `ReportInv` adds what ties the
counters to the frames between two reports:
- `PlanFacts`: a uniform plan with a window for every channel has one block each
  (`PlanReady`), so that the slots of a sweep are the channels;
- `RoundInv`: the frames `OnTheWay`, started together and not counted yet, are
  channels of the round, and those that hang are the last of them;
- `SoakCounts`: the totals, plus what is on the way, are the frames started less
  those that hung; the short and the erring frames still on the way are `Ahead` of
  their counter, and a set in which some hang, of the timeouts (`Spoiling`);
- `DemoCounts`: the same of the differences to the last report, which a report
  brings to nothing (`DemoFresh`), and of the frames that hung but were drained,
  which no counter has.

The totals are folds over sets of channels. What a fold computes is proved
without the library's induction theorems: a smallest set for which a statement
fails would exist (`LeastSet`), and losing the member the fold picks
(`TallySteps`) gives a smaller one (`ByPicking`). From it, sums add (`SumPlus`),
a step that adds one in the channels of a set adds its cardinality (`SumGrows`),
and a sum of naturals is zero only if all are (`SumNat`).

Model-checked only:
- liveness under fairness (`FrameCompletes`, `AbortSilences`, `CallEnds`, `Answered`, the
  fair part of `ImplementsWireFrame`), which TLAPS does not reach;
- what the emitted code computes, what the linker's bytes say and what a capture
  shows: `ImplementsMini`, `SitesReach` and the judgements of `Capture`, on which
  `MissesTruthful`, `WitnessTruthful` and `VerdictTruthful` rest (a capture is
  parsed by folds over sequences). `Induction` would reach them, instruction by
  instruction and byte by byte, at a length that outgrows the models; `SitesReach`
  also takes relocations whose sites do not overlap, which the run's inputs have;
- `RefusedOnlyIfImpossible`: for any input it is false as stated (a range that
  crosses from one region into the next is refused with both ends mapped), for
  the run's inputs it says exactly why each was refused;
- `SaveAreasKept`, which is about the addresses the run's programs store to: a
  program may compute any.

## 7. Not modelled

- The driver's error cause, lag sum and histogram (bare counters); the S3's
  re-raised threshold events; the unwinding of a second abort in `spin`.
- Groups of channels with windows or word rates of their own; the classic chip's
  wiping stop in a group.
- The LED lab of the S3 and the C6: the same experiments, with a receiver for
  every transmitter, and under radio load. Of the classic lab: the RAM probe, the
  logic-analyser marks, the stagger between starts, late refills in the
  self-test's soak (its guard-trip check), the console's wording.
- The runner's byte layer (COBS, the overrun branch), `boot_count`, ping,
  protocol and chip checks.
- Malformed MiniVInst programs, which the emitter refuses by assertion; the
  emulator's density forms, bit and masked branches and SYSCALL.
- The object crate, the loader's hosted syscalls, the disassembler and objdiff:
  parsing and formatting.
- `fw/spike-*`, `fixtures`, `scripts`: measurements and data.

## 8. Plan

Done, in the order of what a failure would cost and how little a test can reach:
the channel, the group of channels, the runner with its client, the windows, the
emitter with the machine it emits for, the linker and the boards, the lab.

Left:
1. Proofs: what the diagnostic and the self-test of `Lab` print, and `SitesReach`
   for objects whose relocation sites are apart.
2. `RmtGroup` with windows of unequal size (from `BlockPlan`).
3. The S3's concurrent self-test, with `RmtGroup` under it.
