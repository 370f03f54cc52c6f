# TLA+ models of the 48 V glue controller

The repository holds the firmware of a four-gun glue controller (ESP32-S3, two cores,
FreeRTOS; `src/src/`) and the PC program that operates it (`src/gui/`). The firmware
opens solenoid valves ("guns") at positions of a moving sheet. A gun that stays open, or
stays on its pick current, destroys a coil or floods the machine, so most of the code is
about closing: in time, by whatever is still running, and for good after a stop.

This directory holds TLA+ modules translated from that code, TLC configurations that
check them on small instances, and TLAPS proofs of the properties that matter most.

| file | what it is |
|------|------------|
| `Dac.tla` | the threshold DAC: targets, transactions, the DAC task, blocking writers (`hw/Dac.cpp`) |
| `GunSequencer.tla` | a drop from `fire()` to the end of its decay, with every handler that closes it (`rt/GunSequencer.cpp`, `hw/RtTimers.cpp`, `hw/Driver.cpp`); EXTENDS `Dac` |
| `PatternScheduler.tla` | sheets, pattern events and the encoder watch (`rt/PatternScheduler.cpp`) over an abstract gun |
| `SheetPlan.tla` | what the scheduler promises: every event of an accepted sheet once and in order |
| `PatternRefinement.tla` | the mapping under which `PatternScheduler` implements `SheetPlan` |
| `MachineControl.tla` | who lets the guns fire: commands, watchdog, fault, safety stop, gun tests, calibration (`rt/Control.cpp`, `comms/CommandDispatcher.cpp`, `rt/TestRunner.cpp`, `sys/Watchdog.cpp`, `sys/Fault.cpp`, `comms/LiveSync.cpp`) |
| `Encoder.tla` | the pulse count and the photocell (`hw/Encoder.cpp`) |
| `ConfigBuffer.tla` | the two configuration buffers under readers without a lock (`config/Config.cpp`) |
| `LiveSync.tla` | one setting as the controller, the PC and a web page see it (`comms/Events.cpp`, `comms/LiveSync.cpp`, `net/`, `gui/app/state.py`) |
| `ProgramFormat.tla` | what the editor accepts and what the loader accepts, and what a file keeps |
| `ProgramStore.tla` | programs on flash over power cuts (`storage/ProgramStore.cpp`) |
| `ProgramMap.tla` | what the store promises: a map from ids to configurations |
| `MC*.tla`, `*.cfg` | model values and bounds for TLC |
| `*Proofs.tla` | theorems about the module of that name, and their proofs |

Times in the sequencer are in units of its supervisor period (50 us); a "step" is one
critical section, one I2C transaction phase or one flag access.

## 1. Inventory

### Gun sequencer -- `rt/GunSequencer.cpp`, with `hw/RtTimers.cpp`, `hw/Driver.cpp`
- *State.* Per gun a phase (Idle, Peak, Hold), the deadline, flags `arming`, `holdOk`,
  `decaying`, the decay's stamps and counters, a trip streak; the pins IN1 and MUX and the
  peak interrupt; one close alarm for all guns; the supervisor tick and its counter.
- *Operations.* `fire()` (two critical sections with a blocking DAC write between them),
  `peakIsr`, `onCloseAlarm`, `onSupervisorTick` (walks the guns), `checkerCb` on the other
  core (walks the guns, restarts a stopped tick), `abort`/`abortAll`/`closeIfDrop`,
  `onConfigApplied`, `onActivate`.
- *Interactions.* Calls the DAC; is called by the pattern task, the test timers, and every
  path that stops the machine; reads `g_sys` flags that other tasks store; `killAll()`
  changes its pins without its lock.
- *Hard.* Two cores, five interrupt sources and three tasks; `fire()` sleeps with nothing
  locked; three independent closers race; hardware that may lose an alarm or stop a timer.
- *Correct when* an open gun is always going to be closed, within stated bounds, by each
  backstop alone; no output is driven on a gun that nobody will close; a coil leaves its
  pick current; reverse drive ends; a safety stop leaves everything closed.

### Threshold DAC -- `hw/Dac.cpp`
- *State.* The target code per channel (`s_shadow`), the code of the last transaction that
  succeeded (`s_written`), the converter's own outputs, the I2C mutex, a task notification.
- *Operations.* `setTarget`/`kick` (from interrupts too), `dacTask` with retries,
  `blockingSetCode`, `writePending` over Fast Write or Multi Write frames, `isApplied`.
- *Hard.* Targets change during a transaction; a transaction may fail half-way; a blocking
  writer decides from `s_written` without the mutex.
- *Correct when* no wake-up is lost, every target is written in the end, and what is
  recorded as written is on the chip.

### Pattern scheduler -- `rt/PatternScheduler.cpp`
- *State.* A ring of four sheets per gun (edge pulse, element, dot, `lineOpen`), the line
  the task holds open (`s_lineDrop`, `s_linePaused`), the encoder watch that the supervisor
  tick compares (`duePulse`, `lineEndPulse`, `lineDrop`), the pattern last seen.
- *Operations.* the photocell interrupt (new sheet), `patternTask` (stop detection, pattern
  edits, per gun: due events, speed gate), the tick hook, `abortAll`.
- *Interactions.* Fires and closes drops by id through the sequencer; reads the published
  configuration at every use; commands on the other core flush its queues.
- *Hard.* The task works on a copy of the head sheet while other contexts flush the ring;
  the configuration may be republished at any point of a round; a line is closed by task,
  tick, ceiling or abort, whichever comes first; pulse counts wrap.
- *Correct when* each sheet's events run once, in order and never early; a line that is open
  is closed at its end even if the task is late; nothing is glued below the speed limit;
  nothing in flight survives a stop.

### Encoder and photocell -- `hw/Encoder.cpp`
- *State.* A 16-bit hardware counter per encoder, a 32-bit accumulator that an overflow
  interrupt advances, the stamp of the last photocell edge that was taken.
- *Hard.* The count is read in two parts while counter and interrupt go on; an edge inside
  the debounce time is ignored for good, whatever level it leaves.
- *Correct when* a reading is one the counter had, and the scheduler knows the level.

### Machine control -- `rt/Control.cpp`, `comms/CommandDispatcher.cpp`, `rt/TestRunner.cpp`, `sys/Watchdog.cpp`, `sys/Fault.cpp`, `comms/LiveSync.cpp`
- *State.* `active`, `fault`, `calibrating`, `lastCmdMs`; the watchdog's latch; a test mode
  per gun with two timers; the calibration state machine with its hand-over to Core 0.
- *Operations.* the commands (`set_active`, `set_config`, `set_pattern`, `calib_arm`,
  `calib_cancel`, `test_open`, `test_close`, `sw_trigger`, ...) under the edit lock; the watchdog task, the
  fault interrupt, esp_timer callbacks and the sequencer's safety stop outside of it.
- *Hard.* Each stop is a list of calls that others interleave with; a start races a fault; a
  calibration result may be late.
- *Correct when* tests and production exclude each other, every stop ends with all guns
  closed, a fault is not undone by a start that began before it, calibration restores the
  state it found.

### Configuration -- `config/Config.cpp`
Two buffers, an index and a generation. Correct when a reader never sees a buffer that is
being edited, and an edit that is rejected leaves no trace.

### Program store -- `storage/ProgramStore.cpp`
An index file and a file per program, written through temporary files; a dirty flag with an
autosave delay. Correct when a power loss between any two file operations leaves every
saved program, or its predecessor, readable.

### Events and front ends -- `comms/Events.cpp`, `comms/UartJson.cpp`, `net/SoftAP.cpp`, `net/WebPage.h`, `sys/Status.cpp`
A queue of 32 events that drops what does not fit, with a staging slot per snapshot kind; line
assembly, HTTP routes and periodic status. Correct when what the PC shows converges to what
the controller has.

### PC program -- `gui/`
A serial link with reconnection and keep-alive, a state cache, the screens. Its `app/`
modules keep state worth modelling; its `ui/` modules are widgets.

## 2. Plan

Done, in this order: `Dac` and `GunSequencer` with their proofs (the last line of defence
comes first); `PatternScheduler` over an abstract gun, with `SheetPlan` as its abstract
specification; `MachineControl` over an abstract gun; `ProgramStore` with `ProgramFormat`
and `ProgramMap`; `Encoder`, `ConfigBuffer` and `LiveSync`, checked together with `Dac` in
`MCPeriphery` since they share no state.

Theorems about all of them (section 6): first type correctness, then for each module the inductive
invariant behind the properties its runs check, last the refinements of `ProgramMap` and of `SheetPlan`. Open: what
section 7 lists as model-checked only.

## 3. How the models correspond to the code

### `Dac`
`shadow`, `written` are `s_shadow`, `s_written`; `chip` is what the converter outputs. It
starts at the safe code, which `init()` writes to every channel; a converter that does not answer (`chipReady`
false) keeps what its EEPROM gave it, which the model shows as the safe code too, since nothing reads or
changes it then. `bus` is the transaction in progress: its owner,
the channels it was built for (`mask`), those whose bytes were latched (`sent`), the codes
copied at its start (`snap`), its age. `WriteBegin`, `WriteLatch`, `WriteOk`, `WriteFail` are
the phases of `writePending()` that interrupts can fall between; `Carried` says which
channels a frame carries (Fast Write, from three pending channels on, carries all). `dacPc` walks
through `dacTask`: evaluate, wait with a 1 ms retry or for a notification, write.
`BlockingBegin/SetBlocking...` are `blockingSetCode()` with its three attempts. It tests
`isApplied()` before it waits for the mutex (`hw/Dac.cpp:143`), the model when it gets it (`MayWrite`): a caller
whose code another writer confirmed meanwhile then writes nothing, where the code writes what other channels still
want and returns the same. The EEPROM programming at start-up, voltages and error messages are left out.

### `GunSequencer`
One critical section is one action; `lock`, `cursor` and `closed` are the program counter of
the two walks over the guns, `onSupervisorTick` and `checkerCb`, which are split per gun so
that unlocked code (`killAll()`, flag stores, DAC phases) can fall between two guns. All
deadlines are kept relative to now (`left`, `alarm`, the `*Age` variables), so `Pass` is the
only action in which time goes on; it waits for interrupts that are due, as the
hardware does, up to `AlarmSlack`. A `fire()` is `FireBegin` (first section),
`FireCheck`, `FireWritten` (DAC), `FireOpen` or `FireRefused` (second section). `FireBegin` holds the test
of `mayFire()` that precedes the first section (`rt/GunSequencer.cpp:483`) as well: a stop that falls between
the two leaves `arming` set on a gun that the second section, which tests `mayFire()` again, refuses to open.
`Inputs` and `Faults` select what the environment may do in a run.

Abstractions: a DAC code is a model value; `setTarget` and its `kick` are one step (the only
step that can fall between them is another target); ages saturate just past the limit they
are compared with; the trip streak saturates at `TripStreakStop`; diagnostics, event
texts and counters for display are left out. `TaskLate` is the time a task may be off the
CPU between reading the clock and taking the lock in `abort()` and its siblings; the
checker's own lateness is `CheckerLate`.

### `PatternScheduler`
`ring[g]` are the sheets of `s_q[g]`, `watch[g]` is `s_watch[g]`, `lineDrop`, `linePaused`
and `seen` are `s_lineDrop`, `s_linePaused` and `s_seenPattern`. `edited` says that
`s_seenGeneration` differs from the generation published last. `active` stands for
`g_sys.active && !g_sys.fault`, the test every reader makes.

`patternTask` is one process. `task.pc` says where it is, the other fields of `task` are the
locals that live from one step to the next; `task.peek` is the copy of the head sheet that
`serviceGun` works on outside of the lock. A step lies between two accesses to shared state:

| `task.pc` | code | actions |
|-----------|------|---------|
| `wait`, `reset` | the loop of `patternTask`, `resetGun` after a stop | `RoundIdle`, `RoundStopped`, `RoundActive`, `StopReset` |
| `edits` | `checkPatternEdits`, one gun per step | `CheckEdit` |
| `head`, `event` | `serviceGun`: copy of the head, `nextEventPulse`, popping | `HeadSheet`, `HeadNone`, `SheetDone`, `NotDue`, `DropDue`, `LineTooSlow`, `LineEndDue` |
| `fire`, `firing`, `watch` | `seq::fire` in its two critical sections, `openLine` | `FireBegin`, `FireOpens`, `FireRefused`, `WatchLineEnd` |
| `advance` | `advanceInstance`, `writeBackHead` | `Advance` |
| `due`, `gate` | `watchDue`, the lines speed gate | `WatchDue`, `GateCloses`, `GatePasses` |

The tick hook is `TickBegin` (its own lock) and a `TickClose` per gun (the sequencer's lock).
It interrupts the task's core, so the task takes no step in between (`At`); other
contexts do. `PhotocellEdge` is the interrupt, `Publish` and `ApplyScalars` are a
configuration edit, and a stop is the list of calls its callers make: `StopFlush`
(`pattern::abortAll`), `StopAbort` (`seq::abortAll`), `StopStore` (the flag, last).
`FaultStop` is the fault interrupt, which leaves the queues alone.

The gun is abstract: `fire()` may be refused in either section, and an open gun may close at any
moment (`GunCloses`: end of on-time, ceiling of a line, a trip). Three ghosts carry no information
of the program: `age` of a sheet and `left` of an open line count pulses without wrapping, `ticked`
says that the tick hook ran since the last pulse. A drop id is taken from the ids nothing refers to
any more (`FreshDrop`): the code counts 32 bits up and only compares for equality. The verdict of
the speed gate ("slow", "unsure" within its hysteresis, "fast") is an input of each round. Shapes
and offsets are in pulses: `pulses_per_mm` is fixed while sheets are in flight. The code multiplies
with it at every use and `sameGeometry` compares millimetres, so a new `pulses_per_mm` moves the
events still to come of a sheet in flight without a reset. When an edit leaves a sheet's element
beyond the new pattern, the array still holds elements of older ones: `LineEnds` is the set of ends
it may read there.

`Bursts = FALSE` lets at most one command (start, stop, publication) fall between two rounds
of the task, which comes every millisecond. Without that bound `RestartsEmpty` fails, see
section 8.

### `SheetPlan` and `PatternRefinement`
`plan[g]` is the sequence of the sheets of gun g, each the set of its events still to come; `asked[g]` is the
event in progress and `pattern[g]` what a new sheet asks for. An event leaves the plan only by becoming `asked`,
the first in the order of the pattern before all others, and a sheet leaves it only when nothing of it is left: a
scheduler that skips, repeats or swaps events does not implement it. The mapping computes
`pattern` from the whole pattern at once (`AllEvents`), independently of the incremental
`nextEventPulse`/`advanceInstance`, and `plan` from where each sheet of the ring stands.

`calm` is false from a stop or an edit until the task has dealt with it; the specification
promises nothing about steps that begin or end there, and resumes with what is then in the
ring. "Has dealt with it" is `Undisturbed`: the published pattern is the one the task has seen, and so is the one
it is comparing, if it is. The second half matters with two guns: an edit may be undone while the task
compares the first gun's pattern, and the second gun's sheets are dropped all the same.

### `MachineControl`
`sys` is `g_sys`, `test[g]` is `s_t[g]`, `photo` is `s_calib`, `resume` is
`s_calibResume`. A process (the commands, the network task's `service()`, watchdog, fault interrupt,
`esp_timer`, photocell interrupt) is the list of calls it has still to make: `todo[p]`. `Receive`
puts the list of a command there, every call is an action that may put further calls in front
(`Leave` adds the calls of `onSetActive(true)`). A call is one store or one critical section, so
anything may fall between two of them. One call stands for three stores: `Cancel` puts the photocell
at rest, drops the measurement and leaves the calibration (`rt/PatternScheduler.cpp:574-577`,
`rt/Control.cpp:41`) in one step. Of the others only the photocell interrupt and the pattern task's
hand-over can fall between these stores, `Apply` waits for the edit lock; a result that comes
through between them is of an earlier arming for the model, too. A `test_open` for all guns is left
out: it makes the calls of `test_open` for one gun after the other. The edit lock is the call
`lock`. A calibration result carries the place where it is (`edge`, `s_calibDone`, `s_calibPending`,
`taken`) and whether it belongs to the present arming; that is a ghost, as is `seen`.

The gun is `shut`, `arming`, open for a `test` or for a `sheet`: the sequencer's two critical
sections of `fire()` with their checks, and `abort`. Ghosts name the situations that the code
leaves open and section 8 describes: `seen.crossed` (the watchdog's stop crossed the opening
of a test), `seen.fed` (a command during the watchdog's pass), `seen.stale` (a result of an
earlier arming was applied). `seen.alone` counts watchdog passes of a running
machine without contact, `seen.halted` that nothing has asked for a start since the last stop.

### `Encoder`, `ConfigBuffer`, `LiveSync`
`Encoder`: `Pulse` is the hardware, which starts again at the limit by itself; `OverflowAdds` and
`OverflowClears` are the two halves of `pcntOverflowIsr()`. A reader takes accumulator and
counter in either order, since they are two operands of one `+`. `unsure` is a ghost that
remembers a level change within the debounce time, which nobody is told of.

`ConfigBuffer`: one action per field copied, set or read. `late` says that a second edit
began while a reader held its pointer: that reader reads a buffer under construction.

`LiveSync`: one setting. `uart` and `wire` are the two directions of the line, `slot` is
`s_evConfig`: the emitter sends what is in the slot when it sends, not what was there when
the event was posted. `http` are requests in the order made; answers come in any order.
`page.sync` follows `syncFromController()` (`asked`, or `outdated` if the revision moved
again while it read). `linkSeen.apart` says that an edit of the PC and a change made elsewhere
passed each other or an event was dropped, until one snapshot is on its way alone again.

### `ProgramFormat`, `ProgramStore`, `ProgramMap`
`SettingsAccepted` and `PatternAccepted` are the checks of `set_config` and `set_pattern`, `Parses`
those of the loader, `Written` and `Parsed` the two conversions. `ASSUME FileKeepsEdits` in
`MCProgramStore` compares them over some 300 drafts around every boundary: a program
that loads is the one that was saved, and `Lost` is exactly what is accepted and cannot be loaded.

Numbers are integers: a float is taken to survive its JSON text, although the JSON library (not in `src/`) rounds
its last digits. Two currents closer together than that could be equal in the file, which the loader refuses.

`ProgramStore`: `job` is the operation in progress and the file it replaces, one step per flash
operation of `writeFileAtomic()`; `Finish` is what the operation does next. Each of the three may be refused
(`FlashMayFail`): `TempFails` and `RenameFails` make the function return false, and `GivesUp` is what its caller
does then; `RemoveFails` goes on, since nobody asks for the result of `SPIFFS.remove`. A rename that is
refused after the removal leaves no file, as a power cut there does. Mounting and reading are taken to succeed. When
the list is empty, `init()` loads the program that it has just written from the defaults; that load is left out
because it changes nothing. `ram.listed` is
`s_index.activeId`, `ram.active` is `s_activeId`: two variables in the code too. `PowerCut`
falls between any two steps. `torn` and `erased` are ghosts: files that were removed and whose successor was not
renamed, by a power cut or a refusal, and programs deleted on purpose.

The mapping to `ProgramMap` shows a program while the list in memory or the index on flash names it (`Shown`), one
that is between its two names with its old content (`Content`), and compares configurations as a file would hold
them. When an edit comes to count as saved, or a program is loaded, others may vanish in the same step (`Fewer`):
those that only the index of before still named.

## 4. What the runs check

| run | question | result |
|-----|----------|--------|
| `seq_backstops` | two tasks fire one gun, alarms are lost, DAC writes fail, `killAll()` strikes between any two steps: is the supervisor enough? | pick current at most `PickLimit + TickPeriod`, reverse drive at most `DecayMax + DecayLowTicks * TickPeriod`; no output driven on a gun nobody closes |
| `seq_checker` | alarm lost and tick stopped, the checker up to 3 units late | overrun at most `CheckerGrace + CheckerPeriod + CheckerLate`; the tick is restarted only if it had stopped |
| `seq_two_guns` | two overlapping drops on one alarm; a safety stop caused by one of them | the alarm covers both, the stop leaves both closed |
| `seq_stray` | IN1 disturbed from outside, alarm lost, tick may stop | IN1 goes low in the end; a streak of trips stops the machine |
| `seq_thresholds` | configurations, aborts and `killAll()` during a drop | a threshold missing on the converter is on its way; what `s_written` says is on the chip |
| `seq_open_during_write` | is the pick threshold on the chip before IN1 rises? | **no**: not while the DAC task's own transaction is on the bus |
| `pattern_stops` | stops, faults, tests, refused drops, slow conveyor at every step of the task | a line ends at its pulse; below the speed limit and after a stop no line is open; only lines are closed by position; the queue drains |
| `pattern_edits` | pattern and offset edited at every step | `SheetPlan` is implemented, no event is early, the next event is in the watch while the task sleeps |
| `machine` | commands, watchdog, fault, safety stop, test timers, calibration, call by call | production, calibration and tests exclude each other; every test has its deadline; stops hold; silence stops the machine, and only silence does; calibration neither hangs nor swallows a sheet of production |
| `store` | power cuts between any two flash operations, of which each may be refused | `ProgramMap` is implemented; list, active program and files agree, but for a file that was removed and its successor not renamed; edits get saved |
| `store_reload` | is the active program restored at boot? | **no**: not if it holds a pattern that `set_pattern` accepts and the loader refuses |
| `periphery` | six parts, one per behaviour | DAC: every requested threshold is written on a bus that fails now and then. Counter: a reading is current, or off by a limit during a wrap. Photocell: the scheduler knows the level outside the debounce time. Buffers: one edit disturbs no reader, rejected edits leave nothing. PC and web page: at rest they show what runs, but for what section 8 says |

The two violations are recorded as findings with the line of the code and of the text it contradicts.

**Bounds.** Sequencer times are in supervisor periods. The values of `PickLimit`,
`DecayMax`, the graces and on-times are scaled down to 1 to 3, keeping their order
(a drop may be shorter than the pick limit, of the same length, or longer), so each
comparison is seen true, false and on its boundary; the theorems hold for every value.
`TripStreakStop` is 1 or 2: with 2 the streak is seen below and at its limit. One gun suffices where guns
share nothing; `seq_two_guns` is for what they share, the alarm and the stop. Three
codes (safe, pick, hold) suffice as codes are only compared; the second version adds one
more of each. `WriteAttempts` is 2 in `periphery` (a first try, a retry) and 1 where the DAC
only has to fail or not. `periphery` has one channel: with several, a transaction carries
other channels along and liveness would need fairness of whole transactions, which the
code does not give.

In the pattern runs `PulseMod` is 8, so that the counter wraps within one sheet, and
`AgeMax + 2 * LagMax <= PulseMod / 2` is the assumption under which the signed differences of the
code are right: the end of a line that the task opens may lie a whole pattern ahead, or behind by as
much as a sheet moves in two late rounds. Two sheets fit in the queue of two (the code has four), so that it is empty,
partly and completely filled; a third meets it full. The patterns are a line and two dots on
neighbouring pulses, with offset 0 and 1: each is replaced by the other and by itself with another
offset. `LagMax` 1 lets the task be a pulse late, so that the tick hook and the task both
find the end of a line. One gun: guns share nothing but `enc`, `active` and the
notification, and the task serves them one after the other.

`machine` has one gun with a line test and one with a dots test. `Overlap` 2: two handlers are in
progress at a time, on top of the steps that need no handler (safety stop, timers,
hand-over of a result, guns that close); a third one would need three stops within some tens of
microseconds. The watchdog trips after 2 passes (20 in the code). A behaviour takes its inputs from
one of five scenarios (`MCMachineControl`), each a set of inputs whose
interplay is at stake; all of them at once exceed a run. `SlowCommands = FALSE`: no command waits
for the edit lock longer than `TIMEOUT_MS`; section 8 says what happens otherwise.

`store` has two programs (one active, one other; the list is empty, partly filled and full) and
three configurations, one of which a file cannot bring back; two more are drafts that the editor
refuses. `periphery`: the counter wraps at 3 and runs to 7 pulses, two wraps, with the
interrupt up to 1 pulse late; two fields with three values and the constraint between hold and pick
current; two good settings and a refused one, a queue of 2, two messages under way in each
direction, revisions up to 3.

## 5. Fairness

- *Sequencer* (`FairSpec`): weak fairness of the interrupt handlers, the two walks and the DAC,
  which are hardware events and, on the bare cores, are never starved; strong fairness of
  `Pass`, as time is delayed in the model by interrupts that are due but goes on in the world.
  No fairness of `fire()`, of commands or of the tasks that issue them. `tickStall` may still stop the
  tick for good: then only the checker restarts it.
- *DAC* (`DacFairness`): weak fairness of the task's evaluation and wake-up and of the return of
  a blocking call (threads that can run do run); strong fairness of the steps of a transaction,
  since the two sides compete for the mutex, and of `WriteOk`: the bus may fail any number
  of times but not for ever. Without that the code promises nothing either: it retries.
- *Scheduler* (`FairSpec`): weak fairness of the task, the tick hook and the remaining calls of a
  stop that has begun; strong fairness of `Move`: the conveyor keeps moving. `SheetsLeave`
  is a promise under a moving conveyor only; standing still, sheets wait, which is right.
  `Move` asks that the tick ran since the last pulse and that the task's reading is not
  older than `LagMax`: both are relations of speed (a pulse every 50 us would be beyond the
  machine) that the model states as guards.
- *Store* (`FairSpec`): the controller is switched on again, an operation that has begun goes on;
  strong fairness of the autosave, whose turn comes every round of the network task although
  operators keep it from the lock, and of its temporary file and its renaming: the flash does not refuse them for ever.
- *Link* (`LinkFairness`): weak fairness of the receiving task, the emitter and the PC's
  reader, which are loops that block on nothing but their input.

## 6. What is proved

Every theorem holds for every value of the constants: any number of guns, callers, readers,
programs, codes and versions, any length of the queues, any time limits. The assumptions are the named
ones in the modules: constants are numbers and sets of the right kind (`DacAssumption`,
`SequencerAssumption`, `EncoderAssumption`, `LinkAssumption`, `MachineAssumption`,
`SchedulerAssumption`, `FormatAssumption`, `StoreAssumption`, `DraftAssumption`); `TimingAssumption`
(`TickPeriod < TickStall`: a running tick is not taken for a stopped one); `ShapeAssumption` (what the
parser accepts: an element does not end before it starts, the spacing of dots is positive, and patterns are no
longer than `AgeMax`; positions are whole pulses in the model, so a positive spacing is a pulse at least) and
`WindowAssumption` (the longest pattern and two late rounds fit in half the pulse counter: 2^31 pulses).

*`DacProofs`.* `DacInv` is the conjunction of `DacTypeOK`, `WriterInv` (who owns the bus
and where the owner stands) and `ChipInv` (on a bus that does not fail, `written` and
`chip` agree except where a transaction has latched its bytes and not finished, and there
`chip` holds the codes copied at its start). From it: `DacTypeCorrect`, `ConfirmedCorrect`,
`AppliedCorrect`.

*`GunSequencerProofs`*, each an invariant that is inductive relative to the one before:

1. `TypeInv` = `TypeOK` and `DacInv`; one lemma per handler (`TypeCorrect`).
2. `OutputInv` relates pins to phases: IN1 high only with an open drop that is not arming, MUX
   only in a drop or decay, the peak interrupt only in Peak (`In1Correct`,
   `IsolationCorrect`, `PeakIrqCorrect`). It is inductive because every handler changes pin
   and phase in one critical section, and `killAll()` only lowers pins.
3. `AlarmCoversOpenGuns` is inductive as it stands: `rearmAlarm` takes the minimum over all guns, and
   the walks cannot leave an alarm behind a gun they have passed (`AlarmCorrect`).
4. `SupInv` bounds what happens between two visits of the supervisor to a gun. It needs
   `SupAge(g)`, the time since the supervisor was last at gun g (a walk under way has been
   at some guns and not at others); `Timely(g)` says that every deadline of g
   is exceeded by no more than that age (`PickLimitCorrect`, the first half of `ClosedCorrect`).
5. `RestartInv` relates the age of the tick to what the checker saw of its counter
   (`RestartCorrect`).
6. `ChkInv` is the counterpart of 4 for the checker (the second half of `ClosedCorrect`). The two
   halves do not use each other: each closer bounds the drop alone.
7. `DecayInv`, on the clock of 4: a decay is past its limit by no more than the low readings in a row
   so far, a tick each, and the time since the last visit (`DecayCorrect`). Hypothesis
   `TaskLate < DecayMax`: `abort()` starts a decay with its own, older reading of the clock, and the
   decay must not be over before it begins (5 ms in the code).
8. `StreakSteps`: while a walk holds the lock, a streak changes only with a trip (`Tripped`) or a confirmed
   hold threshold. Hence the two action properties about the sequencer's own stop (`SafetyStopCorrect`,
   `TripStreakCorrect`).
9. `WakeInv`: a caller's transaction carries the current targets unless the task is notified or waits for
   the bus (`CopyIsCurrent`), and while the task sleeps the record is up to date but for what the transaction
   carries or a `fire()` has yet to write (`Settled`). From it and `ChipInv` `ThresholdCorrect`, with the hypothesis
   `OneCaller`: one task fires. It is false with two, see section 8.

*`PatternSchedulerProofs`*, for any patterns, edits, guns and queue lengths, and a counter of any width that
wraps. It starts with the arithmetic of that counter (`DiffExact`: the signed difference is
the true distance as long as that is less than half the counter). Then, in layers:

1. `Types` (`SchedulerTypeCorrect`); stronger than `TypeOK` in what a sheet and the task's copy of it may hold.
2. `LinesKnown`: an open line is the drop that the task remembers, and the id of a dot or a test is remembered
   nowhere. Hence closing by id never hits another drop (`LinesOnlyCorrect`).
3. `Halted`: a task that has seen a stop has shut every gun it has passed (`HaltCorrect`). `Orderly`: with
   commands one at a time the queues of those guns are empty, too (`RestartCorrect`).
4. `AllGated`, per gun: an open line has an open sheet at the head of the queue, in the task's copy or in the
   queue, the copy is that head, and a gun the round has passed with a shut gate has no line. The
   difficulty is an edit that replaces the pattern under a sheet: until the task has dealt with it a
   line may be open that no sheet knows of. `Doubt` names exactly that time, and the invariant says
   that a shut gate ends it (`GateCorrect`).
5. `EventsWatched`: while nothing has been notified, each gun that the round has passed has its next event in the
   watch, or the tick hook has taken it, and then the task is notified (`DueCorrect`).
6. `AllAged`: where a sheet is, its age and the counter agree, and the task's reading of the encoder is at
   most `LagMax` old (`EarlyCorrect`).
7. `AllPunctual`: the sheets of a queue lie one behind the other, and none is further from its edge than the
   longest pattern plus what the encoder moved since the last round that looked at the gun. It is the
   reason why the end of a line, when it is handed to the tick hook, is on the right side of the encoder.
   `AllPlanned`: from then on the hook watches for the pulse that is as far ahead as planned, has yet to run at
   that pulse, or is about to close the line (`LineEndCorrect`).
8. `AllFitting`: outside an edit every sheet of a queue stands at an event of its gun's pattern or behind the last
   (`SheetsFit`), what the task asks for is the event at which its copy stands (`AsksNext`), and what a stop or an
   edit has passed holds sheets nothing has been performed of (`StopsRenew`, `EditsRenew`), which fit
   any pattern. Then `nextEventPulse` finds the first of the events to come (`NextPlanned`),
   `advanceInstance` takes away just that one (`AdvancedPlan`) and a sheet is popped when none is left (`DonePlan`):
   each step of the scheduler is one of `SheetPlan` or a stutter (`PlanCorrect`).

Four of the theorems say `~Bursts`: at most one command falls between two rounds of the task. They are false
without, and TLC shows it: a stop and a start between two rounds leave sheets queued (`RestartsEmpty`), which may
stand there until the counter has wrapped under them (`LineEndsOnTime`); and of two edits between two rounds the
second may restore the geometry of the first, so that the task never learns that a line of its was
forgotten (`NoLineBehindGate`) or that a sheet was advanced by the pattern in between (`PlanSpec`).

*`MachineControlProofs`* (`MachineInvariant`). In this module a handler is the list of the calls it has
still to make (`todo`), and the calls of six processes interleave, so the argument is about what is
left. `ShapeInv` says which calls a list may hold: they come in the order of the handlers (`Follow`),
some never come without others (`Pairs`: a "setActive" follows every cleared fault, a "lead" every
"calibrate"), and two processes never hold the edit lock (`LockInv`). On top of it, one conjunct
per promise:

- `ModeInv`: whoever will set `active`, `calibrating` or a test's mode still has the calls before it
  that take the other modes away (`ModesCorrect`);
- `HaltInv`: after a stop that came in time nothing that would start the machine is left in any list, and a
  calibration that would resume production meets a fault (`StopsCorrect`);
- `TestInv`, per gun `OpenOf`, `DeadlineOf`, `ClosedOf`: a mode without a timer has a process about to
  start one, a timer without a mode one about to stop it, an open test drop without a mode one
  about to close it, as long as the watchdog did not cross an opening (`DeadlinesCorrect`,
  `ModesCorrect`);
- `CalibInv`: where a result is, while a calibration lasts and after it (`CalibrationCorrect`,
  `SheetsCorrect`);
- `QuietInv`: what the watchdog read of the clock and of the last command, between its two
  reads (`TripsCorrect`, an action property);
- `UnattendedInv`: who can still start the machine in silence. Past `TIMEOUT_MS` no command is under way
  (`IdleInv`), so only the hand-over of a calibration result may start it (`RestoreInv`). A pass of the
  watchdog that reads the clock after that decides to stop (`DecideInv`, `PassInv`), unless it has tripped before, and then
  nobody is left to start what it stopped (`TripInv`); between the timeout and that pass
  lies one pass that read too early (`AloneInv`, `UnattendedCorrect`). Hypothesis `PromptCommands`: no command waits
  longer than `TIMEOUT_MS` for the edit lock (section 8 says what happens otherwise), and `TIMEOUT_MS` is at least
  two passes of the watchdog (20 in the code; TLC finds `NeverRunsUnattended` violated with 0 and 1).

*`ProgramStoreProofs`.* `FileKeepsEdits` is about the formats alone: for *every* configuration that
edits can leave, with any number of guns, elements and any numbers in them, the file brings it back as
it was, and the loader takes it unless it is `Lost`. `StoreInv` is an invariant over
the flash operations of every operation of the store, each of which may be refused, with a power cut after any of
them: `ProgramJob` and `IndexJob` say what an operation in progress still carries, `ListNamesFiles` that the list in
memory names files that exist but for those in `torn` and `erased` (`StoreTypeCorrect`, `ListsCorrect`).
`StoreKeepsPromise` is the refinement of `ProgramMap`: each flash operation is a step of the
map (a program saved, forgotten or loaded) or a stutter; the content of a file that is being replaced
is the old one until the rename, and a power cut or a refused rename in between is a program lost, never a
program changed.

*`LiveSyncProofs`.* `LinkInv`: `PcInv` says that the last message on its way to the PC, wherever it is (line,
event queue, staging slot, edit not yet executed), carries what runs; `PageInv` orders the
answers on their way to the page by revision and says which of them it will believe. At rest
both collapse to `ViewsAgree` (`LinkTypeCorrect`, `ViewsCorrect`).

*`EncoderProofs`.* `CountInv` adds to `CountIsTrue` what a reading in progress knows
(`CurrentSoFar`, `NearSoFar`) and that an overflow interrupt is over before the counter is beyond
`Late` (`EncoderTypeCorrect`, `CountCorrect`). `LevelInv` adds that an edge that is due and
later than the debounce time will be taken (`LevelCorrect`).

*`ConfigBufferProofs`.* `BufInv`: the fields not yet copied, copied and set (`CopyInv`), and
that a reader that is not late points to a buffer nobody writes (`ReaderInv`)
(`BufTypeCorrect`, `EditsCorrect`).

The four type theorems of DAC, encoder, buffer and link are the conjuncts of `PeripheryTypeOK`. TLC
checked every one of these formulas as an invariant of small instances before its proof.

## 7. What is only model-checked, and what is not modelled

*Only model-checked:* all liveness (`KickedTargetIsWritten`, `StrayIn1GoesLow`, `SheetsLeave`,
`EditsAreSaved`, `ChangesReachPc`), which is out of the prover's reach.

*Not modelled:* `sys/Status.cpp` and `main.cpp` (a periodic report; the order of initialisation), the
widgets of the PC program, `tools/check_isr_iram.py` (no state). Of the front ends the assembly of
lines and the routes without a revision. Of the PC program the reconnection and the keep-alive
thread, whose effect is the `ping` of `MachineControl`. Within the modelled parts: event texts and display
counters, voltages and the EEPROM of the DAC, register set-up of the timers, the estimate of the
conveyor's speed, the sheet counter, `sw_trigger` (a photocell edge by software), a switch
of the encoder in the middle of a sheet, a change of `pulses_per_mm` under a sheet in flight, a `test_open` for all
guns, program names, a flash file system that does not mount or cannot be read.

## 8. Known behaviour

Seen while translating. The properties named here stand in their modules but in no run, or hold in
their run because of the bound or exemption given; the constants say how to see it.

*Sequencer and scheduler.*

- A configuration applied while a drop waits for its hold threshold trips `pick_timeout` on a healthy
  drop (`rt/GunSequencer.cpp:325`; the header names two causes, `rt/GunSequencer.h:32-33`):
  `PickTimeoutHasItsCause`, with `seq_thresholds`' constants and inputs `active`, `config`.
- A stop and a start between two rounds of the pattern task leave a sheet of the first run queued
  (`rt/PatternScheduler.cpp:546`): `RestartsEmpty`, with `pattern_stops`' constants,
  `Bursts = TRUE` and the input `stop`.
- A transaction that fails half-way may have changed a channel: `s_written` is then stale
  (`hw/Dac.cpp:120`, against `hw/Dac.h:19`), and a hold threshold may be confirmed from it
  (`rt/GunSequencer.cpp:322`). The proofs about confirmed codes assume `~BusMayFail`.
- `killAll()` lowers IN1 and leaves the phase: a gun counts as open until its next handler
  (the comment at `rt/GunSequencer.cpp:43-44`).
- `abort()` reads the clock before it takes the lock, so the alarm it sets for other guns may be
  late by the time the task was off the CPU: the `TaskLate` in `AlarmCoversOpenGuns`.
- With two firing tasks, a `fire()` that sleeps through another one's drop may open against the pick
  code of that other configuration.
- If one `fire()` is still sending its pick code and a second one of the same gun asks for the code that was
  confirmed before (the first was aborted, and the configuration went back and forth), the second is
  told that its code is applied, and the first one's code stays on the chip with nobody left to write
  (`hw/Dac.cpp:143`): `ThresholdOnItsWay` fails with `seq_thresholds`' constants, two `Callers` and one of
  them in `TestCallers`, and the input `testMode`. `set_active` and the test handlers keep the two apart except
  for what is already in `fire()`.
- A pattern edited while the machine is stopped is noticed in the first active round, which drops a
  sheet that arrived between the start and that round (`rt/PatternScheduler.cpp:451-453`).
- A pattern published in the middle of a round is used with the sheet's old indices until the next
  round (`docs/project_status.md:166-169`).

*Machine control.*

- `dispatch()` feeds the watchdog and then waits for the edit lock. If another editor holds it longer
  than `TIMEOUT_MS`, the watchdog trips on the machine of before and stays tripped; a `set_active:true` that
  comes through afterwards starts a machine nobody is connected to, and the watchdog, still
  tripped, does not stop it (`comms/CommandDispatcher.cpp:275`, `sys/Watchdog.cpp:26`; compare
  `docs/project_status.md:210-213`). `NeverRunsUnattended` fails with `SlowCommands = TRUE`.
- A calibration armed again while a result is on its way takes that result, measured with the old
  length, and leaves the photocell armed: the first sheet of production after it is swallowed
  (`rt/Control.cpp:48-61`; compare `docs/project_status.md:291-292`). `AppliedIsCurrent`; `NoSheetSwallowed`
  exempts it by `seen.stale`.
- A command that comes between the watchdog's two reads makes the unsigned difference huge and
  trips it without silence (`sys/Watchdog.cpp:20-26`): `seen.fed` in `TripsOnSilence`.
- A watchdog stop that crosses the opening of a test may leave its timer without a mode, or its mode
  without a timer, until the next test: `seen.crossed`.
- A fault interrupt between `onSetActive(true)` and the store of `active` leaves the machine active
  with a fault; as every reader tests both flags, nothing moves until the fault is cleared. A
  second fault just before `fault.store(false)` of a start is lost.
- A stop that falls into the end of a calibration, after `fault` or `active` was read, is undone by the
  activation it resumes: `Committed` in `StopsHold`.

*Periphery.*

- A reading of the count during or just after a wrap is off by a limit, 30000 pulses
  (`hw/Encoder.cpp:63-65`), for as long as the interrupt is due.
- An edge within the debounce time is ignored for good and the level is read after it, so a bounce
  can be told as the opposite edge (`hw/Encoder.cpp:76-82`); a change of `photocell_invert` gives no edge.
- A reader overtaken by a publication and a second edit sees that edit before it is checked, rejected
  values included (`config/Config.cpp:27`): `late`.
- A dropped `config` event leaves the PC stale until the next one (`comms/Events.cpp:32`), and a
  change made elsewhere that passes an edit of the PC on the line leaves it showing the older
  snapshot (`comms/LiveSync.cpp:42`; `docs/project_status.md:244` says "keeps them consistent"):
  `PcShowsWhatRuns`, with `periphery`'s constants for `LinkSpec`.
- A field of the web page typed while a re-read is outstanding is overwritten by it (`linkSeen.retyped`).
- If the access point cannot start, the network task ends (`net/SoftAP.cpp:290-294`) and with it the
  autosave and the end of every calibration.

*Program store.*

- Power lost between removal and renaming of the index file leaves no index: all programs are forgotten and
  program 1 is overwritten with the defaults (`storage/ProgramStore.cpp:75-76`, `394-395`): `torn`.
- A rename that the flash refuses after the target was removed loses that program's file, or the index, without any
  power cut (`storage/ProgramStore.cpp:75-76`; the function is named `writeFileAtomic`): `torn`. The list in memory
  still names the program; the next save of it, or of the index, writes the file again.
- `erase()` ignores a refused removal (`storage/ProgramStore.cpp:474`): the file stays, and if the power goes before the
  index is written the program is back.
- A negative minimum speed or photocell offset and a pattern without elements are accepted and saved but
  cannot be loaded (`storage/ProgramStore.cpp:209`, `213`, `272`): `Lost`, `store_reload`.
- Deleting the active program when its successor cannot be loaded leaves the deleted id active
  (`storage/ProgramStore.cpp:481-483`).
- Loading a program within two seconds of an edit discards the edit; saving does not clear the mark
  of an edit, so the autosave writes it once more.
- `load()` reports failure when only the index could not be written, although the configuration runs.
