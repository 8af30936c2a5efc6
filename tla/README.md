# A verified model of klipper-ng

klipper-ng is a printer firmware in C and a host program in Python that drives
it. This directory holds TLA+ models of the parts of both whose correctness
depends on the order of things (interrupts against the main thread, bytes against
the code that moves them, greenlets and processes against each other, a host
against a board that answers late, loses messages or resets), the TLC runs that
check them on small instances, and TLAPS proofs of the results that matter most
for every instance. The repository says of itself that it does not work yet; the
models cover the code that is there, and where a handler cannot be reached yet they
say so.

Paths below are relative to the repository's root. The firmware is under
`src/hal/`, the host under `src/klippy/` and `src/klippy.old/` (from which the
former is being ported; files that both hold alike are named once). Paths in
`PROJECT.json` have one more `src/` in front.

 1. Inventory of the system
 2. Structure of the modules, and what is next
 3. The modules and the code
 4. The runs
 5. What is proved
 6. Disagreements between the code and what is said of it
 7. What is not modelled

## 1. Inventory

### Firmware

The firmware has one main thread, a timer interrupt and (on the AVR) serial
interrupts. `sched_shutdown` is a `longjmp` out of whatever is running, from an
interrupt handler as well as from a command.

| component | state | operations | works with | hard because of |
|---|---|---|---|---|
| Timer list, `sched.c` 26-164 | the linked list `timer_list`, each timer's `waketime`, three timers of its own: `periodic_timer`, `sentinel_timer`, `deleted_timer` | `sched_add_timer`, `sched_del_timer`, `sched_timer_dispatch`, `sched_timer_reset` | every device; the hardware timer, which is told when the first timer changes (`timer_kick`) | a clock that rolls over; a search with no test for the end; one static placeholder that must not be linked twice |
| Timer interrupt, `timer_irq.c` | `timer_repeat_until`, the hardware's next match | `timer_dispatch_many` | timer list; wakes tasks | late timers, timers that repeat at once and starve the tasks, interrupts enabled in the middle |
| Task loop and shutdown, `sched.c` 166-320 | `tasks_status`, the flags of `struct task_wake`, `shutdown_status` | `run_tasks`, `sched_wake_task(s)`, `sched_check_wake`, `sched_shutdown`, `run_shutdown`, `sched_clear_shutdown` | all tasks, all interrupts | a wakeup between the test and the sleep; what a `longjmp` leaves behind |
| Receive buffer, `rxtx_irq.c` 20-180 | `receive_buf`, `receive_pos`, `next_sequence`, `sync_state` | `rx_buffer_add` (interrupt), `rx_find_block`, `rx_run_cmds`, `rx_buffer_clean`, `task_console_rx` | the serial interrupt, the commands, the host | bytes added while others are moved; lost and damaged bytes; eight bit positions in a longer buffer |
| Transmit buffer, `rxtx_irq.c` 182-290 | `transmit_buf`, `transmit_pos`, `transmit_max`, the guard `in_tx` | `tx_buffer_alloc`, `tx_buffer_trigger`, `tx_buffer_next` (interrupt), `task_end_tx` | `send_response`, the transmit interrupt | two threads on two counters without a lock; shutdown between any two steps |
| Linux console, `linux/console.c` | its own `receive_buf`, `receive_pos`, the wake flag | `task_console_rx`, `console_sleep` | pseudo terminal | failing and partial reads; input that is already in the buffer wakes nobody |
| Analog inputs, `cmds_adc.c`, `avr/adc.c` | per input `state`, `value`, limits, `invalid_count`; the one converter and `last_analog_read` | configure, query, timer event, report task, end function | timer list, task loop, converter, host | event against task; several inputs on one converter; a query in the middle of a run |
| AVR hardware timer, `avr/timer.c` | `TCNT1`, `OCR1A`, `OCR1B`, flags, `timer_high`, `wrap_timer` | `timer_read_time`, `timer_kick`, the compare interrupt, `timer_wrap_event`, `timer_reset` | timer list | 32 bit times from 16 bit hardware that compares for equality |
| Base commands, `cmds_base.c` | object table, memory chunks, move queue, `config_crc`, statistics | `oid_alloc`, `alloc_chunk`, `move_alloc`, finalize, reset | every configured object | shutdown between allocating an id and filling it |
| Outputs, `cmds_gpio.c`, `cmds_pwm.c`, `cmds_bitbanging.c` | per output value, end time, default | schedule, update, timer events | timer list | default must come when the host is silent |
| SPI, I2C, debug commands; other drivers; `main.*.c`; tables of boards | registers, constant tables | one blocking transfer each; dispatch tables | - | little that is concurrent |

### Host

A Python program of a main process with a reactor. Its parts are greenlets: one
runs until it pauses in the reactor, and others run meanwhile. It talks to a
board through a queue in C that repeats commands until they are acknowledged; what
the board reports is sent once.

| component | state | operations | works with | hard because of |
|---|---|---|---|---|
| Reactor, `klippy/reactor.py`, `printer.py` 122-156 | two lists of timers in two processes, two pipes, the cached `_next_timer` | register, update, cancel, check, callbacks | everything that waits | a timer is named by its place in two lists while messages are under way |
| Lines, `klippy/commander.py` 423-546 | pending lines, `is_processing_data`, `need_ack`, the registered descriptor | read, run, answer, stop reading | every command; scripts of other greenlets | a handler that pauses lets input come in; one `need_ack` for all scripts |
| Commands, `commander.py` 25-175 | the tree of commands | add, remove, call, complete | every part | names of several words, with and without an ident |
| Print jobs: `virtual_sdcard`, `pause_resume`, `idle_timeout`, `delayed`, the runout helper | file, position, timer, `must_pause_work`, `is_paused`, `pause_command_sent`, states of the timers | M23-M27, PAUSE, RESUME, CLEAR_PAUSE, runout and insertion, timeouts | the mutex of the scripts | five greenlets set each other's flags |
| Keys and menu: `buttons`, `button`, `menu.py` | counts of reports, the queue of templates, stack of lists, the selection | reports, acknowledgements, keys, rendering, exit by time | board; commands | counts of eight bits; lists that change while something is edited |
| Toolhead and look-ahead, `instrument.py` 56-580 | the queue, `print_time`, `special_queuing_state`, the flush timer | move, dwell, drip, flush, stall | reactor; board | a pausing command and a timer share the queue |
| Homing, endstops: `homing.py`, `endstop.py`, `cartesian.py` | commanded position, limits, targets that were turned off; `min_query_time`, `last_sent_time`, `next_query_time` | G28, hop, retract, query, retry | board | failures in the middle; messages late, lost or of the homing before |
| Heaters and controllers: `tcontrol.py`, `governor.py`, `temperature.py` | target, last order, the verifier's error and goal, calibration; who is in command of what | report, target, calibrate, verify | board, thermometers, coolers | orders left out because they change little, against a board that wants them repeated |
| Fans, outputs, servo, expander: `cooler.py`, `controller.py`, `servo.py`, `i2c.sx1509.py` | last value and time | set, callback, SET_PIN, ... | toolhead's time, board | a board holds one order for a pin |
| Screen and leds | framebuffers and what was sent | draw, flush, set | bus | only differences are sent |
| Filament: `filament.py` | array of measures, timer, script | measure, set, on, off | mutex, M221 | a script waits while its timer is turned off |
| Thermometers: `thermometer.py`, `spi.thermometers.py`, `i2c.sensor.bme280.py` | tables, ranges, values | set up, sample, convert | board, controllers | readings of broken wires; tables with samples on one line |
| BLTouch | pulses and their times, `multi` | query, test, raise, probe | toolhead, stepper | a probe that does not follow |
| Steppers, rails, `kinematics/cartesian.py`, phase tracking | position, enable lines, offsets, active carriage | enable, force, home, change carriage | board | shared pins, lost positions |
| Drivers, `tmc.common.py` and one file each | shadow registers, current, the counter of writes | set fields and currents, homing, enable | bus with a mutex | lost reads and writes; greenlets that set one register |
| Boards, `controller.py` | configuration and its checksum, object ids, pins, shutdown | configure, identify, restart, report | serial link | a board outlives its host |
| Clock, `timing.py` | last clock, pending queries | query, answer, active | serial link | 32 of 64 bits |
| Serial link, `serialhdl.py` | handlers, pieces of the dictionary | connect, identify, retry | board | attempts that overlap |
| Tree of parts, `tree.py`, `hal.py` | the parts on hand, the tree | load, attach, build | all parts | lookups by the beginning of a name |
| Not modelled: C libraries, descriptor process, extruder, leveling, tools | | | | section 7 |

### What makes each component correct

Firmware: the timer list never closes a cycle, its search stops, it is in order
under the comparison that rolls over, no timer is forgotten, early, or run after it
was removed; no wakeup is lost, shutdown functions run whole; receivers keep every
byte once and find the frames again after noise; what is sent is what was queued;
a report of an input is one whole run of its own pin; the AVR's time is right.

Host: every line runs once, in order, and is answered; a job never loses its
place; commands go where their names say; a report of a key counts once; moves get
times before the board needs them; a homed axis is where the host thinks, and an
endstop's answer is about this homing; heaters are never turned off for want of
orders, nor left on, and one that does not heat is noticed; at rest every pin,
screen and driver shows what was asked last; a board that is taken for configured
has this host's configuration; reports are dated right; a host that is connected
has the whole dictionary.

`PROJECT.json` lists every component, and under "hazards" the places where these
could go wrong and a test would hardly reach, with the properties that watch them.

## 2. Structure of the modules, and what is next

```
ClockArith --- TimerList ---+
    |            TaskLoop --+-- Sched ....(KeepsPromise).... Alarms
    +--- AvrTimer --+
     AnalogIn ------+-- MCDevices        RxBuffer --- LinuxConsole --+
     Reactor    Interpolate                           TxBuffer ------+-- MCWire
MCCommands: PrintJob CommandTree Menu Buttons
MCMachine:  Toolhead Homing Heat Fan Tmc Outputs Display FilamentWidth
MCLinks:    Serial McuConfig ClockSync Dispatch
MCParts:    Interpolate Tcontrol Probes Steppers PartTree BLTouch
Proofs:     SchedProofs  RxBufferProofs --- DriverProofs (MCWire AnalogIn)
            MainProofs (Reactor Menu McuConfig) --------------+
            HostProofs (Homing Dispatch PrintJob CommandTree) +
            DeviceProofs (ClockSync Serial Heat Buttons       |
                          Toolhead) --------------------------+-- HostClaims
            MCMachine MCLinks MCCommands ---------------------+
```

A line is EXTENDS or INSTANCE, the dotted one a refinement. `Sched` composes the
timer list and the task loop and implements each of them as specified on its own
(`ImplementsTimerList`, `ImplementsTaskLoop`), so what is proved of `TimerList!Spec` and
`TaskLoop!SafeTasks` holds of the scheduler, and it implements the abstract alarms
(`KeepsPromise`). The runs check these three on small instances; they are proved too. `LinuxConsole` reuses the search of `RxBuffer`, as
the code does.

The other MC modules each check several components in one run. These components
share no state: a behaviour is of ONE of them, a variable says of which (`part` in
MCMachine, `side` in MCLinks, `task` in MCCommands), and the variables of the others
stay as they are. This is a way to run them, not a composition; a property of such a
module is the conjunction of those of its components, and what a component meets of
the others is said in its module (the environment of the axes in `Homing`, say, is any
switch; that of its endstop any board and wire). HostClaims turns what is proved of
the components into the properties of these modules.

Each component is written so that it can be proved about: parameters are
CONSTANTS, an operation is one action, and no module but PartTree uses RECURSIVE
operators.

Next, in this order:

1. `DigitalOut`, `SoftPwm`: outputs of the firmware as clients of `Alarms`: the
   default comes when the host is silent; no pulse is torn.
2. The window of `klippy.old/chelper/serialqueue.c` with `RxBuffer` over a line that
   loses, duplicates and delays, against an abstract channel that delivers once.
3. `BaseConfig`: object ids, memory, finalize and reset against a shutdown between
   two of their steps; and the codec against reference definitions.
4. A proof of `TimerKeepsUp` (AvrTimer), then of `OutputsFollow` and `DriversAgree`.

## 3. The modules and the code

In all modules an action stands for what the code does between two points at which
another thread could see a difference: in the firmware code that runs with
interrupts disabled, in the host what a greenlet does until it pauses. A definition
marked as a mutant is a plausible mistake; no specification uses it.

### Firmware

**ClockArith**: the unsigned counter and the signed comparison
(`timer_is_before`). 2^32 is `2 * HalfRange`.

**TimerList** (`sched.c` 26-164): the linked list is a sequence of nodes. The
loop of `insert_timer` becomes the first position it would stop at
(`IsInsertPos`), with the loop's asymmetry: its first comparison is with the
second node. `deleted_timer` is a node like any other. Callers are arbitrary but
legal: they change a timer only while it is not linked.

**TaskLoop** (`sched.c` 166-320 and the console task): `main` is the place of the
main thread, one step per access that an interrupt could separate. Work is one
wake flag and `rx` messages. `sched_shutdown` moves `main` to `"shutdown"` from
anywhere. `cut` is a history variable: a longjmp left a pass over the tasks.

**Sched** (`timer_irq.c` with both): the handler `isr` preempts the main thread
when the match of the hardware has come and interrupts are on. Device callbacks
finish, move their own timer on, wake a task or shut down; no callback adds or
deletes timers, as in the code. A message carries one command, which moves a
timer, stops or clears. Time advances by `Tick`. `MaxLatency` bounds how late the
handler runs a timer, for how long the main thread keeps interrupts off while a timer
is due, and how long a command takes from setting a waketime to adding the timer; and
no unbounded time passes in a shutdown before the list is reset. Without these bounds
no deadline could be stated at all. The assumptions on the constants keep the order
of the ones in the code (`TicksAssumption`) and every time that is compared less than
half a turn of the clock away (`DelaysAssumption`).
`sentinel_timer` is never dispatched (it is never first), so its event, which
only shuts down, is not an action.

**Alarms**: what the comments in `sched.c` promise devices: a set of pending
timers; the one that starts is due and none should come before it.

**RxBuffer** (`rxtx_irq.c`, `avr/console.c`): bytes are kept, with what they
are abstracted: a byte of a frame carries the frame's sequence number, the last
one is `MSG_SYNC`. COBS, address and CRC of a block are one question, "is it
exactly a frame the host built?"; a block that is not may have any of its bytes
turned into `MSG_SYNC` by the decoding in place, and the model allows that
(`Decode`). `rx_buffer_clean` is cut at each access to `receive_pos`. When a
block is longer than what was received (section 6), `needcopy` rolls over in
eight bits; from there on (`main = "spoilt"`) nothing is claimed. A shutdown leaves the
task from a command (`RunStops`) and, by an interrupt, at any step (`IrqStops`): in the
middle of decoding, of a block of commands, or of `rx_buffer_clean`, where the bytes
may be moved and `receive_pos` is still the old one. `queue` is a history of bytes stored
and not removed; after such a shutdown it has the bytes moved so far a second
time, in the place of the first ones (`Torn`).

**TxBuffer** (`rxtx_irq.c`, `avr/serial.c`, `send_response`): every access to the
two counters is a step, the interrupt may come between any two, and a shutdown
by a timer leaves at each. The branch that moves the buffer's contents cannot be
taken for messages shorter than 129 bytes (the assumption `CompactionIsDead`
states why) and is left out. `pending` is a history of what is queued.

**LinuxConsole** (`linux/console.c`): reuses `rx_find_block` of RxBuffer, as the
code does, with the console's own reading, removing, waking and its shutdown when a
read returns just the text `FORCE_SHUTDOWN`. Reads may be partial or fail. A shutdown
puts `receive_pos` back, since the code stores it last.

**AnalogIn** (`cmds_adc.c`, `avr/adc.c`): the event samples through the shared
converter; the report task tests `state`, disables interrupts and tests again;
`command_query_analog_in` is cut where an interrupt could see a difference. A run is in range
if its sum is neither below `min_value` nor above `max_value` (`InRange`); what it should
be judged by is the history of its samples (`Outside`). Times
are left to Sched: an armed event may come at any time. No dispatch table calls
these commands yet, so they are external calls here, made where the command
dispatcher would make them.

**AvrTimer** (`avr/timer.c`): `now` is the true time, `TCNT1` its lower half. Flags
are raised by `Tick` and cleared by the handler's writes; `calc` and `begun` hold
what `timer_read_time` has read and when it began. The list is reduced to
`wrap_timer`, `deleted_timer` and one device.

### Host

**Reactor** (`reactor.py`, `printer.py` 122-156): a timer stands for its callback.
The main process (`_timers`, `id`) and the reactor (`timers`, `_next_timer`)
exchange messages through two FIFO pipes. `_runner` alternates between checking
timers and taking one message, as in the code. An IndexError ends a process.
`cancelled` is a history variable.

**Dispatch** (`commander.py` 423-546): input comes in half lines. Only while a handler
pauses does the reactor call `_process_data` again (`Paused`). `RunScript` is a script
of the command itself, whose `need_ack` is saved and restored; `OtherScript` is one
of another greenlet, which clears it. `finished`, `unanswered` and `taken` are
histories. **CommandTree**: `nodes` maps the words on the way to a node to the handlers
that are grafted there.

**PrintJob**: the greenlets of the card, of a host's script, of the runout helper, of
the idle timeout and of a delayed script, each with the place where it pauses. The
mutex of the gcode class, which is used and not in the repository, is held from a
script's first command to its last. **Menu**, **Buttons**: keys arrive between two
renderings; a board repeats its reports until they are acknowledged. A group that is left
up or down has nothing selected any more (`Unwound`), and is entered at its last
or first item (`Rewind`). The row that leads back is an item like any other and need not be
there (`show_back`), so a list may be empty: then a key raises IndexError
(`container[self.selected]`, `menu.py` 1393) and changes nothing (`Key`). A list that is left is
looked for among the rows of the one above and among their items (`find_item`).

**Toolhead**: the queue of moves is its length in time; print time, the state of
queuing and the flush timer are the code's; the state that is the empty string there is
"Main" here. Its second part is the look-ahead: moves are added and the queue is flushed,
lazily or not, for ever; `flushed` and `entry` keep the junctions of the last flush and
the speed at which the one before it ended. **Homing**: position of the host against the real one, for any
switch. Its second part is the endstop: the messages between host and board are two
queues; commands are delivered, answers may be lost; `sent` is the time of the last
command a board had seen, by which the host knows what an answer is about.

**Heat**: governors with any output a PID could have, the board's `max_duration`, the
verifier and the calibration. The verifier notices a heater that does not heat
(`Steady`) only while its target stays: a user who changes between two positive targets in
time restarts the approach each time. **Tcontrol**: who governs whom and what withstands how
much. **Fan**, **Outputs**: orders and their times on a board that holds one for a
pin. **Display**, **FilamentWidth**, **Tmc**: what the host keeps of a device, and the
device. In Tmc a register is the field that is set, and the bus may lose any message.

**Serial**, **McuConfig**, **ClockSync**: a board and a host that meets it again after a
restart. In McuConfig the messages to the board and to the host are two queues
(`outbound`, `inbound`). The board runs a command or refuses it as those of
`cmds_base.c` do (`Refuses`, `Done`), also while it is shut down, and then says so after each
(`Says`); it shuts down by itself (`BoardStops`) or resets (`BoardResets`). A shutdown leaves the
block of commands, of which the rest is not run (`sched_shutdown`). Commands arrive; a
report is sent once and may be lost (`ReportLost`), so the host asks `get_config` again a few
times and then gives up (`AskAgain`, `GiveUp`). The host may be stopped and started again at any
point, with its configuration partly delivered too (`Restart`). Parts collect
their configuration before the board is known, and the callbacks of `_send_config` run in
their order (`Build`, a recursive function of the parts). What is sent with `is_init`, a query of
an analog input or a write to a bus, is no part of the configuration that is compared, and is
sent to a board that is configured already too. The checksum of a configuration is
the configuration itself: two of them are taken to have different ones. `finalize_config` keeps
one byte of it (`cmds_base.c` 252): `Done` keeps all, when the checksum has only that byte, or
another (`Byte`). `call_shutdown` of `printer.py` tells each part once
(`EmergencyStop`), whoever begins (`Shutdown`, `PrinterStops`). The second part of
McuConfig is who holds which pin under which name (`pin_register`, `pin_reserve`, `Fixup`,
one command at a time). In Serial an
attempt that was given up leaves its requests behind (`Orphaned`), and their answers
reach the attempt that follows (`replies`).

**Interpolate**: tables as sequences of samples, slopes and offsets as fractions.
**Probes**: what each kind of sensor is set up with, reads and takes for broken.
**Steppers**: steps on the board against what the host counts, for the kinematics, two
carriages, phases and forced moves. **BLTouch**: times are relative to now.
**PartTree**: the builder runs over files of named sections; a name that begins
another one is a relation. It is written with recursive operators, as the code is, and
only TLC uses it.

Files under `klippy.old/` are half ported: names that were changed in one place and
not in another are taken by their meaning, so that the design can be checked; a
handler behind `print("TODO")` and `return` is not there. Where what the code says can
only raise an exception (`node.children` used as a dictionary in `tree.py`) it does
so in the model.

## 4. The runs

Each run asks one question. States are distinct states; deadlock is checked except
where noted.

| run | states | what it asks and shows |
|---|---|---|
| `sched` | 575 000 | With two devices, interrupts, late steps and shutdowns: the list keeps its shape (`WellFormed`), the search stops (`InsertStops`), it is in order, the hardware is set early enough and no callback is early (`TimersAreInTime`), and the three refinements hold |
| `sched_live` | 96 000 | `NoLostWakeup`, `ShutdownIsAtomic`; due timers run, tasks are not starved by timers, and wakeups, messages and shutdowns are served (`WorkIsServed`) |
| `rx_buffer` | 652 000 | `BufferIsQueue` and `Resynchronises` against the interrupt, noise, and shutdowns by commands and by interrupts anywhere in the task |
| `wire` | 104 000 | the sender of the AVR with a shutdown at every step (`QueuedIsPending`, `GuardIsReleased`), the Linux console with failing reads (`ConsoleKeepsBytes`), and that what is triggered is sent and what came is looked at (`NothingIsStuck`) |
| `devices` | 4 370 000 | two analog inputs on one converter: whole runs of the right pin, what was asked for is sampled, alarms exactly when the runs below or above the limits are too many (`InputsAreRead`); the AVR's time is right and no match a turn late (`TimerKeepsUp`) |
| `reactor` | 291 000 | `IdentsAgree` with messages under way, `CallbackRuns` |
| `reactor_cancel`, `interpolate` | violations | section 6 |
| `commands` | 83 000 | `JobIsKept`, `RunsWhatIsNamed`, `EditIsCurrent`, `KeysCount`, and that a stopped work handler of the card returns (`StopReturns`) |
| `machine` | 1 150 000 | `MovesInTime` (Toolhead), `HomedIsReal`, `ResultIsTrue`, `HeatIsSafe`, `OutputsFollow` (Outputs, Display, Fan, FilamentWidth), `DriversAgree` |
| `links` | 1 474 000 | `BoardAgrees` (McuConfig), `ReportsAreDated`, `LinesInOrder`, `IdentifyIsWhole`, and that a loss is noticed and reading taken up again (`LinksRecover`) |
| `parts` | 748 000 | `PartsAreGoverned` (PartTree, Tcontrol), `ReadingsAreRight` (Interpolate, Probes), `AxisIsWhereItSays` (Steppers, BLTouch) |

### Bounds, and why they are enough

* **sched**: a clock of 14 ticks that goes round for ever, period 3, delays 0 and
  2 from commands and 3 from callbacks. Two devices and the three nodes of the
  scheduler give all relative places: first, behind the placeholder, between the
  guards. `MinTry`, `TooLate`, `Defer`, `Repeat` are scaled to 0 or 1, so every branch
  of the handler is taken. `MaxRx` 1 (2 in `sched_live`, where a second message
  behind a first one matters, with one device and commands that schedule for now).
* **rx_buffer**: positions roll over at 8 in a buffer of 16, as the real ones at 256
  in a buffer of 512. Frames of two lengths, so that what follows one can be misread
  as part of another; two sequence numbers, so that a wrong one exists; one byte lost
  or damaged, or one shutdown by an interrupt (`MaxNoise` bounds them together). The host's window leaves room for one more frame
  (`ReceiveWindow + MsgMin < PosRange`), as the host's does.
* **wire**: the sender's counters roll over at 12, messages of 4 and 5 bytes: two fit
  and a third does not, in both orders. `Paced` says that no response is sent that
  would make the counters roll over; without it see section 6. The Linux console as
  `rx_buffer`; `Burst` 5 is more than two short frames at a time.
* **devices**: two samples a run, sums below, within and above the limits, a shutdown after the
  first or the second bad run; `SamplesFit` excludes `sample_count` 255 and sums over
  sixteen bits. A turn of the timer is 48 ticks, the long clock has two turns; the
  constants keep the order of the real ones (half a turn, 32768, is more than
  `timer_from_us(1000)`, 16000, plus the deferral). `Slow` and `Latency` bound a step
  with interrupts off and a pending interrupt. `AddStopped` FALSE: section 6.
* **reactor**: `MaxTime` 1 gives now, later and never; two messages under way when
  another one is sent, so that each pipe holds the answer of a callback and something
  else.
* **commands**: a file of three lines with a PAUSE between, read two at a time, so that a
  stop comes before, in and behind a line; two commands of the host in every order.
  Names of two words, three calls of `add`: a node below and above another one, and
  one put back. A menu of three lists, of which one is reached through a group and
  may become empty, a group, two inputs and rows that disappear. The count of reports rolls over at 8; two
  unacknowledged, four seen, so that a report comes again behind others.
* **machine**: the toolhead has two moves in the queue and six ticks, so that it stalls,
  is primed and stalls again; its look-ahead three moves (what is kept, what is smoothed,
  what peaks); two homings and two losses (an answer of the first during the second,
  and a loss of the repeated one); fault, retarget and calibration of a heater in three
  temperatures; outputs in five layouts (one pin, several behind a virtual one, soft
  pwm, a servo, and both on an expander) for seven slots; drivers of three families
  (UART, SPI with a mode of its own, a motion driver) with three commands and two losses.
* **links**: two attempts to connect, so that one is given up under way; three hosts on
  one board with at most two, one and no parts (each may be configured otherwise than
  the one before), one write each, and two faults from outside (`MaxFaults`: the board stops by
  itself, resets, loses a report, or another part stops the printer), of which a host with
  two parts sees at most one (`MaxLoad`), so that a report of a shutdown is lost and a
  configuration that was cut off is found by the next host; the clock rolls over at 32,
  starts at 28 and runs to 37, so that a query, its answer and a report straddle it (two queries under way and
  the delay are less than half a turn, `2 * MaxPending + Delay + 8 <= Width \div 2`); four lines read up to three halves at a
  time with `Limit` 2, so that reading stops and starts twice.
* **parts**: tables of up to four samples; two thermometers, heaters or coolers; ten kinds
  of probes; two steppers on one pin and one on its own with five commands; three faults
  of a touch probe, which is when a command is given up.
  `PartFiles` are the files whose names begin each other, are given twice, hang at two
  places or nowhere.

### Views and symmetry

`Sched` compares times relative to `now`: no action depends on the origin of the
clock; and it drops the hardware's match while the handler runs or a shutdown is under
way, which both set it anew. `MCDevices` drops whole turns in the same way. `MCWire` and `MCDevices` drop
variables that are assigned before they are read again, and bytes behind those
received, except whether they are `MSG_SYNC`, which is all the search can see of
them. Devices in `Sched.cfg` and pins in `Devices.cfg` are interchangeable; no
liveness is checked under symmetry, and the temporal properties of `Sched.cfg` are
refinements, which are the same for every device.

### Deadlock

`CHECK_DEADLOCK FALSE` where a system may really stop: nobody need request another
response and the terminal may be full of bytes that are no message (`wire`); a
process may have ended with an exception (`reactor`); in the runs of the host
users, boards and faults come to the end of their bounds, or the printer is shut
down for good. What must go on there is stated as liveness.

### Fairness

* **Sched**: the clock and the interrupt handler go on (WF). The main thread is
  preempted for as long as the handler has work, so it gets strong fairness: it
  moves if it is free again and again. That it IS free again and again is not
  assumed: `TasksNotStarved` fails when the handler overlooks tasks that wait.
  `WorkIsServed` is stated for runs in which shutdowns end, as a machine that is shut
  down for ever serves nobody.
* **RxBuffer**: the loop comes back to the console task, the line delivers, and the
  host sends the frame it got no answer for again (SF, as its timer does).
* **wire**: main thread and interrupt go on; `poll` returns, the task runs; SF for a read
  that succeeds, because a failing read may come in between.
* **Reactor**: both loops go on; setup and callbacks come to an end.
* **commands**: greenlets of the runout and of scripts go on (WF); the work handler of the
  card, which waits for a mutex others take in between, gets SF, as the reactor calls
  its timer again and again.
* **links**: the clock goes on, which its reactor's timers do; handlers that pause return
  (WF of `Processing`). No fairness is given to the connection.

No fairness is given to shutdowns, noise, requests, users or faults. `machine` and
`parts` check safety only.

### What the properties leave out

* `HomedIsReal` leaves out a hop of z that is refused (`homing.py` 264): z stays homed at
  a position it never had (`hop_failed`).
* `OutputsFollow`: `OffIsOff` leaves out an M406 that comes while the sensor's script
  waits for the mutex (`filament.py` 270): the script and the timer's return undo it
  (`raced`).
* `LinesInOrder`: a line whose handler pauses loses its "ok" to a script of another
  greenlet (`commander.py` 436 and 458: one `need_ack` for all), `taken`. No other is lost.
* `AxisIsWhereItSays` leaves out steppers moved by force, and those that lost power
  unnoticed, until they are homed. `PartsAreGoverned` leaves out the names that
  `NamedTwice` and `Begins` describe.
* `BufferIsQueue` takes a shutdown within `rx_buffer_clean` for what it is: nothing is
  removed and the bytes moved by then are there twice (section 6).
* `BoardAgrees`: no command of the host is refused (`CommandsFit`), unless a host was stopped
  with its configuration partly delivered (`cut`, section 6) or the board has reset; a
  shutdown is noticed (`FaultIsTold`) unless its last report was lost (`missed`): then the next
  command shows it.
* `DriversAgree` asks only of drivers whose accesses did not raise (`AtRest`): a counter of
  writes that is stale after a read that gave up (`tmc_uart.py` 217) is not seen.
* `ReadingsAreRight`: the run of `parts` asks `MeetsSamples` of tables without samples on
  one line (`MeetsSamplesOff`); for the others see section 6.

## 5. What is proved

TLAPS checks these for every value of the constants that satisfies the named
assumptions; TLC evaluates the assumptions on every run.

### The scheduler (SchedProofs)

*The timer list alone*: `Spec => []TypeOK`, `[]WellFormed`, `[]InsertStops`, for any set
of devices, any clock and any period below half of its range (`TimersAssumption`,
`PeriodAssumption`, `HalfRangeAssumption`). `IInv` says that no node is linked twice,
that the placeholder is at most first, the sentinel last and the periodic timer linked
(`Shape`), and that the two guards are half a range apart (`Guarded`). The invariant is
needed because `insert_timer` has no test for the end: lemma `BeforeOneOfTwo` shows
that on a circle every time is before p or before p plus half the range, so one of the
guards always stops the search (`GuardsStopInsert`), and the shape is what says both
are behind the first node or are it. One lemma per way the list changes (`TailShape`,
`PrependShape`, `InsertShape`, `RemoveShape`).

*The task loop alone*: `SafeTasks => []TypeOKTasks`, `[]NoLostWakeup`,
`[]ShutdownIsAtomic`, for any number of messages. `NoLostWakeup` is about the sleep
only; `TasksIInv` adds what must hold on the way there: outside a pass over the tasks
work has a wakeup that is still to be seen (`WorkIsAnnounced`), a task that a pass
has left behind is woken by a wakeup of its own (`LeftBehindIsAnnounced`), no message
is removed that has not come (`MessageAtHand`), and a pass that was cut short stays
marked until the next one (`CutUntilPass`).

*The whole*, for any set of devices and any delays within the assumptions:

* `CallersAreLegal`, `LoopIsTasks`: every step of `SafeSched` is one of the timer list
  and one of the task loop, or leaves their variables alone. The list is only
  specified for callers that change a timer while it is not linked, so this needs
  `SInv`: who is about to add a timer has taken it off and nobody put it back
  (`CallerHoldsTimer`), and the handler is in only where interrupts are on
  (`HandlerIsLetIn`). What was proved of the halves follows for the whole
  (`SchedTypeCorrect`, `SchedStaysWellFormed`, `SchedInsertStops`,
  `SchedLosesNoWakeup`, `SchedShutdownRunsWhole`).
* `TimersAlwaysInTime`: the list is in order, the hardware set early enough and no
  callback early. The order is under a comparison that rolls over, which is no order at
  all unless all times are near each other; so `TimeInv` says that the list is sorted
  by the ticks that are left and that these lie within less than half a turn
  (`ListInOrder`). The late end of this window is the hard part: that a timer is late by
  a bounded time needs that the hardware is set for the first one (`HardwareIsSet`),
  that the handler was called for one that is due (`DispatchIsDue`), and that only a
  timer that was deferred is later than `MaxLatency + MinTry`, which is not deferred
  again while `timer_repeat_until` says so (`FirstIsNotTooLate`); `CallerInTime` bounds
  what a caller has in hand.
* `PromiseIsKept`: with the pending timers of Alarms as those on the list, and the
  running one as the one whose callback the handler is in, each step is a step of
  Alarms or a stutter: `KeepsPromise`. Starting the first timer starts one that is due
  and that none should come before, by the order above; a shutdown drops all.

Assumed are `TicksAssumption`, the order of the code's constants (2, 5, 100 and
500 us), and `DelaysAssumption`: what a command or a callback may ask for plus the
latency stays below half the range of the clock.

### Buffers

**RxBufferProofs**, `SafeRx => []BufferIsQueue`, for every buffer, window, frame
length and amount of noise with `WindowFits` (`ReceiveWindow + MsgMin < PosRange`).
`BufferIsQueue` says nothing while `rx_buffer_clean` is at work; `IndRx` says which
bytes are moved then (`Moved`) and that the interrupt only writes behind them
(`Behind`). It is also what an interrupt that shuts down then finds: the bytes moved so far
are those of the queue, and the rest is as it was, which is `Torn`.

The console of the Linux build keeps `BufferIsQueue` as well (`LinuxKeepsBytes`), with
no condition but those on the constants: no interrupt races it, and it reads no more than
there is room for. `LinuxInv` says that, and that a shutdown puts the position back to
where the last read began, behind which nothing counts. DriverProofs takes it with the
constants of the run, as the receiving end of the wire: `WireKeepsBytes`, `Spec => []ConsoleKeepsBytes`.

**DriverProofs**, `SpecTx => []QueuedIsPending` with `LengthsFit` and `Paced`, and
`SpecTx => []GuardIsReleased` without. `IInvTx` relates the locals `tpos` and `tmax`,
read at different times, to counters the interrupt has moved since (`Located`): the
position may only have grown, and only the main thread moves the maximum.

### Analog inputs (DriverProofs)

`SafeAdc => []TypeOKAdc` and `SafeAdc => []InputsAreRead`, for any number of inputs, pins
and queries, under `AnalogAssumption` (the widths of the counters) and `SamplesFit`: the
code does not check that `sample_count + 1` fits in eight bits and the sum of a run in
sixteen. `AdcInv` says of every input that what the code counts is the run its samples
make (`RunIsCounted`), except between the two assignments of a query; that an input is
armed just when it has something to sample and no query is at it (`AdcTargets`); that
who may take the result of the converter is who asked for it (`ConverterIsShared`); and
that `invalid_count` is never behind the runs out of range (`AlarmsAreCounted`). That a
sum fits is an induction over the samples of a run: its share of the range grows with
each (`ShareGrows`), and all shares together are within it (`ShareFits`).

### Reactor, menu and boards (MainProofs)

`Spec => []TypeOK` and `Spec => []IdentsAgree`, for any number of timers, times and
messages. The property compares an ident of one process with a place in the list of
the other, while the messages that change that list are in the pipe, so it is read
through them (`SameTimers`: the list, followed by the additions on their way in their
order). As long as nothing was cancelled `Agree` holds: an ident is the timer's place
in `_timers`, and in the reactor's own list (`IdentIsPlace`), and no message on its way
is about a timer that will not be there when it is taken (`MessagesFit`). So neither
process meets an index out of range. With cancelling it is false (section 6).

`MenuStaysCurrent`: the selected row is on the screen, only the selected item is being
edited and lists are entered and left in turn, for any lists, groups, inputs and
commands, any number of rows and any length of the queue. `MenuAssumed` says what they
are made of; a list need not have a row that is never hidden, and the first row is selected
of one that has none. `MenuInv` adds what they need of each other. `Shows`: the selected row
is one the list has as long as the list is as it was filled, and when lists are filled
anew, by rendering, entering or going back, the row is brought back into it (`CurrentFacts`:
when the selected item is not edited nothing is). Lists are entered and left by scripts that wait
in a queue, several at a time, so `InTurn` goes from what the last script left behind
through those that wait to where the menu is. What a list is filled with is a recursive
function of its items (`FilterFacts`).

`BoardAlwaysConfigured`: a host that takes a board for configured shares its
configuration; no command of the host is refused unless a host was stopped with its
configuration partly delivered; restarts come once in a row; and a board that was
shut down is noticed unless its last report was lost, for any number of parts, writes,
sessions, resets, lost reports and faults
(`BoardsAssumed`: the kinds of parts are those of the code). What crosses the link is the
difficulty: between `get_config` and its answer the host may have been shut down or started
again, the board reset, the answer lost, and parts written to. `McuInv` says

* that one question is under way, or one answer, and only while the host waits for it
  (`OneQuestion`), and what is on its way to the board in each phase (`SentInPhase`);
* that until the configuration is built each part has the ids and commands of its kind and
  of no other part (`Assembled`), and that what is built allocates, configures and sets in
  this order (`Complete`, which `BuildCompletes` shows by induction over the parts);
* that each command on its way fits what the board will have become by then, through those
  that are before it (`AllFit`), and that what the board has is all of its configuration
  (`Whole`) or nothing at all before one is sent (`Settled`). This makes `CommandsFit`
  inductive (`NeverFaults`); a board that is shut down or has reset is left out;
* that a board whose configuration was cut off stays without one: each later host finds it
  unconfigured and is refused, or gives up (`CutStays`);
* that a shutdown the host does not know of will be told: by a message under way, or by
  the answer to the question under way, unless its last report was lost (`Noticed`);
* that the reason the host was started for and the tries agree (`OnceInARow`).

`ReservedAlwaysUntouched` is the same for the pins, with `PinsAssumed`: an alias is no id, and
stands for one. `PinsInv` follows `Fixup` through the commands: those that are wired name ids
that are not reserved, and none is wired before the board has said what it keeps.

### Boards and devices (DeviceProofs)

* `ReportsAlwaysDated` (ClockSync), if `2 * MaxPending + Delay + 8 <= Width \div 2`: what
  is under way is never half a turn old, so the low part of a clock is extended right
  (`ExtendFacts`), against any delay and order of queries. `ClockInv` bounds the age of
  what the host last saw by the queries that wait for an answer.
* `IdentifyAlwaysWhole` (Serial), for any number of pieces, retries and attempts: the
  dictionary of a connected host is the board's. `SerialInv` says what was
  collected is a beginning of it whatever answers of earlier attempts come in
  between, and that one who waits is told.
* `HeatAlwaysSafe` (Heat), under `HeatAssumed` (the board waits at least two seconds
  for the next order, reports get stale, the verifier asks for a gain and gives it time):
  an order is repeated before the board gives up, a heater without a target is off, and
  one that does not get warmer is noticed. `HeatInv` relates what the host repeats
  next to what the board still waits for (`Kept`), and counts for how long the temperature
  has not risen: within the time of an approach, or by the verifier's error
  (`StuckBefore`, `StuckAfter`).
* `KeysAlwaysCount` (Buttons), if `CountMod > 2 * MaxUnacked` (256 in the code): however
  often a board repeats its reports, each is handled once and in order; scripts wait only
  while one is run, and the encoder counts full turns. `ReportsInv` says that each
  message under way holds a stretch of what was seen (`MessagesHold`), not later ones
  before earlier ones, and that acknowledgements add up to what was handled (`AcksAdd`);
  `EncoderInv`, how far from a detent the encoder is in each state of the table.
* `MovesAlwaysInTime` (Toolhead): in its main state the toolhead is ahead of the board and
  its timer due before the board runs out of steps, queued moves are flushed, moves begin
  where no steps have been generated, and a drip move sends few steps ahead; for any times
  of moves, scan times and length of the queue. `ToolheadAssumed` asks that the reactor is
  late by less than `BUFFER_TIME_LOW` and `BUFFER_TIME_START`, and that time ends before
  NEVER. `ToolheadInv` says how the timer is set in each state of queuing, late as it may be
  run (`TimerIsSet`), and that the steps generated are behind the print time by the scan time
  or behind the last full flush (`StepsAreBehind`), except when the scan time grew
  meanwhile. The operators on the toolhead are shown to keep it one by one
  (`FlushStepGeneration`, `CalcPrintTime`, ...), as the handlers apply several in a row.
* `SpeedsAlwaysMeet` (Toolhead): each move begins at the speed at which the one before it
  ends, over the limits of lazy flushes, and the head stands when the queue is empty, for
  any length of the queue. `LookAheadAssumed` says of a move that it can change its speed
  (`move` drops those of no length, `instrument.py` 468), that its smoothed change is at
  most the other (62 and 599), and that its limits are 0 until `calc_junction`. See below.

A flush goes from the last move to the first, and what it finds for a move is final only
if whatever is added later cannot change it. The speeds it finds backwards are two
functions of the queue (`SpeedsOf`). Moves that must slow down all the way are put off until
one is found that need not (`Speeding`), and get the peak found there. `PassInv` says of each
move visited which ones are put off (`Waits`) and that the junctions behind them meet, up to
the last move that goes (`Meets`). The limits between two flushes are the hard part: a lazy
flush stops in front of a peak, at a speed found for the queue as it was, and the next
flush, of a longer queue, must find it again. `Settled` is why it does: behind the cut there
is a move k at its highest speed, `max_start`, both ways, with only moves in between that
slow down or speed up by all they can. More moves can only raise the speed at k,
which is at its limit, so nothing before k changes (`SettledStays`, `AppendSettled`).
`LookAheadInv` keeps `Settled` of the queue and the speed the last flush ended at. The passes
are recursive functions; their inductions run over the places of the queue.

### Homing, lines and print jobs (HostProofs)

* `HomedAlwaysReal`: an axis that counts as homed is where the host thinks, or a hop was
  refused before (section 4), and the targets of the heaters come back, for any axis
  length, retract, hop and faults. `HomingInv` says which axis is homed just now, of
  which the position says nothing, and that its targets are kept aside as long.
* `HomingIsTrue`: `SpecEndstop => []ResultIsTrue`, for every retry time, length of the
  move, delay, number of homings and losses; only NEVER must lie later than
  the first time (`1 < NEVER`). The result says nothing until a homing ends, so
  `EndstopInv` follows the command to begin one. As long as it is on its way
  (`BeforeTaken`), everything under way to the host carries an earlier time than the
  start and is not looked at. Once the board has it (`AfterTaken`), the board is still
  homing or has hit; an answer "hit" from after the start is true; an answer "still
  homing" with a time later than the end of the move shows that it did not hit. Between
  two homings a time of at least `RETRY_QUERY` has gone by since the last query
  (`NothingFromFuture`), which is why times tell the homings apart, and what the board
  is sent comes in the order of its homings (`CommandsInOrder`).
* `LinesStayInOrder`, `EachIsAnswered`, `PendingStaysBounded`, and the three together in
  `LinesAreKept`, of the dispatcher's steps without fairness, for any number and kinds
  of lines, any read and any limit above zero. The order needs to know that the end
  of a debug file is read after the last line (`EndComesLast`); the bound, that the
  loop has emptied what is pending before it runs anything of it, so that reading goes
  on only below the limit (`PendingInv`); the answers, that a script gives `need_ack`
  back before its command returns (`AckIsOwed`).
* `JobAlwaysKept`, of the steps of PrintJob without fairness, for every file, every size
  of a read (`JobAssumed` asks for one above zero) and any commands of the host.
  `JobInv` says who holds the mutex and that a script not done has commands left
  (`MutexHeld`, `ScriptsLeft`); where the work handler is when its timer runs and what it
  has read ahead (`CardWorks`, which has `LineIsAtPosition` in it); when a delayed script
  is inside its timer (`DelayedRuns`, with `DelayedAsAsked`). `PauseHolds` is what the
  pause needs: from the moment PAUSE or the runout helper asks for it, while either
  still waits for the card, until RESUME or CLEAR_PAUSE has undone it, a card that was at
  work has stopped or is told to, unless somebody restarted it; `PauseStops` alone is not
  inductive, as `is_paused` is set long after the card was asked.
* `TreeRunsNamed`: `SpecTree => [](AddedIsCalled /\ RunsWhatIsNamed)`, for any words, any
  objects whose names are no words (`TreeAssumed`) and any order of additions and
  removals. `TreeOK` says that a node has all the nodes on its way and holds only
  handlers of its own name, for objects that differ; every graft keeps it (`GraftOK`,
  `RemoveOK`). The way of a line down the tree is a recursive function of its words
  (`Walk`): that it is defined (`WalkIsDefined`), that it never goes past what was said
  (`WalkFacts`) and that it finds a name that is a node (`WalkFinds`) are inductions over
  the words, which `Induction` does with a set in place of a predicate.

### The runs' own properties (HostClaims)

The runs of the host check `MCMachine`, `MCLinks` and `MCCommands`, whose properties
are those of their components with the constants of the run. HostClaims takes the
theorems above with these constants (`Host`, `Devices`, `Main`), shows that a behaviour of the
union is one of the component as long as it is its turn and stays put otherwise (the
`Same...` lemmas), and concludes `SpecMachine => []HomedIsReal`, `[]ResultIsTrue`,
`[]HeatIsSafe`, `[]MovesInTime`, `SpecLinks => []BoardAgrees`, `[]ReportsAreDated`, `[]IdentifyIsWhole`, `[]LinesInOrder` and
`SpecCommands => []JobIsKept`, `[]RunsWhatIsNamed`, `[]EditIsCurrent`, `[]KeysCount`. It
gives nothing that is not in the theorems about the components, which hold for all
constants; it shows that what the runs check is what was proved.

### Only model-checked

* Everything under fairness (`DueTimerRuns`, `TasksNotStarved`, `WorkIsServed`,
  `Resynchronises`, `NothingIsStuck`, `CallbackRuns`, `StopReturns`, `LinksRecover`): the
  prover does not reach ENABLED.
* `PartsAreGoverned`, `ReadingsAreRight` and `AxisIsWhereItSays`: their module reaches
  the recursive operators of PartTree, of which the prover can say nothing; and what
  a table of samples yields is a fold, of which the library states nothing.
* `TimerKeepsUp`: a match is in time if the loop over the timers that are due does not fall
  behind for longer than the counter takes to go round; an invariant for it has to bound
  how far it can, by the timers and their delays, and we have none.
* `OutputsFollow`, `DriversAgree`: nothing is in the way but their size.

## 6. Disagreements

Two runs end in a violation, each of a statement of the repository.

* **`reactor_cancel`**: "Cancel an event." (`reactor.py` 217): an ident is a place in a
  list, and cancelling shifts the later ones in both processes while messages
  under way and `ProcessTimer.id` keep the old number. The callback of another
  timer is asked for, or `printer.py` 155 raises IndexError.
* **`interpolate`**: "Code to perform linear interpolation" (`thermometer.py` 126): a
  sample on the line of the segment before it is merged, but `last_key` and
  `last_value` stay those of the sample before (142). The next segment is drawn from
  there, and the table misses its own samples.

Further places where the passing runs had to be qualified, besides those of section 4:

* `rx_find_block` searches one byte past what was received (`rxtx_irq.c` 69,
  `i <= buf_len`). A `MSG_SYNC` left there by an earlier message ends the block: commands
  run before the last byte has come, and more is removed than there is (`spoilt`).
* The test for space in `tx_buffer_alloc` (`rxtx_irq.c` 190-199) compares an eight bit
  `tmax` with a buffer of 384 bytes and never refuses; the counter rolls over and
  what was queued is skipped. `Paced` excludes it.
* "remove from the beginning of receive buffer the given number of bytes"
  (`rxtx_irq.c` 35): an interrupt that shuts down between the memmove (42) and the store
  (52) leaves the bytes moved and the position unchanged. Nothing is removed, and the
  bytes of the block are overwritten by those behind it, which are there twice, whole or in
  part, until the search drops them as out of sequence or damaged (`Torn`).
* A host that is stopped while a board has its oids allocated and no `finalize_config` yet finds the
  board unconfigured and configures it: `allocate_oids` is refused
  (`cmds_base.c` 237) and shuts the board down. The session fails although nothing
  is wrong with the configuration; only a reset of the board helps (`cut` in `CommandsFit`).
* `finalize_config` keeps one byte of the checksum (`cmds_base.c` 252): a host that starts again
  with the same configuration finds another checksum unless it has no other bytes
  (`Byte`), and restarts the board.
* A menu without the row that leads back (`show_back`) whose rows all disappear raises
  IndexError at each key (`menu.py` 1393, 1419).
* `run_tasks` sleeps after a longjmp although a task was woken, until
  `periodic_timer` wakes it: the exception `cut` in `NoLostWakeup`.
* `timer_repeat_until` is only kept near the clock by `timer_task`
  (`timer_irq.c` 66), which no table lists. Once the clock is half a range past it,
  the limit on repeated timers is off until the clock has gone through the other
  half. `TasksNotStarved` promises the tasks their turn in the end, and so still
  holds; for how long they wait it does not say.
* The overflow test of `rx_buffer_add` (`rxtx_irq.c` 29) is never true, for the
  position has eight bits and the buffer is longer: a host that ignores the window
  loses the whole buffer. `ReceiveWindow` excludes it.
* A shutdown between the store to `transmit_max` and enabling the interrupt
  (`rxtx_irq.c` 254-255) leaves a response unsent until the next one.
* The Linux console passes on a length in eight bits (`console.c` 153): with 256
  bytes waiting it sees none. `Burst` excludes it.
* On the AVR, while the firmware is shut down late timers are not thrown away
  (`timer.c` 152): with `AddStopped` TRUE the wrap timer can be pushed past half a turn
  and `TimerKeepsUp` fails.

* A board that starts anew by itself is heard, but the handler asks for `self._printer`,
  which the part does not have (`controller.py` 868-870); the reader logs the exception
  (`serialhdl.py` 57-59) and nobody is told (`Starting`). `BoardAgrees` says of the
  configuration of a board that has reset nothing.
* "Pin %s (%s) used multiple times in config." (`controller.py` 1210) compares names: a pin
  that one part claims by its id and another by its alias is configured for both, for
  `_command_fixup` (286-290) puts the parameters of one in the place of the other's.

## 7. Not modelled

* Formatting of responses, variable length integers, the bits of CRC and COBS. What is
  assumed is that the CRC tells every damaged frame.
* Base commands and outputs of the firmware: planned. No dispatch table calls the
  outputs yet; what they do to the timer list is the client of `TimerList` and `Sched`.
* SPI, I2C, debug commands, the other drivers, dispatch and board tables: one
  blocking transfer or constant data each; no state shared with an interrupt. The
  models take the tasks, their order and the end functions from the tables.
* The watchdog: a hang becomes a shutdown, which the models allow at any point.
* `libknp.c`, `protocol.c`, `utility/`: mostly stubs that nothing calls.
  `serialqueue.c` is modelled by what the host sees of it (Serial): commands are repeated
  until they are acknowledged.
* The descriptor process (`processfd.py`): its worker takes the dictionary that `open()`
  returns for a descriptor and ends at its first read.
* Asynchronous callbacks and completions of the reactor (227-240): they use names
  that do not exist and a pool of processes.
* Regressions of the clock, the arithmetic of the PID, coefficients of thermistors, step
  times, extruder, leveling and calibration: floating point, without an order of events
  that could go wrong.
* In `Homing` the branch of a printer that is already shut down and a retract distance of
  zero; in `Steppers` the phase is rounded down where the code truncates (`align_endstop`),
  which is the same for the positions of the run, none of which is negative.
* Commands that only print, the drawing of fonts and rows, parsing of the configuration
  file, simulator, build and log.
