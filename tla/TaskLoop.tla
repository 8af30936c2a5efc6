------------------------------ MODULE TaskLoop ------------------------------
(***************************************************************************)
(* The main thread of the firmware (src/hal/common/sched.c): the task      *)
(* loop run_tasks, when it may put the processor to sleep, how interrupt   *)
(* handlers wake it, and the shutdown path, where a longjmp leaves         *)
(* whatever was running and run_shutdown starts the loop again.            *)
(*                                                                         *)
(* Interrupts happen between any two steps of the main thread except while *)
(* it has them disabled.  Two kinds of work reach the tasks: the flag of a *)
(* struct task_wake (analog_wake, set by analog_in_event) and messages in  *)
(* the serial receive buffer.                                              *)
(***************************************************************************)
EXTENDS Integers

CONSTANT MaxRx   \* bound: messages waiting in the receive buffer

ASSUME MaxRxAssumption == MaxRx \in Nat

VARIABLES
  main,             \* where the main thread is
  tasks_status,
  wake,             \* analog_wake.wake
  rx,               \* complete messages in the receive buffer
  shutdown_status,
  cut               \* history: no pass over the tasks since the last longjmp

flagVars == <<tasks_status, wake>>
taskVars == <<main, flagVars, rx, shutdown_status, cut>>

TS_IDLE == -1
TS_REQUESTED == 0
TS_RUNNING == 1

Places == {"top", "disable", "recheck", "sleep", "woken", "analog", "console", "command",
           "clean", "shutdown", "endfuncs"}

InterruptsOff == main \in {"recheck", "shutdown", "endfuncs"}

\* After the init functions sched_main enters run_tasks; tasks_status is a
\* zeroed static.
InitTasks ==
  /\ main = "top" /\ tasks_status = TS_REQUESTED
  /\ wake = FALSE /\ rx = 0
  /\ shutdown_status = 0 /\ cut = FALSE

\* Mutant: woken tasks that do not run yet are not counted
BusyRunning == tasks_status > TS_REQUESTED

sched_tasks_busy == tasks_status >= TS_REQUESTED

sched_wake_tasks == tasks_status' = TS_REQUESTED

sched_wake_task == sched_wake_tasks /\ wake' = TRUE

\* longjmp to sched_main, interrupts disabled
sched_shutdown == main' = "shutdown" /\ cut' = TRUE

-----------------------------------------------------------------------------
(* Interrupt handlers *)

\* periodic_event
\* Mutant: periodic_event does not wake the tasks
WakeNothing == UNCHANGED taskVars

WakeTasks ==
  /\ sched_wake_tasks
  /\ UNCHANGED <<main, wake, rx, shutdown_status, cut>>

\* analog_in_event with a finished measurement
WakeTask ==
  /\ sched_wake_task
  /\ UNCHANGED <<main, rx, shutdown_status, cut>>

\* rx_buffer_add with the last byte of a message
Receive ==
  /\ rx < MaxRx
  /\ rx' = rx + 1
  /\ sched_wake_tasks
  /\ UNCHANGED <<main, wake, shutdown_status, cut>>

\* A timer's callback, or the check for timers in the past, shuts down.
IrqShutdown ==
  /\ sched_shutdown
  /\ UNCHANGED <<flagVars, rx, shutdown_status>>

Irq == ~InterruptsOff /\ (WakeTasks \/ WakeTask \/ Receive \/ IrqShutdown)

-----------------------------------------------------------------------------
(* run_tasks *)

\* Check if can sleep: with interrupts enabled,
Top ==
  /\ main = "top"
  /\ main' = IF tasks_status = TS_REQUESTED THEN "woken" ELSE "disable"
  /\ UNCHANGED <<flagVars, rx, shutdown_status, cut>>

Disable ==
  /\ main = "disable"
  /\ main' = "recheck"
  /\ UNCHANGED <<flagVars, rx, shutdown_status, cut>>

\* ... and again with interrupts disabled.
\* Mutant: not tested again with interrupts disabled
RecheckNot ==
  /\ main = "recheck"
  /\ main' = "sleep" /\ tasks_status' = TS_IDLE
  /\ UNCHANGED <<wake, rx, shutdown_status, cut>>

Recheck ==
  /\ main = "recheck"
  /\ IF tasks_status = TS_REQUESTED
     THEN main' = "woken" /\ UNCHANGED tasks_status
     ELSE main' = "sleep" /\ tasks_status' = TS_IDLE
  /\ UNCHANGED <<wake, rx, shutdown_status, cut>>

\* irq_wait lets interrupts in; the loop around it ends once tasks are woken.
Awake ==
  /\ main = "sleep" /\ tasks_status = TS_REQUESTED
  /\ main' = "woken"
  /\ UNCHANGED <<flagVars, rx, shutdown_status, cut>>

BeginPass ==
  /\ main = "woken"
  /\ tasks_status' = TS_RUNNING
  /\ cut' = FALSE
  /\ main' = "analog"
  /\ UNCHANGED <<wake, rx, shutdown_status>>

\* task_analog_in: sched_check_wake reads and clears the flag, then the
\* measurements are reported.
CheckWake ==
  /\ main = "analog"
  /\ wake' = FALSE
  /\ main' = "console"
  /\ UNCHANGED <<tasks_status, rx, shutdown_status, cut>>

\* task_console_rx: there is no message; or rx_find_block accepts the first
\* one and its commands run; or rejects it (damaged, out of sequence, or left
\* behind by a shutdown after it ran).
NoMessage ==
  /\ main = "console" /\ rx = 0
  /\ main' = "top"
  /\ UNCHANGED <<flagVars, rx, shutdown_status, cut>>

RunMessage ==
  /\ main = "console" /\ rx > 0
  /\ main' = "command"
  /\ UNCHANGED <<flagVars, rx, shutdown_status, cut>>

RejectMessage ==
  /\ main = "console" /\ rx > 0
  /\ main' = "clean"
  /\ UNCHANGED <<flagVars, rx, shutdown_status, cut>>

\* A command that returns; command_clear_shutdown while shut down.
CommandDone ==
  /\ main = "command"
  /\ main' = "clean"
  /\ UNCHANGED <<flagVars, rx, shutdown_status, cut>>

CommandClear ==
  /\ main = "command" /\ shutdown_status = 1
  /\ shutdown_status' = 0
  /\ main' = "clean"
  /\ UNCHANGED <<flagVars, rx, cut>>

\* A command that shuts down: command_emergency_stop, a timer too close,
\* command_clear_shutdown while not shut down.  Its message stays.
CommandStop ==
  /\ main = "command"
  /\ sched_shutdown
  /\ UNCHANGED <<flagVars, rx, shutdown_status>>

\* rx_buffer_clean: the message is removed; any more data wakes the tasks.
Clean ==
  /\ main = "clean"
  /\ rx' = rx - 1
  /\ tasks_status' = IF rx > 1 THEN TS_REQUESTED ELSE tasks_status
  /\ main' = "top"
  /\ UNCHANGED <<wake, shutdown_status, cut>>

\* run_shutdown: before, and after, the shutdown functions
\* Mutant: the shutdown functions run with the shutdown already complete
BeginShutdownDone ==
  /\ main = "shutdown"
  /\ shutdown_status' = 1
  /\ main' = "endfuncs"
  /\ UNCHANGED <<flagVars, rx, cut>>

BeginShutdown ==
  /\ main = "shutdown"
  /\ shutdown_status' = 2
  /\ main' = "endfuncs"
  /\ UNCHANGED <<flagVars, rx, cut>>

\* Mutant: shutdown_status stays 2
EndShutdownNot ==
  /\ main = "endfuncs"
  /\ main' = "top"
  /\ UNCHANGED <<flagVars, rx, shutdown_status, cut>>

EndShutdown ==
  /\ main = "endfuncs"
  /\ shutdown_status' = 1
  /\ main' = "top"
  /\ UNCHANGED <<flagVars, rx, cut>>

RunTasks == \/ Top \/ Disable \/ Recheck \/ Awake \/ BeginPass \/ CheckWake
            \/ NoMessage \/ RunMessage \/ RejectMessage
            \/ CommandDone \/ CommandClear \/ CommandStop \/ Clean
            \/ BeginShutdown \/ EndShutdown

NextTasks == Irq \/ RunTasks

\* The processor runs, and periodic_timer keeps interrupting: it is always
\* on the timer list (TimerList, SentinelIsLast).
FairTasks == WF_taskVars(RunTasks) /\ WF_taskVars(~InterruptsOff /\ WakeTasks)

SafeTasks == InitTasks /\ [][NextTasks]_taskVars
SpecTasks == SafeTasks /\ FairTasks
-----------------------------------------------------------------------------
TypeOKTasks ==
  /\ main \in Places
  /\ tasks_status \in {TS_IDLE, TS_REQUESTED, TS_RUNNING}
  /\ wake \in BOOLEAN
  /\ rx \in 0 .. MaxRx
  /\ shutdown_status \in 0 .. 2
  /\ cut \in BOOLEAN

HasWork == wake \/ rx > 0

\* No wakeup is lost: whatever interrupts came before the processor was put
\* to sleep or come while it sleeps, if a task has work then the loop around
\* irq_wait ends, unless a shutdown cut the pass over the tasks short
\* (run_tasks, sched.c 202-219).
NoLostWakeup == main = "sleep" /\ HasWork => tasks_status = TS_REQUESTED \/ cut

\* The shutdown functions run to their end: neither a nested shutdown nor a
\* clear_shutdown is possible in between (run_shutdown, sched_clear_shutdown).
ShutdownIsAtomic == main = "endfuncs" <=> shutdown_status = 2

ShutdownsEnd == <>[](main # "shutdown")

\* If shutdowns stop happening, every woken task gets to run, and every
\* message received is looked at: also the work that a shutdown left behind,
\* because periodic_timer wakes the tasks.
WokenTaskRuns == ShutdownsEnd => (wake ~> ~wake)
MessageIsTaken == ShutdownsEnd => (rx > 0 ~> main = "clean")

\* A shutdown is always followed by the loop running again.
ShutdownCompletes == main = "shutdown" ~> main = "top" /\ shutdown_status = 1

\* Work that is announced is done: the woken task, messages, shutdowns.
WorkIsServed == WokenTaskRuns /\ MessageIsTaken /\ ShutdownCompletes
=============================================================================
