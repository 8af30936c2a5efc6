------------------------------- MODULE Sched --------------------------------
(***************************************************************************)
(* The scheduler of the firmware as a whole: the timer interrupt           *)
(* (timer_dispatch_many in src/hal/common/timer_irq.c) working on the list *)
(* of module TimerList, preempting the main thread of module TaskLoop,     *)
(* and the clock that rolls over.                                          *)
(*                                                                         *)
(* Callbacks of devices and command handlers are abstracted to what they   *)
(* do to the scheduler.  A callback finishes, moves its waketime on, wakes *)
(* a task or shuts the machine down; a command moves a timer               *)
(* (sched_del_timer, a new waketime, sched_add_timer), stops the machine   *)
(* or clears the shutdown.                                                 *)
(***************************************************************************)
EXTENDS TimerList, TaskLoop

CONSTANTS MinTry,        \* TIMER_MIN_TRY_TICKS
          Repeat,        \* TIMER_REPEAT_TICKS
          IdleRepeat,    \* TIMER_IDLE_REPEAT_TICKS
          Defer,         \* TIMER_DEFER_REPEAT_TICKS
          TooLate,       \* timer_from_us(1000)
          CommandDelays, \* waketimes commands ask for, relative to now
          EventDelays,   \* what callbacks add to the waketime of their timer
          MaxLatency     \* bound: ticks an interrupt or a callback is late

NoTimer == "no timer"

ASSUME NoTimerAssumption == NoTimer \notin Timers

\* 2, 5, 100 and 500 us in the code
ASSUME TicksAssumption ==
  /\ MinTry \in Nat /\ Defer \in Nat /\ Repeat \in Nat /\ IdleRepeat \in Nat /\ TooLate \in Nat
  /\ MinTry <= Defer /\ Defer <= Repeat /\ Repeat < HalfRange /\ IdleRepeat < HalfRange

\* Times that are compared are less than half the range apart: those of the
\* timers that run next, and of those that are late.
ASSUME DelaysAssumption ==
  /\ MaxLatency \in Nat
  /\ \A d \in CommandDelays \cup EventDelays \cup {Period} :
       d \in Nat /\ MaxLatency + MinTry + Defer + d < HalfRange

VARIABLES
  now,                \* timer_read_time()
  next_wake,          \* when the timer hardware interrupts next
  timer_repeat_until,
  isr,                \* where the timer interrupt handler is, or "off"
  op, cmd,            \* sched_add_timer's caller: where it is, its timer
  todo                \* devices task_end_analog_in has still to visit

clockVars == <<now, next_wake, timer_repeat_until>>
callVars == <<op, cmd, todo>>
vars == <<listVars, taskVars, clockVars, isr, callVars>>

First == Head(timer_list)

\* A pending interrupt preempts the main thread as soon as that has interrupts
\* enabled.
Due == ~timer_is_before(now, next_wake)
MainRuns == isr = "off" /\ (Due => InterruptsOff)

InitSched ==
  /\ Init /\ InitTasks
  /\ now = 0 /\ next_wake = 0 /\ timer_repeat_until = 0
  /\ isr = "off" /\ op = "none" /\ cmd = NoTimer /\ todo = {}

\* Time passes between any two steps; in the handler, while a callback runs or
\* it waits; in run_shutdown, before the reset.  MaxLatency bounds how late the
\* handler runs a timer, how long the main thread has interrupts disabled while
\* a timer is due, and, but for the handler's waits, how long it takes from
\* setting a waketime to adding the timer.
LateBy(t) == Diff(now, waketime[t])
InTime(t) == LateBy(t) < MaxLatency

\* Mutant: the clock does not roll over
TickNoWrap ==
  /\ isr = "off" /\ op = "none" /\ main \notin {"shutdown", "endfuncs"} /\ ~Due
  /\ now' = now + 1
  /\ UNCHANGED <<listVars, taskVars, next_wake, timer_repeat_until, isr, callVars>>

Tick ==
  /\ op = "add" => InTime(cmd) \/ (isr = "wait" /\ LateBy(cmd) < MaxLatency + MinTry)
  /\ \/ isr = "off" /\ main \notin {"shutdown", "endfuncs"} /\ ~Due
     \/ isr = "off" /\ main = "recheck" /\ InTime(First) /\ Diff(now, next_wake) < MaxLatency
     \/ isr = "off" /\ main = "shutdown" /\ InTime(First)
     \/ isr \in {"dispatch", "wait"} /\ InTime(First)
  /\ now' = Plus(now, 1)
  /\ UNCHANGED <<listVars, taskVars, next_wake, timer_repeat_until, isr, callVars>>

\* rx_buffer_add, from the serial interrupt
\* Mutant: also while the main thread has interrupts disabled
ReceiveAnytime ==
  /\ isr \in {"off", "wait"}
  /\ Receive
  /\ UNCHANGED <<listVars, clockVars, isr, callVars>>

ReceiveIrq ==
  /\ isr = "wait" \/ (isr = "off" /\ ~InterruptsOff)
  /\ Receive
  /\ UNCHANGED <<listVars, clockVars, isr, callVars>>

-----------------------------------------------------------------------------
(* The timer interrupt: timer_dispatch_many *)

Enter ==
  /\ isr = "off" /\ ~InterruptsOff /\ Due
  /\ isr' = "dispatch"
  /\ UNCHANGED <<listVars, taskVars, clockVars, callVars>>

\* sched_timer_dispatch with the timer of a device: the callback is done or
\* moves its waketime on, and may wake a task.
DispatchUser ==
  /\ isr = "dispatch" /\ First \in Timers
  /\ \/ DispatchDone
     \/ \E d \in EventDelays : DispatchReschedule(Woken(First, Plus(waketime[First], d)))
  /\ WakeTask \/ UNCHANGED taskVars
  /\ isr' = "check"
  /\ UNCHANGED <<clockVars, callVars>>

\* ... or shuts the machine down.
DispatchFatal ==
  /\ isr = "dispatch" /\ First \in Timers
  /\ IrqShutdown
  /\ isr' = "off" /\ op' = "none" /\ cmd' = NoTimer
  /\ UNCHANGED <<listVars, clockVars, todo>>

\* The scheduler's own timers; sentinel_timer is never first.
DispatchOwn ==
  /\ isr = "dispatch"
  /\ \/ periodic_event /\ WakeTasks
     \/ deleted_event /\ UNCHANGED taskVars
  /\ isr' = "check"
  /\ UNCHANGED <<clockVars, callVars>>

\* What follows a dispatch.  Nothing else changes the list while the handler
\* is active, so the waketime in the local variable next is the first timer's;
\* the local tru equals timer_repeat_until wherever it is read.
NextIn == Diff(waketime[First], now)
TooManyRepeats == timer_is_before(timer_repeat_until, now)
InThePast == NextIn < -TooLate /\ shutdown_status = 0

\* Schedule next timer normally.
CheckReturn ==
  /\ isr = "check" /\ NextIn > MinTry
  /\ next_wake' = waketime[First]
  /\ isr' = "off"
  /\ UNCHANGED <<listVars, taskVars, now, timer_repeat_until, callVars>>

CheckPast ==
  /\ isr = "check" /\ NextIn <= MinTry /\ TooManyRepeats /\ InThePast
  /\ IrqShutdown
  /\ isr' = "off" /\ op' = "none" /\ cmd' = NoTimer
  /\ UNCHANGED <<listVars, clockVars, todo>>

\* Let the tasks run for a while although a timer is due.
CheckDefer ==
  /\ isr = "check" /\ NextIn <= MinTry /\ TooManyRepeats /\ ~InThePast
  /\ sched_tasks_busy
  /\ timer_repeat_until' = Plus(now, Repeat)
  /\ next_wake' = Plus(now, Defer)
  /\ isr' = "off"
  /\ UNCHANGED <<listVars, taskVars, now, callVars>>

CheckRepeat ==
  /\ isr = "check" /\ NextIn <= MinTry
  /\ \/ ~TooManyRepeats /\ UNCHANGED timer_repeat_until
     \/ /\ TooManyRepeats /\ ~InThePast /\ ~sched_tasks_busy
        /\ timer_repeat_until' = Plus(now, IdleRepeat)
  /\ isr' = "wait"
  /\ UNCHANGED <<listVars, taskVars, now, next_wake, callVars>>

\* Interrupts are enabled until the timer is due.
WaitDone ==
  /\ isr = "wait" /\ NextIn <= 0
  /\ isr' = "dispatch"
  /\ UNCHANGED <<listVars, taskVars, clockVars, callVars>>

Interrupt == \/ Enter \/ DispatchUser \/ DispatchFatal \/ DispatchOwn
             \/ CheckReturn \/ CheckPast \/ CheckDefer \/ CheckRepeat \/ WaitDone

-----------------------------------------------------------------------------
(* The main thread *)

\* The steps of TaskLoop that leave the timers alone
LoopStep ==
  /\ MainRuns /\ op = "none"
  /\ \/ Top \/ Disable \/ Recheck \/ Awake \/ BeginPass \/ CheckWake
     \/ NoMessage \/ RunMessage \/ RejectMessage
     \/ CommandDone \/ CommandClear \/ CommandStop \/ Clean
  /\ UNCHANGED <<listVars, clockVars, isr, callVars>>

\* A command that moves a timer takes it off the list, sets when it runs next,
\* and adds it.  (A message holds one command.)
\* Mutant: the timer is not taken off the list first
CommandNoDel ==
  /\ MainRuns /\ main = "command" /\ op = "none"
  /\ \E t \in Timers : cmd' = t
  /\ op' = "set"
  /\ UNCHANGED <<listVars, taskVars, clockVars, isr, todo>>

CommandDel ==
  /\ MainRuns /\ main = "command" /\ op = "none"
  /\ \E t \in Timers : sched_del_timer(t) /\ cmd' = t
  /\ op' = "set"
  /\ UNCHANGED <<taskVars, clockVars, isr, todo>>

CommandSet ==
  /\ MainRuns /\ op = "set"
  /\ \E d \in CommandDelays : SetWaketime(cmd, Plus(now, d))
  /\ op' = "add"
  /\ UNCHANGED <<taskVars, clockVars, isr, cmd, todo>>

\* ... or leaves it off the list.
CommandLeave ==
  /\ MainRuns /\ op = "set"
  /\ CommandDone
  /\ op' = "none" /\ cmd' = NoTimer
  /\ UNCHANGED <<listVars, clockVars, isr, todo>>

\* sched_add_timer: timer_kick makes the interrupt due at once when the timer
\* is the first one, unless its time has passed.
TooClose == /\ BecomesFirst(cmd)
            /\ timer_is_before(waketime[cmd], now)
            /\ shutdown_status = 0

\* Mutant: no timer_kick
AddTimerNoKick ==
  /\ MainRuns /\ op = "add" /\ ~TooClose
  /\ sched_add_timer(cmd)
  /\ CommandDone \/ (main = "endfuncs" /\ UNCHANGED taskVars)
  /\ op' = "none" /\ cmd' = NoTimer
  /\ UNCHANGED <<clockVars, isr, todo>>

AddTimer ==
  /\ MainRuns /\ op = "add" /\ ~TooClose
  /\ \/ AddFirst(cmd) /\ next_wake' = now
     \/ AddLater(cmd) /\ UNCHANGED next_wake
  /\ CommandDone \/ (main = "endfuncs" /\ UNCHANGED taskVars)
  /\ op' = "none" /\ cmd' = NoTimer
  /\ UNCHANGED <<now, timer_repeat_until, isr, todo>>

AddTooClose ==
  /\ MainRuns /\ op = "add" /\ TooClose
  /\ CommandStop
  /\ op' = "none" /\ cmd' = NoTimer
  /\ UNCHANGED <<listVars, clockVars, isr, todo>>

\* run_shutdown: all timers are dropped,
ResetTimers ==
  /\ MainRuns /\ BeginShutdown
  /\ sched_timer_reset /\ next_wake' = now
  /\ todo' = Timers
  /\ UNCHANGED <<now, timer_repeat_until, isr, op, cmd>>

\* ... task_end_analog_in adds those of sampling inputs again,
EndFunc ==
  /\ MainRuns /\ main = "endfuncs" /\ op = "none"
  /\ \E t \in todo :
       /\ todo' = todo \ {t}
       /\ \/ /\ \E d \in CommandDelays : SetWaketime(t, Plus(now, d))
             /\ op' = "add" /\ cmd' = t
          \/ UNCHANGED <<listVars, op, cmd>>
  /\ UNCHANGED <<taskVars, clockVars, isr>>

\* ... and the task loop starts again.
RestartLoop ==
  /\ MainRuns /\ todo = {} /\ op = "none"
  /\ EndShutdown
  /\ UNCHANGED <<listVars, clockVars, isr, callVars>>

MainThread == \/ LoopStep \/ CommandDel \/ CommandSet \/ CommandLeave
              \/ AddTimer \/ AddTooClose
              \/ ResetTimers \/ EndFunc \/ RestartLoop

NextSched == Tick \/ ReceiveIrq \/ Interrupt \/ MainThread

\* The handler keeps running, and the main thread goes on between interrupts.
Fairness == WF_vars(Tick) /\ WF_vars(Interrupt) /\ SF_vars(MainThread)

SafeSched == InitSched /\ [][NextSched]_vars
SpecSched == SafeSched /\ Fairness
-----------------------------------------------------------------------------
TypeOKSched ==
  /\ TypeOK /\ TypeOKTasks
  /\ now \in Time /\ next_wake \in Time /\ timer_repeat_until \in Time
  /\ isr \in {"off", "dispatch", "check", "wait"}
  /\ op \in {"none", "set", "add"} /\ cmd \in Timers \cup {NoTimer}
  /\ todo \subseteq Timers

\* The list is in the order the timers are to run, under the comparison that
\* rolls over, for every pair of timers and not only for neighbours (insert_timer
\* and sched_timer_dispatch compare neighbours only).
Ordered ==
  \A i, j \in 1 .. Len(timer_list) - 1 :
    i < j => ~timer_is_before(waketime[timer_list[j]], waketime[timer_list[i]])

\* No timer is forgotten: whenever the handler is not active, the hardware is
\* set to interrupt no later than the first timer's waketime, or within the
\* time for which the handler deferred it.  So every change of the first timer
\* must kick the timer (timer_kick in sched_add_timer and sched_timer_reset).
NothingForgotten ==
  isr = "off" /\ main # "shutdown" =>
    \/ ~timer_is_before(waketime[First], next_wake)
    \/ Diff(next_wake, now) <= Defer

\* The handler runs the first timer without looking at its waketime, yet no
\* callback of a device runs early: a kick always finds the placeholder first.
NeverEarly == isr = "dispatch" /\ First \in Timers => LateBy(First) >= 0

\* The callers of the timer list are legal ones: no timer is added or changed
\* while it is linked, whatever interrupt or shutdown comes in between.
ImplementsTimerList == Spec

\* The preempted main thread is the one of TaskLoop.
ImplementsTaskLoop == SafeTasks

Promise == INSTANCE Alarms WITH
  pending <- [t \in {u \in Timers : Listed(u)} |-> waketime[t]],
  running <- IF isr = "dispatch" /\ First \in Timers THEN First ELSE NoTimer

\* The scheduler keeps its promise to the devices: no timer runs early, out of
\* order, twice, after it was removed or after a shutdown, and none vanishes.
KeepsPromise == Promise!SpecAlarms

\* A timer that is due runs, or is moved or dropped.
DueTimerRuns ==
  \A t \in Timers : Listed(t) /\ LateBy(t) >= 0 ~> ~Listed(t) \/ LateBy(t) < 0

\* Timers do not starve the tasks: woken tasks run, however many timers are
\* due, because the handler defers them (timer_dispatch_many, 47-56).
TasksNotStarved == tasks_status = TS_REQUESTED ~> main \in {"analog", "shutdown"}

\* Timers are in order, none is forgotten and none is early.
TimersAreInTime == Ordered /\ NothingForgotten /\ NeverEarly
-----------------------------------------------------------------------------
(* What TLC is given: short delays, the symmetry of the devices, and a view. *)
MCCommandDelays == {0, 2}
MCLiveDelays == {0}
MCEventDelays == {3}
Symmetry == Permutations(Timers)

\* Nothing the scheduler does depends on where the clock's origin is, on the
\* waketime of a timer that is not linked, or on the hardware's match while the
\* handler runs or a shutdown is under way (it is set before it is read again):
\* states that differ in these alone have the same successors up to the same
\* difference.
Rel(t) == Diff(t, now)
View ==
  <<[i \in DOMAIN timer_list |-> <<timer_list[i], Rel(waketime[timer_list[i]])>>],
    IF op = "add" THEN Rel(waketime[cmd]) ELSE 0,
    IF isr = "off" /\ main # "shutdown" THEN Rel(next_wake) ELSE 0,
    Rel(timer_repeat_until), taskVars, isr, callVars>>
=============================================================================
