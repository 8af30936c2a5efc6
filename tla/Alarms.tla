------------------------------- MODULE Alarms -------------------------------
(***************************************************************************)
(* What the scheduler promises to the devices that use it (the comments    *)
(* above sched_add_timer, sched_del_timer, sched_timer_dispatch and        *)
(* sched_timer_reset in src/hal/common/sched.c), with no list, no          *)
(* interrupts and no scheduler timers: a timer that was added runs no      *)
(* earlier than its waketime, in the order of the waketimes, once, unless  *)
(* it is removed or a shutdown drops all timers.                           *)
(***************************************************************************)
EXTENDS ClockArith

CONSTANTS Timers, NoTimer

VARIABLES pending,   \* waketimes of the timers that wait to run
          running,   \* the timer whose callback is running, or NoTimer
          now

Nothing == [t \in {} |-> 0]

InitAlarms == pending = Nothing /\ running = NoTimer /\ now = 0

IsPending(t) == t \in DOMAIN pending
Without(t) == [u \in DOMAIN pending \ {t} |-> pending[u]]
With(t, w) == [u \in DOMAIN pending \cup {t} |-> IF u = t THEN w ELSE pending[u]]

PassTime == now' = Plus(now, 1) /\ UNCHANGED <<pending, running>>

\* Timers are added and removed while no callback runs.
Schedule(t, w) ==
  /\ running = NoTimer /\ ~IsPending(t)
  /\ pending' = With(t, w)
  /\ UNCHANGED <<running, now>>

Cancel(t) ==
  /\ running = NoTimer /\ IsPending(t)
  /\ pending' = Without(t)
  /\ UNCHANGED <<running, now>>

\* The callback of t starts: it is due, and no other timer should run before.
Start(t) ==
  /\ running = NoTimer /\ IsPending(t)
  /\ ~timer_is_before(now, pending[t])
  /\ \A u \in DOMAIN pending : ~timer_is_before(pending[u], pending[t])
  /\ running' = t
  /\ UNCHANGED <<pending, now>>

\* It is done, or waits for another time,
Finish(t) ==
  /\ running = t
  /\ \/ pending' = Without(t)
     \/ \E w \in Time \ {pending[t]} : pending' = With(t, w)
  /\ running' = NoTimer
  /\ UNCHANGED now

\* ... or shuts the machine down.
Abort == running # NoTimer /\ running' = NoTimer /\ UNCHANGED <<pending, now>>

DropAll == running = NoTimer /\ pending' = Nothing /\ UNCHANGED <<running, now>>

NextAlarms ==
  \/ PassTime \/ Abort \/ DropAll
  \/ \E t \in Timers : Cancel(t) \/ Start(t) \/ Finish(t) \/ \E w \in Time : Schedule(t, w)

SpecAlarms == InitAlarms /\ [][NextAlarms]_<<pending, running, now>>
=============================================================================
