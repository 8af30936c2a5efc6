------------------------------ MODULE AvrTimer ------------------------------
(***************************************************************************)
(* The timer hardware of the AVR and its interrupt (src/hal/avr/timer.c).  *)
(* The hardware counter has 16 bits and interrupts when it EQUALS a        *)
(* compare register; the firmware's times have 32.  timer_high counts the  *)
(* overflows, and wrap_timer, a timer on the list, keeps every deadline    *)
(* within half a turn of the hardware counter.                             *)
(*                                                                         *)
(* The timer list is reduced to its two guards of interest, wrap_timer and *)
(* deleted_timer, and the timer of one device.  Time passes between any    *)
(* two steps, Slow ticks at most while interrupts are off.                 *)
(***************************************************************************)
EXTENDS ClockArith

CONSTANTS
  Wrap,        \* 65536: a turn of TCNT1
  Edge,        \* 256: calc.b1 = 0xff is true this long
  KickTicks,   \* 50
  MinTry, Repeat, IdleRepeat, Defer,  \* TIMER_MIN_TRY_TICKS and so on
  TooLate,     \* timer_from_us(1000)
  AddDelays, EventDelays,  \* how far ahead timers are added and move on
  AddStopped,  \* BOOLEAN: commands add timers while the firmware is shut down
  Slow,        \* bound: ticks between two steps with interrupts off
  Latency      \* bound: ticks until a pending interrupt is served

ASSUME AvrAssumption ==
  /\ Wrap \in Nat \ {0} /\ Modulus % Wrap = 0 /\ AddStopped \in BOOLEAN /\ Edge \in 1 .. Wrap
  /\ Slow < KickTicks /\ Slow < MinTry /\ Slow < Defer /\ Slow < Edge

NoTime == -1

VARIABLES
  now,                      \* the true time; TCNT1 holds its lower half
  TOV1, OCF1A, OCF1B,       \* flags: overflow, match with OCR1A, match with OCR1B
  OCR1A, OCR1B,
  timer_high,
  wrap_waketime, deleted, user, \* waketimes on the timer list, or NoTime
  pc, next,                 \* where the processor is; the ISR's local variable
  calc, begun,              \* timer_read_time: what it has read, and when it began
  stopped,                  \* shutdown_status # 0
  slack                     \* ticks since the last step

hwVars == <<now, TOV1, OCF1A, OCF1B, OCR1A, OCR1B>>
listVars == <<timer_high, wrap_waketime, deleted, user>>
readVars == <<calc, begun>>
avrVars == <<hwVars, listVars, pc, next, readVars, stopped, slack>>

Low(t) == t % Wrap
High(t) == t \div Wrap
Highs == Modulus \div Wrap
Join(high, low) == (high % Highs) * Wrap + low
TCNT1 == Low(now)

\* int16_t
Short(d) == LET s == d % Wrap IN IF s >= Wrap \div 2 THEN s - Wrap ELSE s

InitAvr ==
  /\ now = 0 /\ TOV1 = FALSE /\ OCF1A = FALSE /\ OCF1B = FALSE
  /\ OCR1A = KickTicks /\ OCR1B = KickTicks
  /\ timer_high = 0 /\ wrap_waketime = Wrap \div 2 /\ deleted = NoTime /\ user = 0
  /\ pc = "main" /\ next = 0 /\ calc = 0 /\ begun = 0 /\ stopped = FALSE /\ slack = 0

-----------------------------------------------------------------------------
(* The hardware *)

Patience == IF pc = "main" THEN Latency ELSE Slow

Tick ==
  /\ (pc = "main" /\ ~OCF1A) \/ slack < Patience
  /\ now' = Plus(now, 1)
  /\ TOV1' = (TOV1 \/ Low(now') = 0)
  /\ OCF1A' = (OCF1A \/ Low(now') = OCR1A)
  /\ OCF1B' = (OCF1B \/ Low(now') = OCR1B)
  /\ slack' = IF pc = "main" /\ ~OCF1A THEN 0 ELSE slack + 1
  /\ UNCHANGED <<OCR1A, OCR1B, listVars, pc, next, readVars, stopped>>

-----------------------------------------------------------------------------
(* The list: deleted_timer is first while it is on it, then the earlier one. *)

FirstOf(d, u, w) == IF d # NoTime THEN d ELSE IF u # NoTime /\ timer_is_before(u, w) THEN u ELSE w
FirstTime == FirstOf(deleted, user, wrap_waketime)

Main == pc = "main" /\ ~OCF1A

\* sched_add_timer: a timer before all others kicks the hardware.
AddTimer(d) ==
  /\ Main /\ user = NoTime /\ (stopped => AddStopped)
  /\ user' = Plus(now, d)
  /\ IF timer_is_before(Plus(now, d), FirstTime)
     THEN deleted' = user' /\ pc' = "kick"
     ELSE UNCHANGED <<deleted, pc>>
  /\ slack' = 0
  /\ UNCHANGED <<hwVars, timer_high, wrap_waketime, next, readVars, stopped>>

\* sched_del_timer
DelTimer ==
  /\ Main /\ user # NoTime
  /\ deleted' = IF deleted = NoTime /\ FirstTime = user THEN user ELSE deleted
  /\ user' = NoTime
  /\ slack' = 0
  /\ UNCHANGED <<hwVars, timer_high, wrap_waketime, pc, next, readVars, stopped>>

\* run_shutdown: sched_timer_reset, then task_end_timer adds wrap_timer again.
Reset ==
  /\ user' = NoTime /\ deleted' = wrap_waketime
  /\ stopped' = TRUE
  /\ pc' = "kick" /\ slack' = 0
  /\ UNCHANGED <<hwVars, timer_high, wrap_waketime, next, readVars>>

\* Bound: the host's commands that stop or restart the firmware come farther
\* apart than it takes the timers to catch up.
CaughtUp == Main /\ ~timer_is_before(FirstTime, now)

MainShutdown == CaughtUp /\ Reset

ClearStopped ==
  /\ CaughtUp /\ stopped
  /\ stopped' = FALSE /\ slack' = 0
  /\ UNCHANGED <<hwVars, listVars, pc, next, readVars>>

-----------------------------------------------------------------------------
(* timer_kick *)

\* Mutant: the compare register is taken to be as wide as the time
KickWide ==
  /\ pc = "kick"
  /\ OCR1A' = TCNT1 + KickTicks
  /\ pc' = "kicked" /\ slack' = 0
  /\ UNCHANGED <<now, TOV1, OCF1A, OCF1B, OCR1B, listVars, next, readVars, stopped>>

Kick ==
  /\ pc = "kick"
  /\ OCR1A' = Low(TCNT1 + KickTicks)
  /\ pc' = "kicked" /\ slack' = 0
  /\ UNCHANGED <<now, TOV1, OCF1A, OCF1B, OCR1B, listVars, next, readVars, stopped>>

KickClear ==
  /\ pc = "kicked"
  /\ OCF1A' = FALSE
  /\ pc' = "main" /\ slack' = 0
  /\ UNCHANGED <<now, TOV1, OCF1B, OCR1A, OCR1B, listVars, next, readVars, stopped>>

-----------------------------------------------------------------------------
(* timer_read_time *)

\* Mutant: no test for an overflow after the low half was read
TimerValueNoEdge(c) == IF TOV1 THEN Plus(c, Wrap) ELSE c
TimerValue(c) == IF TOV1 /\ Low(c) < Wrap - Edge THEN Plus(c, Wrap) ELSE c

ReadLow ==
  /\ Main
  /\ calc' = Join(timer_high, TCNT1) /\ begun' = now
  /\ pc' = "read" /\ slack' = 0
  /\ UNCHANGED <<hwVars, listVars, next, stopped>>

ReadDone ==
  /\ pc = "read"
  /\ calc' = 0 /\ begun' = 0
  /\ pc' = "main" /\ slack' = 0
  /\ UNCHANGED <<hwVars, listVars, next, stopped>>

-----------------------------------------------------------------------------
(* ISR(TIMER1_COMPA_vect) *)

Enter ==
  /\ pc = "main" /\ OCF1A
  /\ OCF1A' = FALSE
  /\ pc' = "dispatch" /\ slack' = 0
  /\ UNCHANGED <<now, TOV1, OCF1B, OCR1A, OCR1B, listVars, next, readVars, stopped>>

\* sched_timer_dispatch returns the waketime of the new first timer.
Dispatched ==
  /\ next' = Low(FirstOf(deleted', user', wrap_waketime'))
  /\ pc' = "look" /\ slack' = 0
  /\ UNCHANGED <<now, OCF1A, OCF1B, OCR1A, OCR1B, readVars, stopped>>

DispatchDeleted ==
  /\ pc = "dispatch" /\ deleted # NoTime
  /\ deleted' = NoTime
  /\ UNCHANGED <<TOV1, timer_high, wrap_waketime, user>>
  /\ Dispatched

RunsUser == pc = "dispatch" /\ deleted = NoTime /\ user # NoTime /\ FirstTime = user

DispatchUser ==
  /\ RunsUser
  /\ user' \in {NoTime} \cup {Plus(user, d) : d \in EventDelays}
  /\ UNCHANGED <<TOV1, timer_high, wrap_waketime, deleted>>
  /\ Dispatched

RunsWrap == pc = "dispatch" /\ deleted = NoTime /\ ~RunsUser

\* timer_event: the hardware timer has overflowed
\* Mutant: the next event is a whole turn away
CountOverflowWhole ==
  /\ RunsWrap /\ TOV1
  /\ TOV1' = FALSE
  /\ timer_high' = (timer_high + 1) % Highs
  /\ wrap_waketime' = Join(timer_high + 2, 0)
  /\ UNCHANGED <<deleted, user>>
  /\ Dispatched

CountOverflow ==
  /\ RunsWrap /\ TOV1
  /\ TOV1' = FALSE
  /\ timer_high' = (timer_high + 1) % Highs
  /\ wrap_waketime' = Join(timer_high + 1, Wrap \div 2)
  /\ UNCHANGED <<deleted, user>>
  /\ Dispatched

AwaitOverflow ==
  /\ RunsWrap /\ ~TOV1
  /\ wrap_waketime' = Join(timer_high + 1, 0)
  /\ UNCHANGED <<TOV1, timer_high, deleted, user>>
  /\ Dispatched

diff == Short(TCNT1 - next)

\* Another timer is pending - briefly allow irqs and then run it
LookPending ==
  /\ pc = "look" /\ diff >= 0
  /\ pc' = IF OCF1B THEN "defer" ELSE "dispatch"
  /\ slack' = 0
  /\ UNCHANGED <<hwVars, listVars, next, readVars, stopped>>

\* Mutant: however close it is
LookDoneAnyway ==
  /\ pc = "look" /\ diff < 0
  /\ pc' = "set" /\ slack' = 0
  /\ UNCHANGED <<hwVars, listVars, next, readVars, stopped>>

\* Schedule next timer normally
LookDone ==
  /\ pc = "look" /\ diff <= -MinTry
  /\ pc' = "set" /\ slack' = 0
  /\ UNCHANGED <<hwVars, listVars, next, readVars, stopped>>

LookAgain ==
  /\ pc = "look" /\ diff < 0 /\ diff > -MinTry
  /\ pc' = IF OCF1B THEN "defer" ELSE "look"
  /\ slack' = 0
  /\ UNCHANGED <<hwVars, listVars, next, readVars, stopped>>

\* check_defer: too many repeat timers
Late == Short(next - TCNT1) < -TooLate

DeferShutdown == pc = "defer" /\ Late /\ ~stopped /\ Reset

DeferBusy ==
  /\ pc = "defer" /\ (Late => stopped)
  /\ OCR1B' = Low(TCNT1 + Repeat) /\ OCF1B' = FALSE
  /\ next' = Low(TCNT1 + Defer)
  /\ pc' = "set" /\ slack' = 0
  /\ UNCHANGED <<now, TOV1, OCF1A, OCR1A, listVars, readVars, stopped>>

\* Mutant: the compare register keeps the match that was served
DeferIdleKeeps ==
  /\ pc = "defer" /\ (Late => stopped)
  /\ OCR1B' = Low(TCNT1 + IdleRepeat) /\ OCF1B' = FALSE
  /\ pc' = "look" /\ slack' = 0
  /\ UNCHANGED <<now, TOV1, OCF1A, OCR1A, listVars, next, readVars, stopped>>

DeferIdle ==
  /\ pc = "defer" /\ (Late => stopped)
  /\ OCR1B' = Low(TCNT1 + IdleRepeat) /\ OCF1B' = FALSE
  /\ OCR1A' = TCNT1
  /\ pc' = "look" /\ slack' = 0
  /\ UNCHANGED <<now, TOV1, OCF1A, listVars, next, readVars, stopped>>

SetTimer ==
  /\ pc = "set"
  /\ OCR1A' = next
  /\ pc' = "main" /\ slack' = 0
  /\ UNCHANGED <<now, TOV1, OCF1A, OCF1B, OCR1B, listVars, next, readVars, stopped>>

-----------------------------------------------------------------------------
Dispatch == DispatchDeleted \/ DispatchUser \/ CountOverflow \/ AwaitOverflow
TIMER1_COMPA == \/ Enter \/ Dispatch \/ LookPending \/ LookDone \/ LookAgain
                \/ DeferShutdown \/ DeferBusy \/ DeferIdle \/ SetTimer
MainAvr == \/ \E d \in AddDelays : AddTimer(d)
           \/ DelTimer \/ MainShutdown \/ ClearStopped \/ Kick \/ KickClear \/ ReadLow \/ ReadDone

NextAvr == Tick \/ TIMER1_COMPA \/ MainAvr
SpecAvr == InitAvr /\ [][NextAvr]_avrVars
-----------------------------------------------------------------------------
InIsr == pc \in {"dispatch", "look", "defer", "set"}

TypeOKAvr ==
  /\ now \in Time /\ {TOV1, OCF1A, OCF1B} \subseteq BOOLEAN
  /\ {OCR1A, OCR1B, next} \subseteq 0 .. Wrap - 1
  /\ timer_high \in 0 .. Highs - 1 /\ wrap_waketime \in Time
  /\ {deleted, user} \subseteq Time \cup {NoTime}
  /\ stopped \in BOOLEAN
  /\ pc \in {"main", "kick", "kicked", "read", "dispatch", "look", "defer", "set"}

\* timer_read_time returns a time between its call and its return, even when
\* the counter overflows between the two reads, and wherever it is called.
TimeIsRight ==
  /\ TimerValue(Join(timer_high, TCNT1)) = now
  /\ pc = "read" => Diff(TimerValue(calc), begun) \in 0 .. Diff(now, begun)

\* No timer waits for another turn of the counter: whenever the interrupt has
\* returned, the next match comes no later than the first deadline, or within
\* the few ticks of a kick or a deferral.
MatchIn == ((OCR1A - TCNT1 - 1) % Wrap) + 1
Most(x, y) == IF x > y THEN x ELSE y
MatchInTime ==
  Main => MatchIn <= Most(Diff(FirstTime, now), Most(KickTicks, Defer))

\* The interrupt does not interrupt itself in the places where it enables
\* interrupts.
NotNested == InIsr => ~OCF1A

\* A device's timer never runs before its waketime, although only 16 bits of it
\* are compared.
RunsNoUserEarly == [][DispatchUser => ~timer_is_before(now, user)]_avrVars
=============================================================================
