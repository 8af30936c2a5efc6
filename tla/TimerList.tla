----------------------------- MODULE TimerList ------------------------------
(***************************************************************************)
(* The firmware's timer list (src/hal/common/sched.c).  The linked list    *)
(* that starts at timer_list is the sequence of the nodes on it: next      *)
(* pointers of nodes that are not linked are never followed by the code.   *)
(* Every operation runs with interrupts disabled and is one action.        *)
(*                                                                         *)
(* Three nodes belong to the scheduler: periodic_timer and sentinel_timer, *)
(* which keep the list from ever being empty, and deleted_timer, a         *)
(* placeholder that takes the place of the first node, so that a dispatch  *)
(* that comes early finds something harmless to run.                       *)
(*                                                                         *)
(* The actions are also the building blocks of module Sched; here they are *)
(* driven by arbitrary legal callers.                                      *)
(***************************************************************************)
EXTENDS ClockArith, SequencesExt

CONSTANTS Timers,   \* the struct timer_s of configured devices
          Period    \* timer_from_us(100000): period of periodic_timer

periodic_timer == "periodic_timer"
sentinel_timer == "sentinel_timer"
deleted_timer  == "deleted_timer"

SchedNodes == {periodic_timer, sentinel_timer, deleted_timer}
Node == Timers \cup SchedNodes

ASSUME TimersAssumption == Timers \cap SchedNodes = {}
ASSUME PeriodAssumption == Period \in 1 .. (HalfRange - 1)

VARIABLES timer_list,   \* the nodes on the list, in order
          waketime      \* the waketime field of every node

listVars == <<timer_list, waketime>>

Listed(t) == Contains(timer_list, t)

\* the waketimes once node t is to run at w
Woken(t, w) == [waketime EXCEPT ![t] = w]

-----------------------------------------------------------------------------
\* insert_timer: the loop's first comparison is with the second node, and it
\* has no test for the end of the list: a position must exist.
IsInsertPos(q, wk, w, k) ==
  /\ timer_is_before(w, wk[q[k]])
  /\ \A j \in 2 .. (k - 1) : ~timer_is_before(w, wk[q[j]])

\* Mutant: always right after the first node
InsertPosSecond(q, wk, w) == 2

InsertPos(q, wk, w) == CHOOSE k \in 2 .. Len(q) : IsInsertPos(q, wk, w, k)

insert_timer(q, wk, t) == InsertAt(q, InsertPos(q, wk, wk[t]), t)

\* A caller sets waketime before it adds the timer.
SetWaketime(t, w) ==
  /\ waketime' = Woken(t, w)
  /\ UNCHANGED timer_list

\* sched_add_timer, after its check for a waketime that has passed: a timer
\* before all others comes after the placeholder, any other is inserted.
BecomesFirst(t) == timer_is_before(waketime[t], waketime[Head(timer_list)])

\* Mutant: the placeholder is not reused when it is already linked
AddFirstAgain(t) ==
  /\ BecomesFirst(t)
  /\ timer_list' = <<deleted_timer, t>> \o timer_list
  /\ waketime' = Woken(deleted_timer, waketime[t])

\* Mutant: the new timer becomes the first node itself
AddFirstBare(t) ==
  /\ BecomesFirst(t)
  /\ timer_list' = <<t>> \o timer_list
  /\ UNCHANGED waketime

AddFirst(t) ==
  /\ BecomesFirst(t)
  /\ timer_list' = <<deleted_timer, t>> \o
                     (IF Head(timer_list) = deleted_timer
                      THEN Tail(timer_list) ELSE timer_list)
  /\ waketime' = Woken(deleted_timer, waketime[t])

AddLater(t) ==
  /\ ~BecomesFirst(t)
  /\ timer_list' = insert_timer(timer_list, waketime, t)
  /\ UNCHANGED waketime

sched_add_timer(t) == AddFirst(t) \/ AddLater(t)

\* sched_del_timer: the first node is replaced, any other one is unlinked.
DelFirst(t) ==
  /\ Head(timer_list) = t
  /\ timer_list' = <<deleted_timer>> \o Tail(timer_list)
  /\ waketime' = Woken(deleted_timer, waketime[t])

\* Mutant: only the first node is ever removed
DelLaterNot(t) == Head(timer_list) # t /\ UNCHANGED listVars

DelLater(t) ==
  /\ Head(timer_list) # t
  /\ timer_list' = IF Listed(t)
                   THEN RemoveAt(timer_list, CHOOSE i \in 1 .. Len(timer_list) : timer_list[i] = t)
                   ELSE timer_list
  /\ UNCHANGED waketime

sched_del_timer(t) == DelFirst(t) \/ DelLater(t)

\* sched_timer_dispatch after the callback returned SF_DONE: the first node
\* leaves the list.
\* Mutant: it is not unlinked
DispatchDoneNot == UNCHANGED listVars

DispatchDone ==
  /\ timer_list' = Tail(timer_list)
  /\ UNCHANGED waketime

\* ... after it returned SF_RESCHEDULE, having left the waketimes wk: the
\* first node stays where it is, or moves to its place in the rest.
DispatchReschedule(wk) ==
  /\ waketime' = wk
  /\ timer_list' = IF timer_is_before(wk[Head(timer_list)], wk[timer_list[2]])
                   THEN timer_list
                   ELSE insert_timer(Tail(timer_list), wk, Head(timer_list))

\* the waketimes that periodic_event leaves
\* Mutant: the sentinel is left behind
PeriodicNoSentinel ==
  [waketime EXCEPT ![periodic_timer] = Plus(@, Period)]

PeriodicWaketimes ==
  LET next == Plus(waketime[periodic_timer], Period)
  IN  [waketime EXCEPT ![periodic_timer] = next,
                       ![sentinel_timer] = Plus(next, HalfRange)]

periodic_event ==
  /\ Head(timer_list) = periodic_timer
  /\ DispatchReschedule(PeriodicWaketimes)

deleted_event ==
  /\ Head(timer_list) = deleted_timer
  /\ DispatchDone

\* sched_timer_reset: all user timers are dropped.
sched_timer_reset ==
  /\ timer_list' = <<deleted_timer, periodic_timer, sentinel_timer>>
  /\ waketime' = Woken(deleted_timer, waketime[periodic_timer])

-----------------------------------------------------------------------------
\* The static initializers of the three timers; device structures are
\* allocated zeroed.
Init ==
  /\ timer_list = <<periodic_timer, sentinel_timer>>
  /\ waketime = [n \in Node |-> IF n = sentinel_timer THEN HalfRange ELSE 0]

\* Callers change and add a timer only while it is not on the list.
Set == \E t \in Timers, w \in Time : ~Listed(t) /\ SetWaketime(t, w)

Add == \E t \in Timers : ~Listed(t) /\ sched_add_timer(t)

Del == \E t \in Timers : sched_del_timer(t)

UserDone == Head(timer_list) \in Timers /\ DispatchDone

UserReschedule ==
  /\ Head(timer_list) \in Timers
  /\ \E w \in Time : DispatchReschedule(Woken(Head(timer_list), w))

Next == \/ Set \/ Add \/ Del
        \/ UserDone \/ UserReschedule \/ periodic_event \/ deleted_event
        \/ sched_timer_reset

Spec == Init /\ [][Next]_listVars
-----------------------------------------------------------------------------
TypeOK ==
  /\ timer_list \in Seq(Node)
  /\ waketime \in [Node -> Time]

\* Every node is linked once: a timer linked twice would close a cycle, and
\* insert_timer and sched_del_timer would never return.
NoNodeTwice ==
  \A i, j \in 1 .. Len(timer_list) : timer_list[i] = timer_list[j] => i = j

\* The sentinel is the last node and is half the range behind the periodic
\* timer, which is always linked (the comment above sentinel_event).
SentinelIsLast ==
  /\ Len(timer_list) >= 2
  /\ timer_list[Len(timer_list)] = sentinel_timer
  /\ waketime[sentinel_timer] = Plus(waketime[periodic_timer], HalfRange)
  /\ Listed(periodic_timer)

\* The placeholder is only ever the first node: the single static
\* deleted_timer is never linked in two places.
PlaceholderIsFirst ==
  \A i \in 2 .. Len(timer_list) : timer_list[i] # deleted_timer

\* Whatever the list looks like, the timer list keeps its shape: no cycle, no
\* second placeholder, the two guards in place (sched.c, 26-74 and 76-164).
WellFormed == NoNodeTwice /\ SentinelIsLast /\ PlaceholderIsFirst

\* insert_timer's loop, which has no test for the end of the list, always
\* stops at a node: "any added timer must always have a waketime less than
\* one of these two timers" (sched.c, 46-50).
InsertStops ==
  \A w \in Time : ~timer_is_before(w, waketime[Head(timer_list)]) =>
    \E k \in 2 .. Len(timer_list) : IsInsertPos(timer_list, waketime, w, k)
=============================================================================
