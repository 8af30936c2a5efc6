------------------------------- MODULE Reactor -------------------------------
(***************************************************************************)
(* The timers of the host (src/klippy/reactor.py).  A process of its own   *)
(* keeps the waketimes and tells the main process when one has come; the   *)
(* main process (printer.Master.run) runs the callback and answers with    *)
(* the timer's next waketime.  Both keep a list of the timers, and name a  *)
(* timer by its place in the list.  Two pipes connect them.                *)
(*                                                                         *)
(* A timer stands for the callback it was made with.  The code of the main *)
(* process that uses timers is its setup and the callbacks themselves.     *)
(***************************************************************************)
EXTENDS Integers, Sequences, FiniteSets, SequencesExt

CONSTANTS
  Timer, NoTimer,
  MaxTime,      \* bound: the clock stops here
  MaxMessages   \* bound: messages under way when another one is sent

ASSUME ReactorAssumption == MaxTime \in Nat /\ NoTimer \notin Timer

NEVER == MaxTime + 1
Waketime == 0 .. NEVER

VARIABLES
  now,
  _timers,      \* main process: the timers, by ident
  id,           \* ProcessTimer.id
  pipe,         \* messages to the reactor
  running,      \* the todo that the main process is at, or what else it does
  timers,       \* reactor process: its copies, with their waketimes
  _next_timer, todo,
  loop,         \* where _runner is; "dead" after an exception
  cancelled     \* history: a timer was cancelled

mainVars == <<_timers, id, running>>
reactorVars == <<timers, _next_timer, loop>>
vars == <<now, mainVars, pipe, reactorVars, todo, cancelled>>

Idle == [timer |-> NoTimer, id |-> -1]
Setup == [timer |-> NoTimer, id |-> -2]
Dead == [timer |-> NoTimer, id |-> -3]

Init ==
  /\ now = 0
  /\ _timers = <<>> /\ id = [t \in Timer |-> -1] /\ running = Setup
  /\ pipe = <<>> /\ todo = <<>>
  /\ timers = <<>> /\ _next_timer = NEVER /\ loop = "check"
  /\ cancelled = FALSE

Tick == now < MaxTime /\ now' = now + 1 /\ UNCHANGED <<mainVars, pipe, reactorVars, todo, cancelled>>

-----------------------------------------------------------------------------
(* The main process *)

InCode == running \notin {Idle, Dead} /\ Len(pipe) + Len(todo) < MaxMessages

\* send
Send(m) == pipe' = Append(pipe, m) /\ UNCHANGED <<now, running, reactorVars, todo>>

\* timer and timer_add; callback(t, w) does the same
timer_register(t, w) ==
  /\ InCode /\ id[t] = -1
  /\ id' = [id EXCEPT ![t] = Len(_timers)]
  /\ _timers' = Append(_timers, t)
  /\ Send([do |-> "timer", timer |-> t, waketime |-> w])
  /\ UNCHANGED cancelled

timer_update(t, w) ==
  /\ InCode /\ id[t] # -1
  /\ UNCHANGED <<_timers, id>>
  /\ Send([do |-> "update", id |-> id[t], waketime |-> w])
  /\ UNCHANGED cancelled

timer_cancel(t) ==
  /\ InCode /\ Contains(_timers, t) /\ id[t] < Len(_timers)
  /\ _timers' = RemoveAt(_timers, id[t] + 1)
  /\ cancelled' = TRUE
  /\ UNCHANGED id
  /\ Send([do |-> "remove", id |-> id[t]])

\* An ident past the end of the list raises: the main process ends.
CancelFails(t) ==
  /\ InCode /\ Contains(_timers, t) /\ id[t] >= Len(_timers)
  /\ pipe' = Append(pipe, [do |-> "remove", id |-> id[t]])
  /\ running' = Dead /\ cancelled' = TRUE
  /\ UNCHANGED <<now, _timers, id, reactorVars, todo>>

EndSetup ==
  /\ running = Setup
  /\ running' = Idle
  /\ UNCHANGED <<now, _timers, id, pipe, reactorVars, todo, cancelled>>

\* Master.run receives a todo and calls the callback of self._timers[tid].
BeginTodo ==
  /\ running = Idle /\ todo # <<>>
  /\ running' = IF Head(todo).id < Len(_timers)
                THEN [timer |-> _timers[Head(todo).id + 1], id |-> Head(todo).id]
                ELSE Dead
  /\ todo' = Tail(todo)
  /\ UNCHANGED <<now, _timers, id, pipe, reactorVars, cancelled>>

EndTodo(w) ==
  /\ running.timer # NoTimer
  /\ pipe' = Append(pipe, [do |-> "update", id |-> running.id, waketime |-> w])
  /\ running' = Idle
  /\ UNCHANGED <<now, _timers, id, reactorVars, todo, cancelled>>

-----------------------------------------------------------------------------
(* The reactor process *)

Least(S) == CHOOSE x \in S : \A y \in S : x <= y
Due(t) == t.waketime <= now

\* Mutant: idents are counted from one, but only by this process
TodoOfFromOne(t) == [id |-> t.id - 1, timer |-> t.timer]
TodoOf(t) == [id |-> t.id, timer |-> t.timer]

\* The places S of a list, in the order of the list
InOrder(S) == {f \in [1 .. Cardinality(S) -> S] : \A i, j \in DOMAIN f : i < j => f[i] < f[j]}

Fired(t) == IF Due(t) THEN [t EXCEPT !.waketime = NEVER] ELSE t

\* _check_timers: the timers that are due are sent in the order of the list.
_check_timers ==
  /\ loop = "check"
  /\ loop' = "poll"
  /\ IF now < _next_timer
     THEN UNCHANGED <<timers, _next_timer, todo>>
     ELSE /\ timers' = [i \in DOMAIN timers |-> Fired(timers[i])]
          /\ _next_timer' = Least({NEVER} \cup {timers'[i].waketime : i \in DOMAIN timers'})
          /\ \E order \in InOrder({i \in DOMAIN timers : Due(timers[i])}) :
               todo' = todo \o [i \in DOMAIN order |-> TodoOf(timers[order[i]])]
  /\ UNCHANGED <<now, mainVars, pipe, cancelled>>

PollNothing ==
  /\ loop = "poll" /\ pipe = <<>>
  /\ loop' = "check"
  /\ UNCHANGED <<now, mainVars, pipe, timers, _next_timer, todo, cancelled>>

Received(do) ==
  /\ loop = "poll" /\ pipe # <<>> /\ Head(pipe).do = do
  /\ pipe' = Tail(pipe)
  /\ UNCHANGED <<now, mainVars, todo, cancelled>>

\* Mutant: the newest timer is put first
DispatchTimerFirst ==
  /\ Received("timer")
  /\ timers' = <<[timer |-> Head(pipe).timer, id |-> id[Head(pipe).timer],
                  waketime |-> Head(pipe).waketime]>> \o timers
  /\ _next_timer' = Least({_next_timer, Head(pipe).waketime})
  /\ loop' = "check"

\* The ident travels with the timer.
DispatchTimer ==
  /\ Received("timer")
  /\ timers' = Append(timers, [timer |-> Head(pipe).timer, id |-> id[Head(pipe).timer],
                               waketime |-> Head(pipe).waketime])
  /\ _next_timer' = Least({_next_timer, Head(pipe).waketime})
  /\ loop' = "check"

\* Mutant: the next wakeup is not brought forward
UpdateQuietly ==
  /\ Received("update") /\ Head(pipe).id < Len(timers)
  /\ timers' = [timers EXCEPT ![Head(pipe).id + 1].waketime = Head(pipe).waketime]
  /\ loop' = "check" /\ UNCHANGED _next_timer

DispatchUpdate ==
  /\ Received("update") /\ Head(pipe).id < Len(timers)
  /\ timers' = [timers EXCEPT ![Head(pipe).id + 1].waketime = Head(pipe).waketime]
  /\ _next_timer' = Least({_next_timer, Head(pipe).waketime})
  /\ loop' = "check"

DispatchRemove ==
  /\ Received("remove") /\ Head(pipe).id < Len(timers)
  /\ timers' = RemoveAt(timers, Head(pipe).id + 1)
  /\ loop' = "check" /\ UNCHANGED _next_timer

\* An IndexError ends the process.
DispatchFails ==
  /\ Received("update") \/ Received("remove")
  /\ Head(pipe).id >= Len(timers)
  /\ loop' = "dead" /\ UNCHANGED <<timers, _next_timer>>

-----------------------------------------------------------------------------
EndSomeTodo == \E w \in Waketime : EndTodo(w)

Main ==
  \/ \E t \in Timer : timer_cancel(t) \/ CancelFails(t)
  \/ \E t \in Timer, w \in Waketime : timer_register(t, w) \/ timer_update(t, w)
  \/ EndSetup \/ BeginTodo \/ EndSomeTodo
_runner ==
  \/ _check_timers \/ PollNothing
  \/ DispatchTimer \/ DispatchUpdate \/ DispatchRemove \/ DispatchFails

Next == Tick \/ Main \/ _runner

\* The clock and the reactor go on; setup and callbacks come to an end.
Fairness == /\ WF_vars(Tick) /\ WF_vars(_runner)
            /\ WF_vars(EndSetup) /\ WF_vars(BeginTodo) /\ WF_vars(EndSomeTodo)
Spec == Init /\ [][Next]_vars
LiveSpec == Spec /\ Fairness
-----------------------------------------------------------------------------
Event == [id : Nat, timer : Timer]
TypeOK ==
  /\ now \in 0 .. MaxTime /\ id \in [Timer -> Nat \cup {-1}]
  /\ _timers \in Seq(Timer) /\ todo \in Seq(Event)
  /\ running \in Event \cup {Idle, Setup, Dead}
  /\ timers \in Seq([timer : Timer, id : Nat, waketime : Waketime])
  /\ _next_timer \in Waketime /\ loop \in {"check", "poll", "dead"}
  /\ cancelled \in BOOLEAN

\* A todo names the same timer to both processes, and so does the answer of the
\* callback that is running.
Named(event) == event.id < Len(_timers) /\ _timers[event.id + 1] = event.timer
TodoNamesItsTimer ==
  /\ \A i \in DOMAIN todo : Named(todo[i])
  /\ running.timer # NoTimer => Named(running)

\* Once the messages before it are taken, the reactor's list is that of the main
\* process, and an update on its way reaches the timer it was meant for: the reactor's
\* list is the first part of the main process's, the rest is on its way in that order,
\* and an update comes after the timer it names.
Adds == {j \in DOMAIN pipe : pipe[j].do = "timer"}
SameTimers ==
  /\ \A i \in DOMAIN timers : i <= Len(_timers) /\ _timers[i] = timers[i].timer
  /\ \A i \in Len(timers) + 1 .. Len(_timers) : \E j \in Adds : pipe[j].timer = _timers[i]
  /\ \A j \in Adds : id[pipe[j].timer] >= Len(timers)
  /\ \A j, k \in Adds : j < k => id[pipe[j].timer] < id[pipe[k].timer]
  /\ \A j \in DOMAIN pipe \ Adds, k \in Adds : j < k => pipe[j].id < id[pipe[k].timer]

\* While no timer is cancelled the two processes mean the same timer by an ident,
\* whatever is on its way between them, and neither of them ends with an
\* exception (reactor.py 158-170 and 193-225, printer.py 145-156).
IdentsAgree ==
  cancelled \/ (TodoNamesItsTimer /\ SameTimers /\ loop # "dead" /\ running # Dead)

\* Cancelling a timer leaves the others alone: a todo of a timer that is still
\* there names it (timer_cancel: "Cancel an event.").
CancelLeavesOthers ==
  \A i \in DOMAIN todo : Contains(_timers, todo[i].timer) => Named(todo[i])

\* A timer that is armed for a time that comes is run, unless an update disarms
\* it before it is told, or a timer is cancelled.
Armed(t) == \E i \in DOMAIN timers : timers[i].timer = t /\ timers[i].waketime # NEVER
Told(t) == \E i \in DOMAIN todo : todo[i].timer = t
CallbackRuns ==
  \A t \in Timer : Armed(t) ~> (running.timer = t \/ (~Armed(t) /\ ~Told(t)) \/ cancelled)
=============================================================================
