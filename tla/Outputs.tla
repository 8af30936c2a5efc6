------------------------------- MODULE Outputs -------------------------------
(* The outputs of the boards (controller.py, servo.py, i2c.sx1509.py): pins   *)
(* set by SET_PIN and servos, which drive one output or, through a virtual    *)
(* pin, several; outputs of the board, to which orders are sent for a time to *)
(* come, and outputs of an expander, whose pins share a register.  Values are *)
(* halves: 2 is 1.0.  Time is print time, in units of PIN_MIN_TIME / 2.       *)
EXTENDS Integers, Sequences, SequencesExt, FiniteSetsExt

CONSTANTS
  Layouts,           \* users, each [kind, outs]; outs a sequence of [id, type, invert]
  PinMinTime,        \* PIN_MIN_TIME
  Lead,              \* get_last_move_time() is at least this far ahead of the board
  Latency,           \* an order that may be sent reaches the board within this time
  MinPulse,          \* the smallest pulse of a servo
  StartSlot,         \* get_query_slot
  MaxTime            \* bound: the time modelled

VARIABLES
  layout, stage,     \* stage: "load", "running", "failed" or "shutdown"
  now,
  user,              \* value, time of the last order, enable of a servo
  out,               \* start and shutdown value of an output, as its pin shows them
  host,              \* last_clock of each queue, the registers as the host knows them, orders under way
  board              \* level of each pin, the order that waits for its time, whether one was missed

outputs_vars == <<layout, stage, now, user, out, host, board>>

Full == 2
Values == 0 .. Full
Users == DOMAIN layout
OutsOf(u) == {layout[u].outs[i] : i \in DOMAIN layout[u].outs}
Outs == UNION {OutsOf(u) : u \in Users}
Ids == {o.id : o \in Outs}
OnChip(o) == o.type \in {"sx digital", "sx pwm"}
OnChips == {o.id : o \in {p \in Outs : OnChip(p)}}
ChipIds(type) == {o.id : o \in {p \in Outs : p.type = type}}
QueueOf(o) == IF OnChip(o) THEN "chip" ELSE o.id
Queues == {QueueOf(o) : o \in Outs}
None == <<>>

-----------------------------------------------------------------------------
(* What a value is on the pin *)

Digital(o, value) == IF (value # 0) # o.invert THEN 1 ELSE 0
Pwm(o, value) == IF o.invert THEN Full - value ELSE value

\* An inverted expander pin sinks its current: the register holds the complement.
Register(o, value) == IF o.invert THEN value ELSE Full - value

Level(o, value) ==
  CASE o.type \in {"digital", "sx digital"} -> Digital(o, value)
    [] o.type \in {"pwm", "soft pwm"} -> Pwm(o, value)
    [] o.type = "sx pwm" -> Register(o, value)

-----------------------------------------------------------------------------
(* Orders: minclock keeps one behind the time of the one before it *)

\* Mutant: an order may be sent while the one before it still waits
NoMinclock(h, q, t, image) ==
  [h EXCEPT !.queue[q] = Append(@, [clock |-> t, release |-> now, image |-> image]), !.clock[q] = t]

Send(h, q, t, image) ==
  [h EXCEPT !.queue[q] = Append(@, [clock |-> t, release |-> Max({h.clock[q], now}), image |-> image]),
            !.clock[q] = t]

\* The data register holds the bits of all the pins that have not a register of their own.
send_register(h, o, t) ==
  Send(h, "chip", t, [id \in IF o.type = "sx pwm" THEN {o.id} ELSE ChipIds("sx digital") |-> h.reg[id]])

\* Mutant: the register of the expander is written as it was loaded
Forgetful(h, o, t, value) ==
  IF OnChip(o) THEN Send(h, "chip", t, [id \in ChipIds(o.type) |-> IF id = o.id THEN Level(o, value) ELSE out[id].start])
  ELSE Send(h, o.id, t, [id \in {o.id} |-> Level(o, value)])

set_register(h, o, value) == [h EXCEPT !.reg[o.id] = Level(o, value)]

set(h, o, t, value) ==
  IF OnChip(o) THEN send_register(set_register(h, o, value), o, t)
  ELSE Send(h, o.id, t, [id \in {o.id} |-> Level(o, value)])

\* A virtual pin passes what it is told on to each of its pins.
SetAll(u, t, value) == FoldLeft(LAMBDA h, o : set(h, o, t, value), host, layout[u].outs)

\* Mutant: an order may follow the one before it at once
Unspaced(u, print_time) == print_time
Spaced(u, print_time) == Max({print_time, user[u].time + PinMinTime})

-----------------------------------------------------------------------------
(* Loading the configuration *)

IsVirtual(u) == Len(layout[u].outs) > 1
Loaded(u) == user[u].loaded

\* The registers have the start values of the pins before the expander is set up.
StartRegisters(outs) == [id \in Ids |-> outs[id].start]

setup_start_value(u, value, shutdown) ==
  /\ out' = [id \in Ids |->
       IF \E o \in OutsOf(u) : o.id = id
       THEN LET o == CHOOSE p \in OutsOf(u) : p.id = id
            IN  [start |-> Level(o, value), shutdown |-> Level(o, shutdown)]
       ELSE out[id]]
  /\ host' = [host EXCEPT !.reg = StartRegisters(out')]

\* A virtual pin cannot be told to be static: the call fails.
LoadPin(u, static, value, shutdown) ==
  /\ stage = "load" /\ layout[u].kind # "servo" /\ ~Loaded(u)
  /\ user' = [user EXCEPT ![u].loaded = TRUE, ![u].static = static, ![u].value = value, ![u].shutdown = shutdown]
  /\ IF static /\ IsVirtual(u) THEN stage' = "failed" /\ UNCHANGED <<out, host>>
     ELSE setup_start_value(u, value, shutdown) /\ UNCHANGED stage
  /\ UNCHANGED <<layout, now, board>>

LoadServo(u, enable, initial) ==
  /\ stage = "load" /\ layout[u].kind = "servo" /\ ~Loaded(u)
  /\ user' = [user EXCEPT ![u].loaded = TRUE, ![u].enable = enable, ![u].last_enable = ~enable, ![u].initial = initial]
  /\ UNCHANGED <<layout, stage, now, out, host, board>>

\* _build_config: soft pwm can only shut down to off or on, and starts at on or off until its slot.
Refused(u) == \E o \in OutsOf(u) : o.type = "soft pwm" /\ out[o.id].shutdown \notin {0, Full}
StaticId(id) == \E u \in Users : user[u].static /\ \E o \in OutsOf(u) : o.id = id
IsSoft(id) == \E o \in Outs : o.id = id /\ o.type = "soft pwm"
ChipStart(id) == host.reg[id]
BoardStart(id) ==
  LET start == out[id].start
  IN  IF ~IsSoft(id) THEN start
      ELSE IF StaticId(id) THEN (IF 2 * start >= Full THEN Full ELSE 0)
      ELSE IF start = Full THEN Full ELSE 0
StartOrder(id) ==
  IF IsSoft(id) /\ ~StaticId(id) /\ out[id].start \notin {0, Full}
  THEN [clock |-> now + StartSlot, value |-> out[id].start, start |-> TRUE] ELSE None

_build_config ==
  /\ stage = "load" /\ \A u \in Users : Loaded(u)
  /\ IF \E u \in Users : Refused(u) THEN stage' = "failed" /\ UNCHANGED board
     ELSE /\ stage' = "running"
          /\ board' = [board EXCEPT !.level = [id \in Ids |-> IF id \in OnChips THEN ChipStart(id) ELSE BoardStart(id)],
                                    !.pending = [id \in Ids |-> StartOrder(id)]]
  /\ UNCHANGED <<layout, now, user, out, host>>

-----------------------------------------------------------------------------
(* Commands *)

Started == stage = "running" /\ \A u \in Users : user[u].initial = None

cmd_SET_PIN(u, value, print_time) ==
  /\ Started /\ layout[u].kind # "servo" /\ ~user[u].static
  /\ value # user[u].value /\ (layout[u].kind = "pwm pin" \/ value \in {0, Full})
  /\ host' = SetAll(u, Spaced(u, print_time), value)
  /\ user' = [user EXCEPT ![u].value = value, ![u].time = Spaced(u, print_time)]
  /\ UNCHANGED <<layout, stage, now, out, board>>

\* Mutant: switching a servo on or off is no change
SameValue(u, value, enable) == value = user[u].value
Unchanged(u, value, enable) == value = user[u].value /\ enable = user[u].last_enable

_set_pwm(u, value, enable, print_time) ==
  IF Unchanged(u, value, enable)
  THEN /\ user' = [user EXCEPT ![u].enable = enable, ![u].initial = None]
       /\ UNCHANGED host
  ELSE /\ host' = SetAll(u, Spaced(u, print_time), IF enable THEN value ELSE 0)
       /\ user' = [user EXCEPT ![u].value = value, ![u].time = Spaced(u, print_time), ![u].initial = None,
                               ![u].enable = enable, ![u].last_enable = enable]

handle_ready(u, print_time) ==
  /\ stage = "running" /\ user[u].initial # None
  /\ _set_pwm(u, user[u].initial[1], user[u].enable, print_time)
  /\ UNCHANGED <<layout, stage, now, out, board>>

_get_pwm(asked) == Max({MinPulse, Min({Full, asked})})

\* The width or angle asked for, or none: only ENABLE is given.
cmd_SET_SERVO(u, enable, asked, print_time) ==
  /\ Started /\ layout[u].kind = "servo"
  /\ _set_pwm(u, IF asked = None THEN user[u].value ELSE _get_pwm(asked[1]), enable, print_time)
  /\ UNCHANGED <<layout, stage, now, out, board>>

-----------------------------------------------------------------------------
(* The board and the link to it *)

\* One order waits for its time; the next takes its place.
Scheduled(q, order) ==
  [board EXCEPT !.pending[q] = [clock |-> order.clock, value |-> order.image[q], start |-> FALSE],
                !.missed = @ \/ order.clock <= now \/ (board.pending[q] # None /\ ~board.pending[q].start)]

Deliver(q) ==
  /\ stage = "running" /\ host.queue[q] # <<>> /\ now >= Head(host.queue[q]).release
  /\ LET order == Head(host.queue[q])
     IN  board' = IF q = "chip"
                  THEN [board EXCEPT !.level = [id \in Ids |-> IF id \in DOMAIN order.image THEN order.image[id]
                                                               ELSE board.level[id]]]
                  ELSE Scheduled(q, order)
  /\ host' = [host EXCEPT !.queue[q] = Tail(@)]
  /\ UNCHANGED <<layout, stage, now, user, out>>

\* An order is not kept back longer than the link needs.
Punctual(q) ==
  host.queue[q] # <<>> =>
    now < Max({Head(host.queue[q]).release + Latency, Head(host.queue[q]).clock - 1})

Due(id) == board.pending[id] # None /\ board.pending[id].clock = now + 1

Tick ==
  /\ stage = "running" /\ now < MaxTime /\ \A q \in Queues : Punctual(q)
  /\ now' = now + 1
  /\ board' = [board EXCEPT !.level = [id \in Ids |-> IF Due(id) THEN board.pending[id].value ELSE board.level[id]],
                            !.pending = [id \in Ids |-> IF Due(id) THEN None ELSE board.pending[id]]]
  /\ UNCHANGED <<layout, stage, user, out, host>>

\* The board turns its outputs to their defaults; what it did not configure stays.
Shutdown ==
  /\ stage = "running" /\ stage' = "shutdown"
  /\ board' = [board EXCEPT
       !.level = [id \in Ids |-> IF StaticId(id) \/ id \in OnChips
                                 THEN board.level[id] ELSE out[id].shutdown],
       !.pending = [id \in Ids |-> None]]
  /\ host' = [host EXCEPT !.queue = [q \in Queues |-> <<>>]]
  /\ UNCHANGED <<layout, now, user, out>>

-----------------------------------------------------------------------------
NewUser ==
  [loaded |-> FALSE, static |-> FALSE, value |-> 0, shutdown |-> 0, time |-> 0,
   enable |-> FALSE, last_enable |-> FALSE, initial |-> None]

Unset(id) == LET o == CHOOSE p \in Outs : p.id = id IN [start |-> Level(o, 0), shutdown |-> Level(o, 0)]

InitOutputs ==
  /\ layout \in Layouts /\ stage = "load" /\ now = 0
  /\ user = [u \in Users |-> NewUser]
  /\ out = [id \in Ids |-> Unset(id)]
  /\ host = [clock |-> [q \in Queues |-> 0], reg |-> StartRegisters(out),
             queue |-> [q \in Queues |-> <<>>]]
  /\ board = [level |-> [id \in Ids |-> 0], pending |-> [id \in Ids |-> None], missed |-> FALSE]

NextOutputs ==
  \/ \E u \in Users :
       \/ \E static \in BOOLEAN, value, shutdown \in Values :
            /\ (static => shutdown = value) /\ (layout[u].kind = "pin" => {value, shutdown} \subseteq {0, Full})
            /\ LoadPin(u, static, value, shutdown)
       \/ \E enable \in BOOLEAN, initial \in {None, <<MinPulse>>} : LoadServo(u, enable, initial)
       \/ \E print_time \in {t \in now + Lead .. now + Lead + 1 : Spaced(u, t) < MaxTime} :
            \/ \E value \in Values : cmd_SET_PIN(u, value, print_time)
            \/ handle_ready(u, print_time)
            \/ \E enable \in BOOLEAN, asked \in {None} \union {<<v>> : v \in Values} :
                 cmd_SET_SERVO(u, enable, asked, print_time)
  \/ _build_config
  \/ \E q \in Queues : Deliver(q)
  \/ Tick
  \/ Shutdown

-----------------------------------------------------------------------------
(* However fast commands come, each order of a pin reaches the board before   *)
(* its time and after the one before it has run: none is late or replaced.    *)
NoneMissed == ~board.missed

Asked(u) == IF layout[u].kind = "servo" /\ ~user[u].enable THEN 0 ELSE user[u].value

(* When all orders have run, each pin shows what was asked for last, those    *)
(* that share a register or a virtual pin too; soft pwm that is static is on  *)
(* from one half.  After a shutdown, the outputs the board drives by orders   *)
(* are at their shutdown value.                                               *)
ShowsLast ==
  /\ Started /\ (\A q \in Queues : host.queue[q] = <<>>) /\ (\A id \in Ids : board.pending[id] = None) =>
       \A u \in Users : \A o \in OutsOf(u) :
         board.level[o.id] = IF o.type = "soft pwm" /\ user[u].static
                             THEN (IF 2 * Level(o, user[u].value) >= Full THEN Full ELSE 0)
                             ELSE Level(o, Asked(u))
  /\ stage = "shutdown" =>
       \A u \in Users : \A o \in OutsOf(u) :
         ~OnChip(o) /\ ~user[u].static => board.level[o.id] = Level(o, user[u].shutdown)

=============================================================================
