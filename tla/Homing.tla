-------------------------------- MODULE Homing ------------------------------
(* Homing a cartesian printer: the axes are moved towards their endstops,    *)
(* retracted and homed again, one after the other; around it, Z is hopped    *)
(* and moved to a safe place, and heaters are switched off while an axis     *)
(* moves to its endstop.  The position the host commands is compared to the  *)
(* real one.  Every axis homes to 0.  In the second half, how the host learns *)
(* that an endstop has triggered while an axis homes.                        *)
EXTENDS Integers, Sequences

CONSTANTS
  PosMax,       \* the position_max of the axes; position_min is 0
  Retract,      \* homing_retract_dist
  Hop,          \* z_hop
  SafeX,        \* home_xy_position
  Targets,      \* the temperatures a user asks for
  MaxFaults,    \* bound: changes of the endstops
  Retry,        \* RETRY_QUERY
  MoveTime,     \* how long the move takes if nothing triggers
  NEVER,        \* reactor.NEVER, later than every time
  MaxLate,      \* bound: how long a message is under way
  MaxHomings, MaxLost   \* bounds: homings, and messages lost

Axes == {"x", "z"}

VARIABLES
  pos,          \* the commanded position
  real,         \* where the axes are
  homed,        \* the axes whose limits are valid
  todo,         \* what is left of the G28 that runs
  switch,       \* the endstops: "ok", "stuck" (triggered) or "dead"
  heater,       \* the heater's target, what it was before homing, and what was asked for
  faults,
  hop_failed,   \* a hop of an unhomed axis was refused
  now, lost,
  host,         \* what the host keeps of the endstop
  board,        \* what the board keeps
  down, up      \* messages to the board, and to the host

homing_vars == <<pos, real, homed, todo, switch, heater, faults, hop_failed>>

Step(what, axis) == [do |-> what, axis |-> axis]
Clip(p) == IF p < 0 THEN 0 ELSE IF p > PosMax THEN PosMax ELSE p

-----------------------------------------------------------------------------
(* A move, checked against the limits; one that is refused raises an error.  *)
Allowed(axis, target) == axis \in homed /\ target >= 0 /\ target <= PosMax

Drive(axis, target) ==
  /\ pos' = [pos EXCEPT ![axis] = target]
  /\ real' = [real EXCEPT ![axis] = Clip(@ + target - pos[axis])]

(* An error ends the G28; inside home_axes it also turns the motors off. *)
Error == todo' = <<>> /\ UNCHANGED <<pos, real, homed, heater>>

MotorsOffKept == UNCHANGED <<homed>>      \* mutant: the limits stay

MotorsOff == homed' = {}

HomingError == todo' = <<>> /\ MotorsOff

-----------------------------------------------------------------------------
(* homing_move: heaters off, until the endstop triggers or the distance is   *)
(* gone, heaters on.  moved is whether the axis moved before it triggered.   *)
Begin(h) == [h EXCEPT !.save = h.target, !.target = 0]
EndLost(h) == h     \* mutant: what was saved is not restored

End(h) == [h EXCEPT !.target = h.save]

Reached(axis, distance) ==
  CASE switch[axis] = "stuck" -> real[axis]
    [] switch[axis] = "dead" -> Clip(real[axis] - distance)
    [] switch[axis] = "ok" -> Clip(real[axis] - distance)

Triggers(axis, distance) ==
  switch[axis] = "stuck" \/ (switch[axis] = "ok" /\ real[axis] - distance <= 0)

HomingMove(axis, distance) ==
  /\ real' = [real EXCEPT ![axis] = Reached(axis, distance)]
  /\ pos' = [pos EXCEPT ![axis] = 0]
  /\ heater' = End(heater)

(* The steps of home_rails, each of which waits for the toolhead. *)
ForceDistance == (3 * PosMax) \div 2

HomeFirst(axis) ==
  /\ heater' = Begin(heater)
  /\ homed' = homed \cup {axis}
  /\ pos' = [pos EXCEPT ![axis] = ForceDistance]
  /\ todo' = <<Step("wait first", axis)>> \o Tail(todo)
  /\ UNCHANGED real

WaitFirst(axis) ==
  /\ HomingMove(axis, ForceDistance)
  /\ IF Triggers(axis, ForceDistance)
     THEN todo' = <<Step("retract", axis)>> \o Tail(todo) /\ UNCHANGED homed
     ELSE HomingError

Retracts(axis) ==
  /\ Drive(axis, Retract)
  /\ heater' = Begin(heater)
  /\ todo' = <<Step("wait second", axis)>> \o Tail(todo)
  /\ UNCHANGED homed

(* verify_movement: the axis must have moved before the endstop triggered. *)
MovedAnyhow(axis) == TRUE     \* mutant

Moved(axis) == Reached(axis, 2 * Retract) # real[axis]

WaitSecond(axis) ==
  /\ HomingMove(axis, 2 * Retract)
  /\ IF Triggers(axis, 2 * Retract) /\ Moved(axis)
     THEN todo' = Tail(todo) /\ UNCHANGED homed
     ELSE HomingError

-----------------------------------------------------------------------------
(* G28 with safe Z homing: the hop, X, the safe place, Z, and up again.      *)
HopZ ==
  LET target == pos["z"] + Hop
  IN  IF "z" \in homed
      THEN /\ IF target <= PosMax /\ pos["z"] < Hop THEN Drive("z", target) ELSE UNCHANGED <<pos, real>>
           /\ todo' = Tail(todo)
           /\ UNCHANGED <<homed, heater, hop_failed>>
      ELSE IF target > PosMax     \* _perform_z_hop has made the limits valid, and the move is refused
      THEN /\ homed' = homed \cup {"z"} /\ hop_failed' = TRUE
           /\ todo' = <<>>
           /\ UNCHANGED <<pos, real, heater>>
      ELSE Drive("z", target) /\ todo' = Tail(todo) /\ UNCHANGED <<homed, heater, hop_failed>>

Goto(axis, target) ==
  IF Allowed(axis, target)
  THEN Drive(axis, target) /\ todo' = Tail(todo) /\ UNCHANGED <<homed, heater>>
  ELSE Error

SafeZ(axes) ==
  <<Step("hop", "z")>>
  \o (IF "x" \in axes THEN <<Step("home", "x")>> ELSE <<>>)
  \o (IF "z" \in axes THEN <<Step("goto", "x"), Step("home", "z"), Step("lift", "z")>> ELSE <<>>)

G28(axes) ==
  /\ todo = <<>>
  /\ todo' = SafeZ(axes)
  /\ UNCHANGED <<pos, real, homed, switch, heater, faults, hop_failed>>

Run ==
  /\ todo # <<>>
  /\ LET step == todo[1] IN
     \/ step.do = "hop" /\ HopZ
     \/ step.do = "home" /\ HomeFirst(step.axis) /\ UNCHANGED hop_failed
     \/ step.do = "wait first" /\ WaitFirst(step.axis) /\ UNCHANGED hop_failed
     \/ step.do = "retract" /\ Retracts(step.axis) /\ UNCHANGED hop_failed
     \/ step.do = "wait second" /\ WaitSecond(step.axis) /\ UNCHANGED hop_failed
     \/ step.do = "goto" /\ Goto("x", SafeX) /\ UNCHANGED hop_failed
     \/ step.do = "lift" /\ Goto("z", Hop) /\ UNCHANGED hop_failed
  /\ UNCHANGED <<switch, faults>>

-----------------------------------------------------------------------------
Move(axis, target) ==
  /\ todo = <<>> /\ Allowed(axis, target)
  /\ Drive(axis, target)
  /\ UNCHANGED <<homed, todo, switch, heater, faults, hop_failed>>

(* M84, and somebody moves the axes; or the idle timeout. *)
M84 ==
  /\ todo = <<>> /\ homed # {}
  /\ homed' = {}
  /\ real' \in [Axes -> 0 .. PosMax]
  /\ UNCHANGED <<pos, todo, switch, heater, faults, hop_failed>>

M104(target) ==
  /\ todo = <<>>
  /\ heater' = [heater EXCEPT !.target = target, !.wanted = target]
  /\ UNCHANGED <<pos, real, homed, todo, switch, faults, hop_failed>>

SwitchChanges(axis) ==
  /\ faults < MaxFaults /\ faults' = faults + 1
  /\ \E s \in {"ok", "stuck", "dead"} : switch' = [switch EXCEPT ![axis] = s]
  /\ UNCHANGED <<pos, real, homed, todo, heater, hop_failed>>

-----------------------------------------------------------------------------
InitHoming ==
  /\ pos = [axis \in Axes |-> 0] /\ real \in [Axes -> 0 .. PosMax]
  /\ homed = {} /\ todo = <<>>
  /\ switch = [axis \in Axes |-> "ok"] /\ faults = 0
  /\ heater = [target |-> 0, save |-> 0, wanted |-> 0]
  /\ hop_failed = FALSE

NextHoming ==
  \/ \E axes \in SUBSET Axes \ {{}} : G28(axes)
  \/ Run
  \/ \E axis \in Axes, target \in 0 .. PosMax : Move(axis, target)
  \/ M84
  \/ \E target \in Targets : M104(target)
  \/ \E axis \in Axes : SwitchChanges(axis)

SpecHoming == InitHoming /\ [][NextHoming]_homing_vars

-----------------------------------------------------------------------------
(* When no G28 runs, an axis that counts as homed is where the host thinks   *)
(* it is, though endstops stick, fail or recover at any moment.              *)
HomedIsReal == todo = <<>> => \A axis \in homed : pos[axis] = real[axis]

(* The same, but for the axis whose hop was refused.                         *)
HomedIsRealButHop == hop_failed \/ HomedIsReal

(* However homing ends, the heaters are as the user asked.                   *)
HeatersRestored == todo = <<>> => heater.target = heater.wanted

-----------------------------------------------------------------------------
(* One endstop: the board says that it has triggered once, in a message that *)
(* may be lost; the host asks again until it hears of it, or until an answer *)
(* shows that the endstop had not triggered when the move ended.  Messages of*)
(* an earlier homing may be under way.  Every message of the board carries   *)
(* the time at which the host sent the last command the board had seen.      *)
endstop_vars == <<now, lost, host, board, down, up>>

-----------------------------------------------------------------------------
(* home_start.  The homing of one endstop; the move begins at once.  Time    *)
(* passes between two homings: a dwell at least.                             *)
HomeStart ==
  /\ host.at = "idle" /\ host.homings < MaxHomings /\ now + Retry > host.next_query
  /\ host' = [host EXCEPT !.at = "moving", !.homings = @ + 1, !.min_query = now, !.last_sent = 0,
                          !.next_query = now + Retry, !.end = NEVER, !.stop = now + MoveTime,
                          !.trigger = FALSE, !.result = "none"]
  /\ down' = Append(down, [what |-> "home", sent |-> now])
  /\ UNCHANGED <<now, lost, board, up>>

(* _handle_endstop_state: answers of an earlier homing are told by their     *)
(* time, and after the trigger nothing counts.                               *)
CurrentAlways(m) == TRUE     \* mutant: the time of the answer is not looked at

Current(m) == m.sent >= host.min_query

State(m) ==
  host' = IF host.at = "idle" \/ ~Current(m) THEN host
          ELSE IF m.homing THEN [host EXCEPT !.last_sent = m.sent]
          ELSE [host EXCEPT !.min_query = NEVER, !.trigger = TRUE]

Receive ==
  /\ up # <<>> /\ up' = Tail(up)
  /\ State(Head(up))
  /\ UNCHANGED <<now, lost, board, down>>

(* The move ends when the trigger is known, or when it is over; home_wait    *)
(* then waits for _home_retry.                                               *)
MoveEnds ==
  /\ host.at = "moving" /\ (host.trigger \/ now >= host.stop)
  /\ host' = [host EXCEPT !.at = "waiting", !.end = now]
  /\ UNCHANGED <<now, lost, board, down, up>>

(* _home_retry finds the trigger, an answer from after the end, or nothing,  *)
(* and asks again from time to time.                                         *)
Finish(result) ==
  /\ host' = [host EXCEPT !.at = "idle", !.result = result]
  /\ down' = Append(down, [what |-> "stop", sent |-> now])

LastIsLate == host.last_sent > host.end

Retried ==
  /\ host.at = "waiting"
  /\ IF host.trigger THEN Finish("triggered") ELSE LastIsLate /\ Finish("missed")
  /\ UNCHANGED <<now, lost, board, up>>

Requery ==
  /\ host.at # "idle" /\ ~host.trigger /\ now >= host.next_query /\ ~(host.at = "waiting" /\ LastIsLate)
  /\ host' = [host EXCEPT !.next_query = now + Retry]
  /\ down' = Append(down, [what |-> "query", sent |-> now])
  /\ UNCHANGED <<now, lost, board, up>>

-----------------------------------------------------------------------------
(* The board, and the wire: commands are never lost, answers may be.         *)
Say(b) == up' = Append(up, [homing |-> b.homing, sent |-> b.seen, time |-> now])

BoardTakes ==
  /\ down # <<>> /\ down' = Tail(down)
  /\ LET c == Head(down)
         b == [board EXCEPT !.seen = c.sent]
     IN  CASE c.what = "home" -> board' = [b EXCEPT !.homing = TRUE, !.hit = FALSE] /\ UNCHANGED up
           [] c.what = "stop" -> board' = [b EXCEPT !.homing = FALSE] /\ UNCHANGED up
           [] c.what = "query" -> board' = b /\ Say(b)
  /\ UNCHANGED <<now, lost, host>>

Hits ==
  /\ board.homing /\ host.at = "moving"
  /\ board' = [board EXCEPT !.homing = FALSE, !.hit = TRUE]
  /\ Say(board')
  /\ UNCHANGED <<now, lost, host, down>>

Lost ==
  /\ up # <<>> /\ up' = Tail(up)
  /\ lost < MaxLost /\ lost' = lost + 1
  /\ UNCHANGED <<now, host, board, down>>

Tick ==
  /\ now + 1 < NEVER
  /\ host.at # "idle" \/ now + Retry <= host.next_query + MaxLate
  /\ host.at # "idle" => now < host.next_query
  /\ host.at = "moving" => now < host.stop
  /\ \A i \in DOMAIN up : now < up[i].time + MaxLate
  /\ \A i \in DOMAIN down : now < down[i].sent + MaxLate
  /\ now' = now + 1
  /\ UNCHANGED <<lost, host, board, down, up>>

-----------------------------------------------------------------------------
InitEndstop ==
  /\ now = 1 /\ lost = 0 /\ down = <<>> /\ up = <<>>
  /\ board = [homing |-> FALSE, hit |-> FALSE, seen |-> 0]
  /\ host = [at |-> "idle", homings |-> 0, min_query |-> 0, last_sent |-> 0, next_query |-> 0, end |-> 0,
             stop |-> 0, trigger |-> FALSE, result |-> "none"]

NextEndstop ==
  \/ HomeStart \/ Receive \/ MoveEnds \/ Retried \/ Requery
  \/ BoardTakes \/ Hits \/ Lost \/ Tick

SpecEndstop == InitEndstop /\ [][NextEndstop]_endstop_vars

-----------------------------------------------------------------------------
(* Homing succeeds exactly if the endstop triggered during this very homing, *)
(* whatever was lost, and whatever an earlier homing left under way.         *)
ResultIsTrue ==
  host.at = "idle" =>
    /\ host.result = "triggered" => board.hit
    /\ host.result = "missed" => ~board.hit

=============================================================================
