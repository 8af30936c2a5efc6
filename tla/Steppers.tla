------------------------------- MODULE Steppers -------------------------------
(* The motors: their enable lines, which may share a pin; what the host knows *)
(* of the steps the board made; and who moves them: the kinematics of an axis *)
(* with two carriages, homing with its corrections by the phase of the        *)
(* driver, and the commands for one stepper.  A step is a unit of length.     *)
EXTENDS Integers, FiniteSets, FiniteSetsExt, Functions

CONSTANTS
  PinOf,          \* of each stepper, the pin of its enable line; "none" without one
  Phases,         \* of a driver
  Accuracy,       \* endstop_phase_accuracy
  EndstopAt,      \* where the endstops of carriages trigger
  Jitters,        \* how late they do
  PosMax,         \* position_max, and bound of moves by force and by hand
  Distances,      \* of moves by force
  MaxCommands     \* bound

Carriages == {"carriage 0", "carriage 1"}
Phased == "carriage 0"            \* the stepper whose phase is tracked
Manual == "manual"                \* a stepper outside of the kinematics
Steppers == Carriages \cup {Manual}
Pins == Range(PinOf) \ {"none"}
Microsteps == Phases \div 4

VARIABLES
  is_enabled,     \* the steppers whose line is enabled
  armed,          \* those with motor_enable among their active callbacks
  enable_count,   \* of each pin
  pin_on,
  place,          \* of each stepper: commanded, offset, steps of the board, real position
  force_position, \* commanded position of the kinematics for moves by force
  rail, driving,  \* the active carriage, and those on the queue of the toolhead
  position,       \* of the toolhead
  homed,
  endstop_phase, align,   \* -1 before the first homing; endstop_align_zero
  asked,          \* history: the carriage asked for
  forced, loose,  \* history: moved by force; left without power and the kinematics not told
  origin,         \* history: real less commanded when homed; of the phased stepper, first
  commands        \* history: how many there were

steppers_vars == <<is_enabled, armed, enable_count, pin_on, place, force_position, rail, driving,
                   position, homed, endstop_phase, align, asked, forced, loose, origin, commands>>

lines == <<is_enabled, armed, enable_count, pin_on>>
carriage == <<rail, driving, asked>>
phase_vars == <<endstop_phase, align>>

-----------------------------------------------------------------------------
(* Enable lines.                                                              *)
UsersOf(pin) == {s \in Steppers : PinOf[s] = pin}
Powered(s) == PinOf[s] = "none" \/ PinOf[s] \in pin_on

\* The pin changes with the first and the last of its users.
set_enable(turned) ==
  /\ enable_count' = [p \in Pins |-> enable_count[p] + Cardinality(turned \cap UsersOf(p))]
  /\ pin_on' = pin_on \cup {p \in Pins : enable_count[p] = 0 /\ enable_count'[p] > 0}

set_disable_at_once(turned) ==    \* mutant: the pin is not counted
  /\ enable_count' = [p \in Pins |-> enable_count[p] - Cardinality(turned \cap UsersOf(p))]
  /\ pin_on' = pin_on \ {PinOf[s] : s \in turned}

set_disable(turned) ==
  /\ enable_count' = [p \in Pins |-> enable_count[p] - Cardinality(turned \cap UsersOf(p))]
  /\ pin_on' = pin_on \ {p \in Pins : enable_count'[p] = 0}

\* Callbacks are called once, and added again when the line is disabled.
motor_enable(steppers) ==
  LET turned == steppers \ is_enabled
  IN  set_enable(turned) /\ is_enabled' = is_enabled \cup turned /\ UNCHANGED armed

motor_disable(steppers) ==
  LET turned == steppers \cap is_enabled
  IN  set_disable(turned) /\ is_enabled' = is_enabled \ turned /\ armed' = armed \cup turned

\* generate_steps of steppers that are about to move.
Activate(steppers) ==
  LET turned == (steppers \cap armed) \ is_enabled
  IN  set_enable(turned) /\ is_enabled' = is_enabled \cup turned /\ armed' = armed \ steppers

-----------------------------------------------------------------------------
(* Positions.                                                                 *)
get_mcu_position(p) == p.commanded + p.offset

\* Whatever is commanded now, the steps stay.
set_position(p, to) == [p EXCEPT !.commanded = to, !.offset = p.offset + p.commanded - to]

\* Steps without power are lost; the lines are switched first.
Step(p, s, d) == [p EXCEPT !.board = @ + d, !.real = IF PinOf[s] = "none" \/ PinOf[s] \in pin_on' THEN @ + d ELSE @]

Drive(p, s, to) == Step([p EXCEPT !.commanded = to], s, to - p.commanded)

note_homing_end_never(p) == p      \* mutant: the board is not asked

\* The host asks the board how far it came.
note_homing_end(p) == [p EXCEPT !.offset = p.board - p.commanded]

\* A move to somewhere that stops where the endstop triggers.
HomingMove(p, to, trigger) ==
  note_homing_end([p EXCEPT !.board = @ + (trigger - p.real), !.real = trigger, !.commanded = to])

Bounded(p) == p.real \in -Phases .. PosMax + Phases

-----------------------------------------------------------------------------
(* Moves of the toolhead.                                                     *)
Move(to) ==
  /\ homed /\ to \in 0 .. PosMax /\ to # position
  /\ Activate(driving)
  /\ place' = [s \in Steppers |-> IF s \in driving THEN Drive(place[s], s, to) ELSE place[s]]
  /\ position' = to
  /\ UNCHANGED <<force_position, carriage, homed, phase_vars, forced, loose, origin>>

\* The carriage that was active is taken off the queue of the toolhead, and the
\* toolhead is where the new one is.
_activate_carriage(c) ==
  /\ driving' = (driving \ {rail}) \cup {c} /\ rail' = c
  /\ position' = place'[c].commanded

cmd_SET_DUAL_CARRIAGE(c) ==
  /\ asked' = c /\ UNCHANGED place /\ _activate_carriage(c)
  /\ UNCHANGED <<lines, force_position, homed, phase_vars, forced, loose, origin>>

\* A probe: the position is that of the start and the steps the host knows of.
Probe(trigger) ==
  /\ homed /\ Activate(driving)
  /\ LET p == place[rail]
         end == HomingMove(p, PosMax, trigger)
         found == p.commanded + get_mcu_position(end) - get_mcu_position(p)
     IN  place' = [place EXCEPT ![rail] = set_position(end, found)]
  /\ position' = place'[rail].commanded
  /\ UNCHANGED <<force_position, carriage, homed, phase_vars, forced, loose, origin>>

-----------------------------------------------------------------------------
(* Homing, and the phase of the driver when the endstop triggers.             *)
get_phase(p) == p.board % Phases

Delta(p) ==
  LET d == (get_phase(p) - endstop_phase) % Phases
  IN  IF endstop_phase < 0 THEN 0 ELSE IF d >= Phases - Accuracy THEN d - Phases ELSE d

IncorrectPhase(p) == Delta(p) > Accuracy

\* Zero is at a full step.
align_endstop(pos, phase) ==
  LET half == Microsteps \div 2
  IN  IF ~align THEN pos
      ELSE ((2 * pos + Microsteps) \div (2 * Microsteps)) * Microsteps + ((phase + half) % Microsteps) - half

get_homed_offset_none(p) == 0     \* mutant: the endstop is taken at its word

get_homed_offset(p) == Delta(p)

Triggered(c, jitter) ==
  HomingMove(place[c], EndstopAt[c], EndstopAt[c] + jitter)

HomedAt(c, end) ==
  IF c # Phased THEN EndstopAt[c]
  ELSE align_endstop(EndstopAt[c], IF endstop_phase < 0 THEN get_phase(end) ELSE endstop_phase) + get_homed_offset(end)

Homes(c, jitter) == LET end == Triggered(c, jitter) IN set_position(end, HomedAt(c, end))

\* One after the other; then the carriage that was active is active again.
home(jitter) ==
  /\ ~IncorrectPhase(Triggered(Phased, jitter))
  /\ Activate(Carriages)
  /\ place' = [s \in Steppers |-> IF s \in Carriages THEN Homes(s, jitter) ELSE place[s]]
  /\ endstop_phase' = IF endstop_phase < 0 THEN get_phase(place'[Phased]) ELSE endstop_phase
  /\ position' = place'[rail].commanded
  /\ homed' = TRUE
  /\ forced' = forced \ Carriages /\ loose' = loose \ Carriages
  /\ origin' = [c \in Carriages |-> IF c = Phased /\ endstop_phase >= 0 THEN origin[c]
                                    ELSE place'[c].real - place'[c].commanded]
  /\ UNCHANGED <<force_position, carriage, align>>

\* The phase is not what it should be: the motors are turned off, and the first
\* carriage stays active.
HomingFails(jitter) ==
  /\ IncorrectPhase(Triggered(Phased, jitter))
  /\ place' = [place EXCEPT ![Phased] = Triggered(Phased, jitter)]
  /\ motor_disable(Carriages)
  /\ _activate_carriage(Phased) /\ asked' = "none"
  /\ homed' = FALSE
  /\ UNCHANGED <<force_position, phase_vars, forced, loose, origin>>

-----------------------------------------------------------------------------
(* Switching by the trackers of the lines.                                    *)
Elsewhere == <<place, force_position, carriage, position, phase_vars, forced, origin>>

\* The tracker of the toolhead: the kinematics is told.
off == motor_disable(Carriages) /\ homed' = FALSE /\ UNCHANGED <<Elsewhere, loose>>

\* The global one: its event is that of no kinematics, as is that of a switch.
cmd_STEPPER_OFF == motor_disable(Steppers) /\ loose' = Steppers /\ UNCHANGED <<Elsewhere, homed>>

debug_switch(s, enable) ==
  /\ IF enable THEN motor_enable({s}) /\ UNCHANGED loose
     ELSE motor_disable({s}) /\ loose' = loose \cup {s}
  /\ UNCHANGED <<Elsewhere, homed>>

\* A rotor that is not held comes to rest where its phase is the same.
MovedByHand(s, turn) ==
  /\ ~Powered(s)
  /\ place' = [place EXCEPT ![s].real = @ + turn] /\ Bounded(place'[s])
  /\ UNCHANGED <<lines, force_position, carriage, position, homed, phase_vars, forced, loose, origin>>

-----------------------------------------------------------------------------
(* Commands for one stepper.                                                  *)
\* By force: on a kinematics of its own, whose position is set to 0 first.
cmd_STEPPER_MOVE_FORCE(s, d) ==
  /\ Bounded([place[s] EXCEPT !.real = @ + d])
  /\ motor_enable({s})
  /\ place' = [place EXCEPT ![s] = Step([@ EXCEPT !.offset = @ + force_position], s, d)]
  /\ force_position' = d
  /\ forced' = forced \cup {s}
  /\ UNCHANGED <<carriage, position, homed, phase_vars, loose, origin>>

\* Ten times there and back; then the line is as it was.
cmd_STEPPER_BUZZ(s, d) ==
  /\ place' = [place EXCEPT ![s].offset = @ + force_position + d] /\ force_position' = -d
  /\ IF s \in is_enabled THEN UNCHANGED lines
     ELSE UNCHANGED <<is_enabled, enable_count, pin_on>> /\ armed' = armed \cup {s}
  /\ forced' = forced \cup {s}
  /\ UNCHANGED <<carriage, position, homed, phase_vars, loose, origin>>

ByHost == UNCHANGED <<force_position, carriage, position, homed, phase_vars, loose, origin>>

do_enable(enable) ==
  /\ IF enable THEN motor_enable({Manual}) ELSE motor_disable({Manual})
  /\ UNCHANGED <<place, forced>> /\ ByHost

do_set_position(to) ==
  /\ place' = [place EXCEPT ![Manual] = set_position(@, to)]
  /\ UNCHANGED <<lines, forced>> /\ ByHost

do_move(to) ==
  /\ Bounded([place[Manual] EXCEPT !.real = @ + to - place[Manual].commanded])
  /\ Activate({Manual})
  /\ place' = [place EXCEPT ![Manual] = Drive(@, Manual, to)]
  /\ UNCHANGED forced /\ ByHost

\* The commanded position is where the move was to end. If the endstop does not
\* trigger the move is made, and an error raised.
do_homing_move(to, triggers) ==
  IF ~triggers THEN do_move(to)
  ELSE /\ Activate({Manual})
       /\ place' = [place EXCEPT ![Manual] = HomingMove(@, to, 0)]
       /\ forced' = forced \ {Manual} /\ ByHost

-----------------------------------------------------------------------------
InitSteppers ==
  /\ is_enabled = {} /\ armed = Steppers /\ enable_count = [p \in Pins |-> 0] /\ pin_on = {}
  /\ place = [s \in Steppers |-> [commanded |-> 0, offset |-> 0, board |-> 0, real |-> 0]]
  /\ force_position = 0
  /\ rail = Phased /\ driving = {Phased} /\ position = 0 /\ homed = FALSE
  /\ endstop_phase = -1 /\ align \in BOOLEAN /\ asked = Phased
  /\ forced = {} /\ loose = Carriages /\ origin = [c \in Carriages |-> 0] /\ commands = 0

Near == 0 .. PosMax

Commands ==
  \/ \E to \in Near : Move(to) \/ Probe(to) \/ do_set_position(to) \/ do_move(to)
  \/ \E c \in Carriages : cmd_SET_DUAL_CARRIAGE(c)
  \/ \E jitter \in Jitters : home(jitter) \/ HomingFails(jitter)
  \/ off \/ cmd_STEPPER_OFF
  \/ \E s \in Steppers, enable \in BOOLEAN : debug_switch(s, enable)
  \/ \E s \in Steppers : MovedByHand(s, Phases)
  \/ \E s \in Steppers, d \in Distances : cmd_STEPPER_MOVE_FORCE(s, d) \/ cmd_STEPPER_BUZZ(s, d)
  \/ \E enable \in BOOLEAN : do_enable(enable)
  \/ \E to \in Near, triggers \in BOOLEAN : do_homing_move(to, triggers)

NextSteppers == commands < MaxCommands /\ commands' = commands + 1 /\ Commands

SpecSteppers == InitSteppers /\ [][NextSteppers]_steppers_vars

-----------------------------------------------------------------------------
(* A pin is on exactly while one of the steppers on it is enabled, and those  *)
(* that are not are enabled by their next move.                               *)
PinIsOnIfUsed ==
  /\ \A p \in Pins : p \in pin_on <=> UsersOf(p) \cap is_enabled # {}
  /\ Steppers \ is_enabled \subseteq armed

(* The host knows how many steps the board made, unless a stepper was moved   *)
(* by force since it was homed.                                               *)
StepsAreCounted == \A s \in Steppers \ forced : get_mcu_position(place[s]) = place[s].board

(* An axis that is homed is where it was when homed first, whatever the       *)
(* endstop's scatter, unless the stepper was moved by force, or lost its      *)
(* power and the kinematics was not told.                                     *)
OriginIsKept ==
  homed => \A c \in Carriages \ (forced \cup loose) : place[c].real - place[c].commanded = origin[c]

(* "Adjust the endstop position so 0.0 is always at a full step".             *)
ZeroIsFullStep ==
  align /\ homed /\ Phased \notin forced \cup loose
    => (get_phase(place[Phased]) - place[Phased].commanded) % Microsteps = 0

(* One carriage moves with the toolhead, the one last asked for, and the      *)
(* toolhead is where that is.                                                 *)
OneCarriageDrives ==
  driving = {rail} /\ position = place[rail].commanded /\ asked \in {rail, "none"}
=============================================================================
