------------------------------ MODULE Tcontrol -------------------------------
(* A temperature controller made of thermometers, hygrometers (which stand    *)
(* for barometers too), heaters and coolers: which combinations it accepts,   *)
(* who is in command, and what its parts withstand.  The governors and the    *)
(* heat itself are modelled in Heat.                                          *)
EXTENDS Integers, Sequences, FiniteSets, FiniteSetsExt

CONSTANTS
  MaxParts,       \* bound: thermometers, heaters, coolers
  Temps,          \* degrees: what parts withstand, and what they are asked for
  Outputs,        \* percent a governor may ask for
  Modes           \* of a cooler: "on", "equal", "inverted", "moderated" or "off"

VARIABLES
  parts,          \* the composite: how many of each, what each withstands, modes of the coolers
  phase,          \* "config", "ready" or "failed" (an exception in _init)
  gov,            \* governor of thermometers, heaters and coolers: "off", "shared" or "tune"
  max_temp,
  target,         \* of each thermometer
  seen,           \* target of the first thermometer at its last report
  last_pwm, output

tcontrol_vars == <<parts, phase, gov, max_temp, target, seen, last_pwm, output>>

Names(kind) == {<<kind, i>> : i \in 1 .. parts[kind]}
Thermometers == Names("thermometer")
Heaters == Names("heater")
Coolers == Names("cooler")
All == Thermometers \cup Heaters \cup Coolers \cup Names("hygrometer")
First == <<"thermometer", 1>>
ALUMINIUM_OPERATING == 400
MaxPower == 100      \* max_power of heaters and coolers is left at 1

-----------------------------------------------------------------------------
(* _init: each part is registered, and lowers what the composite withstands.  *)
alter_max_temp_to(temp, max) == temp    \* mutant: the last part decides

alter_max_temp(temp, max) == Min({temp, max})

Withstands(part) == parts.temp_max[part[1]]

\* Parts of a kind are alike here; thermometers are registered first, then
\* hygrometers, heaters and coolers.
Registered ==
  LET from(kind, max) == IF parts[kind] = 0 THEN max ELSE alter_max_temp(parts.temp_max[kind], max)
  IN  from("cooler", from("heater", from("hygrometer", from("thermometer", ALUMINIUM_OPERATING))))

Humid == parts.hygrometer > 0
PureSensor == parts.heater = 0 /\ parts.cooler = 0
PureHeater == parts.heater > 0 /\ parts.cooler = 0 /\ ~Humid
PureCooler == parts.heater = 0 /\ parts.cooler > 0 /\ ~Humid
OneEach == parts.thermometer = parts.heater /\ parts.heater = parts.cooler
Known == parts.thermometer > 0 /\ (PureSensor \/ PureHeater \/ PureCooler \/ OneEach)

\* Without a thermometer everything stays off; heaters then end in a NameError.
Unmeasured == parts.thermometer = 0 /\ parts.heater = 0

\* The first thermometer, the heaters and the coolers share one governor.
InCommand == IF Known /\ ~PureSensor THEN {First} \cup Heaters \cup Coolers ELSE {}

_init ==
  /\ phase = "config"
  /\ IF Known \/ Unmeasured
     THEN /\ phase' = "ready" /\ max_temp' = Registered
          /\ gov' = [p \in All |-> IF p \in InCommand THEN "shared" ELSE "off"]
     ELSE phase' = "failed" /\ UNCHANGED <<max_temp, gov>>
  /\ UNCHANGED <<parts, target, seen, last_pwm, output>>

-----------------------------------------------------------------------------
(* Output.                                                                   *)
CoolerValue(mode, value) ==
  CASE mode = "on" -> MaxPower
    [] mode = "equal" -> value
    [] mode = "inverted" -> 100 - value
    [] mode = "moderated" /\ 10 * value > 7 * MaxPower -> 0
    [] mode = "moderated" /\ 10 * value < 2 * MaxPower -> MaxPower
    [] mode = "moderated" /\ 10 * value \in 2 * MaxPower .. 7 * MaxPower -> 100 - value
    [] mode = "off" -> 0

set_output(value) ==
  output' = [p \in DOMAIN output |-> IF p[1] = "heater" THEN value ELSE CoolerValue(parts.mode, value)]

Apart(a, b) == IF a > b THEN a - b ELSE b - a

\* due: the time to repeat the last order has come.
_adj_temp(wanted, due) ==
  LET value == IF target[First] <= 0 THEN 0 ELSE wanted
  IN  IF (~due \/ last_pwm = 0) /\ Apart(value, last_pwm) < 5 THEN UNCHANGED <<last_pwm, output>>
      ELSE last_pwm' = value /\ set_output(value)

\* The governor of the first thermometer asks for some output.
value_update == \E wanted \in Outputs, due \in BOOLEAN : _adj_temp(wanted, due)

_temperature_callback_any(t) ==   \* mutant: any thermometer drives the governor
  /\ phase = "ready" /\ value_update
  /\ UNCHANGED <<parts, phase, gov, max_temp, target, seen>>

\* The first thermometer drives the governor; the others only store, which
\* nothing reads.
_temperature_callback(t) ==
  /\ phase = "ready" /\ t = First
  /\ seen' = target[t]
  /\ IF gov[t] = "off" THEN UNCHANGED <<last_pwm, output>> ELSE value_update
  /\ UNCHANGED <<parts, phase, gov, max_temp, target>>

-----------------------------------------------------------------------------
(* Requests.                                                                  *)
InRange(degrees) == degrees <= max_temp

\* What is out of range is refused; zero never is.
set_target_temp(t, degrees) ==
  /\ phase = "ready" /\ (degrees = 0 \/ InRange(degrees))
  /\ target' = [target EXCEPT ![t] = degrees]
  /\ UNCHANGED <<parts, phase, gov, max_temp, seen, last_pwm, output>>

alter_target(t, degrees) ==
  /\ phase = "ready"
  /\ target' = [target EXCEPT ![t] = IF degrees = 0 THEN 0 ELSE Min({max_temp, degrees})]
  /\ UNCHANGED <<parts, phase, gov, max_temp, seen, last_pwm, output>>

set_control(t, control) ==
  /\ phase = "ready" /\ gov[t] # "off"
  /\ gov' = [gov EXCEPT ![t] = control]
  /\ target' = [target EXCEPT ![t] = 0]
  /\ UNCHANGED <<parts, phase, max_temp, seen, last_pwm, output>>

-----------------------------------------------------------------------------
InitTcontrol ==
  /\ parts \in [thermometer : 0 .. MaxParts, hygrometer : {0, 1}, heater : 0 .. MaxParts, cooler : 0 .. MaxParts,
                temp_max : [{"thermometer", "hygrometer", "heater", "cooler"} -> Temps \ {0}], mode : Modes]
  /\ phase = "config" /\ max_temp = ALUMINIUM_OPERATING /\ gov = [p \in All |-> "off"]
  /\ target = [t \in Thermometers |-> 0]
  /\ seen = 0 /\ last_pwm = 0 /\ output = [p \in Heaters \cup Coolers |-> 0]

NextTcontrol ==
  \/ _init
  \/ \E t \in Thermometers : _temperature_callback(t)
  \/ \E t \in Thermometers, degrees \in Temps : set_target_temp(t, degrees) \/ alter_target(t, degrees)
  \/ \E t \in Thermometers, control \in {"shared", "tune"} : set_control(t, control)

SpecTcontrol == InitTcontrol /\ [][NextTcontrol]_tcontrol_vars

-----------------------------------------------------------------------------
(* Nothing is asked to be hotter than any part of the controller withstands. *)
Withstood == \A t \in Thermometers, p \in All : target[t] <= Withstands(p)

(* Heaters are powered only as the first thermometer, which is in command,   *)
(* last asked for; without a thermometer none ever is.                       *)
HeatersAreGoverned ==
  \A h \in Heaters : output[h] >= 5 => phase = "ready" /\ parts.thermometer > 0 /\ seen > 0 /\ gov[First] # "off"

(* Once anything was ordered, coolers run against the heaters as their mode  *)
(* tells: never at full power while a moderated heater is.                   *)
CoolersFollow ==
  \A c \in Coolers, h \in Heaters :
    parts.mode \in {"inverted", "moderated"} => output[c] + output[h] <= MaxPower + 20
=============================================================================
