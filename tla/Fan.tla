--------------------------------- MODULE Fan ---------------------------------
(* The fans (cooler.py).  All of them end in PrinterFan.set_speed, which      *)
(* sends the board orders for a time to come; they differ in who asks: moves  *)
(* (M106), the state of the heaters, of the motors and heaters, or a          *)
(* temperature.  Speeds are in hundredths, times relative to now.             *)
EXTENDS Integers, Sequences, SequencesExt, FiniteSetsExt

CONSTANTS
  Kinds,             \* "print", "heater", "controller" or "temperature"
  Values,            \* speeds asked for
  MaxPower, OffBelow, KickStart, MinTime,   \* max_power, off_below, kick_start_time, FAN_MIN_TIME
  MinSpeed, Delay, Refresh,  \* of the temperature fan: min_speed, speed_delay and 0.75 * MAX_FAN_TIME
  IdleSpeed, IdleTimeout,    \* of the controller fan, in checks
  Ahead              \* bound: how far ahead of now a speed is set, and the last order when it is

VARIABLES
  kind,
  last_fan_value,
  last_fan_time,     \* relative to now; what is long past is -MinTime
  ordered,           \* the last order to the board: its time, and whether all came in order
  last_on, since,    \* controller: last_on, and the checks since something was active
  last_speed_value, next_speed_time, asked,  \* temperature: asked is what the governor wants at last
  restarting         \* a restart was requested

fan_vars == <<kind, last_fan_value, last_fan_time, ordered, last_on, since, last_speed_value, next_speed_time,
              asked, restarting>>

Abs(x) == IF x < 0 THEN -x ELSE x

-----------------------------------------------------------------------------
(* PrinterFan *)

Scaled(value) == IF value < OffBelow THEN 0 ELSE Min({MaxPower, (value * MaxPower) \div 100})

Kicks(value) ==
  value # 0 /\ value < MaxPower /\ KickStart > 0 /\ (last_fan_value = 0 \/ value - last_fan_value > 50)

\* Mutant: the time the kick start began
EndOf(start, value) == start
LastTime(start, value) == IF Kicks(value) THEN start + KickStart ELSE start

\* The orders of a change: a kick start, and the speed behind it
Orders(start, value) == IF Kicks(value) THEN <<start, start + KickStart>> ELSE <<start>>

Sent(times) ==
  ordered' = [at |-> Last(times), rising |-> ordered.rising /\ ordered.at < times[1]]

set_speed(print_time, speed) ==
  LET value == Scaled(speed)
      start == Max({last_fan_time + MinTime, print_time})
  IN  IF value = last_fan_value THEN UNCHANGED <<last_fan_value, last_fan_time, ordered>>
      ELSE /\ Sent(Orders(start, value))
           /\ last_fan_time' = LastTime(start, value)
           /\ last_fan_value' = value

\* A move the callback was queued with has come to its turn.
cmd_M106(print_time, speed) ==
  /\ kind = "print" /\ ~restarting
  /\ set_speed(print_time, speed)
  /\ UNCHANGED <<kind, last_on, since, last_speed_value, next_speed_time, asked, restarting>>

handle_request_restart(print_time) ==
  /\ ~restarting /\ restarting' = TRUE
  /\ set_speed(print_time, 0)
  /\ UNCHANGED <<kind, last_on, since, last_speed_value, next_speed_time, asked>>

-----------------------------------------------------------------------------
(* PrinterHeaterFan and ControllerFan: once a second *)

HeaterCallback(hot) ==
  /\ kind = "heater"
  /\ set_speed(MinTime, IF hot THEN 100 ELSE 0)
  /\ UNCHANGED <<kind, last_on, since, last_speed_value, next_speed_time, asked, restarting>>

\* Mutant: the timeout goes on while something is active
ResumeOn(active) == IF last_on < IdleTimeout THEN last_on + 1 ELSE last_on
LastOn(active) == IF active THEN 0 ELSE IF last_on < IdleTimeout THEN last_on + 1 ELSE last_on

ControllerCallback(active) ==
  /\ kind = "controller"
  /\ last_on' = LastOn(active)
  /\ since' = IF active THEN 0 ELSE IF since <= IdleTimeout THEN since + 1 ELSE since
  /\ set_speed(MinTime, IF active THEN MaxPower ELSE IF last_on < IdleTimeout THEN IdleSpeed ELSE 0)
  /\ UNCHANGED <<kind, last_speed_value, next_speed_time, asked, restarting>>

-----------------------------------------------------------------------------
(* TemperatureFan.set_speed, called by its governor at each reading *)

Clamped(value, target) == IF value <= 0 \/ target = 0 THEN 0 ELSE Max({value, MinSpeed})

\* Mutant: any change may wait
Insignificant(value) == next_speed_time > 0
MaySuppress(value) == (next_speed_time > 0 \/ last_speed_value = 0) /\ Abs(value - last_speed_value) < 5

TemperatureCallback(speed, target) ==
  LET value == Clamped(speed, target)
  IN  /\ kind = "temperature"
      /\ asked' = value
      /\ IF MaySuppress(value)
         THEN UNCHANGED <<last_speed_value, next_speed_time, last_fan_value, last_fan_time, ordered>>
         ELSE /\ next_speed_time' = Delay + Refresh /\ last_speed_value' = value
              /\ set_speed(Delay, value)
      /\ UNCHANGED <<kind, last_on, since, restarting>>

-----------------------------------------------------------------------------
Tick ==
  /\ last_fan_time' = Max({last_fan_time - 1, 0 - MinTime})
  /\ ordered' = [ordered EXCEPT !.at = Max({@ - 1, 0 - MinTime})]
  /\ next_speed_time' = Max({next_speed_time - 1, 0})
  /\ UNCHANGED <<kind, last_fan_value, last_on, since, last_speed_value, asked, restarting>>

InitFan ==
  /\ kind \in Kinds
  /\ last_fan_value = 0 /\ last_fan_time = 0 - MinTime /\ ordered = [at |-> 0 - MinTime, rising |-> TRUE]
  /\ last_on = IdleTimeout /\ since = IdleTimeout + 1
  /\ last_speed_value = 0 /\ next_speed_time = 0 /\ asked = 0 /\ restarting = FALSE

NextFan ==
  \/ Tick
  \/ /\ last_fan_time <= Ahead
     /\ \/ \E print_time \in 0 .. Ahead :
             handle_request_restart(print_time) \/ \E speed \in Values : cmd_M106(print_time, speed)
        \/ \E on \in BOOLEAN : HeaterCallback(on) \/ ControllerCallback(on)
        \/ \E speed \in Values, target \in {0, 1} : TemperatureCallback(speed, target)

-----------------------------------------------------------------------------
(* The board gets its orders in the order of their times, kick starts        *)
(* included, however fast the speed is changed.                              *)
OrdersRise == ordered.rising /\ ordered.at = last_fan_time

(* The fan of the electronics runs while a motor or heater is on, and as     *)
(* long as it should afterwards.                                             *)
RunsOn ==
  kind = "controller" /\ ~restarting =>
    last_fan_value = Scaled(IF since = 0 THEN MaxPower ELSE IF since <= IdleTimeout THEN IdleSpeed ELSE 0)

(* The fan runs as its temperature asks, but for changes too small to send.  *)
FollowsTemperature ==
  kind = "temperature" /\ ~restarting =>
    Abs(asked - last_speed_value) < 5 /\ last_fan_value = Scaled(last_speed_value)

=============================================================================
