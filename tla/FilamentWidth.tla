---------------------------- MODULE FilamentWidth ----------------------------
(* Two sensors of the width of the filament (filament.py), some way before    *)
(* the nozzle: a measure waits in an array until its piece of filament has    *)
(* come there, and then sets the extrude factor (M221).  A timer does both    *)
(* once a second; its script waits for the mutex of the gcode class while a   *)
(* script of the host runs, whose commands turn the sensor on and off.        *)
(* Lengths along the filament are relative to the nozzle, widths in hundredths. *)
EXTENDS Integers, Sequences, FiniteSetsExt

CONSTANTS
  Kinds,                     \* "hall" (HallFilamentWidthSensor) and "plain"
  Widths,                    \* of the filament at the sensor; 0 is none
  Nominal, Difference,       \* nominal_filament_dia, measurement_max_difference
  RunoutDia,                 \* of the hall sensor
  Offset,                    \* of the hall sensor: minus the diameter that two readings of 0 mean
  Interval, Delay,           \* MEASUREMENT_INTERVAL_MM <= measurement_delay
  MaxRetract, MaxWaiting     \* bounds: how far the filament is drawn back, scripts that wait

VARIABLES
  kind, active, timer, filament_array,
  reading, diameter,         \* lastFilamentWidthReading, and what is entered into the array
  present,                   \* what the runout helper was told
  factor, retracted,         \* of the extruder
  mutex,                     \* whether a script of the host runs
  waiting,                   \* the scripts of the timer that wait: [factor, clear]
  off, raced                 \* the sensor was turned off by M406, while a script waited

width_vars == <<kind, active, timer, filament_array, reading, diameter, present, factor, retracted, mutex, waiting, off, raced>>

-----------------------------------------------------------------------------
(* Readings.  The hall sensor has two pins, which are read one after the other. *)

Raw(width) == IF kind = "plain" \/ width = 0 THEN width ELSE width + Offset

adc_callback(width) ==
  /\ reading' = Raw(width)
  /\ diameter' = IF kind = "plain" THEN width ELSE diameter

adc2_callback(width) ==
  /\ kind = "hall" /\ UNCHANGED reading
  /\ diameter' = (reading + Raw(width)) \div 2 - Offset

-----------------------------------------------------------------------------
(* The timer *)

\* Mutant: every measure is entered
EnteredAlways(q) == Append(q, [at |-> Delay, width |-> diameter])

update_filament_array(q) ==
  IF q = <<>> \/ q[Len(q)].at + Interval <= Delay THEN Append(q, [at |-> Delay, width |-> diameter]) ELSE q

FilamentExists == reading > 50

percentage(width) ==
  IF width \in Nominal - Difference .. Nominal + Difference
  THEN (200 * Nominal * Nominal + width * width) \div (2 * width * width)
  ELSE 100

\* The rest of an event: at once, or when the script of the host has ended.
run_script(script, q) ==
  IF mutex
  THEN /\ Len(waiting) < MaxWaiting /\ waiting' = Append(waiting, script)
       /\ filament_array' = q /\ timer' = "NEVER" /\ UNCHANGED factor
  ELSE /\ factor' = script.factor /\ filament_array' = IF script.clear THEN <<>> ELSE q
       /\ timer' = "set" /\ UNCHANGED waiting

extrude_factor_update_event ==
  LET q == update_filament_array(filament_array)
  IN  /\ timer = "set"
      /\ present' = (kind = "plain" \/ diameter > RunoutDia)
      /\ CASE ~FilamentExists -> run_script([factor |-> 100, clear |-> TRUE], q)
           [] FilamentExists /\ q[1].at <= 0 ->
                run_script([factor |-> percentage(q[1].width), clear |-> FALSE], Tail(q))
           [] OTHER -> filament_array' = q /\ UNCHANGED <<timer, factor, waiting>>

\* A script that waited runs, and the event returns when to be called next.
EventReturns ==
  /\ ~mutex /\ waiting # <<>>
  /\ factor' = Head(waiting).factor
  /\ filament_array' = IF Head(waiting).clear THEN <<>> ELSE filament_array
  /\ timer' = "set" /\ waiting' = Tail(waiting)

-----------------------------------------------------------------------------
(* Commands of the host, within its script *)

cmd_ClearFilamentArray == filament_array' = <<>> /\ factor' = 100 /\ UNCHANGED <<active, timer, off, raced>>

cmd_M405 ==
  /\ ~active /\ active' = TRUE /\ timer' = "set" /\ off' = FALSE /\ raced' = FALSE
  /\ UNCHANGED <<filament_array, factor>>

\* Mutant: the timer goes on
M406KeepsTimer ==
  /\ active /\ active' = FALSE /\ off' = TRUE /\ raced' = (waiting # <<>>)
  /\ filament_array' = <<>> /\ factor' = 100 /\ UNCHANGED timer

cmd_M406 ==
  /\ active /\ active' = FALSE /\ off' = TRUE /\ raced' = (waiting # <<>>)
  /\ timer' = "NEVER" /\ filament_array' = <<>> /\ factor' = 100

-----------------------------------------------------------------------------
(* What is past the nozzle for long is at -MaxRetract. *)
Moved(length) ==
  filament_array' = [i \in DOMAIN filament_array |->
    [filament_array[i] EXCEPT !.at = Max({@ - length, 0 - MaxRetract})]]

Extrude(length) == retracted' = Max({retracted - length, 0}) /\ Moved(length)
Retract == retracted < MaxRetract /\ retracted' = retracted + 1 /\ Moved(-1)

\* handle_ready starts the timer, whatever the configuration says.
InitWidth ==
  /\ kind \in Kinds /\ active \in BOOLEAN /\ (kind = "plain" => active)
  /\ timer = "set" /\ filament_array = <<>> /\ reading = 0 /\ present = TRUE
  /\ diameter = IF kind = "hall" THEN Nominal ELSE 0
  /\ factor = 100 /\ retracted = 0 /\ mutex = FALSE /\ waiting = <<>> /\ off = FALSE /\ raced = FALSE

NextWidth ==
  /\ UNCHANGED kind
  /\ \/ /\ \E width \in Widths : adc_callback(width) \/ adc2_callback(width)
        /\ UNCHANGED <<active, timer, filament_array, present, factor, retracted, mutex, waiting, off, raced>>
     \/ /\ extrude_factor_update_event
        /\ UNCHANGED <<active, reading, diameter, retracted, mutex, off, raced>>
     \/ /\ EventReturns
        /\ UNCHANGED <<active, reading, diameter, present, retracted, mutex, off, raced>>
     \/ /\ mutex /\ (cmd_ClearFilamentArray \/ cmd_M405 \/ cmd_M406)
        /\ UNCHANGED <<reading, diameter, present, retracted, mutex, waiting>>
     \/ /\ (\E length \in 1 .. Interval + 1 : Extrude(length)) \/ Retract
        /\ UNCHANGED <<active, timer, reading, diameter, present, factor, mutex, waiting, off, raced>>
     \/ /\ mutex' = ~mutex
        /\ UNCHANGED <<active, timer, filament_array, reading, diameter, present, factor, retracted, waiting, off, raced>>

-----------------------------------------------------------------------------
(* A sensor that M406 has turned off leaves the extruder alone, unless a      *)
(* script of its timer waited for the very script M406 was in.                *)
OffIsOff == off /\ ~raced => factor = 100 /\ filament_array = <<>> /\ timer = "NEVER" /\ waiting = <<>>

(* At each event one measure is entered and one that is due is used: however  *)
(* fast the filament moves, no more wait than fit between the sensor and the  *)
(* nozzle, but for those a script that waits is going to drop.                *)
ArrayIsBounded ==
  \/ \E i \in DOMAIN waiting : waiting[i].clear
  \/ Len(filament_array) <= (Delay + MaxRetract) \div Interval + 1

=============================================================================
