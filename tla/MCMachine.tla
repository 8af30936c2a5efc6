------------------------------ MODULE MCMachine ------------------------------
(* How the machine moves and heats: the toolhead and its look-ahead queue, homing and
   the endstops, the heaters, the screen, the outputs, the fans, the width of the
   filament and the drivers of the steppers. A behaviour is of one of these components;
   part says of which. *)
EXTENDS Integers, Sequences, FiniteSets

VARIABLES
  part,   \* the component this behaviour is of
  sensor_kind, sensor_active, sensor_timer, filament_array, width_reading, diameter, present,
  factor, retracted, script_runs, waiting, sensor_off, raced,
  device, lit, new_data, old_data, screen, drawn, color_data, shining, colors,
  layout, powered, print_time, user, outs, outgoing, levels,
  now, th, gcode, can_pause,
  moves, flushed, entry,
  pos, real, homed, todo, switch, heater, faults, hop_failed,
  time, reports_lost, host, sensor, state_queries, states,
  tc, tune, verify, output, turn,
  kind, last_fan_value, last_fan_time, ordered, last_on, since, last_speed_value,
  next_speed_time, fan_asked, restarting,
  family, dedicated, stealth, tmc_at, registers, chip, toff, enabled, idle, current, program,
  tmc_queue, bus, ifcnt, count, tmc_callbacks, by_user, raised, tmc_commands, missed, attempts

LookAheadMove(delta, smooth, cruise) ==
  [delta |-> delta, smooth_delta |-> smooth, cruise |-> cruise, max_start |-> 0, max_smoothed |-> 0]
LookAheadMoves == {LookAheadMove(4, 2, 8), LookAheadMove(2, 2, 4), LookAheadMove(8, 2, 12)}

OutputAt(id, type, invert) == [id |-> id, type |-> type, invert |-> invert]
OutputUser(use, pins) == [kind |-> use, outs |-> pins]
VirtualLayout == [p |-> OutputUser("pin", <<OutputAt("d1", "digital", TRUE), OutputAt("d2", "digital", FALSE)>>)]
SoftLayout == [w |-> OutputUser("pwm pin", <<OutputAt("s", "soft pwm", TRUE)>>)]
ServoLayout == [s |-> OutputUser("servo", <<OutputAt("h", "pwm", TRUE)>>)]
ChipServoLayout == [s |-> OutputUser("servo", <<OutputAt("x", "sx pwm", TRUE)>>)]
ChipLayout == [a |-> OutputUser("pin", <<OutputAt("xa", "sx digital", TRUE)>>),
               b |-> OutputUser("pin", <<OutputAt("xb", "sx digital", FALSE)>>)]

Filament == INSTANCE FilamentWidth WITH
  Kinds <- {"hall", "plain"}, Widths <- {0, 160}, Nominal <- 175, Difference <- 20,
  RunoutDia <- 100, Offset <- 325, Interval <- 2, Delay <- 2, MaxRetract <- 1, MaxWaiting <- 1,
  reading <- width_reading, kind <- sensor_kind, mutex <- script_runs, off <- sensor_off,
  timer <- sensor_timer, active <- sensor_active
widthVars == <<sensor_kind, sensor_active, sensor_timer, filament_array, width_reading,
  diameter, present, factor, retracted, script_runs, waiting, sensor_off, raced>>

Display == INSTANCE Display WITH
  Devices <- {"st7920", "hd44780", "uc1701", "neopixel", "dotstar"}, Cols <- 4, Lines <- {1, 2},
  Gap <- 2, Limit <- 3, Count <- 3, Colors <- {<<1, 0, 2>>, <<0, 1, 1>>}, ready <- lit,
  leds <- shining, asked <- colors
displayVars == <<device, lit, new_data, old_data, screen, drawn, color_data, shining, colors>>

Outs == INSTANCE Outputs WITH
  Layouts <- {VirtualLayout, SoftLayout, ServoLayout, ChipServoLayout, ChipLayout},
  PinMinTime <- 2, Lead <- 2, Latency <- 1, MinPulse <- 1, StartSlot <- 3, MaxTime <- 7,
  stage <- powered, now <- print_time, out <- outs, host <- outgoing, board <- levels
outputsVars == <<layout, powered, print_time, user, outs, outgoing, levels>>

Toolhead == INSTANCE Toolhead WITH
  Moves <- LookAheadMoves, Corners <- {0, 2, 6}, MaxMoves <- 3, BufferLow <- 2, BufferHigh <- 4,
  BufferStart <- 2, MinKinTime <- 1, PrimeTime <- 1, StallDelay <- 1, DripSegment <- 1,
  DripTime <- 1, ScanTimes <- {0, 1}, MoveTimes <- {1, 4}, Late <- 1, MaxQueue <- 2,
  MaxTime <- 6
toolheadVars == <<now, th, gcode, can_pause>>

lookaheadVars == <<moves, flushed, entry>>

Homing == INSTANCE Homing WITH
  PosMax <- 3, Retract <- 1, Hop <- 1, SafeX <- 1, Targets <- {0, 200}, MaxFaults <- 1,
  Retry <- 2, MoveTime <- 3, NEVER <- 1000, MaxLate <- 1, MaxHomings <- 2, MaxLost <- 2,
  lost <- reports_lost, now <- time, down <- state_queries, up <- states, board <- sensor
homingVars == <<pos, real, homed, todo, switch, heater, faults, hop_failed>>

endstopVars == <<time, reports_lost, host, sensor, state_queries, states>>

Heat == INSTANCE Heat WITH
  Temps <- {0, 2, 4}, Targets <- {0, 4}, MaxPower <- 100, Outputs <- {3, 100},
  MAX_HEAT_TIME <- 3, ReportStale <- 1, Delta <- 1, TuneDelta <- 1, Hysteresis <- 1,
  MaxError <- 2, HeatingGain <- 1, CheckGainTime <- 2, Peaks <- 2, board <- output
heatVars == <<tc, tune, verify, output, turn>>

Fan == INSTANCE Fan WITH
  Kinds <- {"print", "heater", "controller", "temperature"}, Values <- {0, 5, 33, 36, 100},
  MaxPower <- 80, OffBelow <- 10, KickStart <- 3, MinTime <- 1, MinSpeed <- 30, Delay <- 1,
  Refresh <- 2, IdleSpeed <- 50, IdleTimeout <- 2, Ahead <- 2, asked <- fan_asked
fanVars == <<kind, last_fan_value, last_fan_time, ordered, last_on, since, last_speed_value,
  next_speed_time, fan_asked, restarting>>

Tmc == INSTANCE Tmc WITH
  Families <- {"tmc2209", "tmc2660", "tmc5160"}, Retries <- 2, Attempts <- 2, IfcntMod <- 4,
  Currents <- {40, 150}, Toff <- 3, Callbacks <- {"cb1", "cb2"}, MaxCommands <- 3, MaxLost <- 2,
  callbacks <- tmc_callbacks, commands <- tmc_commands, queue <- tmc_queue, at <- tmc_at,
  lost <- missed
tmcVars == <<family, dedicated, stealth, tmc_at, registers, chip, toff, enabled, idle, current,
  program, tmc_queue, bus, ifcnt, count, tmc_callbacks, by_user, raised, tmc_commands, missed,
  attempts>>

InitMachine ==
  /\ part \in {"width", "display", "outputs", "toolhead", "lookahead", "homing", "endstop", "heat", "fan", "tmc"}
  /\ Filament!InitWidth /\ (part = "width" \/ sensor_kind = "plain")
  /\ Display!InitDisplay /\ (part = "display" \/ (device = "neopixel" /\ colors.now[1] = <<0, 1, 1>>))
  /\ Outs!InitOutputs /\ (part = "outputs" \/ layout = ServoLayout)
  /\ Toolhead!InitToolhead
  /\ Toolhead!InitLookAhead
  /\ Homing!InitHoming /\ (part = "homing" \/ real = pos)
  /\ Homing!InitEndstop
  /\ Heat!InitHeat /\ (part = "heat" \/ tc.gov = "pid")
  /\ Fan!InitFan /\ (part = "fan" \/ kind = "print")
  /\ Tmc!InitTmc /\ (part = "tmc" \/ (family = "tmc2660" /\ dedicated /\ stealth /\ current = 40))

FilamentStep ==
  /\ part = "width" /\ Filament!NextWidth
  /\ UNCHANGED <<part, displayVars, outputsVars, toolheadVars, lookaheadVars, homingVars,
                  endstopVars, heatVars, fanVars, tmcVars>>

DisplayStep ==
  /\ part = "display" /\ Display!NextDisplay
  /\ UNCHANGED <<part, widthVars, outputsVars, toolheadVars, lookaheadVars, homingVars,
                  endstopVars, heatVars, fanVars, tmcVars>>

OutsStep ==
  /\ part = "outputs" /\ Outs!NextOutputs
  /\ UNCHANGED <<part, widthVars, displayVars, toolheadVars, lookaheadVars, homingVars,
                  endstopVars, heatVars, fanVars, tmcVars>>

ToolheadStep ==
  /\ part = "toolhead" /\ Toolhead!NextToolhead
  /\ UNCHANGED <<part, widthVars, displayVars, outputsVars, lookaheadVars, homingVars,
                  endstopVars, heatVars, fanVars, tmcVars>>

LookAheadStep ==
  /\ part = "lookahead" /\ Toolhead!NextLookAhead
  /\ UNCHANGED <<part, widthVars, displayVars, outputsVars, toolheadVars, homingVars,
                  endstopVars, heatVars, fanVars, tmcVars>>

HomingStep ==
  /\ part = "homing" /\ Homing!NextHoming
  /\ UNCHANGED <<part, widthVars, displayVars, outputsVars, toolheadVars, lookaheadVars,
                  endstopVars, heatVars, fanVars, tmcVars>>

EndstopStep ==
  /\ part = "endstop" /\ Homing!NextEndstop
  /\ UNCHANGED <<part, widthVars, displayVars, outputsVars, toolheadVars, lookaheadVars,
                  homingVars, heatVars, fanVars, tmcVars>>

HeatStep ==
  /\ part = "heat" /\ Heat!NextHeat
  /\ UNCHANGED <<part, widthVars, displayVars, outputsVars, toolheadVars, lookaheadVars,
                  homingVars, endstopVars, fanVars, tmcVars>>

FanStep ==
  /\ part = "fan" /\ Fan!NextFan
  /\ UNCHANGED <<part, widthVars, displayVars, outputsVars, toolheadVars, lookaheadVars,
                  homingVars, endstopVars, heatVars, tmcVars>>

TmcStep ==
  /\ part = "tmc" /\ Tmc!NextTmc
  /\ UNCHANGED <<part, widthVars, displayVars, outputsVars, toolheadVars, lookaheadVars,
                  homingVars, endstopVars, heatVars, fanVars>>

NextMachine == FilamentStep \/ DisplayStep \/ OutsStep \/ ToolheadStep \/ LookAheadStep \/
               HomingStep \/ EndstopStep \/ HeatStep \/ FanStep \/ TmcStep

SpecMachine ==
  /\ InitMachine /\ [][NextMachine]_<<part, widthVars, displayVars, outputsVars, toolheadVars, lookaheadVars, homingVars, endstopVars, heatVars, fanVars, tmcVars>>

------------------------------------------------------------------------------
\* While the toolhead is in its main state it is ahead of the board, a queued move has a
\* timer that flushes it in time, moves begin where no steps have been generated, and in
\* a drip move few steps are under way (Toolhead); each move starts at the speed at
\* which the one before it ends (Toolhead).
MovesInTime == Toolhead!MainIsAhead /\ Toolhead!QueuedIsFlushed /\ Toolhead!BeginsUngenerated /\ Toolhead!DripIsShort /\ Toolhead!JunctionsMeet

\* An axis that counts as homed is where the host thinks it is, but for a refused hop,
\* and however homing ends the heaters are as the user asked (Homing).
HomedIsReal == Homing!HomedIsRealButHop /\ Homing!HeatersRestored

\* Homing succeeds exactly if the endstop triggered during this very homing (Homing).
ResultIsTrue == Homing!ResultIsTrue

\* The board never turns a heater off for want of orders, turns one without a target
\* off, and a heater that does not get warmer is noticed (Heat).
HeatIsSafe == Heat!RepeatedInTime /\ Heat!NoTargetIsOff /\ Heat!StuckIsNoticed

\* No order for a pin is late or takes the place of one that waits, and at rest each pin
\* shows what was asked for last (Outputs); the screen and the leds show what was drawn
\* and asked (Display); the orders for a fan come in the order of their times, and it
\* runs as the motors, heaters or the temperature ask (Fan); a sensor of the filament
\* width that is off leaves the extruder alone, and its array stays short
\* (FilamentWidth).
OutputsFollow == (part = "outputs" => Outs!NoneMissed /\ Outs!ShowsLast) /\ (part = "display" => Display!ScreenShows /\ Display!LedsShow) /\ Filament!OffIsOff /\ Filament!ArrayIsBounded /\ Fan!OrdersRise /\ Fan!RunsOn /\ Fan!FollowsTemperature

\* At rest a driver has the fields the host set, is on if the stepper is enabled, has
\* its mode back after homing and the current last asked for (Tmc).
DriversAgree == part = "tmc" => Tmc!ChipAgrees /\ Tmc!OnIfEnabled /\ Tmc!ModeRestored /\ Tmc!CurrentIsAsked

==============================================================================
