------------------------------- MODULE MCParts -------------------------------
(* What the parts of the machine are and do: the tree that is built of them,
   temperature controllers and their parts, thermometers and their tables, and
   steppers. A behaviour is of one of these components; part says of which. *)
EXTENDS Integers, Sequences, FiniteSets

VARIABLES
  part,   \* the component this behaviour is of
  samples, lines, range,
  parts, progress, gov, max_temp, target, seen, last_pwm, orders,
  model, wanted, phase, limits, wire, shown, invalid, stopped, stage, calibrated, outside,
  broken, ever,
  is_enabled, armed, enable_count, pin_on, place, force_position, rail, driving, position,
  homed, endstop_phase, align, asked, forced, loose, origin, commands,
  file, step, loading, metaconf, attrs, real, on_hand, composites, children,
  partnames_to_remove, known, ready, built, governor, registered,
  config, todo, retry, blt, rod, faults, movement, pulses, refused, stuck, by_user

NoParts == [thermometer |-> 0, hygrometer |-> 0, heater |-> 0, cooler |-> 0, mode |-> "off",
            temp_max |-> [kind \in {"thermometer", "hygrometer", "heater", "cooler"} |-> 60]]

StepperPins == [s \in {"carriage 0", "carriage 1", "manual"} |-> IF s = "carriage 0" THEN "E0" ELSE "E1"]
StepperEndstops == [c \in {"carriage 0", "carriage 1"} |-> IF c = "carriage 0" THEN 1 ELSE 0]

PartFile(tools, t, e, c, r, printer, own) ==
  [tools |-> tools, uses |-> [t |-> t, e |-> e, c |-> c, r |-> r],
   printer |-> printer, axes |-> <<"r">>, own |-> own]
PartFiles ==
  {PartFile(tools, t, e, c, r, printer, own) :
     tools \in {<<"t", "e">>, <<"e", "t">>}, t \in {<<"h", "s">>, <<"h">>},
     e \in {<<>>, <<"h2">>, <<"t">>, <<"h2", "t">>}, c \in {<<>>, <<"e">>, <<"t", "e">>},
     r \in {<<>>, <<"s">>, <<"c">>}, own \in {<<>>, <<"s">>},
     printer \in {<<"toolhead">>, <<"r", "toolhead">>, <<"toolhead", "c">>}}
FirstPartFile == PartFile(<<"t", "e">>, <<"h">>, <<>>, <<>>, <<>>, <<"toolhead">>, <<>>)
PartOptions == [n \in {"m", "v", "h", "h2", "s", "t", "e", "c", "r"} |->
  CASE n = "s" -> <<"type", "pin">> [] n = "h" -> <<"power_max">>
    [] n = "t" -> <<"control">> [] n = "r" -> <<"position_min">> [] OTHER -> <<>>]

Table == INSTANCE Interpolate WITH
  Keys <- {0, 1, 2, 4, 5}, Values <- {0, 1, 2, 3, 6}, MaxSamples <- 4
tableVars == <<samples, lines, range>>

Control == INSTANCE Tcontrol WITH
  MaxParts <- 2, Temps <- {0, 60, 250}, Outputs <- {0, 30, 100}, Modes <- {"on", "equal",
  "inverted", "moderated", "off"}, output <- orders, phase <- progress
controlVars == <<parts, progress, gov, max_temp, target, seen, last_pwm, orders>>

Probes == INSTANCE Probes WITH
  Models <- {"thermistor", "thermistor inline", "adc_voltage", "adc_resistance", "i2c", "spi",
  "custom", "MAX31855", "MAX31856", "MAX6675", "MAX31865", "BME280"}, Temps <- {-60, -20, 0, 20,
  110, 300}, Ranges <- {<<0, 250>>, <<15, 100>>, <<-50, 100>>, <<-50, -10>>, <<-273, 250>>},
  RANGE_CHECK_COUNT <- 4, range <- wanted
probesVars == <<model, wanted, phase, limits, wire, shown, invalid, stopped, stage, calibrated,
  outside, broken, ever>>

Motors == INSTANCE Steppers WITH
  PinOf <- StepperPins, Phases <- 8, Accuracy <- 3, EndstopAt <- StepperEndstops, Jitters <- {0,
  2, 4}, PosMax <- 1, Distances <- {1}, MaxCommands <- 5
steppersVars == <<is_enabled, armed, enable_count, pin_on, place, force_position, rail, driving,
  position, homed, endstop_phase, align, asked, forced, loose, origin, commands>>

Tree == INSTANCE PartTree WITH
  Files <- PartFiles, Boards <- {"m"}, Virtuals <- {"v"}, Plain <- {"h", "h2", "s"},
  Carts <- {"c"}, Rails <- {"r"}, Heaters <- {"h", "h2"}, Options <- PartOptions,
  Uncertain <- "s", Begins <- {<<"h2", "h">>}, parts <- on_hand, stage <- step
treeVars == <<file, step, loading, metaconf, attrs, real, on_hand, composites, children,
  partnames_to_remove, known, ready, built, governor, registered>>

Bl == INSTANCE BLTouch WITH
  Configs <- [up : BOOLEAN, touch : BOOLEAN, stow : BOOLEAN], PinMove <- 3, Reset <- 2,
  TestTime <- 4, Lead <- 1, Ahead <- 2, Samples <- 2, MaxFaults <- 3, moved <- movement,
  sent <- pulses, probe <- rod, failed <- refused
bltouchVars == <<config, todo, retry, blt, rod, faults, movement, pulses, refused, stuck,
  by_user>>

Init ==
  /\ part \in {"table", "control", "probes", "steppers", "tree", "bltouch"}
  /\ part = "table" \/ samples = CHOOSE s \in Table!Tables : TRUE
  /\ Table!InitInterpolate
  /\ part = "control" \/ parts = NoParts
  /\ Control!InitTcontrol
  /\ part = "probes" \/ (model = "BME280" /\ wanted = <<0, 250>>)
  /\ Probes!InitProbes
  /\ Motors!InitSteppers /\ (part = "steppers" \/ align)
  /\ part = "tree" \/ file = FirstPartFile
  /\ Tree!InitTree
  /\ Bl!InitBLTouch /\ (part = "bltouch" \/ (config.up /\ config.touch /\ config.stow /\ todo = <<"raise">> /\ rod = "up"))

TableStep ==
  /\ part = "table" /\ Table!NextInterpolate
  /\ UNCHANGED <<part, controlVars, probesVars, steppersVars, treeVars, bltouchVars>>

ControlStep ==
  /\ part = "control" /\ Control!NextTcontrol
  /\ UNCHANGED <<part, tableVars, probesVars, steppersVars, treeVars, bltouchVars>>

ProbesStep ==
  /\ part = "probes" /\ Probes!NextProbes
  /\ UNCHANGED <<part, tableVars, controlVars, steppersVars, treeVars, bltouchVars>>

MotorsStep ==
  /\ part = "steppers" /\ Motors!NextSteppers
  /\ UNCHANGED <<part, tableVars, controlVars, probesVars, treeVars, bltouchVars>>

TreeStep ==
  /\ part = "tree" /\ Tree!NextTree
  /\ UNCHANGED <<part, tableVars, controlVars, probesVars, steppersVars, bltouchVars>>

BlStep ==
  /\ part = "bltouch" /\ Bl!NextBLTouch
  /\ UNCHANGED <<part, tableVars, controlVars, probesVars, steppersVars, treeVars>>

Next == TableStep \/ ControlStep \/ ProbesStep \/ MotorsStep \/ TreeStep \/ BlStep

Spec ==
  /\ Init /\ [][Next]_<<part, tableVars, controlVars, probesVars, steppersVars, treeVars, bltouchVars>>

------------------------------------------------------------------------------
\* Each section of the file ends at one place of the tree, with its own options, after
\* what hangs below it, and each heater asks the tool it hangs at (PartTree); no part of
\* a temperature controller is asked to be hotter than it withstands, heaters are
\* powered only as the first thermometer asks, and coolers run against them as their
\* mode tells (Tcontrol).
PartsAreGoverned == Tree!TreeIsBuilt /\ Control!Withstood /\ Control!HeatersAreGoverned /\ Control!CoolersFollow

\* A thermometer answers the values of its table at its samples (Interpolate), the
\* controller is told what the probe measures, and what is out of range, or a wire that
\* opens, stops the printer (Probes).
ReadingsAreRight == Table!MeetsSamplesOff /\ Table!RangeIsRight /\ Probes!ShownIsMeasured /\ Probes!RangeIsWatched /\ Probes!OpenWireStops /\ Probes!CalibratedFirst

\* The host knows the steps of the board and where a homed axis is, whatever the scatter
\* of its endstop, until a stepper is moved by force or loses its power unnoticed; one
\* carriage drives; an enable pin is on while one of its steppers is enabled (Steppers).
\* A touch probe gets its commands one after the other, and no move begins before its
\* pin has come to rest where it should be (BLTouch).
AxisIsWhereItSays == Motors!PinIsOnIfUsed /\ Motors!StepsAreCounted /\ Motors!OriginIsKept /\ Motors!ZeroIsFullStep /\ Motors!OneCarriageDrives /\ (part = "bltouch" => Bl!CommandsRise /\ Bl!ToolheadWaits /\ Bl!PinAsTold /\ Bl!RaisedIsSeen)

==============================================================================
