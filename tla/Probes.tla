------------------------------- MODULE Probes --------------------------------
(* Thermometers on an analog pin, on SPI and on I2C: how they are set up, the *)
(* range they ask the board to watch, what they make of its samples, and      *)
(* broken wires.  Samples are counts of the converter of the probe.           *)
EXTENDS Integers, Sequences, FiniteSetsExt

CONSTANTS
  Models,                 \* the kinds of probes there are, of those of Board and Loaded below
  Temps,                  \* degrees there may be
  Ranges,                 \* <<min, max>> a temperature controller asks for
  RANGE_CHECK_COUNT       \* samples out of range in a row that stop the board

VARIABLES
  model, range,           \* the probe, and what setup_minmax was given
  phase,                  \* "load", "made", "ready", "running" or "failed"
  limits,                 \* counts the board takes for possible
  wire,                   \* "ok", "open" or "short"
  shown,                  \* what the controller was told: value, measured; <<>> before
  invalid,                \* of the board: samples out of range in a row
  stopped,                \* "no", "board" or "host": who shut the printer down
  stage, calibrated,      \* of a BME280: "off", "updating", "due", "measuring" or "gave up"
  outside, broken, ever   \* reports out of range in a row, and since the wire broke; ever one of them

probes_vars == <<model, range, phase, limits, wire, shown, invalid, stopped, stage, calibrated, outside, broken, ever>>

Thermocouples == {"MAX31855", "MAX31856", "MAX6675"}
OnSpi == Thermocouples \cup {"MAX31865"}
Analog == {"thermistor", "thermistor inline", "adc_voltage", "adc_resistance"}
KELVIN_TO_CELSIUS == -273

-----------------------------------------------------------------------------
(* SPI: two's complement, of which the sign has to be mended.                 *)
MULT(m) == IF m = "MAX31856" THEN 128 ELSE 4
SignBit(m) == IF m = "MAX31856" THEN 2^18 ELSE 2^13
Word(m) == IF m = "MAX31855" THEN 2^14 ELSE 2^20    \* 32 bits, in counts

FixSign(m, counts) == IF counts >= SignBit(m) THEN -((counts % SignBit(m)) + 1) ELSE counts

RoundHalf(counts) == IF counts < 0 THEN counts + 1 ELSE counts    \* int(counts + 0.5)

\* %u writes a negative number as one that is more than every sample there is,
\* but for a MAX31855, whose samples fill the word.
AsUnsigned(m, counts) == IF counts < 0 THEN Word(m) + counts ELSE counts

\* The resistance of an RTD rises with the temperature; its curve is not told apart.
Rtd(temp) == temp + 300

-----------------------------------------------------------------------------
(* Analog: the voltage of an amplifier rises, that of a thermistor falls; an  *)
(* inline resistor adds to the resistance.                                    *)
Full == 1000
Inline(m) == IF m = "thermistor inline" THEN 5 ELSE 0
Hot == 500

calc_adc_analog(m, temp) ==
  CASE m = "adc_voltage" -> temp + 20
    [] m # "adc_voltage" /\ temp <= KELVIN_TO_CELSIUS -> Full
    [] OTHER -> (Hot - temp) + Inline(m)

\* The logarithm of what is left of the resistance, if anything is.
Undefined(m, counts) == m = "thermistor inline" /\ counts <= Inline(m)

Clamp(low, high, x) == Max({low, Min({high, x})})

calc_temp_analog(m, counts) ==
  IF m = "adc_voltage" THEN counts - 20 ELSE Hot - (Clamp(1, Full - 1, counts) - Inline(m))

-----------------------------------------------------------------------------
calc_adc(m, temp) ==
  CASE m \in Thermocouples -> RoundHalf(temp * MULT(m))
    [] m = "MAX31865" -> Rtd(temp)
    [] OTHER -> calc_adc_analog(m, temp)

calc_temp(m, counts) ==
  CASE m \in Thermocouples -> FixSign(m, counts)
    [] m = "MAX31865" -> counts - 300
    [] m \in Analog -> calc_temp_analog(m, counts)
    [] OTHER -> counts

\* No amplifier has a voltage, and no MAX6675 a temperature, below zero.
Felt(m, temp) == CASE m = "MAX6675" -> Max({0, temp}) [] m = "adc_voltage" -> Max({-20, temp}) [] OTHER -> temp

\* What a probe at some temperature sends while its wire is whole.
Sample(m, temp) ==
  CASE m \in {"MAX31855", "MAX31856"} -> (temp * MULT(m)) % (2 * SignBit(m))
    [] m = "MAX6675" -> Felt(m, temp) * MULT(m)
    [] m = "MAX31865" -> Rtd(temp)
    [] m \in Analog -> Clamp(0, Full, calc_adc_analog(m, temp))
    [] OTHER -> temp

Measured(m, temp) == IF m \in Thermocouples THEN Felt(m, temp) * MULT(m) ELSE Felt(m, temp)

\* What it sends when the wire is not: the chips of the SPI add a fault bit, but
\* a MAX6675 takes a short circuit for a cold tip.
SamplesBroken(m, temp) ==
  IF m \in {"thermistor", "thermistor inline"} THEN {IF wire = "open" THEN Full ELSE 0} ELSE {Sample(m, temp)}
HasFault(m) == m \in OnSpi /\ wire # "ok" /\ (m = "MAX6675" => wire = "open")

-----------------------------------------------------------------------------
(* Setting up.                                                                *)
\* The constructors of I2C and Custom are called with the wrong arguments; the
\* SPI of this file is made, and is never heard of.
load_node ==
  /\ phase = "load"
  /\ phase' = IF model \in {"i2c", "custom"} THEN "failed" ELSE "made"
  /\ UNCHANGED <<model, range, limits, wire, shown, invalid, stopped, stage, calibrated, outside, broken, ever>>

\* A linear resistance has no pullup to compute with.
setup_minmax ==
  /\ phase = "made"
  /\ phase' = IF model = "adc_resistance" THEN "failed" ELSE "ready"
  /\ UNCHANGED <<model, range, limits, wire, shown, invalid, stopped, stage, calibrated, outside, broken, ever>>

_build_config_as_asked ==    \* mutant: the range is sent as it was asked for
  /\ phase = "ready" /\ phase' = "running"
  /\ limits' = IF model = "BME280" THEN <<0, 0>>
               ELSE [i \in {1, 2} |-> AsUnsigned(model, calc_adc(model, range[i]))]
  /\ UNCHANGED <<model, range, wire, shown, invalid, stopped, stage, calibrated, outside, broken, ever>>

\* The counts of the range, in order, as the board gets them.
_build_config ==
  LET adc_range == {calc_adc(model, range[1]), calc_adc(model, range[2])}
  IN  /\ phase = "ready" /\ phase' = "running"
      /\ limits' = CASE model \in OnSpi -> <<AsUnsigned(model, Min(adc_range)), AsUnsigned(model, Max(adc_range))>>
                     [] model \in Analog -> <<Clamp(0, 65535, Min(adc_range)), Clamp(0, 65535, Max(adc_range))>>
                     [] OTHER -> <<0, 0>>
      /\ UNCHANGED <<model, range, wire, shown, invalid, stopped, stage, calibrated, outside, broken, ever>>

-----------------------------------------------------------------------------
(* Reports of the board.                                                      *)
Running == phase = "running" /\ stopped = "no"
Allowed(counts) == limits[1] <= counts /\ counts <= limits[2]

\* An exception in a handler of a response is logged and forgotten.
Tell(temp, counts) ==
  shown' = IF Undefined(model, counts) THEN shown
           ELSE [value |-> calc_temp(model, counts), measured |-> Measured(model, temp), whole |-> wire = "ok"]

Note(temp) ==
  LET out == wire # "ok" \/ Felt(model, temp) < range[1] \/ Felt(model, temp) > range[2]
  IN  /\ outside' = IF wire = "ok" /\ out THEN outside + 1 ELSE 0
      /\ broken' = IF wire = "open" THEN broken + 1 ELSE 0
      /\ ever' = (ever \/ out)

\* The board reports every sample, and stops at one that is out of range.
\* The host is shut down for a fault, and is still told the temperature.
_handle_spi_response(temp) ==
  /\ Running /\ model \in OnSpi
  /\ \E counts \in IF wire = "ok" THEN {Sample(model, temp)} ELSE SamplesBroken(model, temp) :
       /\ Tell(temp, counts)
       /\ stopped' = IF ~Allowed(counts) THEN "board" ELSE IF HasFault(model) THEN "host" ELSE "no"
  /\ Note(temp)
  /\ UNCHANGED <<model, range, phase, limits, wire, invalid, stage, calibrated>>

\* The board stops at the last of so many samples in a row.
_cb(temp) ==
  /\ Running /\ model \in Analog
  /\ \E counts \in IF wire = "ok" THEN {Sample(model, temp)} ELSE SamplesBroken(model, temp) :
       /\ invalid' = IF Allowed(counts) THEN 0 ELSE invalid + 1
       /\ IF invalid' = RANGE_CHECK_COUNT THEN stopped' = "board" /\ UNCHANGED shown
          ELSE stopped' = "no" /\ Tell(temp, counts)
  /\ Note(temp)
  /\ UNCHANGED <<model, range, phase, limits, wire, stage, calibrated>>

WireBreaks ==
  /\ Running /\ wire = "ok" /\ wire' \in {"open", "short"}
  /\ outside' = 0
  /\ UNCHANGED <<model, range, phase, limits, shown, invalid, stopped, stage, calibrated, broken, ever>>

-----------------------------------------------------------------------------
(* The BME280 is asked by a timer of the host.                                *)
Bme(from, to) == Running /\ model = "BME280" /\ stage = from /\ stage' = to
BmeKeeps == UNCHANGED <<model, range, phase, limits, wire, invalid, stopped>>

handle_ready_early ==       \* mutant: the timer starts while the chip copies its calibration
  Bme("off", "due") /\ BmeKeeps /\ UNCHANGED <<shown, calibrated, outside, broken, ever>>

handle_ready == Bme("off", "updating") /\ BmeKeeps /\ UNCHANGED <<shown, calibrated, outside, broken, ever>>

\* Paused while the chip copies its calibration; then the timer is started.
_init_bme280 ==
  /\ Bme("updating", "due") /\ calibrated' = TRUE
  /\ BmeKeeps /\ UNCHANGED <<shown, outside, broken, ever>>

_sample_bme280 ==
  Bme("due", "measuring") /\ BmeKeeps /\ UNCHANGED <<shown, calibrated, outside, broken, ever>>

\* Pressure and humidity are compensated with the temperature of the same data.
MeasuredBme(temp) ==
  /\ wire = "ok" /\ Bme("measuring", "due")
  /\ Tell(temp, temp) /\ Note(temp)
  /\ BmeKeeps /\ UNCHANGED calibrated

\* A read that fails ends the timer; the controller is not told.
ReadFails ==
  /\ wire # "ok" /\ Bme("measuring", "gave up")
  /\ BmeKeeps /\ UNCHANGED <<shown, calibrated, outside, broken, ever>>

-----------------------------------------------------------------------------
InitProbes ==
  /\ model \in Models /\ range \in Ranges
  /\ phase = "load" /\ limits = <<>> /\ wire = "ok" /\ shown = <<>> /\ invalid = 0 /\ stopped = "no"
  /\ stage = "off" /\ calibrated = FALSE /\ outside = 0 /\ broken = 0 /\ ever = FALSE

\* The count of reports out of range is bounded where nobody watches.
BoundedProbes == model = "BME280" => outside <= RANGE_CHECK_COUNT
Watched == broken <= RANGE_CHECK_COUNT

NextProbes ==
  \/ load_node \/ setup_minmax \/ _build_config
  \/ \E temp \in Temps : Watched /\ (_handle_spi_response(temp) \/ _cb(temp))
  \/ WireBreaks
  \/ handle_ready \/ _init_bme280 \/ _sample_bme280 \/ ReadFails
  \/ \E temp \in Temps : BoundedProbes /\ MeasuredBme(temp)

SpecProbes == InitProbes /\ [][NextProbes]_probes_vars

-----------------------------------------------------------------------------
(* While the printer runs and the wire is whole, the controller is told what *)
(* the probe measures, unless all of the range is below zero: else a count   *)
(* whose sign would be mended wrongly (spi.thermometers.py:142) stops the    *)
(* board with its first report.                                              *)
ShownIsMeasured ==
  shown # <<>> /\ stopped = "no" /\ range[2] >= 0 => (shown.whole => shown.value = shown.measured)

(* "Fix sign bit": the controller is told what the probe measures.           *)
SignIsFixed ==
  shown # <<>> /\ stopped = "no" => (shown.whole => shown.value = shown.measured)

(* What is out of the range of the controller stops the printer soon, except *)
(* that a BME280 watches no range; nothing else stops it if the range does   *)
(* not begin below zero.                                                     *)
RangeIsWatched ==
  /\ model # "BME280" /\ stopped = "no" => outside < RANGE_CHECK_COUNT
  /\ stopped # "no" /\ range[1] >= 0 => ever

(* A wire that opens stops the printer soon, unless the range reaches down   *)
(* to absolute zero, the probe is an amplifier whose input may float, or it  *)
(* is a BME280, which is never heard of again.                               *)
OpenWireStops ==
  model \in OnSpi \cup {"thermistor", "thermistor inline"} /\ range[1] > KELVIN_TO_CELSIUS /\ stopped = "no"
    => broken < RANGE_CHECK_COUNT

(* Nothing is computed from a calibration that has not been read.            *)
CalibratedFirst == model = "BME280" /\ stage \in {"due", "measuring", "gave up"} => calibrated
=============================================================================
