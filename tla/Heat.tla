-------------------------------- MODULE Heat --------------------------------
(* A heater, its thermometer, and who watches whom: the governor sets the    *)
(* heater at each report of the thermometer, the board turns off a heater    *)
(* that is not set again in time, and the verifier shuts the printer down    *)
(* if the heater does not heat.  One tick is a second; temperatures and the  *)
(* physics behind them are whatever they like, and the outputs of the PID    *)
(* governor are any, but the states of all of them are the code's.           *)
EXTENDS Integers

CONSTANTS
  Temps, Targets,          \* temperatures reported, and asked for; 0 is off
  MaxPower,                \* max_power, in hundredths
  Outputs,                 \* what a PID governor may answer
  MAX_HEAT_TIME, ReportStale,   \* MAX_HEAT_TIME, and the age at which get_temp knows nothing
  Delta, TuneDelta,        \* of the watermark governor, and TUNE_PID_DELTA
  Hysteresis, MaxError, HeatingGain, CheckGainTime,    \* of the verifier
  Peaks                    \* the peaks a calibration needs

VARIABLES
  tc,         \* the controller of one heater; next_pwm and age are relative to now
  tune,       \* the calibration
  verify,     \* the verifier
  board,      \* the heater's output on the board, and for how long it may stay
  turn        \* what is still to happen in this second

heat_vars == <<tc, tune, verify, board, turn>>

High(a, b) == IF a > b THEN a ELSE b
Low(a, b) == IF a < b THEN a ELSE b
Apart(a, b) == IF a > b THEN a - b ELSE b - a

-----------------------------------------------------------------------------
(* Governors.                                                                *)
SetPwmLate(c, value) ==     \* mutant: sent again only when the board's time is over
  /\ tc' = [c EXCEPT !.next_pwm = MAX_HEAT_TIME, !.last_pwm = value]
  /\ board' = [board EXCEPT !.value = value, !.left = MAX_HEAT_TIME]

SetPwm(c, value) ==
  /\ tc' = [c EXCEPT !.next_pwm = (3 * MAX_HEAT_TIME) \div 4, !.last_pwm = value]
  /\ board' = [board EXCEPT !.value = value, !.left = MAX_HEAT_TIME]

(* _adj_temp leaves out what changes little, unless it is time to repeat it. *)
AdjTempAlways(c, wanted) ==     \* mutant: a heater without target may heat
  IF (c.next_pwm > 0 \/ c.last_pwm = 0) /\ Apart(wanted, c.last_pwm) < 5
  THEN tc' = c /\ UNCHANGED board
  ELSE SetPwm(c, wanted)

AdjTemp(c, wanted) ==
  LET value == IF c.target <= 0 THEN 0 ELSE wanted
  IN  IF (c.next_pwm > 0 \/ c.last_pwm = 0) /\ Apart(value, c.last_pwm) < 5
      THEN tc' = c /\ UNCHANGED board
      ELSE SetPwm(c, value)

BangBang(c) ==
  LET acting == IF c.acting THEN c.current < c.target + Delta ELSE c.current <= c.target - Delta
  IN  AdjTemp([c EXCEPT !.acting = acting], IF acting THEN MaxPower ELSE 0)

PID(c) == \E value \in Outputs : AdjTemp(c, Low(MaxPower, value))

(* The calibration heats up to the target and lets cool below it, and moves  *)
(* the target itself, so that the heater is not turned off.                  *)
AutoTune(c) ==
  LET stop == tune.heating /\ c.current >= c.target
      start == ~tune.heating /\ c.current <= c.target
      heating == IF stop THEN FALSE ELSE IF start THEN TRUE ELSE tune.heating
      target == IF stop THEN tune.target - TuneDelta ELSE IF start THEN tune.target ELSE c.target
  IN  /\ tune' = [tune EXCEPT !.heating = heating,
                              !.peaks = IF stop \/ start THEN Low(@ + 1, Peaks) ELSE @]
      /\ AdjTemp([c EXCEPT !.target = target], IF heating THEN MaxPower ELSE 0)

CheckBusy ==
  CASE tc.gov = "watermark" -> tc.current < tc.target - Delta
    [] tc.gov = "pid" -> Apart(tc.target, tc.current) > 1
    [] tc.gov = "tune" -> tune.heating \/ tune.peaks < Peaks

-----------------------------------------------------------------------------
(* The thermometer reports, unless it fails for good. *)
Report(temp) ==
  /\ turn.report /\ ~turn.failed
  /\ LET c == [tc EXCEPT !.current = temp, !.age = 0]
     IN  \/ tc.gov = "watermark" /\ BangBang(c) /\ UNCHANGED tune
         \/ tc.gov = "pid" /\ PID(c) /\ UNCHANGED tune
         \/ tc.gov = "tune" /\ AutoTune(c)
  /\ turn' = [turn EXCEPT !.report = FALSE, !.seen = tc'.target]
  /\ UNCHANGED verify

Fail == ~turn.failed /\ turn' = [turn EXCEPT !.failed = TRUE] /\ UNCHANGED <<tc, tune, verify, board>>

set_target_temp(degrees) ==
  /\ tc.gov # "tune" /\ verify.printer = "up"
  /\ tc' = [tc EXCEPT !.target = degrees]
  /\ UNCHANGED <<tune, verify, board, turn>>

(* PID_CALIBRATE; only a shutdown ends the wait early. *)
Calibrate(degrees) ==
  /\ tc.gov # "tune" /\ verify.printer = "up" /\ degrees > 0
  /\ tune' = [heating |-> FALSE, peaks |-> 0, target |-> degrees, old |-> tc.gov]
  /\ tc' = [tc EXCEPT !.gov = "tune", !.target = degrees]
  /\ UNCHANGED <<verify, board, turn>>

CalibratedKeeps ==    \* mutant: the target stays when the old governor returns
  /\ tc.gov = "tune" /\ (~CheckBusy \/ verify.printer = "down")
  /\ tc' = [tc EXCEPT !.gov = tune.old]
  /\ UNCHANGED <<tune, verify, board, turn>>

Calibrated ==
  /\ tc.gov = "tune" /\ (~CheckBusy \/ verify.printer = "down")
  /\ tc' = [tc EXCEPT !.gov = tune.old, !.target = 0]
  /\ UNCHANGED <<tune, verify, board, turn>>

-----------------------------------------------------------------------------
(* Verifier.check_event, once a second. *)
Temp == IF tc.age > ReportStale THEN 0 ELSE tc.current

Near == Temp >= tc.target - Hysteresis \/ tc.target <= 0

Approach(v, temp) == [v EXCEPT !.goal_temp = temp + HeatingGain, !.goal_time = CheckGainTime]

Shutdown ==
  /\ verify' = [verify EXCEPT !.printer = "down", !.stuck = 0]
  /\ board' = [board EXCEPT !.value = 0]

NotHeating ==
  LET error == Low(verify.error + tc.target - Hysteresis - Temp, MaxError)
      v == [verify EXCEPT !.error = error, !.last_target = tc.target]
  IN  CASE ~verify.approaching /\ tc.target # verify.last_target ->
             verify' = [Approach(v, Temp) EXCEPT !.approaching = TRUE, !.starting = TRUE]
        [] ~verify.approaching /\ tc.target = verify.last_target -> verify' = v
        [] verify.approaching /\ Temp >= verify.goal_temp ->
             verify' = [Approach(v, Temp) EXCEPT !.starting = FALSE, !.error = 0]
        [] verify.approaching /\ Temp < verify.goal_temp ->
             verify' = IF verify.goal_time <= 0 THEN [v EXCEPT !.approaching = FALSE]
                       ELSE IF verify.starting THEN [v EXCEPT !.goal_temp = Low(@, Temp + HeatingGain)]
                       ELSE v

FaultsAgain ==     \* mutant: each time the target is missed, the heater gets another chance
  FALSE

Faults == ~verify.approaching /\ tc.target = verify.last_target
          /\ verify.error + tc.target - Hysteresis - Temp >= MaxError

CheckEvent ==
  /\ turn.check /\ turn' = [turn EXCEPT !.check = FALSE]
  /\ verify.printer = "up"
  /\ CASE Near -> /\ verify' = [verify EXCEPT !.approaching = FALSE, !.starting = FALSE,
                                              !.error = IF Temp <= tc.target + Hysteresis THEN 0 ELSE @,
                                              !.last_target = tc.target]
                  /\ UNCHANGED board
       [] ~Near /\ Faults -> Shutdown
       [] ~Near /\ ~Faults -> NotHeating /\ UNCHANGED board
  /\ UNCHANGED <<tc, tune>>

-----------------------------------------------------------------------------
(* A second passes.  The board shuts down if the heater was not set again.   *)
Cold == verify.printer = "up" /\ tc.target > 0 /\ Temp < tc.target - Hysteresis

\* The target is that of the second before, and the verifier has seen it.
Steady == verify.last_target = tc.target /\ turn.wanted = tc.target

Second ==
  /\ ~turn.report \/ turn.failed
  /\ ~turn.check \/ verify.printer = "down"
  /\ turn' = [turn EXCEPT !.report = TRUE, !.check = TRUE, !.from = Temp, !.wanted = tc.target]
  /\ tc' = [tc EXCEPT !.next_pwm = High(0, @ - 1), !.age = Low(@ + 1, MAX_HEAT_TIME + ReportStale)]
  /\ board' = IF board.value > 0 /\ board.left = 1
              THEN [value |-> 0, left |-> 0, tripped |-> TRUE]
              ELSE [board EXCEPT !.left = High(0, @ - 1)]
  /\ verify' = [verify EXCEPT !.goal_time = High(0, @ - 1),
                              !.stuck = IF Cold /\ Steady /\ turn.from >= Temp THEN @ + 1 ELSE 0]
  /\ UNCHANGED tune

-----------------------------------------------------------------------------
InitHeat ==
  /\ \E gov \in {"watermark", "pid"} :
       /\ tc = [gov |-> gov, target |-> 0, current |-> 0, age |-> 0, acting |-> FALSE, next_pwm |-> 0, last_pwm |-> 0]
       /\ tune = [heating |-> FALSE, peaks |-> 0, target |-> 0, old |-> gov]
  /\ verify = [printer |-> "up", approaching |-> FALSE, starting |-> FALSE, last_target |-> 0, error |-> 0,
               goal_temp |-> 0, goal_time |-> 0, stuck |-> 0]
  /\ board = [value |-> 0, left |-> 0, tripped |-> FALSE]
  /\ turn = [report |-> TRUE, check |-> TRUE, failed |-> FALSE, from |-> 0, wanted |-> 0, seen |-> 0]

NextHeat ==
  \/ \E temp \in Temps : Report(temp)
  \/ \E degrees \in Targets : set_target_temp(degrees) \/ Calibrate(degrees)
  \/ Fail \/ Calibrated \/ CheckEvent \/ Second

-----------------------------------------------------------------------------
(* While the thermometer reports, the board never turns a heater off for     *)
(* want of orders: each output is repeated before its time is over, though   *)
(* small changes are not sent.                                               *)
RepeatedInTime == ~turn.failed => ~board.tripped

(* A heater whose target was zero at the last report is off, but for a       *)
(* change too small to be sent.                                              *)
NoTargetIsOff == turn.seen = 0 => board.value < 5

(* A heater that does not get warmer, while it should, is noticed, and the   *)
(* printer is shut down, also while it is being calibrated.                  *)
StuckIsNoticed == verify.stuck <= CheckGainTime + MaxError + 2

(* A calibration leaves the old governor behind, and no target to it.        *)
CalibrationEnds == [][tc.gov = "tune" /\ tc'.gov # "tune" => tc'.gov = tune.old /\ tc'.target = 0]_heat_vars

=============================================================================
