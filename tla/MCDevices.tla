------------------------------ MODULE MCDevices ------------------------------
(* The analog inputs and the compare timer of the AVR, for checking.  A behaviour
   is of one of them, which share no state; part says of which. *)
EXTENDS AnalogIn, AvrTimer, TLC

VARIABLE part

\* Two samples a run, and shut down after two runs out of range, on either side of
\* the one sum that is in it.  The host may ask again at any time, which cuts a run
\* short like an empty query would.
MCQuery == {[sample_count |-> 2, min_value |-> 1, max_value |-> 1, range_check_count |-> 2]}
MCAddDelays == {0, 30}
MCEventDelays == {1, 13}

Init == InitAdc /\ InitAvr /\ part \in {"analog", "timer"}
AnalogStep == part = "analog" /\ NextAdc /\ UNCHANGED <<part, avrVars>>
TimerStep == part = "timer" /\ NextAvr /\ UNCHANGED <<part, adcVars>>
Next == AnalogStep \/ TimerStep
Spec == Init /\ [][Next]_<<part, adcVars, avrVars>>
------------------------------------------------------------------------------
Symmetry == Permutations(Pin)

(* The next reading overwrites the sum of a run that was reported or given up,
   and the next conversion the result of one that nobody waits for: states that
   differ in these alone behave alike. *)
Over(c) == a[c].state > a[c].sample_count
AnalogView ==
  <<configured, pin, armed, analog_wake, shutdown, mainVars, bad, inRow, last_analog_read, busy,
    [c \in Oid |-> IF Over(c) THEN [a[c] EXCEPT !.value = 0] ELSE a[c]],
    [c \in Oid |-> IF Over(c) THEN NoRun ELSE run[c]],
    IF busy THEN mux ELSE IF last_analog_read # ADC_DUMMY THEN converted ELSE ADC_DUMMY>>

(* Whole turns of the hardware counter make no difference: states that are that
   far apart behave alike. *)
Turns(t) == IF t = NoTime THEN NoTime ELSE Diff(t, High(now) * Wrap)
TimerView ==
  <<TCNT1, TOV1, OCF1A, OCF1B, OCR1A, OCR1B, (timer_high - High(now)) % Highs,
    Turns(wrap_waketime), <<deleted # NoTime, Turns(deleted)>>, <<user # NoTime, Turns(user)>>, pc, stopped,
    IF pc \in {"look", "defer", "set"} THEN next ELSE 0,
    IF pc = "read" THEN <<Turns(calc), Turns(begun)>> ELSE <<>>, slack>>

View == <<part, IF part = "analog" THEN AnalogView ELSE TimerView>>
------------------------------------------------------------------------------
\* The 32 bit time is right across an overflow of the 16 bit counter, and the
\* match is never a turn late (timer_read_time, timer_set, timer_dispatch_many).
TimerKeepsUp == TimeIsRight /\ MatchInTime
==============================================================================
