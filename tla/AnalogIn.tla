------------------------------ MODULE AnalogIn ------------------------------
(***************************************************************************)
(* Analog inputs (src/hal/common/cmds_adc.c with the AVR's adc.c): a timer *)
(* event samples a pin several times and adds the readings up, a task      *)
(* reports the sum, a query starts anew, and a shutdown may come in        *)
(* between.  All the inputs share one converter and one wake flag.         *)
(*                                                                         *)
(* When a timer fires is Sched's matter: here an event that is on the      *)
(* timer list may come at any time, and the times are left out.            *)
(***************************************************************************)
EXTENDS Integers, FiniteSets

CONSTANTS
  Oid,         \* the objects configured as analog inputs, numbered from 0
  Pin,         \* the channels of the converter
  Reading,     \* what the converter returns
  Query,       \* arguments of query_analog_in that the host sends
  ByteRange,   \* 256: state, sample_count and invalid_count are uint8_t
  ValueRange,  \* 65536: value is uint16_t
  MaxInvalid,  \* bound: runs out of range in a row, over shutdowns that were cleared
  ADC_DUMMY    \* no pin

Count == {q.sample_count : q \in Query}

ASSUME AnalogAssumption ==
  /\ Oid \subseteq Nat /\ Reading \subseteq Nat /\ ADC_DUMMY \notin Pin
  /\ ByteRange \in Nat \ {0, 1} /\ ValueRange \in Nat \ {0}
  /\ MaxInvalid \in 0 .. ByteRange - 1
  /\ Query \subseteq [sample_count : 0 .. ByteRange - 1, min_value : 0 .. ValueRange - 1,
                      max_value : 0 .. ValueRange - 1, range_check_count : 0 .. ByteRange - 1]

\* The code does not check it: sample_count + 1 and the sum must fit.
ASSUME SamplesFit ==
  \A n \in Count : n + 1 < ByteRange /\ \A r \in Reading : n * r < ValueRange

VARIABLES
  configured, a, pin,                  \* the objects and their struct analog_in
  armed,                               \* those whose timer is on the list
  analog_wake, shutdown,
  last_analog_read, busy,              \* ADSC: the converter is at work
  mux, converted,                      \* on which pin, and the pin of the result in ADC
  thread, oid, args,                   \* the main thread and its local variables
  taken,                               \* what it is about to report
  run, bad, inRow                      \* history: see below

convVars == <<last_analog_read, busy, mux, converted>>
histVars == <<run, bad, inRow>>
mainVars == <<thread, oid, args, taken>>
adcVars == <<configured, a, pin, armed, analog_wake, shutdown, convVars, mainVars, histVars>>

NoQuery == [sample_count |-> 0, min_value |-> 0, max_value |-> 0, range_check_count |-> 0]
Cleared == [state |-> 0, sample_count |-> 0, value |-> 0, min_value |-> 0, max_value |-> 0,
            invalid_count |-> 0, range_check_count |-> 0]
NoRun == [n |-> 0, sum |-> 0, open |-> FALSE]
Nothing == [n |-> 0, sum |-> 0, value |-> 0, count |-> 0]

InitAdc ==
  /\ configured = {} /\ a = [c \in Oid |-> Cleared] /\ pin = [c \in Oid |-> ADC_DUMMY]
  /\ armed = {} /\ analog_wake = FALSE /\ shutdown = FALSE
  /\ last_analog_read = ADC_DUMMY /\ busy = FALSE
  /\ mux = ADC_DUMMY /\ converted = ADC_DUMMY
  /\ thread = "idle" /\ oid = 0 /\ args = NoQuery /\ taken = Nothing
  /\ run = [c \in Oid |-> NoRun] /\ bad = [c \in Oid |-> 0] /\ inRow = [c \in Oid |-> 0]

-----------------------------------------------------------------------------
(* The converter *)

ConversionDone ==
  /\ busy
  /\ busy' = FALSE /\ converted' = mux
  /\ UNCHANGED <<configured, a, pin, armed, analog_wake, shutdown, last_analog_read, mux, mainVars, histVars>>

\* gpio_adc_sample returns zero.
Ready(c) == ~busy /\ last_analog_read = pin[c]

\* It starts a conversion.
StartSample(c) ==
  /\ ~busy /\ last_analog_read = ADC_DUMMY
  /\ last_analog_read' = pin[c] /\ busy' = TRUE /\ mux' = pin[c]
  /\ UNCHANGED <<configured, a, pin, armed, analog_wake, shutdown, converted, mainVars, histVars>>

\* It finds the converter busy.
WaitSample(c) ==
  /\ busy \/ last_analog_read \notin {pin[c], ADC_DUMMY}
  /\ UNCHANGED adcVars

gpio_adc_cancel_sample(p) == last_analog_read' = IF last_analog_read = p THEN ADC_DUMMY ELSE last_analog_read

-----------------------------------------------------------------------------
(* analog_in_event, with interrupts off *)

Fresh(c) == a[c].state >= a[c].sample_count
SumWith(c, r) == ((IF Fresh(c) THEN 0 ELSE a[c].value) + r) % ValueRange

Taken(c) == (IF Fresh(c) THEN 0 ELSE a[c].state) + 1

\* History: the reading belongs to the run that is open, or starts one.
RunWith(c, r) ==
  LET n == IF run[c].open THEN run[c].n + 1 ELSE 1
  IN [n |-> n, sum |-> (IF run[c].open THEN run[c].sum ELSE 0) + r, open |-> n < a[c].sample_count]

ReadValue(c, r) == \* gpio_adc_read
  /\ Ready(c)
  /\ last_analog_read' = ADC_DUMMY
  /\ run' = [run EXCEPT ![c] = RunWith(c, r)]
  /\ UNCHANGED <<configured, pin, busy, mux, converted>>

SampleMore(c, r) ==
  /\ ReadValue(c, r)
  /\ Taken(c) < a[c].sample_count
  /\ a' = [a EXCEPT ![c].state = Taken(c), ![c].value = SumWith(c, r)]
  /\ UNCHANGED <<armed, analog_wake, shutdown, mainVars, bad, inRow>>

\* Mutant: a value is never too low
InRangeBelow(c, r) == SumWith(c, r) <= a[c].max_value
InRange(c, r) == a[c].min_value <= SumWith(c, r) /\ SumWith(c, r) <= a[c].max_value
LastSample(c, r) == ReadValue(c, r) /\ Taken(c) >= a[c].sample_count

\* History: bad are the runs out of range in a row since the query and while
\* the firmware is not shut down, inRow all those in a row, up to MaxInvalid;
\* a run is judged by the samples that were taken, not by what is in value.
Outside(c, r) == RunWith(c, r).sum < a[c].min_value \/ RunWith(c, r).sum > a[c].max_value
OneMore(n) == IF n < MaxInvalid THEN n + 1 ELSE n
CountRow(c, r) == inRow' = [inRow EXCEPT ![c] = IF Outside(c, r) THEN OneMore(inRow[c]) ELSE 0]
CountRun(c, r) ==
  /\ bad' = [bad EXCEPT ![c] = IF Outside(c, r) /\ ~shutdown THEN bad[c] + 1 ELSE 0]
  /\ CountRow(c, r)

RunInRange(c, r) ==
  /\ LastSample(c, r) /\ InRange(c, r)
  /\ a' = [a EXCEPT ![c].state = Taken(c), ![c].value = SumWith(c, r), ![c].invalid_count = 0]
  /\ CountRun(c, r)
  /\ analog_wake' = TRUE
  /\ UNCHANGED <<armed, shutdown, mainVars>>

Invalid(c) == (a[c].invalid_count + 1) % ByteRange
TooManyInvalid(c) == Invalid(c) >= a[c].range_check_count

\* Out of range, but not often enough or shut down already
RunOutOfRange(c, r) ==
  /\ LastSample(c, r) /\ ~InRange(c, r) /\ (TooManyInvalid(c) => shutdown)
  /\ a[c].invalid_count < MaxInvalid
  /\ a' = [a EXCEPT ![c].state = Taken(c), ![c].value = SumWith(c, r),
                    ![c].invalid_count = IF TooManyInvalid(c) THEN 0 ELSE Invalid(c)]
  /\ CountRun(c, r)
  /\ analog_wake' = TRUE
  /\ UNCHANGED <<armed, shutdown, mainVars>>

-----------------------------------------------------------------------------
(* Shutdown: sched_timer_reset, then task_end_analog_in for every object *)

EndRun(b) ==
  [c \in Oid |-> IF c \in configured /\ b[c].sample_count # 0
                 THEN [b[c] EXCEPT !.state = (b[c].sample_count + 1) % ByteRange] ELSE b[c]]

task_end_analog_in(b) ==
  /\ a' = EndRun(b)
  /\ armed' = {c \in configured : b[c].sample_count # 0}
  /\ last_analog_read' = IF last_analog_read \in {pin[c] : c \in configured} THEN ADC_DUMMY ELSE last_analog_read
  /\ run' = [c \in Oid |-> NoRun]
  /\ shutdown' = TRUE
  /\ thread' = "idle" /\ oid' = 0 /\ args' = NoQuery /\ taken' = Nothing
  /\ bad' = [c \in Oid |-> 0]
  /\ UNCHANGED <<configured, pin, analog_wake, busy, mux, converted>>

\* Out of range too often: sched_try_shutdown does not return.
RunShutsDown(c, r) ==
  /\ Ready(c) /\ Taken(c) >= a[c].sample_count
  /\ ~InRange(c, r) /\ TooManyInvalid(c) /\ ~shutdown
  /\ a[c].invalid_count < MaxInvalid
  /\ task_end_analog_in([a EXCEPT ![c].value = SumWith(c, r), ![c].invalid_count = Invalid(c)])
  /\ CountRow(c, r)

\* Any other part of the firmware shuts down.
IrqShutdown == task_end_analog_in(a) /\ UNCHANGED inRow

ClearShutdown ==
  /\ shutdown /\ thread = "idle"
  /\ shutdown' = FALSE
  /\ UNCHANGED <<configured, a, pin, armed, analog_wake, convVars, mainVars, histVars>>

-----------------------------------------------------------------------------
(* task_analog_in *)

NextOids(i) == {c \in configured : c >= i /\ \A d \in configured : d < i \/ c <= d}

TaskBegin ==
  /\ thread = "idle" /\ analog_wake
  /\ analog_wake' = FALSE
  /\ thread' = "test" /\ oid' = 0
  /\ UNCHANGED <<configured, a, pin, armed, shutdown, convVars, args, taken, histVars>>

TaskEnds ==
  /\ thread = "test" /\ \A c \in configured : c < oid
  /\ thread' = "idle" /\ oid' = 0
  /\ UNCHANGED <<configured, a, pin, armed, analog_wake, shutdown, convVars, args, taken, histVars>>

TaskSkips ==
  /\ thread = "test"
  /\ \E c \in NextOids(oid) : a[c].state # a[c].sample_count /\ oid' = c + 1
  /\ UNCHANGED <<configured, a, pin, armed, analog_wake, shutdown, convVars, thread, args, taken, histVars>>

TaskFinds ==
  /\ thread = "test"
  /\ \E c \in NextOids(oid) : a[c].state = a[c].sample_count /\ oid' = c
  /\ thread' = "take"
  /\ UNCHANGED <<configured, a, pin, armed, analog_wake, shutdown, convVars, args, taken, histVars>>

\* Interrupts off: a new run may have begun since the first test.
TaskMisses ==
  /\ thread = "take" /\ a[oid].state # a[oid].sample_count
  /\ thread' = "test" /\ oid' = oid + 1
  /\ UNCHANGED <<configured, a, pin, armed, analog_wake, shutdown, convVars, args, taken, histVars>>

\* Mutant: no second test
TaskTakesAnyway ==
  /\ thread = "take"
  /\ taken' = [n |-> run[oid].n, sum |-> run[oid].sum, value |-> a[oid].value, count |-> a[oid].sample_count]
  /\ a' = [a EXCEPT ![oid].state = (a[oid].state + 1) % ByteRange]
  /\ thread' = "send"
  /\ UNCHANGED <<configured, pin, armed, analog_wake, shutdown, convVars, oid, args, histVars>>

TaskTakes ==
  /\ thread = "take" /\ a[oid].state = a[oid].sample_count
  /\ taken' = [n |-> run[oid].n, sum |-> run[oid].sum, value |-> a[oid].value, count |-> a[oid].sample_count]
  /\ a' = [a EXCEPT ![oid].state = (a[oid].state + 1) % ByteRange]
  /\ thread' = "send"
  /\ UNCHANGED <<configured, pin, armed, analog_wake, shutdown, convVars, oid, args, histVars>>

TaskReports ==
  /\ thread = "send"
  /\ taken' = Nothing
  /\ thread' = "test" /\ oid' = oid + 1
  /\ UNCHANGED <<configured, a, pin, armed, analog_wake, shutdown, convVars, args, histVars>>

-----------------------------------------------------------------------------
(* The commands *)

command_config_analog_in(c, p) ==
  /\ thread = "idle" /\ c \notin configured
  /\ configured' = configured \cup {c}
  /\ pin' = [pin EXCEPT ![c] = p]
  /\ a' = [a EXCEPT ![c].state = 1]
  /\ UNCHANGED <<armed, analog_wake, shutdown, convVars, mainVars, histVars>>

\* command_query_analog_in, cut where an interrupt could see a difference
QueryDelTimer(c, q) ==
  /\ thread = "idle" /\ c \in configured
  /\ armed' = armed \ {c}
  /\ thread' = "cancel" /\ oid' = c /\ args' = q
  /\ UNCHANGED <<configured, a, pin, analog_wake, shutdown, convVars, taken, histVars>>

QueryCancel ==
  /\ thread = "cancel"
  /\ gpio_adc_cancel_sample(pin[oid])
  /\ thread' = "count"
  /\ UNCHANGED <<configured, a, pin, armed, analog_wake, shutdown, busy, mux, converted, oid, args, taken, histVars>>

QueryCount ==
  /\ thread = "count"
  /\ a' = [a EXCEPT ![oid].sample_count = args.sample_count]
  /\ thread' = "limits"
  /\ UNCHANGED <<configured, pin, armed, analog_wake, shutdown, convVars, oid, args, taken, histVars>>

QueryLimits ==
  /\ thread = "limits"
  /\ a' = [a EXCEPT ![oid].state = (args.sample_count + 1) % ByteRange,
                    ![oid].min_value = args.min_value, ![oid].max_value = args.max_value,
                    ![oid].range_check_count = args.range_check_count]
  /\ run' = [run EXCEPT ![oid] = NoRun] /\ bad' = [bad EXCEPT ![oid] = 0]
  /\ thread' = "add"
  /\ UNCHANGED <<configured, pin, armed, analog_wake, shutdown, convVars, oid, args, taken, inRow>>

QueryAddTimer ==
  /\ thread = "add"
  /\ armed' = IF args.sample_count = 0 THEN armed ELSE armed \cup {oid}
  /\ thread' = "idle" /\ oid' = 0 /\ args' = NoQuery
  /\ UNCHANGED <<configured, a, pin, analog_wake, shutdown, convVars, taken, histVars>>

-----------------------------------------------------------------------------
analog_in_event(c) ==
  \/ StartSample(c) \/ WaitSample(c)
  \/ \E r \in Reading : SampleMore(c, r) \/ RunInRange(c, r) \/ RunOutOfRange(c, r) \/ RunShutsDown(c, r)

task_analog_in == TaskBegin \/ TaskEnds \/ TaskSkips \/ TaskFinds \/ TaskMisses \/ TaskTakes \/ TaskReports
query_analog_in == QueryCancel \/ QueryCount \/ QueryLimits \/ QueryAddTimer

NextAdc ==
  \/ \E c \in armed : analog_in_event(c)
  \/ ConversionDone \/ IrqShutdown \/ ClearShutdown
  \/ task_analog_in \/ query_analog_in
  \/ \E c \in Oid : \/ \E p \in Pin : command_config_analog_in(c, p)
                    \/ \E q \in Query : QueryDelTimer(c, q)

SafeAdc == InitAdc /\ [][NextAdc]_adcVars
\* run_tasks calls the task in every pass, however many commands come.
SpecAdc == SafeAdc /\ SF_adcVars(task_analog_in) /\ WF_adcVars(query_analog_in)
-----------------------------------------------------------------------------
Input == [state : 0 .. ByteRange - 1, sample_count : Count \cup {0}, value : 0 .. ValueRange - 1,
          min_value : 0 .. ValueRange - 1, max_value : 0 .. ValueRange - 1,
          invalid_count : 0 .. ByteRange - 1, range_check_count : 0 .. ByteRange - 1]

TypeOKAdc ==
  /\ configured \subseteq Oid /\ armed \subseteq configured
  /\ a \in [Oid -> Input]
  /\ pin \in [Oid -> Pin \cup {ADC_DUMMY}]
  /\ last_analog_read \in Pin \cup {ADC_DUMMY} /\ converted \in Pin \cup {ADC_DUMMY}
  /\ thread \in {"idle", "test", "take", "send", "cancel", "count", "limits", "add"}

\* A report is the sum of a whole run of samples of one query: never of a part
\* of a run, of samples from before a query or a shutdown, or one too many.
ReportIsWhole == thread = "send" => taken.n = taken.count /\ taken.sum = taken.value

\* A value that is ready is of the pin it is read for, although the inputs share
\* one converter and a sample may be given up while it is taken.
ReadsOwnPin == \A c \in configured : Ready(c) => converted = pin[c]

\* The inputs that were asked for, and no others, are sampled.
SampledAsAsked ==
  thread = "idle" => armed = {c \in configured : a[c].sample_count # 0}

\* An input that is out of range, above or below, shuts the firmware down in time: there
\* are never range_check_count runs out of range in a row while it goes on.
AlarmIsRaised == \A c \in configured : bad[c] = 0 \/ bad[c] < a[c].range_check_count

\* It is not shut down for fewer: the counter that is compared never counts more
\* runs than were out of range in a row.
AlarmIsJustified == \A c \in configured : a[c].invalid_count <= inRow[c]

Complete(c) == a[c].state = a[c].sample_count /\ a[c].sample_count # 0

\* A run that is complete is going to be looked at: the task has been woken, or
\* has not come by yet, also after a shutdown or a query cut it short.
RunIsSeen ==
  \A c \in configured : Complete(c) =>
    \/ analog_wake
    \/ (thread \in {"test", "take"} /\ oid <= c)
    \/ (thread = "send" /\ oid < c)
    \/ (thread \in {"count", "limits"} /\ oid = c)

\* What is reported is a whole run of samples of the pin of the input, and no
\* run that is complete is overlooked.
SamplesAreWhole == ReportIsWhole /\ ReadsOwnPin /\ RunIsSeen

\* The alarm comes exactly at the limit.
AlarmIsExact == AlarmIsRaised /\ AlarmIsJustified

\* A run that was reported is seen by the task, is whole, and is of its own input; what
\* was asked for is sampled; the alarm comes exactly at its limit
\* (command_query_analog_in, analog_in_task).
InputsAreRead == SamplesAreWhole /\ SampledAsAsked /\ AlarmIsExact
=============================================================================
