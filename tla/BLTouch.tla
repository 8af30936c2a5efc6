------------------------------- MODULE BLTouch -------------------------------
(* A probe that is told what to do by the width of a pulse (extras            *)
(* sensor.endstop.bltouch.py), and answers by its switch only.  Times are in  *)
(* MIN_CMD_TIME, relative to now; a time that is past is 0.  What a function  *)
(* does between two waits is one step; todo holds the steps to come.          *)
EXTENDS Integers, Sequences, SequencesExt, FiniteSetsExt

CONSTANTS
  Configs,           \* [up, touch, stow]: pin_up_reports_not_triggered, pin_up_touch_mode_reports_triggered,
                     \* stow_on_each_sample
  PinMove, Reset, TestTime,  \* pin_move_time, RETRY_RESET_TIME, TEST_TIME
  Lead,              \* get_last_move_time() is at least this far ahead of now
  Ahead,             \* bound: the toolhead waits before it is further ahead
  Samples,           \* samples of a multiple probing
  MaxFaults          \* bound: commands the probe does not follow

VARIABLES
  config, todo, retry,
  blt,               \* next_cmd, action_end, next_test, multi; print: the time of the toolhead
  probe,             \* where its pin is: "up", "down", "touch" (up, in touch mode) or "alarm"
  faults,
  moved,             \* the last probing: whether the steppers moved, whether the switch triggered
  sent,              \* the last command, when, whether all came in order, the last one that moves the pin
  failed, stuck, by_user  \* the last command ended in an error; one did so while multi was not OFF; BLTOUCH_DEBUG was used

bltouch_vars == <<config, todo, retry, blt, probe, faults, moved, sent, failed, stuck, by_user>>

-----------------------------------------------------------------------------
(* Time, and the commands of a step: s is [blt, probe, sent] *)

sync_mcu_print_time(s) == [s EXCEPT !.blt.next_cmd = Max({@, 1})]

\* Mutant: the toolhead does not wait for the pin
NoDwell(s) ==
  LET print == Max({s.blt.print, Lead})
  IN  IF print > s.blt.next_cmd THEN [s EXCEPT !.blt.print = print, !.blt.next_cmd = print]
      ELSE [s EXCEPT !.blt.print = print]

sync_print_time(s) ==
  LET print == Max({s.blt.print, Lead})
  IN  IF print > s.blt.next_cmd THEN [s EXCEPT !.blt.print = print, !.blt.next_cmd = print]
      ELSE [s EXCEPT !.blt.print = Max({print, s.blt.action_end})]

\* What the probe does: after an alarm only a reset helps.
Follows(at, cmd) ==
  IF at = "alarm" /\ cmd # "reset" THEN at
  ELSE CASE cmd \in {"pin_up", "reset"} -> "up" [] cmd = "pin_down" -> "down"
         [] cmd = "touch_mode" -> IF at = "up" THEN "touch" ELSE at
         [] OTHER -> at

MovesPin == {"pin_up", "pin_down", "reset"}

\* Mutant: the time of the next command is not moved on
Unmoved(s, cmd, duration, lost) == [s EXCEPT !.probe = IF cmd = lost THEN @ ELSE Follows(@, cmd), !.sent.pin = cmd]

send_cmd(s, cmd, duration, lost) ==
  LET at == s.blt.next_cmd
      next == at + Max({duration, 1})
  IN  [s EXCEPT !.blt.next_cmd = next,
                !.blt.action_end = IF cmd = "none" THEN @ ELSE next,
                !.probe = IF cmd = lost THEN @ ELSE Follows(@, cmd),
                !.sent = [at |-> at, rising |-> @.rising /\ at >= 1 /\ at > @.at,
                          pin |-> IF cmd \in MovesPin THEN cmd ELSE @.pin]]

\* Each of cmds is <<command, duration>>.
SendAll(s, cmds, lost) == FoldLeft(LAMBDA t, c : send_cmd(t, c[1], c[2], lost), s, cmds)

State == [blt |-> blt, probe |-> probe, sent |-> sent]
To(s) == blt' = s.blt /\ probe' = s.probe /\ sent' = s.sent

Raise == <<<<"pin_up", PinMove>>, <<"none", 1>>>>
Touch == <<<<"pin_up", PinMove>>, <<"touch_mode", 1>>, <<"none", 1>>>>
Waited == blt.next_cmd = 0

Then(steps) == todo' = steps \o Tail(todo) /\ UNCHANGED <<failed, stuck>>
Error ==
  /\ todo' = <<>> /\ failed' = TRUE
  /\ stuck' = (stuck \/ blt.multi # "OFF")

-----------------------------------------------------------------------------
(* raise_probe, and its wait for the switch *)

raise_probe(lost) ==
  /\ retry' = 0
  /\ IF config.up THEN To(SendAll(sync_mcu_print_time(State), Raise, lost)) /\ Then(<<"raised">>)
     ELSE To(SendAll(sync_mcu_print_time(State), <<<<"reset", 1>>>> \o Raise, lost)) /\ Then(<<>>)

\* Mutant: the last try is not looked at
Accepted == probe = "up" \/ retry = 2
Raised == probe = "up"

verify_raised(lost) ==
  /\ Waited
  /\ \/ Raised /\ To(State) /\ Then(<<>>) /\ UNCHANGED retry
     \/ ~Raised /\ retry >= 2 /\ To(State) /\ Error /\ UNCHANGED retry
     \/ /\ ~Raised /\ retry < 2 /\ retry' = retry + 1
        /\ To(SendAll(sync_mcu_print_time(State), <<<<"reset", Reset>>>> \o Raise, lost))
        /\ Then(<<"raised">>)

-----------------------------------------------------------------------------
(* lower_probe: test_sensor first, unless the probe was used of late *)

PrintTime == Max({blt.print, Lead})

test_sensor(lost) ==
  /\ retry' = 0
  /\ CASE ~config.touch -> To(State) /\ Then(<<>>)
       [] config.touch /\ PrintTime < blt.next_test ->
            To([State EXCEPT !.blt.print = PrintTime, !.blt.next_test = PrintTime + TestTime]) /\ Then(<<>>)
       [] OTHER -> To(SendAll(sync_print_time(State), Touch, lost)) /\ Then(<<"tested">>)

verify_tested(lost) ==
  LET s == sync_print_time(State)
  IN  /\ Waited
      /\ \/ probe = "touch" /\ To([s EXCEPT !.blt.next_test = TestTime]) /\ Then(<<>>) /\ UNCHANGED retry
         \/ probe # "touch" /\ retry >= 2 /\ To(s) /\ Error /\ UNCHANGED retry
         \/ /\ probe # "touch" /\ retry < 2 /\ retry' = retry + 1
            /\ To(SendAll(s, <<<<"reset", Reset>>>> \o Touch, lost))
            /\ Then(<<"tested">>)

lower_probe(lost) ==
  /\ To(SendAll(sync_print_time(State), <<<<"pin_down", Max({1, PinMove - 1})>>, <<"none", 1>>>>, lost))
  /\ Then(<<>>) /\ UNCHANGED retry

-----------------------------------------------------------------------------
(* One probing, and several in a row *)

SetMulti(multi) == To([State EXCEPT !.blt.multi = multi]) /\ UNCHANGED retry

multi_probe_begin == SetMulti(IF config.stow THEN blt.multi ELSE "FIRST") /\ Then(<<>>)
multi_probe_end ==
  IF config.stow THEN SetMulti(blt.multi) /\ Then(<<>>) ELSE SetMulti(blt.multi) /\ Then(<<"raise", "sync", "off">>)
multi_off == SetMulti("OFF") /\ Then(<<>>)

\* Mutant: in a row of probings the pin is lowered for none
Lowers == blt.multi = "OFF"
MustLower == blt.multi \in {"OFF", "FIRST"}

probe_prepare ==
  /\ SetMulti(blt.multi)
  /\ Then((IF MustLower THEN <<"test", "lower">> ELSE <<>>)
          \o (IF blt.multi = "FIRST" THEN <<"on">> ELSE <<>>) \o <<"sync", "move">>)
multi_on == SetMulti("ON") /\ Then(<<>>)

\* The move ends where the switch triggers; after an alarm it has triggered before.
home_move ==
  /\ moved' = [steps |-> probe # "alarm", trigger |-> probe \in {"down", "alarm"}]
  /\ To([State EXCEPT !.blt.print = PrintTime + 1]) /\ Then(<<>>) /\ UNCHANGED retry

probe_finalize ==
  /\ SetMulti(blt.multi)
  /\ Then((IF blt.multi = "OFF" THEN <<"raise">> ELSE <<>>) \o <<"sync", "moved">>)
verify_moved ==
  /\ To(State) /\ UNCHANGED retry
  /\ IF moved.steps /\ moved.trigger THEN Then(<<>>) ELSE Error

-----------------------------------------------------------------------------
(* Steps of a command, and the commands *)

SyncStep == To(sync_print_time(State)) /\ Then(<<>>) /\ UNCHANGED retry
set_output_mode(lost) ==
  To(SendAll(sync_mcu_print_time(State), <<<<"set_5V_output_mode", 1>>>>, lost)) /\ Then(<<>>) /\ UNCHANGED retry
store_output_mode(lost) ==
  /\ To(SendAll(sync_print_time(State),
        <<<<"pin_down", 1>>, <<"set_5V_output_mode", 1>>, <<"output_mode_store", 1>>, <<"set_5V_output_mode", 1>>,
          <<"pin_up", 1>>, <<"none", 1>>>>, lost))
  /\ Then(<<>>) /\ UNCHANGED retry
DebugStep(cmd, lost) ==
  To(SendAll(sync_print_time(State), <<<<cmd, PinMove>>, <<"none", 1>>>>, lost)) /\ Then(<<>>) /\ UNCHANGED retry

DebugCommands == {"pin_down", "pin_up", "touch_mode", "reset"}

Step(lost) ==
  \/ Head(todo) = "mode" /\ set_output_mode(lost) /\ UNCHANGED moved
  \/ Head(todo) = "raise" /\ raise_probe(lost) /\ UNCHANGED moved
  \/ Head(todo) = "raised" /\ verify_raised(lost) /\ UNCHANGED moved
  \/ Head(todo) = "test" /\ test_sensor(lost) /\ UNCHANGED moved
  \/ Head(todo) = "tested" /\ verify_tested(lost) /\ UNCHANGED moved
  \/ Head(todo) = "lower" /\ lower_probe(lost) /\ UNCHANGED moved
  \/ Head(todo) = "store" /\ store_output_mode(lost) /\ UNCHANGED moved
  \/ \E cmd \in DebugCommands : Head(todo) = cmd /\ DebugStep(cmd, lost) /\ UNCHANGED moved
PlainStep ==
  \/ Head(todo) = "begin" /\ multi_probe_begin /\ UNCHANGED moved
  \/ Head(todo) = "end" /\ multi_probe_end /\ UNCHANGED moved
  \/ Head(todo) = "off" /\ multi_off /\ UNCHANGED moved
  \/ Head(todo) = "on" /\ multi_on /\ UNCHANGED moved
  \/ Head(todo) = "prepare" /\ probe_prepare /\ UNCHANGED moved
  \/ Head(todo) = "move" /\ home_move
  \/ Head(todo) = "finalize" /\ probe_finalize /\ UNCHANGED moved
  \/ Head(todo) = "moved" /\ verify_moved /\ UNCHANGED moved
  \/ Head(todo) = "sync" /\ SyncStep /\ UNCHANGED moved

Probing == <<"prepare", "finalize">>
Commands ==
  {Probing, <<"begin">> \o FlattenSeq([i \in 1 .. Samples |-> Probing]) \o <<"end">>, <<"sync", "store", "sync">>}
    \union {<<"sync", cmd, "sync">> : cmd \in DebugCommands}

\* A row of probings that failed is ended by its caller, or not.
Command(steps) ==
  /\ todo = <<>> /\ blt.print <= Ahead
  /\ todo' = steps /\ failed' = FALSE
  /\ by_user' = (by_user \/ \E cmd \in DebugCommands : cmd \in ToSet(steps))
  /\ UNCHANGED <<config, retry, blt, probe, faults, moved, sent, stuck>>

Alarm ==
  /\ probe = "down" /\ faults < MaxFaults /\ faults' = faults + 1 /\ probe' = "alarm"
  /\ UNCHANGED <<config, todo, retry, blt, moved, sent, failed, stuck, by_user>>

\* Greenlets run at once, but for their waits.
Waits == todo # <<>> /\ Head(todo) \in {"raised", "tested"} /\ ~Waited
Down(t) == Max({t - 1, 0})
Tick ==
  /\ todo = <<>> \/ Waits
  /\ blt' = [blt EXCEPT !.next_cmd = Down(@), !.action_end = Down(@), !.next_test = Down(@), !.print = Down(@)]
  /\ sent' = [sent EXCEPT !.at = Down(@)]
  /\ UNCHANGED <<config, todo, retry, probe, faults, moved, failed, stuck, by_user>>

InitBLTouch ==
  /\ config \in Configs /\ todo \in {<<"mode", "raise">>, <<"raise">>} /\ retry = 0
  /\ blt = [next_cmd |-> 0, action_end |-> 0, next_test |-> 0, multi |-> "OFF", print |-> 0]
  /\ probe \in {"up", "down", "alarm"} /\ faults = 0 /\ moved = [steps |-> FALSE, trigger |-> FALSE]
  /\ sent = [at |-> 0, rising |-> TRUE, pin |-> "reset"]
  /\ failed = FALSE /\ stuck = FALSE /\ by_user = FALSE

NextBLTouch ==
  \/ /\ todo # <<>>
     /\ \/ Step("nothing") /\ UNCHANGED faults
        \/ \E lost \in DebugCommands : faults < MaxFaults /\ faults' = faults + 1 /\ Step(lost)
        \/ PlainStep /\ UNCHANGED faults
     /\ UNCHANGED <<config, by_user>>
  \/ \E steps \in Commands \union (IF blt.multi = "OFF" THEN {} ELSE {<<"end">>}) : Command(steps)
  \/ Alarm
  \/ Tick

-----------------------------------------------------------------------------
(* The probe gets its commands one after the other, each long enough and none *)
(* late, whatever was retried in between.                                     *)
CommandsRise == sent.rising

(* No move begins while the pin still moves: neither the probing itself nor   *)
(* what comes after a command.                                                *)
ToolheadWaits ==
  /\ todo # <<>> /\ Head(todo) = "move" => blt.print >= blt.action_end
  /\ todo = <<>> /\ ~failed /\ sent.pin = "pin_up" /\ blt.print > 0 => blt.print >= blt.action_end

(* A probing begins with the pin told to be down, and ends, if it can be      *)
(* seen, with the pin up; a row of probings that failed and was not ended, or *)
(* commands of a user, may leave it otherwise.                                *)
PinAsTold ==
  ~stuck /\ ~by_user =>
    /\ todo # <<>> /\ Head(todo) = "move" => sent.pin = "pin_down"
    /\ todo = <<>> /\ ~failed /\ blt.multi = "OFF" /\ config.up => sent.pin = "pin_up"

(* A raise that counts as done is one the switch has shown.                   *)
RaisedIsSeen ==
  config.up /\ todo # <<>> /\ Head(todo) = "sync" /\ Len(todo) >= 2 /\ todo[2] = "off" => probe = "up"

=============================================================================
