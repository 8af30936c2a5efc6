------------------------------- MODULE Buttons ------------------------------
(* Buttons on a board: the board repeats what it has seen until the host     *)
(* acknowledges it, the host sorts out what is new, and a press runs a       *)
(* script.  And two that are not buttons of the board: the rotary encoder,   *)
(* and buttons behind an analog input.  None knows of the others: a behaviour *)
(* is of one of them.                                                        *)
EXTENDS Integers, Sequences, SequencesExt

CONSTANTS
  CountMod,     \* what the acknowledge count is sent modulo, 256 in the code; > 2 * MaxUnacked
  MaxUnacked,   \* the reports the board keeps
  MaxSeen,      \* bound: reports in a behaviour
  MaxPosition,  \* bound: quarter turns of the encoder away from the start
  Debounce      \* readings of ADC_DEBOUNCE_TIME

VARIABLES
  device,                 \* of which device the behaviour is: "board", "encoder" or "adc"
  seen, acked,            \* what the board has reported ever, and what of it was acknowledged
  to_host, to_mcu,        \* messages under way, in order
  ack_count, last_button,
  callbacks,              \* values handed to the main thread, and not yet handled
  handled,                \* values handled, in order
  template_queue, dispatching,
  encoder_state, position, turns,     \* turns: the calls made, clockwise less the others
  adc_last, adc_pressed, adc_age      \* the age of the last change, in readings

reports == <<seen, acked, to_host, to_mcu, ack_count, last_button, callbacks, handled>>
scripts == <<template_queue, dispatching>>
buttons_vars == <<reports, scripts>>
encoder == <<encoder_state, position, turns>>
adc == <<adc_last, adc_pressed, adc_age>>

-----------------------------------------------------------------------------
(* The board: outside of the repository, as the host's handler expects it.   *)

Press(value) ==
  /\ Len(seen) - acked < MaxUnacked /\ Len(seen) < MaxSeen
  /\ seen' = Append(seen, value)
  /\ UNCHANGED <<acked, to_host, to_mcu, ack_count, last_button, callbacks, handled, scripts>>

Transmit ==
  /\ Len(seen) > acked /\ Len(to_host) < 2
  /\ to_host' = Append(to_host, [ack_count |-> acked % CountMod, state |-> SubSeq(seen, acked + 1, Len(seen))])
  /\ UNCHANGED <<seen, acked, to_mcu, ack_count, last_button, callbacks, handled, scripts>>

Acknowledged ==
  /\ to_mcu # <<>>
  /\ acked' = acked + Head(to_mcu)
  /\ to_mcu' = Tail(to_mcu)
  /\ UNCHANGED <<seen, to_host, ack_count, last_button, callbacks, handled, scripts>>

-----------------------------------------------------------------------------
(* The host. *)

(* The count of a message, of which only the low bits were sent. *)
MsgAckCount(sent) ==
  LET diff == (ack_count - sent) % CountMod
  IN  ack_count - (IF 2 * diff >= CountMod THEN diff - CountMod ELSE diff)

NewCountNoDiff(message) == Len(message.state)

NewCount(message) == MsgAckCount(message.ack_count) + Len(message.state) - ack_count

handle_buttons_state ==
  /\ to_host # <<>>
  /\ to_host' = Tail(to_host)
  /\ LET buttons == Head(to_host).state
         new_count == NewCount(Head(to_host))
     IN  IF new_count <= 0
         THEN UNCHANGED <<to_mcu, ack_count, callbacks>>
         ELSE /\ to_mcu' = Append(to_mcu, new_count)
              /\ ack_count' = ack_count + new_count
              /\ callbacks' = callbacks \o SubSeq(buttons, Len(buttons) - new_count + 1, Len(buttons))
  /\ UNCHANGED <<seen, acked, last_button, handled, scripts>>

QueueTemplate(template) ==
  /\ dispatching' = TRUE      \* a callback is registered when the queue was empty
  /\ template_queue' = Append(template_queue, template)

handle_button ==
  /\ callbacks # <<>>
  /\ callbacks' = Tail(callbacks)
  /\ last_button' = Head(callbacks)
  /\ handled' = Append(handled, Head(callbacks))
  /\ IF Head(callbacks) # last_button THEN QueueTemplate(Head(callbacks)) ELSE UNCHANGED scripts
  /\ UNCHANGED <<seen, acked, to_host, to_mcu, ack_count>>

(* The script has run, which may have taken time in which more came; its     *)
(* template leaves the queue only now, so that no second callback starts.    *)
ScriptRan ==
  /\ dispatching
  /\ template_queue' = Tail(template_queue)
  /\ dispatching' = (Len(template_queue) > 1)
  /\ UNCHANGED reports

-----------------------------------------------------------------------------
(* The rotary encoder. *)

CW == 16
CCW == 32
(* Row: the state.  Column: the two pins, as a number. *)
ENCODER_STATES == <<
  <<0, 2, 4, 0>>, <<3, 0, 1, CW>>, <<3, 2, 0, 0>>, <<3, 2, 1, 0>>,
  <<6, 0, 4, 0>>, <<6, 5, 0, CCW>>, <<6, 5, 4, 0>> >>

(* The pins at a quarter turn, from a detent at which both are high. *)
Pins(quarter) == <<3, 1, 0, 2>>[(quarter % 4) + 1]

NewEncoderStateHalf(pins) ==
  IF encoder_state = 3 /\ pins = 2 THEN CW ELSE ENCODER_STATES[(encoder_state % 16) + 1][pins + 1]

NewEncoderState(pins) == ENCODER_STATES[(encoder_state % 16) + 1][pins + 1]

encoder_callback ==
  /\ position' \in {p \in {position - 1, position + 1} : p \in -MaxPosition .. MaxPosition}
  /\ encoder_state' = NewEncoderState(Pins(position'))
  /\ turns' = turns + (IF encoder_state' \div 16 = 1 THEN 1 ELSE IF encoder_state' \div 16 = 2 THEN -1 ELSE 0)
  /\ UNCHANGED adc

-----------------------------------------------------------------------------
(* Buttons behind an analog input: 0 is no button. *)

adc_callback(btn) ==
  /\ adc_last' = btn
  /\ adc_age' = IF btn # adc_last THEN 0 ELSE IF adc_age < Debounce THEN adc_age + 1 ELSE Debounce
  /\ adc_pressed' = IF adc_age' >= Debounce /\ adc_last = btn THEN btn ELSE adc_pressed
  /\ UNCHANGED encoder

-----------------------------------------------------------------------------
InitButtons ==
  /\ device \in {"board", "encoder", "adc"}
  /\ seen = <<>> /\ acked = 0 /\ to_host = <<>> /\ to_mcu = <<>>
  /\ ack_count = 0 /\ last_button = 0 /\ callbacks = <<>> /\ handled = <<>>
  /\ template_queue = <<>> /\ dispatching = FALSE
  /\ encoder_state = 0 /\ position = 0 /\ turns = 0
  /\ adc_last = 0 /\ adc_pressed = 0 /\ adc_age = 0

NextBoard ==
  \/ \E value \in 0 .. 1 : Press(value)
  \/ Transmit \/ Acknowledged \/ handle_buttons_state \/ handle_button \/ ScriptRan

NextButtons ==
  /\ \/ device = "board" /\ NextBoard /\ UNCHANGED <<encoder, adc>>
     \/ device = "encoder" /\ encoder_callback /\ UNCHANGED buttons_vars
     \/ device = "adc" /\ UNCHANGED buttons_vars /\ \E btn \in 0 .. 2 : adc_callback(btn)
  /\ UNCHANGED device

SpecButtons == InitButtons /\ [][NextButtons]_<<device, buttons_vars, encoder, adc>>

-----------------------------------------------------------------------------
(* However often the board repeats a report and however late it gets the     *)
(* acknowledgement, the host handles each report once and in order.          *)
HandledOnce ==
  /\ IsPrefix(handled \o callbacks, seen)
  /\ Len(handled \o callbacks) = ack_count
  /\ acked <= ack_count

(* A script waits only while somebody is going to run it. *)
ScriptsAreRun == dispatching = (template_queue # <<>>)

(* However the encoder is turned to and fro, at a detent the calls made are  *)
(* the full turns it stands away from the start.                             *)
EncoderCounts == position % 4 = 0 => position = 4 * turns

=============================================================================
