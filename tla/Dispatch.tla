------------------------------ MODULE Dispatch ------------------------------
(* Reading commands from the host's input and running them.  A handler may   *)
(* pause, and the reactor then calls _process_data again for the input that  *)
(* comes meanwhile; only the first call runs commands.  Scripts of other      *)
(* greenlets (run_script) run meanwhile too.                                  *)
EXTENDS Naturals, Sequences

CONSTANTS
  MaxLines,   \* bound: the lines the host sends
  MaxRead,    \* bound: the half lines one read returns
  Limit       \* the commands pending at which reading stops, 20 in the code

VARIABLES
  is_fileinput,
  lines_sent,           \* the kinds of the lines the host has sent
  halves,               \* half lines sent and not yet read
  partial_input,        \* half a line that was read
  received,             \* number of whole lines received
  pending_commands,     \* the numbers of the lines pending
  commands,             \* those the loop of _process_commands goes through
  is_processing_data, reading, need_ack,
  running,              \* "no", "handler" (paused), "script" (in a nested script), "last" (after it)
  prev_need_ack,        \* of run_script_from_command
  taken,                \* a script of another greenlet took need_ack from the command that runs
  finished,             \* number of lines run
  unanswered,           \* lines the host got no answer for, though no other script took it
  emergency,            \* lines M112 was run for out of order
  exiting

input == <<lines_sent, halves, partial_input, received>>
status == <<is_fileinput, exiting>>
others == <<prev_need_ack, taken>>
counts == <<finished, unanswered>>
dispatch_vars == <<input, status, pending_commands, commands, is_processing_data, reading, need_ack,
                   running, others, counts, emergency>>

Kinds == {"plain", "script", "bad", "M112"}

-----------------------------------------------------------------------------
HostSendsLine(kind) ==
  /\ Len(lines_sent) < MaxLines
  /\ lines_sent' = Append(lines_sent, kind)
  /\ halves' = halves + 2
  /\ UNCHANGED <<partial_input, received, status, pending_commands, commands, is_processing_data, reading,
                 need_ack, running, others, counts, emergency>>

(* The lines that n more half lines complete. *)
Completed(n) == [i \in 1 .. (partial_input + n) \div 2 |-> received + i]

Read(n) ==
  /\ halves' = halves - n
  /\ partial_input' = (partial_input + n) % 2
  /\ received' = received + (partial_input + n) \div 2
  /\ UNCHANGED lines_sent

StopsReadingNever(pending) == FALSE

StopsReading(pending) == Len(pending) >= Limit

LooksForM112(pending) == Len(pending) < Limit /\ (is_processing_data \/ Len(pending) > 1)

Urgent(new) == {new[i] : i \in {k \in DOMAIN new : lines_sent[new[k]] = "M112"}}

(* The rest of _process_data once the lines are pending. *)
ProcessPending(pending, new) ==
  /\ emergency' = emergency \cup (IF LooksForM112(pending) THEN Urgent(new) ELSE {})
  /\ pending_commands' = pending
  /\ IF is_processing_data
     THEN reading' = (reading /\ ~StopsReading(pending)) /\ UNCHANGED is_processing_data
     ELSE is_processing_data' = TRUE /\ UNCHANGED reading
  /\ UNCHANGED <<commands, need_ack, running, others, counts>>

\* Only while no greenlet runs does the reactor call another one.
Paused == is_processing_data => running # "no"

ProcessData(n) ==
  /\ reading /\ Paused /\ n <= halves
  /\ Read(n)
  /\ ProcessPending(pending_commands \o Completed(n), Completed(n))
  /\ UNCHANGED status

(* The end of a debug file reads as no data; 0 stands for the empty command. *)
ProcessEnd ==
  /\ reading /\ Paused /\ is_fileinput /\ halves = 0 /\ Len(lines_sent) = MaxLines
  /\ Len(pending_commands) < Limit
  /\ IF is_processing_data
     THEN /\ pending_commands' = Append(pending_commands, 0)
          /\ reading' = ~StopsReading(pending_commands')
          /\ UNCHANGED <<is_processing_data, exiting>>
     ELSE /\ reading' = FALSE /\ exiting' = TRUE
          /\ pending_commands' = Append(pending_commands, 0)
          /\ is_processing_data' = TRUE
  /\ UNCHANGED <<input, is_fileinput, commands, need_ack, running, others, counts, emergency>>

-----------------------------------------------------------------------------
(* The loop that runs commands. *)

TakePendingLater ==
  /\ is_processing_data /\ commands = <<>> /\ pending_commands # <<>>
  /\ commands' = pending_commands
  /\ UNCHANGED <<input, status, pending_commands, is_processing_data, reading, need_ack, running, others, counts, emergency>>

TakePending ==
  /\ is_processing_data /\ commands = <<>> /\ pending_commands # <<>>
  /\ commands' = pending_commands
  /\ pending_commands' = <<>>
  /\ UNCHANGED <<input, status, is_processing_data, reading, need_ack, running, others, counts, emergency>>

StopProcessingDeaf ==
  /\ is_processing_data /\ commands = <<>> /\ pending_commands = <<>>
  /\ is_processing_data' = FALSE
  /\ UNCHANGED <<input, status, pending_commands, commands, reading, need_ack, running, others, counts, emergency>>

StopProcessing ==
  /\ is_processing_data /\ commands = <<>> /\ pending_commands = <<>>
  /\ is_processing_data' = FALSE
  /\ reading' = TRUE
  /\ UNCHANGED <<input, status, pending_commands, commands, need_ack, running, others, counts, emergency>>

Kind == IF Head(commands) = 0 THEN "plain" ELSE lines_sent[Head(commands)]

(* ack() answers a command once, and never for a debug file. *)
FinishWith(asked) ==
  /\ commands' = Tail(commands)
  /\ running' = "no"
  /\ finished' = finished + (IF Head(commands) = 0 THEN 0 ELSE 1)
  /\ unanswered' = unanswered + (IF asked \/ is_fileinput \/ taken THEN 0 ELSE 1)
  /\ taken' = FALSE
  /\ need_ack' = (asked /\ is_fileinput)
  /\ UNCHANGED <<pending_commands, is_processing_data, reading, emergency>>

RunHandler ==
  /\ commands # <<>> /\ running = "no"
  /\ \/ FinishWith(TRUE)                      \* done, or an error that is answered
     \/ /\ Kind # "bad"                       \* the handler pauses
        /\ need_ack' = TRUE
        /\ running' = "handler"
        /\ UNCHANGED <<commands, pending_commands, is_processing_data, reading, taken, counts, emergency>>
  /\ UNCHANGED <<input, status, prev_need_ack>>

(* run_script_from_command: the commands of the script want no answer. *)
RunScript ==
  /\ running = "handler" /\ Kind = "script"
  /\ prev_need_ack' = need_ack
  /\ need_ack' = FALSE
  /\ running' = "script"
  /\ UNCHANGED <<input, status, taken, commands, pending_commands, is_processing_data, reading, counts, emergency>>

RestoreAckNot == UNCHANGED need_ack

RestoreAck == need_ack' = prev_need_ack

ScriptReturns ==       \* also when the script raises an error
  /\ running = "script"
  /\ RestoreAck
  /\ running' = "last"
  /\ UNCHANGED <<input, status, others, commands, pending_commands, is_processing_data, reading, counts, emergency>>

HandlerReturns ==
  /\ running \in {"handler", "last"}
  /\ FinishWith(need_ack)
  /\ UNCHANGED <<input, status, prev_need_ack>>

(* run_script of another greenlet: a command of it begins, runs to its end or *)
(* pauses, or has paused and returns.  Its answer goes by need_ack as well.    *)
TakesAck == need_ack' = FALSE /\ taken' = (taken \/ (need_ack /\ running \in {"handler", "last"}))

OtherScript ==
  /\ Paused
  /\ TakesAck
  /\ UNCHANGED <<input, status, pending_commands, commands, is_processing_data, reading, running,
                 prev_need_ack, counts, emergency>>

-----------------------------------------------------------------------------
InitDispatch ==
  /\ is_fileinput \in BOOLEAN /\ exiting = FALSE
  /\ lines_sent = <<>> /\ halves = 0 /\ partial_input = 0 /\ received = 0
  /\ pending_commands = <<>> /\ commands = <<>>
  /\ is_processing_data = FALSE /\ reading = TRUE /\ need_ack = FALSE /\ running = "no"
  /\ prev_need_ack = FALSE /\ taken = FALSE
  /\ finished = 0 /\ unanswered = 0 /\ emergency = {}

Processing == TakePending \/ StopProcessing \/ RunHandler \/ ScriptReturns \/ HandlerReturns

NextDispatch ==
  \/ \E kind \in Kinds : HostSendsLine(kind)
  \/ ~exiting /\ \E n \in 1 .. MaxRead : ProcessData(n)
  \/ ~exiting /\ ProcessEnd
  \/ Processing \/ RunScript \/ OtherScript

FairDispatch == WF_dispatch_vars(Processing)

SpecDispatch == InitDispatch /\ [][NextDispatch]_dispatch_vars /\ FairDispatch

-----------------------------------------------------------------------------
(* Every line is run once and in the order it came, whatever pauses: those   *)
(* waiting are those received and not run, and then perhaps the end of a     *)
(* debug file.                                                               *)
Waiting == commands \o pending_commands

LinesInOrder ==
  /\ finished + Len(Waiting) >= received
  /\ \A i \in DOMAIN Waiting : Waiting[i] = IF finished + i <= received THEN finished + i ELSE 0

(* The host gets one answer for each command that has finished, unless a     *)
(* script of another greenlet ran while it paused.                           *)
OneAckEach == unanswered = 0

(* However slow a handler is, what is pending stays within the limit and one *)
(* read.                                                                     *)
PendingIsBounded == Len(pending_commands) < Limit + (MaxRead + 1) \div 2

(* Reading that was stopped is taken up again. *)
ReadsAgain == (~reading /\ ~exiting) ~> reading

=============================================================================
