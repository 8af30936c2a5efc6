------------------------------ MODULE PrintJob ------------------------------
(* Printing from the virtual SD card while other parts of the host run       *)
(* scripts: the work handler of the card, PAUSE and RESUME, the runout       *)
(* sensor, the idle timeout and a delayed script.  Each actor is a greenlet: *)
(* it runs alone until it pauses, and the others run meanwhile.  A script    *)
(* holds the mutex of the gcode class, which these parts test but which is   *)
(* not in the repository, from its first command to its last.                *)
EXTENDS Naturals, Sequences

CONSTANTS
  File,          \* the commands in the file on the card, a sequence
  Chunk,         \* the number of lines one read of the file returns
  HostCommands,  \* the commands the host sends over the serial line
  MaxHost        \* bound: the number of commands the host sends

Actors == {"host", "sd", "runout", "idle", "delayed"}

VARIABLES
  mutex,         \* the actor whose script runs, or "none"
  at,            \* where each actor is
  script,        \* the commands each actor has still to run, the running one first
  work_timer,    \* of the card: "None", "Set" or "Running"
  must_pause_work, cmd_from_sd, current_file, file_position,
  lines,         \* the numbers of the lines read and not yet run
  read_to,       \* the position of the next read
  is_paused, sd_paused, pause_command_sent,
  restarted,     \* the card was started while paused, or while a runout is handled
  filament_present,
  min_event,     \* min_event_systime: "NEVER", "ahead" or "past"
  idle_state, timeout_timer,
  toolhead,      \* "moving", "stopped" or "idle" for longer than the timeout
  delayed_timer, inside_timer, repeat,
  asked,         \* what the last UPDATE_DELAYED_GCODE asked for, since the timer ran
  sent           \* commands sent by the host

sd == <<work_timer, must_pause_work, cmd_from_sd, current_file, file_position, lines, read_to>>
pause == <<is_paused, sd_paused, pause_command_sent, restarted>>
sensor == <<filament_present, min_event>>
idle == <<idle_state, timeout_timer, toolhead>>
delayed == <<delayed_timer, inside_timer, repeat, asked>>
job_vars == <<mutex, at, script, sd, pause, sensor, idle, delayed, sent>>

GoTo(a, place) == at' = [at EXCEPT ![a] = place]
Active == work_timer # "None"

-----------------------------------------------------------------------------
(* The end of a command.  An actor goes on with its next command or releases *)
(* the mutex; what it does after its script is in After.                     *)

LineDone ==
  /\ cmd_from_sd' = FALSE
  /\ file_position' = file_position + 1
  /\ lines' = Tail(lines)
  /\ UNCHANGED <<must_pause_work, current_file, read_to>>

LeaveWork ==
  /\ work_timer' = "None"
  /\ cmd_from_sd' = FALSE
  /\ lines' = <<>>
  /\ UNCHANGED <<must_pause_work, file_position, read_to>>

IdleDoneNever(ok) == idle_state' = (IF ok THEN "Idle" ELSE "Ready") /\ timeout_timer' = "NEVER"

IdleDone(ok) ==
  /\ idle_state' = IF ok THEN "Idle" ELSE "Ready"
  /\ timeout_timer' = IF ok THEN "NEVER" ELSE "set"

DelayedDoneAgain ==
  /\ delayed_timer' = IF repeat THEN "set" ELSE "NEVER"
  /\ asked' = repeat /\ inside_timer' = FALSE /\ UNCHANGED repeat

DelayedDone ==
  /\ delayed_timer' = IF repeat THEN "set" ELSE "NEVER"
  /\ asked' = repeat
  /\ inside_timer' = FALSE
  /\ repeat' = FALSE

EventDone == min_event' = "ahead" /\ UNCHANGED filament_present

After(a, ok) ==
  /\ IF a = "runout" THEN EventDone ELSE UNCHANGED sensor
  /\ IF a = "idle" THEN IdleDone(ok) /\ UNCHANGED toolhead ELSE UNCHANGED idle
  /\ IF a = "delayed" THEN DelayedDone ELSE UNCHANGED delayed

EndScript(a, ok) ==
  /\ mutex' = "none"
  /\ script' = [script EXCEPT ![a] = <<>>]
  /\ IF a = "sd"
     THEN IF ok THEN LineDone /\ UNCHANGED work_timer /\ GoTo(a, "loop")
                ELSE LeaveWork /\ UNCHANGED current_file /\ GoTo(a, "none")
     ELSE UNCHANGED sd /\ GoTo(a, "none")
  /\ After(a, ok)

NextCommand(a) ==
  /\ script' = [script EXCEPT ![a] = Tail(@)]
  /\ GoTo(a, "ready")
  /\ UNCHANGED <<mutex, sd, sensor, idle, delayed>>

Done(a) == IF Len(script[a]) > 1 THEN NextCommand(a) ELSE EndScript(a, TRUE)
Raise(a) == EndScript(a, FALSE)

Runs(a, name) == at[a] = "ready" /\ mutex = a /\ Head(script[a]) = name

-----------------------------------------------------------------------------
(* The commands of the card. *)

SdBusy(a) == \E c \in {"M23", "M24", "M26"} :
  Runs(a, c) /\ Active /\ Raise(a) /\ UNCHANGED <<pause, sent>>

(* A command that changes what After leaves alone; the card runs none such. *)
Release(a) ==
  /\ script' = [script EXCEPT ![a] = Tail(@)]
  /\ mutex' = IF Len(script[a]) > 1 THEN a ELSE "none"
  /\ GoTo(a, IF Len(script[a]) > 1 THEN "ready" ELSE "none")
RestOf(a) == UNCHANGED <<sensor, idle, delayed, sent>>

M23(a) ==
  /\ Runs(a, "M23") /\ ~Active
  /\ current_file' \in BOOLEAN        \* FALSE: unable to open the file
  /\ file_position' = 0
  /\ Release(a)
  /\ RestOf(a) /\ UNCHANGED <<work_timer, must_pause_work, cmd_from_sd, lines, read_to, pause>>

Overtakes == is_paused \/ pause_command_sent \/ at["runout"] # "none"

StartWork ==
  /\ must_pause_work' = FALSE
  /\ work_timer' = "Set"
  /\ UNCHANGED <<cmd_from_sd, current_file, file_position, lines, read_to>>

M24(a) ==
  /\ Runs(a, "M24") /\ ~Active
  /\ StartWork
  /\ restarted' = (restarted \/ Overtakes)
  /\ Release(a)
  /\ RestOf(a) /\ UNCHANGED <<is_paused, sd_paused, pause_command_sent>>

M26Anytime(a) ==
  /\ Runs(a, "M26") /\ a # "sd"
  /\ file_position' \in 0 .. Len(File)
  /\ Release(a)
  /\ RestOf(a) /\ UNCHANGED <<work_timer, must_pause_work, cmd_from_sd, current_file, lines, read_to, pause>>

M26(a) ==
  /\ Runs(a, "M26") /\ ~Active
  /\ file_position' \in 0 .. Len(File)
  /\ Release(a)
  /\ RestOf(a) /\ UNCHANGED <<work_timer, must_pause_work, cmd_from_sd, current_file, lines, read_to, pause>>

(* do_pause: ask the work handler to stop, and wait until it has or until    *)
(* the command that runs is one of the card's own.                           *)
AskPauseNot == UNCHANGED must_pause_work
MayReturnStopped == ~Active

AskPause == must_pause_work' = (must_pause_work \/ Active)

MayReturn == ~Active \/ cmd_from_sd

M25(a) ==
  /\ Runs(a, "M25")
  /\ AskPause
  /\ GoTo(a, "stopping")
  /\ UNCHANGED <<mutex, script, work_timer, cmd_from_sd, current_file, file_position, lines, read_to,
                 pause, sensor, idle, delayed, sent>>

M25Returns(a) ==
  /\ at[a] = "stopping" /\ MayReturn
  /\ Done(a)
  /\ UNCHANGED <<pause, sent>>

-----------------------------------------------------------------------------
(* The work handler. *)

WorkStarts ==
  /\ work_timer = "Set"
  /\ IF current_file
     THEN /\ work_timer' = "Running" /\ read_to' = file_position
          /\ GoTo("sd", "loop")
     ELSE work_timer' = "None" /\ UNCHANGED <<read_to, at>>
  /\ UNCHANGED <<mutex, script, must_pause_work, cmd_from_sd, current_file, file_position, lines,
                 pause, sensor, idle, delayed, sent>>

WorkReads ==
  /\ at["sd"] = "loop" /\ ~must_pause_work /\ lines = <<>> /\ read_to < Len(File)
  /\ LET upto == IF read_to + Chunk < Len(File) THEN read_to + Chunk ELSE Len(File) IN
     /\ lines' = [i \in 1 .. upto - read_to |-> read_to + i]
     /\ read_to' = upto
  /\ UNCHANGED <<mutex, at, script, work_timer, must_pause_work, cmd_from_sd, current_file, file_position,
                 pause, sensor, idle, delayed, sent>>

WorkEnds ==
  /\ at["sd"] = "loop"
  /\ \/ must_pause_work /\ UNCHANGED current_file
     \/ ~must_pause_work /\ lines = <<>> /\ read_to >= Len(File) /\ current_file' = FALSE
  /\ LeaveWork
  /\ GoTo("sd", "none")
  /\ UNCHANGED <<mutex, script, pause, sensor, idle, delayed, sent>>

WorkDispatches ==
  /\ at["sd"] = "loop" /\ ~must_pause_work /\ lines # <<>> /\ mutex = "none"
  /\ cmd_from_sd' = TRUE
  /\ mutex' = "sd"
  /\ script' = [script EXCEPT !["sd"] = <<File[Head(lines)]>>]
  /\ GoTo("sd", "ready")
  /\ UNCHANGED <<work_timer, must_pause_work, current_file, file_position, lines, read_to,
                 pause, sensor, idle, delayed, sent>>

-----------------------------------------------------------------------------
(* PAUSE, RESUME and CLEAR_PAUSE.  send_pause_command is run by PAUSE and,   *)
(* outside of any script, by the runout handler.                             *)

SendPause ==
  IF pause_command_sent
  THEN UNCHANGED <<sd_paused, pause_command_sent, must_pause_work>>
  ELSE /\ sd_paused' = Active
       /\ AskPause
       /\ pause_command_sent' = ~Active     \* when active, only after do_pause

PauseAgain(a) ==
  /\ Runs(a, "PAUSE") /\ is_paused
  /\ Done(a) /\ UNCHANGED <<pause, sent>>

PAUSE(a) ==
  /\ Runs(a, "PAUSE") /\ ~is_paused
  /\ SendPause
  /\ GoTo(a, IF ~pause_command_sent /\ Active THEN "pausing" ELSE "saving")
  /\ UNCHANGED <<mutex, script, work_timer, cmd_from_sd, current_file, file_position, lines, read_to,
                 is_paused, restarted, sensor, idle, delayed, sent>>

PauseReturns(a) ==
  /\ at[a] = "pausing" /\ MayReturn
  /\ pause_command_sent' = TRUE
  /\ GoTo(a, "saving")
  /\ UNCHANGED <<mutex, script, sd, is_paused, sd_paused, restarted, sensor, idle, delayed, sent>>

PauseSaves(a) ==       \* SAVE_GCODE_STATE, then the module is paused
  /\ at[a] = "saving"
  /\ is_paused' = TRUE
  /\ Done(a)
  /\ UNCHANGED <<sd_paused, pause_command_sent, restarted, sent>>

ResumeNot(a) ==
  /\ Runs(a, "RESUME") /\ ~is_paused
  /\ Done(a) /\ UNCHANGED <<pause, sent>>

RESUME(a) ==           \* RESTORE_GCODE_STATE moves back, and may wait
  /\ Runs(a, "RESUME") /\ is_paused
  /\ GoTo(a, "restoring")
  /\ UNCHANGED <<mutex, script, sd, pause, sensor, idle, delayed, sent>>

ResumeMoved(a) ==
  /\ at[a] = "restoring"
  /\ is_paused' = FALSE /\ pause_command_sent' = FALSE
  /\ restarted' = (sd_paused /\ at["runout"] # "none")
  /\ IF sd_paused /\ ~Active
     THEN StartWork /\ Release(a) /\ UNCHANGED <<sensor, idle, delayed>>
     ELSE IF sd_paused THEN Raise(a) ELSE Done(a)
  /\ UNCHANGED <<sd_paused, sent>>

CLEAR_PAUSE(a) ==
  /\ Runs(a, "CLEAR_PAUSE")
  /\ is_paused' = FALSE /\ pause_command_sent' = FALSE
  /\ Done(a)
  /\ UNCHANGED <<sd_paused, restarted, sent>>

-----------------------------------------------------------------------------
(* The runout sensor. *)

NotePresent(present) ==
  /\ present # filament_present
  /\ filament_present' = present
  /\ IF min_event = "past" /\ ~present /\ idle_state = "Printing"
     THEN min_event' = "NEVER" /\ GoTo("runout", "callback")
     ELSE UNCHANGED <<min_event, at>>
  /\ UNCHANGED <<mutex, script, sd, pause, idle, delayed, sent>>

EventDelayPasses ==
  /\ min_event = "ahead" /\ min_event' = "past"
  /\ UNCHANGED <<mutex, at, script, sd, pause, filament_present, idle, delayed, sent>>

RunoutEvent ==
  /\ at["runout"] = "callback"
  /\ SendPause
  /\ GoTo("runout", IF ~pause_command_sent /\ Active THEN "sending" ELSE "delay")
  /\ UNCHANGED <<mutex, script, work_timer, cmd_from_sd, current_file, file_position, lines, read_to,
                 is_paused, restarted, sensor, idle, delayed, sent>>

RunoutSent ==
  /\ at["runout"] = "sending" /\ MayReturn
  /\ pause_command_sent' = TRUE
  /\ GoTo("runout", "delay")
  /\ UNCHANGED <<mutex, script, sd, is_paused, sd_paused, restarted, sensor, idle, delayed, sent>>

Submit(a, commands) ==
  /\ script' = [script EXCEPT ![a] = commands]
  /\ GoTo(a, "waiting")
  /\ UNCHANGED mutex

RunoutScript ==
  /\ at["runout"] = "delay"
  /\ Submit("runout", <<"PAUSE", "M400">>)
  /\ UNCHANGED <<sd, pause, sensor, idle, delayed, sent>>

-----------------------------------------------------------------------------
(* The idle timeout.  The toolhead tells it when it starts to move.          *)

SyncPrintTime ==
  IF idle_state = "Printing" THEN UNCHANGED <<idle_state, timeout_timer>>
  ELSE idle_state' = "Printing" /\ timeout_timer' = "set"

G1(a) ==
  /\ Runs(a, "G1")
  /\ toolhead' = "moving"
  /\ IF toolhead = "moving" THEN UNCHANGED <<idle_state, timeout_timer>> ELSE SyncPrintTime
  /\ GoTo(a, "moving")
  /\ UNCHANGED <<mutex, script, sd, pause, sensor, delayed, sent>>

M400(a) ==
  /\ Runs(a, "M400")
  /\ GoTo(a, "moving")
  /\ UNCHANGED <<mutex, script, sd, pause, sensor, idle, delayed, sent>>

WaitEnds(a) == at[a] = "moving" /\ (Done(a) \/ Raise(a)) /\ UNCHANGED <<pause, sent>>

ToolheadRests ==
  /\ \/ toolhead = "moving" /\ toolhead' = "stopped"
     \/ toolhead = "stopped" /\ toolhead' = "idle"
  /\ UNCHANGED <<mutex, at, script, sd, pause, sensor, idle_state, timeout_timer, delayed, sent>>

TransitionReady ==
  /\ timeout_timer = "set" /\ idle_state = "Printing"
  /\ toolhead # "moving" /\ mutex = "none"
  /\ idle_state' = "Ready"
  /\ UNCHANGED <<mutex, at, script, sd, pause, sensor, timeout_timer, toolhead, delayed, sent>>

TransitionIdle ==
  /\ timeout_timer = "set" /\ idle_state = "Ready"
  /\ toolhead = "idle" /\ mutex = "none"
  /\ idle_state' = "Printing"
  /\ timeout_timer' = "running"
  /\ Submit("idle", <<"M84">>)
  /\ UNCHANGED <<sd, pause, sensor, toolhead, delayed, sent>>

M84Waits(a) ==
  /\ Runs(a, "M84")
  /\ GoTo(a, "moving")
  /\ UNCHANGED <<mutex, script, sd, pause, sensor, idle, delayed, sent>>

-----------------------------------------------------------------------------
(* The delayed script. *)

UPDATE_DELAYED_GCODE(a) ==
  /\ Runs(a, "UPDATE_DELAYED_GCODE") /\ a # "sd"
  /\ Release(a)
  /\ \E wanted \in BOOLEAN :
       /\ asked' = wanted
       /\ IF inside_timer THEN repeat' = wanted /\ UNCHANGED delayed_timer
          ELSE delayed_timer' = (IF wanted THEN "set" ELSE "NEVER") /\ UNCHANGED repeat
  /\ UNCHANGED <<inside_timer, sd, pause, sensor, idle, sent>>

DelayedEvent ==
  /\ delayed_timer = "set"
  /\ delayed_timer' = "running"
  /\ inside_timer' = TRUE
  /\ asked' = FALSE
  /\ \E commands \in {<<"G1">>, <<"UPDATE_DELAYED_GCODE", "M400">>} : Submit("delayed", commands)
  /\ UNCHANGED <<repeat, sd, pause, sensor, idle, sent>>

-----------------------------------------------------------------------------
HostSends(c) ==
  /\ at["host"] = "none" /\ sent < MaxHost
  /\ sent' = sent + 1
  /\ Submit("host", <<c>>)
  /\ UNCHANGED <<sd, pause, sensor, idle, delayed>>

TakeMutex(a) ==
  /\ at[a] = "waiting" /\ mutex = "none"
  /\ mutex' = a
  /\ GoTo(a, "ready")
  /\ UNCHANGED <<script, sd, pause, sensor, idle, delayed, sent>>

InitJob ==
  /\ mutex = "none"
  /\ at = [a \in Actors |-> "none"]
  /\ script = [a \in Actors |-> <<>>]
  /\ work_timer = "None" /\ must_pause_work = FALSE /\ cmd_from_sd = FALSE
  /\ current_file = TRUE /\ file_position = 0 /\ lines = <<>> /\ read_to = 0
  /\ is_paused = FALSE /\ sd_paused = FALSE /\ pause_command_sent = FALSE /\ restarted = FALSE
  /\ filament_present = TRUE /\ min_event = "past"
  /\ idle_state = "Idle" /\ timeout_timer = "NEVER" /\ toolhead = "idle"
  /\ delayed_timer = "NEVER" /\ inside_timer = FALSE /\ repeat = FALSE /\ asked = FALSE
  /\ sent = 0

RunCommand(a) ==
  \/ SdBusy(a) \/ M23(a) \/ M24(a) \/ M26(a) \/ M25(a) \/ M25Returns(a)
  \/ PauseAgain(a) \/ PAUSE(a) \/ PauseReturns(a) \/ PauseSaves(a)
  \/ ResumeNot(a) \/ RESUME(a) \/ ResumeMoved(a) \/ CLEAR_PAUSE(a)
  \/ G1(a) \/ M400(a) \/ M84Waits(a) \/ WaitEnds(a) \/ UPDATE_DELAYED_GCODE(a)

Work == WorkStarts \/ WorkReads \/ WorkEnds \/ WorkDispatches
Runout == RunoutEvent \/ RunoutSent \/ RunoutScript
Greenlets == Work \/ Runout \/ \E a \in Actors : TakeMutex(a) \/ RunCommand(a)
Timers == EventDelayPasses \/ ToolheadRests \/ TransitionReady \/ TransitionIdle \/ DelayedEvent

NextJob ==
  \/ Greenlets \/ Timers
  \/ \E present \in BOOLEAN : NotePresent(present)
  \/ \E c \in HostCommands : HostSends(c)

RunScripts == \E a \in Actors : RunCommand(a)

(* The reactor runs whatever may run.  The card looks at the mutex ten times *)
(* a second and no script is retried as often, so it gets its turn.          *)
FairJob ==
  /\ SF_job_vars(Work) /\ WF_job_vars(Runout)
  /\ WF_job_vars(RunScripts)

SpecJob == InitJob /\ [][NextJob]_job_vars /\ FairJob

-----------------------------------------------------------------------------
(* While the job is paused the card sends nothing more, as long as nobody    *)
(* starts the card by hand, and RESUME does not overtake a runout that is    *)
(* being handled (do_pause, send_pause_command, work_handler).               *)
PauseStops == is_paused /\ sd_paused /\ ~restarted => ~Active \/ must_pause_work

(* The next line the card runs is the one at file_position, so no line is    *)
(* lost or run twice by a pause: nobody moves the position under the work    *)
(* handler, which keeps lines it has read ahead (M23, M26, work_handler).    *)
LineIsAtPosition ==
  at["sd"] # "none" => read_to = file_position + Len(lines)

(* The last UPDATE_DELAYED_GCODE decides whether the script runs again, when *)
(* it came while the script was running or waiting, too.                     *)
DelayedAsAsked == asked = (IF inside_timer THEN repeat ELSE delayed_timer = "set")

(* A printer that is not idle has its timeout armed, or its script runs.     *)
IdleTimerArmed == idle_state # "Idle" => timeout_timer # "NEVER"

Stopping == {"stopping", "pausing", "sending"}

(* Whoever waits for the card to stop goes on at last.                       *)
StopReturns == \A a \in {"host", "runout"} : at[a] \in Stopping ~> at[a] \notin Stopping

=============================================================================
