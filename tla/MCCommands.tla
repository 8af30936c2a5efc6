----------------------------- MODULE MCCommands ------------------------------
(* What a user and a print job ask of the host: the card and its pauses, the tree of
   commands, the menu and its keys. A behaviour is of one of these components, which
   share no state; task says of which. *)
EXTENDS Integers, Sequences, FiniteSets

VARIABLES
  task,   \* the component this behaviour is of
  mutex, at, script, work_timer, must_pause_work, cmd_from_sd, current_file, file_position,
  lines, read_to, is_paused, sd_paused, pause_command_sent, restarted, filament_present,
  min_event, idle_state, timeout_timer, toolhead, delayed_timer, inside_timer, repeat,
  job_asked, sent,
  nodes, adds, last,
  shown, items, chosen, input, off, queue, entered,
  keys, seen, acked, to_host, to_mcu, ack_count, last_button, callbacks, handled,
  template_queue, dispatching, encoder_state, position, turns, adc_last, adc_pressed, adc_age

\* A list is within a group; the one below it has no row that leads back, and may get empty.
MenuKids == [main |-> <<"back", "cmd", "group", "in2">>, group |-> <<"in1", "text", "sub">>,
             sub |-> <<"leaf">>, leaf |-> <<"back", "in2", "exit">>]
MenuAction == [back |-> "back", exit |-> "exit", cmd |-> "none"]

Job == INSTANCE PrintJob WITH
  File <- <<"G1", "PAUSE", "G1">>, Chunk <- 2, HostCommands <- {"G1", "M23", "M24", "M25",
  "M26", "PAUSE", "RESUME", "CLEAR_PAUSE", "UPDATE_DELAYED_GCODE"}, MaxHost <- 2,
  asked <- job_asked
jobVars == <<mutex, at, script, work_timer, must_pause_work, cmd_from_sd, current_file,
  file_position, lines, read_to, is_paused, sd_paused, pause_command_sent, restarted,
  filament_present, min_event, idle_state, timeout_timer, toolhead, delayed_timer, inside_timer,
  repeat, job_asked, sent>>

Tree == INSTANCE CommandTree WITH
  Words <- {"a", "b"}, Idents <- {"x"}, MaxWords <- 2, MaxAdds <- 3
treeVars == <<nodes, adds, last>>

Menu == INSTANCE Menu WITH
  Kids <- MenuKids, Action <- MenuAction, Lists <- {"main", "sub", "leaf"}, Groups <- {"group"},
  Inputs <- {"in1", "in2"}, Labels <- {"text"}, Root <- "main", Realtime <- {"in2"},
  Conditional <- {"in1", "leaf", "cmd"}, Rows <- 2, MaxValue <- 1, MaxQueue <- 1, menu <- shown,
  value <- input
menuVars == <<shown, items, chosen, input, off, queue, entered>>

Buttons == INSTANCE Buttons WITH
  CountMod <- 8, MaxUnacked <- 2, MaxSeen <- 4, MaxPosition <- 8, Debounce <- 2, device <- keys
buttonsVars == <<keys, seen, acked, to_host, to_mcu, ack_count, last_button, callbacks, handled,
  template_queue, dispatching, encoder_state, position, turns, adc_last, adc_pressed, adc_age>>

InitCommands ==
  /\ task \in {"job", "tree", "menu", "buttons"}
  /\ Job!InitJob
  /\ Tree!InitTree
  /\ Menu!InitMenu
  /\ Buttons!InitButtons /\ (task = "buttons" \/ keys = "board")

JobStep ==
  /\ task = "job" /\ Job!NextJob
  /\ UNCHANGED <<task, treeVars, menuVars, buttonsVars>>

TreeStep ==
  /\ task = "tree" /\ Tree!NextTree
  /\ UNCHANGED <<task, jobVars, menuVars, buttonsVars>>

MenuStep ==
  /\ task = "menu" /\ Menu!NextMenu
  /\ UNCHANGED <<task, jobVars, treeVars, buttonsVars>>

ButtonsStep ==
  /\ task = "buttons" /\ Buttons!NextButtons
  /\ UNCHANGED <<task, jobVars, treeVars, menuVars>>

NextCommands == JobStep \/ TreeStep \/ MenuStep \/ ButtonsStep

SpecCommands ==
  /\ InitCommands /\ [][NextCommands]_<<task, jobVars, treeVars, menuVars, buttonsVars>>
  /\ WF_jobVars(task = "job" /\ Job!Runout)
  /\ WF_jobVars(task = "job" /\ Job!RunScripts)
  /\ SF_jobVars(task = "job" /\ Job!Work)

------------------------------------------------------------------------------
\* While the job is paused the card sends nothing more, and the next line it runs is the
\* one at file_position; a delayed script waits just when the last command said so, and
\* the idle timeout is armed while the printer is not idle (PrintJob).
JobIsKept == Job!PauseStops /\ Job!LineIsAtPosition /\ Job!DelayedAsAsked /\ Job!IdleTimerArmed

\* Whoever waits for the card to stop goes on at last (PrintJob).
StopReturns == Job!StopReturns

\* A line runs the command it names, the one added last and no other (CommandTree).
RunsWhatIsNamed == task = "tree" => Tree!AddedIsCalled /\ Tree!RunsWhatIsNamed

\* The selected row is on the screen, only the selected item is being edited, and lists
\* are entered and left in turn (Menu).
EditIsCurrent == Menu!SelectedIsShown /\ Menu!EditIsCurrent /\ Menu!EnteredOnce

\* Each report of the buttons is handled once and in order, and their scripts are run;
\* at a detent the encoder has made as many calls as full turns (Buttons).
KeysCount == Buttons!HandledOnce /\ Buttons!ScriptsAreRun /\ Buttons!EncoderCounts

==============================================================================
