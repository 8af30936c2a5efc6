------------------------------ MODULE ClockSync -----------------------------
(* The host's copy of a board's clock.  The board sends 32 bits of its       *)
(* clock; the host asks for it periodically, extends each answer to 64 bits  *)
(* from the one before, and dates what the board reports by the last one.    *)
(* When the answers stop, the statistics notice and shut the printer down.   *)
(* The regression that estimates the clock between answers is left out.      *)
EXTENDS Integers, Sequences

CONSTANTS
  Width,       \* the board's clock counts modulo this, in periods of the query
  MaxPending,  \* queries that may be unanswered
  Delay,       \* bound: periods a message is under way while the connection works
  FirstClocks, \* the board's clock when the host connects
  MaxClock     \* bound: the board's clock

VARIABLES
  clock,       \* the board's clock, all of it
  asked,       \* queries on their way to the board
  answers,     \* what the board has sent and the host has not seen
  sync,        \* what the host keeps
  link         \* whether the connection still works

clock_vars == <<clock, asked, answers, sync, link>>

LowBits(c) == c % Width

-----------------------------------------------------------------------------
(* connect reads the uptime, all 64 bits of it, and starts the timer. *)
Connected(c) ==
  [last_clock |-> c, pending |-> 0, due |-> c, checked |-> c, timeout |-> FALSE, dated |-> TRUE]

(* _get_clock_event; the timer is not late by a whole period. *)
GetClock ==
  /\ sync.due <= clock
  /\ asked' = IF link THEN asked + 1 ELSE 0
  /\ sync' = [sync EXCEPT !.pending = @ + 1, !.due = clock + 1]
  /\ UNCHANGED <<clock, answers, link>>

ExtendNoWrap(last, low) == (last - (last % Width)) + low     \* mutant

(* _serial_handle_clock: the clock has wrapped if it seems to go back. *)
Extend(last, low) ==
  LET c == (last - (last % Width)) + low IN IF c < last THEN c + Width ELSE c

HandleClock(m) ==
  sync' = [sync EXCEPT !.pending = 0, !.last_clock = Extend(sync.last_clock, m.low)]

(* clock32_to_clock64: within half a turn of the last clock.  dated is      *)
(* whether that was the clock of the report.                                *)
Clock64Behind(last, low) == last - ((last + Width - low) % Width)     \* mutant: never ahead

Clock64(last, low) ==
  LET diff == (last + Width - low) % Width
  IN  IF diff >= Width \div 2 THEN last + Width - diff ELSE last - diff

HandleReport(m) ==
  sync' = [sync EXCEPT !.dated = Clock64(sync.last_clock, m.low) = m.true]

Receive ==
  /\ answers # <<>>
  /\ answers' = Tail(answers)
  /\ IF Head(answers).what = "clock" THEN HandleClock(Head(answers)) ELSE HandleReport(Head(answers))
  /\ UNCHANGED <<clock, asked, link>>

(* check_active, from the statistics of every period. *)
is_active_always == TRUE     \* mutant

is_active == sync.pending <= MaxPending

CheckActive ==
  /\ sync.checked <= clock
  /\ sync' = [sync EXCEPT !.checked = clock + 1, !.timeout = @ \/ ~is_active]
  /\ UNCHANGED <<clock, asked, answers, link>>

-----------------------------------------------------------------------------
(* The board and the connection.                                             *)
Message(what) == [what |-> what, low |-> LowBits(clock), true |-> clock]

BoardAnswers ==
  /\ asked > 0 /\ asked' = asked - 1
  /\ answers' = Append(answers, Message("clock"))
  /\ UNCHANGED <<clock, sync, link>>

BoardReports ==
  /\ link /\ \A i \in DOMAIN answers : answers[i].what = "clock"
  /\ answers' = Append(answers, Message("report"))
  /\ UNCHANGED <<clock, asked, sync, link>>

(* Early enough for the bound on the clock to leave the time to notice. *)
LinkBreaks ==
  /\ link /\ clock + MaxPending + 5 <= MaxClock
  /\ link' = FALSE /\ answers' = <<>> /\ asked' = 0
  /\ UNCHANGED <<clock, sync>>

Tick ==
  /\ clock < MaxClock
  /\ clock <= sync.due /\ clock <= sync.checked
  /\ asked <= MaxPending + 1
  /\ \A i \in DOMAIN answers : clock < answers[i].true + Delay
  /\ clock' = clock + 1
  /\ UNCHANGED <<asked, answers, sync, link>>

-----------------------------------------------------------------------------
InitClock ==
  /\ clock \in FirstClocks /\ sync = Connected(clock)
  /\ asked = 0 /\ answers = <<>> /\ link = TRUE

NextClock ==
  \/ ~sync.timeout /\ GetClock
  \/ ~sync.timeout /\ Receive
  \/ ~sync.timeout /\ CheckActive
  \/ BoardAnswers \/ BoardReports \/ LinkBreaks \/ Tick

SpecClock == InitClock /\ [][NextClock]_clock_vars /\ WF_clock_vars(NextClock)

-----------------------------------------------------------------------------
(* Until the printer is shut down, what the board reports is dated right,    *)
(* however late it is, whatever is under way, and when the clock has wrapped *)
(* in between.                                                               *)
ReportsAreDated == ~sync.timeout => sync.dated

(* A connection that has broken is noticed.                                  *)
LossIsNoticed == ~link ~> sync.timeout

=============================================================================
