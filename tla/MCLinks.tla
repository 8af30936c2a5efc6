------------------------------- MODULE MCLinks -------------------------------
(* What the host agrees on with others: the identity, the configuration, the pins and
   the clock of its boards, and the lines of the console. A behaviour is of one of
   these components; side says of which. *)
EXTENDS Integers, Sequences, FiniteSets

VARIABLES
  side,   \* the component this behaviour is of
  port, attempt, greenlet, handlers, pending_notifications, queries, replies, lost,
  mcu, session, outbound, inbound, board,
  active, reserved, named, wired, stage,
  clock, clock_asked, answers, sync, link,
  is_fileinput, lines_sent, halves, partial_input, received, pending_commands, commands,
  is_processing_data, reading, need_ack, running, prev_need_ack, taken, finished, unanswered,
  emergency, exiting

\* Bound: the parts of a host and the faults so far, together.
MaxLoad == 3

Serial == INSTANCE Serial WITH
  Pieces <- 1, Retries <- 1, MaxAttempts <- 2, MaxLost <- 1
serialVars == <<port, attempt, greenlet, handlers, pending_notifications, queries, replies, lost>>

Mcu == INSTANCE McuConfig WITH
  Ids <- {"P1", "P2"}, Aliases <- {"a", "b"}, alias2id <- [a |-> "P1", b |-> "P2"],
  Shares <- {"no", "enable"}, Functions_ <- {"uart", "spi"}, MaxCommands <- 3,
  Kinds <- {"digital", "analog", "queued", "i2c", "spi"}, Methods <- {"command", "rpi_usb",
  "none"}, MaxParts <- 2, MaxWrites <- 1, MaxSessions <- 3, MaxFaults <- 2
mcuVars == <<mcu, session, outbound, inbound, board>>

pinsVars == <<active, reserved, named, wired, stage>>

Clock == INSTANCE ClockSync WITH
  Width <- 32, MaxPending <- 2, Delay <- 1, FirstClocks <- {28}, MaxClock <- 37,
  asked <- clock_asked
clockVars == <<clock, clock_asked, answers, sync, link>>

Dispatch == INSTANCE Dispatch WITH
  MaxLines <- 4, MaxRead <- 3, Limit <- 2
dispatchVars == <<is_fileinput, lines_sent, halves, partial_input, received, pending_commands,
  commands, is_processing_data, reading, need_ack, running, prev_need_ack, taken, finished,
  unanswered, emergency, exiting>>

InitLinks ==
  /\ side \in {"serial", "mcu", "pins", "clock", "dispatch"}
  /\ Serial!InitSerial
  /\ Mcu!InitMcu /\ (side = "mcu" \/ mcu.method = "none")
  /\ Mcu!InitPins
  /\ Clock!InitClock
  /\ Dispatch!InitDispatch /\ (side = "dispatch" \/ ~is_fileinput)

SerialStep ==
  /\ side = "serial" /\ Serial!NextSerial
  /\ UNCHANGED <<side, mcuVars, pinsVars, clockVars, dispatchVars>>

McuStep ==
  /\ side = "mcu" /\ Mcu!NextMcu /\ Len(mcu'.parts) + session'.faults <= MaxLoad
  /\ UNCHANGED <<side, serialVars, pinsVars, clockVars, dispatchVars>>

PinsStep ==
  /\ side = "pins" /\ Mcu!NextPins
  /\ UNCHANGED <<side, serialVars, mcuVars, clockVars, dispatchVars>>

ClockStep ==
  /\ side = "clock" /\ Clock!NextClock
  /\ UNCHANGED <<side, serialVars, mcuVars, pinsVars, dispatchVars>>

DispatchStep ==
  /\ side = "dispatch" /\ Dispatch!NextDispatch
  /\ UNCHANGED <<side, serialVars, mcuVars, pinsVars, clockVars>>

NextLinks == SerialStep \/ McuStep \/ PinsStep \/ ClockStep \/ DispatchStep

SpecLinks ==
  /\ InitLinks /\ [][NextLinks]_<<side, serialVars, mcuVars, pinsVars, clockVars, dispatchVars>>
  /\ WF_clockVars(side = "clock" /\ Clock!NextClock)
  /\ WF_dispatchVars(side = "dispatch" /\ Dispatch!Processing)

------------------------------------------------------------------------------
\* A board the host takes for configured has the configuration of this very host, its
\* commands fit together, and one that was shut down does not stay so unnoticed
\* (McuConfig); no board is configured to use a pin it keeps for itself (McuConfig).
BoardAgrees == Mcu!RunsOwnConfig /\ Mcu!CommandsFit /\ Mcu!RestartsOnce /\ Mcu!FaultIsTold /\ Mcu!ReservedUntouched

\* What the board reports is dated right, however late it is (ClockSync).
ReportsAreDated == Clock!ReportsAreDated

\* Every line of the host is run once, in the order it came, and gets one answer unless
\* a script of another greenlet takes it; what is pending stays bounded (Dispatch).
LinesInOrder == Dispatch!LinesInOrder /\ Dispatch!OneAckEach /\ Dispatch!PendingIsBounded

\* A connection that has broken is noticed (ClockSync), and reading that was stopped
\* because too much was pending is taken up again (Dispatch).
LinksRecover == Clock!LossIsNoticed /\ Dispatch!ReadsAgain

\* A host that is connected has the whole dictionary of the board, and whoever waits for
\* an acknowledgement is told (Serial).
IdentifyIsWhole == Serial!IdentifyIsWhole /\ Serial!WaiterIsTold

==============================================================================
