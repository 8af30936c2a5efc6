----------------------------- MODULE HostClaims -----------------------------
(***************************************************************************)
(* What is proved of the components of the host, as the properties of the  *)
(* whole that are model-checked: a behaviour of the whole is one of the    *)
(* component, with the constants it is checked with.                       *)
(***************************************************************************)
EXTENDS MCMachine, MCLinks, MCCommands, TLAPS

\* The theorems about the components, of the constants and variables of the whole
Host == INSTANCE HostProofs WITH
  PosMax <- 3, Retract <- 1, Hop <- 1, SafeX <- 1, Targets <- {0, 200}, MaxFaults <- 1,
  Retry <- 2, MoveTime <- 3, NEVER <- 1000, MaxLate <- 1, MaxHomings <- 2, MaxLost <- 2,
  now <- time, lost <- reports_lost, board <- sensor, down <- state_queries, up <- states,
  MaxLines <- 4, MaxRead <- 3, Limit <- 2,
  File <- <<"G1", "PAUSE", "G1">>, Chunk <- 2, MaxHost <- 2, asked <- job_asked,
  HostCommands <- {"G1", "M23", "M24", "M25", "M26", "PAUSE", "RESUME", "CLEAR_PAUSE", "UPDATE_DELAYED_GCODE"},
  Words <- {"a", "b"}, Idents <- {"x"}, MaxWords <- 2, MaxAdds <- 3

Devices == INSTANCE DeviceProofs WITH
  Width <- 32, MaxPending <- 2, Delay <- 1, FirstClocks <- {28}, MaxClock <- 37, asked <- clock_asked,
  Pieces <- 1, Retries <- 1, MaxAttempts <- 2, MaxLost <- 1,
  Temps <- {0, 2, 4}, Targets <- {0, 4}, MaxPower <- 100, Outputs <- {3, 100},
  MAX_HEAT_TIME <- 3, ReportStale <- 1, Delta <- 1, TuneDelta <- 1, Hysteresis <- 1,
  MaxError <- 2, HeatingGain <- 1, CheckGainTime <- 2, Peaks <- 2, board <- output,
  CountMod <- 8, MaxUnacked <- 2, MaxSeen <- 4, MaxPosition <- 8, Debounce <- 2, device <- keys,
  Moves <- LookAheadMoves, Corners <- {0, 2, 6}, MaxMoves <- 3, BufferLow <- 2, BufferHigh <- 4, BufferStart <- 2,
  MinKinTime <- 1, PrimeTime <- 1, StallDelay <- 1, DripSegment <- 1, DripTime <- 1, ScanTimes <- {0, 1},
  MoveTimes <- {1, 4}, Late <- 1, MaxQueue <- 2, MaxTime <- 6

\* Of the main process the menu and the boards: the reactor is no part of what is checked here.
Main == INSTANCE MainProofs WITH
  Timer <- {}, NoTimer <- 0, MaxTime <- 0, MaxMessages <- 0, now <- time, _timers <- <<>>, id <- <<>>,
  pipe <- <<>>, running <- 0, timers <- <<>>, _next_timer <- 0, todo <- <<>>, loop <- 0, cancelled <- FALSE,
  Kids <- MenuKids, Action <- MenuAction, Lists <- {"main", "sub", "leaf"}, Groups <- {"group"},
  Inputs <- {"in1", "in2"}, Labels <- {"text"}, Root <- "main", Realtime <- {"in2"},
  Conditional <- {"in1", "leaf", "cmd"}, Rows <- 2, MaxValue <- 1, MaxQueue <- 1, menu <- shown, value <- input,
  Ids <- {"P1", "P2"}, Aliases <- {"a", "b"}, alias2id <- [a |-> "P1", b |-> "P2"],
  Shares <- {"no", "enable"}, Functions_ <- {"uart", "spi"}, MaxCommands <- 3,
  Kinds <- {"digital", "analog", "queued", "i2c", "spi"}, Methods <- {"command", "rpi_usb", "none"},
  MaxParts <- 2, MaxWrites <- 1, MaxSessions <- 3, MaxFaults <- 2

\* The part that homes the axes begins, goes on and is to be as the component.
LEMMA SameHoming ==
  /\ Homing!InitHoming => Host!InitHoming
  /\ Homing!NextHoming => Host!NextHoming
  /\ Host!HomedIsRealButHop => Homing!HomedIsRealButHop
  /\ Host!HeatersRestored => Homing!HeatersRestored
<1>1. Homing!InitHoming => Host!InitHoming
  BY Zenon DEF
       Homing!InitHoming, Host!InitHoming, Homing!Axes, Host!Axes
<1>2. Homing!NextHoming => Host!NextHoming
  BY Zenon DEF
       Homing!NextHoming, Host!NextHoming, Homing!Axes, Host!Axes, Homing!G28, Host!G28, Homing!Run, Host!Run,
       Homing!Move, Host!Move, Homing!M84, Host!M84, Homing!M104, Host!M104, Homing!SwitchChanges, Host!SwitchChanges,
       Homing!SafeZ, Host!SafeZ, Homing!HopZ, Host!HopZ, Homing!HomeFirst, Host!HomeFirst, Homing!WaitFirst,
       Host!WaitFirst, Homing!Retracts, Host!Retracts, Homing!WaitSecond, Host!WaitSecond, Homing!Goto, Host!Goto,
       Homing!Allowed, Host!Allowed, Homing!Drive, Host!Drive, Homing!Step, Host!Step, Homing!Begin, Host!Begin,
       Homing!ForceDistance, Host!ForceDistance, Homing!HomingMove, Host!HomingMove, Homing!Triggers, Host!Triggers,
       Homing!HomingError, Host!HomingError, Homing!Moved, Host!Moved, Homing!Error, Host!Error, Homing!Clip,
       Host!Clip, Homing!Reached, Host!Reached, Homing!End, Host!End, Homing!MotorsOff, Host!MotorsOff
<1>3. Host!HomedIsRealButHop => Homing!HomedIsRealButHop
  BY Zenon DEF
       Homing!HomedIsRealButHop, Host!HomedIsRealButHop, Homing!HomedIsReal, Host!HomedIsReal
<1>4. Host!HeatersRestored => Homing!HeatersRestored
  BY Zenon DEF
       Homing!HeatersRestored, Host!HeatersRestored
<1> QED  BY <1>1, <1>2, <1>3, <1>4

\* The part that homes to an endstop begins, goes on and is to be as the component.
LEMMA SameEndstop ==
  /\ Homing!InitEndstop => Host!InitEndstop
  /\ Homing!NextEndstop => Host!NextEndstop
  /\ Host!ResultIsTrue => Homing!ResultIsTrue
<1>1. Homing!InitEndstop => Host!InitEndstop
  BY Zenon DEF
       Homing!InitEndstop, Host!InitEndstop
<1>2. Homing!NextEndstop => Host!NextEndstop
  BY Zenon DEF
       Homing!NextEndstop, Host!NextEndstop, Homing!HomeStart, Host!HomeStart, Homing!Receive, Host!Receive,
       Homing!MoveEnds, Host!MoveEnds, Homing!Retried, Host!Retried, Homing!Requery, Host!Requery, Homing!BoardTakes,
       Host!BoardTakes, Homing!Hits, Host!Hits, Homing!Lost, Host!Lost, Homing!Tick, Host!Tick, Homing!State,
       Host!State, Homing!Finish, Host!Finish, Homing!LastIsLate, Host!LastIsLate, Homing!Say, Host!Say,
       Homing!Current, Host!Current
<1>3. Host!ResultIsTrue => Homing!ResultIsTrue
  BY Zenon DEF
       Homing!ResultIsTrue, Host!ResultIsTrue
<1> QED  BY <1>1, <1>2, <1>3

\* The part that heats begins, goes on and is to be as the component.
LEMMA SameHeat ==
  /\ Heat!InitHeat => Devices!InitHeat
  /\ Heat!NextHeat => Devices!NextHeat
  /\ Devices!RepeatedInTime => Heat!RepeatedInTime
  /\ Devices!NoTargetIsOff => Heat!NoTargetIsOff
  /\ Devices!StuckIsNoticed => Heat!StuckIsNoticed
<1>1. Heat!InitHeat => Devices!InitHeat
  BY Zenon DEF
       Heat!InitHeat, Devices!InitHeat
<1>2. Heat!NextHeat => Devices!NextHeat
  BY Zenon DEF
       Heat!NextHeat, Devices!NextHeat, Heat!Report, Devices!Report, Heat!set_target_temp, Devices!set_target_temp,
       Heat!Calibrate, Devices!Calibrate, Heat!Fail, Devices!Fail, Heat!Calibrated, Devices!Calibrated,
       Heat!CheckEvent, Devices!CheckEvent, Heat!Second, Devices!Second, Heat!BangBang, Devices!BangBang, Heat!PID,
       Devices!PID, Heat!AutoTune, Devices!AutoTune, Heat!CheckBusy, Devices!CheckBusy, Heat!Near, Devices!Near,
       Heat!Temp, Devices!Temp, Heat!Faults, Devices!Faults, Heat!Shutdown, Devices!Shutdown, Heat!NotHeating,
       Devices!NotHeating, Heat!High, Devices!High, Heat!Low, Devices!Low, Heat!Cold, Devices!Cold, Heat!Steady,
       Devices!Steady, Heat!AdjTemp, Devices!AdjTemp, Heat!Apart, Devices!Apart, Heat!Approach, Devices!Approach,
       Heat!SetPwm, Devices!SetPwm
<1>3. Devices!RepeatedInTime => Heat!RepeatedInTime
  BY Zenon DEF
       Heat!RepeatedInTime, Devices!RepeatedInTime
<1>4. Devices!NoTargetIsOff => Heat!NoTargetIsOff
  BY Zenon DEF
       Heat!NoTargetIsOff, Devices!NoTargetIsOff
<1>5. Devices!StuckIsNoticed => Heat!StuckIsNoticed
  BY Zenon DEF
       Heat!StuckIsNoticed, Devices!StuckIsNoticed
<1> QED  BY <1>1, <1>2, <1>3, <1>4, <1>5

\* The part that keeps the board in steps begins, goes on and is to be as the component.
LEMMA SameToolhead ==
  /\ Toolhead!InitToolhead => Devices!InitToolhead
  /\ Toolhead!NextToolhead => Devices!NextToolhead
  /\ Devices!MainIsAhead => Toolhead!MainIsAhead
  /\ Devices!QueuedIsFlushed => Toolhead!QueuedIsFlushed
  /\ Devices!BeginsUngenerated => Toolhead!BeginsUngenerated
  /\ Devices!DripIsShort => Toolhead!DripIsShort
<1>1. Toolhead!NEVER = Devices!NEVER
  BY DEF Toolhead!NEVER, Devices!NEVER
<1>2. \A x, y : Toolhead!Later(x, y) = Devices!Later(x, y)
  BY DEF Toolhead!Later, Devices!Later
<1>3. \A x, y : Toolhead!Sooner(x, y) = Devices!Sooner(x, y)
  BY DEF Toolhead!Sooner, Devices!Sooner
<1>4. \A x : Toolhead!Total(x) = Devices!Total(x)
  BY DEF Toolhead!Total, Devices!Total
<1>5. \A x, y : Toolhead!UpdateMoveTime(x, y) = Devices!UpdateMoveTime(x, y)
  BY <1>2 DEF Toolhead!UpdateMoveTime, Devices!UpdateMoveTime
<1>6. \A x : Toolhead!CalcPrintTime(x) = Devices!CalcPrintTime(x)
  BY <1>2 DEF Toolhead!CalcPrintTime, Devices!CalcPrintTime
<1>7. \A x : Toolhead!Resync(x) = Devices!Resync(x)
  BY <1>6 DEF Toolhead!Resync, Devices!Resync
<1>8. \A x : Toolhead!Begin(x) = Devices!Begin(x)
  BY DEF Toolhead!Begin, Devices!Begin
<1>9. \A x, y : Toolhead!ProcessMoves(x, y) = Devices!ProcessMoves(x, y)
  BY <1>4, <1>5, <1>7, <1>8 DEF Toolhead!ProcessMoves, Devices!ProcessMoves
<1>10. \A x : Toolhead!Flush(x) = Devices!Flush(x)
  BY <1>9 DEF Toolhead!Flush, Devices!Flush
<1>11. \A x : Toolhead!FlushStepGeneration(x) = Devices!FlushStepGeneration(x)
  BY <1>1, <1>2, <1>5, <1>10 DEF Toolhead!FlushStepGeneration, Devices!FlushStepGeneration
<1>12. \A x : Toolhead!FlushLookahead(x) = Devices!FlushLookahead(x)
  BY <1>10, <1>11 DEF Toolhead!FlushLookahead, Devices!FlushLookahead
<1>13. \A x : Toolhead!GetLastMoveTime(x) = Devices!GetLastMoveTime(x)
  BY <1>6, <1>12 DEF Toolhead!GetLastMoveTime, Devices!GetLastMoveTime
<1>14. \A x : Toolhead!Prime(x) = Devices!Prime(x)
  BY DEF Toolhead!Prime, Devices!Prime
<1>15. \A x : Toolhead!StallTime(x) = Devices!StallTime(x)
  BY DEF Toolhead!StallTime, Devices!StallTime
<1>16. \A x : Toolhead!DeferStall(x) = Devices!DeferStall(x)
  BY DEF Toolhead!DeferStall, Devices!DeferStall
<1>17. Toolhead!Idle = Devices!Idle
  BY <1>1 DEF Toolhead!Idle, Devices!Idle
<1>18. \A x, y : Toolhead!Wait(x, y) = Devices!Wait(x, y)
  BY DEF Toolhead!Wait, Devices!Wait
<1>19. \A x : Toolhead!Stall(x) <=> Devices!Stall(x)
  BY <1>1, <1>15, <1>16, <1>17, <1>18 DEF Toolhead!Stall, Devices!Stall
<1>20. \A x : Toolhead!CheckStall(x) <=> Devices!CheckStall(x)
  BY <1>14, <1>19 DEF Toolhead!CheckStall, Devices!CheckStall
<1>21. Toolhead!StallOver <=> Devices!StallOver
  BY <1>19 DEF Toolhead!StallOver, Devices!StallOver
<1>22. \A x : Toolhead!move(x) <=> Devices!move(x)
  BY <1>9, <1>17, <1>20 DEF Toolhead!move, Devices!move
<1>23. \A x : Toolhead!dwell(x) <=> Devices!dwell(x)
  BY <1>5, <1>13, <1>20 DEF Toolhead!dwell, Devices!dwell
<1>24. \A x : Toolhead!MovesUnderWay(x) = Devices!MovesUnderWay(x)
  BY DEF Toolhead!MovesUnderWay, Devices!MovesUnderWay
<1>25. \A x : Toolhead!WaitOn(x) <=> Devices!WaitOn(x)
  BY <1>17, <1>18, <1>24 DEF Toolhead!WaitOn, Devices!WaitOn
<1>26. Toolhead!wait_moves <=> Devices!wait_moves
  BY <1>12, <1>25 DEF Toolhead!wait_moves, Devices!wait_moves
<1>27. Toolhead!WaitOver <=> Devices!WaitOver
  BY <1>25 DEF Toolhead!WaitOver, Devices!WaitOver
<1>28. \A x : Toolhead!note_step_generation_scan_time(x) <=> Devices!note_step_generation_scan_time(x)
  BY <1>11 DEF Toolhead!note_step_generation_scan_time, Devices!note_step_generation_scan_time
<1>29. \A x : Toolhead!FlushDelay(x) = Devices!FlushDelay(x)
  BY DEF Toolhead!FlushDelay, Devices!FlushDelay
<1>30. \A x, y : Toolhead!DripStart(x, y) = Devices!DripStart(x, y)
  BY <1>1, <1>6, <1>8, <1>10 DEF Toolhead!DripStart, Devices!DripStart
<1>31. \A x : Toolhead!drip_move(x) <=> Devices!drip_move(x)
  BY <1>30 DEF Toolhead!drip_move, Devices!drip_move
<1>32. \A x : Toolhead!DripAhead(x) = Devices!DripAhead(x)
  BY <1>29 DEF Toolhead!DripAhead, Devices!DripAhead
<1>33. Toolhead!DripSegmentSent <=> Devices!DripSegmentSent
  BY <1>3, <1>5, <1>32 DEF Toolhead!DripSegmentSent, Devices!DripSegmentSent
<1>34. Toolhead!DripDone <=> Devices!DripDone
  BY <1>11, <1>17 DEF Toolhead!DripDone, Devices!DripDone
<1>35. Toolhead!DripEnds <=> Devices!DripEnds
  BY <1>11, <1>17 DEF Toolhead!DripEnds, Devices!DripEnds
<1>36. Toolhead!FlushHandler <=> Devices!FlushHandler
  BY <1>11 DEF Toolhead!FlushHandler, Devices!FlushHandler
<1>37. Toolhead!HandleShutdown <=> Devices!HandleShutdown
  BY DEF Toolhead!HandleShutdown, Devices!HandleShutdown
<1>38. Toolhead!ClockTick <=> Devices!ClockTick
  BY DEF Toolhead!ClockTick, Devices!ClockTick
<1>39. Toolhead!InitToolhead => Devices!InitToolhead
  BY <1>1, <1>17 DEF Toolhead!InitToolhead, Devices!InitToolhead
<1>40. Toolhead!NextToolhead => Devices!NextToolhead
  BY <1>21, <1>22, <1>23, <1>26, <1>27, <1>28, <1>31, <1>33, <1>34, <1>35, <1>36, <1>37, <1>38 DEF Toolhead!NextToolhead, Devices!NextToolhead
<1>41. Devices!MainIsAhead => Toolhead!MainIsAhead
  BY DEF Toolhead!MainIsAhead, Devices!MainIsAhead
<1>42. Devices!QueuedIsFlushed => Toolhead!QueuedIsFlushed
  BY <1>2 DEF Toolhead!QueuedIsFlushed, Devices!QueuedIsFlushed
<1>43. Devices!BeginsUngenerated => Toolhead!BeginsUngenerated
  BY DEF Toolhead!BeginsUngenerated, Devices!BeginsUngenerated
<1>44. Devices!DripIsShort => Toolhead!DripIsShort
  BY DEF Toolhead!DripIsShort, Devices!DripIsShort
<1> QED  BY <1>39, <1>40, <1>41, <1>42, <1>43, <1>44

\* The part that looks ahead begins, goes on and is to be as the component.
LEMMA SameLookAhead ==
  /\ Toolhead!InitLookAhead => Devices!InitLookAhead
  /\ Toolhead!NextLookAhead => Devices!NextLookAhead
  /\ Devices!JunctionsMeet => Toolhead!JunctionsMeet
<1>1. \A x : Toolhead!Least(x) = Devices!Least(x)
  BY DEF Toolhead!Least, Devices!Least
<1>2. \A x, y, z : Toolhead!calc_junction(x, y, z) = Devices!calc_junction(x, y, z)
  BY <1>1 DEF Toolhead!calc_junction, Devices!calc_junction
<1>3. \A x, y, z : Toolhead!Junction(x, y, z) = Devices!Junction(x, y, z)
  BY DEF Toolhead!Junction, Devices!Junction
<1>4. \A x, y : Toolhead!Stopped(x, y) = Devices!Stopped(x, y)
  BY <1>3 DEF Toolhead!Stopped, Devices!Stopped
<1>5. \A x, y : Toolhead!Start(x, y) = Devices!Start(x, y)
  BY <1>1 DEF Toolhead!Start, Devices!Start
<1>6. \A x, y : Toolhead!ReachableSmoothed(x, y) = Devices!ReachableSmoothed(x, y)
  BY DEF Toolhead!ReachableSmoothed, Devices!ReachableSmoothed
<1>7. \A x, y : Toolhead!Smoothed(x, y) = Devices!Smoothed(x, y)
  BY <1>1, <1>6 DEF Toolhead!Smoothed, Devices!Smoothed
<1>8. \A x, y : Toolhead!Give(x, y) = Devices!Give(x, y)
  BY <1>1, <1>3 DEF Toolhead!Give, Devices!Give
<1>9. \A x, y : Toolhead!Propagate(x, y) = Devices!Propagate(x, y)
  BY <1>8 DEF Toolhead!Propagate, Devices!Propagate
<1>10. \A x, y : Toolhead!CutsHere(x, y) = Devices!CutsHere(x, y)
  BY DEF Toolhead!CutsHere, Devices!CutsHere
<1>11. \A x, y : Toolhead!Accelerates(x, y) = Devices!Accelerates(x, y)
  BY <1>7 DEF Toolhead!Accelerates, Devices!Accelerates
<1>12. \A x, y, z : Toolhead!AtPeak(x, y, z) = Devices!AtPeak(x, y, z)
  <2> SUFFICES ASSUME NEW x, NEW y, NEW z PROVE Toolhead!AtPeak(x, y, z) = Devices!AtPeak(x, y, z)
    OBVIOUS
  <2>1. PICK h : h = Toolhead!CutsHere(x, y)
    OBVIOUS
  <2>2. h = Devices!CutsHere(x, y)
    BY <1>10, <2>1
  <2>3. PICK c, u : c = (IF h THEN z - 1 ELSE y.count) /\ u = (y.update /\ ~h)
    OBVIOUS
  <2>4. PICK s, r : s = Toolhead!Smoothed(x, y) /\ r = Toolhead!ReachableSmoothed(x, y)
    OBVIOUS
  <2>5. s = Devices!Smoothed(x, y) /\ r = Devices!ReachableSmoothed(x, y)
    BY <1>6, <1>7, <2>4
  <2>6. PICK p : p = Toolhead!Least({x.cruise, (s + r) \div 2})
    OBVIOUS
  <2>7. p = Devices!Least({x.cruise, (s + r) \div 2})
    BY <1>1, <2>6
  <2>8. PICK j : j = Toolhead!Propagate(y, p)
    OBVIOUS
  <2>9. j = Devices!Propagate(y, p)
    BY <1>9, <2>8
  <2> DEFINE A == [y EXCEPT !.count = c, !.update = u, !.peak = p, !.delayed = <<>>,
                            !.junctions = IF ~u /\ z <= c THEN j ELSE @]
  <2>10. Toolhead!AtPeak(x, y, z) = A
    BY <2>1, <2>3, <2>4, <2>6, <2>8, Zenon DEF Toolhead!AtPeak
  <2>11. Devices!AtPeak(x, y, z) = A
    BY <2>2, <2>3, <2>5, <2>7, <2>9, Zenon DEF Devices!AtPeak
  <2> HIDE DEF A
  <2> QED
    BY <2>10, <2>11
<1>13. \A x, y, z : Toolhead!Cruise(x, y, z) = Devices!Cruise(x, y, z)
  <2> SUFFICES ASSUME NEW x, NEW y, NEW z PROVE Toolhead!Cruise(x, y, z) = Devices!Cruise(x, y, z)
    OBVIOUS
  <2>1. PICK s, r : s = Toolhead!Start(x, y) /\ r = y.next_end + x.delta
    OBVIOUS
  <2>2. s = Devices!Start(x, y)
    BY <1>5, <2>1
  <2>3. PICK c : c = Toolhead!Least({(s + r) \div 2, x.cruise, y.peak})
    OBVIOUS
  <2>4. c = Devices!Least({(s + r) \div 2, x.cruise, y.peak})
    BY <1>1, <2>3
  <2>5. PICK l, e : l = Toolhead!Least({s, c}) /\ e = Toolhead!Least({y.next_end, c})
    OBVIOUS
  <2>6. l = Devices!Least({s, c}) /\ e = Devices!Least({y.next_end, c})
    BY <1>1, <2>5
  <2>7. PICK j : j = Toolhead!Junction(l, c, e)
    OBVIOUS
  <2>8. j = Devices!Junction(l, c, e)
    BY <1>3, <2>7
  <2> DEFINE A == IF y.update \/ z > y.count THEN y ELSE [y EXCEPT !.junctions[z] = j]
  <2>9. Toolhead!Cruise(x, y, z) = A
    BY <2>1, <2>3, <2>5, <2>7, Zenon DEF Toolhead!Cruise
  <2>10. Devices!Cruise(x, y, z) = A
    BY <2>1, <2>2, <2>4, <2>6, <2>8, Zenon DEF Devices!Cruise
  <2> HIDE DEF A
  <2> QED
    BY <2>9, <2>10
<1>14. \A x, y, z : Toolhead!Visit(x, y, z) = Devices!Visit(x, y, z)
  BY <1>5, <1>6, <1>7, <1>11, <1>12, <1>13 DEF Toolhead!Visit, Devices!Visit
<1>15. \A x, y : Toolhead!Pass(x, y) = Devices!Pass(x, y)
  BY <1>4, <1>14 DEF Toolhead!Pass, Devices!Pass
<1>16. Toolhead!LastEnd = Devices!LastEnd
  BY DEF Toolhead!LastEnd, Devices!LastEnd
<1>17. \A x, y : Toolhead!flush(x, y) <=> Devices!flush(x, y)
  BY <1>15, <1>16 DEF Toolhead!flush, Devices!flush
<1>18. \A x, y : Toolhead!add_move(x, y) <=> Devices!add_move(x, y)
  BY <1>2, <1>17 DEF Toolhead!add_move, Devices!add_move
<1>19. Toolhead!FlushAll <=> Devices!FlushAll
  BY <1>17 DEF Toolhead!FlushAll, Devices!FlushAll
<1>20. Toolhead!InitLookAhead => Devices!InitLookAhead
  BY DEF Toolhead!InitLookAhead, Devices!InitLookAhead
<1>21. Toolhead!NextLookAhead => Devices!NextLookAhead
  BY <1>18, <1>19 DEF Toolhead!NextLookAhead, Devices!NextLookAhead
<1>22. Devices!JunctionsMeet => Toolhead!JunctionsMeet
  BY <1>16 DEF Toolhead!JunctionsMeet, Devices!JunctionsMeet
<1> QED  BY <1>20, <1>21, <1>22

\* The part that keeps the clock of a board begins, goes on and is to be as the component.
LEMMA SameClock ==
  /\ Clock!InitClock => Devices!InitClock
  /\ Clock!NextClock => Devices!NextClock
  /\ Devices!ReportsAreDated => Clock!ReportsAreDated
<1>1. Clock!InitClock => Devices!InitClock
  BY Zenon DEF
       Clock!InitClock, Devices!InitClock, Clock!Connected, Devices!Connected
<1>2. Clock!NextClock => Devices!NextClock
  BY Zenon DEF
       Clock!NextClock, Devices!NextClock, Clock!GetClock, Devices!GetClock, Clock!Receive, Devices!Receive,
       Clock!CheckActive, Devices!CheckActive, Clock!BoardAnswers, Devices!BoardAnswers, Clock!BoardReports,
       Devices!BoardReports, Clock!LinkBreaks, Devices!LinkBreaks, Clock!Tick, Devices!Tick, Clock!HandleClock,
       Devices!HandleClock, Clock!HandleReport, Devices!HandleReport, Clock!is_active, Devices!is_active,
       Clock!Message, Devices!Message, Clock!Extend, Devices!Extend, Clock!Clock64, Devices!Clock64, Clock!LowBits,
       Devices!LowBits
<1>3. Devices!ReportsAreDated => Clock!ReportsAreDated
  BY Zenon DEF
       Clock!ReportsAreDated, Devices!ReportsAreDated
<1> QED  BY <1>1, <1>2, <1>3

\* The part that identifies a board begins, goes on and is to be as the component.
LEMMA SameSerial ==
  /\ Serial!InitSerial => Devices!InitSerial
  /\ Serial!NextSerial => Devices!NextSerial
  /\ Devices!IdentifyIsWhole => Serial!IdentifyIsWhole
  /\ Devices!WaiterIsTold => Serial!WaiterIsTold
<1>1. Serial!InitSerial => Devices!InitSerial
  BY Zenon DEF
       Serial!InitSerial, Devices!InitSerial, Serial!Greenlets, Devices!Greenlets, Serial!New, Devices!New,
       Serial!NoAnswer, Devices!NoAnswer
<1>2. Serial!NextSerial => Devices!NextSerial
  BY Zenon DEF
       Serial!NextSerial, Devices!NextSerial, Serial!connect, Devices!connect, Serial!GiveUp, Devices!GiveUp,
       Serial!Identified, Devices!Identified, Serial!disconnect, Devices!disconnect, Serial!BoardReplies,
       Devices!BoardReplies, Serial!_bg_thread, Devices!_bg_thread, Serial!Greenlets, Devices!Greenlets,
       Serial!Identify, Devices!Identify, Serial!CompletePending, Devices!CompletePending, Serial!Orphaned,
       Devices!Orphaned, Serial!Answer, Devices!Answer, Serial!NoAnswer, Devices!NoAnswer, Serial!Ask, Devices!Ask,
       Serial!Send, Devices!Send, Serial!SendFails, Devices!SendFails, Serial!TakePiece, Devices!TakePiece,
       Serial!DeleteFails, Devices!DeleteFails, Serial!NoResponse, Devices!NoResponse, Serial!Retry, Devices!Retry,
       Serial!PauseEnds, Devices!PauseEnds, Serial!Set, Devices!Set, Serial!Answered, Devices!Answered, Serial!Fits,
       Devices!Fits
<1>3. Devices!IdentifyIsWhole => Serial!IdentifyIsWhole
  BY Zenon DEF
       Serial!IdentifyIsWhole, Devices!IdentifyIsWhole
<1>4. Devices!WaiterIsTold => Serial!WaiterIsTold
  BY Zenon DEF
       Serial!WaiterIsTold, Devices!WaiterIsTold, Serial!Greenlets, Devices!Greenlets, Serial!NoAnswer,
       Devices!NoAnswer
<1> QED  BY <1>1, <1>2, <1>3, <1>4

\* The part that runs lines begins, goes on and is to be as the component.
LEMMA SameDispatch ==
  /\ Dispatch!InitDispatch => Host!InitDispatch
  /\ Dispatch!NextDispatch => Host!NextDispatch
  /\ Host!LinesInOrder => Dispatch!LinesInOrder
  /\ Host!OneAckEach => Dispatch!OneAckEach
  /\ Host!PendingIsBounded => Dispatch!PendingIsBounded
<1>1. Dispatch!InitDispatch => Host!InitDispatch
  BY Zenon DEF
       Dispatch!InitDispatch, Host!InitDispatch
<1>2. Dispatch!NextDispatch => Host!NextDispatch
  BY Zenon DEF
       Dispatch!NextDispatch, Host!NextDispatch, Dispatch!Kinds, Host!Kinds, Dispatch!HostSendsLine,
       Host!HostSendsLine, Dispatch!ProcessData, Host!ProcessData, Dispatch!ProcessEnd, Host!ProcessEnd,
       Dispatch!Processing, Host!Processing, Dispatch!RunScript, Host!RunScript, Dispatch!OtherScript,
       Host!OtherScript, Dispatch!status, Host!status, Dispatch!others, Host!others, Dispatch!counts, Host!counts,
       Dispatch!Paused, Host!Paused, Dispatch!Read, Host!Read, Dispatch!ProcessPending, Host!ProcessPending,
       Dispatch!Completed, Host!Completed, Dispatch!StopsReading, Host!StopsReading, Dispatch!input, Host!input,
       Dispatch!TakePending, Host!TakePending, Dispatch!StopProcessing, Host!StopProcessing, Dispatch!RunHandler,
       Host!RunHandler, Dispatch!ScriptReturns, Host!ScriptReturns, Dispatch!HandlerReturns, Host!HandlerReturns,
       Dispatch!Kind, Host!Kind, Dispatch!TakesAck, Host!TakesAck, Dispatch!LooksForM112, Host!LooksForM112,
       Dispatch!Urgent, Host!Urgent, Dispatch!FinishWith, Host!FinishWith, Dispatch!RestoreAck, Host!RestoreAck
<1>3. Host!LinesInOrder => Dispatch!LinesInOrder
  BY Zenon DEF
       Dispatch!LinesInOrder, Host!LinesInOrder, Dispatch!Waiting, Host!Waiting
<1>4. Host!OneAckEach => Dispatch!OneAckEach
  BY Zenon DEF
       Dispatch!OneAckEach, Host!OneAckEach
<1>5. Host!PendingIsBounded => Dispatch!PendingIsBounded
  BY Zenon DEF
       Dispatch!PendingIsBounded, Host!PendingIsBounded
<1> QED  BY <1>1, <1>2, <1>3, <1>4, <1>5

\* The part that prints begins, goes on and is to be as the component.
LEMMA SameJob ==
  /\ Job!InitJob => Host!InitJob
  /\ Job!NextJob => Host!NextJob
  /\ Host!PauseStops => Job!PauseStops
  /\ Host!LineIsAtPosition => Job!LineIsAtPosition
  /\ Host!DelayedAsAsked => Job!DelayedAsAsked
  /\ Host!IdleTimerArmed => Job!IdleTimerArmed
<1>1. Job!InitJob => Host!InitJob
  BY Zenon DEF
       Job!InitJob, Host!InitJob, Job!Actors, Host!Actors
<1>2. Job!NextJob => Host!NextJob
  BY Zenon DEF
       Job!NextJob, Host!NextJob, Job!Greenlets, Host!Greenlets, Job!Timers, Host!Timers, Job!NotePresent,
       Host!NotePresent, Job!HostSends, Host!HostSends, Job!Work, Host!Work, Job!Runout, Host!Runout, Job!Actors,
       Host!Actors, Job!TakeMutex, Host!TakeMutex, Job!RunCommand, Host!RunCommand, Job!EventDelayPasses,
       Host!EventDelayPasses, Job!ToolheadRests, Host!ToolheadRests, Job!TransitionReady, Host!TransitionReady,
       Job!TransitionIdle, Host!TransitionIdle, Job!DelayedEvent, Host!DelayedEvent, Job!GoTo, Host!GoTo, Job!sd,
       Host!sd, Job!pause, Host!pause, Job!idle, Host!idle, Job!delayed, Host!delayed, Job!Submit, Host!Submit,
       Job!sensor, Host!sensor, Job!WorkStarts, Host!WorkStarts, Job!WorkReads, Host!WorkReads, Job!WorkEnds,
       Host!WorkEnds, Job!WorkDispatches, Host!WorkDispatches, Job!RunoutEvent, Host!RunoutEvent, Job!RunoutSent,
       Host!RunoutSent, Job!RunoutScript, Host!RunoutScript, Job!SdBusy, Host!SdBusy, Job!M23, Host!M23, Job!M24,
       Host!M24, Job!M26, Host!M26, Job!M25, Host!M25, Job!M25Returns, Host!M25Returns, Job!PauseAgain,
       Host!PauseAgain, Job!PAUSE, Host!PAUSE, Job!PauseReturns, Host!PauseReturns, Job!PauseSaves, Host!PauseSaves,
       Job!ResumeNot, Host!ResumeNot, Job!RESUME, Host!RESUME, Job!ResumeMoved, Host!ResumeMoved, Job!CLEAR_PAUSE,
       Host!CLEAR_PAUSE, Job!G1, Host!G1, Job!M400, Host!M400, Job!M84Waits, Host!M84Waits, Job!WaitEnds,
       Host!WaitEnds, Job!UPDATE_DELAYED_GCODE, Host!UPDATE_DELAYED_GCODE, Job!LeaveWork, Host!LeaveWork,
       Job!SendPause, Host!SendPause, Job!Active, Host!Active, Job!MayReturn, Host!MayReturn, Job!Runs, Host!Runs,
       Job!Raise, Host!Raise, Job!Release, Host!Release, Job!RestOf, Host!RestOf, Job!StartWork, Host!StartWork,
       Job!Overtakes, Host!Overtakes, Job!AskPause, Host!AskPause, Job!Done, Host!Done, Job!SyncPrintTime,
       Host!SyncPrintTime, Job!EndScript, Host!EndScript, Job!NextCommand, Host!NextCommand, Job!LineDone,
       Host!LineDone, Job!After, Host!After, Job!EventDone, Host!EventDone, Job!IdleDone, Host!IdleDone,
       Job!DelayedDone, Host!DelayedDone
<1>3. Host!PauseStops => Job!PauseStops
  BY Zenon DEF
       Job!PauseStops, Host!PauseStops, Job!Active, Host!Active
<1>4. Host!LineIsAtPosition => Job!LineIsAtPosition
  BY Zenon DEF
       Job!LineIsAtPosition, Host!LineIsAtPosition
<1>5. Host!DelayedAsAsked => Job!DelayedAsAsked
  BY Zenon DEF
       Job!DelayedAsAsked, Host!DelayedAsAsked
<1>6. Host!IdleTimerArmed => Job!IdleTimerArmed
  BY Zenon DEF
       Job!IdleTimerArmed, Host!IdleTimerArmed
<1> QED  BY <1>1, <1>2, <1>3, <1>4, <1>5, <1>6

\* The part that keeps the commands begins, goes on and is to be as the component.
LEMMA SameTree ==
  /\ Tree!InitTree => Host!InitTree
  /\ Tree!NextTree => Host!NextTree
  /\ Host!AddedIsCalled => Tree!AddedIsCalled
  /\ Host!RunsWhatIsNamed => Tree!RunsWhatIsNamed
<1>1. Tree!InitTree => Host!InitTree
  BY Zenon DEF
       Tree!InitTree, Host!InitTree, Tree!NoObj, Host!NoObj, Tree!NoHandler, Host!NoHandler, Tree!NoIdent,
       Host!NoIdent
<1>2. Tree!NextTree => Host!NextTree
  BY Zenon DEF
       Tree!NextTree, Host!NextTree, Tree!Names, Host!Names, Tree!NoIdent, Host!NoIdent, Tree!add, Host!add,
       Tree!remove, Host!remove, Tree!Handler, Host!Handler, Tree!CanGraft, Host!CanGraft, Tree!Graft, Host!Graft,
       Tree!NoHandler, Host!NoHandler, Tree!Removed, Host!Removed, Tree!IsLeaf, Host!IsLeaf, Tree!GraftOuter,
       Host!GraftOuter, Tree!Prune, Host!Prune, Tree!GraftNamed, Host!GraftNamed, Tree!NoObj, Host!NoObj, Tree!WaysTo,
       Host!WaysTo, Tree!IndexOf, Host!IndexOf, Tree!SelectInSeq, Host!SelectInSeq, Tree!Min, Host!Min,
       Tree!ReplaceAt, Host!ReplaceAt, Tree!IsPrefix, Host!IsPrefix
<1>3. Host!AddedIsCalled => Tree!AddedIsCalled
  BY Zenon DEF
       Tree!AddedIsCalled, Host!AddedIsCalled, Tree!NoHandler, Host!NoHandler, Tree!HandlerOf, Host!HandlerOf,
       Tree!Line, Host!Line, Tree!NoIdent, Host!NoIdent, Tree!Walk, Host!Walk, Tree!NoObj, Host!NoObj, Tree!Removed,
       Host!Removed, Tree!ObjMatches, Host!ObjMatches, Tree!Descend, Host!Descend, Tree!SelectInSeq, Host!SelectInSeq,
       Tree!Min, Host!Min
<1>4. Host!RunsWhatIsNamed => Tree!RunsWhatIsNamed
  BY Zenon DEF
       Tree!RunsWhatIsNamed, Host!RunsWhatIsNamed, Tree!Names, Host!Names, Tree!NoIdent, Host!NoIdent, Tree!HandlerOf,
       Host!HandlerOf, Tree!NoHandler, Host!NoHandler, Tree!Line, Host!Line, Tree!Walk, Host!Walk, Tree!NoObj,
       Host!NoObj, Tree!Removed, Host!Removed, Tree!ObjMatches, Host!ObjMatches, Tree!Descend, Host!Descend,
       Tree!SelectInSeq, Host!SelectInSeq, Tree!Min, Host!Min
<1> QED  BY <1>1, <1>2, <1>3, <1>4

\* The part that keeps the menu begins, goes on and is to be as the component.
LEMMA SameMenu ==
  /\ Menu!InitMenu => Main!InitMenu
  /\ Menu!NextMenu => Main!NextMenu
  /\ Main!SelectedIsShown => Menu!SelectedIsShown
  /\ Main!EditIsCurrent => Menu!EditIsCurrent
  /\ Main!EnteredOnce => Menu!EnteredOnce
<1>1. Menu!InitMenu => Main!InitMenu
  BY Zenon DEF
       Menu!InitMenu, Main!InitMenu, Menu!NONE, Main!NONE
<1>2. Menu!NextMenu => Main!NextMenu
  <2>1. Menu!back <=> Main!back
    BY Zenon DEF
       Menu!back, Main!back, Menu!Editing, Main!Editing, Menu!Current, Main!Current, Menu!backToList, Main!backToList,
       Menu!ItemsAbove, Main!ItemsAbove, Menu!Rewind, Main!Rewind, Menu!NextOf, Main!NextOf, Menu!Script, Main!Script,
       Menu!Top, Main!Top, Menu!Selected, Main!Selected, Menu!NONE, Main!NONE, Menu!BackTo, Main!BackTo,
       Menu!RowAbove, Main!RowAbove, Menu!ListEditing, Main!ListEditing, Menu!Above, Main!Above, Menu!update_items,
       Main!update_items, Menu!Fits, Main!Fits, Menu!Writable, Main!Writable, Menu!find_item, Main!find_item,
       Menu!Filter, Main!Filter, Menu!IsReadonly, Main!IsReadonly, Menu!Containing, Main!Containing, Menu!IsEnabled,
       Main!IsEnabled
  <2>2. Menu!exit <=> Main!exit
    BY Zenon DEF
       Menu!exit, Main!exit, Menu!Editing, Main!Editing, Menu!Current, Main!Current, Menu!Leave, Main!Leave,
       Menu!Selected, Main!Selected, Menu!NONE, Main!NONE, Menu!Top, Main!Top, Menu!Script, Main!Script, Menu!Fits,
       Main!Fits
  <2>3. Menu!Key => Main!Key
    BY Zenon DEF
       Menu!Key, Main!Key, Menu!Bounded, Main!Bounded, Menu!Top, Main!Top
  <2>4. Menu!up => Main!up
    BY Zenon DEF
       Menu!up, Main!up, Menu!Key, Main!Key, Menu!Editing, Main!Editing, Menu!Current, Main!Current, Menu!Changed,
       Main!Changed, Menu!InTheGroup, Main!InTheGroup, Menu!PrevOf, Main!PrevOf, Menu!NONE, Main!NONE, Menu!InGroup,
       Main!InGroup, Menu!Move, Main!Move, Menu!Bounded, Main!Bounded, Menu!Top, Main!Top, Menu!Selected,
       Main!Selected, Menu!Edited, Main!Edited, Menu!Script, Main!Script, Menu!Writable, Main!Writable, Menu!Fits,
       Main!Fits, Menu!Unwound, Main!Unwound, Menu!MoveTo, Main!MoveTo, Menu!Rewind, Main!Rewind, Menu!IsReadonly,
       Main!IsReadonly
  <2>5. Menu!down => Main!down
    BY Zenon DEF
       Menu!down, Main!down, Menu!Key, Main!Key, Menu!Editing, Main!Editing, Menu!Current, Main!Current, Menu!Changed,
       Main!Changed, Menu!InTheGroup, Main!InTheGroup, Menu!NextOf, Main!NextOf, Menu!NONE, Main!NONE, Menu!InGroup,
       Main!InGroup, Menu!Move, Main!Move, Menu!Bounded, Main!Bounded, Menu!Top, Main!Top, Menu!Selected,
       Main!Selected, Menu!Edited, Main!Edited, Menu!Script, Main!Script, Menu!Writable, Main!Writable, Menu!Fits,
       Main!Fits, Menu!Unwound, Main!Unwound, Menu!MoveTo, Main!MoveTo, Menu!Rewind, Main!Rewind, Menu!IsReadonly,
       Main!IsReadonly
  <2>6. Menu!Render => Main!Render
    BY Zenon DEF
       Menu!Render, Main!Render, Menu!Top, Main!Top, Menu!NotNegative, Main!NotNegative, Menu!AtMost, Main!AtMost,
       Menu!NONE, Main!NONE
  <2>7. Menu!begin => Main!begin
    BY Zenon DEF
       Menu!begin, Main!begin, Menu!Bounded, Main!Bounded, Menu!populate_items, Main!populate_items, Menu!NONE,
       Main!NONE, Menu!Script, Main!Script, Menu!Filter, Main!Filter, Menu!IsEnabled, Main!IsEnabled
  <2>8. Menu!Timeout => Main!Timeout
    BY Zenon DEF
       Menu!Timeout, Main!Timeout, Menu!Key, Main!Key, Menu!exit, Main!exit, Menu!Bounded, Main!Bounded, Menu!Top,
       Main!Top, Menu!Editing, Main!Editing, Menu!Current, Main!Current, Menu!Leave, Main!Leave, Menu!Selected,
       Main!Selected, Menu!NONE, Main!NONE, Menu!Script, Main!Script, Menu!Fits, Main!Fits
  <2>9. Menu!Dispatch => Main!Dispatch
    BY Zenon DEF
       Menu!Dispatch, Main!Dispatch
  <2>10. \A x : Menu!stack_push(x) => Main!stack_push(x)
    BY Zenon DEF
       Menu!stack_push, Main!stack_push, Menu!ListEditing, Main!ListEditing, Menu!update_items, Main!update_items,
       Menu!Script, Main!Script, Menu!Top, Main!Top, Menu!Editing, Main!Editing, Menu!Filter, Main!Filter,
       Menu!Selected, Main!Selected, Menu!NONE, Main!NONE, Menu!IsEnabled, Main!IsEnabled, Menu!Fits, Main!Fits
  <2>11. \A x, y : Menu!SelectInput(x, y) => Main!SelectInput(x, y)
    BY Zenon DEF
       Menu!SelectInput, Main!SelectInput, Menu!NONE, Main!NONE, Menu!Script, Main!Script, Menu!IsReadonly,
       Main!IsReadonly
  <2>12. Menu!Edited = Main!Edited
    BY Zenon DEF
       Menu!Edited, Main!Edited, Menu!Current, Main!Current, Menu!Selected, Main!Selected, Menu!Top, Main!Top,
       Menu!NONE, Main!NONE, Menu!Fits, Main!Fits
  <2>13. Menu!NONE = Main!NONE
    BY Zenon DEF
       Menu!NONE, Main!NONE
  <2>14. Menu!back_callback => Main!back_callback
    BY Zenon, <2>1, <2>3 DEF Menu!back_callback, Main!back_callback
  <2>15. \A x : Menu!Command(x) => Main!Command(x)
    BY <2>1, <2>2 DEF Menu!Command, Main!Command, Menu!Script, Main!Script
  <2>16. \A x : Menu!select(x) => Main!select(x)
    BY <2>3, <2>10, <2>11, <2>12, <2>15, <2>13 DEF Menu!select, Main!select
  <2> QED  BY <2>4, <2>5, <2>6, <2>7, <2>8, <2>9, <2>14, <2>16 DEF Menu!NextMenu, Main!NextMenu
<1>3. Main!SelectedIsShown => Menu!SelectedIsShown
  BY Zenon DEF
       Menu!SelectedIsShown, Main!SelectedIsShown, Menu!Top, Main!Top, Menu!Fits, Main!Fits
<1>4. Main!EditIsCurrent => Menu!EditIsCurrent
  BY Zenon DEF
       Menu!EditIsCurrent, Main!EditIsCurrent, Menu!NONE, Main!NONE, Menu!Edited, Main!Edited, Menu!Current,
       Main!Current, Menu!Selected, Main!Selected, Menu!Top, Main!Top, Menu!Fits, Main!Fits
<1>5. Main!EnteredOnce => Menu!EnteredOnce
  BY Zenon DEF
       Menu!EnteredOnce, Main!EnteredOnce
<1> QED  BY <1>1, <1>2, <1>3, <1>4, <1>5

\* The part that configures a board begins, goes on and is to be as the component.
LEMMA SameMcu ==
  /\ Mcu!InitMcu => Main!InitMcu
  /\ Mcu!NextMcu => Main!NextMcu
  /\ Main!RunsOwnConfig => Mcu!RunsOwnConfig
  /\ Main!CommandsFit => Mcu!CommandsFit
  /\ Main!RestartsOnce => Mcu!RestartsOnce
  /\ Main!FaultIsTold => Mcu!FaultIsTold
<1>1. Mcu!InitMcu => Main!InitMcu
  BY Zenon DEF
       Mcu!InitMcu, Main!InitMcu, Mcu!NewMcu, Main!NewMcu, Mcu!Blank, Main!Blank, Mcu!None, Main!None
<1>2. Mcu!NextMcu => Main!NextMcu
  BY Zenon DEF
       Mcu!NextMcu, Main!NextMcu, Mcu!MakePart, Main!MakePart, Mcu!WriteEarly, Main!WriteEarly, Mcu!Write, Main!Write,
       Mcu!Identify, Main!Identify, Mcu!Connect, Main!Connect, Mcu!AskAgain, Main!AskAgain, Mcu!GiveUp, Main!GiveUp,
       Mcu!Receive, Main!Receive, Mcu!PrinterStops, Main!PrinterStops, Mcu!EmergencyStop, Main!EmergencyStop,
       Mcu!Restart, Main!Restart, Mcu!RestartMcu, Main!RestartMcu, Mcu!BoardTakes, Main!BoardTakes, Mcu!BoardStops,
       Main!BoardStops, Mcu!BoardResets, Main!BoardResets, Mcu!ReportLost, Main!ReportLost, Mcu!MakeDigital,
       Main!MakeDigital, Mcu!MakeAnalog, Main!MakeAnalog, Mcu!MakeQueued, Main!MakeQueued, Mcu!MakeI2c, Main!MakeI2c,
       Mcu!MakeSpi, Main!MakeSpi, Mcu!Cmd, Main!Cmd, Mcu!update_digital_out, Main!update_digital_out, Mcu!i2c_write,
       Main!i2c_write, Mcu!spi_send, Main!spi_send, Mcu!Ask, Main!Ask, Mcu!Unanswered, Main!Unanswered, Mcu!Fail,
       Main!Fail, Mcu!Answered, Main!Answered, Mcu!Shutdown, Main!Shutdown, Mcu!Starting, Main!Starting,
       Mcu!call_shutdown, Main!call_shutdown, Mcu!StartHost, Main!StartHost, Mcu!Partly, Main!Partly, Mcu!Blank,
       Main!Blank, Mcu!Refuses, Main!Refuses, Mcu!sched_shutdown, Main!sched_shutdown, Mcu!Done, Main!Done, Mcu!Says,
       Main!Says, Mcu!Report, Main!Report, Mcu!Reported, Main!Reported, Mcu!Part, Main!Part, Mcu!Configure,
       Main!Configure, Mcu!create_oid, Main!create_oid, Mcu!None, Main!None, Mcu!CheckRestart, Main!CheckRestart,
       Mcu!SendConfig, Main!SendConfig, Mcu!NewMcu, Main!NewMcu, Mcu!Byte, Main!Byte, Mcu!Build, Main!Build,
       Mcu!ConfigMessages, Main!ConfigMessages, Mcu!BuildPart, Main!BuildPart, Mcu!BuildDigital, Main!BuildDigital,
       Mcu!BuildAnalog, Main!BuildAnalog, Mcu!BuildI2c, Main!BuildI2c, Mcu!BuildSpi, Main!BuildSpi
<1>3. Main!RunsOwnConfig => Mcu!RunsOwnConfig
  BY Zenon DEF
       Mcu!RunsOwnConfig, Main!RunsOwnConfig
<1>4. Main!CommandsFit => Mcu!CommandsFit
  BY Zenon DEF
       Mcu!CommandsFit, Main!CommandsFit
<1>5. Main!RestartsOnce => Mcu!RestartsOnce
  BY Zenon DEF
       Mcu!RestartsOnce, Main!RestartsOnce
<1>6. Main!FaultIsTold => Mcu!FaultIsTold
  BY Zenon DEF
       Mcu!FaultIsTold, Main!FaultIsTold, Mcu!Reported, Main!Reported
<1> QED  BY <1>1, <1>2, <1>3, <1>4, <1>5, <1>6

\* The part that claims the pins begins, goes on and is to be as the component.
LEMMA SamePins ==
  /\ Mcu!InitPins => Main!InitPins
  /\ Mcu!NextPins => Main!NextPins
  /\ Main!ReservedUntouched => Mcu!ReservedUntouched
<1>1. Mcu!InitPins => Main!InitPins
  BY Zenon DEF
       Mcu!InitPins, Main!InitPins, Mcu!Empty, Main!Empty
<1>2. Mcu!NextPins => Main!NextPins
  BY Zenon DEF
       Mcu!NextPins, Main!NextPins, Mcu!pin_register, Main!pin_register, Mcu!pin_reserve, Main!pin_reserve, Mcu!Fixup,
       Main!Fixup, Mcu!Compatible, Main!Compatible, Mcu!Params, Main!Params, Mcu!Add, Main!Add, Mcu!IsReserved,
       Main!IsReserved, Mcu!Rename, Main!Rename, Mcu!PinOf, Main!PinOf, Mcu!Cardinality, Main!Cardinality
<1>3. Main!ReservedUntouched => Mcu!ReservedUntouched
  BY Zenon DEF
       Mcu!ReservedUntouched, Main!ReservedUntouched
<1> QED  BY <1>1, <1>2, <1>3

\* The part that takes the buttons begins, goes on and is to be as the component.
LEMMA SameButtons ==
  /\ Buttons!InitButtons => Devices!InitButtons
  /\ Buttons!NextButtons => Devices!NextButtons
  /\ Devices!HandledOnce => Buttons!HandledOnce
  /\ Devices!ScriptsAreRun => Buttons!ScriptsAreRun
  /\ Devices!EncoderCounts => Buttons!EncoderCounts
<1>1. Buttons!InitButtons => Devices!InitButtons
  BY Zenon DEF
       Buttons!InitButtons, Devices!InitButtons
<1>2. Buttons!NextButtons => Devices!NextButtons
  BY Zenon DEF
       Buttons!NextButtons, Devices!NextButtons, Buttons!NextBoard, Devices!NextBoard, Buttons!encoder,
       Devices!encoder, Buttons!adc, Devices!adc, Buttons!encoder_callback, Devices!encoder_callback,
       Buttons!buttons_vars, Devices!buttons_vars, Buttons!adc_callback, Devices!adc_callback, Buttons!Press,
       Devices!Press, Buttons!Transmit, Devices!Transmit, Buttons!Acknowledged, Devices!Acknowledged,
       Buttons!handle_buttons_state, Devices!handle_buttons_state, Buttons!handle_button, Devices!handle_button,
       Buttons!ScriptRan, Devices!ScriptRan, Buttons!NewEncoderState, Devices!NewEncoderState, Buttons!Pins,
       Devices!Pins, Buttons!reports, Devices!reports, Buttons!scripts, Devices!scripts, Buttons!NewCount,
       Devices!NewCount, Buttons!QueueTemplate, Devices!QueueTemplate, Buttons!ENCODER_STATES, Devices!ENCODER_STATES,
       Buttons!MsgAckCount, Devices!MsgAckCount, Buttons!CW, Devices!CW, Buttons!CCW, Devices!CCW
<1>3. Devices!HandledOnce => Buttons!HandledOnce
  BY Zenon DEF
       Buttons!HandledOnce, Devices!HandledOnce, Buttons!IsPrefix, Devices!IsPrefix
<1>4. Devices!ScriptsAreRun => Buttons!ScriptsAreRun
  BY Zenon DEF
       Buttons!ScriptsAreRun, Devices!ScriptsAreRun
<1>5. Devices!EncoderCounts => Buttons!EncoderCounts
  BY Zenon DEF
       Buttons!EncoderCounts, Devices!EncoderCounts
<1> QED  BY <1>1, <1>2, <1>3, <1>4, <1>5

-----------------------------------------------------------------------------
(* The machine                                                               *)

(* An axis that counts as homed is where the host thinks it is, but for a    *)
(* refused hop, and homing leaves the heaters as the user asked (G28 and     *)
(* home_rails).                                                              *)
THEOREM HomedAlwaysReal == SpecMachine => []HomedIsReal
<1>1. Host!InitHoming /\ [][Host!NextHoming]_Host!homing_vars => [](Host!HomedIsRealButHop /\ Host!HeatersRestored)
  <2>1. 3 \in Nat /\ 1 \in Int
    OBVIOUS
  <2> QED  BY <2>1, Host!HomedAlwaysReal DEF Host!SpecHoming
<1>2. InitMachine => Host!InitHoming
  BY SameHoming DEF InitMachine
<1>3. [NextMachine]_<<part, widthVars, displayVars, outputsVars, toolheadVars, lookaheadVars, homingVars, endstopVars, heatVars, fanVars, tmcVars>> => [Host!NextHoming]_Host!homing_vars
  BY SameHoming DEF NextMachine,
       FilamentStep, DisplayStep, OutsStep, ToolheadStep, LookAheadStep, HomingStep, EndstopStep, HeatStep, FanStep,
       TmcStep, homingVars, Host!homing_vars
<1>4. Host!HomedIsRealButHop /\ Host!HeatersRestored => Homing!HomedIsRealButHop /\ Homing!HeatersRestored
  BY SameHoming
<1>5. Homing!HomedIsRealButHop /\ Homing!HeatersRestored => HomedIsReal
  BY DEF HomedIsReal
<1> QED  BY <1>1, <1>2, <1>3, <1>4, <1>5, PTL DEF SpecMachine

(* Homing succeeds exactly if the endstop triggered during this very homing  *)
(* (MCU_endstop).                                                            *)
THEOREM ResultAlwaysTrue == SpecMachine => []ResultIsTrue
<1>1. Host!InitEndstop /\ [][Host!NextEndstop]_Host!endstop_vars => [](Host!ResultIsTrue)
  <2>1. 2 \in Nat /\ 3 \in Nat /\ 1000 \in Nat /\ 1 < 1000
    OBVIOUS
  <2> QED  BY <2>1, Host!HomingIsTrue DEF Host!SpecEndstop
<1>2. InitMachine => Host!InitEndstop
  BY SameEndstop DEF InitMachine
<1>3. [NextMachine]_<<part, widthVars, displayVars, outputsVars, toolheadVars, lookaheadVars, homingVars, endstopVars, heatVars, fanVars, tmcVars>> => [Host!NextEndstop]_Host!endstop_vars
  BY SameEndstop DEF NextMachine,
       FilamentStep, DisplayStep, OutsStep, ToolheadStep, LookAheadStep, HomingStep, EndstopStep, HeatStep, FanStep,
       TmcStep, endstopVars, Host!endstop_vars
<1>4. Host!ResultIsTrue => Homing!ResultIsTrue
  BY SameEndstop
<1>5. Homing!ResultIsTrue => ResultIsTrue
  BY DEF ResultIsTrue
<1> QED  BY <1>1, <1>2, <1>3, <1>4, <1>5, PTL DEF SpecMachine

(* The toolhead is ahead of the board, its timer is due in time, moves begin *)
(* where no steps have been generated and a drip move sends few steps ahead  *)
(* (_process_moves, _flush_handler, _update_drip_move_time); each move       *)
(* begins at the speed at which the one before it ends (LookAheadQueue).     *)
THEOREM TimeAlwaysKept == SpecMachine => []MovesInTime
<1>1. Devices!InitToolhead /\ [][Devices!NextToolhead]_Devices!toolhead_vars => [](Devices!MainIsAhead /\ Devices!QueuedIsFlushed /\ Devices!BeginsUngenerated /\ Devices!DripIsShort)
  <2>1. Devices!ToolheadAssumed
    BY DEF Devices!ToolheadAssumed, Devices!NEVER
  <2> QED  BY <2>1, Devices!MovesAlwaysInTime DEF Devices!SpecToolhead
<1>2. InitMachine => Devices!InitToolhead
  BY SameToolhead DEF InitMachine
<1>3. [NextMachine]_<<part, widthVars, displayVars, outputsVars, toolheadVars, lookaheadVars, homingVars, endstopVars, heatVars, fanVars, tmcVars>> => [Devices!NextToolhead]_Devices!toolhead_vars
  BY SameToolhead DEF NextMachine,
       FilamentStep, DisplayStep, OutsStep, ToolheadStep, LookAheadStep, HomingStep, EndstopStep, HeatStep, FanStep,
       TmcStep, toolheadVars, Devices!toolhead_vars
<1>4. Devices!MainIsAhead /\ Devices!QueuedIsFlushed /\ Devices!BeginsUngenerated /\ Devices!DripIsShort => Toolhead!MainIsAhead /\ Toolhead!QueuedIsFlushed /\ Toolhead!BeginsUngenerated /\ Toolhead!DripIsShort
  BY SameToolhead
<1>5. Devices!InitLookAhead /\ [][Devices!NextLookAhead]_Devices!lookahead_vars => [](Devices!JunctionsMeet)
  <2>1. Devices!LookAheadAssumed
    BY DEF Devices!LookAheadAssumed, LookAheadMoves, LookAheadMove
  <2> QED  BY <2>1, Devices!SpeedsAlwaysMeet DEF Devices!SpecLookAhead
<1>6. InitMachine => Devices!InitLookAhead
  BY SameLookAhead DEF InitMachine
<1>7. [NextMachine]_<<part, widthVars, displayVars, outputsVars, toolheadVars, lookaheadVars, homingVars, endstopVars, heatVars, fanVars, tmcVars>> => [Devices!NextLookAhead]_Devices!lookahead_vars
  BY SameLookAhead DEF NextMachine,
       FilamentStep, DisplayStep, OutsStep, ToolheadStep, LookAheadStep, HomingStep, EndstopStep, HeatStep, FanStep,
       TmcStep, lookaheadVars, Devices!lookahead_vars
<1>8. Devices!JunctionsMeet => Toolhead!JunctionsMeet
  BY SameLookAhead
<1>9. Toolhead!MainIsAhead /\ Toolhead!QueuedIsFlushed /\ Toolhead!BeginsUngenerated /\ Toolhead!DripIsShort /\ Toolhead!JunctionsMeet => MovesInTime
  BY DEF MovesInTime
<1> QED  BY <1>1, <1>2, <1>3, <1>4, <1>5, <1>6, <1>7, <1>8, <1>9, PTL DEF SpecMachine

(* A heater that is on is repeated before its board gives up, one without a  *)
(* target gets no power, and one that does not warm up is noticed (heater.py *)
(* and verify_heater.py).                                                    *)
THEOREM HeatAlwaysSafe == SpecMachine => []HeatIsSafe
<1>1. Devices!InitHeat /\ [][Devices!NextHeat]_Devices!heat_vars => [](Devices!RepeatedInTime /\ Devices!NoTargetIsOff /\ Devices!StuckIsNoticed)
  <2>1. Devices!HeatAssumed
    BY DEF Devices!HeatAssumed
  <2> QED  BY <2>1, Devices!HeatAlwaysSafe
<1>2. InitMachine => Devices!InitHeat
  BY SameHeat DEF InitMachine
<1>3. [NextMachine]_<<part, widthVars, displayVars, outputsVars, toolheadVars, lookaheadVars, homingVars, endstopVars, heatVars, fanVars, tmcVars>> => [Devices!NextHeat]_Devices!heat_vars
  BY SameHeat DEF NextMachine,
       FilamentStep, DisplayStep, OutsStep, ToolheadStep, LookAheadStep, HomingStep, EndstopStep, HeatStep, FanStep,
       TmcStep, heatVars, Devices!heat_vars
<1>4. Devices!RepeatedInTime /\ Devices!NoTargetIsOff /\ Devices!StuckIsNoticed => Heat!RepeatedInTime /\ Heat!NoTargetIsOff /\ Heat!StuckIsNoticed
  BY SameHeat
<1>5. Heat!RepeatedInTime /\ Heat!NoTargetIsOff /\ Heat!StuckIsNoticed => HeatIsSafe
  BY DEF HeatIsSafe
<1> QED  BY <1>1, <1>2, <1>3, <1>4, <1>5, PTL DEF SpecMachine

-----------------------------------------------------------------------------
(* The links                                                                 *)

(* What a board reports is dated right until its silence is noticed          *)
(* (_serial_handle_clock, clock32_to_clock64).                               *)
THEOREM ReportsAlwaysDated == SpecLinks => []ReportsAreDated
<1>1. Devices!InitClock /\ [][Devices!NextClock]_Devices!clock_vars => [](Devices!ReportsAreDated)
  <2>1. 32 \in Nat /\ 2 \in Nat /\ 1 \in Nat /\ {28} \in SUBSET Nat /\ 2 * 2 + 1 + 8 <= 32 \div 2
    OBVIOUS
  <2> QED  BY <2>1, Devices!ReportsAlwaysDated
<1>2. InitLinks => Devices!InitClock
  BY SameClock DEF InitLinks
<1>3. [NextLinks]_<<side, serialVars, mcuVars, pinsVars, clockVars, dispatchVars>> => [Devices!NextClock]_Devices!clock_vars
  BY SameClock DEF NextLinks,
       SerialStep, McuStep, PinsStep, ClockStep, DispatchStep, clockVars, Devices!clock_vars
<1>4. Devices!ReportsAreDated => Clock!ReportsAreDated
  BY SameClock
<1>5. Clock!ReportsAreDated => ReportsAreDated
  BY DEF ReportsAreDated
<1> QED  BY <1>1, <1>2, <1>3, <1>4, <1>5, PTL DEF SpecLinks

(* A board that is connected has its dictionary whole, and a greenlet that   *)
(* waits for an acknowledgement is told (_get_identify_data, _bg_thread).    *)
THEOREM IdentifyAlwaysWhole == SpecLinks => []IdentifyIsWhole
<1>1. Devices!InitSerial /\ [][Devices!NextSerial]_Devices!serial_vars => [](Devices!IdentifyIsWhole /\ Devices!WaiterIsTold)
  <2>1. Devices!SerialAssumed
    BY DEF Devices!SerialAssumed
  <2> QED  BY <2>1, Devices!IdentifyAlwaysWhole
<1>2. InitLinks => Devices!InitSerial
  BY SameSerial DEF InitLinks
<1>3. [NextLinks]_<<side, serialVars, mcuVars, pinsVars, clockVars, dispatchVars>> => [Devices!NextSerial]_Devices!serial_vars
  BY SameSerial DEF NextLinks,
       SerialStep, McuStep, PinsStep, ClockStep, DispatchStep, serialVars, Devices!serial_vars
<1>4. Devices!IdentifyIsWhole /\ Devices!WaiterIsTold => Serial!IdentifyIsWhole /\ Serial!WaiterIsTold
  BY SameSerial
<1>5. Serial!IdentifyIsWhole /\ Serial!WaiterIsTold => IdentifyIsWhole
  BY DEF IdentifyIsWhole
<1> QED  BY <1>1, <1>2, <1>3, <1>4, <1>5, PTL DEF SpecLinks

(* A board that is taken for configured has the configuration of this very   *)
(* host, whose commands fit together; one that was shut down does not stay   *)
(* so unnoticed, and none is configured to use a pin it keeps for itself     *)
(* (_send_config, _event_handle_connect and _command_fixup of controller.py). *)
THEOREM BoardAlwaysAgrees == SpecLinks => []BoardAgrees
<1>1. Main!InitMcu /\ [][Main!NextMcu]_Main!mcu_vars => [](Main!RunsOwnConfig /\ Main!CommandsFit /\ Main!RestartsOnce /\ Main!FaultIsTold)
  <2>1. Main!BoardsAssumed
    BY DEF Main!BoardsAssumed, Main!PartKinds
  <2> QED  BY <2>1, Main!BoardAlwaysConfigured DEF Main!SpecMcu
<1>2. InitLinks => Main!InitMcu
  BY SameMcu DEF InitLinks
<1>3. [NextLinks]_<<side, serialVars, mcuVars, pinsVars, clockVars, dispatchVars>> => [Main!NextMcu]_Main!mcu_vars
  BY SameMcu DEF NextLinks,
       SerialStep, McuStep, PinsStep, ClockStep, DispatchStep, mcuVars, Main!mcu_vars
<1>4. Main!RunsOwnConfig /\ Main!CommandsFit /\ Main!RestartsOnce /\ Main!FaultIsTold => Mcu!RunsOwnConfig /\ Mcu!CommandsFit /\ Mcu!RestartsOnce /\ Mcu!FaultIsTold
  BY SameMcu
<1>5. Main!InitPins /\ [][Main!NextPins]_Main!pins_vars => [](Main!ReservedUntouched)
  <2>1. Main!PinsAssumed
    BY DEF Main!PinsAssumed
  <2> QED  BY <2>1, Main!ReservedAlwaysUntouched DEF Main!SpecPins
<1>6. InitLinks => Main!InitPins
  BY SamePins DEF InitLinks
<1>7. [NextLinks]_<<side, serialVars, mcuVars, pinsVars, clockVars, dispatchVars>> => [Main!NextPins]_Main!pins_vars
  BY SamePins DEF NextLinks,
       SerialStep, McuStep, PinsStep, ClockStep, DispatchStep, pinsVars, Main!pins_vars
<1>8. Main!ReservedUntouched => Mcu!ReservedUntouched
  BY SamePins
<1>9. Mcu!RunsOwnConfig /\ Mcu!CommandsFit /\ Mcu!RestartsOnce /\ Mcu!FaultIsTold /\ Mcu!ReservedUntouched => BoardAgrees
  BY DEF BoardAgrees
<1> QED  BY <1>1, <1>2, <1>3, <1>4, <1>5, <1>6, <1>7, <1>8, <1>9, PTL DEF SpecLinks

(* Lines are run once and in order, each is answered once, and what is       *)
(* pending stays bounded (_process_data, _process_commands).                 *)
THEOREM LinesAlwaysInOrder == SpecLinks => []LinesInOrder
<1>1. Host!InitDispatch /\ [][Host!NextDispatch]_Host!dispatch_vars => [](Host!LinesInOrder /\ Host!OneAckEach /\ Host!PendingIsBounded)
  <2>1. 2 \in Nat \ {0} /\ 3 \in Nat \ {0} /\ 4 \in Nat
    OBVIOUS
  <2> QED  BY <2>1, Host!LinesAreKept
<1>2. InitLinks => Host!InitDispatch
  BY SameDispatch DEF InitLinks
<1>3. [NextLinks]_<<side, serialVars, mcuVars, pinsVars, clockVars, dispatchVars>> => [Host!NextDispatch]_Host!dispatch_vars
  BY SameDispatch DEF NextLinks,
       SerialStep, McuStep, PinsStep, ClockStep, DispatchStep, dispatchVars, Host!dispatch_vars, Host!input,
       Host!status, Host!others, Host!counts
<1>4. Host!LinesInOrder /\ Host!OneAckEach /\ Host!PendingIsBounded => Dispatch!LinesInOrder /\ Dispatch!OneAckEach /\ Dispatch!PendingIsBounded
  BY SameDispatch
<1>5. Dispatch!LinesInOrder /\ Dispatch!OneAckEach /\ Dispatch!PendingIsBounded => LinesInOrder
  BY DEF LinesInOrder
<1> QED  BY <1>1, <1>2, <1>3, <1>4, <1>5, PTL DEF SpecLinks

-----------------------------------------------------------------------------
(* The print jobs and the buttons                                            *)

(* A paused card sends nothing more and goes on at file_position, a delayed  *)
(* script waits just when it was last told to, and a printer that is not     *)
(* idle has its timeout armed (virtual_sdcard.py, pause_resume.py,           *)
(* delayed_gcode.py, idle_timeout.py).                                       *)
THEOREM JobAlwaysKept == SpecCommands => []JobIsKept
<1>1. Host!InitJob /\ [][Host!NextJob]_Host!job_vars => [](Host!PauseStops /\ Host!LineIsAtPosition /\ Host!DelayedAsAsked /\ Host!IdleTimerArmed)
  <2>1. Host!JobAssumed
    BY DEF Host!JobAssumed, Host!JobNames
  <2> QED  BY <2>1, Host!JobAlwaysKept
<1>2. InitCommands => Host!InitJob
  BY SameJob DEF InitCommands
<1>3. [NextCommands]_<<task, jobVars, treeVars, menuVars, buttonsVars>> => [Host!NextJob]_Host!job_vars
  BY SameJob DEF NextCommands,
       JobStep, TreeStep, MenuStep, ButtonsStep, jobVars, Host!job_vars, Host!sd, Host!pause, Host!sensor, Host!idle,
       Host!delayed
<1>4. Host!PauseStops /\ Host!LineIsAtPosition /\ Host!DelayedAsAsked /\ Host!IdleTimerArmed => Job!PauseStops /\ Job!LineIsAtPosition /\ Job!DelayedAsAsked /\ Job!IdleTimerArmed
  BY SameJob
<1>5. Job!PauseStops /\ Job!LineIsAtPosition /\ Job!DelayedAsAsked /\ Job!IdleTimerArmed => JobIsKept
  BY DEF JobIsKept
<1> QED  BY <1>1, <1>2, <1>3, <1>4, <1>5, PTL DEF SpecCommands

(* The line of a command runs the command it names, the one added last and   *)
(* no other, whatever was added and removed before (commander.py).           *)
THEOREM NamedAlwaysRun == SpecCommands => []RunsWhatIsNamed
<1>1. Host!InitTree /\ [][Host!NextTree]_Host!tree_vars => [](Host!AddedIsCalled /\ Host!RunsWhatIsNamed)
  <2>1. Host!TreeAssumed
    BY DEF Host!TreeAssumed, Host!NoIdent
  <2> QED  BY <2>1, Host!TreeRunsNamed DEF Host!SpecTree
<1>2. InitCommands => Host!InitTree
  BY SameTree DEF InitCommands
<1>3. [NextCommands]_<<task, jobVars, treeVars, menuVars, buttonsVars>> => [Host!NextTree]_Host!tree_vars
  BY SameTree DEF NextCommands,
       JobStep, TreeStep, MenuStep, ButtonsStep, treeVars, Host!tree_vars
<1>4. Host!AddedIsCalled /\ Host!RunsWhatIsNamed => Tree!AddedIsCalled /\ Tree!RunsWhatIsNamed
  BY SameTree
<1>5. Tree!AddedIsCalled /\ Tree!RunsWhatIsNamed => RunsWhatIsNamed
  BY DEF RunsWhatIsNamed
<1> QED  BY <1>1, <1>2, <1>3, <1>4, <1>5, PTL DEF SpecCommands

(* Each report of the buttons is handled once and in order, their scripts    *)
(* are run, and the encoder makes a call for each turn (buttons.py).         *)
THEOREM KeysAlwaysCount == SpecCommands => []KeysCount
<1>1. Devices!InitButtons /\ [][Devices!NextButtons]_<<keys, Devices!buttons_vars, Devices!encoder, Devices!adc>> => [](Devices!HandledOnce /\ Devices!ScriptsAreRun /\ Devices!EncoderCounts)
  <2>1. Devices!ButtonsAssumed
    BY DEF Devices!ButtonsAssumed
  <2> QED  BY <2>1, Devices!KeysAlwaysCount DEF Devices!SpecButtons
<1>2. InitCommands => Devices!InitButtons
  BY SameButtons DEF InitCommands
<1>3. [NextCommands]_<<task, jobVars, treeVars, menuVars, buttonsVars>> => [Devices!NextButtons]_<<keys, Devices!buttons_vars, Devices!encoder, Devices!adc>>
  BY SameButtons DEF NextCommands,
       JobStep, TreeStep, MenuStep, ButtonsStep, buttonsVars, Devices!buttons_vars, Devices!reports, Devices!scripts,
       Devices!encoder, Devices!adc
<1>4. Devices!HandledOnce /\ Devices!ScriptsAreRun /\ Devices!EncoderCounts => Buttons!HandledOnce /\ Buttons!ScriptsAreRun /\ Buttons!EncoderCounts
  BY SameButtons
<1>5. Buttons!HandledOnce /\ Buttons!ScriptsAreRun /\ Buttons!EncoderCounts => KeysCount
  BY DEF KeysCount
<1> QED  BY <1>1, <1>2, <1>3, <1>4, <1>5, PTL DEF SpecCommands

(* The selected row is on the screen, only the selected item is edited, and  *)
(* the scripts of the lists run in turn (menu.py).                           *)
THEOREM EditAlwaysCurrent == SpecCommands => []EditIsCurrent
<1>1. Main!InitMenu /\ [][Main!NextMenu]_Main!menu_vars => [](Main!SelectedIsShown /\ Main!EditIsCurrent /\ Main!EnteredOnce)
  <2>1. Main!MenuAssumed
    BY DEF Main!MenuAssumed, Main!MenuItems, MenuKids, MenuAction
  <2> QED  BY <2>1, Main!MenuStaysCurrent
<1>2. InitCommands => Main!InitMenu
  BY SameMenu DEF InitCommands
<1>3. [NextCommands]_<<task, jobVars, treeVars, menuVars, buttonsVars>> => [Main!NextMenu]_Main!menu_vars
  BY SameMenu DEF NextCommands,
       JobStep, TreeStep, MenuStep, ButtonsStep, menuVars, Main!menu_vars
<1>4. Main!SelectedIsShown /\ Main!EditIsCurrent /\ Main!EnteredOnce => Menu!SelectedIsShown /\ Menu!EditIsCurrent /\ Menu!EnteredOnce
  BY SameMenu
<1>5. Menu!SelectedIsShown /\ Menu!EditIsCurrent /\ Menu!EnteredOnce => EditIsCurrent
  BY DEF EditIsCurrent
<1> QED  BY <1>1, <1>2, <1>3, <1>4, <1>5, PTL DEF SpecCommands

=============================================================================
