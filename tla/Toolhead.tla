------------------------------ MODULE Toolhead ------------------------------
(* The toolhead and its move queue.  The look-ahead of the queue settles the *)
(* speeds at which moves join, as squares: a flush goes over the queue from  *)
(* its last move to its first; a lazy one keeps the last moves back, as what *)
(* comes next may change them.                                               *)
(*                                                                           *)
(* The print time of the toolhead: moves wait in the look-ahead queue, are   *)
(* given a time when they leave it, and a timer flushes the queue before the *)
(* board runs out of steps.  A command may pause while it is too far ahead,  *)
(* and the timer runs meanwhile.  Times are in ticks of the board's clock.   *)
(* The count of stalls, which is only reported, is left out.  The state      *)
(* "Main" is the empty string in the code.                                   *)
(*                                                                           *)
(* Neither looks at what the other keeps of a move.                          *)
EXTENDS Integers, Sequences

CONSTANTS
  Moves,      \* the moves that may be added, see calc_junction
  Corners,    \* the speeds corners allow; 0 for moves that only extrude
  MaxMoves,   \* bound: moves in the queue
  BufferLow, BufferHigh, BufferStart, MinKinTime, PrimeTime, StallDelay,
  DripSegment, DripTime,
  ScanTimes,    \* the scan times step generation may ask for
  MoveTimes,    \* the times a move may take
  Late,         \* bound: how late the reactor runs what is due
  MaxQueue,     \* bound: moves in the look-ahead queue
  MaxTime       \* bound: time

NEVER == 1000

VARIABLES
  moves,      \* the moves not yet processed
  flushed,    \* the junctions of the moves the last flush processed
  entry,      \* the end speed of the moves processed before
  now,       \* the board's time as the host estimates it
  th,        \* what the toolhead keeps, see Init
  gcode,     \* what the running command does
  can_pause

lookahead_vars == <<moves, flushed, entry>>
toolhead_vars == <<now, th, gcode, can_pause>>

-----------------------------------------------------------------------------
(* The look-ahead *)
Least(S) == CHOOSE x \in S : \A y \in S : x <= y

-----------------------------------------------------------------------------
(* Move: what calc_junction makes of a move behind another. *)
calc_junction(move, prev, corner) ==
  LET start == Least({corner, move.cruise, prev.cruise, prev.max_start + prev.delta})
  IN  [move EXCEPT !.max_start = start,
                   !.max_smoothed = Least({start, prev.max_smoothed + prev.smooth_delta})]

Junction(start, cruise, end) == [start |-> start, cruise |-> cruise, end |-> end]

-----------------------------------------------------------------------------
(* flush: p is what the loop has gathered from the moves behind.             *)
Stopped(lazy, q) ==
  [next_end |-> 0, next_smoothed |-> 0, peak |-> 0, delayed |-> <<>>,
   update |-> lazy, count |-> Len(q), junctions |-> [i \in DOMAIN q |-> Junction(0, 0, 0)]]

Start(move, p) == Least({move.max_start, p.next_end + move.delta})
ReachableSmoothed(move, p) == p.next_smoothed + move.smooth_delta
Smoothed(move, p) == Least({move.max_smoothed, ReachableSmoothed(move, p)})

(* The moves that were delayed get the peak speed found, nearest first. *)
Give(acc, d) ==
  LET mc == Least({acc.mc, d.start})
  IN  [mc |-> mc, junctions |-> [acc.junctions EXCEPT ![d.index] =
         Junction(Least({d.start, mc}), mc, Least({d.end, mc}))]]

Propagate(p, peak) ==
  LET last == Len(p.delayed)
      given[k \in 0 .. last] ==
        IF k = 0 THEN [mc |-> peak, junctions |-> p.junctions] ELSE Give(given[k - 1], p.delayed[last + 1 - k])
  IN  given[last].junctions

CutsHere(move, p) ==     \* a lazy flush ends before the peak found before this one
  p.update /\ p.peak > 0

Accelerates(move, p) == Smoothed(move, p) + move.smooth_delta > p.next_smoothed \/ p.delayed # <<>>

AtPeak(move, p, i) ==
  LET count == IF CutsHere(move, p) THEN i - 1 ELSE p.count
      update == p.update /\ ~CutsHere(move, p)
      peak == Least({move.cruise, (Smoothed(move, p) + ReachableSmoothed(move, p)) \div 2})
  IN  [p EXCEPT !.count = count, !.update = update, !.peak = peak, !.delayed = <<>>,
                !.junctions = IF ~update /\ i <= count THEN Propagate(p, peak) ELSE @]

Cruise(move, p, i) ==
  LET reachable == p.next_end + move.delta
      cruise == Least({(Start(move, p) + reachable) \div 2, move.cruise, p.peak})
  IN  IF p.update \/ i > p.count THEN p
      ELSE [p EXCEPT !.junctions[i] =
              Junction(Least({Start(move, p), cruise}), cruise, Least({p.next_end, cruise}))]

Visit(move, p, i) ==
  LET q == IF Smoothed(move, p) < ReachableSmoothed(move, p)
           THEN Cruise(move, IF Accelerates(move, p) THEN AtPeak(move, p, i) ELSE p, i)
           ELSE [p EXCEPT !.delayed = Append(@, [index |-> i, start |-> Start(move, p), end |-> p.next_end])]
  IN  [q EXCEPT !.next_end = Start(move, p), !.next_smoothed = Smoothed(move, p)]

Pass(q, lazy) ==
  LET from[i \in 1 .. Len(q) + 1] ==
        IF i > Len(q) THEN Stopped(lazy, q) ELSE Visit(q[i], from[i + 1], i)
  IN  from[1]

\* The speed at which the moves end that were processed.
LastEnd == IF flushed = <<>> THEN 0 ELSE flushed[Len(flushed)].end

flush(q, lazy) ==
  LET p == Pass(q, lazy)
      count == IF p.update THEN 0 ELSE p.count
  IN  IF count = 0 THEN moves' = q /\ UNCHANGED <<flushed, entry>>
      ELSE /\ moves' = SubSeq(q, count + 1, Len(q))
           /\ flushed' = SubSeq(p.junctions, 1, count)
           /\ entry' = LastEnd

-----------------------------------------------------------------------------
(* add_move; the queue is flushed lazily after enough moves. *)
add_move(move, corner) ==
  /\ Len(moves) < MaxMoves
  /\ LET added == IF moves = <<>> THEN move ELSE calc_junction(move, moves[Len(moves)], corner)
         q == Append(moves, added)
     IN  \/ moves' = q /\ UNCHANGED <<flushed, entry>>
         \/ Len(q) > 1 /\ flush(q, TRUE)

FlushAll == moves # <<>> /\ flush(moves, FALSE)

InitLookAhead == moves = <<>> /\ flushed = <<>> /\ entry = 0

NextLookAhead == FlushAll \/ \E move \in Moves, corner \in Corners : add_move(move, corner)

SpecLookAhead == InitLookAhead /\ [][NextLookAhead]_lookahead_vars

-----------------------------------------------------------------------------
(* Every move starts at the speed at which the one before it ends, when they *)
(* were processed by different flushes, too, and the head stands still when  *)
(* the queue is empty.                                                       *)
JunctionsMeet ==
  /\ flushed # <<>> => flushed[1].start = entry
  /\ \A i \in 1 .. Len(flushed) - 1 : flushed[i].end = flushed[i + 1].start
  /\ moves = <<>> => LastEnd = 0

-----------------------------------------------------------------------------
(* The print time *)
Later(a, b) == IF a > b THEN a ELSE b
Sooner(a, b) == IF a < b THEN a ELSE b
Total(times) ==
  LET sum[k \in 0 .. Len(times)] == IF k = 0 THEN 0 ELSE sum[k - 1] + times[k]
  IN  sum[Len(times)]

-----------------------------------------------------------------------------
(* What the methods make of the toolhead s; none of these pauses.            *)

(* Steps are generated up to the scan time before the moves end. *)
UpdateMoveTime(s, next) ==
  [s EXCEPT !.print_time = next,
            !.generated = Later(@, Later(s.kin_flush, next - s.kin_delay)),
            !.raised = @ /\ s.generated > next - s.kin_delay]

CalcPrintTime(s) ==
  LET kin == Later(now + MinKinTime, s.kin_flush) + s.kin_delay
  IN  [s EXCEPT !.print_time = Later(@, Later(now + BufferStart, kin))]

(* From Flushed or Priming to the main state, and a new print time. *)
Resync(s) ==
  IF s.state = "Main" THEN s
  ELSE CalcPrintTime(IF s.state = "Drip" THEN s
                     ELSE [s EXCEPT !.state = "Main", !.need_check_stall = -1, !.flush_timer = now])

(* The moves get their times.  began, room and raised are kept to state what *)
(* must hold: raised, the scan time grew behind a dwell.                    *)
Begin(s) == [s EXCEPT !.room = s.raised \/ s.generated <= s.print_time - s.kin_delay]

ProcessMoves(s, count) ==
  IF count = 0 THEN s ELSE
  LET b == Begin(Resync(s))
      next == b.print_time + Total(SubSeq(b.queue, 1, count))
  IN  [UpdateMoveTime(b, next) EXCEPT !.kin_move = next, !.queue = SubSeq(@, count + 1, Len(@))]

Flush(s) == ProcessMoves(s, Len(s.queue))

FlushStepGeneration(s) ==
  LET f == Flush(s)
      kin == Later(f.kin_flush, f.kin_move + f.kin_delay)
      g == [f EXCEPT !.state = "Flushed", !.need_check_stall = -1, !.flush_timer = NEVER, !.kin_flush = kin]
  IN  UpdateMoveTime(g, Later(g.print_time, kin))

FlushLookahead(s) == IF s.state # "Main" THEN FlushStepGeneration(s) ELSE Flush(s)

GetLastMoveTime(s) ==
  LET f == FlushLookahead(s) IN IF f.state # "Main" THEN CalcPrintTime(f) ELSE f

(* The first part of _check_stall. *)
Prime(s) ==
  IF s.state = "Main" THEN s
  ELSE [s EXCEPT !.state = "Priming", !.need_check_stall = -1, !.flush_timer = now + PrimeTime]

StallTime(s) == s.print_time - now - BufferHigh

DeferStall(s) ==
  IF s.state = "Main" THEN [s EXCEPT !.need_check_stall = now + BufferHigh + StallDelay] ELSE s

-----------------------------------------------------------------------------
(* Commands.  gcode is idle, or tells what the command waits for.            *)
(* After a shutdown the printer takes no commands.                           *)
Idle == [at |-> "idle", wake |-> NEVER, from |-> 0, until |-> 0]
Wait(place, wake) == [at |-> place, wake |-> wake, from |-> 0, until |-> 0]

(* _check_stall, from its loop on. *)
Stall(s) ==
  IF StallTime(s) <= 0 THEN th' = DeferStall(s) /\ gcode' = Idle
  ELSE IF ~can_pause THEN th' = [s EXCEPT !.need_check_stall = NEVER] /\ gcode' = Idle
  ELSE th' = s /\ gcode' = Wait("stall", now + StallTime(s))

CheckStall(s) == Stall(Prime(s))

StallOver ==
  /\ gcode.at = "stall" /\ now >= gcode.wake
  /\ Stall(th)
  /\ UNCHANGED <<now, can_pause>>

(* add_move flushes lazily: some of the first moves, or none, are processed. *)
move(time) ==
  /\ gcode.at = "idle" /\ Len(th.queue) < MaxQueue
  /\ \E count \in 0 .. Len(th.queue) :
       LET s == ProcessMoves([th EXCEPT !.queue = Append(@, time)], count)
       IN  IF s.print_time > s.need_check_stall THEN CheckStall(s) ELSE th' = s /\ gcode' = Idle
  /\ UNCHANGED <<now, can_pause>>

dwell(delay) ==
  /\ gcode.at = "idle"
  /\ LET s == GetLastMoveTime(th) IN CheckStall(UpdateMoveTime(s, s.print_time + delay))
  /\ UNCHANGED <<now, can_pause>>

MovesUnderWay(s) == s.state = "Main" \/ s.print_time >= now

WaitOn(s) ==
  /\ th' = s
  /\ gcode' = IF MovesUnderWay(s) /\ can_pause THEN Wait("wait", now + 1) ELSE Idle

wait_moves == gcode.at = "idle" /\ WaitOn(FlushLookahead(th)) /\ UNCHANGED <<now, can_pause>>
WaitOver == gcode.at = "wait" /\ now >= gcode.wake /\ WaitOn(th) /\ UNCHANGED <<now, can_pause>>

note_step_generation_scan_time(delay) ==
  /\ gcode.at = "idle" /\ delay # th.kin_delay
  /\ LET s == FlushStepGeneration(th)
     IN  th' = [s EXCEPT !.kin_delay = delay,
                         !.raised = @ \/ (delay > s.kin_delay /\ s.print_time > s.kin_flush)]
  /\ UNCHANGED <<now, gcode, can_pause>>

-----------------------------------------------------------------------------
(* The drip move of homing: steps are sent a little at a time, so that few   *)
(* are under way when the endstop triggers.                                  *)
FlushDelayHigh(s) == BufferHigh + s.kin_delay

FlushDelay(s) == DripTime + s.kin_delay

DripStart(s, time) ==
  Begin(CalcPrintTime([Flush(s) EXCEPT !.state = "Drip", !.need_check_stall = NEVER,
                                       !.flush_timer = NEVER, !.queue = <<time>>]))

drip_move(time) ==
  /\ gcode.at = "idle"
  /\ th' = DripStart(th, time)
  /\ gcode' = [at |-> "drip", wake |-> now, from |-> th'.print_time, until |-> th'.print_time + time]
  /\ UNCHANGED <<now, can_pause>>

DripAhead(s) == s.print_time - now - FlushDelay(s)

DripSegmentSent ==
  /\ gcode.at = "drip" /\ now >= gcode.wake /\ th.print_time < gcode.until
  /\ IF DripAhead(th) > 0 /\ can_pause
     THEN gcode' = [gcode EXCEPT !.wake = now + DripAhead(th)] /\ UNCHANGED th
     ELSE /\ th' = UpdateMoveTime(th, Sooner(th.print_time + DripSegment, gcode.until))
          /\ gcode' = [gcode EXCEPT !.wake = now]
  /\ UNCHANGED <<now, can_pause>>

DripDone ==
  /\ gcode.at = "drip" /\ th.print_time >= gcode.until
  /\ th' = FlushStepGeneration([th EXCEPT !.kin_move = gcode.until, !.queue = <<>>])
  /\ gcode' = Idle
  /\ UNCHANGED <<now, can_pause>>

(* The endstop ends the wait and the move: the rest of it is dropped. *)
DripEnds ==
  /\ gcode.at = "drip" /\ th.print_time < gcode.until
  /\ th' = FlushStepGeneration([th EXCEPT !.queue = <<>>])
  /\ gcode' = Idle
  /\ UNCHANGED <<now, can_pause>>

-----------------------------------------------------------------------------
FlushHandlerOnce ==
  /\ now >= th.flush_timer
  /\ th' = IF th.print_time - now > BufferLow THEN [th EXCEPT !.flush_timer = NEVER]
           ELSE FlushStepGeneration(th)
  /\ UNCHANGED <<now, gcode, can_pause>>

FlushHandler ==
  /\ now >= th.flush_timer
  /\ th' = IF th.print_time - now > BufferLow
           THEN [th EXCEPT !.flush_timer = th.print_time - BufferLow]
           ELSE FlushStepGeneration(th)
  /\ UNCHANGED <<now, gcode, can_pause>>

HandleShutdown ==
  /\ can_pause /\ can_pause' = FALSE
  /\ th' = [th EXCEPT !.queue = <<>>]
  /\ UNCHANGED <<now, gcode>>

ClockTick ==
  /\ now < MaxTime
  /\ now < th.flush_timer + Late /\ now < gcode.wake + Late
  /\ now' = now + 1
  /\ UNCHANGED <<th, gcode, can_pause>>

-----------------------------------------------------------------------------
InitToolhead ==
  /\ now = 0 /\ can_pause = TRUE /\ gcode = Idle
  /\ th = [print_time |-> 0, state |-> "Flushed", need_check_stall |-> -1, flush_timer |-> NEVER,
           kin_delay |-> 0, kin_flush |-> 0, kin_move |-> 0,
           queue |-> <<>>, generated |-> 0, room |-> TRUE, raised |-> FALSE]

NextToolhead ==
  \/ can_pause /\ \E time \in MoveTimes : move(time) \/ dwell(time) \/ drip_move(time)
  \/ can_pause /\ \E delay \in ScanTimes : note_step_generation_scan_time(delay)
  \/ can_pause /\ wait_moves
  \/ StallOver \/ WaitOver \/ DripSegmentSent \/ DripDone \/ DripEnds
  \/ FlushHandler \/ HandleShutdown \/ ClockTick

SpecToolhead == InitToolhead /\ [][NextToolhead]_toolhead_vars

-----------------------------------------------------------------------------
(* In the main state the board has steps to come, and the timer that flushes *)
(* the queue is due before it runs out of them, even while a command pauses. *)
MainIsAhead == th.state = "Main" => now < th.print_time /\ th.flush_timer < th.print_time

(* A move that waits in the queue has a timer that flushes it in time.       *)
QueuedIsFlushed ==
  th.queue # <<>> /\ gcode.at # "drip" => th.flush_timer <= Later(th.print_time, now + PrimeTime)

(* When moves begin, no steps have been generated for the time around their  *)
(* start that step generation looks at, unless the scan time was raised      *)
(* behind a dwell.                                                           *)
BeginsUngenerated == th.room

(* In a drip move, few steps are under way beyond where it began.            *)
DripIsShort ==
  gcode.at = "drip" /\ can_pause /\ th.print_time > gcode.from =>
    th.print_time - now <= DripTime + th.kin_delay + DripSegment

=============================================================================
