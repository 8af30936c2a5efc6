----------------------------- MODULE HostProofs -----------------------------
(***************************************************************************)
(* Five protocols of the host: homing the axes, what a homing learns of    *)
(* its endstop whatever the line loses, what the dispatcher runs, answers  *)
(* and keeps pending, the print jobs of the card, and which handler the    *)
(* line of a command runs.                                                 *)
(***************************************************************************)
EXTENDS Homing, Dispatch, PrintJob, CommandTree, TLAPS, SequenceTheorems, FiniteSetTheorems,
  WellFoundedInduction

-----------------------------------------------------------------------------
(* Homing the axes                                                         *)

\* The steps that follow the first of a G28 drive, or home another axis.
Waits == {"wait first", "wait second"}
Busy == Waits \cup {"retract"}
Later == {"home", "goto", "lift"}
Steps == [do : Busy \cup Later \cup {"hop"}, axis : Axes]
Temps == Targets \cup {0}

HomingTyped ==
  /\ pos \in [Axes -> Int] /\ real \in [Axes -> 0 .. PosMax] /\ homed \in SUBSET Axes
  /\ todo \in Seq(Steps) /\ \A i \in 2 .. Len(todo) : todo[i].do \in Later
  /\ switch \in [Axes -> {"ok", "stuck", "dead"}]
  /\ heater \in [target : Temps, save : Temps, wanted : Temps]

\* The axis that is homed just now, of which pos says nothing
IsHoming(axis) == todo # <<>> /\ todo[1].do \in Busy /\ todo[1].axis = axis
PosIsReal == \A axis \in homed : IsHoming(axis) \/ pos[axis] = real[axis]

\* While an axis moves to its endstop the target is kept aside.
TargetIsKept ==
  heater.wanted = IF todo # <<>> /\ todo[1].do \in Waits THEN heater.save ELSE heater.target

HomingInv == HomingTyped /\ (hop_failed \/ PosIsReal) /\ TargetIsKept

LEMMA ClipFacts ==
  ASSUME PosMax \in Nat, NEW p \in Int
  PROVE  Clip(p) \in 0 .. PosMax /\ (p \in 0 .. PosMax => Clip(p) = p) /\ (p <= 0 => Clip(p) = 0)
BY DEF Clip

\* A drive within the limits takes an axis where the host says.
LEMMA DriveFacts ==
  ASSUME PosMax \in Nat, HomingTyped, NEW axis \in Axes, NEW target \in Int, Drive(axis, target)
  PROVE  /\ pos' \in [Axes -> Int] /\ real' \in [Axes -> 0 .. PosMax]
         /\ \A other \in Axes \ {axis} : pos'[other] = pos[other] /\ real'[other] = real[other]
         /\ pos'[axis] = target
         /\ target \in 0 .. PosMax /\ pos[axis] = real[axis] => real'[axis] = target
<1>1. pos[axis] \in Int /\ real[axis] \in 0 .. PosMax /\ real[axis] + target - pos[axis] \in Int
  BY DEF HomingTyped
<1>2. Clip(real[axis] + target - pos[axis]) \in 0 .. PosMax
  BY <1>1, ClipFacts
<1>3. pos' = [pos EXCEPT ![axis] = target]
      /\ real' = [real EXCEPT ![axis] = Clip(real[axis] + target - pos[axis])]
  BY DEF Drive
<1>4. target \in 0 .. PosMax /\ pos[axis] = real[axis] => Clip(real[axis] + target - pos[axis]) = target
  BY <1>1, ClipFacts
<1> QED
  BY <1>1, <1>2, <1>3, <1>4 DEF HomingTyped

\* What is left of a plan
LEMMA PlanFacts ==
  ASSUME HomingTyped, todo # <<>>
  PROVE  /\ todo[1] \in Steps
         /\ Tail(todo) \in Seq(Steps) /\ \A i \in 1 .. Len(Tail(todo)) : Tail(todo)[i].do \in Later
         /\ \A s \in Steps :
              LET plan == <<s>> \o Tail(todo)
              IN  plan \in Seq(Steps) /\ plan # <<>> /\ plan[1] = s /\ \A i \in 2 .. Len(plan) : plan[i].do \in Later
<1>1. todo \in Seq(Steps) /\ Len(todo) \in Nat \ {0} /\ \A i \in 2 .. Len(todo) : todo[i].do \in Later
  BY DEF HomingTyped
<1> HIDE DEF Steps, Later
<1>2. todo[1] \in Steps /\ Tail(todo) \in Seq(Steps) /\ Len(Tail(todo)) = Len(todo) - 1
  BY <1>1
<1>3. \A i \in 1 .. Len(Tail(todo)) : Tail(todo)[i] = todo[i + 1]
  BY <1>1
<1>4. ASSUME NEW s \in Steps
      PROVE  LET plan == <<s>> \o Tail(todo)
             IN  plan \in Seq(Steps) /\ plan # <<>> /\ plan[1] = s /\ \A i \in 2 .. Len(plan) : plan[i].do \in Later
  <2> DEFINE plan == <<s>> \o Tail(todo)
  <2>1. plan \in Seq(Steps) /\ Len(plan) = Len(todo) /\ plan[1] = s
    BY <1>1, <1>2
  <2>2. \A i \in 2 .. Len(plan) : plan[i] = todo[i]
    BY <1>1, <1>2, <1>3
  <2> QED
    BY <1>1, <2>1, <2>2
<1> QED
  BY <1>1, <1>2, <1>3, <1>4

LEMMA HomingTypes ==
  ASSUME HomingTyped, NEW axis \in Axes
  PROVE  /\ pos[axis] \in Int /\ real[axis] \in 0 .. PosMax /\ switch[axis] \in {"ok", "stuck", "dead"}
         /\ heater.target \in Temps /\ heater.save \in Temps /\ heater.wanted \in Temps
BY DEF HomingTyped

\* What the move to an endstop does to the axis and to the heater
LEMMA MoveFacts ==
  ASSUME PosMax \in Nat, HomingTyped, NEW axis \in Axes, NEW distance \in Int, HomingMove(axis, distance)
  PROVE  /\ pos' \in [Axes -> Int] /\ real' \in [Axes -> 0 .. PosMax]
         /\ \A other \in Axes \ {axis} : pos'[other] = pos[other] /\ real'[other] = real[other]
         /\ pos'[axis] = 0 /\ real'[axis] = Reached(axis, distance)
         /\ heater' \in [target : Temps, save : Temps, wanted : Temps]
         /\ heater'.target = heater.save /\ heater'.wanted = heater.wanted
         /\ Triggers(axis, distance) => Reached(axis, distance) \in {0, real[axis]}
<1>1. real[axis] \in 0 .. PosMax /\ switch[axis] \in {"ok", "stuck", "dead"}
  BY HomingTypes
<1>2. Clip(real[axis] - distance) \in 0 .. PosMax
  BY <1>1, ClipFacts
<1>3. Reached(axis, distance) \in 0 .. PosMax
  BY <1>1, <1>2 DEF Reached
<1>4. Triggers(axis, distance) => Reached(axis, distance) \in {0, real[axis]}
  BY <1>1, ClipFacts DEF Triggers, Reached
<1>5. heater' = [heater EXCEPT !.target = heater.save]
  BY DEF HomingMove, End
<1>6. pos' = [pos EXCEPT ![axis] = 0] /\ real' = [real EXCEPT ![axis] = Reached(axis, distance)]
  BY DEF HomingMove
<1>7. heater' \in [target : Temps, save : Temps, wanted : Temps]
      /\ heater'.target = heater.save /\ heater'.wanted = heater.wanted
  BY <1>5, HomingTypes DEF HomingTyped
<1>8. /\ pos' \in [Axes -> Int] /\ real' \in [Axes -> 0 .. PosMax]
      /\ \A other \in Axes \ {axis} : pos'[other] = pos[other] /\ real'[other] = real[other]
      /\ pos'[axis] = 0 /\ real'[axis] = Reached(axis, distance)
  BY <1>3, <1>6 DEF HomingTyped
<1> QED
  BY <1>4, <1>7, <1>8

\* A step of the G28 that ends, goes on or is replaced by the next of its axis
Follows(step) ==
  \/ todo' = <<>>
  \/ todo' = Tail(todo)
  \/ \E s \in Steps : todo' = <<s>> \o Tail(todo) /\ s.axis = step.axis /\ s.do \in Busy

LEMMA FollowFacts ==
  ASSUME HomingTyped, todo # <<>>, Follows(todo[1])
  PROVE  /\ todo' \in Seq(Steps) /\ \A i \in 2 .. Len(todo') : todo'[i].do \in Later
         /\ todo' \in {<<>>, Tail(todo)} => \A axis \in Axes : ~IsHoming(axis)'
         /\ todo' \in {<<>>, Tail(todo)} => ~(todo' # <<>> /\ todo'[1].do \in Waits)
<1>1. CASE todo' = <<>>
  <2>1. todo' \in Seq(Steps) /\ Len(todo') = 0
    BY <1>1
  <2> QED
    BY <1>1, <2>1 DEF IsHoming
<1>2. CASE todo' = Tail(todo)
  <2>1. todo' \in Seq(Steps) /\ \A i \in 1 .. Len(todo') : todo'[i].do \in Later
    BY <1>2, PlanFacts
  <2>2. todo' # <<>> => todo'[1].do \in Later
    BY <2>1
  <2>3. todo' # <<>> => todo'[1].do \notin Busy
    BY <2>2 DEF Later, Busy, Waits
  <2>4. \A axis \in Axes : ~IsHoming(axis)'
    BY <2>3 DEF IsHoming
  <2> QED
    BY <2>1, <2>3, <2>4 DEF Busy
<1>3. CASE \E s \in Steps : todo' = <<s>> \o Tail(todo) /\ s.axis = todo[1].axis /\ s.do \in Busy
  <2>1. PICK s \in Steps : todo' = <<s>> \o Tail(todo) /\ s.axis = todo[1].axis /\ s.do \in Busy
    BY <1>3
  <2>2. todo' \in Seq(Steps) /\ todo' # <<>> /\ todo'[1] = s /\ \A i \in 2 .. Len(todo') : todo'[i].do \in Later
    BY <2>1, PlanFacts
  <2>3. CASE todo' = <<>>
    BY <2>2, <2>3
  <2>4. CASE todo' = Tail(todo)
    BY <1>2, <2>4
  <2> QED
    BY <2>2, <2>3, <2>4 
<1> QED
  BY <1>1, <1>2, <1>3 DEF Follows

LEMMA HopKeeps ==
  ASSUME PosMax \in Nat, Hop \in Int, HomingInv, todo # <<>>, todo[1].do = "hop", HopZ, UNCHANGED <<switch, faults>>
  PROVE  HomingInv'
<1> DEFINE target == pos["z"] + Hop
<1>1. HomingTyped /\ TargetIsKept /\ "z" \in Axes /\ target \in Int
  BY HomingTypes DEF HomingInv, Axes
<1>2. \A axis \in Axes : ~IsHoming(axis)
  BY DEF IsHoming, Busy, Waits
<1>3. todo' \in {<<>>, Tail(todo)}
  BY DEF HopZ
<1>4. /\ todo' \in Seq(Steps) /\ \A i \in 2 .. Len(todo') : todo'[i].do \in Later
      /\ \A axis \in Axes : ~IsHoming(axis)'
      /\ ~(todo' # <<>> /\ todo'[1].do \in Waits)
  BY <1>1, <1>3, FollowFacts DEF Follows
<1>5. UNCHANGED heater
  BY DEF HopZ
<1>6. TargetIsKept'
  BY <1>1, <1>4, <1>5 DEF TargetIsKept, Waits
<1>7. CASE UNCHANGED <<pos, real>>
  <2>1. (homed' = homed /\ hop_failed' = hop_failed) \/ (homed' = homed \cup {"z"} /\ hop_failed' = TRUE)
    BY DEF HopZ
  <2>2. HomingTyped'
    BY <1>1, <1>4, <1>5, <1>7, <2>1 DEF HomingTyped
  <2>3. hop_failed' \/ PosIsReal'
    <3>1. CASE homed' = homed /\ hop_failed' = hop_failed
      <4>1. homed \in SUBSET Axes
        BY <1>1 DEF HomingTyped
      <4> QED
        BY <1>2, <1>7, <3>1, <4>1 DEF HomingInv, PosIsReal
    <3> QED
      BY <2>1, <3>1
  <2> QED
    BY <1>6, <2>2, <2>3 DEF HomingInv
<1>8. CASE Drive("z", target) /\ UNCHANGED <<homed, hop_failed>> /\ ("z" \in homed => target <= PosMax /\ pos["z"] < Hop)
  <2>1. /\ pos' \in [Axes -> Int] /\ real' \in [Axes -> 0 .. PosMax]
        /\ \A other \in Axes \ {"z"} : pos'[other] = pos[other] /\ real'[other] = real[other]
        /\ pos'["z"] = target
        /\ target \in 0 .. PosMax /\ pos["z"] = real["z"] => real'["z"] = target
    BY <1>1, <1>8, DriveFacts
  <2>2. HomingTyped'
    BY <1>1, <1>4, <1>5, <1>8, <2>1 DEF HomingTyped
  <2>3. ASSUME ~hop_failed', NEW axis \in homed'
        PROVE  pos'[axis] = real'[axis]
    <3>1. axis \in homed /\ axis \in Axes /\ pos[axis] = real[axis]
      BY <1>1, <1>2, <1>8, <2>3 DEF HomingInv, PosIsReal, HomingTyped
    <3>2. CASE axis = "z"
      <4>1. pos["z"] \in 0 .. PosMax
        BY <1>1, <3>1, <3>2, HomingTypes
      <4>2. target \in 0 .. PosMax
        BY <1>1, <1>8, <3>1, <3>2, <4>1
      <4> QED
        BY <2>1, <3>1, <3>2, <4>2
    <3>3. CASE axis # "z"
      BY <2>1, <3>1, <3>3
    <3> QED
      BY <3>2, <3>3
  <2> QED
    BY <1>6, <2>2, <2>3 DEF HomingInv, PosIsReal
<1> QED
  BY <1>7, <1>8 DEF HopZ

LEMMA HomeFirstKeeps ==
  ASSUME PosMax \in Nat, HomingInv, todo # <<>>, NEW axis \in Axes, axis = todo[1].axis,
         todo[1].do = "home", HomeFirst(axis), UNCHANGED <<switch, faults, hop_failed>>
  PROVE  HomingInv'
<1> DEFINE next == Step("wait first", axis)
<1>1. HomingTyped /\ todo[1] \in Steps
  BY PlanFacts DEF HomingInv
<1>2. next \in Steps /\ next.axis = axis /\ next.do = "wait first"
  BY <1>1 DEF Steps, Step, Busy, Waits
<1>11. ForceDistance \in Int
  BY DEF ForceDistance
<1>3. todo' = <<next>> \o Tail(todo)
  BY DEF HomeFirst
<1> HIDE DEF next
<1>4. todo' \in Seq(Steps) /\ todo' # <<>> /\ todo'[1] = next /\ \A i \in 2 .. Len(todo') : todo'[i].do \in Later
  BY <1>1, <1>2, <1>3, PlanFacts
<1>5. heater' = [heater EXCEPT !.save = heater.target, !.target = 0]
  BY DEF HomeFirst, Begin
<1>6. heater' \in [target : Temps, save : Temps, wanted : Temps]
      /\ heater'.save = heater.target /\ heater'.wanted = heater.wanted
  BY <1>1, <1>2, <1>5, HomingTypes DEF HomingTyped, Temps
<1>7. homed' = homed \cup {axis} /\ pos' = [pos EXCEPT ![axis] = ForceDistance] /\ UNCHANGED real
  BY DEF HomeFirst
<1>8. HomingTyped'
  BY <1>1, <1>2, <1>4, <1>6, <1>7, <1>11 DEF HomingTyped
<1>9. hop_failed' \/ PosIsReal'
  <2>1. IsHoming(axis)'
    BY <1>2, <1>4 DEF IsHoming, Busy, Waits
  <2>2. \A other \in Axes : ~IsHoming(other)
    BY DEF IsHoming, Busy, Waits
  <2>3. \A other \in Axes \ {axis} : pos'[other] = pos[other]
    BY <1>1, <1>7 DEF HomingTyped
  <2>4. ASSUME ~hop_failed', NEW other \in homed', ~IsHoming(other)'
        PROVE  pos'[other] = real'[other]
    <3>1. other # axis /\ other \in homed /\ other \in Axes
      BY <1>1, <1>7, <2>1, <2>4 DEF HomingTyped
    <3>2. pos[other] = real[other]
      BY <2>2, <2>4, <3>1 DEF HomingInv, PosIsReal
    <3> QED
      BY <1>7, <2>3, <3>1, <3>2
  <2> QED
    BY <2>4 DEF PosIsReal
<1>10. TargetIsKept'
  BY <1>2, <1>4, <1>6 DEF HomingInv, TargetIsKept, Waits
<1> QED
  BY <1>8, <1>9, <1>10 DEF HomingInv

\* A step at the endstop: the axis has moved to it, and homing goes on, ends
\* where the axis is 0, or fails and switches the motors off.
LEMMA AtEndstopKeeps ==
  ASSUME PosMax \in Nat, HomingInv, todo # <<>>, NEW axis \in Axes, axis = todo[1].axis, todo[1].do \in Waits,
         NEW distance \in Int, HomingMove(axis, distance), Follows(todo[1]), UNCHANGED <<switch, faults, hop_failed>>,
         \/ homed' = {} /\ todo' = <<>>
         \/ homed' = homed /\ todo' \in {<<>>, Tail(todo)} /\ Reached(axis, distance) = 0
         \/ homed' = homed /\ IsHoming(axis)' /\ todo'[1].do \notin Waits
  PROVE  HomingInv'
<1>1. HomingTyped /\ TargetIsKept
  BY DEF HomingInv
<1>2. /\ pos' \in [Axes -> Int] /\ real' \in [Axes -> 0 .. PosMax]
      /\ \A other \in Axes \ {axis} : pos'[other] = pos[other] /\ real'[other] = real[other]
      /\ pos'[axis] = 0 /\ real'[axis] = Reached(axis, distance)
      /\ heater' \in [target : Temps, save : Temps, wanted : Temps]
      /\ heater'.target = heater.save /\ heater'.wanted = heater.wanted
  BY <1>1, MoveFacts
<1>3. /\ todo' \in Seq(Steps) /\ \A i \in 2 .. Len(todo') : todo'[i].do \in Later
      /\ todo' \in {<<>>, Tail(todo)} => ~(todo' # <<>> /\ todo'[1].do \in Waits)
  BY <1>1, FollowFacts
<1>4. homed' \in SUBSET Axes
  BY <1>1 DEF HomingTyped
<1>5. HomingTyped'
  BY <1>1, <1>2, <1>3, <1>4 DEF HomingTyped
<1>6. TargetIsKept'
  <2>1. ~(todo' # <<>> /\ todo'[1].do \in Waits)
    BY <1>3
  <2>2. heater.wanted = heater.save
    BY <1>1 DEF TargetIsKept
  <2> QED
    BY <1>2, <2>1, <2>2 DEF TargetIsKept
<1>7. ASSUME ~hop_failed', NEW other \in homed', ~IsHoming(other)'
      PROVE  pos'[other] = real'[other]
  <2>1. other \in homed /\ other \in Axes /\ homed' # {}
    BY <1>4, <1>7
  <2>2. CASE other = axis
    BY <1>2, <1>7, <2>1, <2>2
  <2>3. CASE other # axis
    <3>1. ~IsHoming(other)
      BY <2>3 DEF IsHoming
    <3>2. pos[other] = real[other]
      BY <1>7, <2>1, <3>1 DEF HomingInv, PosIsReal
    <3> QED
      BY <1>2, <2>1, <2>3, <3>2
  <2> QED
    BY <2>2, <2>3
<1> QED
  BY <1>5, <1>6, <1>7 DEF HomingInv, PosIsReal

LEMMA DistanceFacts ==
  ASSUME PosMax \in Nat, Retract \in Int
  PROVE  ForceDistance \in Int /\ 2 * Retract \in Int
BY DEF ForceDistance

LEMMA WaitsKeep ==
  ASSUME PosMax \in Nat, Retract \in Int, HomingInv, todo # <<>>, NEW axis \in Axes, axis = todo[1].axis,
         \/ todo[1].do = "wait first" /\ WaitFirst(axis)
         \/ todo[1].do = "wait second" /\ WaitSecond(axis),
         UNCHANGED <<switch, faults, hop_failed>>
  PROVE  HomingInv'
<1>1. CASE todo[1].do = "wait first" /\ WaitFirst(axis)
  <2> DEFINE next == Step("retract", axis)
  <2>1. next \in Steps /\ next.axis = axis /\ next.do = "retract"
    BY DEF Steps, Step, Busy, Waits
  <2>2. ForceDistance \in Int
    BY DistanceFacts
  <2> HIDE DEF next
  <2>3. HomingMove(axis, ForceDistance)
    BY <1>1 DEF WaitFirst
  <2>4. CASE todo' = <<next>> \o Tail(todo) /\ UNCHANGED homed
    <3>1. Follows(todo[1])
      BY <2>1, <2>4 DEF Follows, Busy
    <3>2. todo' # <<>> /\ todo'[1] = next
      BY <2>1, <2>4, PlanFacts DEF HomingInv
    <3>3. IsHoming(axis)' /\ todo'[1].do \notin Waits
      BY <2>1, <3>2 DEF IsHoming, Busy, Waits
    <3> QED
      BY <1>1, <2>2, <2>3, <2>4, <3>1, <3>3, AtEndstopKeeps DEF Waits
  <2>5. CASE HomingError
    BY <1>1, <2>2, <2>3, <2>5, AtEndstopKeeps DEF Follows, HomingError, MotorsOff, Waits
  <2> QED
    BY <1>1, <2>4, <2>5 DEF WaitFirst, next
<1>2. CASE todo[1].do = "wait second" /\ WaitSecond(axis)
  <2>1. HomingMove(axis, 2 * Retract)
    BY <1>2 DEF WaitSecond
  <2>4. 2 * Retract \in Int
    BY DistanceFacts
  <2>2. CASE Triggers(axis, 2 * Retract) /\ Moved(axis) /\ todo' = Tail(todo) /\ UNCHANGED homed
    <3>1. Reached(axis, 2 * Retract) = 0
      BY <2>1, <2>2, <2>4, MoveFacts DEF Moved, HomingInv
    <3> QED
      BY <1>2, <2>1, <2>2, <2>4, <3>1, AtEndstopKeeps DEF Follows, Waits
  <2>3. CASE HomingError
    BY <1>2, <2>1, <2>3, <2>4, AtEndstopKeeps DEF Follows, HomingError, MotorsOff, Waits
  <2> QED
    BY <1>2, <2>2, <2>3 DEF WaitSecond
<1> QED
  BY <1>1, <1>2

LEMMA RetractsKeep ==
  ASSUME PosMax \in Nat, Retract \in Int, HomingInv, todo # <<>>, NEW axis \in Axes, axis = todo[1].axis,
         todo[1].do = "retract", Retracts(axis), UNCHANGED <<switch, faults, hop_failed>>
  PROVE  HomingInv'
<1> DEFINE next == Step("wait second", axis)
<1>1. HomingTyped /\ TargetIsKept /\ next \in Steps /\ next.axis = axis /\ next.do = "wait second"
  BY DEF HomingInv, Steps, Step, Busy, Waits
<1>2. Drive(axis, Retract) /\ homed' = homed /\ todo' = <<next>> \o Tail(todo)
      /\ heater' = [heater EXCEPT !.save = heater.target, !.target = 0]
  BY DEF Retracts, Begin
<1> HIDE DEF next
<1>3. todo' \in Seq(Steps) /\ todo' # <<>> /\ todo'[1] = next /\ \A i \in 2 .. Len(todo') : todo'[i].do \in Later
  BY <1>1, <1>2, PlanFacts
<1>4. /\ pos' \in [Axes -> Int] /\ real' \in [Axes -> 0 .. PosMax]
      /\ \A other \in Axes \ {axis} : pos'[other] = pos[other] /\ real'[other] = real[other]
  BY <1>1, <1>2, DriveFacts
<1>5. heater' \in [target : Temps, save : Temps, wanted : Temps]
      /\ heater'.save = heater.target /\ heater'.wanted = heater.wanted
  BY <1>1, <1>2, HomingTypes DEF HomingTyped, Temps
<1>6. HomingTyped'
  BY <1>1, <1>2, <1>3, <1>4, <1>5 DEF HomingTyped
<1>7. TargetIsKept'
  BY <1>1, <1>3, <1>5 DEF TargetIsKept, Waits
<1>8. ASSUME ~hop_failed', NEW other \in homed', ~IsHoming(other)'
      PROVE  pos'[other] = real'[other]
  <2>1. other \in homed /\ other \in Axes
    BY <1>1, <1>2, <1>8 DEF HomingTyped
  <2>2. other # axis
    BY <1>1, <1>3, <1>8 DEF IsHoming, Busy, Waits
  <2>3. ~IsHoming(other)
    BY <2>2 DEF IsHoming
  <2>4. pos[other] = real[other]
    BY <1>8, <2>1, <2>3 DEF HomingInv, PosIsReal
  <2> QED
    BY <1>4, <2>1, <2>2, <2>4
<1> QED
  BY <1>6, <1>7, <1>8 DEF HomingInv, PosIsReal

\* Ordinary moves and errors: no axis is being homed, before or after.
LEMMA DrivesKeep ==
  ASSUME PosMax \in Nat, HomingInv, \A axis \in Axes : ~IsHoming(axis) /\ ~IsHoming(axis)',
         ~(todo # <<>> /\ todo[1].do \in Waits), ~(todo' # <<>> /\ todo'[1].do \in Waits),
         todo' \in Seq(Steps), \A i \in 2 .. Len(todo') : todo'[i].do \in Later,
         NEW axis \in Axes, NEW target \in Int,
         UNCHANGED <<pos, real>> \/ (Allowed(axis, target) /\ Drive(axis, target)),
         UNCHANGED <<homed, switch, heater, faults, hop_failed>>
  PROVE  HomingInv'
<1>1. HomingTyped /\ TargetIsKept
  BY DEF HomingInv
<1>2. TargetIsKept'
  BY <1>1 DEF TargetIsKept
<1>3. CASE UNCHANGED <<pos, real>>
  <2>1. HomingTyped'
    BY <1>1, <1>3 DEF HomingTyped
  <2>2. homed \in SUBSET Axes
    BY <1>1 DEF HomingTyped
  <2> QED
    BY <1>2, <1>3, <2>1, <2>2 DEF HomingInv, PosIsReal
<1>4. CASE Allowed(axis, target) /\ Drive(axis, target)
  <2>1. /\ pos' \in [Axes -> Int] /\ real' \in [Axes -> 0 .. PosMax]
        /\ \A other \in Axes \ {axis} : pos'[other] = pos[other] /\ real'[other] = real[other]
        /\ pos'[axis] = target
        /\ target \in 0 .. PosMax /\ pos[axis] = real[axis] => real'[axis] = target
    BY <1>1, <1>4, DriveFacts
  <2>2. target \in 0 .. PosMax
    BY <1>4 DEF Allowed
  <2>3. HomingTyped'
    BY <1>1, <2>1 DEF HomingTyped
  <2>4. ASSUME ~hop_failed', NEW other \in homed'
        PROVE  pos'[other] = real'[other]
    <3>1. other \in homed /\ other \in Axes
      BY <1>1, <2>4 DEF HomingTyped
    <3>2. pos[other] = real[other]
      BY <2>4, <3>1 DEF HomingInv, PosIsReal
    <3> QED
      BY <2>1, <2>2, <3>1, <3>2
  <2> QED
    BY <1>2, <2>3, <2>4 DEF HomingInv, PosIsReal
<1> QED
  BY <1>3, <1>4

LEMMA RunKeeps ==
  ASSUME PosMax \in Nat, Retract \in Int, Hop \in Int, SafeX \in Int, HomingInv, Run
  PROVE  HomingInv'
<1> DEFINE step == todo[1]
<1>1. HomingTyped /\ todo # <<>> /\ UNCHANGED <<switch, faults>>
  BY DEF HomingInv, Run
<1>2. PICK axis \in Axes : axis = step.axis
  BY <1>1, PlanFacts DEF Steps
<1>3. CASE step.do = "hop" /\ HopZ
  BY <1>1, <1>3, HopKeeps
<1>4. CASE step.do = "home" /\ HomeFirst(step.axis) /\ UNCHANGED hop_failed
  BY <1>1, <1>2, <1>4, HomeFirstKeeps
<1>5. CASE step.do = "wait first" /\ WaitFirst(step.axis) /\ UNCHANGED hop_failed
  BY <1>1, <1>2, <1>5, WaitsKeep
<1>9. CASE step.do = "wait second" /\ WaitSecond(step.axis) /\ UNCHANGED hop_failed
  BY <1>1, <1>2, <1>9, WaitsKeep
<1>6. CASE step.do = "retract" /\ Retracts(step.axis) /\ UNCHANGED hop_failed
  BY <1>1, <1>2, <1>6, RetractsKeep
<1>7. ASSUME step.do \in {"goto", "lift"}, NEW place \in Axes, NEW target \in Int, Goto(place, target), UNCHANGED hop_failed
      PROVE  HomingInv'
  <2>1. todo' \in {<<>>, Tail(todo)} /\ UNCHANGED <<homed, heater>>
        /\ (UNCHANGED <<pos, real>> \/ (Allowed(place, target) /\ Drive(place, target)))
    BY <1>7 DEF Goto, Error
  <2>2. /\ todo' \in Seq(Steps) /\ \A i \in 2 .. Len(todo') : todo'[i].do \in Later
        /\ \A other \in Axes : ~IsHoming(other)'
        /\ ~(todo' # <<>> /\ todo'[1].do \in Waits)
    BY <1>1, <2>1, FollowFacts DEF Follows
  <2>3. step.do \notin Waits /\ \A other \in Axes : ~IsHoming(other)
    BY <1>7 DEF IsHoming, Busy, Waits
  <2> QED
    BY <1>1, <1>7, <2>1, <2>2, <2>3, DrivesKeep
<1>8. "x" \in Axes /\ "z" \in Axes
  BY DEF Axes
<1>10. CASE step.do = "goto" /\ Goto("x", SafeX) /\ UNCHANGED hop_failed
  BY <1>7, <1>8, <1>10
<1>11. CASE step.do = "lift" /\ Goto("z", Hop) /\ UNCHANGED hop_failed
  BY <1>7, <1>8, <1>11
<1> QED
  BY <1>3, <1>4, <1>5, <1>6, <1>9, <1>10, <1>11 DEF Run

LEMMA JoinFacts ==
  ASSUME NEW p \in Seq(Steps), NEW q \in Seq(Steps),
         p # <<>>, \A i \in 2 .. Len(p) : p[i].do \in Later, \A i \in 1 .. Len(q) : q[i].do \in Later
  PROVE  p \o q \in Seq(Steps) /\ p \o q # <<>> /\ (p \o q)[1] = p[1]
         /\ \A i \in 2 .. Len(p \o q) : (p \o q)[i].do \in Later
<1> HIDE DEF Steps, Later
<1>1. /\ p \o q \in Seq(Steps) /\ Len(p \o q) = Len(p) + Len(q) /\ Len(p) \in Nat \ {0} /\ Len(q) \in Nat
      /\ \A i \in 1 .. Len(p) : (p \o q)[i] = p[i]
  OBVIOUS
<1>2. \A i \in Len(p) + 1 .. Len(p) + Len(q) : (p \o q)[i] = q[i - Len(p)] /\ i - Len(p) \in 1 .. Len(q)
  BY <1>1
<1> QED
  BY <1>1, <1>2

LEMMA PlanIsTyped ==
  ASSUME NEW axes \in SUBSET Axes
  PROVE  /\ SafeZ(axes) \in Seq(Steps) /\ SafeZ(axes) # <<>> /\ SafeZ(axes)[1].do = "hop"
         /\ \A i \in 2 .. Len(SafeZ(axes)) : SafeZ(axes)[i].do \in Later
<1> DEFINE first == <<Step("hop", "z")>>
<1> DEFINE x == IF "x" \in axes THEN <<Step("home", "x")>> ELSE <<>>
<1> DEFINE z == IF "z" \in axes THEN <<Step("goto", "x"), Step("home", "z"), Step("lift", "z")>> ELSE <<>>
<1>1. \A what \in Later \cup {"hop"}, axis \in {"x", "z"} : Step(what, axis) \in Steps /\ Step(what, axis).do = what
  BY DEF Steps, Step, Axes
<1>2. {"home", "goto", "lift"} = Later
  BY DEF Later
<1>7. Step("hop", "z") \in Steps /\ Step("hop", "z").do = "hop"
  BY <1>1
<1>8. /\ Step("home", "x") \in Steps /\ Step("home", "x").do \in Later
      /\ Step("goto", "x") \in Steps /\ Step("goto", "x").do \in Later
      /\ Step("home", "z") \in Steps /\ Step("home", "z").do \in Later
      /\ Step("lift", "z") \in Steps /\ Step("lift", "z").do \in Later
  BY <1>1, <1>2
<1> HIDE DEF Steps, Later
<1>3. first \in Seq(Steps) /\ first # <<>> /\ first[1].do = "hop" /\ Len(first) = 1
  BY <1>7
<1>4. x \in Seq(Steps) /\ \A i \in 1 .. Len(x) : x[i].do \in Later
  <2>1. CASE "x" \in axes
    BY <1>8, <2>1
  <2>2. CASE "x" \notin axes
    BY <2>2
  <2> QED
    BY <2>1, <2>2
<1>5. z \in Seq(Steps) /\ \A i \in 1 .. Len(z) : z[i].do \in Later
  <2>1. CASE "z" \in axes
    <3>1. z = <<Step("goto", "x"), Step("home", "z"), Step("lift", "z")>>
      BY <2>1
    <3>2. \A i \in 1 .. 3 : i = 1 \/ i = 2 \/ i = 3
      OBVIOUS
    <3> QED
      BY <1>8, <3>1, <3>2
  <2>2. CASE "z" \notin axes
    BY <2>2
  <2> QED
    BY <2>1, <2>2
<1>6. SafeZ(axes) = (first \o x) \o z
  BY DEF SafeZ
<1> HIDE DEF first, x, z
<1>9. \A i \in 2 .. Len(first) : first[i].do \in Later
  BY <1>3
<1>10. /\ first \o x \in Seq(Steps) /\ first \o x # <<>> /\ (first \o x)[1].do = "hop"
       /\ \A i \in 2 .. Len(first \o x) : (first \o x)[i].do \in Later
  BY <1>3, <1>4, <1>9, JoinFacts
<1> QED
  BY <1>5, <1>6, <1>10, JoinFacts

LEMMA UsersKeep ==
  ASSUME PosMax \in Nat, HomingInv,
         \/ \E axes \in SUBSET Axes \ {{}} : G28(axes)
         \/ \E axis \in Axes, target \in 0 .. PosMax : Move(axis, target)
         \/ M84
         \/ \E target \in Targets : M104(target)
         \/ \E axis \in Axes : SwitchChanges(axis)
         \/ UNCHANGED homing_vars
  PROVE  HomingInv'
<1>1. HomingTyped /\ TargetIsKept
  BY DEF HomingInv
<1>2. ASSUME NEW axes \in SUBSET Axes, G28(axes)
      PROVE  HomingInv'
  <2>1. todo = <<>> /\ todo' = SafeZ(axes) /\ UNCHANGED <<pos, real, homed, switch, heater, faults, hop_failed>>
    BY <1>2 DEF G28
  <2>2. /\ todo' \in Seq(Steps) /\ todo'[1].do = "hop" /\ \A i \in 2 .. Len(todo') : todo'[i].do \in Later
    BY <2>1, PlanIsTyped
  <2>3. \A axis \in Axes : ~IsHoming(axis) /\ ~IsHoming(axis)'
    BY <2>1, <2>2 DEF IsHoming, Busy, Waits
  <2>4. "x" \in Axes /\ 0 \in Int
    BY DEF Axes
  <2>5. "hop" \notin Waits
    BY DEF Waits
  <2> QED
    BY <2>1, <2>2, <2>3, <2>4, <2>5, DrivesKeep
<1>3. ASSUME NEW axis \in Axes, NEW target \in 0 .. PosMax, Move(axis, target)
      PROVE  HomingInv'
  <2>1. todo = <<>> /\ todo' = todo /\ Allowed(axis, target) /\ Drive(axis, target)
        /\ UNCHANGED <<homed, switch, heater, faults, hop_failed>>
    BY <1>3 DEF Move
  <2>2. \A other \in Axes : ~IsHoming(other) /\ ~IsHoming(other)'
    BY <2>1 DEF IsHoming
  <2>3. target \in Int /\ todo' \in Seq(Steps) /\ \A i \in 2 .. Len(todo') : todo'[i].do \in Later
    BY <1>1, <2>1 DEF HomingTyped
  <2> QED
    BY <2>1, <2>2, <2>3, DrivesKeep
<1>4. CASE M84
  <2>1. HomingTyped'
    BY <1>1, <1>4 DEF M84, HomingTyped
  <2>2. TargetIsKept'
    BY <1>1, <1>4 DEF M84, TargetIsKept
  <2> QED
    BY <1>4, <2>1, <2>2 DEF M84, HomingInv, PosIsReal
<1>5. ASSUME NEW target \in Targets, M104(target)
      PROVE  HomingInv'
  <2>1. heater' = [heater EXCEPT !.target = target, !.wanted = target] /\ todo = <<>>
        /\ UNCHANGED <<pos, real, homed, todo, switch, faults, hop_failed>>
    BY <1>5 DEF M104
  <2>2. heater' \in [target : Temps, save : Temps, wanted : Temps] /\ heater'.wanted = heater'.target
    BY <1>1, <1>5, <2>1 DEF HomingTyped, Temps
  <2>3. HomingTyped'
    BY <1>1, <2>1, <2>2 DEF HomingTyped
  <2>4. TargetIsKept'
    BY <2>1, <2>2 DEF TargetIsKept
  <2> QED
    BY <2>1, <2>3, <2>4 DEF HomingInv, PosIsReal, IsHoming
<1>6. ASSUME NEW axis \in Axes, SwitchChanges(axis)
      PROVE  HomingInv'
  <2>1. HomingTyped'
    BY <1>1, <1>6 DEF SwitchChanges, HomingTyped
  <2>2. UNCHANGED <<pos, real, homed, todo, heater, hop_failed>>
    BY <1>6 DEF SwitchChanges
  <2> QED
    BY <1>1, <2>1, <2>2 DEF HomingInv, PosIsReal, IsHoming, TargetIsKept
<1>7. CASE UNCHANGED homing_vars
  BY <1>7 DEF homing_vars, HomingInv, HomingTyped, PosIsReal, IsHoming, TargetIsKept
<1> QED
  BY <1>2, <1>3, <1>4, <1>5, <1>6, <1>7

(* At the end of every G28, and of every error of one, an axis that counts as homed *)
(* is where the host thinks it is, but for a refused hop, and the heaters are as the *)
(* user asked, for any size of the axes and any endstops that stick, fail and        *)
(* recover (home_rails, _perform_z_hop, heaters off and on around homing).           *)
THEOREM HomedAlwaysReal ==
  ASSUME PosMax \in Nat, Retract \in Int, Hop \in Int, SafeX \in Int
  PROVE  SpecHoming => [](HomedIsRealButHop /\ HeatersRestored)
<1>1. InitHoming => HomingInv
  <2> SUFFICES ASSUME InitHoming PROVE HomingInv
    OBVIOUS
  <2>1. HomingTyped
    BY DEF InitHoming, HomingTyped, Temps
  <2> QED
    BY <2>1 DEF InitHoming, HomingInv, PosIsReal, TargetIsKept
<1>2. HomingInv /\ [NextHoming]_homing_vars => HomingInv'
  BY RunKeeps, UsersKeep DEF NextHoming
<1>3. HomingInv => HomedIsRealButHop /\ HeatersRestored
  BY DEF HomingInv, PosIsReal, IsHoming, TargetIsKept, HomedIsRealButHop, HomedIsReal, HeatersRestored
<1> QED
  BY <1>1, <1>2, <1>3, PTL DEF SpecHoming

-----------------------------------------------------------------------------
(* Homing and its endstop                                                  *)

Command == [what : {"home", "stop", "query"}, sent : Nat]
Answer == [homing : BOOLEAN, sent : Nat, time : Nat]
Host ==
  [at : {"idle", "moving", "waiting"}, homings : Nat, min_query : Nat, last_sent : Nat,
   next_query : Nat, end : Nat, stop : Nat, trigger : BOOLEAN, result : {"none", "triggered", "missed"}]

EndstopTyped ==
  /\ now \in Nat /\ now < NEVER
  /\ host \in Host /\ board \in [homing : BOOLEAN, hit : BOOLEAN, seen : Nat]
  /\ down \in Seq(Command) /\ up \in Seq(Answer)

\* The homing under way, and when it began
Homing == host.at # "idle"
Start == host.stop - MoveTime
HomeAt(i) == down[i].what = "home"
Taken == \A i \in DOMAIN down : ~HomeAt(i)

\* The times the host keeps
HostInTime ==
  Homing =>
    /\ Start <= now /\ Start + Retry <= host.next_query
    /\ host.min_query = IF host.trigger THEN NEVER ELSE Start
    /\ host.last_sent <= now
    /\ host.at = "moving" => host.end = NEVER
    /\ host.at = "waiting" => host.end <= now

\* What is under way is older than a homing that begins later.
NothingFromFuture ==
  /\ board.seen <= now /\ (board.homing => board.seen + Retry <= host.next_query)
  /\ \A i \in DOMAIN down :
       down[i].sent <= now /\ (down[i].what # "stop" => down[i].sent + Retry <= host.next_query)
  /\ \A i \in DOMAIN up : up[i].sent <= now /\ up[i].sent + Retry <= host.next_query
  /\ host.next_query <= now + Retry

\* The commands on their way: those of earlier homings, and then those of this one
CommandsInOrder ==
  \A i \in DOMAIN down : HomeAt(i) =>
    /\ Homing /\ down[i].sent = Start
    /\ \A j \in 1 .. i - 1 : ~HomeAt(j) /\ (down[j].what = "query" => down[j].sent < Start)
    /\ \A j \in i + 1 .. Len(down) : down[j].what = "query" /\ down[j].sent >= Start

\* Until the board has the command nothing it says is of this homing ...
BeforeTaken ==
  Homing /\ ~Taken =>
    /\ \A i \in DOMAIN up : up[i].sent < Start
    /\ board.homing => board.seen < Start
    /\ ~host.trigger /\ host.last_sent = 0

\* ... and then it tells the truth.
AfterTaken ==
  Homing /\ Taken =>
    /\ \A i \in DOMAIN down : down[i].what = "query" /\ down[i].sent >= Start
    /\ board.seen >= Start /\ (board.homing \/ board.hit)
    /\ \A i \in DOMAIN up : up[i].sent >= Start /\ ~up[i].homing => board.hit
    /\ \A i \in DOMAIN up : host.at = "waiting" /\ up[i].sent > host.end /\ up[i].homing => ~board.hit
    /\ host.trigger => board.hit
    /\ host.at = "waiting" /\ host.last_sent > host.end => ~board.hit

EndstopInv ==
  /\ EndstopTyped /\ HostInTime /\ NothingFromFuture /\ CommandsInOrder
  /\ BeforeTaken /\ AfterTaken /\ (board.homing => ~board.hit) /\ ResultIsTrue
-----------------------------------------------------------------------------
(* What the types say of the fields, and of a queue that one end of it moves *)

LEMMA FieldsTyped ==
  ASSUME EndstopTyped
  PROVE  /\ now \in Nat
         /\ host.at \in {"idle", "moving", "waiting"} /\ host.trigger \in BOOLEAN
         /\ host.homings \in Nat /\ host.min_query \in Nat /\ host.last_sent \in Nat
         /\ host.next_query \in Nat /\ host.end \in Nat /\ host.stop \in Nat
         /\ host.result \in {"none", "triggered", "missed"}
         /\ board.homing \in BOOLEAN /\ board.hit \in BOOLEAN /\ board.seen \in Nat
         /\ Len(down) \in Nat /\ DOMAIN down = 1 .. Len(down)
         /\ \A i \in DOMAIN down : down[i].what \in {"home", "stop", "query"} /\ down[i].sent \in Nat
         /\ Len(up) \in Nat /\ DOMAIN up = 1 .. Len(up)
         /\ \A i \in DOMAIN up : up[i].homing \in BOOLEAN /\ up[i].sent \in Nat /\ up[i].time \in Nat
<1>1. /\ host.at \in {"idle", "moving", "waiting"} /\ host.trigger \in BOOLEAN
      /\ host.homings \in Nat /\ host.min_query \in Nat /\ host.last_sent \in Nat
      /\ host.next_query \in Nat /\ host.end \in Nat /\ host.stop \in Nat
      /\ host.result \in {"none", "triggered", "missed"}
  BY DEF EndstopTyped, Host
<1>2. Len(down) \in Nat /\ DOMAIN down = 1 .. Len(down) /\ \A i \in DOMAIN down : down[i] \in Command
  BY DEF EndstopTyped
<1>3. Len(up) \in Nat /\ DOMAIN up = 1 .. Len(up) /\ \A i \in DOMAIN up : up[i] \in Answer
  BY DEF EndstopTyped
<1> QED
  BY <1>1, <1>2, <1>3 DEF EndstopTyped, Command, Answer

LEMMA TailFacts ==
  ASSUME NEW S, NEW s \in Seq(S), s # <<>>
  PROVE  /\ Tail(s) \in Seq(S) /\ Len(s) >= 1 /\ Head(s) = s[1] /\ s[1] \in S
         /\ Len(Tail(s)) = Len(s) - 1 /\ DOMAIN Tail(s) = 1 .. Len(s) - 1
         /\ DOMAIN s = 1 .. Len(s) /\ Len(s) \in Nat
         /\ \A i \in 1 .. Len(s) - 1 : Tail(s)[i] = s[i + 1]
OBVIOUS

LEMMA AppendFacts ==
  ASSUME NEW S, NEW s \in Seq(S), NEW x \in S
  PROVE  /\ Append(s, x) \in Seq(S) /\ Len(Append(s, x)) = Len(s) + 1
         /\ DOMAIN Append(s, x) = 1 .. Len(s) + 1 /\ DOMAIN s = 1 .. Len(s) /\ Len(s) \in Nat
         /\ \A i \in 1 .. Len(s) : Append(s, x)[i] = s[i]
         /\ Append(s, x)[Len(s) + 1] = x
OBVIOUS

-----------------------------------------------------------------------------
(* One lemma for each action                                               *)

LEMMA TickKeeps ==
  ASSUME Retry \in Nat, MoveTime \in Nat, NEVER \in Nat, EndstopInv, Tick
  PROVE  EndstopInv'
<1>0. now' = now + 1 /\ now + 1 < NEVER /\ UNCHANGED <<host, board, down, up>>
  BY DEF Tick
<1>1. EndstopTyped'
  BY <1>0 DEF EndstopInv, EndstopTyped
<1>2. HostInTime'
  <2>1. Homing' = Homing /\ Start' = Start
    BY <1>0 DEF Homing, Start
  <2>2. Start \in Int
    BY FieldsTyped DEF EndstopInv, Start
  <2> QED
    BY <1>0, <2>1, <2>2, FieldsTyped DEF EndstopInv, HostInTime
<1>3. NothingFromFuture'
  <2>1. /\ now \in Nat /\ host.next_query \in Nat /\ board.seen \in Nat
        /\ \A i \in DOMAIN down : down[i].sent \in Nat
        /\ \A i \in DOMAIN up : up[i].sent \in Nat
    BY FieldsTyped DEF EndstopInv
  <2>2. board'.seen <= now' /\ host'.next_query <= now' + Retry
    BY <1>0, <2>1 DEF EndstopInv, NothingFromFuture
  <2>3. \A i \in DOMAIN down' : down'[i].sent <= now'
    BY <1>0, <2>1 DEF EndstopInv, NothingFromFuture
  <2>4. \A i \in DOMAIN up' : up'[i].sent <= now'
    BY <1>0, <2>1 DEF EndstopInv, NothingFromFuture
  <2> QED
    BY <1>0, <2>2, <2>3, <2>4 DEF EndstopInv, NothingFromFuture
<1>4. CommandsInOrder' /\ BeforeTaken' /\ AfterTaken' /\ (board.homing => ~board.hit)' /\ ResultIsTrue'
  BY <1>0 DEF EndstopInv, CommandsInOrder, BeforeTaken, AfterTaken, ResultIsTrue, Homing, Start, HomeAt, Taken
<1> QED
  BY <1>1, <1>2, <1>3, <1>4 DEF EndstopInv

LEMMA LostKeeps ==
  ASSUME Retry \in Nat, MoveTime \in Nat, NEVER \in Nat, EndstopInv, Lost
  PROVE  EndstopInv'
<1>0. /\ up' \in Seq(Answer) /\ UNCHANGED <<now, host, board, down>>
      /\ \A i \in DOMAIN up' : i + 1 \in DOMAIN up /\ up'[i] = up[i + 1]
  BY TailFacts DEF Lost, EndstopInv, EndstopTyped
<1>1. EndstopTyped'
  BY <1>0 DEF EndstopInv, EndstopTyped
<1>2. HostInTime' /\ CommandsInOrder' /\ (board.homing => ~board.hit)' /\ ResultIsTrue'
  BY <1>0 DEF EndstopInv, HostInTime, CommandsInOrder, ResultIsTrue, Homing, Start, HomeAt
<1>3. NothingFromFuture'
  BY <1>0 DEF EndstopInv, NothingFromFuture
<1>4. BeforeTaken' /\ AfterTaken'
  BY <1>0 DEF EndstopInv, BeforeTaken, AfterTaken, Homing, Start, HomeAt, Taken
<1> QED
  BY <1>1, <1>2, <1>3, <1>4 DEF EndstopInv

LEMMA MoveEndsKeeps ==
  ASSUME Retry \in Nat, MoveTime \in Nat, NEVER \in Nat, EndstopInv, MoveEnds
  PROVE  EndstopInv'
<1>0. /\ host' = [host EXCEPT !.at = "waiting", !.end = now] /\ UNCHANGED <<now, board, down, up>>
      /\ host.at = "moving"
  BY DEF MoveEnds
<1>1. EndstopTyped'
  BY <1>0, FieldsTyped DEF EndstopInv, EndstopTyped, Host
<1>2. /\ host'.at = "waiting" /\ host'.end = now
      /\ host'.stop = host.stop /\ host'.trigger = host.trigger /\ host'.min_query = host.min_query
      /\ host'.last_sent = host.last_sent /\ host'.next_query = host.next_query /\ host'.result = host.result
  BY <1>0 DEF EndstopInv, EndstopTyped, Host
<1>3. HostInTime'
  BY <1>0, <1>2, FieldsTyped DEF EndstopInv, HostInTime, Homing, Start
<1>4. NothingFromFuture' /\ CommandsInOrder'
  BY <1>0, <1>2 DEF EndstopInv, NothingFromFuture, CommandsInOrder, Homing, Start, HomeAt
<1>5. BeforeTaken' /\ (board.homing => ~board.hit)' /\ ResultIsTrue'
  BY <1>0, <1>2 DEF EndstopInv, BeforeTaken, ResultIsTrue, Homing, Start, HomeAt, Taken
<1>6. AfterTaken'
  <2>1. host.last_sent <= now /\ \A i \in DOMAIN up : up[i].sent <= now
    BY <1>0 DEF EndstopInv, HostInTime, NothingFromFuture, Homing
  <2>2. ~(host.last_sent > now) /\ \A i \in DOMAIN up : ~(up[i].sent > now)
    BY <2>1, FieldsTyped DEF EndstopInv
  <2> QED
    BY <1>0, <1>2, <2>2 DEF EndstopInv, AfterTaken, Homing, Start, HomeAt, Taken
<1> QED
  BY <1>1, <1>3, <1>4, <1>5, <1>6 DEF EndstopInv
LEMMA HomeStartKeeps ==
  ASSUME Retry \in Nat, MoveTime \in Nat, NEVER \in Nat, EndstopInv, HomeStart
  PROVE  EndstopInv'
<1> DEFINE home == [what |-> "home", sent |-> now]
<1>0. /\ down' = Append(down, home) /\ UNCHANGED <<now, board, up>>
      /\ host.at = "idle" /\ now + Retry > host.next_query
      /\ host' = [host EXCEPT !.at = "moving", !.homings = @ + 1, !.min_query = now, !.last_sent = 0,
                              !.next_query = now + Retry, !.end = NEVER, !.stop = now + MoveTime,
                              !.trigger = FALSE, !.result = "none"]
  BY DEF HomeStart
<1>1. /\ down' \in Seq(Command) /\ Len(down') = Len(down) + 1 /\ DOMAIN down' = 1 .. Len(down) + 1
      /\ \A i \in 1 .. Len(down) : down'[i] = down[i]
      /\ down'[Len(down) + 1].what = "home" /\ down'[Len(down) + 1].sent = now
  <2>1. home \in Command /\ home.what = "home" /\ home.sent = now
    BY FieldsTyped DEF EndstopInv, Command
  <2> HIDE DEF home
  <2> QED
    BY <1>0, <2>1, AppendFacts DEF EndstopInv, EndstopTyped
<1>2. host' \in Host
  <2>1. host' = [at |-> "moving", homings |-> host.homings + 1, min_query |-> now, last_sent |-> 0,
                 next_query |-> now + Retry, end |-> NEVER, stop |-> now + MoveTime,
                 trigger |-> FALSE, result |-> "none"]
    BY <1>0 DEF EndstopInv, EndstopTyped, Host
  <2>2. host.homings + 1 \in Nat /\ now \in Nat /\ now + Retry \in Nat /\ now + MoveTime \in Nat
    BY FieldsTyped, SMTT(30) DEF EndstopInv
  <2> QED
    BY <2>1, <2>2 DEF Host
<1>3. /\ host'.at = "moving" /\ host'.min_query = now /\ host'.last_sent = 0
      /\ host'.next_query = now + Retry /\ host'.end = NEVER /\ host'.stop = now + MoveTime
      /\ host'.trigger = FALSE /\ host'.result = "none"
  BY <1>0 DEF EndstopInv, EndstopTyped, Host
<1>4. EndstopTyped'
  BY <1>0, <1>1, <1>2 DEF EndstopInv, EndstopTyped
<1>5. Homing' /\ Start' = now /\ ~Taken' /\ Taken
  <2>1. Homing' /\ Start' = now
    BY <1>3, FieldsTyped DEF EndstopInv, Homing, Start
  <2>2. Len(down) + 1 \in DOMAIN down'
    BY <1>1, FieldsTyped DEF EndstopInv
  <2>3. ~Taken'
    BY <1>1, <2>2 DEF Taken, HomeAt
  <2>4. Taken
    BY <1>0 DEF EndstopInv, CommandsInOrder, Homing, HomeAt, Taken
  <2> QED
    BY <2>1, <2>3, <2>4
\* Everything under way was sent before now.
<1>6. /\ board.homing => board.seen < now
      /\ \A i \in DOMAIN down : down[i].what # "stop" => down[i].sent < now
      /\ \A i \in DOMAIN up : up[i].sent < now
  <2>1. \A t \in Nat : t + Retry <= host.next_query => t < now
    BY <1>0, FieldsTyped DEF EndstopInv
  <2> QED
    BY <2>1, FieldsTyped DEF EndstopInv, NothingFromFuture
<1>7. HostInTime'
  BY <1>0, <1>3, <1>5, FieldsTyped DEF EndstopInv, HostInTime
<1>8. NothingFromFuture'
  <2>1. \A i \in DOMAIN down' : down'[i].sent <= now /\ (down'[i].what # "stop" => down'[i].sent + Retry <= now + Retry)
    <3>1. \A i \in 1 .. Len(down) : down[i].sent <= now /\ (down[i].what # "stop" => down[i].sent + Retry <= now + Retry)
      BY FieldsTyped, SMTT(30) DEF EndstopInv, NothingFromFuture
    <3> QED
      BY <1>1, <3>1, FieldsTyped, SMTT(30) DEF EndstopInv
  <2>2. \A i \in DOMAIN up : up[i].sent <= now /\ up[i].sent + Retry <= now + Retry
    BY FieldsTyped DEF EndstopInv, NothingFromFuture
  <2>3. board.seen <= now /\ board.seen + Retry <= now + Retry
    BY FieldsTyped DEF EndstopInv, NothingFromFuture
  <2>4. host'.next_query = now + Retry /\ now' = now /\ board' = board /\ up' = up
    BY <1>0, <1>3
  <2>5. board'.seen <= now' /\ (board'.homing => board'.seen + Retry <= host'.next_query)
    BY <2>3, <2>4
  <2>6. \A i \in DOMAIN down' : down'[i].sent <= now' /\ (down'[i].what # "stop" => down'[i].sent + Retry <= host'.next_query)
    BY <2>1, <2>4
  <2>7. \A i \in DOMAIN up' : up'[i].sent <= now' /\ up'[i].sent + Retry <= host'.next_query
    BY <2>2, <2>4
  <2>8. host'.next_query <= now' + Retry
    BY <2>4, FieldsTyped DEF EndstopInv
  <2> QED
    BY <2>5, <2>6, <2>7, <2>8 DEF NothingFromFuture
<1>9. CommandsInOrder'
  <2> SUFFICES ASSUME NEW i \in DOMAIN down', HomeAt(i)'
               PROVE  /\ down'[i].sent = now
                      /\ \A j \in 1 .. i - 1 : ~HomeAt(j)' /\ (down'[j].what = "query" => down'[j].sent < now)
                      /\ \A j \in i + 1 .. Len(down') : down'[j].what = "query" /\ down'[j].sent >= now
    BY <1>5 DEF CommandsInOrder
  <2>1. i = Len(down) + 1
    BY <1>1, <1>5, FieldsTyped DEF EndstopInv, Taken, HomeAt
  <2>2. \A j \in 1 .. i - 1 : j \in DOMAIN down /\ down'[j] = down[j]
    BY <1>1, <2>1, FieldsTyped DEF EndstopInv
  <2>3. \A j \in 1 .. i - 1 : down[j].what # "home" /\ (down[j].what = "query" => down[j].sent < now)
    BY <1>5, <1>6, <2>2 DEF Taken, HomeAt
  <2>4. i + 1 .. Len(down') = {}
    BY <1>1, <2>1, FieldsTyped DEF EndstopInv
  <2> QED
    BY <1>1, <2>1, <2>2, <2>3, <2>4 DEF HomeAt
<1>10. BeforeTaken' /\ AfterTaken'
  BY <1>0, <1>3, <1>5, <1>6 DEF BeforeTaken, AfterTaken
<1>11. (board.homing => ~board.hit)' /\ ResultIsTrue'
  BY <1>0, <1>3 DEF EndstopInv, ResultIsTrue
<1> QED
  BY <1>4, <1>7, <1>8, <1>9, <1>10, <1>11 DEF EndstopInv

LEMMA ReceiveKeeps ==
  ASSUME Retry \in Nat, MoveTime \in Nat, NEVER \in Nat, EndstopInv, Receive
  PROVE  EndstopInv'
<1> DEFINE m == Head(up)
<1>0. /\ up' \in Seq(Answer) /\ UNCHANGED <<now, board, down>>
      /\ \A i \in DOMAIN up' : i + 1 \in DOMAIN up /\ up'[i] = up[i + 1]
      /\ m = up[1] /\ 1 \in DOMAIN up /\ State(m)
  BY TailFacts DEF Receive, EndstopInv, EndstopTyped
<1>1. m.sent \in Nat /\ m.homing \in BOOLEAN
  BY <1>0, FieldsTyped DEF EndstopInv
<1>2. /\ host' \in Host /\ host'.at = host.at /\ host'.end = host.end /\ host'.stop = host.stop
      /\ host'.next_query = host.next_query /\ host'.result = host.result
  BY <1>0, <1>1, FieldsTyped DEF State, EndstopInv, EndstopTyped, Host
<1>3. EndstopTyped'
  BY <1>0, <1>2 DEF EndstopInv, EndstopTyped
<1>4. NothingFromFuture' /\ CommandsInOrder' /\ (board.homing => ~board.hit)' /\ ResultIsTrue'
  BY <1>0, <1>2 DEF EndstopInv, NothingFromFuture, CommandsInOrder, ResultIsTrue, Homing, Start, HomeAt
<1>5. Homing' = Homing /\ Start' = Start /\ Taken' = Taken
  BY <1>0, <1>2 DEF Homing, Start, HomeAt, Taken
<1>6. CASE ~Homing
  <2>1. ~Homing'
    BY <1>5, <1>6
  <2>2. HostInTime' /\ BeforeTaken' /\ AfterTaken'
    BY <2>1 DEF HostInTime, BeforeTaken, AfterTaken
  <2> QED
    BY <1>3, <1>4, <2>2 DEF EndstopInv
<1>7. CASE Homing
  \* What the time of the answer says of it
  <2>1. /\ m.sent <= now
        /\ Current(m) => ~host.trigger /\ Taken /\ (~m.homing => board.hit)
    <3>1. m.sent <= now
      BY <1>0 DEF EndstopInv, NothingFromFuture
    <3>2. Current(m) => ~host.trigger /\ m.sent >= Start
      BY <1>1, <1>7, <3>1, FieldsTyped DEF EndstopInv, EndstopTyped, HostInTime, Current
    <3>3. ~Taken => m.sent < Start
      BY <1>0, <1>7 DEF EndstopInv, BeforeTaken
    <3>4. Taken /\ m.sent >= Start /\ ~m.homing => board.hit
      BY <1>0, <1>7 DEF EndstopInv, AfterTaken
    <3> QED
      BY <1>1, <3>1, <3>2, <3>3, <3>4, FieldsTyped DEF EndstopInv, Start
  <2>2. CASE ~Current(m)
    <3>1. UNCHANGED host
      BY <1>0, <2>2 DEF State
    <3> QED
      BY <1>0, <1>3, <1>4, <1>5, <3>1 DEF EndstopInv, HostInTime, BeforeTaken, AfterTaken
  <2>3. CASE Current(m) /\ m.homing
    <3>1. host' = [host EXCEPT !.last_sent = m.sent]
      BY <1>0, <1>7, <2>3 DEF State, Homing
    <3>2. host'.last_sent = m.sent /\ host'.trigger = host.trigger /\ host'.min_query = host.min_query
      BY <3>1 DEF EndstopInv, EndstopTyped, Host
    <3>3. HostInTime'
      BY <1>0, <1>2, <1>5, <2>1, <3>2 DEF EndstopInv, HostInTime
    <3>4. host.at = "waiting" /\ m.sent > host.end => ~board.hit
      BY <1>0, <1>7, <2>1, <2>3 DEF EndstopInv, AfterTaken
    <3>5. BeforeTaken' /\ AfterTaken'
      BY <1>0, <1>2, <1>5, <2>1, <2>3, <3>2, <3>4 DEF EndstopInv, BeforeTaken, AfterTaken
    <3> QED
      BY <1>3, <1>4, <3>3, <3>5 DEF EndstopInv
  <2>4. CASE Current(m) /\ ~m.homing
    <3>1. host' = [host EXCEPT !.min_query = NEVER, !.trigger = TRUE]
      BY <1>0, <1>7, <2>4 DEF State, Homing
    <3>2. host'.last_sent = host.last_sent /\ host'.trigger = TRUE /\ host'.min_query = NEVER
      BY <3>1 DEF EndstopInv, EndstopTyped, Host
    <3>3. HostInTime'
      BY <1>0, <1>2, <1>5, <3>2 DEF EndstopInv, HostInTime
    <3>4. BeforeTaken' /\ AfterTaken'
      BY <1>0, <1>2, <1>5, <2>1, <2>4, <3>2 DEF EndstopInv, BeforeTaken, AfterTaken
    <3> QED
      BY <1>3, <1>4, <3>3, <3>4 DEF EndstopInv
  <2> QED
    BY <1>1, <2>2, <2>3, <2>4
<1> QED
  BY <1>3, <1>4, <1>6, <1>7 DEF EndstopInv
LEMMA RetriedKeeps ==
  ASSUME Retry \in Nat, MoveTime \in Nat, NEVER \in Nat, EndstopInv, Retried
  PROVE  EndstopInv'
<1> DEFINE stop == [what |-> "stop", sent |-> now]
<1>1. PICK r \in {"triggered", "missed"} :
        /\ host' = [host EXCEPT !.at = "idle", !.result = r] /\ down' = Append(down, stop)
        /\ r = "triggered" => host.trigger
        /\ r = "missed" => ~host.trigger /\ host.last_sent > host.end
  BY DEF Retried, Finish, LastIsLate
<1>2. UNCHANGED <<now, board, up>> /\ host.at = "waiting"
  BY DEF Retried
<1>3. /\ down' \in Seq(Command) /\ Len(down') = Len(down) + 1 /\ DOMAIN down' = 1 .. Len(down) + 1
      /\ \A i \in 1 .. Len(down) : down'[i] = down[i]
      /\ down'[Len(down) + 1].what = "stop" /\ down'[Len(down) + 1].sent = now
  <2>1. stop \in Command /\ stop.what = "stop" /\ stop.sent = now
    BY FieldsTyped DEF EndstopInv, Command
  <2> HIDE DEF stop
  <2> QED
    BY <1>1, <2>1, AppendFacts DEF EndstopInv, EndstopTyped
<1>4. /\ host' \in Host /\ host'.at = "idle" /\ host'.result = r /\ host'.next_query = host.next_query
  BY <1>1 DEF EndstopInv, EndstopTyped, Host
<1>5. EndstopTyped'
  BY <1>2, <1>3, <1>4 DEF EndstopInv, EndstopTyped
<1>6. ~Homing' /\ Homing
  BY <1>2, <1>4 DEF Homing
<1>7. HostInTime' /\ BeforeTaken' /\ AfterTaken'
  BY <1>6 DEF HostInTime, BeforeTaken, AfterTaken
\* The board has the command: the host heard of it.
<1>8. Taken /\ (r = "triggered" => board.hit) /\ (r = "missed" => ~board.hit)
  <2>1. host.trigger \/ host.last_sent # 0
    BY <1>1, FieldsTyped DEF EndstopInv
  <2>2. Taken
    BY <1>6, <2>1 DEF EndstopInv, BeforeTaken
  <2> QED
    BY <1>1, <1>2, <1>6, <2>2 DEF EndstopInv, AfterTaken
<1>9. \A i \in DOMAIN down' : ~HomeAt(i)'
  BY <1>3, <1>8, FieldsTyped, SMTT(30) DEF EndstopInv, Taken, HomeAt
<1>10. CommandsInOrder'
  BY <1>9 DEF CommandsInOrder
<1>11. NothingFromFuture'
  <2>1. \A i \in DOMAIN down' : down'[i].sent <= now /\ (down'[i].what # "stop" => down'[i].sent + Retry <= host.next_query)
    BY <1>3, FieldsTyped, SMTT(30) DEF EndstopInv, NothingFromFuture
  <2> QED
    BY <1>2, <1>4, <2>1 DEF EndstopInv, NothingFromFuture
<1>12. (board.homing => ~board.hit)' /\ ResultIsTrue'
  BY <1>2, <1>4, <1>8 DEF EndstopInv, ResultIsTrue
<1> QED
  BY <1>5, <1>7, <1>10, <1>11, <1>12 DEF EndstopInv

LEMMA RequeryKeeps ==
  ASSUME Retry \in Nat, MoveTime \in Nat, NEVER \in Nat, EndstopInv, Requery
  PROVE  EndstopInv'
<1> DEFINE query == [what |-> "query", sent |-> now]
<1>1. /\ UNCHANGED <<now, board, up>> /\ host.at # "idle" /\ down' = Append(down, query)
      /\ host' = [host EXCEPT !.next_query = now + Retry]
  BY DEF Requery
<1>2. /\ down' \in Seq(Command) /\ Len(down') = Len(down) + 1 /\ DOMAIN down' = 1 .. Len(down) + 1
      /\ \A i \in 1 .. Len(down) : down'[i] = down[i]
      /\ down'[Len(down) + 1].what = "query" /\ down'[Len(down) + 1].sent = now
  <2>1. query \in Command /\ query.what = "query" /\ query.sent = now
    BY FieldsTyped DEF EndstopInv, Command
  <2> HIDE DEF query
  <2> QED
    BY <1>1, <2>1, AppendFacts DEF EndstopInv, EndstopTyped
<1>3. /\ host' \in Host /\ host'.at = host.at /\ host'.end = host.end /\ host'.stop = host.stop
      /\ host'.trigger = host.trigger /\ host'.min_query = host.min_query
      /\ host'.last_sent = host.last_sent /\ host'.result = host.result
      /\ host'.next_query = now + Retry
  <2>1. now + Retry \in Nat
    BY DEF EndstopInv, EndstopTyped
  <2>2. host \in Host
    BY DEF EndstopInv, EndstopTyped
  <2> DEFINE n == now + Retry
  <2>3. n \in Nat /\ host' = [host EXCEPT !.next_query = n]
    BY <1>1, <2>1
  <2> HIDE DEF n
  <2>4. /\ host' \in Host /\ host'.at = host.at /\ host'.end = host.end /\ host'.stop = host.stop
        /\ host'.trigger = host.trigger /\ host'.min_query = host.min_query
        /\ host'.last_sent = host.last_sent /\ host'.result = host.result /\ host'.next_query = n
    BY <2>2, <2>3 DEF Host
  <2> QED
    BY <2>4 DEF n
<1>4. EndstopTyped'
  BY <1>1, <1>2, <1>3 DEF EndstopInv, EndstopTyped
<1>5. Homing /\ Homing' /\ Start' = Start /\ Start \in Int /\ Start <= now
  BY <1>1, <1>3, FieldsTyped DEF EndstopInv, HostInTime, Homing, Start
<1>6. Taken' = Taken
  <2>1. \A i \in DOMAIN down : i \in DOMAIN down' /\ down'[i] = down[i]
    BY <1>2, FieldsTyped DEF EndstopInv
  <2>2. \A i \in DOMAIN down' : (i \in DOMAIN down /\ down'[i] = down[i]) \/ down'[i].what = "query"
    BY <1>2, FieldsTyped DEF EndstopInv
  <2> QED
    BY <2>1, <2>2 DEF Taken, HomeAt
<1>7. HostInTime'
  BY <1>1, <1>3, <1>5, FieldsTyped DEF EndstopInv, HostInTime
<1>8. NothingFromFuture'
  <2>1. \A t \in Nat : t <= now => t + Retry <= now + Retry
    BY FieldsTyped DEF EndstopInv
  <2>2. \A i \in DOMAIN down' : down'[i].sent \in Nat /\ down'[i].sent <= now
    BY <1>2, FieldsTyped DEF EndstopInv, NothingFromFuture
  <2>3. board.seen <= now /\ \A i \in DOMAIN up : up[i].sent <= now
    BY DEF EndstopInv, NothingFromFuture
  <2>4. board.seen + Retry <= now + Retry /\ \A i \in DOMAIN up : up[i].sent + Retry <= now + Retry
    BY <2>1, <2>3, FieldsTyped DEF EndstopInv
  <2>5. \A i \in DOMAIN down' : down'[i].sent + Retry <= now + Retry
    BY <2>1, <2>2
  <2>6. now + Retry <= now + Retry
    BY FieldsTyped DEF EndstopInv
  <2> QED
    BY <1>1, <1>3, <2>2, <2>3, <2>4, <2>5, <2>6 DEF NothingFromFuture
<1>9. CommandsInOrder'
  <2> SUFFICES ASSUME NEW i \in DOMAIN down', HomeAt(i)'
               PROVE  /\ down'[i].sent = Start
                      /\ \A j \in 1 .. i - 1 : ~HomeAt(j)' /\ (down'[j].what = "query" => down'[j].sent < Start)
                      /\ \A j \in i + 1 .. Len(down') : down'[j].what = "query" /\ down'[j].sent >= Start
    BY <1>5 DEF CommandsInOrder
  <2>1. i \in DOMAIN down /\ HomeAt(i) /\ down'[i] = down[i]
    BY <1>2, FieldsTyped DEF EndstopInv, HomeAt
  <2>2. /\ down[i].sent = Start
        /\ \A j \in 1 .. i - 1 : ~HomeAt(j) /\ (down[j].what = "query" => down[j].sent < Start)
        /\ \A j \in i + 1 .. Len(down) : down[j].what = "query" /\ down[j].sent >= Start
    BY <2>1 DEF EndstopInv, CommandsInOrder
  <2>3. \A j \in 1 .. i - 1 : down'[j] = down[j]
    BY <1>2, <2>1, FieldsTyped DEF EndstopInv
  <2>4. \A j \in i + 1 .. Len(down') : down'[j].what = "query" /\ down'[j].sent >= Start
    <3>1. \A j \in i + 1 .. Len(down') : j = Len(down) + 1 \/ (j \in i + 1 .. Len(down) /\ j \in 1 .. Len(down))
      BY <1>2, <2>1, FieldsTyped DEF EndstopInv
    <3>2. now >= Start
      BY <1>5, FieldsTyped DEF EndstopInv
    <3> QED
      BY <1>2, <2>2, <3>1, <3>2
  <2> QED
    BY <2>1, <2>2, <2>3, <2>4 DEF HomeAt
<1>10. BeforeTaken'
  BY <1>1, <1>3, <1>5, <1>6 DEF EndstopInv, BeforeTaken
<1>11. AfterTaken'
  <2>1. Taken => \A i \in DOMAIN down' : down'[i].what = "query" /\ down'[i].sent >= Start
    BY <1>2, <1>5, FieldsTyped, SMTT(30) DEF EndstopInv, AfterTaken
  <2> QED
    BY <1>1, <1>3, <1>5, <1>6, <2>1 DEF EndstopInv, AfterTaken
<1>12. (board.homing => ~board.hit)' /\ ResultIsTrue'
  BY <1>1, <1>3 DEF EndstopInv, ResultIsTrue
<1> QED
  BY <1>4, <1>7, <1>8, <1>9, <1>10, <1>11, <1>12 DEF EndstopInv

LEMMA HitsKeeps ==
  ASSUME Retry \in Nat, MoveTime \in Nat, NEVER \in Nat, EndstopInv, Hits
  PROVE  EndstopInv'
<1> DEFINE answer == [homing |-> FALSE, sent |-> board.seen, time |-> now]
<1>1. UNCHANGED <<now, host, down>> /\ board.homing /\ host.at = "moving"
  BY DEF Hits
<1>2. board'.homing = FALSE /\ board'.hit = TRUE /\ board'.seen = board.seen
      /\ board' \in [homing : BOOLEAN, hit : BOOLEAN, seen : Nat]
  BY DEF Hits, EndstopInv, EndstopTyped
<1>3. up' = Append(up, answer)
  BY <1>2 DEF Hits, Say
<1>4. /\ up' \in Seq(Answer) /\ DOMAIN up' = 1 .. Len(up) + 1
      /\ \A i \in 1 .. Len(up) : up'[i] = up[i]
      /\ up'[Len(up) + 1].homing = FALSE /\ up'[Len(up) + 1].sent = board.seen
  <2>1. answer \in Answer /\ answer.homing = FALSE /\ answer.sent = board.seen
    BY FieldsTyped DEF EndstopInv, Answer
  <2> HIDE DEF answer
  <2> QED
    BY <1>3, <2>1, AppendFacts DEF EndstopInv, EndstopTyped
<1>5. EndstopTyped'
  BY <1>1, <1>2, <1>4 DEF EndstopInv, EndstopTyped
<1>6. HostInTime' /\ CommandsInOrder'
  BY <1>1 DEF EndstopInv, HostInTime, CommandsInOrder, Homing, Start, HomeAt
<1>7. NothingFromFuture'
  <2>1. \A i \in DOMAIN up' : up'[i].sent <= now /\ up'[i].sent + Retry <= host.next_query
    <3>1. \A i \in DOMAIN up' : (i \in DOMAIN up /\ up'[i] = up[i]) \/ up'[i].sent = board.seen
      BY <1>4, FieldsTyped DEF EndstopInv
    <3>2. board.seen <= now /\ board.seen + Retry <= host.next_query
      BY <1>1 DEF EndstopInv, NothingFromFuture
    <3>3. \A i \in DOMAIN up : up[i].sent <= now /\ up[i].sent + Retry <= host.next_query
      BY DEF EndstopInv, NothingFromFuture
    <3> QED
      BY <3>1, <3>2, <3>3
  <2> QED
    BY <1>1, <1>2, <2>1 DEF EndstopInv, NothingFromFuture
<1>8. Homing' = Homing /\ Start' = Start /\ Taken' = Taken /\ Homing
  BY <1>1 DEF Homing, Start, HomeAt, Taken
<1>9. BeforeTaken'
  BY <1>1, <1>2, <1>4, <1>8, FieldsTyped DEF EndstopInv, BeforeTaken
<1>10. AfterTaken'
  BY <1>1, <1>2, <1>4, <1>8, FieldsTyped DEF EndstopInv, AfterTaken
<1>11. (board.homing => ~board.hit)' /\ ResultIsTrue'
  BY <1>1, <1>2 DEF ResultIsTrue
<1> QED
  BY <1>5, <1>6, <1>7, <1>9, <1>10, <1>11 DEF EndstopInv

LEMMA BoardTakesKeeps ==
  ASSUME Retry \in Nat, MoveTime \in Nat, NEVER \in Nat, EndstopInv, BoardTakes
  PROVE  EndstopInv'
<1> DEFINE c == Head(down)
           answer == [homing |-> board.homing, sent |-> c.sent, time |-> now]
<1>1. UNCHANGED <<now, host>> /\ down # <<>> /\ down' = Tail(down)
  BY DEF BoardTakes
<1>2. /\ down' \in Seq(Command) /\ Len(down') = Len(down) - 1 /\ DOMAIN down' = 1 .. Len(down) - 1
      /\ \A i \in DOMAIN down' : i + 1 \in DOMAIN down /\ down'[i] = down[i + 1]
      /\ c = down[1] /\ 1 \in DOMAIN down /\ Len(down) >= 1
  BY <1>1, TailFacts DEF EndstopInv, EndstopTyped
<1>3. c.sent \in Nat /\ c.what \in {"home", "stop", "query"} /\ c.sent <= now
      /\ (c.what # "stop" => c.sent + Retry <= host.next_query)
  BY <1>2, FieldsTyped DEF EndstopInv, NothingFromFuture
<1>4. /\ board' \in [homing : BOOLEAN, hit : BOOLEAN, seen : Nat] /\ board'.seen = c.sent
      /\ c.what = "home" => board'.homing /\ ~board'.hit
      /\ c.what = "stop" => ~board'.homing /\ board'.hit = board.hit
      /\ c.what = "query" => board'.homing = board.homing /\ board'.hit = board.hit
  BY <1>3 DEF BoardTakes, EndstopInv, EndstopTyped
<1>5. /\ c.what # "query" => up' = up
      /\ c.what = "query" => up' = Append(up, answer)
  BY <1>3 DEF BoardTakes, Say, EndstopInv, EndstopTyped
<1>6. /\ up' \in Seq(Answer)
      /\ \A i \in DOMAIN up' :
           \/ i \in DOMAIN up /\ up'[i] = up[i]
           \/ c.what = "query" /\ up'[i].homing = board.homing /\ up'[i].sent = c.sent
  <2>1. answer \in Answer /\ answer.homing = board.homing /\ answer.sent = c.sent
    BY <1>3, FieldsTyped DEF EndstopInv, Answer
  <2> HIDE DEF answer
  <2>2. Append(up, answer) \in Seq(Answer) /\ \A i \in DOMAIN Append(up, answer) :
           (i \in DOMAIN up /\ Append(up, answer)[i] = up[i]) \/ Append(up, answer)[i] = answer
    BY <2>1, AppendFacts DEF EndstopInv, EndstopTyped
  <2> QED
    BY <1>5, <2>1, <2>2 DEF EndstopInv, EndstopTyped
<1>7. EndstopTyped'
  BY <1>1, <1>2, <1>4, <1>6 DEF EndstopInv, EndstopTyped
<1>8. Homing' = Homing /\ Start' = Start /\ Start \in Int
  BY <1>1, FieldsTyped DEF EndstopInv, Homing, Start
<1>9. HostInTime'
  BY <1>1, <1>8 DEF EndstopInv, HostInTime
<1>10. NothingFromFuture'
  <2>1. \A i \in DOMAIN up' : up'[i].sent <= now /\ up'[i].sent + Retry <= host.next_query
    BY <1>3, <1>6 DEF EndstopInv, NothingFromFuture
  <2>2. board'.seen <= now /\ (board'.homing => board'.seen + Retry <= host.next_query)
    BY <1>3, <1>4
  <2> QED
    BY <1>1, <1>2, <2>1, <2>2 DEF EndstopInv, NothingFromFuture
<1>11. CommandsInOrder'
  <2> SUFFICES ASSUME NEW i \in DOMAIN down', HomeAt(i)'
               PROVE  /\ Homing /\ down'[i].sent = Start
                      /\ \A j \in 1 .. i - 1 : ~HomeAt(j)' /\ (down'[j].what = "query" => down'[j].sent < Start)
                      /\ \A j \in i + 1 .. Len(down') : down'[j].what = "query" /\ down'[j].sent >= Start
    BY <1>8 DEF CommandsInOrder
  <2>1. i \in Nat /\ i + 1 \in DOMAIN down /\ HomeAt(i + 1) /\ down'[i] = down[i + 1]
    BY <1>2, FieldsTyped DEF EndstopInv, HomeAt
  <2>2. /\ Homing /\ down[i + 1].sent = Start
        /\ \A j \in 1 .. i : ~HomeAt(j) /\ (down[j].what = "query" => down[j].sent < Start)
        /\ \A j \in i + 2 .. Len(down) : down[j].what = "query" /\ down[j].sent >= Start
    <3>1. (i + 1) - 1 = i /\ (i + 1) + 1 = i + 2
      BY <2>1
    <3> QED
      BY <2>1, <3>1 DEF EndstopInv, CommandsInOrder
  <2> DEFINE n == Len(down)
  <2>5. n \in Nat /\ i \in 1 .. n - 1 /\ Len(down') = n - 1 /\ \A j \in 1 .. n - 1 : down'[j] = down[j + 1]
    BY <1>2, FieldsTyped DEF EndstopInv
  <2> HIDE DEF n
  <2>6. \A j \in 1 .. i - 1 : j \in 1 .. n - 1 /\ j + 1 \in 1 .. i
    BY <2>5
  <2>7. \A j \in i + 1 .. n - 1 : j \in 1 .. n - 1 /\ j + 1 \in i + 2 .. n
    BY <2>5
  <2>3. \A j \in 1 .. i - 1 : j + 1 \in 1 .. i /\ down'[j] = down[j + 1]
    BY <2>5, <2>6
  <2>4. \A j \in i + 1 .. Len(down') : j + 1 \in i + 2 .. Len(down) /\ down'[j] = down[j + 1]
    BY <2>5, <2>7 DEF n
  <2> QED
    BY <2>1, <2>2, <2>3, <2>4 DEF HomeAt
\* No home follows another command of its own homing.
<1>12. CASE c.what = "home"
  <2>1. /\ Homing /\ c.sent = Start
        /\ \A j \in 2 .. Len(down) : down[j].what = "query" /\ down[j].sent >= Start
    <3>1. 1 + 1 = 2
      OBVIOUS
    <3> QED
      BY <1>2, <1>12, <3>1 DEF EndstopInv, CommandsInOrder, HomeAt
  <2>2. \A i \in DOMAIN down' : down'[i].what = "query" /\ down'[i].sent >= Start
    BY <1>2, <2>1, FieldsTyped, SMTT(30) DEF EndstopInv
  <2>3. Taken' /\ ~Taken
    BY <1>2, <1>12, <2>2 DEF Taken, HomeAt
  <2>4. (\A i \in DOMAIN up' : up'[i].sent < Start) /\ ~host.trigger /\ host.last_sent = 0
    BY <1>12, <1>6, <2>1, <2>3 DEF EndstopInv, BeforeTaken
  <2>5. BeforeTaken'
    BY <2>3 DEF BeforeTaken
  <2>6. AfterTaken'
    <3>1. \A i \in DOMAIN up' : ~(up'[i].sent >= Start)
      <4>1. \A i \in DOMAIN up' : up'[i].sent \in Nat
        BY <1>7, FieldsTyped, <1>6, <1>12 DEF EndstopInv
      <4> QED
        BY <1>8, <2>4, <4>1
    <3> QED
      BY <1>1, <1>4, <1>8, <1>12, <2>1, <2>2, <2>4, <3>1, FieldsTyped, SMTT(30) DEF EndstopInv, AfterTaken
  <2>7. (board.homing => ~board.hit)' /\ ResultIsTrue'
    BY <1>1, <1>4, <1>12, <2>1 DEF ResultIsTrue, Homing
  <2> QED
    BY <1>7, <1>9, <1>10, <1>11, <2>5, <2>6, <2>7 DEF EndstopInv
<1>13. CASE c.what # "home"
  <2>1. Taken' = Taken
    <3>1. \A i \in DOMAIN down : i = 1 \/ (i - 1 \in DOMAIN down' /\ down'[i - 1] = down[i])
      BY <1>2, FieldsTyped, SMTT(30) DEF EndstopInv
    <3> QED
      BY <1>2, <1>13, <3>1 DEF Taken, HomeAt
  <2>2. BeforeTaken'
    <3> SUFFICES ASSUME Homing, ~Taken
                 PROVE  BeforeTaken'
      BY <1>8, <2>1 DEF BeforeTaken
    <3>1. PICK i \in DOMAIN down : HomeAt(i)
      BY DEF Taken
    <3>2. c.what = "query" => c.sent < Start
      <4>1. 1 \in 1 .. i - 1
        BY <1>2, <1>13, <3>1, FieldsTyped DEF EndstopInv, HomeAt
      <4> QED
        BY <1>2, <3>1, <4>1 DEF EndstopInv, CommandsInOrder
    <3>3. board'.homing => board'.seen < Start
      BY <1>3, <1>4, <1>13, <3>2
    <3> QED
      BY <1>1, <1>6, <1>8, <3>2, <3>3 DEF EndstopInv, BeforeTaken
  <2>3. AfterTaken'
    <3> SUFFICES ASSUME Homing, Taken
                 PROVE  AfterTaken'
      BY <1>8, <2>1 DEF AfterTaken
    <3>1. c.what = "query" /\ c.sent >= Start /\ \A i \in DOMAIN down' : down'[i].what = "query" /\ down'[i].sent >= Start
      BY <1>2 DEF EndstopInv, AfterTaken
    <3>2. board'.homing = board.homing /\ board'.hit = board.hit /\ (board.homing \/ board.hit) /\ (board.homing => ~board.hit)
      BY <1>4, <3>1 DEF EndstopInv, AfterTaken
    <3>3. /\ \A i \in DOMAIN up' : up'[i].sent >= Start /\ ~up'[i].homing => board.hit
          /\ \A i \in DOMAIN up' : host.at = "waiting" /\ up'[i].sent > host.end /\ up'[i].homing => ~board.hit
      BY <1>6, <3>2 DEF EndstopInv, AfterTaken
    <3> QED
      BY <1>1, <1>4, <1>8, <3>1, <3>2, <3>3 DEF EndstopInv, AfterTaken
  <2>4. (board.homing => ~board.hit)' /\ ResultIsTrue'
    BY <1>1, <1>3, <1>4, <1>13 DEF EndstopInv, ResultIsTrue
  <2> QED
    BY <1>7, <1>9, <1>10, <1>11, <2>2, <2>3, <2>4 DEF EndstopInv
<1> QED
  BY <1>12, <1>13

LEMMA InitEndstopInv ==
  ASSUME Retry \in Nat, MoveTime \in Nat, NEVER \in Nat, 1 < NEVER, InitEndstop
  PROVE  EndstopInv
<1>1. EndstopTyped
  BY DEF InitEndstop, EndstopTyped, Host
<1>2. ~Homing /\ DOMAIN down = {} /\ DOMAIN up = {}
  BY DEF InitEndstop, Homing
<1>3. NothingFromFuture /\ (board.homing => ~board.hit) /\ ResultIsTrue
  BY <1>2 DEF InitEndstop, NothingFromFuture, ResultIsTrue
<1> QED
  BY <1>1, <1>2, <1>3 DEF EndstopInv, HostInTime, CommandsInOrder, BeforeTaken, AfterTaken

\* Homing succeeds exactly if the endstop triggered during this very homing, however
\* often the host asks, whatever is lost and however late it is (endstop.py 40-95).
THEOREM HomingIsTrue ==
  ASSUME Retry \in Nat, MoveTime \in Nat, NEVER \in Nat, 1 < NEVER
  PROVE  SpecEndstop => []ResultIsTrue
<1>1. InitEndstop => EndstopInv
  BY InitEndstopInv
<1>2. EndstopInv /\ [NextEndstop]_endstop_vars => EndstopInv'
  <2> SUFFICES ASSUME EndstopInv, [NextEndstop]_endstop_vars
               PROVE  EndstopInv'
    OBVIOUS
  <2>1. CASE HomeStart
    BY <2>1, HomeStartKeeps
  <2>2. CASE Receive
    BY <2>2, ReceiveKeeps
  <2>3. CASE MoveEnds
    BY <2>3, MoveEndsKeeps
  <2>4. CASE Retried
    BY <2>4, RetriedKeeps
  <2>5. CASE Requery
    BY <2>5, RequeryKeeps
  <2>6. CASE BoardTakes
    BY <2>6, BoardTakesKeeps
  <2>7. CASE Hits
    BY <2>7, HitsKeeps
  <2>8. CASE Lost
    BY <2>8, LostKeeps
  <2>9. CASE Tick
    BY <2>9, TickKeeps
  <2>10. CASE UNCHANGED endstop_vars
    BY <2>10 DEF endstop_vars, EndstopInv, EndstopTyped, HostInTime, NothingFromFuture, CommandsInOrder,
       BeforeTaken, AfterTaken, ResultIsTrue, Homing, Start, HomeAt, Taken
  <2> QED
    BY <2>1, <2>2, <2>3, <2>4, <2>5, <2>6, <2>7, <2>8, <2>9, <2>10 DEF NextEndstop
<1>3. EndstopInv => ResultIsTrue
  BY DEF EndstopInv
<1> QED
  BY <1>1, <1>2, <1>3, PTL DEF SpecEndstop

(***************************************************************************)
(* The dispatcher of the lines                                             *)
(***************************************************************************)

\* An answer is owed while a line runs, unless another script took it.
AckIsOwed ==
  /\ need_ack \in BOOLEAN /\ prev_need_ack \in BOOLEAN /\ taken \in BOOLEAN
  /\ running \in {"handler", "last"} => need_ack \/ taken
  /\ running = "script" => prev_need_ack \/ taken
  /\ OneAckEach

\* A line gets its answer whatever pauses and whatever scripts it runs; only a script
\* of another greenlet can take it (commander.py 430-437, 474-490 and 536-546).
THEOREM EachIsAnswered == InitDispatch /\ [][NextDispatch]_dispatch_vars => []OneAckEach
<1>1. InitDispatch => AckIsOwed
  BY DEF InitDispatch, AckIsOwed, OneAckEach
<1>2. AckIsOwed /\ [NextDispatch]_dispatch_vars => AckIsOwed'
  <2> SUFFICES ASSUME AckIsOwed, [NextDispatch]_dispatch_vars
               PROVE  AckIsOwed'
    OBVIOUS
  <2>1. CASE UNCHANGED <<need_ack, running, others, counts>>
    BY <2>1 DEF AckIsOwed, OneAckEach, others, counts
  <2>2. ASSUME NEW wanted \in BOOLEAN, FinishWith(wanted), wanted \/ taken, UNCHANGED prev_need_ack
        PROVE  AckIsOwed'
    <3>1. unanswered' = unanswered + 0
      BY <2>2, Zenon DEF FinishWith
    <3>2. unanswered' = 0
      BY <3>1 DEF AckIsOwed, OneAckEach
    <3>3. need_ack' \in BOOLEAN /\ taken' = FALSE /\ running' = "no"
      BY <2>2, Zenon DEF FinishWith
    <3> QED
      BY <2>2, <3>2, <3>3 DEF AckIsOwed, OneAckEach
  <2>3. CASE RunHandler
    <3>1. CASE FinishWith(TRUE) /\ UNCHANGED prev_need_ack
      BY <2>2, <3>1
    <3>2. CASE need_ack' = TRUE /\ running' = "handler" /\ UNCHANGED <<prev_need_ack, taken, counts>>
      BY <3>2 DEF AckIsOwed, OneAckEach, counts
    <3> QED
      BY <2>3, <3>1, <3>2 DEF RunHandler
  <2>4. CASE RunScript
    BY <2>4 DEF RunScript, AckIsOwed, OneAckEach, counts
  <2>5. CASE ScriptReturns
    BY <2>5 DEF ScriptReturns, RestoreAck, AckIsOwed, OneAckEach, others, counts
  <2>6. CASE HandlerReturns
    BY <2>2, <2>6 DEF HandlerReturns, AckIsOwed
  <2>7. CASE OtherScript
    BY <2>7 DEF OtherScript, TakesAck, AckIsOwed, OneAckEach, counts
  <2>8. CASE TakePending \/ StopProcessing
    BY <2>1, <2>8 DEF TakePending, StopProcessing
  <2>9. CASE \E kind \in Kinds : HostSendsLine(kind)
    BY <2>1, <2>9 DEF HostSendsLine
  <2>10. CASE \E n \in 1 .. MaxRead : ProcessData(n)
    BY <2>1, <2>10 DEF ProcessData, ProcessPending
  <2>11. CASE ProcessEnd
    BY <2>1, <2>11 DEF ProcessEnd
  <2>12. CASE UNCHANGED dispatch_vars
    BY <2>1, <2>12 DEF dispatch_vars
  <2> QED
    BY <2>3, <2>4, <2>5, <2>6, <2>7, <2>8, <2>9, <2>10, <2>11, <2>12 DEF NextDispatch, Processing
<1>3. AckIsOwed => OneAckEach
  BY DEF AckIsOwed
<1> QED
  BY <1>1, <1>2, <1>3, PTL

-----------------------------------------------------------------------------
LinesTyped ==
  /\ commands \in Seq(Nat) /\ pending_commands \in Seq(Nat) /\ lines_sent \in Seq(Kinds)
  /\ received \in Nat /\ finished \in Nat /\ halves \in Nat /\ partial_input \in {0, 1}
  /\ commands = <<>> => running = "no"

\* What one read completes
LEMMA ReadFacts ==
  ASSUME MaxRead \in Nat, NEW n \in 1 .. MaxRead, LinesTyped, n <= halves
  PROVE  /\ Completed(n) \in Seq(Nat) /\ Len(Completed(n)) = (partial_input + n) \div 2
         /\ Len(Completed(n)) \in Nat /\ Len(Completed(n)) <= (MaxRead + 1) \div 2
         /\ \A i \in 1 .. Len(Completed(n)) : Completed(n)[i] = received + i
         /\ Read(n) => /\ received' = received + Len(Completed(n)) /\ halves' = halves - n
                       /\ halves' \in Nat /\ partial_input' \in {0, 1} /\ UNCHANGED lines_sent
<1> DEFINE k == (partial_input + n) \div 2
<1>1. k \in Nat /\ k <= (MaxRead + 1) \div 2 /\ (partial_input + n) % 2 \in {0, 1} /\ halves - n \in Nat
  BY DEF LinesTyped
<1>2. Completed(n) = [i \in 1 .. k |-> received + i]
  BY DEF Completed
<1>3. Read(n) => /\ received' = received + k /\ halves' = halves - n /\ partial_input' = (partial_input + n) % 2
                 /\ UNCHANGED lines_sent
  BY DEF Read
<1> HIDE DEF k
<1>4. Completed(n) \in Seq(Nat) /\ Len(Completed(n)) = k /\ \A i \in 1 .. k : Completed(n)[i] = received + i
  BY <1>1, <1>2 DEF LinesTyped
<1>5. Len(Completed(n)) = (partial_input + n) \div 2
  BY <1>4 DEF k
<1> QED
  BY <1>1, <1>3, <1>4, <1>5

LEMMA FinishFacts ==
  ASSUME LinesTyped, commands # <<>>, NEW wanted, FinishWith(wanted)
  PROVE  /\ commands' = Tail(commands) /\ commands' \in Seq(Nat) /\ Len(commands') = Len(commands) - 1
         /\ Len(commands) \in Nat \ {0} /\ Head(commands) = commands[1] /\ commands[1] \in Nat
         /\ \A i \in 1 .. Len(commands) - 1 : commands'[i] = commands[i + 1]
         /\ finished' = finished + (IF commands[1] = 0 THEN 0 ELSE 1) /\ finished' \in Nat
         /\ running' = "no" /\ UNCHANGED <<pending_commands, is_processing_data, reading>>
<1>1. commands' = Tail(commands) /\ running' = "no" /\ UNCHANGED <<pending_commands, is_processing_data, reading>>
      /\ finished' = finished + (IF Head(commands) = 0 THEN 0 ELSE 1)
  BY DEF FinishWith
<1>2. /\ Tail(commands) \in Seq(Nat) /\ Len(Tail(commands)) = Len(commands) - 1
      /\ Len(commands) \in Nat \ {0} /\ Head(commands) = commands[1] /\ commands[1] \in Nat
      /\ \A i \in 1 .. Len(commands) - 1 : Tail(commands)[i] = commands[i + 1]
  BY DEF LinesTyped
<1> QED
  BY <1>1, <1>2 DEF LinesTyped

LEMMA LinesAreTyped ==
  ASSUME MaxRead \in Nat, LinesTyped, [NextDispatch]_dispatch_vars
  PROVE  LinesTyped'
<1>1. CASE UNCHANGED <<input, commands, pending_commands, running, counts>>
  BY <1>1 DEF LinesTyped, input, counts
<1>2. CASE \E kind \in Kinds : HostSendsLine(kind)
  BY <1>2 DEF HostSendsLine, LinesTyped, counts
<1>3. CASE \E n \in 1 .. MaxRead : ProcessData(n)
  <2> PICK n \in 1 .. MaxRead : ProcessData(n)
    BY <1>3
  <2>1. n <= halves /\ Read(n) /\ UNCHANGED <<commands, running, counts>>
        /\ pending_commands' = pending_commands \o Completed(n)
    BY DEF ProcessData, ProcessPending
  <2> QED
    BY <2>1, ReadFacts DEF LinesTyped, counts
<1>4. CASE ProcessEnd
  <2>1. pending_commands' = Append(pending_commands, 0) /\ UNCHANGED <<input, commands, running, counts>>
    BY <1>4 DEF ProcessEnd
  <2>2. Append(pending_commands, 0) \in Seq(Nat)
    BY DEF LinesTyped
  <2> QED
    BY <2>1, <2>2 DEF LinesTyped, input, counts
<1>5. CASE TakePending
  BY <1>5 DEF TakePending, LinesTyped, input, counts
<1>6. CASE StopProcessing \/ OtherScript
  BY <1>1, <1>6 DEF StopProcessing, OtherScript
<1>7. ASSUME NEW wanted, FinishWith(wanted), commands # <<>>, UNCHANGED input
      PROVE  LinesTyped'
  BY <1>7, FinishFacts DEF LinesTyped, input
<1>8. CASE RunHandler
  <2>1. CASE FinishWith(TRUE)
    BY <1>7, <1>8, <2>1 DEF RunHandler
  <2>2. CASE running' = "handler" /\ UNCHANGED <<commands, pending_commands, counts>>
    BY <1>8, <2>2 DEF RunHandler, LinesTyped, input, counts
  <2> QED
    BY <1>8, <2>1, <2>2 DEF RunHandler
<1>9. CASE RunScript \/ ScriptReturns
  BY <1>9 DEF RunScript, ScriptReturns, LinesTyped, input, counts
<1>10. CASE HandlerReturns
  BY <1>7, <1>10 DEF HandlerReturns, LinesTyped
<1>11. CASE UNCHANGED dispatch_vars
  BY <1>1, <1>11 DEF dispatch_vars
<1> QED
  BY <1>2, <1>3, <1>4, <1>5, <1>6, <1>8, <1>9, <1>10, <1>11 DEF NextDispatch, Processing

\* The loop empties what is pending before it runs anything of it.
PendingInv ==
  /\ LinesTyped
  /\ ~is_processing_data => commands = <<>> /\ pending_commands = <<>>
  /\ is_processing_data /\ reading /\ commands # <<>> => Len(pending_commands) < Limit
  /\ PendingIsBounded

\* However long a handler pauses, reading stops in time (commander.py 519-533).
THEOREM PendingStaysBounded ==
  ASSUME Limit \in Nat \ {0}, MaxRead \in Nat \ {0}
  PROVE  InitDispatch /\ [][NextDispatch]_dispatch_vars => []PendingIsBounded
<1> DEFINE most == (MaxRead + 1) \div 2
<1>0. most \in Nat /\ most >= 1
  OBVIOUS
<1> HIDE DEF most
<1>1. InitDispatch => PendingInv
  BY <1>0 DEF InitDispatch, PendingInv, PendingIsBounded, LinesTyped, most
<1>2. PendingInv /\ [NextDispatch]_dispatch_vars => PendingInv'
  <2> SUFFICES ASSUME PendingInv, [NextDispatch]_dispatch_vars
               PROVE  /\ (~is_processing_data => commands = <<>> /\ pending_commands = <<>>)'
                      /\ (is_processing_data /\ reading /\ commands # <<>> => Len(pending_commands) < Limit)'
                      /\ Len(pending_commands') < Limit + most
    BY LinesAreTyped DEF PendingInv, PendingIsBounded, most
  <2>0. /\ commands \in Seq(Nat) /\ pending_commands \in Seq(Nat) /\ Len(pending_commands) \in Nat
        /\ commands = <<>> => running = "no"
        /\ ~is_processing_data => commands = <<>> /\ pending_commands = <<>>
        /\ is_processing_data /\ reading /\ commands # <<>> => Len(pending_commands) < Limit
        /\ Len(pending_commands) < Limit + most
    BY DEF PendingInv, PendingIsBounded, LinesTyped, most
  <2>1. CASE UNCHANGED <<commands, pending_commands, is_processing_data, reading>>
    BY <2>0, <2>1
  <2>2. CASE \E n \in 1 .. MaxRead : ProcessData(n)
    <3> PICK n \in 1 .. MaxRead : ProcessData(n)
      BY <2>2
    <3> DEFINE new == Completed(n)
    <3>1. new \in Seq(Nat) /\ Len(new) \in Nat /\ Len(new) <= most
      BY ReadFacts DEF ProcessData, PendingInv, most
    <3>2. /\ reading /\ (is_processing_data => running # "no") /\ pending_commands' = pending_commands \o new
          /\ UNCHANGED commands
          /\ IF is_processing_data
             THEN reading' = (reading /\ ~(Len(pending_commands') >= Limit)) /\ UNCHANGED is_processing_data
             ELSE is_processing_data' = TRUE /\ UNCHANGED reading
      BY DEF ProcessData, ProcessPending, Paused, StopsReading
    <3> HIDE DEF new
    <3>3. Len(pending_commands') = Len(pending_commands) + Len(new)
      BY <2>0, <3>1, <3>2
    <3>4. CASE is_processing_data
      <4>1. commands # <<>> /\ Len(pending_commands) < Limit /\ is_processing_data'
        BY <2>0, <3>2, <3>4
      <4>2. reading' => ~(Len(pending_commands') >= Limit)
        BY <3>2, <3>4, Zenon
      <4>3. Len(pending_commands') \in Nat /\ Len(pending_commands') < Limit + most
        BY <1>0, <2>0, <4>1, <3>1, <3>3
      <4> QED
        BY <4>1, <4>2, <4>3
    <3>5. CASE ~is_processing_data
      <4>1. commands' = <<>> /\ Len(pending_commands) = 0 /\ is_processing_data'
        BY <2>0, <3>2, <3>5
      <4>2. Len(pending_commands') < Limit + most
        BY <1>0, <4>1, <3>1, <3>3
      <4> QED
        BY <4>1, <4>2
    <3> QED
      BY <3>4, <3>5
  <2>3. CASE ProcessEnd
    <3>2. pending_commands' = Append(pending_commands, 0) /\ Len(pending_commands) < Limit
          /\ reading /\ (is_processing_data => running # "no") /\ UNCHANGED commands
          /\ IF is_processing_data
             THEN reading' = ~(Len(pending_commands') >= Limit) /\ UNCHANGED is_processing_data
             ELSE is_processing_data' = TRUE
      BY <2>3 DEF ProcessEnd, Paused, StopsReading
    <3>3. Len(pending_commands') = Len(pending_commands) + 1
      BY <2>0, <3>2
    <3>4. CASE is_processing_data
      <4>1. commands # <<>> /\ Len(pending_commands) < Limit /\ is_processing_data'
        BY <2>0, <3>2, <3>4
      <4>2. reading' => ~(Len(pending_commands') >= Limit)
        BY <3>2, <3>4, Zenon
      <4>3. Len(pending_commands') \in Nat /\ Len(pending_commands') < Limit + most
        BY <1>0, <2>0, <4>1, <3>3
      <4> QED
        BY <4>1, <4>2, <4>3
    <3>5. CASE ~is_processing_data
      <4>1. commands' = <<>> /\ Len(pending_commands) = 0 /\ is_processing_data'
        BY <2>0, <3>2, <3>5
      <4>2. Len(pending_commands') < Limit + most
        BY <1>0, <4>1, <3>3
      <4> QED
        BY <4>1, <4>2
    <3> QED
      BY <3>4, <3>5
  <2>4. CASE TakePending
    <3>1. is_processing_data /\ pending_commands' = <<>> /\ Len(pending_commands') = 0
          /\ UNCHANGED <<is_processing_data, reading>>
      BY <2>4 DEF TakePending
    <3> QED
      BY <1>0, <3>1
  <2>5. CASE StopProcessing
    <3>1. commands' = <<>> /\ pending_commands' = <<>> /\ Len(pending_commands') = 0
      BY <2>5 DEF StopProcessing
    <3> QED
      BY <1>0, <3>1
  <2>6. ASSUME NEW wanted, FinishWith(wanted), commands # <<>>
        PROVE  /\ (~is_processing_data => commands = <<>> /\ pending_commands = <<>>)'
               /\ (is_processing_data /\ reading /\ commands # <<>> => Len(pending_commands) < Limit)'
               /\ Len(pending_commands') < Limit + most
    <3>1. UNCHANGED <<pending_commands, is_processing_data, reading>>
      BY <2>6 DEF FinishWith
    <3> QED
      BY <2>0, <2>6, <3>1
  <2>7. CASE RunHandler
    BY <2>1, <2>6, <2>7 DEF RunHandler
  <2>8. CASE HandlerReturns
    BY <2>0, <2>6, <2>8 DEF HandlerReturns
  <2>9. CASE RunScript \/ ScriptReturns \/ OtherScript
    BY <2>1, <2>9 DEF RunScript, ScriptReturns, OtherScript
  <2>10. CASE \E kind \in Kinds : HostSendsLine(kind)
    BY <2>1, <2>10 DEF HostSendsLine
  <2>11. CASE UNCHANGED dispatch_vars
    BY <2>1, <2>11 DEF dispatch_vars
  <2> QED
    BY <2>2, <2>3, <2>4, <2>5, <2>7, <2>8, <2>9, <2>10, <2>11 DEF NextDispatch, Processing
<1>3. PendingInv => PendingIsBounded
  BY DEF PendingInv
<1> QED
  BY <1>1, <1>2, <1>3, PTL

-----------------------------------------------------------------------------
\* The end of a debug file comes after the last line.
EndComesLast ==
  halves > 0 \/ Len(lines_sent) < MaxLines => finished + Len(Waiting) = received

LinesInv == LinesTyped /\ finished <= received /\ EndComesLast /\ LinesInOrder

LEMMA ConcatFacts ==
  ASSUME NEW s \in Seq(Nat), NEW t \in Seq(Nat)
  PROVE  /\ Len(s \o t) = Len(s) + Len(t) /\ Len(s) \in Nat /\ Len(t) \in Nat
         /\ DOMAIN (s \o t) = 1 .. Len(s) + Len(t)
         /\ \A i \in 1 .. Len(s) : (s \o t)[i] = s[i]
         /\ \A i \in 1 .. Len(s) + Len(t) : i > Len(s) => i - Len(s) \in 1 .. Len(t) /\ (s \o t)[i] = t[i - Len(s)]
OBVIOUS

LEMMA WaitingFacts ==
  ASSUME LinesInv
  PROVE  /\ Len(Waiting) \in Nat /\ DOMAIN Waiting = 1 .. Len(Waiting)
         /\ finished \in Nat /\ received \in Nat /\ finished <= received /\ received <= finished + Len(Waiting)
         /\ \A i \in 1 .. Len(Waiting) : Waiting[i] = IF finished + i <= received THEN finished + i ELSE 0
<1>1. Len(Waiting) \in Nat /\ DOMAIN Waiting = 1 .. Len(Waiting)
  BY ConcatFacts DEF Waiting, LinesInv, LinesTyped
<1> QED
  BY <1>1 DEF LinesInv, LinesTyped, LinesInOrder

\* What is appended to the lines pending comes after all that waits.
LEMMA AppendedFacts ==
  ASSUME LinesInv, NEW new \in Seq(Nat), UNCHANGED commands, pending_commands' = pending_commands \o new
  PROVE  /\ Len(Waiting') = Len(Waiting) + Len(new) /\ DOMAIN Waiting' = 1 .. Len(Waiting) + Len(new)
         /\ Len(new) \in Nat
         /\ \A i \in 1 .. Len(Waiting) : Waiting'[i] = Waiting[i]
         /\ \A i \in 1 .. Len(Waiting) + Len(new) :
              i > Len(Waiting) => i - Len(Waiting) \in 1 .. Len(new) /\ Waiting'[i] = new[i - Len(Waiting)]
<1>1. Waiting \in Seq(Nat) /\ commands \in Seq(Nat) /\ pending_commands \in Seq(Nat)
  BY DEF LinesInv, LinesTyped, Waiting
<1>2. Waiting' = Waiting \o new
  BY <1>1, SMTT(30) DEF Waiting
<1> HIDE DEF Waiting
<1> QED
  BY <1>1, <1>2, ConcatFacts

LEMMA ReadInOrder ==
  ASSUME LinesInv, LinesTyped', UNCHANGED <<commands, finished>>, halves > 0,
         NEW new \in Seq(Nat), pending_commands' = pending_commands \o new,
         received' = received + Len(new), \A i \in 1 .. Len(new) : new[i] = received + i
  PROVE  LinesInv'
<1> DEFINE n == Len(Waiting)
           m == Len(new)
<1>1. n \in Nat /\ m \in Nat /\ finished \in Nat /\ received = finished + n /\ received' = finished + n + m
  BY WaitingFacts, AppendedFacts DEF LinesInv, EndComesLast
<1>2. /\ \A i \in 1 .. n : Waiting'[i] = Waiting[i]
      /\ \A i \in 1 .. n + m : i > n => i - n \in 1 .. m /\ Waiting'[i] = new[i - n]
      /\ Len(Waiting') = n + m /\ DOMAIN Waiting' = 1 .. n + m
  BY AppendedFacts
<1>3. \A i \in 1 .. n : Waiting[i] = finished + i
  BY <1>1, WaitingFacts
<1> HIDE DEF n, m
<1>4. \A i \in 1 .. n + m : Waiting'[i] = finished + i /\ finished + i <= received'
  <2> SUFFICES ASSUME NEW i \in 1 .. n + m
               PROVE  Waiting'[i] = finished + i /\ finished + i <= received'
    OBVIOUS
  <2>1. CASE i <= n
    BY <1>1, <1>2, <1>3, <2>1
  <2>2. CASE i > n
    <3>1. i - n \in 1 .. m /\ Waiting'[i] = new[i - n]
      BY <1>2, <2>2
    <3>2. new[i - n] = received + (i - n)
      BY <3>1 DEF m
    <3> QED
      BY <1>1, <3>1, <3>2
  <2> QED
    BY <1>1, <2>1, <2>2
<1>5. LinesInOrder'
  BY <1>1, <1>2, <1>4 DEF LinesInOrder
<1>6. finished' = finished /\ finished' <= received' /\ finished' + Len(Waiting') = received'
  BY <1>1, <1>2
<1> QED
  BY <1>5, <1>6 DEF LinesInv, EndComesLast

LEMMA EndInOrder ==
  ASSUME LinesInv, LinesTyped', UNCHANGED <<input, commands, finished>>,
         halves = 0, ~(Len(lines_sent) < MaxLines), pending_commands' = Append(pending_commands, 0)
  PROVE  LinesInv'
<1> DEFINE n == Len(Waiting)
<1>1. n \in Nat /\ finished \in Nat /\ received \in Nat /\ received <= finished + n
      /\ \A i \in 1 .. n : Waiting[i] = IF finished + i <= received THEN finished + i ELSE 0
  BY WaitingFacts
<1>2. pending_commands' = pending_commands \o <<0>> /\ <<0>> \in Seq(Nat) /\ Len(<<0>>) = 1 /\ <<0>>[1] = 0
  BY DEF LinesInv, LinesTyped
<1>3. /\ Len(Waiting') = n + 1 /\ DOMAIN Waiting' = 1 .. n + 1
      /\ \A i \in 1 .. n : Waiting'[i] = Waiting[i]
      /\ \A i \in 1 .. n + 1 : i > n => i - n \in 1 .. 1 /\ Waiting'[i] = <<0>>[i - n]
  BY <1>2, AppendedFacts
<1> HIDE DEF n
<1>4. Waiting'[n + 1] = 0
  <2>1. n + 1 \in 1 .. n + 1 /\ n + 1 > n /\ (n + 1) - n = 1
    BY <1>1
  <2> QED
    BY <1>2, <1>3, <2>1
<1>5. received' = received /\ finished' = finished /\ halves' = 0 /\ lines_sent' = lines_sent
  BY DEF input
<1>6. \A i \in 1 .. n + 1 : Waiting'[i] = IF finished + i <= received THEN finished + i ELSE 0
  BY <1>1, <1>3, <1>4
<1>7. LinesInOrder'
  BY <1>1, <1>3, <1>5, <1>6 DEF LinesInOrder
<1> QED
  BY <1>5, <1>7 DEF LinesInv, LinesTyped, EndComesLast

\* What has run was the first of what waited.
LEMMA FinishedInOrder ==
  ASSUME LinesInv, LinesTyped', NEW wanted, FinishWith(wanted), commands # <<>>, UNCHANGED input
  PROVE  LinesInv'
<1> DEFINE n == Len(Waiting)
           c == Len(commands)
<1>1. n \in Nat /\ finished \in Nat /\ received \in Nat /\ finished <= received /\ received <= finished + n
      /\ \A i \in 1 .. n : Waiting[i] = IF finished + i <= received THEN finished + i ELSE 0
  BY WaitingFacts
<1>2. /\ commands \in Seq(Nat) /\ pending_commands \in Seq(Nat) /\ UNCHANGED pending_commands /\ commands' \in Seq(Nat)
      /\ c \in Nat \ {0} /\ Len(commands') = c - 1
      /\ \A i \in 1 .. c - 1 : commands'[i] = commands[i + 1]
      /\ finished' = finished + (IF commands[1] = 0 THEN 0 ELSE 1)
  BY FinishFacts DEF LinesInv, LinesTyped
<1>3. received' = received /\ halves' = halves /\ lines_sent' = lines_sent
  BY DEF input
<1> DEFINE p == Len(pending_commands)
<1>4. /\ n = c + p /\ p \in Nat
      /\ \A i \in 1 .. c : Waiting[i] = commands[i]
      /\ \A i \in 1 .. c + p : i > c => Waiting[i] = pending_commands[i - c]
  BY <1>2, ConcatFacts DEF Waiting
<1>5. /\ Len(Waiting') = (c - 1) + p /\ DOMAIN Waiting' = 1 .. (c - 1) + p
      /\ \A i \in 1 .. c - 1 : Waiting'[i] = commands'[i]
      /\ \A i \in 1 .. (c - 1) + p : i > c - 1 => Waiting'[i] = pending_commands[i - (c - 1)]
  <2>1. Waiting' = commands' \o pending_commands
    BY <1>2 DEF Waiting
  <2> DEFINE rest == commands'
  <2>2. rest \in Seq(Nat) /\ Len(rest) = c - 1
    BY <1>2
  <2> HIDE DEF rest
  <2>3. pending_commands \in Seq(Nat) /\ Len(pending_commands) = p
    BY <1>2
  <2>4. /\ Len(rest \o pending_commands) = Len(rest) + p /\ DOMAIN (rest \o pending_commands) = 1 .. Len(rest) + p
        /\ \A i \in 1 .. Len(rest) : (rest \o pending_commands)[i] = rest[i]
        /\ \A i \in 1 .. Len(rest) + p :
             i > Len(rest) => (rest \o pending_commands)[i] = pending_commands[i - Len(rest)]
    BY <2>2, <2>3, ConcatFacts
  <2> QED
    BY <2>1, <2>2, <2>4 DEF rest
<1> HIDE DEF n, c, p
<1>6. \A i \in 1 .. n - 1 : Waiting'[i] = Waiting[i + 1]
  <2> SUFFICES ASSUME NEW i \in 1 .. n - 1
               PROVE  Waiting'[i] = Waiting[i + 1]
    OBVIOUS
  <2>1. CASE i <= c - 1
    BY <1>2, <1>4, <1>5, <2>1, SMTT(30)
  <2>2. CASE i > c - 1
    <3>1. c \in Nat /\ p \in Nat /\ i \in Nat /\ 1 <= i /\ i <= (c + p) - 1 /\ c - 1 < i
      BY <1>2, <1>4, <2>2
    <3>2. (i + 1) - c = i - (c - 1) /\ i + 1 \in 1 .. c + p /\ i + 1 > c /\ i \in 1 .. (c - 1) + p
      BY <3>1
    <3> QED
      BY <1>4, <1>5, <2>2, <3>2
  <2> QED
    BY <1>2, <1>4, <2>1, <2>2
<1>7. commands[1] = IF finished + 1 <= received THEN finished + 1 ELSE 0
  BY <1>1, <1>2, <1>4
<1>8. finished' = finished + (IF finished + 1 <= received THEN 1 ELSE 0)
  BY <1>1, <1>2, <1>7
<1>9. Len(Waiting') = n - 1 /\ DOMAIN Waiting' = 1 .. n - 1 /\ n >= 1
  BY <1>2, <1>4, <1>5, SMTT(30)
<1>10. \A i \in 1 .. n - 1 : Waiting'[i] = IF finished + (i + 1) <= received THEN finished + (i + 1) ELSE 0
  BY <1>1, <1>6
<1>11. LinesInOrder' /\ finished' <= received'
  <2>1. CASE finished + 1 <= received
    <3>1. finished' = finished + 1
      BY <1>8, <2>1
    <3>2. \A i \in 1 .. n - 1 : Waiting'[i] = IF finished' + i <= received THEN finished' + i ELSE 0
      BY <1>1, <1>10, <3>1
    <3> QED
      BY <1>1, <1>3, <1>9, <2>1, <3>1, <3>2 DEF LinesInOrder
  <2>2. CASE finished = received
    <3>1. finished' = finished
      BY <1>1, <1>8, <2>2
    <3>2. \A i \in 1 .. n - 1 : Waiting'[i] = IF finished + i <= received THEN finished + i ELSE 0
      BY <1>1, <1>10, <2>2
    <3> QED
      BY <1>1, <1>3, <1>9, <2>2, <3>1, <3>2 DEF LinesInOrder
  <2> QED
    BY <1>1, <2>1, <2>2
<1>12. EndComesLast'
  <2>1. ASSUME finished + n = received
        PROVE  finished' + (n - 1) = received
    BY <1>1, <1>8, <1>9, <2>1
  <2> QED
    BY <1>3, <1>9, <2>1 DEF LinesInv, EndComesLast, n
<1> QED
  BY <1>11, <1>12 DEF LinesInv

\* Every line is run once, in the order it came, whatever pauses and however often reading
\* stops, and the end of a debug file comes last (commander.py 491-533).
THEOREM LinesStayInOrder ==
  ASSUME MaxRead \in Nat, MaxLines \in Nat
  PROVE  InitDispatch /\ [][NextDispatch]_dispatch_vars => []LinesInOrder
<1>1. InitDispatch => LinesInv
  BY DEF InitDispatch, LinesInv, LinesTyped, EndComesLast, LinesInOrder, Waiting
<1>2. LinesInv /\ [NextDispatch]_dispatch_vars => LinesInv'
  <2> SUFFICES ASSUME LinesInv, [NextDispatch]_dispatch_vars
               PROVE  LinesInv'
    OBVIOUS
  <2>0. LinesTyped /\ LinesTyped'
    BY LinesAreTyped DEF LinesInv
  <2>1. ASSUME UNCHANGED <<finished, received, halves>>, Waiting' = Waiting,
               Len(lines_sent') < MaxLines \/ halves > 0 => Len(lines_sent) < MaxLines \/ halves > 0
        PROVE  LinesInv'
    BY <2>0, <2>1 DEF LinesInv, EndComesLast, LinesInOrder
  <2>2. ASSUME UNCHANGED <<input, counts, commands, pending_commands>>
        PROVE  LinesInv'
    BY <2>1, <2>2 DEF input, counts, Waiting
  <2>3. CASE \E kind \in Kinds : HostSendsLine(kind)
    <3>1. Len(lines_sent) < MaxLines /\ UNCHANGED <<finished, received, commands, pending_commands>>
      BY <2>3 DEF HostSendsLine, counts
    <3> QED
      BY <2>0, <3>1 DEF LinesInv, EndComesLast, LinesInOrder, Waiting
  <2>4. CASE \E n \in 1 .. MaxRead : ProcessData(n)
    <3> PICK n \in 1 .. MaxRead : ProcessData(n)
      BY <2>4
    <3>1. n <= halves /\ Read(n) /\ UNCHANGED <<commands, finished>>
          /\ pending_commands' = pending_commands \o Completed(n)
      BY DEF ProcessData, ProcessPending, counts
    <3>2. halves > 0
      BY <2>0, <3>1 DEF LinesTyped
    <3> QED
      BY <2>0, <3>1, <3>2, ReadFacts, ReadInOrder
  <2>5. CASE ProcessEnd
    <3>1. /\ halves = 0 /\ Len(lines_sent) = MaxLines /\ UNCHANGED <<input, commands, finished>>
          /\ pending_commands' = Append(pending_commands, 0)
      BY <2>5 DEF ProcessEnd, counts
    <3> QED
      BY <2>0, <3>1, EndInOrder
  <2>6. CASE TakePending
    <3>1. commands = <<>> /\ commands' = pending_commands /\ pending_commands' = <<>> /\ UNCHANGED <<input, counts>>
      BY <2>6 DEF TakePending
    <3>2. Waiting' = Waiting
      BY <2>0, <3>1 DEF Waiting, LinesTyped
    <3> QED
      BY <2>1, <3>1, <3>2 DEF input, counts
  <2>7. CASE RunHandler
    BY <2>0, <2>2, <2>7, FinishedInOrder DEF RunHandler
  <2>8. CASE HandlerReturns
    BY <2>0, <2>8, FinishedInOrder DEF HandlerReturns, LinesTyped
  <2>9. CASE StopProcessing \/ RunScript \/ ScriptReturns \/ OtherScript
    BY <2>2, <2>9 DEF StopProcessing, RunScript, ScriptReturns, OtherScript
  <2>10. CASE UNCHANGED dispatch_vars
    BY <2>2, <2>10 DEF dispatch_vars
  <2> QED
    BY <2>3, <2>4, <2>5, <2>6, <2>7, <2>8, <2>9, <2>10 DEF NextDispatch, Processing
<1>3. LinesInv => LinesInOrder
  BY DEF LinesInv
<1> QED
  BY <1>1, <1>2, <1>3, PTL

\* All of it at once, as the runs check it.
THEOREM LinesAreKept ==
  ASSUME Limit \in Nat \ {0}, MaxRead \in Nat \ {0}, MaxLines \in Nat
  PROVE  InitDispatch /\ [][NextDispatch]_dispatch_vars => [](LinesInOrder /\ OneAckEach /\ PendingIsBounded)
<1>1. InitDispatch /\ [][NextDispatch]_dispatch_vars => []LinesInOrder
  BY LinesStayInOrder
<1>2. InitDispatch /\ [][NextDispatch]_dispatch_vars => []OneAckEach
  BY EachIsAnswered
<1>3. InitDispatch /\ [][NextDispatch]_dispatch_vars => []PendingIsBounded
  BY PendingStaysBounded
<1> QED
  BY <1>1, <1>2, <1>3, PTL

-----------------------------------------------------------------------------
(* Print jobs                                                              *)

\* Where an actor holds the mutex
Holding == {"ready", "stopping", "pausing", "saving", "restoring", "moving"}

\* The names of commands that somebody runs: the file, the host, the parts
JobNames ==
  HostCommands \cup {File[i] : i \in 1 .. Len(File)} \cup {"G1", "PAUSE", "M400", "M84", "UPDATE_DELAYED_GCODE"}

JobAssumed == File \in Seq(JobNames) /\ Chunk \in Nat \ {0}

LineNumbers == 1 .. Len(File)

PauseTyped ==
  is_paused \in BOOLEAN /\ sd_paused \in BOOLEAN /\ pause_command_sent \in BOOLEAN /\ restarted \in BOOLEAN

JobTyped ==
  /\ PauseTyped
  /\ mutex \in Actors \cup {"none"} /\ script \in [Actors -> Seq(JobNames)]
  /\ at \in [Actors -> Holding \cup {"none", "waiting", "loop", "callback", "sending", "delay"}]
  /\ work_timer \in {"None", "Set", "Running"} /\ lines \in Seq(LineNumbers)
  /\ file_position \in Nat /\ read_to \in Nat /\ sent \in Nat
  /\ must_pause_work \in BOOLEAN /\ cmd_from_sd \in BOOLEAN /\ current_file \in BOOLEAN
  /\ filament_present \in BOOLEAN /\ min_event \in {"NEVER", "ahead", "past"}
  /\ idle_state \in {"Idle", "Ready", "Printing"} /\ timeout_timer \in {"NEVER", "set", "running"}
  /\ toolhead \in {"moving", "stopped", "idle"}
  /\ delayed_timer \in {"NEVER", "set", "running"}
  /\ inside_timer \in BOOLEAN /\ repeat \in BOOLEAN /\ asked \in BOOLEAN

\* Who runs a script has the mutex and the commands that are left.  A delayed script
\* ends with a command that tells the timer.
MutexHeld == \A a \in Actors : at[a] \in Holding <=> mutex = a
ScriptsLeft ==
  /\ \A a \in Actors : at[a] \in Holding \cup {"waiting"} => script[a] # <<>>
  /\ script["delayed"] \in {<<>>, <<"G1">>, <<"UPDATE_DELAYED_GCODE", "M400">>, <<"M400">>}

\* The card is at work while its handler runs, and has read what it is about to run.
CardWorks ==
  /\ at["sd"] # "none" <=> work_timer = "Running"
  /\ at["sd"] # "waiting"
  /\ at["sd"] \in Holding => lines # <<>> /\ Len(script["sd"]) = 1
  /\ at["sd"] = "none" => lines = <<>>
  /\ LineIsAtPosition

\* The card was paused, or is about to be.
PauseAsked ==
  is_paused \/ pause_command_sent \/ (\E a \in Actors : at[a] = "pausing") \/ at["runout"] = "sending"
PauseHolds ==
  /\ sd_paused /\ ~restarted /\ PauseAsked => ~Active \/ must_pause_work
  /\ \A a \in Actors : at[a] = "saving" => pause_command_sent

DelayedTold ==
  /\ repeat \in BOOLEAN /\ asked \in BOOLEAN /\ delayed_timer \in {"NEVER", "set", "running"}
  /\ repeat => inside_timer
  /\ inside_timer => delayed_timer # "set"
  /\ DelayedAsAsked
DelayedRuns ==
  /\ inside_timer <=> at["delayed"] # "none"
  /\ at["delayed"] # "restoring"
  /\ DelayedTold

RunoutRuns == at["runout"] # "none" => min_event = "NEVER"

\* All but what is said of pausing
JobRuns ==
  /\ JobTyped /\ MutexHeld /\ ScriptsLeft /\ CardWorks /\ DelayedRuns /\ RunoutRuns /\ IdleTimerArmed

JobInv == JobRuns /\ PauseHolds

LEMMA InitJobInv == ASSUME InitJob PROVE JobInv
<1>1. JobTyped
  <2>1. <<>> \in Seq(JobNames) /\ <<>> \in Seq(LineNumbers)
    OBVIOUS
  <2>2. /\ script \in [Actors -> Seq(JobNames)] /\ lines \in Seq(LineNumbers)
        /\ at \in [Actors -> Holding \cup {"none", "waiting", "loop", "callback", "sending", "delay"}]
    BY <2>1 DEF InitJob
  <2> QED
    BY <2>2 DEF InitJob, JobTyped, PauseTyped
<1>2. MutexHeld /\ ScriptsLeft /\ CardWorks /\ RunoutRuns
  BY DEF InitJob, MutexHeld, ScriptsLeft, CardWorks, RunoutRuns, Actors, Holding, LineIsAtPosition
<1>3. DelayedRuns /\ IdleTimerArmed
  BY DEF InitJob, DelayedRuns, DelayedTold, DelayedAsAsked, IdleTimerArmed, Actors
<1>4. PauseHolds
  BY DEF InitJob, PauseHolds
<1> QED
  BY <1>1, <1>2, <1>3, <1>4 DEF JobInv, JobRuns

\* What is left of a delayed script when its first command is done
LEMMA DelayedTails ==
  ASSUME NEW s \in {<<"G1">>, <<"UPDATE_DELAYED_GCODE", "M400">>, <<"M400">>}
  PROVE  /\ Len(s) > 1 => Tail(s) = <<"M400">>
         /\ Head(s) \in {"G1", "UPDATE_DELAYED_GCODE", "M400"}
         /\ Head(s) = "UPDATE_DELAYED_GCODE" => Len(s) > 1
<1>1. CASE s = <<"UPDATE_DELAYED_GCODE", "M400">>
  <2>1. Len(s) = 2 /\ s[1] = "UPDATE_DELAYED_GCODE" /\ s[2] = "M400" /\ Head(s) = s[1]
    BY <1>1
  <2>2. Tail(s) = <<"M400">>
    BY <1>1
  <2> QED
    BY <2>1, <2>2
<1>2. CASE s = <<"G1">>
  <2>1. Len(s) = 1 /\ Head(s) = "G1"
    BY <1>2
  <2> QED
    BY <2>1
<1>3. CASE s = <<"M400">>
  <2>1. Len(s) = 1 /\ Head(s) = "M400"
    BY <1>3
  <2> QED
    BY <2>1
<1> QED
  BY <1>1, <1>2, <1>3

\* An actor goes to another place, with other commands left.
LEMMA ActorMoves ==
  ASSUME JobTyped, MutexHeld, ScriptsLeft,
         NEW b \in Actors, NEW place, NEW s \in Seq(JobNames),
         place \in Holding \cup {"none", "waiting", "loop", "callback", "sending", "delay"},
         at' = [at EXCEPT ![b] = place], script' = [script EXCEPT ![b] = s],
         place \in Holding \cup {"waiting"} => s # <<>>,
         b = "delayed" => s \in {<<>>, <<"G1">>, <<"UPDATE_DELAYED_GCODE", "M400">>, <<"M400">>},
         place \in Holding => mutex \in {b, "none"} /\ mutex' = b,
         place \notin Holding => mutex' = (IF mutex = b THEN "none" ELSE mutex)
  PROVE  /\ MutexHeld' /\ ScriptsLeft'
         /\ mutex' \in Actors \cup {"none"} /\ script' \in [Actors -> Seq(JobNames)]
         /\ at' \in [Actors -> Holding \cup {"none", "waiting", "loop", "callback", "sending", "delay"}]
         /\ at'[b] = place /\ script'[b] = s
         /\ \A c \in Actors \ {b} : at'[c] = at[c] /\ script'[c] = script[c]
<1>1. /\ at'[b] = place /\ script'[b] = s
      /\ \A c \in Actors \ {b} : at'[c] = at[c] /\ script'[c] = script[c]
  BY DEF JobTyped
<1>2. /\ script' \in [Actors -> Seq(JobNames)]
      /\ at' \in [Actors -> Holding \cup {"none", "waiting", "loop", "callback", "sending", "delay"}]
  BY DEF JobTyped
<1>3. mutex' \in Actors \cup {"none"} /\ "none" \notin Actors
  BY DEF JobTyped, Actors
<1>4. MutexHeld'
  <2> SUFFICES ASSUME NEW c \in Actors PROVE at'[c] \in Holding <=> mutex' = c
    BY DEF MutexHeld
  <2>1. at[c] \in Holding <=> mutex = c
    BY DEF MutexHeld
  <2>2. CASE c = b
    BY <1>1, <1>3, <2>1, <2>2
  <2>3. CASE c # b
    BY <1>1, <1>3, <2>1, <2>3
  <2> QED
    BY <2>2, <2>3
<1>5. ScriptsLeft'
  BY <1>1 DEF ScriptsLeft, Actors
<1> QED
  BY <1>1, <1>2, <1>3, <1>4, <1>5

\* The card goes on as it is.
LEMMA CardElsewhere ==
  ASSUME CardWorks, at'["sd"] = at["sd"], script'["sd"] = script["sd"],
         UNCHANGED <<work_timer, lines, file_position, read_to>>
  PROVE  CardWorks'
BY DEF CardWorks, LineIsAtPosition

\* Who runs a command that is not the card's
LEMMA RunsHolds ==
  ASSUME JobRuns, NEW b \in Actors, at[b] \in Holding
  PROVE  /\ mutex = b /\ script[b] # <<>> /\ script[b] \in Seq(JobNames)
         /\ b = "sd" => work_timer = "Running" /\ Active /\ Len(script[b]) = 1 /\ lines # <<>>
         /\ b = "delayed" => inside_timer /\ script[b] \in {<<"G1">>, <<"UPDATE_DELAYED_GCODE", "M400">>, <<"M400">>}
         /\ b = "runout" => min_event = "NEVER"
<1>1. at[b] # "none"
  BY DEF Holding
<1> QED
  BY <1>1 DEF JobRuns, JobTyped, MutexHeld, ScriptsLeft, CardWorks, Active, DelayedRuns, RunoutRuns

LEMMA ShortTail == ASSUME NEW q \in Seq(JobNames), q # <<>> PROVE Tail(q) \in Seq(JobNames)
<1>1. Len(q) \in Nat /\ Len(q) # 0
  OBVIOUS
<1> QED
  BY <1>1

LEMMA LongTail ==
  ASSUME NEW q \in Seq(JobNames), Len(q) > 1
  PROVE  Tail(q) \in Seq(JobNames) /\ Tail(q) # <<>>
<1>1. Tail(q) \in Seq(JobNames) /\ Len(Tail(q)) = Len(q) - 1
  OBVIOUS
<1>2. Len(Tail(q)) # 0
  BY <1>1
<1>3. Len(<<>>) = 0
  OBVIOUS
<1> QED
  BY <1>1, <1>2, <1>3

\* A command ends, and with the last one the script and what its actor does after it.
LEMMA ScriptGoesOn ==
  ASSUME JobRuns, NEW b \in Actors, at[b] \in Holding, Len(script[b]) > 1, NextCommand(b), PauseTyped', sent' = sent
  PROVE  JobRuns' /\ at'[b] = "ready" /\ \A c \in Actors \ {b} : at'[c] = at[c]
<1>0. JobTyped /\ MutexHeld /\ ScriptsLeft /\ CardWorks /\ DelayedRuns /\ RunoutRuns /\ IdleTimerArmed
  BY DEF JobRuns
<1>1. /\ mutex = b /\ b # "sd" /\ script[b] \in Seq(JobNames)
      /\ b = "delayed" => Tail(script[b]) = <<"M400">>
  <2>1. /\ mutex = b /\ script[b] \in Seq(JobNames) /\ (b = "sd" => Len(script[b]) = 1)
        /\ b = "delayed" => script[b] \in {<<"G1">>, <<"UPDATE_DELAYED_GCODE", "M400">>, <<"M400">>}
    BY RunsHolds
  <2>2. b # "sd"
    <3>1. PICK q \in Seq(JobNames) : q = script[b]
      BY <2>1
    <3>2. Len(q) > 1 /\ (b = "sd" => Len(q) = 1)
      BY <2>1, <3>1
    <3>3. Len(q) # 1
      BY <3>2, SMT
    <3> QED
      BY <3>2, <3>3, Zenon
  <2>3. b = "delayed" => Tail(script[b]) = <<"M400">>
    BY <2>1, DelayedTails
  <2> QED
    BY <2>1, <2>2, <2>3
<1>2. Tail(script[b]) \in Seq(JobNames) /\ Tail(script[b]) # <<>>
  <2>1. PICK q \in Seq(JobNames) : q = script[b]
    BY <1>1
  <2>2. Len(q) > 1 /\ Len(q) \in Nat
    BY <2>1
  <2> QED
    BY <2>1, <2>2, LongTail
<1>3. at' = [at EXCEPT ![b] = "ready"] /\ script' = [script EXCEPT ![b] = Tail(script[b])] /\ mutex' = mutex
  BY DEF NextCommand, GoTo
<1>4. /\ MutexHeld' /\ ScriptsLeft'
      /\ mutex' \in Actors \cup {"none"} /\ script' \in [Actors -> Seq(JobNames)]
      /\ at' \in [Actors -> Holding \cup {"none", "waiting", "loop", "callback", "sending", "delay"}]
      /\ at'[b] = "ready" /\ \A c \in Actors \ {b} : at'[c] = at[c] /\ script'[c] = script[c]
  <2> DEFINE s == Tail(script[b])
  <2>1. s \in Seq(JobNames) /\ s # <<>> /\ (b = "delayed" => s = <<"M400">>)
    BY <1>1, <1>2
  <2> HIDE DEF s
  <2>2. script' = [script EXCEPT ![b] = s]
    BY <1>3 DEF s
  <2>3. "ready" \in Holding
    BY DEF Holding
  <2> QED
    BY <1>0, <1>1, <1>3, <2>1, <2>2, <2>3, ActorMoves
<1>5. UNCHANGED <<sd, sensor, idle, delayed>>
  BY DEF NextCommand
<1>6. JobTyped'
  BY <1>0, <1>4, <1>5 DEF JobTyped, sd, sensor, idle, delayed
<1>7. CardWorks'
  BY <1>0, <1>1, <1>4, <1>5, CardElsewhere DEF sd, Actors
<1>8. DelayedRuns' /\ RunoutRuns' /\ IdleTimerArmed'
  <2>1. (at["delayed"] # "none" <=> at'["delayed"] # "none") /\ at'["delayed"] # "restoring"
    BY <1>0, <1>4 DEF DelayedRuns, Actors, Holding
  <2>2. at["runout"] # "none" <=> at'["runout"] # "none"
    BY <1>4 DEF Actors, Holding
  <2> QED
    BY <1>0, <1>5, <2>1, <2>2 DEF DelayedRuns, DelayedTold, DelayedAsAsked, RunoutRuns, IdleTimerArmed, sensor, idle, delayed
<1> QED
  BY <1>4, <1>6, <1>7, <1>8 DEF JobRuns

LEMMA ScriptEnds ==
  ASSUME JobRuns, NEW b \in Actors, at[b] \in Holding, NEW ok \in BOOLEAN, EndScript(b, ok), PauseTyped', sent' = sent
  PROVE  /\ JobRuns' /\ at'[b] \in {"none", "loop"} /\ \A c \in Actors \ {b} : at'[c] = at[c]
         /\ must_pause_work' = must_pause_work /\ (Active' => Active)
<1>0. JobTyped /\ MutexHeld /\ ScriptsLeft /\ CardWorks /\ DelayedRuns /\ RunoutRuns /\ IdleTimerArmed
  BY DEF JobRuns
<1>1. /\ mutex = b /\ (b = "sd" => work_timer = "Running" /\ lines # <<>>)
  BY RunsHolds
<1>2. PICK place : place = IF b = "sd" /\ ok THEN "loop" ELSE "none"
  OBVIOUS
<1>3. at' = [at EXCEPT ![b] = place] /\ script' = [script EXCEPT ![b] = <<>>] /\ mutex' = "none"
  BY <1>2 DEF EndScript, GoTo
<1>4. /\ MutexHeld' /\ ScriptsLeft'
      /\ mutex' \in Actors \cup {"none"} /\ script' \in [Actors -> Seq(JobNames)]
      /\ at' \in [Actors -> Holding \cup {"none", "waiting", "loop", "callback", "sending", "delay"}]
      /\ at'[b] = place /\ \A c \in Actors \ {b} : at'[c] = at[c] /\ script'[c] = script[c]
  <2>1. place \notin Holding \cup {"waiting"} /\ <<>> \in Seq(JobNames)
    BY <1>2 DEF Holding
  <2> QED
    BY <1>0, <1>1, <1>2, <1>3, <2>1, ActorMoves
<1>5. /\ CardWorks' /\ must_pause_work' = must_pause_work /\ (Active' => Active)
      /\ work_timer' \in {"None", "Set", "Running"} /\ lines' \in Seq(LineNumbers)
      /\ file_position' \in Nat /\ read_to' \in Nat
      /\ must_pause_work' \in BOOLEAN /\ cmd_from_sd' \in BOOLEAN /\ current_file' \in BOOLEAN
  <2>1. CASE b = "sd" /\ ok
    <3>1. LineDone /\ work_timer' = work_timer /\ at'["sd"] = "loop"
      BY <1>2, <1>4, <2>1 DEF EndScript
    <3>2. Len(Tail(lines)) = Len(lines) - 1 /\ Tail(lines) \in Seq(LineNumbers)
      BY <1>0, <1>1, <2>1 DEF JobTyped
    <3>3. at["sd"] # "none" /\ Len(lines) \in Nat
      BY <1>0, <2>1 DEF Holding, JobTyped
    <3>4. read_to' = file_position' + Len(lines')
      <4>1. read_to = file_position + Len(lines) /\ file_position \in Nat
        BY <1>0, <3>3 DEF CardWorks, LineIsAtPosition, JobTyped
      <4>2. file_position' = file_position + 1 /\ Len(lines') = Len(lines) - 1 /\ read_to' = read_to
        BY <3>1, <3>2 DEF LineDone
      <4> QED
        BY <4>1, <4>2, <3>3
    <3>5. "loop" \notin Holding
      BY DEF Holding
    <3>6. CardWorks'
      BY <1>1, <2>1, <3>1, <3>4, <3>5 DEF CardWorks, LineIsAtPosition
    <3>7. /\ must_pause_work' = must_pause_work /\ work_timer' = work_timer /\ lines' \in Seq(LineNumbers)
          /\ file_position' \in Nat /\ read_to' = read_to /\ cmd_from_sd' = FALSE /\ current_file' = current_file
      BY <1>0, <3>1, <3>2 DEF LineDone, JobTyped
    <3> QED
      BY <1>0, <3>6, <3>7 DEF JobTyped, Active
  <2>2. CASE b = "sd" /\ ~ok
    <3>1. LeaveWork /\ current_file' = current_file /\ at'["sd"] = "none"
      BY <1>2, <1>4, <2>2 DEF EndScript
    <3>2. "none" \notin Holding /\ <<>> \in Seq(LineNumbers)
      BY DEF Holding
    <3> QED
      BY <1>0, <3>1, <3>2 DEF CardWorks, LineIsAtPosition, LeaveWork, JobTyped, Active
  <2>3. CASE b # "sd"
    <3>1. UNCHANGED sd
      BY <2>3 DEF EndScript
    <3>2. CardWorks'
      BY <1>0, <1>4, <2>3, <3>1, CardElsewhere DEF sd, Actors
    <3> QED
      BY <1>0, <3>1, <3>2 DEF sd, JobTyped, Active
  <2> QED
    BY <2>1, <2>2, <2>3
<1>6. /\ DelayedRuns'
      /\ delayed_timer' \in {"NEVER", "set", "running"}
      /\ inside_timer' \in BOOLEAN /\ repeat' \in BOOLEAN /\ asked' \in BOOLEAN
  <2>1. CASE b = "delayed"
    <3>1. at'["delayed"] = "none" /\ DelayedDone
      BY <1>2, <1>4, <2>1 DEF EndScript, After
    <3> QED
      BY <1>0, <3>1 DEF DelayedRuns, DelayedTold, DelayedAsAsked, DelayedDone, JobTyped
  <2>2. CASE b # "delayed"
    <3>1. at'["delayed"] = at["delayed"] /\ UNCHANGED delayed
      BY <1>4, <2>2 DEF EndScript, After, Actors
    <3> QED
      BY <1>0, <3>1 DEF DelayedRuns, DelayedTold, DelayedAsAsked, delayed, JobTyped
  <2> QED
    BY <2>1, <2>2
<1>7. RunoutRuns' /\ filament_present' \in BOOLEAN /\ min_event' \in {"NEVER", "ahead", "past"}
  <2>1. CASE b = "runout"
    <3>1. at'["runout"] = "none" /\ EventDone
      BY <1>2, <1>4, <2>1 DEF EndScript, After
    <3> QED
      BY <1>0, <3>1 DEF RunoutRuns, EventDone, JobTyped
  <2>2. CASE b # "runout"
    <3>1. at'["runout"] = at["runout"] /\ UNCHANGED sensor
      BY <1>4, <2>2 DEF EndScript, After, Actors
    <3> QED
      BY <1>0, <3>1 DEF RunoutRuns, sensor, JobTyped
  <2> QED
    BY <2>1, <2>2
<1>8. /\ IdleTimerArmed' /\ idle_state' \in {"Idle", "Ready", "Printing"} /\ timeout_timer' \in {"NEVER", "set", "running"}
      /\ toolhead' \in {"moving", "stopped", "idle"}
  <2>1. CASE b = "idle"
    BY <1>0, <2>1 DEF EndScript, After, IdleDone, IdleTimerArmed, JobTyped
  <2>2. CASE b # "idle"
    BY <1>0, <2>2 DEF EndScript, After, idle, IdleTimerArmed, JobTyped
  <2> QED
    BY <2>1, <2>2
<1>9. JobTyped'
  <2>1. sent' \in Nat
    BY <1>0 DEF JobTyped
  <2> QED
    BY <1>4, <1>5, <1>6, <1>7, <1>8, <2>1 DEF JobTyped
<1> QED
  BY <1>2, <1>4, <1>5, <1>6, <1>7, <1>8, <1>9 DEF JobRuns

LEMMA CommandDone ==
  ASSUME JobRuns, NEW b \in Actors, at[b] \in Holding, Done(b) \/ Raise(b), PauseTyped', sent' = sent
  PROVE  /\ JobRuns' /\ at'[b] \in {"ready", "none", "loop"} /\ \A c \in Actors \ {b} : at'[c] = at[c]
         /\ must_pause_work' = must_pause_work /\ (Active' => Active)
<1>1. CASE Len(script[b]) > 1 /\ NextCommand(b)
  <2>1. JobRuns' /\ at'[b] = "ready" /\ \A c \in Actors \ {b} : at'[c] = at[c]
    BY <1>1, ScriptGoesOn
  <2>2. must_pause_work' = must_pause_work /\ (Active' => Active)
    BY <1>1 DEF NextCommand, sd, Active
  <2> QED
    BY <2>1, <2>2
<1>2. ASSUME NEW ok \in BOOLEAN, EndScript(b, ok)
      PROVE  /\ JobRuns' /\ at'[b] \in {"none", "loop"} /\ \A c \in Actors \ {b} : at'[c] = at[c]
             /\ must_pause_work' = must_pause_work /\ (Active' => Active)
  BY <1>2, ScriptEnds
<1>3. (Len(script[b]) > 1 /\ NextCommand(b)) \/ EndScript(b, TRUE) \/ EndScript(b, FALSE)
  BY DEF Done, Raise
<1>4. CASE EndScript(b, TRUE)
  BY <1>2, <1>4
<1>5. CASE EndScript(b, FALSE)
  BY <1>2, <1>5
<1> QED
  BY <1>1, <1>3, <1>4, <1>5

\* A command waits, or goes on at another place of its handler.
LEMMA HolderMoves ==
  ASSUME JobRuns, NEW b \in Actors, at[b] \in Holding, NEW place \in Holding, GoTo(b, place),
         b = "delayed" => place # "restoring",
         UNCHANGED <<mutex, script, work_timer, current_file, file_position, lines, read_to, sensor, delayed, sent>>,
         must_pause_work' \in BOOLEAN, cmd_from_sd' \in BOOLEAN, PauseTyped',
         idle_state' \in {"Idle", "Ready", "Printing"}, timeout_timer' \in {"NEVER", "set", "running"},
         toolhead' \in {"moving", "stopped", "idle"}, IdleTimerArmed'
  PROVE  JobRuns' /\ at'[b] = place /\ \A c \in Actors \ {b} : at'[c] = at[c]
<1>0. JobTyped /\ MutexHeld /\ ScriptsLeft /\ CardWorks /\ DelayedRuns /\ RunoutRuns
  BY DEF JobRuns
<1>1. PICK left \in Seq(JobNames) : left = script[b]
  BY <1>0 DEF JobTyped
<1>2. /\ at' = [at EXCEPT ![b] = place] /\ script' = [script EXCEPT ![b] = left] /\ mutex = b /\ mutex' = b
      /\ left # <<>> /\ script' = script
      /\ b = "delayed" => left \in {<<>>, <<"G1">>, <<"UPDATE_DELAYED_GCODE", "M400">>, <<"M400">>}
  BY <1>0, <1>1 DEF GoTo, JobTyped, MutexHeld, ScriptsLeft
<1>3. place \in Holding \cup {"none", "waiting", "loop", "callback", "sending", "delay"}
  OBVIOUS
<1>4. /\ MutexHeld' /\ ScriptsLeft'
      /\ mutex' \in Actors \cup {"none"} /\ script' \in [Actors -> Seq(JobNames)]
      /\ at' \in [Actors -> Holding \cup {"none", "waiting", "loop", "callback", "sending", "delay"}]
      /\ at'[b] = place /\ \A c \in Actors \ {b} : at'[c] = at[c] /\ script'[c] = script[c]
  BY <1>0, <1>2, <1>3, ActorMoves
<1>5. JobTyped'
  BY <1>0, <1>4 DEF JobTyped, sensor, delayed
<1>6. \A c \in Actors : (at[c] \in Holding <=> at'[c] \in Holding) /\ (at[c] = at'[c] \/ at[c] \in Holding)
  BY <1>4
<1>7. CardWorks' /\ DelayedRuns' /\ RunoutRuns'
  <2>1. \A c \in Actors : (at[c] # "none" <=> at'[c] # "none") /\ (at[c] = "waiting" <=> at'[c] = "waiting")
    BY <1>6 DEF Holding
  <2>2. {"sd", "delayed", "runout"} \subseteq Actors
    BY DEF Actors
  <2>3. at'["delayed"] # "restoring"
    BY <1>0, <1>4, <2>2 DEF DelayedRuns
  <2> QED
    BY <1>0, <1>2, <1>6, <2>1, <2>2, <2>3
    DEF CardWorks, LineIsAtPosition, DelayedRuns, DelayedTold, DelayedAsAsked, RunoutRuns, delayed, sensor
<1> QED
  BY <1>4, <1>5, <1>7 DEF JobRuns

\* A command that touches the card, which is idle, or the timer of the delayed script
LEMMA Released ==
  ASSUME JobRuns, NEW b \in Actors \ {"sd"}, at[b] \in Holding, b = "delayed" => Head(script[b]) = "UPDATE_DELAYED_GCODE", Release(b),
         UNCHANGED <<cmd_from_sd, lines, read_to, sensor, idle, inside_timer, sent>>,
         \/ work_timer' = work_timer /\ file_position' = file_position
         \/ ~Active /\ work_timer' \in {"None", "Set"} /\ file_position' \in Nat,
         must_pause_work' \in BOOLEAN, current_file' \in BOOLEAN, PauseTyped',
         DelayedTold'
  PROVE  JobRuns' /\ at'[b] \in {"ready", "none"} /\ \A c \in Actors \ {b} : at'[c] = at[c]
<1>0. JobTyped /\ MutexHeld /\ ScriptsLeft /\ CardWorks /\ DelayedRuns /\ RunoutRuns /\ IdleTimerArmed
  BY DEF JobRuns
<1>1. /\ mutex = b /\ script[b] \in Seq(JobNames) /\ script[b] # <<>>
      /\ b = "delayed" => script[b] \in {<<"G1">>, <<"UPDATE_DELAYED_GCODE", "M400">>, <<"M400">>}
  BY RunsHolds
<1>2. PICK place, left : /\ place = (IF Len(script[b]) > 1 THEN "ready" ELSE "none") /\ left = Tail(script[b])
  OBVIOUS
<1>3. /\ left \in Seq(JobNames) /\ (place = "ready" => left # <<>>)
      /\ b = "delayed" => place = "ready" /\ left = <<"M400">>
  <2>1. PICK q \in Seq(JobNames) : q = script[b] /\ q # <<>>
    BY <1>1
  <2>2. Tail(q) \in Seq(JobNames)
    BY <2>1, ShortTail
  <2>3. place = "ready" => Tail(q) # <<>>
    BY <1>2, <2>1, LongTail
  <2>4. b = "delayed" => place = "ready" /\ Tail(q) = <<"M400">>
    BY <1>1, <1>2, <2>1, DelayedTails
  <2> QED
    BY <1>2, <2>1, <2>2, <2>3, <2>4
<1>4. /\ at' = [at EXCEPT ![b] = place] /\ script' = [script EXCEPT ![b] = left]
      /\ mutex' = IF place = "ready" THEN b ELSE "none"
  BY <1>2 DEF Release, GoTo
<1>5. /\ place \in {"ready", "none"} /\ (place \in Holding <=> place = "ready") /\ place # "waiting"
      /\ place \in Holding \cup {"none", "waiting", "loop", "callback", "sending", "delay"}
  BY <1>2 DEF Holding
<1>6. /\ MutexHeld' /\ ScriptsLeft'
      /\ mutex' \in Actors \cup {"none"} /\ script' \in [Actors -> Seq(JobNames)]
      /\ at' \in [Actors -> Holding \cup {"none", "waiting", "loop", "callback", "sending", "delay"}]
      /\ at'[b] = place /\ \A c \in Actors \ {b} : at'[c] = at[c] /\ script'[c] = script[c]
  BY <1>0, <1>1, <1>3, <1>4, <1>5, ActorMoves
<1>7. JobTyped'
  BY <1>0, <1>6 DEF JobTyped, sensor, idle, DelayedTold
<1>8. at'["sd"] = at["sd"] /\ script'["sd"] = script["sd"]
  BY <1>6 DEF Actors
<1>9. CardWorks'
  <2>1. CASE work_timer' = work_timer /\ file_position' = file_position
    BY <1>0, <1>8, <2>1, CardElsewhere
  <2>2. CASE ~Active /\ work_timer' \in {"None", "Set"}
    <3>1. at["sd"] = "none" /\ lines = <<>>
      BY <1>0, <2>2 DEF CardWorks, Active
    <3>2. "none" \notin Holding
      BY DEF Holding
    <3> QED
      BY <1>8, <2>2, <3>1, <3>2 DEF CardWorks, LineIsAtPosition
  <2> QED
    BY <2>1, <2>2
<1>10. DelayedRuns'
  <2>1. at["delayed"] # "none" <=> at'["delayed"] # "none"
    <3>1. CASE b = "delayed"
      BY <1>3, <1>6, <3>1 DEF Holding
    <3>2. CASE b # "delayed"
      BY <1>6, <3>2 DEF Actors
    <3> QED
      BY <3>1, <3>2
  <2>2. at'["delayed"] # "restoring"
    BY <1>0, <1>5, <1>6 DEF DelayedRuns, Actors
  <2> QED
    BY <1>0, <2>1, <2>2 DEF DelayedRuns
<1>11. RunoutRuns' /\ IdleTimerArmed'
  <2>1. at'["runout"] # "none" => at["runout"] # "none"
    BY <1>6 DEF Actors, Holding
  <2> QED
    BY <1>0, <2>1 DEF RunoutRuns, IdleTimerArmed, sensor, idle
<1> QED
  BY <1>5, <1>6, <1>7, <1>9, <1>10, <1>11 DEF JobRuns

-----------------------------------------------------------------------------
\* One actor has the mutex.
LEMMA OneHolder ==
  ASSUME JobRuns, NEW b \in Actors, at[b] \in Holding, NEW c \in Actors \ {b}
  PROVE  at[c] \notin Holding
BY DEF JobRuns, MutexHeld

\* Nobody begins to pause, and what is asked of the card stays so.
LEMMA PauseKept ==
  ASSUME PauseHolds, \A c \in Actors : at'[c] = at[c] \/ at'[c] \notin {"pausing", "saving", "sending"},
         UNCHANGED pause, must_pause_work => must_pause_work', Active' => Active
  PROVE  PauseHolds'
<1>1. PauseAsked' => PauseAsked
  BY DEF PauseAsked, pause, Actors
<1>2. \A c \in Actors : at'[c] = "saving" => pause_command_sent'
  BY DEF PauseHolds, pause
<1> QED
  BY <1>1, <1>2 DEF PauseHolds, pause

\* Who holds the mutex ends the pause, or makes of a request a pause.
LEMMA PauseChanges ==
  ASSUME JobInv, NEW b \in Actors, at[b] \in Holding, at'[b] \notin {"pausing", "saving", "sending"},
         \A c \in Actors \ {b} : at'[c] = at[c],
         must_pause_work => must_pause_work', Active' => Active, sd_paused' = sd_paused, restarted => restarted',
         is_paused' => is_paused \/ pause_command_sent, pause_command_sent' => pause_command_sent
  PROVE  PauseHolds'
<1>1. \A c \in Actors : at'[c] \notin {"pausing", "saving"}
  <2>1. \A c \in Actors \ {b} : at'[c] \notin Holding
    BY OneHolder DEF JobInv
  <2> QED
    BY <2>1 DEF Holding
<1>2. PauseAsked' => PauseAsked
  BY <1>1 DEF PauseAsked, Actors
<1> QED
  BY <1>1, <1>2 DEF PauseHolds, JobInv

\* send_pause_command asks the card to pause unless somebody did.
LEMMA PauseSent ==
  ASSUME JobInv, SendPause, UNCHANGED <<work_timer, is_paused, restarted>>,
         NEW b \in Actors, \A c \in Actors \ {b} : at'[c] = at[c],
         at'[b] = "saving" => pause_command_sent \/ ~Active
  PROVE  PauseHolds' /\ must_pause_work' \in BOOLEAN /\ sd_paused' \in BOOLEAN /\ pause_command_sent' \in BOOLEAN
<1>0. /\ must_pause_work \in BOOLEAN /\ sd_paused \in BOOLEAN /\ pause_command_sent \in BOOLEAN
      /\ Active \in BOOLEAN /\ (Active' <=> Active) /\ PauseHolds
  BY DEF JobInv, JobRuns, JobTyped, PauseTyped, Active
<1>1. CASE pause_command_sent
  <2>1. UNCHANGED <<sd_paused, pause_command_sent, must_pause_work>>
    BY <1>1 DEF SendPause
  <2> QED
    BY <1>0, <1>1, <2>1 DEF PauseHolds, PauseAsked
<1>2. CASE ~pause_command_sent
  <2>1. sd_paused' = Active /\ must_pause_work' = (must_pause_work \/ Active) /\ pause_command_sent' = ~Active
    BY <1>2 DEF SendPause, AskPause
  <2>2. \A c \in Actors : at'[c] = "saving" => ~Active
    BY <1>0, <1>2 DEF PauseHolds
  <2>3. /\ must_pause_work' \in BOOLEAN /\ sd_paused' \in BOOLEAN /\ pause_command_sent' \in BOOLEAN
        /\ (sd_paused' => Active) /\ (Active => must_pause_work') /\ (pause_command_sent' <=> ~Active)
    BY <1>0, <2>1
  <2> QED
    BY <1>0, <2>2, <2>3 DEF PauseHolds
<1> QED
  BY <1>1, <1>2

-----------------------------------------------------------------------------
(* The commands                                                            *)

\* A command that is done, with the pauses as they were
LEMMA QuietStep ==
  ASSUME JobInv, NEW b \in Actors, SdBusy(b) \/ M25Returns(b) \/ PauseAgain(b) \/ ResumeNot(b) \/ WaitEnds(b)
  PROVE  JobInv'
<1>0. JobRuns /\ PauseHolds /\ PauseTyped
  BY DEF JobInv, JobRuns, JobTyped
<1>1. at[b] \in Holding /\ (Done(b) \/ Raise(b)) /\ UNCHANGED <<pause, sent>>
  BY DEF SdBusy, M25Returns, PauseAgain, ResumeNot, WaitEnds, Runs, Holding
<1>2. PauseTyped' /\ sent' = sent
  BY <1>0, <1>1 DEF PauseTyped, pause
<1>3. /\ JobRuns' /\ at'[b] \in {"ready", "none", "loop"} /\ \A c \in Actors \ {b} : at'[c] = at[c]
      /\ must_pause_work' = must_pause_work /\ (Active' => Active)
  BY <1>0, <1>1, <1>2, CommandDone
<1>4. PauseHolds'
  <2>1. \A c \in Actors : at'[c] = at[c] \/ at'[c] \notin {"pausing", "saving", "sending"}
    BY <1>3
  <2> QED
    BY <1>0, <1>1, <1>3, <2>1, PauseKept
<1> QED
  BY <1>3, <1>4 DEF JobInv

\* PAUSE ends, or somebody clears it.
LEMMA ClearStep ==
  ASSUME JobInv, NEW b \in Actors, PauseSaves(b) \/ CLEAR_PAUSE(b)
  PROVE  JobInv'
<1>0. JobRuns /\ PauseHolds /\ PauseTyped
  BY DEF JobInv, JobRuns, JobTyped
<1>1. at[b] \in Holding /\ (Done(b) \/ Raise(b)) /\ UNCHANGED <<sd_paused, restarted, sent>>
  BY DEF PauseSaves, CLEAR_PAUSE, Runs, Holding
<1>2. /\ is_paused' => is_paused \/ pause_command_sent
      /\ pause_command_sent' => pause_command_sent
      /\ is_paused' \in BOOLEAN /\ pause_command_sent' \in BOOLEAN
  <2>1. CASE PauseSaves(b)
    BY <1>0, <2>1 DEF PauseSaves, PauseHolds, PauseTyped
  <2>2. CASE CLEAR_PAUSE(b)
    BY <2>2 DEF CLEAR_PAUSE
  <2> QED
    BY <2>1, <2>2
<1>3. PauseTyped' /\ sent' = sent
  BY <1>0, <1>1, <1>2 DEF PauseTyped
<1>4. /\ JobRuns' /\ at'[b] \in {"ready", "none", "loop"} /\ \A c \in Actors \ {b} : at'[c] = at[c]
      /\ must_pause_work' = must_pause_work /\ (Active' => Active)
  BY <1>0, <1>1, <1>3, CommandDone
<1>5. PauseHolds'
  BY <1>1, <1>2, <1>4, PauseChanges
<1> QED
  BY <1>4, <1>5 DEF JobInv

\* A command that begins to wait
LEMMA WaitStep ==
  ASSUME JobInv, NEW b \in Actors, M25(b) \/ RESUME(b) \/ G1(b) \/ M400(b) \/ M84Waits(b)
  PROVE  JobInv'
<1>0. JobRuns /\ JobTyped /\ PauseHolds /\ PauseTyped /\ IdleTimerArmed
  BY DEF JobInv, JobRuns, JobTyped
<1>1. /\ at[b] \in Holding /\ \E place \in {"stopping", "restoring", "moving"} : GoTo(b, place)
      /\ UNCHANGED <<mutex, script, work_timer, cmd_from_sd, current_file, file_position, lines, read_to,
                     pause, sensor, delayed, sent>>
  BY DEF M25, RESUME, G1, M400, M84Waits, Runs, Holding, sd
<1>2. must_pause_work' \in BOOLEAN /\ (must_pause_work => must_pause_work')
  <2>1. UNCHANGED must_pause_work \/ AskPause
    BY DEF M25, RESUME, G1, M400, M84Waits, sd
  <2> QED
    BY <1>0, <2>1 DEF AskPause, JobTyped, Active
<1>3. /\ idle_state' \in {"Idle", "Ready", "Printing"} /\ timeout_timer' \in {"NEVER", "set", "running"}
      /\ toolhead' \in {"moving", "stopped", "idle"} /\ IdleTimerArmed'
  <2>1. CASE UNCHANGED idle
    BY <1>0, <2>1 DEF idle, JobTyped, IdleTimerArmed
  <2>2. CASE G1(b)
    BY <1>0, <2>2 DEF G1, SyncPrintTime, JobTyped, IdleTimerArmed
  <2> QED
    BY <2>1, <2>2 DEF M25, RESUME, M400, M84Waits
<1>4. cmd_from_sd' \in BOOLEAN /\ PauseTyped'
  BY <1>0, <1>1 DEF JobTyped, PauseTyped, pause
<1>5. PICK place \in {"stopping", "restoring", "moving"} : GoTo(b, place)
  BY <1>1
<1>6. JobRuns' /\ at'[b] = place /\ \A c \in Actors \ {b} : at'[c] = at[c]
  <2>1. place \in Holding
    BY DEF Holding
  <2>2. b = "delayed" => place # "restoring"
    <3>1. b = "delayed" => ~RESUME(b)
      BY <1>0, <1>1, RunsHolds, DelayedTails DEF RESUME, Runs
    <3>2. at'[b] = place
      BY <1>0, <1>5 DEF GoTo, JobTyped
    <3>3. ~RESUME(b) => at'[b] \in {"stopping", "moving"}
      BY <1>0 DEF M25, G1, M400, M84Waits, GoTo, JobTyped
    <3> QED
      BY <3>1, <3>2, <3>3
  <2> QED
    BY <1>0, <1>1, <1>2, <1>3, <1>4, <1>5, <2>1, <2>2, HolderMoves
<1>7. PauseHolds'
  <2>1. \A c \in Actors : at'[c] = at[c] \/ at'[c] \notin {"pausing", "saving", "sending"}
    BY <1>6
  <2>2. Active' => Active
    BY <1>1 DEF Active
  <2> QED
    BY <1>0, <1>1, <1>2, <2>1, <2>2, PauseKept
<1> QED
  BY <1>6, <1>7 DEF JobInv

\* PAUSE asks the card to stop, and waits for it unless somebody did before.
LEMMA PauseStep == ASSUME JobInv, NEW b \in Actors, PAUSE(b) PROVE JobInv'
<1>0. JobRuns /\ JobTyped /\ PauseHolds /\ PauseTyped /\ IdleTimerArmed
  BY DEF JobInv, JobRuns, JobTyped
<1>1. PICK place : place = IF ~pause_command_sent /\ Active THEN "pausing" ELSE "saving"
  OBVIOUS
<1>2. /\ at[b] \in Holding /\ place \in Holding /\ place # "restoring" /\ GoTo(b, place) /\ SendPause
      /\ UNCHANGED <<mutex, script, work_timer, cmd_from_sd, current_file, file_position, lines, read_to,
                     is_paused, restarted, sensor, idle, delayed, sent>>
  BY <1>1 DEF PAUSE, Runs, Holding
<1>3. at'[b] = place /\ \A c \in Actors \ {b} : at'[c] = at[c]
  BY <1>0, <1>2 DEF GoTo, JobTyped
<1>4. PauseHolds' /\ must_pause_work' \in BOOLEAN /\ sd_paused' \in BOOLEAN /\ pause_command_sent' \in BOOLEAN
  <2>1. at'[b] = "saving" => pause_command_sent \/ ~Active
    BY <1>1, <1>3
  <2> QED
    BY <1>2, <1>3, <2>1, PauseSent
<1>5. PauseTyped' /\ cmd_from_sd' \in BOOLEAN /\ IdleTimerArmed'
  BY <1>0, <1>2, <1>4 DEF PauseTyped, JobTyped, IdleTimerArmed, idle
<1>6. JobRuns'
  BY <1>0, <1>2, <1>4, <1>5, HolderMoves DEF JobTyped, idle
<1> QED
  BY <1>4, <1>6 DEF JobInv

LEMMA PauseReturnsStep == ASSUME JobInv, NEW b \in Actors, PauseReturns(b) PROVE JobInv'
<1>0. JobRuns /\ JobTyped /\ PauseHolds /\ PauseTyped /\ IdleTimerArmed
  BY DEF JobInv, JobRuns, JobTyped
<1>1. /\ at[b] = "pausing" /\ "pausing" \in Holding /\ "saving" \in Holding /\ GoTo(b, "saving")
      /\ pause_command_sent' = TRUE
      /\ UNCHANGED <<mutex, script, sd, is_paused, sd_paused, restarted, sensor, idle, delayed, sent>>
  BY DEF PauseReturns, Holding
<1>2. PauseTyped' /\ cmd_from_sd' \in BOOLEAN /\ must_pause_work' \in BOOLEAN /\ IdleTimerArmed'
  BY <1>0, <1>1 DEF PauseTyped, JobTyped, IdleTimerArmed, idle, sd
<1>3. JobRuns'
  BY <1>0, <1>1, <1>2, HolderMoves DEF JobTyped, idle, sd
<1>4. PauseHolds'
  <2>1. PauseAsked
    BY <1>1 DEF PauseAsked
  <2> QED
    BY <1>0, <1>1, <2>1 DEF PauseHolds, sd, Active
<1> QED
  BY <1>3, <1>4 DEF JobInv

\* The card is started, which overtakes a pause, if there is one.
LEMMA M24Step == ASSUME JobInv, NEW b \in Actors, M24(b) PROVE JobInv'
<1>0. JobRuns /\ JobTyped /\ PauseHolds /\ PauseTyped /\ DelayedRuns
  BY DEF JobInv, JobRuns, JobTyped
<1>1. /\ at[b] = "ready" /\ "ready" \in Holding /\ Head(script[b]) = "M24" /\ ~Active /\ Release(b)
      /\ work_timer' = "Set" /\ must_pause_work' = FALSE
      /\ restarted' = (restarted \/ Overtakes)
      /\ UNCHANGED <<cmd_from_sd, current_file, file_position, lines, read_to, sensor, idle, delayed, sent,
                     is_paused, sd_paused, pause_command_sent>>
  BY DEF M24, StartWork, RestOf, Runs, Holding
<1>2. b # "sd" /\ b # "delayed"
  BY <1>0, <1>1, RunsHolds, DelayedTails
<1>3. restarted' \in BOOLEAN /\ (restarted => restarted') /\ (Overtakes => restarted')
  BY <1>0, <1>1 DEF PauseTyped, Overtakes
<1>4. /\ PauseTyped' /\ must_pause_work' \in BOOLEAN /\ current_file' \in BOOLEAN
      /\ file_position' \in Nat /\ work_timer' \in {"None", "Set"}
      /\ DelayedTold'
  BY <1>0, <1>1, <1>3 DEF PauseTyped, JobTyped, DelayedRuns, DelayedTold, DelayedAsAsked, delayed
<1>5. JobRuns' /\ at'[b] \in {"ready", "none"} /\ \A c \in Actors \ {b} : at'[c] = at[c]
  BY <1>0, <1>1, <1>2, <1>4, Released DEF delayed
<1>6. PauseHolds'
  <2>1. \A c \in Actors : at'[c] \notin {"pausing", "saving"}
    <3>1. \A c \in Actors \ {b} : at[c] \notin Holding
      BY <1>0, <1>1, OneHolder
    <3> QED
      BY <1>5, <3>1 DEF Holding
  <2>2. PauseAsked' => restarted'
    <3>1. PauseAsked' => Overtakes
      BY <1>1, <1>5, <2>1 DEF PauseAsked, Overtakes, Actors
    <3> QED
      BY <1>3, <3>1
  <2> QED
    BY <2>1, <2>2 DEF PauseHolds
<1> QED
  BY <1>5, <1>6 DEF JobInv

\* Commands that are refused while the card is at work
LEMMA PositionStep ==
  ASSUME JobInv, JobAssumed, NEW b \in Actors, M23(b) \/ M26(b)
  PROVE  JobInv'
<1>0. JobRuns /\ JobTyped /\ PauseHolds /\ PauseTyped /\ DelayedRuns
  BY DEF JobInv, JobRuns, JobTyped
<1>1. /\ at[b] = "ready" /\ "ready" \in Holding /\ Head(script[b]) \in {"M23", "M26"} /\ ~Active /\ Release(b)
      /\ file_position' \in {0} \cup 0 .. Len(File) /\ current_file' \in BOOLEAN \cup {current_file}
      /\ UNCHANGED <<work_timer, must_pause_work, cmd_from_sd, lines, read_to, pause, sensor, idle, delayed, sent>>
  BY DEF M23, M26, RestOf, Runs, Holding
<1>2. b # "sd" /\ b # "delayed"
  BY <1>0, <1>1, RunsHolds, DelayedTails
<1>3. /\ PauseTyped' /\ must_pause_work' \in BOOLEAN /\ current_file' \in BOOLEAN
      /\ DelayedTold'
  BY <1>0, <1>1 DEF PauseTyped, JobTyped, DelayedRuns, DelayedTold, DelayedAsAsked, delayed, pause
<1>4. file_position' \in Nat
  BY <1>1, JobAssumed DEF JobAssumed
<1>5. work_timer' \in {"None", "Set"}
  BY <1>0, <1>1 DEF JobTyped, Active
<1>6. JobRuns' /\ at'[b] \in {"ready", "none"} /\ \A c \in Actors \ {b} : at'[c] = at[c]
  BY <1>0, <1>1, <1>2, <1>3, <1>4, <1>5, Released DEF delayed
<1>7. PauseHolds'
  <2>1. \A c \in Actors : at'[c] = at[c] \/ at'[c] \notin {"pausing", "saving", "sending"}
    BY <1>6
  <2> QED
    BY <1>0, <1>1, <2>1, PauseKept DEF Active
<1> QED
  BY <1>6, <1>7 DEF JobInv

LEMMA UpdateStep == ASSUME JobInv, NEW b \in Actors, UPDATE_DELAYED_GCODE(b) PROVE JobInv'
<1>0. JobRuns /\ JobTyped /\ PauseHolds /\ PauseTyped /\ DelayedRuns
  BY DEF JobInv, JobRuns, JobTyped
<1>1. /\ at[b] = "ready" /\ "ready" \in Holding /\ Head(script[b]) = "UPDATE_DELAYED_GCODE" /\ b # "sd" /\ Release(b)
      /\ UNCHANGED <<inside_timer, sd, pause, sensor, idle, sent>>
  BY DEF UPDATE_DELAYED_GCODE, Runs, Holding
<1>3. PICK wanted \in BOOLEAN :
        /\ asked' = wanted
        /\ IF inside_timer THEN repeat' = wanted /\ UNCHANGED delayed_timer
           ELSE delayed_timer' = (IF wanted THEN "set" ELSE "NEVER") /\ UNCHANGED repeat
  BY DEF UPDATE_DELAYED_GCODE
<1>4. DelayedTold'
  <2>1. CASE inside_timer
    BY <1>0, <1>1, <1>3, <2>1 DEF JobTyped, DelayedRuns, DelayedTold, DelayedAsAsked
  <2>2. CASE ~inside_timer
    BY <1>0, <1>1, <1>3, <2>2 DEF JobTyped, DelayedRuns, DelayedTold, DelayedAsAsked
  <2> QED
    BY <2>1, <2>2
<1>5. /\ PauseTyped' /\ must_pause_work' \in BOOLEAN /\ current_file' \in BOOLEAN
      /\ UNCHANGED <<cmd_from_sd, lines, read_to, sensor, idle, inside_timer, sent>>
      /\ work_timer' = work_timer /\ file_position' = file_position /\ b \in Actors \ {"sd"}
  BY <1>0, <1>1 DEF PauseTyped, JobTyped, pause, sd
<1>6. JobRuns' /\ at'[b] \in {"ready", "none"} /\ \A c \in Actors \ {b} : at'[c] = at[c]
  <2>1. /\ JobRuns /\ b \in Actors \ {"sd"} /\ at[b] \in Holding /\ Release(b)
        /\ b = "delayed" => Head(script[b]) = "UPDATE_DELAYED_GCODE"
    BY <1>0, <1>1, <1>5
  <2>2. \/ work_timer' = work_timer /\ file_position' = file_position
        \/ ~Active /\ work_timer' \in {"None", "Set"} /\ file_position' \in Nat
    BY <1>5
  <2> QED
    BY <1>4, <1>5, <2>1, <2>2, Released
<1>7. PauseHolds'
  <2>1. \A c \in Actors : at'[c] = at[c] \/ at'[c] \notin {"pausing", "saving", "sending"}
    BY <1>6
  <2> QED
    BY <1>0, <1>1, <2>1, PauseKept DEF Active, sd
<1> QED
  BY <1>6, <1>7 DEF JobInv

\* RESUME starts the card again if the pause stopped it.
LEMMA ResumeStep == ASSUME JobInv, NEW b \in Actors, ResumeMoved(b) PROVE JobInv'
<1>0. JobRuns /\ JobTyped /\ PauseHolds /\ PauseTyped /\ DelayedRuns
  BY DEF JobInv, JobRuns, JobTyped
<1>1. /\ at[b] = "restoring" /\ "restoring" \in Holding
      /\ is_paused' = FALSE /\ pause_command_sent' = FALSE
      /\ restarted' = (sd_paused /\ at["runout"] # "none")
      /\ sd_paused' = sd_paused /\ sent' = sent
  BY DEF ResumeMoved, Holding
<1>2. PauseTyped'
  BY <1>0, <1>1 DEF PauseTyped
<1>3. JobRuns' /\ at'[b] \in {"ready", "none", "loop"} /\ \A c \in Actors \ {b} : at'[c] = at[c]
  <2>1. CASE sd_paused /\ ~Active
    <3>1. /\ Release(b) /\ work_timer' = "Set" /\ must_pause_work' = FALSE
          /\ UNCHANGED <<cmd_from_sd, current_file, file_position, lines, read_to, sensor, idle, delayed>>
      BY <2>1 DEF ResumeMoved, StartWork
    <3>2. b # "sd" /\ b # "delayed"
      BY <1>0, <1>1, <2>1, RunsHolds DEF DelayedRuns
    <3>3. /\ must_pause_work' \in BOOLEAN /\ current_file' \in BOOLEAN
          /\ file_position' \in Nat /\ work_timer' \in {"None", "Set"}
          /\ DelayedTold'
      BY <1>0, <3>1 DEF JobTyped, DelayedRuns, DelayedTold, DelayedAsAsked, delayed
    <3> QED
      BY <1>0, <1>1, <1>2, <2>1, <3>1, <3>2, <3>3, Released DEF delayed
  <2>2. CASE Done(b) \/ Raise(b)
    BY <1>0, <1>1, <1>2, <2>2, CommandDone
  <2> QED
    BY <2>1, <2>2 DEF ResumeMoved
<1>4. PauseHolds'
  <2>1. \A c \in Actors : at'[c] \notin {"pausing", "saving"}
    <3>1. \A c \in Actors \ {b} : at[c] \notin Holding
      BY <1>0, <1>1, OneHolder
    <3> QED
      BY <1>3, <3>1 DEF Holding
  <2>2. PauseAsked' => at["runout"] = "sending"
    BY <1>1, <1>3, <2>1 DEF PauseAsked, Actors
  <2>3. PauseAsked' => (sd_paused' => restarted')
    BY <1>0, <1>1, <2>2 DEF PauseTyped
  <2> QED
    BY <2>1, <2>3 DEF PauseHolds
<1> QED
  BY <1>3, <1>4 DEF JobInv

-----------------------------------------------------------------------------
(* The card, the runout sensor and the timers                             *)

\* An actor that does not hold the mutex goes to a place where it does not.
LEMMA OutsiderMoves ==
  ASSUME JobTyped, MutexHeld, ScriptsLeft, NEW b \in Actors, at[b] \notin Holding,
         NEW place \in {"none", "loop", "callback", "sending", "delay"},
         GoTo(b, place), UNCHANGED <<mutex, script>>
  PROVE  /\ MutexHeld' /\ ScriptsLeft'
         /\ mutex' \in Actors \cup {"none"} /\ script' \in [Actors -> Seq(JobNames)]
         /\ at' \in [Actors -> Holding \cup {"none", "waiting", "loop", "callback", "sending", "delay"}]
         /\ at'[b] = place /\ \A c \in Actors \ {b} : at'[c] = at[c]
<1>1. PICK left \in Seq(JobNames) : left = script[b]
  BY DEF JobTyped
<1>2. /\ at' = [at EXCEPT ![b] = place] /\ script' = [script EXCEPT ![b] = left] /\ mutex # b /\ mutex' = mutex
      /\ b = "delayed" => left \in {<<>>, <<"G1">>, <<"UPDATE_DELAYED_GCODE", "M400">>, <<"M400">>}
  BY <1>1 DEF GoTo, JobTyped, MutexHeld, ScriptsLeft
<1>3. /\ place \notin Holding /\ place # "waiting"
      /\ place \in Holding \cup {"none", "waiting", "loop", "callback", "sending", "delay"}
  BY DEF Holding
<1> QED
  BY <1>2, <1>3, ActorMoves

\* A script is submitted by an actor that has none.
LEMMA SubmitMoves ==
  ASSUME JobTyped, MutexHeld, ScriptsLeft, NEW b \in Actors, at[b] \notin Holding,
         NEW batch \in Seq(JobNames), batch # <<>>, Submit(b, batch),
         b = "delayed" => batch \in {<<"G1">>, <<"UPDATE_DELAYED_GCODE", "M400">>}
  PROVE  /\ MutexHeld' /\ ScriptsLeft'
         /\ mutex' \in Actors \cup {"none"} /\ script' \in [Actors -> Seq(JobNames)]
         /\ at' \in [Actors -> Holding \cup {"none", "waiting", "loop", "callback", "sending", "delay"}]
         /\ at'[b] = "waiting" /\ \A c \in Actors \ {b} : at'[c] = at[c] /\ script'[c] = script[c]
<1>1. /\ at' = [at EXCEPT ![b] = "waiting"] /\ script' = [script EXCEPT ![b] = batch] /\ mutex # b /\ mutex' = mutex
  BY DEF Submit, GoTo, MutexHeld
<1>2. "waiting" \notin Holding
  BY DEF Holding
<1> QED
  BY <1>1, <1>2, ActorMoves

\* All other actors take their next step as before.
LEMMA OthersRest ==
  ASSUME DelayedRuns, RunoutRuns, NEW b \in Actors, \A c \in Actors \ {b} : at'[c] = at[c],
         UNCHANGED <<delayed, sensor>>,
         b = "delayed" => at[b] # "none" /\ at'[b] \notin {"none", "restoring"},
         b = "runout" => at[b] # "none"
  PROVE  DelayedRuns' /\ RunoutRuns'
<1>1. (at["delayed"] # "none" <=> at'["delayed"] # "none") /\ at'["delayed"] # "restoring"
  BY DEF Actors, DelayedRuns
<1>2. at'["runout"] # "none" => at["runout"] # "none"
  BY DEF Actors
<1> QED
  BY <1>1, <1>2 DEF DelayedRuns, DelayedTold, DelayedAsAsked, RunoutRuns, delayed, sensor

\* The work handler begins, reads and ends.
LEMMA WorkStep ==
  ASSUME JobInv, JobAssumed, WorkStarts \/ WorkReads \/ WorkEnds
  PROVE  JobInv'
<1>0. /\ JobRuns /\ JobTyped /\ MutexHeld /\ ScriptsLeft /\ CardWorks /\ DelayedRuns /\ RunoutRuns /\ IdleTimerArmed
      /\ PauseHolds /\ PauseTyped /\ LineIsAtPosition
  BY DEF JobInv, JobRuns, JobTyped, CardWorks
<1>1. /\ UNCHANGED <<mutex, script, must_pause_work, file_position, pause, sensor, idle, delayed, sent>>
      /\ at["sd"] \notin Holding /\ (Active' => Active)
      /\ UNCHANGED at \/ GoTo("sd", "loop") \/ GoTo("sd", "none")
  BY <1>0 DEF WorkStarts, WorkReads, WorkEnds, LeaveWork, Active, Holding, CardWorks
<1>2. /\ MutexHeld' /\ ScriptsLeft'
      /\ mutex' \in Actors \cup {"none"} /\ script' \in [Actors -> Seq(JobNames)]
      /\ at' \in [Actors -> Holding \cup {"none", "waiting", "loop", "callback", "sending", "delay"}]
      /\ at'["sd"] \in {at["sd"], "loop", "none"} /\ \A c \in Actors \ {"sd"} : at'[c] = at[c]
  <2>1. CASE UNCHANGED at
    BY <1>0, <1>1, <2>1 DEF MutexHeld, ScriptsLeft, JobTyped
  <2>2. ASSUME NEW place \in {"loop", "none"}, GoTo("sd", place)
        PROVE  /\ MutexHeld' /\ ScriptsLeft'
               /\ mutex' \in Actors \cup {"none"} /\ script' \in [Actors -> Seq(JobNames)]
               /\ at' \in [Actors -> Holding \cup {"none", "waiting", "loop", "callback", "sending", "delay"}]
               /\ at'["sd"] = place /\ \A c \in Actors \ {"sd"} : at'[c] = at[c]
    <3>1. "sd" \in Actors
      BY DEF Actors
    <3> QED
      BY <1>0, <1>1, <2>2, <3>1, OutsiderMoves
  <2> QED
    BY <1>1, <2>1, <2>2
<1>3. /\ lines' \in Seq(LineNumbers) /\ read_to' \in Nat /\ work_timer' \in {"None", "Set", "Running"}
      /\ cmd_from_sd' \in BOOLEAN /\ current_file' \in BOOLEAN /\ CardWorks'
  <2>1. CASE WorkStarts
    <3>1. at["sd"] = "none" /\ lines = <<>> /\ work_timer = "Set"
      BY <1>0, <2>1 DEF WorkStarts, CardWorks
    <3>2. at'["sd"] = (IF current_file THEN "loop" ELSE "none")
      BY <1>0, <2>1, <3>1 DEF WorkStarts, GoTo, JobTyped, Actors
    <3>3. Len(<<>>) = 0 /\ file_position \in Nat
      BY <1>0 DEF JobTyped
    <3> QED
      BY <1>0, <2>1, <3>1, <3>2, <3>3 DEF WorkStarts, CardWorks, LineIsAtPosition, JobTyped, Holding
  <2>2. CASE WorkReads
    <3>1. PICK upto : upto = IF read_to + Chunk < Len(File) THEN read_to + Chunk ELSE Len(File)
      OBVIOUS
    <3>2. /\ at["sd"] = "loop" /\ lines = <<>> /\ read_to < Len(File)
          /\ lines' = [k \in 1 .. upto - read_to |-> read_to + k] /\ read_to' = upto
          /\ UNCHANGED <<at, work_timer, cmd_from_sd, current_file, file_position>>
      BY <2>2, <3>1 DEF WorkReads
    <3>3. PICK size \in Nat : size = Len(File)
      BY JobAssumed DEF JobAssumed
    <3>4. upto \in Nat /\ read_to < upto /\ read_to \in Nat
      BY <1>0, <3>1, <3>2, <3>3, JobAssumed DEF JobAssumed, JobTyped
    <3>5. lines' \in Seq(LineNumbers) /\ Len(lines') = upto - read_to
      <4>1. PICK n \in Nat : n = upto - read_to
        BY <3>4
      <4>2. lines' = [k \in 1 .. n |-> read_to + k]
        BY <3>2, <4>1
      <4>3. \A k \in 1 .. n : read_to + k \in LineNumbers
        BY <3>1, <3>3, <3>4, <4>1 DEF LineNumbers
      <4>4. lines' \in Seq(LineNumbers) /\ Len(lines') = n
        BY <4>2, <4>3
      <4> QED
        BY <4>1, <4>4
    <3>6. read_to = file_position + 0 /\ file_position \in Nat
      <4>1. Len(lines) = 0
        BY <3>2
      <4> QED
        BY <1>0, <3>2, <4>1 DEF LineIsAtPosition, JobTyped
    <3>7. read_to' = file_position' + Len(lines')
      BY <3>2, <3>4, <3>5, <3>6
    <3>8. "loop" \notin Holding /\ work_timer = "Running"
      BY <1>0, <3>2 DEF Holding, CardWorks
    <3> QED
      BY <1>0, <3>2, <3>4, <3>5, <3>7, <3>8 DEF CardWorks, LineIsAtPosition, JobTyped
  <2>3. CASE WorkEnds
    <3>1. /\ at'["sd"] = "none" /\ work_timer' = "None" /\ cmd_from_sd' = FALSE /\ lines' = <<>>
          /\ read_to' = read_to /\ current_file' \in {current_file, FALSE}
      BY <1>0, <2>3 DEF WorkEnds, LeaveWork, GoTo, JobTyped, Actors
    <3>2. CardWorks'
      BY <3>1 DEF CardWorks, LineIsAtPosition, Holding
    <3>3. <<>> \in Seq(LineNumbers) /\ read_to \in Nat /\ current_file \in BOOLEAN
      BY <1>0 DEF JobTyped
    <3> QED
      BY <3>1, <3>2, <3>3
  <2> QED
    BY <2>1, <2>2, <2>3
<1>4. JobTyped'
  BY <1>0, <1>1, <1>2, <1>3 DEF JobTyped, PauseTyped, pause, sensor, idle, delayed
<1>5. DelayedRuns' /\ RunoutRuns' /\ IdleTimerArmed'
  <2>1. at'["delayed"] = at["delayed"] /\ at'["runout"] = at["runout"]
    BY <1>2 DEF Actors
  <2> QED
    BY <1>0, <1>1, <2>1
    DEF DelayedRuns, DelayedTold, DelayedAsAsked, RunoutRuns, IdleTimerArmed, delayed, sensor, idle
<1>6. PauseHolds'
  <2>1. \A c \in Actors : at'[c] = at[c] \/ at'[c] \notin {"pausing", "saving", "sending"}
    BY <1>2
  <2> QED
    BY <1>0, <1>1, <2>1, PauseKept
<1> QED
  BY <1>2, <1>3, <1>4, <1>5, <1>6 DEF JobInv, JobRuns

\* The mutex is free, and the card or who waits takes it.
LEMMA TakeStep ==
  ASSUME JobInv, JobAssumed, NEW b \in Actors, TakeMutex(b) \/ (b = "sd" /\ WorkDispatches)
  PROVE  JobInv'
<1>0. /\ JobRuns /\ JobTyped /\ MutexHeld /\ ScriptsLeft /\ CardWorks /\ DelayedRuns /\ RunoutRuns /\ IdleTimerArmed
      /\ PauseHolds /\ PauseTyped
  BY DEF JobInv, JobRuns, JobTyped
<1>1. /\ mutex = "none" /\ mutex' = b /\ at[b] \in {"waiting", "loop"} /\ (at[b] = "waiting" <=> b # "sd")
      /\ GoTo(b, "ready") /\ (b = "sd" => lines # <<>>)
      /\ UNCHANGED <<work_timer, must_pause_work, current_file, file_position, lines, read_to,
                     pause, sensor, idle, delayed, sent>>
  BY <1>0 DEF TakeMutex, WorkDispatches, CardWorks, sd
<1>2. PICK left \in Seq(JobNames) : script' = [script EXCEPT ![b] = left] /\ left # <<>> /\ (b # "sd" => left = script[b])
                               /\ (b = "sd" => Len(left) = 1)
  <2>1. CASE TakeMutex(b)
    <3>1. PICK left \in Seq(JobNames) : left = script[b]
      BY <1>0 DEF JobTyped
    <3>2. script' = [script EXCEPT ![b] = left] /\ left # <<>> /\ b # "sd"
      BY <1>0, <1>1, <2>1, <3>1 DEF TakeMutex, JobTyped, ScriptsLeft
    <3> QED
      BY <3>1, <3>2
  <2>2. CASE b = "sd" /\ WorkDispatches
    <3>1. PICK left : left = <<File[Head(lines)]>>
      OBVIOUS
    <3>2. script' = [script EXCEPT ![b] = left]
      BY <2>2, <3>1 DEF WorkDispatches
    <3>3. left \in Seq(JobNames) /\ left # <<>> /\ Len(left) = 1
      <4>1. lines \in Seq(LineNumbers) /\ lines # <<>>
        BY <1>0, <1>1, <2>2 DEF JobTyped
      <4>2. PICK first \in 1 .. Len(File) : first = Head(lines)
        <5>1. Head(lines) \in LineNumbers
          BY <4>1
        <5> QED
          BY <5>1 DEF LineNumbers
      <4>3. File[first] \in JobNames
        BY JobAssumed DEF JobAssumed
      <4> QED
        BY <3>1, <4>2, <4>3
    <3> QED
      BY <2>2, <3>2, <3>3
  <2> QED
    BY <2>1, <2>2
<1>3. /\ at' = [at EXCEPT ![b] = "ready"] /\ mutex \in {b, "none"} /\ at[b] \notin Holding /\ at[b] # "none"
      /\ "ready" \in Holding
      /\ b = "delayed" => left \in {<<>>, <<"G1">>, <<"UPDATE_DELAYED_GCODE", "M400">>, <<"M400">>}
  BY <1>0, <1>1, <1>2 DEF GoTo, ScriptsLeft, Holding
<1>4. /\ MutexHeld' /\ ScriptsLeft'
      /\ mutex' \in Actors \cup {"none"} /\ script' \in [Actors -> Seq(JobNames)]
      /\ at' \in [Actors -> Holding \cup {"none", "waiting", "loop", "callback", "sending", "delay"}]
      /\ at'[b] = "ready" /\ script'[b] = left /\ \A c \in Actors \ {b} : at'[c] = at[c] /\ script'[c] = script[c]
  BY <1>0, <1>1, <1>2, <1>3, ActorMoves
<1>5. cmd_from_sd' \in BOOLEAN
  BY <1>0 DEF TakeMutex, WorkDispatches, sd, JobTyped
<1>6. JobTyped' /\ IdleTimerArmed'
  BY <1>0, <1>1, <1>4, <1>5 DEF JobTyped, PauseTyped, pause, sensor, idle, delayed, IdleTimerArmed
<1>7. CardWorks'
  <2>1. CASE b = "sd"
    <3>1. at["sd"] # "none" /\ at'["sd"] = "ready"
      BY <1>3, <1>4, <2>1
    <3> QED
      BY <1>0, <1>1, <1>2, <1>4, <2>1, <3>1 DEF CardWorks, LineIsAtPosition
  <2>2. CASE b # "sd"
    BY <1>0, <1>1, <1>4, <2>2, CardElsewhere DEF Actors
  <2> QED
    BY <2>1, <2>2
<1>8. DelayedRuns' /\ RunoutRuns'
  <2>1. UNCHANGED <<delayed, sensor>>
    BY <1>1
  <2> QED
    BY <1>0, <1>3, <1>4, <2>1, OthersRest
<1>9. PauseHolds'
  <2>1. \A c \in Actors : at'[c] = at[c] \/ at'[c] \notin {"pausing", "saving", "sending"}
    BY <1>4
  <2> QED
    BY <1>0, <1>1, <2>1, PauseKept DEF Active
<1> QED
  BY <1>4, <1>6, <1>7, <1>8, <1>9 DEF JobInv, JobRuns

\* The card and the other actors go on as they are.
LEMMA OutsiderGoesOn ==
  ASSUME JobRuns, NEW b \in Actors \ {"sd"}, at[b] \notin Holding,
         NEW place \in {"callback", "sending", "delay"}, GoTo(b, place), b # "delayed",
         UNCHANGED <<mutex, script, work_timer, cmd_from_sd, current_file, file_position, lines, read_to,
                     idle, delayed, sent>>,
         must_pause_work' \in BOOLEAN, PauseTyped', filament_present' \in BOOLEAN, min_event' \in {"NEVER", "ahead", "past"},
         RunoutRuns'
  PROVE  JobRuns' /\ at'[b] = place /\ \A c \in Actors \ {b} : at'[c] = at[c]
<1>0. /\ JobTyped /\ MutexHeld /\ ScriptsLeft /\ CardWorks /\ DelayedRuns /\ RunoutRuns /\ IdleTimerArmed
  BY DEF JobRuns
<1>1. /\ MutexHeld' /\ ScriptsLeft'
      /\ mutex' \in Actors \cup {"none"} /\ script' \in [Actors -> Seq(JobNames)]
      /\ at' \in [Actors -> Holding \cup {"none", "waiting", "loop", "callback", "sending", "delay"}]
      /\ at'[b] = place /\ \A c \in Actors \ {b} : at'[c] = at[c]
  <2>1. place \in {"none", "loop", "callback", "sending", "delay"}
    OBVIOUS
  <2> QED
    BY <1>0, <2>1, OutsiderMoves
<1>2. JobTyped' /\ IdleTimerArmed'
  BY <1>0, <1>1 DEF JobTyped, PauseTyped, idle, delayed, IdleTimerArmed
<1>3. CardWorks' /\ DelayedRuns'
  <2>1. at'["sd"] = at["sd"] /\ at'["delayed"] = at["delayed"]
    BY <1>1 DEF Actors
  <2> QED
    BY <1>0, <2>1, CardElsewhere DEF DelayedRuns, DelayedTold, DelayedAsAsked, delayed
<1> QED
  BY <1>1, <1>2, <1>3 DEF JobRuns

\* The runout sensor asks for a pause.
LEMMA NoteStep == ASSUME JobInv, NEW there \in BOOLEAN, NotePresent(there) PROVE JobInv'
<1>0. /\ JobRuns /\ JobTyped /\ PauseHolds /\ PauseTyped /\ RunoutRuns
  BY DEF JobInv, JobRuns, JobTyped
<1>1. UNCHANGED <<mutex, script, sd, pause, idle, delayed, sent>> /\ filament_present' = there
  BY DEF NotePresent
<1>2. CASE min_event = "past" /\ min_event' = "NEVER" /\ GoTo("runout", "callback")
  <2>1. at["runout"] = "none" /\ "none" \notin Holding /\ "runout" \in Actors \ {"sd"}
    BY <1>0, <1>2 DEF RunoutRuns, Holding, Actors
  <2>2. must_pause_work' \in BOOLEAN /\ PauseTyped' /\ RunoutRuns'
    BY <1>0, <1>1, <1>2 DEF JobTyped, PauseTyped, RunoutRuns, sd, pause
  <2>3. JobRuns' /\ at'["runout"] = "callback" /\ \A c \in Actors \ {"runout"} : at'[c] = at[c]
    BY <1>0, <1>1, <1>2, <2>1, <2>2, OutsiderGoesOn DEF sd
  <2>4. \A c \in Actors : at'[c] = at[c] \/ at'[c] \notin {"pausing", "saving", "sending"}
    BY <2>3
  <2>5. PauseHolds'
    BY <1>0, <1>1, <2>4, PauseKept DEF sd, Active
  <2> QED
    BY <2>3, <2>5 DEF JobInv
<1>3. CASE UNCHANGED <<min_event, at>>
  <2>1. JobTyped' /\ PauseTyped'
    BY <1>0, <1>1, <1>3 DEF JobTyped, PauseTyped, sd, pause, idle, delayed
  <2>2. MutexHeld' /\ ScriptsLeft' /\ CardWorks' /\ DelayedRuns' /\ RunoutRuns' /\ IdleTimerArmed'
    BY <1>1, <1>3
    DEF JobInv, JobRuns, MutexHeld, ScriptsLeft, CardWorks, LineIsAtPosition, DelayedRuns, DelayedTold, DelayedAsAsked,
        RunoutRuns, IdleTimerArmed, sd, idle, delayed
  <2>3. PauseHolds'
    BY <1>0, <1>1, <1>3, PauseKept DEF sd, Active
  <2> QED
    BY <2>1, <2>2, <2>3 DEF JobInv, JobRuns
<1> QED
  BY <1>2, <1>3 DEF NotePresent

LEMMA RunoutStep == ASSUME JobInv, RunoutEvent \/ RunoutSent PROVE JobInv'
<1>0. /\ JobRuns /\ JobTyped /\ PauseHolds /\ PauseTyped /\ RunoutRuns
  BY DEF JobInv, JobRuns, JobTyped
<1>1. /\ UNCHANGED <<mutex, script, work_timer, cmd_from_sd, current_file, file_position, lines, read_to,
                      is_paused, restarted, sensor, idle, delayed, sent>>
      /\ at["runout"] \in {"callback", "sending"}
  BY DEF RunoutEvent, RunoutSent, sd
<1>2. "runout" \in Actors \ {"sd"} /\ at["runout"] \notin Holding /\ at["runout"] # "none"
  BY <1>1 DEF Actors, Holding
<1>3. RunoutRuns' /\ filament_present' \in BOOLEAN /\ min_event' \in {"NEVER", "ahead", "past"}
  BY <1>0, <1>1, <1>2 DEF RunoutRuns, JobTyped, sensor
<1>4. CASE RunoutEvent
  <2>1. PICK place \in {"sending", "delay"} : GoTo("runout", place)
    BY <1>4 DEF RunoutEvent
  <2>2. at'["runout"] = place /\ \A c \in Actors \ {"runout"} : at'[c] = at[c]
    BY <1>0, <1>2, <2>1 DEF GoTo, JobTyped
  <2>3. PauseHolds' /\ must_pause_work' \in BOOLEAN /\ sd_paused' \in BOOLEAN /\ pause_command_sent' \in BOOLEAN
    BY <1>1, <1>2, <1>4, <2>2, PauseSent DEF RunoutEvent
  <2>4. PauseTyped'
    BY <1>0, <1>1, <2>3 DEF PauseTyped
  <2>5. JobRuns'
    BY <1>0, <1>1, <1>2, <1>3, <2>1, <2>3, <2>4, OutsiderGoesOn
  <2> QED
    BY <2>3, <2>5 DEF JobInv
<1>5. CASE RunoutSent
  <2>1. /\ GoTo("runout", "delay") /\ at["runout"] = "sending" /\ pause_command_sent' = TRUE
        /\ UNCHANGED <<must_pause_work, sd_paused>>
    BY <1>5 DEF RunoutSent, sd
  <2>2. PauseTyped' /\ must_pause_work' \in BOOLEAN
    BY <1>0, <1>1, <2>1 DEF PauseTyped, JobTyped
  <2>3. JobRuns'
    BY <1>0, <1>1, <1>2, <1>3, <2>1, <2>2, OutsiderGoesOn
  <2>4. PauseHolds'
    BY <1>0, <1>1, <2>1 DEF PauseHolds, PauseAsked, Active
  <2> QED
    BY <2>3, <2>4 DEF JobInv
<1> QED
  BY <1>4, <1>5

LEMMA ScriptOfOne ==
  ASSUME NEW S, NEW c \in S
  PROVE  <<c>> \in Seq(S) /\ <<c>> # <<>>
<1>1. <<c>> \in Seq(S)
  OBVIOUS
<1>2. Len(<<c>>) = 1 /\ Len(<<>>) = 0
  OBVIOUS
<1> QED
  BY <1>1, <1>2

LEMMA ScriptOfTwo ==
  ASSUME NEW S, NEW c \in S, NEW d \in S
  PROVE  <<c, d>> \in Seq(S) /\ <<c, d>> # <<>>
<1>1. <<c, d>> \in Seq(S)
  OBVIOUS
<1>2. Len(<<c, d>>) = 2 /\ Len(<<>>) = 0
  OBVIOUS
<1> QED
  BY <1>1, <1>2

\* The scripts of the sensor, the idle timeout and the timer
LEMMA ScriptsKnown ==
  /\ <<"M84">> \in Seq(JobNames) /\ <<"M84">> # <<>>
  /\ <<"G1">> \in Seq(JobNames) /\ <<"G1">> # <<>>
  /\ <<"PAUSE", "M400">> \in Seq(JobNames) /\ <<"PAUSE", "M400">> # <<>>
  /\ <<"UPDATE_DELAYED_GCODE", "M400">> \in Seq(JobNames) /\ <<"UPDATE_DELAYED_GCODE", "M400">> # <<>>
<1>1. /\ "M84" \in JobNames /\ "G1" \in JobNames /\ "PAUSE" \in JobNames /\ "M400" \in JobNames
      /\ "UPDATE_DELAYED_GCODE" \in JobNames
  BY DEF JobNames
<1>2. <<"M84">> \in Seq(JobNames) /\ <<"M84">> # <<>>
  BY <1>1, ScriptOfOne, Zenon
<1>3. <<"G1">> \in Seq(JobNames) /\ <<"G1">> # <<>>
  BY <1>1, ScriptOfOne, Zenon
<1>4. <<"PAUSE", "M400">> \in Seq(JobNames) /\ <<"PAUSE", "M400">> # <<>>
  BY <1>1, ScriptOfTwo, Zenon
<1>5. <<"UPDATE_DELAYED_GCODE", "M400">> \in Seq(JobNames) /\ <<"UPDATE_DELAYED_GCODE", "M400">> # <<>>
  BY <1>1, ScriptOfTwo, Zenon
<1> QED
  BY <1>2, <1>3, <1>4, <1>5

\* A script is submitted: by the runout sensor, the idle timeout, the timer or the host.
LEMMA SubmitStep ==
  ASSUME JobInv, RunoutScript \/ TransitionIdle \/ DelayedEvent \/ (\E c \in HostCommands : HostSends(c))
  PROVE  JobInv'
<1>0. /\ JobRuns /\ JobTyped /\ MutexHeld /\ ScriptsLeft /\ CardWorks /\ DelayedRuns /\ RunoutRuns /\ IdleTimerArmed
      /\ PauseHolds /\ PauseTyped
  BY DEF JobInv, JobRuns, JobTyped
<1>1. UNCHANGED <<sd, pause, sensor>>
  BY DEF RunoutScript, TransitionIdle, DelayedEvent, HostSends
<1>2. PICK b \in {"runout", "idle", "delayed", "host"}, batch \in Seq(JobNames) :
        /\ Submit(b, batch) /\ batch # <<>> /\ at[b] \notin Holding
        /\ b = "delayed" => DelayedEvent /\ batch \in {<<"G1">>, <<"UPDATE_DELAYED_GCODE", "M400">>}
        /\ b = "runout" => at[b] # "none"
        /\ b # "delayed" => UNCHANGED delayed
  <2>1. CASE RunoutScript
    <3>1. /\ Submit("runout", <<"PAUSE", "M400">>) /\ <<"PAUSE", "M400">> \in Seq(JobNames) /\ <<"PAUSE", "M400">> # <<>>
          /\ at["runout"] = "delay" /\ UNCHANGED delayed
      BY <2>1, ScriptsKnown DEF RunoutScript
    <3> QED
      BY <3>1 DEF Holding
  <2>2. CASE TransitionIdle
    <3>1. /\ Submit("idle", <<"M84">>) /\ <<"M84">> \in Seq(JobNames) /\ <<"M84">> # <<>>
          /\ mutex = "none" /\ UNCHANGED delayed
      BY <2>2, ScriptsKnown DEF TransitionIdle
    <3>2. at["idle"] \notin Holding
      BY <1>0, <3>1 DEF MutexHeld, Actors
    <3> QED
      BY <3>1, <3>2
  <2>3. CASE DelayedEvent
    <3>1. PICK batch \in {<<"G1">>, <<"UPDATE_DELAYED_GCODE", "M400">>} : Submit("delayed", batch)
      BY <2>3 DEF DelayedEvent
    <3>2. batch \in Seq(JobNames) /\ batch # <<>>
      <4>1. CASE batch = <<"G1">>
        BY <4>1, ScriptsKnown
      <4>2. CASE batch = <<"UPDATE_DELAYED_GCODE", "M400">>
        BY <4>2, ScriptsKnown
      <4> QED
        BY <4>1, <4>2
    <3>3. at["delayed"] = "none"
      BY <1>0, <2>3 DEF DelayedEvent, DelayedRuns, DelayedTold
    <3> QED
      BY <2>3, <3>1, <3>2, <3>3 DEF Holding
  <2>4. CASE \E c \in HostCommands : HostSends(c)
    <3>1. PICK c \in JobNames : Submit("host", <<c>>) /\ at["host"] = "none" /\ UNCHANGED delayed
      BY <2>4 DEF HostSends, JobNames
    <3>2. <<c>> \in Seq(JobNames) /\ <<c>> # <<>>
      BY ScriptOfOne
    <3> QED
      BY <3>1, <3>2 DEF Holding
  <2> QED
    BY <2>1, <2>2, <2>3, <2>4
<1>3. b \in Actors /\ b # "sd"
  BY DEF Actors
<1>4. /\ MutexHeld' /\ ScriptsLeft'
      /\ mutex' \in Actors \cup {"none"} /\ script' \in [Actors -> Seq(JobNames)]
      /\ at' \in [Actors -> Holding \cup {"none", "waiting", "loop", "callback", "sending", "delay"}]
      /\ at'[b] = "waiting" /\ \A c \in Actors \ {b} : at'[c] = at[c] /\ script'[c] = script[c]
  BY <1>0, <1>2, <1>3, SubmitMoves
<1>5. /\ inside_timer' \in BOOLEAN /\ DelayedRuns'
  <2>1. CASE b = "delayed"
    <3>1. /\ delayed_timer' = "running" /\ inside_timer' = TRUE /\ asked' = FALSE /\ repeat' = repeat
          /\ at'["delayed"] = "waiting" /\ delayed_timer = "set"
      BY <1>2, <1>4, <2>1 DEF DelayedEvent
    <3>2. repeat = FALSE
      BY <1>0, <3>1 DEF DelayedRuns, DelayedTold, JobTyped
    <3> QED
      BY <3>1, <3>2 DEF DelayedRuns, DelayedTold, DelayedAsAsked
  <2>2. CASE b # "delayed"
    <3>1. at'["delayed"] = at["delayed"]
      BY <1>4, <2>2 DEF Actors
    <3> QED
      BY <1>0, <1>2, <2>2, <3>1 DEF DelayedRuns, DelayedTold, DelayedAsAsked, delayed, JobTyped
  <2> QED
    BY <2>1, <2>2
<1>6. /\ idle_state' \in {"Idle", "Ready", "Printing"} /\ timeout_timer' \in {"NEVER", "set", "running"}
      /\ toolhead' \in {"moving", "stopped", "idle"} /\ IdleTimerArmed' /\ sent' \in Nat
  <2>1. CASE RunoutScript
    BY <1>0, <2>1 DEF RunoutScript, idle, JobTyped, IdleTimerArmed
  <2>2. CASE TransitionIdle
    BY <1>0, <2>2 DEF TransitionIdle, JobTyped, IdleTimerArmed
  <2>3. CASE DelayedEvent
    BY <1>0, <2>3 DEF DelayedEvent, idle, JobTyped, IdleTimerArmed
  <2>4. CASE \E c \in HostCommands : HostSends(c)
    <3>1. PICK c \in HostCommands : HostSends(c)
      BY <2>4
    <3>2. UNCHANGED idle /\ sent' = sent + 1
      BY <3>1 DEF HostSends
    <3> QED
      BY <1>0, <3>2 DEF idle, JobTyped, IdleTimerArmed
  <2> QED
    BY <2>1, <2>2, <2>3, <2>4
<1>7. JobTyped'
  BY <1>0, <1>1, <1>4, <1>5, <1>6 DEF JobTyped, PauseTyped, DelayedRuns, DelayedTold, sd, pause, sensor
<1>8. CardWorks' /\ RunoutRuns'
  <2>1. at'["sd"] = at["sd"] /\ script'["sd"] = script["sd"] /\ (at'["runout"] # "none" => at["runout"] # "none")
    BY <1>2, <1>3, <1>4 DEF Actors
  <2> QED
    BY <1>0, <1>1, <2>1, CardElsewhere DEF sd, sensor, RunoutRuns
<1>9. PauseHolds'
  <2>1. \A c \in Actors : at'[c] = at[c] \/ at'[c] \notin {"pausing", "saving", "sending"}
    BY <1>4
  <2> QED
    BY <1>0, <1>1, <2>1, PauseKept DEF sd, Active
<1> QED
  BY <1>4, <1>5, <1>6, <1>7, <1>8, <1>9 DEF JobInv, JobRuns

\* Time passes for the toolhead, the sensor or the idle timeout.
LEMMA TimeStep ==
  ASSUME JobInv, EventDelayPasses \/ ToolheadRests \/ TransitionReady \/ UNCHANGED job_vars
  PROVE  JobInv'
<1>0. /\ JobRuns /\ JobTyped /\ MutexHeld /\ ScriptsLeft /\ CardWorks /\ DelayedRuns /\ RunoutRuns /\ IdleTimerArmed
      /\ PauseHolds /\ PauseTyped
  BY DEF JobInv, JobRuns, JobTyped
<1>1. /\ UNCHANGED <<mutex, at, script, sd, pause, delayed, sent>>
      /\ min_event' \in {min_event, "past"} /\ (min_event = "NEVER" => min_event' = min_event) /\ filament_present' = filament_present
      /\ idle_state' \in {idle_state, "Ready"} /\ timeout_timer' = timeout_timer
      /\ (idle_state' # idle_state => timeout_timer = "set")
      /\ toolhead' \in {toolhead, "stopped", "idle"}
  BY DEF EventDelayPasses, ToolheadRests, TransitionReady, job_vars, sensor, idle
<1>2. JobTyped' /\ IdleTimerArmed' /\ RunoutRuns'
  BY <1>0, <1>1 DEF JobTyped, PauseTyped, IdleTimerArmed, RunoutRuns, sd, pause, delayed
<1>3. MutexHeld' /\ ScriptsLeft' /\ CardWorks' /\ DelayedRuns'
  BY <1>0, <1>1
  DEF MutexHeld, ScriptsLeft, CardWorks, LineIsAtPosition, DelayedRuns, DelayedTold, DelayedAsAsked, sd, delayed
<1>4. PauseHolds'
  BY <1>0, <1>1, PauseKept DEF sd, Active
<1> QED
  BY <1>2, <1>3, <1>4 DEF JobInv, JobRuns

LEMMA JobInvNext == ASSUME JobInv, JobAssumed, [NextJob]_job_vars PROVE JobInv'
<1>1. ASSUME NEW b \in Actors, RunCommand(b) PROVE JobInv'
  <2>1. CASE SdBusy(b) \/ M25Returns(b) \/ PauseAgain(b) \/ ResumeNot(b) \/ WaitEnds(b)
    BY <2>1, QuietStep
  <2>2. CASE PauseSaves(b) \/ CLEAR_PAUSE(b)
    BY <2>2, ClearStep
  <2>3. CASE M25(b) \/ RESUME(b) \/ G1(b) \/ M400(b) \/ M84Waits(b)
    BY <2>3, WaitStep
  <2>4. CASE PAUSE(b)
    BY <2>4, PauseStep
  <2>5. CASE PauseReturns(b)
    BY <2>5, PauseReturnsStep
  <2>6. CASE M24(b)
    BY <2>6, M24Step
  <2>7. CASE M23(b) \/ M26(b)
    BY <2>7, PositionStep
  <2>8. CASE UPDATE_DELAYED_GCODE(b)
    BY <2>8, UpdateStep
  <2>9. CASE ResumeMoved(b)
    BY <2>9, ResumeStep
  <2> QED
    BY <1>1, <2>1, <2>2, <2>3, <2>4, <2>5, <2>6, <2>7, <2>8, <2>9 DEF RunCommand
<1>2. CASE WorkStarts \/ WorkReads \/ WorkEnds
  BY <1>2, WorkStep
<1>3. ASSUME NEW b \in Actors, TakeMutex(b) PROVE JobInv'
  BY <1>3, TakeStep
<1>4. CASE WorkDispatches
  <2>1. PICK b \in Actors : b = "sd"
    BY DEF Actors
  <2> QED
    BY <1>4, <2>1, TakeStep
<1>5. CASE RunoutEvent \/ RunoutSent
  BY <1>5, RunoutStep
<1>6. CASE RunoutScript \/ TransitionIdle \/ DelayedEvent \/ (\E c \in HostCommands : HostSends(c))
  BY <1>6, SubmitStep
<1>7. ASSUME NEW there \in BOOLEAN, NotePresent(there) PROVE JobInv'
  BY <1>7, NoteStep
<1>8. CASE EventDelayPasses \/ ToolheadRests \/ TransitionReady \/ UNCHANGED job_vars
  BY <1>8, TimeStep
<1> QED
  BY <1>1, <1>2, <1>3, <1>4, <1>5, <1>6, <1>7, <1>8 DEF NextJob, Greenlets, Work, Runout, Timers

\* While a job is paused the card sends nothing more, the next line it runs is the one at
\* file_position, a delayed script waits just when the last command said so, and the idle
\* timeout is armed while the printer is not idle, for every file, whatever runs meanwhile
\* (virtual_sdcard.py, pause_resume.py, filament_switch_sensor.py, delayed_gcode.py, idle_timeout.py).
THEOREM JobAlwaysKept ==
  ASSUME JobAssumed
  PROVE  InitJob /\ [][NextJob]_job_vars => [](PauseStops /\ LineIsAtPosition /\ DelayedAsAsked /\ IdleTimerArmed)
<1>1. InitJob => JobInv
  BY InitJobInv
<1>2. JobInv /\ [NextJob]_job_vars => JobInv'
  BY JobInvNext
<1>3. JobInv => PauseStops /\ LineIsAtPosition /\ DelayedAsAsked /\ IdleTimerArmed
  BY DEF JobInv, JobRuns, PauseHolds, PauseAsked, PauseStops, CardWorks, DelayedRuns, DelayedTold
<1> QED
  BY <1>1, <1>2, <1>3, PTL

-----------------------------------------------------------------------------
(* Induction over the natural numbers                                      *)

\* A set of natural numbers that is not empty has a least one.
LEMMA LeastNumber ==
  ASSUME NEW T \in SUBSET Nat, T # {}
  PROVE  \E x \in T : \A y \in T : x <= y
<1> DEFINE Below(n) == 0 .. n - 1
           K == {Below(n) : n \in T}
<1>1. IsWellFoundedOn(StrictSubsetOrdering(Nat), FiniteSubsetsOf(Nat))
  BY FS_StrictSubsetOrderingWellFounded
<1>2. K \subseteq FiniteSubsetsOf(Nat) /\ K # {}
  <2> SUFFICES ASSUME NEW n \in T PROVE Below(n) \in FiniteSubsetsOf(Nat)
    OBVIOUS
  <2>1. IsFiniteSet(0 .. n - 1)
    BY FS_Interval
  <2> QED
    BY <2>1 DEF FiniteSubsetsOf
<1>3. PICK least \in K : \A k \in K : ~(<<k, least>> \in StrictSubsetOrdering(Nat))
  <2> HIDE DEF K
  <2> QED
    BY <1>1, <1>2, WFMin
<1>4. PICK x \in T : least = Below(x)
  OBVIOUS
<1>5. ASSUME NEW y \in T, y < x PROVE FALSE
  <2>1. Below(y) \in SUBSET Nat /\ Below(x) \in SUBSET Nat /\ Below(y) \subseteq Below(x)
    BY <1>5
  <2>2. y \in Below(x) /\ y \notin Below(y)
    BY <1>5
  <2>3. <<Below(y), Below(x)>> \in StrictSubsetOrdering(Nat)
    <3> HIDE DEF Below
    <3> QED
      BY <2>1, <2>2 DEF StrictSubsetOrdering
  <2> QED
    BY <1>3, <1>4, <2>3
<1> QED
  BY <1>5

\* What holds of 0, and of a number if it holds of the one before, holds of all.
LEMMA Induction ==
  ASSUME NEW S, 0 \in S, \A n \in Nat : n \in S => n + 1 \in S
  PROVE  Nat \subseteq S
<1> SUFFICES ASSUME Nat \ S # {} PROVE FALSE
  OBVIOUS
<1>1. PICK x \in Nat \ S : \A y \in Nat \ S : x <= y
  BY LeastNumber
<1>2. x # 0 /\ x - 1 \in Nat /\ x - 1 \in S
  BY <1>1
<1> QED
  BY <1>1, <1>2

-----------------------------------------------------------------------------
(* The tree of the commands                                                *)

\* The names of the objects are no words.
TreeAssumed == MaxWords \in Nat /\ Words \cap Idents = {} /\ NoIdent \notin Idents

\* Walk has a place after each word.
IsWalk(after, parts) ==
  after = [i \in 0 .. Len(parts) |->
             IF i = 0 THEN [node |-> <<>>, count |-> 0] ELSE Descend(after[i - 1], parts[i])]

LEMMA WalkIsDefined ==
  ASSUME NEW parts, Len(parts) \in Nat
  PROVE  \E after : IsWalk(after, parts) /\ Walk(parts) = after[Len(parts)]
<1> DEFINE At(g, i) == IF i = 0 THEN [node |-> <<>>, count |-> 0] ELSE Descend(g[i - 1], parts[i])
           S == {m \in Nat : \E g : g = [i \in 0 .. m |-> At(g, i)]}
<1>1. 0 \in S
  <2>1. [i \in 0 .. 0 |-> [node |-> <<>>, count |-> 0]] = [i \in 0 .. 0 |-> At([j \in 0 .. 0 |-> [node |-> <<>>, count |-> 0]], i)]
    OBVIOUS
  <2> QED
    BY <2>1
<1>2. ASSUME NEW n \in Nat, n \in S PROVE n + 1 \in S
  <2>1. PICK g : g = [i \in 0 .. n |-> At(g, i)]
    BY <1>2
  <2> DEFINE h == [i \in 0 .. n + 1 |-> IF i <= n THEN g[i] ELSE Descend(g[n], parts[n + 1])]
  <2>2. \A i \in 0 .. n + 1 : h[i] = At(h, i)
    <3> SUFFICES ASSUME NEW i \in 0 .. n + 1 PROVE h[i] = At(h, i)
      OBVIOUS
    <3>1. CASE i = 0
      BY <2>1, <3>1
    <3>2. CASE i \in 1 .. n
      <4>1. h[i - 1] = g[i - 1] /\ h[i] = g[i] /\ g[i] = Descend(g[i - 1], parts[i])
        BY <2>1, <3>2
      <4> QED
        BY <4>1, <3>2
    <3>3. CASE i = n + 1
      <4>1. h[i - 1] = g[n] /\ h[i] = Descend(g[n], parts[n + 1])
        BY <3>3
      <4> QED
        BY <4>1, <3>3
    <3> QED
      BY <3>1, <3>2, <3>3
  <2>3. h = [i \in 0 .. n + 1 |-> At(h, i)]
    BY <2>2
  <2> HIDE DEF h, At
  <2>4. \E g_new : g_new = [i \in 0 .. n + 1 |-> At(g_new, i)]
    BY <2>3
  <2> QED
    BY <2>4
<1>3. Len(parts) \in S
  <2> HIDE DEF S
  <2> QED
    BY <1>1, <1>2, Induction
<1>4. \E g : g = [i \in 0 .. Len(parts) |-> At(g, i)]
  BY <1>3
<1>5. \E g : IsWalk(g, parts)
  BY <1>4 DEF IsWalk
<1> DEFINE walk == CHOOSE after : IsWalk(after, parts)
<1>6. IsWalk(walk, parts)
  BY <1>5, Zenon
<1>7. Walk(parts) = walk[Len(parts)]
  BY Zenon DEF Walk, IsWalk
<1> QED
  BY <1>6, <1>7

-----------------------------------------------------------------------------
(* The names of the tree, and the way a line takes down to them            *)

Spoken == Words \cup Idents \cup {NoIdent}
Own(n) == [name : Idents \cup {NoIdent}, handler : [path : {n}, ident : Idents \cup {NoIdent}, number : Nat]]

\* A node has the nodes on its way, and handlers of its own for objects that differ.
LeafIsOwn(n, objs) ==
  objs = Removed \/ (/\ objs \in Seq(Own(n))
                     /\ \A i \in 1 .. Len(objs) : objs[i].handler.ident = objs[i].name
                     /\ \A i, j \in 1 .. Len(objs) : objs[i].name = objs[j].name => i = j)
TreeOK(tree) ==
  /\ DOMAIN tree \subseteq Names
  /\ \A n \in DOMAIN tree : LeafIsOwn(n, tree[n])
  /\ \A n \in DOMAIN tree : \A k \in 1 .. Len(n) : SubSeq(n, 1, k) \in DOMAIN tree

LEMMA NameFacts ==
  ASSUME MaxWords \in Nat, NEW n \in Names
  PROVE  n \in Seq(Words) /\ Len(n) \in 1 .. MaxWords
BY DEF Names

LEMMA NamesOf ==
  ASSUME MaxWords \in Nat, NEW n \in Seq(Words), Len(n) \in 1 .. MaxWords
  PROVE  n \in Names
<1>1. n \in [1 .. Len(n) -> Words]
  OBVIOUS
<1> QED
  BY <1>1 DEF Names

\* The beginnings of a name
LEMMA WayFacts ==
  ASSUME NEW S, NEW n \in Seq(S), NEW k \in 0 .. Len(n)
  PROVE  /\ SubSeq(n, 1, k) \in Seq(S) /\ Len(SubSeq(n, 1, k)) = k
         /\ \A i \in 1 .. k : SubSeq(n, 1, k)[i] = n[i]
         /\ k < Len(n) => SubSeq(n, 1, k + 1) = Append(SubSeq(n, 1, k), n[k + 1])
         /\ SubSeq(n, 1, Len(n)) = n
<1>1. \A j \in 0 .. Len(n) : /\ SubSeq(n, 1, j) \in Seq(S) /\ Len(SubSeq(n, 1, j)) = j
                             /\ \A i \in 1 .. j : SubSeq(n, 1, j)[i] = n[i]
  OBVIOUS
<1>2. ASSUME k < Len(n) PROVE SubSeq(n, 1, k + 1) = Append(SubSeq(n, 1, k), n[k + 1])
  <2>1. n[k + 1] \in S /\ k + 1 \in 0 .. Len(n)
    BY <1>2
  <2> DEFINE a == SubSeq(n, 1, k + 1)
             b == SubSeq(n, 1, k)
  <2>2. /\ a \in Seq(S) /\ Len(a) = k + 1 /\ \A i \in 1 .. k + 1 : a[i] = n[i]
        /\ b \in Seq(S) /\ Len(b) = k /\ \A i \in 1 .. k : b[i] = n[i]
    BY <1>1, <2>1
  <2> HIDE DEF a, b
  <2>3. /\ Append(b, n[k + 1]) \in Seq(S) /\ Len(Append(b, n[k + 1])) = k + 1
        /\ \A i \in 1 .. k : Append(b, n[k + 1])[i] = b[i] /\ Append(b, n[k + 1])[k + 1] = n[k + 1]
    BY <2>1, <2>2, AppendProperties
  <2>4. \A i \in 1 .. k + 1 : a[i] = Append(b, n[k + 1])[i]
    BY <2>2, <2>3
  <2>5. a = Append(b, n[k + 1])
    BY <2>2, <2>3, <2>4, SeqEqual
  <2> QED
    BY <2>5 DEF a, b
<1> QED
  BY <1>1, <1>2, SubSeqFull

\* Going down, a name is never longer than what was said, and is what was said if it is as long.
WalkKeeps(found, parts, i) ==
  /\ found.count \in 0 .. i /\ found.node \in DOMAIN nodes \cup {<<>>} /\ Len(found.node) = found.count
  /\ found = [node |-> found.node, count |-> found.count]
  /\ found.count = i => found.node = SubSeq(parts, 1, i)
  /\ i > 0 /\ parts[i] \notin Words => found.count < i

LEMMA WalkStep ==
  ASSUME MaxWords \in Nat, TreeOK(nodes), NEW parts \in Seq(Spoken), NEW i \in 0 .. Len(parts) - 1,
         NEW found, WalkKeeps(found, parts, i)
  PROVE  /\ WalkKeeps(Descend(found, parts[i + 1]), parts, i + 1)
         /\ parts[i + 1] \notin Words => Descend(found, parts[i + 1]) = found
         /\ Append(found.node, parts[i + 1]) \in DOMAIN nodes => Descend(found, parts[i + 1]).count = found.count + 1
<1> DEFINE word == parts[i + 1]
           longer == Append(found.node, word)
<1>1. word \in Spoken /\ found.count \in 0 .. i /\ found.count \in Nat
  BY DEF WalkKeeps
<1>2. \A n \in DOMAIN nodes : n \in Seq(Words) /\ Len(n) \in 1 .. MaxWords
  BY NameFacts DEF TreeOK
<1>3. found.node \in Seq(Words) /\ Len(found.node) = found.count
  <2>1. <<>> \in Seq(Words)
    OBVIOUS
  <2>2. /\ found.node \in DOMAIN nodes \/ found.node = <<>>
        /\ Len(found.node) = found.count
    BY DEF WalkKeeps
  <2> QED
    BY <1>2, <2>1, <2>2
<1>4. /\ longer \in Seq(Words \cup Spoken) /\ Len(longer) = found.count + 1 /\ longer[found.count + 1] = word
  <2>1. found.node \in Seq(Words \cup Spoken)
    BY <1>3, SeqMonotonic
  <2> QED
    BY <1>1, <1>3, <2>1, AppendProperties
<1> HIDE DEF longer, word
<1>5. longer \in DOMAIN nodes => word \in Words
  BY <1>1, <1>2, <1>4
<1>6. CASE longer \in DOMAIN nodes
  <2>1. Descend(found, word) = [node |-> longer, count |-> found.count + 1]
    BY <1>6 DEF Descend, longer
  <2>2. found.count + 1 = i + 1 => longer = SubSeq(parts, 1, i + 1)
    <3> SUFFICES ASSUME found.count = i PROVE longer = SubSeq(parts, 1, i + 1)
      BY <1>1
    <3>1. found.node = SubSeq(parts, 1, i) /\ SubSeq(parts, 1, i + 1) = Append(SubSeq(parts, 1, i), parts[i + 1])
      BY WayFacts DEF WalkKeeps
    <3> QED
      BY <3>1 DEF longer, word
  <2> QED
    BY <1>1, <1>4, <1>5, <1>6, <2>1, <2>2 DEF WalkKeeps, longer, word
<1>7. CASE longer \notin DOMAIN nodes
  <2>1. Descend(found, word) = found
    BY <1>7 DEF Descend, longer
  <2> QED
    BY <1>1, <1>7, <2>1 DEF WalkKeeps, longer, word
<1> QED
  BY <1>6, <1>7

LEMMA WalkFacts ==
  ASSUME MaxWords \in Nat, TreeOK(nodes), NEW parts \in Seq(Spoken), NEW after, IsWalk(after, parts)
  PROVE  \A i \in 0 .. Len(parts) : WalkKeeps(after[i], parts, i)
<1> DEFINE S == {i \in Nat : i <= Len(parts) => WalkKeeps(after[i], parts, i)}
<1>1. 0 \in S
  <2>1. after[0] = [node |-> <<>>, count |-> 0]
    BY DEF IsWalk
  <2>2. SubSeq(parts, 1, 0) = <<>> /\ Len(<<>>) = 0
    BY SubSeqEmpty
  <2>3. after[0].node = <<>> /\ after[0].count = 0
    BY <2>1
  <2>4. WalkKeeps(after[0], parts, 0)
    BY <2>1, <2>2, <2>3 DEF WalkKeeps
  <2> QED
    BY <2>4
<1>2. ASSUME NEW i \in Nat, i \in S PROVE i + 1 \in S
  <2> SUFFICES ASSUME i + 1 <= Len(parts) PROVE WalkKeeps(after[i + 1], parts, i + 1)
    OBVIOUS
  <2>1. after[i + 1] = Descend(after[i], parts[i + 1])
    BY DEF IsWalk
  <2>2. WalkKeeps(after[i], parts, i) /\ i \in 0 .. Len(parts) - 1
    BY <1>2
  <2> QED
    BY <2>1, <2>2, WalkStep
<1>3. Nat \subseteq S
  <2> HIDE DEF S
  <2> QED
    BY <1>1, <1>2, Induction
<1> QED
  BY <1>3

\* A name that is a node is found.
LEMMA WalkFinds ==
  ASSUME MaxWords \in Nat, TreeOK(nodes), NEW parts \in Seq(Spoken), NEW after, IsWalk(after, parts),
         NEW n \in DOMAIN nodes, Len(n) <= Len(parts), \A i \in 1 .. Len(n) : parts[i] = n[i]
  PROVE  after[Len(n)] = [node |-> n, count |-> Len(n)]
<1>0. n \in Seq(Words) /\ Len(n) \in 1 .. MaxWords /\ Len(n) \in Nat
  BY NameFacts DEF TreeOK
<1>1. \A i \in 0 .. Len(n) : SubSeq(parts, 1, i) = SubSeq(n, 1, i)
  <2> SUFFICES ASSUME NEW i \in 0 .. Len(n) PROVE SubSeq(parts, 1, i) = SubSeq(n, 1, i)
    OBVIOUS
  <2>1. n \in Seq(Spoken) /\ i \in 0 .. Len(parts)
    BY <1>0, SeqMonotonic DEF Spoken
  <2>2. /\ SubSeq(n, 1, i) \in Seq(Spoken) /\ Len(SubSeq(n, 1, i)) = i /\ \A j \in 1 .. i : SubSeq(n, 1, i)[j] = n[j]
        /\ SubSeq(parts, 1, i) \in Seq(Spoken) /\ Len(SubSeq(parts, 1, i)) = i
        /\ \A j \in 1 .. i : SubSeq(parts, 1, i)[j] = parts[j]
    BY <2>1, WayFacts
  <2>3. \A j \in 1 .. i : SubSeq(n, 1, i)[j] = SubSeq(parts, 1, i)[j]
    BY <1>0, <2>2
  <2> QED
    BY <2>2, <2>3, SeqEqual
<1> DEFINE S == {i \in Nat : i <= Len(n) => after[i].count = i}
<1>2. 0 \in S
  BY DEF IsWalk
<1>3. ASSUME NEW i \in Nat, i \in S PROVE i + 1 \in S
  <2> SUFFICES ASSUME i + 1 <= Len(n) PROVE after[i + 1].count = i + 1
    OBVIOUS
  <2>1. after[i + 1] = Descend(after[i], parts[i + 1]) /\ i \in 0 .. Len(parts) - 1 /\ after[i].count = i
    BY <1>0, <1>3 DEF IsWalk
  <2>2. WalkKeeps(after[i], parts, i)
    BY <2>1, WalkFacts
  <2>3. after[i].node = SubSeq(n, 1, i)
    BY <1>0, <1>1, <2>1, <2>2 DEF WalkKeeps
  <2>4. Append(after[i].node, parts[i + 1]) = SubSeq(n, 1, i + 1)
    <3>1. i \in 0 .. Len(n) /\ i < Len(n) /\ parts[i + 1] = n[i + 1]
      BY <1>0
    <3>2. SubSeq(n, 1, i + 1) = Append(SubSeq(n, 1, i), n[i + 1])
      BY <1>0, <3>1, WayFacts
    <3> QED
      BY <2>3, <3>1, <3>2
  <2>5. SubSeq(n, 1, i + 1) \in DOMAIN nodes
    BY <1>0 DEF TreeOK
  <2>6. PICK found : found = after[i]
    OBVIOUS
  <2>7. Descend(found, parts[i + 1]).count = found.count + 1
    BY <2>1, <2>2, <2>4, <2>5, <2>6, WalkStep
  <2> QED
    BY <2>1, <2>6, <2>7
<1>4. Nat \subseteq S
  <2> HIDE DEF S
  <2> QED
    BY <1>2, <1>3, Induction
<1>5. after[Len(n)].count = Len(n)
  BY <1>0, <1>4
<1>6. WalkKeeps(after[Len(n)], parts, Len(n))
  BY <1>0, WalkFacts
<1>7. SubSeq(parts, 1, Len(n)) = n
  BY <1>0, <1>1, WayFacts
<1> QED
  BY <1>5, <1>6, <1>7 DEF WalkKeeps

-----------------------------------------------------------------------------
(* What grafts and removals leave of a tree                                *)

LEMMA NoObjIsOwn ==
  ASSUME NEW n
  PROVE  LeafIsOwn(n, NoObj)
<1>1. <<>> \in Seq(Own(n)) /\ Len(<<>>) = 0
  OBVIOUS
<1> QED
  BY <1>1 DEF LeafIsOwn, NoObj

LEMMA IndexFacts ==
  ASSUME NEW objs, Len(objs) \in Nat, NEW ident
  PROVE  \/ IndexOf(objs, ident) = 0 /\ \A j \in 1 .. Len(objs) : objs[j].name # ident
         \/ IndexOf(objs, ident) \in 1 .. Len(objs) /\ objs[IndexOf(objs, ident)].name = ident
<1> DEFINE I == {j \in 1 .. Len(objs) : objs[j].name = ident}
<1>1. IndexOf(objs, ident) = IF I # {} THEN Min(I) ELSE 0
  BY DEF IndexOf, SelectInSeq
<1>2. CASE I = {}
  BY <1>1, <1>2
<1>3. CASE I # {}
  <2>1. I \in SUBSET Nat
    OBVIOUS
  <2>2. \E x \in I : \A y \in I : x <= y
    <3> HIDE DEF I
    <3> QED
      BY <1>3, <2>1, LeastNumber
  <2>3. Min(I) \in I
    <3> HIDE DEF I
    <3> QED
      BY <2>2, Zenon DEF Min
  <2> QED
    BY <1>1, <1>3, <2>3
<1> QED
  BY <1>2, <1>3

LEMMA SubSeqOfWay ==
  ASSUME NEW S, NEW n \in Seq(S), NEW j \in 1 .. Len(n), NEW k \in 1 .. j
  PROVE  SubSeq(SubSeq(n, 1, j), 1, k) = SubSeq(n, 1, k)
<1>1. /\ SubSeq(n, 1, j) \in Seq(S) /\ Len(SubSeq(n, 1, j)) = j
      /\ \A i \in 1 .. j : SubSeq(n, 1, j)[i] = n[i]
      /\ SubSeq(n, 1, k) \in Seq(S) /\ Len(SubSeq(n, 1, k)) = k
      /\ \A i \in 1 .. k : SubSeq(n, 1, k)[i] = n[i]
  BY WayFacts
<1> DEFINE way == SubSeq(n, 1, j)
<1> HIDE DEF way
<1>2. /\ SubSeq(way, 1, k) \in Seq(S) /\ Len(SubSeq(way, 1, k)) = k
      /\ \A i \in 1 .. k : SubSeq(way, 1, k)[i] = way[i]
  BY <1>1, WayFacts DEF way
<1>3. \A i \in 1 .. k : SubSeq(way, 1, k)[i] = SubSeq(n, 1, k)[i]
  BY <1>1, <1>2 DEF way
<1>4. SubSeq(way, 1, k) = SubSeq(n, 1, k)
  BY <1>1, <1>2, <1>3, SeqEqual
<1> QED
  BY <1>4 DEF way

LEMMA WaysFacts ==
  ASSUME MaxWords \in Nat, NEW name \in Names
  PROVE  /\ WaysTo(name) \subseteq Names /\ name \in WaysTo(name)
         /\ \A n \in WaysTo(name) : \A k \in 1 .. Len(n) : SubSeq(n, 1, k) \in WaysTo(name)
<1>1. name \in Seq(Words) /\ Len(name) \in 1 .. MaxWords /\ SubSeq(name, 1, Len(name)) = name
  BY NameFacts, WayFacts
<1>2. ASSUME NEW j \in 1 .. Len(name) PROVE SubSeq(name, 1, j) \in Names /\ Len(SubSeq(name, 1, j)) = j
  <2>1. SubSeq(name, 1, j) \in Seq(Words) /\ Len(SubSeq(name, 1, j)) = j
    BY <1>1, WayFacts
  <2>2. Len(SubSeq(name, 1, j)) \in 1 .. MaxWords
    BY <1>1, <2>1
  <2> QED
    BY <2>1, <2>2, NamesOf
<1>3. \A j \in 1 .. Len(name) : \A k \in 1 .. j : SubSeq(SubSeq(name, 1, j), 1, k) = SubSeq(name, 1, k)
  BY <1>1, SubSeqOfWay
<1>4. name \in WaysTo(name)
  <2>1. Len(name) \in 1 .. Len(name)
    BY <1>1
  <2>2. \E j \in 1 .. Len(name) : name = SubSeq(name, 1, j)
    BY <1>1, <2>1
  <2> QED
    BY <2>2 DEF WaysTo
<1>5. ASSUME NEW n \in WaysTo(name), NEW k \in 1 .. Len(n) PROVE SubSeq(n, 1, k) \in WaysTo(name)
  <2>1. PICK j \in 1 .. Len(name) : n = SubSeq(name, 1, j)
    BY DEF WaysTo
  <2>2. k \in 1 .. j /\ k \in 1 .. Len(name)
    BY <1>2, <2>1
  <2> QED
    BY <1>3, <2>1, <2>2 DEF WaysTo
<1> QED
  BY <1>2, <1>4, <1>5 DEF WaysTo

LEMMA GraftOuterOK ==
  ASSUME MaxWords \in Nat, NEW tree, TreeOK(tree), NEW name \in Names, NEW objs, LeafIsOwn(name, objs)
  PROVE  TreeOK(GraftOuter(tree, name, objs)) /\ name \in DOMAIN GraftOuter(tree, name, objs)
         /\ GraftOuter(tree, name, objs)[name] = objs
<1> DEFINE new == GraftOuter(tree, name, objs)
<1>1. /\ DOMAIN new = DOMAIN tree \cup WaysTo(name)
      /\ \A n \in DOMAIN new : new[n] = IF n = name THEN objs ELSE IF n \in DOMAIN tree THEN tree[n] ELSE NoObj
  BY DEF GraftOuter
<1> HIDE DEF new
<1>2. name \in DOMAIN new /\ new[name] = objs
  BY <1>1, WaysFacts
<1>3. DOMAIN new \subseteq Names
  BY <1>1, WaysFacts DEF TreeOK
<1>4. ASSUME NEW n \in DOMAIN new PROVE LeafIsOwn(n, new[n])
  BY <1>1, NoObjIsOwn DEF TreeOK
<1>5. ASSUME NEW n \in DOMAIN new, NEW k \in 1 .. Len(n) PROVE SubSeq(n, 1, k) \in DOMAIN new
  BY <1>1, WaysFacts DEF TreeOK
<1> QED
  BY <1>2, <1>3, <1>4, <1>5 DEF TreeOK, new

\* A leaf gets other handlers.
LEMMA LeafOK ==
  ASSUME NEW tree, TreeOK(tree), NEW name \in DOMAIN tree, NEW objs, LeafIsOwn(name, objs)
  PROVE  LET new == [tree EXCEPT ![name] = objs] IN TreeOK(new) /\ name \in DOMAIN new /\ new[name] = objs
<1> DEFINE new == [tree EXCEPT ![name] = objs]
<1>1. DOMAIN new = DOMAIN tree /\ new[name] = objs /\ \A n \in DOMAIN new \ {name} : new[n] = tree[n]
  OBVIOUS
<1> HIDE DEF new
<1>2. TreeOK(new)
  BY <1>1 DEF TreeOK
<1> QED
  BY <1>1, <1>2 DEF new

LEMMA PruneOK ==
  ASSUME MaxWords \in Nat, NEW tree, TreeOK(tree), NEW name \in Names
  PROVE  TreeOK(Prune(tree, name))
<1> DEFINE new == Prune(tree, name)
<1>1. DOMAIN new = {n \in DOMAIN tree : ~IsPrefix(name, n)} /\ \A n \in DOMAIN new : new[n] = tree[n]
  BY DEF Prune
<1> HIDE DEF new
<1>2. ASSUME NEW n \in DOMAIN new, NEW k \in 1 .. Len(n) PROVE SubSeq(n, 1, k) \in DOMAIN new
  <2>1. n \in DOMAIN tree /\ SubSeq(n, 1, k) \in DOMAIN tree /\ n \in Names /\ ~IsPrefix(name, n)
    BY <1>1 DEF TreeOK
  <2>2. n \in Seq(Words) /\ name \in Seq(Words) /\ Len(name) \in Nat /\ Len(name) >= 1 /\ Len(n) \in Nat
    BY <2>1, NameFacts
  <2>3. ASSUME IsPrefix(name, SubSeq(n, 1, k)) PROVE IsPrefix(name, n)
    <3>1. Len(SubSeq(n, 1, k)) = k /\ k <= Len(n) /\ k \in 0 .. Len(n)
      BY <2>2, WayFacts
    <3>2. Len(name) <= k /\ SubSeq(name, 1, Len(name)) = SubSeq(SubSeq(n, 1, k), 1, Len(name))
      BY <2>3, <3>1 DEF IsPrefix
    <3>3. SubSeq(SubSeq(n, 1, k), 1, Len(name)) = SubSeq(n, 1, Len(name))
      BY <2>2, <3>1, <3>2, SubSeqOfWay
    <3> QED
      BY <2>2, <3>1, <3>2, <3>3 DEF IsPrefix
  <2> QED
    BY <1>1, <2>1, <2>3
<1> QED
  BY <1>1, <1>2 DEF TreeOK, new

\* The tree has the handler where it was added.
Holds(tree, name, obj) ==
  /\ name \in DOMAIN tree /\ tree[name] # Removed
  /\ \E i \in 1 .. Len(tree[name]) : tree[name][i] = obj

LEMMA RemovedIsNone ==
  ASSUME NEW name, name # <<>>
  PROVE  Removed \notin Seq(Own(name))
<1> SUFFICES ASSUME Removed \in Seq(Own(name)) PROVE FALSE
  OBVIOUS
<1>1. Len(Removed) = 1 /\ Removed[1].handler.path = <<>>
  BY DEF Removed, NoHandler
<1>2. PICK objs \in Seq(Own(name)) : objs = Removed
  OBVIOUS
<1>3. objs[1] \in Own(name)
  BY <1>1, <1>2
<1> QED
  BY <1>1, <1>2, <1>3 DEF Own

LEMMA AloneIsOwn ==
  ASSUME NEW name, name # <<>>, NEW obj \in Own(name), obj.handler.ident = obj.name
  PROVE  LeafIsOwn(name, <<obj>>) /\ <<obj>> # Removed /\ Len(<<obj>>) = 1 /\ <<obj>>[1] = obj
<1>1. <<obj>> \in Seq(Own(name)) /\ Len(<<obj>>) = 1 /\ <<obj>>[1] = obj
  OBVIOUS
<1>2. Removed[1].handler.path = <<>> /\ obj.handler.path = name
  BY DEF Removed, NoHandler, Own
<1> QED
  BY <1>1, <1>2 DEF LeafIsOwn

\* One of a list of handlers is put in or replaced.
LEMMA NamedOK ==
  ASSUME NEW tree, TreeOK(tree), NEW name \in DOMAIN tree, tree[name] # Removed, name # <<>>,
         NEW obj \in Own(name), obj.handler.ident = obj.name
  PROVE  TreeOK(GraftNamed(tree, name, obj)) /\ Holds(GraftNamed(tree, name, obj), name, obj)
<1> DEFINE objs == tree[name]
           where == IndexOf(objs, obj.name)
           new == IF where = 0 THEN Append(objs, obj) ELSE ReplaceAt(objs, where, obj)
<1>1. objs \in Seq(Own(name)) /\ \A i \in 1 .. Len(objs) : objs[i].handler.ident = objs[i].name
  BY DEF TreeOK, LeafIsOwn
<1>2. \A i, j \in 1 .. Len(objs) : objs[i].name = objs[j].name => i = j
  BY DEF TreeOK, LeafIsOwn
<1>3. \/ where = 0 /\ \A j \in 1 .. Len(objs) : objs[j].name # obj.name
      \/ where \in 1 .. Len(objs) /\ objs[where].name = obj.name
  BY <1>1, IndexFacts
<1>4. GraftNamed(tree, name, obj) = [tree EXCEPT ![name] = new]
  BY DEF GraftNamed
<1> HIDE DEF objs, where
<1>5. LeafIsOwn(name, new) /\ new # Removed /\ \E i \in 1 .. Len(new) : new[i] = obj
  <2>1. CASE where = 0
    <3>1. new = Append(objs, obj)
      BY <2>1
    <3>2. /\ new \in Seq(Own(name)) /\ Len(new) = Len(objs) + 1 /\ Len(objs) \in Nat
          /\ \A i \in 1 .. Len(objs) : new[i] = objs[i] /\ new[Len(objs) + 1] = obj
          /\ new[Len(objs) + 1] = obj
      BY <1>1, <3>1, AppendProperties
    <3>3. \A j \in 1 .. Len(objs) : objs[j].name # obj.name
      BY <1>3, <2>1
    <3> HIDE DEF new
    <3>4. \A i, j \in 1 .. Len(new) : new[i].name = new[j].name => i = j
      BY <1>2, <3>2, <3>3
    <3>5. \A i \in 1 .. Len(new) : new[i].handler.ident = new[i].name
      BY <1>1, <3>2
    <3>6. Removed \notin Seq(Own(name))
      BY RemovedIsNone
    <3> QED
      BY <3>2, <3>4, <3>5, <3>6 DEF LeafIsOwn
  <2>2. CASE where # 0
    <3>1. new = [objs EXCEPT ![where] = obj] /\ where \in 1 .. Len(objs) /\ objs[where].name = obj.name
      BY <1>3, <2>2 DEF ReplaceAt
    <3>2. /\ new \in Seq(Own(name)) /\ Len(new) = Len(objs)
          /\ \A j \in 1 .. Len(objs) : new[j] = IF j = where THEN obj ELSE objs[j]
      BY <1>1, <3>1, ExceptSeq
    <3> HIDE DEF new
    <3>3. \A j \in 1 .. Len(new) : new[j].name = objs[j].name
      BY <3>1, <3>2
    <3>4. \A i, j \in 1 .. Len(new) : new[i].name = new[j].name => i = j
      BY <1>2, <3>2, <3>3
    <3>5. \A i \in 1 .. Len(new) : new[i].handler.ident = new[i].name
      BY <1>1, <3>2
    <3>6. Removed \notin Seq(Own(name))
      BY RemovedIsNone
    <3>7. \E i \in 1 .. Len(new) : new[i] = obj
      BY <3>1, <3>2
    <3> QED
      BY <3>2, <3>4, <3>5, <3>6, <3>7 DEF LeafIsOwn
  <2> QED
    BY <2>1, <2>2
<1> HIDE DEF new
<1>6. TreeOK([tree EXCEPT ![name] = new]) /\ name \in DOMAIN [tree EXCEPT ![name] = new] /\ [tree EXCEPT ![name] = new][name] = new
  BY <1>5, LeafOK
<1> QED
  BY <1>4, <1>5, <1>6 DEF Holds

LEMMA GraftOK ==
  ASSUME MaxWords \in Nat, NEW tree, TreeOK(tree), NEW name \in Names,
         NEW obj \in Own(name), obj.handler.ident = obj.name,
         ~(name \in DOMAIN tree /\ tree[name] = Removed /\ obj.name # NoIdent)
  PROVE  TreeOK(Graft(tree, name, <<obj>>)) /\ Holds(Graft(tree, name, <<obj>>), name, obj)
<1>0. name # <<>>
  <2>1. Len(name) \in 1 .. MaxWords /\ Len(<<>>) = 0
    BY NameFacts
  <2> QED
    BY <2>1
<1> DEFINE objs == <<obj>>
<1>1. LeafIsOwn(name, objs) /\ objs # Removed /\ Len(objs) = 1 /\ objs[1] = obj
  BY <1>0, AloneIsOwn
<1> HIDE DEF objs
<1>2. CASE name \notin DOMAIN tree \/ ~IsLeaf(tree, name)
  <2>1. Graft(tree, name, objs) = GraftOuter(tree, name, objs)
    BY <1>2 DEF Graft
  <2> QED
    BY <1>1, <2>1, GraftOuterOK DEF Holds, objs
<1>3. CASE name \in DOMAIN tree /\ IsLeaf(tree, name)
  <2>1. CASE obj.name # NoIdent
    <3>1. Graft(tree, name, objs) = GraftNamed(tree, name, obj)
      BY <1>1, <1>3, <2>1 DEF Graft
    <3> QED
      BY <1>0, <1>3, <2>1, <3>1, NamedOK DEF objs
  <2>2. CASE obj.name = NoIdent
    <3>1. Graft(tree, name, objs) = [tree EXCEPT ![name] = objs]
      BY <1>1, <1>3, <2>2 DEF Graft
    <3>2. LET new == [tree EXCEPT ![name] = objs] IN TreeOK(new) /\ name \in DOMAIN new /\ new[name] = objs
      BY <1>1, <1>3, LeafOK
    <3> QED
      BY <1>1, <3>1, <3>2 DEF Holds, objs
  <2> QED
    BY <2>1, <2>2
<1> QED
  BY <1>2, <1>3

LEMMA RemoveOK ==
  ASSUME MaxWords \in Nat, NEW tree, TreeOK(tree), NEW name \in Names
  PROVE  TreeOK(Graft(tree, name, Removed))
<1>1. LeafIsOwn(name, Removed)
  BY DEF LeafIsOwn
<1>2. CASE name \notin DOMAIN tree \/ ~IsLeaf(tree, name)
  <2>1. Graft(tree, name, Removed) = GraftOuter(tree, name, Removed)
    BY <1>2, Zenon DEF Graft
  <2> QED
    BY <1>1, <2>1, GraftOuterOK
<1>3. CASE name \in DOMAIN tree /\ IsLeaf(tree, name)
  <2>1. Graft(tree, name, Removed) = Prune(tree, name)
    BY <1>3, Zenon DEF Graft
  <2> QED
    BY <2>1, PruneOK
<1> QED
  BY <1>2, <1>3

-----------------------------------------------------------------------------
(* The handler of a line                                                   *)

LEMMA MinFacts ==
  ASSUME NEW I \in SUBSET Nat, I # {}
  PROVE  Min(I) \in I
BY LeastNumber, Zenon DEF Min

\* A line that has a handler was followed to a node that has it.
LEMMA HandlerFacts ==
  ASSUME TreeAssumed, TreeOK(nodes), NEW parts \in Seq(Spoken), HandlerOf(parts) # NoHandler
  PROVE  \E after : \E name \in DOMAIN nodes :
           /\ IsWalk(after, parts) /\ after[Len(parts)].node = name
           /\ \E obj \in Own(name) :
                /\ obj.handler = HandlerOf(parts) /\ obj.handler.ident = obj.name
                /\ ObjMatches(obj, SubSeq(parts, after[Len(parts)].count + 1, Len(parts)))
<1>1. PICK after : IsWalk(after, parts) /\ Walk(parts) = after[Len(parts)]
  <2>1. Len(parts) \in Nat
    OBVIOUS
  <2> QED
    BY <2>1, WalkIsDefined
<1>2. PICK found : found = after[Len(parts)]
  OBVIOUS
<1>3. WalkKeeps(found, parts, Len(parts))
  BY <1>1, <1>2, WalkFacts DEF TreeAssumed
<1> DEFINE arg == SubSeq(parts, found.count + 1, Len(parts))
           objs == IF found.count = 0 \/ nodes[found.node] \in {NoObj, Removed} THEN <<>> ELSE nodes[found.node]
           I == {j \in 1 .. Len(objs) : ObjMatches(objs[j], arg)}
<1>4. HandlerOf(parts) = IF (IF I # {} THEN Min(I) ELSE 0) = 0 THEN NoHandler ELSE objs[IF I # {} THEN Min(I) ELSE 0].handler
  BY <1>1, <1>2 DEF HandlerOf, SelectInSeq
<1>5. I # {}
  <2> HIDE DEF I
  <2> QED
    BY <1>4
<1>6. found.count # 0 /\ nodes[found.node] \notin {NoObj, Removed}
  <2> SUFFICES ASSUME objs = <<>> PROVE FALSE
    OBVIOUS
  <2>1. Len(objs) = 0
    OBVIOUS
  <2> HIDE DEF objs
  <2> QED
    BY <1>5, <2>1
<1>7. PICK name : name = found.node
  OBVIOUS
<1>8. name \in DOMAIN nodes
  <2>1. found.node \in DOMAIN nodes \/ found.node = <<>>
    BY <1>3 DEF WalkKeeps
  <2>2. Len(found.node) # 0 /\ Len(<<>>) = 0
    BY <1>3, <1>6 DEF WalkKeeps
  <2> QED
    BY <1>7, <2>1, <2>2
<1>9. objs = nodes[name] /\ objs \in Seq(Own(name)) /\ \A i \in 1 .. Len(objs) : objs[i].handler.ident = objs[i].name
  BY <1>6, <1>7, <1>8 DEF TreeOK, LeafIsOwn
<1> HIDE DEF objs, arg
<1>10. I \subseteq Nat /\ I \subseteq 1 .. Len(objs)
  BY <1>9
<1>11. Min(I) \in I
  <2> HIDE DEF I
  <2> QED
    BY <1>5, <1>10, MinFacts
<1>12. PICK i \in 1 .. Len(objs) : i = Min(I) /\ ObjMatches(objs[i], arg)
  BY <1>11
<1>13. HandlerOf(parts) = objs[i].handler
  <2> HIDE DEF I
  <2> QED
    BY <1>4, <1>5, <1>12
<1>14. objs[i] \in Own(name) /\ objs[i].handler.ident = objs[i].name
  BY <1>9
<1> QED
  BY <1>1, <1>2, <1>7, <1>8, <1>12, <1>13, <1>14 DEF arg

\* The line of a name and an object
LineOf(name, ident) == name \o (IF ident = NoIdent THEN <<>> ELSE <<ident>>)

LEMMA LineFacts ==
  ASSUME TreeAssumed, NEW name \in Seq(Words), NEW ident \in Idents \cup {NoIdent}, NEW line, line = LineOf(name, ident)
  PROVE  /\ line \in Seq(Spoken) /\ \A i \in 1 .. Len(name) : line[i] = name[i]
         /\ ident = NoIdent => line = name
         /\ ident # NoIdent => Len(line) = Len(name) + 1 /\ line[Len(name) + 1] = ident /\ ident \notin Words
         /\ SubSeq(line, Len(name) + 1, Len(line)) = IF ident = NoIdent THEN <<>> ELSE <<ident>>
<1>0. name \in Seq(Spoken) /\ ident \in Spoken /\ Len(name) \in Nat
  BY SeqMonotonic DEF Spoken
<1>1. CASE ident = NoIdent
  <2>1. line = name
    BY <1>0, <1>1 DEF LineOf
  <2>2. SubSeq(line, Len(name) + 1, Len(line)) = <<>>
    BY <1>0, <2>1, SubSeqEmpty
  <2> QED
    BY <1>0, <1>1, <2>1, <2>2
<1>2. CASE ident # NoIdent
  <2>1. line = name \o <<ident>> /\ ident \notin Words
    BY <1>2 DEF TreeAssumed, LineOf
  <2>2. /\ line \in Seq(Spoken) /\ Len(line) = Len(name) + 1
        /\ \A i \in 1 .. Len(name) : line[i] = name[i]
        /\ line[Len(name) + 1] = ident
    BY <1>0, <2>1
  <2>3. SubSeq(line, Len(name) + 1, Len(line)) = <<ident>>
    <3> DEFINE rest == SubSeq(line, Len(name) + 1, Len(line))
    <3>1. rest \in Seq(Spoken) /\ Len(rest) = 1 /\ rest[1] = line[Len(name) + 1]
      BY <1>0, <2>2, SubSeqProperties
    <3>2. <<ident>> \in Seq(Spoken) /\ Len(<<ident>>) = 1 /\ <<ident>>[1] = ident
      BY <1>0
    <3> HIDE DEF rest
    <3>3. \A i \in 1 .. 1 : rest[i] = <<ident>>[i]
      BY <2>2, <3>1, <3>2
    <3>4. rest = <<ident>>
      BY <3>1, <3>2, <3>3, SeqEqual
    <3> QED
      BY <3>4 DEF rest
  <2> QED
    BY <1>2, <2>1, <2>2, <2>3
<1> QED
  BY <1>1, <1>2

LEMMA NamedIsRun ==
  ASSUME TreeAssumed, TreeOK(nodes)
  PROVE  RunsWhatIsNamed
<1> SUFFICES ASSUME NEW name \in Names, NEW ident \in Idents \cup {NoIdent}, NEW line,
                    line = LineOf(name, ident), HandlerOf(line) # NoHandler
             PROVE  Line(HandlerOf(line)) = line
  BY DEF RunsWhatIsNamed, LineOf
<1>1. name \in Seq(Words) /\ Len(name) \in Nat
  BY NameFacts DEF TreeAssumed
<1>2. /\ line \in Seq(Spoken) /\ \A i \in 1 .. Len(name) : line[i] = name[i]
      /\ ident = NoIdent => line = name
      /\ ident # NoIdent => Len(line) = Len(name) + 1 /\ line[Len(name) + 1] = ident /\ ident \notin Words
      /\ SubSeq(line, Len(name) + 1, Len(line)) = IF ident = NoIdent THEN <<>> ELSE <<ident>>
  BY <1>1, LineFacts
<1>3. PICK after : \E name_new \in DOMAIN nodes :
           /\ IsWalk(after, line) /\ after[Len(line)].node = name_new
           /\ \E obj \in Own(name_new) :
                /\ obj.handler = HandlerOf(line) /\ obj.handler.ident = obj.name
                /\ ObjMatches(obj, SubSeq(line, after[Len(line)].count + 1, Len(line)))
  BY <1>2, HandlerFacts
<1>4. PICK node \in DOMAIN nodes :
           /\ IsWalk(after, line) /\ after[Len(line)].node = node
           /\ \E obj \in Own(node) :
                /\ obj.handler = HandlerOf(line) /\ obj.handler.ident = obj.name
                /\ ObjMatches(obj, SubSeq(line, after[Len(line)].count + 1, Len(line)))
  BY <1>3
<1>5. PICK obj \in Own(node) :
        /\ IsWalk(after, line) /\ after[Len(line)].node = node
        /\ obj.handler = HandlerOf(line) /\ obj.handler.ident = obj.name
        /\ ObjMatches(obj, SubSeq(line, after[Len(line)].count + 1, Len(line)))
  BY <1>4
<1>6. PICK found : found = after[Len(line)]
  OBVIOUS
<1>7. WalkKeeps(found, line, Len(line))
  <2>1. Len(line) \in 0 .. Len(line)
    BY <1>2
  <2> QED
    BY <1>2, <1>5, <1>6, <2>1, WalkFacts DEF TreeAssumed
<1>8. PICK handler : handler = HandlerOf(line)
  OBVIOUS
<1>9. handler.path = node /\ handler.ident = obj.name /\ obj.name \in Idents \cup {NoIdent}
  BY <1>5, <1>8 DEF Own
<1>10. found.count \in 0 .. Len(line) /\ Len(line) \in Nat
  BY <1>2, <1>7 DEF WalkKeeps
<1> DEFINE arg == SubSeq(line, found.count + 1, Len(line))
<1>11. Len(arg) = Len(line) - found.count /\ \A i \in 1 .. Len(arg) : arg[i] = line[found.count + i]
  BY <1>2, <1>10, SubSeqProperties
<1>12. arg = IF obj.name = NoIdent THEN <<>> ELSE <<obj.name>>
  BY <1>5, <1>6 DEF ObjMatches
<1> HIDE DEF arg
<1>13. CASE obj.name = NoIdent
  <2>1. found.count = Len(line)
    <3>1. Len(arg) = 0
      BY <1>12, <1>13
    <3> QED
      BY <1>10, <1>11, <3>1
  <2>2. node = line
    <3>1. SubSeq(line, 1, Len(line)) = line
      BY <1>2, WayFacts
    <3> QED
      BY <1>5, <1>6, <1>7, <2>1, <3>1 DEF WalkKeeps
  <2>3. line \o <<>> = line
    BY <1>2
  <2> QED
    BY <1>8, <1>9, <1>13, <2>2, <2>3 DEF Line
<1>14. CASE obj.name # NoIdent
  <2>1. found.count = Len(line) - 1 /\ line[Len(line)] = obj.name /\ Len(line) >= 1
    <3>1. Len(arg) = 1 /\ arg[1] = obj.name
      BY <1>12, <1>14
    <3>2. found.count + 1 = Len(line) /\ 1 \in 1 .. Len(arg)
      BY <1>10, <1>11, <3>1
    <3>3. arg[1] = line[found.count + 1]
      BY <1>11, <3>2
    <3> QED
      BY <1>10, <3>1, <3>2, <3>3
  <2>2. obj.name \in Idents /\ obj.name \notin Words
    BY <1>9, <1>14 DEF TreeAssumed
  <2>3. ident # NoIdent
    <3> SUFFICES ASSUME ident = NoIdent PROVE FALSE
      OBVIOUS
    <3>1. line = name
      BY <1>2
    <3>2. line[Len(line)] \in Words
      BY <1>1, <1>10, <2>1, <3>1
    <3> QED
      BY <2>1, <2>2, <3>2
  <2>4. Len(line) = Len(name) + 1 /\ obj.name = ident
    BY <1>1, <1>2, <2>1, <2>3
  <2>5. found = after[Len(name)] /\ WalkKeeps(found, line, Len(name))
    <3>1. PICK before : before = after[Len(name)]
      OBVIOUS
    <3>2. Len(name) \in 0 .. Len(line) /\ Len(name) \in 0 .. Len(line) - 1
      BY <1>1, <2>4
    <3>3. WalkKeeps(before, line, Len(name))
      BY <1>2, <1>5, <3>1, <3>2, WalkFacts DEF TreeAssumed
    <3>4. Descend(before, line[Len(name) + 1]) = before
      <4>1. line[Len(name) + 1] \notin Words
        BY <1>2, <2>3
      <4> QED
        BY <1>2, <3>2, <3>3, <4>1, WalkStep DEF TreeAssumed
    <3>5. after[Len(name) + 1] = Descend(after[Len(name)], line[Len(name) + 1])
      BY <1>1, <1>5, <2>4 DEF IsWalk
    <3> QED
      BY <1>6, <2>4, <3>1, <3>3, <3>4, <3>5
  <2>6. found.node = SubSeq(line, 1, Len(name))
    BY <1>1, <2>1, <2>4, <2>5 DEF WalkKeeps
  <2>7. SubSeq(line, 1, Len(name)) = name
    <3>1. /\ SubSeq(line, 1, Len(name)) \in Seq(Spoken) /\ Len(SubSeq(line, 1, Len(name))) = Len(name)
          /\ \A i \in 1 .. Len(name) : SubSeq(line, 1, Len(name))[i] = line[i]
      <4>1. Len(name) \in 0 .. Len(line)
        BY <1>1, <2>4
      <4> QED
        BY <1>2, <4>1, WayFacts
    <3>2. name \in Seq(Spoken)
      BY <1>1, SeqMonotonic DEF Spoken
    <3>3. \A i \in 1 .. Len(name) : SubSeq(line, 1, Len(name))[i] = name[i]
      BY <1>2, <3>1
    <3> QED
      BY <3>1, <3>2, <3>3, SeqEqual
  <2>8. handler.path = name /\ handler.ident = ident
    BY <1>5, <1>6, <1>9, <2>4, <2>6, <2>7
  <2>9. Line(handler) = LineOf(name, ident)
    BY <2>8 DEF Line, LineOf
  <2> QED
    BY <1>8, <2>9
<1> QED
  BY <1>13, <1>14

-----------------------------------------------------------------------------
(* Every behaviour of the tree                                             *)

LastIsHeld ==
  \/ last = NoHandler
  \/ \E name \in Names, ident \in Idents \cup {NoIdent}, number \in Nat :
       /\ last = [path |-> name, ident |-> ident, number |-> number]
       /\ Holds(nodes, name, [name |-> ident, handler |-> last])

TreeInv == TreeOK(nodes) /\ adds \in Nat /\ LastIsHeld

LEMMA HeldIsCalled ==
  ASSUME TreeAssumed, TreeInv
  PROVE  AddedIsCalled
<1> SUFFICES ASSUME last # NoHandler PROVE HandlerOf(Line(last)) = last
  BY DEF AddedIsCalled
<1>1. TreeOK(nodes)
  BY DEF TreeInv
<1>2. PICK name \in Names, ident \in Idents \cup {NoIdent}, number \in Nat :
        /\ last = [path |-> name, ident |-> ident, number |-> number]
        /\ Holds(nodes, name, [name |-> ident, handler |-> last])
  BY DEF TreeInv, LastIsHeld
<1>3. name \in Seq(Words) /\ Len(name) \in Nat /\ Len(name) >= 1
  BY NameFacts DEF TreeAssumed
<1>4. PICK line : line = Line(last)
  OBVIOUS
<1>5. line = LineOf(name, ident)
  BY <1>2, <1>4 DEF Line, LineOf
<1>6. /\ line \in Seq(Spoken) /\ \A i \in 1 .. Len(name) : line[i] = name[i]
      /\ ident = NoIdent => line = name
      /\ ident # NoIdent => Len(line) = Len(name) + 1 /\ line[Len(name) + 1] = ident /\ ident \notin Words
      /\ SubSeq(line, Len(name) + 1, Len(line)) = IF ident = NoIdent THEN <<>> ELSE <<ident>>
  BY <1>3, <1>5, LineFacts
<1>7. PICK after : IsWalk(after, line) /\ Walk(line) = after[Len(line)]
  <2>1. Len(line) \in Nat
    BY <1>6
  <2> QED
    BY <2>1, WalkIsDefined
<1>8. PICK objs : objs = nodes[name]
  OBVIOUS
<1>9. name \in DOMAIN nodes /\ objs # Removed /\ \E i \in 1 .. Len(objs) : objs[i] = [name |-> ident, handler |-> last]
  BY <1>2, <1>8 DEF Holds
<1>10. /\ objs \in Seq(Own(name))
       /\ \A i, j \in 1 .. Len(objs) : objs[i].name = objs[j].name => i = j
  BY <1>1, <1>8, <1>9 DEF TreeOK, LeafIsOwn
<1>11. PICK found : found = [node |-> name, count |-> Len(name)]
  OBVIOUS
<1>12. after[Len(name)] = found
  <2>1. Len(name) <= Len(line)
    BY <1>3, <1>6
  <2> QED
    BY <1>1, <1>6, <1>7, <1>9, <1>11, <2>1, WalkFinds DEF TreeAssumed
<1>13. Walk(line) = found
  <2>1. CASE ident = NoIdent
    BY <1>6, <1>7, <1>12, <2>1
  <2>2. CASE ident # NoIdent
    <3>1. Len(name) \in 0 .. Len(line) /\ Len(name) \in 0 .. Len(line) - 1 /\ line[Len(name) + 1] \notin Words
      BY <1>3, <1>6, <2>2
    <3>2. WalkKeeps(found, line, Len(name))
      BY <1>1, <1>6, <1>7, <1>12, <3>1, WalkFacts DEF TreeAssumed
    <3>3. Descend(found, line[Len(name) + 1]) = found
      BY <1>1, <1>6, <3>1, <3>2, WalkStep DEF TreeAssumed
    <3>4. after[Len(name) + 1] = Descend(after[Len(name)], line[Len(name) + 1])
      BY <1>3, <1>6, <1>7, <2>2 DEF IsWalk
    <3> QED
      BY <1>6, <1>7, <1>12, <2>2, <3>3, <3>4
  <2> QED
    BY <2>1, <2>2
<1> DEFINE arg == IF ident = NoIdent THEN <<>> ELSE <<ident>>
           I == {j \in 1 .. Len(objs) : ObjMatches(objs[j], arg)}
<1>14. objs # <<>>
  <2>1. Len(<<>>) = 0
    OBVIOUS
  <2> QED
    BY <1>9, <2>1
<1>15. HandlerOf(line) = IF (IF I # {} THEN Min(I) ELSE 0) = 0 THEN NoHandler ELSE objs[IF I # {} THEN Min(I) ELSE 0].handler
  <2>1. found.count = Len(name) /\ found.node = name /\ found.count # 0
    BY <1>3, <1>11
  <2>2. SubSeq(line, found.count + 1, Len(line)) = arg
    BY <1>6, <2>1
  <2>3. objs = IF found.count = 0 \/ nodes[found.node] \in {NoObj, Removed} THEN <<>> ELSE nodes[found.node]
    BY <1>8, <1>9, <1>14, <2>1 DEF NoObj
  <2> HIDE DEF arg
  <2> QED
    BY <1>13, <2>2, <2>3 DEF HandlerOf, SelectInSeq
<1>16. \A o \in Own(name) : ObjMatches(o, arg) <=> o.name = ident
  <2> SUFFICES ASSUME NEW o \in Own(name) PROVE ObjMatches(o, arg) <=> o.name = ident
    OBVIOUS
  <2>1. Len(<<>>) = 0 /\ Len(<<ident>>) = 1 /\ Len(<<o.name>>) = 1 /\ <<ident>>[1] = ident /\ <<o.name>>[1] = o.name
    OBVIOUS
  <2> QED
    BY <2>1 DEF ObjMatches
<1>17. PICK where \in 1 .. Len(objs) : objs[where] = [name |-> ident, handler |-> last]
  BY <1>9
<1>18. where \in I /\ I \subseteq {where} /\ I \subseteq Nat
  <2>1. \A i \in 1 .. Len(objs) : objs[i] \in Own(name)
    BY <1>10
  <2>2. objs[where].name = ident
    BY <1>17
  <2> HIDE DEF arg
  <2> QED
    BY <1>10, <1>16, <2>1, <2>2
<1>19. Min(I) = where
  <2> HIDE DEF I
  <2> QED
    BY <1>18, MinFacts
<1>20. I # {} /\ where # 0
  <2> HIDE DEF I
  <2> QED
    BY <1>17, <1>18
<1>21. objs[where].handler = last
  BY <1>17
<1> HIDE DEF I
<1> QED
  BY <1>4, <1>15, <1>19, <1>20, <1>21

LEMMA TreeInit ==
  ASSUME InitTree
  PROVE  TreeInv
<1>1. DOMAIN nodes = {} /\ adds = 0 /\ last = NoHandler
  BY DEF InitTree
<1> QED
  BY <1>1 DEF TreeInv, TreeOK, LastIsHeld

LEMMA TreeStep ==
  ASSUME TreeAssumed, TreeInv, [NextTree]_tree_vars
  PROVE  TreeInv'
<1>0. TreeOK(nodes) /\ adds \in Nat /\ MaxWords \in Nat
  BY DEF TreeInv, TreeAssumed
<1>1. ASSUME NEW name \in Names, NEW ident \in Idents \cup {NoIdent}, add(name, ident)
      PROVE  TreeInv'
  <2> DEFINE handler == Handler(name, ident)
             obj == [name |-> ident, handler |-> handler]
  <2>1. handler = [path |-> name, ident |-> ident, number |-> adds]
    BY DEF Handler
  <2>2. obj \in Own(name) /\ obj.handler.ident = obj.name /\ obj.name = ident
    BY <1>0, <2>1 DEF Own
  <2>3. adds' \in Nat
    BY <1>0, <1>1 DEF add
  <2>4. CASE CanGraft(name, <<obj>>)
    <3>1. nodes' = Graft(nodes, name, <<obj>>) /\ last' = handler
      BY <1>1, <2>4 DEF add
    <3>2. ~(name \in DOMAIN nodes /\ nodes[name] = Removed /\ obj.name # NoIdent)
      <4>1. <<obj>> # Removed
        <5>1. name # <<>>
          <6>1. Len(name) \in 1 .. MaxWords /\ Len(<<>>) = 0
            BY <1>0, NameFacts
          <6> QED
            BY <6>1
        <5> QED
          BY <2>2, <5>1, AloneIsOwn
      <4>2. <<obj>>[1] = obj
        OBVIOUS
      <4> HIDE DEF obj
      <4> QED
        BY <2>4, <4>1, <4>2 DEF CanGraft
    <3> HIDE DEF obj
    <3>3. TreeOK(Graft(nodes, name, <<obj>>)) /\ Holds(Graft(nodes, name, <<obj>>), name, obj)
      BY <1>0, <2>2, <3>2, GraftOK
    <3>4. TreeOK(nodes') /\ Holds(nodes', name, obj)
      BY <3>1, <3>3
    <3>5. LastIsHeld'
      BY <1>0, <2>1, <3>1, <3>4 DEF LastIsHeld, obj
    <3>6. TreeOK(nodes)'
      BY <3>4 DEF TreeOK, LeafIsOwn, Own
    <3> QED
      BY <2>3, <3>5, <3>6 DEF TreeInv
  <2>5. CASE ~CanGraft(name, <<obj>>)
    <3>1. nodes' = nodes /\ last' = NoHandler
      BY <1>1, <2>5 DEF add
    <3> QED
      BY <1>0, <2>3, <3>1 DEF TreeInv, LastIsHeld, TreeOK
  <2> QED
    BY <2>4, <2>5
<1>2. ASSUME NEW name \in Names, remove(name) PROVE TreeInv'
  <2>1. nodes' = Graft(nodes, name, Removed) /\ last' = NoHandler /\ adds' \in Nat
    BY <1>0, <1>2 DEF remove
  <2>2. TreeOK(Graft(nodes, name, Removed))
    BY <1>0, RemoveOK
  <2>3. TreeOK(nodes')
    BY <2>1, <2>2
  <2> QED
    BY <2>1, <2>3 DEF TreeInv, LastIsHeld, TreeOK
<1>3. CASE UNCHANGED tree_vars
  <2>1. nodes' = nodes /\ adds' = adds /\ last' = last
    BY <1>3 DEF tree_vars
  <2> QED
    BY <2>1 DEF TreeInv, LastIsHeld, TreeOK, Holds
<1> QED
  BY <1>1, <1>2, <1>3 DEF NextTree

\* The command added last is the one its line runs, and no line runs a command
\* that it does not name, for every set of words and objects (_graft, call).
THEOREM TreeRunsNamed ==
  ASSUME TreeAssumed
  PROVE  SpecTree => [](AddedIsCalled /\ RunsWhatIsNamed)
<1>1. InitTree => TreeInv
  BY TreeInit
<1>2. TreeInv /\ [NextTree]_tree_vars => TreeInv'
  BY TreeStep
<1>3. TreeInv => AddedIsCalled /\ RunsWhatIsNamed
  BY HeldIsCalled, NamedIsRun DEF TreeInv
<1> QED
  BY <1>1, <1>2, <1>3, PTL DEF SpecTree

=============================================================================
