----------------------------- MODULE MainProofs ------------------------------
(***************************************************************************)
(* What three parts of the main process keep: its timers, which the        *)
(* reactor process knows by their idents, the menu, and the configuration  *)
(* of a board and of its pins, for any number of timers, messages, lists,  *)
(* scripts, parts, starts of the host and resets of the board.             *)
(***************************************************************************)
EXTENDS Reactor, Menu, McuConfig, TLAPS, SequenceTheorems, WellFoundedInduction, FiniteSetTheorems

\* A set of natural numbers that is not empty has a least one.
LEMMA LeastNumber ==
  ASSUME NEW T \in SUBSET Nat, T # {}
  PROVE  \E x \in T : \A y \in T : x <= y
<1> DEFINE R == OpToRel(<, Nat)
<1>1. IsWellFoundedOn(R, Nat)
  BY NatLessThanWellFounded
<1>2. \E x \in T : \A y \in T : <<y, x>> \notin R
  <2> HIDE DEF R
  <2> QED
    BY <1>1, WFMin
<1>3. \A x, y \in T : <<y, x>> \notin R => x <= y
  BY DEF OpToRel
<1> QED
  BY <1>2, <1>3

\* What holds of 0 and of the successor of each number it holds of holds of all.
LEMMA Induction ==
  ASSUME NEW S, 0 \in S, \A n \in Nat : n \in S => n + 1 \in S
  PROVE  Nat \subseteq S
<1> SUFFICES ASSUME Nat \ S # {} PROVE FALSE
  OBVIOUS
<1>1. PICK x \in Nat \ S : \A y \in Nat \ S : x <= y
  BY LeastNumber
<1>2. x # 0 /\ x - 1 \in Nat /\ x - 1 \in S
  BY <1>1
<1> QED
  BY <1>1, <1>2

\* Any set of times has an earliest one.
LEMMA EarliestExists ==
  ASSUME NEW S \in SUBSET Nat, S # {}
  PROVE  Least(S) \in S
BY LeastNumber DEF Least

-----------------------------------------------------------------------------
Adding == [do : {"timer"}, timer : Timer, waketime : Waketime]
Updating == [do : {"update"}, id : Nat, waketime : Waketime]
Removing == [do : {"remove"}, id : Nat]

\* A timer that was sent once has an ident, now and for ever.
Registered(t) == id[t] # -1

Typed ==
  /\ TypeOK
  /\ pipe \in Seq(Adding \cup Updating \cup Removing)
  /\ \A i \in DOMAIN _timers : Registered(_timers[i])
  /\ \A j \in Adds : Registered(pipe[j].timer)

LEMMA Ranges == Waketime \in SUBSET Nat /\ 0 \in Waketime /\ NEVER \in Waketime /\ NEVER \in Nat
BY ReactorAssumption DEF Waketime, NEVER

LEMMA InitTyped == Init => Typed
<1> SUFFICES ASSUME Init PROVE Typed
  OBVIOUS
<1>1. Adds = {}
  BY DEF Init, Adds
<1>2. now \in 0 .. MaxTime /\ id \in [Timer -> Nat \cup {-1}]
  BY ReactorAssumption DEF Init
<1>3. _timers \in Seq(Timer) /\ todo \in Seq(Event) /\ timers \in Seq([timer : Timer, id : Nat, waketime : Waketime])
  BY DEF Init
<1>4. TypeOK
  BY <1>2, <1>3, Ranges DEF Init, TypeOK
<1> QED BY <1>1, <1>4 DEF Init, Typed

\* What the messages are made of
LEMMA SentTyped ==
  ASSUME Typed, NEW m \in Adding \cup Updating \cup Removing, pipe' = Append(pipe, m)
  PROVE  /\ pipe' \in Seq(Adding \cup Updating \cup Removing)
         /\ DOMAIN pipe' = DOMAIN pipe \cup {Len(pipe) + 1}
         /\ \A j \in DOMAIN pipe : pipe'[j] = pipe[j]
         /\ pipe'[Len(pipe) + 1] = m
         /\ Adds' = IF m.do = "timer" THEN Adds \cup {Len(pipe) + 1} ELSE Adds
<1> DEFINE M == Adding \cup Updating \cup Removing
<1>1. pipe \in Seq(M) /\ m \in M BY DEF Typed
<1> HIDE DEF M
<1>2. /\ pipe' \in Seq(M) /\ DOMAIN pipe' = DOMAIN pipe \cup {Len(pipe) + 1}
      /\ \A j \in DOMAIN pipe : pipe'[j] = pipe[j]
      /\ pipe'[Len(pipe) + 1] = m
  BY <1>1
<1>3. Adds' = IF m.do = "timer" THEN Adds \cup {Len(pipe) + 1} ELSE Adds
  BY <1>1, <1>2 DEF Adds
<1> QED BY <1>2, <1>3 DEF M

LEMMA TakenTyped ==
  ASSUME Typed, pipe # <<>>, pipe' = Tail(pipe)
  PROVE  /\ pipe' \in Seq(Adding \cup Updating \cup Removing)
         /\ Len(pipe') = Len(pipe) - 1
         /\ Head(pipe) = pipe[1] /\ 1 \in DOMAIN pipe
         /\ Head(pipe) \in Adding \cup Updating \cup Removing
         /\ \A j \in DOMAIN pipe' : j + 1 \in DOMAIN pipe /\ pipe'[j] = pipe[j + 1]
         /\ \A j \in DOMAIN pipe : j = 1 \/ j - 1 \in DOMAIN pipe'
         /\ \A j \in Adds' : j + 1 \in Adds
         /\ \A j \in Adds : j = 1 \/ j - 1 \in Adds'
<1> DEFINE M == Adding \cup Updating \cup Removing
<1>1. pipe \in Seq(M) BY DEF Typed
<1> HIDE DEF M
<1>2. /\ pipe' \in Seq(M) /\ Len(pipe') = Len(pipe) - 1
      /\ Head(pipe) = pipe[1] /\ 1 \in DOMAIN pipe /\ Head(pipe) \in M
      /\ \A j \in DOMAIN pipe' : j + 1 \in DOMAIN pipe /\ pipe'[j] = pipe[j + 1]
      /\ \A j \in DOMAIN pipe : j = 1 \/ j - 1 \in DOMAIN pipe'
  BY <1>1
<1>3. \A j \in Adds' : j + 1 \in Adds
  BY <1>2 DEF Adds
<1>4. \A j \in Adds : j = 1 \/ j - 1 \in Adds'
  BY <1>1, <1>2 DEF Adds
<1> QED BY <1>2, <1>3, <1>4 DEF M

TimerRecord == [timer : Timer, id : Nat, waketime : Waketime]

\* Taking one timer out of a list
LEMMA RemoveAtTyped ==
  ASSUME NEW S, NEW s \in Seq(S), NEW k \in 1 .. Len(s)
  PROVE  /\ RemoveAt(s, k) \in Seq(S)
         /\ \A i \in DOMAIN RemoveAt(s, k) : \E j \in DOMAIN s : RemoveAt(s, k)[i] = s[j]
<1>1. SubSeq(s, 1, k - 1) \in Seq(S) /\ SubSeq(s, k + 1, Len(s)) \in Seq(S)
  OBVIOUS
<1>2. /\ Len(SubSeq(s, 1, k - 1)) = k - 1 /\ Len(SubSeq(s, k + 1, Len(s))) = Len(s) - k
      /\ \A i \in 1 .. k - 1 : SubSeq(s, 1, k - 1)[i] = s[i]
      /\ \A i \in 1 .. Len(s) - k : SubSeq(s, k + 1, Len(s))[i] = s[k + i]
  OBVIOUS
<1> DEFINE a == SubSeq(s, 1, k - 1)
           b == SubSeq(s, k + 1, Len(s))
<1>3. RemoveAt(s, k) = a \o b
  BY DEF RemoveAt
<1>4. \A i \in DOMAIN (a \o b) : \E j \in DOMAIN s : (a \o b)[i] = s[j]
  <2> SUFFICES ASSUME NEW i \in DOMAIN (a \o b)
               PROVE  \E j \in DOMAIN s : (a \o b)[i] = s[j]
    OBVIOUS
  <2>1. a \in Seq(S) /\ b \in Seq(S) /\ Len(a) = k - 1 /\ Len(b) = Len(s) - k
    BY <1>1, <1>2
  <2> HIDE DEF a, b
  <2>2. CASE i <= k - 1
    <3>1. (a \o b)[i] = a[i] /\ i \in 1 .. k - 1
      BY <2>1, <2>2
    <3>2. (a \o b)[i] = s[i]
      BY <1>2, <3>1 DEF a
    <3> QED BY <3>1, <3>2
  <2>3. CASE i > k - 1
    <3>1. (a \o b)[i] = b[i - (k - 1)] /\ i - (k - 1) \in 1 .. Len(s) - k
      BY <2>1, <2>3
    <3>2. b[i - (k - 1)] = s[k + (i - (k - 1))] /\ k + (i - (k - 1)) = i + 1
      BY <1>2, <3>1, <2>1 DEF b
    <3>3. i + 1 \in DOMAIN s
      BY <3>1, <2>1
    <3> QED BY <3>1, <3>2, <3>3
  <2>4. i \in Nat /\ k \in Nat
    BY <2>1
  <2> QED BY <2>2, <2>3, <2>4
<1>5. a \o b \in Seq(S)
  BY <1>1
<1> HIDE DEF a, b
<1> QED BY <1>3, <1>4, <1>5

LEMMA StepTyped == Typed /\ [Next]_vars => Typed'
<1> SUFFICES ASSUME Typed, [Next]_vars PROVE Typed'
  OBVIOUS
<1> USE Ranges
<1>1. CASE Tick
  BY <1>1, ReactorAssumption DEF Tick, Typed, TypeOK, mainVars, reactorVars, Adds, Registered
<1>2. CASE \E t \in Timer, w \in Waketime : timer_register(t, w)
  <2>1. PICK t \in Timer, w \in Waketime : timer_register(t, w)
    BY <1>2
  <2> DEFINE m == [do |-> "timer", timer |-> t, waketime |-> w]
  <2>2. m \in Adding /\ pipe' = Append(pipe, m) /\ m.do = "timer" /\ m.timer = t
    BY <2>1 DEF timer_register, Send, Adding
  <2> HIDE DEF m
  <2>3. /\ pipe' \in Seq(Adding \cup Updating \cup Removing)
        /\ \A j \in DOMAIN pipe : pipe'[j] = pipe[j]
        /\ pipe'[Len(pipe) + 1] = m
        /\ Adds' = Adds \cup {Len(pipe) + 1}
    BY <2>2, SentTyped
  <2>4. id' = [id EXCEPT ![t] = Len(_timers)] /\ _timers' = Append(_timers, t) /\ TypeOK
    BY <2>1 DEF timer_register, Typed
  <2>5. TypeOK'
    BY <2>1, <2>4 DEF timer_register, Send, TypeOK, reactorVars
  <2>6. \A i \in DOMAIN _timers' : Registered(_timers[i])'
    <3>1. _timers \in Seq(Timer) /\ Len(_timers) \in Nat /\ id \in [Timer -> Nat \cup {-1}]
      BY <2>4 DEF TypeOK
    <3>2. \A i \in DOMAIN _timers : id[_timers[i]] # -1
      BY DEF Typed, Registered
    <3> SUFFICES ASSUME NEW i \in DOMAIN _timers' PROVE id'[_timers'[i]] # -1
      BY DEF Registered
    <3>3. i \in 1 .. Len(_timers) + 1 /\ _timers'[i] = IF i = Len(_timers) + 1 THEN t ELSE _timers[i]
      BY <2>4, <3>1
    <3> QED
      BY <2>4, <3>1, <3>2, <3>3
  <2>7. \A j \in Adds : pipe[j] \in Adding
    BY DEF Typed, Adds, Adding, Updating, Removing
  <2>8. \A j \in Adds' : Registered(pipe[j].timer)'
    BY <2>2, <2>3, <2>4, <2>7 DEF Typed, TypeOK, Registered, Adds, Adding
  <2> QED BY <2>3, <2>5, <2>6, <2>8 DEF Typed
<1>3. CASE \E t \in Timer, w \in Waketime : timer_update(t, w)
  <2>1. PICK t \in Timer, w \in Waketime : timer_update(t, w)
    BY <1>3
  <2> DEFINE m == [do |-> "update", id |-> id[t], waketime |-> w]
  <2>2. m \in Updating /\ pipe' = Append(pipe, m) /\ m.do # "timer"
    BY <2>1 DEF timer_update, Send, Updating, Typed, TypeOK
  <2> HIDE DEF m
  <2>3. /\ pipe' \in Seq(Adding \cup Updating \cup Removing)
        /\ \A j \in DOMAIN pipe : pipe'[j] = pipe[j]
        /\ Adds' = Adds
    BY <2>2, SentTyped
  <2>4. TypeOK'
    BY <2>1 DEF timer_update, Send, Typed, TypeOK, reactorVars
  <2> QED BY <2>1, <2>3, <2>4 DEF Typed, timer_update, Registered, Adds
<1>4. CASE \E t \in Timer : timer_cancel(t) \/ CancelFails(t)
  <2>1. PICK t \in Timer : timer_cancel(t) \/ CancelFails(t)
    BY <1>4
  <2> DEFINE m == [do |-> "remove", id |-> id[t]]
  <2>2. id[t] \in Nat /\ _timers \in Seq(Timer)
    BY <2>1 DEF timer_cancel, CancelFails, Contains, Typed, TypeOK, Registered
  <2>3. m \in Removing /\ pipe' = Append(pipe, m) /\ m.do # "timer"
    BY <2>1, <2>2 DEF timer_cancel, CancelFails, Send, Removing
  <2> HIDE DEF m
  <2>4. /\ pipe' \in Seq(Adding \cup Updating \cup Removing)
        /\ \A j \in DOMAIN pipe : pipe'[j] = pipe[j]
        /\ Adds' = Adds
    BY <2>3, SentTyped
  <2>5. /\ _timers' \in Seq(Timer)
        /\ \A i \in DOMAIN _timers' : \E j \in DOMAIN _timers : _timers'[i] = _timers[j]
    <3>1. CASE CancelFails(t)
      BY <2>2, <3>1 DEF CancelFails
    <3>2. CASE timer_cancel(t)
      <4>1. id[t] + 1 \in 1 .. Len(_timers) /\ _timers' = RemoveAt(_timers, id[t] + 1)
        BY <2>2, <3>2 DEF timer_cancel
      <4> QED BY <2>2, <4>1, RemoveAtTyped
    <3> QED BY <2>1, <3>1, <3>2
  <2>6. TypeOK'
    BY <2>1, <2>5 DEF timer_cancel, CancelFails, Send, Typed, TypeOK, reactorVars
  <2>7. id' = id
    BY <2>1 DEF timer_cancel, CancelFails
  <2> QED BY <2>4, <2>5, <2>6, <2>7 DEF Typed, Registered, Adds
<1>5. CASE EndSetup
  BY <1>5 DEF EndSetup, Typed, TypeOK, reactorVars, Adds, Registered
<1>6. CASE BeginTodo
  <2>1. Head(todo) \in Event /\ Tail(todo) \in Seq(Event)
    BY <1>6 DEF BeginTodo, Typed, TypeOK
  <2>2. Head(todo).id < Len(_timers) => _timers[Head(todo).id + 1] \in Timer /\ Head(todo).id \in Nat
    BY <2>1 DEF Event, Typed, TypeOK
  <2>3. running' \in Event \cup {Idle, Setup, Dead}
    BY <1>6, <2>2 DEF BeginTodo, Event
  <2>4. TypeOK'
    BY <1>6, <2>1, <2>3 DEF BeginTodo, Typed, TypeOK, reactorVars
  <2> QED BY <1>6, <2>4 DEF BeginTodo, Typed, reactorVars, Adds, Registered
<1>7. CASE EndSomeTodo
  <2>1. PICK w \in Waketime : EndTodo(w)
    BY <1>7 DEF EndSomeTodo
  <2> DEFINE m == [do |-> "update", id |-> running.id, waketime |-> w]
  <2>2. running \in Event
    BY <2>1 DEF EndTodo, Typed, TypeOK, Idle, Setup, Dead
  <2>3. m \in Updating /\ pipe' = Append(pipe, m) /\ m.do # "timer"
    BY <2>1, <2>2 DEF EndTodo, Updating, Event
  <2> HIDE DEF m
  <2>4. /\ pipe' \in Seq(Adding \cup Updating \cup Removing)
        /\ \A j \in DOMAIN pipe : pipe'[j] = pipe[j]
        /\ Adds' = Adds
    BY <2>3, SentTyped
  <2>5. TypeOK'
    BY <2>1 DEF EndTodo, Typed, TypeOK, reactorVars
  <2> QED BY <2>1, <2>4, <2>5 DEF Typed, EndTodo, Registered, Adds
<1>8. CASE _check_timers
  <2>1. timers' \in Seq(TimerRecord) /\ _next_timer' \in Waketime /\ todo' \in Seq(Event)
    <3>1. CASE now < _next_timer
      BY <1>8, <3>1 DEF _check_timers, Typed, TypeOK, TimerRecord
    <3>2. CASE ~(now < _next_timer)
      <4> DEFINE due == {i \in DOMAIN timers : Due(timers[i])}
      <4>1. timers \in Seq(TimerRecord) /\ todo \in Seq(Event)
        BY DEF Typed, TypeOK, TimerRecord
      <4>2. \A t \in TimerRecord : Fired(t) \in TimerRecord
        BY DEF Fired, TimerRecord
      <4>3. timers' = [i \in DOMAIN timers |-> Fired(timers[i])]
        BY <1>8, <3>2 DEF _check_timers
      <4>4. timers' \in Seq(TimerRecord)
        BY <4>1, <4>2, <4>3
      <4>5. {NEVER} \cup {timers'[i].waketime : i \in DOMAIN timers'} \in SUBSET Waketime
        <5>1. \A i \in DOMAIN timers' : timers'[i] \in TimerRecord
          BY <4>4
        <5> QED BY <5>1 DEF TimerRecord
      <4>6. _next_timer' \in Waketime
        BY <1>8, <3>2, <4>5, EarliestExists DEF _check_timers
      <4>7. PICK order \in InOrder(due) : todo' = todo \o [i \in DOMAIN order |-> TodoOf(timers[order[i]])]
        BY <1>8, <3>2 DEF _check_timers
      <4>8. order \in [1 .. Cardinality(due) -> due]
        BY DEF InOrder
      <4>9. [i \in DOMAIN order |-> TodoOf(timers[order[i]])] \in Seq(Event)
        <5>1. \A i \in DOMAIN order : TodoOf(timers[order[i]]) \in Event
          <6>1. \A i \in DOMAIN timers : timers[i] \in TimerRecord
            BY <4>1
          <6>2. \A i \in DOMAIN order : order[i] \in DOMAIN timers
            BY <4>8
          <6> QED BY <6>1, <6>2 DEF TodoOf, Event, TimerRecord
        <5>2. Cardinality(due) \in Nat
          <6>1. IsFiniteSet(DOMAIN timers)
            BY <4>1, FS_Interval
          <6>2. IsFiniteSet(due)
            BY <6>1, FS_Subset
          <6> QED BY <6>2, FS_CardinalityType
        <5> QED BY <4>8, <5>1, <5>2
      <4> QED BY <4>1, <4>4, <4>6, <4>7, <4>9
    <3> QED BY <3>1, <3>2
  <2>2. TypeOK'
    BY <1>8, <2>1 DEF _check_timers, Typed, TypeOK, TimerRecord, mainVars
  <2> QED BY <1>8, <2>2 DEF _check_timers, Typed, mainVars, Adds, Registered
<1>9. CASE PollNothing
  BY <1>9 DEF PollNothing, Typed, TypeOK, mainVars, Adds, Registered
<1>10. CASE DispatchTimer \/ DispatchUpdate \/ DispatchRemove \/ DispatchFails
  <2>1. pipe # <<>> /\ pipe' = Tail(pipe) /\ UNCHANGED <<now, mainVars, todo, cancelled>>
    BY <1>10 DEF DispatchTimer, DispatchUpdate, DispatchRemove, DispatchFails, Received
  <2>2. /\ pipe' \in Seq(Adding \cup Updating \cup Removing)
        /\ Head(pipe) = pipe[1] /\ 1 \in DOMAIN pipe
        /\ Head(pipe) \in Adding \cup Updating \cup Removing
        /\ \A j \in DOMAIN pipe' : j + 1 \in DOMAIN pipe /\ pipe'[j] = pipe[j + 1]
        /\ \A j \in Adds' : j + 1 \in Adds
    BY <2>1, TakenTyped
  <2>3. /\ timers' \in Seq(TimerRecord) /\ _next_timer' \in Waketime
        /\ loop' \in {"check", "poll", "dead"}
    <3>1. timers \in Seq(TimerRecord) /\ _next_timer \in Waketime
      BY DEF Typed, TypeOK, TimerRecord
    <3>2. \A w \in Waketime : Least({_next_timer, w}) \in Waketime
      BY <3>1, EarliestExists
    <3>3. CASE DispatchTimer
      <4>1. Head(pipe) \in Adding /\ 1 \in Adds
        BY <2>2, <3>3 DEF DispatchTimer, Received, Adding, Updating, Removing, Adds
      <4>2. id[Head(pipe).timer] \in Nat
        BY <2>2, <4>1 DEF Typed, TypeOK, Registered, Adding
      <4> DEFINE t == [timer |-> Head(pipe).timer, id |-> id[Head(pipe).timer],
                       waketime |-> Head(pipe).waketime]
      <4>3. t \in TimerRecord /\ timers' = Append(timers, t)
        BY <3>3, <4>1, <4>2 DEF DispatchTimer, Adding, TimerRecord
      <4>4. timers' \in Seq(TimerRecord)
        BY <3>1, <4>3
      <4>5. _next_timer' \in Waketime
        BY <3>2, <3>3, <4>1 DEF DispatchTimer, Adding
      <4> QED BY <3>3, <4>4, <4>5 DEF DispatchTimer
    <3>4. CASE DispatchUpdate
      <4>1. Head(pipe) \in Updating
        BY <2>2, <3>4 DEF DispatchUpdate, Received, Adding, Updating, Removing
      <4>2. Head(pipe).id + 1 \in DOMAIN timers /\ Head(pipe).waketime \in Waketime
        BY <3>1, <3>4, <4>1 DEF DispatchUpdate, Updating
      <4>3. timers' = [timers EXCEPT ![Head(pipe).id + 1].waketime = Head(pipe).waketime]
        BY <3>4 DEF DispatchUpdate
      <4>4. timers' \in Seq(TimerRecord)
        <5>1. [timers[Head(pipe).id + 1] EXCEPT !.waketime = Head(pipe).waketime] \in TimerRecord
          <6>1. timers[Head(pipe).id + 1] \in TimerRecord
            BY <3>1, <4>2
          <6> QED BY <4>2, <6>1 DEF TimerRecord
        <5> QED BY <3>1, <4>2, <4>3, <5>1
      <4> QED BY <3>2, <3>4, <4>2, <4>4 DEF DispatchUpdate
    <3>5. CASE DispatchRemove
      <4>1. Head(pipe) \in Removing
        BY <2>2, <3>5 DEF DispatchRemove, Received, Adding, Updating, Removing
      <4>2. Head(pipe).id + 1 \in 1 .. Len(timers)
        BY <3>1, <3>5, <4>1 DEF DispatchRemove, Removing
      <4> QED BY <3>1, <3>5, <4>2, RemoveAtTyped DEF DispatchRemove
    <3>6. CASE DispatchFails
      BY <3>1, <3>6 DEF DispatchFails
    <3> QED BY <1>10, <3>3, <3>4, <3>5, <3>6
  <2>4. TypeOK'
    BY <2>1, <2>3 DEF Typed, TypeOK, TimerRecord, mainVars
  <2>5. \A j \in Adds' : Registered(pipe[j].timer)'
    BY <2>1, <2>2 DEF Typed, Registered, Adds, mainVars
  <2> QED BY <2>1, <2>2, <2>4, <2>5 DEF Typed, Registered, mainVars
<1>11. CASE UNCHANGED vars
  BY <1>11 DEF vars, Typed, TypeOK, mainVars, reactorVars, Adds, Registered
<1> QED
  BY <1>1, <1>2, <1>3, <1>4, <1>5, <1>6, <1>7, <1>8, <1>9, <1>10, <1>11 DEF Next, Main, _runner

\* The two lists, the pipes and the idents have their types: an ident that is sent is
\* that of a timer that was made, whatever is cancelled.
THEOREM ReactorTypeCorrect == Spec => []TypeOK
<1>1. Spec => []Typed
  BY InitTyped, StepTyped, PTL DEF Spec
<1> QED BY <1>1, PTL DEF Typed

-----------------------------------------------------------------------------
(* The two processes agree.  An ident is the place of its timer in the list *)
(* of either process, and no message on its way is about a timer that the   *)
(* reactor will not have when it takes the message.                         *)

IdentIsPlace ==
  /\ \A i \in DOMAIN _timers : id[_timers[i]] = i - 1
  /\ \A t \in Timer : Registered(t) => id[t] < Len(_timers) /\ _timers[id[t] + 1] = t
  /\ \A i \in DOMAIN timers : timers[i].id = i - 1

MessagesFit ==
  \A j \in DOMAIN pipe :
    pipe[j].do # "remove" /\ (pipe[j].do = "update" => pipe[j].id < Len(_timers))

Agree ==
  cancelled \/ (IdentIsPlace /\ MessagesFit /\ TodoNamesItsTimer /\ SameTimers
                 /\ loop # "dead" /\ running # Dead)

LEMMA InitAgree == Init => Agree
<1> SUFFICES ASSUME Init PROVE IdentIsPlace /\ MessagesFit /\ TodoNamesItsTimer /\ SameTimers /\ loop # "dead" /\ running # Dead
  BY DEF Agree
<1>1. IdentIsPlace
  BY DEF Init, IdentIsPlace, Registered
<1>2. MessagesFit /\ SameTimers
  BY DEF Init, MessagesFit, SameTimers, Adds
<1>3. TodoNamesItsTimer
  BY DEF Init, TodoNamesItsTimer, Setup
<1>4. loop # "dead" /\ running # Dead
  BY DEF Init, Setup, Dead
<1> QED BY <1>1, <1>2, <1>3, <1>4

LEMMA RegisterAgrees ==
  ASSUME Typed, Agree, ~cancelled, NEW t \in Timer, NEW w \in Waketime, timer_register(t, w)
  PROVE  Agree'
<1> DEFINE m == [do |-> "timer", timer |-> t, waketime |-> w]
<1>1. m \in Adding /\ pipe' = Append(pipe, m) /\ m.do = "timer" /\ m.timer = t
  BY DEF timer_register, Send, Adding
<1> HIDE DEF m
<1>2. /\ DOMAIN pipe' = DOMAIN pipe \cup {Len(pipe) + 1} /\ Len(pipe) \in Nat /\ DOMAIN pipe = 1 .. Len(pipe)
      /\ \A j \in DOMAIN pipe : pipe'[j] = pipe[j]
      /\ pipe'[Len(pipe) + 1] = m
      /\ Adds' = Adds \cup {Len(pipe) + 1}
  BY <1>1, SentTyped DEF Typed
<1>3. /\ _timers \in Seq(Timer) /\ timers \in Seq(TimerRecord) /\ id \in [Timer -> Nat \cup {-1}]
      /\ _timers' = Append(_timers, t) /\ id' = [id EXCEPT ![t] = Len(_timers)] /\ id[t] = -1
      /\ UNCHANGED <<timers, todo, running, loop, cancelled>>
  BY DEF Typed, TypeOK, timer_register, Send, reactorVars, TimerRecord
<1>4. /\ Len(_timers') = Len(_timers) + 1 /\ Len(_timers) \in Nat
      /\ \A i \in DOMAIN _timers : _timers'[i] = _timers[i]
      /\ _timers'[Len(_timers) + 1] = t /\ id'[t] = Len(_timers)
  BY <1>3
<1>5. IdentIsPlace /\ MessagesFit /\ TodoNamesItsTimer /\ SameTimers /\ loop # "dead" /\ running # Dead
  BY DEF Agree
<1>6. \A u \in Timer : Registered(u) => u # t /\ id'[u] = id[u]
  BY <1>3 DEF Registered
<1>7. \A i \in DOMAIN _timers : _timers[i] \in Timer /\ Registered(_timers[i])
  BY <1>3 DEF Typed
<1>8. \A j \in Adds : pipe[j].timer \in Timer /\ Registered(pipe[j].timer)
  BY DEF Typed, Adds, Adding, Updating, Removing
<1>9. IdentIsPlace'
  BY <1>3, <1>4, <1>5, <1>6, <1>7 DEF IdentIsPlace, Registered
<1>10. MessagesFit'
  <2>1. \A j \in DOMAIN pipe : pipe[j].do = "update" => pipe[j].id \in Nat
    BY DEF Typed, Adding, Updating, Removing
  <2> QED BY <1>1, <1>2, <1>4, <1>5, <2>1 DEF MessagesFit
<1>11. TodoNamesItsTimer'
  <2>1. \A e \in Event : Named(e) => Named(e)'
    BY <1>3, <1>4 DEF Named, Event
  <2>2. \A i \in DOMAIN todo : todo[i] \in Event
    BY DEF Typed, TypeOK
  <2>3. running.timer # NoTimer => running \in Event
    BY DEF Typed, TypeOK, Idle, Setup, Dead
  <2> QED BY <1>3, <1>5, <2>1, <2>2, <2>3 DEF TodoNamesItsTimer
<1>12. SameTimers'
  <2>1. \A i \in DOMAIN timers' : i <= Len(_timers') /\ _timers'[i] = timers'[i].timer
    BY <1>3, <1>4, <1>5 DEF SameTimers
  <2>2. Len(timers) <= Len(_timers)
    <3>1. Len(timers) \in Nat /\ (Len(timers) # 0 => Len(timers) \in DOMAIN timers)
      BY <1>3
    <3> QED BY <1>4, <1>5, <3>1 DEF SameTimers
  <2>3. \A i \in Len(timers') + 1 .. Len(_timers') : \E j \in Adds' : pipe'[j].timer = _timers'[i]
    BY <1>1, <1>2, <1>3, <1>4, <1>5 DEF SameTimers, Adds
  <2>4. \A j \in Adds : id'[pipe'[j].timer] = id[pipe[j].timer]
    BY <1>2, <1>6, <1>8 DEF Adds
  <2>5. \A j \in Adds : id[pipe[j].timer] \in Nat /\ id[pipe[j].timer] < Len(_timers)
    BY <1>3, <1>5, <1>8 DEF IdentIsPlace, Registered
  <2>6. \A j \in Adds' : id'[pipe'[j].timer] >= Len(timers')
    BY <1>1, <1>2, <1>3, <1>4, <1>5, <2>2, <2>4 DEF SameTimers
  <2>7. \A j, k \in Adds' : j < k => id'[pipe'[j].timer] < id'[pipe'[k].timer]
    <3> SUFFICES ASSUME NEW j \in Adds', NEW k \in Adds', j < k PROVE id'[pipe'[j].timer] < id'[pipe'[k].timer]
      OBVIOUS
    <3>1. j \in Adds /\ pipe'[j] = pipe[j]
      BY <1>2 DEF Adds
    <3>2. CASE k \in Adds
      <4>1. pipe'[k] = pipe[k]
        BY <1>2, <3>2 DEF Adds
      <4>2. id[pipe[j].timer] < id[pipe[k].timer]
        BY <1>5, <3>1, <3>2 DEF SameTimers
      <4> QED BY <2>4, <3>1, <3>2, <4>1, <4>2
    <3>3. CASE k = Len(pipe) + 1
      <4>1. id'[pipe'[k].timer] = Len(_timers)
        BY <1>1, <1>2, <1>4, <3>3
      <4> QED BY <2>4, <2>5, <3>1, <4>1
    <3> QED BY <1>2, <3>2, <3>3
  <2>8. \A j \in DOMAIN pipe' \ Adds', k \in Adds' : j < k => pipe'[j].id < id'[pipe'[k].timer]
    <3>1. \A j \in DOMAIN pipe \ Adds : pipe[j].id < Len(_timers)
      BY <1>5 DEF MessagesFit, Adds, Typed, Adding, Updating, Removing
    <3> QED BY <1>1, <1>2, <1>4, <1>5, <2>4, <3>1 DEF SameTimers, Adds
  <2> QED BY <2>1, <2>3, <2>6, <2>7, <2>8 DEF SameTimers
<1> QED BY <1>3, <1>5, <1>9, <1>10, <1>11, <1>12 DEF Agree

\* An update names a timer of the main process, all of which are in the reactor's list
\* or sent before.
LEMMA UpdateAgrees ==
  ASSUME Typed, Agree, ~cancelled, NEW m \in Updating, m.id < Len(_timers),
         pipe' = Append(pipe, m), running' \in {running, Idle},
         UNCHANGED <<_timers, id, timers, todo, loop, cancelled>>
  PROVE  Agree'
<1>1. m.do = "update" /\ m.id \in Nat
  BY DEF Updating
<1>2. /\ DOMAIN pipe' = DOMAIN pipe \cup {Len(pipe) + 1} /\ Len(pipe) \in Nat /\ DOMAIN pipe = 1 .. Len(pipe)
      /\ \A j \in DOMAIN pipe : pipe'[j] = pipe[j]
      /\ pipe'[Len(pipe) + 1] = m
      /\ Adds' = Adds
  BY <1>1, SentTyped DEF Typed
<1>3. IdentIsPlace /\ MessagesFit /\ TodoNamesItsTimer /\ SameTimers /\ loop # "dead" /\ running # Dead
  BY DEF Agree
<1>4. IdentIsPlace'
  BY <1>3 DEF IdentIsPlace, Registered
<1>5. MessagesFit'
  BY <1>1, <1>2, <1>3 DEF MessagesFit
<1>6. TodoNamesItsTimer' /\ running' # Dead
  BY <1>3 DEF TodoNamesItsTimer, Named, Idle, Dead
<1>7. SameTimers'
  <2>1. \A j \in DOMAIN pipe' \ Adds', k \in Adds' : j < k => pipe'[j].id < id'[pipe'[k].timer]
    BY <1>2, <1>3 DEF SameTimers, Adds
  <2> QED BY <1>2, <1>3, <2>1 DEF SameTimers, Adds
<1> QED BY <1>3, <1>4, <1>5, <1>6, <1>7 DEF Agree

\* A todo is of a timer that the main process has under the same ident.
LEMMA CheckAgrees ==
  ASSUME Typed, Agree, ~cancelled, _check_timers
  PROVE  Agree'
<1>1. /\ UNCHANGED <<_timers, id, pipe, running, cancelled>> /\ loop' # "dead"
      /\ timers \in Seq(TimerRecord) /\ todo \in Seq(Event) /\ _timers \in Seq(Timer)
  BY DEF _check_timers, mainVars, Typed, TypeOK, TimerRecord
<1>2. IdentIsPlace /\ MessagesFit /\ TodoNamesItsTimer /\ SameTimers /\ loop # "dead" /\ running # Dead
  BY DEF Agree
<1>3. /\ DOMAIN timers' = DOMAIN timers /\ Len(timers') = Len(timers)
      /\ \A i \in DOMAIN timers : timers'[i].id = timers[i].id /\ timers'[i].timer = timers[i].timer
  <2>1. CASE now < _next_timer
    BY <2>1 DEF _check_timers
  <2>2. CASE ~(now < _next_timer)
    <3>1. timers' = [i \in DOMAIN timers |-> Fired(timers[i])]
      BY <2>2 DEF _check_timers
    <3>2. \A i \in DOMAIN timers : timers[i] \in TimerRecord
      BY <1>1
    <3> QED BY <1>1, <3>1, <3>2 DEF Fired, TimerRecord
  <2> QED BY <2>1, <2>2
<1>4. \A i \in DOMAIN todo' : Named(todo'[i])
  <2>1. CASE now < _next_timer
    BY <1>2, <2>1 DEF _check_timers, TodoNamesItsTimer
  <2>2. CASE ~(now < _next_timer)
    <3> DEFINE due == {i \in DOMAIN timers : Due(timers[i])}
    <3>1. PICK order \in InOrder(due) : todo' = todo \o [i \in DOMAIN order |-> TodoOf(timers[order[i]])]
      BY <2>2 DEF _check_timers
    <3>2. order \in [1 .. Cardinality(due) -> due] /\ Cardinality(due) \in Nat
      <4>1. IsFiniteSet(DOMAIN timers)
        BY <1>1, FS_Interval
      <4>2. IsFiniteSet(due)
        BY <4>1, FS_Subset
      <4> QED BY <4>2, FS_CardinalityType DEF InOrder
    <3> DEFINE sent == [i \in DOMAIN order |-> TodoOf(timers[order[i]])]
    <3>3. \A i \in DOMAIN order : sent[i] \in Event /\ Named(sent[i])
      <4> SUFFICES ASSUME NEW i \in DOMAIN order PROVE sent[i] \in Event /\ Named(sent[i])
        OBVIOUS
      <4>1. order[i] \in DOMAIN timers
        BY <3>2
      <4> DEFINE t == timers[order[i]]
      <4>2. t \in TimerRecord /\ t.id = order[i] - 1
        BY <1>1, <1>2, <4>1 DEF IdentIsPlace
      <4>3. order[i] <= Len(_timers) /\ _timers[order[i]] = t.timer
        BY <1>2, <4>1 DEF SameTimers
      <4>4. sent[i] = [id |-> t.id, timer |-> t.timer]
        BY DEF TodoOf
      <4>5. order[i] \in Nat
        BY <1>1, <4>1
      <4> HIDE DEF t, sent
      <4> QED BY <4>2, <4>3, <4>4, <4>5 DEF Named, Event, TimerRecord
    <3>4. sent \in Seq(Event) /\ DOMAIN sent = DOMAIN order
      BY <3>2, <3>3
    <3>5. todo' = todo \o sent /\ \A i \in DOMAIN sent : Named(sent[i])
      BY <3>1, <3>3, <3>4
    <3> HIDE DEF sent
    <3>6. \A i \in DOMAIN todo' : (i \in DOMAIN todo /\ todo'[i] = todo[i])
                                \/ (i - Len(todo) \in DOMAIN sent /\ todo'[i] = sent[i - Len(todo)])
      BY <1>1, <3>4, <3>5
    <3> QED BY <1>2, <3>5, <3>6 DEF TodoNamesItsTimer
  <2> QED BY <2>1, <2>2
<1>5. TodoNamesItsTimer'
  BY <1>1, <1>2, <1>4 DEF TodoNamesItsTimer, Named
<1>6. IdentIsPlace' /\ MessagesFit'
  BY <1>1, <1>2, <1>3 DEF IdentIsPlace, MessagesFit, Registered
<1>7. SameTimers'
  BY <1>1, <1>2, <1>3 DEF SameTimers, Adds
<1> QED BY <1>1, <1>2, <1>5, <1>6, <1>7 DEF Agree

\* The next message adds the timer that follows those the reactor has, or is an update
\* of one of them.
LEMMA DispatchAgrees ==
  ASSUME Typed, Agree, ~cancelled, DispatchTimer \/ DispatchUpdate \/ DispatchRemove \/ DispatchFails
  PROVE  Agree'
<1>1. /\ pipe # <<>> /\ pipe' = Tail(pipe) /\ UNCHANGED <<now, _timers, id, running, todo, cancelled>>
      /\ timers \in Seq(TimerRecord) /\ _timers \in Seq(Timer) /\ id \in [Timer -> Nat \cup {-1}]
  BY DEF DispatchTimer, DispatchUpdate, DispatchRemove, DispatchFails, Received, mainVars, Typed, TypeOK, TimerRecord
<1>2. /\ Head(pipe) = pipe[1] /\ 1 \in DOMAIN pipe
      /\ Head(pipe) \in Adding \cup Updating \cup Removing
      /\ \A j \in DOMAIN pipe' : j + 1 \in DOMAIN pipe /\ pipe'[j] = pipe[j + 1]
      /\ \A j \in DOMAIN pipe : j = 1 \/ j - 1 \in DOMAIN pipe'
      /\ \A j \in Adds' : j + 1 \in Adds
      /\ \A j \in Adds : j = 1 \/ j - 1 \in Adds'
  BY <1>1, TakenTyped
<1>3. IdentIsPlace /\ MessagesFit /\ TodoNamesItsTimer /\ SameTimers /\ loop # "dead" /\ running # Dead
  BY DEF Agree
<1>4. DOMAIN pipe \subseteq Nat \ {0} /\ DOMAIN pipe' \subseteq Nat \ {0} /\ Adds \subseteq DOMAIN pipe /\ Adds' \subseteq DOMAIN pipe'
  <2>1. pipe' \in Seq(Adding \cup Updating \cup Removing)
    BY <1>1, TakenTyped
  <2> QED BY <2>1 DEF Typed, Adds
<1>5. \A j \in DOMAIN pipe' \ Adds' : j + 1 \in DOMAIN pipe \ Adds
  BY <1>2, <1>4 DEF Adds
<1>6. MessagesFit' /\ TodoNamesItsTimer'
  BY <1>1, <1>2, <1>3, <1>4 DEF MessagesFit, TodoNamesItsTimer, Named
<1>7. /\ \A j, k \in Adds' : j < k => id'[pipe'[j].timer] < id'[pipe'[k].timer]
      /\ \A j \in DOMAIN pipe' \ Adds', k \in Adds' : j < k => pipe'[j].id < id'[pipe'[k].timer]
  <2>1. \A j \in DOMAIN pipe', k \in DOMAIN pipe' : j < k => j + 1 < k + 1
    BY <1>4
  <2> QED BY <1>1, <1>2, <1>3, <1>4, <1>5, <2>1 DEF SameTimers
<1>8. CASE DispatchTimer
  <2> DEFINE t == Head(pipe).timer
             new == [timer |-> t, id |-> id[t], waketime |-> Head(pipe).waketime]
  <2>1. Head(pipe) \in Adding /\ 1 \in Adds
    BY <1>2, <1>8 DEF DispatchTimer, Received, Adding, Updating, Removing, Adds
  <2>2. t \in Timer /\ Registered(t) /\ id[t] \in Nat /\ id[t] < Len(_timers) /\ _timers[id[t] + 1] = t
    BY <1>1, <1>2, <1>3, <2>1 DEF Typed, Registered, Adding, IdentIsPlace
  <2>3. id[t] = Len(timers)
    <3>1. id[t] >= Len(timers) /\ Len(timers) \in Nat /\ Len(_timers) \in Nat
      BY <1>1, <1>2, <1>3, <2>1 DEF SameTimers
    <3>2. SUFFICES ASSUME id[t] > Len(timers) PROVE FALSE
      BY <2>2, <3>1
    <3>3. Len(timers) + 1 \in Len(timers) + 1 .. Len(_timers)
      BY <2>2, <3>1, <3>2
    <3>4. PICK j \in Adds : pipe[j].timer = _timers[Len(timers) + 1]
      BY <1>3, <3>3 DEF SameTimers
    <3>5. id[pipe[j].timer] = Len(timers)
      BY <1>1, <1>3, <3>1, <3>3, <3>4 DEF IdentIsPlace
    <3>6. j # 1 /\ 1 < j
      BY <1>1, <1>2, <1>4, <3>2, <3>4, <3>5, <3>1
    <3>7. id[pipe[1].timer] < id[pipe[j].timer]
      BY <1>3, <2>1, <3>6 DEF SameTimers
    <3> QED BY <1>2, <2>2, <3>1, <3>2, <3>5, <3>7
  <2>4. timers' = Append(timers, new) /\ loop' = "check" /\ new \in TimerRecord
    BY <1>8, <2>1, <2>2 DEF DispatchTimer, Adding, TimerRecord
  <2>5. new.timer = t /\ new.id = id[t]
    OBVIOUS
  <2> HIDE DEF new, t
  <2>6. /\ Len(timers') = Len(timers) + 1 /\ Len(timers) \in Nat /\ DOMAIN timers = 1 .. Len(timers)
        /\ DOMAIN timers' = 1 .. Len(timers) + 1
        /\ \A i \in DOMAIN timers : timers'[i] = timers[i]
        /\ timers'[Len(timers) + 1] = new
    BY <1>1, <2>4
  <2>7. IdentIsPlace'
    BY <1>1, <1>3, <2>3, <2>5, <2>6 DEF IdentIsPlace, Registered
  <2>8. \A i \in DOMAIN timers' : i <= Len(_timers') /\ _timers'[i] = timers'[i].timer
    BY <1>1, <1>3, <2>2, <2>3, <2>5, <2>6 DEF SameTimers
  <2>9. \A j \in Adds' : id'[pipe'[j].timer] >= Len(timers')
    <3> SUFFICES ASSUME NEW j \in Adds' PROVE id'[pipe'[j].timer] >= Len(timers')
      OBVIOUS
    <3>1. j + 1 \in Adds /\ 1 < j + 1 /\ pipe'[j] = pipe[j + 1]
      BY <1>2, <1>4
    <3>2. id[pipe[1].timer] < id[pipe[j + 1].timer]
      BY <1>3, <2>1, <3>1 DEF SameTimers
    <3>3. id[pipe[j + 1].timer] \in Nat
      BY <1>1, <3>1 DEF Typed, Registered, Adds, Adding, Updating, Removing
    <3>4. id[pipe[1].timer] = Len(timers)
      BY <1>2, <2>3 DEF t
    <3>5. id'[pipe'[j].timer] = id[pipe[j + 1].timer]
      BY <1>1, <3>1
    <3> QED BY <2>6, <3>2, <3>3, <3>4, <3>5
  <2>10. \A i \in Len(timers') + 1 .. Len(_timers') : \E j \in Adds' : pipe'[j].timer = _timers'[i]
    <3> SUFFICES ASSUME NEW i \in Len(timers') + 1 .. Len(_timers') PROVE \E j \in Adds' : pipe'[j].timer = _timers'[i]
      OBVIOUS
    <3>1. i \in Len(timers) + 1 .. Len(_timers) /\ i # Len(timers) + 1 /\ i \in DOMAIN _timers
      BY <1>1, <2>6
    <3>2. PICK j \in Adds : pipe[j].timer = _timers[i]
      BY <1>3, <3>1 DEF SameTimers
    <3>3. id[_timers[i]] = i - 1
      BY <1>3, <3>1 DEF IdentIsPlace
    <3>4. j # 1
      BY <1>2, <2>3, <3>1, <3>2, <3>3, <2>6 DEF t
    <3>5. j - 1 \in Adds' /\ pipe'[j - 1] = pipe[j]
      BY <1>2, <1>4, <3>4
    <3> QED BY <1>1, <3>2, <3>5
  <2> QED BY <1>1, <1>3, <1>6, <1>7, <2>4, <2>7, <2>8, <2>9, <2>10 DEF Agree, SameTimers
<1>9. CASE Head(pipe).do = "update"
  <2>1. 1 \notin Adds /\ Head(pipe) \in Updating /\ Head(pipe).id < Len(_timers)
    BY <1>2, <1>3, <1>9 DEF Adds, Adding, Updating, Removing, MessagesFit
  <2>2. Head(pipe).id \in Nat
    BY <2>1 DEF Updating
  <2>3. Head(pipe).id < Len(timers)
    <3>1. SUFFICES ASSUME Head(pipe).id >= Len(timers) PROVE FALSE
      BY <1>1, <2>2
    <3>2. Head(pipe).id + 1 \in Len(timers) + 1 .. Len(_timers) /\ Head(pipe).id + 1 \in DOMAIN _timers
      BY <1>1, <2>1, <2>2, <3>1
    <3>3. PICK j \in Adds : pipe[j].timer = _timers[Head(pipe).id + 1]
      BY <1>3, <3>2 DEF SameTimers
    <3>4. 1 < j /\ 1 \in DOMAIN pipe \ Adds
      BY <1>2, <1>4, <2>1
    <3>5. pipe[1].id < id[pipe[j].timer]
      BY <1>3, <3>4 DEF SameTimers
    <3>6. id[pipe[j].timer] = Head(pipe).id
      BY <1>3, <2>2, <3>2, <3>3 DEF IdentIsPlace
    <3> QED BY <1>2, <2>2, <3>5, <3>6
  <2>4. DispatchUpdate
    BY <1>9, <1>1, <2>2, <2>3 DEF DispatchTimer, DispatchUpdate, DispatchRemove, DispatchFails, Received
  <2>5. /\ DOMAIN timers' = DOMAIN timers /\ Len(timers') = Len(timers) /\ loop' = "check"
        /\ \A i \in DOMAIN timers : timers'[i].id = timers[i].id /\ timers'[i].timer = timers[i].timer
    <3>1. Head(pipe).id + 1 \in DOMAIN timers
      BY <1>1, <2>2, <2>3
    <3>2. timers' = [timers EXCEPT ![Head(pipe).id + 1].waketime = Head(pipe).waketime] /\ loop' = "check"
      BY <2>4 DEF DispatchUpdate
    <3>3. \A i \in DOMAIN timers : timers[i] \in TimerRecord
      BY <1>1
    <3> QED BY <1>1, <3>1, <3>2, <3>3 DEF TimerRecord
  <2>6. IdentIsPlace'
    BY <1>1, <1>3, <2>5 DEF IdentIsPlace, Registered
  <2>7. \A i \in Len(timers') + 1 .. Len(_timers') : \E j \in Adds' : pipe'[j].timer = _timers'[i]
    <3> SUFFICES ASSUME NEW i \in Len(timers) + 1 .. Len(_timers) PROVE \E j \in Adds' : pipe'[j].timer = _timers[i]
      BY <1>1, <2>5
    <3>1. PICK j \in Adds : pipe[j].timer = _timers[i]
      BY <1>3 DEF SameTimers
    <3>2. j - 1 \in Adds' /\ pipe'[j - 1] = pipe[j]
      BY <1>2, <1>4, <2>1
    <3> QED BY <3>1, <3>2
  <2>8. \A j \in Adds' : id'[pipe'[j].timer] >= Len(timers')
    BY <1>1, <1>2, <1>3, <1>4, <2>5 DEF SameTimers
  <2>9. \A i \in DOMAIN timers' : i <= Len(_timers') /\ _timers'[i] = timers'[i].timer
    BY <1>1, <1>3, <2>5 DEF SameTimers
  <2> QED BY <1>1, <1>3, <1>6, <1>7, <2>5, <2>6, <2>7, <2>8, <2>9 DEF Agree, SameTimers
<1>10. DispatchTimer \/ Head(pipe).do = "update"
  BY <1>2, <1>3 DEF DispatchTimer, DispatchUpdate, DispatchRemove, DispatchFails, Received, MessagesFit
<1> QED BY <1>8, <1>9, <1>10

LEMMA StepAgree == Typed /\ Agree /\ [Next]_vars => Agree'
<1> SUFFICES ASSUME Typed, Agree, [Next]_vars PROVE Agree'
  OBVIOUS
<1>1. CASE cancelled \/ cancelled'
  <2>1. cancelled' \in BOOLEAN /\ cancelled \in BOOLEAN /\ (cancelled => cancelled')
    <3>1. Typed'
      BY StepTyped
    <3>2. cancelled => cancelled'
      BY DEF Next, Main, _runner, Tick, timer_register, timer_update, timer_cancel, CancelFails, EndSetup,
         BeginTodo, EndSomeTodo, EndTodo, _check_timers, PollNothing, DispatchTimer, DispatchUpdate,
         DispatchRemove, DispatchFails, Received, vars
    <3> QED BY <3>1, <3>2 DEF Typed, TypeOK
  <2> QED BY <1>1, <2>1 DEF Agree
<1>2. CASE ~cancelled /\ ~cancelled'
  <2> USE <1>2
  <2>1. CASE Tick \/ EndSetup \/ PollNothing \/ UNCHANGED vars
    <3>1. /\ UNCHANGED <<_timers, id, pipe, timers, todo, cancelled>> /\ running' \in {running, Idle}
          /\ loop' \in {loop, "check"}
      BY <2>1 DEF Tick, EndSetup, PollNothing, vars, mainVars, reactorVars
    <3>2. Idle # Dead /\ Idle.timer = NoTimer
      BY DEF Idle, Dead
    <3>3. IdentIsPlace' /\ MessagesFit' /\ SameTimers'
      BY <3>1 DEF Agree, IdentIsPlace, MessagesFit, SameTimers, Adds, Registered
    <3>4. TodoNamesItsTimer' /\ loop' # "dead" /\ running' # Dead
      BY <3>1, <3>2 DEF Agree, TodoNamesItsTimer, Named
    <3> QED BY <3>3, <3>4 DEF Agree
  <2>2. CASE \E t \in Timer, w \in Waketime : timer_register(t, w)
    BY <2>2, RegisterAgrees
  <2>3. CASE \E t \in Timer, w \in Waketime : timer_update(t, w)
    <3>1. PICK t \in Timer, w \in Waketime : timer_update(t, w)
      BY <2>3
    <3> DEFINE m == [do |-> "update", id |-> id[t], waketime |-> w]
    <3>2. m \in Updating /\ m.id = id[t] /\ pipe' = Append(pipe, m)
      BY <3>1 DEF timer_update, Send, Updating, Typed, TypeOK
    <3>3. id[t] < Len(_timers)
      BY <3>1 DEF timer_update, Agree, IdentIsPlace, Registered
    <3>4. UNCHANGED <<_timers, id, timers, todo, loop, cancelled, running>>
      BY <3>1 DEF timer_update, Send, reactorVars
    <3> HIDE DEF m
    <3> QED BY <3>2, <3>3, <3>4, UpdateAgrees
  <2>4. CASE BeginTodo
    <3>1. todo # <<>> /\ todo \in Seq(Event) /\ todo' = Tail(todo) /\ 1 \in DOMAIN todo /\ Head(todo) = todo[1]
      BY <2>4 DEF BeginTodo, Typed, TypeOK
    <3>2. Head(todo) \in Event /\ Named(Head(todo))
      BY <3>1 DEF Agree, TodoNamesItsTimer
    <3>3. running' = [timer |-> Head(todo).timer, id |-> Head(todo).id]
      BY <2>4, <3>2 DEF BeginTodo, Named
    <3>4. Named(running) '
      BY <2>4, <3>2, <3>3 DEF BeginTodo, Named
    <3>5. running' # Dead
      BY <3>2, <3>3 DEF Event, Dead
    <3>6. \A i \in DOMAIN todo' : i + 1 \in DOMAIN todo /\ todo'[i] = todo[i + 1]
      BY <3>1
    <3>7. TodoNamesItsTimer'
      BY <2>4, <3>4, <3>6 DEF Agree, TodoNamesItsTimer, Named, BeginTodo
    <3>8. IdentIsPlace' /\ MessagesFit' /\ SameTimers' /\ loop' # "dead"
      BY <2>4 DEF BeginTodo, reactorVars, Agree, IdentIsPlace, MessagesFit, SameTimers, Adds, Registered
    <3> QED BY <3>5, <3>7, <3>8 DEF Agree
  <2>5. CASE EndSomeTodo
    <3>1. PICK w \in Waketime : EndTodo(w)
      BY <2>5 DEF EndSomeTodo
    <3> DEFINE m == [do |-> "update", id |-> running.id, waketime |-> w]
    <3>2. running \in Event /\ running.id < Len(_timers)
      BY <3>1 DEF EndTodo, Typed, TypeOK, Idle, Setup, Dead, Agree, TodoNamesItsTimer, Named
    <3>3. m \in Updating /\ m.id = running.id /\ pipe' = Append(pipe, m)
      BY <3>1, <3>2 DEF EndTodo, Updating, Event
    <3>4. UNCHANGED <<_timers, id, timers, todo, loop, cancelled>> /\ running' = Idle
      BY <3>1 DEF EndTodo, reactorVars
    <3> HIDE DEF m
    <3> QED BY <3>2, <3>3, <3>4, UpdateAgrees
  <2>6. CASE _check_timers
    BY <2>6, CheckAgrees
  <2>7. CASE DispatchTimer \/ DispatchUpdate \/ DispatchRemove \/ DispatchFails
    BY <2>7, DispatchAgrees
  <2>8. ~(\E t \in Timer : timer_cancel(t) \/ CancelFails(t))
    BY DEF timer_cancel, CancelFails
  <2> QED BY <2>1, <2>2, <2>3, <2>4, <2>5, <2>6, <2>7, <2>8 DEF Next, Main, _runner
<1>3. cancelled \in BOOLEAN
  BY DEF Typed, TypeOK
<1> QED BY <1>1, <1>2

\* While no timer is cancelled, an ident means the same timer to both processes, with any
\* number of timers, messages and todos on their way, and no ident is ever out of range.
THEOREM IdentsAlwaysAgree == Spec => []IdentsAgree
<1>1. Init => Typed /\ Agree
  BY InitTyped, InitAgree
<1>2. (Typed /\ Agree) /\ [Next]_vars => (Typed /\ Agree)'
  BY StepTyped, StepAgree
<1>3. Agree => IdentsAgree
  BY DEF Agree, IdentsAgree
<1> QED BY <1>1, <1>2, <1>3, PTL DEF Spec

-----------------------------------------------------------------------------
(* The menu                                                                *)

MenuItems == Lists \cup Groups \cup Inputs \cup Labels \cup DOMAIN Action

\* Whatever the lists show, and whether any row of theirs is always there or none.
MenuAssumed ==
  /\ Rows \in Nat \ {0} /\ Root \in Lists /\ Lists \cap Inputs = {} /\ "nothing" \notin Inputs
  /\ \A c \in Lists \cup Groups : Kids[c] \in Seq(MenuItems)
  /\ \A a \in DOMAIN Action : Action[a] \in {"back", "exit", "none"}

Scripts == [what : {"enter", "leave", "set", "run"}, of : MenuItems]
Places == {<<>>} \cup {<<l>> : l \in Lists}

MenuState == [running : BOOLEAN, stack : Seq(Lists), top_row : Nat, selected : Nat]
ItemsTyped(its) == its \in [Lists \cup Groups -> Seq(MenuItems)]

MenuTyped ==
  /\ menu \in MenuState /\ items \in [Lists \cup Groups -> Seq(MenuItems)]
  /\ chosen \in [Groups -> Int] /\ DOMAIN value = Inputs
  /\ off \subseteq Conditional /\ queue \in Seq(Scripts)

\* The selected row is on the screen, and is a row of the list unless that is empty.
Shows(m, its) ==
  m.running =>
    /\ m.stack # <<>> /\ ItemsTyped(its) /\ (m.selected = 0 \/ m.selected < Len(its[Top(m)]))
    /\ m.top_row <= m.selected /\ m.selected < m.top_row + Rows

\* A script takes the user from one place to another, the scripts queued to where the menu is.
Takes(before, script, after) ==
  CASE script.what = "enter" -> before = <<>> /\ after = <<script.of>>
    [] script.what = "leave" -> before = <<script.of>> /\ after = <<>>
    [] OTHER -> after = before
Turns(scripts, from, to) ==
  \E inside \in [0 .. Len(scripts) -> Places] :
    /\ inside[0] = from /\ inside[Len(scripts)] = to
    /\ \A k \in 1 .. Len(scripts) : Takes(inside[k - 1], scripts[k], inside[k])
Place(m) == IF m.running THEN <<Top(m)>> ELSE <<>>
InTurn == Turns(queue, entered, Place(menu))

MenuInv == MenuTyped /\ Shows(menu, items) /\ EditIsCurrent /\ InTurn

-----------------------------------------------------------------------------
(* What is kept of the items of a list                                     *)

\* What is kept of a list is made of its items.
LEMMA FilterFacts ==
  ASSUME NEW c, NEW S, Kids[c] \in Seq(S), NEW its
  PROVE  Filter(c, its) \in Seq(S)
<1> DEFINE kids == Kids[c]
           At(g, i) == IF i = 0 THEN <<>>
                       ELSE IF IsEnabled(Kids[c][i], its) THEN Append(g[i - 1], Kids[c][i]) ELSE g[i - 1]
           IsKept(g, n) == g = [i \in 0 .. n |-> At(g, i)]
           D == {n \in Nat : \E g : IsKept(g, n)}
<1>1. 0 \in D
  <2>1. [i \in 0 .. 0 |-> <<>>] = [i \in 0 .. 0 |-> At([j \in 0 .. 0 |-> <<>>], i)]
    OBVIOUS
  <2> QED
    BY <2>1
<1>2. ASSUME NEW n \in Nat, n \in D PROVE n + 1 \in D
  <2>1. PICK g : g = [i \in 0 .. n |-> At(g, i)]
    BY <1>2
  <2> DEFINE next == IF IsEnabled(Kids[c][n + 1], its) THEN Append(g[n], Kids[c][n + 1]) ELSE g[n]
             h == [i \in 0 .. n + 1 |-> IF i <= n THEN g[i] ELSE next]
  <2>2. \A i \in 0 .. n + 1 : h[i] = At(h, i)
    <3> SUFFICES ASSUME NEW i \in 0 .. n + 1 PROVE h[i] = At(h, i)
      OBVIOUS
    <3>1. CASE i = 0
      BY <2>1, <3>1
    <3>2. CASE i \in 1 .. n
      <4>1. h[i - 1] = g[i - 1] /\ h[i] = g[i]
        <5> HIDE DEF next
        <5> QED
          BY <3>2
      <4>2. g[i] = At(g, i)
        <5>1. i \in 0 .. n
          BY <3>2
        <5> HIDE DEF At
        <5> QED
          BY <2>1, <5>1
      <4> QED
        BY <4>1, <4>2, <3>2
    <3>3. CASE i = n + 1
      <4>1. h[i - 1] = g[n] /\ h[i] = next
        BY <3>3
      <4> QED
        BY <4>1, <3>3
    <3> QED
      BY <3>1, <3>2, <3>3
  <2>3. h = [i \in 0 .. n + 1 |-> At(h, i)]
    BY <2>2
  <2> HIDE DEF h, At
  <2>4. \E g_new : g_new = [i \in 0 .. n + 1 |-> At(g_new, i)]
    BY <2>3
  <2> QED
    BY <2>4
<1>3. Len(kids) \in D
  <2>1. Len(kids) \in Nat
    OBVIOUS
  <2> HIDE DEF D, kids
  <2> QED
    BY <1>1, <1>2, <2>1, Induction
<1> DEFINE kept == CHOOSE g : g = [i \in 0 .. Len(Kids[c]) |-> At(g, i)]
<1>4. kept = [i \in 0 .. Len(Kids[c]) |-> At(kept, i)]
  <2>1. \E g : g = [i \in 0 .. Len(Kids[c]) |-> At(g, i)]
    BY <1>3
  <2> HIDE DEF At
  <2> QED
    BY <2>1, Zenon
<1>5. Filter(c, its) = kept[Len(Kids[c])]
  BY Zenon DEF Filter
<1>6. PICK f : f = kept
  OBVIOUS
<1> HIDE DEF kept
<1>7. \A i \in 0 .. Len(kids) : f[i] = At(f, i)
  BY <1>4, <1>6
<1> DEFINE T == {n \in Nat : n <= Len(kids) => f[n] \in Seq(S)}
<1>8. 0 \in T
  <2>1. Len(kids) \in Nat /\ 0 \in 0 .. Len(kids)
    OBVIOUS
  <2>2. f[0] = <<>>
    BY <1>7, <2>1
  <2>3. f[0] \in Seq(S)
    BY <2>2
  <2> QED
    BY <2>3
<1>9. ASSUME NEW n \in Nat, n \in T PROVE n + 1 \in T
  <2> SUFFICES ASSUME n + 1 <= Len(kids) PROVE f[n + 1] \in Seq(S)
    OBVIOUS
  <2>1. f[n] \in Seq(S)
    BY <1>9
  <2>2. f[n + 1] = IF IsEnabled(kids[n + 1], its) THEN Append(f[n], kids[n + 1]) ELSE f[n]
    BY <1>7
  <2>3. kids[n + 1] \in S
    OBVIOUS
  <2> HIDE DEF kids
  <2>4. Append(f[n], kids[n + 1]) \in Seq(S)
    BY <2>1, <2>3, AppendProperties
  <2> QED
    BY <2>1, <2>2, <2>4
<1>10. Nat \subseteq T
  <2> HIDE DEF T
  <2> QED
    BY <1>8, <1>9, Induction
<1>11. f[Len(kids)] \in Seq(S)
  BY <1>10
<1> QED
  BY <1>5, <1>6, <1>11

\* A list or group is filtered to items of its own.
LEMMA FilterTyped ==
  ASSUME MenuAssumed, NEW c \in Lists \cup Groups, NEW its
  PROVE  Filter(c, its) \in Seq(MenuItems)
<1>1. Kids[c] \in Seq(MenuItems)
  BY DEF MenuAssumed
<1> QED
  BY <1>1, FilterFacts

\* So updating a list leaves all of them lists of items.
LEMMA UpdateTyped ==
  ASSUME MenuAssumed, ItemsTyped(items), NEW l
  PROVE  ItemsTyped(update_items(l)) /\ ItemsTyped(IF ListEditing(l) THEN items ELSE update_items(l))
<1> DEFINE new == Filter(l, items)
           In == {g \in Groups : \E i \in DOMAIN new : new[i] = g /\ ~Editing(g)}
<1>1. update_items(l) = [c \in DOMAIN items |-> IF c = l THEN new ELSE IF c \in In THEN Filter(c, items) ELSE items[c]]
  BY DEF update_items
<1>2. DOMAIN items = Lists \cup Groups
  BY DEF ItemsTyped
<1>3. \A c \in Lists \cup Groups : Filter(c, items) \in Seq(MenuItems)
  BY FilterTyped
<1>4. \A c \in Lists \cup Groups : items[c] \in Seq(MenuItems)
  BY DEF ItemsTyped
<1>5. \A c \in Lists \cup Groups : c = l => new = Filter(c, items)
  OBVIOUS
<1> HIDE DEF In, new
<1>6. ItemsTyped(update_items(l))
  BY <1>1, <1>2, <1>3, <1>4, <1>5 DEF ItemsTyped
<1> QED
  BY <1>6

\* So does filling all of them.
LEMMA PopulateTyped ==
  ASSUME MenuAssumed, ItemsTyped(items)
  PROVE  ItemsTyped(populate_items)
<1> DEFINE groups == [c \in DOMAIN items |-> IF c \in Groups THEN Filter(c, items) ELSE <<>>]
<1>1. populate_items = [c \in DOMAIN items |-> IF c \in Groups THEN groups[c] ELSE Filter(c, groups)]
  BY DEF populate_items
<1>2. DOMAIN items = Lists \cup Groups
  BY DEF ItemsTyped
<1>3. \A c \in Lists \cup Groups : c \in Groups => groups[c] = Filter(c, items)
  BY <1>2
<1> HIDE DEF groups
<1>4. \A c \in Lists \cup Groups : Filter(c, items) \in Seq(MenuItems) /\ Filter(c, groups) \in Seq(MenuItems)
  BY FilterTyped
<1> QED
  BY <1>1, <1>2, <1>3, <1>4 DEF ItemsTyped

-----------------------------------------------------------------------------
(* The scripts that wait                                                   *)

\* A script that is queued takes the user from where the queue led to.
LEMMA TurnsAppend ==
  ASSUME NEW q \in Seq(Scripts), NEW from, NEW to, Turns(q, from, to),
         NEW s \in Scripts, NEW after \in Places, Takes(to, s, after)
  PROVE  Append(q, s) \in Seq(Scripts) /\ Turns(Append(q, s), from, after)
<1>1. PICK inside \in [0 .. Len(q) -> Places] :
        /\ inside[0] = from /\ inside[Len(q)] = to
        /\ \A k \in 1 .. Len(q) : Takes(inside[k - 1], q[k], inside[k])
  BY DEF Turns
<1> DEFINE longer == [k \in 0 .. Len(q) + 1 |-> IF k <= Len(q) THEN inside[k] ELSE after]
           qs == Append(q, s)
<1>2. /\ qs \in Seq(Scripts) /\ Len(qs) = Len(q) + 1 /\ Len(q) \in Nat
      /\ \A k \in 1 .. Len(q) : qs[k] = q[k]
      /\ qs[Len(q) + 1] = s
  BY AppendProperties
<1>3. /\ longer \in [0 .. Len(q) + 1 -> Places] /\ longer[Len(q) + 1] = after
      /\ \A k \in 0 .. Len(q) : longer[k] = inside[k]
  BY <1>2
<1> HIDE DEF longer, qs
<1>4. ASSUME NEW k \in 1 .. Len(q) + 1 PROVE Takes(longer[k - 1], qs[k], longer[k])
  <2>1. CASE k \in 1 .. Len(q)
    <3>1. longer[k - 1] = inside[k - 1] /\ longer[k] = inside[k] /\ qs[k] = q[k]
      BY <1>2, <1>3, <2>1, SMTT(30)
    <3> QED
      BY <1>1, <2>1, <3>1
  <2>2. CASE k = Len(q) + 1
    <3>1. longer[k - 1] = to /\ longer[k] = after /\ qs[k] = s
      BY <1>1, <1>2, <1>3, <2>2
    <3> QED
      BY <3>1
  <2> QED
    BY <1>2, <2>1, <2>2
<1>5. longer[0] = from
  BY <1>1, <1>2, <1>3
<1>6. Turns(qs, from, after)
  BY <1>2, <1>3, <1>4, <1>5 DEF Turns
<1> QED
  BY <1>2, <1>6 DEF qs

\* A script that is run leaves the others to lead where they did.
LEMMA TurnsTail ==
  ASSUME NEW q \in Seq(Scripts), q # <<>>, NEW from, NEW to, Turns(q, from, to)
  PROVE  /\ Tail(q) \in Seq(Scripts) /\ Head(q) \in Scripts
         /\ from \in Places
         /\ \E next \in Places : Takes(from, Head(q), next) /\ Turns(Tail(q), next, to)
<1>1. PICK inside \in [0 .. Len(q) -> Places] :
        /\ inside[0] = from /\ inside[Len(q)] = to
        /\ \A k \in 1 .. Len(q) : Takes(inside[k - 1], q[k], inside[k])
  BY DEF Turns
<1> DEFINE rest == Tail(q)
           shorter == [k \in 0 .. Len(q) - 1 |-> inside[k + 1]]
<1>2. /\ rest \in Seq(Scripts) /\ Len(rest) = Len(q) - 1 /\ Len(q) \in Nat /\ Len(q) > 0
      /\ \A k \in 1 .. Len(q) - 1 : rest[k] = q[k + 1]
      /\ Head(q) = q[1] /\ q[1] \in Scripts
  OBVIOUS
<1>3. /\ shorter \in [0 .. Len(q) - 1 -> Places]
      /\ \A k \in 0 .. Len(q) - 1 : shorter[k] = inside[k + 1]
  BY <1>2
<1> HIDE DEF rest, shorter
<1>4. ASSUME NEW k \in 1 .. Len(q) - 1 PROVE Takes(shorter[k - 1], rest[k], shorter[k])
  <2>1. shorter[k - 1] = inside[k] /\ shorter[k] = inside[k + 1] /\ rest[k] = q[k + 1]
    BY <1>2, <1>3
  <2>2. Takes(inside[(k + 1) - 1], q[k + 1], inside[k + 1])
    BY <1>1, <1>2
  <2> QED
    BY <1>2, <2>1, <2>2
<1>5. shorter[0] = inside[1] /\ shorter[Len(q) - 1] = to /\ inside[1] \in Places /\ inside[0] \in Places
  <2>1. 0 \in 0 .. Len(q) - 1 /\ Len(q) - 1 \in 0 .. Len(q) - 1 /\ 0 \in 0 .. Len(q) /\ 1 \in 0 .. Len(q)
        /\ (Len(q) - 1) + 1 = Len(q) /\ 0 + 1 = 1
    BY <1>2
  <2>2. shorter[0] = inside[0 + 1] /\ shorter[Len(q) - 1] = inside[(Len(q) - 1) + 1]
    BY <1>3, <2>1
  <2>3. inside[1] \in Places /\ inside[0] \in Places
    BY <1>1, <2>1
  <2> QED
    BY <1>1, <2>1, <2>2, <2>3
<1>6. Turns(rest, inside[1], to)
  BY <1>2, <1>3, <1>4, <1>5 DEF Turns
<1>7. Takes(inside[1 - 1], q[1], inside[1])
  BY <1>1, <1>2
<1> QED
  BY <1>1, <1>2, <1>5, <1>6, <1>7 DEF rest

-----------------------------------------------------------------------------
(* The selected item                                                       *)

\* While the menu is shown a list is on top.
LEMMA ShownFacts ==
  ASSUME MenuInv, menu.running
  PROVE  /\ Top(menu) \in Lists /\ items[Top(menu)] \in Seq(MenuItems) /\ Len(items[Top(menu)]) \in Nat
         /\ menu.selected \in Nat /\ ItemsTyped(items) /\ menu.stack \in Seq(Lists) /\ Len(menu.stack) > 0
         /\ menu.selected = 0 \/ menu.selected < Len(items[Top(menu)])
<1>1. /\ menu \in MenuState /\ menu.stack # <<>> /\ ItemsTyped(items)
      /\ menu.selected = 0 \/ menu.selected < Len(items[Top(menu)])
  BY DEF MenuInv, MenuTyped, Shows
<1>2. menu.stack \in Seq(Lists) /\ menu.selected \in Nat
  BY <1>1 DEF MenuState
<1>3. Len(menu.stack) \in Nat /\ Len(menu.stack) > 0
  BY <1>1, <1>2
<1>4. Top(menu) \in Lists
  BY <1>2, <1>3 DEF Top
<1>5. items[Top(menu)] \in Seq(MenuItems)
  BY <1>1, <1>4 DEF ItemsTyped
<1>6. Len(items[Top(menu)]) \in Nat
  BY <1>5
<1> QED
  BY <1>1, <1>2, <1>3, <1>4, <1>5, <1>6

\* A list that is not empty has a selected item, and no other one is edited.
LEMMA CurrentFacts ==
  ASSUME MenuInv, menu.running, items[Top(menu)] # <<>>
  PROVE  /\ menu.selected < Len(items[Top(menu)]) /\ Current \in MenuItems
         /\ ~Editing(Current) => \A i \in Inputs : value[i] = NONE
         /\ Editing(Current) => Edited \in Inputs /\ \A i \in Inputs \ {Edited} : value[i] = NONE
<1>1. PICK shown \in Seq(MenuItems) : shown = items[Top(menu)]
  BY ShownFacts
<1>2. menu.selected \in Nat /\ (menu.selected = 0 \/ menu.selected < Len(shown)) /\ Len(shown) \in Nat
  BY <1>1, ShownFacts
<1>3. Len(shown) > 0
  BY <1>1
<1>4. menu.selected < Len(shown) /\ menu.selected + 1 \in 1 .. Len(shown)
  BY <1>2, <1>3
<1>5. Current \in MenuItems
  BY <1>1, <1>4 DEF Current
<1>6. \A i \in Inputs : value[i] # NONE => Edited = i
  BY DEF MenuInv, EditIsCurrent
<1>7. ~Editing(Current) => \A i \in Inputs : value[i] = NONE
  BY <1>6 DEF Editing, Edited
<1>8. Editing(Current) => Edited \in Inputs
  BY DEF Editing, Edited
<1> QED
  BY <1>1, <1>4, <1>5, <1>6, <1>7, <1>8

\* While the screen stays as it is, so does what is edited.
LEMMA SameEdited ==
  ASSUME menu' = menu, items' = items, chosen' = chosen
  PROVE  Edited' = Edited
BY DEF Edited, Current, Selected, Top

LEMMA WritableFacts ==
  ASSUME NEW own \in Seq(MenuItems)
  PROVE  Writable(own) \subseteq 0 .. Len(own) - 1
BY DEF Writable

\* A set of places has a last one.
LEMMA MostNumber ==
  ASSUME NEW n \in Nat, NEW T \in SUBSET 0 .. n, T # {}
  PROVE  \E x \in T : \A y \in T : x >= y
<1> DEFINE U == {n - x : x \in T}
<1>1. U \subseteq Nat /\ U # {}
  <2>1. \A x \in T : n - x \in Nat
    OBVIOUS
  <2> QED
    BY <2>1
<1>2. PICK u \in U : \A v \in U : u <= v
  <2> HIDE DEF U
  <2> QED
    BY <1>1, LeastNumber
<1>3. PICK x \in T : u = n - x
  OBVIOUS
<1>4. \A y \in T : n - y \in U
  OBVIOUS
<1>5. \A y \in T : u <= n - y
  <2> HIDE DEF U
  <2> QED
    BY <1>2, <1>4
<1>6. T \subseteq Int
  OBVIOUS
<1> QED
  BY <1>3, <1>5, <1>6

LEMMA NextIsNumber ==
  ASSUME NEW here \in Int, NEW own \in Seq(MenuItems)
  PROVE  NextOf(here, own) \in Int
<1> DEFINE from == IF here = NONE THEN 0 ELSE IF here < Len(own) - 1 THEN here + 1 ELSE NONE
           found == {i \in Writable(own) : i >= from}
<1>1. Len(own) \in Nat
  OBVIOUS
<1>2. from \in Int /\ NONE \in Int
  BY <1>1 DEF NONE
<1>3. found \subseteq Nat
  BY <1>1, WritableFacts
<1> DEFINE least == CHOOSE i \in found : \A j \in found : i <= j
<1>4. found # {} => least \in Int
  <2> SUFFICES ASSUME found # {} PROVE least \in Int
    OBVIOUS
  <2> HIDE DEF found
  <2>1. \E i \in found : \A j \in found : i <= j
    BY <1>3, LeastNumber
  <2>2. least \in found
    BY <2>1, Zenon
  <2> HIDE DEF least
  <2> QED
    BY <1>3, <2>2
<1>5. NextOf(here, own) = CASE from = NONE \/ ~Fits(from, own) -> from [] found = {} -> NONE [] OTHER -> least
  BY DEF NextOf
<1> HIDE DEF from, found, least
<1> QED
  BY <1>2, <1>4, <1>5

LEMMA PrevIsNumber ==
  ASSUME NEW here \in Int, NEW own \in Seq(MenuItems)
  PROVE  PrevOf(here, own) \in Int
<1> DEFINE from == IF here = NONE THEN Len(own) - 1 ELSE IF here > 0 THEN here - 1 ELSE NONE
           found == {i \in Writable(own) : i <= from}
<1>1. Len(own) \in Nat
  OBVIOUS
<1>2. from \in Int /\ NONE \in Int
  BY <1>1 DEF NONE
<1>3. found \subseteq 0 .. Len(own)
  BY <1>1, WritableFacts
<1> DEFINE most == CHOOSE i \in found : \A j \in found : i >= j
<1>4. found # {} => most \in Int
  <2> SUFFICES ASSUME found # {} PROVE most \in Int
    OBVIOUS
  <2> HIDE DEF found
  <2>1. \E i \in found : \A j \in found : i >= j
    BY <1>1, <1>3, MostNumber
  <2>2. most \in found
    BY <2>1, Zenon
  <2> HIDE DEF most
  <2> QED
    BY <1>3, <2>2
<1>5. PrevOf(here, own) = CASE from = NONE \/ ~Fits(from, own) -> from [] found = {} -> NONE [] OTHER -> most
  BY DEF PrevOf
<1> HIDE DEF from, found, most
<1> QED
  BY <1>2, <1>4, <1>5

\* The group that is moved to has a number selected.
LEMMA RewindNext ==
  ASSUME NEW from \in [Groups -> Int], NEW its, ItemsTyped(its), NEW row
  PROVE  Rewind(from, its, row, NextOf) \in [Groups -> Int]
<1> DEFINE g == its[Top(menu')][row + 1]
<1>1. CASE Fits(row, its[Top(menu')]) /\ g \in Groups
  <2>1. PICK h \in Groups : h = g
    BY <1>1
  <2>2. its[h] \in Seq(MenuItems) /\ from[h] \in Int
    BY DEF ItemsTyped
  <2>3. PICK n \in Int : n = NextOf(from[h], its[h])
    BY <2>2, NextIsNumber
  <2>4. Rewind(from, its, row, NextOf) = [from EXCEPT ![h] = n]
    BY <1>1, <2>1, <2>3 DEF Rewind
  <2> QED
    BY <2>4
<1>2. CASE ~(Fits(row, its[Top(menu')]) /\ g \in Groups)
  <2>1. Rewind(from, its, row, NextOf) = from
    BY <1>2 DEF Rewind
  <2> QED
    BY <2>1
<1> QED
  BY <1>1, <1>2

LEMMA RewindPrev ==
  ASSUME NEW from \in [Groups -> Int], NEW its, ItemsTyped(its), NEW row
  PROVE  Rewind(from, its, row, PrevOf) \in [Groups -> Int]
<1> DEFINE g == its[Top(menu')][row + 1]
<1>1. CASE Fits(row, its[Top(menu')]) /\ g \in Groups
  <2>1. PICK h \in Groups : h = g
    BY <1>1
  <2>2. its[h] \in Seq(MenuItems) /\ from[h] \in Int
    BY DEF ItemsTyped
  <2>3. PICK n \in Int : n = PrevOf(from[h], its[h])
    BY <2>2, PrevIsNumber
  <2>4. Rewind(from, its, row, PrevOf) = [from EXCEPT ![h] = n]
    BY <1>1, <2>1, <2>3 DEF Rewind
  <2> QED
    BY <2>4
<1>2. CASE ~(Fits(row, its[Top(menu')]) /\ g \in Groups)
  <2>1. Rewind(from, its, row, PrevOf) = from
    BY <1>2 DEF Rewind
  <2> QED
    BY <2>1
<1> QED
  BY <1>1, <1>2

\* The row of the list that was left is a row of the list above, or the first.
LEMMA FindFacts ==
  ASSUME NEW l, NEW in \in Seq(MenuItems), NEW its
  PROVE  find_item(l, in, its) \in Nat /\ (find_item(l, in, its) = 0 \/ find_item(l, in, its) < Len(in))
<1> DEFINE at == {i \in DOMAIN in : in[i] = l}
           around == Containing(l, in, its)
           first == CHOOSE i \in at : \A j \in at : i <= j
           last == CHOOSE i \in around : \A j \in around : i >= j
<1>1. PICK n \in Nat : n = Len(in)
  OBVIOUS
<1>2. at \subseteq 1 .. n /\ around \subseteq 1 .. n
  BY <1>1 DEF Containing
<1>3. find_item(l, in, its) = CASE at # {} -> first - 1 [] at = {} /\ around # {} -> last - 1 [] OTHER -> 0
  BY DEF find_item
<1> HIDE DEF at, around
<1>4. at # {} => first \in at
  <2> SUFFICES ASSUME at # {} PROVE first \in at
    OBVIOUS
  <2>1. \E i \in at : \A j \in at : i <= j
    <3>1. at \subseteq Nat
      BY <1>2
    <3> QED
      BY <3>1, LeastNumber
  <2> QED
    BY <2>1, Zenon
<1>5. around # {} => last \in around
  <2> SUFFICES ASSUME around # {} PROVE last \in around
    OBVIOUS
  <2>1. \E i \in around : \A j \in around : i >= j
    <3>1. around \in SUBSET 0 .. n
      BY <1>2
    <3> QED
      BY <3>1, MostNumber
  <2> QED
    BY <2>1, Zenon
<1>6. PICK f : f = first
  OBVIOUS
<1>7. PICK g : g = last
  OBVIOUS
<1> HIDE DEF first, last
<1>8. (at # {} => f \in 1 .. n) /\ (around # {} => g \in 1 .. n)
  BY <1>2, <1>4, <1>5, <1>6, <1>7
<1> QED
  BY <1>1, <1>3, <1>6, <1>7, <1>8

-----------------------------------------------------------------------------
(* One lemma for each key and item                                         *)

\* What a key has to keep.
LEMMA Together ==
  ASSUME menu' \in MenuState, items' \in [Lists \cup Groups -> Seq(MenuItems)], chosen' \in [Groups -> Int],
         DOMAIN value' = Inputs, off' \subseteq Conditional, queue' \in Seq(Scripts), Shows(menu', items'),
         \A i \in Inputs : value'[i] # NONE => menu'.running /\ Edited' = i,
         Turns(queue', entered', Place(menu'))
  PROVE  MenuInv'
<1>1. MenuTyped'
  BY DEF MenuTyped, MenuState
<1>2. Shows(menu, items)'
  BY DEF Shows, ItemsTyped, Top
<1>3. EditIsCurrent'
  BY DEF EditIsCurrent, NONE
<1>4. InTurn'
  BY DEF InTurn, Turns, Takes, Place, Top
<1> QED
  BY <1>1, <1>2, <1>3, <1>4 DEF MenuInv

LEMMA ScriptFacts ==
  ASSUME MenuAssumed, MenuInv, menu.running, NEW what \in {"set", "run"}, NEW of \in MenuItems
  PROVE  /\ Append(queue, Script(what, of)) \in Seq(Scripts)
         /\ Turns(Append(queue, Script(what, of)), entered, Place(menu))
<1> DEFINE s == Script(what, of)
<1>1. s \in Scripts /\ s.what \notin {"enter", "leave"}
  BY DEF Script, Scripts
<1>2. Place(menu) \in Places
  BY ShownFacts DEF Place, Places
<1> HIDE DEF s
<1>3. Takes(Place(menu), s, Place(menu))
  BY <1>1 DEF Takes
<1>4. queue \in Seq(Scripts) /\ Turns(queue, entered, Place(menu))
  BY DEF MenuInv, MenuTyped, InTurn
<1> QED
  BY <1>1, <1>2, <1>3, <1>4, TurnsAppend DEF s

LEMMA ValueStep ==
  ASSUME MenuAssumed, MenuInv, menu.running, items[Top(menu)] # <<>>, Editing(Current), NEW by \in Int, Changed(by), off' = off, entered' = entered
  PROVE  MenuInv'
<1>1. Edited \in Inputs /\ \A i \in Inputs \ {Edited} : value[i] = NONE
  BY CurrentFacts
<1>2. menu' = menu /\ items' = items /\ chosen' = chosen
  BY DEF Changed
<1>3. DOMAIN value' = Inputs /\ \A i \in Inputs \ {Edited} : value'[i] = value[i]
  <2>1. \E v : value' = [value EXCEPT ![Edited] = v]
    BY DEF Changed
  <2>2. DOMAIN value = Inputs
    BY DEF MenuInv, MenuTyped
  <2> QED
    BY <2>1, <2>2
<1>4. Edited' = Edited
  BY <1>2, SameEdited
<1>5. queue' = queue \/ queue' = Append(queue, Script("set", Edited))
  BY DEF Changed
<1>6. queue' \in Seq(Scripts) /\ Turns(queue', entered', Place(menu))
  <2>1. Edited \in MenuItems
    BY <1>1 DEF MenuItems
  <2>2. Append(queue, Script("set", Edited)) \in Seq(Scripts) /\ Turns(Append(queue, Script("set", Edited)), entered, Place(menu))
    BY <2>1, ScriptFacts
  <2>3. queue \in Seq(Scripts) /\ Turns(queue, entered, Place(menu))
    BY DEF MenuInv, MenuTyped, InTurn
  <2> QED
    BY <1>5, <2>2, <2>3
<1>7. menu \in MenuState /\ items \in [Lists \cup Groups -> Seq(MenuItems)] /\ chosen \in [Groups -> Int]
      /\ off \subseteq Conditional /\ Shows(menu, items)
  BY DEF MenuInv, MenuTyped
<1>8. \A i \in Inputs : value'[i] # NONE => menu'.running /\ Edited' = i
  BY <1>1, <1>2, <1>3, <1>4
<1> QED
  BY <1>2, <1>3, <1>6, <1>7, <1>8, Together

\* Inside a group, or from row to row.
LEMMA GroupStep ==
  ASSUME MenuAssumed, MenuInv, menu.running, items[Top(menu)] # <<>>, ~Editing(Current), Current \in Groups, NEW found \in Int, InGroup(found),
         off' = off, entered' = entered
  PROVE  MenuInv'
<1>1. \A i \in Inputs : value[i] = NONE
  BY CurrentFacts
<1>2. menu' = menu /\ items' = items /\ value' = value /\ queue' = queue /\ chosen' = [chosen EXCEPT ![Current] = found]
  BY DEF InGroup
<1>3. menu \in MenuState /\ items \in [Lists \cup Groups -> Seq(MenuItems)] /\ chosen \in [Groups -> Int]
      /\ off \subseteq Conditional /\ Shows(menu, items) /\ DOMAIN value = Inputs
      /\ queue \in Seq(Scripts) /\ Turns(queue, entered, Place(menu))
  BY DEF MenuInv, MenuTyped, InTurn
<1>4. chosen' \in [Groups -> Int]
  BY <1>2, <1>3
<1> QED
  BY <1>1, <1>2, <1>3, <1>4, Together

ShownRow(m, row) ==
  [m EXCEPT !.selected = row, !.top_row = IF row < @ THEN row ELSE IF row >= @ + Rows THEN @ + 1 ELSE @]

\* Another row of the list, and the screen scrolled to it.
LEMMA RowShows ==
  ASSUME MenuAssumed, NEW m \in MenuState, NEW its, Shows(m, its), m.running, Len(its[Top(m)]) \in Nat,
         NEW row \in Nat, row = m.selected - 1 \/ row = m.selected + 1, row < Len(its[Top(m)]),
         NEW new, new = ShownRow(m, row)
  PROVE  new \in MenuState /\ Shows(new, its) /\ new.running /\ Top(new) = Top(m)
<1> DEFINE top == IF row < m.top_row THEN row ELSE IF row >= m.top_row + Rows THEN m.top_row + 1 ELSE m.top_row
<1>1. m.top_row \in Nat /\ m.selected \in Nat /\ m.stack \in Seq(Lists) /\ Rows \in Nat \ {0}
  BY DEF MenuState, MenuAssumed
<1>2. m.stack # <<>> /\ ItemsTyped(its) /\ m.top_row <= m.selected /\ m.selected < m.top_row + Rows
  BY DEF Shows
<1>3. top \in Nat /\ top <= row /\ row < top + Rows
  <2>1. CASE row = m.selected - 1
    BY <1>1, <1>2, <2>1, SMTT(30)
  <2>2. CASE row = m.selected + 1
    BY <1>1, <1>2, <2>2, SMTT(30)
  <2> QED
    BY <2>1, <2>2
<1>4. new = [running |-> TRUE, stack |-> m.stack, top_row |-> top, selected |-> row]
  <2>1. m = [running |-> m.running, stack |-> m.stack, top_row |-> m.top_row, selected |-> m.selected] /\ m.running = TRUE
    BY DEF MenuState
  <2> QED
    BY <2>1 DEF ShownRow
<1> HIDE DEF top
<1>5. new.stack = m.stack /\ new.top_row = top /\ new.selected = row /\ new.running = TRUE
  BY <1>4
<1>6. new \in MenuState
  BY <1>1, <1>3, <1>4 DEF MenuState
<1>7. Top(new) = Top(m)
  BY <1>5 DEF Top
<1> QED
  BY <1>2, <1>3, <1>5, <1>6, <1>7 DEF Shows

LEMMA MoveStep ==
  ASSUME MenuAssumed, MenuInv, menu.running, items[Top(menu)] # <<>>, ~Editing(Current), NEW row, row = menu.selected - 1 \/ row = menu.selected + 1,
         row < 0 \/ ~Fits(row, items[Top(menu)])
           => menu' = menu /\ items' = items /\ chosen' \in [Groups -> Int] /\ value' = value /\ queue' = queue,
         ~(row < 0 \/ ~Fits(row, items[Top(menu)])) => MoveTo(row) /\ chosen' \in [Groups -> Int],
         off' = off, entered' = entered
  PROVE  MenuInv'
<1>1. \A i \in Inputs : value[i] = NONE
  BY CurrentFacts
<1>2. menu \in MenuState /\ items \in [Lists \cup Groups -> Seq(MenuItems)] /\ chosen \in [Groups -> Int]
      /\ off \subseteq Conditional /\ Shows(menu, items) /\ DOMAIN value = Inputs
      /\ queue \in Seq(Scripts) /\ Turns(queue, entered, Place(menu))
  BY DEF MenuInv, MenuTyped, InTurn
<1>3. items[Top(menu)] \in Seq(MenuItems) /\ menu.selected \in Nat
  BY ShownFacts
<1>4. CASE row < 0 \/ ~Fits(row, items[Top(menu)])
  BY <1>1, <1>2, <1>4, Together
<1>5. CASE ~(row < 0 \/ ~Fits(row, items[Top(menu)]))
  <2>1. row \in Nat /\ row < Len(items[Top(menu)]) /\ Len(items[Top(menu)]) \in Nat
    <3>1. row >= 0 /\ row + 1 \in DOMAIN items[Top(menu)]
      BY <1>3, <1>5 DEF Fits
    <3>2. DOMAIN items[Top(menu)] = 1 .. Len(items[Top(menu)]) /\ Len(items[Top(menu)]) \in Nat
      BY <1>3
    <3> QED
      BY <1>3, <3>1, <3>2
  <2>2. menu' = ShownRow(menu, row)
        /\ items' = items /\ value' = value /\ queue' = queue /\ chosen' \in [Groups -> Int]
    BY <1>5 DEF MoveTo, ShownRow
  <2>3. menu' \in MenuState /\ Shows(menu', items) /\ menu'.running /\ Top(menu') = Top(menu)
    <3>1. PICK m : m = menu'
      OBVIOUS
    <3> QED
      BY <1>2, <2>1, <2>2, <3>1, RowShows
  <2>4. Place(menu') = Place(menu)
    BY <2>3 DEF Place
  <2> QED
    BY <1>1, <1>2, <2>2, <2>3, <2>4, Together
<1> QED
  BY <1>4, <1>5

LEMMA UpStep ==
  ASSUME MenuAssumed, MenuInv, up
  PROVE  MenuInv'
<1>1. menu.running /\ items[Top(menu)] # <<>> /\ off' = off /\ entered' = entered /\ MenuTyped
  BY DEF up, Key, MenuInv
<1>2. chosen \in [Groups -> Int] /\ ItemsTyped(items)
  BY <1>1, ShownFacts DEF MenuTyped
<1>3. CASE Editing(Current)
  <2>1. Changed(-1)
    BY <1>3 DEF up
  <2> QED
    BY <1>1, <1>3, <2>1, ValueStep
<1>4. CASE ~Editing(Current) /\ InTheGroup(PrevOf) # NONE
  <2>1. InGroup(InTheGroup(PrevOf))
    BY <1>4 DEF up
  <2>2. Current \in Groups
    BY <1>4 DEF InTheGroup
  <2>3. items[Current] \in Seq(MenuItems) /\ chosen[Current] \in Int
    BY <1>2, <2>2 DEF ItemsTyped
  <2>4. PICK found : found = InTheGroup(PrevOf)
    OBVIOUS
  <2>5. found \in Int
    BY <2>2, <2>3, <2>4, PrevIsNumber DEF InTheGroup
  <2> QED
    BY <1>1, <1>4, <2>1, <2>2, <2>4, <2>5, GroupStep
<1>5. CASE ~Editing(Current) /\ ~(InTheGroup(PrevOf) # NONE)
  <2>1. Move(menu.selected - 1, PrevOf)
    BY <1>5 DEF up
  <2>2. PICK row : row = menu.selected - 1
    OBVIOUS
  <2>3. Unwound \in [Groups -> Int]
    BY <1>2 DEF Unwound, NONE
  <2>4. row < 0 \/ ~Fits(row, items[Top(menu)])
          => menu' = menu /\ items' = items /\ chosen' \in [Groups -> Int] /\ value' = value /\ queue' = queue
    BY <2>1, <2>2, <2>3 DEF Move
  <2>5. ~(row < 0 \/ ~Fits(row, items[Top(menu)])) => MoveTo(row) /\ chosen' \in [Groups -> Int]
    <3>1. Rewind(Unwound, items, row, PrevOf) \in [Groups -> Int]
      BY <1>2, <2>3, RewindPrev
    <3>2. ~(row < 0 \/ ~Fits(row, items[Top(menu)])) => MoveTo(row) /\ chosen' = Rewind(Unwound, items, row, PrevOf)
      BY <2>1, <2>2 DEF Move
    <3> QED
      BY <3>1, <3>2
  <2> QED
    BY <1>1, <1>5, <2>2, <2>4, <2>5, MoveStep
<1> QED
  BY <1>3, <1>4, <1>5

LEMMA DownStep ==
  ASSUME MenuAssumed, MenuInv, down
  PROVE  MenuInv'
<1>1. menu.running /\ items[Top(menu)] # <<>> /\ off' = off /\ entered' = entered /\ MenuTyped
  BY DEF down, Key, MenuInv
<1>2. chosen \in [Groups -> Int] /\ ItemsTyped(items)
  BY <1>1, ShownFacts DEF MenuTyped
<1>3. CASE Editing(Current)
  <2>1. Changed(1)
    BY <1>3 DEF down
  <2> QED
    BY <1>1, <1>3, <2>1, ValueStep
<1>4. CASE ~Editing(Current) /\ InTheGroup(NextOf) # NONE
  <2>1. InGroup(InTheGroup(NextOf))
    BY <1>4 DEF down
  <2>2. Current \in Groups
    BY <1>4 DEF InTheGroup
  <2>3. items[Current] \in Seq(MenuItems) /\ chosen[Current] \in Int
    BY <1>2, <2>2 DEF ItemsTyped
  <2>4. PICK found : found = InTheGroup(NextOf)
    OBVIOUS
  <2>5. found \in Int
    BY <2>2, <2>3, <2>4, NextIsNumber DEF InTheGroup
  <2> QED
    BY <1>1, <1>4, <2>1, <2>2, <2>4, <2>5, GroupStep
<1>5. CASE ~Editing(Current) /\ ~(InTheGroup(NextOf) # NONE)
  <2>1. Move(menu.selected + 1, NextOf)
    BY <1>5 DEF down
  <2>2. PICK row : row = menu.selected + 1
    OBVIOUS
  <2>3. Unwound \in [Groups -> Int]
    BY <1>2 DEF Unwound, NONE
  <2>4. row < 0 \/ ~Fits(row, items[Top(menu)])
          => menu' = menu /\ items' = items /\ chosen' \in [Groups -> Int] /\ value' = value /\ queue' = queue
    BY <2>1, <2>2, <2>3 DEF Move
  <2>5. ~(row < 0 \/ ~Fits(row, items[Top(menu)])) => MoveTo(row) /\ chosen' \in [Groups -> Int]
    <3>1. Rewind(Unwound, items, row, NextOf) \in [Groups -> Int]
      BY <1>2, <2>3, RewindNext
    <3>2. ~(row < 0 \/ ~Fits(row, items[Top(menu)])) => MoveTo(row) /\ chosen' = Rewind(Unwound, items, row, NextOf)
      BY <2>1, <2>2 DEF Move
    <3> QED
      BY <3>1, <3>2
  <2> QED
    BY <1>1, <1>5, <2>2, <2>4, <2>5, MoveStep
<1> QED
  BY <1>3, <1>4, <1>5

\* A list is left, and another is entered.
LEMMA LeaveFacts ==
  ASSUME MenuAssumed, MenuInv, menu.running
  PROVE  /\ Append(queue, Script("leave", Top(menu))) \in Seq(Scripts)
         /\ Turns(Append(queue, Script("leave", Top(menu))), entered, <<>>)
<1> DEFINE s == Script("leave", Top(menu))
<1>1. Top(menu) \in Lists
  BY ShownFacts
<1>2. s \in Scripts /\ s.what = "leave" /\ s.of = Top(menu)
  BY <1>1 DEF Script, Scripts, MenuItems
<1>3. queue \in Seq(Scripts) /\ Turns(queue, entered, <<Top(menu)>>)
  BY DEF MenuInv, MenuTyped, InTurn, Place
<1>4. <<>> \in Places
  BY DEF Places
<1> HIDE DEF s
<1>5. Takes(<<Top(menu)>>, s, <<>>)
  BY <1>2 DEF Takes
<1> QED
  BY <1>2, <1>3, <1>4, <1>5, TurnsAppend DEF s

LEMMA EnterFacts ==
  ASSUME MenuAssumed, NEW q \in Seq(Scripts), Turns(q, entered, <<>>), NEW l \in Lists
  PROVE  Append(q, Script("enter", l)) \in Seq(Scripts) /\ Turns(Append(q, Script("enter", l)), entered, <<l>>)
<1> DEFINE s == Script("enter", l)
<1>1. s \in Scripts /\ s.what = "enter" /\ s.of = l
  BY DEF Script, Scripts, MenuItems
<1>2. <<l>> \in Places
  BY DEF Places
<1> HIDE DEF s
<1>3. Takes(<<>>, s, <<l>>)
  BY <1>1 DEF Takes
<1> QED
  BY <1>1, <1>2, <1>3, TurnsAppend DEF s

LEMMA ChangeFacts ==
  ASSUME MenuAssumed, MenuInv, menu.running, NEW l \in Lists
  PROVE  LET q == queue \o <<Script("leave", Top(menu)), Script("enter", l)>>
         IN  q \in Seq(Scripts) /\ Turns(q, entered, <<l>>)
<1>1. PICK a \in Scripts : a = Script("leave", Top(menu))
  <2>1. Top(menu) \in Lists
    BY ShownFacts
  <2> QED
    BY <2>1 DEF Script, Scripts, MenuItems
<1>2. PICK b \in Scripts : b = Script("enter", l)
  BY DEF Script, Scripts, MenuItems
<1>3. queue \in Seq(Scripts)
  BY DEF MenuInv, MenuTyped
<1>4. queue \o <<a, b>> = Append(Append(queue, a), b)
  BY <1>3
<1>5. Append(queue, a) \in Seq(Scripts) /\ Turns(Append(queue, a), entered, <<>>)
  BY <1>1, LeaveFacts
<1>6. Append(Append(queue, a), b) \in Seq(Scripts) /\ Turns(Append(Append(queue, a), b), entered, <<l>>)
  BY <1>2, <1>5, EnterFacts
<1> QED
  BY <1>1, <1>2, <1>4, <1>6

ShownAt(m, stack, row) == [m EXCEPT !.stack = stack, !.top_row = row, !.selected = row]

\* Another list is shown: nothing is edited before and after.
LEMMA ListStep ==
  ASSUME MenuAssumed, MenuInv, menu.running, items[Top(menu)] # <<>>, \A i \in Inputs : value[i] = NONE,
         NEW stack \in Seq(Lists), Len(stack) > 0, NEW l \in Lists, l = stack[Len(stack)],
         NEW row \in Nat, menu' = ShownAt(menu, stack, row),
         ItemsTyped(items'), row = 0 \/ row < Len(items'[l]), chosen' \in [Groups -> Int],
         queue' = queue \o <<Script("leave", Top(menu)), Script("enter", l)>>,
         value' = value, off' = off, entered' = entered
  PROVE  MenuInv'
<1>1. menu \in MenuState /\ off \subseteq Conditional /\ DOMAIN value = Inputs
  BY DEF MenuInv, MenuTyped
<1>2. menu' = [running |-> TRUE, stack |-> stack, top_row |-> row, selected |-> row]
  <2>1. menu = [running |-> menu.running, stack |-> menu.stack, top_row |-> menu.top_row, selected |-> menu.selected]
        /\ menu.running = TRUE
    BY <1>1 DEF MenuState
  <2> QED
    BY <2>1 DEF ShownAt
<1>3. PICK m : m = menu'
  OBVIOUS
<1>4. row < row + Rows
  BY DEF MenuAssumed
<1>5. m \in MenuState /\ m.running /\ m.running = TRUE /\ Top(m) = l /\ m.stack # <<>>
      /\ m.top_row = row /\ m.selected = row
  BY <1>2, <1>3 DEF MenuState, Top
<1>6. Shows(m, items')
  BY <1>4, <1>5 DEF Shows
<1>7. queue' \in Seq(Scripts) /\ Turns(queue', entered', Place(m))
  <2>1. Place(m) = <<l>>
    BY <1>5 DEF Place
  <2> QED
    BY <2>1, ChangeFacts
<1>8. items' \in [Lists \cup Groups -> Seq(MenuItems)]
  BY DEF ItemsTyped
<1> QED
  BY <1>1, <1>3, <1>5, <1>6, <1>7, <1>8, Together

LEMMA LeftStep ==
  ASSUME MenuAssumed, MenuInv, menu.running, items[Top(menu)] # <<>>, \A i \in Inputs : value[i] = NONE,
         menu' \in MenuState, ~menu'.running, items' = items, chosen' = chosen,
         queue' = Append(queue, Script("leave", Top(menu))), value' = value, off' = off, entered' = entered
  PROVE  MenuInv'
<1>1. /\ items \in [Lists \cup Groups -> Seq(MenuItems)] /\ chosen \in [Groups -> Int]
      /\ off \subseteq Conditional /\ DOMAIN value = Inputs
  BY DEF MenuInv, MenuTyped
<1>2. PICK m : m = menu'
  OBVIOUS
<1>3. Shows(m, items) /\ Place(m) = <<>>
  BY <1>2 DEF Shows, Place
<1>4. queue' \in Seq(Scripts) /\ Turns(queue', entered', Place(m))
  BY <1>3, LeaveFacts
<1> QED
  BY <1>1, <1>2, <1>3, <1>4, Together

LEMMA ExitStep ==
  ASSUME MenuAssumed, MenuInv, menu.running, items[Top(menu)] # <<>>, exit, value' = value, off' = off, entered' = entered
  PROVE  MenuInv'
<1>1. ~Editing(Current) /\ menu' = [menu EXCEPT !.running = FALSE] /\ items' = items /\ chosen' = chosen
      /\ queue' = Append(queue, Script("leave", Top(menu)))
  BY DEF exit, Leave
<1>2. \A i \in Inputs : value[i] = NONE
  BY <1>1, CurrentFacts
<1>3. menu' \in MenuState /\ ~menu'.running
  <2>1. menu \in MenuState
    BY DEF MenuInv, MenuTyped
  <2> QED
    BY <1>1, <2>1 DEF MenuState
<1> QED
  BY <1>1, <1>2, <1>3, LeftStep

LEMMA BackStep ==
  ASSUME MenuAssumed, MenuInv, menu.running, items[Top(menu)] # <<>>, back, value' = value, off' = off, entered' = entered
  PROVE  MenuInv'
<1>1. ~Editing(Current)
  BY DEF back
<1>2. \A i \in Inputs : value[i] = NONE
  BY <1>1, CurrentFacts
<1>3. menu \in MenuState /\ MenuTyped /\ off \subseteq Conditional
  BY DEF MenuInv, MenuTyped
<1>4. ItemsTyped(items) /\ menu.stack \in Seq(Lists) /\ Len(menu.stack) \in Nat /\ Len(menu.stack) > 0
  BY ShownFacts
<1>5. CASE Len(menu.stack) > 1
  <2>1. PICK above : above = SubSeq(menu.stack, 1, Len(menu.stack) - 1)
    OBVIOUS
  <2>2. above \in Seq(Lists) /\ Len(above) = Len(menu.stack) - 1 /\ Len(above) > 0 /\ above[Len(above)] = menu.stack[Len(menu.stack) - 1]
    BY <1>4, <1>5, <2>1
  <2>3. PICK l \in Lists : l = above[Len(above)] /\ l = Above
    BY <2>2 DEF Above
  <2>4. PICK rest : rest = ItemsAbove
    OBVIOUS
  <2>5. ItemsTyped(rest)
    <3>1. rest = IF ListEditing(l) THEN items ELSE update_items(l)
      BY <2>3, <2>4 DEF ItemsAbove
    <3> QED
      BY <1>4, <3>1, UpdateTyped
  <2>6. PICK row : row = RowAbove
    OBVIOUS
  <2>7. row \in Nat /\ (row = 0 \/ row < Len(rest[l]))
    <3>1. rest[l] \in Seq(MenuItems)
      BY <2>5 DEF ItemsTyped
    <3>2. row = find_item(Top(menu), rest[l], rest)
      BY <2>3, <2>4, <2>6 DEF RowAbove
    <3> QED
      BY <3>1, <3>2, FindFacts
  <2>8. menu' = ShownAt(menu, above, row) /\ items' = rest
        /\ queue' = queue \o <<Script("leave", Top(menu)), Script("enter", l)>>
    BY <1>5, <2>1, <2>3, <2>4, <2>6 DEF back, backToList, BackTo, ShownAt
  <2>9. chosen' \in [Groups -> Int]
    <3>1. chosen' = Rewind(chosen, rest, menu'.selected, NextOf)
      BY <1>5, <2>4 DEF back
    <3>2. chosen \in [Groups -> Int]
      BY <1>3 DEF MenuTyped
    <3> QED
      BY <2>5, <3>1, <3>2, RewindNext
  <2> QED
    BY <1>2, <2>2, <2>3, <2>5, <2>7, <2>8, <2>9, ListStep
<1>6. CASE ~(Len(menu.stack) > 1)
  <2>1. menu' = [menu EXCEPT !.running = FALSE, !.stack = <<>>] /\ items' = items /\ chosen' = chosen
        /\ queue' = Append(queue, Script("leave", Top(menu)))
    BY <1>6 DEF back
  <2>2. menu' \in MenuState /\ ~menu'.running
    <3>1. <<>> \in Seq(Lists)
      OBVIOUS
    <3> QED
      BY <1>3, <2>1, <3>1 DEF MenuState
  <2> QED
    BY <1>2, <2>1, <2>2, LeftStep
<1> QED
  BY <1>5, <1>6

LEMMA PushStep ==
  ASSUME MenuAssumed, MenuInv, menu.running, items[Top(menu)] # <<>>, Edited \in Lists, stack_push(Edited), off' = off, entered' = entered
  PROVE  MenuInv'
<1>1. \A i \in Inputs : value[i] = NONE
  <2>1. Edited \notin Inputs
    BY DEF MenuAssumed
  <2> QED
    BY <2>1 DEF MenuInv, EditIsCurrent
<1>2. PICK l \in Lists : l = Edited
  OBVIOUS
<1>3. menu \in MenuState /\ off \subseteq Conditional /\ chosen \in [Groups -> Int]
  BY DEF MenuInv, MenuTyped
<1>4. menu' = [menu EXCEPT !.stack = Append(@, l), !.top_row = 0, !.selected = 0]
      /\ items' = (IF ListEditing(l) THEN items ELSE update_items(l))
      /\ queue' = queue \o <<Script("leave", Top(menu)), Script("enter", l)>> /\ chosen' = chosen /\ value' = value
  BY <1>2 DEF stack_push
<1>5. PICK stack : stack = Append(menu.stack, l)
  OBVIOUS
<1>6. stack \in Seq(Lists) /\ Len(stack) > 0 /\ stack[Len(stack)] = l
  BY <1>3, <1>5 DEF MenuState
<1>7. ItemsTyped(items)
  BY ShownFacts
<1>8. ItemsTyped(items')
  BY <1>4, <1>7, UpdateTyped
<1>9. menu' = ShownAt(menu, stack, 0)
  BY <1>4, <1>5 DEF ShownAt
<1> QED
  BY <1>1, <1>3, <1>4, <1>6, <1>8, <1>9, ListStep

LEMMA SelectInputStep ==
  ASSUME MenuAssumed, MenuInv, menu.running, items[Top(menu)] # <<>>, Edited \in Inputs, NEW long \in BOOLEAN, SelectInput(Edited, long),
         off' = off, entered' = entered
  PROVE  MenuInv'
<1>1. menu' = menu /\ items' = items /\ chosen' = chosen
  BY DEF SelectInput
<1>2. Edited' = Edited
  BY <1>1, SameEdited
<1>3. DOMAIN value = Inputs /\ \A i \in Inputs \ {Edited} : value[i] = NONE
  BY DEF MenuInv, MenuTyped, EditIsCurrent
<1>4. value' = value \/ \E v : value' = [value EXCEPT ![Edited] = v]
  BY DEF SelectInput
<1>5. DOMAIN value' = Inputs /\ \A i \in Inputs \ {Edited} : value'[i] = NONE
  BY <1>3, <1>4
<1>6. queue' = queue \/ queue' = Append(queue, Script("set", Edited))
  BY DEF SelectInput
<1>7. queue' \in Seq(Scripts) /\ Turns(queue', entered', Place(menu))
  <2>1. Edited \in MenuItems
    BY DEF MenuItems
  <2>2. Append(queue, Script("set", Edited)) \in Seq(Scripts) /\ Turns(Append(queue, Script("set", Edited)), entered, Place(menu))
    BY <2>1, ScriptFacts
  <2>3. queue \in Seq(Scripts) /\ Turns(queue, entered, Place(menu))
    BY DEF MenuInv, MenuTyped, InTurn
  <2> QED
    BY <1>6, <2>2, <2>3
<1>8. menu \in MenuState /\ items \in [Lists \cup Groups -> Seq(MenuItems)] /\ chosen \in [Groups -> Int]
      /\ off \subseteq Conditional /\ Shows(menu, items)
  BY DEF MenuInv, MenuTyped
<1>9. \A i \in Inputs : value'[i] # NONE => menu'.running /\ Edited' = i
  BY <1>1, <1>2, <1>5
<1> QED
  BY <1>1, <1>5, <1>7, <1>8, <1>9, Together

LEMMA CommandStep ==
  ASSUME MenuAssumed, MenuInv, menu.running, items[Top(menu)] # <<>>, Edited \in DOMAIN Action, Command(Edited), value' = value,
         off' = off, entered' = entered
  PROVE  MenuInv'
<1>1. Action[Edited] \in {"back", "exit", "none"}
  BY DEF MenuAssumed
<1>2. CASE Action[Edited] = "back"
  <2>1. back
    BY <1>2 DEF Command
  <2> QED
    BY <2>1, BackStep
<1>3. CASE Action[Edited] = "exit"
  <2>1. exit
    BY <1>3 DEF Command
  <2> QED
    BY <2>1, ExitStep
<1>4. CASE Action[Edited] = "none"
  <2>1. queue' = Append(queue, Script("run", Edited)) /\ menu' = menu /\ items' = items /\ chosen' = chosen
    BY <1>4 DEF Command
  <2>2. Edited' = Edited
    BY <2>1, SameEdited
  <2>3. queue' \in Seq(Scripts) /\ Turns(queue', entered', Place(menu))
    <3>1. Edited \in MenuItems
      BY DEF MenuItems
    <3> QED
      BY <2>1, <3>1, ScriptFacts
  <2>4. menu \in MenuState /\ items \in [Lists \cup Groups -> Seq(MenuItems)] /\ chosen \in [Groups -> Int]
        /\ off \subseteq Conditional /\ Shows(menu, items) /\ DOMAIN value = Inputs
    BY DEF MenuInv, MenuTyped
  <2>5. \A i \in Inputs : value'[i] # NONE => menu'.running /\ Edited' = i
    BY <2>1, <2>2 DEF MenuInv, EditIsCurrent
  <2> QED
    BY <2>1, <2>3, <2>4, <2>5, Together
<1> QED
  BY <1>1, <1>2, <1>3, <1>4

LEMMA SelectStep ==
  ASSUME MenuAssumed, MenuInv, NEW long \in BOOLEAN, select(long)
  PROVE  MenuInv'
<1>1. menu.running /\ items[Top(menu)] # <<>> /\ off' = off /\ entered' = entered
  BY DEF select, Key
<1>2. CASE Edited \in Inputs /\ SelectInput(Edited, long)
  BY <1>1, <1>2, SelectInputStep
<1>3. CASE Edited \in Lists /\ stack_push(Edited)
  BY <1>1, <1>3, PushStep
<1>4. CASE Edited \in DOMAIN Action /\ Command(Edited) /\ value' = value
  BY <1>1, <1>4, CommandStep
<1> QED
  BY <1>2, <1>3, <1>4 DEF select

LEMMA BeginStep ==
  ASSUME MenuAssumed, MenuInv, begin
  PROVE  MenuInv'
<1>1. ~menu.running /\ menu' = [running |-> TRUE, stack |-> <<Root>>, top_row |-> 0, selected |-> 0]
      /\ items' = populate_items /\ chosen' = [g \in Groups |-> NONE] /\ queue' = Append(queue, Script("enter", Root))
      /\ value' = value /\ off' = off /\ entered' = entered
  BY DEF begin
<1>2. \A i \in Inputs : value[i] = NONE
  BY <1>1 DEF MenuInv, EditIsCurrent
<1>3. off \subseteq Conditional /\ items \in [Lists \cup Groups -> Seq(MenuItems)] /\ DOMAIN value = Inputs
      /\ queue \in Seq(Scripts) /\ Turns(queue, entered, Place(menu))
  BY DEF MenuInv, MenuTyped, InTurn
<1>4. ItemsTyped(items')
  BY <1>1, <1>3, PopulateTyped DEF ItemsTyped
<1>5. PICK m : m = menu'
  OBVIOUS
<1>6. Root \in Lists /\ Rows \in Nat \ {0}
  BY DEF MenuAssumed
<1>7. /\ m \in MenuState /\ m.running = TRUE /\ m.top_row = 0 /\ m.selected = 0 /\ m.stack = <<Root>>
      /\ <<Root>> # <<>> /\ Top(m) = Root
  BY <1>1, <1>5, <1>6 DEF MenuState, Top
<1>8. Shows(m, items')
  BY <1>4, <1>6, <1>7 DEF Shows, ItemsTyped
<1>9. queue' \in Seq(Scripts) /\ Turns(queue', entered', Place(m))
  <2>1. Place(menu) = <<>> /\ Place(m) = <<Root>>
    BY <1>1, <1>7 DEF Place
  <2> QED
    BY <1>1, <1>3, <1>6, <2>1, EnterFacts
<1>10. chosen' \in [Groups -> Int]
  BY <1>1 DEF NONE
<1>11. items' \in [Lists \cup Groups -> Seq(MenuItems)]
  BY <1>4 DEF ItemsTyped
<1> QED
  BY <1>1, <1>2, <1>3, <1>5, <1>7, <1>8, <1>9, <1>10, <1>11, Together

LEMMA RestFacts ==
  ASSUME NEW n \in Nat \ {0}, NEW i \in Int
  PROVE  i % n \in Int /\ (i \in 0 .. n - 1 => i % n = i)
OBVIOUS

\* Rendering takes up new conditions and cuts the rows and the chosen items to what is there.
LEMMA RenderStep ==
  ASSUME MenuAssumed, MenuInv, Render
  PROVE  MenuInv'
<1> DEFINE shown == items[Top(menu)]
<1>1. PICK S : /\ menu' = [menu EXCEPT !.top_row = NotNegative(AtMost(@, Len(shown) - Rows)),
                                       !.selected = NotNegative(AtMost(@, Len(shown) - 1))]
               /\ chosen' = [g \in Groups |->
                    IF chosen[g] # NONE /\ g \in S
                    THEN IF items[g] = <<>> THEN NONE ELSE chosen[g] % Len(items[g]) ELSE chosen[g]]
  BY Zenon DEF Render
<1>2. menu.running /\ off' \subseteq Conditional /\ items' = items /\ value' = value /\ queue' = queue /\ entered' = entered
  BY DEF Render
<1>3. menu \in MenuState /\ items \in [Lists \cup Groups -> Seq(MenuItems)] /\ chosen \in [Groups -> Int]
      /\ Shows(menu, items) /\ DOMAIN value = Inputs /\ queue \in Seq(Scripts) /\ Turns(queue, entered, Place(menu))
  BY DEF MenuInv, MenuTyped, InTurn
<1>4. PICK n \in Nat : n = Len(shown)
  BY <1>2, ShownFacts
<1>5. /\ menu.top_row \in Nat /\ menu.selected \in Nat /\ Rows \in Nat \ {0} /\ (menu.selected = 0 \/ menu.selected < n)
      /\ menu.top_row <= menu.selected /\ menu.selected < menu.top_row + Rows /\ menu.stack # <<>> /\ ItemsTyped(items)
  BY <1>2, <1>3, <1>4 DEF Shows, MenuAssumed, MenuState
<1> DEFINE top == NotNegative(AtMost(menu.top_row, n - Rows))
<1>6. NotNegative(AtMost(menu.selected, n - 1)) = menu.selected
  BY <1>5 DEF NotNegative, AtMost
<1>7. top \in Nat /\ top <= menu.selected /\ menu.selected < top + Rows
  BY <1>5 DEF NotNegative, AtMost
<1> HIDE DEF shown, top
<1>8. menu' = [running |-> TRUE, stack |-> menu.stack, top_row |-> top, selected |-> menu.selected]
  <2>1. menu = [running |-> menu.running, stack |-> menu.stack, top_row |-> menu.top_row, selected |-> menu.selected]
        /\ menu.running = TRUE
    BY <1>2, <1>3 DEF MenuState
  <2>2. menu' = [menu EXCEPT !.top_row = top, !.selected = menu.selected]
    BY <1>1, <1>4, <1>6 DEF top
  <2> QED
    BY <2>1, <2>2
<1>9. PICK m : m = menu'
  OBVIOUS
<1>10. m \in MenuState /\ m.running = TRUE /\ m.running /\ m.stack = menu.stack /\ m.top_row = top /\ m.selected = menu.selected
  <2>1. menu.stack \in Seq(Lists)
    BY <1>3 DEF MenuState
  <2> QED
    BY <1>5, <1>7, <1>8, <1>9, <2>1 DEF MenuState
<1>11. Top(m) = Top(menu) /\ Place(m) = Place(menu)
  BY <1>2, <1>10 DEF Top, Place
<1>12. Shows(m, items)
  BY <1>4, <1>5, <1>7, <1>10, <1>11 DEF Shows, shown
<1>13. \A g \in Groups : items[g] \in Seq(MenuItems) /\ chosen[g] \in Int
  BY <1>3
<1>14. chosen' \in [Groups -> Int]
  <2> SUFFICES ASSUME NEW g \in Groups, items[g] # <<>> PROVE chosen[g] % Len(items[g]) \in Int
    BY <1>1, <1>13 DEF NONE
  <2>1. Len(items[g]) \in Nat \ {0}
    BY <1>13
  <2> QED
    BY <1>13, <2>1, RestFacts
<1>15. \A g \in Groups : chosen[g] + 1 \in DOMAIN items[g] => chosen'[g] = chosen[g]
  <2> SUFFICES ASSUME NEW g \in Groups, chosen[g] + 1 \in DOMAIN items[g] PROVE chosen'[g] = chosen[g]
    OBVIOUS
  <2>1. Len(items[g]) \in Nat \ {0} /\ chosen[g] \in 0 .. Len(items[g]) - 1 /\ items[g] # <<>>
    BY <1>13
  <2>2. chosen[g] % Len(items[g]) = chosen[g]
    BY <1>13, <2>1, RestFacts
  <2> QED
    BY <1>1, <2>1, <2>2
<1>16. ASSUME NEW i \in Inputs, value[i] # NONE PROVE Edited' = i
  <2>1. Edited = i
    BY <1>16 DEF MenuInv, EditIsCurrent
  <2>2. Current' = Current
    <3>1. Top(menu)' = Top(menu)
      BY <1>9, <1>11 DEF Top
    <3> QED
      BY <1>2, <1>9, <1>10, <3>1 DEF Current
  <2>3. CASE Current \in Groups
    <3>1. Selected(Current) = i /\ i # "nothing"
      BY <2>1, <2>3 DEF Edited, MenuAssumed
    <3>2. chosen[Current] # NONE /\ Fits(chosen[Current], items[Current])
      BY <3>1 DEF Selected
    <3>3. chosen'[Current] = chosen[Current]
      BY <1>15, <2>3, <3>2 DEF Fits
    <3>4. Selected(Current)' = Selected(Current)
      BY <1>2, <2>2, <3>3 DEF Selected
    <3> QED
      BY <2>2, <2>3, <3>1, <3>4 DEF Edited
  <2>4. CASE Current \notin Groups
    BY <2>1, <2>2, <2>4 DEF Edited
  <2> QED
    BY <2>3, <2>4
<1>17. queue' \in Seq(Scripts) /\ Turns(queue', entered', Place(m))
  BY <1>2, <1>3, <1>11
<1>18. \A i \in Inputs : value'[i] # NONE => menu'.running /\ Edited' = i
  BY <1>2, <1>9, <1>10, <1>16
<1> QED
  BY <1>2, <1>3, <1>9, <1>10, <1>12, <1>14, <1>17, <1>18, Together

LEMMA DispatchStep ==
  ASSUME MenuAssumed, MenuInv, Dispatch
  PROVE  MenuInv'
<1>1. queue # <<>> /\ queue' = Tail(queue) /\ menu' = menu /\ items' = items /\ chosen' = chosen
      /\ value' = value /\ off' = off
  BY DEF Dispatch
<1>2. menu \in MenuState /\ items \in [Lists \cup Groups -> Seq(MenuItems)] /\ chosen \in [Groups -> Int]
      /\ off \subseteq Conditional /\ Shows(menu, items) /\ DOMAIN value = Inputs
      /\ queue \in Seq(Scripts) /\ Turns(queue, entered, Place(menu))
  BY DEF MenuInv, MenuTyped, InTurn
<1>3. PICK s \in Scripts : s = Head(queue)
  BY <1>1, <1>2, TurnsTail
<1>4. PICK next \in Places : Takes(entered, s, next) /\ Turns(Tail(queue), next, Place(menu))
  BY <1>1, <1>2, <1>3, TurnsTail
<1>5. entered' = next
  <2>1. CASE s.what = "enter"
    <3>1. entered' = Append(entered, s.of)
      BY <1>3, <2>1 DEF Dispatch
    <3>2. entered = <<>> /\ next = <<s.of>>
      BY <1>4, <2>1 DEF Takes
    <3> QED
      BY <3>1, <3>2
  <2>2. CASE s.what = "leave"
    <3>1. entered' = IF entered = <<s.of>> THEN <<>> ELSE Append(entered, "left")
      BY <1>3, <2>2 DEF Dispatch
    <3>2. entered = <<s.of>> /\ next = <<>>
      BY <1>4, <2>2 DEF Takes
    <3> QED
      BY <3>1, <3>2
  <2>3. CASE s.what \notin {"enter", "leave"}
    <3>1. entered' = entered
      BY <1>3, <2>3 DEF Dispatch
    <3>2. next = entered
      BY <1>4, <2>3 DEF Takes
    <3> QED
      BY <3>1, <3>2
  <2> QED
    BY <2>1, <2>2, <2>3
<1>6. Edited' = Edited
  BY <1>1, SameEdited
<1>7. queue' \in Seq(Scripts) /\ Turns(queue', entered', Place(menu))
  BY <1>1, <1>2, <1>4, <1>5, TurnsTail
<1>8. \A i \in Inputs : value'[i] # NONE => menu'.running /\ Edited' = i
  BY <1>1, <1>6 DEF MenuInv, EditIsCurrent
<1> QED
  BY <1>1, <1>2, <1>7, <1>8, Together

LEMMA MenuInit ==
  ASSUME MenuAssumed, InitMenu
  PROVE  MenuInv
<1>1. menu = [running |-> FALSE, stack |-> <<>>, top_row |-> 0, selected |-> 0]
      /\ items = [c \in Lists \cup Groups |-> <<>>] /\ chosen = [g \in Groups |-> NONE] /\ value = [i \in Inputs |-> NONE]
      /\ off = {} /\ queue = <<>> /\ entered = <<>>
  BY DEF InitMenu
<1>2. menu \in MenuState /\ ~menu.running
  <2>1. <<>> \in Seq(Lists)
    OBVIOUS
  <2> QED
    BY <1>1, <2>1 DEF MenuState
<1>3. items \in [Lists \cup Groups -> Seq(MenuItems)]
  <2>1. <<>> \in Seq(MenuItems)
    OBVIOUS
  <2> QED
    BY <1>1, <2>1
<1>4. queue \in Seq(Scripts) /\ Len(queue) = 0
  BY <1>1
<1>5. Turns(queue, entered, Place(menu))
  <2>1. PICK inside \in [0 .. 0 -> Places] : inside[0] = <<>>
    <3>1. [k \in 0 .. 0 |-> <<>>] \in [0 .. 0 -> Places] /\ [k \in 0 .. 0 |-> <<>>][0] = <<>>
      BY DEF Places
    <3> QED
      BY <3>1
  <2>2. Place(menu) = <<>>
    BY <1>2 DEF Place
  <2>3. \A k \in 1 .. Len(queue) : Takes(inside[k - 1], queue[k], inside[k])
    BY <1>4
  <2>4. Turns(queue, <<>>, <<>>)
    BY <1>4, <2>1, <2>3 DEF Turns
  <2> QED
    BY <1>1, <2>2, <2>4
<1>6. Shows(menu, items)
  BY <1>2 DEF Shows
<1>7. chosen \in [Groups -> Int] /\ DOMAIN value = Inputs /\ \A i \in Inputs : value[i] = NONE
  BY <1>1 DEF NONE
<1> QED
  BY <1>1, <1>2, <1>3, <1>4, <1>5, <1>6, <1>7 DEF MenuInv, MenuTyped, EditIsCurrent, InTurn

LEMMA MenuStep ==
  ASSUME MenuAssumed, MenuInv, [NextMenu]_menu_vars
  PROVE  MenuInv'
<1>1. CASE begin
  BY <1>1, BeginStep
<1>2. CASE up
  BY <1>2, UpStep
<1>3. CASE down
  BY <1>3, DownStep
<1>4. CASE back_callback
  <2>1. menu.running /\ items[Top(menu)] # <<>> /\ back /\ value' = value /\ off' = off /\ entered' = entered
    BY <1>4 DEF back_callback, Key
  <2> QED
    BY <2>1, BackStep
<1>5. CASE Timeout
  <2>1. menu.running /\ items[Top(menu)] # <<>> /\ exit /\ value' = value /\ off' = off /\ entered' = entered
    BY <1>5 DEF Timeout, Key
  <2> QED
    BY <2>1, ExitStep
<1>6. CASE Render
  BY <1>6, RenderStep
<1>7. CASE Dispatch
  BY <1>7, DispatchStep
<1>8. ASSUME NEW long \in BOOLEAN, select(long) PROVE MenuInv'
  BY <1>8, SelectStep
<1>9. CASE UNCHANGED menu_vars
  <2>1. menu' = menu /\ items' = items /\ chosen' = chosen /\ value' = value /\ off' = off
        /\ queue' = queue /\ entered' = entered
    BY <1>9 DEF menu_vars
  <2>2. Edited' = Edited
    BY <2>1, SameEdited
  <2>3. menu \in MenuState /\ items \in [Lists \cup Groups -> Seq(MenuItems)] /\ chosen \in [Groups -> Int]
        /\ off \subseteq Conditional /\ Shows(menu, items) /\ DOMAIN value = Inputs
        /\ queue \in Seq(Scripts) /\ Turns(queue, entered, Place(menu))
    BY DEF MenuInv, MenuTyped, InTurn
  <2>4. \A i \in Inputs : value'[i] # NONE => menu'.running /\ Edited' = i
    BY <2>1, <2>2 DEF MenuInv, EditIsCurrent
  <2> QED
    BY <2>1, <2>3, <2>4, Together
<1> QED
  BY <1>1, <1>2, <1>3, <1>4, <1>5, <1>6, <1>7, <1>8, <1>9 DEF NextMenu

\* The selected row is on the screen, only the selected item is being edited, and the scripts
\* of the lists run in turn, for any lists, those that may show no row at all too (menu.py).
THEOREM MenuStaysCurrent ==
  ASSUME MenuAssumed
  PROVE  InitMenu /\ [][NextMenu]_menu_vars => [](SelectedIsShown /\ EditIsCurrent /\ EnteredOnce)
<1>1. InitMenu => MenuInv
  BY MenuInit
<1>2. MenuInv /\ [NextMenu]_menu_vars => MenuInv'
  BY MenuStep
<1>3. MenuInv => SelectedIsShown /\ EditIsCurrent /\ EnteredOnce
  <2> SUFFICES ASSUME MenuInv PROVE SelectedIsShown /\ EditIsCurrent /\ EnteredOnce
    OBVIOUS
  <2>1. SelectedIsShown
    <3> SUFFICES ASSUME menu.running
                 PROVE  /\ items[Top(menu)] = <<>> \/ Fits(menu.selected, items[Top(menu)])
                        /\ menu.top_row <= menu.selected /\ menu.selected < menu.top_row + Rows
      BY DEF SelectedIsShown
    <3>1. menu.top_row <= menu.selected /\ menu.selected < menu.top_row + Rows
      BY DEF MenuInv, Shows
    <3>2. ASSUME items[Top(menu)] # <<>> PROVE Fits(menu.selected, items[Top(menu)])
      <4>1. items[Top(menu)] \in Seq(MenuItems) /\ menu.selected \in Nat /\ menu.selected < Len(items[Top(menu)])
        BY <3>2, ShownFacts, CurrentFacts
      <4>2. menu.selected + 1 \in 1 .. Len(items[Top(menu)]) /\ DOMAIN items[Top(menu)] = 1 .. Len(items[Top(menu)])
        BY <4>1
      <4> QED
        BY <4>2 DEF Fits
    <3> QED
      BY <3>1, <3>2
  <2>2. EnteredOnce
    <3>1. entered \in Places
      <4>1. Len(queue) \in Nat
        BY DEF MenuInv, MenuTyped
      <4> QED
        BY <4>1 DEF MenuInv, InTurn, Turns
    <3>2. entered = <<>> \/ \E l \in Lists : entered = <<l>>
      BY <3>1 DEF Places
    <3> QED
      BY <3>2, SMTT(30) DEF EnteredOnce
  <2> QED
    BY <2>1, <2>2 DEF MenuInv
<1> QED
  BY <1>1, <1>2, <1>3, PTL

-----------------------------------------------------------------------------
(* A board and its pins *)
-----------------------------------------------------------------------------
Reasons == {"startup", "restart", "restart_mcu"}
PartKinds == {"digital", "analog", "queued", "i2c", "spi"}
OwnOid == {"queued", "i2c", "spi"}
Phases == {"setup", "identified", "asked", "asked again", "ready", "failed", "restart"}
Orders == [what : {"allocate", "config", "set"}, oid : Int]
Outgoing == [what : {"allocate", "config", "set", "get_config", "emergency_stop"}, oid : Int]
              \cup [what : {"finalize"}, oid : Seq(Orders)]
Checksums == Seq(Orders) \cup {Byte}
Incoming == [what : {"config"}, config : Checksums, is_shutdown : BOOLEAN]
              \cup [what : {"shutdown", "is_shutdown", "starting"}]
McuParts == [kind : PartKinds, oid : Int]
Hosts == [phase : Phases, method : Methods, parts : Seq(McuParts), oids : Nat,
          config : Seq(Orders), init : Seq(Orders), built : BOOLEAN, starting : BOOLEAN,
          is_shutdown : BOOLEAN, printer : {"up", "told", "down"}, writes : Nat]
BoardStates == [config : Seq(Orders), oids : Int, objects : SUBSET Int, shutdown : BOOLEAN, resets : Nat,
                error : BOOLEAN, crc : Checksums]

McuTypes ==
  /\ mcu \in Hosts /\ board \in BoardStates
  /\ session \in [count : Nat, reason : Reasons, tries : Nat, faults : Nat, missed : BOOLEAN, cut : BOOLEAN]
  /\ outbound \in Seq(Outgoing) /\ inbound \in Seq(Incoming)

-----------------------------------------------------------------------------
Configured(s, oid) == \E i \in 1 .. Len(s) : s[i].what = "config" /\ s[i].oid = oid
Once(s) == \A i, j \in 1 .. Len(s) : s[i].what = "config" /\ s[j].what = "config" /\ s[i].oid = s[j].oid => i = j
SetAfter(s) ==
  \A i \in 1 .. Len(s) : s[i].what = "set" => \E j \in 1 .. i - 1 : s[j].what = "config" /\ s[j].oid = s[i].oid

ConfigIsGood(s, n) ==
  /\ \A i \in 1 .. Len(s) : s[i].what \in {"config", "set"}
  /\ \A i \in 1 .. Len(s) : s[i].what = "config" => s[i].oid \in 0 .. n - 1
  /\ Once(s) /\ SetAfter(s)

\* The parts up to k are built.
HasOid(m, k, i) == m.parts[i].kind \in OwnOid \/ i <= k
OidsDiffer(m, k) ==
  \A i, j \in 1 .. Len(m.parts) :
    HasOid(m, k, i) /\ HasOid(m, k, j) /\ m.parts[i].oid = m.parts[j].oid => i = j
Assembled(m, k) ==
  /\ \A i \in 1 .. Len(m.parts) : HasOid(m, k, i) => m.parts[i].oid \in 0 .. m.oids - 1
  /\ OidsDiffer(m, k)
  /\ \A i \in 1 .. Len(m.parts) :
       m.parts[i].kind \in {"queued", "spi"} \/ i <= k => Configured(m.config, m.parts[i].oid)
  /\ ConfigIsGood(m.config, m.oids)
  /\ \A i \in 1 .. Len(m.parts) : m.parts[i].kind = "i2c" /\ i > k => ~Configured(m.config, m.parts[i].oid)
  /\ \A i \in 1 .. Len(m.init) :
       m.init[i].what = "set" /\ \E j \in 1 .. Len(m.parts) : HasOid(m, k, j) /\ m.parts[j].oid = m.init[i].oid

Complete(m) ==
  /\ Len(m.config) >= 1 /\ m.config[1] = Cmd("allocate", m.oids)
  /\ \A i \in 2 .. Len(m.config) : m.config[i].what \in {"config", "set"}
  /\ \A i \in 1 .. Len(m.config) : m.config[i].what = "config" => m.config[i].oid \in 0 .. m.oids - 1
  /\ Once(m.config) /\ SetAfter(m.config)
  /\ \A i \in 1 .. Len(m.parts) : Configured(m.config, m.parts[i].oid)
  /\ \A i \in 1 .. Len(m.init) : m.init[i].what = "set" /\ Configured(m.config, m.init[i].oid)

-----------------------------------------------------------------------------
Live(s, i) == \A j \in 1 .. i - 1 : s[j].what # "emergency_stop"
AllocateFits(b, s, i) == b.oids = -1 /\ s[i].oid \in Nat /\ \A j \in 1 .. i - 1 : s[j].what # "allocate"
ConfigFits(b, s, i) ==
  /\ b.config = None /\ s[i].oid \in Nat /\ s[i].oid \notin b.objects
  /\ s[i].oid < b.oids \/ \E j \in 1 .. i - 1 : s[j].what = "allocate" /\ s[i].oid < s[j].oid
  /\ \A j \in 1 .. i - 1 : s[j].what # "finalize" /\ ~(s[j].what = "config" /\ s[j].oid = s[i].oid)
SetFits(b, s, i) ==
  s[i].oid \in b.objects \/ \E j \in 1 .. i - 1 : s[j].what = "config" /\ s[j].oid = s[i].oid
FinalizeFits(b, s, i) ==
  /\ b.config = None /\ \A j \in 1 .. i - 1 : s[j].what # "finalize"
  /\ \A x : Configured(s[i].oid, x) <=>
        x \in b.objects \/ \E j \in 1 .. i - 1 : s[j].what = "config" /\ s[j].oid = x
CommandFits(b, s, i) ==
  /\ s[i].what = "allocate" => AllocateFits(b, s, i)
  /\ s[i].what = "config" => ConfigFits(b, s, i)
  /\ s[i].what = "set" => SetFits(b, s, i)
  /\ s[i].what = "finalize" => FinalizeFits(b, s, i)
AllFit(b, s) == \A i \in 1 .. Len(s) : Live(s, i) => CommandFits(b, s, i)

Whole(b) == b.config # None => \A x : Configured(b.config, x) <=> x \in b.objects
Counted(b) == b.oids \in Nat \/ (b.oids = -1 /\ b.objects = {})
Settled(b) == b.config # None \/ (b.oids = -1 /\ b.objects = {})
CrcFits(b) == IF b.config = None THEN b.crc = None ELSE b.crc \in {b.config, Byte}

-----------------------------------------------------------------------------
Asking == \E i \in 1 .. Len(outbound) : outbound[i].what = "get_config"
AnswerComes == \E i \in 1 .. Len(inbound) : inbound[i].what = "config"
Waits == mcu.phase \in {"asked", "asked again"}
OneQuestion ==
  /\ \A i, j \in 1 .. Len(outbound) : outbound[i].what = "get_config" /\ outbound[j].what = "get_config" => i = j
  /\ \A i, j \in 1 .. Len(inbound) : inbound[i].what = "config" /\ inbound[j].what = "config" => i = j
  /\ ~(Asking /\ AnswerComes)
  /\ ~Waits => ~Asking /\ ~AnswerComes

SentInPhase ==
  /\ mcu.phase = "setup" => outbound = <<>>
  /\ mcu.phase \in {"identified", "failed", "restart"} =>
       \A i \in 1 .. Len(outbound) : outbound[i].what = "emergency_stop"
  /\ mcu.phase = "asked" => \A i \in 1 .. Len(outbound) : outbound[i].what \in {"get_config", "emergency_stop"}
  /\ mcu.phase = "ready" => \A i \in 1 .. Len(outbound) : outbound[i].what \in {"set", "emergency_stop"}
  /\ mcu.phase = "asked again" =>
       \A i \in 1 .. Len(outbound) :
         /\ outbound[i].what = "finalize" => outbound[i].oid = mcu.config
         /\ outbound[i].what \in {"get_config", "emergency_stop"} \/ \E j \in i + 1 .. Len(outbound) : outbound[j].what = "get_config"

HostReady ==
  /\ mcu.phase \in {"setup", "identified", "asked"} => Assembled(mcu, 0)
  /\ mcu.phase \in {"asked again", "ready"} => Complete(mcu)

FinalizeComes == \E i \in 1 .. Len(outbound) : outbound[i].what = "finalize"
BoardKnows ==
  /\ AllFit(board, outbound) /\ Whole(board) /\ Counted(board) /\ CrcFits(board)
  /\ mcu.phase # "asked again" => Settled(board)
  /\ mcu.phase = "asked again" => board.config = mcu.config \/ FinalizeComes
  /\ Waits => \A i \in 1 .. Len(inbound) : inbound[i].what = "config" => inbound[i].config = board.crc
  /\ mcu.phase = "ready" => board.config = mcu.config
Running == board.resets = 0 /\ ~board.shutdown
NeverFaults ==
  /\ board.resets = 0 /\ ~session.cut => ~board.error
  /\ Running /\ ~session.cut => BoardKnows

\* What a host finds that comes after one which was stopped with the board partly configured
CutShort ==
  /\ board.config = None /\ board.crc = None /\ board.oids \in Nat /\ mcu.phase # "ready"
  /\ \A i \in 1 .. Len(inbound) : inbound[i].what = "config" => inbound[i].config = None
  /\ mcu.phase = "asked again" => Asking /\ outbound[1].what \in {"allocate", "emergency_stop"}
CutStays == Running /\ session.cut => CutShort

ShutdownComes == \E i \in 1 .. Len(inbound) : inbound[i].what \in {"shutdown", "is_shutdown"}
Noticed ==
  /\ mcu.is_shutdown => mcu.printer # "up"
  /\ board.shutdown /\ mcu.printer = "up" /\ (Waits \/ mcu.phase = "ready") =>
       ShutdownComes \/ session.missed \/ (Waits /\ Asking)

OnceInARow ==
  /\ session.tries = IF session.reason = "restart_mcu" THEN 1 ELSE 0
  /\ mcu.phase = "restart" => session.reason # "restart_mcu"

McuInv == OneQuestion /\ SentInPhase /\ HostReady /\ NeverFaults /\ CutStays /\ Noticed /\ OnceInARow
-----------------------------------------------------------------------------
(* Adding to a configuration                                               *)

LEMMA ConfigureAfter ==
  ASSUME NEW s \in Seq(Orders), NEW x \in Int, NEW n \in Nat, ConfigIsGood(s, n), ~Configured(s, x),
         NEW n2 \in Nat, n <= n2, x \in 0 .. n2 - 1
  PROVE  LET t == s \o <<Cmd("config", x)>>
         IN  /\ t \in Seq(Orders) /\ ConfigIsGood(t, n2)
             /\ \A y : Configured(t, y) <=> Configured(s, y) \/ y = x
<1> DEFINE c == Cmd("config", x)
           t == s \o <<c>>
<1>1. c \in Orders /\ c.what = "config" /\ c.oid = x
  BY DEF Cmd, Orders
<1> HIDE DEF c
<1>2. /\ t \in Seq(Orders) /\ Len(t) = Len(s) + 1 /\ Len(s) \in Nat
      /\ \A i \in 1 .. Len(s) : t[i] = s[i] /\ s[i] \in Orders
      /\ t[Len(s) + 1] = c
  BY <1>1
<1> HIDE DEF t
<1>3. ASSUME NEW y PROVE Configured(t, y) <=> Configured(s, y) \/ y = x
  <2>1. Configured(t, y) => Configured(s, y) \/ y = x
    BY <1>1, <1>2 DEF Configured
  <2>2. Configured(s, y) => Configured(t, y)
    BY <1>1, <1>2 DEF Configured
  <2>3. y = x => Configured(t, y)
    <3>1. Len(s) + 1 \in 1 .. Len(t)
      BY <1>2
    <3> QED
      BY <3>1, <1>1, <1>2 DEF Configured
  <2> QED
    BY <2>1, <2>2, <2>3
<1>4. Once(t)
  <2> SUFFICES ASSUME NEW i \in 1 .. Len(t), NEW j \in 1 .. Len(t), t[i].what = "config", t[j].what = "config", t[i].oid = t[j].oid
               PROVE  i = j
    BY DEF Once
  <2>1. CASE i \in 1 .. Len(s) /\ j \in 1 .. Len(s)
    BY <1>2, <2>1 DEF ConfigIsGood, Once
  <2>2. CASE i = Len(s) + 1 /\ j \in 1 .. Len(s)
    BY <1>1, <1>2, <2>2 DEF Configured
  <2>3. CASE j = Len(s) + 1 /\ i \in 1 .. Len(s)
    BY <1>1, <1>2, <2>3 DEF Configured
  <2> QED
    BY <1>2, <2>1, <2>2, <2>3
<1>5. SetAfter(t)
  <2> SUFFICES ASSUME NEW i \in 1 .. Len(t), t[i].what = "set"
               PROVE  \E j \in 1 .. i - 1 : t[j].what = "config" /\ t[j].oid = t[i].oid
    BY DEF SetAfter
  <2>1. i \in 1 .. Len(s)
    BY <1>1, <1>2
  <2>2. PICK j \in 1 .. i - 1 : s[j].what = "config" /\ s[j].oid = s[i].oid
    BY <1>2, <2>1 DEF ConfigIsGood, SetAfter
  <2> QED
    BY <1>2, <2>1, <2>2
<1>6. \A i \in 1 .. Len(t) : t[i].what \in {"config", "set"} /\ (t[i].what = "config" => t[i].oid \in 0 .. n2 - 1)
  BY <1>1, <1>2 DEF ConfigIsGood
<1>7. ConfigIsGood(t, n2)
  BY <1>4, <1>5, <1>6 DEF ConfigIsGood
<1> QED
  BY <1>2, <1>3, <1>7 DEF t, c

LEMMA SetAfterConfigure ==
  ASSUME NEW s \in Seq(Orders), NEW x \in Int, NEW n \in Nat, ConfigIsGood(s, n), Configured(s, x)
  PROVE  LET t == s \o <<Cmd("set", x)>>
         IN  /\ t \in Seq(Orders) /\ ConfigIsGood(t, n)
             /\ \A y : Configured(t, y) <=> Configured(s, y)
<1> DEFINE c == Cmd("set", x)
           t == s \o <<c>>
<1>1. c \in Orders /\ c.what = "set" /\ c.oid = x
  BY DEF Cmd, Orders
<1> HIDE DEF c
<1>2. /\ t \in Seq(Orders) /\ Len(t) = Len(s) + 1 /\ Len(s) \in Nat
      /\ \A i \in 1 .. Len(s) : t[i] = s[i] /\ s[i] \in Orders
      /\ t[Len(s) + 1] = c
  BY <1>1
<1> HIDE DEF t
<1>3. \A y : Configured(t, y) <=> Configured(s, y)
  BY <1>1, <1>2 DEF Configured
<1>4. Once(t)
  BY <1>1, <1>2 DEF ConfigIsGood, Once
<1>5. SetAfter(t)
  <2> SUFFICES ASSUME NEW i \in 1 .. Len(t), t[i].what = "set"
               PROVE  \E j \in 1 .. i - 1 : t[j].what = "config" /\ t[j].oid = t[i].oid
    BY DEF SetAfter
  <2>1. CASE i \in 1 .. Len(s)
    <3>1. PICK j \in 1 .. i - 1 : s[j].what = "config" /\ s[j].oid = s[i].oid
      BY <1>2, <2>1 DEF ConfigIsGood, SetAfter
    <3> QED
      BY <1>2, <2>1, <3>1
  <2>2. CASE i = Len(s) + 1
    <3>1. PICK j \in 1 .. Len(s) : s[j].what = "config" /\ s[j].oid = x
      BY DEF Configured
    <3> QED
      BY <1>1, <1>2, <2>2, <3>1
  <2> QED
    BY <1>2, <2>1, <2>2
<1>6. \A i \in 1 .. Len(t) : t[i].what \in {"config", "set"} /\ (t[i].what = "config" => t[i].oid \in 0 .. n - 1)
  BY <1>1, <1>2 DEF ConfigIsGood
<1>7. ConfigIsGood(t, n)
  BY <1>4, <1>5, <1>6 DEF ConfigIsGood
<1> QED
  BY <1>2, <1>3, <1>7 DEF t, c
-----------------------------------------------------------------------------
(* Building the parts                                                      *)

\* What building leaves as it is.
SameButConfig(a, m) ==
  /\ a.phase = m.phase /\ a.method = m.method /\ a.built = m.built /\ a.starting = m.starting
  /\ a.is_shutdown = m.is_shutdown /\ a.printer = m.printer /\ a.writes = m.writes

\* A part is built when its object is configured, with a new id if it had none.
BuildsPart(a, m, k) ==
  /\ Len(a.parts) = Len(m.parts) /\ m.oids <= a.oids /\ ConfigIsGood(a.config, a.oids)
  /\ \A i \in 1 .. Len(m.parts) : a.parts[i].kind = m.parts[i].kind
  /\ \A i \in 1 .. Len(m.parts) : i # k + 1 => a.parts[i].oid = m.parts[i].oid
  /\ IF m.parts[k + 1].kind \in OwnOid THEN a.parts[k + 1].oid = m.parts[k + 1].oid
     ELSE a.parts[k + 1].oid = m.oids /\ m.oids < a.oids
  /\ \A y : Configured(a.config, y) <=> Configured(m.config, y) \/ y = a.parts[k + 1].oid
  /\ a.init = m.init \/ a.init = Append(m.init, Cmd("set", a.parts[k + 1].oid))

LEMMA PartIsBuilt ==
  ASSUME NEW m \in Hosts, NEW k \in 0 .. Len(m.parts) - 1, Assembled(m, k), NEW a \in Hosts,
         SameButConfig(a, m), BuildsPart(a, m, k)
  PROVE  Assembled(a, k + 1)
<1>1. /\ Len(m.parts) \in Nat /\ Len(a.parts) = Len(m.parts) /\ m.oids \in Nat /\ a.oids \in Nat /\ m.oids <= a.oids
      /\ \A i \in 1 .. Len(m.parts) : m.parts[i].oid \in Int /\ a.parts[i].oid \in Int
      /\ k \in Int
  <2>1. m.parts \in Seq(McuParts) /\ a.parts \in Seq(McuParts)
        /\ m.oids \in Nat /\ a.oids \in Nat
    BY DEF Hosts
  <2>2. Len(m.parts) \in Nat /\ Len(a.parts) = Len(m.parts) /\ m.oids <= a.oids
    BY <2>1 DEF BuildsPart
  <2>3. \A i \in 1 .. Len(m.parts) : m.parts[i] \in McuParts /\ a.parts[i] \in McuParts
    BY <2>1, <2>2
  <2> QED
    BY <2>1, <2>2, <2>3, SMTT(30) DEF McuParts
<1>2. \A i \in 1 .. Len(m.parts) : HasOid(a, k + 1, i) <=> HasOid(m, k, i) \/ i = k + 1
  BY <1>1 DEF HasOid, BuildsPart
<1>3. \A i \in 1 .. Len(m.parts) : HasOid(m, k, i) => m.parts[i].oid \in 0 .. m.oids - 1
  BY DEF Assembled
<1>4. \A i \in 1 .. Len(m.parts) : HasOid(a, k + 1, i) => a.parts[i].oid \in 0 .. a.oids - 1
  <2> SUFFICES ASSUME NEW i \in 1 .. Len(m.parts), HasOid(a, k + 1, i) PROVE a.parts[i].oid \in 0 .. a.oids - 1
    OBVIOUS
  <2>1. CASE i # k + 1
    <3>1. m.parts[i].oid \in 0 .. m.oids - 1
      BY <1>2, <1>3, <2>1
    <3>2. a.parts[i].oid = m.parts[i].oid
      BY <2>1 DEF BuildsPart
    <3> QED
      BY <1>1, <3>1, <3>2
  <2>2. CASE i = k + 1 /\ m.parts[i].kind \in OwnOid
    BY <1>1, <1>3, <2>2 DEF BuildsPart, HasOid
  <2>3. CASE i = k + 1 /\ m.parts[i].kind \notin OwnOid
    BY <1>1, <2>3 DEF BuildsPart
  <2> QED
    BY <2>1, <2>2, <2>3
<1>5. OidsDiffer(a, k + 1)
  <2> SUFFICES ASSUME NEW i \in 1 .. Len(m.parts), NEW j \in 1 .. Len(m.parts), HasOid(a, k + 1, i), HasOid(a, k + 1, j),
                      a.parts[i].oid = a.parts[j].oid
               PROVE  i = j
    BY <1>1 DEF OidsDiffer
  <2>1. CASE m.parts[k + 1].kind \in OwnOid
    <3>1. HasOid(m, k, i) /\ HasOid(m, k, j) /\ m.parts[i].oid = m.parts[j].oid
      BY <1>2, <2>1 DEF BuildsPart, HasOid
    <3> QED
      BY <3>1 DEF Assembled, OidsDiffer
  <2>2. CASE m.parts[k + 1].kind \notin OwnOid /\ i # k + 1 /\ j # k + 1
    BY <1>2, <2>2 DEF BuildsPart, Assembled, OidsDiffer
  <2>3. CASE m.parts[k + 1].kind \notin OwnOid /\ i = k + 1 /\ j # k + 1
    <3>1. a.parts[k + 1].oid = m.oids /\ a.parts[j].oid = m.parts[j].oid
      BY <2>3 DEF BuildsPart
    <3>2. m.parts[j].oid \in 0 .. m.oids - 1
      BY <1>2, <1>3, <2>3
    <3> QED
      BY <1>1, <2>3, <3>1, <3>2
  <2>4. CASE m.parts[k + 1].kind \notin OwnOid /\ j = k + 1 /\ i # k + 1
    <3>1. a.parts[k + 1].oid = m.oids /\ a.parts[i].oid = m.parts[i].oid
      BY <2>4 DEF BuildsPart
    <3>2. m.parts[i].oid \in 0 .. m.oids - 1
      BY <1>2, <1>3, <2>4
    <3> QED
      BY <1>1, <2>4, <3>1, <3>2
  <2> QED
    BY <2>1, <2>2, <2>3, <2>4
<1>6. \A i \in 1 .. Len(m.parts) :
        a.parts[i].kind \in {"queued", "spi"} \/ i <= k + 1 => Configured(a.config, a.parts[i].oid)
  <2> SUFFICES ASSUME NEW i \in 1 .. Len(m.parts), a.parts[i].kind \in {"queued", "spi"} \/ i <= k + 1
               PROVE  Configured(a.config, a.parts[i].oid)
    OBVIOUS
  <2>1. CASE i = k + 1
    BY <2>1 DEF BuildsPart
  <2>2. CASE i # k + 1
    BY <2>2 DEF BuildsPart, Assembled
  <2> QED
    BY <2>1, <2>2
<1>7. ASSUME NEW i \in 1 .. Len(m.parts), a.parts[i].kind = "i2c", i > k + 1
      PROVE  ~Configured(a.config, a.parts[i].oid)
  <2>1. m.parts[i].kind = "i2c" /\ i > k /\ a.parts[i].oid = m.parts[i].oid /\ i # k + 1 /\ k + 1 \in 1 .. Len(m.parts)
    BY <1>1, <1>7 DEF BuildsPart
  <2>2. ~Configured(m.config, m.parts[i].oid) /\ HasOid(m, k, i)
    BY <2>1 DEF Assembled, HasOid, OwnOid
  <2>3. CASE m.parts[k + 1].kind \in OwnOid
    <3>1. m.parts[k + 1].oid # m.parts[i].oid
      BY <2>1, <2>2, <2>3 DEF Assembled, OidsDiffer, HasOid
    <3> QED
      BY <2>1, <2>2, <2>3, <3>1 DEF BuildsPart
  <2>4. CASE m.parts[k + 1].kind \notin OwnOid
    <3>1. m.parts[i].oid # m.oids
      BY <1>1, <1>3, <2>2
    <3> QED
      BY <2>1, <2>2, <2>4, <3>1 DEF BuildsPart
  <2> QED
    BY <2>3, <2>4
<1>8. ASSUME NEW j \in 1 .. Len(m.parts), HasOid(m, k, j)
      PROVE  HasOid(a, k + 1, j) /\ a.parts[j].oid = m.parts[j].oid
  <2>1. HasOid(a, k + 1, j)
    BY <1>2, <1>8
  <2>2. CASE j # k + 1
    BY <2>1, <2>2 DEF BuildsPart
  <2>3. CASE j = k + 1
    <3>1. m.parts[k + 1].kind \in OwnOid
      BY <1>1, <1>8, <2>3 DEF HasOid
    <3> QED
      BY <2>1, <2>3, <3>1 DEF BuildsPart
  <2> QED
    BY <2>2, <2>3
<1>9. ASSUME NEW i \in 1 .. Len(m.init)
      PROVE  m.init[i].what = "set" /\ \E j \in 1 .. Len(a.parts) : HasOid(a, k + 1, j) /\ a.parts[j].oid = m.init[i].oid
  <2>1. m.init[i].what = "set" /\ \E j \in 1 .. Len(m.parts) : HasOid(m, k, j) /\ m.parts[j].oid = m.init[i].oid
    BY DEF Assembled
  <2>2. PICK j \in 1 .. Len(m.parts) : HasOid(m, k, j) /\ m.parts[j].oid = m.init[i].oid
    BY <2>1
  <2> QED
    BY <1>1, <1>8, <2>1, <2>2
<1>10. ASSUME NEW i \in 1 .. Len(a.init)
       PROVE  a.init[i].what = "set" /\ \E j \in 1 .. Len(a.parts) : HasOid(a, k + 1, j) /\ a.parts[j].oid = a.init[i].oid
  <2> DEFINE c == Cmd("set", a.parts[k + 1].oid)
  <2>1. CASE a.init = m.init
    BY <1>9, <2>1
  <2>2. CASE a.init = Append(m.init, c)
    <3>1. c.what = "set" /\ c.oid = a.parts[k + 1].oid
      BY DEF Cmd
    <3>2. m.init \in Seq(Orders)
      BY DEF Hosts
    <3>3. k + 1 \in 1 .. Len(a.parts) /\ HasOid(a, k + 1, k + 1)
      BY <1>1, <1>2
    <3> HIDE DEF c
    <3>4. /\ Len(a.init) = Len(m.init) + 1 /\ Len(m.init) \in Nat /\ a.init[Len(m.init) + 1] = c
          /\ \A j \in 1 .. Len(m.init) : a.init[j] = m.init[j]
      BY <2>2, <3>2
    <3>5. CASE i \in 1 .. Len(m.init)
      BY <1>9, <3>4, <3>5
    <3>6. CASE i = Len(m.init) + 1
      BY <3>1, <3>3, <3>4, <3>6
    <3> QED
      BY <3>4, <3>5, <3>6
  <2> QED
    BY <2>1, <2>2 DEF BuildsPart
<1> QED
  BY <1>1, <1>4, <1>5, <1>6, <1>7, <1>10 DEF Assembled, BuildsPart

LEMMA BuildPartKeeps ==
  ASSUME NEW m \in Hosts, NEW k \in 0 .. Len(m.parts) - 1, Assembled(m, k)
  PROVE  /\ BuildPart(m, k + 1) \in Hosts /\ SameButConfig(BuildPart(m, k + 1), m)
         /\ Len(BuildPart(m, k + 1).parts) = Len(m.parts) /\ Assembled(BuildPart(m, k + 1), k + 1)
<1> DEFINE i == k + 1
           x == m.parts[i].oid
           a == BuildPart(m, i)
<1>1. /\ i \in 1 .. Len(m.parts) /\ m.parts[i] \in McuParts /\ x \in Int
      /\ m.oids \in Nat /\ m.config \in Seq(Orders) /\ Len(m.parts) \in Nat
      /\ m.parts \in Seq(McuParts) /\ m.parts[i].kind \in PartKinds
  <2>1. m.parts \in Seq(McuParts) /\ m.oids \in Nat /\ m.config \in Seq(Orders)
    BY DEF Hosts
  <2>2. i \in 1 .. Len(m.parts) /\ Len(m.parts) \in Nat
    BY <2>1
  <2>3. m.parts[i] \in McuParts
    BY <2>1, <2>2
  <2> QED
    BY <2>1, <2>2, <2>3 DEF McuParts
<1>2. /\ ConfigIsGood(m.config, m.oids)
      /\ m.parts[i].kind \in {"queued", "spi"} => Configured(m.config, x)
      /\ m.parts[i].kind = "i2c" => ~Configured(m.config, x)
      /\ m.parts[i].kind \in OwnOid => x \in 0 .. m.oids - 1
      /\ ~Configured(m.config, m.oids)
  <2>1. ConfigIsGood(m.config, m.oids)
    BY DEF Assembled
  <2>2. ~Configured(m.config, m.oids)
    BY <1>1, <2>1 DEF ConfigIsGood, Configured
  <2> QED
    BY <1>1, <2>1, <2>2 DEF Assembled, HasOid
<1>3. CASE m.parts[i].kind \in {"digital", "analog"}
  <2> DEFINE new == [m.parts EXCEPT ![i].oid = m.oids]
             t == m.config \o <<Cmd("config", m.oids)>>
             v == Append(m.init, Cmd("set", m.oids))
  <2>1. /\ new \in Seq(McuParts) /\ Len(new) = Len(m.parts)
        /\ \A j \in 1 .. Len(m.parts) : new[j].kind = m.parts[j].kind
        /\ \A j \in 1 .. Len(m.parts) : j # i => new[j].oid = m.parts[j].oid
        /\ new[i].oid = m.oids
    <3>1. \A j \in 1 .. Len(m.parts) : m.parts[j] \in McuParts
      BY <1>1
    <3>2. [m.parts[i] EXCEPT !.oid = m.oids] \in McuParts
      BY <1>1 DEF McuParts
    <3>3. new = [m.parts EXCEPT ![i] = [m.parts[i] EXCEPT !.oid = m.oids]]
      OBVIOUS
    <3> HIDE DEF new
    <3>4. new \in Seq(McuParts) /\ Len(new) = Len(m.parts)
      BY <1>1, <3>2, <3>3
    <3>5. /\ \A j \in 1 .. Len(m.parts) : j # i => new[j] = m.parts[j]
          /\ new[i] = [m.parts[i] EXCEPT !.oid = m.oids]
      BY <1>1, <3>3
    <3>6. new[i].oid = m.oids /\ new[i].kind = m.parts[i].kind
      BY <1>1, <3>5 DEF McuParts
    <3> QED
      BY <3>4, <3>5, <3>6
  <2>2. /\ t \in Seq(Orders) /\ ConfigIsGood(t, m.oids + 1)
        /\ \A y : Configured(t, y) <=> Configured(m.config, y) \/ y = m.oids
    <3>1. m.oids \in Int /\ m.oids + 1 \in Nat /\ m.oids <= m.oids + 1 /\ m.oids \in 0 .. (m.oids + 1) - 1
      BY <1>1
    <3> QED
      BY <1>1, <1>2, <3>1, ConfigureAfter
  <2>3. v \in Seq(Orders) /\ m.init \in Seq(Orders)
    <3>1. Cmd("set", m.oids) \in Orders
      BY <1>1 DEF Cmd, Orders
    <3>2. m.init \in Seq(Orders)
      BY DEF Hosts
    <3> QED
      BY <3>1, <3>2
  <2> HIDE DEF new, t, v
  <2>5. CASE m.parts[i].kind = "digital"
    <3>1. a = BuildDigital(m, i)
      BY <2>5 DEF BuildPart
    <3>2. a.parts = new /\ a.oids = m.oids + 1 /\ a.config = t /\ a.init = m.init
      BY <3>1 DEF BuildDigital, Configure, create_oid, new, t, Hosts
    <3>3. a \in Hosts /\ SameButConfig(a, m)
      <4>1. m.oids + 1 \in Nat /\ a = [[[m EXCEPT !.oids = m.oids + 1] EXCEPT !.parts = new] EXCEPT !.config = t]
        BY <1>1, <3>1, <3>2 DEF BuildDigital, Configure, create_oid, new, t, Hosts
      <4> QED
        BY <2>1, <2>2, <4>1 DEF Hosts, SameButConfig
    <3> HIDE DEF a
    <3>4. BuildsPart(a, m, k)
      BY <1>1, <2>1, <2>2, <2>5, <3>2 DEF BuildsPart, OwnOid
    <3> QED
      BY <2>1, <3>2, <3>3, <3>4, PartIsBuilt DEF a
  <2>6. CASE m.parts[i].kind = "analog"
    <3>1. a = BuildAnalog(m, i)
      BY <2>6 DEF BuildPart
    <3>2. a.parts = new /\ a.oids = m.oids + 1 /\ a.config = t /\ a.init = v
      BY <3>1 DEF BuildAnalog, Configure, create_oid, new, t, v, Hosts
    <3>3. a \in Hosts /\ SameButConfig(a, m)
      <4>1. /\ m.oids + 1 \in Nat
            /\ a = [[[[m EXCEPT !.oids = m.oids + 1] EXCEPT !.parts = new] EXCEPT !.config = t] EXCEPT !.init = v]
        BY <1>1, <3>1, <3>2 DEF BuildAnalog, Configure, create_oid, new, t, v, Hosts
      <4> QED
        <5>1. PICK q : q = [[m EXCEPT !.oids = m.oids + 1] EXCEPT !.parts = new]
          OBVIOUS
        <5>2. /\ q \in Hosts /\ q.phase = m.phase /\ q.method = m.method /\ q.built = m.built /\ q.starting = m.starting
              /\ q.is_shutdown = m.is_shutdown /\ q.printer = m.printer /\ q.writes = m.writes
          BY <2>1, <4>1, <5>1 DEF Hosts
        <5>3. a = [[q EXCEPT !.config = t] EXCEPT !.init = v]
          BY <4>1, <5>1
        <5> QED
          BY <2>2, <2>3, <5>2, <5>3 DEF Hosts, SameButConfig
    <3> HIDE DEF a
    <3>4. BuildsPart(a, m, k)
      <4>1. m.parts[i].kind \notin OwnOid /\ m.oids < a.oids /\ m.oids <= a.oids
        BY <1>1, <2>6, <3>2 DEF OwnOid
      <4> QED
        BY <2>1, <2>2, <3>2, <4>1 DEF BuildsPart, v
    <3> QED
      BY <2>1, <3>2, <3>3, <3>4, PartIsBuilt DEF a
  <2> QED
    BY <1>3, <2>5, <2>6
<1>4. CASE m.parts[i].kind = "queued"
  <2>1. a = m
    BY <1>4 DEF BuildPart
  <2>2. BuildsPart(m, m, k) /\ SameButConfig(m, m)
    BY <1>1, <1>2, <1>4 DEF BuildsPart, SameButConfig, OwnOid
  <2> QED
    BY <2>1, <2>2, PartIsBuilt
<1>5. CASE m.parts[i].kind = "i2c"
  <2> DEFINE t == m.config \o <<Cmd("config", x)>>
  <2>1. /\ t \in Seq(Orders) /\ ConfigIsGood(t, m.oids)
        /\ \A y : Configured(t, y) <=> Configured(m.config, y) \/ y = x
    BY <1>1, <1>2, <1>5, ConfigureAfter DEF OwnOid
  <2> HIDE DEF t
  <2>2. a = BuildI2c(m, i)
    BY <1>5 DEF BuildPart
  <2>3. a.parts = m.parts /\ a.oids = m.oids /\ a.config = t /\ a.init = m.init
    BY <2>2 DEF BuildI2c, Configure, t, Hosts
  <2>4. a \in Hosts /\ SameButConfig(a, m)
    BY <2>1, <2>2, <2>3 DEF BuildI2c, Configure, Hosts, SameButConfig
  <2> HIDE DEF a
  <2>5. BuildsPart(a, m, k)
    BY <1>1, <1>5, <2>1, <2>3 DEF BuildsPart, OwnOid
  <2> QED
    BY <2>3, <2>4, <2>5, PartIsBuilt DEF a
<1>6. CASE m.parts[i].kind = "spi"
  <2> DEFINE t == m.config \o <<Cmd("set", x)>>
  <2>1. /\ t \in Seq(Orders) /\ ConfigIsGood(t, m.oids)
        /\ \A y : Configured(t, y) <=> Configured(m.config, y)
    BY <1>1, <1>2, <1>6, SetAfterConfigure
  <2> HIDE DEF t
  <2>2. a = BuildSpi(m, i)
    BY <1>6 DEF BuildPart
  <2>3. a.parts = m.parts /\ a.oids = m.oids /\ a.config = t /\ a.init = m.init
    BY <2>2 DEF BuildSpi, Configure, t, Hosts
  <2>4. a \in Hosts /\ SameButConfig(a, m)
    BY <2>1, <2>2, <2>3 DEF BuildSpi, Configure, Hosts, SameButConfig
  <2> HIDE DEF a
  <2>5. BuildsPart(a, m, k)
    BY <1>1, <1>2, <1>6, <2>1, <2>3 DEF BuildsPart, OwnOid
  <2> QED
    BY <2>3, <2>4, <2>5, PartIsBuilt DEF a
<1> QED
  BY <1>1, <1>3, <1>4, <1>5, <1>6 DEF PartKinds
IsBuilt(f, m) == f = [i \in 0 .. Len(m.parts) |-> IF i = 0 THEN m ELSE BuildPart(f[i - 1], i)]
Finish(m) == [m EXCEPT !.config = <<Cmd("allocate", m.oids)>> \o @, !.built = TRUE]

\* The function by which Build goes through the parts exists.
LEMMA BuildIsDefined ==
  ASSUME NEW m, Len(m.parts) \in Nat
  PROVE  \E f : IsBuilt(f, m) /\ Build(m) = Finish(f[Len(m.parts)])
<1> DEFINE At(g, i) == IF i = 0 THEN m ELSE BuildPart(g[i - 1], i)
           S == {n \in Nat : \E g : g = [i \in 0 .. n |-> At(g, i)]}
<1>1. 0 \in S
  <2>1. [i \in 0 .. 0 |-> m] = [i \in 0 .. 0 |-> At([j \in 0 .. 0 |-> m], i)]
    OBVIOUS
  <2> QED
    BY <2>1
<1>2. ASSUME NEW n \in Nat, n \in S PROVE n + 1 \in S
  <2>1. PICK g : g = [i \in 0 .. n |-> At(g, i)]
    BY <1>2
  <2> DEFINE h == [i \in 0 .. n + 1 |-> IF i <= n THEN g[i] ELSE BuildPart(g[n], n + 1)]
  <2>2. \A i \in 0 .. n + 1 : h[i] = At(h, i)
    <3> SUFFICES ASSUME NEW i \in 0 .. n + 1 PROVE h[i] = At(h, i)
      OBVIOUS
    <3>1. CASE i = 0
      BY <2>1, <3>1
    <3>2. CASE i \in 1 .. n
      <4>1. h[i - 1] = g[i - 1] /\ h[i] = g[i] /\ g[i] = BuildPart(g[i - 1], i)
        BY <2>1, <3>2
      <4> QED
        BY <4>1, <3>2
    <3>3. CASE i = n + 1
      <4>1. h[i - 1] = g[n] /\ h[i] = BuildPart(g[n], n + 1)
        BY <3>3
      <4> QED
        BY <4>1, <3>3
    <3> QED
      BY <3>1, <3>2, <3>3
  <2>3. h = [i \in 0 .. n + 1 |-> At(h, i)]
    BY <2>2
  <2> HIDE DEF h, At
  <2>4. \E f : f = [i \in 0 .. n + 1 |-> At(f, i)]
    BY <2>3
  <2> QED
    BY <2>4
<1>3. Len(m.parts) \in S
  <2> HIDE DEF S
  <2> QED
    BY <1>1, <1>2, Induction
<1>4. \E f : IsBuilt(f, m)
  BY <1>3 DEF IsBuilt
<1> DEFINE built == CHOOSE f : IsBuilt(f, m)
<1>5. IsBuilt(built, m)
  BY <1>4, Zenon
<1>6. Build(m) = Finish(built[Len(m.parts)])
  BY Zenon DEF Build, IsBuilt, Finish
<1> QED
  BY <1>5, <1>6

\* The configuration that is sent is complete, whatever the parts are.
LEMMA BuildCompletes ==
  ASSUME NEW m \in Hosts, Assembled(m, 0)
  PROVE  /\ Build(m) \in Hosts /\ Complete(Build(m))
         /\ LET a == Build(m)
            IN  /\ a.phase = m.phase /\ a.method = m.method /\ a.starting = m.starting
                /\ a.is_shutdown = m.is_shutdown /\ a.printer = m.printer /\ a.writes = m.writes
<1>1. m.parts \in Seq(McuParts) /\ Len(m.parts) \in Nat
  BY DEF Hosts
<1>2. PICK f : IsBuilt(f, m) /\ Build(m) = Finish(f[Len(m.parts)])
  BY <1>1, BuildIsDefined, Zenon
<1> DEFINE Good(i) == f[i] \in Hosts /\ SameButConfig(f[i], m) /\ Len(f[i].parts) = Len(m.parts) /\ Assembled(f[i], i)
           S == {i \in Nat : i <= Len(m.parts) => Good(i)}
<1>3. 0 \in S
  <2>1. f[0] = m
    BY <1>1, <1>2 DEF IsBuilt
  <2> QED
    BY <2>1 DEF SameButConfig
<1>4. ASSUME NEW n \in Nat, n \in S PROVE n + 1 \in S
  <2> SUFFICES ASSUME n + 1 <= Len(m.parts) PROVE Good(n + 1)
    OBVIOUS
  <2>1. Good(n)
    BY <1>1, <1>4
  <2>2. f[n + 1] = BuildPart(f[n], n + 1)
    BY <1>1, <1>2 DEF IsBuilt
  <2>3. n \in 0 .. Len(f[n].parts) - 1
    BY <1>1, <2>1
  <2>4. PICK a : a = f[n]
    OBVIOUS
  <2>5. /\ BuildPart(a, n + 1) \in Hosts /\ SameButConfig(BuildPart(a, n + 1), a)
        /\ Len(BuildPart(a, n + 1).parts) = Len(a.parts) /\ Assembled(BuildPart(a, n + 1), n + 1)
    BY <2>1, <2>3, <2>4, BuildPartKeeps
  <2> QED
    BY <2>1, <2>2, <2>4, <2>5 DEF SameButConfig
<1>5. Good(Len(m.parts))
  <2>1. Len(m.parts) \in S
    <3> HIDE DEF S
    <3> QED
      BY <1>1, <1>3, <1>4, Induction
  <2> HIDE DEF Good
  <2> QED
    BY <1>1, <2>1
<1>6. PICK a : a = f[Len(m.parts)]
  OBVIOUS
<1>7. /\ a \in Hosts /\ SameButConfig(a, m) /\ Len(a.parts) = Len(m.parts) /\ Assembled(a, Len(a.parts))
      /\ Build(m) = Finish(a)
  BY <1>2, <1>5, <1>6
<1> HIDE DEF Good, S
<1> DEFINE c == Cmd("allocate", a.oids)
           s == a.config
           t == <<c>> \o s
           z == Finish(a)
<1>8. /\ s \in Seq(Orders) /\ Len(s) \in Nat /\ a.oids \in Nat /\ c \in Orders /\ c.what = "allocate" /\ c.oid = a.oids
      /\ a.init \in Seq(Orders) /\ a.parts \in Seq(McuParts)
  BY <1>7 DEF Hosts, Cmd, Orders
<1> HIDE DEF c
<1>9. /\ t \in Seq(Orders) /\ Len(t) = Len(s) + 1 /\ t[1] = c
      /\ \A i \in 1 .. Len(s) : t[i + 1] = s[i] /\ i + 1 \in 1 .. Len(t)
      /\ \A i \in 2 .. Len(t) : t[i] = s[i - 1] /\ i - 1 \in 1 .. Len(s)
  BY <1>8
<1>10. z = [[a EXCEPT !.config = t] EXCEPT !.built = TRUE]
  BY <1>7 DEF Finish, c, Hosts
<1> HIDE DEF t
<1>11. /\ z \in Hosts /\ z.config = t /\ z.oids = a.oids /\ z.parts = a.parts /\ z.init = a.init
       /\ z.phase = a.phase /\ z.method = a.method /\ z.starting = a.starting
       /\ z.is_shutdown = a.is_shutdown /\ z.printer = a.printer /\ z.writes = a.writes
  BY <1>7, <1>9, <1>10 DEF Hosts
<1>12. ConfigIsGood(s, a.oids)
  BY <1>7 DEF Assembled
<1>13. \A y : Configured(s, y) => Configured(t, y)
  BY <1>8, <1>9 DEF Configured
<1>14. \A i \in 2 .. Len(t) : t[i].what \in {"config", "set"}
  BY <1>9, <1>12 DEF ConfigIsGood
<1>15. \A i \in 1 .. Len(t) : t[i].what = "config" => i \in 2 .. Len(t) /\ t[i].oid \in 0 .. a.oids - 1
  <2> SUFFICES ASSUME NEW i \in 1 .. Len(t), t[i].what = "config" PROVE i \in 2 .. Len(t) /\ t[i].oid \in 0 .. a.oids - 1
    OBVIOUS
  <2>1. i # 1
    BY <1>8, <1>9
  <2>2. i \in 2 .. Len(t)
    BY <2>1, <1>8, <1>9
  <2> QED
    BY <2>2, <1>9, <1>12 DEF ConfigIsGood
<1>16. Once(t)
  <2> SUFFICES ASSUME NEW i \in 1 .. Len(t), NEW j \in 1 .. Len(t), t[i].what = "config", t[j].what = "config", t[i].oid = t[j].oid
               PROVE  i = j
    BY DEF Once
  <2>1. i \in 2 .. Len(t) /\ j \in 2 .. Len(t)
    BY <1>15
  <2>2. i - 1 = j - 1
    BY <2>1, <1>9, <1>12, ZenonT(40) DEF ConfigIsGood, Once
  <2> QED
    BY <2>2
<1>17. SetAfter(t)
  <2> SUFFICES ASSUME NEW i \in 1 .. Len(t), t[i].what = "set"
               PROVE  \E j \in 1 .. i - 1 : t[j].what = "config" /\ t[j].oid = t[i].oid
    BY DEF SetAfter
  <2>1. i \in 2 .. Len(t) /\ i - 1 \in 1 .. Len(s) /\ t[i] = s[i - 1]
    <3>1. i # 1
      BY <1>8, <1>9
    <3> QED
      BY <3>1, <1>8, <1>9
  <2>2. PICK j \in 1 .. (i - 1) - 1 : s[j].what = "config" /\ s[j].oid = s[i - 1].oid
    BY <2>1, <1>12 DEF ConfigIsGood, SetAfter
  <2>3. j + 1 \in 1 .. i - 1 /\ t[j + 1] = s[j]
    <3>1. i \in Nat /\ j \in 1 .. Len(s) /\ j + 1 \in 1 .. i - 1
      BY <1>8, <2>1, <2>2
    <3> QED
      BY <1>9, <3>1
  <2> QED
    BY <2>1, <2>2, <2>3
<1>18. \A i \in 1 .. Len(a.parts) : Configured(t, a.parts[i].oid)
  BY <1>7, <1>8, <1>13 DEF Assembled
<1>19. ASSUME NEW i \in 1 .. Len(a.init) PROVE a.init[i].what = "set" /\ Configured(t, a.init[i].oid)
  <2>1. PICK j \in 1 .. Len(a.parts) : a.parts[j].oid = a.init[i].oid
    <3>1. \E j \in 1 .. Len(a.parts) : HasOid(a, Len(a.parts), j) /\ a.parts[j].oid = a.init[i].oid
      BY <1>7 DEF Assembled
    <3> QED
      BY <3>1
  <2>2. Configured(t, a.parts[j].oid)
    BY <1>18
  <2>3. a.init[i].what = "set"
    BY <1>7 DEF Assembled
  <2> QED
    BY <2>1, <2>2, <2>3
<1>20. Complete(z)
  BY <1>8, <1>9, <1>11, <1>14, <1>15, <1>16, <1>17, <1>18, <1>19 DEF Complete, c
<1> HIDE DEF z
<1>21. Build(m) = z
  BY <1>7 DEF z
<1> QED
  BY <1>7, <1>11, <1>20, <1>21 DEF SameButConfig
-----------------------------------------------------------------------------
(* What the board is sent, and takes                                       *)

StopsOnly(s) == \A i \in 1 .. Len(s) : s[i].what = "emergency_stop"
Question == Cmd("get_config", 0)
Sent(out, m) == out \o ConfigMessages(m) \o m.init \o <<Question>>

LEMMA OrdersGoOut == Seq(Orders) \subseteq Seq(Outgoing)
<1>1. Orders \subseteq Outgoing
  BY DEF Orders, Outgoing
<1> QED
  BY <1>1

LEMMA QuestionFacts == Question \in Outgoing /\ Question.what = "get_config"
BY DEF Question, Cmd, Outgoing

LEMMA SentFacts ==
  ASSUME NEW m \in Hosts, NEW out \in Seq(Outgoing)
  PROVE  LET s == Sent(out, m)
             n == Len(out)
             l == Len(m.config)
             k == Len(m.init)
         IN  /\ s \in Seq(Outgoing) /\ n \in Nat /\ l \in Nat /\ k \in Nat /\ Len(s) = n + l + k + 2
             /\ \A i \in 1 .. n : s[i] = out[i]
             /\ \A i \in 1 .. l : s[n + i] = m.config[i]
             /\ s[n + l + 1].what = "finalize" /\ s[n + l + 1].oid = m.config
             /\ \A i \in 1 .. k : s[n + l + 1 + i] = m.init[i]
             /\ s[n + l + k + 2].what = "get_config"
<1> DEFINE f == [what |-> "finalize", oid |-> m.config]
           a == Append(m.config, f)
           b == out \o a
           c == b \o m.init
           s == c \o <<Question>>
           n == Len(out)
           l == Len(m.config)
           k == Len(m.init)
<1>1. m.config \in Seq(Orders) /\ m.init \in Seq(Orders)
  BY DEF Hosts
<1>2. m.config \in Seq(Outgoing) /\ m.init \in Seq(Outgoing)
  BY <1>1, OrdersGoOut
<1>3. f \in Outgoing /\ f.what = "finalize" /\ f.oid = m.config
  BY <1>1 DEF Outgoing
<1> HIDE DEF f
<1>4. n \in Nat /\ l \in Nat /\ k \in Nat /\ Len(out) = n /\ Len(m.config) = l /\ Len(m.init) = k
  BY <1>2
<1> HIDE DEF n, l, k
<1>5. a \in Seq(Outgoing) /\ Len(a) = l + 1 /\ (\A i \in 1 .. l : a[i] = m.config[i]) /\ a[l + 1] = f
  BY <1>2, <1>3, <1>4
<1>6. Sent(out, m) = s
  BY DEF Sent, ConfigMessages, f
<1> HIDE DEF a
<1>7. /\ b \in Seq(Outgoing) /\ Len(b) = n + l + 1 /\ (\A i \in 1 .. n : b[i] = out[i])
      /\ \A i \in 1 .. l + 1 : b[n + i] = a[i]
  BY <1>4, <1>5
<1> HIDE DEF b
<1>8. /\ c \in Seq(Outgoing) /\ Len(c) = n + l + 1 + k /\ (\A i \in 1 .. n + l + 1 : c[i] = b[i])
      /\ \A i \in 1 .. k : c[n + l + 1 + i] = m.init[i]
  <2>1. /\ c \in Seq(Outgoing) /\ Len(c) = Len(b) + Len(m.init)
        /\ (\A i \in 1 .. Len(b) : c[i] = b[i]) /\ \A i \in 1 .. Len(m.init) : c[Len(b) + i] = m.init[i]
    <3>1. PICK w : w = m.init
      OBVIOUS
    <3>2. w \in Seq(Outgoing) /\ b \in Seq(Outgoing)
      BY <1>2, <1>7, <3>1
    <3>3. c = b \o w
      BY <3>1 DEF c
    <3> QED
      BY <3>1, <3>2, <3>3
  <2> QED
    BY <2>1, <1>4, <1>7
<1> HIDE DEF c
<1>9. /\ s \in Seq(Outgoing) /\ Len(s) = n + l + k + 2 /\ (\A i \in 1 .. n + l + 1 + k : s[i] = c[i])
      /\ s[n + l + k + 2] = Question
  BY <1>4, <1>8, QuestionFacts, SMTT(40)
<1> HIDE DEF s
<1>10. \A i \in 1 .. n : s[i] = out[i]
  BY <1>4, <1>7, <1>8, <1>9
<1>11. \A i \in 1 .. l : s[n + i] = m.config[i]
  <2> SUFFICES ASSUME NEW i \in 1 .. l PROVE s[n + i] = m.config[i]
    OBVIOUS
  <2>1. n + i \in 1 .. n + l + 1 /\ n + i \in 1 .. n + l + 1 + k /\ i \in 1 .. l + 1
    BY <1>4
  <2> QED
    BY <2>1, <1>5, <1>7, <1>8, <1>9
<1>12. s[n + l + 1] = f
  <2>1. n + (l + 1) = n + l + 1 /\ n + l + 1 \in 1 .. n + l + 1 /\ n + l + 1 \in 1 .. n + l + 1 + k /\ l + 1 \in 1 .. l + 1
    BY <1>4
  <2> QED
    BY <2>1, <1>5, <1>7, <1>8, <1>9
<1>13. \A i \in 1 .. k : s[n + l + 1 + i] = m.init[i]
  <2> SUFFICES ASSUME NEW i \in 1 .. k PROVE s[n + l + 1 + i] = m.init[i]
    OBVIOUS
  <2>1. n + l + 1 + i \in 1 .. n + l + 1 + k
    BY <1>4
  <2> QED
    BY <2>1, <1>8, <1>9
<1>14. /\ s \in Seq(Outgoing) /\ n \in Nat /\ l \in Nat /\ k \in Nat /\ Len(s) = n + l + k + 2
       /\ s[n + l + 1].what = "finalize" /\ s[n + l + 1].oid = m.config /\ s[n + l + k + 2].what = "get_config"
  BY <1>3, <1>4, <1>9, <1>12, QuestionFacts
<1> QED
  BY <1>6, <1>10, <1>11, <1>13, <1>14 DEF n, l, k

\* After a stop nothing counts.
LEMMA NoneLive ==
  ASSUME NEW b, NEW s, Len(s) \in Nat, s[1].what = "emergency_stop"
  PROVE  AllFit(b, s)
<1> SUFFICES ASSUME NEW i \in 1 .. Len(s), Live(s, i) PROVE CommandFits(b, s, i)
  BY DEF AllFit
<1>1. i = 1
  <2>1. i > 1 => 1 \in 1 .. i - 1
    OBVIOUS
  <2> QED
    BY <2>1 DEF Live
<1> QED
  BY <1>1 DEF CommandFits

\* A board without a configuration takes a complete one without a fault.
LEMMA ConfigurationFits ==
  ASSUME NEW m \in Hosts, Complete(m), NEW out \in Seq(Outgoing), StopsOnly(out),
         NEW b \in BoardStates, b.config = None, b.oids = -1, b.objects = {}
  PROVE  AllFit(b, Sent(out, m))
<1> DEFINE s == Sent(out, m)
           n == Len(out)
           l == Len(m.config)
           k == Len(m.init)
<1>1. /\ s \in Seq(Outgoing) /\ n \in Nat /\ l \in Nat /\ k \in Nat /\ Len(s) = n + l + k + 2
      /\ \A i \in 1 .. n : s[i] = out[i]
      /\ \A i \in 1 .. l : s[n + i] = m.config[i]
      /\ s[n + l + 1].what = "finalize" /\ s[n + l + 1].oid = m.config
      /\ \A i \in 1 .. k : s[n + l + 1 + i] = m.init[i]
      /\ s[n + l + k + 2].what = "get_config"
  BY SentFacts
<1> HIDE DEF s
<1>0. Len(out) = n /\ Len(m.config) = l /\ Len(m.init) = k
  OBVIOUS
<1> HIDE DEF n, l, k
<1>2. CASE n > 0
  <2>1. s[1].what = "emergency_stop"
    BY <1>0, <1>1, <1>2 DEF StopsOnly
  <2>2. Len(s) \in Nat
    BY <1>1
  <2> QED
    BY <2>1, <2>2, NoneLive DEF s
<1>3. CASE n = 0
  <2>1. /\ Len(s) = l + k + 2 /\ (\A i \in 1 .. l : s[i] = m.config[i]) /\ s[l + 1].what = "finalize" /\ s[l + 1].oid = m.config
        /\ (\A i \in 1 .. k : s[l + 1 + i] = m.init[i]) /\ s[l + k + 2].what = "get_config"
    <3>1. \A i \in 1 .. l : s[i] = m.config[i]
      <4> SUFFICES ASSUME NEW i \in 1 .. l PROVE s[i] = m.config[i]
        OBVIOUS
      <4>1. n + i = i
        BY <1>3
      <4> QED
        BY <4>1, <1>1
    <3>2. n + l + 1 = l + 1 /\ n + l + k + 2 = l + k + 2
      BY <1>1, <1>3
    <3>3. \A i \in 1 .. k : s[l + 1 + i] = m.init[i]
      BY <3>2, <1>1
    <3> QED
      BY <1>1, <3>1, <3>2, <3>3
  <2>2. /\ l >= 1 /\ m.config[1].what = "allocate" /\ m.config[1].oid = m.oids
        /\ \A i \in 2 .. l : m.config[i].what \in {"config", "set"}
        /\ \A i \in 1 .. l : m.config[i].what = "config" => m.config[i].oid \in 0 .. m.oids - 1
        /\ Once(m.config) /\ SetAfter(m.config)
        /\ \A i \in 1 .. k : m.init[i].what = "set" /\ Configured(m.config, m.init[i].oid)
    BY <1>0 DEF Complete, Cmd
  <2>3. m.oids \in Nat /\ \A i \in 1 .. l : m.config[i].what # "finalize"
    <3>1. \A i \in 1 .. l : i = 1 \/ i \in 2 .. l
      BY <1>1
    <3> QED
      BY <3>1, <2>2 DEF Hosts
  <2>4. \A x : Configured(m.config, x) <=> \E j \in 1 .. l : s[j].what = "config" /\ s[j].oid = x
    BY <1>0, <2>1 DEF Configured
  <2> SUFFICES ASSUME NEW i \in 1 .. Len(s) PROVE CommandFits(b, s, i)
    BY DEF AllFit, s
  <2>5. CASE i \in 1 .. l
    <3>1. s[i] = m.config[i] /\ \A j \in 1 .. i - 1 : j \in 1 .. l /\ s[j] = m.config[j]
      BY <1>1, <2>1, <2>5
    <3>2. CASE i = 1
      <4>1. s[1].what = "allocate" /\ s[1].oid \in Nat
        BY <2>1, <2>2, <2>3, <3>1, <3>2
      <4>2. \A j \in 1 .. i - 1 : s[j].what # "allocate"
        BY <3>2
      <4> QED
        BY <3>2, <4>1, <4>2 DEF CommandFits, AllocateFits
    <3>3. CASE i # 1
      <4>1. i \in 2 .. l /\ s[i].what \in {"config", "set"} /\ 1 \in 1 .. i - 1
        BY <2>2, <2>5, <3>1, <3>3
      <4>2. ASSUME s[i].what = "config" PROVE ConfigFits(b, s, i)
        <5>1. s[1].what = "allocate" /\ s[1].oid = m.oids /\ s[i].oid < m.oids /\ s[i].oid \in Nat
          <6>1. s[i].oid \in 0 .. m.oids - 1 /\ s[1] = m.config[1]
            BY <2>2, <2>5, <3>1, <4>1, <4>2
          <6> QED
            BY <2>2, <2>3, <6>1
        <5>2. \A j \in 1 .. i - 1 : ~(s[j].what = "config" /\ s[j].oid = s[i].oid)
          BY <1>0, <2>2, <2>5, <3>1, <4>1, <4>2 DEF Once
        <5> QED
          BY <2>3, <3>1, <4>1, <5>1, <5>2 DEF ConfigFits
      <4>3. ASSUME s[i].what = "set" PROVE SetFits(b, s, i)
        <5>1. PICK j \in 1 .. i - 1 : m.config[j].what = "config" /\ m.config[j].oid = m.config[i].oid
          BY <1>0, <2>2, <2>5, <3>1, <4>3 DEF SetAfter
        <5> QED
          BY <3>1, <5>1 DEF SetFits
      <4> QED
        BY <4>1, <4>2, <4>3 DEF CommandFits
    <3> QED
      BY <3>2, <3>3
  <2>6. CASE i = l + 1
    <3>1. s[i].what = "finalize" /\ s[i].oid = m.config /\ i - 1 = l
      BY <1>1, <2>1, <2>6
    <3>2. FinalizeFits(b, s, i)
      BY <2>1, <2>3, <2>4, <3>1 DEF FinalizeFits
    <3> QED
      BY <3>1, <3>2 DEF CommandFits
  <2>7. CASE i \in l + 2 .. l + 1 + k
    <3>1. i - (l + 1) \in 1 .. k /\ l + 1 + (i - (l + 1)) = i /\ \A j \in 1 .. l : j \in 1 .. i - 1
      <4>1. l \in Nat /\ k \in Nat
        BY <1>1
      <4> HIDE DEF l, k
      <4>2. i \in Int /\ l + 2 <= i /\ i <= l + 1 + k
        BY <2>7, <4>1
      <4>3. i - (l + 1) \in 1 .. k
        BY <4>1, <4>2
      <4>4. l + 1 + (i - (l + 1)) = i
        BY <4>1, <4>2
      <4>5. \A j \in 1 .. l : j \in 1 .. i - 1
        BY <4>1, <4>2
      <4> QED
        BY <4>3, <4>4, <4>5
    <3>2. s[i].what = "set" /\ Configured(m.config, s[i].oid)
      BY <2>1, <2>2, <3>1
    <3>3. SetFits(b, s, i)
      BY <2>4, <3>1, <3>2 DEF SetFits
    <3> QED
      BY <3>2, <3>3 DEF CommandFits
  <2>8. CASE i = l + k + 2
    BY <2>1, <2>8 DEF CommandFits
  <2> QED
    BY <1>1, <2>1, <2>5, <2>6, <2>7, <2>8
<1> QED
  BY <1>1, <1>2, <1>3

\* Writes to what the board has as an object.
LEMMA WritesFit ==
  ASSUME NEW b, NEW out \in Seq(Outgoing), StopsOnly(out), NEW w \in Seq(Outgoing),
         \A i \in 1 .. Len(w) : w[i].what = "set" /\ w[i].oid \in b.objects
  PROVE  AllFit(b, out \o w)
<1> DEFINE s == out \o w
<1>1. /\ Len(out) \in Nat /\ Len(w) \in Nat /\ Len(s) = Len(out) + Len(w)
      /\ \A i \in 1 .. Len(out) : s[i] = out[i]
      /\ \A i \in 1 .. Len(s) : i > Len(out) => i - Len(out) \in 1 .. Len(w) /\ s[i] = w[i - Len(out)]
  OBVIOUS
<1> HIDE DEF s
<1> SUFFICES ASSUME NEW i \in 1 .. Len(s) PROVE CommandFits(b, s, i)
  BY DEF AllFit, s
<1>2. CASE i <= Len(out)
  BY <1>1, <1>2 DEF CommandFits, StopsOnly
<1>3. CASE i > Len(out)
  BY <1>1, <1>3 DEF CommandFits, SetFits
<1> QED
  BY <1>1, <1>2, <1>3

LEMMA AppendFits ==
  ASSUME NEW b, NEW s \in Seq(Outgoing), AllFit(b, s), NEW c \in Outgoing,
         c.what \in {"emergency_stop", "get_config"} \/ (c.what = "set" /\ c.oid \in b.objects)
  PROVE  AllFit(b, Append(s, c))
<1> DEFINE t == Append(s, c)
<1>1. /\ Len(s) \in Nat /\ Len(t) = Len(s) + 1 /\ t[Len(s) + 1] = c
      /\ \A i \in 1 .. Len(s) : t[i] = s[i]
  OBVIOUS
<1> HIDE DEF t
<1> SUFFICES ASSUME NEW i \in 1 .. Len(t), Live(t, i) PROVE CommandFits(b, t, i)
  BY DEF AllFit, t
<1>2. CASE i \in 1 .. Len(s)
  <2>1. t[i] = s[i] /\ \A j \in 1 .. i - 1 : t[j] = s[j]
    BY <1>1, <1>2
  <2>2. CommandFits(b, s, i)
    BY <1>2, <2>1 DEF AllFit, Live
  <2> QED
    <3>1. t[i].what = s[i].what /\ t[i].oid = s[i].oid
      BY <2>1
    <3>2. s[i].what = "allocate" => AllocateFits(b, t, i)
      BY <2>1, <2>2 DEF CommandFits, AllocateFits
    <3>3. s[i].what = "config" => ConfigFits(b, t, i)
      BY <2>1, <2>2 DEF CommandFits, ConfigFits
    <3>4. s[i].what = "set" => SetFits(b, t, i)
      BY <2>1, <2>2 DEF CommandFits, SetFits
    <3>5. s[i].what = "finalize" => FinalizeFits(b, t, i)
      <4> SUFFICES ASSUME s[i].what = "finalize" PROVE FinalizeFits(b, t, i)
        OBVIOUS
      <4>1. FinalizeFits(b, s, i)
        BY <2>2 DEF CommandFits
      <4>2. \A x : (\E j \in 1 .. i - 1 : s[j].what = "config" /\ s[j].oid = x) <=>
                     \E j \in 1 .. i - 1 : t[j].what = "config" /\ t[j].oid = x
        BY <2>1
      <4>3. \A x : Configured(t[i].oid, x) <=> x \in b.objects \/ \E j \in 1 .. i - 1 : t[j].what = "config" /\ t[j].oid = x
        BY <3>1, <4>1, <4>2 DEF FinalizeFits
      <4>4. b.config = None /\ \A j \in 1 .. i - 1 : t[j].what # "finalize"
        BY <2>1, <4>1 DEF FinalizeFits
      <4> QED
        BY <4>3, <4>4 DEF FinalizeFits
    <3> QED
      BY <3>1, <3>2, <3>3, <3>4, <3>5 DEF CommandFits
<1>3. CASE i = Len(s) + 1
  BY <1>1, <1>3 DEF CommandFits, SetFits
<1> QED
  BY <1>1, <1>2, <1>3
-----------------------------------------------------------------------------
(* The board takes a command that fits                                     *)

\* What the board is after a command
TookWell(b, c, a, whole) ==
  /\ c.what \in {"get_config", "set"} => a = b
  /\ c.what = "allocate" => b.oids = -1 /\ c.oid \in Nat /\ a = [b EXCEPT !.oids = c.oid]
  /\ c.what = "config" =>
       b.config = None /\ c.oid \in Nat /\ c.oid \notin b.objects /\ a = [b EXCEPT !.objects = @ \cup {c.oid}]
  /\ c.what = "finalize" =>
       /\ b.config = None /\ c.oid \in Seq(Orders)
       /\ a = [b EXCEPT !.config = c.oid, !.crc = IF whole THEN c.oid ELSE Byte]
       /\ \A x : Configured(c.oid, x) <=> x \in b.objects
  /\ c.what \in {"allocate", "config", "set", "get_config", "finalize"}

\* A command that fits is not refused.
LEMMA TakesWell ==
  ASSUME NEW b \in BoardStates, NEW c \in Outgoing, NEW s \in Seq(Outgoing), Len(s) > 0, c = s[1],
         c.what # "emergency_stop", AllFit(b, s), NEW whole
  PROVE  ~Refuses(b, c) /\ TookWell(b, c, Done(b, c, whole), whole)
<1>1. 1 \in 1 .. Len(s) /\ Live(s, 1) /\ 1 .. 1 - 1 = {}
  BY DEF Live
<1>2. CommandFits(b, s, 1)
  BY <1>1 DEF AllFit
<1>3. c.what \in {"allocate", "config", "set", "get_config", "finalize"}
  BY DEF Outgoing
<1>4. CASE c.what = "allocate"
  <2>1. b.oids = -1 /\ c.oid \in Nat
    BY <1>1, <1>2, <1>4 DEF CommandFits, AllocateFits, Outgoing
  <2>2. Done(b, c, whole) = [b EXCEPT !.oids = c.oid]
    BY <1>4 DEF Done
  <2>3. ~Refuses(b, c)
    BY <1>4, <2>1 DEF Refuses
  <2> QED
    BY <1>4, <2>1, <2>2, <2>3 DEF TookWell
<1>5. CASE c.what = "config"
  <2>1. b.config = None /\ c.oid \in Nat /\ c.oid \notin b.objects /\ c.oid < b.oids /\ b.oids \in Int
    BY <1>1, <1>2, <1>5 DEF CommandFits, ConfigFits, Outgoing, BoardStates
  <2>2. Done(b, c, whole) = [b EXCEPT !.objects = @ \cup {c.oid}]
    BY <1>5 DEF Done
  <2>3. ~Refuses(b, c)
    BY <1>5, <2>1 DEF Refuses
  <2> QED
    BY <1>5, <2>1, <2>2, <2>3 DEF TookWell
<1>6. CASE c.what = "set"
  <2>1. c.oid \in b.objects
    BY <1>1, <1>2, <1>6 DEF CommandFits, SetFits
  <2> QED
    BY <1>6, <2>1 DEF Done, Refuses, TookWell
<1>7. CASE c.what = "finalize"
  <2>1. b.config = None /\ c.oid \in Seq(Orders)
    BY <1>1, <1>2, <1>7 DEF CommandFits, FinalizeFits, Outgoing
  <2>2. \A x : Configured(c.oid, x) <=> x \in b.objects
    BY <1>1, <1>2, <1>7 DEF CommandFits, FinalizeFits
  <2>3. Done(b, c, whole) = [b EXCEPT !.config = c.oid, !.crc = IF whole THEN c.oid ELSE Byte]
    BY <1>7 DEF Done
  <2>4. ~Refuses(b, c)
    BY <1>7, <2>1 DEF Refuses
  <2> QED
    BY <1>7, <2>1, <2>2, <2>3, <2>4 DEF TookWell
<1>8. CASE c.what = "get_config"
  BY <1>8 DEF Done, Refuses, TookWell
<1> QED
  BY <1>3, <1>4, <1>5, <1>6, <1>7, <1>8

LEMMA TailFacts ==
  ASSUME NEW S, NEW s \in Seq(S), s # <<>>
  PROVE  /\ Len(s) \in Nat /\ Len(s) > 0 /\ Head(s) = s[1] /\ s[1] \in S
         /\ Tail(s) \in Seq(S) /\ Len(Tail(s)) = Len(s) - 1
         /\ \A i \in 1 .. Len(s) - 1 : Tail(s)[i] = s[i + 1]
BY HeadTailProperties

\* What is left fits then.
LEMMA TailFits ==
  ASSUME NEW b \in BoardStates, NEW s \in Seq(Outgoing), s # <<>>, NEW c, c = s[1], c.what # "emergency_stop", AllFit(b, s),
         NEW whole
  PROVE  AllFit(Done(b, c, whole), Tail(s))
<1> DEFINE t == Tail(s)
           a == Done(b, c, whole)
<1>1. /\ Len(s) \in Nat /\ Len(s) > 0 /\ c \in Outgoing /\ t \in Seq(Outgoing) /\ Len(t) = Len(s) - 1
      /\ \A i \in 1 .. Len(s) - 1 : t[i] = s[i + 1]
  BY TailFacts
<1> HIDE DEF t
<1>2. /\ c.what \in {"get_config", "set"} => a = b
      /\ c.what = "allocate" => b.oids = -1 /\ c.oid \in Nat /\ a = [b EXCEPT !.oids = c.oid]
      /\ c.what = "config" =>
           b.config = None /\ c.oid \in Nat /\ c.oid \notin b.objects /\ a = [b EXCEPT !.objects = @ \cup {c.oid}]
      /\ c.what = "finalize" =>
           /\ b.config = None /\ c.oid \in Seq(Orders)
           /\ a = [b EXCEPT !.config = c.oid, !.crc = IF whole THEN c.oid ELSE Byte]
      /\ c.what \in {"allocate", "config", "set", "get_config", "finalize"}
  <2> HIDE DEF a
  <2>1. \A e : e = Done(b, c, whole) => TookWell(b, c, e, whole)
    BY <1>1, TakesWell
  <2>2. TookWell(b, c, a, whole)
    BY <2>1 DEF a
  <2> QED
    BY <2>2 DEF TookWell
<1> HIDE DEF a
<1>3. /\ a.oids = IF c.what = "allocate" THEN c.oid ELSE b.oids
      /\ a.config = IF c.what = "finalize" THEN c.oid ELSE b.config
      /\ \A x : x \in a.objects <=> x \in b.objects \/ (c.what = "config" /\ x = c.oid)
  <2>1. CASE c.what = "finalize"
    <3>1. PICK y : y = IF whole THEN c.oid ELSE Byte
      OBVIOUS
    <3>2. a = [[b EXCEPT !.config = c.oid] EXCEPT !.crc = y]
      BY <1>2, <2>1, <3>1
    <3> QED
      BY <2>1, <3>2 DEF BoardStates
  <2>2. CASE c.what # "finalize"
    BY <1>2, <2>2 DEF BoardStates
  <2> QED
    BY <2>1, <2>2
<1> SUFFICES ASSUME NEW i \in 1 .. Len(t), Live(t, i) PROVE CommandFits(a, t, i)
  BY DEF AllFit, t, a
<1>4. /\ i + 1 \in 1 .. Len(s) /\ t[i] = s[i + 1] /\ 1 \in 1 .. (i + 1) - 1
      /\ \A j \in 1 .. i - 1 : t[j] = s[j + 1] /\ j + 1 \in 1 .. (i + 1) - 1
      /\ \A j \in 1 .. (i + 1) - 1 : j = 1 \/ (j - 1 \in 1 .. i - 1 /\ s[j] = t[j - 1])
  <2>1. \A j \in 1 .. (i + 1) - 1 : j = 1 \/ (j - 1 \in 1 .. i - 1 /\ j - 1 \in 1 .. Len(s) - 1 /\ (j - 1) + 1 = j)
    BY <1>1
  <2>2. \A j \in 1 .. (i + 1) - 1 : j = 1 \/ (j - 1 \in 1 .. i - 1 /\ s[j] = t[j - 1])
    BY <1>1, <2>1
  <2>3. \A j \in 1 .. i - 1 : t[j] = s[j + 1] /\ j + 1 \in 1 .. (i + 1) - 1
    BY <1>1
  <2>4. i + 1 \in 1 .. Len(s) /\ t[i] = s[i + 1] /\ 1 \in 1 .. (i + 1) - 1
    BY <1>1
  <2> QED
    BY <2>2, <2>3, <2>4
<1>5. Live(s, i + 1)
  BY <1>4 DEF Live
<1>6. CommandFits(b, s, i + 1)
  BY <1>4, <1>5 DEF AllFit
<1>7. \A x : (\E j \in 1 .. (i + 1) - 1 : s[j].what = "config" /\ s[j].oid = x) <=>
               (c.what = "config" /\ x = c.oid) \/ \E j \in 1 .. i - 1 : t[j].what = "config" /\ t[j].oid = x
  <2> SUFFICES ASSUME NEW x
               PROVE  (\E j \in 1 .. (i + 1) - 1 : s[j].what = "config" /\ s[j].oid = x) <=>
                        (c.what = "config" /\ x = c.oid) \/ \E j \in 1 .. i - 1 : t[j].what = "config" /\ t[j].oid = x
    OBVIOUS
  <2>1. ASSUME NEW j \in 1 .. (i + 1) - 1, s[j].what = "config", s[j].oid = x
        PROVE  (c.what = "config" /\ x = c.oid) \/ \E l \in 1 .. i - 1 : t[l].what = "config" /\ t[l].oid = x
    BY <1>4, <2>1
  <2>2. ASSUME NEW j \in 1 .. i - 1, t[j].what = "config", t[j].oid = x
        PROVE  \E l \in 1 .. (i + 1) - 1 : s[l].what = "config" /\ s[l].oid = x
    BY <1>4, <2>2
  <2>3. ASSUME c.what = "config", x = c.oid
        PROVE  \E l \in 1 .. (i + 1) - 1 : s[l].what = "config" /\ s[l].oid = x
    BY <1>4, <2>3
  <2> QED
    BY <2>1, <2>2, <2>3
<1>8. ASSUME t[i].what = "allocate" PROVE AllocateFits(a, t, i)
  <2>1. AllocateFits(b, s, i + 1)
    BY <1>4, <1>6, <1>8 DEF CommandFits
  <2> QED
    BY <1>3, <1>4, <2>1 DEF AllocateFits
<1>9. ASSUME t[i].what = "config" PROVE ConfigFits(a, t, i)
  <2>1. ConfigFits(b, s, i + 1)
    BY <1>4, <1>6, <1>9 DEF CommandFits
  <2>2. a.config = None /\ t[i].oid \in Nat /\ t[i].oid \notin a.objects
    BY <1>3, <1>4, <2>1 DEF ConfigFits
  <2>3. t[i].oid < a.oids \/ \E j \in 1 .. i - 1 : t[j].what = "allocate" /\ t[i].oid < t[j].oid
    <3>1. CASE t[i].oid < b.oids
      <4>1. CASE c.what = "allocate"
        <5>1. b.oids = -1 /\ t[i].oid \in Int
          BY <1>1, <1>2, <1>9, <4>1 DEF Outgoing
        <5>2. AllocateFits(b, s, 1)
          BY <1>1, <4>1 DEF AllFit, Live, CommandFits
        <5> QED
          <6>1. c.oid \in Nat
            BY <5>2 DEF AllocateFits
          <6> QED
            BY <1>3, <3>1, <4>1, <5>1, <6>1
      <4> QED
        BY <1>3, <3>1, <4>1
    <3>2. CASE \E j \in 1 .. (i + 1) - 1 : s[j].what = "allocate" /\ s[i + 1].oid < s[j].oid
      BY <1>3, <1>4, <3>2
    <3> QED
      BY <1>4, <2>1, <3>1, <3>2 DEF ConfigFits
  <2>4. \A j \in 1 .. i - 1 : t[j].what # "finalize" /\ ~(t[j].what = "config" /\ t[j].oid = t[i].oid)
    BY <1>4, <2>1 DEF ConfigFits
  <2> QED
    BY <2>2, <2>3, <2>4 DEF ConfigFits
<1>10. ASSUME t[i].what = "set" PROVE SetFits(a, t, i)
  <2>1. SetFits(b, s, i + 1)
    BY <1>4, <1>6, <1>10 DEF CommandFits
  <2> QED
    BY <1>3, <1>4, <1>7, <2>1 DEF SetFits
<1>11. ASSUME t[i].what = "finalize" PROVE FinalizeFits(a, t, i)
  <2>1. FinalizeFits(b, s, i + 1)
    BY <1>4, <1>6, <1>11 DEF CommandFits
  <2>2. a.config = None /\ \A j \in 1 .. i - 1 : t[j].what # "finalize"
    BY <1>3, <1>4, <2>1 DEF FinalizeFits
  <2>3. \A x : Configured(t[i].oid, x) <=> x \in a.objects \/ \E j \in 1 .. i - 1 : t[j].what = "config" /\ t[j].oid = x
    <3> SUFFICES ASSUME NEW x
                 PROVE  Configured(t[i].oid, x) <=> x \in a.objects \/ \E j \in 1 .. i - 1 : t[j].what = "config" /\ t[j].oid = x
      OBVIOUS
    <3> DEFINE P == \E j \in 1 .. (i + 1) - 1 : s[j].what = "config" /\ s[j].oid = x
               Q == \E j \in 1 .. i - 1 : t[j].what = "config" /\ t[j].oid = x
    <3>1. Configured(s[i + 1].oid, x) <=> x \in b.objects \/ P
      BY <2>1 DEF FinalizeFits
    <3>2. P <=> (c.what = "config" /\ x = c.oid) \/ Q
      BY <1>7
    <3>3. x \in a.objects <=> x \in b.objects \/ (c.what = "config" /\ x = c.oid)
      BY <1>3
    <3>4. t[i] = s[i + 1]
      BY <1>4
    <3>5. Configured(t[i].oid, x) <=> x \in a.objects \/ Q
      <4> HIDE DEF P, Q
      <4> QED
        BY <3>1, <3>2, <3>3, <3>4
    <3> QED
      BY <3>5
  <2> QED
    BY <2>2, <2>3 DEF FinalizeFits
<1> QED
  BY <1>8, <1>9, <1>10, <1>11 DEF CommandFits
-----------------------------------------------------------------------------
(* Making parts, and writing to them early                                 *)

LEMMA PartIsMade ==
  ASSUME NEW m \in Hosts, Assembled(m, 0), NEW a \in Hosts, NEW kind \in PartKinds, NEW x \in Int,
         a.parts = Append(m.parts, Part(kind, x)), a.init = m.init, ConfigIsGood(a.config, a.oids),
         IF kind \in OwnOid THEN x = m.oids /\ a.oids = m.oids + 1 ELSE a.oids = m.oids,
         IF kind \in {"queued", "spi"} THEN \A y : Configured(a.config, y) <=> Configured(m.config, y) \/ y = x
         ELSE a.config = m.config
  PROVE  Assembled(a, 0)
<1> DEFINE n == Len(m.parts)
<1>1. /\ m.parts \in Seq(McuParts) /\ n \in Nat /\ Part(kind, x) \in McuParts
      /\ Part(kind, x).kind = kind /\ Part(kind, x).oid = x /\ m.oids \in Nat
  BY DEF Hosts, McuParts, Part
<1>2. /\ Len(a.parts) = n + 1 /\ a.parts[n + 1].kind = kind /\ a.parts[n + 1].oid = x
      /\ \A i \in 1 .. n : a.parts[i] = m.parts[i] /\ m.parts[i].oid \in Int
      /\ \A i \in 1 .. Len(a.parts) : i \in 1 .. n \/ i = n + 1
  <2>1. Len(a.parts) = n + 1 /\ a.parts[n + 1] = Part(kind, x) /\ \A i \in 1 .. n : a.parts[i] = m.parts[i]
    BY <1>1
  <2>2. \A i \in 1 .. n : m.parts[i].oid \in Int
    <3>1. \A i \in 1 .. n : m.parts[i] \in McuParts
      BY <1>1
    <3> QED
      BY <3>1 DEF McuParts
  <2> QED
    BY <1>1, <2>1, <2>2
<1> HIDE DEF n
<1>3. \A i \in 1 .. n : m.parts[i].kind \in OwnOid => m.parts[i].oid \in 0 .. m.oids - 1
  BY DEF Assembled, HasOid, n
<1>4. \A i \in 1 .. Len(a.parts) : HasOid(a, 0, i) <=> a.parts[i].kind \in OwnOid
  BY <1>1, <1>2 DEF HasOid
<1>5. \A i \in 1 .. Len(a.parts) : HasOid(a, 0, i) => a.parts[i].oid \in 0 .. a.oids - 1
  <2> SUFFICES ASSUME NEW i \in 1 .. Len(a.parts), a.parts[i].kind \in OwnOid PROVE a.parts[i].oid \in 0 .. a.oids - 1
    BY <1>4
  <2>1. CASE i \in 1 .. n
    <3>1. a.parts[i].oid \in 0 .. m.oids - 1 /\ (a.oids = m.oids + 1 \/ a.oids = m.oids)
      BY <1>2, <1>3, <2>1
    <3> QED
      BY <1>1, <3>1
  <2>2. CASE i = n + 1
    BY <1>1, <1>2, <2>2
  <2> QED
    BY <1>2, <2>1, <2>2
<1>6. OidsDiffer(a, 0)
  <2> SUFFICES ASSUME NEW i \in 1 .. Len(a.parts), NEW j \in 1 .. Len(a.parts), a.parts[i].kind \in OwnOid, a.parts[j].kind \in OwnOid,
                      a.parts[i].oid = a.parts[j].oid
               PROVE  i = j
    BY <1>4 DEF OidsDiffer
  <2>1. CASE i \in 1 .. n /\ j \in 1 .. n
    BY <1>2, <2>1 DEF Assembled, OidsDiffer, HasOid, n
  <2>2. CASE i = n + 1 /\ j \in 1 .. n
    <3>1. a.parts[j].oid \in 0 .. m.oids - 1 /\ a.parts[i].oid = m.oids
      BY <1>2, <1>3, <2>2
    <3> QED
      BY <1>1, <3>1
  <2>3. CASE j = n + 1 /\ i \in 1 .. n
    <3>1. a.parts[i].oid \in 0 .. m.oids - 1 /\ a.parts[j].oid = m.oids
      BY <1>2, <1>3, <2>3
    <3> QED
      BY <1>1, <3>1
  <2> QED
    BY <1>2, <2>1, <2>2, <2>3
<1>7. \A y : Configured(m.config, y) => Configured(a.config, y)
  BY DEF PartKinds
<1>8. ASSUME NEW i \in 1 .. Len(a.parts), a.parts[i].kind \in {"queued", "spi"} PROVE Configured(a.config, a.parts[i].oid)
  <2>1. CASE i \in 1 .. n
    BY <1>2, <1>7, <1>8, <2>1 DEF Assembled, n
  <2>2. CASE i = n + 1
    BY <1>2, <1>8, <2>2
  <2> QED
    BY <1>2, <2>1, <2>2
<1>9. ASSUME NEW i \in 1 .. Len(a.parts), a.parts[i].kind = "i2c" PROVE ~Configured(a.config, a.parts[i].oid)
  <2>1. CASE i \in 1 .. n
    <3>1. ~Configured(m.config, m.parts[i].oid) /\ m.parts[i].oid \in 0 .. m.oids - 1
      BY <1>1, <1>2, <1>3, <1>9, <2>1 DEF Assembled, OwnOid, n
    <3>2. kind \in {"queued", "spi"} => x = m.oids
      BY DEF OwnOid
    <3> QED
      BY <1>1, <1>2, <2>1, <3>1, <3>2
  <2>2. CASE i = n + 1
    <3>1. kind = "i2c" /\ x = m.oids /\ a.config = m.config
      BY <1>2, <1>9, <2>2 DEF OwnOid
    <3>2. ConfigIsGood(m.config, m.oids)
      BY DEF Assembled
    <3>3. ~Configured(m.config, m.oids)
      BY <1>1, <3>2 DEF ConfigIsGood, Configured
    <3> QED
      BY <1>2, <2>2, <3>1, <3>3
  <2> QED
    BY <1>2, <2>1, <2>2
<1>10. ASSUME NEW i \in 1 .. Len(a.init)
       PROVE  a.init[i].what = "set" /\ \E j \in 1 .. Len(a.parts) : HasOid(a, 0, j) /\ a.parts[j].oid = a.init[i].oid
  <2>1. PICK j \in 1 .. n : HasOid(m, 0, j) /\ m.parts[j].oid = m.init[i].oid
    BY DEF Assembled, n
  <2>2. m.init[i].what = "set"
    BY DEF Assembled
  <2>3. j \in 1 .. Len(a.parts)
    BY <1>1, <1>2 DEF n
  <2>4. HasOid(a, 0, j)
    BY <1>2, <2>1 DEF HasOid
  <2> QED
    BY <1>2, <2>1, <2>2, <2>3, <2>4
<1>11. \A i \in 1 .. Len(a.parts) : ~(i <= 0)
  OBVIOUS
<1> QED
  BY <1>5, <1>6, <1>8, <1>9, <1>10, <1>11 DEF Assembled

\* The parts that take their id when they are made
LEMMA MakePartKeeps ==
  ASSUME NEW m \in Hosts, Assembled(m, 0), NEW kind \in PartKinds, NEW a,
         a = CASE kind = "digital" -> MakeDigital(m) [] kind = "analog" -> MakeAnalog(m)
               [] kind = "queued" -> MakeQueued(m) [] kind = "i2c" -> MakeI2c(m) [] kind = "spi" -> MakeSpi(m)
  PROVE  /\ a \in Hosts /\ Assembled(a, 0)
         /\ a.phase = m.phase /\ a.is_shutdown = m.is_shutdown /\ a.printer = m.printer
<1>1. /\ m.parts \in Seq(McuParts) /\ m.oids \in Nat /\ m.config \in Seq(Orders) /\ m.oids + 1 \in Nat /\ m.oids \in Int
      /\ ConfigIsGood(m.config, m.oids) /\ m.oids <= m.oids + 1
  BY DEF Hosts, Assembled
<1>2. ~Configured(m.config, m.oids)
  BY <1>1 DEF ConfigIsGood, Configured
<1>3. \A x \in Int : Part(kind, x) \in McuParts /\ Append(m.parts, Part(kind, x)) \in Seq(McuParts)
  <2>1. \A x \in Int : Part(kind, x) \in McuParts
    BY DEF Part, McuParts
  <2> QED
    BY <1>1, <2>1
<1>4. CASE kind \in {"digital", "analog"}
  <2>1. a = [m EXCEPT !.parts = Append(m.parts, Part(kind, -1))] /\ -1 \in Int
    <3>1. CASE kind = "digital"
      <4>1. a = MakeDigital(m)
        BY <3>1
      <4> QED
        BY <3>1, <4>1 DEF MakeDigital
    <3>2. CASE kind = "analog"
      <4>1. a = MakeAnalog(m)
        BY <3>2
      <4> QED
        BY <3>2, <4>1 DEF MakeAnalog
    <3> QED
      BY <1>4, <3>1, <3>2
  <2>2. /\ a \in Hosts /\ a.parts = Append(m.parts, Part(kind, -1)) /\ a.init = m.init /\ a.config = m.config /\ a.oids = m.oids
        /\ a.phase = m.phase /\ a.is_shutdown = m.is_shutdown /\ a.printer = m.printer
    BY <1>3, <2>1 DEF Hosts
  <2>3. kind \notin OwnOid /\ kind \notin {"queued", "spi"} /\ -1 \in Int
    BY <1>4 DEF OwnOid
  <2>4. Assembled(a, 0)
    BY <1>1, <2>2, <2>3, PartIsMade
  <2> QED
    BY <2>2, <2>4
<1>5. CASE kind = "i2c"
  <2>1. a = [[m EXCEPT !.oids = m.oids + 1] EXCEPT !.parts = Append(m.parts, Part(kind, m.oids))]
    BY <1>5 DEF MakeI2c, create_oid, Hosts
  <2>2. /\ a \in Hosts /\ a.parts = Append(m.parts, Part(kind, m.oids)) /\ a.init = m.init /\ a.config = m.config /\ a.oids = m.oids + 1
        /\ a.phase = m.phase /\ a.is_shutdown = m.is_shutdown /\ a.printer = m.printer
    <3>1. PICK p : p = Append(m.parts, Part(kind, m.oids))
      OBVIOUS
    <3>2. p \in Seq(McuParts)
      BY <1>1, <1>3, <3>1
    <3> QED
      BY <1>1, <2>1, <3>1, <3>2 DEF Hosts
  <2>3. kind \in OwnOid /\ kind \notin {"queued", "spi"}
    BY <1>5 DEF OwnOid
  <2>4. ConfigIsGood(a.config, a.oids)
    <3>1. \A x \in 0 .. m.oids - 1 : x \in 0 .. (m.oids + 1) - 1
      BY <1>1
    <3> QED
      BY <1>1, <2>2, <3>1 DEF ConfigIsGood
  <2>5. Assembled(a, 0)
    BY <1>1, <2>2, <2>3, <2>4, PartIsMade
  <2> QED
    BY <2>2, <2>5
<1>6. CASE kind \in {"queued", "spi"}
  <2> DEFINE t == m.config \o <<Cmd("config", m.oids)>>
  <2>1. /\ t \in Seq(Orders) /\ ConfigIsGood(t, m.oids + 1)
        /\ \A y : Configured(t, y) <=> Configured(m.config, y) \/ y = m.oids
    <3>1. m.oids \in 0 .. (m.oids + 1) - 1
      BY <1>1
    <3> QED
      BY <1>1, <1>2, <3>1, ConfigureAfter
  <2>2. a = [[[m EXCEPT !.oids = m.oids + 1] EXCEPT !.parts = Append(m.parts, Part(kind, m.oids))] EXCEPT !.config = t]
    BY <1>6 DEF MakeQueued, MakeSpi, create_oid, Configure, Hosts
  <2> HIDE DEF t
  <2>3. /\ a \in Hosts /\ a.parts = Append(m.parts, Part(kind, m.oids)) /\ a.init = m.init /\ a.config = t /\ a.oids = m.oids + 1
        /\ a.phase = m.phase /\ a.is_shutdown = m.is_shutdown /\ a.printer = m.printer
    <3>1. PICK p : p = Append(m.parts, Part(kind, m.oids))
      OBVIOUS
    <3>2. p \in Seq(McuParts)
      BY <1>1, <1>3, <3>1
    <3> QED
      BY <1>1, <2>1, <2>2, <3>1, <3>2 DEF Hosts
  <2>4. kind \in OwnOid
    BY <1>6 DEF OwnOid
  <2>5. Assembled(a, 0)
    BY <1>1, <1>6, <2>1, <2>3, <2>4, PartIsMade
  <2> QED
    BY <2>3, <2>5
<1> QED
  BY <1>4, <1>5, <1>6 DEF PartKinds

\* What is assembled stays so when only values are added to it.
LEMMA ValuesKeep ==
  ASSUME NEW m \in Hosts, Assembled(m, 0), NEW a \in Hosts, a.parts = m.parts, a.oids = m.oids,
         ConfigIsGood(a.config, a.oids), \A y : Configured(a.config, y) <=> Configured(m.config, y),
         \A i \in 1 .. Len(a.init) :
           a.init[i].what = "set" /\ \E j \in 1 .. Len(m.parts) : HasOid(m, 0, j) /\ m.parts[j].oid = a.init[i].oid
  PROVE  Assembled(a, 0)
<1>1. \A i : HasOid(a, 0, i) <=> HasOid(m, 0, i)
  BY DEF HasOid
<1>2. OidsDiffer(a, 0)
  BY <1>1 DEF OidsDiffer, Assembled
<1>3. \A i \in 1 .. Len(a.parts) : HasOid(a, 0, i) => a.parts[i].oid \in 0 .. a.oids - 1
  BY <1>1 DEF Assembled
<1>4. /\ \A i \in 1 .. Len(a.parts) : a.parts[i].kind \in {"queued", "spi"} \/ i <= 0 => Configured(a.config, a.parts[i].oid)
      /\ \A i \in 1 .. Len(a.parts) : a.parts[i].kind = "i2c" /\ i > 0 => ~Configured(a.config, a.parts[i].oid)
  BY DEF Assembled
<1>5. \A i \in 1 .. Len(a.init) :
        a.init[i].what = "set" /\ \E j \in 1 .. Len(a.parts) : HasOid(a, 0, j) /\ a.parts[j].oid = a.init[i].oid
  BY <1>1
<1> QED
  BY <1>2, <1>3, <1>4, <1>5 DEF Assembled

LEMMA LastOrBefore ==
  ASSUME NEW n \in Nat, NEW j \in 1 .. n + 1
  PROVE  j \in 1 .. n \/ j = n + 1
OBVIOUS

\* A write to a part on a queue goes behind its configuration, one on a bus to the init commands.
LEMMA WriteEarlyKeeps ==
  ASSUME NEW m \in Hosts, Assembled(m, 0), NEW i \in 1 .. Len(m.parts), m.parts[i].kind \in OwnOid, NEW a,
         LET set == Cmd("set", m.parts[i].oid)
             w == [m EXCEPT !.writes = @ + 1]
         IN  a = CASE w.parts[i].kind = "queued" -> update_digital_out(w, set)
                   [] w.parts[i].kind = "i2c" -> i2c_write(w, set) [] w.parts[i].kind = "spi" -> spi_send(w, set)
  PROVE  /\ a \in Hosts /\ Assembled(a, 0)
         /\ a.phase = m.phase /\ a.is_shutdown = m.is_shutdown /\ a.printer = m.printer
<1> DEFINE x == m.parts[i].oid
           set == Cmd("set", x)
<1>1. /\ m.parts \in Seq(McuParts) /\ m.config \in Seq(Orders) /\ m.init \in Seq(Orders) /\ m.writes + 1 \in Nat
      /\ m.oids \in Nat /\ ConfigIsGood(m.config, m.oids)
  BY DEF Hosts, Assembled
<1>2. x \in Int /\ set \in Orders /\ set.what = "set" /\ set.oid = x
  <2>1. m.parts[i] \in McuParts
    BY <1>1
  <2> QED
    BY <2>1 DEF McuParts, Cmd, Orders
<1>3. CASE m.parts[i].kind = "queued"
  <2> DEFINE t == m.config \o <<set>>
  <2>1. Configured(m.config, x)
    BY <1>3 DEF Assembled
  <2>2. t \in Seq(Orders) /\ ConfigIsGood(t, m.oids) /\ \A y : Configured(t, y) <=> Configured(m.config, y)
    BY <1>1, <1>2, <2>1, SetAfterConfigure
  <2>3. a = [[m EXCEPT !.writes = m.writes + 1] EXCEPT !.config = t]
    BY <1>3 DEF update_digital_out, Configure, Hosts
  <2> HIDE DEF t
  <2>4. /\ a \in Hosts /\ a.parts = m.parts /\ a.init = m.init /\ a.config = t /\ a.oids = m.oids
        /\ a.phase = m.phase /\ a.is_shutdown = m.is_shutdown /\ a.printer = m.printer
    BY <1>1, <2>2, <2>3 DEF Hosts
  <2>5. \A j \in 1 .. Len(a.init) :
          a.init[j].what = "set" /\ \E l \in 1 .. Len(m.parts) : HasOid(m, 0, l) /\ m.parts[l].oid = a.init[j].oid
    <3>1. \A j \in 1 .. Len(m.init) :
            m.init[j].what = "set" /\ \E l \in 1 .. Len(m.parts) : HasOid(m, 0, l) /\ m.parts[l].oid = m.init[j].oid
      BY Zenon DEF Assembled
    <3>2. a.init = m.init
      BY <2>4
    <3> QED
      BY <3>1, <3>2
  <2>6. Assembled(a, 0)
    BY <2>2, <2>4, <2>5, ValuesKeep, ZenonT(40)
  <2> QED
    BY <2>4, <2>6
<1>4. CASE m.parts[i].kind \in {"i2c", "spi"}
  <2>1. a = [[m EXCEPT !.writes = m.writes + 1] EXCEPT !.init = Append(m.init, set)]
    BY <1>4 DEF i2c_write, spi_send, Hosts
  <2>2. Append(m.init, set) \in Seq(Orders)
    BY <1>1, <1>2
  <2>3. /\ a \in Hosts /\ a.parts = m.parts /\ a.init = Append(m.init, set) /\ a.config = m.config /\ a.oids = m.oids
        /\ a.phase = m.phase /\ a.is_shutdown = m.is_shutdown /\ a.printer = m.printer
    BY <1>1, <2>1, <2>2 DEF Hosts
  <2> DEFINE z == Append(m.init, set)
             n == Len(m.init)
  <2> HIDE DEF set
  <2>6. n \in Nat /\ Len(z) = n + 1 /\ z[n + 1] = set /\ \A j \in 1 .. n : z[j] = m.init[j]
    BY <1>1, <1>2
  <2>7. a.init = z
    BY <2>3, ZenonT(40)
  <2> HIDE DEF z
  <2>4. ASSUME NEW j \in 1 .. Len(a.init)
        PROVE  a.init[j].what = "set" /\ \E l \in 1 .. Len(m.parts) : HasOid(m, 0, l) /\ m.parts[l].oid = a.init[j].oid
    <3>1. CASE j \in 1 .. Len(m.init)
      <4>1. a.init[j] = m.init[j]
        BY <2>6, <2>7, <3>1
      <4>2. m.init[j].what = "set" /\ \E l \in 1 .. Len(m.parts) : HasOid(m, 0, l) /\ m.parts[l].oid = m.init[j].oid
        BY <3>1, SMTT(30) DEF Assembled
      <4> QED
        BY <2>3, <4>1, <4>2
    <3>2. CASE j = Len(m.init) + 1
      <4>1. a.init[j] = set
        BY <2>6, <2>7, <3>2, ZenonT(40)
      <4>2. HasOid(m, 0, i)
        BY DEF HasOid
      <4> QED
        BY <1>2, <2>3, <4>1, <4>2
    <3> QED
      <4>1. Len(a.init) = Len(m.init) + 1
        BY <2>6, <2>7
      <4>2. j \in 1 .. Len(m.init) \/ j = Len(m.init) + 1
        <5>1. PICK l \in Nat : l = Len(m.init)
          BY <2>6 DEF n
        <5>2. j \in 1 .. l + 1
          BY Zenon, <4>1, <5>1
        <5>3. j \in 1 .. l \/ j = l + 1
          BY <5>2, LastOrBefore
        <5> QED
          BY Zenon, <5>1, <5>3
      <4> QED
        BY <3>1, <3>2, <4>2
  <2>8. ConfigIsGood(a.config, a.oids) /\ \A y : Configured(a.config, y) <=> Configured(m.config, y)
    BY <1>1, <2>3
  <2>9. \A j \in 1 .. Len(a.init) :
          a.init[j].what = "set" /\ \E l \in 1 .. Len(m.parts) : HasOid(m, 0, l) /\ m.parts[l].oid = a.init[j].oid
    BY <2>3, <2>4, ZenonT(40)
  <2>5. Assembled(a, 0)
    BY <2>3, <2>8, <2>9, ValuesKeep
  <2> QED
    BY <2>3, <2>5
<1> QED
  BY <1>3, <1>4 DEF OwnOid

-----------------------------------------------------------------------------
(* The steps of the host                                                   *)

SessionStates == [count : Nat, reason : Reasons, tries : Nat, faults : Nat, missed : BOOLEAN, cut : BOOLEAN]

\* A host with the same parts and commands is as ready.
LEMMA SameHost ==
  ASSUME NEW m, NEW a, a.parts = m.parts, a.oids = m.oids, a.config = m.config, a.init = m.init
  PROVE  (Assembled(m, 0) => Assembled(a, 0)) /\ (Complete(m) => Complete(a))
<1>1. \A i : HasOid(a, 0, i) <=> HasOid(m, 0, i)
  BY DEF HasOid
<1>2. OidsDiffer(a, 0) <=> OidsDiffer(m, 0)
  BY <1>1 DEF OidsDiffer
<1>3. Assembled(m, 0) => Assembled(a, 0)
  BY <1>1, <1>2 DEF Assembled
<1>4. Complete(m) => Complete(a)
  BY DEF Complete
<1> QED
  BY <1>3, <1>4

LEMMA AppendFacts ==
  ASSUME NEW S, NEW s \in Seq(S), NEW c \in S, NEW t, t = Append(s, c)
  PROVE  /\ t \in Seq(S) /\ Len(s) \in Nat /\ Len(t) = Len(s) + 1 /\ t[Len(s) + 1] = c
         /\ Len(s) + 1 \in 1 .. Len(t)
         /\ \A i \in 1 .. Len(s) : t[i] = s[i] /\ i \in 1 .. Len(t)
         /\ \A i \in 1 .. Len(t) : i \in 1 .. Len(s) \/ i = Len(s) + 1
OBVIOUS

\* A step of the host alone
LEMMA HostMoves ==
  ASSUME McuTypes, McuInv, mcu' \in Hosts, session' \in SessionStates, mcu'.phase = mcu.phase,
         mcu.phase \in {"asked again", "ready"} => mcu'.config = mcu.config,
         outbound' = outbound, inbound' = inbound, board' = board,
         session'.reason = session.reason, session'.tries = session.tries, session'.cut = session.cut, HostReady', Noticed'
  PROVE  McuTypes' /\ McuInv'
<1>1. McuTypes'
  BY DEF McuTypes, SessionStates
<1>2. OneQuestion'
  BY DEF McuInv, OneQuestion, Asking, AnswerComes, Waits
<1>3. SentInPhase'
  BY ZenonT(40) DEF McuInv, SentInPhase
<1>4. NeverFaults'
  <2>1. ASSUME BoardKnows PROVE BoardKnows'
    <3>1. AllFit(board, outbound)' /\ Whole(board)' /\ (mcu'.phase # "asked again" => Settled(board)')
      BY <2>1 DEF BoardKnows
    <3> QED
      BY <2>1, <3>1 DEF BoardKnows, FinalizeComes, Waits
  <2> QED
    BY <2>1 DEF McuInv, NeverFaults, Running
<1>5. OnceInARow'
  BY DEF McuInv, OnceInARow
<1>6. CutStays'
  <2>1. CutShort => CutShort'
    BY DEF CutShort, Asking
  <2> QED
    BY <2>1 DEF McuInv, CutStays, Running
<1> QED
  BY <1>1, <1>2, <1>3, <1>4, <1>5, <1>6 DEF McuInv

LEMMA MakePartStep ==
  ASSUME McuTypes, McuInv, NEW kind \in PartKinds, MakePart(kind)
  PROVE  McuTypes' /\ McuInv'
<1>1. PICK m, a : m = mcu /\ a = mcu'
  OBVIOUS
<1>2. m \in Hosts /\ Assembled(m, 0) /\ m.phase = "setup"
  BY <1>1 DEF McuTypes, McuInv, HostReady, MakePart
<1>3. a = CASE kind = "digital" -> MakeDigital(m) [] kind = "analog" -> MakeAnalog(m)
            [] kind = "queued" -> MakeQueued(m) [] kind = "i2c" -> MakeI2c(m) [] kind = "spi" -> MakeSpi(m)
  BY <1>1 DEF MakePart
<1>4. /\ a \in Hosts /\ Assembled(a, 0)
      /\ a.phase = m.phase /\ a.is_shutdown = m.is_shutdown /\ a.printer = m.printer
  BY <1>2, <1>3, MakePartKeeps, ZenonT(40)
<1>5. UNCHANGED <<session, outbound, inbound, board>>
  BY DEF MakePart
<1>6. HostReady'
  BY <1>1, <1>2, <1>4 DEF HostReady
<1>7. Noticed'
  BY <1>1, <1>2, <1>4, <1>5 DEF McuInv, Noticed, Waits
<1>8. session' \in SessionStates
  BY <1>5 DEF McuTypes, SessionStates
<1> QED
  BY <1>1, <1>2, <1>4, <1>5, <1>6, <1>7, <1>8, HostMoves

LEMMA WriteEarlyStep ==
  ASSUME McuTypes, McuInv, NEW i \in DOMAIN mcu.parts, WriteEarly(i)
  PROVE  McuTypes' /\ McuInv'
<1>1. PICK m, a : m = mcu /\ a = mcu'
  OBVIOUS
<1>2. m \in Hosts /\ Assembled(m, 0) /\ m.phase \in {"setup", "identified"}
  BY <1>1 DEF McuTypes, McuInv, HostReady, WriteEarly
<1>3. i \in 1 .. Len(m.parts) /\ m.parts[i].kind \in OwnOid
  BY <1>1, <1>2 DEF Hosts, WriteEarly, OwnOid
<1>4. LET set == Cmd("set", m.parts[i].oid)
          w == [m EXCEPT !.writes = @ + 1]
      IN  a = CASE w.parts[i].kind = "queued" -> update_digital_out(w, set)
                [] w.parts[i].kind = "i2c" -> i2c_write(w, set) [] w.parts[i].kind = "spi" -> spi_send(w, set)
  BY <1>1 DEF WriteEarly
<1>5. /\ a \in Hosts /\ Assembled(a, 0)
      /\ a.phase = m.phase /\ a.is_shutdown = m.is_shutdown /\ a.printer = m.printer
  BY <1>2, <1>3, <1>4, WriteEarlyKeeps
<1>6. UNCHANGED <<session, outbound, inbound, board>>
  BY DEF WriteEarly
<1>7. HostReady'
  BY <1>1, <1>2, <1>5 DEF HostReady
<1>8. Noticed'
  BY <1>1, <1>2, <1>5, <1>6 DEF McuInv, Noticed, Waits
<1>9. session' \in SessionStates
  BY <1>6 DEF McuTypes, SessionStates
<1> QED
  BY <1>1, <1>2, <1>5, <1>6, <1>7, <1>8, <1>9, HostMoves

LEMMA PrinterStopsStep ==
  ASSUME McuTypes, McuInv, PrinterStops
  PROVE  McuTypes' /\ McuInv'
<1>1. PICK m, a : m = mcu /\ a = mcu'
  OBVIOUS
<1>2. m \in Hosts /\ a = [m EXCEPT !.printer = "told"]
  BY <1>1 DEF McuTypes, PrinterStops, call_shutdown, Hosts
<1>3. /\ a \in Hosts /\ a.parts = m.parts /\ a.oids = m.oids /\ a.config = m.config /\ a.init = m.init
      /\ a.phase = m.phase /\ a.is_shutdown = m.is_shutdown /\ a.printer = "told"
  BY <1>2 DEF Hosts
<1>4. UNCHANGED <<outbound, inbound, board>>
  BY DEF PrinterStops
<1>5. /\ session' \in SessionStates /\ session'.reason = session.reason /\ session'.tries = session.tries
      /\ session'.cut = session.cut
  BY DEF PrinterStops, McuTypes, SessionStates
<1>6. HostReady'
  <2>1. (Assembled(m, 0) => Assembled(a, 0)) /\ (Complete(m) => Complete(a))
    BY <1>3, SameHost
  <2> QED
    BY <1>1, <1>3, <2>1 DEF McuInv, HostReady
<1>7. Noticed'
  BY <1>1, <1>3 DEF Noticed
<1> QED
  BY <1>1, <1>3, <1>4, <1>5, <1>6, <1>7, HostMoves

\* What a complete configuration gives a part
LEMMA PartsAreObjects ==
  ASSUME NEW m \in Hosts, Complete(m), NEW b \in BoardStates, Whole(b), b.config = m.config
  PROVE  /\ b.config # None
         /\ \A i \in 1 .. Len(m.parts) : m.parts[i].oid \in b.objects
         /\ \A i \in 1 .. Len(m.init) : m.init[i].what = "set" /\ m.init[i].oid \in b.objects
<1>1. b.config # None
  BY DEF Complete, None
<1>2. \A x : Configured(m.config, x) => x \in b.objects
  BY <1>1 DEF Whole
<1> QED
  BY <1>1, <1>2 DEF Complete

LEMMA WriteStep ==
  ASSUME McuTypes, McuInv, NEW i \in DOMAIN mcu.parts, Write(i)
  PROVE  McuTypes' /\ McuInv'
<1>1. PICK m, a, s, t, b : m = mcu /\ a = mcu' /\ s = outbound /\ t = outbound' /\ b = board
  OBVIOUS
<1>2. /\ m \in Hosts /\ m.phase = "ready" /\ Complete(m) /\ a = [m EXCEPT !.writes = @ + 1]
      /\ s \in Seq(Outgoing) /\ b \in BoardStates
      /\ UNCHANGED <<session, inbound, board>>
  BY <1>1 DEF McuTypes, McuInv, HostReady, Write
<1>0. m.writes + 1 \in Nat
  BY <1>2 DEF Hosts
<1>3. /\ a \in Hosts /\ a.parts = m.parts /\ a.oids = m.oids /\ a.config = m.config /\ a.init = m.init
      /\ a.phase = m.phase /\ a.is_shutdown = m.is_shutdown /\ a.printer = m.printer
  BY <1>0, <1>2 DEF Hosts
<1> DEFINE c == Cmd("set", m.parts[i].oid)
<1>4. i \in 1 .. Len(m.parts) /\ m.parts[i] \in McuParts
  BY <1>1, <1>2 DEF Hosts
<1>5. c \in Outgoing /\ c.what = "set" /\ c.oid = m.parts[i].oid /\ t = Append(s, c)
  BY <1>1, <1>4 DEF Write, McuParts, Cmd, Outgoing
<1> HIDE DEF c
<1>6. /\ t \in Seq(Outgoing) /\ Len(s) \in Nat /\ Len(t) = Len(s) + 1 /\ t[Len(s) + 1] = c
      /\ \A j \in 1 .. Len(s) : t[j] = s[j]
      /\ \A j \in 1 .. Len(t) : j \in 1 .. Len(s) \/ j = Len(s) + 1
  BY <1>2, <1>5, AppendFacts
<1>7. McuTypes'
  BY <1>1, <1>2, <1>3, <1>6 DEF McuTypes
<1>8. Complete(a)
  BY <1>2, <1>3, SameHost
<1>9. \A j \in 1 .. Len(t) : t[j].what \in {"set", "emergency_stop"}
  <2>1. \A j \in 1 .. Len(s) : s[j].what \in {"set", "emergency_stop"}
    BY <1>1, <1>2 DEF McuInv, SentInPhase
  <2> QED
    BY <2>1, <1>5, <1>6
<1>10. OneQuestion'
  <2>1. ~AnswerComes' /\ ~Waits'
    BY <1>1, <1>2, <1>3 DEF McuInv, OneQuestion, Waits, AnswerComes
  <2>2. ~Asking'
    BY <1>1, <1>9 DEF Asking
  <2> QED
    BY <2>1, <2>2 DEF OneQuestion, Asking, AnswerComes
<1>11. SentInPhase'
  BY <1>1, <1>2, <1>3, <1>9 DEF SentInPhase
<1>12. HostReady'
  BY <1>1, <1>2, <1>3, <1>8 DEF HostReady
<1>13. NeverFaults'
  <2>1. ASSUME BoardKnows PROVE BoardKnows'
    <3>1. AllFit(b, s) /\ Whole(b) /\ b.config = m.config
      BY <1>1, <1>2, <2>1 DEF BoardKnows
    <3>2. c.oid \in b.objects
      BY <1>2, <1>4, <1>5, <3>1, PartsAreObjects
    <3>3. AllFit(b, t)
      BY <1>2, <1>5, <3>1, <3>2, AppendFits
    <3> QED
      BY <1>1, <1>2, <1>3, <2>1, <3>1, <3>3 DEF BoardKnows, Waits
  <2> QED
    BY <1>2, <2>1 DEF McuInv, NeverFaults, Running
<1>14. Noticed'
  <2>1. ~Waits /\ ~Waits'
    BY <1>1, <1>2, <1>3 DEF Waits
  <2>2. ShutdownComes => ShutdownComes'
    BY <1>2 DEF ShutdownComes
  <2> QED
    BY <1>1, <1>2, <1>3, <2>1, <2>2 DEF McuInv, Noticed
<1>15. OnceInARow'
  BY <1>1, <1>2, <1>3 DEF McuInv, OnceInARow
<1>16. CutStays'
  BY <1>1, <1>2 DEF McuInv, CutStays, CutShort, Running
<1> QED
  BY <1>7, <1>10, <1>11, <1>12, <1>13, <1>14, <1>15, <1>16 DEF McuInv

LEMMA IdentifyStep ==
  ASSUME McuTypes, McuInv, Identify
  PROVE  McuTypes' /\ McuInv'
<1>1. PICK m, a : m = mcu /\ a = mcu'
  OBVIOUS
<1>2. /\ m \in Hosts /\ m.phase = "setup" /\ Assembled(m, 0) /\ a = [m EXCEPT !.phase = "identified"]
      /\ inbound' = <<>> /\ UNCHANGED <<session, outbound, board>> /\ outbound = <<>>
  BY <1>1 DEF McuTypes, McuInv, HostReady, Identify
<1>3. /\ a \in Hosts /\ a.parts = m.parts /\ a.oids = m.oids /\ a.config = m.config /\ a.init = m.init
      /\ a.phase = "identified" /\ a.is_shutdown = m.is_shutdown /\ a.printer = m.printer
  BY <1>2 DEF Hosts, Phases
<1>4. McuTypes'
  BY <1>1, <1>2, <1>3 DEF McuTypes
<1>5. Assembled(a, 0)
  BY <1>2, <1>3, SameHost
<1>6. OneQuestion' /\ SentInPhase'
  BY <1>1, <1>2, <1>3 DEF OneQuestion, SentInPhase, Asking, AnswerComes
<1>7. HostReady'
  BY <1>1, <1>3, <1>5 DEF HostReady
<1>8. NeverFaults'
  <2>1. ASSUME BoardKnows PROVE BoardKnows'
    <3>1. AllFit(board, outbound)' /\ Whole(board)' /\ Settled(board)'
      BY <1>1, <1>2, <2>1 DEF BoardKnows
    <3>2. Counted(board)' /\ CrcFits(board)'
      BY <1>1, <1>2, <2>1 DEF BoardKnows
    <3> QED
      BY <1>1, <1>3, <3>1, <3>2 DEF BoardKnows, Waits
  <2> QED
    BY <1>2, <2>1 DEF McuInv, NeverFaults, Running
<1>9. Noticed' /\ OnceInARow'
  BY <1>1, <1>2, <1>3 DEF McuInv, Noticed, OnceInARow, Waits
<1>10. CutStays'
  <2>1. CutShort => CutShort'
    BY <1>1, <1>2, <1>3 DEF CutShort
  <2> QED
    BY <1>2, <2>1 DEF McuInv, CutStays, Running
<1> QED
  BY <1>4, <1>6, <1>7, <1>8, <1>9, <1>10 DEF McuInv

\* With no question under way there are only stops.
LEMMA NothingAsked ==
  ASSUME McuTypes, McuInv, Waits, ~Asking
  PROVE  StopsOnly(outbound)
<1> SUFFICES ASSUME NEW i \in 1 .. Len(outbound) PROVE outbound[i].what = "emergency_stop"
  BY DEF StopsOnly
<1>1. \A j \in 1 .. Len(outbound) : outbound[j].what # "get_config"
  BY DEF Asking
<1>2. CASE mcu.phase = "asked"
  BY <1>1, <1>2 DEF McuInv, SentInPhase
<1>3. CASE mcu.phase = "asked again"
  <2>1. outbound[i].what \in {"get_config", "emergency_stop"} \/ \E j \in i + 1 .. Len(outbound) : outbound[j].what = "get_config"
    BY <1>3 DEF McuInv, SentInPhase
  <2>2. \A j \in i + 1 .. Len(outbound) : j \in 1 .. Len(outbound)
    BY DEF McuTypes
  <2> QED
    BY <1>1, <2>1, <2>2
<1> QED
  BY <1>2, <1>3 DEF Waits

\* The host asks, for the first time or again.
LEMMA AsksStep ==
  ASSUME McuTypes, McuInv, NEW phase, Ask(mcu, phase), UNCHANGED <<session, inbound, board>>,
         StopsOnly(outbound), ~AnswerComes,
         (mcu.phase = "identified" /\ phase = "asked") \/ (Waits /\ phase = mcu.phase)
  PROVE  McuTypes' /\ McuInv'
<1>1. PICK m, a, s, t, b : m = mcu /\ a = mcu' /\ s = outbound /\ t = outbound' /\ b = board
  OBVIOUS
<1>2. /\ m \in Hosts /\ a = [m EXCEPT !.phase = phase] /\ phase \in {"asked", "asked again"}
      /\ m.phase = "identified" => phase = "asked"
      /\ m.phase \in {"identified", "asked", "asked again"} /\ (m.phase # "identified" => m.phase = phase)
      /\ s \in Seq(Outgoing) /\ b \in BoardStates /\ t = Append(s, Question)
      /\ UNCHANGED <<session, inbound, board>>
  BY <1>1 DEF McuTypes, Ask, Question, Waits
<1>3. /\ a \in Hosts /\ a.parts = m.parts /\ a.oids = m.oids /\ a.config = m.config /\ a.init = m.init
      /\ a.phase = phase /\ a.is_shutdown = m.is_shutdown /\ a.printer = m.printer
  BY <1>2 DEF Hosts, Phases
<1>4. Question \in Outgoing /\ Question.what = "get_config"
  BY QuestionFacts
<1>5. /\ t \in Seq(Outgoing) /\ Len(s) \in Nat /\ Len(t) = Len(s) + 1 /\ t[Len(s) + 1] = Question
      /\ Len(s) + 1 \in 1 .. Len(t)
      /\ \A j \in 1 .. Len(s) : t[j] = s[j]
      /\ \A j \in 1 .. Len(t) : j \in 1 .. Len(s) \/ j = Len(s) + 1
  <2>1. s \in Seq(Outgoing) /\ t = Append(s, Question)
    BY <1>2
  <2> QED
    BY <2>1, <1>4, AppendFacts
<1>6. McuTypes'
  BY <1>1, <1>2, <1>3, <1>5 DEF McuTypes
<1>7. \A j \in 1 .. Len(s) : s[j].what = "emergency_stop"
  BY <1>1 DEF StopsOnly
<1>8. ~AnswerComes'
  BY <1>2 DEF AnswerComes
<1>9. \A j \in 1 .. Len(t) : t[j].what \in {"get_config", "emergency_stop"}
  BY <1>4, <1>5, <1>7
<1>10. OneQuestion'
  <2>1. \A i, j \in 1 .. Len(t) : t[i].what = "get_config" /\ t[j].what = "get_config" => i = j
    BY <1>5, <1>7
  <2>2. Waits'
    BY <1>1, <1>2, <1>3 DEF Waits
  <2> QED
    BY <1>1, <1>8, <2>1, <2>2 DEF OneQuestion, AnswerComes
<1>11. SentInPhase'
  BY <1>1, <1>2, <1>3, <1>9 DEF SentInPhase
<1>12. HostReady'
  <2>1. (Assembled(m, 0) => Assembled(a, 0)) /\ (Complete(m) => Complete(a))
    BY <1>3, SameHost
  <2> QED
    BY <1>1, <1>2, <1>3, <2>1 DEF McuInv, HostReady
<1>13. NeverFaults'
  <2>1. ASSUME BoardKnows PROVE BoardKnows'
    <3>1. AllFit(b, s) /\ Whole(b) /\ Counted(b) /\ CrcFits(b)
      BY <1>1, <2>1 DEF BoardKnows
    <3>2. AllFit(b, t)
      BY <1>2, <1>4, <3>1, AppendFits
    <3>3. phase = "asked" => Settled(b)
      BY <1>1, <1>2, <2>1 DEF BoardKnows
    <3>4. phase = "asked again" => b.config = a.config
      <4>1. ~FinalizeComes
        BY <1>1, <1>7 DEF FinalizeComes
      <4> QED
        BY <1>1, <1>2, <1>3, <2>1, <4>1 DEF BoardKnows
    <3> QED
      BY <1>1, <1>2, <1>3, <1>8, <3>1, <3>2, <3>3, <3>4 DEF BoardKnows, AnswerComes
  <2> QED
    BY <1>2, <2>1 DEF McuInv, NeverFaults, Running
<1>14. Asking'
  BY <1>1, <1>4, <1>5 DEF Asking
<1>15. Noticed' /\ OnceInARow'
  BY <1>1, <1>2, <1>3, <1>14 DEF McuInv, Noticed, OnceInARow, Waits
<1>16. CutStays'
  <2>1. ~Asking
    BY <1>1, <1>7 DEF Asking
  <2>2. ASSUME CutShort PROVE CutShort'
    <3>1. m.phase # "asked again"
      BY <1>1, <2>1, <2>2 DEF CutShort
    <3>2. mcu'.phase = "asked"
      BY <1>1, <1>2, <1>3, <3>1
    <3>3. board' = board /\ inbound' = inbound
      BY <1>2
    <3> QED
      BY <2>2, <3>2, <3>3 DEF CutShort
  <2> QED
    BY <1>2, <2>2 DEF McuInv, CutStays, Running
<1> QED
  BY <1>6, <1>10, <1>11, <1>12, <1>13, <1>15, <1>16 DEF McuInv

LEMMA ConnectStep ==
  ASSUME McuTypes, McuInv, Connect
  PROVE  McuTypes' /\ McuInv'
<1>1. mcu.phase = "identified" /\ Ask(mcu, "asked") /\ UNCHANGED <<session, inbound, board>>
  BY DEF Connect
<1>2. ~AnswerComes
  BY <1>1 DEF McuInv, OneQuestion, Waits
<1>3. StopsOnly(outbound)
  BY <1>1, ZenonT(40) DEF McuInv, SentInPhase, StopsOnly
<1> QED
  BY <1>1, <1>2, <1>3, AsksStep

LEMMA UnansweredFacts ==
  ASSUME McuTypes, McuInv, Unanswered
  PROVE  Waits /\ ~Asking /\ ~AnswerComes /\ StopsOnly(outbound)
<1>1. outbound \in Seq(Outgoing) /\ inbound \in Seq(Incoming)
  BY DEF McuTypes
<1>2. Waits /\ ~Asking /\ ~AnswerComes
  <2>1. DOMAIN outbound = 1 .. Len(outbound) /\ DOMAIN inbound = 1 .. Len(inbound)
    BY <1>1
  <2>2. Waits
    BY DEF Unanswered, Waits
  <2>3. ~Asking
    BY <2>1 DEF Unanswered, Asking
  <2>4. ~AnswerComes
    BY <2>1 DEF Unanswered, AnswerComes
  <2> QED
    BY <2>2, <2>3, <2>4
<1> QED
  BY <1>2, NothingAsked

LEMMA AskAgainStep ==
  ASSUME McuTypes, McuInv, AskAgain
  PROVE  McuTypes' /\ McuInv'
<1>1. Unanswered /\ Ask(mcu, mcu.phase) /\ UNCHANGED <<session, inbound, board>>
  BY DEF AskAgain
<1> QED
  BY <1>1, UnansweredFacts, AsksStep

LEMMA EmergencyStopStep ==
  ASSUME McuTypes, McuInv, EmergencyStop
  PROVE  McuTypes' /\ McuInv'
<1>1. PICK m, a, s, t, b : m = mcu /\ a = mcu' /\ s = outbound /\ t = outbound' /\ b = board
  OBVIOUS
<1> DEFINE c == Cmd("emergency_stop", 0)
<1>2. /\ m \in Hosts /\ a = [m EXCEPT !.printer = "down"] /\ s \in Seq(Outgoing) /\ b \in BoardStates
      /\ t = s \/ (m.phase # "setup" /\ t = Append(s, c))
      /\ UNCHANGED <<session, inbound, board>>
  BY <1>1 DEF McuTypes, EmergencyStop
<1>3. /\ a \in Hosts /\ a.parts = m.parts /\ a.oids = m.oids /\ a.config = m.config /\ a.init = m.init
      /\ a.phase = m.phase /\ a.is_shutdown = m.is_shutdown /\ a.printer = "down"
  BY <1>2 DEF Hosts
<1>4. c \in Outgoing /\ c.what = "emergency_stop"
  BY DEF Cmd, Outgoing
<1> HIDE DEF c
<1>5. HostReady' /\ Noticed' /\ OnceInARow'
  <2>1. (Assembled(m, 0) => Assembled(a, 0)) /\ (Complete(m) => Complete(a))
    BY <1>3, SameHost
  <2> QED
    BY <1>1, <1>2, <1>3, <2>1 DEF McuInv, HostReady, Noticed, OnceInARow
<1>6. CASE t = s
  <2>1. session' \in SessionStates
    BY <1>2 DEF McuTypes, SessionStates
  <2> QED
    BY <1>1, <1>2, <1>3, <1>5, <1>6, <2>1, HostMoves
<1>7. CASE m.phase # "setup" /\ t = Append(s, c)
  <2>1. /\ t \in Seq(Outgoing) /\ Len(s) \in Nat /\ Len(t) = Len(s) + 1 /\ t[Len(s) + 1] = c
        /\ \A j \in 1 .. Len(s) : t[j] = s[j] /\ j \in 1 .. Len(t)
        /\ \A j \in 1 .. Len(t) : j \in 1 .. Len(s) \/ j = Len(s) + 1
    BY <1>2, <1>4, <1>7, AppendFacts
  <2>2. McuTypes'
    BY <1>1, <1>2, <1>3, <2>1 DEF McuTypes
  <2>3. \A j \in 1 .. Len(t) : t[j].what = "emergency_stop" \/ (j \in 1 .. Len(s) /\ t[j] = s[j])
    BY <1>4, <2>1
  <2>4. OneQuestion'
    <3>1. \A i, j \in 1 .. Len(t) : t[i].what = "get_config" /\ t[j].what = "get_config" => i = j
      BY <1>1, <2>3 DEF McuInv, OneQuestion
    <3>2. Asking' => Asking
      BY <1>1, <2>3 DEF Asking
    <3> QED
      BY <1>1, <1>2, <1>3, <3>1, <3>2 DEF McuInv, OneQuestion, AnswerComes, Waits
  <2>5. SentInPhase'
    <3>1. ASSUME mcu.phase \in {"identified", "failed", "restart"}, NEW i \in 1 .. Len(t)
          PROVE  t[i].what = "emergency_stop"
      <4>1. \A j \in 1 .. Len(s) : s[j].what = "emergency_stop"
        BY <1>1, <3>1 DEF McuInv, SentInPhase
      <4> QED
        BY <2>3, <4>1
    <3>2. ASSUME mcu.phase = "asked", NEW i \in 1 .. Len(t)
          PROVE  t[i].what \in {"get_config", "emergency_stop"}
      <4>1. \A j \in 1 .. Len(s) : s[j].what \in {"get_config", "emergency_stop"}
        BY <1>1, <3>2 DEF McuInv, SentInPhase
      <4> QED
        BY <2>3, <4>1
    <3>3. ASSUME mcu.phase = "ready", NEW i \in 1 .. Len(t)
          PROVE  t[i].what \in {"set", "emergency_stop"}
      <4>1. \A j \in 1 .. Len(s) : s[j].what \in {"set", "emergency_stop"}
        BY <1>1, <3>3 DEF McuInv, SentInPhase
      <4> QED
        BY <2>3, <4>1
    <3>4. ASSUME mcu.phase = "asked again", NEW i \in 1 .. Len(t)
          PROVE  /\ t[i].what = "finalize" => t[i].oid = mcu.config
                 /\ t[i].what \in {"get_config", "emergency_stop"} \/ \E j \in i + 1 .. Len(t) : t[j].what = "get_config"
      <4>1. CASE t[i].what = "emergency_stop"
        BY <4>1
      <4>2. CASE i \in 1 .. Len(s) /\ t[i] = s[i]
        <5>1. /\ s[i].what = "finalize" => s[i].oid = mcu.config
              /\ s[i].what \in {"get_config", "emergency_stop"} \/ \E j \in i + 1 .. Len(s) : s[j].what = "get_config"
          BY <1>1, <3>4, <4>2 DEF McuInv, SentInPhase
        <5>2. \A j \in i + 1 .. Len(s) : j \in i + 1 .. Len(t) /\ t[j] = s[j]
          BY <2>1, <4>2
        <5> QED
          BY <4>2, <5>1, <5>2
      <4> QED
        BY <2>3, <4>1, <4>2
    <3> QED
      <4>1. mcu'.phase = mcu.phase /\ mcu'.config = mcu.config /\ mcu.phase # "setup" /\ outbound' = t
        BY <1>1, <1>3, <1>7
      <4> QED
        BY <4>1, <3>1, <3>2, <3>3, <3>4 DEF SentInPhase
  <2>6. NeverFaults'
    <3>1. ASSUME BoardKnows PROVE BoardKnows'
      <4>1. AllFit(b, s) /\ Whole(b)
        BY <1>1, <3>1 DEF BoardKnows
      <4>2. AllFit(b, t)
        BY <1>2, <1>4, <1>7, <4>1, AppendFits
      <4>3. FinalizeComes => FinalizeComes'
        BY <1>1, <2>1 DEF FinalizeComes
      <4> QED
        BY <1>1, <1>2, <1>3, <3>1, <4>1, <4>2, <4>3 DEF BoardKnows, Waits
    <3> QED
      BY <1>2, <3>1 DEF McuInv, NeverFaults, Running
  <2>7. CutStays'
    <3>1. ASSUME CutShort PROVE CutShort'
      <4>1. ASSUME m.phase = "asked again" PROVE Asking' /\ t[1].what \in {"allocate", "emergency_stop"}
        <5>1. Asking /\ s[1].what \in {"allocate", "emergency_stop"}
          BY <1>1, <3>1, <4>1 DEF CutShort
        <5>2. PICK i \in 1 .. Len(s) : s[i].what = "get_config"
          BY <1>1, <5>1 DEF Asking
        <5>3. t[i].what = "get_config" /\ i \in 1 .. Len(t) /\ 1 \in 1 .. Len(s)
          BY <2>1, <5>2
        <5> QED
          BY <1>1, <2>1, <5>1, <5>3 DEF Asking
      <4> QED
        BY <1>1, <1>2, <1>3, <3>1, <4>1 DEF CutShort
    <3> QED
      BY <1>2, <3>1 DEF McuInv, CutStays, Running
  <2> QED
    BY <1>5, <2>2, <2>4, <2>5, <2>6, <2>7 DEF McuInv
<1> QED
  BY <1>2, <1>6, <1>7

\* The host starts again.
LEMMA NewHost ==
  ASSUME NEW method \in Methods
  PROVE  /\ NewMcu(method) \in Hosts /\ Assembled(NewMcu(method), 0)
         /\ NewMcu(method).phase = "setup" /\ ~NewMcu(method).is_shutdown /\ NewMcu(method).printer = "up"
<1>1. /\ NewMcu(method).parts = <<>> /\ NewMcu(method).config = <<>> /\ NewMcu(method).init = <<>> /\ NewMcu(method).oids = 0
      /\ NewMcu(method).phase = "setup" /\ ~NewMcu(method).is_shutdown /\ NewMcu(method).printer = "up"
  BY DEF NewMcu
<1>2. NewMcu(method) \in Hosts
  BY DEF NewMcu, Hosts, Phases
<1>3. Len(NewMcu(method).parts) = 0 /\ Len(NewMcu(method).config) = 0 /\ Len(NewMcu(method).init) = 0
  BY <1>1
<1>4. \A i \in 1 .. 0 : FALSE
  OBVIOUS
<1>5. Assembled(NewMcu(method), 0)
  BY <1>3, <1>4 DEF Assembled, OidsDiffer, ConfigIsGood, Once, SetAfter
<1> QED
  BY <1>1, <1>2, <1>5

IsBlank(b) ==
  b.oids = -1 /\ b.objects = {} /\ b.config = None /\ b.crc = None /\ ~b.error /\ ~b.shutdown

LEMMA BlankFacts ==
  ASSUME NEW n \in Nat, NEW b, b = [Blank EXCEPT !.resets = n]
  PROVE  b \in BoardStates /\ IsBlank(b) /\ b.resets = n
<1>1. PICK o, k, e : o = {} /\ k = -1 /\ e = <<>>
  OBVIOUS
<1>2. o \in SUBSET Int /\ k \in Int /\ e \in Seq(Orders) /\ e \in Checksums /\ FALSE \in BOOLEAN
  BY <1>1 DEF Checksums
<1>3. b = [config |-> e, crc |-> e, oids |-> k, objects |-> o, shutdown |-> FALSE, resets |-> n, error |-> FALSE]
  BY <1>1 DEF Blank, None
<1>6. n \in Nat
  OBVIOUS
<1>4. b \in BoardStates
  <2>1. [config |-> e, crc |-> e, oids |-> k, objects |-> o, shutdown |-> FALSE, resets |-> n, error |-> FALSE]
          \in [config : Seq(Orders), crc : Checksums, oids : Int, objects : SUBSET Int, shutdown : BOOLEAN, resets : Nat,
              error : BOOLEAN]
    BY <1>2, <1>6
  <2> QED
    BY <1>3, <2>1 DEF BoardStates
<1>5. IsBlank(b) /\ b.resets = n
  BY <1>1, <1>3 DEF IsBlank, None
<1> QED
  BY <1>4, <1>5

LEMMA StartHostStep ==
  ASSUME McuTypes, McuInv, NEW reason \in {"restart", "restart_mcu"}, NEW cut \in BOOLEAN, StartHost(reason, cut),
         reason = "restart_mcu" => mcu.phase = "restart",
         board' \in BoardStates, board'.resets = board.resets,
         (board' = board /\ cut = (session.cut \/ Partly(board))) \/ (IsBlank(board') /\ ~cut)
  PROVE  McuTypes' /\ McuInv'
<1>1. PICK a, b, d : a = mcu' /\ b = board /\ d = board'
  OBVIOUS
<1>2. a \in Hosts /\ Assembled(a, 0) /\ a.phase = "setup" /\ ~a.is_shutdown /\ a.printer = "up"
  <2>1. PICK method : method = mcu.method
    OBVIOUS
  <2>2. method \in Methods /\ a = NewMcu(method)
    BY <1>1, <2>1 DEF McuTypes, Hosts, StartHost
  <2> QED
    BY <2>2, NewHost
<1>3. outbound' = <<>> /\ inbound' = <<>> /\ Len(<<>>) = 0
  BY DEF StartHost
<1>4. /\ session' \in SessionStates /\ session'.reason = reason /\ session'.cut = cut
      /\ session'.tries = IF reason = "restart_mcu" THEN session.tries + 1 ELSE 0
  <2>1. PICK z, y, k, l : z = session /\ y = session' /\ k = session.count + 1 /\ l = IF reason = "restart_mcu" THEN session.tries + 1 ELSE 0
    OBVIOUS
  <2>2. z \in SessionStates /\ k \in Nat /\ l \in Nat /\ reason \in Reasons
    BY <2>1 DEF McuTypes, SessionStates, Reasons
  <2>3. y = [z EXCEPT !.count = k, !.reason = reason, !.missed = FALSE, !.cut = cut, !.tries = l]
    BY <2>1, <2>2 DEF StartHost, SessionStates
  <2>4. y \in SessionStates
    BY <2>2, <2>3 DEF SessionStates
  <2>5. y.reason = reason /\ y.cut = cut /\ y.tries = l
    BY <2>2, <2>3 DEF SessionStates
  <2> QED
    BY <2>1, <2>4, <2>5
<1>5. McuTypes'
  BY <1>1, <1>2, <1>3, <1>4 DEF McuTypes, SessionStates
<1>6. OneQuestion' /\ SentInPhase' /\ HostReady' /\ Noticed'
  BY <1>1, <1>2, <1>3 DEF OneQuestion, SentInPhase, HostReady, Noticed, Asking, AnswerComes, Waits
<1>7. OnceInARow'
  BY <1>1, <1>2, <1>4 DEF McuInv, OnceInARow
<1>8. NeverFaults'
  <2>1. AllFit(d, <<>>)
    BY <1>3 DEF AllFit
  <2>2. CASE d = b /\ cut = (session.cut \/ Partly(b))
    <3>1. ASSUME ~cut, BoardKnows PROVE Whole(d) /\ Settled(d) /\ Counted(d) /\ CrcFits(d)
      BY <1>1, <2>2, <3>1 DEF BoardKnows, Partly, Settled
    <3>2. ~cut /\ BoardKnows => BoardKnows'
      BY <1>1, <1>2, <1>3, <2>1, <3>1 DEF BoardKnows, Waits
    <3> QED
      BY <1>1, <1>4, <2>2, <3>2 DEF McuInv, NeverFaults, Running
  <2>3. CASE IsBlank(d)
    <3>1. Whole(d) /\ Settled(d) /\ Counted(d) /\ CrcFits(d)
      BY <2>3 DEF Whole, Settled, Counted, CrcFits, IsBlank
    <3>2. BoardKnows'
      BY <1>1, <1>2, <1>3, <2>1, <3>1 DEF BoardKnows, Waits
    <3> QED
      BY <1>1, <2>3, <3>2 DEF NeverFaults, IsBlank
  <2> QED
    BY <1>1, <2>2, <2>3
<1>9. CutStays'
  <2> SUFFICES ASSUME Running', cut PROVE CutShort'
    BY <1>4 DEF CutStays
  <2>1. d = b /\ (session.cut \/ Partly(b)) /\ Running
    BY <1>1 DEF Running
  <2>2. b.config = None /\ b.crc = None /\ b.oids \in Nat
    <3>1. CASE session.cut
      BY <1>1, <2>1, <3>1 DEF McuInv, CutStays, CutShort
    <3>2. CASE ~session.cut /\ Partly(b)
      <4>1. Counted(b) /\ CrcFits(b)
        BY <1>1, <2>1, <3>2 DEF McuInv, NeverFaults, BoardKnows
      <4> QED
        BY <3>2, <4>1 DEF Partly, Counted, CrcFits
    <3> QED
      BY <2>1, <3>1, <3>2
  <2> QED
    BY <1>1, <1>2, <1>3, <2>1, <2>2 DEF CutShort
<1> QED
  BY <1>5, <1>6, <1>7, <1>8, <1>9 DEF McuInv

LEMMA RestartSteps ==
  ASSUME McuTypes, McuInv, Restart \/ RestartMcu
  PROVE  McuTypes' /\ McuInv'
<1>1. board \in BoardStates /\ board.resets \in Nat /\ session.cut \in BOOLEAN
  BY DEF McuTypes, BoardStates
<1>2. PICK cut : cut = (session.cut \/ Partly(board))
  OBVIOUS
<1>3. cut \in BOOLEAN /\ FALSE \in BOOLEAN
  BY <1>1, <1>2
<1>4. CASE Restart
  <2>1. StartHost("restart", cut) /\ board' = board
    BY <1>2, <1>4 DEF Restart
  <2> QED
    BY <1>1, <1>2, <1>3, <2>1, StartHostStep
<1>5. CASE RestartMcu
  <2>1. mcu.phase = "restart"
    BY <1>5 DEF RestartMcu
  <2>2. CASE StartHost("restart_mcu", cut) /\ board' = board
    BY <1>1, <1>2, <1>3, <2>1, <2>2, StartHostStep
  <2>3. CASE StartHost("restart_mcu", FALSE) /\ board' = [Blank EXCEPT !.resets = board.resets]
    <3>1. board' \in BoardStates /\ IsBlank(board') /\ board'.resets = board.resets
      BY <1>1, <2>3, BlankFacts
    <3> QED
      BY <1>3, <2>1, <2>3, <3>1, StartHostStep
  <2> QED
    BY <1>2, <1>5, <2>2, <2>3 DEF RestartMcu
<1> QED
  BY <1>4, <1>5

-----------------------------------------------------------------------------
(* The answer of the board                                                 *)

\* The messages that are left, when the first is taken
LEMMA TailsOf ==
  ASSUME NEW S, NEW s \in Seq(S), s # <<>>, NEW t, t = Tail(s)
  PROVE  /\ t \in Seq(S) /\ Len(s) \in Nat /\ Len(t) = Len(s) - 1 /\ 1 \in 1 .. Len(s) /\ s[1] \in S /\ Head(s) = s[1]
         /\ \A i \in 1 .. Len(t) : i + 1 \in 1 .. Len(s) /\ t[i] = s[i + 1]
         /\ \A i \in 1 .. Len(s) : i = 1 \/ (i - 1 \in 1 .. Len(t) /\ t[i - 1] = s[i])
<1>1. /\ Len(s) \in Nat /\ Len(s) > 0 /\ Head(s) = s[1] /\ s[1] \in S
      /\ t \in Seq(S) /\ Len(t) = Len(s) - 1
      /\ \A i \in 1 .. Len(s) - 1 : t[i] = s[i + 1]
  BY TailFacts
<1>2. ASSUME NEW i \in 1 .. Len(s), i # 1 PROVE i - 1 \in 1 .. Len(t) /\ t[i - 1] = s[i]
  <2>1. i - 1 \in 1 .. Len(s) - 1 /\ (i - 1) + 1 = i
    BY <1>1, <1>2
  <2> QED
    BY <1>1, <2>1
<1>3. \A i \in 1 .. Len(t) : i + 1 \in 1 .. Len(s)
  BY <1>1
<1> QED
  BY <1>1, <1>2, <1>3

\* A message that is lost, or that is not for the host's state: a shutdown, a start
LEMMA NewsStep ==
  ASSUME McuTypes, McuInv, inbound # <<>>, inbound' = Tail(inbound), outbound' = outbound, board' = board,
         session' \in SessionStates, session'.reason = session.reason, session'.tries = session.tries, session'.cut = session.cut,
         mcu' \in Hosts, mcu'.phase = mcu.phase, mcu'.config = mcu.config, mcu'.parts = mcu.parts, mcu'.oids = mcu.oids,
         mcu'.init = mcu.init, Noticed'
  PROVE  McuTypes' /\ McuInv'
<1>1. PICK m, a, u, v : m = mcu /\ a = mcu' /\ u = inbound /\ v = inbound'
  OBVIOUS
<1>2. u \in Seq(Incoming) /\ u # <<>> /\ v = Tail(u)
  BY <1>1 DEF McuTypes
<1>3. /\ v \in Seq(Incoming) /\ Len(u) \in Nat /\ Len(v) = Len(u) - 1 /\ 1 \in 1 .. Len(u) /\ Head(u) = u[1]
      /\ \A i \in 1 .. Len(v) : i + 1 \in 1 .. Len(u) /\ v[i] = u[i + 1]
      /\ \A i \in 1 .. Len(u) : i = 1 \/ (i - 1 \in 1 .. Len(v) /\ v[i - 1] = u[i])
  BY <1>2, TailsOf
<1>4. McuTypes'
  BY <1>1, <1>3 DEF McuTypes, SessionStates
<1>5. AnswerComes' => AnswerComes
  BY <1>1, <1>3 DEF AnswerComes
<1>6. OneQuestion'
  <2>1. \A i, j \in 1 .. Len(v) : v[i].what = "config" /\ v[j].what = "config" => i = j
    <3>1. \A i, j \in 1 .. Len(u) : u[i].what = "config" /\ u[j].what = "config" => i = j
      BY <1>1 DEF McuInv, OneQuestion
    <3> SUFFICES ASSUME NEW i \in 1 .. Len(v), NEW j \in 1 .. Len(v), v[i].what = "config", v[j].what = "config" PROVE i = j
      OBVIOUS
    <3>2. i + 1 = j + 1
      BY <1>3, <3>1
    <3> QED
      BY <1>3, <3>2
  <2> QED
    BY <1>1, <1>5, <2>1 DEF McuInv, OneQuestion, Asking, Waits
<1>7. SentInPhase'
  BY ZenonT(40) DEF McuInv, SentInPhase
<1>8. HostReady'
  <2>1. (Assembled(m, 0) => Assembled(a, 0)) /\ (Complete(m) => Complete(a))
    BY <1>1, SameHost
  <2> QED
    BY <1>1, <2>1 DEF McuInv, HostReady
<1>9. NeverFaults'
  <2>1. ASSUME BoardKnows PROVE BoardKnows'
    <3>1. AllFit(board, outbound)' /\ Whole(board)' /\ (mcu'.phase # "asked again" => Settled(board)')
      BY <2>1 DEF BoardKnows
    <3>2. Waits' => \A i \in 1 .. Len(v) : v[i].what = "config" => v[i].config = board.crc
      <4> SUFFICES ASSUME Waits, NEW i \in 1 .. Len(v), v[i].what = "config" PROVE v[i].config = board.crc
        BY DEF Waits
      <4>1. i + 1 \in 1 .. Len(u) /\ u[i + 1].what = "config" /\ v[i] = u[i + 1]
        BY <1>3
      <4>2. \A j \in 1 .. Len(u) : u[j].what = "config" => u[j].config = board.crc
        BY <1>1, <2>1 DEF BoardKnows
      <4> QED
        BY <4>1, <4>2
    <3>3. Counted(board)' /\ CrcFits(board)'
      BY <2>1 DEF BoardKnows
    <3> QED
      BY <1>1, <2>1, <3>1, <3>2, <3>3 DEF BoardKnows, FinalizeComes
  <2> QED
    BY <2>1 DEF McuInv, NeverFaults, Running
<1>10. OnceInARow'
  BY DEF McuInv, OnceInARow
<1>11. CutStays'
  <2>1. ASSUME CutShort PROVE CutShort'
    <3>1. \A i \in 1 .. Len(u) : u[i].what = "config" => u[i].config = None
      BY <1>1, <2>1 DEF CutShort
    <3>2. \A i \in 1 .. Len(v) : v[i].what = "config" => v[i].config = None
      BY <1>3, <3>1
    <3>3. Asking => Asking'
      BY DEF Asking
    <3> QED
      BY <1>1, <2>1, <3>2, <3>3 DEF CutShort
  <2> QED
    BY <2>1 DEF McuInv, CutStays, Running
<1> QED
  BY <1>4, <1>6, <1>7, <1>8, <1>9, <1>10, <1>11 DEF McuInv

LEMMA StartingStep ==
  ASSUME McuTypes, McuInv, inbound # <<>>, inbound' = Tail(inbound), Head(inbound).what = "starting",
         UNCHANGED <<mcu, session, outbound, board>>
  PROVE  McuTypes' /\ McuInv'
<1>1. PICK u, v : u = inbound /\ v = inbound'
  OBVIOUS
<1>2. u \in Seq(Incoming) /\ u # <<>> /\ v = Tail(u)
  BY <1>1 DEF McuTypes
<1>3. /\ Head(u) = u[1]
      /\ \A i \in 1 .. Len(u) : i = 1 \/ (i - 1 \in 1 .. Len(v) /\ v[i - 1] = u[i])
  BY <1>2, TailsOf
<1>4. u[1].what = "starting"
  BY <1>1, <1>3
<1>5. ShutdownComes => ShutdownComes'
  BY <1>1, <1>3, <1>4 DEF ShutdownComes
<1>6. Noticed'
  BY <1>5 DEF McuInv, Noticed, Waits, Asking
<1>7. session' \in SessionStates /\ mcu' \in Hosts
  BY DEF McuTypes, SessionStates
<1> QED
  BY <1>6, <1>7, NewsStep

LEMMA ReportLostStep ==
  ASSUME McuTypes, McuInv, ReportLost
  PROVE  McuTypes' /\ McuInv'
<1>1. /\ inbound # <<>> /\ inbound' = Tail(inbound) /\ UNCHANGED <<mcu, outbound, board>>
      /\ session' = [session EXCEPT !.faults = @ + 1,
                                   !.missed = @ \/ (Reported(inbound) /\ ~Reported(inbound'))]
  BY DEF ReportLost
<1>2. inbound \in Seq(Incoming) /\ inbound' \in Seq(Incoming)
  BY <1>1, TailsOf DEF McuTypes
<1>3. (ShutdownComes <=> Reported(inbound)) /\ (ShutdownComes' <=> Reported(inbound'))
  <2>1. DOMAIN inbound = 1 .. Len(inbound) /\ DOMAIN inbound' = 1 .. Len(inbound')
    BY <1>2
  <2> QED
    BY <2>1 DEF ShutdownComes, Reported
<1>4. PICK z, y, n, e : /\ z = session /\ y = session' /\ n = session.faults + 1
                       /\ e = (session.missed \/ (Reported(inbound) /\ ~Reported(inbound')))
  OBVIOUS
<1>5. z \in SessionStates /\ n \in Nat /\ e \in BOOLEAN /\ y = [z EXCEPT !.faults = n, !.missed = e]
  <2>1. z \in SessionStates /\ session.missed \in BOOLEAN
    BY <1>4 DEF McuTypes, SessionStates
  <2>2. n \in Nat
    BY <1>4, <2>1 DEF SessionStates
  <2>3. e \in BOOLEAN
    BY <1>4, <2>1
  <2>4. y = [z EXCEPT !.faults = n, !.missed = e]
    BY <1>1, <1>4
  <2> QED
    BY <2>1, <2>2, <2>3, <2>4
<1>6. y \in SessionStates /\ y.reason = z.reason /\ y.tries = z.tries /\ y.cut = z.cut /\ y.missed = e
  BY <1>5 DEF SessionStates
<1>7. Noticed'
  <2>1. session.missed => session'.missed
    BY <1>4, <1>6
  <2>2. ShutdownComes /\ ~ShutdownComes' => session'.missed
    BY <1>3, <1>4, <1>6
  <2>3. (Waits <=> Waits') /\ (Asking <=> Asking')
    BY <1>1 DEF Waits, Asking
  <2> QED
    BY <1>1, <2>1, <2>2, <2>3 DEF McuInv, Noticed
<1>8. mcu' \in Hosts
  BY <1>1 DEF McuTypes
<1> QED
  BY <1>1, <1>4, <1>6, <1>7, <1>8, NewsStep

\* What the host knows when the answer is there: nothing else is under way but stops.
LEMMA AnswerIsHere ==
  ASSUME McuTypes, McuInv, inbound # <<>>, Head(inbound).what = "config"
  PROVE  /\ Waits /\ StopsOnly(outbound) /\ ~Asking
         /\ \A i \in 1 .. Len(Tail(inbound)) : Tail(inbound)[i].what # "config"
         /\ Tail(inbound) \in Seq(Incoming) /\ Head(inbound).config \in Checksums /\ Head(inbound).is_shutdown \in BOOLEAN
         /\ Running /\ ~session.cut =>
              /\ Whole(board) /\ Counted(board) /\ CrcFits(board) /\ Head(inbound).config = board.crc
              /\ mcu.phase = "asked" => Settled(board)
              /\ mcu.phase = "asked again" => board.config = mcu.config
         /\ Running /\ session.cut => CutShort /\ mcu.phase = "asked" /\ Head(inbound).config = None
         /\ board.shutdown /\ mcu.printer = "up" =>
              session.missed \/ \E i \in 1 .. Len(Tail(inbound)) : Tail(inbound)[i].what \in {"shutdown", "is_shutdown"}
<1>1. PICK u, v : u = inbound /\ v = Tail(inbound)
  OBVIOUS
<1>2. u \in Seq(Incoming) /\ u # <<>> /\ v = Tail(u)
  BY <1>1 DEF McuTypes
<1>3. /\ v \in Seq(Incoming) /\ Len(u) \in Nat /\ Len(v) = Len(u) - 1 /\ 1 \in 1 .. Len(u) /\ u[1] \in Incoming /\ Head(u) = u[1]
      /\ \A i \in 1 .. Len(v) : i + 1 \in 1 .. Len(u) /\ v[i] = u[i + 1]
      /\ \A i \in 1 .. Len(u) : i = 1 \/ (i - 1 \in 1 .. Len(v) /\ v[i - 1] = u[i])
  BY <1>2, TailsOf
<1>4. u[1].what = "config" /\ Head(inbound) = u[1]
  BY <1>1, <1>3
<1>5. u[1].config \in Checksums /\ u[1].is_shutdown \in BOOLEAN
  BY <1>3, <1>4 DEF Incoming
<1>6. AnswerComes
  BY <1>1, <1>3, <1>4 DEF AnswerComes
<1>7. Waits /\ ~Asking
  BY <1>6 DEF McuInv, OneQuestion
<1>8. \A i \in 1 .. Len(u) : u[i].what = "config" => i = 1
  BY <1>1, <1>3, <1>4 DEF McuInv, OneQuestion
<1>9. \A i \in 1 .. Len(v) : v[i].what # "config"
  <2> SUFFICES ASSUME NEW i \in 1 .. Len(v), v[i].what = "config" PROVE FALSE
    OBVIOUS
  <2>1. i + 1 = 1
    BY <1>3, <1>8
  <2> QED
    BY <1>3, <2>1
<1>10. StopsOnly(outbound)
  BY <1>7, NothingAsked
<1>11. ASSUME Running, ~session.cut
       PROVE  /\ Whole(board) /\ Counted(board) /\ CrcFits(board) /\ u[1].config = board.crc
              /\ mcu.phase = "asked" => Settled(board)
              /\ mcu.phase = "asked again" => board.config = mcu.config
  <2>1. BoardKnows
    BY <1>11 DEF McuInv, NeverFaults
  <2>2. Whole(board) /\ Counted(board) /\ CrcFits(board) /\ u[1].config = board.crc /\ (mcu.phase = "asked" => Settled(board))
    BY <1>1, <1>3, <1>4, <1>7, <2>1 DEF BoardKnows
  <2>3. ~FinalizeComes
    BY <1>10 DEF StopsOnly, FinalizeComes
  <2>4. mcu.phase = "asked again" => board.config = mcu.config
    BY <2>1, <2>3 DEF BoardKnows
  <2> QED
    BY <2>2, <2>4
<1>12. ASSUME Running, session.cut PROVE CutShort /\ mcu.phase = "asked" /\ u[1].config = None
  <2>1. CutShort
    BY <1>12 DEF McuInv, CutStays
  <2> QED
    BY <1>1, <1>3, <1>4, <1>7, <2>1 DEF CutShort, Waits
<1>13. ASSUME board.shutdown, mcu.printer = "up", ~session.missed
       PROVE  \E i \in 1 .. Len(v) : v[i].what \in {"shutdown", "is_shutdown"}
  <2>1. PICK i \in 1 .. Len(u) : u[i].what \in {"shutdown", "is_shutdown"}
    BY <1>1, <1>7, <1>13 DEF McuInv, Noticed, ShutdownComes
  <2>2. i # 1
    BY <1>4, <2>1
  <2> QED
    BY <1>3, <2>1, <2>2
<1>14. /\ Waits /\ StopsOnly(outbound) /\ ~Asking
       /\ \A i \in 1 .. Len(Tail(inbound)) : Tail(inbound)[i].what # "config"
       /\ Tail(inbound) \in Seq(Incoming) /\ Head(inbound).config \in Checksums /\ Head(inbound).is_shutdown \in BOOLEAN
  BY <1>1, <1>3, <1>4, <1>5, <1>7, <1>9, <1>10
<1> QED
  BY <1>14, <1>1, <1>4, <1>11, <1>12, <1>13

\* The host gives up, or starts the board anew.
LEMMA GivesUp ==
  ASSUME McuTypes, McuInv, Waits, ~Asking, inbound' \in Seq(Incoming),
         \A i \in 1 .. Len(inbound') : inbound'[i].what # "config",
         outbound' = outbound, board' = board, session' = session,
         mcu' \in Hosts, mcu'.phase \in {"failed", "restart"}, mcu'.phase = "restart" => session.reason # "restart_mcu",
         mcu'.is_shutdown = mcu.is_shutdown, mcu'.printer = mcu.printer
  PROVE  McuTypes' /\ McuInv'
<1>1. StopsOnly(outbound)
  BY NothingAsked
<1>2. McuTypes'
  BY DEF McuTypes
<1>3. OneQuestion'
  <2>1. ~Asking' /\ ~AnswerComes'
    BY DEF Asking, AnswerComes
  <2> QED
    BY <2>1 DEF OneQuestion, Asking, AnswerComes
<1>4. SentInPhase'
  BY <1>1 DEF SentInPhase, StopsOnly
<1>5. HostReady'
  BY DEF HostReady
<1>6. NeverFaults'
  <2>1. ASSUME BoardKnows PROVE BoardKnows'
    <3>1. ~FinalizeComes
      BY <1>1 DEF StopsOnly, FinalizeComes
    <3>2. Settled(board)
      <4>1. CASE mcu.phase = "asked"
        BY <2>1, <4>1 DEF BoardKnows
      <4>2. CASE mcu.phase = "asked again"
        <5>1. board.config = mcu.config
          BY <2>1, <3>1, <4>2 DEF BoardKnows
        <5>2. Len(mcu.config) >= 1
          BY <4>2 DEF McuInv, HostReady, Complete
        <5>3. mcu.config # None
          BY <5>2 DEF None
        <5> QED
          BY <5>1, <5>3 DEF Settled
      <4> QED
        BY <4>1, <4>2 DEF Waits
    <3>3. AllFit(board, outbound)' /\ Whole(board)' /\ Settled(board)' /\ Counted(board)' /\ CrcFits(board)'
      BY <2>1, <3>2 DEF BoardKnows
    <3> QED
      BY <3>3 DEF BoardKnows, Waits
  <2> QED
    BY <2>1 DEF McuInv, NeverFaults, Running
<1>7. Noticed' /\ OnceInARow'
  BY DEF McuInv, Noticed, OnceInARow, Waits
<1>8. CutStays'
  <2>1. ASSUME CutShort PROVE CutShort'
    BY <2>1 DEF CutShort
  <2> QED
    BY <2>1 DEF McuInv, CutStays, Running
<1> QED
  BY <1>2, <1>3, <1>4, <1>5, <1>6, <1>7, <1>8 DEF McuInv

LEMMA GiveUpStep ==
  ASSUME McuTypes, McuInv, GiveUp
  PROVE  McuTypes' /\ McuInv'
<1>1. Unanswered /\ mcu' = Fail(mcu) /\ UNCHANGED <<session, outbound, inbound, board>>
  BY DEF GiveUp
<1>2. Waits /\ ~Asking /\ ~AnswerComes
  BY <1>1, UnansweredFacts
<1>3. PICK m, a : m = mcu /\ a = mcu'
  OBVIOUS
<1>4. m \in Hosts /\ a = [m EXCEPT !.phase = "failed"]
  BY <1>1, <1>3 DEF McuTypes, Fail
<1>5. a \in Hosts /\ a.phase = "failed" /\ a.is_shutdown = m.is_shutdown /\ a.printer = m.printer
  BY <1>4 DEF Hosts, Phases
<1>6. inbound' \in Seq(Incoming) /\ \A i \in 1 .. Len(inbound') : inbound'[i].what # "config"
  BY <1>1, <1>2 DEF McuTypes, AnswerComes
<1> QED
  BY <1>1, <1>2, <1>3, <1>5, <1>6, GivesUp

\* The host finds the board configured, and sends it the first values.
LEMMA GetsReady ==
  ASSUME McuTypes, McuInv, inbound # <<>>, Head(inbound).what = "config",
         inbound' = Tail(inbound), board' = board, session' = session,
         NEW w \in Seq(Orders), outbound' = outbound \o w, \A i \in 1 .. Len(w) : w[i].what = "set",
         Running => ~session.cut /\ board.config = mcu'.config /\ \A i \in 1 .. Len(w) : w[i].oid \in board.objects,
         mcu' \in Hosts, mcu'.phase = "ready", Complete(mcu'),
         mcu'.is_shutdown = mcu.is_shutdown, mcu'.printer = mcu.printer
  PROVE  McuTypes' /\ McuInv'
<1>1. /\ Waits /\ StopsOnly(outbound) /\ ~Asking
      /\ \A i \in 1 .. Len(Tail(inbound)) : Tail(inbound)[i].what # "config"
      /\ Tail(inbound) \in Seq(Incoming)
      /\ Running /\ ~session.cut => Whole(board) /\ Counted(board) /\ CrcFits(board)
      /\ board.shutdown /\ mcu.printer = "up" =>
           session.missed \/ \E i \in 1 .. Len(Tail(inbound)) : Tail(inbound)[i].what \in {"shutdown", "is_shutdown"}
  BY AnswerIsHere
<1>2. PICK s, t, b : s = outbound /\ t = outbound' /\ b = board
  OBVIOUS
<1>3. s \in Seq(Outgoing) /\ w \in Seq(Outgoing) /\ StopsOnly(s) /\ t = s \o w
  BY <1>1, <1>2, OrdersGoOut DEF McuTypes
<1>4. /\ t \in Seq(Outgoing) /\ Len(s) \in Nat /\ Len(w) \in Nat /\ Len(t) = Len(s) + Len(w)
      /\ \A i \in 1 .. Len(s) : t[i] = s[i]
      /\ \A i \in 1 .. Len(t) : i \in 1 .. Len(s) \/ (i - Len(s) \in 1 .. Len(w) /\ t[i] = w[i - Len(s)])
  BY <1>3
<1>5. \A i \in 1 .. Len(t) : t[i].what \in {"set", "emergency_stop"}
  <2> SUFFICES ASSUME NEW i \in 1 .. Len(t) PROVE t[i].what \in {"set", "emergency_stop"}
    OBVIOUS
  <2>1. CASE i \in 1 .. Len(s)
    BY <1>3, <1>4, <2>1 DEF StopsOnly
  <2>2. CASE i - Len(s) \in 1 .. Len(w) /\ t[i] = w[i - Len(s)]
    BY <2>2
  <2> QED
    BY <1>4, <2>1, <2>2
<1>6. McuTypes'
  BY <1>1, <1>2, <1>4 DEF McuTypes
<1>7. OneQuestion'
  <2>1. ~Asking' /\ ~AnswerComes'
    BY <1>1, <1>2, <1>5 DEF Asking, AnswerComes
  <2> QED
    BY <2>1 DEF OneQuestion, Asking, AnswerComes
<1>8. SentInPhase'
  BY <1>2, <1>5 DEF SentInPhase
<1>9. HostReady'
  BY DEF HostReady
<1>10. NeverFaults'
  <2> SUFFICES ASSUME Running PROVE BoardKnows'
    BY DEF McuInv, NeverFaults, Running
  <2>1. \A i \in 1 .. Len(w) : w[i].what = "set" /\ w[i].oid \in b.objects
    BY <1>2
  <2>2. AllFit(b, t)
    BY <1>3, <2>1, WritesFit
  <2>3. Whole(b) /\ Counted(b) /\ CrcFits(b) /\ b.config = mcu'.config /\ b.config # None
    BY <1>1, <1>2 DEF Complete, None
  <2> QED
    BY <1>2, <2>2, <2>3 DEF BoardKnows, Settled, Waits
<1>11. Noticed'
  BY <1>1 DEF McuInv, Noticed, ShutdownComes
<1>12. OnceInARow'
  BY DEF McuInv, OnceInARow
<1>13. CutStays'
  BY DEF CutStays, Running
<1> QED
  BY <1>6, <1>7, <1>8, <1>9, <1>10, <1>11, <1>12, <1>13 DEF McuInv

\* What the host sends a board without a configuration
IsSent(t, s, a) == t = Sent(s, a)

LEMMA SentHas ==
  ASSUME NEW a \in Hosts, Complete(a), NEW s \in Seq(Outgoing), StopsOnly(s), NEW t, IsSent(t, s, a)
  PROVE  /\ t \in Seq(Outgoing) /\ Len(t) \in 1 .. Len(t) /\ t[Len(t)].what = "get_config"
         /\ \A i \in 1 .. Len(t) :
              i # Len(t) => t[i].what # "get_config" /\ (t[i].what = "finalize" => t[i].oid = a.config)
         /\ \E i \in 1 .. Len(t) : t[i].what = "finalize"
         /\ t[1].what \in {"allocate", "emergency_stop"}
<1> DEFINE n == Len(s)
           l == Len(a.config)
           k == Len(a.init)
           e == n + l + k + 2
<1>4. /\ t \in Seq(Outgoing) /\ n \in Nat /\ l \in Nat /\ k \in Nat /\ Len(t) = e
      /\ \A i \in 1 .. n : t[i] = s[i]
      /\ \A i \in 1 .. l : t[n + i] = a.config[i]
      /\ t[n + l + 1].what = "finalize" /\ t[n + l + 1].oid = a.config
      /\ \A i \in 1 .. k : t[n + l + 1 + i] = a.init[i]
      /\ t[e].what = "get_config"
  <2>1. t = Sent(s, a)
    BY DEF IsSent
  <2> QED
    BY <2>1, SentFacts
<1>5. /\ \A i \in 1 .. n : s[i].what = "emergency_stop"
      /\ \A i \in 1 .. l : a.config[i].what \in {"allocate", "config", "set"}
      /\ \A i \in 1 .. k : a.init[i].what = "set"
      /\ l >= 1 /\ a.config[1].what = "allocate"
  <2>1. a.config \in Seq(Orders)
    BY DEF Hosts
  <2>2. \A i \in 1 .. l : a.config[i].what \in {"allocate", "config", "set"}
    <3>1. \A i \in 1 .. l : a.config[i] \in Orders
      <4>1. PICK w : w = a.config
        OBVIOUS
      <4>2. w \in Seq(Orders)
        BY <2>1, <4>1
      <4>3. \A i \in 1 .. Len(w) : w[i] \in Orders
        BY <4>2
      <4> QED
        BY <4>1, <4>3
    <3> QED
      BY <3>1 DEF Orders
  <2>3. \A i \in 1 .. k : a.init[i].what = "set"
    BY DEF Complete
  <2>4. l >= 1 /\ a.config[1].what = "allocate"
    BY DEF Complete, Cmd
  <2> QED
    BY <2>2, <2>3, <2>4 DEF StopsOnly
<1>0. e = n + l + k + 2 /\ n \in Nat /\ l \in Nat /\ k \in Nat
  BY <1>4
<1> HIDE DEF n, l, k, e
<1>10. Len(t) = e
  BY <1>4
<1>6. e \in Nat /\ e >= 1 /\ n + l + 1 \in 1 .. e /\ e \in 1 .. Len(t)
  BY <1>0, <1>10
<1>7. ASSUME NEW i \in 1 .. e
      PROVE  \/ i \in 1 .. n \/ i - n \in 1 .. l \/ i = n + l + 1 \/ i - (n + l + 1) \in 1 .. k \/ i = e
  BY <1>0
<1>8. ASSUME NEW i \in 1 .. e, i # e
      PROVE  t[i].what # "get_config" /\ (t[i].what = "finalize" => t[i].oid = a.config)
  <2>1. CASE i \in 1 .. n
    BY <1>4, <1>5, <2>1
  <2>2. CASE i - n \in 1 .. l
    <3>1. n + (i - n) = i
      BY <1>0
    <3>2. t[i] = a.config[i - n]
      BY <1>4, <2>2, <3>1
    <3> QED
      BY <1>5, <2>2, <3>2
  <2>3. CASE i = n + l + 1
    BY <1>4, <2>3
  <2>4. CASE i - (n + l + 1) \in 1 .. k
    <3>1. n + l + 1 + (i - (n + l + 1)) = i
      BY <1>0
    <3>2. t[i] = a.init[i - (n + l + 1)]
      BY <1>4, <2>4, <3>1
    <3> QED
      BY <1>5, <2>4, <3>2
  <2> QED
    BY <1>7, <1>8, <2>1, <2>2, <2>3, <2>4
<1>9. n + l + 1 \in 1 .. Len(t)
  BY <1>6, <1>10
<1>11. t[1].what \in {"allocate", "emergency_stop"}
  <2>1. CASE n = 0
    <3>1. n + 1 = 1 /\ 1 \in 1 .. l
      BY <1>0, <1>5, <2>1
    <3>2. t[1] = a.config[1]
      BY <1>4, <3>1
    <3> QED
      BY <1>5, <3>2
  <2>2. CASE n # 0
    <3>1. 1 \in 1 .. n
      BY <1>0, <2>2
    <3> QED
      BY <1>4, <1>5, <3>1
  <2> QED
    BY <2>1, <2>2
<1> QED
  BY <1>4, <1>6, <1>8, <1>9, <1>10, <1>11

\* The host sends a board without a configuration its own, and asks again.
LEMMA LengthIsNat ==
  ASSUME NEW S, NEW s \in Seq(S)
  PROVE  Len(s) \in Nat
OBVIOUS

LEMMA LaterInRange ==
  ASSUME NEW q \in Nat, NEW i \in 1 .. q, i # q
  PROVE  q \in i + 1 .. q
OBVIOUS

LEMMA NoByte ==
  /\ Byte # None
  /\ \A m : Complete(m) => m.config # Byte
<1>1. Byte # None
  <2>1. Len(Byte) = 1 /\ Len(None) = 0
    BY DEF Byte, None
  <2> QED
    BY <2>1
<1>2. ASSUME NEW m, Complete(m) PROVE m.config # Byte
  <2>1. m.config[1].what = "allocate"
    BY <1>2 DEF Complete, Cmd
  <2>2. Byte[1].what = "byte"
    BY DEF Byte, Cmd
  <2> QED
    BY <2>1, <2>2
<1> QED
  BY <1>1, <1>2

LEMMA AsksAgain ==
  ASSUME McuTypes, McuInv, inbound # <<>>, Head(inbound).what = "config", Head(inbound).config = None, mcu.phase = "asked",
         inbound' = Tail(inbound), board' = board, session' = session,
         mcu' \in Hosts, mcu'.phase = "asked again", Complete(mcu'), IsSent(outbound', outbound, mcu'),
         mcu'.is_shutdown = mcu.is_shutdown, mcu'.printer = mcu.printer
  PROVE  McuTypes' /\ McuInv'
<1>1. /\ Waits /\ StopsOnly(outbound) /\ ~Asking
      /\ \A i \in 1 .. Len(Tail(inbound)) : Tail(inbound)[i].what # "config"
      /\ Tail(inbound) \in Seq(Incoming)
      /\ Running /\ ~session.cut =>
           Whole(board) /\ Counted(board) /\ CrcFits(board) /\ board.crc = None /\ Settled(board)
      /\ Running /\ session.cut => CutShort
  BY AnswerIsHere
<1>2. PICK a, s, t, b : a = mcu' /\ s = outbound /\ t = outbound' /\ b = board
  OBVIOUS
<1>3. a \in Hosts /\ s \in Seq(Outgoing) /\ StopsOnly(s) /\ IsSent(t, s, a) /\ Complete(a) /\ a.phase = "asked again" /\ b \in BoardStates
  BY <1>1, <1>2 DEF McuTypes
<1>4. /\ t \in Seq(Outgoing) /\ Len(t) \in 1 .. Len(t) /\ t[Len(t)].what = "get_config"
      /\ \A i \in 1 .. Len(t) :
           i # Len(t) => t[i].what # "get_config" /\ (t[i].what = "finalize" => t[i].oid = a.config)
      /\ \E i \in 1 .. Len(t) : t[i].what = "finalize"
      /\ t[1].what \in {"allocate", "emergency_stop"}
  BY <1>3, SentHas, ZenonT(40)
<1>11. McuTypes'
  BY <1>1, <1>2, <1>4 DEF McuTypes
<1>12. ~AnswerComes'
  BY <1>1 DEF AnswerComes
<1>13. OneQuestion'
  <2>1. \A i, j \in 1 .. Len(t) : t[i].what = "get_config" /\ t[j].what = "get_config" => i = j
    BY <1>4
  <2>2. mcu'.phase = "asked again" /\ outbound' = t
    BY <1>2
  <2> QED
    BY <1>12, <2>1, <2>2 DEF OneQuestion, AnswerComes, Waits
<1>14. SentInPhase'
  <2>1. ASSUME NEW i \in 1 .. Len(t)
        PROVE  /\ t[i].what = "finalize" => t[i].oid = a.config
               /\ t[i].what \in {"get_config", "emergency_stop"} \/ \E j \in i + 1 .. Len(t) : t[j].what = "get_config"
    <3>1. CASE i = Len(t)
      BY <1>4, <3>1
    <3>2. CASE i # Len(t)
      <4>1. Len(t) \in i + 1 .. Len(t)
        <5>0. Len(t) \in Nat
          BY Zenon, <1>4, LengthIsNat
        <5>1. PICK q \in Nat : q = Len(t)
          BY <5>0
        <5>2. i \in 1 .. q /\ i # q
          BY Zenon, <3>2, <5>1
        <5>3. q \in i + 1 .. q
          BY <5>2, LaterInRange
        <5> QED
          BY Zenon, <5>1, <5>3
      <4> QED
        BY <1>4, <3>2, <4>1
    <3> QED
      BY <3>1, <3>2
  <2>2. mcu'.phase = "asked again" /\ outbound' = t /\ mcu'.config = a.config
    BY <1>2
  <2> QED
    BY <2>1, <2>2 DEF SentInPhase
<1>15. HostReady'
  BY DEF HostReady
<1>16. NeverFaults'
  <2> SUFFICES ASSUME Running, ~session.cut PROVE BoardKnows'
    BY DEF McuInv, NeverFaults, Running
  <2>1. Whole(b) /\ Counted(b) /\ CrcFits(b) /\ b.config = None /\ b.oids = -1 /\ b.objects = {}
    <3>1. Whole(b) /\ Counted(b) /\ CrcFits(b) /\ b.crc = None /\ Settled(b)
      BY <1>1, <1>2
    <3>2. b.config = None
      BY <3>1, NoByte DEF CrcFits
    <3> QED
      BY <3>1, <3>2 DEF Settled
  <2>2. AllFit(b, t)
    <3>1. t = Sent(s, a)
      BY <1>3 DEF IsSent
    <3> QED
      BY <1>3, <2>1, <3>1, ConfigurationFits
  <2>3. FinalizeComes'
    BY <1>2, <1>4 DEF FinalizeComes
  <2> QED
    BY <1>2, <1>3, <1>12, <2>1, <2>2, <2>3 DEF BoardKnows, AnswerComes
<1>19. Asking'
  BY <1>2, <1>4 DEF Asking
<1>17. Noticed'
  BY <1>2, <1>3, <1>19 DEF McuInv, Noticed, Waits
<1>18. OnceInARow'
  BY DEF McuInv, OnceInARow
<1>20. CutStays'
  <2>1. ASSUME CutShort PROVE CutShort'
    BY <1>2, <1>3, <1>4, <1>12, <1>19, <2>1 DEF CutShort, AnswerComes
  <2> QED
    BY <1>1, <2>1 DEF CutStays, Running
<1> QED
  BY <1>11, <1>13, <1>14, <1>15, <1>16, <1>17, <1>18, <1>20 DEF McuInv

LEMMA ReceiveStep ==
  ASSUME McuTypes, McuInv, Receive
  PROVE  McuTypes' /\ McuInv'
<1>1. PICK m, a, r : m = mcu /\ a = mcu' /\ r = Head(inbound)
  OBVIOUS
<1>2. /\ m \in Hosts /\ inbound # <<>> /\ inbound' = Tail(inbound) /\ UNCHANGED <<session, board>>
      /\ m.phase \notin {"setup", "failed", "restart"}
  BY <1>1 DEF Receive, McuTypes
<1>3. r \in Incoming
  BY <1>1, <1>2, TailsOf DEF McuTypes
<1>4. CASE r.what \in {"shutdown", "is_shutdown"}
  <2>1. a = Shutdown(m) /\ outbound' = outbound
    BY <1>1, <1>4 DEF Receive
  <2>2. m.is_shutdown => m.printer # "up"
    BY <1>1 DEF McuInv, Noticed
  <2>3. /\ a \in Hosts /\ a.phase = m.phase /\ a.config = m.config /\ a.parts = m.parts /\ a.oids = m.oids
        /\ a.init = m.init /\ a.printer # "up"
    <3>1. CASE m.is_shutdown
      BY <1>2, <2>1, <2>2, <3>1 DEF Shutdown
    <3>2. CASE ~m.is_shutdown
      <4>1. PICK p : p = IF m.printer = "up" THEN "told" ELSE m.printer
        OBVIOUS
      <4>2. p \in {"up", "told", "down"} /\ p # "up"
        BY <1>2, <4>1 DEF Hosts
      <4>3. a = [[m EXCEPT !.is_shutdown = TRUE] EXCEPT !.printer = p]
        BY <1>2, <2>1, <3>2, <4>1 DEF Shutdown, call_shutdown, Hosts
      <4> QED
        BY <1>2, <4>2, <4>3 DEF Hosts
    <3> QED
      BY <3>1, <3>2
  <2>4. Noticed'
    BY <1>1, <2>3 DEF Noticed
  <2>5. session' \in SessionStates
    BY <1>2 DEF McuTypes, SessionStates
  <2> QED
    BY <1>1, <1>2, <2>1, <2>3, <2>4, <2>5, NewsStep
<1>5. CASE r.what = "starting"
  <2>1. a = m /\ outbound' = outbound
    BY <1>1, <1>5 DEF Receive, Starting
  <2> QED
    BY <1>1, <1>2, <1>5, <2>1, StartingStep
<1>6. CASE r.what = "config"
  <2>1. Answered(r)
    BY <1>1, <1>6 DEF Receive
  <2>2. /\ Waits /\ StopsOnly(outbound)
        /\ r.is_shutdown \in BOOLEAN /\ ~Asking
        /\ inbound' \in Seq(Incoming) /\ \A i \in 1 .. Len(inbound') : inbound'[i].what # "config"
        /\ Running /\ ~session.cut =>
             /\ Whole(board) /\ CrcFits(board) /\ r.config = board.crc
             /\ mcu.phase = "asked again" => board.config = mcu.config
        /\ Running /\ session.cut => mcu.phase = "asked" /\ r.config = None
    BY <1>1, <1>2, <1>6, AnswerIsHere
  <2>3. m.is_shutdown \in BOOLEAN /\ "failed" \in Phases /\ "restart" \in Phases /\ "ready" \in Phases /\ "asked again" \in Phases
    BY <1>2 DEF Hosts, Phases
  <2>4. ASSUME NEW h \in Hosts, NEW phase \in {"failed", "restart"}, mcu' = [h EXCEPT !.phase = phase],
               phase = "restart" => session.reason # "restart_mcu",
               h.is_shutdown = mcu.is_shutdown, h.printer = mcu.printer, outbound' = outbound
        PROVE  McuTypes' /\ McuInv'
    <3>1. [h EXCEPT !.phase = phase] \in Hosts
      BY <2>3, <2>4 DEF Hosts
    <3>2. /\ mcu' \in Hosts /\ mcu'.phase = phase /\ mcu'.is_shutdown = mcu.is_shutdown /\ mcu'.printer = mcu.printer
      BY <2>4, <3>1 DEF Hosts
    <3> QED
      BY <1>2, <2>2, <2>4, <3>2, GivesUp
  <2>5. CASE m.is_shutdown \/ r.is_shutdown
    <3>1. mcu' = [m EXCEPT !.phase = "failed"] /\ outbound' = outbound
      BY <1>1, <2>1, <2>2, <2>3, <2>5 DEF Answered, Fail
    <3> QED
      BY <1>1, <1>2, <2>4, <3>1
  <2>6. CASE ~(m.is_shutdown \/ r.is_shutdown) /\ m.phase = "asked again"
    <3>1. mcu' = (IF r.config = None THEN Fail(m) ELSE [m EXCEPT !.phase = "ready"]) /\ outbound' = outbound
      BY <1>1, <2>1, <2>2, <2>3, <2>6 DEF Answered
    <3>2. CASE r.config = None
      <4>1. mcu' = [m EXCEPT !.phase = "failed"]
        BY <3>1, <3>2 DEF Fail
      <4> QED
        BY <1>1, <1>2, <2>4, <3>1, <4>1
    <3>3. CASE r.config # None
      <4>1. a = [m EXCEPT !.phase = "ready"]
        BY <1>1, <3>1, <3>3
      <4>2. /\ a \in Hosts /\ a.phase = "ready" /\ a.parts = m.parts /\ a.oids = m.oids /\ a.config = m.config /\ a.init = m.init
            /\ a.is_shutdown = m.is_shutdown /\ a.printer = m.printer
        BY <1>2, <2>3, <4>1 DEF Hosts
      <4>3. Complete(a)
        <5>1. Complete(m)
          BY <1>1, <2>6 DEF McuInv, HostReady
        <5> QED
          BY <4>2, <5>1, SameHost
      <4>4. PICK w : w = <<>>
        OBVIOUS
      <4>5. w \in Seq(Orders) /\ Len(w) = 0 /\ outbound' = outbound \o w
        BY <3>1, <4>4 DEF McuTypes
      <4>6. Running => ~session.cut /\ board.config = mcu'.config
        BY <1>1, <2>2, <2>6, <4>2
      <4>7. \A i \in 1 .. Len(w) : w[i].what = "set" /\ w[i].oid \in board.objects
        BY <4>5
      <4> QED
        BY <1>1, <1>2, <1>6, <2>6, <4>2, <4>3, <4>5, <4>6, <4>7, GetsReady
    <3> QED
      BY <3>2, <3>3
  <2>7. CASE ~(m.is_shutdown \/ r.is_shutdown) /\ m.phase = "asked"
    <3>1. IF r.config = None
          THEN IF m.method = "rpi_usb" /\ session.reason # "restart_mcu"
               THEN mcu' = CheckRestart(m) /\ outbound' = outbound
               ELSE SendConfig(None)
          ELSE IF session.reason = "restart_mcu" THEN mcu' = Fail(m) /\ outbound' = outbound
          ELSE SendConfig(r.config)
      BY <1>1, <2>1, <2>2, <2>3, <2>7 DEF Answered
    <3>2. CASE (mcu' = CheckRestart(m) \/ mcu' = Fail(m)) /\ outbound' = outbound
      <4>1. PICK phase \in {"failed", "restart"} :
              mcu' = [m EXCEPT !.phase = phase] /\ (phase = "restart" => session.reason # "restart_mcu")
        BY <3>2 DEF CheckRestart, Fail
      <4> QED
        BY <1>1, <1>2, <2>4, <3>2, <4>1
    <3>3. CASE SendConfig(r.config)
      <4>1. PICK c : c = Build(m)
        OBVIOUS
      <4>2. /\ c \in Hosts /\ Complete(c) /\ c.phase = m.phase /\ c.is_shutdown = m.is_shutdown /\ c.printer = m.printer
        <5>1. Assembled(m, 0)
          BY <1>1, <2>7 DEF McuInv, HostReady
        <5> QED
          BY <1>2, <4>1, <5>1, BuildCompletes
      <4>3. PICK h : h = [c EXCEPT !.starting = TRUE]
        OBVIOUS
      <4>4. ASSUME NEW g, NEW phase \in Phases, NEW flag \in BOOLEAN, g = [[c EXCEPT !.starting = flag] EXCEPT !.phase = phase]
            PROVE  /\ g \in Hosts /\ g.phase = phase /\ Complete(g) /\ g.config = c.config /\ g.init = c.init
                   /\ g.is_shutdown = m.is_shutdown /\ g.printer = m.printer
        <5>1. /\ g \in Hosts /\ g.phase = phase /\ g.parts = c.parts /\ g.oids = c.oids /\ g.config = c.config /\ g.init = c.init
              /\ g.is_shutdown = m.is_shutdown /\ g.printer = m.printer
          BY <4>2, <4>4 DEF Hosts
        <5> QED
          BY <4>2, <5>1, SameHost
      <4>5. /\ h.config = c.config /\ h.init = c.init /\ h \in Hosts /\ h.is_shutdown = m.is_shutdown /\ h.printer = m.printer
        BY <4>2, <4>3 DEF Hosts
      <4>6. CASE r.config = None
        <5>1. a = [h EXCEPT !.phase = "asked again"] /\ outbound' = outbound \o ConfigMessages(h) \o h.init \o <<Question>>
          BY <1>1, <3>3, <4>1, <4>3, <4>6 DEF SendConfig, Question
        <5>2. /\ a \in Hosts /\ a.phase = "asked again" /\ Complete(a) /\ a.config = c.config /\ a.init = c.init
              /\ a.is_shutdown = m.is_shutdown /\ a.printer = m.printer
          <6>1. a = [[c EXCEPT !.starting = TRUE] EXCEPT !.phase = "asked again"] /\ TRUE \in BOOLEAN
            BY Zenon, <4>3, <5>1
          <6> QED
            BY Zenon, <2>3, <4>4, <6>1
        <5>3. ConfigMessages(h) = ConfigMessages(a) /\ h.init = a.init
          BY <4>5, <5>2 DEF ConfigMessages
        <5>4. IsSent(outbound', outbound, mcu')
          BY Zenon, <1>1, <5>1, <5>3 DEF IsSent, Sent
        <5> QED
          BY <1>1, <1>2, <1>6, <2>7, <4>6, <5>2, <5>4, AsksAgain
      <4>7. CASE r.config # None /\ r.config # h.config
        <5>1. mcu' = CheckRestart([h EXCEPT !.starting = FALSE]) /\ outbound' = outbound
          BY <1>1, <3>3, <4>1, <4>3, <4>7 DEF SendConfig
        <5>2. PICK g : g = [h EXCEPT !.starting = FALSE]
          OBVIOUS
        <5>3. g \in Hosts /\ g.is_shutdown = mcu.is_shutdown /\ g.printer = mcu.printer
          BY <1>1, <4>5, <5>2 DEF Hosts
        <5>4. PICK phase \in {"failed", "restart"} :
                mcu' = [g EXCEPT !.phase = phase] /\ (phase = "restart" => session.reason # "restart_mcu")
          BY <5>1, <5>2 DEF CheckRestart
        <5> QED
          BY <2>4, <5>1, <5>3, <5>4
      <4>8. CASE r.config # None /\ r.config = h.config
        <5>1. a = [h EXCEPT !.phase = "ready"] /\ outbound' = outbound \o h.init
          BY <1>1, <3>3, <4>1, <4>3, <4>8 DEF SendConfig
        <5>2. /\ a \in Hosts /\ a.phase = "ready" /\ Complete(a) /\ a.config = c.config /\ a.init = c.init
              /\ a.is_shutdown = m.is_shutdown /\ a.printer = m.printer
          <6>1. a = [[c EXCEPT !.starting = TRUE] EXCEPT !.phase = "ready"] /\ TRUE \in BOOLEAN
            BY Zenon, <4>3, <5>1
          <6> QED
            BY Zenon, <2>3, <4>4, <6>1
        <5>3. PICK w : w = a.init
          OBVIOUS
        <5>4. /\ w \in Seq(Orders) /\ outbound' = outbound \o w /\ \A i \in 1 .. Len(w) : w[i].what = "set"
          BY <4>5, <5>1, <5>2, <5>3 DEF Hosts, Complete
        <5>5. ASSUME Running
              PROVE  /\ ~session.cut /\ board.config = mcu'.config
                     /\ \A i \in 1 .. Len(w) : w[i].oid \in board.objects
          <6>1. PICK b : b = board
            OBVIOUS
          <6>4. ~session.cut /\ b \in BoardStates /\ Whole(b) /\ CrcFits(b) /\ b.crc = c.config /\ b.crc # None
            BY <2>2, <4>5, <4>8, <5>5, <6>1 DEF McuTypes
          <6>5. c.config # Byte
            BY <4>2, NoByte
          <6>2. b \in BoardStates /\ Whole(b) /\ b.config = a.config
            BY <5>2, <6>4, <6>5 DEF CrcFits
          <6>3. \A i \in 1 .. Len(a.init) : a.init[i].oid \in b.objects
            BY <5>2, <6>2, PartsAreObjects
          <6> QED
            BY <1>1, <5>3, <6>1, <6>2, <6>3, <6>4
        <5> QED
          BY <1>1, <1>2, <1>6, <2>7, <5>2, <5>4, <5>5, GetsReady
      <4> QED
        BY <4>6, <4>7, <4>8
    <3> QED
      BY <3>1, <3>2, <3>3
  <2> QED
    BY <1>1, <2>2, <2>5, <2>6, <2>7 DEF Waits
<1> QED
  BY <1>3, <1>4, <1>5, <1>6 DEF Incoming

-----------------------------------------------------------------------------
(* The steps of the board                                                  *)

\* What the board is after a command, whether it fits or not
SameBoard(d, b) == d \in BoardStates /\ d.resets = b.resets /\ d.error = b.error /\ d.shutdown = b.shutdown

LEMMA DoneTypes ==
  ASSUME NEW b \in BoardStates, NEW c \in Outgoing, c.what # "emergency_stop", NEW whole \in BOOLEAN
  PROVE  SameBoard(Done(b, c, whole), b)
<1>1. CASE c.what = "allocate"
  <2>1. c.oid \in Int /\ Done(b, c, whole) = [b EXCEPT !.oids = c.oid]
    BY <1>1 DEF Outgoing, Done
  <2> QED
    BY <2>1 DEF BoardStates, SameBoard
<1>2. CASE c.what = "config"
  <2>1. PICK o : o = b.objects \cup {c.oid}
    OBVIOUS
  <2>2. o \in SUBSET Int /\ Done(b, c, whole) = [b EXCEPT !.objects = o]
    BY <1>2, <2>1 DEF Outgoing, Done, BoardStates
  <2> QED
    BY <2>2 DEF BoardStates, SameBoard
<1>3. CASE c.what = "finalize"
  <2>1. PICK e, k : e = c.oid /\ k = IF whole THEN c.oid ELSE Byte
    OBVIOUS
  <2>2. e \in Seq(Orders) /\ k \in Checksums
    BY <1>3, <2>1 DEF Outgoing, Checksums
  <2>3. Done(b, c, whole) = [b EXCEPT !.config = e, !.crc = k]
    BY <1>3, <2>1 DEF Done
  <2> QED
    BY <2>2, <2>3 DEF BoardStates, SameBoard
<1>4. CASE c.what \in {"set", "get_config"}
  BY <1>4 DEF Done, SameBoard
<1> QED
  BY <1>1, <1>2, <1>3, <1>4 DEF Outgoing

\* What the board says of a command
Quiet(w) == \A i \in 1 .. Len(w) : w[i].what # "config"
OnlyFirst(w) == \A i \in 1 .. Len(w) : w[i].what = "config" => i = 1
Tells(w) == \E i \in 1 .. Len(w) : w[i].what \in {"shutdown", "is_shutdown"}

LEMMA ReportFacts ==
  ASSUME NEW what \in {"shutdown", "is_shutdown", "starting"}
  PROVE  /\ Report(what) \in Incoming /\ Report(what).what = what
         /\ <<Report(what)>> \in Seq(Incoming) /\ Quiet(<<Report(what)>>)
         /\ what # "starting" => Tells(<<Report(what)>>)
<1>1. PICK r : r = Report(what)
  OBVIOUS
<1>2. r \in Incoming /\ r.what = what
  BY <1>1 DEF Report, Incoming
<1>3. <<r>> \in Seq(Incoming) /\ Len(<<r>>) = 1 /\ <<r>>[1] = r /\ 1 \in 1 .. 1 /\ \A i \in 1 .. 1 : i = 1
  BY <1>2
<1>4. Quiet(<<r>>)
  BY <1>2, <1>3 DEF Quiet
<1>5. what # "starting" => Tells(<<r>>)
  BY <1>2, <1>3 DEF Tells
<1> QED
  BY <1>1, <1>2, <1>3, <1>4, <1>5

LEMMA SaysFacts ==
  ASSUME NEW b \in BoardStates, NEW c, NEW w, w = Says(b, c)
  PROVE  /\ w \in Seq(Incoming) /\ OnlyFirst(w)
         /\ c.what # "get_config" => Quiet(w)
         /\ b.shutdown => Tells(w)
         /\ \A i \in 1 .. Len(w) : w[i].what = "config" => w[i].config = b.crc
<1> DEFINE answer == [what |-> "config", config |-> b.crc, is_shutdown |-> b.shutdown]
<1>1. PICK x, r : x = answer /\ r = Report("is_shutdown")
  OBVIOUS
<1>2. x \in Incoming /\ x.what = "config" /\ x.config = b.crc /\ r \in Incoming /\ r.what = "is_shutdown"
  BY <1>1 DEF Report, Incoming, BoardStates
<1>3. w = (IF c.what = "get_config" THEN <<x>> ELSE <<>>) \o (IF b.shutdown THEN <<r>> ELSE <<>>)
  BY <1>1 DEF Says
<1> HIDE DEF answer
<1>4. CASE c.what = "get_config" /\ b.shutdown
  <2>1. w = <<x>> \o <<r>>
    BY <1>3, <1>4
  <2>2. w \in Seq(Incoming) /\ Len(w) = 2 /\ w[1] = x /\ w[2] = r /\ \A i \in 1 .. 2 : i = 1 \/ i = 2
    <3>1. <<x>> \in Seq(Incoming) /\ <<r>> \in Seq(Incoming) /\ Len(<<x>>) = 1 /\ Len(<<r>>) = 1
          /\ <<x>>[1] = x /\ <<r>>[1] = r
      BY <1>2
    <3>2. /\ w \in Seq(Incoming) /\ Len(w) = 1 + 1
          /\ \A i \in 1 .. 1 + 1 : w[i] = IF i <= 1 THEN <<x>>[i] ELSE <<r>>[i - 1]
      BY <2>1, <3>1, ConcatProperties
    <3> QED
      BY <3>1, <3>2
  <2>3. 2 \in 1 .. Len(w)
    BY <2>2
  <2> QED
    BY <1>2, <1>4, <2>2, <2>3 DEF OnlyFirst, Tells
<1>5. CASE c.what = "get_config" /\ ~b.shutdown
  <2>1. w = <<x>>
    BY <1>3, <1>5
  <2>2. w \in Seq(Incoming) /\ Len(w) = 1 /\ w[1] = x /\ \A i \in 1 .. 1 : i = 1
    BY <1>2, <2>1
  <2> QED
    BY <1>2, <1>5, <2>2 DEF OnlyFirst
<1>6. CASE c.what # "get_config" /\ b.shutdown
  <2>1. w = <<r>>
    BY <1>3, <1>6
  <2>2. w \in Seq(Incoming) /\ Len(w) = 1 /\ w[1] = r /\ 1 \in 1 .. 1 /\ \A i \in 1 .. 1 : i = 1
    BY <1>2, <2>1
  <2> QED
    BY <1>2, <1>6, <2>2 DEF OnlyFirst, Quiet, Tells
<1>7. CASE c.what # "get_config" /\ ~b.shutdown
  <2>1. w = <<>>
    BY <1>3, <1>7
  <2>2. w \in Seq(Incoming) /\ Len(w) = 0 /\ \A i \in 1 .. 0 : FALSE
    BY <2>1
  <2> QED
    BY <1>7, <2>2 DEF OnlyFirst, Quiet
<1> QED
  BY <1>4, <1>5, <1>6, <1>7

\* What is left of the commands
IsRestOf(t, s) ==
  /\ t \in Seq(Outgoing) /\ Len(t) \in Nat /\ Len(s) \in Nat
  /\ \E k \in Nat : Len(s) = Len(t) + k /\ \A i \in 1 .. Len(t) : i + k \in 1 .. Len(s) /\ t[i] = s[i + k]

LEMMA TailIsSuffix ==
  ASSUME NEW s \in Seq(Outgoing), s # <<>>, NEW t, t = Tail(s)
  PROVE  IsRestOf(t, s)
<1>1. /\ t \in Seq(Outgoing) /\ Len(s) \in Nat /\ Len(t) = Len(s) - 1 /\ Len(s) > 0
      /\ \A i \in 1 .. Len(t) : i + 1 \in 1 .. Len(s) /\ t[i] = s[i + 1]
  BY TailsOf, TailFacts
<1>2. Len(t) \in Nat /\ Len(s) = Len(t) + 1 /\ 1 \in Nat
  BY <1>1
<1> QED
  BY <1>1, <1>2 DEF IsRestOf

LEMMA WholeIsSuffix ==
  ASSUME NEW s \in Seq(Outgoing)
  PROVE  IsRestOf(s, s)
<1>1. Len(s) \in Nat /\ Len(s) = Len(s) + 0 /\ 0 \in Nat /\ \A i \in 1 .. Len(s) : i + 0 \in 1 .. Len(s) /\ s[i] = s[i + 0]
  OBVIOUS
<1> QED
  BY <1>1 DEF IsRestOf

LEMMA RestIsSuffix ==
  ASSUME NEW s \in Seq(Outgoing), NEW i \in 1 .. Len(s) + 1, NEW t, t = SubSeq(s, i, Len(s))
  PROVE  IsRestOf(t, s)
<1>1. PICK n, k : n = Len(s) /\ k = i - 1
  OBVIOUS
<1>2. n \in Nat /\ k \in Nat /\ i \in Int /\ i = k + 1 /\ k <= n /\ \A j \in i .. n : s[j] \in Outgoing
  BY <1>1
<1>3. /\ t \in Seq(Outgoing) /\ Len(t) = IF i <= n THEN n - i + 1 ELSE 0
      /\ \A j \in 1 .. n - i + 1 : t[j] = s[i + j - 1]
  BY <1>1, <1>2, SubSeqProperties
<1>4. Len(t) = n - k
  BY <1>2, <1>3
<1>5. n - i + 1 = n - k
  BY <1>2
<1>6. ASSUME NEW j \in 1 .. n - k PROVE j + k \in 1 .. n /\ t[j] = s[j + k]
  <2>1. i + j - 1 = j + k /\ j + k \in 1 .. n
    BY <1>2
  <2> QED
    BY <1>3, <1>5, <2>1
<1>7. n - k \in Nat /\ n = (n - k) + k
  BY <1>2
<1> QED
  BY <1>1, <1>2, <1>3, <1>4, <1>6, <1>7 DEF IsRestOf

\* What is left to take is in order, as what was sent.
LEMMA RestKeepsPhase ==
  ASSUME McuTypes, McuInv, mcu' = mcu, IsRestOf(outbound', outbound)
  PROVE  SentInPhase'
<1>1. PICK s, t : s = outbound /\ t = outbound'
  OBVIOUS
<1>2. PICK k \in Nat : Len(s) = Len(t) + k /\ \A i \in 1 .. Len(t) : i + k \in 1 .. Len(s) /\ t[i] = s[i + k]
  BY <1>1 DEF IsRestOf
<1>3. t \in Seq(Outgoing) /\ Len(t) \in Nat /\ Len(s) \in Nat
  BY <1>1 DEF IsRestOf
<1>4. ASSUME mcu.phase = "setup" PROVE t = <<>>
  <2>1. Len(s) = 0
    BY <1>1, <1>4 DEF McuInv, SentInPhase
  <2>2. Len(t) = 0
    BY <1>2, <1>3, <2>1
  <2> QED
    BY <1>3, <2>2
<1>5. ASSUME mcu.phase \in {"identified", "failed", "restart"}, NEW i \in 1 .. Len(t) PROVE t[i].what = "emergency_stop"
  <2>1. \A j \in 1 .. Len(s) : s[j].what = "emergency_stop"
    BY <1>1, <1>5 DEF McuInv, SentInPhase
  <2> QED
    BY <1>2, <2>1
<1>6. ASSUME mcu.phase = "asked", NEW i \in 1 .. Len(t) PROVE t[i].what \in {"get_config", "emergency_stop"}
  <2>1. \A j \in 1 .. Len(s) : s[j].what \in {"get_config", "emergency_stop"}
    BY <1>1, <1>6 DEF McuInv, SentInPhase
  <2> QED
    BY <1>2, <2>1
<1>7. ASSUME mcu.phase = "ready", NEW i \in 1 .. Len(t) PROVE t[i].what \in {"set", "emergency_stop"}
  <2>1. \A j \in 1 .. Len(s) : s[j].what \in {"set", "emergency_stop"}
    BY <1>1, <1>7 DEF McuInv, SentInPhase
  <2> QED
    BY <1>2, <2>1
<1>8. ASSUME mcu.phase = "asked again", NEW i \in 1 .. Len(t)
      PROVE  /\ t[i].what = "finalize" => t[i].oid = mcu.config
             /\ t[i].what \in {"get_config", "emergency_stop"} \/ \E j \in i + 1 .. Len(t) : t[j].what = "get_config"
  <2>1. i + k \in 1 .. Len(s) /\ t[i] = s[i + k]
    BY <1>2
  <2>2. /\ s[i + k].what = "finalize" => s[i + k].oid = mcu.config
        /\ s[i + k].what \in {"get_config", "emergency_stop"}
             \/ \E j \in (i + k) + 1 .. Len(s) : s[j].what = "get_config"
    BY <1>1, <1>8, <2>1 DEF McuInv, SentInPhase
  <2>3. \A j \in (i + k) + 1 .. Len(s) : j - k \in i + 1 .. Len(t) /\ j - k \in 1 .. Len(t) /\ (j - k) + k = j
    BY <1>2, <1>3
  <2>4. \A j \in (i + k) + 1 .. Len(s) : j - k \in i + 1 .. Len(t) /\ t[j - k] = s[j]
    BY <1>2, <2>3
  <2> QED
    BY <2>1, <2>2, <2>4
<1>9. mcu'.phase = mcu.phase /\ mcu'.config = mcu.config /\ outbound' = t
  BY <1>1
<1> QED
  BY <1>4, <1>5, <1>6, <1>7, <1>8, <1>9 DEF SentInPhase

\* Messages in a row
LEMMA ConcatFacts ==
  ASSUME NEW S, NEW u \in Seq(S), NEW w \in Seq(S), NEW v, v = u \o w
  PROVE  /\ v \in Seq(S) /\ Len(u) \in Nat /\ Len(w) \in Nat
         /\ \A i \in 1 .. Len(v) : (i \in 1 .. Len(u) /\ v[i] = u[i]) \/ (i - Len(u) \in 1 .. Len(w) /\ v[i] = w[i - Len(u)])
         /\ \A i \in 1 .. Len(w) : Len(u) + i \in 1 .. Len(v) /\ v[Len(u) + i] = w[i]
         /\ \A i \in 1 .. Len(u) : i \in 1 .. Len(v) /\ v[i] = u[i]
<1>1. PICK n, k : n = Len(u) /\ k = Len(w)
  OBVIOUS
<1>2. n \in Nat /\ k \in Nat /\ v \in Seq(S) /\ Len(v) = n + k
      /\ \A i \in 1 .. n + k : v[i] = IF i <= n THEN u[i] ELSE w[i - n]
  BY <1>1, ConcatProperties
<1>3. ASSUME NEW i \in 1 .. n + k PROVE (i \in 1 .. n /\ v[i] = u[i]) \/ (i - n \in 1 .. k /\ v[i] = w[i - n])
  <2>1. CASE i <= n
    BY <1>2, <2>1
  <2>2. CASE i > n
    BY <1>2, <2>2
  <2> QED
    BY <1>2, <2>1, <2>2
<1>4. ASSUME NEW i \in 1 .. k PROVE n + i \in 1 .. n + k /\ v[n + i] = w[i]
  <2>1. n + i \in 1 .. n + k /\ ~(n + i <= n) /\ (n + i) - n = i
    BY <1>2
  <2>2. v[n + i] = w[(n + i) - n]
    BY <1>2, <2>1
  <2> QED
    BY <2>1, <2>2
<1>5. \A i \in 1 .. n : i \in 1 .. n + k /\ v[i] = u[i]
  BY <1>2
<1> QED
  BY <1>1, <1>2, <1>3, <1>4, <1>5

\* The board moves: what it does not run, or runs, is gone, and it says something.
LEMMA BoardMoves ==
  ASSUME McuTypes, McuInv, mcu' = mcu, session' \in SessionStates, session'.reason = session.reason,
         session'.tries = session.tries, board' \in BoardStates, IsRestOf(outbound', outbound),
         NEW w \in Seq(Incoming), inbound' = inbound \o w, Quiet(w) \/ (OnlyFirst(w) /\ Asking /\ ~Asking'),
         board'.shutdown => Tells(w), NeverFaults', CutStays'
  PROVE  McuTypes' /\ McuInv'
<1>1. PICK s, t, u, v : s = outbound /\ t = outbound' /\ u = inbound /\ v = inbound'
  OBVIOUS
<1>2. u \in Seq(Incoming) /\ v = u \o w
  BY <1>1 DEF McuTypes
<1>3. /\ v \in Seq(Incoming) /\ Len(u) \in Nat /\ Len(w) \in Nat
      /\ \A i \in 1 .. Len(v) : (i \in 1 .. Len(u) /\ v[i] = u[i]) \/ (i - Len(u) \in 1 .. Len(w) /\ v[i] = w[i - Len(u)])
      /\ \A i \in 1 .. Len(w) : Len(u) + i \in 1 .. Len(v) /\ v[Len(u) + i] = w[i]
  BY <1>2, ConcatFacts
<1>4. PICK k \in Nat : Len(s) = Len(t) + k /\ \A i \in 1 .. Len(t) : i + k \in 1 .. Len(s) /\ t[i] = s[i + k]
  BY <1>1 DEF IsRestOf
<1>5. t \in Seq(Outgoing)
  BY <1>1 DEF IsRestOf
<1>6. McuTypes'
  BY <1>1, <1>3, <1>5 DEF McuTypes, SessionStates
<1>7. Asking' => Asking
  BY <1>1, <1>4 DEF Asking
<1>8. \A i, j \in 1 .. Len(t) : t[i].what = "get_config" /\ t[j].what = "get_config" => i = j
  <2>1. \A i, j \in 1 .. Len(s) : s[i].what = "get_config" /\ s[j].what = "get_config" => i = j
    BY <1>1 DEF McuInv, OneQuestion
  <2> SUFFICES ASSUME NEW i \in 1 .. Len(t), NEW j \in 1 .. Len(t), t[i].what = "get_config", t[j].what = "get_config" PROVE i = j
    OBVIOUS
  <2>2. i + k = j + k
    BY <1>4, <2>1
  <2> QED
    BY <2>2
<1>9. \A i, j \in 1 .. Len(u) : u[i].what = "config" /\ u[j].what = "config" => i = j
  BY <1>1 DEF McuInv, OneQuestion
<1>10. OneQuestion'
  <2>1. CASE Quiet(w)
    <3>1. \A i \in 1 .. Len(v) : v[i].what = "config" => i \in 1 .. Len(u) /\ v[i] = u[i]
      BY <1>3, <2>1 DEF Quiet
    <3>2. \A i, j \in 1 .. Len(v) : v[i].what = "config" /\ v[j].what = "config" => i = j
      BY <1>9, <3>1
    <3>3. AnswerComes' => AnswerComes
      BY <1>1, <3>1 DEF AnswerComes
    <3> QED
      BY <1>1, <1>7, <1>8, <3>2, <3>3 DEF McuInv, OneQuestion, Waits
  <2>2. CASE OnlyFirst(w) /\ Asking /\ ~Asking'
    <3>1. Waits /\ ~AnswerComes
      BY <2>2 DEF McuInv, OneQuestion
    <3>2. \A i \in 1 .. Len(u) : u[i].what # "config"
      BY <1>1, <3>1 DEF AnswerComes
    <3>3. ASSUME NEW i \in 1 .. Len(v), v[i].what = "config" PROVE i = Len(u) + 1
      <4>1. i - Len(u) \in 1 .. Len(w) /\ w[i - Len(u)].what = "config"
        BY <1>3, <3>2, <3>3
      <4>2. i - Len(u) = 1
        BY <2>2, <4>1 DEF OnlyFirst
      <4> QED
        BY <1>3, <4>2
    <3>4. \A i, j \in 1 .. Len(v) : v[i].what = "config" /\ v[j].what = "config" => i = j
      BY <3>3
    <3> QED
      BY <1>1, <1>8, <2>2, <3>1, <3>4 DEF OneQuestion, Waits
  <2> QED
    BY <2>1, <2>2
<1>11. SentInPhase'
  BY RestKeepsPhase
<1>12. HostReady'
  BY DEF McuInv, HostReady
<1>13. Noticed'
  <2>1. ASSUME board'.shutdown PROVE ShutdownComes'
    <3>1. PICK i \in 1 .. Len(w) : w[i].what \in {"shutdown", "is_shutdown"}
      BY <2>1 DEF Tells
    <3>2. Len(u) + i \in 1 .. Len(v) /\ v[Len(u) + i].what \in {"shutdown", "is_shutdown"}
      BY <1>3, <3>1
    <3> QED
      BY <1>1, <3>2 DEF ShutdownComes
  <2> QED
    BY <2>1 DEF McuInv, Noticed
<1>14. OnceInARow'
  BY DEF McuInv, OnceInARow
<1> QED
  BY <1>6, <1>10, <1>11, <1>12, <1>13, <1>14 DEF McuInv

\* A shutdown, whatever it is for: from a command, a timer or a sensor
LEMMA ShutsDown ==
  ASSUME McuTypes, McuInv, mcu' = mcu, session' \in SessionStates, session'.reason = session.reason,
         session'.tries = session.tries, session'.cut = session.cut,
         NEW b \in BoardStates, NEW from \in 1 .. Len(outbound) + 1, sched_shutdown(b, from), b.resets = board.resets,
         b.resets = 0 /\ ~session.cut => ~b.error
  PROVE  McuTypes' /\ McuInv'
<1>1. PICK d, r : d = board' /\ r = Report("shutdown")
  OBVIOUS
<1>2. d = [b EXCEPT !.shutdown = TRUE] /\ inbound' = Append(inbound, r)
  BY <1>1 DEF sched_shutdown
<1>3. d \in BoardStates /\ d.shutdown /\ d.error = b.error /\ d.resets = b.resets
  BY <1>2 DEF BoardStates
<1>4. r \in Incoming /\ <<r>> \in Seq(Incoming) /\ Quiet(<<r>>) /\ Tells(<<r>>)
  BY <1>1, ReportFacts
<1>5. inbound' = inbound \o <<r>>
  BY <1>2, <1>4, AppendIsConcat DEF McuTypes
<1>6. IsRestOf(outbound', outbound)
  <2>1. outbound \in Seq(Outgoing)
    BY DEF McuTypes
  <2>2. PICK i \in from .. Len(outbound) + 1 : outbound' = SubSeq(outbound, i, Len(outbound))
    BY DEF sched_shutdown
  <2>3. i \in 1 .. Len(outbound) + 1
    BY <2>1, <2>2
  <2> QED
    BY <2>1, <2>2, <2>3, RestIsSuffix
<1>7. NeverFaults' /\ CutStays'
  BY <1>1, <1>3 DEF NeverFaults, CutStays, Running
<1> QED
  BY <1>1, <1>3, <1>4, <1>5, <1>6, <1>7, BoardMoves

\* The commands a host in each phase has under way
LEMMA HeadInPhase ==
  ASSUME McuTypes, McuInv, outbound # <<>>, NEW c, c = outbound[1], c.what # "emergency_stop"
  PROVE  /\ mcu.phase \in {"asked", "asked again", "ready"}
         /\ mcu.phase = "asked" => c.what = "get_config"
         /\ mcu.phase = "ready" => c.what = "set"
<1>1. 1 \in 1 .. Len(outbound)
  BY TailsOf DEF McuTypes
<1>2. mcu.phase \in Phases
  BY DEF McuTypes, Hosts
<1>3. mcu.phase # "setup"
  BY DEF McuInv, SentInPhase
<1>4. mcu.phase \notin {"identified", "failed", "restart"}
  BY <1>1, ZenonT(40) DEF McuInv, SentInPhase
<1>5. mcu.phase = "asked" => c.what = "get_config"
  BY <1>1 DEF McuInv, SentInPhase
<1>6. mcu.phase = "ready" => c.what = "set"
  BY <1>1 DEF McuInv, SentInPhase
<1> QED
  BY <1>2, <1>3, <1>4, <1>5, <1>6 DEF Phases

\* What a command that fits makes of the board
Fitting(b, c, d) ==
  /\ c.what # "config" => d.objects = b.objects
  /\ c.what # "allocate" => d.oids = b.oids
  /\ c.what = "allocate" => d.oids \in Nat
  /\ c.what = "config" => b.config = None /\ b.oids \in Nat
  /\ c.what # "finalize" => d.config = b.config /\ d.crc = b.crc
  /\ c.what = "finalize" =>
       d.config = c.oid /\ d.crc \in {c.oid, Byte} /\ \A x : Configured(c.oid, x) <=> x \in b.objects
  /\ c.what \in {"set", "get_config"} => d = b

LEMMA TakesFitting ==
  ASSUME NEW b \in BoardStates, NEW c \in Outgoing, NEW whole \in BOOLEAN, NEW d, d = Done(b, c, whole),
         ~Refuses(b, c), TookWell(b, c, d, whole)
  PROVE  Fitting(b, c, d)
<1>1. CASE c.what = "allocate"
  <2>1. c.oid \in Nat /\ d = [b EXCEPT !.oids = c.oid]
    BY <1>1 DEF TookWell
  <2>2. d.objects = b.objects /\ d.oids \in Nat /\ d.config = b.config /\ d.crc = b.crc
    BY <2>1 DEF BoardStates
  <2> QED
    BY <1>1, <2>2 DEF Fitting
<1>2. CASE c.what = "config"
  <2>1. b.config = None /\ c.oid \in Nat /\ d = [b EXCEPT !.objects = @ \cup {c.oid}]
    BY <1>2 DEF TookWell
  <2>2. ~(c.oid >= b.oids) /\ b.oids \in Int
    BY <1>2 DEF Refuses, BoardStates
  <2>3. b.oids \in Nat
    BY <2>1, <2>2
  <2>4. d.oids = b.oids /\ d.config = b.config /\ d.crc = b.crc
    BY <2>1 DEF BoardStates
  <2> QED
    BY <1>2, <2>1, <2>3, <2>4 DEF Fitting
<1>3. CASE c.what = "finalize"
  <2>1. /\ d = [b EXCEPT !.config = c.oid, !.crc = IF whole THEN c.oid ELSE Byte]
        /\ \A x : Configured(c.oid, x) <=> x \in b.objects
    BY <1>3 DEF TookWell
  <2>2. d.objects = b.objects /\ d.oids = b.oids /\ d.config = c.oid /\ d.crc \in {c.oid, Byte}
    BY <2>1 DEF BoardStates
  <2> QED
    BY <1>3, <2>1, <2>2 DEF Fitting
<1>4. CASE c.what \in {"set", "get_config"}
  <2>1. d = b
    BY <1>4 DEF TookWell
  <2> QED
    BY <1>4, <2>1 DEF Fitting
<1> QED
  BY <1>1, <1>2, <1>3, <1>4 DEF TookWell

\* A board that is all right takes a command that fits and knows what it has to.
LEMMA KnowsStill ==
  ASSUME McuTypes, McuInv, BoardKnows, mcu' = mcu, outbound # <<>>, outbound' = Tail(outbound),
         NEW c, c = outbound[1], c.what # "emergency_stop", NEW whole \in BOOLEAN,
         board' = Done(board, c, whole), inbound' = inbound \o Says(board, c)
  PROVE  BoardKnows'
<1>1. PICK s, t, b, d, u, v, w : /\ s = outbound /\ t = outbound' /\ b = board /\ d = board'
                                /\ u = inbound /\ v = inbound' /\ w = Says(board, c)
  OBVIOUS
<1>2. s \in Seq(Outgoing) /\ s # <<>> /\ t = Tail(s) /\ b \in BoardStates /\ u \in Seq(Incoming) /\ v = u \o w
  BY <1>1 DEF McuTypes
<1>3. /\ t \in Seq(Outgoing) /\ Len(s) \in Nat /\ Len(s) > 0 /\ c \in Outgoing /\ c = s[1] /\ 1 \in 1 .. Len(s)
      /\ \A i \in 1 .. Len(s) : i = 1 \/ (i - 1 \in 1 .. Len(t) /\ t[i - 1] = s[i])
  BY <1>1, <1>2, TailsOf, TailFacts
<1>4. AllFit(b, s) /\ Whole(b) /\ Counted(b) /\ CrcFits(b)
  BY <1>1 DEF BoardKnows
<1>5. d = Done(b, c, whole)
  BY <1>1
<1>6. ~Refuses(b, c) /\ TookWell(b, c, d, whole)
  BY <1>2, <1>3, <1>4, <1>5, TakesWell
<1>7. Fitting(b, c, d)
  BY <1>2, <1>3, <1>5, <1>6, TakesFitting
<1>8. AllFit(d, t)
  BY <1>2, <1>3, <1>4, <1>5, TailFits
<1>9. /\ mcu.phase \in {"asked", "asked again", "ready"}
      /\ mcu.phase = "asked" => c.what = "get_config"
      /\ mcu.phase = "ready" => c.what = "set"
  BY <1>1, <1>3, HeadInPhase
<1>10. ASSUME c.what = "finalize" PROVE mcu.phase = "asked again" /\ c.oid = mcu.config /\ c.oid # None /\ ~AnswerComes
  <2>1. mcu.phase = "asked again"
    BY <1>9, <1>10
  <2>2. c.oid = mcu.config
    BY <1>1, <1>3, <1>10, <2>1 DEF McuInv, SentInPhase
  <2>3. Len(mcu.config) >= 1
    BY <2>1 DEF McuInv, HostReady, Complete
  <2>4. c.oid # None
    BY <2>2, <2>3 DEF None
  <2>5. PICK j \in 1 + 1 .. Len(s) : s[j].what = "get_config"
    BY <1>1, <1>3, <1>10, <2>1 DEF McuInv, SentInPhase
  <2>6. j \in 1 .. Len(s)
    BY <1>3
  <2>7. ~AnswerComes
    BY <1>1, <2>5, <2>6 DEF Asking, McuInv, OneQuestion
  <2> QED
    BY <2>1, <2>2, <2>4, <2>7
<1>11. Whole(d)
  <2>1. c.what = "finalize" => \A x : Configured(d.config, x) <=> x \in d.objects
    BY <1>7 DEF Fitting
  <2>2. c.what = "config" => d.config = None
    BY <1>7 DEF Fitting
  <2>3. c.what \notin {"finalize", "config"} => d.config = b.config /\ d.objects = b.objects
    BY <1>7 DEF Fitting
  <2> QED
    BY <1>4, <2>1, <2>2, <2>3 DEF Whole
<1>12. Counted(d)
  <2>1. c.what = "allocate" => d.oids \in Nat
    BY <1>7 DEF Fitting
  <2>2. c.what = "config" => d.oids \in Nat
    BY <1>7 DEF Fitting
  <2>3. c.what \notin {"allocate", "config"} => d.oids = b.oids /\ d.objects = b.objects
    BY <1>7 DEF Fitting
  <2> QED
    BY <1>4, <2>1, <2>2, <2>3 DEF Counted
<1>13. CrcFits(d)
  <2>1. CASE c.what = "finalize"
    BY <1>7, <1>10, <2>1 DEF Fitting, CrcFits
  <2>2. CASE c.what # "finalize"
    BY <1>4, <1>7, <2>2 DEF Fitting, CrcFits
  <2> QED
    BY <2>1, <2>2
<1>14. mcu.phase # "asked again" => d = b
  BY <1>7, <1>9 DEF Fitting
<1>15. mcu.phase # "asked again" => Settled(d)
  BY <1>1, <1>14 DEF BoardKnows
<1>16. mcu.phase = "asked again" => d.config = mcu.config \/ FinalizeComes'
  <2> SUFFICES ASSUME mcu.phase = "asked again", c.what # "finalize" PROVE d.config = mcu.config \/ FinalizeComes'
    BY <1>7, <1>10 DEF Fitting
  <2>1. b.config = mcu.config \/ FinalizeComes
    BY <1>1 DEF BoardKnows
  <2>2. ASSUME FinalizeComes PROVE FinalizeComes'
    <3>1. PICK i \in 1 .. Len(s) : s[i].what = "finalize"
      BY <1>1, <2>2 DEF FinalizeComes
    <3>2. i # 1
      BY <1>3, <3>1
    <3>3. i - 1 \in 1 .. Len(t) /\ t[i - 1].what = "finalize"
      BY <1>3, <3>1, <3>2
    <3> QED
      BY <1>1, <3>3 DEF FinalizeComes
  <2>3. d.config = b.config
    BY <1>7 DEF Fitting
  <2> QED
    BY <2>1, <2>2, <2>3
<1>17. Waits => \A i \in 1 .. Len(v) : v[i].what = "config" => v[i].config = d.crc
  <2> SUFFICES ASSUME Waits, NEW i \in 1 .. Len(v), v[i].what = "config" PROVE v[i].config = d.crc
    OBVIOUS
  <2>0. b \in BoardStates /\ w = Says(b, c)
    BY <1>1, <1>2
  <2>1. w \in Seq(Incoming) /\ (c.what # "get_config" => Quiet(w))
        /\ \A j \in 1 .. Len(w) : w[j].what = "config" => w[j].config = b.crc
    BY <2>0, SaysFacts, Zenon
  <2>2. (i \in 1 .. Len(u) /\ v[i] = u[i]) \/ (i - Len(u) \in 1 .. Len(w) /\ v[i] = w[i - Len(u)])
    BY <1>2, <2>1, ConcatFacts
  <2>3. CASE i \in 1 .. Len(u) /\ v[i] = u[i]
    <3>1. v[i].config = b.crc /\ AnswerComes
      BY <1>1, <2>3 DEF BoardKnows, AnswerComes
    <3>2. c.what # "finalize"
      BY <1>10, <3>1
    <3> QED
      BY <1>7, <3>1, <3>2 DEF Fitting
  <2>4. CASE i - Len(u) \in 1 .. Len(w) /\ v[i] = w[i - Len(u)]
    <3>1. w[i - Len(u)].config = b.crc /\ c.what = "get_config"
      BY <2>1, <2>4 DEF Quiet
    <3> QED
      BY <1>7, <2>4, <3>1 DEF Fitting
  <2> QED
    BY <2>2, <2>3, <2>4
<1>18. mcu.phase = "ready" => d.config = mcu.config
  BY <1>1, <1>14 DEF BoardKnows
<1>19. AllFit(board', outbound') /\ Whole(board') /\ Counted(board') /\ CrcFits(board')
  BY <1>1, <1>8, <1>11, <1>12, <1>13
<1> QED
  BY <1>1, <1>15, <1>16, <1>17, <1>18, <1>19 DEF BoardKnows, Waits

\* A board that is partly configured only answers, or it faults.
LEMMA CutStill ==
  ASSUME McuTypes, McuInv, CutShort, mcu' = mcu, outbound # <<>>, outbound' = Tail(outbound),
         NEW c, c = outbound[1], c.what # "emergency_stop", NEW whole \in BOOLEAN, ~Refuses(board, c),
         board' = Done(board, c, whole), inbound' = inbound \o Says(board, c)
  PROVE  CutShort'
<1>1. PICK b, u, v, w : b = board /\ u = inbound /\ v = inbound' /\ w = Says(board, c)
  OBVIOUS
<1>2. b \in BoardStates /\ u \in Seq(Incoming) /\ v = u \o w /\ b.oids \in Nat /\ b.crc = None /\ mcu.phase # "ready"
  BY <1>1 DEF McuTypes, CutShort
<1>7. b.oids >= 0
  BY <1>2
<1>3. mcu.phase # "asked again"
  <2> SUFFICES ASSUME mcu.phase = "asked again" PROVE FALSE
    OBVIOUS
  <2>1. c.what = "allocate"
    BY DEF CutShort
  <2> QED
    BY <1>1, <1>7, <2>1 DEF Refuses
<1>4. mcu.phase = "asked" /\ c.what = "get_config"
  BY <1>2, <1>3, HeadInPhase
<1>5. board' = b
  BY <1>1, <1>4 DEF Done
<1>6. ASSUME NEW i \in 1 .. Len(v), v[i].what = "config" PROVE v[i].config = None
  <2>0. b \in BoardStates /\ w = Says(b, c)
    BY <1>1, <1>2
  <2>1. w \in Seq(Incoming) /\ \A j \in 1 .. Len(w) : w[j].what = "config" => w[j].config = b.crc
    BY <2>0, SaysFacts, Zenon
  <2>2. (i \in 1 .. Len(u) /\ v[i] = u[i]) \/ (i - Len(u) \in 1 .. Len(w) /\ v[i] = w[i - Len(u)])
    BY <1>2, <2>1, ConcatFacts
  <2>3. \A j \in 1 .. Len(u) : u[j].what = "config" => u[j].config = None
    BY <1>1 DEF CutShort
  <2> QED
    BY <1>2, <1>6, <2>1, <2>2, <2>3
<1> QED
  BY <1>1, <1>2, <1>4, <1>5, <1>6 DEF CutShort

LEMMA BoardTakesStep ==
  ASSUME McuTypes, McuInv, BoardTakes
  PROVE  McuTypes' /\ McuInv'
<1>1. PICK c : c = Head(outbound)
  OBVIOUS
<1>2. outbound # <<>> /\ mcu' = mcu
  BY DEF BoardTakes
<1>3. /\ c \in Outgoing /\ c = outbound[1] /\ outbound \in Seq(Outgoing) /\ 1 \in 1 .. Len(outbound) /\ Len(outbound) \in Nat
      /\ board \in BoardStates /\ session \in SessionStates
  BY <1>1, <1>2, TailsOf DEF McuTypes, SessionStates
<1>4. CASE Refuses(board, c) \/ c.what = "emergency_stop"
  <2>1. PICK z, y, b, e : /\ z = session /\ y = session' /\ b = [board EXCEPT !.error = @ \/ (~board.shutdown /\ Refuses(board, c))]
                         /\ e = (board.error \/ (~board.shutdown /\ Refuses(board, c)))
    OBVIOUS
  <2>2. sched_shutdown(b, 2) /\ y = [z EXCEPT !.missed = FALSE]
    BY <1>1, <1>4, <2>1 DEF BoardTakes
  <2>3. e \in BOOLEAN
    <3>1. board.error \in BOOLEAN
      BY <1>3 DEF BoardStates
    <3> QED
      BY <2>1, <3>1
  <2>4. b = [board EXCEPT !.error = e]
    BY <2>1
  <2>5. b \in BoardStates /\ b.resets = board.resets /\ b.error = e
    BY <1>3, <2>3, <2>4 DEF BoardStates
  <2>6. y \in SessionStates /\ y.reason = z.reason /\ y.tries = z.tries /\ y.cut = z.cut
    BY <1>3, <2>1, <2>2 DEF SessionStates
  <2>7. ASSUME board.resets = 0, ~session.cut PROVE ~e
    <3>1. ~board.error
      BY <2>7 DEF McuInv, NeverFaults
    <3>2. ASSUME ~board.shutdown PROVE ~Refuses(board, c)
      <4>1. CASE c.what = "emergency_stop"
        BY <4>1 DEF Refuses
      <4>2. CASE c.what # "emergency_stop"
        <5>1. AllFit(board, outbound)
          BY <2>7, <3>2 DEF McuInv, NeverFaults, Running, BoardKnows
        <5> QED
          BY <1>3, <4>2, <5>1, TakesWell
      <4> QED
        BY <4>1, <4>2
    <3> QED
      BY <2>1, <3>1, <3>2
  <2>8. 2 \in 1 .. Len(outbound) + 1
    BY <1>3
  <2> QED
    BY <1>2, <2>1, <2>2, <2>5, <2>6, <2>7, <2>8, ShutsDown
<1>5. CASE ~Refuses(board, c) /\ c.what # "emergency_stop"
  <2>1. PICK z, y, b, e, w : /\ z = session /\ y = session' /\ b = board /\ w = Says(board, c)
                            /\ e = (session.missed /\ ~board.shutdown)
    OBVIOUS
  <2>2. /\ outbound' = Tail(outbound) /\ inbound' = inbound \o w
        /\ y = [z EXCEPT !.missed = e] /\ \E whole \in BOOLEAN : board' = Done(board, c, whole)
    BY <1>1, <1>5, <2>1 DEF BoardTakes
  <2>3. PICK whole \in BOOLEAN : board' = Done(board, c, whole)
    BY <2>2
  <2>4. SameBoard(board', board)
    BY <1>3, <1>5, <2>3, DoneTypes
  <2>5. w \in Seq(Incoming) /\ OnlyFirst(w) /\ (c.what # "get_config" => Quiet(w)) /\ (board.shutdown => Tells(w))
    BY <1>3, <2>1, SaysFacts
  <2>6. y \in SessionStates /\ y.reason = z.reason /\ y.tries = z.tries /\ y.cut = z.cut
    <3>1. e \in BOOLEAN
      BY <1>3, <2>1 DEF SessionStates
    <3> QED
      BY <1>3, <2>1, <2>2, <3>1 DEF SessionStates
  <2>7. IsRestOf(outbound', outbound)
    BY <1>2, <1>3, <2>2, TailIsSuffix
  <2>8. NeverFaults'
    <3>1. Running' /\ ~session'.cut => BoardKnows'
      <4> SUFFICES ASSUME Running, ~session.cut PROVE BoardKnows'
        BY <2>1, <2>4, <2>6 DEF Running, SameBoard
      <4>1. BoardKnows
        BY DEF McuInv, NeverFaults
      <4> QED
        BY <1>2, <1>3, <1>5, <2>1, <2>2, <2>3, <4>1, KnowsStill
    <3> QED
      BY <2>1, <2>4, <2>6, <3>1 DEF McuInv, NeverFaults, SameBoard
  <2>9. CutStays'
    <3> SUFFICES ASSUME Running, session.cut PROVE CutShort'
      BY <2>1, <2>4, <2>6 DEF Running, SameBoard, CutStays
    <3>1. CutShort
      BY DEF McuInv, CutStays
    <3> QED
      BY <1>2, <1>3, <1>5, <2>1, <2>2, <2>3, <3>1, CutStill
  <2>10. ASSUME c.what = "get_config" PROVE Asking /\ ~Asking'
    <3>1. PICK s, t : s = outbound /\ t = outbound'
      OBVIOUS
    <3>2. /\ \A i \in 1 .. Len(t) : i + 1 \in 1 .. Len(s) /\ t[i] = s[i + 1]
          /\ s \in Seq(Outgoing) /\ t \in Seq(Outgoing) /\ Len(t) \in Nat
      BY <1>2, <1>3, <2>2, <3>1, TailsOf
    <3>3. \A i \in 1 .. Len(s) : s[i].what = "get_config" => i = 1
      BY <1>3, <2>10, <3>1 DEF McuInv, OneQuestion
    <3>4. ASSUME NEW i \in 1 .. Len(t), t[i].what = "get_config" PROVE FALSE
      <4>1. i + 1 = 1
        BY <3>2, <3>3, <3>4
      <4> QED
        BY <3>2, <4>1
    <3> QED
      BY <1>3, <2>10, <3>1, <3>4 DEF Asking
  <2> QED
    BY <1>2, <2>1, <2>2, <2>4, <2>5, <2>6, <2>7, <2>8, <2>9, <2>10, BoardMoves DEF SameBoard
<1> QED
  BY <1>4, <1>5

LEMMA BoardStopsStep ==
  ASSUME McuTypes, McuInv, BoardStops
  PROVE  McuTypes' /\ McuInv'
<1>1. sched_shutdown(board, 1) /\ mcu' = mcu /\ session' = [session EXCEPT !.faults = @ + 1, !.missed = FALSE]
  BY DEF BoardStops
<1>2. board \in BoardStates /\ session \in SessionStates /\ 1 \in 1 .. Len(outbound) + 1
  BY DEF McuTypes, SessionStates
<1>3. session' \in SessionStates /\ session'.reason = session.reason /\ session'.tries = session.tries /\ session'.cut = session.cut
  <2>1. PICK z, y, n : z = session /\ y = session' /\ n = session.faults + 1
    OBVIOUS
  <2>2. z \in SessionStates /\ n \in Nat
    BY <1>2, <2>1 DEF SessionStates
  <2>3. y = [z EXCEPT !.faults = n, !.missed = FALSE]
    BY <1>1, <2>1
  <2>4. y \in SessionStates /\ y.reason = z.reason /\ y.tries = z.tries /\ y.cut = z.cut
    BY <2>2, <2>3 DEF SessionStates
  <2> QED
    BY <2>1, <2>4
<1>4. board.resets = 0 /\ ~session.cut => ~board.error
  BY DEF McuInv, NeverFaults
<1> QED
  BY <1>1, <1>2, <1>3, <1>4, ShutsDown

LEMMA BoardResetsStep ==
  ASSUME McuTypes, McuInv, BoardResets
  PROVE  McuTypes' /\ McuInv'
<1>1. PICK n, r : n = board.resets + 1 /\ r = Report("starting")
  OBVIOUS
<1>2. /\ board' = [Blank EXCEPT !.resets = n] /\ mcu' = mcu /\ outbound' = outbound /\ inbound' = Append(inbound, r)
      /\ session' = [session EXCEPT !.faults = @ + 1]
  BY <1>1 DEF BoardResets
<1>3. n \in Nat /\ n # 0 /\ session \in SessionStates
  BY <1>1 DEF McuTypes, BoardStates, SessionStates
<1>4. board' \in BoardStates /\ IsBlank(board') /\ board'.resets # 0
  BY <1>2, <1>3, BlankFacts
<1>5. session' \in SessionStates /\ session'.reason = session.reason /\ session'.tries = session.tries
  BY <1>2, <1>3 DEF SessionStates
<1>6. r \in Incoming /\ <<r>> \in Seq(Incoming) /\ Quiet(<<r>>)
  BY <1>1, ReportFacts
<1>7. inbound' = inbound \o <<r>>
  BY <1>2, <1>6, AppendIsConcat DEF McuTypes
<1>8. IsRestOf(outbound', outbound)
  BY <1>2, WholeIsSuffix DEF McuTypes
<1>9. NeverFaults' /\ CutStays'
  BY <1>4 DEF NeverFaults, CutStays, Running
<1>10. ~board'.shutdown
  BY <1>4 DEF IsBlank
<1> QED
  BY <1>2, <1>4, <1>5, <1>6, <1>7, <1>8, <1>9, <1>10, BoardMoves

-----------------------------------------------------------------------------
(* The boards                                                              *)

\* The parts are of the kinds that configure themselves.
BoardsAssumed == Kinds \subseteq PartKinds

LEMMA InitBoards == InitMcu => McuTypes /\ McuInv
<1> SUFFICES ASSUME InitMcu PROVE McuTypes /\ McuInv
  OBVIOUS
<1>1. PICK method \in Methods : mcu = NewMcu(method)
  BY DEF InitMcu
<1>2. PICK m, b : m = NewMcu(method) /\ b = board
  OBVIOUS
<1>3. m \in Hosts /\ Assembled(m, 0) /\ m.phase = "setup" /\ ~m.is_shutdown /\ m.printer = "up" /\ mcu = m
  BY <1>1, <1>2, NewHost
<1>4. outbound = <<>> /\ inbound = <<>> /\ Len(<<>>) = 0
  BY DEF InitMcu
<1>5. /\ session \in SessionStates /\ session.tries = 0 /\ session.reason = "startup" /\ ~session.cut
  BY DEF InitMcu, SessionStates, Reasons
<1>6. b \in BoardStates /\ b.config = None /\ b.oids = -1 /\ b.objects = {} /\ ~b.error /\ ~b.shutdown /\ b.crc = None
  <2>1. b = [Blank EXCEPT !.resets = 0] /\ 0 \in Nat
    <3>1. b = Blank
      BY <1>2 DEF InitMcu
    <3>2. Blank = [Blank EXCEPT !.resets = 0]
      <4>1. PICK o, k, e, n : o = {} /\ k = -1 /\ e = <<>> /\ n = 0
        OBVIOUS
      <4>2. Blank = [config |-> e, crc |-> e, oids |-> k, objects |-> o, shutdown |-> FALSE, resets |-> n, error |-> FALSE]
        BY <4>1 DEF Blank, None
      <4>3. [Blank EXCEPT !.resets = n]
              = [config |-> e, crc |-> e, oids |-> k, objects |-> o, shutdown |-> FALSE, resets |-> n, error |-> FALSE]
        BY <4>1 DEF Blank, None
      <4> QED
        BY <4>1, <4>2, <4>3
    <3> QED
      BY <3>1, <3>2
  <2>2. b \in BoardStates /\ IsBlank(b)
    BY <2>1, BlankFacts
  <2> QED
    BY <2>2 DEF IsBlank
<1>7. McuTypes
  BY <1>2, <1>3, <1>4, <1>5, <1>6 DEF McuTypes, SessionStates
<1>8. OneQuestion /\ SentInPhase /\ HostReady /\ Noticed /\ OnceInARow
  <2>1. \A i \in 1 .. 0 : FALSE
    OBVIOUS
  <2>2. OneQuestion
    BY <1>4, <2>1 DEF OneQuestion, Asking, AnswerComes
  <2>3. SentInPhase /\ HostReady
    BY <1>3, <1>4 DEF SentInPhase, HostReady
  <2>4. Noticed
    BY <1>2, <1>3, <1>6 DEF Noticed
  <2>5. OnceInARow
    BY <1>3, <1>5 DEF OnceInARow
  <2> QED
    BY <2>2, <2>3, <2>4, <2>5
<1>9. BoardKnows
  <2>1. AllFit(b, <<>>) /\ Whole(b) /\ Settled(b) /\ Counted(b) /\ CrcFits(b)
    BY <1>4, <1>6 DEF AllFit, Whole, Settled, Counted, CrcFits
  <2> QED
    BY <1>2, <1>3, <1>4, <2>1 DEF BoardKnows, Waits
<1>10. NeverFaults /\ CutStays
  BY <1>2, <1>5, <1>6, <1>9 DEF NeverFaults, CutStays
<1> QED
  BY <1>7, <1>8, <1>10 DEF McuInv

LEMMA NextBoards ==
  ASSUME BoardsAssumed, McuTypes, McuInv, [NextMcu]_mcu_vars
  PROVE  McuTypes' /\ McuInv'
<1>1. ASSUME NEW kind \in Kinds, MakePart(kind) PROVE McuTypes' /\ McuInv'
  BY <1>1, MakePartStep DEF BoardsAssumed
<1>2. ASSUME NEW i \in DOMAIN mcu.parts, WriteEarly(i) PROVE McuTypes' /\ McuInv'
  BY <1>2, WriteEarlyStep
<1>3. ASSUME NEW i \in DOMAIN mcu.parts, Write(i) PROVE McuTypes' /\ McuInv'
  BY <1>3, WriteStep
<1>4. ASSUME Identify \/ Connect \/ Receive \/ PrinterStops \/ EmergencyStop PROVE McuTypes' /\ McuInv'
  BY <1>4, IdentifyStep, ConnectStep, ReceiveStep, PrinterStopsStep, EmergencyStopStep
<1>5. ASSUME AskAgain \/ GiveUp \/ ReportLost PROVE McuTypes' /\ McuInv'
  BY <1>5, AskAgainStep, GiveUpStep, ReportLostStep
<1>6. ASSUME Restart \/ RestartMcu PROVE McuTypes' /\ McuInv'
  BY <1>6, RestartSteps
<1>7. ASSUME BoardTakes \/ BoardStops \/ BoardResets PROVE McuTypes' /\ McuInv'
  BY <1>7, BoardTakesStep, BoardStopsStep, BoardResetsStep
<1>8. ASSUME UNCHANGED mcu_vars PROVE McuTypes' /\ McuInv'
  <2>1. mcu' = mcu /\ session' = session /\ outbound' = outbound /\ inbound' = inbound /\ board' = board
    BY <1>8 DEF mcu_vars
  <2>2. mcu' \in Hosts /\ session' \in SessionStates
    BY <2>1 DEF McuTypes, SessionStates
  <2>3. HostReady' /\ Noticed'
    BY <2>1 DEF McuInv, HostReady, Noticed, Waits, ShutdownComes, Asking
  <2> QED
    BY <2>1, <2>2, <2>3, HostMoves
<1> QED
  BY <1>1, <1>2, <1>3, <1>4, <1>5, <1>6, <1>7, <1>8 DEF NextMcu

(* A board the host takes for configured, and that neither reset nor shut    *)
(* down since, has the configuration of this very host; as long as no host   *)
(* was stopped with its configuration partly delivered, the commands of the  *)
(* host never make it fault, whatever the parts and the order in which they  *)
(* were made and written to; it is restarted at most once in a row; and one  *)
(* that has shut down does not stay so unnoticed, unless its last report was *)
(* lost (controller.py _connect, _send_config, _handle_shutdown;             *)
(* cmds_base.c, sched.c sched_shutdown).                                     *)
THEOREM BoardAlwaysConfigured ==
  ASSUME BoardsAssumed
  PROVE  SpecMcu => [](RunsOwnConfig /\ CommandsFit /\ RestartsOnce /\ FaultIsTold)
<1>1. InitMcu => McuTypes /\ McuInv
  BY InitBoards
<1>2. McuTypes /\ McuInv /\ [NextMcu]_mcu_vars => (McuTypes /\ McuInv)'
  BY NextBoards
<1>3. McuTypes /\ McuInv => RunsOwnConfig /\ CommandsFit /\ RestartsOnce /\ FaultIsTold
  <2> SUFFICES ASSUME McuTypes, McuInv PROVE RunsOwnConfig /\ CommandsFit /\ RestartsOnce /\ FaultIsTold
    OBVIOUS
  <2>1. RunsOwnConfig
    <3> SUFFICES ASSUME mcu.phase = "ready", Running PROVE board.config = mcu.config
      BY DEF RunsOwnConfig, Running
    <3>1. ~session.cut
      BY DEF McuInv, CutStays, CutShort
    <3>2. BoardKnows
      BY <3>1 DEF McuInv, NeverFaults
    <3> QED
      BY <3>2 DEF BoardKnows
  <2>2. CommandsFit
    BY DEF CommandsFit, McuInv, NeverFaults
  <2>3. RestartsOnce
    BY DEF RestartsOnce, McuInv, OnceInARow
  <2>4. FaultIsTold
    <3>1. DOMAIN inbound = 1 .. Len(inbound)
      BY DEF McuTypes
    <3>2. ShutdownComes => Reported(inbound)
      BY <3>1 DEF ShutdownComes, Reported
    <3>3. mcu.phase = "ready" => ~Waits
      BY DEF Waits
    <3> QED
      BY <3>2, <3>3 DEF FaultIsTold, McuInv, Noticed
  <2> QED
    BY <2>1, <2>2, <2>3, <2>4
<1> QED
  BY <1>1, <1>2, <1>3, PTL DEF SpecMcu

-----------------------------------------------------------------------------
(* The pins                                                                *)

\* An alias stands for a pin, and is none itself.
PinsAssumed == alias2id \in [Aliases -> Ids] /\ Ids \cap Aliases = {}

\* The commands up to the last pin that is wired name pins that are not reserved.
PinsInv ==
  /\ named \in Seq(Ids \cup Aliases)
  /\ stage \in {"config", "identified", "fixing", "configured", "error"}
  /\ \E k \in 0 .. Len(named) :
       /\ DOMAIN wired = 1 .. k
       /\ \A i \in 1 .. k : named[i] \in Ids /\ named[i] \notin DOMAIN reserved
       /\ stage \in {"config", "identified"} => k = 0
       /\ stage = "configured" => k = Len(named)

\* A step other than to rewrite a command keeps what is wired.
LEMMA PinsKeep ==
  ASSUME PinsInv, wired' = wired, named' \in Seq(Ids \cup Aliases), stage' \in {"config", "identified", "error"},
         stage \in {"config", "identified"}
  PROVE  PinsInv'
<1>1. PICK k \in 0 .. Len(named) :
         /\ DOMAIN wired = 1 .. k
         /\ \A i \in 1 .. k : named[i] \in Ids /\ named[i] \notin DOMAIN reserved
         /\ stage \in {"config", "identified"} => k = 0
  BY DEF PinsInv
<1>2. k = 0 /\ DOMAIN wired' = 1 .. 0 /\ 0 \in 0 .. Len(named')
  BY <1>1
<1>3. \A i \in 1 .. 0 : FALSE
  OBVIOUS
<1> QED
  BY <1>2, <1>3 DEF PinsInv

LEMMA FixupKeeps ==
  ASSUME PinsAssumed, PinsInv, NEW i \in 1 .. MaxCommands, Fixup(i)
  PROVE  PinsInv'
<1>1. PICK k \in 0 .. Len(named) :
        /\ DOMAIN wired = 1 .. k
        /\ \A j \in 1 .. k : named[j] \in Ids /\ named[j] \notin DOMAIN reserved
  BY DEF PinsInv
<1>2. PICK s, n : s = named /\ n = Len(named)
  OBVIOUS
<1>3. s \in Seq(Ids \cup Aliases) /\ n = Len(s) /\ n \in Nat /\ k \in Nat
  BY <1>1, <1>2 DEF PinsInv
<1>4. Cardinality(1 .. k) = k
  <2>1. Cardinality(1 .. k) = IF 1 > k THEN 0 ELSE k - 1 + 1
    BY <1>3, FS_Interval
  <2> QED
    BY <1>3, <2>1
<1>5. i = k + 1 /\ i \in 1 .. n
  BY <1>1, <1>2, <1>3, <1>4 DEF Fixup
<1>6. CASE named[i] \notin DOMAIN active \/ IsReserved(named[i])
  <2>1. stage' = "error" /\ named' = named /\ wired' = wired /\ reserved' = reserved
    BY <1>6 DEF Fixup
  <2> QED
    BY <1>1, <2>1 DEF PinsInv
<1>7. CASE ~(named[i] \notin DOMAIN active \/ IsReserved(named[i]))
  <2> DEFINE p == PinOf(named[i])
  <2>1. /\ named' = [named EXCEPT ![i] = p]
        /\ wired' = Add(wired, i, Params(p, active[named[i]].invert))
        /\ stage' = IF i = Len(named) THEN "configured" ELSE "fixing"
        /\ reserved' = reserved
    BY <1>7 DEF Fixup
  <2>2. p \in Ids /\ p \notin DOMAIN reserved
    <3>1. s[i] \in Ids \cup Aliases
      BY <1>3, <1>5
    <3> QED
      BY <1>2, <1>7, <3>1 DEF PinOf, IsReserved, PinsAssumed
  <2> HIDE DEF p
  <2>3. PICK t : t = named'
    OBVIOUS
  <2>4. t \in Seq(Ids \cup Aliases) /\ Len(t) = n /\ t[i] = p /\ \A j \in 1 .. n : j # i => t[j] = s[j]
    <3>1. t = [s EXCEPT ![i] = p]
      BY <1>2, <2>1, <2>3
    <3> QED
      BY <1>3, <1>5, <2>2, <3>1
  <2>5. DOMAIN wired' = 1 .. i
    <3>1. DOMAIN wired' = DOMAIN wired \cup {i}
      BY <2>1 DEF Add
    <3> QED
      BY <1>1, <1>3, <1>5, <3>1
  <2>6. \A j \in 1 .. i : t[j] \in Ids /\ t[j] \notin DOMAIN reserved
    <3> SUFFICES ASSUME NEW j \in 1 .. i PROVE t[j] \in Ids /\ t[j] \notin DOMAIN reserved
      OBVIOUS
    <3>1. CASE j = i
      BY <2>2, <2>4, <3>1
    <3>2. CASE j # i
      <4>1. j \in 1 .. k /\ j \in 1 .. n
        BY <1>3, <1>5, <3>2
      <4> QED
        BY <1>1, <1>2, <2>4, <3>2, <4>1
    <3> QED
      BY <3>1, <3>2
  <2>7. stage' \in {"fixing", "configured"} /\ (stage' = "configured" => i = n)
    BY <1>2, <2>1
  <2>8. i \in 0 .. Len(t) /\ reserved' = reserved /\ named' = t
    BY <1>3, <1>5, <2>1, <2>3, <2>4
  <2> QED
    BY <2>4, <2>5, <2>6, <2>7, <2>8 DEF PinsInv
<1> QED
  BY <1>6, <1>7

(* A board is not configured to use a pin it keeps for itself, by whatever   *)
(* name the pin was claimed before the board was known (pins.py              *)
(* pin_reserve, _command_fixup).                                             *)
THEOREM ReservedAlwaysUntouched ==
  ASSUME PinsAssumed
  PROVE  SpecPins => []ReservedUntouched
<1>1. InitPins => PinsInv
  <2> SUFFICES ASSUME InitPins PROVE PinsInv
    OBVIOUS
  <2>1. named = <<>> /\ DOMAIN wired = {} /\ stage = "config"
    BY DEF InitPins, Empty
  <2>2. 1 .. 0 = {} /\ 0 \in 0 .. Len(<<>>) /\ Len(<<>>) = 0 /\ <<>> \in Seq(Ids \cup Aliases)
    OBVIOUS
  <2> QED
    BY <2>1, <2>2 DEF PinsInv
<1>2. PinsInv /\ [NextPins]_pins_vars => PinsInv'
  <2> SUFFICES ASSUME PinsInv, [NextPins]_pins_vars PROVE PinsInv'
    OBVIOUS
  <2>1. ASSUME NEW name \in Ids \cup Aliases, NEW share \in Shares, NEW invert \in BOOLEAN, pin_register(name, share, invert)
        PROVE  PinsInv'
    <3>1. /\ wired' = wired /\ stage = "config" /\ stage' \in {"config", "error"}
          /\ named' = named \/ named' = Append(named, name)
      BY <2>1 DEF pin_register
    <3>2. named' \in Seq(Ids \cup Aliases)
      BY <3>1 DEF PinsInv
    <3> QED
      BY <3>1, <3>2, PinsKeep
  <2>2. ASSUME NEW pin \in Ids, NEW function \in Functions_, pin_reserve(pin, function) PROVE PinsInv'
    <3>1. wired' = wired /\ named' = named /\ stage \in {"config", "identified"} /\ stage' \in {"identified", "error"}
      BY <2>2 DEF pin_reserve
    <3>2. named' \in Seq(Ids \cup Aliases)
      BY <3>1 DEF PinsInv
    <3> QED
      BY <3>1, <3>2, PinsKeep
  <2>3. ASSUME NEW i \in 1 .. MaxCommands, Fixup(i) PROVE PinsInv'
    BY <2>3, FixupKeeps
  <2>4. CASE UNCHANGED pins_vars
    BY <2>4 DEF pins_vars, PinsInv
  <2> QED
    BY <2>1, <2>2, <2>3, <2>4 DEF NextPins
<1>3. PinsInv => ReservedUntouched
  BY DEF PinsInv, ReservedUntouched
<1> QED
  BY <1>1, <1>2, <1>3, PTL DEF SpecPins
=============================================================================
